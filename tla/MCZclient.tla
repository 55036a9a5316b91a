----------------------------- MODULE MCZclient ------------------------------
(* Zclient with the threads of the web server as manage.py starts it (one  *)
(* worker) or with a threaded server (two workers).                        *)
EXTENDS Zclient, TLC

CONSTANTS w1, w2, s1

OneWorker == {w1}
TwoWorkers == {w1, w2}
OneSampler == {s1}

\* The workers are alike: no definition tells one from the other.
WorkerSymmetry == Permutations(TwoWorkers)
=============================================================================
