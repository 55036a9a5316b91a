------------------------------ MODULE MCSampler -----------------------------
(* Sampler with a section that is added as it is, and the processes, whose *)
(* scan makes calls of every kind and whose samples are compared.          *)
EXTENDS Sampler

MCSections == <<"loadavg", "processes">>
=============================================================================
