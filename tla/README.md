# z-tracer: TLA+ models of the daemon, its client and the sessions above them

z-tracer shows what a Linux device is doing in a browser. A small C daemon,
`ztracerd`, runs on the device; a Flask application, `app`, runs elsewhere and
asks the daemon, over JSON-RPC on one TCP connection per device, for `/proc`
files, for the output of commands, and for `perf` and `ftrace` recordings. This
directory holds TLA+ modules translated from that code, the TLC configurations
that check them, and proofs for TLAPS.

## 1. Inventory

### The components and how they interact

```
 browser --HTTP--> views (main/*.py) --> Device, Perf, Ftrace --> Zclient
                        |                     ^                     | lock, one socket
                   FlameScope            sampler thread             v
                   (stack, heat map)     (Timer chain)      ztracerd: libev loop
                                                             - jsonrpc-c: connections, buffers
                                                             - main.c: procedures
                                                             - perfpid: one forked command
```

| component | state | operations | calls |
|---|---|---|---|
| asynchronous commands (`ztracerd/main.c` 210-368) | `perfpid`, `perfrunning`, the forked process | `acmdstart`, `perfastart`, `acmdstop`, `acmdcheckdone`, `acmdwait`, `exit` | fork, execvp, kill, waitpid |
| reply buffers (`main.c` 69-208, 370-505) | `procbuf`, `cmdbuf`, `p_cmdbuf`, `perfbuf` | `readfile`, `runcmd`, `acmdresult`, `perfscript`, `seqread` | read, popen and fread, realloc |
| JSON-RPC server (`ztracerd/jsonrpc-c.c`, stream parser of `cJSON.c`) | per connection: buffer, its size, `pos`; the loop | `accept_cb`, `connection_cb`, `close_connection`, `eval_request`, `invoke_procedure`, run and stop | the procedures above; libev |
| JSON-RPC client (`app/zclient/zclient.py`) | `lock`, `sock`, `connect`, `buffersize` | `sendrequest`, `sendrequestraw`, `checkconnect`, wrappers | sockets |
| Device and sampler (`app/device.py`, `app/record/{cpu,mem,task}.py`) | rings of samples, the timer | `start`, `scan_process`, `RecordDate.add` | Zclient, every second |
| perf sessions (`app/record/perf.py`, `app/main/views_perf.py`) | probe name and argument, `perf.stack` | start, stop and poll, script, add and delete probe | Zclient's `acmd*` |
| ftrace analysis (`app/record/ftrace.py`, `views_function.py`) | stack per pid, lists of stacks and latencies, `trace.data` | configure, read, `tostack`, fold, merge, heat map | Zclient's `seqread`, `runcmd` |
| FlameScope (`app/flamescope/util`) | caches by modification time, skip index | `read_offsets`, `generate_heatmap`, `calculate_stack_range`, `generate_stack` | files |
| pages over samples (`views_task.py`, `views_cpu.py`), set-up, templates, scripts | none of their own | lookups and formatting | |
| libev, chart libraries | vendored | | |

### What is hard in this code

* One place for a command (`perfpid`), shared by every client and every page,
  filled by `fork`, freed only when somebody polls; a pid that has been reaped
  belongs to the kernel again.
* A daemon that dies leaves its command alive, with the daemon's listening
  socket and connections in it, for no descriptor is close-on-exec.
* Replies are delimited twice: by a marker in the text, and by the end of the
  JSON text around it. The client looks for the first and needs the second.
* `Zclient` has no timeout. `checkconnect` replaces the socket without the lock.
* Requests arrive in any pieces; the daemon's buffer is grown, shifted and
  wiped by hand.
* Replies are collected in chunks whose last one must leave room for the marker.
* Pages of several users share one Perf object, one command on the device and
  one `perf.stack`; a view may end at any of its calls, and leaves what it did.
* A trace lacks lines, and its threads alternate; trees of calls are rebuilt,
  folded and merged by comparing names and depths.
* Pictures of a recording are drawn from caches in five dictionaries, an index
  that skips lines, and samples that are not quite in order.

The hazards, each at its line and with the properties that cover it, are in
`PROJECT.json`.

### What makes each component correct

* Asynchronous commands: `perfpid` never names a process that is not the
  command; no child is forgotten; one command records at a time on the device;
  a stopped command gives its place back; waiting and restarting end.
* Reply buffers: the marker fits, no read leaves the buffer, and the reply is
  all of what was to be read.
* Server: no byte of a request is lost, whatever the pieces; answers are those
  of the requests, once and in order; only malformed text is refused; clients
  do not hold each other up.
* Client: a call returns the answer of its own request or None; a request runs
  at most once; a live connection is not declared dead; calls return.
* Sampler: the chain of timers goes on; samples are differences of consecutive
  states of one device.
* Perf sessions: a result on display is complete and of the last recording; a
  session records the events it asked for and leaves none behind; views return.
* ftrace: calls are measured with their own times whatever lines are missing,
  and the tree of all calls keeps them.
* FlameScope: caches agree with the file, and no sample of a range is lost.

## 2. Plan

| | module | models | state |
|---|---|---|---|
| A | `CmdSlot`, `AsyncCmd`, `AsyncCmdProofs` | asynchronous commands, abstract and detailed | done, proved |
| B | `RpcCalls`, `Zclient`, `ZclientProofs` | client, abstract and detailed, with network and daemon crashes | done, proved |
| C | `JrpcServer`, `JrpcServerProofs` | connections, buffers, parser, event loop | done, proved |
| D | `ReplyBuffer`, `ReplyBufferProofs` | filling of replies | done, proved |
| E | `Sampler`, `SampleRing`, `SamplerProofs` | timer chain, scans, `profile()`; a ring under a page that reads it | done, proved |
| F | `PerfSession`, `PerfSessionProofs` | pages that share one Perf and one command; composed with `CmdSlot` | done, proved |
| G | `FtraceStack`, `FtraceWalk`, `FtraceWalkProofs` | trees of calls as operators; `tostack` over threads and lost lines | done, proved |
| H | `FlameScope`, `FlameScopeProofs` | caches, range, index, scan, columns | done, proved |

The order follows what can go wrong on a device first (A), then what every
other part rests on (B, C, D), then the parts above it, from the one that runs
all the time (E) to those a user starts. Proved are
the safety properties; what a run checks beyond them is liveness. The loops of G,
whose bounds move, are recursive functions in `FtraceStack`, which the prover
takes, and not RECURSIVE operators, which it does not.

## 3. The modules

`Zclient`, `JrpcServer`, `Sampler`, `PerfSession` and `FtraceWalk` end with a
section on their inductive invariants: what holds in every state, in between the moments of which
the properties speak. Section 5 says what it is for.

### `AsyncCmd` and `CmdSlot`

A handler of the daemon runs to its end in one thread, so it is one action.
`acmdwait` is not: it polls with `sleep(1)`, and between polls the processes of
the machine move while the loop serves nobody (`loop` is `"waiting"`). The reset
of `perfpid` comes a second after the `waitpid` that reaped, hence the state
`"collected"`, in which `perfpid` dangles; the loop is not serving then, and that
is why nothing goes wrong (`SlotOwnsChild`).

* `perfpid`, `perfrunning`: the globals. `fork` may fail; the code keeps -1.
* `proc[p]`: what the process with pid `p` does: `forked` (not yet in execvp),
  `running`, `stopping` (after SIGINT), `zombie`, `free`, or `alien`, an
  unrelated process that got the pid after it was freed.
* `kids`: children not yet reaped; when the daemon dies, init adopts them.
* `Interrupted`: SIGINT kills a child before exec, or a command without a
  handler; `perf` winds down.
* `PortFree`: a restart succeeds only when no command of an earlier daemon
  lives, because it holds the listening socket.
* The undefined behaviour in the child of `perfastart` (writing through an
  element of `argv` that is not initialised) has two outcomes that the rest of
  the system can tell apart: the child reaches exec, or it does not
  (`ExecFails`).

`CmdSlot` is the promise: one job that is none, active or ended; a start is
accepted only when there is none; done is answered only when there is none or
it has ended. `JobOf` is the refinement mapping.

### `Zclient` and `RpcCalls`

Threads are the web workers (which call and reconnect) and the sampler (which
only calls). `pc` follows `sendrequestraw` and `checkconnect` line by line
where another thread can see a difference: taking the lock, `send`, each call
of `recv` (which reads `self.sock` anew: `from`), and its return. The `except`
and `finally` clauses are `Return`.

A reply is three pieces, `body`, `mark` and `tail`; `recv` takes any number of
those that have arrived. A connection is a queue per direction and a state: TCP
may reset it, the daemon may die (a reset if requests were unread, else a FIN,
`Closing`), and a send after a FIN succeeds once. A dead daemon may leave an
`orphan`, a forked command that has the listening socket and the connections
there were when it was forked (`HeldSockets`). Until it ends (`OrphanEnds`),
those connections stay as they are, `held`; a new one is `queued` in the
backlog, where `connect` succeeds and nobody accepts; and no daemon can start. A handler may reply without the marker
(`BareReplies`: NULL results, error objects, the answer to `exit`). Writing to
a dropped connection may kill the daemon (SIGPIPE).

`RpcCalls` is the promise to the callers: each request runs at most once
(`runs`), and each call returns its own answer, after it ran, or None. The
request that greets each new socket is one of its calls.

### `JrpcServer`

`Poll`, `Accept`, `ConnectionCb`, `Respond` and `LoopEnds` are one iteration of
libev. `connection_cb` is two steps: `ConnectionCb` grows the buffer, reads once
and parses at most one request; `Respond` answers it and shifts the buffer, or
refuses and closes. In between the one thread is in the procedure or in `write`
on a blocking socket (`serving`): what it does next may never come, for a
procedure need not come back (`endless`: `acmdwait`, a command without end, a
file whose reading fails) and a client may have stopped reading (`deaf`). A write
to a client that has closed may kill the daemon (`Killed`, SIGPIPE). A request is a string
of bytes of five kinds (open, plain, esc, quoted, close), enough to tell where
the stream parser stops: at the end of the text, at an impossible byte, at the
end of the buffer, or beyond it, when an escape takes the NUL with it. `Shifted`
computes `pos` as the code does, after the memmove.

### `ReplyBuffer`

Bytes are counted: `source` in the file, `taken` read, `cap` allocated, `kept`
before the first NUL of the buffer, which is where `strcat` will append. A
chunk that comes up short leaves a gap of NULs, and then `kept` stays behind
`taken`. A read that fails is followed to the end the code gives it: a memcpy of
-1 bytes, or a loop that does not end. `acmdresult` stands for `perfscript`
too: the loops are the same.

### `Sampler` and `SampleRing`

`Sampler` follows one device. Threads are the web worker, which runs `profile()`
and with it the first two scans, and the timer thread. A scan goes through
`Sections`; each call of the Zclient is a step that is answered or returns None
(`Answered`), and clears the flag if the stream has ended (`Called`). In the
last section every pid costs two calls, `GetStat` and `GetStatus`, between which
the process may end; then comes a final `Stat` whose result nobody looks at.
`Diff` is where exceptions arise, `MustRaise` and `MayRaise` say when: a final
`Stat` that is empty, a process whose sizes the previous sample lacks. An
exception leaves `start` before the timer is armed. Samples carry no values, only
when they were taken, what they were compared with, and what was read of each
pid. The pids modelled are some of those on the device: the list is never empty.

`SampleRing` is one `RecordDate`, where `Sampler` adds in one step: `add` pops
(or counts) and appends, `getline` walks over the list by index. There is no
lock, so the list shifts under the walk. `getlast` looks the last sample up
twice, once for the time and once for the value, with steps of `add` in between
(`LastTime`, `LastValue`). Its names differ from those of `Sampler`
(`RingInit`, `RingLen` for the `len` that is `LEN` there) because `SamplerProofs`
extends both.

### `PerfSession`

The web server has one worker, so requests of all pages are handled one after
the other; but between two calls of a view the device and the network move, and
between two requests of one page those of others come. `pc` is the call the
view makes next, `view` the request with its form.

* The daemon's place for a command is `CmdSlot` (`Daemon == INSTANCE CmdSlot`),
  whose steps the calls take: `AsyncCmd` shows that `ztracerd` implements it.
  So this module composes the pages with the promise of the daemon.
* `Call` is a call of the Zclient: answered; done on the device, but without an
  answer; or neither. `link` tells a connection that the client knows to be
  lost (`off`), which `profile()` restores, from one it does not (`reset`).
  That a call is one step, done at most once, is what `RpcCalls` promises.
* `recorder`, `uses`, `told`, `data`: perf on the device, the events it was told
  to record, whether it got SIGINT, and `perf.data`. A command may end before
  perf begins to record (`unborn`): then `perf.data` is the one of before.
* `probes`: the events on the device. `perf probe` may refuse to add one, and
  cannot delete one that is being recorded. A call may also be answered although
  perf was not run (`Program`): there is no such program, or no process for it.
  `addprobe` looks for nothing but `Error` in what it gets (`AddProbe`):
  perf has the word in what it says when it adds nothing, `sh: perf: not found`
  does not have it, and then the session goes on. `ran` and `swept` are histories of
  whether perf was run for the session, and of whether its cleaning left nothing.
* An empty answer is None when it leaves the wrapper of the Zclient
  (`zclient.py:207`): it raises in `addprobe`, and `perf.stack` is not
  written (`Script`).
* An exception in a view ends it at that call: an answer that is None searched
  for `Error`, no file or no sample to draw, a probe without a name.

### `FtraceStack` and `FtraceWalk`

`FtraceStack` has the class `Stack` as operators: `Fold` (`foldstack`), `Merge`,
`SameNames` (`compare`) and `Listed` (the lists of different trees), with the
loops of the code and their moving bounds: each loop is a function of the number
of rounds, whose value is what the loop has then. `FtraceWalk` runs them: threads of
the device call and return (`calls`), the tracer writes a line or the line is
lost (`Line`), and a line is handled at once, for `tostack` reads lines in the
order of their times. `Commit` is `commit` with all it calls: folding, both
lists, the top tree. `Draw` is the end of the trace with the pictures, of which
only what can raise is modelled. The clock ticks with every line, written or
lost, so a call takes as long as what happens meanwhile, and sums can be
compared.

### `FlameScope`

A request for a picture is one step: there is one worker, and nothing else
writes the file. The state is the file with its time of modification and the
five dictionaries of `heatmap.py` and `stack.py`. A sample is its time, whether
it is idle, and whether its line has an entry in the index (line numbers that
are multiples of a hundred: `indexed`). The unit is a tenth of a second, which
is the overscan. `Graph` gives the samples that end up in the tree; their
stacks are not modelled.

## 4. What the runs check

| run | instance | shows |
|---|---|---|
| `async_cmd` | 3 pids; 5 664 states | `perfpid` never dangles (`SlotOwnsChild`), no child is forgotten, one recorder at a time, stop reaches only the command and frees its place, waits and restarts end, and the daemon implements `CmdSlot`, its liveness included |
| `zclient_safety` | 2 workers and the sampler, 3 sockets, 2 calls, replies without marker, held sockets; 875 000 states with symmetry | a reply cut in two never shifts answers (`StreamInStep`), and the client implements `RpcCalls`; swapping the socket without the lock loses answers but never mixes or repeats them |
| `zclient_live` | 1 worker and the sampler, 3 sockets, 2 calls, held sockets; 25 000 states | no false disconnection; a call that has sent returns; a reconnection ends |
| `jrpc_serial` | 2 clients, 2 requests each of every kind, one without end among them, buffers from 3 bytes; 318 000 states | no byte lost, room for the NUL, answers in order, and every request answered unless the thread is held up for good (`EveryRequestAnswered`) |
| `jrpc_pipelined` | 1 client that does not wait | **violated**: `NothingLost` (below) |
| `jrpc_escape` | 1 client, requests with an escape | **violated**: `ErrorOnlyIfMalformed` (below) |
| `reply_buffers` | chunk 6, marker 2, step 5, up to 20 bytes; 1 469 states | nothing outside the buffers (`InBounds`), what is sent is all there was (`RepliesWhole`); every call is answered unless a read fails |
| `sample_ring` | ring of 3, 8 samples; 62 600 states | a curve goes forward in time (`LineAscends`), lacks at most one entry and is at most one sample behind (`LineCurrent`); the time of `getlast` is never put beside the value of an older sample (`LastPaired`) |
| `sampler` | 1 pid, one plain section and the processes, rings of 2, connections lost at any call, pids used again; 1 271 000 states | every difference is the one to the predecessor in the ring; a scan raises only after a lost connection or a pid that changed its kind; until one raises, samples come whenever the device is connected |
| `perf_session` | 2 functions, 2 recordings; 1 445 000 states | a result on display is whole and of the last recording (`StackCurrent`), a probe session for which perf was run records what was asked (`ProbesAsAsked`) and leaves nothing if it was run to delete, too (`ProbesRemoved`); views return while the connection holds |
| `ftrace_walk` | a thread with calls 4 deep and one that calls the root only, 2 inner functions, up to 9 lines, fewer if some are lost; 621 000 states with symmetry | calls are measured right (`CallsMeasured`), the merged tree keeps the times (`TimesKept`), and what makes the page fail (`NeverRaises`) |
| `flame_scope` | all recordings of up to 3 samples at 5 times, idle or not, indexed or not, 4 ranges, one rewrite; 397 000 states | caches are of the file (`CachesCurrent`), a graph has every sample of its range (`GraphComplete`), and what makes a page fail (`NeverFails`) |

**The bounds.** Three pids are enough for the command, a stranger that has
taken a freed pid, and a third process that must not be disturbed; a fourth
would only repeat the third. In `Zclient` two sockets are the one that failed
and its successor; three let both workers reconnect. Two calls, besides the one
that every new socket is greeted with, put one call in front of another on
the same stream, which is what a shifted answer and a call held up need; `calls`
and `sock` stop there, which is why these configurations switch the deadlock
check off.
In `JrpcServer` the first buffer has 3 bytes and the longest request 4, so it
grows in the middle of a request; two requests are what a
shift needs. With chunk 6 and marker 2, sources up to 20 bytes reach every
position of the end relative to a chunk, over three chunks.
A ring of 3 that takes 8 samples is turned over more than twice. In `Sampler`
the order of samples shows in rings of two; the clock of scans wraps at 2, so
neighbours in time differ. One section of each kind stands
for all, for sections share nothing; pids share nothing either, so one that
comes, ends, and comes back as another process is enough.
In `PerfSession` the second function is what another page probes, and the
second recording is the one that a late poll, stop or result is mixed up with.
In `FtraceWalk` lines have a price (`Cost`, `LossCost`) and a trace a budget
(`Effort`), so that either the trees, the threads or the losses are many: nine
lines of the first thread make two trees with repeated calls to fold and merge;
calls of the second, whose lines cost two, overlap with those of the first. Each
of the three causes in its `NeverRaises` makes the page fail by itself within
these bounds. In `FlameScope` the times are one before, at and after a full
second, one beyond the overscan, and one in the second after; three samples are
an entry of the index, a sample that it skips, and one after the range. With
four samples and one file the properties hold as well (6.2 million states, not
among the runs). The deadlock check is off where the program or the bounds let
the model stop: the chain of timers may end, `exit` stops `JrpcServer`, a
failing read may end the daemon (`ReplyBuffer`), a trace ends with its pictures,
and recordings, files and calls are bounded.

**Fairness.** The daemon's loop between requests, a thread that can go on, a forked child on its
way to exec, a command with a time limit (also one that outlives its daemon,
`OrphanEnds`), and a command that was told to stop do go on: the
kernel schedules them (weak fairness). A client polls `acmdcheckdone` until it
hears done, as the views do in a loop, and somebody restarts a daemon that is
down. The lock of `Zclient` and `accept` have strong fairness: the sampler frees
the lock between its calls, and descriptors come back. In `JrpcServer` a request
in work comes to its end if its procedure does and its client reads; of others
nothing is assumed. A thread that scans or
draws goes on, and an armed timer fires. In `PerfSession` a view goes on as long
as its calls are answered, and a command that was told to stop ends, as
`StopFreesSlot` of `AsyncCmd` shows. Nothing is assumed of the network, of
commands without a time limit, of clients, or of crashes.

**Each property** has a mutant in `PROJECT.json`: a change of one mapped
definition, as a plausible mistake in that code would be, under which the same
run finds the property violated. Their definitions stand before the ones they
replace, marked *Mutant*.

### Where the code departs from what it says

1. `jsonrpc-c.c:182` says the shift discards the processed request. Line 185
   takes `strlen(end_ptr)` after the memmove, when `end_ptr` points into the
   bytes that were moved: if the rest is about as long as the request or longer,
   part of the next request is wiped (`jrpc_pipelined`). `Zclient` never sends
   before it has its answer, and for such clients `jrpc_serial` shows that
   nothing is lost.
2. `jsonrpc-c.c:191` says an incomplete request is waited for. If the first
   part ends with a backslash inside a string, the parser skips the NUL and the
   request is refused (`jrpc_escape`).
### What holds only under a condition

* `task.py:348` ignores whether the final `Stat` was read, `task.py:383` compares
  it: if the connection is lost in between, the exception ends the chain of
  timers (`device.py:50-53`), and `profile()` reconnects and reports success
  without starting it anew. The same exception comes from a pid whose process
  becomes one of another kind. `NeverRaises` and `SamplingGoesOn` of `Sampler`
  name these causes and show that there are no others.
* A curve may skip an entry in the middle that was in the ring all the time:
  `LineCurrent` counts entries, it does not name them. `getlast` may pair the
  time of one sample with the value of a later one (`device.py:27`), by any
  number of samples, but not with that of an older one (`LastPaired`).
* `NoFalseDisconnect` is checked for one web worker. With two it is false: a
  worker that still waits on the old socket clears the flag of the new one.
* `CallReturns` and `ReconnectEnds` exempt calls whose socket was replaced under
  them, and are checked without `BareReplies`: the code has no timeout, so a
  caller of such a request does wait for ever, with the lock held. With
  `HeldSockets` they assume that the orphan ends, which is so if it has a time
  limit: a client that connects meanwhile is queued and its first request waits,
  with the lock held, until the orphan's end resets the connection.
* `EveryRequestAnswered` ends where the thread does not come back (`HeldUp`): the
  daemon has one thread and its sockets block, so a client that does not read its
  answer (`jsonrpc-c.c:38`), `acmdwait` for a command without a time limit
  (`main.c:353`), or a read error in `seqread` (`main.c:473`) stops it for all. What
  the property says is that nothing less does: not a request that has come in
  part, nor one client that asks again and again.
* `StopSparesOthers` excludes `perfpid = -1`: after a failed fork `acmdstop`
  calls `kill(-1)`.
* `RestartServes` and `WaitLetsGo` are about commands with a time limit.
* `EveryCallSent` exempts calls whose read fails (`ReadError`); for `readfile`,
  `RepliesWhole` assumes that reads are full.
* `StackCurrent` excuses a recording that ended before perf began to record
  (a wrong option, no perf, SIGINT before exec or before perf's handler is there,
  `main.c:312`): the page then shows the `perf.data` of the recording before. The
  daemon's answers are the same in both cases, so no property covers this.
* `ProbesAsAsked` is about sessions for whose deleting and adding perf was
  run (`ran`). The view cannot tell: an answer such as `sh: perf: not found` lacks the
  word that `perf.py:110` looks for, and a recording may then start without its
  event. What holds even so is that there is no event of another session, if
  `delallprobe` left none.
* `ProbesRemoved` is about sessions that reach `delprobe`, whose `delallprobe`
  left nothing, and for which perf was run to delete what was added (`swept`). A session that ends by an exception (no sample, no answer)
  leaves its events; `ProbesAsAsked` shows that they do no harm to the next.
* `RequestsReturn` ends where the connection does: the loop of `probestop` asks
  for ever when answers are None, and only another request could reconnect.
* `TimesKept` states equality for trees in which nothing is folded. `merge` adds
  one call and the time of the first repetition, so repeated calls of all trees
  but the first are missing from the sums; `foldstack` compares names without
  depths, so calls may be put below a caller they did not have and take more
  time than it.
* `NeverRaises` of `FtraceWalk` names what makes the page fail: a function called
  at several depths (direct recursion among them), calls of different threads
  that overlap (`list_to_heatmap` takes the first to end for the first to
  begin), or lines lost between others. Lines lost at the beginning, or a trace
  that begins in the middle of a call, do no harm.
* `GraphComplete` covers files whose samples are out of order by up to the
  overscan (a tenth of a second), except within that time after the start of
  the range: the index is searched without an overscan.
* `NeverFails` is about recordings in order, of at least two samples, of which
  the last is not at a full second. Others may have no end (`stack.py:109`) or no
  column for their last sample (`heatmap.py:129`), and the page gets an error.

### What no property is about

Seen while modelling, plain in the code, and without a promise that a property
could state:

* the child of `perfastart` writes its pid through an uninitialised element of
  `argv` (`main.c:240`);
* an error of `send` or a reset does not clear the client's flag, so nothing
  reconnects (`zclient.py:45`);
* a second request in a buffer waits for the next bytes of its client
  (`jsonrpc-c.c:172`);
* a trace that could not be read is replaced by an earlier one (`ftrace.py:332`);
* options of a recording are set and never reset (`views_perf.py:29`);
* the last sample of a file is drawn in the flame graph although it is idle
  (`stack.py:288`).

## 5. What is proved

For every value of the constants, from the named assumptions only
(sizes and bounds are numbers, names that must differ do, files are sequences of
samples, and the pids a scan walks over are finitely many):

* `AsyncCmdProofs`: `Invariance` is `SafeSpec => []IInv`. `SlotOwnsChild` alone
  is not inductive: that the place owns a child depends on there being no
  other child (`NoForgottenChild`), on zombies being children only, on an empty
  place when the daemon is down, and on the pid being a child while
  `acmdwait` waits. `OneRecorder` needs in addition that, while the daemon is
  up, every live command is its child; `PortFree` provides it at a restart.
  `IInv` is the conjunction of these; one lemma per group of actions shows it
  preserved. `TypeCorrect`, `SlotOwned`, `ChildrenKnown` and `RecorderUnique` follow;
  `StopIsSafe` is the action property, from the invariant in the state before.
  `Refinement` maps every step to a step of `CmdSlot` or to a stutter.
* `ReplyBufferProofs`: `Invariance` again. The safety properties speak of the
  end of a loop; `IInv` adds what holds at its head: the string ends where the
  next chunk goes, unless nothing is left (`ChunkHead`). For `readfile` that is
  true only as long as reads were full (`whole`), and what always holds there is
  that the string does not reach beyond the chunk, which is what the room for
  the marker depends on. `BuffersSuffice` and `RepliesComplete`
  follow.
* `SamplerProofs`, of `SampleRing`: `RingInvariance`. What a finished curve
  satisfies depends on where the walk stood when the list last shifted;
  `Underway` says it while the walk is going on: what was collected is not newer
  than what the index has passed, and not older than `newest` by more than what
  is left to pass, because `cnt` never falls and the list is at most one shorter
  than `cnt`. `CurvesAscend`, `CurvesCurrent` and `RingNeverEmptied` follow, and
  `LastSamplePaired`: what the first lookup of `getlast` found is a sample that was
  added (`LastUnderway`), and the list ends with the newest (`Contiguous`) and is
  never empty (`LastExists`), as `add` takes the oldest away and the ring has room
  for two. The bound on samples plays no part.
* `ZclientProofs`: `StreamInStep` speaks of the moments when nobody waits; in
  between, what is on the stream depends on where the call stands. `IInv` says so
  for every socket and thread: who holds the lock is the only one in a call
  (`LockHeld`), a request is on its way or has run but not both (`OneRequest`),
  what a thread has read so far has no marker and no body but its own
  (`ReadSoFar`), and what comes is at most the closing bytes of an earlier reply
  and then the reply (`Coming`). As `checkconnect` replaces `sock` under a
  thread that waits, the socket of its request (`via`) and the one it reads
  (`from`) may differ from `sock`; that nothing is sent on newer ones until it is
  done (`NewerEmpty`) is what makes it harmless. `TypeCorrect`, `InStep` and
  `OneAtATime` follow, and `AsksInTurn`, what the daemon sees of it: a request
  goes out only where none is under way and no answer is owed. `Refinement` is
  `SafeSpec => RpcSpec`: the mapping is by `runs` and `out`, and the step to
  show is that an answer taken for one's own is of a request that ran, which is
  `ReadSoFar`. `HealthyKept` is `NoFalseDisconnect`, assuming `OneWorkerWeb`, as
  under `manage.py runserver` (README.md:34), which serves one request after the
  other; `OnSocketInUse` is its invariant. For two workers it is false.
* `JrpcServerProofs`: `BufferSuffices` holds whatever clients send; that a request in
  work is in its buffer (`InWork`) is part of its invariant. The rest is
  about `SerialClients`, who wait for an answer before they ask again and whose
  requests are one text each (`OneText`: no part of it is a text). The first is
  `AsksInTurn` of `ZclientProofs`; the second is what `json.dumps` writes, and
  `MCJrpcServer` checks it of the requests of the runs; for others `jrpc_pipelined` is a
  counterexample. `SerialIInv` says that a connection has its last request in
  hand, the part read and the part to come being all of it, or that everything
  has been processed (`InStep`), and how a closed one ended (`Ended`).
  `StreamKept` and `AnswersOrdered` follow, for requests of any length read in any
  pieces. They speak of `FlattenSeq` over all requests, which is defined by
  recursion over a sequence: that the recursion has a solution, that two
  solutions agree, and what one more element adds (`FlattenMore`) is shown by
  least counterexamples.
* `SamplerProofs`, of `Sampler`: `DiffedInOrder` needs that only one chain of scans goes on
  (`OneChain`), though the first two scans run in the worker and the others in
  timer threads: `OneScanAtATime`; and that what a scan compared with is still
  the newest when it is added (`Compared`). `NeverRaises` speaks of `quiet`
  behaviours, and needs the history of each pid: one without sizes in the newest
  sample is of a kind that will never have any (`LastSettled`), and the same
  of the sample in work (`NewSettled`, `SizesKept`). `TypeCorrect`,
  `DifferencesInOrder` and `QuietScansEnd` follow.
* `PerfSessionProofs`: `StackCurrent` depends on whom `perf.data` is of in every
  state of the recorder (`DataOf`), on the place being empty from the moment a
  view hears done until it shows (`Emptied`), and on `perf.stack` being removed
  before a start (`Starting`). `ProbesRight` is `ProbesAsAsked`: `Prepared` counts
  the events while they are added, provided that perf was run (`ran`), for the test
  for `Error` does not show that it was; without it only `Swept` remains, that there
  are no events but those asked for. `ProbesGone` is `ProbesRemoved`, from `Swept`. Both are action properties, from the
  invariant in the state before. `DaemonAsPromised` is `SafeSpec =>
  Daemon!SafeSpec`: all that happens to the device's command here is a behaviour
  of `CmdSlot`, the specification that `ztracerd` implements by `Refinement` of
  `AsyncCmdProofs`. The pages thus need no more of the daemon than `CmdSlot` says.
* `FlameScopeProofs`: `Invariance`, from which `KeptIsCurrent`,
  `GraphsComplete` and `OrderedNeverFails` follow for all sets of recordings, all
  places of index entries and all ranges. What is kept must never be newer than
  the file (`Typed`), so that a write makes all of it old; `CachesCurrent` then
  says that a graph drawn from the caches is the one drawn from the file, and
  `GraphHasSamples` that this one is complete. Its argument: the scan begins at
  a sample that is not later than the start of the range (`BeginIsEarly`), so
  what comes before is later by no more than the disorder; and it ends before a
  sample that is later than the end by more than the overscan, so nothing after
  it can be in the range if the disorder is no more than that. That `Least` and
  `Greatest` have values at all needs a well-founded order on numbers
  (`LeastIsLeast`) and a bound on the times of a file (`TimesBounded`), shown by
  a least counterexample. `NeverFails` is inductive with that invariant: of a
  file in order the first time is the least and the last the greatest
  (`InOrder`), and as that one is not at a full second, the columns from the
  second of the first to the end of its second have room for all
  (`ColumnsSuffice`).

* `FtraceWalkProofs`: `Invariance`, from which `CallsMeasuredAlways`,
  `TimesKeptAlways` and `FailsForAReason` follow, for all threads and functions,
  trees of any depth and size and any lines missing. No bound on the depth or the
  effort of a trace is used, only that `Root` is not among the functions it calls.
  The properties speak of trees that are complete; `IInv` says what the tree in
  work has. Of every thread (`InWork`): its first call, and only that, is the
  traced function at depth 0 (`Rooted`), it has no end yet, and it is the call in
  progress if that has a line; so a call that is measured is measured from its own
  beginning, whatever is missing. Of a thread of which no line is missing between
  others (`Followed`): the calls in progress are open in the tree, one at each
  depth, nothing after an open call is beside or above it, and its callees have
  taken no longer than the time from its beginning until the next call in progress
  began, or until now. That is what makes the tree, once complete, one in which
  no call has less time than its callees. Complete trees are folded and
  merged, and the lemmas about the two loops carry the rest:
    * `FoldKeeps`: one fold keeps the sum of the times of each name, as it
      adds what it removes (`TotalFolded`); it moves calls under callers of the same
      names, so every call keeps one above it only if a name has one depth
      (`OneDepth`), which is why `NeverRaises` excuses functions seen at several
      depths (`Reused`).
    * `MergeInduct` takes a property of the state of the loop (both positions and
      the merged part) from its beginning to its end; once the sum of a time and
      None was made, the result raises (`StaysBroken`), and the code reads none
      of it. `MergeRooted`, `MergeParents`, `MergeTimes` and `MergeCovers` are four
      such properties. For the last, a call at the end of the merged part must have room
      for the callees that either tree has yet to bring (`Left`); it has when it is
      taken (`LeftBelow`), for the deeper of two different calls is taken first,
      so what the other tree brings next is not below it.
    * A call that both trees have gets the *first* time of the new one
      (`Both`), hence the `<=` in `MergeTimes` when something was folded.
  `OnTheMap` shows that a list of latencies in the order of the calls has a column
  for each: what remains of `Overlapping`.

The sums, loops and trees have no bound, so their proofs go by induction, on the
number of elements or rounds; each is by a least counterexample (`AllNumbers`,
from the well-foundedness of `<` on numbers), since an induction rule that takes
a predicate as a parameter cannot be used.

The inductive invariants imply the invariants of the runs; being proved they are
not checked by TLC once more.

Only model-checked: the liveness properties, and with them the liveness of
`CmdSlot` (the prover has no fairness); and that `ErrorOnlyIfMalformed`, and
`NothingLost` for clients that do not wait, are false, which a run shows by a
counterexample.

## 6. What is not modelled

Whole components: templates, scripts and formatting, with the JavaScript under
`app/static/js`, which is vendored (Highcharts, a bundle of FlameScope) but for
the folding of the sidebar; the pages of tasks, CPU and memory, which look up
samples; set-up and configuration; the printing side of cJSON; libev, which
appears through what the daemon uses of it. Inside the modelled parts: memory
that runs out in the procedures (realloc is followed by a memset of the result
before it is tested), descriptors leaked by `seqread`, NUL bytes in files, which
cut a reply short, and procedures registered or deregistered while the loop
runs, which the daemon never does;
the values a scan parses, CPUs that come and go during it (a new one makes
`Stat.diff` raise, as do the causes that are modelled), several devices, which
share nothing, and `popen` in `runcmd` beyond its failure.

In `PerfSession`: `/perf/perfscript`, which no page calls; the listings of
functions and arguments that can be probed; the options of a recording, which a
form sets and nothing resets (`views_perf.py:29`); several devices, which share
`perf.stack`. In the ftrace component: the analysis of signals, and the commands
that configure, start, stop and clear the tracer. In FlameScope: the tree into
which stacks are put, the rows of the heat map, and two writes of the file that
the clock of the file system does not tell apart.
