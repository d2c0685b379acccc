------------------------------ MODULE HookPool ------------------------------
(***************************************************************************)
(* User hooks (src/src/hooks.rs): declared commands, run by a few worker   *)
(* threads when the main loop fires a lifecycle event.                     *)
(*                                                                         *)
(* Workers and a shutdown that waits for them share one queue, its lock    *)
(* and one condition variable.  Every step below is a critical section of  *)
(* that lock, or what a thread does outside it.                            *)
(***************************************************************************)
EXTENDS Integers, FiniteSets, Sequences, SequencesExt, FiniteSetsExt

CONSTANTS
    Workers,        \* the worker threads that could be started
    QueueDepth,     \* HOOK_QUEUE_DEPTH
    ArgvMax,        \* HOOK_ARGV_MAX_BYTES
    LogKeep,        \* log files kept for an event
    RawHooks,       \* entries of the configuration: sets of them are loaded
    Payloads,       \* payloads an event is fired with: path -> value
    MaxFires        \* bound: events fired

ASSUME HookAssumption == IsFiniteSet(Workers)

VARIABLES
    by_event,    \* the registered hooks, in order
    firing,      \* hooks the main thread has still to submit, and the payload
    fires,       \* history: events fired
    jobs,        \* HookQueue.jobs
    active,      \* HookQueue.active
    accepting,   \* HookQueue.accepting
    cancel,      \* PoolState.cancel
    worker,      \* what each worker is doing
    shutdown,    \* the main thread's shutdown of the pool
    cut,         \* history: accepted jobs that were dropped or cut short
    logs         \* log files kept of the event

hookVars == <<by_event, firing, fires, jobs, active, accepting, cancel, worker,
              shutdown, cut, logs>>
queueVars == <<jobs, active, accepting>>

-----------------------------------------------------------------------------
(* Loading.  An argument is a sequence of pieces: [lit |-> n] for n bytes   *)
(* of text, [var |-> path] for a placeholder.                              *)

Events == {"after_session_create", "before_attach", "after_attach", "before_detach",
           "after_detach", "after_pane_spawn", "after_pane_exit", "on_cwd_change",
           "on_focus_change", "on_config_reload", "before_session_destroy"}

LitBytes(arg) ==
    FoldLeft(LAMBDA n, p : IF "lit" \in DOMAIN p THEN n + p.lit ELSE n, 0, arg)
ArgvBytes(exec) == FoldLeft(LAMBDA n, a : n + LitBytes(a), 0, exec)

\* WhenPredicate::parse accepts `${path} == literal` and `!=`, the literal a
\* quoted string or an integer; "none" is no predicate, "bad" does not parse.
WhenParses(when) == when.op \in {"==", "!="}

\* Hook::from_raw.
FromRaw(raw) ==
    /\ raw.event \in Events
    /\ raw.exec # <<>> /\ LitBytes(raw.exec[1]) + Len(raw.exec[1]) > 0
    /\ ArgvBytes(raw.exec) <= ArgvMax
    /\ raw.when.op = "none" \/ WhenParses(raw.when)

\* WhenPredicate::evaluate: a missing field is the empty string, and a value
\* that is not a number is unequal to every number.
Evaluate(when, payload) ==
    LET value == IF when.lhs \in DOMAIN payload THEN payload[when.lhs]
                 ELSE [text |-> "", number |-> -1, len |-> 0]
        equal == IF when.quoted THEN value.text = when.rhs ELSE value.number = when.rhs
    IN  CASE when.op = "none" -> TRUE
          [] when.op = "==" -> equal
          [] OTHER -> ~equal

\* substitute_checked: each placeholder becomes its field, or nothing, in one
\* pass.  The size of the argument, or -1 when it is refused (a NUL in it is
\* refused by fire as a size beyond the limit is).
Substitute(arg, payload) ==
    LET Add(n, p) ==
            LET bytes == IF "lit" \in DOMAIN p THEN p.lit
                         ELSE IF p.var \in DOMAIN payload THEN payload[p.var].len
                         ELSE 0
            IN  IF n = -1 \/ n + bytes > ArgvMax THEN -1 ELSE n + bytes
    IN  FoldLeft(Add, 0, arg)

\* The argv of an invocation, or <<>> when some argument is refused, the whole
\* is too long or the program's name is empty.
Expand(exec, payload) ==
    LET argv == [i \in DOMAIN exec |-> Substitute(exec[i], payload)]
    IN  IF \/ -1 \in Range(argv)
           \/ FoldLeft(LAMBDA n, a : n + a, 0, argv) > ArgvMax
           \/ argv[1] = 0
        THEN <<>> ELSE argv

-----------------------------------------------------------------------------
(* The pool.                                                               *)

Live == {w \in Workers : worker[w] # "none"}
Waiting == {w \in Workers : worker[w] = "waiting"}

\* The threads that could be started: possibly none.
HookInit ==
    /\ by_event \in {SetToSeq({r \in rs : FromRaw(r)}) : rs \in SUBSET RawHooks}
    /\ firing = <<>> /\ fires = 0
    /\ jobs = <<>> /\ active = 0 /\ accepting = TRUE /\ cancel = FALSE
    /\ \E started \in SUBSET Workers :
          worker = [w \in Workers |-> IF w \in started THEN "idle" ELSE "none"]
    /\ shutdown = "no" /\ cut = 0 /\ logs = 0

NotifyOne(ws) ==
    \/ ws = {} /\ UNCHANGED worker
    \/ \E w \in ws : worker' = [worker EXCEPT ![w] = "idle"]
NotifyAll(with) ==
    worker' = [w \in Workers |-> IF w \in DOMAIN with THEN with[w]
                                 ELSE IF worker[w] = "waiting" THEN "idle" ELSE worker[w]]

\* HookExecutor::replace, on a configuration reload.
Replace ==
    /\ firing = <<>> /\ shutdown = "no"
    /\ \E rs \in SUBSET RawHooks :
          by_event' = SetToSeq({r \in rs : FromRaw(r)})
    /\ UNCHANGED <<firing, fires, queueVars, cancel, worker, shutdown, cut, logs>>

HooksFor(event) == SelectSeq(by_event, LAMBDA h : h.event = event)

\* HookExecutor::fire copies the hooks of the event and goes through them.
Fire ==
    /\ firing = <<>> /\ shutdown = "no" /\ fires < MaxFires
    /\ fires' = fires + 1
    /\ \E event \in {r.event : r \in RawHooks}, payload \in Payloads :
          firing' = [i \in DOMAIN HooksFor(event) |->
                       [hook |-> HooksFor(event)[i], payload |-> payload]]
    /\ UNCHANGED <<by_event, queueVars, cancel, worker, shutdown, cut, logs>>

\* HookPool::submit.  A thread that ended is still in the pool's list; only a
\* pool that could start none refuses for that reason.
Submit(argv) ==
    IF Live = {} \/ ~accepting \/ Len(jobs) >= QueueDepth
    THEN UNCHANGED <<jobs, worker>>
    ELSE jobs' = Append(jobs, argv) /\ NotifyOne(Waiting)

\* One turn of fire's loop.
FireOne ==
    /\ firing # <<>>
    /\ firing' = Tail(firing)
    /\ LET f == Head(firing)
           argv == Expand(f.hook.exec, f.payload)
       IN  IF Evaluate(f.hook.when, f.payload) /\ argv # <<>>
           THEN Submit(argv)
           ELSE UNCHANGED <<jobs, worker>>
    /\ UNCHANGED <<by_event, fires, active, accepting, cancel, shutdown, cut, logs>>

\* Mutant of Take: a worker leaves only when there is a job it could take.
TakeNeverLeaves(w) ==
    /\ worker[w] = "idle"
    /\ \/ /\ jobs # <<>>
          /\ jobs' = Tail(jobs) /\ active' = active + 1
          /\ worker' = [worker EXCEPT ![w] = "taken"]
       \/ /\ jobs = <<>> /\ UNCHANGED <<jobs, active>>
          /\ worker' = [worker EXCEPT ![w] = "waiting"]
    /\ UNCHANGED <<by_event, firing, fires, accepting, cancel, shutdown, cut, logs>>

\* A worker with the lock: take a job, leave, or wait.
Take(w) ==
    /\ worker[w] = "idle"
    /\ \/ /\ jobs # <<>>
          /\ jobs' = Tail(jobs) /\ active' = active + 1
          /\ worker' = [worker EXCEPT ![w] = "taken"]
       \/ /\ jobs = <<>> /\ UNCHANGED <<jobs, active>>
          /\ worker' = [worker EXCEPT ![w] = IF accepting THEN "waiting" ELSE "gone"]
    /\ UNCHANGED <<by_event, firing, fires, accepting, cancel, shutdown, cut, logs>>

\* run_one: not started once the pool is cancelled; otherwise the child is
\* spawned, or cannot be and that is logged.
Start(w) ==
    /\ worker[w] = "taken"
    /\ worker' = [worker EXCEPT ![w] = IF cancel THEN "finished" ELSE "running"]
    /\ cut' = IF cancel THEN cut + 1 ELSE cut
    /\ UNCHANGED <<by_event, firing, fires, queueVars, cancel, shutdown, logs>>

\* append_log and gc_logs_for, under their own lock.
AppendLog == logs' = Min({logs + 1, LogKeep})

\* run_one's polling loop ends: the child is gone, or is killed with its process
\* group after five seconds or on cancellation, or could not be spawned.  Its
\* group is killed, it is reaped, and its output is logged.
Finish(w) ==
    /\ worker[w] = "running"
    /\ cut' \in IF cancel THEN {cut, cut + 1} ELSE {cut}
    /\ worker' = [worker EXCEPT ![w] = "finished"]
    /\ AppendLog
    /\ UNCHANGED <<by_event, firing, fires, queueVars, cancel, shutdown>>

\* Back under the lock: everyone who waits on the condition variable wakes.
Done(w) ==
    /\ worker[w] = "finished"
    /\ active' = active - 1
    /\ NotifyAll([x \in {w} |-> "idle"])
    /\ shutdown' = IF shutdown = "waiting" THEN "check" ELSE shutdown
    /\ UNCHANGED <<by_event, firing, fires, jobs, accepting, cancel, cut, logs>>

-----------------------------------------------------------------------------
(* The end of the session: HookShutdown's drop fires the last event, then  *)
(* waits for at most two seconds; then the pool itself is dropped.         *)

\* Drop for HookShutdown: fire "before_session_destroy" ...
BeginShutdown ==
    /\ firing = <<>> /\ shutdown = "no"
    /\ firing' = [i \in DOMAIN HooksFor("before_session_destroy") |->
                    [hook |-> HooksFor("before_session_destroy")[i], payload |-> <<>>]]
    /\ shutdown' = "firing"
    /\ UNCHANGED <<by_event, fires, queueVars, cancel, worker, cut, logs>>

\* ... and stop the pool.
Shutdown ==
    /\ firing = <<>> /\ shutdown = "firing"
    /\ accepting' = FALSE
    /\ NotifyAll(<<>>)
    /\ shutdown' = "check"
    /\ UNCHANGED <<by_event, firing, fires, jobs, active, cancel, cut, logs>>

\* Mutant of Drained: the hooks that are running are forgotten.
DrainedQueueOnly == jobs = <<>>

\* The condition of shutdown's loop.
Drained == active = 0 /\ jobs = <<>>

\* Under the lock: drained, or out of time, or wait.
ShutdownCheck ==
    /\ shutdown = "check"
    /\ \/ /\ Drained /\ shutdown' = "drained"
          /\ UNCHANGED <<jobs, cancel, worker, cut>>
       \/ /\ ~Drained /\ shutdown' = "waiting"
          /\ UNCHANGED <<jobs, cancel, worker, cut>>
       \/ /\ ~Drained /\ shutdown' = "timed_out"
          /\ cancel' = TRUE /\ jobs' = <<>> /\ cut' = cut + Len(jobs)
          /\ NotifyAll(<<>>)
    /\ UNCHANGED <<by_event, firing, fires, active, accepting, logs>>

\* wait_timeout returns when its time is up.
ShutdownTimeout ==
    /\ shutdown = "waiting" /\ shutdown' = "check"
    /\ UNCHANGED <<by_event, firing, fires, queueVars, cancel, worker, cut, logs>>

\* Drop for HookPool.
DropPool ==
    /\ shutdown \in {"drained", "timed_out"}
    /\ cancel' = TRUE /\ accepting' = FALSE /\ jobs' = <<>> /\ cut' = cut + Len(jobs)
    /\ NotifyAll(<<>>)
    /\ shutdown' = IF shutdown = "drained" THEN "dropped" ELSE "dropped_late"
    /\ UNCHANGED <<by_event, firing, fires, active, logs>>

Work(w) == Take(w) \/ Start(w) \/ Finish(w) \/ Done(w)
EndPool == Shutdown \/ ShutdownCheck \/ ShutdownTimeout \/ DropPool

HookNext ==
    \/ Replace \/ Fire \/ FireOne \/ BeginShutdown \/ EndPool
    \/ \E w \in Workers : Work(w)

\* Threads run; a waiting shutdown comes to its deadline.
HookFairness ==
    /\ \A w \in Workers : WF_hookVars(Work(w))
    /\ WF_hookVars(ShutdownTimeout) /\ WF_hookVars(ShutdownCheck) /\ WF_hookVars(DropPool)
    /\ WF_hookVars(FireOne) /\ WF_hookVars(Shutdown)

-----------------------------------------------------------------------------
(* What the pool must get right.                                           *)

\* shutdown's answer is true (hooks.rs:655 "False means remaining jobs were
\* cancelled"): when it says drained, every accepted job ran to its own end or
\* its own time limit.
DrainedMeansRun ==
    shutdown \in {"drained", "dropped"} => active = 0 /\ jobs = <<>> /\ cut = 0

\* Once the session ends every worker goes and shutdown returns, although they
\* wait for each other on one condition variable.
PoolWindsDown ==
    (shutdown = "firing") ~> (/\ shutdown \in {"dropped", "dropped_late"}
                             /\ \A w \in Workers : worker[w] \in {"none", "gone"})
=============================================================================
