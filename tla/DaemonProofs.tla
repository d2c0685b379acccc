---------------------------- MODULE DaemonProofs ----------------------------
(***************************************************************************)
(* Proofs about the services around the main loop, for any number of       *)
(* threads, connections, subscribers and daemons.  Each component is       *)
(* proved on its own; a behaviour of Daemon, seen by one of them, is a     *)
(* behaviour of that one.                                                  *)
(***************************************************************************)
EXTENDS Daemon, SequenceTheorems, FiniteSetTheorems, SeqOpsProofs

-----------------------------------------------------------------------------
(* The hook pool.                                                          *)

Busy == {w \in Workers : worker[w] \in {"taken", "running", "finished"}}

\* HookQueue.active counts the threads that have a job.
ActiveIsBusy == active = Cardinality(Busy)

\* Nothing is cut short before shutdown has given up.
NoCutYet ==
    shutdown \in {"no", "firing", "check", "waiting", "drained"} => cancel = FALSE /\ cut = 0

\* Once shutdown has begun to wait nothing is accepted.
ClosedAfterShutdown == shutdown \notin {"no", "firing"} => accepting = FALSE

HookTypes ==
    /\ worker \in [Workers -> {"none", "idle", "waiting", "taken", "running", "finished", "gone"}]
    /\ shutdown \in {"no", "firing", "check", "waiting", "drained", "timed_out", "dropped",
                     "dropped_late"}

HookInv == HookTypes /\ ActiveIsBusy /\ NoCutYet /\ ClosedAfterShutdown /\ DrainedMeansRun

\* The busy threads are finitely many, and none when their number is 0.
LEMMA BusyFinite == IsFiniteSet(Busy) /\ Cardinality(Busy) \in Nat /\ (Cardinality(Busy) = 0 <=> Busy = {})
<1>1. IsFiniteSet(Busy)
  BY HookAssumption, FS_Subset DEF Busy
<1>2. QED
  BY <1>1, FS_CardinalityType, FS_EmptySet

\* A pool starts with nobody busy.
LEMMA HookInitInv == HookInit => HookInv
<1> SUFFICES ASSUME HookInit
             PROVE  HookInv
  OBVIOUS
<1>1. PICK started \in SUBSET Workers :
          worker = [w \in Workers |-> IF w \in started THEN "idle" ELSE "none"]
  BY DEF HookInit
<1>2. Busy = {}
  BY <1>1 DEF Busy
<1>3. Cardinality(Busy) = 0
  BY <1>2, FS_EmptySet
<1>4. QED
  BY <1>1, <1>3 DEF HookInit, HookInv, HookTypes, ActiveIsBusy, NoCutYet, ClosedAfterShutdown,
                    DrainedMeansRun

\* Waking threads up makes none of them busy.
LEMMA NotifyKeeps ==
    ASSUME HookTypes, NotifyOne(Waiting) \/ NotifyAll(<<>>) \/ UNCHANGED worker
    PROVE  /\ Busy' = Busy
           /\ worker' \in [Workers -> {"none", "idle", "waiting", "taken", "running", "finished",
                                       "gone"}]
<1>1. CASE NotifyOne(Waiting)
  BY <1>1 DEF NotifyOne, Waiting, Busy, HookTypes
<1>2. CASE NotifyAll(<<>>)
  <2>1. worker' = [w \in Workers |-> IF worker[w] = "waiting" THEN "idle" ELSE worker[w]]
    BY <1>2 DEF NotifyAll
  <2>2. QED
    BY <2>1 DEF Busy, HookTypes
<1>3. QED
  BY <1>1, <1>2 DEF Busy, HookTypes

\* The main thread's steps.
LEMMA MainStep ==
    ASSUME HookInv, Replace \/ Fire \/ FireOne \/ BeginShutdown \/ EndPool
    PROVE  HookInv'
<1> USE DEF HookInv
<1>1. HookTypes
  OBVIOUS
<1>2. NotifyOne(Waiting) \/ NotifyAll(<<>>) \/ UNCHANGED worker
  BY DEF Replace, Fire, FireOne, Submit, BeginShutdown, EndPool, Shutdown, ShutdownCheck,
         ShutdownTimeout, DropPool
<1>3. Busy' = Busy /\ active' = active
  BY <1>1, <1>2, NotifyKeeps
     DEF Replace, Fire, FireOne, BeginShutdown, EndPool, Shutdown, ShutdownCheck,
         ShutdownTimeout, DropPool, queueVars
<1>4. HookTypes'
  BY <1>1, <1>2, NotifyKeeps
     DEF HookTypes, Replace, Fire, FireOne, BeginShutdown, EndPool, Shutdown, ShutdownCheck,
         ShutdownTimeout, DropPool
<1>5. ActiveIsBusy'
  BY <1>3 DEF ActiveIsBusy
<1>6. NoCutYet' /\ ClosedAfterShutdown' /\ DrainedMeansRun'
  <2>1. CASE Replace \/ Fire \/ BeginShutdown \/ ShutdownTimeout
    BY <2>1 DEF Replace, Fire, BeginShutdown, ShutdownTimeout, queueVars,
                NoCutYet, ClosedAfterShutdown, DrainedMeansRun
  <2>2. CASE FireOne
    <3>1. jobs' = jobs \/ accepting # FALSE
      BY <2>2 DEF FireOne, Submit
    <3>2. QED
      BY <2>2, <3>1 DEF FireOne, NoCutYet, ClosedAfterShutdown, DrainedMeansRun
  <2>3. CASE Shutdown
    BY <2>3 DEF Shutdown, NoCutYet, ClosedAfterShutdown, DrainedMeansRun
  <2>4. CASE ShutdownCheck
    BY <2>4 DEF ShutdownCheck, Drained, NoCutYet, ClosedAfterShutdown, DrainedMeansRun
  <2>5. CASE DropPool
    <3>1. shutdown = "drained" => cut' = 0 /\ active' = 0 /\ jobs' = <<>>
      BY <2>5 DEF DropPool, DrainedMeansRun
    <3>2. QED
      BY <2>5, <3>1 DEF DropPool, NoCutYet, ClosedAfterShutdown, DrainedMeansRun
  <2>6. QED
    BY <2>1, <2>2, <2>3, <2>4, <2>5 DEF EndPool
<1>7. QED
  BY <1>4, <1>5, <1>6

\* A worker's steps.
LEMMA WorkStep ==
    ASSUME HookInv, NEW w \in Workers, Work(w)
    PROVE  HookInv'
<1> USE DEF HookInv
<1>1. IsFiniteSet(Busy) /\ active = Cardinality(Busy) /\ active \in Nat /\ (active = 0 <=> Busy = {})
  BY BusyFinite DEF ActiveIsBusy
<1>2. CASE Take(w)
  <2>1. HookTypes' /\ ClosedAfterShutdown' /\ NoCutYet'
    BY <1>2 DEF Take, HookTypes, ClosedAfterShutdown, NoCutYet
  <2>2. CASE jobs = <<>>
    <3>1. Busy' = Busy /\ active' = active /\ jobs' = jobs
      BY <1>2, <2>2 DEF Take, Busy, HookTypes
    <3>2. QED
      BY <1>2, <2>1, <3>1 DEF Take, ActiveIsBusy, DrainedMeansRun
  <2>3. CASE jobs # <<>>
    <3>1. Busy' = Busy \cup {w} /\ w \notin Busy /\ active' = active + 1
      BY <1>2, <2>3 DEF Take, Busy, HookTypes
    <3>2. Cardinality(Busy \cup {w}) = Cardinality(Busy) + 1
      BY <1>1, <3>1, FS_AddElement
    <3>3. DrainedMeansRun'
      BY <1>2, <2>3 DEF Take, DrainedMeansRun
    <3>4. QED
      BY <1>1, <2>1, <3>1, <3>2, <3>3 DEF ActiveIsBusy
  <2>4. QED
    BY <2>2, <2>3
<1>3. CASE Start(w) \/ Finish(w)
  <2>1. Busy' = Busy /\ HookTypes' /\ UNCHANGED <<active, jobs, accepting, cancel, shutdown>>
    BY <1>3 DEF Start, Finish, Busy, HookTypes, queueVars
  <2>2. active # 0
    BY <1>1, <1>3 DEF Start, Finish, Busy
  <2>3. cancel = FALSE => cut' = cut
    BY <1>3 DEF Start, Finish
  <2>4. QED
    BY <2>1, <2>2, <2>3 DEF ActiveIsBusy, NoCutYet, ClosedAfterShutdown, DrainedMeansRun
<1>4. CASE Done(w)
  <2>1. worker' = [x \in Workers |-> IF x = w THEN "idle"
                                     ELSE IF worker[x] = "waiting" THEN "idle" ELSE worker[x]]
    BY <1>4 DEF Done, NotifyAll
  <2>2. Busy' = Busy \ {w} /\ w \in Busy
    BY <1>4, <2>1 DEF Done, Busy
  <2>3. Cardinality(Busy \ {w}) = Cardinality(Busy) - 1
    BY <1>1, <2>2, FS_RemoveElement
  <2>4. HookTypes'
    BY <1>4, <2>1 DEF Done, HookTypes
  <2>5. active # 0
    BY <1>1, <2>2
  <2>6. NoCutYet' /\ ClosedAfterShutdown' /\ DrainedMeansRun'
    BY <1>4, <2>5 DEF Done, NoCutYet, ClosedAfterShutdown, DrainedMeansRun
  <2>7. QED
    BY <1>1, <1>4, <2>2, <2>3, <2>4, <2>6 DEF Done, ActiveIsBusy
<1>5. QED
  BY <1>2, <1>3, <1>4 DEF Work

\* Every step of the pool, its threads and its shutdown.
LEMMA HookStepInv == HookInv /\ [HookNext]_hookVars => HookInv'
<1> SUFFICES ASSUME HookInv, [HookNext]_hookVars
             PROVE  HookInv'
  OBVIOUS
<1>1. CASE UNCHANGED hookVars
  BY <1>1 DEF hookVars, HookInv, HookTypes, ActiveIsBusy, Busy, NoCutYet, ClosedAfterShutdown,
              DrainedMeansRun
<1>2. CASE Replace \/ Fire \/ FireOne \/ BeginShutdown \/ EndPool
  BY <1>2, MainStep
<1>3. ASSUME NEW w \in Workers, Work(w)
      PROVE  HookInv'
  BY <1>3, WorkStep
<1>4. QED
  BY <1>1, <1>2, <1>3 DEF HookNext

\* When the shutdown of the pool says "drained", every accepted hook ran to its
\* end or its own time limit, for any number of workers and hooks.
THEOREM DrainedIsTrue == Spec => []DrainedMeansRun
<1>1. Init => HookInv
  BY HookInitInv DEF Init
<1>2. [Next]_vars => [HookNext]_hookVars
  BY DEF Next, Services, vars
<1>3. HookInv /\ [Next]_vars => HookInv'
  BY <1>2, HookStepInv
<1>4. HookInv => DrainedMeansRun
  BY DEF HookInv
<1>5. QED
  BY <1>1, <1>3, <1>4, PTL DEF Spec

-----------------------------------------------------------------------------
(* Saved workspaces.                                                       *)

\* The documents that were ever meant for the path.
Docs == {c.doc : c \in captured}

Writing == [pc : {"write", "sync", "rename"}, doc : Docs, tmp : Temps]
SnapTypes ==
    /\ saver \in [Writers -> {Idle} \cup [pc : {"create"}, doc : Docs] \cup Writing]
    /\ DOMAIN files = {Path} \cup Temps
    /\ counter \in [Writers -> Nat] /\ saves \in 0 .. MaxSaves
    /\ Path \in synced

\* A writer's temporary file is its own and, before the rename, whole and on
\* the disk.
TempIsWhole ==
    \A w \in Writers : saver[w] \in Writing =>
        /\ saver[w].tmp[1] = w /\ saver[w].tmp[2] < saves
        /\ saver[w].pc \in {"sync", "rename"} => files[saver[w].tmp] = saver[w].doc
        /\ saver[w].pc = "rename" => saver[w].tmp \in synced

\* The saves a writer has begun and has a name for.
Named(w) == IF saver[w].pc = "create" THEN saves - 1 ELSE saves

\* What a writer has left behind leaves a name for its next save.
NamesLeft ==
    \A w \in Writers :
        /\ saver[w].pc = "create" => saves > 0
        /\ counter[w] <= Named(w)
        /\ \A n \in 0 .. MaxSaves : files[<<w, n>>] # Nothing => n < Named(w)

SnapInv == SnapTypes /\ TempIsWhole /\ NamesLeft /\ older \in Docs /\ PathHoldsWhole

\* A temporary file is named by its writer, so no two writers share one and
\* none is the path.
LEMMA TempNames ==
    /\ Path \notin Temps
    /\ \A t \in Temps : t[1] \in Writers /\ t[2] \in 0 .. MaxSaves /\ t = <<t[1], t[2]>>
    /\ \A w \in Writers, n \in 0 .. MaxSaves : <<w, n>> \in Temps
BY DEF Path, Temps, Writers

\* Where a writer is in its save.
LEMMA SaverCases ==
    ASSUME SnapTypes, NEW w \in Writers
    PROVE  \/ saver[w] = Idle /\ saver[w].pc = "idle" /\ saver[w] \notin Writing
           \/ /\ saver[w] = [pc |-> "create", doc |-> saver[w].doc] /\ saver[w].doc \in Docs
              /\ saver[w] # Idle /\ saver[w].pc = "create" /\ saver[w] \notin Writing
           \/ /\ saver[w] \in Writing /\ saver[w] # Idle
              /\ saver[w].pc \in {"write", "sync", "rename"}
              /\ saver[w].doc \in Docs /\ saver[w].tmp \in Temps
<1>1. \/ saver[w] = Idle
      \/ saver[w] \in [pc : {"create"}, doc : Docs]
      \/ saver[w] \in Writing
  BY DEF SnapTypes
<1>2. CASE saver[w] = Idle
  <2>1. saver[w].pc = "idle"
    BY <1>2 DEF Idle
  <2>2. QED
    BY <1>2, <2>1 DEF Writing
<1>3. CASE saver[w] \in [pc : {"create"}, doc : Docs]
  <2>1. saver[w].pc = "create" /\ saver[w].doc \in Docs
        /\ saver[w] = [pc |-> "create", doc |-> saver[w].doc]
    BY <1>3
  <2>2. saver[w] # Idle /\ saver[w] \notin Writing
    BY <2>1 DEF Idle, Writing
  <2>3. QED
    BY <2>1, <2>2
<1>4. CASE saver[w] \in Writing
  <2>1. /\ saver[w].pc \in {"write", "sync", "rename"}
        /\ saver[w].doc \in Docs /\ saver[w].tmp \in Temps
    BY <1>4 DEF Writing
  <2>2. saver[w] # Idle
    BY <2>1 DEF Idle
  <2>3. QED
    BY <1>4, <2>1, <2>2
<1>5. QED
  BY <1>1, <1>2, <1>3, <1>4

\* What was on the path first counts as written.
LEMMA SnapInitInv == SnapInit => SnapInv
<1> SUFFICES ASSUME SnapInit
             PROVE  SnapInv
  OBVIOUS
<1>1. PICK doc \in Found :
          /\ files = [f \in {Path} \cup Temps |-> IF f = Path THEN doc ELSE Nothing]
          /\ older = doc
          /\ captured = {[doc |-> doc, of |-> Nothing]}
  BY DEF SnapInit
<1>2. Docs = {doc}
  BY <1>1 DEF Docs
<1>3. files[Path] = doc /\ \A t \in Temps : files[t] = Nothing
  BY <1>1, TempNames
<1>4. saver = [w \in Writers |-> Idle] /\ Idle.pc = "idle"
  BY DEF SnapInit, Idle
<1>5. SnapTypes
  BY <1>1, <1>4, SnapshotAssumption DEF SnapInit, SnapTypes
<1>6. \A w \in Writers : saver[w] \notin Writing /\ saver[w].pc = "idle"
  BY <1>4 DEF Writing
<1>7. NamesLeft
  BY <1>3, <1>6, TempNames DEF SnapInit, NamesLeft, Named
<1>8. QED
  BY <1>1, <1>2, <1>3, <1>5, <1>6, <1>7 DEF SnapInv, TempIsWhole, PathHoldsWhole, Docs

\* A save begins with a document that is noted as written.
LEMMA BeginStep ==
    ASSUME SnapInv, NEW w \in Writers, NEW doc, NEW of, Begin(w, doc, of)
    PROVE  SnapInv'
<1> USE DEF SnapInv
<1>1. /\ saver[w] = Idle /\ saves < MaxSaves /\ saves' = saves + 1
      /\ saver' = [saver EXCEPT ![w] = [pc |-> "create", doc |-> doc]]
      /\ captured' = captured \cup {[doc |-> doc, of |-> of]}
      /\ UNCHANGED <<files, older, synced, counter>>
  BY DEF Begin
<1>2. Docs' = Docs \cup {doc}
  <2> DEFINE r == [doc |-> doc, of |-> of]
  <2>1. r.doc = doc
    OBVIOUS
  <2>2. captured' = captured \cup {r}
    BY <1>1
  <2> HIDE DEF r
  <2>3. \A d : d \in Docs' <=> d \in Docs \cup {doc}
    BY <2>1, <2>2 DEF Docs
  <2>4. QED
    BY <2>3, Zenon
<1>3. saver'[w] = [pc |-> "create", doc |-> doc] /\ \A v \in Writers \ {w} : saver'[v] = saver[v]
  BY <1>1 DEF SnapTypes
<1>4. Idle.pc = "idle" /\ saver'[w].pc = "create" /\ saver'[w] \notin Writing'
  <2>1. [pc |-> "create", doc |-> doc].pc = "create"
    OBVIOUS
  <2>2. QED
    BY <1>3, <2>1 DEF Idle, Writing
<1>5. SnapTypes'
  <2>1. Writing \subseteq Writing' /\ [pc : {"create"}, doc : Docs] \subseteq [pc : {"create"}, doc : Docs']
    BY <1>2 DEF Writing
  <2>2. [pc |-> "create", doc |-> doc] \in [pc : {"create"}, doc : Docs']
    BY <1>2
  <2>3. saver' \in [Writers -> {Idle} \cup [pc : {"create"}, doc : Docs'] \cup Writing']
    <3> HIDE DEF SnapInv
    <3>1. saver \in [Writers -> {Idle} \cup [pc : {"create"}, doc : Docs] \cup Writing]
      BY DEF SnapInv, SnapTypes
    <3> DEFINE T == {Idle} \cup [pc : {"create"}, doc : Docs'] \cup Writing'
    <3>2. \A v \in Writers : saver[v] \in T
      BY <2>1, <3>1, Zenon
    <3>3. [pc |-> "create", doc |-> doc] \in T
      BY <2>2, Zenon
    <3>4. saver' = [v \in Writers |-> IF v = w THEN [pc |-> "create", doc |-> doc] ELSE saver[v]]
      BY <1>1, <3>1
    <3> HIDE DEF T
    <3>5. saver' \in [Writers -> T]
      BY <3>2, <3>3, <3>4
    <3>6. QED
      BY <3>5 DEF T
  <2>4. saves' \in 0 .. MaxSaves
    BY <1>1, SnapshotAssumption DEF SnapTypes
  <2>5. QED
    BY <1>1, <2>3, <2>4 DEF SnapTypes
<1>6. TempIsWhole'
  <2>1. SUFFICES ASSUME NEW v \in Writers, saver'[v] \in Writing'
                 PROVE  /\ saver'[v].tmp[1] = v /\ saver'[v].tmp[2] < saves'
                        /\ saver'[v].pc \in {"sync", "rename"} => files'[saver'[v].tmp] = saver'[v].doc
                        /\ saver'[v].pc = "rename" => saver'[v].tmp \in synced'
    BY DEF TempIsWhole
  <2>2. v # w /\ saver'[v] = saver[v]
    BY <1>3, <1>4, <2>1
  <2>3. saver[v] \in Writing
    <3>1. saver[v].pc \in {"write", "sync", "rename"}
      BY <2>1, <2>2 DEF Writing
    <3>2. QED
      BY <3>1, SaverCases
  <2>4. saves \in Nat /\ saver[v].tmp[2] \in Nat
    BY <2>3, SaverCases, TempNames, SnapshotAssumption DEF SnapTypes
  <2>5. saver[v].tmp[2] < saves'
    BY <1>1, <2>3, <2>4 DEF TempIsWhole
  <2>6. QED
    BY <1>1, <2>2, <2>3, <2>5 DEF TempIsWhole
<1>7. NamesLeft'
  <2>1. saves \in Nat
    BY SnapshotAssumption DEF SnapTypes
  <2>2. Named(w)' = saves /\ Named(w) = saves
    BY <1>1, <1>4, <2>1 DEF Named
  <2>3. \A v \in Writers \ {w} : Named(v)' = Named(v) + 1 /\ Named(v) \in Int
    BY <1>1, <1>3, <2>1 DEF Named
  <2>4. SUFFICES ASSUME NEW v \in Writers
                 PROVE  /\ saver'[v].pc = "create" => saves' > 0
                        /\ counter'[v] <= Named(v)'
                        /\ \A n \in 0 .. MaxSaves : files'[<<v, n>>] # Nothing => n < Named(v)'
    BY DEF NamesLeft
  <2>5. Named(v)' \in Int /\ Named(v) \in Int /\ Named(v) <= Named(v)' /\ saves' > 0
    BY <1>1, <2>1, <2>2, <2>3
  <2>6. counter[v] \in Nat /\ counter[v] <= Named(v)
    BY DEF SnapTypes, NamesLeft
  <2>7. \A n \in 0 .. MaxSaves : files[<<v, n>>] # Nothing => n < Named(v)
    BY DEF NamesLeft
  <2>8. QED
    BY <1>1, <2>5, <2>6, <2>7
<1>8. older' \in Docs' /\ PathHoldsWhole'
  BY <1>1, <1>2 DEF PathHoldsWhole, Docs
<1>9. QED
  BY <1>5, <1>6, <1>7, <1>8

\* A step of one writer that leaves the documents and the path alone keeps the
\* invariant if it does so for that writer.
LEMMA WriterStep ==
    ASSUME SnapInv, NEW w \in Writers, NEW r,
           saver' = [saver EXCEPT ![w] = r],
           r \in {Idle} \cup [pc : {"create"}, doc : Docs] \cup Writing,
           UNCHANGED <<older, saves, captured>>,
           DOMAIN files' = DOMAIN files, files'[Path] = files[Path],
           Path \in synced', counter' \in [Writers -> Nat],
           \A v \in Writers \ {w} :
               /\ counter'[v] = counter[v]
               /\ \A n \in 0 .. MaxSaves : files'[<<v, n>>] = files[<<v, n>>]
               /\ \A n \in 0 .. MaxSaves : <<v, n>> \in synced => <<v, n>> \in synced',
           r \in Writing =>
               /\ r.tmp[1] = w /\ r.tmp[2] < saves
               /\ r.pc \in {"sync", "rename"} => files'[r.tmp] = r.doc
               /\ r.pc = "rename" => r.tmp \in synced',
           r.pc # "create", counter'[w] <= saves,
           \A n \in 0 .. MaxSaves : files'[<<w, n>>] # Nothing => n < saves
    PROVE  SnapInv'
<1> USE DEF SnapInv
<1>1. Docs' = Docs /\ Writing' = Writing
  BY DEF Docs, Writing
<1>2. saver'[w] = r /\ \A v \in Writers \ {w} : saver'[v] = saver[v]
  BY DEF SnapTypes
<1>3. SnapTypes'
  <2>1. saver' \in [Writers -> {Idle} \cup [pc : {"create"}, doc : Docs] \cup Writing]
    <3> DEFINE T == {Idle} \cup [pc : {"create"}, doc : Docs] \cup Writing
    <3>1. saver \in [Writers -> T] /\ r \in T
      BY DEF SnapTypes
    <3> HIDE DEF T
    <3>2. saver' \in [Writers -> T]
      BY <3>1
    <3>3. QED
      BY <3>2 DEF T
  <2>2. QED
    BY <1>1, <2>1 DEF SnapTypes
<1>4. TempIsWhole'
  <2>1. SUFFICES ASSUME NEW v \in Writers, saver'[v] \in Writing
                 PROVE  /\ saver'[v].tmp[1] = v /\ saver'[v].tmp[2] < saves'
                        /\ saver'[v].pc \in {"sync", "rename"} => files'[saver'[v].tmp] = saver'[v].doc
                        /\ saver'[v].pc = "rename" => saver'[v].tmp \in synced'
    BY <1>1 DEF TempIsWhole
  <2>2. CASE v = w
    BY <1>2, <2>1, <2>2
  <2>3. CASE v # w
    <3>1. saver'[v] = saver[v] /\ saver[v] \in Writing
      BY <1>2, <2>1, <2>3
    <3>2. saver[v].tmp \in Temps /\ saver[v].tmp[1] = v /\ saver[v].tmp[2] < saves
      BY <3>1, SaverCases DEF TempIsWhole
    <3>3. PICK n \in 0 .. MaxSaves : saver[v].tmp = <<v, n>>
      BY <3>2, TempNames
    <3>4. /\ saver[v].pc \in {"sync", "rename"} => files[<<v, n>>] = saver[v].doc
          /\ saver[v].pc = "rename" => <<v, n>> \in synced
      BY <3>1, <3>3 DEF TempIsWhole
    <3>5. QED
      BY <2>3, <3>1, <3>2, <3>3, <3>4
  <2>4. QED
    BY <2>2, <2>3
<1>5. NamesLeft'
  <2>1. SUFFICES ASSUME NEW v \in Writers
                 PROVE  /\ saver'[v].pc = "create" => saves' > 0
                        /\ counter'[v] <= Named(v)'
                        /\ \A n \in 0 .. MaxSaves : files'[<<v, n>>] # Nothing => n < Named(v)'
    BY DEF NamesLeft
  <2>2. CASE v = w
    BY <1>2, <2>2 DEF Named
  <2>3. CASE v # w
    <3>1. Named(v)' = Named(v) /\ saver'[v] = saver[v]
      BY <1>2, <2>3 DEF Named
    <3>2. QED
      BY <2>3, <3>1 DEF NamesLeft
  <2>4. QED
    BY <2>2, <2>3
<1>6. older' \in Docs' /\ PathHoldsWhole'
  BY <1>1 DEF PathHoldsWhole, Docs
<1>7. QED
  BY <1>3, <1>4, <1>5, <1>6

\* The file a writer creates is one nobody has, and there is one.
LEMMA CreateTempStep ==
    ASSUME SnapInv, NEW w \in Writers, CreateTemp(w)
    PROVE  SnapInv'
<1> USE DEF SnapInv
<1> DEFINE free == {n \in counter[w] .. MaxSaves : files[<<w, n>>] = Nothing}
           m == Min(free)
           tmp == <<w, m>>
           r == [pc |-> "write", doc |-> saver[w].doc, tmp |-> tmp]
<1>1. /\ saver[w].pc = "create"
      /\ files' = [files EXCEPT ![tmp] = Torn]
      /\ counter' = [counter EXCEPT ![w] = tmp[2] + 1]
      /\ saver' = [saver EXCEPT ![w] = r]
      /\ UNCHANGED <<older, synced, saves, captured>>
  BY DEF CreateTemp
<1>2. saves \in Nat /\ saves <= MaxSaves /\ saves > 0 /\ counter[w] \in Nat /\ counter[w] <= saves - 1
      /\ MaxSaves \in Nat
  BY <1>1, SnapshotAssumption DEF SnapTypes, NamesLeft, Named
<1>3. \A n \in 0 .. MaxSaves : files[<<w, n>>] # Nothing => n < saves - 1
  BY <1>1 DEF NamesLeft, Named
<1>4. saves - 1 \in free /\ free \in SUBSET Nat
  BY <1>2, <1>3
<1>5. m \in free /\ m <= saves - 1
  <2> HIDE DEF free
  <2>1. PICK x \in free : \A y \in free : x <= y
    BY <1>4, LeastNumber
  <2>2. m \in free /\ \A y \in free : m <= y
    BY <2>1 DEF Min
  <2>3. QED
    BY <1>4, <2>2
<1>6. m \in Nat /\ m \in 0 .. MaxSaves /\ tmp \in Temps /\ tmp[1] = w /\ tmp[2] = m /\ m < saves
  <2> HIDE DEF m, free
  <2>1. m \in Nat
    BY <1>4, <1>5
  <2>2. m \in 0 .. MaxSaves /\ m < saves
    BY <1>2, <1>5, <2>1
  <2>3. tmp \in Temps /\ tmp[1] = w /\ tmp[2] = m
    BY <2>2, TempNames
  <2>4. QED
    BY <2>1, <2>2, <2>3
<1> HIDE DEF m, free
<1>7. r \in Writing /\ r.pc = "write" /\ r.tmp = tmp
  <2>1. saver[w].doc \in Docs
    BY <1>1, SaverCases
  <2> HIDE DEF tmp
  <2>2. QED
    BY <1>6, <2>1 DEF Writing
<1>8. /\ DOMAIN files' = DOMAIN files /\ files'[Path] = files[Path]
      /\ \A v \in Writers, n \in 0 .. MaxSaves :
            <<v, n>> # tmp => files'[<<v, n>>] = files[<<v, n>>]
  BY <1>1, <1>6, TempNames DEF SnapTypes
<1>9. \A v \in Writers, n \in 0 .. MaxSaves : <<v, n>> = tmp => v = w /\ n = m
  OBVIOUS
<1>10. counter' \in [Writers -> Nat] /\ counter'[w] = m + 1
       /\ \A v \in Writers \ {w} : counter'[v] = counter[v]
  BY <1>1, <1>6 DEF SnapTypes
<1>11. \A n \in 0 .. MaxSaves : files'[<<w, n>>] # Nothing => n < saves
  <2>1. SUFFICES ASSUME NEW n \in 0 .. MaxSaves, files'[<<w, n>>] # Nothing
                 PROVE  n < saves
    OBVIOUS
  <2>2. CASE <<w, n>> = tmp
    BY <1>6, <1>9, <2>2
  <2>3. CASE <<w, n>> # tmp
    BY <1>2, <1>3, <1>8, <2>1, <2>3
  <2>4. QED
    BY <2>2, <2>3
<1> HIDE DEF r, tmp
<1>12. \A v \in Writers \ {w} : \A n \in 0 .. MaxSaves : files'[<<v, n>>] = files[<<v, n>>]
  BY <1>8, <1>9
<1>13. counter'[w] <= saves /\ Path \in synced'
  BY <1>1, <1>2, <1>6, <1>10 DEF SnapTypes
<1>14. r.tmp[1] = w /\ r.tmp[2] < saves /\ r.pc \notin {"sync", "rename", "create"}
  BY <1>6, <1>7
<1>15. \A v \in Writers \ {w} : \A n \in 0 .. MaxSaves : <<v, n>> \in synced => <<v, n>> \in synced'
  BY <1>1
<1>16. QED
  BY <1>1, <1>7, <1>8, <1>10, <1>11, <1>12, <1>13, <1>14, <1>15, WriterStep

\* Writing, syncing and giving up touch the writer's own file only.
LEMMA TempStep ==
    ASSUME SnapInv, NEW w \in Writers, WriteTemp(w) \/ SyncTemp(w) \/ SaveFails(w) \/ Crash(w)
    PROVE  SnapInv'
<1> USE DEF SnapInv
<1>1. /\ saves \in Nat /\ counter[w] \in Nat /\ counter[w] <= saves
      /\ \A n \in 0 .. MaxSaves : files[<<w, n>>] # Nothing => n < saves
  <2>1. saves \in Nat /\ Named(w) \in Int /\ Named(w) <= saves
    BY SnapshotAssumption DEF SnapTypes, Named
  <2>2. counter[w] \in Nat /\ counter[w] <= Named(w)
    BY DEF SnapTypes, NamesLeft
  <2>3. \A n \in 0 .. MaxSaves : files[<<w, n>>] # Nothing => n < Named(w)
    BY DEF NamesLeft
  <2>4. QED
    BY <2>1, <2>2, <2>3
<1>2. Path \in synced /\ counter \in [Writers -> Nat] /\ UNCHANGED <<older, saves, captured>>
  BY DEF SnapTypes, WriteTemp, SyncTemp, SaveFails, Crash
<1>3. ASSUME saver[w] \in Writing
      PROVE  \E m \in 0 .. MaxSaves :
                /\ saver[w].tmp = <<w, m>> /\ m < saves
                /\ saver[w].tmp \in DOMAIN files /\ saver[w].tmp # Path
                /\ \A v \in Writers, n \in 0 .. MaxSaves : <<v, n>> = <<w, m>> => v = w /\ n = m
  <2>1. saver[w].tmp \in Temps /\ saver[w].tmp[1] = w /\ saver[w].tmp[2] < saves
    BY <1>3, SaverCases DEF TempIsWhole
  <2>2. PICK m \in 0 .. MaxSaves : saver[w].tmp = <<w, m>>
    BY <2>1, TempNames
  <2>3. QED
    BY <1>1, <2>1, <2>2, TempNames DEF SnapTypes
<1>4. Idle.pc = "idle" /\ Idle \notin Writing
  BY DEF Idle, Writing
<1>5. CASE Crash(w)
  <2>1. /\ saver' = [saver EXCEPT ![w] = Idle] /\ counter' = [counter EXCEPT ![w] = 0]
        /\ UNCHANGED <<files, synced>>
    BY <1>5 DEF Crash
  <2>2. counter' \in [Writers -> Nat] /\ counter'[w] = 0
        /\ \A v \in Writers \ {w} : counter'[v] = counter[v]
    BY <1>2, <2>1
  <2>3. counter'[w] <= saves /\ Idle.pc # "create"
    BY <1>1, <1>4, <2>2
  <2>4. /\ Path \in synced' /\ DOMAIN files' = DOMAIN files /\ files'[Path] = files[Path]
        /\ \A n \in 0 .. MaxSaves : files'[<<w, n>>] # Nothing => n < saves
        /\ \A v \in Writers \ {w} :
              /\ counter'[v] = counter[v]
              /\ \A n \in 0 .. MaxSaves : files'[<<v, n>>] = files[<<v, n>>]
              /\ \A n \in 0 .. MaxSaves : <<v, n>> \in synced => <<v, n>> \in synced'
    BY <1>1, <1>2, <2>1, <2>2
  <2>5. QED
    BY <1>2, <1>4, <2>1, <2>2, <2>3, <2>4, WriterStep
<1>6. CASE SyncTemp(w)
  <2> DEFINE r == [saver[w] EXCEPT !.pc = "rename"]
  <2>1. /\ saver[w].pc = "sync" /\ saver' = [saver EXCEPT ![w] = r]
        /\ synced' = synced \cup {saver[w].tmp} /\ UNCHANGED <<files, counter>>
    BY <1>6 DEF SyncTemp
  <2>2. saver[w] \in Writing
    BY <2>1, SaverCases
  <2>3. r \in Writing /\ r.pc = "rename" /\ r.tmp = saver[w].tmp /\ r.doc = saver[w].doc
    BY <2>2 DEF Writing
  <2> HIDE DEF r
  <2>4. r.tmp[1] = w /\ r.tmp[2] < saves /\ files'[r.tmp] = r.doc /\ r.tmp \in synced'
    BY <2>1, <2>2, <2>3 DEF TempIsWhole
  <2>5. /\ r \in {Idle} \cup [pc : {"create"}, doc : Docs] \cup Writing
        /\ DOMAIN files' = DOMAIN files /\ files'[Path] = files[Path] /\ r.pc # "create"
    BY <2>1, <2>3
  <2>6. \A v \in Writers \ {w} :
            /\ counter'[v] = counter[v]
            /\ \A n \in 0 .. MaxSaves : files'[<<v, n>>] = files[<<v, n>>]
            /\ \A n \in 0 .. MaxSaves : <<v, n>> \in synced => <<v, n>> \in synced'
    BY <2>1
  <2>7. Path \in synced' /\ counter' \in [Writers -> Nat] /\ counter'[w] <= saves
    BY <1>1, <1>2, <2>1
  <2>8. \A n \in 0 .. MaxSaves : files'[<<w, n>>] # Nothing => n < saves
    BY <1>1, <2>1
  <2>9. QED
    BY <1>2, <2>1, <2>3, <2>4, <2>5, <2>6, <2>7, <2>8, WriterStep
<1>7. CASE WriteTemp(w)
  <2> DEFINE r == [saver[w] EXCEPT !.pc = "sync"]
  <2>1. /\ saver[w].pc = "write" /\ saver' = [saver EXCEPT ![w] = r]
        /\ files' = [files EXCEPT ![saver[w].tmp] = saver[w].doc] /\ UNCHANGED <<synced, counter>>
    BY <1>7 DEF WriteTemp
  <2>2. saver[w] \in Writing
    BY <2>1, SaverCases
  <2>3. r \in Writing /\ r.pc = "sync" /\ r.tmp = saver[w].tmp /\ r.doc = saver[w].doc
    BY <2>2 DEF Writing
  <2> HIDE DEF r
  <2>4. PICK m \in 0 .. MaxSaves :
            /\ saver[w].tmp = <<w, m>> /\ saver[w].tmp \in DOMAIN files /\ saver[w].tmp # Path
            /\ m < saves
            /\ \A v \in Writers, n \in 0 .. MaxSaves : <<v, n>> = <<w, m>> => v = w /\ n = m
    BY <1>3, <2>2
  <2>5. /\ DOMAIN files' = DOMAIN files /\ files'[Path] = files[Path] /\ files'[r.tmp] = r.doc
        /\ \A v \in Writers, n \in 0 .. MaxSaves :
              <<v, n>> # <<w, m>> => files'[<<v, n>>] = files[<<v, n>>]
    BY <2>1, <2>3, <2>4, TempNames DEF SnapTypes
  <2>6. r.tmp[1] = w /\ r.tmp[2] < saves
    BY <2>3, <2>4
  <2>7. \A n \in 0 .. MaxSaves : files'[<<w, n>>] # Nothing => n < saves
    BY <1>1, <2>4, <2>5
  <2>8. \A v \in Writers \ {w}, n \in 0 .. MaxSaves : files'[<<v, n>>] = files[<<v, n>>]
    BY <2>4, <2>5
  <2>9. QED
    BY <1>1, <1>2, <2>1, <2>3, <2>5, <2>6, <2>7, <2>8, WriterStep
<1>8. CASE SaveFails(w)
  <2>1. saver' = [saver EXCEPT ![w] = Idle] /\ UNCHANGED counter /\ saver[w] # Idle
    BY <1>8 DEF SaveFails
  <2>2. CASE UNCHANGED <<files, synced>>
    BY <1>1, <1>2, <1>4, <2>1, <2>2, WriterStep
  <2>3. CASE /\ saver[w].pc # "create"
             /\ files' = [files EXCEPT ![saver[w].tmp] = Nothing]
             /\ synced' = synced \ {saver[w].tmp}
    <3>1. saver[w] \in Writing
      BY <2>1, <2>3, SaverCases
    <3>2. PICK m \in 0 .. MaxSaves :
              /\ saver[w].tmp = <<w, m>> /\ saver[w].tmp \in DOMAIN files /\ saver[w].tmp # Path
              /\ \A v \in Writers, n \in 0 .. MaxSaves : <<v, n>> = <<w, m>> => v = w /\ n = m
      BY <1>3, <3>1
    <3>3. /\ DOMAIN files' = DOMAIN files /\ files'[Path] = files[Path] /\ files'[<<w, m>>] = Nothing
          /\ \A v \in Writers, n \in 0 .. MaxSaves :
                <<v, n>> # <<w, m>> => files'[<<v, n>>] = files[<<v, n>>]
      BY <2>3, <3>2, TempNames DEF SnapTypes
    <3>4. \A n \in 0 .. MaxSaves : files'[<<w, n>>] # Nothing => n < saves
      BY <1>1, <3>3
    <3>5. \A v \in Writers \ {w}, n \in 0 .. MaxSaves :
              files'[<<v, n>>] = files[<<v, n>>] /\ (<<v, n>> \in synced => <<v, n>> \in synced')
      BY <2>3, <3>2, <3>3
    <3>6. Path \in synced'
      BY <1>2, <2>3, <3>2
    <3>7. QED
      BY <1>1, <1>2, <1>4, <2>1, <3>3, <3>4, <3>5, <3>6, WriterStep
  <2>4. QED
    BY <1>8, <2>2, <2>3 DEF SaveFails
<1>9. QED
  BY <1>5, <1>6, <1>7, <1>8

\* The rename puts a whole and synced document on the path.
LEMMA RenameTempStep ==
    ASSUME SnapInv, NEW w \in Writers, RenameTemp(w)
    PROVE  SnapInv'
<1> USE DEF SnapInv
<1> DEFINE tmp == saver[w].tmp
<1>1. /\ saver[w].pc = "rename" /\ saver' = [saver EXCEPT ![w] = Idle]
      /\ files' = [files EXCEPT ![Path] = files[tmp], ![tmp] = Nothing]
      /\ synced' = (synced \ {tmp, Path}) \cup (IF tmp \in synced THEN {Path} ELSE {})
      /\ older' = files[Path] /\ UNCHANGED <<counter, saves, captured>>
  BY DEF RenameTemp
<1>2. saver[w] \in Writing /\ tmp \in Temps /\ saver[w].doc \in Docs
  BY <1>1, SaverCases
<1>3. files[tmp] = saver[w].doc /\ tmp \in synced /\ tmp[1] = w
  BY <1>1, <1>2 DEF TempIsWhole
<1>4. PICK m \in 0 .. MaxSaves : tmp = <<w, m>>
  BY <1>2, <1>3, TempNames
<1> HIDE DEF tmp
<1>5. tmp # Path /\ tmp \in DOMAIN files /\ Path \in DOMAIN files
  BY <1>2, TempNames DEF SnapTypes
<1>6. /\ DOMAIN files' = DOMAIN files /\ files'[Path] = saver[w].doc /\ files'[tmp] = Nothing
      /\ \A f \in DOMAIN files \ {Path, tmp} : files'[f] = files[f]
  BY <1>1, <1>3, <1>5
<1>7. Path \in synced' /\ \A f \in synced \ {tmp} : f \in synced'
  BY <1>1, <1>3
<1>8. Docs' = Docs /\ Writing' = Writing
  BY <1>1 DEF Docs, Writing
<1>9. saver'[w] = Idle /\ \A v \in Writers \ {w} : saver'[v] = saver[v]
  BY <1>1 DEF SnapTypes
<1>10. Idle.pc = "idle" /\ Idle \notin Writing
  BY DEF Idle, Writing
<1>11. SnapTypes'
  <2>1. saver' \in [Writers -> {Idle} \cup [pc : {"create"}, doc : Docs] \cup Writing]
    <3> DEFINE T == {Idle} \cup [pc : {"create"}, doc : Docs] \cup Writing
    <3>1. saver \in [Writers -> T] /\ Idle \in T
      BY DEF SnapTypes
    <3> HIDE DEF T
    <3>2. saver' \in [Writers -> T]
      BY <1>1, <3>1
    <3>3. QED
      BY <3>2 DEF T
  <2>2. QED
    BY <1>1, <1>6, <1>7, <1>8, <2>1 DEF SnapTypes
<1>12. ASSUME NEW v \in Writers \ {w}, NEW n \in 0 .. MaxSaves
       PROVE  files'[<<v, n>>] = files[<<v, n>>] /\ <<v, n>> # tmp
  <2>1. <<v, n>> \in DOMAIN files /\ <<v, n>> # Path /\ <<v, n>> # tmp
    BY <1>4, TempNames DEF SnapTypes
  <2>2. QED
    BY <1>6, <2>1
<1>13. TempIsWhole'
  <2>1. SUFFICES ASSUME NEW v \in Writers, saver'[v] \in Writing
                 PROVE  /\ saver'[v].tmp[1] = v /\ saver'[v].tmp[2] < saves'
                        /\ saver'[v].pc \in {"sync", "rename"} => files'[saver'[v].tmp] = saver'[v].doc
                        /\ saver'[v].pc = "rename" => saver'[v].tmp \in synced'
    BY <1>8 DEF TempIsWhole
  <2>2. v # w /\ saver'[v] = saver[v] /\ saver[v] \in Writing
    BY <1>9, <1>10, <2>1
  <2>3. saver[v].tmp \in Temps /\ saver[v].tmp[1] = v /\ saver[v].tmp[2] < saves
    BY <2>2, SaverCases DEF TempIsWhole
  <2>4. PICK n \in 0 .. MaxSaves : saver[v].tmp = <<v, n>>
    BY <2>3, TempNames
  <2>5. files'[saver[v].tmp] = files[saver[v].tmp] /\ saver[v].tmp # tmp
    BY <1>12, <2>2, <2>4
  <2>6. /\ saver[v].pc \in {"sync", "rename"} => files[saver[v].tmp] = saver[v].doc
        /\ saver[v].pc = "rename" => saver[v].tmp \in synced
    BY <2>2 DEF TempIsWhole
  <2>7. QED
    BY <1>1, <1>7, <2>2, <2>3, <2>5, <2>6
<1>14. NamesLeft'
  <2>1. SUFFICES ASSUME NEW v \in Writers
                 PROVE  /\ saver'[v].pc = "create" => saves' > 0
                        /\ counter'[v] <= Named(v)'
                        /\ \A n \in 0 .. MaxSaves : files'[<<v, n>>] # Nothing => n < Named(v)'
    BY DEF NamesLeft
  <2>2. Named(v)' = Named(v) /\ (saver'[v].pc = "create" => saver[v].pc = "create")
    BY <1>1, <1>9, <1>10 DEF Named
  <2>3. \A n \in 0 .. MaxSaves : files'[<<v, n>>] # Nothing => files[<<v, n>>] # Nothing
    <3>1. CASE v # w
      BY <1>12, <3>1
    <3>2. CASE v = w
      <4>1. SUFFICES ASSUME NEW n \in 0 .. MaxSaves
                     PROVE  files'[<<w, n>>] # Nothing => files[<<w, n>>] # Nothing
        BY <3>2
      <4>2. <<w, n>> \in DOMAIN files /\ <<w, n>> # Path
        BY TempNames DEF SnapTypes
      <4>3. QED
        BY <1>6, <4>2
    <3>3. QED
      BY <3>1, <3>2
  <2>4. QED
    BY <1>1, <2>2, <2>3 DEF NamesLeft
<1>15. older' \in Docs' /\ PathHoldsWhole'
  <2>1. files[Path] \in Docs
    BY DEF PathHoldsWhole, Docs
  <2>2. files'[Path] \in Docs
    BY <1>2, <1>6
  <2>3. QED
    BY <1>1, <1>8, <2>1, <2>2 DEF PathHoldsWhole, Docs
<1>16. QED
  BY <1>11, <1>13, <1>14, <1>15

\* A machine that stops loses what was not synced, which never is the path.
LEMMA PowerLossStep ==
    ASSUME SnapInv, PowerLoss
    PROVE  SnapInv'
<1> USE DEF SnapInv
<1>1. PICK back \in BOOLEAN, lost \in SUBSET {f \in DOMAIN files \ synced : files[f] # Nothing} :
          files' = [f \in DOMAIN files |->
                      IF f \in lost THEN Torn
                      ELSE IF f = Path /\ back THEN older ELSE files[f]]
  BY DEF PowerLoss
<1>2. /\ synced' = {f \in DOMAIN files : files[f] # Nothing} \cup {Path}
      /\ saver' = [w \in Writers |-> Idle] /\ counter' = [w \in Writers |-> 0]
      /\ UNCHANGED <<older, saves, captured>>
  BY DEF PowerLoss
<1>3. Docs' = Docs /\ Writing' = Writing /\ Idle.pc = "idle" /\ Idle \notin Writing
  BY <1>2 DEF Docs, Writing, Idle
<1>4. Path \in DOMAIN files /\ Path \notin lost /\ DOMAIN files' = DOMAIN files
  BY <1>1 DEF SnapTypes
<1>5. files'[Path] \in Docs
  <2>1. files[Path] \in Docs
    BY DEF PathHoldsWhole, Docs
  <2>2. QED
    BY <1>1, <1>4, <2>1
<1>6. SnapTypes'
  BY <1>2, <1>3, <1>4 DEF SnapTypes
<1>7. \A w \in Writers : saver'[w] = Idle /\ counter'[w] = 0
  BY <1>2
<1>8. TempIsWhole'
  BY <1>3, <1>7 DEF TempIsWhole
<1>9. NamesLeft'
  <2>1. SUFFICES ASSUME NEW w \in Writers
                 PROVE  /\ saver'[w].pc = "create" => saves' > 0
                        /\ counter'[w] <= Named(w)'
                        /\ \A n \in 0 .. MaxSaves : files'[<<w, n>>] # Nothing => n < Named(w)'
    BY DEF NamesLeft
  <2>2. saves \in Nat /\ Named(w)' = saves
    BY <1>2, <1>3, <1>7, SnapshotAssumption DEF SnapTypes, Named
  <2>3. Named(w) \in Int /\ Named(w) <= saves
    BY <2>2 DEF Named
  <2>4. ASSUME NEW n \in 0 .. MaxSaves, files'[<<w, n>>] # Nothing
        PROVE  n < saves
    <3>1. <<w, n>> \in DOMAIN files /\ <<w, n>> # Path
      BY TempNames DEF SnapTypes
    <3>2. files[<<w, n>>] # Nothing
      BY <1>1, <2>4, <3>1
    <3>3. n < Named(w)
      BY <3>2 DEF NamesLeft
    <3>4. QED
      BY <2>2, <2>3, <3>3
  <2>5. QED
    BY <1>3, <1>7, <2>2, <2>4
<1>10. QED
  BY <1>2, <1>3, <1>5, <1>6, <1>8, <1>9 DEF PathHoldsWhole, Docs

\* Every step of the writers, of the users and of the machine.
LEMMA SnapStepInv == SnapInv /\ [SnapNext]_snapVars => SnapInv'
<1> SUFFICES ASSUME SnapInv, [SnapNext]_snapVars
             PROVE  SnapInv'
  OBVIOUS
<1>1. CASE SaveSession
  <2>1. Begin("daemon", Capture(live), live) /\ "daemon" \in Writers
    BY <1>1 DEF SaveSession, Writers
  <2>2. QED
    BY <2>1, BeginStep
<1>2. CASE Upgrade
  <2>1. PICK c \in captured : Begin("cli", Parse(files[Path]), c.of)
    BY <1>2 DEF Upgrade
  <2>2. "cli" \in Writers
    BY DEF Writers
  <2>3. QED
    BY <2>1, <2>2, BeginStep
<1>3. CASE PowerLoss
  BY <1>3, PowerLossStep
<1>4. ASSUME NEW w \in Writers, CreateTemp(w)
      PROVE  SnapInv'
  BY <1>4, CreateTempStep
<1>5. ASSUME NEW w \in Writers, RenameTemp(w)
      PROVE  SnapInv'
  BY <1>5, RenameTempStep
<1>6. ASSUME NEW w \in Writers, WriteTemp(w) \/ SyncTemp(w) \/ SaveFails(w) \/ Crash(w)
      PROVE  SnapInv'
  BY <1>6, TempStep
<1>7. CASE SessionChanges \/ LoadSession \/ UNCHANGED snapVars
  <2>1. UNCHANGED <<files, older, synced, saver, counter, saves, captured>>
    BY <1>7 DEF SessionChanges, LoadSession, snapVars
  <2>2. Docs' = Docs /\ Writing' = Writing
    BY <2>1 DEF Docs, Writing
  <2>3. QED
    BY <2>1, <2>2 DEF SnapInv, SnapTypes, TempIsWhole, NamesLeft, Named, PathHoldsWhole
<1>8. QED
  BY <1>1, <1>2, <1>3, <1>4, <1>5, <1>6, <1>7 DEF SnapNext

\* Whatever step a writer or the machine stops in, the path holds a whole
\* document that was meant for it.
THEOREM PathAlwaysWhole == Spec => []PathHoldsWhole
<1>1. Init => SnapInv
  BY SnapInitInv DEF Init
<1>2. [Next]_vars => [SnapNext]_snapVars
  BY DEF Next, Protocols, vars
<1>3. SnapInv /\ [Next]_vars => SnapInv'
  BY <1>2, SnapStepInv
<1>4. SnapInv => PathHoldsWhole
  BY DEF SnapInv
<1>5. QED
  BY <1>1, <1>3, <1>4, PTL DEF Spec

-----------------------------------------------------------------------------
(* What is saved comes back.                                               *)

\* A document the daemon wrote comes from a session, and every document that
\* may be read has a sequence of tabs.
Written(c) == c.of # Nothing => /\ IsSession(c.of) /\ c.doc = Capture(c.of)
                                /\ Validate(c.doc)
Readable(doc) == doc \in {Nothing, Torn} \/ doc.ver = 1 \/ HasTabs(doc)
RestoreInv ==
    /\ IsSession(live)
    /\ \A c \in captured : Written(c) /\ Readable(c.doc)

\* The tabs of a session in the order of the document.
TabAt(s, i) == CASE i = s.at -> s.cur
                 [] i < s.at -> s.stored[i]
                 [] OTHER    -> s.stored[i - 1]

\* The entry of a leaf.
PaneDoc(tab, id) ==
    IF id \notin DOMAIN tab.panes \/ tab.panes[id].sensitive THEN PlainShell(id)
    ELSE [id |-> id, launch |-> tab.panes[id].launch,
          blob |-> IF Persisted(tab.panes[id])
                   THEN [rows |-> tab.panes[id].rows, claim |-> tab.panes[id].rows]
                   ELSE NoRows]

\* The entry of a tab with its histories.
WholeTab(tab) ==
    [ids |-> tab.ids, next |-> tab.next, active |-> tab.active, zoom |-> tab.zoom,
     panes |-> [i \in DOMAIN tab.ids |-> PaneDoc(tab, tab.ids[i])]]

\* The histories of a tab go to the entries of its own panes.
LEMMA CapturedTab ==
    ASSUME NEW tab
    PROVE  CaptureTab(TabDoc(tab), tab) = WholeTab(tab)
<1> DEFINE doc == TabDoc(tab)
           sp(i) == SnapshotPanes(tab)[i]
           cp(i) == IF sp(i).id \notin DOMAIN tab.panes THEN [sp(i) EXCEPT !.blob = NoRows]
                    ELSE IF tab.panes[sp(i).id].sensitive THEN PlainShell(sp(i).id)
                    ELSE IF ~Persisted(tab.panes[sp(i).id]) THEN [sp(i) EXCEPT !.blob = NoRows]
                    ELSE [sp(i) EXCEPT !.blob = [rows  |-> tab.panes[sp(i).id].rows,
                                                 claim |-> tab.panes[sp(i).id].rows]]
<1>1. DOMAIN SnapshotPanes(tab) = DOMAIN tab.ids
  BY DEF SnapshotPanes
<1>2. doc.panes = SnapshotPanes(tab)
  BY DEF TabDoc
<1>3. CaptureTab(doc, tab) = [doc EXCEPT !.panes = [i \in DOMAIN tab.ids |-> cp(i)]]
  <2>1. CaptureTab(doc, tab) = [doc EXCEPT !.panes = [i \in DOMAIN doc.panes |->
          IF doc.panes[i].id \notin DOMAIN tab.panes THEN [doc.panes[i] EXCEPT !.blob = NoRows]
          ELSE IF tab.panes[doc.panes[i].id].sensitive THEN PlainShell(doc.panes[i].id)
          ELSE IF ~Persisted(tab.panes[doc.panes[i].id]) THEN [doc.panes[i] EXCEPT !.blob = NoRows]
          ELSE [doc.panes[i] EXCEPT !.blob = [rows  |-> tab.panes[doc.panes[i].id].rows,
                                              claim |-> tab.panes[doc.panes[i].id].rows]]]]
    BY Zenon DEF CaptureTab
  <2> HIDE DEF doc
  <2>2. QED
    BY <1>1, <1>2, <2>1, Zenon
<1>4. ASSUME NEW i \in DOMAIN tab.ids
      PROVE  cp(i) = PaneDoc(tab, tab.ids[i])
  <2> DEFINE id == tab.ids[i]
  <2>1. sp(i) = IF id \notin DOMAIN tab.panes \/ tab.panes[id].sensitive THEN PlainShell(id)
                ELSE [id |-> id, launch |-> tab.panes[id].launch, blob |-> NoRows]
    BY DEF SnapshotPanes
  <2>2. sp(i).id = id
    BY <2>1 DEF PlainShell
  <2>3. CASE id \notin DOMAIN tab.panes
    <3>1. cp(i) = [PlainShell(id) EXCEPT !.blob = NoRows]
      BY <2>1, <2>2, <2>3
    <3>2. QED
      BY <2>3, <3>1 DEF PaneDoc, PlainShell
  <2>4. CASE id \in DOMAIN tab.panes /\ tab.panes[id].sensitive
    BY <2>2, <2>4 DEF PaneDoc
  <2>5. CASE id \in DOMAIN tab.panes /\ ~tab.panes[id].sensitive
    <3> DEFINE p == [id |-> id, launch |-> tab.panes[id].launch, blob |-> NoRows]
    <3>1. sp(i) = p
      BY <2>1, <2>5
    <3>2. cp(i) = IF ~Persisted(tab.panes[id]) THEN [p EXCEPT !.blob = NoRows]
                  ELSE [p EXCEPT !.blob = [rows |-> tab.panes[id].rows, claim |-> tab.panes[id].rows]]
      BY <2>2, <2>5, <3>1
    <3>3. QED
      BY <2>5, <3>2 DEF PaneDoc
  <2>6. QED
    BY <2>3, <2>4, <2>5
<1>5. [i \in DOMAIN tab.ids |-> cp(i)] = [i \in DOMAIN tab.ids |-> PaneDoc(tab, tab.ids[i])]
  <2> HIDE DEF cp
  <2>1. QED
    BY <1>4
<1> HIDE DEF cp
<1>6. QED
  BY <1>3, <1>5 DEF TabDoc, WholeTab

Capturing(f, s) ==
    f = [k \in 0 .. Len(s.stored) |->
            IF k = 0 THEN [FromLive(s) EXCEPT !.tabs[s.at] = CaptureTab(@, s.cur)]
            ELSE [f[k - 1] EXCEPT !.tabs[Logical(s, k)] = CaptureTab(@, s.stored[k])]]

\* The document after the first k stored tabs have their histories.
HasHistory(s, k, i) == i = s.at \/ \E j \in 1 .. k : Logical(s, j) = i
PartDoc(s, k) ==
    [ver |-> Version, at |-> s.at,
     tabs |-> [i \in 1 .. Len(s.stored) + 1 |->
                 IF HasHistory(s, k, i) THEN WholeTab(TabAt(s, i)) ELSE TabDoc(TabAt(s, i))]]

\* Logical leaves the gap of the active tab and reaches every other place once.
LEMMA LogicalFacts ==
    ASSUME NEW s, IsSession(s)
    PROVE  /\ Len(s.stored) \in Nat /\ s.at \in 1 .. Len(s.stored) + 1
           /\ DOMAIN s.stored = 1 .. Len(s.stored)
           /\ \A k \in 1 .. Len(s.stored) :
                 /\ Logical(s, k) \in 1 .. Len(s.stored) + 1 /\ Logical(s, k) # s.at
                 /\ TabAt(s, Logical(s, k)) = s.stored[k]
           /\ \A j, k \in 1 .. Len(s.stored) : Logical(s, j) = Logical(s, k) => j = k
           /\ \A i \in 1 .. Len(s.stored) + 1 : HasHistory(s, Len(s.stored), i)
           /\ TabAt(s, s.at) = s.cur
<1>1. Len(s.stored) \in Nat /\ DOMAIN s.stored = 1 .. Len(s.stored)
  BY LenProperties DEF IsSession
<1>2. s.at \in 1 .. Len(s.stored) + 1
  BY DEF IsSession
<1>3. ASSUME NEW k \in 1 .. Len(s.stored)
      PROVE  /\ Logical(s, k) \in 1 .. Len(s.stored) + 1 /\ Logical(s, k) # s.at
             /\ TabAt(s, Logical(s, k)) = s.stored[k]
  <2>1. CASE k < s.at
    BY <1>1, <1>2, <2>1 DEF Logical, TabAt
  <2>2. CASE ~(k < s.at)
    BY <1>1, <1>2, <2>2 DEF Logical, TabAt
  <2>3. QED
    BY <2>1, <2>2
<1>4. \A j, k \in 1 .. Len(s.stored) : Logical(s, j) = Logical(s, k) => j = k
  BY <1>1, <1>2 DEF Logical
<1>5. ASSUME NEW i \in 1 .. Len(s.stored) + 1
      PROVE  HasHistory(s, Len(s.stored), i)
  <2>1. CASE i < s.at
    <3>1. i \in 1 .. Len(s.stored) /\ Logical(s, i) = i
      BY <1>1, <1>2, <2>1 DEF Logical
    <3>2. QED
      BY <3>1 DEF HasHistory
  <2>2. CASE i > s.at
    <3>1. i - 1 \in 1 .. Len(s.stored) /\ Logical(s, i - 1) = i
      BY <1>1, <1>2, <2>2 DEF Logical
    <3>2. QED
      BY <3>1 DEF HasHistory
  <2>3. CASE i = s.at
    BY <2>3 DEF HasHistory
  <2>4. QED
    BY <1>1, <1>2, <2>1, <2>2, <2>3
<1>6. TabAt(s, s.at) = s.cur
  BY <1>1, <1>2 DEF TabAt
<1>7. QED
  BY <1>1, <1>2, <1>3, <1>4, <1>5, <1>6

\* Giving one more place its histories.
LEMMA PartStep ==
    ASSUME NEW s, IsSession(s), NEW i \in 1 .. Len(s.stored) + 1, NEW k, NEW l,
           ~HasHistory(s, k, i),
           \A j \in 1 .. Len(s.stored) + 1 : HasHistory(s, l, j) <=> HasHistory(s, k, j) \/ j = i
    PROVE  [PartDoc(s, k) EXCEPT !.tabs[i] = CaptureTab(@, TabAt(s, i))] = PartDoc(s, l)
<1> DEFINE N == 1 .. Len(s.stored) + 1
           T(m) == [j \in N |-> IF HasHistory(s, m, j) THEN WholeTab(TabAt(s, j)) ELSE TabDoc(TabAt(s, j))]
<1>1. T(k)[i] = TabDoc(TabAt(s, i))
  OBVIOUS
<1>2. CaptureTab(T(k)[i], TabAt(s, i)) = WholeTab(TabAt(s, i))
  BY <1>1, CapturedTab
<1>3. [T(k) EXCEPT ![i] = WholeTab(TabAt(s, i))] = T(l)
  <2> DEFINE U == [T(k) EXCEPT ![i] = WholeTab(TabAt(s, i))]
  <2>1. DOMAIN U = N /\ DOMAIN T(l) = N
    OBVIOUS
  <2>2. ASSUME NEW j \in N
        PROVE  U[j] = T(l)[j]
    <3>1. CASE j = i
      BY <3>1
    <3>2. CASE j # i
      BY <3>2
    <3>3. QED
      BY <3>1, <3>2
  <2>3. U = [j \in N |-> U[j]] /\ T(l) = [j \in N |-> T(l)[j]]
    OBVIOUS
  <2> HIDE DEF U, T, N
  <2>4. QED
    BY <2>2, <2>3 DEF U
<1>4. PartDoc(s, k).tabs = T(k) /\ PartDoc(s, l).tabs = T(l)
  BY DEF PartDoc
<1>5. PartDoc(s, k) = [ver |-> Version, at |-> s.at, tabs |-> T(k)]
      /\ PartDoc(s, l) = [ver |-> Version, at |-> s.at, tabs |-> T(l)]
  BY DEF PartDoc
<1> HIDE DEF T, N
<1>6. QED
  BY <1>2, <1>3, <1>4, <1>5

\* capture_snapshot gives every tab its own histories.
LEMMA CapturedDoc ==
    ASSUME NEW s, IsSession(s)
    PROVE  Capture(s) = [ver |-> Version, at |-> s.at,
                         tabs |-> [i \in 1 .. Len(s.stored) + 1 |-> WholeTab(TabAt(s, i))]]
<1> DEFINE n == Len(s.stored)
           g == [k \in 0 .. n |-> PartDoc(s, k)]
           Base == [FromLive(s) EXCEPT !.tabs[s.at] = CaptureTab(@, s.cur)]
           Step(d, k) == [d EXCEPT !.tabs[Logical(s, k)] = CaptureTab(@, s.stored[k])]
<1>1. /\ n \in Nat /\ s.at \in 1 .. n + 1
      /\ \A k \in 1 .. n : /\ Logical(s, k) \in 1 .. n + 1 /\ Logical(s, k) # s.at
                           /\ TabAt(s, Logical(s, k)) = s.stored[k]
      /\ \A j, k \in 1 .. n : Logical(s, j) = Logical(s, k) => j = k
      /\ \A i \in 1 .. n + 1 : HasHistory(s, n, i)
      /\ TabAt(s, s.at) = s.cur
  BY LogicalFacts
<1>2. Base = PartDoc(s, 0)
  <2> DEFINE T == [i \in 1 .. n + 1 |-> TabDoc(TabAt(s, i))]
             U == [i \in 1 .. n + 1 |-> IF HasHistory(s, 0, i) THEN WholeTab(TabAt(s, i)) ELSE TabDoc(TabAt(s, i))]
  <2>1. FromLive(s) = [ver |-> Version, at |-> s.at, tabs |-> T]
    BY DEF FromLive, TabAt
  <2>2. CaptureTab(T[s.at], s.cur) = WholeTab(s.cur)
    BY <1>1, CapturedTab
  <2>3. \A i : HasHistory(s, 0, i) <=> i = s.at
    BY DEF HasHistory
  <2>4. [T EXCEPT ![s.at] = WholeTab(s.cur)] = U
    <3> DEFINE V == [T EXCEPT ![s.at] = WholeTab(s.cur)]
    <3>1. ASSUME NEW i \in 1 .. n + 1
          PROVE  V[i] = U[i]
      <4>1. CASE i = s.at
        BY <1>1, <2>3, <4>1
      <4>2. CASE i # s.at
        BY <1>1, <2>3, <4>2
      <4>3. QED
        BY <4>1, <4>2
    <3>2. V = [i \in 1 .. n + 1 |-> V[i]] /\ U = [i \in 1 .. n + 1 |-> U[i]]
      OBVIOUS
    <3> HIDE DEF V, U, T
    <3>3. V = U
      BY <3>1, <3>2
    <3>4. QED
      BY <3>3 DEF V
  <2>5. PartDoc(s, 0) = [ver |-> Version, at |-> s.at, tabs |-> U]
    BY DEF PartDoc
  <2> HIDE DEF T, U
  <2>6. QED
    BY <2>1, <2>2, <2>4, <2>5
<1>3. ASSUME NEW k \in 1 .. n
      PROVE  Step(PartDoc(s, k - 1), k) = PartDoc(s, k)
  <2> DEFINE i == Logical(s, k)
  <2>1. i \in 1 .. n + 1 /\ i # s.at /\ TabAt(s, i) = s.stored[k]
    BY <1>1
  <2>2. ~HasHistory(s, k - 1, i)
    <3>1. \A j \in 1 .. k - 1 : j \in 1 .. n /\ j # k
      BY <1>1
    <3>2. QED
      BY <1>1, <2>1, <3>1 DEF HasHistory
  <2>3. \A j \in 1 .. n + 1 : HasHistory(s, k, j) <=> HasHistory(s, k - 1, j) \/ j = i
    <3>1. \A j : j \in 1 .. k <=> j \in 1 .. k - 1 \/ j = k
      BY <1>1
    <3>2. QED
      BY <3>1 DEF HasHistory
  <2> HIDE DEF i
  <2>4. [PartDoc(s, k - 1) EXCEPT !.tabs[i] = CaptureTab(@, TabAt(s, i))] = PartDoc(s, k)
    BY <2>1, <2>2, <2>3, PartStep
  <2>5. QED
    BY <2>1, <2>4 DEF i
<1> HIDE DEF Step, Base
<1>4. g = [k \in 0 .. n |-> IF k = 0 THEN Base ELSE Step(g[k - 1], k)]
  <2>1. ASSUME NEW k \in 0 .. n
        PROVE  PartDoc(s, k) = IF k = 0 THEN Base ELSE Step(g[k - 1], k)
    <3>1. CASE k = 0
      BY <1>2, <3>1
    <3>2. CASE k # 0
      <4>1. k \in 1 .. n /\ k - 1 \in 0 .. n
        BY <1>1, <3>2
      <4>2. g[k - 1] = PartDoc(s, k - 1)
        BY <4>1
      <4>3. QED
        BY <1>3, <3>2, <4>1, <4>2
    <3>3. QED
      BY <3>1, <3>2
  <2>2. QED
    BY <2>1
<1>5. Capturing(g, s)
  BY <1>4 DEF Capturing, Step, Base
<1> DEFINE f == CHOOSE h : Capturing(h, s)
<1>6. Capturing(f, s)
  BY <1>5
<1>7. Capture(s) = f[n]
  BY DEF Capture, Capturing
<1> HIDE DEF f, g
<1>8. f = [k \in 0 .. n |-> IF k = 0 THEN Base ELSE Step(f[k - 1], k)]
  BY <1>6 DEF Capturing, Step, Base
<1> DEFINE S == {k \in Nat : k <= n => f[k] = PartDoc(s, k)}
<1>9. 0 \in S
  BY <1>1, <1>2, <1>8
<1>10. ASSUME NEW k \in S
       PROVE  k + 1 \in S
  <2>1. SUFFICES ASSUME k + 1 <= n
                 PROVE  f[k + 1] = PartDoc(s, k + 1)
    BY <1>1
  <2>2. k \in Nat /\ k + 1 \in 1 .. n /\ k + 1 \in 0 .. n /\ (k + 1) - 1 = k /\ k + 1 # 0
    BY <1>1, <2>1
  <2>3. f[k] = PartDoc(s, k)
    BY <1>1, <2>1, <2>2
  <2>4. f[k + 1] = Step(f[(k + 1) - 1], k + 1)
    BY <1>8, <2>2
  <2>5. Step(PartDoc(s, (k + 1) - 1), k + 1) = PartDoc(s, k + 1)
    BY <1>3, <2>2
  <2>6. QED
    BY <2>2, <2>3, <2>4, <2>5
<1>11. \A k \in Nat : k \in S
  <2> HIDE DEF S
  <2>1. S \in SUBSET Nat
    BY DEF S
  <2>2. QED
    BY <1>9, <1>10, <2>1, Induction
<1>12. f[n] = PartDoc(s, n)
  BY <1>1, <1>11
<1>13. [i \in 1 .. n + 1 |-> IF HasHistory(s, n, i) THEN WholeTab(TabAt(s, i)) ELSE TabDoc(TabAt(s, i))]
          = [i \in 1 .. n + 1 |-> WholeTab(TabAt(s, i))]
  BY <1>1
<1>14. QED
  BY <1>7, <1>12, <1>13 DEF PartDoc

\* A tab comes back as its user expects it.
LEMMA RestoredTab ==
    ASSUME NEW tab, IsTab(tab)
    PROVE  RestoreTab(WholeTab(tab)) = ExpectedTab(tab)
<1> DEFINE t == WholeTab(tab)
           Ids == ToSet(tab.ids)
           p(id) == CHOOSE q \in ToSet(t.panes) : q.id = id
           r(id) == [launch |-> p(id).launch, sensitive |-> FALSE, keep |-> "default",
                     rows |-> p(id).blob.rows]
           x(id) == [launch    |-> IF Kept(tab, id) THEN tab.panes[id].launch ELSE "shell",
                     sensitive |-> FALSE, keep |-> "default",
                     rows      |-> IF Kept(tab, id) /\ Persisted(tab.panes[id])
                                   THEN tab.panes[id].rows ELSE 0]
<1>1. /\ t.ids = tab.ids /\ t.next = tab.next /\ t.active = tab.active /\ t.zoom = tab.zoom
      /\ t.panes = [i \in DOMAIN tab.ids |-> PaneDoc(tab, tab.ids[i])]
  BY DEF WholeTab
<1>2. \A id : PaneDoc(tab, id).id = id
  BY DEF PaneDoc, PlainShell
<1>3. ToSet(t.panes) = {PaneDoc(tab, id) : id \in Ids}
  <2>1. ToSet(t.panes) = {PaneDoc(tab, tab.ids[i]) : i \in DOMAIN tab.ids}
    BY <1>1 DEF ToSet
  <2>2. QED
    BY <2>1 DEF ToSet
<1> HIDE DEF t
<1>4. ASSUME NEW id \in Ids
      PROVE  p(id) = PaneDoc(tab, id)
  <2>1. PaneDoc(tab, id) \in ToSet(t.panes) /\ PaneDoc(tab, id).id = id
    BY <1>2, <1>3
  <2>2. \A q \in ToSet(t.panes) : q.id = id => q = PaneDoc(tab, id)
    BY <1>2, <1>3
  <2>3. p(id) \in ToSet(t.panes) /\ p(id).id = id
    BY <2>1
  <2>4. QED
    BY <2>2, <2>3
<1> HIDE DEF p
<1>5. ASSUME NEW id \in Ids
      PROVE  r(id) = x(id)
  <2>1. CASE Kept(tab, id)
    <3>1. PaneDoc(tab, id) = [id |-> id, launch |-> tab.panes[id].launch,
                              blob |-> IF Persisted(tab.panes[id])
                                       THEN [rows |-> tab.panes[id].rows, claim |-> tab.panes[id].rows]
                                       ELSE NoRows]
      BY <2>1 DEF Kept, PaneDoc
    <3>2. p(id).launch = tab.panes[id].launch
          /\ p(id).blob.rows = IF Persisted(tab.panes[id]) THEN tab.panes[id].rows ELSE 0
      BY <1>4, <3>1 DEF NoRows
    <3>3. QED
      BY <2>1, <3>2
  <2>2. CASE ~Kept(tab, id)
    <3>1. PaneDoc(tab, id) = PlainShell(id)
      BY <2>2 DEF Kept, PaneDoc
    <3>2. p(id).launch = "shell" /\ p(id).blob.rows = 0
      BY <1>4, <3>1 DEF PlainShell, NoRows
    <3>3. QED
      BY <2>2, <3>2
  <2>3. QED
    BY <2>1, <2>2
<1>6. RestoreTab(t) = [ids |-> tab.ids, next |-> tab.next, active |-> tab.active,
                       zoom |-> tab.zoom, panes |-> [id \in Ids |-> r(id)]]
  BY <1>1 DEF RestoreTab, p
<1>7. ExpectedTab(tab) = [tab EXCEPT !.panes = [id \in Ids |-> x(id)]]
  BY DEF ExpectedTab, LeafIds
<1> HIDE DEF r, x
<1>8. [id \in Ids |-> r(id)] = [id \in Ids |-> x(id)]
  BY <1>5
<1> HIDE DEF Ids
<1>9. ExpectedTab(tab) = [ids |-> tab.ids, next |-> tab.next, active |-> tab.active,
                          zoom |-> tab.zoom, panes |-> [id \in Ids |-> x(id)]]
  BY <1>7 DEF IsTab
<1>10. QED
  BY <1>6, <1>8, <1>9 DEF t

\* A session that was captured and passed validate is read back as expected.
LEMMA RoundTrip ==
    ASSUME NEW s, IsSession(s), Validate(Capture(s))
    PROVE  Loads(Capture(s)) /\ Restore(Parse(Capture(s))) = Expected(s)
<1> DEFINE doc == Capture(s)
           n == Len(s.stored)
<1>1. doc = [ver |-> Version, at |-> s.at, tabs |-> [i \in 1 .. n + 1 |-> WholeTab(TabAt(s, i))]]
  BY CapturedDoc
<1>2. /\ n \in Nat /\ s.at \in 1 .. n + 1 /\ DOMAIN s.stored = 1 .. n
      /\ \A k \in 1 .. n : TabAt(s, Logical(s, k)) = s.stored[k] /\ Logical(s, k) \in 1 .. n + 1
      /\ TabAt(s, s.at) = s.cur
  BY LogicalFacts
<1> HIDE DEF doc
<1>3. doc.ver = 3 /\ doc.at = s.at /\ doc.tabs = [i \in 1 .. n + 1 |-> WholeTab(TabAt(s, i))]
  BY <1>1 DEF Version
<1>4. doc # Nothing /\ doc # Torn
  <2>1. DOMAIN doc = {"ver", "at", "tabs"} /\ DOMAIN Nothing = {"is"} /\ DOMAIN Torn = {"is"}
    BY <1>1 DEF Nothing, Torn
  <2>2. "is" \notin {"ver", "at", "tabs"}
    OBVIOUS
  <2>3. QED
    BY <2>1, <2>2
<1>5. Parse(doc) = doc
  BY <1>3 DEF Parse
<1>6. Validate(doc)
  BY DEF doc
<1>7. ASSUME NEW t \in ToSet(doc.tabs), NEW q \in ToSet(t.panes)
      PROVE  Decodes(q.blob)
  <2>1. BoundsOk(q.blob)
    BY <1>6 DEF Validate
  <2>2. PICK i \in 1 .. n + 1 : t = WholeTab(TabAt(s, i))
    BY <1>3 DEF ToSet
  <2> DEFINE tab == TabAt(s, i)
  <2> HIDE DEF tab
  <2>3. t.panes = [j \in DOMAIN tab.ids |-> PaneDoc(tab, tab.ids[j])]
    BY <2>2 DEF WholeTab, tab
  <2>4. PICK j \in DOMAIN tab.ids : q = PaneDoc(tab, tab.ids[j])
    BY <2>3 DEF ToSet
  <2> DEFINE id == tab.ids[j]
             pane == tab.panes[id]
  <2>5. q = PaneDoc(tab, id)
    BY <2>4
  <2> HIDE DEF id
  <2>6. \/ q = PlainShell(id)
        \/ q = [id |-> id, launch |-> pane.launch, blob |-> [rows |-> pane.rows, claim |-> pane.rows]]
        \/ q = [id |-> id, launch |-> pane.launch, blob |-> NoRows]
    <3>1. CASE id \notin DOMAIN tab.panes \/ pane.sensitive
      BY <2>5, <3>1 DEF PaneDoc
    <3>2. CASE ~(id \notin DOMAIN tab.panes \/ pane.sensitive)
      BY <2>5, <3>2 DEF PaneDoc
    <3>3. QED
      BY <3>1, <3>2
  <2>7. q.blob.rows = q.blob.claim
    BY <2>6 DEF PlainShell, NoRows
  <2>8. QED
    BY <2>1, <2>7 DEF Decodes
<1>8. Loads(doc)
  BY <1>3, <1>4, <1>5, <1>6, <1>7 DEF Loads, Parses, IsSupported, Version
<1>9. Len(doc.tabs) = n + 1
  <2>1. n + 1 \in Nat
    BY <1>2
  <2>2. QED
    BY <1>3, <2>1
<1>10. RestoreTab(doc.tabs[doc.at]) = ExpectedTab(s.cur)
  BY <1>2, <1>3, RestoredTab DEF IsSession
<1>11. ASSUME NEW k \in 1 .. n
       PROVE  RestoreTab(doc.tabs[IF k < doc.at THEN k ELSE k + 1]) = ExpectedTab(s.stored[k])
  <2>1. (IF k < doc.at THEN k ELSE k + 1) = Logical(s, k)
    BY <1>3 DEF Logical
  <2>2. doc.tabs[Logical(s, k)] = WholeTab(s.stored[k])
    BY <1>2, <1>3
  <2>3. IsTab(s.stored[k])
    BY DEF IsSession
  <2>4. QED
    BY <2>1, <2>2, <2>3, RestoredTab
<1>12. Restore(doc) = [at |-> doc.at, cur |-> RestoreTab(doc.tabs[doc.at]),
                       stored |-> [k \in 1 .. n |->
                                     RestoreTab(doc.tabs[IF k < doc.at THEN k ELSE k + 1])]]
  <2>1. Len(doc.tabs) - 1 = n
    BY <1>2, <1>9
  <2>2. QED
    BY <2>1 DEF Restore
<1>13. Expected(s) = [at |-> s.at, cur |-> ExpectedTab(s.cur),
                      stored |-> [k \in 1 .. n |-> ExpectedTab(s.stored[k])]]
  BY <1>2 DEF Expected
<1> HIDE DEF n
<1>14. [k \in 1 .. n |-> RestoreTab(doc.tabs[IF k < doc.at THEN k ELSE k + 1])]
         = [k \in 1 .. n |-> ExpectedTab(s.stored[k])]
  BY <1>11
<1>15. Restore(doc) = Expected(s)
  BY <1>3, <1>10, <1>12, <1>13, <1>14
<1>16. QED
  BY <1>5, <1>8, <1>15 DEF doc

\* A function on 1 .. n is a sequence of its own elements.
LEMMA IsSeqOfItself ==
    ASSUME NEW n \in Nat, NEW f, f = [i \in 1 .. n |-> f[i]]
    PROVE  f \in Seq(ToSet(f)) /\ Len(f) = n
<1>1. DOMAIN f = 1 .. n
  OBVIOUS
<1>2. \A i \in 1 .. n : f[i] \in ToSet(f)
  BY <1>1 DEF ToSet
<1>3. f \in [1 .. n -> ToSet(f)]
  BY <1>2
<1>4. QED
  BY <1>3

\* What a reader accepts has, once migrated, a sequence of tabs.
LEMMA ParsedHasTabs ==
    ASSUME NEW doc, Loads(doc), Readable(doc)
    PROVE  HasTabs(Parse(doc)) /\ Validate(Parse(doc)) /\ doc \notin {Nothing, Torn}
<1>1. doc \notin {Nothing, Torn} /\ doc.ver \in 1 .. 3 /\ Validate(Parse(doc))
  BY DEF Loads, Parses, IsSupported, Version
<1>2. CASE doc.ver = 1
  <2> DEFINE t == [ids |-> doc.ids, next |-> doc.next, active |-> doc.active, zoom |-> {},
                   panes |-> [i \in DOMAIN doc.panes |-> [doc.panes[i] EXCEPT !.blob = NoRows]]]
  <2>1. Parse(doc) = [ver |-> Version, at |-> 1, tabs |-> <<t>>]
    BY <1>2 DEF Parse, MigrateV1
  <2> HIDE DEF t
  <2>2. Parse(doc).tabs = <<t>>
    BY <2>1
  <2>3. <<t>> \in Seq(ToSet(<<t>>))
    BY DEF ToSet
  <2>4. QED
    BY <1>1, <2>2, <2>3 DEF HasTabs
<1>3. CASE doc.ver # 1
  <2>1. HasTabs(doc)
    BY <1>1, <1>3 DEF Readable
  <2>2. Parse(doc).tabs = doc.tabs
    <3>1. CASE doc.ver = 2
      <4>1. Parse(doc) = [doc EXCEPT !.ver = Version]
        BY <1>3, <3>1 DEF Parse, MigrateV2
      <4>2. QED
        BY <4>1
    <3>2. CASE doc.ver # 2
      BY <1>3, <3>2 DEF Parse
    <3>3. QED
      BY <3>1, <3>2
  <2>3. QED
    BY <1>1, <2>1, <2>2 DEF HasTabs
<1>4. QED
  BY <1>2, <1>3

\* What is brought to life from it is a session.
LEMMA RestoredIsSession ==
    ASSUME NEW doc, HasTabs(doc), Validate(doc)
    PROVE  IsSession(Restore(doc))
<1> DEFINE s == Restore(doc)
           n == Len(doc.tabs) - 1
           el(k) == RestoreTab(doc.tabs[IF k < doc.at THEN k ELSE k + 1])
<1>1. n \in Nat /\ doc.at \in 1 .. n + 1
  <2>1. Len(doc.tabs) \in Nat /\ DOMAIN doc.tabs = 1 .. Len(doc.tabs)
    BY LenProperties DEF HasTabs
  <2>2. Len(doc.tabs) \in 1 .. MaxTabs /\ doc.at \in DOMAIN doc.tabs
    BY DEF Validate
  <2>3. QED
    BY <2>1, <2>2
<1>2. s = [at |-> doc.at, cur |-> RestoreTab(doc.tabs[doc.at]), stored |-> [k \in 1 .. n |-> el(k)]]
  BY DEF Restore
<1>3. \A t : IsTab(RestoreTab(t))
  BY DEF IsTab, RestoreTab
<1> HIDE DEF s, n, el
<1>4. s.at = doc.at /\ s.cur = RestoreTab(doc.tabs[doc.at]) /\ s.stored = [k \in 1 .. n |-> el(k)]
  BY <1>2
<1>5. s.stored = [k \in 1 .. n |-> s.stored[k]] /\ \A k \in 1 .. n : s.stored[k] = el(k)
  BY <1>4
<1>6. s.stored \in Seq(ToSet(s.stored)) /\ Len(s.stored) = n
  BY <1>1, <1>5, IsSeqOfItself
<1>7. \A k \in 1 .. n : IsTab(s.stored[k])
  BY <1>3, <1>5 DEF el
<1>8. IsTab(s.cur)
  BY <1>3, <1>4
<1>9. QED
  BY <1>1, <1>4, <1>6, <1>7, <1>8 DEF IsSession, s

\* A captured document can be read.
LEMMA CapturedHasTabs ==
    ASSUME NEW s, IsSession(s)
    PROVE  HasTabs(Capture(s)) /\ Capture(s).ver = 3
<1> DEFINE n == Len(s.stored) + 1
           T == [i \in 1 .. n |-> WholeTab(TabAt(s, i))]
<1>1. Capture(s) = [ver |-> Version, at |-> s.at, tabs |-> T]
  BY CapturedDoc
<1>2. n \in Nat
  BY LogicalFacts
<1>3. T = [i \in 1 .. n |-> T[i]]
  OBVIOUS
<1> HIDE DEF T, n
<1>4. T \in Seq(ToSet(T))
  BY <1>2, <1>3, IsSeqOfItself
<1>5. Capture(s).tabs = T /\ Capture(s).ver = 3
  BY <1>1 DEF Version
<1>6. QED
  BY <1>4, <1>5 DEF HasTabs

\* The path is readable, and what is brought to life from it is a session.
LEMMA RestoreStep ==
    ASSUME SnapInv, RestoreInv, [SnapNext]_snapVars
    PROVE  RestoreInv'
<1>1. Readable(files[Path])
  BY DEF SnapInv, PathHoldsWhole, RestoreInv
<1>2. SUFFICES IsSession(live') /\ \A c \in captured' : Written(c) /\ Readable(c.doc)
  BY DEF RestoreInv
<1>3. IsSession(live) /\ \A c \in captured : Written(c) /\ Readable(c.doc)
  BY DEF RestoreInv
<1>4. CASE SessionChanges
  <2>1. live' \in Sessions /\ captured' = captured
    BY <1>4 DEF SessionChanges
  <2>2. QED
    BY <1>3, <2>1, SnapshotAssumption
<1>5. CASE SaveSession
  <2>1. Validate(Capture(live)) /\ live' = live
        /\ captured' = captured \cup {[doc |-> Capture(live), of |-> live]}
    BY <1>5 DEF SaveSession, Begin
  <2> DEFINE e == [doc |-> Capture(live), of |-> live]
  <2>2. e.doc = Capture(live) /\ e.of = live
    OBVIOUS
  <2> HIDE DEF e
  <2>3. Written(e) /\ Readable(e.doc)
    BY <1>3, <2>1, <2>2, CapturedHasTabs DEF Written, Readable
  <2>4. captured' = captured \cup {e}
    BY <2>1 DEF e
  <2>5. QED
    BY <1>3, <2>1, <2>3, <2>4
<1>6. CASE Upgrade
  <2>1. Loads(files[Path])
    BY <1>6 DEF Upgrade
  <2>2. PICK c \in captured : c.doc = files[Path] /\ Begin("cli", Parse(files[Path]), c.of)
    BY <1>6 DEF Upgrade
  <2> DEFINE e == [doc |-> Parse(files[Path]), of |-> c.of]
  <2>3. captured' = captured \cup {e} /\ live' = live /\ Validate(Parse(files[Path]))
    BY <2>2 DEF Begin
  <2>4. e.doc = Parse(files[Path]) /\ e.of = c.of
    OBVIOUS
  <2> HIDE DEF e
  <2>5. HasTabs(e.doc)
    BY <1>1, <2>1, <2>4, ParsedHasTabs
  <2>6. ASSUME e.of # Nothing
        PROVE  IsSession(e.of) /\ e.doc = Capture(e.of) /\ Validate(e.doc)
    <3>1. IsSession(c.of) /\ c.doc = Capture(c.of)
      BY <1>3, <2>4, <2>6 DEF Written
    <3>2. files[Path].ver = 3
      BY <2>2, <3>1, CapturedHasTabs
    <3>3. Parse(files[Path]) = files[Path]
      BY <3>2 DEF Parse
    <3>4. QED
      BY <2>2, <2>3, <2>4, <3>1, <3>3
  <2>7. Written(e) /\ Readable(e.doc)
    BY <2>5, <2>6 DEF Written, Readable
  <2>8. QED
    BY <1>3, <2>3, <2>7
<1>7. CASE LoadSession
  <2>1. Loads(files[Path]) /\ live' = Restore(Parse(files[Path])) /\ captured' = captured
    BY <1>7 DEF LoadSession
  <2>2. HasTabs(Parse(files[Path])) /\ Validate(Parse(files[Path]))
    BY <1>1, <2>1, ParsedHasTabs
  <2>3. IsSession(live')
    BY <2>1, <2>2, RestoredIsSession
  <2>4. QED
    BY <1>3, <2>1, <2>3
<1>8. CASE live' = live /\ captured' = captured
  BY <1>3, <1>8
<1>9. ASSUME NEW w \in Writers,
             CreateTemp(w) \/ WriteTemp(w) \/ SyncTemp(w) \/ RenameTemp(w) \/ SaveFails(w) \/ Crash(w)
      PROVE  live' = live /\ captured' = captured
  BY <1>9, Zenon DEF CreateTemp, WriteTemp, SyncTemp, RenameTemp, SaveFails, Crash
<1>10. CASE PowerLoss \/ UNCHANGED snapVars
  <2>1. live' = live /\ captured' = captured
    BY <1>10, Zenon DEF PowerLoss, snapVars
  <2>2. QED
    BY <1>8, <2>1
<1>11. QED
  BY <1>4, <1>5, <1>6, <1>7, <1>8, <1>9, <1>10, Zenon DEF SnapNext

\* A session the daemon saved is loaded as it was saved, for every session and
\* every number of tabs, also after upgrades, crashes and power losses.
THEOREM SavedComesBack == Spec => []RestoresSession
<1>1. Init => SnapInv /\ RestoreInv
  <2>1. SUFFICES ASSUME SnapInit
                 PROVE  RestoreInv
    BY SnapInitInv DEF Init
  <2>2. PICK doc \in Found : captured = {[doc |-> doc, of |-> Nothing]}
    BY <2>1 DEF SnapInit
  <2>3. IsSession(live)
    BY <2>1, SnapshotAssumption DEF SnapInit
  <2>4. Readable(doc)
    BY SnapshotAssumption DEF Readable
  <2>5. \A c \in captured : c.of = Nothing /\ c.doc = doc
    BY <2>2
  <2>6. QED
    BY <2>3, <2>4, <2>5 DEF RestoreInv, Written
<1>2. [Next]_vars => [SnapNext]_snapVars
  BY DEF Next, Protocols, vars
<1>3. SnapInv /\ RestoreInv /\ [Next]_vars => SnapInv' /\ RestoreInv'
  BY <1>2, SnapStepInv, RestoreStep
<1>4. RestoreInv => RestoresSession
  <2>1. SUFFICES ASSUME RestoreInv, NEW c \in captured, c.of # Nothing, c.doc = files[Path]
                 PROVE  Loads(files[Path]) /\ Restore(Parse(files[Path])) = Expected(c.of)
    BY DEF RestoresSession
  <2>2. IsSession(c.of) /\ c.doc = Capture(c.of) /\ Validate(c.doc)
    BY <2>1 DEF RestoreInv, Written
  <2>3. QED
    BY <2>1, <2>2, RoundTrip
<1>5. QED
  BY <1>1, <1>3, <1>4, PTL DEF Spec

-----------------------------------------------------------------------------
(* The control socket.                                                     *)

Message == Conns \X (1 .. MaxPerConn) \X [cmd : Commands, pane : Nat]

IpcTypes ==
    /\ conn \in [Conns -> {"none", "refused", "reading", "waiting", "closed"}]
    /\ asked \in [Conns -> 0 .. MaxPerConn]
    /\ chan \in Seq(Message)
    /\ executed \in [Conns -> [1 .. MaxPerConn -> Nat]]
    /\ DOMAIN answers = Conns /\ \A c \in Conns : IsSeq(answers[c])

\* A handler answers one request after the other.
Answering ==
    \A c \in Conns :
        /\ conn[c] = "waiting" => asked[c] > 0
        /\ Len(answers[c]) = IF conn[c] = "waiting" THEN asked[c] - 1 ELSE asked[c]

\* A request is in the channel once at most.
QueuedOnce ==
    \A i, j \in 1 .. Len(chan) : chan[i][1] = chan[j][1] /\ chan[i][2] = chan[j][2] => i = j

\* What has not been asked is nowhere.
NotYetAsked ==
    \A c \in Conns, n \in 1 .. MaxPerConn :
        n > asked[c] => executed[c][n] = 0 /\ ~Queued(c, n)

\* What a handler waits for is on its way or has been done.
WaitsForOne ==
    \A c \in Conns : conn[c] = "waiting" =>
        \/ executed[c][asked[c]] = 0 /\ Queued(c, asked[c])
        \/ executed[c][asked[c]] = 1 /\ ~Queued(c, asked[c])

\* An answer on its way is the result of a request that was executed.
Results == {"ok", "error", "panes", "tree", "dump"}
RepliesAreResults ==
    \A r \in reply :
        /\ r[1] \in Conns /\ r[2] \in 1 .. MaxPerConn
        /\ executed[r[1]][r[2]] = 1 /\ ~Queued(r[1], r[2])
        /\ r[3].is \in Results

\* AnswersAreTrue, and that a request with a result is not in the channel too.
AnswersHold ==
    \A c \in Conns : \A n \in 1 .. Len(answers[c]) :
        LET a == answers[c][n].is
        IN  /\ a \in {"busy", "invalid", "timed_out"} \cup Results
            /\ a \in {"busy", "invalid"} => executed[c][n] = 0 /\ ~Queued(c, n)
            /\ a = "timed_out" => \/ executed[c][n] = 0 /\ Queued(c, n)
                                  \/ executed[c][n] = 1 /\ ~Queued(c, n)
            /\ a \in Results => executed[c][n] = 1 /\ ~Queued(c, n)

IpcInv ==
    /\ IpcTypes /\ Answering /\ QueuedOnce /\ NotYetAsked /\ WaitsForOne /\ RepliesAreResults
    /\ AnswersHold

On(ch, c, n) == \E i \in 1 .. Len(ch) : ch[i][1] = c /\ ch[i][2] = n
Once(ch) == \A i, j \in 1 .. Len(ch) : ch[i][1] = ch[j][1] /\ ch[i][2] = ch[j][2] => i = j

\* A request put on the channel is there with the others.
LEMMA ChanAppend ==
    ASSUME NEW ch \in Seq(Message), NEW m \in Message
    PROVE  /\ Append(ch, m) \in Seq(Message)
           /\ \A c, n : On(Append(ch, m), c, n) <=> On(ch, c, n) \/ (m[1] = c /\ m[2] = n)
           /\ Once(ch) /\ ~On(ch, m[1], m[2]) => Once(Append(ch, m))
<1> HIDE DEF Message
<1>1. /\ Append(ch, m) \in Seq(Message) /\ Len(ch) \in Nat
      /\ Len(Append(ch, m)) = Len(ch) + 1
      /\ \A i \in 1 .. Len(ch) : Append(ch, m)[i] = ch[i]
      /\ Append(ch, m)[Len(ch) + 1] = m
  OBVIOUS
<1>2. \A i \in 1 .. Len(ch) + 1 : i \in 1 .. Len(ch) \/ i = Len(ch) + 1
  BY <1>1
<1>3. \A i \in 1 .. Len(ch) : i \in 1 .. Len(ch) + 1
  BY <1>1
<1>4. Len(ch) + 1 \in 1 .. Len(ch) + 1
  BY <1>1
<1> DEFINE k == Len(ch) + 1  a == Append(ch, m)
<1> HIDE DEF k, a
<1>5. \A c, n : On(Append(ch, m), c, n) <=> On(ch, c, n) \/ (m[1] = c /\ m[2] = n)
  BY <1>1, <1>2, <1>3, <1>4, Zenon DEF On
<1>6. ASSUME Once(ch), ~On(ch, m[1], m[2])
      PROVE  Once(Append(ch, m))
  BY <1>1, <1>2, <1>3, <1>4, <1>6, ZenonT(30) DEF On, Once
<1>7. QED
  BY <1>1, <1>5, <1>6

\* A request taken from the channel is there no more, and the others are.
LEMMA ChanTail ==
    ASSUME NEW ch \in Seq(Message), ch # <<>>, Once(ch)
    PROVE  /\ Tail(ch) \in Seq(Message) /\ Head(ch) \in Message
           /\ On(ch, Head(ch)[1], Head(ch)[2])
           /\ \A c, n : On(Tail(ch), c, n) <=> On(ch, c, n) /\ ~(Head(ch)[1] = c /\ Head(ch)[2] = n)
           /\ Once(Tail(ch))
<1> HIDE DEF Message
<1>1. /\ Tail(ch) \in Seq(Message) /\ Len(ch) \in Nat /\ Len(ch) >= 1
      /\ Len(Tail(ch)) = Len(ch) - 1
      /\ Head(ch) = ch[1] /\ Head(ch) \in Message
      /\ \A i \in 1 .. Len(ch) - 1 : Tail(ch)[i] = ch[i + 1]
  OBVIOUS
<1>2. 1 \in 1 .. Len(ch)
  BY <1>1
<1>3. \A c, n : On(Tail(ch), c, n) <=> On(ch, c, n) /\ ~(Head(ch)[1] = c /\ Head(ch)[2] = n)
  <2> TAKE c, n
  <2>1. ASSUME On(Tail(ch), c, n)
        PROVE  On(ch, c, n) /\ ~(Head(ch)[1] = c /\ Head(ch)[2] = n)
    <3>1. PICK i \in 1 .. Len(ch) - 1 : ch[i + 1][1] = c /\ ch[i + 1][2] = n
      BY <1>1, <2>1 DEF On
    <3>2. i + 1 \in 1 .. Len(ch) /\ i + 1 # 1
      BY <1>1
    <3>3. QED
      BY <1>1, <1>2, <3>1, <3>2 DEF On, Once
  <2>2. ASSUME On(ch, c, n), ~(Head(ch)[1] = c /\ Head(ch)[2] = n)
        PROVE  On(Tail(ch), c, n)
    <3>1. PICK i \in 1 .. Len(ch) : ch[i][1] = c /\ ch[i][2] = n
      BY <2>2 DEF On
    <3>2. i # 1
      BY <1>1, <2>2, <3>1
    <3>3. i - 1 \in 1 .. Len(ch) - 1 /\ (i - 1) + 1 = i
      BY <1>1, <3>2
    <3>4. Tail(ch)[i - 1] = ch[i]
      BY <1>1, <3>3
    <3>5. QED
      BY <1>1, <3>1, <3>3, <3>4 DEF On
  <2>3. QED
    BY <2>1, <2>2
<1>4. Once(Tail(ch))
  <2>1. SUFFICES ASSUME NEW i \in 1 .. Len(ch) - 1, NEW j \in 1 .. Len(ch) - 1,
                        Tail(ch)[i][1] = Tail(ch)[j][1], Tail(ch)[i][2] = Tail(ch)[j][2]
                 PROVE  i = j
    BY <1>1 DEF Once
  <2>2. i + 1 \in 1 .. Len(ch) /\ j + 1 \in 1 .. Len(ch)
    BY <1>1
  <2>3. i + 1 = j + 1
    BY <1>1, <2>1, <2>2 DEF Once
  <2>4. QED
    BY <2>3
<1>5. On(ch, Head(ch)[1], Head(ch)[2])
  BY <1>1, <1>2 DEF On
<1>6. QED
  BY <1>1, <1>3, <1>4, <1>5

\* The channel of the specification.
LEMMA QueuedIs ==
    ASSUME chan \in Seq(Message)
    PROVE  /\ \A c, n : Queued(c, n) <=> On(chan, c, n)
           /\ QueuedOnce <=> Once(chan)
<1>1. DOMAIN chan = 1 .. Len(chan)
  OBVIOUS
<1>2. QED
  BY <1>1 DEF Queued, On, QueuedOnce, Once

\* The queue operators in the next state, over the next state's channel.
LEMMA QueuedIsNext ==
    ASSUME (chan \in Seq(Message))'
    PROVE  /\ \A c, n : Queued(c, n)' <=> On(chan', c, n)
           /\ QueuedOnce' <=> Once(chan')
<1>1. DOMAIN chan' = 1 .. Len(chan')
  OBVIOUS
<1>2. QED
  BY <1>1 DEF Queued, On, QueuedOnce, Once

\* What an answer says of its request: executed so often, still on its way or not.
Fits(a, ex, queued) ==
    /\ a \in {"busy", "invalid", "timed_out"} \cup Results
    /\ a \in {"busy", "invalid"} => ex = 0 /\ ~queued
    /\ a = "timed_out" => (ex = 0 /\ queued) \/ (ex = 1 /\ ~queued)
    /\ a \in Results => ex = 1 /\ ~queued

\* The invariants, over the facts a step changes.
LEMMA IpcParts ==
    ASSUME IpcInv
    PROVE  /\ IpcTypes /\ MaxPerConn \in Nat
           /\ Once(chan)
           /\ \A c \in Conns :
                 /\ conn[c] = "waiting" => asked[c] > 0
                 /\ Len(answers[c]) = IF conn[c] = "waiting" THEN asked[c] - 1 ELSE asked[c]
           /\ \A c \in Conns, n \in 1 .. MaxPerConn :
                 n > asked[c] => executed[c][n] = 0 /\ ~On(chan, c, n)
           /\ \A c \in Conns : conn[c] = "waiting" =>
                 \/ executed[c][asked[c]] = 0 /\ On(chan, c, asked[c])
                 \/ executed[c][asked[c]] = 1 /\ ~On(chan, c, asked[c])
           /\ \A r \in reply :
                 /\ r[1] \in Conns /\ r[2] \in 1 .. MaxPerConn
                 /\ executed[r[1]][r[2]] = 1 /\ ~On(chan, r[1], r[2])
                 /\ r[3].is \in Results
           /\ \A c \in Conns : \A n \in 1 .. Len(answers[c]) :
                 Fits(answers[c][n].is, executed[c][n], On(chan, c, n))
<1>1. IpcTypes
  BY DEF IpcInv
<1>2. \A c, n : Queued(c, n) <=> On(chan, c, n)
  BY <1>1, QueuedIs DEF IpcTypes
<1>3. Once(chan)
  BY <1>1, QueuedIs DEF IpcTypes, IpcInv
<1>4. \A c \in Conns : \A n \in 1 .. Len(answers[c]) :
          Fits(answers[c][n].is, executed[c][n], On(chan, c, n))
  <2> HIDE DEF Results
  <2>1. QED
    BY <1>2, Zenon DEF IpcInv, AnswersHold, Fits
<1>5. \A c \in Conns, n \in 1 .. MaxPerConn :
          n > asked[c] => executed[c][n] = 0 /\ ~On(chan, c, n)
  BY <1>2, Zenon DEF IpcInv, NotYetAsked
<1>6. \A c \in Conns : conn[c] = "waiting" =>
          \/ executed[c][asked[c]] = 0 /\ On(chan, c, asked[c])
          \/ executed[c][asked[c]] = 1 /\ ~On(chan, c, asked[c])
  BY <1>2, Zenon DEF IpcInv, WaitsForOne
<1>7. \A r \in reply :
          /\ r[1] \in Conns /\ r[2] \in 1 .. MaxPerConn
          /\ executed[r[1]][r[2]] = 1 /\ ~On(chan, r[1], r[2])
          /\ r[3].is \in Results
  BY <1>2, Zenon DEF IpcInv, RepliesAreResults
<1>8. MaxPerConn \in Nat
  BY IpcAssumption
<1>9. QED
  BY <1>1, <1>3, <1>4, <1>5, <1>6, <1>7, <1>8 DEF IpcInv, Answering

\* The invariant of the next state, from its parts stated there.
LEMMA IpcPartsNext ==
    ASSUME IpcTypes', Once(chan'),
           \A c \in Conns :
                 /\ conn'[c] = "waiting" => asked'[c] > 0
                 /\ Len(answers'[c]) = IF conn'[c] = "waiting" THEN asked'[c] - 1 ELSE asked'[c],
           \A c \in Conns, n \in 1 .. MaxPerConn :
                 n > asked'[c] => executed'[c][n] = 0 /\ ~On(chan', c, n),
           \A c \in Conns : conn'[c] = "waiting" =>
                 \/ executed'[c][asked'[c]] = 0 /\ On(chan', c, asked'[c])
                 \/ executed'[c][asked'[c]] = 1 /\ ~On(chan', c, asked'[c]),
           \A r \in reply' :
                 /\ r[1] \in Conns /\ r[2] \in 1 .. MaxPerConn
                 /\ executed'[r[1]][r[2]] = 1 /\ ~On(chan', r[1], r[2])
                 /\ r[3].is \in Results,
           \A c \in Conns : \A n \in 1 .. Len(answers'[c]) :
                 Fits(answers'[c][n].is, executed'[c][n], On(chan', c, n))
    PROVE  IpcInv'
<1>1. \A c, n : Queued(c, n)' <=> On(chan', c, n)
  BY QueuedIsNext DEF IpcTypes
<1>2. QueuedOnce'
  BY QueuedIsNext DEF IpcTypes
<1>3. AnswersHold'
  <2> HIDE DEF Results
  <2>1. QED
    BY <1>1, Zenon DEF AnswersHold, Fits
<1>4. NotYetAsked'
  BY <1>1, Zenon DEF NotYetAsked
<1>5. WaitsForOne'
  BY <1>1, Zenon DEF WaitsForOne
<1>6. RepliesAreResults'
  BY <1>1, Zenon DEF RepliesAreResults
<1>7. QED
  BY <1>2, <1>3, <1>4, <1>5, <1>6 DEF IpcInv, Answering

\* A handler that writes an answer to the request it has read last.
LEMMA AnswerStep ==
    ASSUME IpcInv, NEW c \in Conns, NEW a, NEW s \in {"reading", "closed"},
           answers' = [answers EXCEPT ![c] = Append(@, a)],
           conn' = [conn EXCEPT ![c] = s],
           UNCHANGED <<chan, executed>>, reply' \subseteq reply,
           asked' \in [Conns -> 0 .. MaxPerConn], asked'[c] = Len(answers[c]) + 1,
           asked'[c] >= asked[c], \A d \in Conns : d # c => asked'[d] = asked[d],
           Fits(a.is, executed[c][asked'[c]], On(chan, c, asked'[c]))
    PROVE  IpcInv'
<1> HIDE DEF Message, Results
<1>1. IpcTypes /\ MaxPerConn \in Nat
  BY IpcParts
<1>2. IsSeq(answers[c]) /\ DOMAIN answers = Conns
  BY <1>1 DEF IpcTypes
<1>3. /\ IsSeq(Append(answers[c], a)) /\ Len(answers[c]) \in Nat
      /\ Len(Append(answers[c], a)) = Len(answers[c]) + 1
      /\ \A i \in 1 .. Len(answers[c]) : Append(answers[c], a)[i] = answers[c][i]
      /\ Append(answers[c], a)[Len(answers[c]) + 1] = a
  BY <1>2, IsSeqAppend
<1>4. /\ DOMAIN answers' = Conns
      /\ answers'[c] = Append(answers[c], a)
      /\ \A d \in Conns : d # c => answers'[d] = answers[d]
  BY <1>2
<1>5. /\ conn'[c] = s /\ s # "waiting"
      /\ \A d \in Conns : d # c => conn'[d] = conn[d]
  BY <1>1 DEF IpcTypes
<1>6. IpcTypes'
  <2>1. conn' \in [Conns -> {"none", "refused", "reading", "waiting", "closed"}]
    BY <1>1 DEF IpcTypes
  <2>2. \A d \in Conns : IsSeq(answers'[d])
    BY <1>1, <1>3, <1>4 DEF IpcTypes
  <2>3. QED
    BY <1>1, <1>4, <2>1, <2>2 DEF IpcTypes
<1>7. \A d \in Conns : asked'[d] >= asked[d] /\ asked[d] \in Nat /\ asked'[d] \in Nat
  <2>1. TAKE d \in Conns
  <2>2. asked[d] \in 0 .. MaxPerConn /\ asked'[d] \in 0 .. MaxPerConn
    BY <1>1 DEF IpcTypes
  <2>3. asked[d] \in Nat /\ asked'[d] \in Nat
    BY <1>1, <2>2
  <2>4. asked'[d] = asked[d] \/ d = c
    OBVIOUS
  <2>5. QED
    BY <2>3, <2>4
<1>8. \A d \in Conns :
          /\ conn'[d] = "waiting" => asked'[d] > 0
          /\ Len(answers'[d]) = IF conn'[d] = "waiting" THEN asked'[d] - 1 ELSE asked'[d]
  <2>1. TAKE d \in Conns
  <2>2. CASE d = c
    BY <1>3, <1>4, <1>5, <2>2
  <2>3. CASE d # c
    BY <1>4, <1>5, <2>3, IpcParts
  <2>4. QED
    BY <2>2, <2>3
<1>9. \A d \in Conns, n \in 1 .. MaxPerConn :
          n > asked'[d] => executed'[d][n] = 0 /\ ~On(chan', d, n)
  <2>1. \A d \in Conns, n \in 1 .. MaxPerConn : n > asked'[d] => n > asked[d]
    BY <1>1, <1>7
  <2>2. QED
    BY <2>1, IpcParts
<1>10. \A d \in Conns : conn'[d] = "waiting" =>
          \/ executed'[d][asked'[d]] = 0 /\ On(chan', d, asked'[d])
          \/ executed'[d][asked'[d]] = 1 /\ ~On(chan', d, asked'[d])
  BY <1>5, IpcParts
<1>11. \A r \in reply' :
          /\ r[1] \in Conns /\ r[2] \in 1 .. MaxPerConn
          /\ executed'[r[1]][r[2]] = 1 /\ ~On(chan', r[1], r[2])
          /\ r[3].is \in Results
  BY IpcParts
<1>12. \A d \in Conns : \A n \in 1 .. Len(answers'[d]) :
          Fits(answers'[d][n].is, executed'[d][n], On(chan', d, n))
  <2>1. TAKE d \in Conns
  <2>2. TAKE n \in 1 .. Len(answers'[d])
  <2>3. CASE d # c
    BY <1>4, <2>3, IpcParts
  <2>4. CASE d = c /\ n = Len(answers[c]) + 1
    <3>1. answers'[d][n] = a /\ n = asked'[c]
      BY <1>3, <1>4, <2>4
    <3>2. QED
      BY <2>4, <3>1
  <2>5. CASE d = c /\ n # Len(answers[c]) + 1
    <3>1. n \in 1 .. Len(answers[c])
      BY <1>3, <1>4, <2>5
    <3>2. answers'[d][n] = answers[c][n]
      BY <1>3, <1>4, <2>5, <3>1
    <3>3. Fits(answers[c][n].is, executed[c][n], On(chan, c, n))
      BY <3>1, IpcParts
    <3>4. QED
      BY <2>5, <3>2, <3>3
  <2>6. QED
    BY <2>3, <2>4, <2>5
<1>13. Once(chan')
  BY IpcParts
<1>14. QED
  BY <1>6, <1>8, <1>9, <1>10, <1>11, <1>12, <1>13, IpcPartsNext

\* A handler starts, is refused or ends with nothing to answer.
LEMMA QuietStep ==
    ASSUME IpcInv, NEW c \in Conns, NEW s \in {"reading", "refused", "closed"},
           conn[c] # "waiting", conn' = [conn EXCEPT ![c] = s],
           UNCHANGED <<asked, chan, reply, answers, executed>>
    PROVE  IpcInv'
<1> HIDE DEF Message, Results
<1>1. IpcTypes /\ MaxPerConn \in Nat
  BY IpcParts
<1>2. /\ conn' \in [Conns -> {"none", "refused", "reading", "waiting", "closed"}]
      /\ conn'[c] # "waiting" /\ \A d \in Conns : d # c => conn'[d] = conn[d]
  BY <1>1 DEF IpcTypes
<1>3. IpcTypes'
  BY <1>1, <1>2 DEF IpcTypes
<1>4. \A d \in Conns : conn'[d] = "waiting" <=> conn[d] = "waiting"
  BY <1>2
<1>5. Answering'
  BY <1>4 DEF IpcInv, Answering
<1>6. WaitsForOne'
  BY <1>4 DEF IpcInv, WaitsForOne, Queued
<1>7. NotYetAsked' /\ QueuedOnce' /\ RepliesAreResults'
  BY DEF IpcInv, NotYetAsked, QueuedOnce, RepliesAreResults, Queued
<1>8. AnswersHold'
  BY DEF IpcInv, AnswersHold, Queued
<1>9. QED
  BY <1>3, <1>5, <1>6, <1>7, <1>8 DEF IpcInv

\* A connection is accepted or hung up on: no request is outstanding.
LEMMA AcceptStep == ASSUME IpcInv, NEW c \in Conns, Accept(c) \/ Hangup(c) PROVE IpcInv'
<1>1. PICK s \in {"reading", "refused", "closed"} : conn' = [conn EXCEPT ![c] = s]
  BY DEF Accept, Hangup, Ends
<1>2. conn[c] # "waiting" /\ UNCHANGED <<asked, chan, reply, answers, executed>>
  BY DEF Accept, Hangup
<1>3. QED
  BY <1>1, <1>2, QuietStep

\* The request number that a reading handler gives out, and what is known of it.
LEMMA NextRequest ==
    ASSUME IpcInv, NEW c \in Conns, conn[c] = "reading", asked[c] < MaxPerConn,
           asked' = [asked EXCEPT ![c] = @ + 1]
    PROVE  /\ asked' \in [Conns -> 0 .. MaxPerConn]
           /\ asked'[c] = asked[c] + 1 /\ asked[c] \in Nat /\ asked'[c] \in 1 .. MaxPerConn
           /\ Len(answers[c]) = asked[c]
           /\ \A d \in Conns : d # c => asked'[d] = asked[d]
           /\ executed[c][asked'[c]] = 0 /\ ~On(chan, c, asked'[c])
<1>1. IpcTypes /\ MaxPerConn \in Nat
  BY IpcParts
<1>2. asked \in [Conns -> 0 .. MaxPerConn] /\ asked[c] \in 0 .. MaxPerConn
  BY <1>1 DEF IpcTypes
<1>3. asked[c] \in Nat /\ asked[c] + 1 \in 1 .. MaxPerConn /\ asked[c] + 1 > asked[c]
  BY <1>1, <1>2
<1>4. asked'[c] = asked[c] + 1 /\ \A d \in Conns : d # c => asked'[d] = asked[d]
  BY <1>2
<1>5. asked' \in [Conns -> 0 .. MaxPerConn]
  BY <1>1, <1>2, <1>3
<1>6. Len(answers[c]) = asked[c]
  BY IpcParts
<1>7. executed[c][asked[c] + 1] = 0 /\ ~On(chan, c, asked[c] + 1)
  BY <1>3, IpcParts
<1>8. QED
  BY <1>3, <1>4, <1>5, <1>6, <1>7

\* A line that is no request is answered at once.
LEMMA BadRequestStep == ASSUME IpcInv, NEW c \in Conns, BadRequest(c) PROVE IpcInv'
<1>1. /\ conn[c] = "reading" /\ asked[c] < MaxPerConn
      /\ asked' = [asked EXCEPT ![c] = @ + 1]
      /\ answers' = [answers EXCEPT ![c] = Append(@, Says("invalid"))]
      /\ UNCHANGED <<conn, chan, executed>> /\ reply' = reply
  BY DEF BadRequest
<1>2. conn' = [conn EXCEPT ![c] = "reading"]
  BY <1>1, IpcParts DEF IpcTypes
<1>3. Fits(Says("invalid").is, executed[c][asked'[c]], On(chan, c, asked'[c]))
  BY <1>1, NextRequest DEF Fits, Says, Results
<1>4. /\ asked' \in [Conns -> 0 .. MaxPerConn]
      /\ asked'[c] = asked[c] + 1 /\ asked[c] \in Nat /\ Len(answers[c]) = asked[c]
      /\ \A d \in Conns : d # c => asked'[d] = asked[d]
  BY <1>1, NextRequest
<1>5. asked'[c] = Len(answers[c]) + 1 /\ asked'[c] >= asked[c]
  BY <1>4
<1>6. reply' \subseteq reply
  BY <1>1
<1>7. QED
  BY <1>1, <1>2, <1>3, <1>4, <1>5, <1>6, AnswerStep

\* A request enters the channel and its connection waits.
LEMMA RequestStep == ASSUME IpcInv, NEW c \in Conns, Request(c) PROVE IpcInv'
<1> HIDE DEF Message, Results
<1>1. /\ conn[c] = "reading" /\ asked[c] < MaxPerConn
      /\ asked' = [asked EXCEPT ![c] = @ + 1]
      /\ reply' = reply /\ executed' = executed
  BY DEF Request
<1>2. PICK req \in Requests[c] :
          \/ /\ chan' = Append(chan, <<c, asked[c] + 1, req>>)
             /\ conn' = [conn EXCEPT ![c] = "waiting"]
             /\ answers' = answers
          \/ /\ answers' = [answers EXCEPT ![c] = Append(@, Says("busy"))]
             /\ conn' = [conn EXCEPT ![c] = "closed"] /\ chan' = chan
  BY DEF Request, Ends
<1>3. /\ asked' \in [Conns -> 0 .. MaxPerConn]
      /\ asked'[c] = asked[c] + 1 /\ asked[c] \in Nat /\ asked'[c] \in 1 .. MaxPerConn
      /\ Len(answers[c]) = asked[c]
      /\ \A d \in Conns : d # c => asked'[d] = asked[d]
      /\ executed[c][asked'[c]] = 0 /\ ~On(chan, c, asked'[c])
  BY <1>1, NextRequest
<1>4. CASE /\ answers' = [answers EXCEPT ![c] = Append(@, Says("busy"))]
           /\ conn' = [conn EXCEPT ![c] = "closed"] /\ chan' = chan
  <2>1. Fits(Says("busy").is, executed[c][asked'[c]], On(chan, c, asked'[c]))
    BY <1>3 DEF Fits, Says, Results
  <2>2. asked'[c] = Len(answers[c]) + 1 /\ asked'[c] >= asked[c]
    BY <1>3
  <2>3. reply' \subseteq reply /\ UNCHANGED <<chan, executed>>
    BY <1>1, <1>4
  <2>4. QED
    BY <1>3, <1>4, <2>1, <2>2, <2>3, AnswerStep
<1>5. CASE /\ chan' = Append(chan, <<c, asked[c] + 1, req>>)
           /\ conn' = [conn EXCEPT ![c] = "waiting"]
           /\ answers' = answers
  <2> DEFINE m == <<c, asked[c] + 1, req>>
  <2>1. IpcTypes /\ MaxPerConn \in Nat
    BY IpcParts
  <2>2. m \in Message /\ m[1] = c /\ m[2] = asked'[c]
    BY <1>3, IpcAssumption DEF Message
  <2> HIDE DEF m
  <2>3. chan \in Seq(Message) /\ Once(chan) /\ ~On(chan, m[1], m[2]) /\ chan' = Append(chan, m)
    BY <1>3, <1>5, <2>1, <2>2, IpcParts DEF IpcTypes, m
  <2>4. /\ chan' \in Seq(Message)
        /\ \A d, n : On(chan', d, n) <=> On(chan, d, n) \/ (c = d /\ asked'[c] = n)
        /\ Once(chan')
    BY <2>2, <2>3, ChanAppend
  <2>5. /\ conn' \in [Conns -> {"none", "refused", "reading", "waiting", "closed"}]
        /\ conn'[c] = "waiting" /\ \A d \in Conns : d # c => conn'[d] = conn[d]
    BY <1>5, <2>1 DEF IpcTypes
  <2>6. IpcTypes'
    BY <1>1, <1>3, <1>5, <2>1, <2>4, <2>5 DEF IpcTypes
  <2>7. \A d \in Conns :
            /\ conn'[d] = "waiting" => asked'[d] > 0
            /\ Len(answers'[d]) = IF conn'[d] = "waiting" THEN asked'[d] - 1 ELSE asked'[d]
    <3>1. TAKE d \in Conns
    <3>2. CASE d = c
      BY <1>3, <1>5, <2>5, <3>2
    <3>3. CASE d # c
      BY <1>3, <1>5, <2>5, <3>3, IpcParts
    <3>4. QED
      BY <3>2, <3>3
  <2>8. \A d \in Conns, n \in 1 .. MaxPerConn :
            n > asked'[d] => executed'[d][n] = 0 /\ ~On(chan', d, n)
    <3>1. \A d \in Conns, n \in 1 .. MaxPerConn :
              n > asked'[d] => n > asked[d] /\ ~(c = d /\ asked'[c] = n)
      <4>1. TAKE d \in Conns, n \in 1 .. MaxPerConn
      <4>2. HAVE n > asked'[d]
      <4>3. n \in Nat /\ asked[d] \in 0 .. MaxPerConn
        BY <2>1 DEF IpcTypes
      <4>4. asked'[d] \in Nat /\ asked[d] \in Nat /\ asked'[d] >= asked[d]
        <5>1. asked'[d] = asked[d] \/ d = c
          BY <1>3
        <5>2. QED
          BY <1>3, <2>1, <4>3, <5>1
      <4>5. QED
        BY <4>2, <4>3, <4>4
    <3>2. QED
      BY <1>1, <2>4, <3>1, IpcParts
  <2>9. \A d \in Conns : conn'[d] = "waiting" =>
            \/ executed'[d][asked'[d]] = 0 /\ On(chan', d, asked'[d])
            \/ executed'[d][asked'[d]] = 1 /\ ~On(chan', d, asked'[d])
    <3>1. TAKE d \in Conns
    <3>2. CASE d = c
      BY <1>1, <1>3, <2>4, <3>2
    <3>3. CASE d # c
      BY <1>1, <1>3, <2>4, <2>5, <3>3, IpcParts
    <3>4. QED
      BY <3>2, <3>3
  <2>10. \A r \in reply' :
            /\ r[1] \in Conns /\ r[2] \in 1 .. MaxPerConn
            /\ executed'[r[1]][r[2]] = 1 /\ ~On(chan', r[1], r[2])
            /\ r[3].is \in Results
    <3>1. TAKE r \in reply'
    <3>2. /\ r[1] \in Conns /\ r[2] \in 1 .. MaxPerConn
          /\ executed[r[1]][r[2]] = 1 /\ ~On(chan, r[1], r[2])
          /\ r[3].is \in Results
      BY <1>1, IpcParts
    <3>3. ~(c = r[1] /\ asked'[c] = r[2])
      BY <1>3, <3>2
    <3>4. QED
      BY <1>1, <2>4, <3>2, <3>3
  <2>11. \A d \in Conns : \A n \in 1 .. Len(answers'[d]) :
            Fits(answers'[d][n].is, executed'[d][n], On(chan', d, n))
    <3>1. TAKE d \in Conns
    <3>2. TAKE n \in 1 .. Len(answers'[d])
    <3>3. ~(c = d /\ asked'[c] = n)
      BY <1>3, <1>5
    <3>4. On(chan', d, n) <=> On(chan, d, n)
      BY <2>4, <3>3
    <3>5. Fits(answers[d][n].is, executed[d][n], On(chan, d, n))
      BY <1>5, IpcParts
    <3>6. QED
      BY <1>1, <1>5, <3>4, <3>5 DEF Fits
  <2>12. QED
    BY <2>4, <2>6, <2>7, <2>8, <2>9, <2>10, <2>11, IpcPartsNext
<1>6. QED
  BY <1>2, <1>4, <1>5

\* A handler that waited writes what it has: the answer, or that none came.
LEMMA WriteStep ==
    ASSUME IpcInv, NEW c \in Conns, NEW a, conn[c] = "waiting", Write(c, a),
           UNCHANGED <<asked, chan, executed>>, reply' \subseteq reply,
           Fits(a.is, executed[c][asked[c]], On(chan, c, asked[c]))
    PROVE  IpcInv'
<1> HIDE DEF Message, Results
<1>1. answers' = [answers EXCEPT ![c] = Append(@, a)]
  BY DEF Write
<1>2. PICK s \in {"reading", "closed"} : conn' = [conn EXCEPT ![c] = s]
  BY DEF Write, Ends
<1>3. IpcTypes /\ MaxPerConn \in Nat
  BY IpcParts
<1>4. asked' \in [Conns -> 0 .. MaxPerConn] /\ asked'[c] = asked[c] /\ asked[c] \in 0 .. MaxPerConn
  BY <1>3 DEF IpcTypes
<1>5. Len(answers[c]) = asked[c] - 1
  BY IpcParts
<1>6. asked'[c] = Len(answers[c]) + 1 /\ asked'[c] >= asked[c]
  BY <1>3, <1>4, <1>5
<1>7. \A d \in Conns : d # c => asked'[d] = asked[d]
  OBVIOUS
<1>8. Fits(a.is, executed[c][asked'[c]], On(chan, c, asked'[c]))
  OBVIOUS
<1>9. QED
  BY <1>1, <1>2, <1>4, <1>6, <1>7, <1>8, AnswerStep

\* A waiting connection takes the answer to its request.
LEMMA AnsweredStep == ASSUME IpcInv, NEW c \in Conns, Answered(c) PROVE IpcInv'
<1> HIDE DEF Message, Results
<1>1. PICK r \in reply : r[1] = c /\ r[2] = asked[c] /\ Write(c, r[3]) /\ reply' = reply \ {r}
  BY DEF Answered, ReplyFor
<1>2. conn[c] = "waiting" /\ UNCHANGED <<asked, chan, executed>>
  BY DEF Answered
<1>3. executed[c][asked[c]] = 1 /\ ~On(chan, c, asked[c]) /\ r[3].is \in Results
  BY <1>1, IpcParts
<1>4. Fits(r[3].is, executed[c][asked[c]], On(chan, c, asked[c]))
  BY <1>3 DEF Fits, Results
<1>5. reply' \subseteq reply
  BY <1>1
<1>6. QED
  BY <1>1, <1>2, <1>4, <1>5, WriteStep

\* A waiting connection gives up; its request may still be executed.
LEMMA TimedOutStep == ASSUME IpcInv, NEW c \in Conns, TimedOut(c) PROVE IpcInv'
<1> HIDE DEF Message, Results
<1>1. /\ conn[c] = "waiting" /\ Write(c, Says("timed_out"))
      /\ UNCHANGED <<asked, chan, executed>> /\ reply' \subseteq reply
  BY DEF TimedOut
<1>2. \/ executed[c][asked[c]] = 0 /\ On(chan, c, asked[c])
      \/ executed[c][asked[c]] = 1 /\ ~On(chan, c, asked[c])
  BY <1>1, IpcParts
<1>3. Fits(Says("timed_out").is, executed[c][asked[c]], On(chan, c, asked[c]))
  BY <1>2 DEF Fits, Says, Results
<1>4. QED
  BY <1>1, <1>3, WriteStep

\* What waits in the channel has not been executed.
LEMMA QueuedNotRun ==
    ASSUME IpcInv, NEW c \in Conns, NEW n \in 1 .. MaxPerConn, On(chan, c, n)
    PROVE  executed[c][n] = 0
<1> HIDE DEF Message, Results
<1>1. MaxPerConn \in Nat /\ asked[c] \in 0 .. MaxPerConn
  BY IpcParts DEF IpcTypes
<1>2. CASE n > asked[c]
  BY <1>2, IpcParts
<1>3. CASE n = asked[c] /\ conn[c] = "waiting"
  BY <1>3, IpcParts
<1>4. CASE n < asked[c] \/ (n = asked[c] /\ conn[c] # "waiting")
  <2>1. Len(answers[c]) = IF conn[c] = "waiting" THEN asked[c] - 1 ELSE asked[c]
    BY IpcParts
  <2>2. n \in 1 .. Len(answers[c])
    BY <1>1, <1>4, <2>1
  <2>3. Fits(answers[c][n].is, executed[c][n], On(chan, c, n))
    BY <2>2, IpcParts
  <2>4. QED
    BY <2>3 DEF Fits
<1>5. QED
  BY <1>1, <1>2, <1>3, <1>4

\* Every command is answered with a result.
LEMMA OutcomeAnswers ==
    ASSUME NEW req \in [cmd : Commands, pane : Nat], NEW o \in Outcomes(req)
    PROVE  o.answer.is \in Results
<1>1. PICK spawns \in BOOLEAN :
        o = CASE req.cmd = "split" -> Split(req, spawns)
              [] req.cmd = "close" -> Close(req)
              [] req.cmd = "focus" -> Focus(req)
              [] req.cmd = "list" -> List
              [] req.cmd = "ls_tree" -> LsTree(spawns)
              [] req.cmd = "dump" -> Dump(req)
              [] req.cmd = "layout" -> Layout(req)
              [] req.cmd = "exec" -> Exec(req, spawns)
              [] req.cmd = "save" -> Save(req, spawns)
              [] req.cmd = "load" -> Load(req, spawns)
              [] req.cmd = "send_keys" -> Same(Says("error"))
  BY DEF Outcomes
<1>2. req.cmd \in Commands
  OBVIOUS
<1>3. \A a : Same(a).answer = a
  BY DEF Same, Outcome
<1>4. \A a, l, p, f, n : Outcome(a, l, p, f, n).answer = a
  BY DEF Outcome
<1>5. \A x : Says(x).is = x
  BY DEF Says
<1>6. Split(req, spawns).answer.is \in Results
  BY <1>3, <1>4, <1>5 DEF Split, Results
<1>7. Close(req).answer.is \in Results
  BY <1>3, <1>4, <1>5 DEF Close, Results
<1>8. Focus(req).answer.is \in Results
  BY <1>3, <1>4, <1>5 DEF Focus, Results
<1>9. List.answer.is \in Results
  BY <1>3 DEF List, Results
<1>10. LsTree(spawns).answer.is \in Results
  BY <1>3 DEF LsTree, Results
<1>11. Dump(req).answer.is \in Results
  BY <1>3, <1>5 DEF Dump, Results
<1>12. Layout(req).answer.is \in Results
  BY <1>3, <1>5 DEF Layout, Results
<1>13. Exec(req, spawns).answer.is \in Results
  BY <1>3, <1>5 DEF Exec, Results
<1>14. Save(req, spawns).answer.is \in Results
  BY <1>3, <1>5 DEF Save, Results
<1>15. Load(req, spawns).answer.is \in Results
  BY <1>3, <1>4, <1>5 DEF Load, Results
<1>16. Same(Says("error")).answer.is \in Results
  BY <1>3, <1>5 DEF Results
<1> HIDE DEF Results
<1>17. QED
  BY <1>1, <1>2, <1>6, <1>7, <1>8, <1>9, <1>10, <1>11, <1>12, <1>13, <1>14, <1>15, <1>16
     DEF Commands

\* The main loop executes the request at the head of the channel.
LEMMA ExecuteStep == ASSUME IpcInv, Execute PROVE IpcInv'
<1> DEFINE m == Head(chan)  c == m[1]  n == m[2]
<1>1. IpcTypes /\ MaxPerConn \in Nat /\ chan \in Seq(Message) /\ Once(chan) /\ chan # <<>>
  BY IpcParts DEF IpcTypes, Execute
<1>2. PICK o \in Outcomes(m[3]) :
          reply' = IF conn[c] = "waiting" /\ asked[c] = n
                   THEN reply \cup {<<c, n, o.answer>>} ELSE reply
  BY DEF Execute
<1>3. /\ executed' = [executed EXCEPT ![c][n] = @ + 1]
      /\ chan' = Tail(chan) /\ UNCHANGED <<conn, asked, answers>>
  BY DEF Execute
<1> HIDE DEF m
<1>4. /\ chan' \in Seq(Message) /\ m \in Message /\ On(chan, c, n) /\ Once(chan')
      /\ \A d, k : On(chan', d, k) <=> On(chan, d, k) /\ ~(c = d /\ n = k)
  <2> HIDE DEF Message
  <2>1. QED
    BY <1>1, <1>3, ChanTail DEF m
<1>5. c \in Conns /\ n \in 1 .. MaxPerConn /\ m[3] \in [cmd : Commands, pane : Nat]
  BY <1>4 DEF Message
<1>6. o.answer.is \in Results
  BY <1>2, <1>5, OutcomeAnswers
<1> HIDE DEF c, n, Message, Results
<1>7. executed[c][n] = 0
  BY <1>4, <1>5, QueuedNotRun
<1>8. executed \in [Conns -> [1 .. MaxPerConn -> Nat]]
  BY <1>1 DEF IpcTypes
<1>9. /\ executed' \in [Conns -> [1 .. MaxPerConn -> Nat]]
      /\ executed'[c][n] = 1
      /\ \A d \in Conns, k \in 1 .. MaxPerConn : ~(c = d /\ n = k) => executed'[d][k] = executed[d][k]
  <2> DEFINE row == [executed[c] EXCEPT ![n] = @ + 1]
  <2>1. executed[c] \in [1 .. MaxPerConn -> Nat]
    BY <1>5, <1>8
  <2>2. /\ row \in [1 .. MaxPerConn -> Nat] /\ row[n] = 1
        /\ \A k \in 1 .. MaxPerConn : n # k => row[k] = executed[c][k]
    <3>1. executed[c][n] + 1 = 1 /\ 1 \in Nat
      BY <1>7
    <3>2. row = [executed[c] EXCEPT ![n] = 1]
      BY <3>1
    <3> HIDE DEF row
    <3>3. QED
      BY <1>5, <2>1, <3>2
  <2>3. executed' = [executed EXCEPT ![c] = row]
    BY <1>3, <1>5, <1>8
  <2> HIDE DEF row
  <2>4. QED
    BY <1>5, <1>8, <2>2, <2>3
<1>10. IpcTypes'
  BY <1>1, <1>3, <1>4, <1>9 DEF IpcTypes
<1>11. n <= asked[c]
  <2>1. asked[c] \in 0 .. MaxPerConn
    BY <1>1, <1>5 DEF IpcTypes
  <2>2. ~(n > asked[c])
    BY <1>4, <1>5, IpcParts
  <2>3. QED
    BY <1>1, <1>5, <2>1, <2>2
<1>12. \A d \in Conns, k \in 1 .. MaxPerConn :
          k > asked'[d] => executed'[d][k] = 0 /\ ~On(chan', d, k)
  <2>1. TAKE d \in Conns, k \in 1 .. MaxPerConn
  <2>2. HAVE k > asked'[d]
  <2>3. executed[d][k] = 0 /\ ~On(chan, d, k)
    BY <1>3, <2>2, IpcParts
  <2>4. ~(c = d /\ n = k)
    BY <1>4, <2>3
  <2>5. QED
    BY <1>4, <1>9, <2>3, <2>4
<1>13. \A d \in Conns : conn'[d] = "waiting" =>
          \/ executed'[d][asked'[d]] = 0 /\ On(chan', d, asked'[d])
          \/ executed'[d][asked'[d]] = 1 /\ ~On(chan', d, asked'[d])
  <2>1. TAKE d \in Conns
  <2>2. HAVE conn'[d] = "waiting"
  <2>3. /\ conn[d] = "waiting" /\ asked'[d] = asked[d] /\ asked[d] > 0
        /\ asked[d] \in 0 .. MaxPerConn
    BY <1>1, <1>3, <2>2, IpcParts DEF IpcTypes
  <2>4. asked[d] \in 1 .. MaxPerConn
    BY <1>1, <2>3
  <2>5. CASE c = d /\ n = asked[d]
    BY <1>4, <1>9, <2>3, <2>5
  <2>6. CASE ~(c = d /\ n = asked[d])
    <3>1. executed'[d][asked[d]] = executed[d][asked[d]]
      BY <1>9, <2>4, <2>6
    <3>2. On(chan', d, asked[d]) <=> On(chan, d, asked[d])
      BY <1>4, <2>6
    <3>3. QED
      BY <2>3, <3>1, <3>2, IpcParts
  <2>7. QED
    BY <2>5, <2>6
<1>14. \A r \in reply' :
          /\ r[1] \in Conns /\ r[2] \in 1 .. MaxPerConn
          /\ executed'[r[1]][r[2]] = 1 /\ ~On(chan', r[1], r[2])
          /\ r[3].is \in Results
  <2>1. TAKE r \in reply'
  <2>2. CASE r \in reply
    <3>1. /\ r[1] \in Conns /\ r[2] \in 1 .. MaxPerConn
          /\ executed[r[1]][r[2]] = 1 /\ ~On(chan, r[1], r[2])
          /\ r[3].is \in Results
      BY <2>2, IpcParts
    <3>2. ~(c = r[1] /\ n = r[2])
      BY <1>4, <3>1
    <3>3. QED
      BY <1>4, <1>9, <3>1, <3>2
  <2>3. CASE r = <<c, n, o.answer>>
    BY <1>4, <1>5, <1>6, <1>9, <2>3
  <2>4. QED
    BY <1>2, <2>2, <2>3
<1>15. \A d \in Conns : \A k \in 1 .. Len(answers'[d]) :
          Fits(answers'[d][k].is, executed'[d][k], On(chan', d, k))
  <2>1. TAKE d \in Conns
  <2>2. TAKE k \in 1 .. Len(answers'[d])
  <2>3. Fits(answers[d][k].is, executed[d][k], On(chan, d, k))
    BY <1>3, IpcParts
  <2>4. CASE c = d /\ n = k
    <3>1. executed[d][k] = 0 /\ On(chan, d, k) /\ executed'[d][k] = 1 /\ ~On(chan', d, k)
      BY <1>4, <1>7, <1>9, <2>4
    <3>2. answers[d][k].is = "timed_out"
      BY <2>3, <3>1 DEF Fits, Results
    <3>3. QED
      BY <1>3, <3>1, <3>2 DEF Fits, Results
  <2>5. CASE ~(c = d /\ n = k)
    <3>1. k \in 1 .. MaxPerConn
      <4>1. asked[d] \in 0 .. MaxPerConn
        BY <1>1 DEF IpcTypes
      <4>2. Len(answers[d]) = IF conn[d] = "waiting" THEN asked[d] - 1 ELSE asked[d]
        BY IpcParts
      <4>3. QED
        BY <1>1, <1>3, <4>1, <4>2
    <3>2. executed'[d][k] = executed[d][k]
      BY <1>9, <2>5, <3>1
    <3>3. On(chan', d, k) <=> On(chan, d, k)
      BY <1>4, <2>5
    <3>4. QED
      BY <1>3, <2>3, <3>2, <3>3 DEF Fits
  <2>6. QED
    BY <2>4, <2>5
<1>16. \A d \in Conns :
          /\ conn'[d] = "waiting" => asked'[d] > 0
          /\ Len(answers'[d]) = IF conn'[d] = "waiting" THEN asked'[d] - 1 ELSE asked'[d]
  BY <1>3, IpcParts
<1>17. QED
  BY <1>4, <1>10, <1>12, <1>13, <1>14, <1>15, <1>16, IpcPartsNext

\* The initial state satisfies the invariant.
LEMMA IpcInitInv == IpcInit => IpcInv
<1> SUFFICES ASSUME IpcInit PROVE IpcInv
  OBVIOUS
<1>1. MaxPerConn \in Nat
  BY IpcAssumption
<1>2. Len(chan) = 0 /\ chan \in Seq(Message)
  <2> HIDE DEF Message
  <2>1. QED
    BY DEF IpcInit
<1>3. \A c, n : ~Queued(c, n)
  BY DEF IpcInit, Queued
<1>4. \A c \in Conns : answers[c] = <<>> /\ IsSeq(answers[c]) /\ Len(answers[c]) = 0
  BY IsSeqEmpty DEF IpcInit
<1>5. IpcTypes
  <2> HIDE DEF Message
  <2>1. conn \in [Conns -> {"none", "refused", "reading", "waiting", "closed"}]
    BY DEF IpcInit
  <2>2. asked \in [Conns -> 0 .. MaxPerConn]
    BY <1>1 DEF IpcInit
  <2>3. executed \in [Conns -> [1 .. MaxPerConn -> Nat]]
    BY <1>1 DEF IpcInit
  <2>4. DOMAIN answers = Conns
    BY DEF IpcInit
  <2>5. QED
    BY <1>2, <1>4, <2>1, <2>2, <2>3, <2>4 DEF IpcTypes
<1>6. Answering
  BY <1>4 DEF Answering, IpcInit
<1>7. QueuedOnce
  BY <1>2 DEF QueuedOnce
<1>8. NotYetAsked
  BY <1>3 DEF NotYetAsked, IpcInit
<1>9. WaitsForOne
  BY DEF WaitsForOne, IpcInit
<1>10. RepliesAreResults
  BY DEF RepliesAreResults, IpcInit
<1>11. AnswersHold
  BY <1>4 DEF AnswersHold
<1>12. QED
  BY <1>5, <1>6, <1>7, <1>8, <1>9, <1>10, <1>11 DEF IpcInv

\* Every step keeps it.
LEMMA IpcStepInv == IpcInv /\ [IpcNext]_ipcVars => IpcInv'
<1> SUFFICES ASSUME IpcInv, [IpcNext]_ipcVars PROVE IpcInv'
  OBVIOUS
<1> HIDE DEF Message, Results
<1>1. ASSUME NEW c \in Conns, Accept(c) \/ Hangup(c) PROVE IpcInv'
  BY <1>1, AcceptStep
<1>2. ASSUME NEW c \in Conns, BadRequest(c) PROVE IpcInv'
  BY <1>2, BadRequestStep
<1>3. ASSUME NEW c \in Conns, Request(c) PROVE IpcInv'
  BY <1>3, RequestStep
<1>4. ASSUME NEW c \in Conns, Answered(c) PROVE IpcInv'
  BY <1>4, AnsweredStep
<1>5. ASSUME NEW c \in Conns, TimedOut(c) PROVE IpcInv'
  BY <1>5, TimedOutStep
<1>6. CASE Execute
  BY <1>6, ExecuteStep
<1>7. CASE UNCHANGED ipcVars
  <2>1. UNCHANGED <<conn, asked, chan, reply, answers, executed>>
    BY <1>7 DEF ipcVars
  <2>2. QED
    BY <2>1 DEF IpcInv, IpcTypes, Answering, QueuedOnce, NotYetAsked, WaitsForOne,
                RepliesAreResults, AnswersHold, Queued
<1>8. QED
  BY <1>1, <1>2, <1>3, <1>4, <1>5, <1>6, <1>7 DEF IpcNext

\* However late the main loop is, whatever a handler gave up waiting for: every
\* answer a connection was written is true of the request it answers.
THEOREM AnswersAlwaysTrue == Spec => []AnswersAreTrue
<1>1. Init => IpcInv
  BY IpcInitInv DEF Init
<1>2. [Next]_vars => [IpcNext]_ipcVars
  BY DEF Next, Services, vars
<1>3. IpcInv /\ [Next]_vars => IpcInv'
  BY <1>2, IpcStepInv
<1>4. IpcInv => AnswersAreTrue
  <2> SUFFICES ASSUME IpcInv PROVE AnswersAreTrue
    OBVIOUS
  <2> HIDE DEF Message
  <2>1. \A c, n : Queued(c, n) <=> On(chan, c, n)
    BY IpcParts, QueuedIs DEF IpcTypes
  <2>2. ASSUME NEW c \in Conns, NEW n \in DOMAIN answers[c]
        PROVE  LET a == answers[c][n].is
               IN  CASE a \in {"busy", "invalid"} -> executed[c][n] = 0 /\ ~Queued(c, n)
                     [] a = "timed_out" -> executed[c][n] + (IF Queued(c, n) THEN 1 ELSE 0) = 1
                     [] OTHER -> executed[c][n] = 1
    <3>1. n \in 1 .. Len(answers[c])
      <4>1. IsSeq(answers[c])
        BY IpcParts DEF IpcTypes
      <4>2. QED
        BY <4>1, LenProperties DEF IsSeq
    <3>2. Fits(answers[c][n].is, executed[c][n], On(chan, c, n))
      BY <3>1, IpcParts
    <3>3. QED
      BY <2>1, <3>2 DEF Fits, Results
  <2>3. QED
    BY <2>2 DEF AnswersAreTrue
<1>5. QED
  BY <1>1, <1>3, <1>4, PTL DEF Spec

-----------------------------------------------------------------------------
(* The event bus.                                                          *)

Event == [tag : {"pane.exited", "config.reloaded"}, n : Nat] \cup [tag : {"events.dropped"}, count : Nat]
Sub == [session_filter : {f.session : f \in Filters}, type_filter : {f.types : f \in Filters},
        queue : Seq(Event), dropped : Nat, prefer_payload : BOOLEAN]

BusTypes ==
    /\ published \in Nat
    /\ due \in [Subscribers -> Nat]
    /\ heard \in [Subscribers -> Seq(Event)]
    /\ Attached \subseteq Subscribers
    /\ subs \in [Attached -> Sub]

\* A subscriber that nothing was for has heard nothing.
SilentAtFirst ==
    \A s \in Subscribers : due[s] = 0 =>
        heard[s] = <<>> /\ (s \in Attached => subs[s].queue = <<>>)

\* No event is newer than the last one published.
Past(str, p) == \A i \in 1 .. Len(str) : ~IsNotice(str[i]) => str[i].n <= p
NothingFromTheFuture == \A s \in Attached : Past(Stream(s), published)

BusInv == BusTypes /\ SilentAtFirst /\ NothingFromTheFuture /\ LossesAccounted

\* The invariant of one subscriber.
Accounts(str, dropped, d, p) == Total(Weight(str)) + dropped = d /\ Ordered(str) /\ Past(str, p)

\* An event stands for itself, a notice for the events it reports lost.
LEMMA EventFacts ==
    /\ \A e \in Event : Stands(e) \in Nat /\ (~IsNotice(e) => e.n \in Nat /\ Stands(e) = 1)
    /\ \A k \in Nat : Notice(k) \in Event /\ IsNotice(Notice(k)) /\ Stands(Notice(k)) = k
    /\ \A tag \in {"pane.exited", "config.reloaded"}, k \in Nat :
          LET e == [tag |-> tag, n |-> k] IN e \in Event /\ ~IsNotice(e) /\ e.n = k
BY DEF Event, Stands, Notice, IsNotice

\* The weights of a stream are numbers.
LEMMA WeightSeq ==
    ASSUME NEW str \in Seq(Event)
    PROVE  Weight(str) \in Seq(Int)
<1>1. \A i \in 1 .. Len(str) : Stands(str[i]) \in Int
  <2> HIDE DEF Event
  <2>1. QED
    BY EventFacts
<1>2. Weight(str) \in [1 .. Len(str) -> Int] /\ Len(str) \in Nat
  BY <1>1 DEF Weight
<1>3. QED
  BY <1>2, SeqDef

\* One more entry at the end of a stream.
LEMMA WeightAppend ==
    ASSUME NEW str \in Seq(Event), NEW e \in Event
    PROVE  /\ Append(str, e) \in Seq(Event)
           /\ Total(Weight(Append(str, e))) = Total(Weight(str)) + Stands(e)
           /\ Total(Weight(str)) \in Int
<1> HIDE DEF Event
<1>1. /\ Append(str, e) \in Seq(Event) /\ Len(str) \in Nat
      /\ Len(Append(str, e)) = Len(str) + 1
      /\ \A i \in 1 .. Len(str) : Append(str, e)[i] = str[i]
      /\ Append(str, e)[Len(str) + 1] = e
  OBVIOUS
<1>2. Stands(e) \in Int /\ Weight(str) \in Seq(Int)
  BY WeightSeq, EventFacts
<1>3. Weight(Append(str, e)) = Append(Weight(str), Stands(e))
  <2>1. Len(Weight(str)) = Len(str) /\ \A i \in 1 .. Len(str) : Weight(str)[i] = Stands(str[i])
    <3>1. DOMAIN Weight(str) = 1 .. Len(str)
      BY DEF Weight
    <3>2. DOMAIN Weight(str) = 1 .. Len(Weight(str)) /\ Len(Weight(str)) \in Nat
      BY <1>2, LenProperties
    <3>3. QED
      BY <1>1, <3>1, <3>2 DEF Weight
  <2>2. Weight(Append(str, e)) = [i \in 1 .. Len(str) + 1 |-> Stands(Append(str, e)[i])]
    BY <1>1 DEF Weight
  <2>3. Append(Weight(str), Stands(e))
          = [i \in 1 .. Len(str) + 1 |-> IF i \in 1 .. Len(str) THEN Weight(str)[i] ELSE Stands(e)]
    <3> DEFINE w == Weight(str) x == Stands(e)
    <3> HIDE DEF w, x
    <3>1. w \in Seq(Int) /\ x \in Int /\ Len(w) = Len(str)
      BY <1>2, <2>1 DEF w, x
    <3>2. Append(w, x) = [i \in 1 .. Len(w) + 1 |-> IF i \in 1 .. Len(w) THEN w[i] ELSE x]
      <4>1. /\ Append(w, x) \in Seq(Int) /\ Len(Append(w, x)) = Len(w) + 1 /\ Len(w) \in Nat
            /\ \A i \in 1 .. Len(w) : Append(w, x)[i] = w[i]
            /\ Append(w, x)[Len(w) + 1] = x
        BY <3>1
      <4>2. DOMAIN Append(w, x) = 1 .. Len(w) + 1
            /\ Append(w, x) = [i \in DOMAIN Append(w, x) |-> Append(w, x)[i]]
        BY <4>1, LenProperties
      <4>3. \A i \in 1 .. Len(w) + 1 : i \in 1 .. Len(w) \/ i = Len(w) + 1
        BY <4>1
      <4>4. Len(w) + 1 \notin 1 .. Len(w)
        BY <4>1
      <4>5. QED
        BY <4>1, <4>2, <4>3, <4>4
    <3>3. QED
      BY <3>1, <3>2 DEF w, x
  <2>4. \A i \in 1 .. Len(str) + 1 :
            Stands(Append(str, e)[i]) = IF i \in 1 .. Len(str) THEN Weight(str)[i] ELSE Stands(e)
    BY <1>1, <2>1
  <2>5. QED
    BY <2>2, <2>3, <2>4
<1>4. QED
  BY <1>1, <1>2, <1>3, TotalAppend, TotalInt

\* An event put at the end of a stream is the newest.
LEMMA DataAccounts ==
    ASSUME NEW str \in Seq(Event), NEW k \in Nat, NEW d \in Nat, NEW p \in Nat,
           NEW tag \in {"pane.exited", "config.reloaded"}, Accounts(str, k, d, p)
    PROVE  LET e == [tag |-> tag, n |-> p + 1]
           IN  Accounts(Append(str, e), k, d + 1, p + 1) /\ Append(str, e) \in Seq(Event)
<1> DEFINE e == [tag |-> tag, n |-> p + 1]
<1>1. e \in Event /\ ~IsNotice(e) /\ e.n = p + 1 /\ Stands(e) = 1
  BY EventFacts DEF Stands, IsNotice
<1> HIDE DEF e, Event
<1>2. /\ Append(str, e) \in Seq(Event) /\ Len(str) \in Nat
      /\ Len(Append(str, e)) = Len(str) + 1
      /\ \A i \in 1 .. Len(str) : Append(str, e)[i] = str[i] /\ str[i] \in Event
      /\ Append(str, e)[Len(str) + 1] = e
  BY <1>1
<1>3. Total(Weight(Append(str, e))) + k = d + 1
  <2>1. /\ Total(Weight(Append(str, e))) = Total(Weight(str)) + 1
        /\ Total(Weight(str)) \in Int /\ Total(Weight(str)) + k = d
    BY <1>1, WeightAppend DEF Accounts
  <2>2. QED
    BY <2>1
<1>4. Past(Append(str, e), p + 1)
  <2>1. SUFFICES ASSUME NEW i \in 1 .. Len(str) + 1, ~IsNotice(Append(str, e)[i])
                 PROVE  Append(str, e)[i].n <= p + 1
    BY <1>2 DEF Past
  <2>2. CASE i = Len(str) + 1
    BY <1>1, <1>2, <2>2
  <2>3. CASE i # Len(str) + 1
    <3>1. i \in 1 .. Len(str)
      BY <1>2, <2>3
    <3>2. str[i].n <= p /\ str[i].n \in Nat
      BY <1>2, <2>1, <3>1, EventFacts DEF Accounts, Past
    <3>3. QED
      BY <1>2, <3>1, <3>2
  <2>4. QED
    BY <2>2, <2>3
<1>5. Ordered(Append(str, e))
  <2>1. SUFFICES ASSUME NEW i \in 1 .. Len(str) + 1, NEW j \in 1 .. Len(str) + 1, i < j,
                        ~IsNotice(Append(str, e)[i]), ~IsNotice(Append(str, e)[j])
                 PROVE  Append(str, e)[i].n < Append(str, e)[j].n
    BY <1>2 DEF Ordered
  <2>2. i \in 1 .. Len(str)
    BY <1>2, <2>1
  <2>3. CASE j = Len(str) + 1
    <3>1. str[i].n <= p /\ str[i].n \in Nat
      <4>1. str[i] \in Event /\ ~IsNotice(str[i])
        BY <1>2, <2>1, <2>2
      <4>2. QED
        BY <2>2, <4>1, EventFacts DEF Accounts, Past
    <3>2. Append(str, e)[i] = str[i] /\ Append(str, e)[j] = e
      BY <1>2, <2>2, <2>3
    <3>3. str[i].n < p + 1
      BY <3>1
    <3>4. QED
      BY <1>1, <3>2, <3>3
  <2>4. CASE j # Len(str) + 1
    <3>1. j \in 1 .. Len(str)
      BY <1>2, <2>4
    <3>2. QED
      BY <1>2, <2>1, <2>2, <3>1 DEF Accounts, Ordered
  <2>5. QED
    BY <2>3, <2>4
<1>6. Accounts(Append(str, e), k, d + 1, p + 1) /\ Append(str, e) \in Seq(Event)
  BY <1>2, <1>3, <1>4, <1>5 DEF Accounts
<1>7. QED
  BY <1>6 DEF e

\* A notice stands for what was dropped.
LEMMA NoticeAccounts ==
    ASSUME NEW str \in Seq(Event), NEW k \in Nat, NEW d \in Nat, NEW p \in Nat,
           Accounts(str, k, d, p)
    PROVE  Accounts(Append(str, Notice(k)), 0, d, p) /\ Append(str, Notice(k)) \in Seq(Event)
<1> DEFINE e == Notice(k)
<1>1. e \in Event /\ IsNotice(e) /\ Stands(e) = k
  BY EventFacts
<1> HIDE DEF e, Event
<1>2. /\ Append(str, e) \in Seq(Event) /\ Len(str) \in Nat
      /\ Len(Append(str, e)) = Len(str) + 1
      /\ \A i \in 1 .. Len(str) : Append(str, e)[i] = str[i]
      /\ Append(str, e)[Len(str) + 1] = e
  BY <1>1
<1>3. Total(Weight(Append(str, e))) + 0 = d
  BY <1>1, WeightAppend DEF Accounts
<1>4. \A i \in 1 .. Len(str) + 1 : ~IsNotice(Append(str, e)[i]) => i \in 1 .. Len(str)
  <2>1. \A i \in 1 .. Len(str) + 1 : i \in 1 .. Len(str) \/ i = Len(str) + 1
    BY <1>2
  <2>2. QED
    BY <1>1, <1>2, <2>1
<1>5. Past(Append(str, e), p)
  BY <1>2, <1>4 DEF Accounts, Past
<1>6. Ordered(Append(str, e))
  BY <1>2, <1>4 DEF Accounts, Ordered
<1>7. Accounts(Append(str, e), 0, d, p) /\ Append(str, e) \in Seq(Event)
  BY <1>2, <1>3, <1>5, <1>6 DEF Accounts
<1>8. QED
  BY <1>7 DEF e

\* What is lost is counted.
LEMMA DropAccounts ==
    ASSUME NEW str \in Seq(Event), NEW k \in Nat, NEW d \in Nat, NEW p \in Nat,
           Accounts(str, k, d, p)
    PROVE  Accounts(str, k + 1, d + 1, p + 1)
<1> HIDE DEF Event
<1>1. Total(Weight(str)) \in Int
  BY WeightSeq, TotalInt
<1>2. Past(str, p + 1)
  <2>1. SUFFICES ASSUME NEW i \in 1 .. Len(str), ~IsNotice(str[i])
                 PROVE  str[i].n <= p + 1
    BY DEF Past
  <2>2. str[i] \in Event
    OBVIOUS
  <2>3. str[i].n <= p /\ str[i].n \in Nat
    BY <2>1, <2>2, EventFacts DEF Accounts, Past
  <2>4. QED
    BY <2>3
<1>3. QED
  BY <1>1, <1>2 DEF Accounts

\* A subscriber's stream is its queue behind what it has received.
LEMMA StreamAppend ==
    ASSUME NEW h \in Seq(Event), NEW q \in Seq(Event), NEW e \in Event
    PROVE  h \o Append(q, e) = Append(h \o q, e) /\ h \o q \in Seq(Event)
<1> HIDE DEF Event
<1>1. QED
  BY AppendIsConcat, ConcatAssociative

\* Receiving moves an event along the stream and changes nothing in it.
LEMMA StreamReceive ==
    ASSUME NEW h \in Seq(Event), NEW q \in Seq(Event), q # <<>>
    PROVE  Append(h, Head(q)) \o Tail(q) = h \o q
<1> HIDE DEF Event
<1>1. Head(q) \in Event /\ Tail(q) \in Seq(Event) /\ <<Head(q)>> \in Seq(Event)
  OBVIOUS
<1>2. Append(h, Head(q)) = h \o <<Head(q)>>
  BY <1>1, AppendIsConcat
<1>3. <<Head(q)>> \o Tail(q) = q
  <2> DEFINE x == <<Head(q)>>  r == Tail(q)  c == x \o r
  <2>1. Len(q) \in Nat /\ Len(q) >= 1 /\ Len(r) = Len(q) - 1 /\ Len(x) = 1 /\ x[1] = q[1]
    <3>1. Len(q) \in Nat /\ Len(q) >= 1 /\ Len(r) = Len(q) - 1 /\ Head(q) = q[1]
      OBVIOUS
    <3>2. Len(x) = 1 /\ x[1] = Head(q)
      OBVIOUS
    <3>3. QED
      BY <3>1, <3>2
  <2>2. \A i \in 1 .. Len(q) - 1 : r[i] = q[i + 1]
    OBVIOUS
  <2>3. x \in Seq(Event) /\ r \in Seq(Event)
    BY <1>1
  <2> HIDE DEF x, r
  <2>4. /\ c \in Seq(Event) /\ Len(c) = Len(q)
        /\ \A i \in 1 .. Len(q) : c[i] = IF i <= 1 THEN x[i] ELSE r[i - 1]
    <3>1. /\ c \in Seq(Event) /\ Len(c) = Len(x) + Len(r)
          /\ \A i \in 1 .. Len(x) + Len(r) : c[i] = IF i <= Len(x) THEN x[i] ELSE r[i - Len(x)]
      BY <2>3, ConcatProperties
    <3> HIDE DEF c
    <3>2. Len(x) + Len(r) = Len(q)
      BY <2>1
    <3>3. QED
      BY <2>1, <3>1, <3>2
  <2> HIDE DEF c
  <2>5. \A i \in 1 .. Len(q) : c[i] = q[i]
    <3>1. TAKE i \in 1 .. Len(q)
    <3>2. CASE i = 1
      BY <2>1, <2>4, <3>2
    <3>3. CASE i # 1
      <4>1. i - 1 \in 1 .. Len(q) - 1 /\ (i - 1) + 1 = i /\ ~(i <= 1)
        BY <2>1, <3>3
      <4>2. QED
        BY <2>2, <2>4, <4>1
    <3>4. QED
      BY <3>2, <3>3
  <2>6. c = q
    BY <2>4, <2>5, SeqEqual
  <2>7. QED
    BY <2>6 DEF c, x, r
<1>4. QED
  BY <1>1, <1>2, <1>3, ConcatAssociative

\* The payload, offered to a queue with room or without.
LEMMA OfferAccounts ==
    ASSUME NEW h \in Seq(Event), NEW sub \in Sub, NEW d \in Nat, NEW p \in Nat,
           NEW tag \in {"pane.exited", "config.reloaded"},
           Accounts(h \o sub.queue, sub.dropped, d, p)
    PROVE  LET after == Offer(sub, [tag |-> tag, n |-> p + 1])
           IN  after \in Sub /\ Accounts(h \o after.queue, after.dropped, d + 1, p + 1)
<1> DEFINE e == [tag |-> tag, n |-> p + 1]  after == Offer(sub, e)
<1>1. e \in Event
  BY EventFacts
<1>2. sub.queue \in Seq(Event) /\ sub.dropped \in Nat
  BY DEF Sub
<1>3. h \o Append(sub.queue, e) = Append(h \o sub.queue, e) /\ h \o sub.queue \in Seq(Event)
  <2> HIDE DEF e, Event
  <2>1. QED
    BY <1>1, <1>2, StreamAppend
<1>4. CASE Room(sub)
  <2>1. Accounts(Append(h \o sub.queue, e), sub.dropped, d + 1, p + 1)
    <3> HIDE DEF Event
    <3>1. QED
      BY <1>2, <1>3, DataAccounts
  <2> HIDE DEF e, Event
  <2>2. Append(sub.queue, e) \in Seq(Event)
    BY <1>1, <1>2
  <2>3. after = [sub EXCEPT !.queue = Append(@, e), !.prefer_payload = FALSE]
    BY <1>4 DEF Offer
  <2>4. /\ after \in Sub /\ after.queue = Append(sub.queue, e) /\ after.dropped = sub.dropped
    BY <2>2, <2>3 DEF Sub
  <2> HIDE DEF after
  <2>5. after \in Sub /\ Accounts(h \o after.queue, after.dropped, d + 1, p + 1)
    BY <1>3, <2>1, <2>4
  <2>6. QED
    BY <2>5 DEF e, after
<1>5. CASE ~Room(sub)
  <2> HIDE DEF e, Event
  <2>1. Accounts(h \o sub.queue, sub.dropped + 1, d + 1, p + 1)
    BY <1>2, <1>3, DropAccounts
  <2>2. after = [sub EXCEPT !.dropped = @ + 1]
    BY <1>5 DEF Offer
  <2>3. sub.dropped + 1 \in Nat
    BY <1>2
  <2>4. after \in Sub /\ after.queue = sub.queue /\ after.dropped = sub.dropped + 1
    BY <2>2, <2>3 DEF Sub
  <2> HIDE DEF after
  <2>5. after \in Sub /\ Accounts(h \o after.queue, after.dropped, d + 1, p + 1)
    BY <2>1, <2>4
  <2>6. QED
    BY <2>5 DEF e, after
<1>6. QED
  BY <1>4, <1>5

\* One turn of publish's loop.
LEMMA DeliverAccounts ==
    ASSUME NEW h \in Seq(Event), NEW sub \in Sub, NEW d \in Nat, NEW p \in Nat,
           NEW tag \in {"pane.exited", "config.reloaded"},
           Accounts(h \o sub.queue, sub.dropped, d, p)
    PROVE  LET after == Deliver(sub, [tag |-> tag, n |-> p + 1])
           IN  after \in Sub /\ Accounts(h \o after.queue, after.dropped, d + 1, p + 1)
<1> DEFINE e == [tag |-> tag, n |-> p + 1]
<1>1. CASE sub.dropped = 0 \/ sub.prefer_payload
  <2>1. Deliver(sub, e) = Offer(sub, e)
    BY <1>1 DEF Deliver
  <2>2. LET after == Offer(sub, e)
        IN  after \in Sub /\ Accounts(h \o after.queue, after.dropped, d + 1, p + 1)
    <3> HIDE DEF Event, Sub
    <3>1. QED
      BY OfferAccounts
  <2> HIDE DEF e, Event, Sub
  <2>3. QED
    BY <2>1, <2>2 DEF e
<1>2. CASE ~(sub.dropped = 0 \/ sub.prefer_payload) /\ ~Room(sub)
  <2> HIDE DEF e, Event
  <2>1. Deliver(sub, e) = [sub EXCEPT !.dropped = @ + 1]
    BY <1>2 DEF Deliver
  <2>2. sub.queue \in Seq(Event) /\ sub.dropped \in Nat /\ h \o sub.queue \in Seq(Event)
    BY DEF Sub
  <2>3. Accounts(h \o sub.queue, sub.dropped + 1, d + 1, p + 1)
    BY <2>2, DropAccounts
  <2>4. sub.dropped + 1 \in Nat
    BY <2>2
  <2>5. /\ Deliver(sub, e) \in Sub /\ Deliver(sub, e).queue = sub.queue
        /\ Deliver(sub, e).dropped = sub.dropped + 1
    BY <2>1, <2>4 DEF Sub
  <2> HIDE DEF Sub
  <2>6. QED
    BY <2>3, <2>5 DEF e
<1>3. CASE ~(sub.dropped = 0 \/ sub.prefer_payload) /\ Room(sub)
  <2> DEFINE told == [sub EXCEPT !.queue = Append(@, Notice(sub.dropped)), !.dropped = 0,
                                 !.prefer_payload = TRUE]
             note == Notice(sub.dropped)
  <2>1. Deliver(sub, e) = Offer(told, e)
    BY <1>3 DEF Deliver
  <2>2. sub.queue \in Seq(Event) /\ sub.dropped \in Nat
    BY DEF Sub
  <2>3. note \in Event
    BY <2>2, EventFacts
  <2> HIDE DEF e, Event, note
  <2>4. /\ h \o Append(sub.queue, note) = Append(h \o sub.queue, note)
        /\ h \o sub.queue \in Seq(Event) /\ Append(sub.queue, note) \in Seq(Event)
    <3>1. Append(sub.queue, note) \in Seq(Event)
      BY <2>2, <2>3
    <3>2. h \o Append(sub.queue, note) = Append(h \o sub.queue, note)
      BY <2>2, <2>3, StreamAppend, Zenon
    <3>3. QED
      BY <2>2, <3>1, <3>2
  <2>5. Accounts(Append(h \o sub.queue, note), 0, d, p)
    BY <2>2, <2>4, NoticeAccounts DEF note
  <2>6. told \in Sub /\ told.queue = Append(sub.queue, note) /\ told.dropped = 0
    BY <2>4 DEF Sub, note
  <2> HIDE DEF told, Sub
  <2>7. Accounts(h \o told.queue, told.dropped, d, p)
    BY <2>4, <2>5, <2>6
  <2>8. LET after == Offer(told, e)
        IN  after \in Sub /\ Accounts(h \o after.queue, after.dropped, d + 1, p + 1)
    BY <2>6, <2>7, OfferAccounts DEF e
  <2>9. QED
    BY <2>1, <2>8 DEF e
<1>4. QED
  BY <1>1, <1>2, <1>3

\* The invariant, subscriber by subscriber.
LEMMA BusParts ==
    ASSUME BusInv
    PROVE  /\ BusTypes /\ SilentAtFirst
           /\ \A s \in Attached : Accounts(heard[s] \o subs[s].queue, subs[s].dropped, due[s], published)
BY DEF BusInv, NothingFromTheFuture, LossesAccounted, Accounts, Stream

\* The invariant of the next state, from its parts stated there.
LEMMA BusPartsNext ==
    ASSUME BusTypes', SilentAtFirst',
           \A s \in Attached' :
               Accounts(heard'[s] \o subs'[s].queue, subs'[s].dropped, due'[s], published')
    PROVE  BusInv'
<1>1. NothingFromTheFuture'
  BY DEF NothingFromTheFuture, Accounts, Stream
<1>2. LossesAccounted'
  BY DEF LossesAccounted, Accounts, Stream
<1>3. QED
  BY <1>1, <1>2 DEF BusInv

\* The initial state satisfies the invariant.
LEMMA BusInitInv == BusInit => BusInv
<1> HIDE DEF Event, Sub
<1> SUFFICES ASSUME BusInit PROVE BusInv
  OBVIOUS
<1>1. Attached = {}
  BY DEF BusInit, Attached
<1>2. subs \in [Attached -> Sub]
  BY <1>1 DEF BusInit, Attached
<1>3. BusTypes
  BY <1>1, <1>2 DEF BusInit, BusTypes
<1>4. QED
  BY <1>1, <1>3 DEF BusInit, BusInv, SilentAtFirst, NothingFromTheFuture, LossesAccounted

\* A new subscriber is owed nothing yet.
LEMMA SubscribeStep ==
    ASSUME BusInv, NEW s \in Subscribers, NEW f \in Filters, Subscribe(s, f)
    PROVE  BusInv'
<1> DEFINE new == [session_filter |-> f.session, type_filter |-> f.types,
                   queue |-> <<>>, dropped |-> 0, prefer_payload |-> FALSE]
<1>1. BusTypes /\ SilentAtFirst
  BY BusParts
<1>2. new \in Sub /\ new.queue = <<>> /\ new.dropped = 0
  <2> HIDE DEF Event
  <2>1. QED
    BY DEF Sub
<1>3. /\ s \notin Attached /\ due[s] = 0
      /\ subs' = [x \in Attached \cup {s} |-> IF x # s THEN subs[x] ELSE new]
      /\ published' = published /\ due' = due /\ heard' = heard
  BY DEF Subscribe
<1> HIDE DEF new, Event, Sub
<1>4. /\ Attached' = Attached \cup {s} /\ subs'[s] = new
      /\ \A x \in Attached : subs'[x] = subs[x]
  BY <1>3 DEF Attached
<1>5. subs' \in [Attached' -> Sub]
  <2>1. \A x \in Attached \cup {s} : (IF x # s THEN subs[x] ELSE new) \in Sub
    BY <1>1, <1>2 DEF BusTypes
  <2>2. QED
    BY <1>3, <1>4, <2>1
<1>6. BusTypes'
  BY <1>1, <1>3, <1>4, <1>5 DEF BusTypes
<1>7. SilentAtFirst'
  BY <1>1, <1>2, <1>3, <1>4 DEF SilentAtFirst
<1>8. Accounts(heard'[s] \o subs'[s].queue, subs'[s].dropped, due'[s], published')
  <2>1. heard[s] = <<>>
    BY <1>1, <1>3 DEF SilentAtFirst
  <2>2. heard[s] \o new.queue = <<>>
    <3>1. <<>> \in Seq(Event)
      OBVIOUS
    <3>2. <<>> \o <<>> = <<>>
      BY <3>1, ConcatEmptySeq
    <3>3. QED
      BY <1>2, <2>1, <3>2
  <2>3. Total(Weight(<<>>)) = 0
    <3>1. Weight(<<>>) \in Seq(Int) /\ Len(Weight(<<>>)) = 0
      <4>1. <<>> \in Seq(Event) /\ Len(<<>>) = 0
        OBVIOUS
      <4>2. Weight(<<>>) \in Seq(Int)
        BY <4>1, WeightSeq
      <4>3. DOMAIN Weight(<<>>) = {}
        BY <4>1 DEF Weight
      <4>4. QED
        BY <4>2, <4>3, LenProperties
    <3>2. Weight(<<>>) = <<>>
      BY <3>1
    <3>3. QED
      BY <3>2, TotalEmpty
  <2>4. Ordered(<<>>) /\ Past(<<>>, published)
    BY DEF Ordered, Past
  <2>5. /\ heard'[s] \o subs'[s].queue = <<>>
        /\ subs'[s].dropped = 0 /\ due'[s] = 0 /\ published' = published
    BY <1>2, <1>3, <1>4, <2>2
  <2>6. Accounts(<<>>, 0, 0, published)
    BY <2>3, <2>4 DEF Accounts
  <2>7. QED
    BY <2>5, <2>6
<1>9. \A x \in Attached' : Accounts(heard'[x] \o subs'[x].queue, subs'[x].dropped, due'[x], published')
  <2>1. TAKE x \in Attached'
  <2>2. CASE x = s
    BY <1>8, <2>2
  <2>3. CASE x # s
    BY <1>3, <1>4, <2>3, BusParts
  <2>4. QED
    BY <2>2, <2>3
<1>10. QED
  BY <1>6, <1>7, <1>9, BusPartsNext

\* A subscriber that leaves is owed nothing more.
LEMMA UnsubscribeStep ==
    ASSUME BusInv, NEW s \in Subscribers, Unsubscribe(s)
    PROVE  BusInv'
<1> HIDE DEF Event, Sub
<1>1. BusTypes /\ SilentAtFirst
  BY BusParts
<1>2. /\ subs' = [x \in Attached \ {s} |-> subs[x]]
      /\ published' = published /\ due' = due /\ heard' = heard
  BY DEF Unsubscribe
<1>3. /\ Attached' = Attached \ {s}
      /\ \A x \in Attached' : x \in Attached /\ subs'[x] = subs[x]
  BY <1>2 DEF Attached
<1>4. BusTypes'
  <2>1. subs' \in [Attached' -> Sub]
    BY <1>1, <1>2, <1>3 DEF BusTypes
  <2>2. QED
    BY <1>1, <1>2, <1>3, <2>1 DEF BusTypes
<1>5. SilentAtFirst'
  BY <1>1, <1>2, <1>3 DEF SilentAtFirst
<1>6. \A x \in Attached' : Accounts(heard'[x] \o subs'[x].queue, subs'[x].dropped, due'[x], published')
  BY <1>2, <1>3, BusParts
<1>7. QED
  BY <1>4, <1>5, <1>6, BusPartsNext

\* A subscriber takes what is first in its queue.
LEMMA ReceiveStep ==
    ASSUME BusInv, NEW s \in Subscribers, Receive(s)
    PROVE  BusInv'
<1> DEFINE q == subs[s].queue  h == heard[s]
<1>1. BusTypes /\ SilentAtFirst
  BY BusParts
<1>2. /\ s \in Attached /\ q # <<>>
      /\ heard' = [heard EXCEPT ![s] = Append(h, Head(q))]
      /\ subs' = [subs EXCEPT ![s].queue = Tail(q)]
      /\ published' = published /\ due' = due
  BY DEF Receive
<1>3. q \in Seq(Event) /\ h \in Seq(Event) /\ subs[s] \in Sub
  BY <1>1, <1>2 DEF BusTypes, Sub
<1> HIDE DEF Event
<1>4. /\ Append(h, Head(q)) \in Seq(Event) /\ Tail(q) \in Seq(Event)
  <2> HIDE DEF q, h
  <2>1. QED
    BY <1>2, <1>3
<1>5. Append(h, Head(q)) \o Tail(q) = h \o q
  BY <1>2, <1>3, StreamReceive
<1> DEFINE left == [subs[s] EXCEPT !.queue = Tail(q)]
<1>6. /\ left \in Sub /\ left.queue = Tail(q) /\ left.dropped = subs[s].dropped
  BY <1>3, <1>4 DEF Sub
<1>7. subs' = [subs EXCEPT ![s] = left]
  BY <1>1, <1>2 DEF BusTypes
<1> HIDE DEF left, Sub, q, h
<1>8. /\ Attached' = Attached /\ subs' \in [Attached -> Sub] /\ subs'[s] = left
      /\ \A x \in Attached : x # s => subs'[x] = subs[x]
  BY <1>1, <1>2, <1>6, <1>7 DEF BusTypes, Attached
<1>9. /\ heard' \in [Subscribers -> Seq(Event)] /\ heard'[s] = Append(h, Head(q))
      /\ \A x \in Subscribers : x # s => heard'[x] = heard[x]
  BY <1>1, <1>2, <1>4 DEF BusTypes
<1>10. BusTypes'
  BY <1>1, <1>2, <1>8, <1>9 DEF BusTypes
<1>11. due[s] # 0
  BY <1>1, <1>2 DEF SilentAtFirst, q
<1>12. SilentAtFirst'
  BY <1>1, <1>2, <1>8, <1>9, <1>11 DEF SilentAtFirst
<1>13. Accounts(h \o q, subs[s].dropped, due[s], published)
  BY <1>2, BusParts DEF h, q
<1>14. \A x \in Attached' : Accounts(heard'[x] \o subs'[x].queue, subs'[x].dropped, due'[x], published')
  <2>1. TAKE x \in Attached'
  <2>2. CASE x = s
    <3>1. heard'[x] \o subs'[x].queue = h \o q /\ subs'[x].dropped = subs[s].dropped
      BY <1>5, <1>6, <1>8, <1>9, <2>2
    <3>2. QED
      BY <1>2, <1>13, <2>2, <3>1
  <2>3. CASE x # s
    <3>1. x \in Attached /\ x \in Subscribers
      BY <1>1, <1>8 DEF BusTypes
    <3>2. heard'[x] = heard[x] /\ subs'[x] = subs[x]
      BY <1>8, <1>9, <2>3, <3>1
    <3>3. QED
      BY <1>2, <3>1, <3>2, BusParts
  <2>4. QED
    BY <2>2, <2>3
<1>15. QED
  BY <1>10, <1>12, <1>14, BusPartsNext

\* An event is queued, counted as lost, or queued behind the notice of a loss.
LEMMA PublishStep ==
    ASSUME BusInv, NEW tag \in {"pane.exited", "config.reloaded"}, Publish(tag)
    PROVE  BusInv'
<1> DEFINE e == [tag |-> tag, n |-> published + 1]
           Hit(s) == s \in Attached /\ SubscriberMatches(subs[s], tag)
<1>1. BusTypes /\ SilentAtFirst
  BY BusParts
<1>2. /\ published' = published + 1
      /\ subs' = [s \in Attached |-> IF Hit(s) THEN Deliver(subs[s], e) ELSE subs[s]]
      /\ due' = [s \in Subscribers |-> IF Hit(s) THEN due[s] + 1 ELSE due[s]]
      /\ heard' = heard
  BY DEF Publish
<1> HIDE DEF Event, Sub
<1>3. published \in Nat /\ published' \in Nat
  BY <1>1, <1>2 DEF BusTypes
<1>4. \A s \in Attached : /\ s \in Subscribers /\ subs[s] \in Sub /\ due[s] \in Nat
                           /\ heard[s] \in Seq(Event)
  BY <1>1 DEF BusTypes
<1>5. \A s \in Attached :
          /\ Deliver(subs[s], e) \in Sub
          /\ Accounts(heard[s] \o Deliver(subs[s], e).queue, Deliver(subs[s], e).dropped,
                      due[s] + 1, published + 1)
  BY <1>3, <1>4, BusParts, DeliverAccounts
<1>6. \A s \in Attached :
          Accounts(heard[s] \o subs[s].queue, subs[s].dropped, due[s], published + 1)
  <2>1. TAKE s \in Attached
  <2> DEFINE str == heard[s] \o subs[s].queue
  <2>2. str \in Seq(Event)
    <3>1. subs[s].queue \in Seq(Event)
      BY <1>4 DEF Sub
    <3>2. QED
      BY <1>4, <3>1
  <2>3. Accounts(str, subs[s].dropped, due[s], published)
    BY BusParts
  <2> HIDE DEF str
  <2>4. Past(str, published + 1)
    <3>1. SUFFICES ASSUME NEW i \in 1 .. Len(str), ~IsNotice(str[i])
                   PROVE  str[i].n <= published + 1
      BY DEF Past
    <3>2. str[i] \in Event
      BY <2>2
    <3>3. str[i].n <= published /\ str[i].n \in Nat
      BY <2>3, <3>1, <3>2, EventFacts DEF Accounts, Past
    <3>4. QED
      BY <1>3, <3>3
  <2>5. Accounts(str, subs[s].dropped, due[s], published + 1)
    BY <2>3, <2>4 DEF Accounts
  <2>6. QED
    BY <2>5 DEF str
<1> HIDE DEF e, Hit
<1>7. Attached' = Attached
  BY <1>2 DEF Attached
<1>8. BusTypes'
  <2>1. subs' \in [Attached' -> Sub]
    BY <1>2, <1>4, <1>5, <1>7
  <2>2. due' \in [Subscribers -> Nat]
    <3>1. \A s \in Subscribers : due[s] \in Nat /\ due[s] + 1 \in Nat
      BY <1>1 DEF BusTypes
    <3>2. QED
      BY <1>2, <3>1
  <2>3. QED
    BY <1>1, <1>2, <1>3, <1>7, <2>1, <2>2 DEF BusTypes
<1>9. SilentAtFirst'
  <2>1. SUFFICES ASSUME NEW s \in Subscribers, due'[s] = 0
                 PROVE  heard'[s] = <<>> /\ (s \in Attached' => subs'[s].queue = <<>>)
    BY DEF SilentAtFirst
  <2>2. due[s] \in Nat
    BY <1>1 DEF BusTypes
  <2>3. ~Hit(s)
    BY <1>2, <2>1, <2>2
  <2>4. due[s] = 0
    BY <1>2, <2>1, <2>3
  <2>5. QED
    BY <1>1, <1>2, <1>7, <2>3, <2>4 DEF SilentAtFirst
<1>10. \A s \in Attached' : Accounts(heard'[s] \o subs'[s].queue, subs'[s].dropped, due'[s], published')
  <2>1. TAKE s \in Attached'
  <2>2. s \in Attached /\ s \in Subscribers
    BY <1>4, <1>7
  <2>3. CASE Hit(s)
    <3>1. subs'[s] = Deliver(subs[s], e) /\ due'[s] = due[s] + 1
      BY <1>2, <2>2, <2>3
    <3>2. QED
      BY <1>2, <1>5, <2>2, <3>1
  <2>4. CASE ~Hit(s)
    <3>1. subs'[s] = subs[s] /\ due'[s] = due[s]
      BY <1>2, <2>2, <2>4
    <3>2. QED
      BY <1>2, <1>6, <2>2, <3>1
  <2>5. QED
    BY <2>3, <2>4
<1>11. QED
  BY <1>8, <1>9, <1>10, BusPartsNext

\* Every step keeps the invariant.
LEMMA BusStepInv == BusInv /\ [BusNext]_busVars => BusInv'
<1> SUFFICES ASSUME BusInv, [BusNext]_busVars PROVE BusInv'
  OBVIOUS
<1> HIDE DEF Event, Sub
<1>1. ASSUME NEW s \in Subscribers, NEW f \in Filters, Subscribe(s, f) PROVE BusInv'
  BY <1>1, SubscribeStep
<1>2. ASSUME NEW s \in Subscribers, Unsubscribe(s) PROVE BusInv'
  BY <1>2, UnsubscribeStep
<1>3. ASSUME NEW s \in Subscribers, Receive(s) PROVE BusInv'
  BY <1>3, ReceiveStep
<1>4. ASSUME NEW tag \in {"pane.exited", "config.reloaded"}, Publish(tag) PROVE BusInv'
  BY <1>4, PublishStep
<1>5. CASE UNCHANGED busVars
  <2>1. UNCHANGED <<subs, published, due, heard>>
    BY <1>5 DEF busVars
  <2>2. Attached' = Attached
    BY <2>1 DEF Attached
  <2>3. QED
    BY <2>1, <2>2 DEF BusInv, BusTypes, SilentAtFirst, NothingFromTheFuture, LossesAccounted, Stream
<1>6. QED
  BY <1>1, <1>2, <1>3, <1>4, <1>5 DEF BusNext

\* However slowly a subscriber receives, the events it gets and the losses it is
\* told of add up to what its filters let through.
THEOREM LossesAlwaysAccounted == Spec => []LossesAccounted
<1>1. Init => BusInv
  BY BusInitInv DEF Init
<1>2. [Next]_vars => [BusNext]_busVars
  BY DEF Next, Services, vars
<1>3. BusInv /\ [Next]_vars => BusInv'
  BY <1>2, BusStepInv
<1>4. BusInv => LossesAccounted
  BY DEF BusInv
<1>5. QED
  BY <1>1, <1>3, <1>4, PTL DEF Spec

-----------------------------------------------------------------------------
(* The socket in the runtime directory.                                    *)

Early == {"off", "stat", "connect", "restat", "unlink", "bind"}
Places == Early \cup {"listen", "perm", "guard", "build", "ready", "scan", "clean", "dead"}
Socket == Daemons \cup {NoSocket, Old}

SockTypes ==
    /\ name \in [Daemons -> Names]
    /\ dir \in [Names -> Socket]
    /\ does \in [Daemons -> Places]
    /\ todo \in [Daemons -> SUBSET Names]
    /\ DOMAIN guard = Daemons
    /\ rename \in [pc : {"idle", "done"}]
                  \cup [pc : {"link", "remove", "undo"}, from : Names, to : Names]
    /\ rename.pc \in {"link", "remove", "undo"} => rename.from # rename.to

\* A daemon's socket is in the directory only after it was bound.
BoundFirst == \A n \in Names : dir[n] \in Daemons => does[dir[n]] \notin Early

\* Names to remove are known only between the look and the last removal.
TodoWhileCleaning == \A d \in Daemons : does[d] # "clean" => todo[d] = {}

\* Nobody serves on it, and nobody will.
DeadSocket(s) == s \in Daemons => does[s] \in {"scan", "clean", "dead"}

\* What holds as long as nobody met anybody on a name: a socket taken for stale
\* is, a name a daemon has bound is its own and its only one, the guard keeps the
\* daemon's own socket and cleans up nothing else, and a rename has linked what
\* it is about to unlink.
StaleIsDead == \A d \in Daemons : does[d] \in {"restat", "unlink"} => DeadSocket(dir[name[d]])
OwnName ==
    \A d \in Daemons : does[d] \in {"listen", "perm", "guard"} =>
        \A n \in Names : dir[n] = d <=> n = name[d]
GuardsItself == \A d \in Daemons : does[d] \in {"build", "ready", "scan"} => guard[d] = d
Served == \A d \in Daemons : does[d] \in {"build", "ready"} => Reachable(d)
CleansOwn == \A d \in Daemons : \A n \in todo[d] : dir[n] = d
Linked ==
    /\ rename.pc = "remove" => dir[rename.from] = dir[rename.to] /\ dir[rename.to] # NoSocket
    /\ rename.pc # "undo"
Alone == Contended = {}

SoloInv == Alone /\ StaleIsDead /\ OwnName /\ GuardsItself /\ Served /\ CleansOwn /\ Linked

SockInv == SockTypes /\ BoundFirst /\ TodoWhileCleaning /\ (raced = {} => SoloInv)

\* Two different things are two.
LEMMA PairHasTwo ==
    ASSUME NEW x, NEW y, x # y
    PROVE  Cardinality({x} \cup {y}) = 2
<1>1. IsFiniteSet({x}) /\ Cardinality({x}) = 1
  BY FS_Singleton
<1>2. y \notin {x}
  OBVIOUS
<1>3. Cardinality({x} \cup {y}) = IF y \in {x} THEN Cardinality({x}) ELSE Cardinality({x}) + 1
  BY <1>1, FS_AddElement
<1>4. Cardinality({x} \cup {y}) = Cardinality({x}) + 1
  BY <1>2, <1>3
<1>5. QED
  BY <1>1, <1>4

\* Only one process works on a name when nobody meets anybody.
LEMMA OneClaimant ==
    ASSUME Alone, NEW n \in Names, NEW a \in Claimants(n), NEW b \in Claimants(n)
    PROVE  a = b
<1>1. Claimants(n) \subseteq Daemons \cup {"rename"}
  BY DEF Claimants
<1>2. IsFiniteSet(Claimants(n))
  BY <1>1, SocketAssumption, FS_AddElement, FS_Subset
<1>3. ~(Cardinality(Claimants(n)) > 1)
  BY DEF Alone, Contended
<1>4. SUFFICES ASSUME a # b PROVE FALSE
  OBVIOUS
<1>5. {a, b} \subseteq Claimants(n)
  OBVIOUS
<1>6. Cardinality({a}) = 1 /\ IsFiniteSet({a})
  BY FS_Singleton
<1>7. Cardinality({a} \cup {b}) = 2
  BY <1>4, <1>6, PairHasTwo
<1>8. {a} \cup {b} = {a, b}
  OBVIOUS
<1>9. Cardinality({a, b}) <= Cardinality(Claimants(n)) /\ Cardinality(Claimants(n)) \in Nat
  BY <1>2, <1>5, FS_Subset, FS_CardinalityType
<1>10. QED
  BY <1>3, <1>7, <1>8, <1>9

\* So nobody else starts under the name a process works on, cleans it up or
\* renames it.
LEMMA NobodyElse ==
    ASSUME SockTypes, Alone
    PROVE  /\ \A d, x \in Daemons : Starting(d) /\ Starting(x) /\ name[d] = name[x] => d = x
           /\ \A d, x \in Daemons : Starting(d) /\ does[x] = "clean" => name[d] \notin todo[x]
           /\ \A x, y \in Daemons, n \in Names :
                 does[x] = "clean" /\ does[y] = "clean" /\ n \in todo[x] /\ n \in todo[y] => x = y
           /\ rename.pc \in {"link", "remove", "undo"} =>
                 /\ \A d \in Daemons : Starting(d) => name[d] \notin {rename.from, rename.to}
                 /\ \A x \in Daemons : does[x] = "clean" =>
                       rename.from \notin todo[x] /\ rename.to \notin todo[x]
<1>1. \A d \in Daemons : name[d] \in Names /\ "rename" # d
  BY SocketAssumption DEF SockTypes
<1>2. \A d \in Daemons : Starting(d) => d \in Claimants(name[d])
  BY <1>1 DEF Claimants
<1>3. \A x \in Daemons, n \in Names : does[x] = "clean" /\ n \in todo[x] => x \in Claimants(n)
  BY DEF Claimants
<1>4. \A n \in Names : rename.pc \in {"link", "remove", "undo"} /\ n \in {rename.from, rename.to}
                       => "rename" \in Claimants(n)
  BY DEF Claimants
<1>5. rename.pc \in {"link", "remove", "undo"} => rename.from \in Names /\ rename.to \in Names
  BY DEF SockTypes
<1>6. \A d, x \in Daemons : Starting(d) /\ does[x] = "clean" => d # x
  BY DEF Starting
<1>7. \A d, x \in Daemons : Starting(d) /\ Starting(x) /\ name[d] = name[x] => d = x
  BY <1>1, <1>2, OneClaimant
<1>8. \A d, x \in Daemons : Starting(d) /\ does[x] = "clean" => name[d] \notin todo[x]
  BY <1>1, <1>2, <1>3, <1>6, OneClaimant
<1>9. \A x, y \in Daemons, n \in Names :
          does[x] = "clean" /\ does[y] = "clean" /\ n \in todo[x] /\ n \in todo[y] => x = y
  BY <1>3, OneClaimant
<1>10. ASSUME rename.pc \in {"link", "remove", "undo"}, NEW d \in Daemons, Starting(d)
       PROVE  name[d] \notin {rename.from, rename.to}
  BY <1>1, <1>2, <1>4, <1>10, OneClaimant
<1>11. ASSUME rename.pc \in {"link", "remove", "undo"}, NEW x \in Daemons, does[x] = "clean"
       PROVE  rename.from \notin todo[x] /\ rename.to \notin todo[x]
  BY <1>1, <1>3, <1>4, <1>5, <1>11, OneClaimant
<1>12. QED
  BY <1>7, <1>8, <1>9, <1>10, <1>11

\* Two processes that meet are noted.
LEMMA NoteAlone == ASSUME Note, raced' = {} PROVE raced = {} /\ Alone' /\ name' = name
BY DEF Note, Alone

\* A daemon goes on, and the directory stays as it is.
LEMMA MoveStep ==
    ASSUME SockInv, Note, NEW d \in Daemons, NEW next \in Places,
           does' = [does EXCEPT ![d] = next], dir' = dir, rename' = rename,
           next \in Early => does[d] \in Early,
           does[d] \in {"scan", "clean", "dead"} => next \in {"scan", "clean", "dead"},
           todo' \in [Daemons -> SUBSET Names], \A x \in Daemons : x # d => todo'[x] = todo[x],
           next # "clean" => todo'[d] = {},
           DOMAIN guard' = Daemons, \A x \in Daemons : x # d => guard'[x] = guard[x],
           raced = {} =>
              /\ next \in {"restat", "unlink"} => DeadSocket(dir[name[d]])
              /\ next \in {"listen", "perm", "guard"} => \A n \in Names : dir[n] = d <=> n = name[d]
              /\ next \in {"build", "ready", "scan"} => guard'[d] = d
              /\ next \in {"build", "ready"} => Reachable(d)
              /\ \A n \in todo'[d] : dir[n] = d
    PROVE  SockInv'
<1>1. SockTypes /\ BoundFirst /\ TodoWhileCleaning /\ (raced = {} => SoloInv) /\ name' = name
  BY DEF SockInv, Note
<1>2. /\ does' \in [Daemons -> Places] /\ does'[d] = next
      /\ \A x \in Daemons : x # d => does'[x] = does[x]
  BY <1>1 DEF SockTypes
<1>3. SockTypes'
  BY <1>1, <1>2 DEF SockTypes
<1> HIDE DEF Places
<1>4. BoundFirst'
  <2> HIDE DEF Early
  <2>1. QED
    BY <1>1, <1>2 DEF BoundFirst
<1>5. TodoWhileCleaning'
  BY <1>1, <1>2 DEF TodoWhileCleaning
<1>6. ASSUME raced' = {} PROVE SoloInv'
  <2>1. raced = {} /\ Alone' /\ SoloInv
    BY <1>1, <1>6, NoteAlone
  <2>2. \A s : DeadSocket(s) => DeadSocket(s)'
    BY <1>2 DEF DeadSocket
  <2>3. StaleIsDead'
    <3>1. SUFFICES ASSUME NEW x \in Daemons, does'[x] \in {"restat", "unlink"}
                   PROVE  DeadSocket(dir[name[x]])'
      BY <1>1 DEF StaleIsDead
    <3>2. DeadSocket(dir[name[x]])
      BY <1>2, <2>1, <3>1 DEF SoloInv, StaleIsDead
    <3>3. dir'[name'[x]] = dir[name[x]]
      BY <1>1
    <3>4. QED
      BY <1>2, <3>2, <3>3 DEF DeadSocket
  <2>4. OwnName'
    BY <1>1, <1>2, <2>1 DEF SoloInv, OwnName
  <2>5. GuardsItself'
    BY <1>2, <2>1 DEF SoloInv, GuardsItself
  <2>6. Served'
    BY <1>2, <2>1 DEF SoloInv, Served, Reachable
  <2>7. CleansOwn'
    BY <2>1 DEF SoloInv, CleansOwn
  <2>8. Linked'
    BY <2>1 DEF SoloInv, Linked
  <2>9. QED
    BY <2>1, <2>3, <2>4, <2>5, <2>6, <2>7, <2>8 DEF SoloInv
<1>7. QED
  BY <1>3, <1>4, <1>5, <1>6 DEF SockInv

\* The ways of a daemon that touch neither its guard nor its list of names.
Ways(from, next) ==
    \/ next = "dead"
    \/ from \in Early /\ next \in {"stat", "connect", "bind"}
    \/ from = "connect" /\ next = "restat"
    \/ from = "restat" /\ next = "unlink"
    \/ from \in {"listen", "perm"} /\ next \in {"perm", "guard"}
    \/ from = "build" /\ next = "ready"
    \/ from \in {"build", "ready"} /\ next = "scan"

\* A daemon moves along one of its ways and leaves the files alone.
LEMMA WayStep ==
    ASSUME SockInv, Note, NEW d \in Daemons, NEW next, Ways(does[d], next),
           does' = [does EXCEPT ![d] = next],
           dir' = dir, rename' = rename, guard' = guard, todo' = todo, todo[d] = {},
           raced = {} /\ next = "restat" => DeadSocket(dir[name[d]])
    PROVE  SockInv'
<1>1. SockTypes /\ (raced = {} => SoloInv)
  BY DEF SockInv
<1>2. next \in Places /\ does[d] \in Places
  BY <1>1 DEF Ways, Places, Early, SockTypes
<1>3. next \in Early => does[d] \in Early
  BY <1>2 DEF Ways, Early
<1>4. does[d] \in {"scan", "clean", "dead"} => next \in {"scan", "clean", "dead"}
  BY <1>2 DEF Ways, Early
<1>5. todo' \in [Daemons -> SUBSET Names] /\ DOMAIN guard' = Daemons
  BY <1>1 DEF SockTypes
<1>6. ASSUME raced = {}
      PROVE  /\ next \in {"restat", "unlink"} => DeadSocket(dir[name[d]])
             /\ next \in {"listen", "perm", "guard"} => \A n \in Names : dir[n] = d <=> n = name[d]
             /\ next \in {"build", "ready", "scan"} => guard'[d] = d
             /\ next \in {"build", "ready"} => Reachable(d)
  <2>1. SoloInv
    BY <1>1, <1>6
  <2>2. next \in {"restat", "unlink"} => DeadSocket(dir[name[d]])
    BY <1>6, <2>1 DEF Ways, SoloInv, StaleIsDead
  <2>3. next \in {"listen", "perm", "guard"} => \A n \in Names : dir[n] = d <=> n = name[d]
    BY <2>1 DEF Ways, SoloInv, OwnName
  <2>4. next \in {"build", "ready", "scan"} => guard'[d] = d
    BY <2>1 DEF Ways, SoloInv, GuardsItself
  <2>5. next \in {"build", "ready"} => Reachable(d)
    BY <2>1 DEF Ways, SoloInv, Served
  <2>6. QED
    BY <2>2, <2>3, <2>4, <2>5
<1>7. \A n \in todo'[d] : dir[n] = d
  OBVIOUS
<1> HIDE DEF Places, Early
<1>8. QED
  BY <1>2, <1>3, <1>4, <1>5, <1>6, <1>7, MoveStep

\* Only a refused connection is evidence: with nobody else at work on the name,
\* the socket is a dead one.
LEMMA RefusedIsStale ==
    ASSUME SockInv, raced = {}, NEW d \in Daemons, does[d] = "connect", Refusing(dir[name[d]])
    PROVE  DeadSocket(dir[name[d]])
<1> DEFINE s == dir[name[d]]
<1>1. SockTypes /\ BoundFirst /\ SoloInv
  BY DEF SockInv
<1>2. SUFFICES ASSUME s \in Daemons PROVE does[s] \in {"scan", "clean", "dead"}
  BY DEF DeadSocket
<1>3. name[d] \in Names /\ does[s] \in Places
  BY <1>1, <1>2 DEF SockTypes
<1>4. does[s] \notin {"perm", "guard", "build", "ready"}
  BY <1>2, SocketAssumption DEF Refusing
<1>5. does[s] \notin Early
  BY <1>1, <1>2, <1>3 DEF BoundFirst
<1>6. does[s] # "listen"
  <2>1. SUFFICES ASSUME does[s] = "listen" PROVE FALSE
    OBVIOUS
  <2>2. name[s] = name[d]
    BY <1>1, <1>2, <1>3, <2>1 DEF SoloInv, OwnName
  <2>3. Starting(s) /\ Starting(d)
    BY <2>1 DEF Starting
  <2>4. s = d
    BY <1>1, <1>2, <2>2, <2>3, NobodyElse DEF SoloInv
  <2>5. QED
    BY <2>1, <2>4
<1>7. QED
  BY <1>3, <1>4, <1>5, <1>6 DEF Places

\* The steps of a daemon that are such moves.
LEMMA WaysOfDaemon ==
    ASSUME SockInv, Note, NEW d \in Daemons,
           \/ Spawn(d) \/ Stat(d) \/ Connect(d) \/ Restat(d) \/ Listen(d) \/ Permissions(d)
           \/ Build(d) \/ End(d)
    PROVE  SockInv'
<1>1. dir' = dir /\ rename' = rename /\ guard' = guard /\ todo' = todo
  BY DEF Spawn, Stat, Connect, Restat, Listen, Permissions, Build, End
<1>2. does[d] # "clean"
  BY DEF Spawn, Stat, Connect, Restat, Listen, Permissions, Build, End
<1>3. todo[d] = {}
  BY <1>2 DEF SockInv, TodoWhileCleaning
<1>4. CASE Connect(d)
  <2>1. PICK next : /\ does' = [does EXCEPT ![d] = next]
                    /\ (next = "restat" /\ Refusing(dir[name[d]])) \/ next = "dead"
    BY <1>4 DEF Connect, Go, Die
  <2>2. does[d] = "connect"
    BY <1>4 DEF Connect
  <2>3. raced = {} /\ next = "restat" => DeadSocket(dir[name[d]])
    BY <2>1, <2>2, RefusedIsStale
  <2>4. Ways(does[d], next)
    BY <2>1, <2>2 DEF Ways
  <2>5. QED
    BY <1>1, <1>3, <2>1, <2>3, <2>4, WayStep
<1>5. CASE ~Connect(d)
  <2>1. PICK next : /\ does' = [does EXCEPT ![d] = next]
                    /\ Ways(does[d], next) /\ next # "restat"
    BY <1>5 DEF Spawn, Stat, Connect, Restat, Listen, Permissions, Build, End, Go, Ways, Early
  <2>2. QED
    BY <1>1, <1>3, <2>1, WayStep
<1>6. QED
  BY <1>4, <1>5

\* It dies, with what it knew.
LEMMA DeathStep ==
    ASSUME SockInv, Note, NEW d \in Daemons, CrashDaemon(d) \/ Stop(d)
    PROVE  SockInv'
<1>1. /\ does' = [does EXCEPT ![d] = "dead"] /\ dir' = dir /\ rename' = rename
      /\ guard' = [guard EXCEPT ![d] = NoSocket] /\ todo' = [todo EXCEPT ![d] = {}]
  BY DEF CrashDaemon, Stop, Die, Go, Forget
<1>2. SockTypes
  BY DEF SockInv
<1>3. /\ todo' \in [Daemons -> SUBSET Names] /\ todo'[d] = {}
      /\ \A x \in Daemons : x # d => todo'[x] = todo[x]
      /\ DOMAIN guard' = Daemons /\ \A x \in Daemons : x # d => guard'[x] = guard[x]
  BY <1>1, <1>2 DEF SockTypes
<1>4. "dead" \in Places /\ "dead" \notin Early
  BY DEF Places, Early
<1> HIDE DEF Places, Early
<1>5. QED
  BY <1>1, <1>3, <1>4, MoveStep

\* The guard is set on the daemon's own socket.
LEMMA GuardStep ==
    ASSUME SockInv, Note, NEW d \in Daemons, Guard(d)
    PROVE  SockInv'
<1>1. /\ does[d] = "guard" /\ dir' = dir /\ rename' = rename /\ todo' = todo
  BY DEF Guard
<1>2. todo[d] = {} /\ SockTypes /\ (raced = {} => SoloInv)
  BY <1>1 DEF SockInv, TodoWhileCleaning
<1>3. CASE does' = [does EXCEPT ![d] = "dead"] /\ guard' = guard
  <2>1. Ways(does[d], "dead")
    BY DEF Ways
  <2>2. QED
    BY <1>1, <1>2, <1>3, <2>1, WayStep
<1>4. CASE /\ does' = [does EXCEPT ![d] = "build"]
           /\ guard' = [guard EXCEPT ![d] = dir[name[d]]]
  <2>1. /\ todo' \in [Daemons -> SUBSET Names] /\ DOMAIN guard' = Daemons
        /\ \A x \in Daemons : x # d => guard'[x] = guard[x]
        /\ guard'[d] = dir[name[d]] /\ name[d] \in Names
    BY <1>1, <1>2, <1>4 DEF SockTypes
  <2>2. "build" \in Places /\ "build" \notin Early
    BY DEF Places, Early
  <2>3. ASSUME raced = {} PROVE guard'[d] = d /\ Reachable(d)
    BY <1>1, <1>2, <2>1, <2>3 DEF SoloInv, OwnName, Reachable
  <2> HIDE DEF Places, Early
  <2>4. QED
    BY <1>1, <1>2, <1>4, <2>1, <2>2, <2>3, MoveStep
<1>5. QED
  BY <1>3, <1>4 DEF Guard, Go, Die

\* The names that lead to the daemon's socket.
LEMMA ScanStep ==
    ASSUME SockInv, Note, NEW d \in Daemons, Scan(d)
    PROVE  SockInv'
<1>1. /\ does[d] = "scan" /\ dir' = dir /\ rename' = rename
      /\ todo' = [todo EXCEPT ![d] = {n \in Names : dir[n] = guard[d]}]
      /\ does' = [does EXCEPT ![d] = "clean"] /\ guard' = [guard EXCEPT ![d] = NoSocket]
  BY DEF Scan, Go, Forget
<1>2. SockTypes /\ (raced = {} => SoloInv)
  BY DEF SockInv
<1>3. /\ todo' \in [Daemons -> SUBSET Names] /\ todo'[d] = {n \in Names : dir[n] = guard[d]}
      /\ \A x \in Daemons : x # d => todo'[x] = todo[x]
      /\ DOMAIN guard' = Daemons /\ \A x \in Daemons : x # d => guard'[x] = guard[x]
  BY <1>1, <1>2 DEF SockTypes
<1>4. raced = {} => guard[d] = d
  BY <1>1, <1>2 DEF SoloInv, GuardsItself
<1>5. raced = {} => \A n \in todo'[d] : dir[n] = d
  BY <1>3, <1>4
<1>6. "clean" \in Places /\ "clean" \notin Early
  BY DEF Places, Early
<1> HIDE DEF Places, Early
<1>7. QED
  BY <1>1, <1>3, <1>5, <1>6, MoveStep

\* A stale socket is removed.
LEMMA UnlinkStep ==
    ASSUME SockInv, Note, NEW d \in Daemons, Unlink(d)
    PROVE  SockInv'
<1> DEFINE n == name[d]
<1>1. PICK next \in {"dead", "bind"} :
          /\ does[d] = "unlink" /\ does' = [does EXCEPT ![d] = next]
          /\ dir' = [dir EXCEPT ![n] = NoSocket]
          /\ UNCHANGED <<guard, todo, rename>>
  BY DEF Unlink, Go
<1>2. SockTypes /\ BoundFirst /\ TodoWhileCleaning /\ (raced = {} => SoloInv) /\ name' = name
  BY DEF SockInv, Note
<1>3. n \in Names /\ NoSocket \notin Daemons /\ NoSocket \in Socket /\ next \in Places
  BY <1>2, SocketAssumption DEF SockTypes, Socket, Places, Early
<1>4. /\ does' \in [Daemons -> Places] /\ does'[d] = next
      /\ \A x \in Daemons : x # d => does'[x] = does[x]
      /\ dir' \in [Names -> Socket] /\ dir'[n] = NoSocket
      /\ \A m \in Names : m # n => dir'[m] = dir[m]
  <2> HIDE DEF Places, Socket
  <2>1. QED
    BY <1>1, <1>2, <1>3 DEF SockTypes
<1> HIDE DEF n, Places, Socket
<1>5. SockTypes'
  BY <1>1, <1>2, <1>4 DEF SockTypes
<1>6. BoundFirst'
  <2>1. does[d] \in Early
    BY <1>1 DEF Early
  <2> HIDE DEF Early
  <2>2. QED
    BY <1>2, <1>3, <1>4, <2>1 DEF BoundFirst
<1>7. TodoWhileCleaning'
  BY <1>1, <1>2, <1>4 DEF TodoWhileCleaning
<1>8. ASSUME raced' = {} PROVE SoloInv'
  <2>1. raced = {} /\ Alone' /\ SoloInv /\ Alone /\ Starting(d)
    BY <1>1, <1>2, <1>8, NoteAlone DEF SoloInv, Starting
  <2>2. DeadSocket(dir[n])
    BY <1>1, <2>1 DEF SoloInv, StaleIsDead, n
  <2>3. \A x \in Daemons : Starting(x) /\ x # d => name[x] # n /\ name[x] \in Names
    BY <1>2, <2>1, NobodyElse DEF n, SockTypes
  <2>4. \A x \in Daemons : todo[x] \subseteq Names /\ n \notin todo[x]
    BY <1>2, <2>1, NobodyElse DEF n, SockTypes, TodoWhileCleaning
  <2>5. StaleIsDead'
    <3>1. SUFFICES ASSUME NEW x \in Daemons, does'[x] \in {"restat", "unlink"}
                   PROVE  DeadSocket(dir[name[x]])'
      BY DEF StaleIsDead
    <3>2. x # d /\ does'[x] = does[x] /\ Starting(x)
      BY <1>4, <3>1 DEF Starting
    <3>3. dir'[name'[x]] = dir[name[x]]
      BY <1>2, <1>4, <2>3, <3>2
    <3>4. DeadSocket(dir[name[x]]) /\ dir[name[x]] # d
      BY <1>1, <2>1, <3>1, <3>2 DEF SoloInv, StaleIsDead, DeadSocket
    <3>5. QED
      BY <1>4, <3>3, <3>4 DEF DeadSocket
  <2>6. OwnName'
    <3>1. SUFFICES ASSUME NEW x \in Daemons, does'[x] \in {"listen", "perm", "guard"}, NEW m \in Names
                   PROVE  dir'[m] = x <=> m = name[x]
      BY <1>2 DEF OwnName
    <3>2. x # d /\ does'[x] = does[x] /\ Starting(x)
      BY <1>4, <3>1 DEF Starting
    <3>3. dir[m] = x <=> m = name[x]
      BY <2>1, <3>1, <3>2 DEF SoloInv, OwnName
    <3>4. QED
      BY <1>3, <1>4, <2>3, <3>2, <3>3
  <2>7. GuardsItself'
    BY <1>1, <1>4, <2>1 DEF SoloInv, GuardsItself
  <2>8. Served'
    <3>1. SUFFICES ASSUME NEW x \in Daemons, does'[x] \in {"build", "ready"}
                   PROVE  \E m \in Names : dir'[m] = x
      BY DEF Served, Reachable
    <3>2. does[x] \in {"build", "ready"}
      BY <1>4, <3>1
    <3>3. PICK m \in Names : dir[m] = x
      BY <2>1, <3>2 DEF SoloInv, Served, Reachable
    <3>4. m # n
      BY <2>2, <3>2, <3>3 DEF DeadSocket
    <3>5. QED
      BY <1>4, <3>3, <3>4
  <2>9. CleansOwn'
    BY <1>1, <1>4, <2>1, <2>4 DEF SoloInv, CleansOwn
  <2>10. Linked'
    <3>1. rename.pc = "remove" => /\ rename.from # n /\ rename.to # n
                                  /\ rename.from \in Names /\ rename.to \in Names
      BY <1>2, <2>1, NobodyElse DEF SockTypes, n
    <3>2. QED
      BY <1>1, <1>4, <2>1, <3>1 DEF SoloInv, Linked
  <2>11. QED
    BY <2>1, <2>5, <2>6, <2>7, <2>8, <2>9, <2>10 DEF SoloInv
<1>9. QED
  BY <1>5, <1>6, <1>7, <1>8 DEF SockInv

\* A free name is bound, or it is taken.
LEMMA BindStep ==
    ASSUME SockInv, Note, NEW d \in Daemons, Bind(d)
    PROVE  SockInv'
<1> DEFINE n == name[d]
<1>1. does[d] = "bind" /\ UNCHANGED <<guard, todo, rename>>
  BY DEF Bind
<1>2. SockTypes /\ BoundFirst /\ TodoWhileCleaning /\ (raced = {} => SoloInv) /\ name' = name
  BY DEF SockInv, Note
<1>3. CASE does' = [does EXCEPT ![d] = "dead"] /\ dir' = dir
  <2>1. Ways(does[d], "dead") /\ todo[d] = {}
    BY <1>1, <1>2 DEF Ways, TodoWhileCleaning
  <2>2. QED
    BY <1>1, <1>3, <2>1, WayStep
<1>4. CASE /\ dir[n] = NoSocket /\ dir' = [dir EXCEPT ![n] = d]
           /\ does' = [does EXCEPT ![d] = "listen"]
  <2>1. n \in Names /\ NoSocket \notin Daemons /\ d \in Socket /\ "listen" \in Places
    BY <1>2, SocketAssumption DEF SockTypes, Socket, Places, Early
  <2>2. /\ does' \in [Daemons -> Places] /\ does'[d] = "listen"
        /\ \A x \in Daemons : x # d => does'[x] = does[x]
        /\ dir' \in [Names -> Socket] /\ dir'[n] = d
        /\ \A m \in Names : m # n => dir'[m] = dir[m]
    <3> HIDE DEF Places, Socket
    <3>1. QED
      BY <1>2, <1>4, <2>1 DEF SockTypes
  <2> HIDE DEF n, Places, Socket
  <2>3. SockTypes'
    BY <1>1, <1>2, <2>2 DEF SockTypes
  <2>4. \A m \in Names : dir[m] # d
    BY <1>1, <1>2 DEF BoundFirst, Early
  <2>5. BoundFirst'
    <3>1. "listen" \notin Early
      BY DEF Early
    <3> HIDE DEF Early
    <3>2. QED
      BY <1>2, <2>2, <2>4, <3>1 DEF BoundFirst
  <2>6. TodoWhileCleaning'
    BY <1>1, <1>2, <2>2 DEF TodoWhileCleaning
  <2>7. ASSUME raced' = {} PROVE SoloInv'
    <3>1. raced = {} /\ Alone' /\ SoloInv /\ Alone /\ Starting(d)
      BY <1>1, <1>2, <2>7, NoteAlone DEF SoloInv, Starting
    <3>2. \A x \in Daemons : Starting(x) /\ x # d => name[x] # n /\ name[x] \in Names
      BY <1>2, <3>1, NobodyElse DEF n, SockTypes
    <3>3. StaleIsDead'
      <4>1. SUFFICES ASSUME NEW x \in Daemons, does'[x] \in {"restat", "unlink"}
                     PROVE  DeadSocket(dir[name[x]])'
        BY DEF StaleIsDead
      <4>2. x # d /\ does'[x] = does[x] /\ Starting(x)
        BY <2>2, <4>1 DEF Starting
      <4>3. dir'[name'[x]] = dir[name[x]]
        BY <1>2, <2>2, <3>2, <4>2
      <4>4. DeadSocket(dir[name[x]]) /\ dir[name[x]] # d
        BY <1>1, <3>1, <4>1, <4>2 DEF SoloInv, StaleIsDead, DeadSocket
      <4>5. QED
        BY <2>2, <4>3, <4>4 DEF DeadSocket
    <3>4. OwnName'
      <4>1. SUFFICES ASSUME NEW x \in Daemons, does'[x] \in {"listen", "perm", "guard"}, NEW m \in Names
                     PROVE  dir'[m] = x <=> m = name[x]
        BY <1>2 DEF OwnName
      <4>2. CASE x = d
        BY <2>2, <2>4, <4>2 DEF n
      <4>3. CASE x # d
        <5>1. does'[x] = does[x] /\ Starting(x)
          BY <2>2, <4>1, <4>3 DEF Starting
        <5>2. dir[m] = x <=> m = name[x]
          BY <3>1, <4>1, <5>1 DEF SoloInv, OwnName
        <5>3. QED
          BY <2>2, <3>2, <4>3, <5>1, <5>2
      <4>4. QED
        BY <4>2, <4>3
    <3>5. GuardsItself'
      BY <1>1, <2>2, <3>1 DEF SoloInv, GuardsItself
    <3>6. Served'
      <4>1. SUFFICES ASSUME NEW x \in Daemons, does'[x] \in {"build", "ready"}
                     PROVE  \E m \in Names : dir'[m] = x
        BY DEF Served, Reachable
      <4>2. does[x] \in {"build", "ready"}
        BY <2>2, <4>1
      <4>3. PICK m \in Names : dir[m] = x
        BY <3>1, <4>2 DEF SoloInv, Served, Reachable
      <4>4. m # n
        BY <1>4, <2>1, <4>3 DEF n
      <4>5. QED
        BY <2>2, <4>3, <4>4
    <3>7. CleansOwn'
      <4>1. \A x \in Daemons : todo[x] \subseteq Names
        BY <1>2 DEF SockTypes
      <4>2. dir[n] = NoSocket
        BY <1>4 DEF n
      <4>3. QED
        BY <1>1, <2>1, <2>2, <3>1, <4>1, <4>2 DEF SoloInv, CleansOwn
    <3>8. Linked'
      <4>1. rename.pc = "remove" => /\ rename.from # n /\ rename.to # n
                                    /\ rename.from \in Names /\ rename.to \in Names
        BY <1>2, <3>1, NobodyElse DEF SockTypes, n
      <4>2. QED
        BY <1>1, <2>2, <3>1, <4>1 DEF SoloInv, Linked
    <3>9. QED
      BY <3>1, <3>3, <3>4, <3>5, <3>6, <3>7, <3>8 DEF SoloInv
  <2>8. QED
    BY <2>3, <2>5, <2>6, <2>7 DEF SockInv
<1>5. QED
  BY <1>3, <1>4 DEF Bind, Go, Die

\* A name of its own is removed, or none is left.
LEMMA CleanStep ==
    ASSUME SockInv, Note, NEW d \in Daemons, Clean(d)
    PROVE  SockInv'
<1>1. does[d] = "clean" /\ UNCHANGED <<guard, rename>>
  BY DEF Clean
<1>2. SockTypes /\ BoundFirst /\ TodoWhileCleaning /\ (raced = {} => SoloInv) /\ name' = name
  BY DEF SockInv, Note
<1>3. CASE todo[d] = {} /\ does' = [does EXCEPT ![d] = "dead"] /\ UNCHANGED <<dir, todo>>
  <2>1. Ways(does[d], "dead")
    BY DEF Ways
  <2>2. QED
    BY <1>1, <1>3, <2>1, WayStep
<1>4. ASSUME NEW n \in todo[d], dir' = [dir EXCEPT ![n] = NoSocket],
             todo' = [todo EXCEPT ![d] = @ \ {n}], does' = does
      PROVE  SockInv'
  <2>1. n \in Names /\ NoSocket \notin Daemons /\ NoSocket \in Socket
    BY <1>2, SocketAssumption DEF SockTypes, Socket
  <2>2. /\ dir' \in [Names -> Socket] /\ dir'[n] = NoSocket
        /\ \A m \in Names : m # n => dir'[m] = dir[m]
    <3> HIDE DEF Socket
    <3>1. QED
      BY <1>2, <1>4, <2>1 DEF SockTypes
  <2>3. /\ todo' \in [Daemons -> SUBSET Names] /\ todo'[d] = todo[d] \ {n}
        /\ \A x \in Daemons : x # d => todo'[x] = todo[x]
    BY <1>2, <1>4 DEF SockTypes
  <2> HIDE DEF Places, Socket
  <2>4. SockTypes'
    BY <1>1, <1>2, <1>4, <2>2, <2>3 DEF SockTypes
  <2>5. BoundFirst'
    BY <1>2, <1>4, <2>1, <2>2 DEF BoundFirst
  <2>6. TodoWhileCleaning'
    BY <1>1, <1>2, <1>4, <2>3 DEF TodoWhileCleaning
  <2>7. ASSUME raced' = {} PROVE SoloInv'
    <3>1. raced = {} /\ Alone' /\ SoloInv /\ Alone /\ dir[n] = d
      BY <1>2, <1>4, <2>7, NoteAlone DEF SoloInv, CleansOwn
    <3>2. \A x \in Daemons : Starting(x) => name[x] # n /\ name[x] \in Names
      BY <1>1, <1>2, <3>1, NobodyElse DEF SockTypes
    <3>3. \A x \in Daemons : todo[x] \subseteq Names /\ (x # d => n \notin todo[x])
      BY <1>1, <1>2, <2>1, <3>1, NobodyElse DEF SockTypes, TodoWhileCleaning
    <3>4. StaleIsDead'
      <4>1. SUFFICES ASSUME NEW x \in Daemons, does[x] \in {"restat", "unlink"}
                     PROVE  DeadSocket(dir[name[x]])'
        BY <1>4 DEF StaleIsDead
      <4>2. dir'[name'[x]] = dir[name[x]]
        BY <1>2, <2>2, <3>2, <4>1 DEF Starting
      <4>3. QED
        BY <1>4, <3>1, <4>1, <4>2 DEF SoloInv, StaleIsDead, DeadSocket
    <3>5. OwnName'
      <4>1. SUFFICES ASSUME NEW x \in Daemons, does[x] \in {"listen", "perm", "guard"}, NEW m \in Names
                     PROVE  dir'[m] = x <=> m = name[x]
        BY <1>2, <1>4 DEF OwnName
      <4>2. dir[m] = x <=> m = name[x]
        BY <3>1, <4>1 DEF SoloInv, OwnName
      <4>3. name[x] # n
        BY <3>2, <4>1 DEF Starting
      <4>4. QED
        BY <2>1, <2>2, <4>2, <4>3
    <3>6. GuardsItself'
      BY <1>1, <1>4, <3>1 DEF SoloInv, GuardsItself
    <3>7. Served'
      <4>1. SUFFICES ASSUME NEW x \in Daemons, does[x] \in {"build", "ready"}
                     PROVE  \E m \in Names : dir'[m] = x
        BY <1>4 DEF Served, Reachable
      <4>2. PICK m \in Names : dir[m] = x
        BY <3>1, <4>1 DEF SoloInv, Served, Reachable
      <4>3. m # n
        BY <1>1, <3>1, <4>1, <4>2
      <4>4. QED
        BY <2>2, <4>2, <4>3
    <3>8. CleansOwn'
      BY <2>2, <2>3, <3>1, <3>3 DEF SoloInv, CleansOwn
    <3>9. Linked'
      <4>1. rename.pc = "remove" => /\ rename.from # n /\ rename.to # n
                                    /\ rename.from \in Names /\ rename.to \in Names
        BY <1>1, <1>2, <1>4, <3>1, NobodyElse DEF SockTypes
      <4>2. QED
        BY <1>1, <2>2, <3>1, <4>1 DEF SoloInv, Linked
    <3>10. QED
      BY <3>1, <3>4, <3>5, <3>6, <3>7, <3>8, <3>9 DEF SoloInv
  <2>8. QED
    BY <2>4, <2>5, <2>6, <2>7 DEF SockInv
<1>5. QED
  BY <1>3, <1>4 DEF Clean, Go, Die

\* A rename begins or is refused, or whoever waits for a daemon learns of it.
LEMMA AsideStep ==
    ASSUME SockInv, Note, UNCHANGED <<dir, does, guard, todo>>,
           \/ rename' = rename
           \/ rename' = [pc |-> "done"]
           \/ \E from, to \in Names : from # to /\ rename' = [pc |-> "link", from |-> from, to |-> to]
    PROVE  SockInv'
<1>1. SockTypes /\ BoundFirst /\ TodoWhileCleaning /\ (raced = {} => SoloInv) /\ name' = name
  BY DEF SockInv, Note
<1>2. SockTypes'
  BY <1>1 DEF SockTypes
<1>3. BoundFirst' /\ TodoWhileCleaning'
  BY <1>1 DEF BoundFirst, TodoWhileCleaning
<1>4. ASSUME raced' = {} PROVE SoloInv'
  <2>1. raced = {} /\ Alone' /\ SoloInv
    BY <1>1, <1>4, NoteAlone
  <2>2. Linked'
    BY <2>1 DEF SoloInv, Linked
  <2>3. StaleIsDead' /\ OwnName' /\ GuardsItself' /\ Served' /\ CleansOwn'
    BY <1>1, <2>1 DEF SoloInv, StaleIsDead, OwnName, GuardsItself, Served, CleansOwn, Reachable, DeadSocket
  <2>4. QED
    BY <2>1, <2>2, <2>3 DEF SoloInv
<1>5. QED
  BY <1>2, <1>3, <1>4 DEF SockInv

\* The steps of the launcher that waits for its daemon.
LEMMA WaiterStepInv ==
    ASSUME SockInv, Note, NEW d \in Daemons, Probe(d) \/ ChildExited(d) \/ GiveUp(d)
    PROVE  SockInv'
<1>1. CASE GiveUp(d) /\ does[d] = "ready"
  <2>1. does' = [does EXCEPT ![d] = "scan"] /\ UNCHANGED <<dir, guard, todo, rename>>
    BY <1>1 DEF GiveUp
  <2>2. todo[d] = {}
    BY <1>1 DEF SockInv, TodoWhileCleaning
  <2>3. Ways(does[d], "scan")
    BY <1>1 DEF Ways
  <2>4. QED
    BY <2>1, <2>2, <2>3, WayStep
<1>2. CASE ~(GiveUp(d) /\ does[d] = "ready")
  <2>1. UNCHANGED <<dir, does, guard, todo>> /\ rename' = rename
    BY <1>2 DEF Probe, ChildExited, GiveUp
  <2>2. QED
    BY <2>1, AsideStep
<1>3. QED
  BY <1>1, <1>2

\* The second name of a socket.
LEMMA LinkStep ==
    ASSUME SockInv, Note, Link
    PROVE  SockInv'
<1> DEFINE n == rename.to  s == dir[rename.from]
<1>1. rename.pc = "link" /\ UNCHANGED <<does, guard, todo>>
  BY DEF Link
<1>2. SockTypes /\ BoundFirst /\ TodoWhileCleaning /\ (raced = {} => SoloInv) /\ name' = name
  BY DEF SockInv, Note
<1>3. CASE rename' = [pc |-> "done"] /\ dir' = dir
  BY <1>1, <1>3, AsideStep
<1>4. CASE /\ s # NoSocket /\ dir[n] = NoSocket /\ dir' = [dir EXCEPT ![n] = s]
           /\ rename' = [rename EXCEPT !.pc = "remove"]
  <2>1. /\ rename \in [pc : {"link", "remove", "undo"}, from : Names, to : Names]
        /\ rename.from \in Names /\ n \in Names /\ rename.from # n
    BY <1>1, <1>2 DEF SockTypes
  <2>2. /\ rename' \in [pc : {"link", "remove", "undo"}, from : Names, to : Names]
        /\ rename'.pc = "remove" /\ rename'.from = rename.from /\ rename'.to = n
    BY <1>4, <2>1
  <2>3. s \in Socket /\ NoSocket \notin Daemons
    BY <1>2, <2>1, SocketAssumption DEF SockTypes
  <2>4. /\ dir' \in [Names -> Socket] /\ dir'[n] = s
        /\ \A m \in Names : m # n => dir'[m] = dir[m]
    <3> HIDE DEF Socket, s, n
    <3>1. QED
      BY <1>2, <1>4, <2>1, <2>3 DEF SockTypes
  <2> HIDE DEF Places, Socket
  <2>5. SockTypes'
    BY <1>1, <1>2, <2>1, <2>2, <2>4 DEF SockTypes
  <2>6. BoundFirst'
    <3> HIDE DEF Early
    <3>1. QED
      BY <1>1, <1>2, <2>1, <2>4 DEF BoundFirst
  <2>7. TodoWhileCleaning'
    BY <1>1, <1>2 DEF TodoWhileCleaning
  <2>8. ASSUME raced' = {} PROVE SoloInv'
    <3>1. raced = {} /\ Alone' /\ SoloInv /\ Alone
      BY <1>2, <2>8, NoteAlone DEF SoloInv
    <3>2. \A x \in Daemons : Starting(x) => name[x] # n /\ name[x] # rename.from /\ name[x] \in Names
      BY <1>1, <1>2, <3>1, NobodyElse DEF SockTypes
    <3>3. StaleIsDead'
      <4>1. SUFFICES ASSUME NEW x \in Daemons, does[x] \in {"restat", "unlink"}
                     PROVE  DeadSocket(dir[name[x]])'
        BY <1>1 DEF StaleIsDead
      <4>2. dir'[name'[x]] = dir[name[x]]
        BY <1>2, <2>4, <3>2, <4>1 DEF Starting
      <4>3. QED
        BY <1>1, <3>1, <4>1, <4>2 DEF SoloInv, StaleIsDead, DeadSocket
    <3>4. OwnName'
      <4>1. SUFFICES ASSUME NEW x \in Daemons, does[x] \in {"listen", "perm", "guard"}, NEW m \in Names
                     PROVE  dir'[m] = x <=> m = name[x]
        BY <1>1, <1>2 DEF OwnName
      <4>2. /\ dir[m] = x <=> m = name[x]
            /\ s = x <=> rename.from = name[x]
        BY <2>1, <3>1, <4>1 DEF SoloInv, OwnName
      <4>3. name[x] # n /\ name[x] # rename.from
        BY <3>2, <4>1 DEF Starting
      <4>4. QED
        BY <2>4, <4>2, <4>3
    <3>5. GuardsItself'
      BY <1>1, <3>1 DEF SoloInv, GuardsItself
    <3>6. Served'
      <4>1. SUFFICES ASSUME NEW x \in Daemons, does[x] \in {"build", "ready"}
                     PROVE  \E m \in Names : dir'[m] = x
        BY <1>1 DEF Served, Reachable
      <4>2. PICK m \in Names : dir[m] = x
        BY <3>1, <4>1 DEF SoloInv, Served, Reachable
      <4>3. m # n
        BY <1>4, <2>3, <4>2
      <4>4. QED
        BY <2>4, <4>2, <4>3
    <3>7. CleansOwn'
      <4>1. \A x \in Daemons : todo[x] \subseteq Names
        BY <1>2 DEF SockTypes
      <4>2. QED
        BY <1>1, <1>4, <2>3, <2>4, <3>1, <4>1 DEF SoloInv, CleansOwn
    <3>8. Linked'
      BY <1>4, <2>1, <2>2, <2>4 DEF Linked
    <3>9. QED
      BY <3>1, <3>3, <3>4, <3>5, <3>6, <3>7, <3>8 DEF SoloInv
  <2>9. QED
    BY <2>5, <2>6, <2>7, <2>8 DEF SockInv
<1>5. QED
  BY <1>3, <1>4 DEF Link

\* The old name goes, and the socket has the new one.  If it is gone already the
\* new one goes: then somebody else was at work.
LEMMA UnlinkOldStep ==
    ASSUME SockInv, Note, RemoveOld \/ Undo
    PROVE  SockInv'
<1>1. rename.pc \in {"remove", "undo"} /\ UNCHANGED <<does, guard, todo>>
  BY DEF RemoveOld, Undo
<1>2. SockTypes /\ BoundFirst /\ TodoWhileCleaning /\ (raced = {} => SoloInv) /\ name' = name
  BY DEF SockInv, Note
<1>3. /\ rename \in [pc : {"link", "remove", "undo"}, from : Names, to : Names]
      /\ rename.from \in Names /\ rename.to \in Names /\ rename.from # rename.to
  BY <1>1, <1>2 DEF SockTypes
<1>4. PICK n \in {rename.from, rename.to} : dir' = [dir EXCEPT ![n] = NoSocket]
  BY DEF RemoveOld, Undo
<1>5. n \in Names /\ NoSocket \notin Daemons /\ NoSocket \in Socket
  BY <1>3, SocketAssumption DEF Socket
<1>6. /\ dir' \in [Names -> Socket] /\ dir'[n] = NoSocket
      /\ \A m \in Names : m # n => dir'[m] = dir[m]
  <2> HIDE DEF Socket
  <2>1. QED
    BY <1>2, <1>4, <1>5 DEF SockTypes
<1>7. SockTypes'
  <2>1. \/ rename' = [rename EXCEPT !.pc = "undo"]
        \/ rename' = [pc |-> "done"]
    BY DEF RemoveOld, Undo
  <2>2. /\ rename' \in [pc : {"idle", "done"}]
                       \cup [pc : {"link", "remove", "undo"}, from : Names, to : Names]
        /\ rename'.pc \in {"link", "remove", "undo"} => rename'.from # rename'.to
    BY <1>3, <2>1
  <2> HIDE DEF Places, Socket
  <2>3. QED
    BY <1>1, <1>2, <1>6, <2>2 DEF SockTypes
<1> HIDE DEF Places, Socket
<1>8. BoundFirst'
  BY <1>1, <1>2, <1>5, <1>6 DEF BoundFirst
<1>9. TodoWhileCleaning'
  BY <1>1, <1>2 DEF TodoWhileCleaning
<1>10. ASSUME raced' = {} PROVE SoloInv'
  <2>1. raced = {} /\ Alone' /\ SoloInv /\ Alone
    BY <1>2, <1>10, NoteAlone DEF SoloInv
  <2>2. /\ rename.pc = "remove" /\ dir[rename.from] = dir[rename.to] /\ dir[rename.to] # NoSocket
    BY <1>1, <2>1 DEF SoloInv, Linked
  <2>3. RemoveOld
    BY <2>2 DEF Undo
  <2>4. dir' = [dir EXCEPT ![rename.from] = NoSocket] /\ rename' = [pc |-> "done"]
    BY <2>2, <2>3 DEF RemoveOld
  <2>5. /\ dir'[rename.from] = NoSocket
        /\ \A m \in Names : m # rename.from => dir'[m] = dir[m]
    BY <1>2, <1>3, <2>4 DEF SockTypes
  <2>6. \A x \in Daemons : Starting(x) => name[x] # rename.from /\ name[x] \in Names
    BY <1>1, <1>2, <2>1, NobodyElse DEF SockTypes
  <2>7. \A x \in Daemons : todo[x] \subseteq Names /\ rename.from \notin todo[x]
    BY <1>1, <1>2, <2>1, NobodyElse DEF SockTypes, TodoWhileCleaning
  <2>8. StaleIsDead'
    <3>1. SUFFICES ASSUME NEW x \in Daemons, does[x] \in {"restat", "unlink"}
                   PROVE  DeadSocket(dir[name[x]])'
      BY <1>1 DEF StaleIsDead
    <3>2. dir'[name'[x]] = dir[name[x]]
      BY <1>2, <2>5, <2>6, <3>1 DEF Starting
    <3>3. QED
      BY <1>1, <2>1, <3>1, <3>2 DEF SoloInv, StaleIsDead, DeadSocket
  <2>9. OwnName'
    <3>1. SUFFICES ASSUME NEW x \in Daemons, does[x] \in {"listen", "perm", "guard"}, NEW m \in Names
                   PROVE  dir'[m] = x <=> m = name[x]
      BY <1>1, <1>2 DEF OwnName
    <3>2. dir[m] = x <=> m = name[x]
      BY <2>1, <3>1 DEF SoloInv, OwnName
    <3>3. name[x] # rename.from
      BY <2>6, <3>1 DEF Starting
    <3>4. QED
      BY <1>5, <2>5, <3>2, <3>3
  <2>10. GuardsItself'
    BY <1>1, <2>1 DEF SoloInv, GuardsItself
  <2>11. Served'
    <3>1. SUFFICES ASSUME NEW x \in Daemons, does[x] \in {"build", "ready"}
                   PROVE  \E m \in Names : dir'[m] = x
      BY <1>1 DEF Served, Reachable
    <3>2. PICK m \in Names : dir[m] = x
      BY <2>1, <3>1 DEF SoloInv, Served, Reachable
    <3>3. CASE m # rename.from
      BY <2>5, <3>2, <3>3
    <3>4. CASE m = rename.from
      <4>1. dir'[rename.to] = x
        BY <1>3, <2>2, <2>5, <3>2, <3>4
      <4>2. QED
        BY <1>3, <4>1
    <3>5. QED
      BY <3>3, <3>4
  <2>12. CleansOwn'
    BY <1>1, <2>1, <2>5, <2>7 DEF SoloInv, CleansOwn
  <2>13. Linked'
    BY <2>4 DEF Linked
  <2>14. QED
    BY <2>1, <2>8, <2>9, <2>10, <2>11, <2>12, <2>13 DEF SoloInv
<1>11. QED
  BY <1>7, <1>8, <1>9, <1>10 DEF SockInv

\* The initial state satisfies the invariant.
LEMMA SockInitInv == SockInit => SockInv
<1> SUFFICES ASSUME SockInit PROVE SockInv
  OBVIOUS
<1>1. SockTypes
  <2>1. name \in [Daemons -> Names] /\ dir \in [Names -> Socket]
    BY SocketAssumption DEF SockInit, Socket
  <2>2. does \in [Daemons -> Places]
    BY DEF SockInit, Places, Early
  <2>3. rename \in [pc : {"idle", "done"}] /\ rename.pc = "idle"
    BY DEF SockInit
  <2>4. todo \in [Daemons -> SUBSET Names] /\ DOMAIN guard = Daemons
    BY DEF SockInit
  <2>5. QED
    BY <2>1, <2>2, <2>3, <2>4 DEF SockTypes
<1>2. \A d \in Daemons : does[d] = "off" /\ todo[d] = {}
  BY DEF SockInit
<1>3. \A n \in Names : dir[n] \notin Daemons
  BY SocketAssumption DEF SockInit
<1>4. BoundFirst /\ TodoWhileCleaning
  BY <1>2, <1>3 DEF BoundFirst, TodoWhileCleaning
<1>5. Alone
  <2>1. \A n \in Names : Claimants(n) = {}
    BY <1>2 DEF Claimants, Starting, SockInit
  <2>2. Cardinality({}) = 0
    BY FS_EmptySet
  <2>3. QED
    BY <2>1, <2>2 DEF Alone, Contended
<1>6. SoloInv
  BY <1>2, <1>5 DEF SoloInv, StaleIsDead, OwnName, GuardsItself, Served, CleansOwn, Linked, SockInit
<1>7. QED
  BY <1>1, <1>4, <1>6 DEF SockInv

\* Every step keeps it.
LEMMA SockStepInv == SockInv /\ [SockNext]_sockVars => SockInv'
<1> SUFFICES ASSUME SockInv, [SockNext]_sockVars PROVE SockInv'
  OBVIOUS
<1>1. CASE UNCHANGED sockVars
  <2>1. UNCHANGED <<name, dir, does, guard, todo, rename, raced>>
    BY <1>1 DEF sockVars
  <2>2. Contended' = Contended
    BY <2>1 DEF Contended, Claimants, Starting
  <2> HIDE DEF Places, Socket, Early
  <2>3. SoloInv' <=> SoloInv
    BY <2>1, <2>2 DEF SoloInv, Alone, StaleIsDead, OwnName, GuardsItself, Served, CleansOwn, Linked,
                      Reachable, DeadSocket
  <2>4. QED
    BY <2>1, <2>3 DEF SockInv, SockTypes, BoundFirst, TodoWhileCleaning
<1>2. CASE SockNext
  <2>1. Note
    BY <1>2 DEF SockNext
  <2>2. ASSUME NEW d \in Daemons, DaemonStep(d) PROVE SockInv'
    <3>1. CASE Stat(d) \/ Connect(d) \/ Restat(d) \/ Listen(d) \/ Permissions(d) \/ Build(d)
      BY <2>1, <3>1, WaysOfDaemon
    <3>2. CASE Unlink(d)
      BY <2>1, <3>2, UnlinkStep
    <3>3. CASE Bind(d)
      BY <2>1, <3>3, BindStep
    <3>4. CASE Guard(d)
      BY <2>1, <3>4, GuardStep
    <3>5. CASE Scan(d)
      BY <2>1, <3>5, ScanStep
    <3>6. CASE Clean(d)
      BY <2>1, <3>6, CleanStep
    <3>7. QED
      BY <2>2, <3>1, <3>2, <3>3, <3>4, <3>5, <3>6 DEF DaemonStep
  <2>3. ASSUME NEW d \in Daemons, Spawn(d) \/ End(d) PROVE SockInv'
    BY <2>1, <2>3, WaysOfDaemon
  <2>4. ASSUME NEW d \in Daemons, CrashDaemon(d) \/ Stop(d) PROVE SockInv'
    BY <2>1, <2>4, DeathStep
  <2>5. ASSUME NEW d \in Daemons, Probe(d) \/ ChildExited(d) \/ GiveUp(d) PROVE SockInv'
    BY <2>1, <2>5, WaiterStepInv
  <2>6. CASE RenameStart
    <3>1. /\ UNCHANGED <<dir, does, guard, todo>>
          /\ \E from, to \in Names : from # to /\ rename' = [pc |-> "link", from |-> from, to |-> to]
      BY <2>6 DEF RenameStart
    <3>2. QED
      BY <2>1, <3>1, AsideStep
  <2>7. CASE Link
    BY <2>1, <2>7, LinkStep
  <2>8. CASE RemoveOld \/ Undo
    BY <2>1, <2>8, UnlinkOldStep
  <2>9. QED
    BY <1>2, <2>2, <2>3, <2>4, <2>5, <2>6, <2>7, <2>8 DEF SockNext, WaiterStep
<1>3. QED
  BY <1>1, <1>2

\* Any number of daemons may start, crash, clean up and be renamed: as long as no
\* two of them work on one name at a time, a daemon that serves can be reached.
THEOREM ServedCanBeReached == Spec => []ReachableUnlessRaced
<1>1. Init => SockInv
  BY SockInitInv DEF Init
<1>2. [Next]_vars => [SockNext]_sockVars
  BY DEF Next, Protocols, vars
<1>3. SockInv /\ [Next]_vars => SockInv'
  BY <1>2, SockStepInv
<1>4. SockInv => ReachableUnlessRaced
  BY DEF SockInv, SoloInv, Served, ReachableUnlessRaced
<1>5. QED
  BY <1>1, <1>3, <1>4, PTL DEF Spec

=============================================================================
