--------------------------- MODULE KfsTimerProofs ---------------------------
(***************************************************************************)
(* What KfsTimer states, proved for any number of timers: its invariants,  *)
(* and that it implements KfsTimerPromise.                                 *)
(***************************************************************************)
EXTENDS KfsTimer, TLAPS

\* The thread of a struct that is not in use has ended, and so has one that
\* timer_delete has joined.
Joined ==
  \A t \in Timers :
    /\ memory[t] # "allocated" => pc[t] \in {"none", "failed", "exited"}
    /\ deleting[t] = "free" => pc[t] \in {"failed", "exited"}

\* A late call is followed by a look at sysEnd before anything else.
LateThenOver ==
  \A t \in Timers :
    /\ late[t] \in {0, 1}
    /\ t \notin sysEnd \/ pc[t] \in {"sleep", "call_stop"} => late[t] = 0

IInv == TypeOK /\ Joined /\ LateThenOver

\* The program before its first timer.
LEMMA InitIInv == Init => IInv
BY DEF Init, IInv, TypeOK, Joined, LateThenOver

\* timer_create keeps the invariant.
LEMMA CreateKeepsIInv ==
  ASSUME IInv, NEW t \in Timers, timer_create(t)
  PROVE  IInv'
<1> USE DEF IInv, timer_create, Go
<1>1. TypeOK'
  BY DEF TypeOK
<1>2. Joined'
  BY DEF TypeOK, Joined, Idle
<1>3. LateThenOver'
  BY DEF TypeOK, LateThenOver
<1> QED
  BY <1>1, <1>2, <1>3

\* timer_delete keeps it: the struct is freed after the join.
LEMMA DeleteKeepsIInv ==
  ASSUME IInv, NEW t \in Timers, timer_delete(t)
  PROVE  IInv'
<1> USE DEF IInv, TypeOK, Joined, LateThenOver, Delete, At
<1>1. CASE DeleteTell(t)
  BY <1>1 DEF DeleteTell
<1>2. CASE DeleteJoin(t)
  BY <1>2 DEF DeleteJoin
<1>3. CASE DeleteFree(t)
  BY <1>3 DEF DeleteFree
<1> QED
  BY <1>1, <1>2, <1>3 DEF timer_delete

\* The timer's thread keeps it, and so does the arrival of the write.
LEMMA RunKeepsIInv ==
  ASSUME IInv, NEW t \in Timers, timer_run(t) \/ See(t)
  PROVE  IInv'
<1> USE DEF IInv, TypeOK, Joined, LateThenOver, At, Go
<1>1. CASE Wake(t)
  <2>1. late[t] = 0
    BY <1>1 DEF Wake
  <2>2. 0 + 1 = 1
    OBVIOUS
  <2>3. late' = late \/ (t \in sysEnd /\ late' = [late EXCEPT ![t] = 1])
    BY <1>1, <2>1, <2>2 DEF Wake
  <2>4. TypeOK'
    <3>1. late' \in [Timers -> Nat]
      BY <2>3
    <3>2. beat' \in [Timers -> BOOLEAN]
      BY <1>1 DEF Wake
    <3>3. pc' \in [Timers ->
            {"none", "failed", "sleep", "call_fn", "call_stop", "exited"}]
      BY <1>1 DEF Wake
    <3> QED
      BY <1>1, <3>1, <3>2, <3>3 DEF Wake
  <2>5. Joined'
    BY <1>1 DEF Wake
  <2>6. LateThenOver'
    BY <1>1, <2>1, <2>3 DEF Wake
  <2> QED
    BY <2>4, <2>5, <2>6
<1>2. CASE Check(t)
  <2>1. TypeOK'
    BY <1>2 DEF Check
  <2>2. Joined'
    BY <1>2 DEF Check
  <2>3. LateThenOver'
    BY <1>2 DEF Check
  <2> QED
    BY <2>1, <2>2, <2>3
<1>3. CASE Asked(t)
  BY <1>3 DEF Asked
<1>4. CASE See(t)
  BY <1>4 DEF See
<1> QED
  BY <1>1, <1>2, <1>3, <1>4 DEF timer_run

\* Every step of the program and of the timers keeps it.
LEMMA NextKeepsIInv == IInv /\ [Next]_vars => IInv'
<1> SUFFICES ASSUME IInv, [Next]_vars
             PROVE  IInv'
  OBVIOUS
<1>1. CASE UNCHANGED vars
  BY <1>1 DEF vars, IInv, TypeOK, Joined, LateThenOver
<1>2. CASE Crashed
  BY <1>1, <1>2 DEF Crashed
<1>3. ASSUME NEW t \in Timers, timer_create(t) \/ timer_delete(t) \/ timer_run(t) \/ See(t)
      PROVE  IInv'
  BY <1>3, CreateKeepsIInv, DeleteKeepsIInv, RunKeepsIInv
<1> QED
  BY <1>1, <1>2, <1>3 DEF Next

\* The inductive invariant holds in every state that timers can reach.
THEOREM TimerInvariance == Spec => []IInv
BY InitIInv, NextKeepsIInv, PTL DEF Spec

\* The structs and threads of timers are what they should be.
THEOREM TimerTypeCorrect == Spec => []TypeOK
<1>1. IInv => TypeOK
  BY DEF IInv
<1> QED
  BY <1>1, TimerInvariance, PTL

\* timer_delete never frees the struct under its thread.
THEOREM NeverUsedAfterFree == Spec => []NoUseAfterFree
<1>1. IInv => NoUseAfterFree
  BY DEF IInv, Joined, NoUseAfterFree
<1> QED
  BY <1>1, TimerInvariance, PTL

\* At most one call of call_fn follows the sight of sysEnd.
THEOREM AtMostOneLateCall == Spec => []OneLateCall
<1>1. \A n \in {0, 1} : n <= 1
  OBVIOUS
<1>2. IInv => OneLateCall
  BY <1>1 DEF IInv, LateThenOver, OneLateCall
<1> QED
  BY <1>2, TimerInvariance, PTL

-----------------------------------------------------------------------------
(* timer_delete comes nearer to its end                                    *)

\* What timer_delete waits for has a thread, or failed to get one, and was
\* told to end; and nothing else is deleted at the time.
Told ==
  \A t \in Timers :
    /\ memory[t] = "allocated" => pc[t] # "none"
    /\ deleting[t] = "join" => t \in sysEnd \cup unseen
    /\ \A u \in Timers \ {t} : deleting[t] # "no" => deleting[u] = "no"

\* The steps that a thread has left when it can see that it has to end.
Left(t) ==
  CASE pc[t] = "call_stop" -> 3
    [] pc[t] = "sleep" -> 2
    [] pc[t] = "call_fn" -> 1
    [] OTHER -> 0

\* While timer_delete waits, what ends its wait is never undone: the write
\* of sysEnd is on its way or has arrived; once it has, every step of the
\* thread is one of at most three.
Approaches(t) ==
  deleting[t] = "join" /\ deleting'[t] = "join" =>
    /\ t \in sysEnd => t \in sysEnd'
    /\ t \notin sysEnd => t \in unseen /\ t \in sysEnd' \cup unseen'
    /\ t \in sysEnd => pc'[t] = pc[t] \/ Left(t)' < Left(t)
NeverFartherOff == \A t \in Timers : Approaches(t)

\* While timer_delete waits there is a step to wait for: the write arrives,
\* the thread is where it can take a step, or the wait is over.
NeverInVain ==
  \A t \in Timers : deleting[t] = "join" =>
    /\ Alive
    /\ \/ t \in unseen
       \/ t \in sysEnd /\ pc[t] \in {"call_stop", "sleep", "call_fn"}
       \/ pc[t] \in {"exited", "failed"}

\* Every step keeps what is told, of all timers.
LEMMA NextKeepsTold == IInv /\ Told /\ [Next]_vars => Told'
<1> SUFFICES ASSUME IInv, Told, [Next]_vars
             PROVE  Told'
  OBVIOUS
<1>1. CASE UNCHANGED vars \/ Crashed
  BY <1>1 DEF Crashed, vars, Told
<1>2. ASSUME NEW t \in Timers, timer_create(t) \/ timer_delete(t) \/ timer_run(t) \/ See(t)
      PROVE  Told'
  <2> USE DEF IInv, TypeOK, Told, Idle, At, Go, Delete
  <2>1. CASE timer_create(t)
    BY <2>1 DEF timer_create
  <2>2. CASE DeleteTell(t)
    BY <2>2 DEF DeleteTell
  <2>3. CASE DeleteJoin(t)
    BY <2>3 DEF DeleteJoin
  <2>4. CASE DeleteFree(t)
    BY <2>4 DEF DeleteFree
  <2>5. CASE timer_run(t)
    BY <2>5 DEF timer_run, Wake, Check, Asked
  <2>6. CASE See(t)
    BY <2>6 DEF See
  <2> QED
    BY <1>2, <2>1, <2>2, <2>3, <2>4, <2>5, <2>6 DEF timer_delete
<1> QED
  BY <1>1, <1>2 DEF Next

\* What timer_delete waits for has been told to end in every state.
LEMMA ToldInvariance == Spec => []Told
<1>1. Init => Told
  BY DEF Init, Told
<1> QED
  BY <1>1, NextKeepsTold, TimerInvariance, PTL DEF Spec

\* A step about one timer undoes nothing that another waits for.
LEMMA OneApproaches ==
  ASSUME IInv, Told, NEW t \in Timers, NEW u \in Timers,
         timer_create(u) \/ timer_delete(u) \/ timer_run(u) \/ See(u)
  PROVE  Approaches(t)
<1> SUFFICES ASSUME deleting[t] = "join", deleting'[t] = "join"
             PROVE  /\ t \in sysEnd => t \in sysEnd'
                    /\ t \notin sysEnd => t \in unseen /\ t \in sysEnd' \cup unseen'
                    /\ t \in sysEnd => pc'[t] = pc[t] \/ Left(t)' < Left(t)
  BY DEF Approaches
<1> USE DEF IInv, TypeOK, Told, Idle, At, Go, Delete
<1>1. CASE timer_create(u)
  BY <1>1 DEF timer_create
<1>2. CASE DeleteTell(u)
  BY <1>2 DEF DeleteTell
<1>3. CASE DeleteJoin(u)
  BY <1>3 DEF DeleteJoin
<1>4. CASE DeleteFree(u)
  BY <1>4 DEF DeleteFree
<1>5. CASE Wake(u)
  BY <1>5 DEF Wake, Left
<1>6. CASE Check(u)
  BY <1>6 DEF Check, Left
<1>7. CASE Asked(u)
  BY <1>7 DEF Asked, Left
<1>8. CASE See(u)
  BY <1>8 DEF See
<1> QED
  BY <1>1, <1>2, <1>3, <1>4, <1>5, <1>6, <1>7, <1>8 DEF timer_delete, timer_run

\* No step of any timer or of the program delays a timer_delete that waits.
THEOREM DeletionApproaches == Spec => [][NeverFartherOff]_vars
<1>1. IInv /\ Told /\ [Next]_vars => [NeverFartherOff]_vars
  <2> SUFFICES ASSUME IInv, Told, Next, NEW t \in Timers
               PROVE  Approaches(t) \/ UNCHANGED vars
    BY DEF NeverFartherOff
  <2>1. CASE Crashed
    BY <2>1 DEF Crashed
  <2>2. ASSUME NEW u \in Timers, timer_create(u) \/ timer_delete(u) \/ timer_run(u) \/ See(u)
        PROVE  Approaches(t)
    BY <2>2, OneApproaches
  <2> QED
    BY <2>1, <2>2 DEF Next
<1> QED
  BY <1>1, ToldInvariance, TimerInvariance, PTL DEF Spec

\* timer_delete never waits for a thread that nothing will end.
THEOREM DeletionCanEnd == Spec => []NeverInVain
<1>1. IInv /\ Told => NeverInVain
  BY DEF IInv, TypeOK, Told, NeverInVain, Alive
<1> QED
  BY <1>1, ToldInvariance, TimerInvariance, PTL

-----------------------------------------------------------------------------
(* The timer implements its promise                                        *)

Modes == [t \in Timers |-> Mode(t)]

\* A step that leaves the other timers alone enters one mode at most.
LEMMA OneMode ==
  ASSUME NEW t \in Timers, \A u \in Timers \ {t} : Mode(u)' = Mode(u)
  PROVE  Modes' = [Modes EXCEPT ![t] = Mode(t)']
BY DEF Modes

\* What a step about one timer has to be to the promise.
Kept(t) ==
  \/ Mode(t)' = Mode(t) /\ UNCHANGED beat
  \/ Mode(t) = "off" /\ Mode(t)' \in {"on", "over"} /\ UNCHANGED beat
  \/ Mode(t) = "on" /\ Mode(t)' = "on" /\ beat' = [beat EXCEPT ![t] = ~@]
  \/ Mode(t) = "on" /\ Mode(t)' = "last" /\ UNCHANGED beat
  \/ Mode(t) = "last" /\ Mode(t)' = "over" /\ beat' = [beat EXCEPT ![t] = ~@]
  \/ Mode(t) \in {"on", "last"} /\ Mode(t)' = "over" /\ UNCHANGED beat
  \/ Mode(t) = "over" /\ Mode(t)' = "off" /\ UNCHANGED beat

\* Such a step is one of the promise.
LEMMA KeptIsPromised ==
  ASSUME NEW t \in Timers, \A u \in Timers \ {t} : Mode(u)' = Mode(u), Kept(t)
  PROVE  [Promise!Next]_(Promise!promise)
<1> DEFINE m == Mode(t)'
<1>1. Modes' = [Modes EXCEPT ![t] = m]
  BY OneMode
<1>2. Modes[t] = Mode(t)
  BY DEF Modes
<1>3. m = Mode(t) => Modes' = Modes
  BY <1>1, <1>2 DEF Modes
<1> HIDE DEF m
<1>4. CASE m = Mode(t) /\ UNCHANGED beat
  BY <1>3, <1>4 DEF Promise!promise, Modes
<1>5. CASE \/ Mode(t) = "off" /\ m \in {"on", "over"} /\ UNCHANGED beat
           \/ Mode(t) = "on" /\ m = "on" /\ beat' = [beat EXCEPT ![t] = ~@]
           \/ Mode(t) = "on" /\ m = "last" /\ UNCHANGED beat
           \/ Mode(t) = "last" /\ m = "over" /\ beat' = [beat EXCEPT ![t] = ~@]
           \/ Mode(t) \in {"on", "last"} /\ m = "over" /\ UNCHANGED beat
           \/ Mode(t) = "over" /\ m = "off" /\ UNCHANGED beat
  BY <1>1, <1>2, <1>3, <1>5
  DEF Modes, Promise!Next, Promise!Start, Promise!Call, Promise!Told, Promise!LastCall,
      Promise!End, Promise!Remove, Promise!Enter, Promise!Beat
<1> QED
  BY <1>4, <1>5 DEF Kept, m

\* What one timer does leaves the modes of the others alone.
LEMMA OthersKept ==
  ASSUME IInv, NEW t \in Timers, NEW u \in Timers \ {t},
         timer_create(t) \/ timer_delete(t) \/ timer_run(t) \/ See(t)
  PROVE  Mode(u)' = Mode(u)
<1>1. memory'[u] = memory[u] /\ pc'[u] = pc[u] /\ (u \in sysEnd' <=> u \in sysEnd)
  BY DEF IInv, TypeOK, timer_create, timer_delete, timer_run, Go, DeleteTell,
     DeleteJoin, DeleteFree, Wake, Check, Asked, See
<1> QED
  BY <1>1 DEF Mode, Silent

\* What one timer does is a step of its promise.
LEMMA EachStepKept ==
  ASSUME IInv, NEW t \in Timers,
         timer_create(t) \/ timer_delete(t) \/ timer_run(t) \/ See(t)
  PROVE  Kept(t)
<1> USE DEF IInv, TypeOK, Joined, LateThenOver, Kept, Mode, Silent
<1>1. CASE timer_create(t)
  BY <1>1 DEF timer_create, Go
<1>2. CASE DeleteTell(t) \/ DeleteJoin(t)
  BY <1>2 DEF DeleteTell, DeleteJoin
<1>3. CASE DeleteFree(t)
  BY <1>3 DEF DeleteFree
<1>4. CASE Wake(t)
  BY <1>4 DEF Wake, At, Go
<1>5. CASE Check(t)
  BY <1>5 DEF Check, At, Go
<1>6. CASE Asked(t)
  BY <1>6 DEF Asked, At, Go
<1>7. CASE See(t)
  BY <1>7 DEF See
<1> QED
  BY <1>1, <1>2, <1>3, <1>4, <1>5, <1>6, <1>7 DEF timer_delete, timer_run

\* A timer without a history has promised nothing yet.
LEMMA InitPromised == Init => Promise!Init
<1> SUFFICES ASSUME Init
             PROVE  Promise!Init
  OBVIOUS
<1>1. Modes = [t \in Timers |-> "off"]
  BY DEF Init, Modes, Mode
<1>2. beat \in [Timers -> BOOLEAN]
  BY DEF Init
<1> QED
  BY <1>1, <1>2 DEF Promise!Init, Modes

\* Every step is one of the promise, or none to it.
LEMMA StepPromised == IInv /\ [Next]_vars => [Promise!Next]_(Promise!promise)
<1> SUFFICES ASSUME IInv, [Next]_vars
             PROVE  [Promise!Next]_(Promise!promise)
  OBVIOUS
<1>1. CASE UNCHANGED vars \/ Crashed
  BY <1>1 DEF Crashed, vars, Promise!promise, Mode, Silent
<1>2. ASSUME NEW t \in Timers, timer_create(t) \/ timer_delete(t) \/ timer_run(t) \/ See(t)
      PROVE  [Promise!Next]_(Promise!promise)
  BY <1>2, OthersKept, EachStepKept, KeptIsPromised
<1> QED
  BY <1>1, <1>2 DEF Next

\* timer_create, timer_delete and timer_run together do what is promised.
THEOREM PromiseKept == Spec => KeepsPromise
<1>1. Spec => Promise!Spec
  BY InitPromised, StepPromised, TimerInvariance, PTL DEF Spec, Promise!Spec
<1> QED
  BY <1>1 DEF KeepsPromise

=============================================================================
