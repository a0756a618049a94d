------------------------------ MODULE KfsTimer ------------------------------
(***************************************************************************)
(* Timers of src/rt/thread.c: a thread for each, which sleeps and calls    *)
(* back, and the program's own thread, which creates and deletes them (as  *)
(* test/pg.c does).                                                        *)
(*                                                                         *)
(* sysEnd is written by one thread and read by the other without any       *)
(* synchronisation.  Between the two calls back around it the compiler has *)
(* to read it again, but when the other thread's write is seen is open: it *)
(* stays in "unseen" for any time.                                         *)
(***************************************************************************)
EXTENDS Integers

CONSTANTS
  Timers,
  Asking     \* those created with a call_stop

ASSUME AskingAssumption == Asking \subseteq Timers

VARIABLES
  memory,    \* timer -> "none", "allocated" or "freed": its struct
  sysEnd,    \* timers whose thread reads TRUE there
  unseen,    \* timers whose sysEnd is written but not yet seen
  pc,        \* timer -> where its thread is
  deleting,  \* timer -> where in timer_delete of it the program is
  beat,      \* timer -> flips with every call of call_fn
  late       \* timer -> calls of call_fn since the end could be seen

vars == <<memory, sysEnd, unseen, pc, deleting, beat, late>>

\* The program is in no function of a timer; the process has not crashed.
Idle == \A t \in Timers : deleting[t] = "no"
Alive == \A t \in Timers : deleting[t] # "crashed"

Delete(t, at) == deleting' = [deleting EXCEPT ![t] = at]
At(t, from) == pc[t] = from
Go(t, to) == pc' = [pc EXCEPT ![t] = to]

-----------------------------------------------------------------------------
(* The program                                                             *)

\* RET_OK is returned even if there is no thread (check_error2 only prints);
\* tid is then never set.  If malloc fails nothing happens.
timer_create(t) ==
  /\ Idle
  /\ memory[t] # "allocated"
  /\ memory' = [memory EXCEPT ![t] = "allocated"]
  /\ sysEnd' = sysEnd \ {t}
  /\ late' = [late EXCEPT ![t] = 0]
  /\ Go(t, "sleep") \/ Go(t, "failed")
  /\ UNCHANGED <<unseen, deleting, beat>>

\* Mutation: the thread is only waited for.
DeleteTell_Never(t) ==
  /\ Idle
  /\ memory[t] = "allocated"
  /\ Delete(t, "join")
  /\ UNCHANGED <<memory, sysEnd, unseen, pc, beat, late>>

DeleteTell(t) ==
  /\ Idle
  /\ memory[t] = "allocated"
  /\ unseen' = unseen \cup {t}
  /\ Delete(t, "join")
  /\ UNCHANGED <<memory, sysEnd, pc, beat, late>>

\* Mutation: the thread is not waited for.
DeleteJoin_Detached(t) ==
  /\ deleting[t] = "join"
  /\ Delete(t, "free")
  /\ UNCHANGED <<memory, sysEnd, unseen, pc, beat, late>>

\* With a tid that was never set, pthread_join reports an error or crashes.
DeleteJoin(t) ==
  /\ deleting[t] = "join"
  /\ \/ At(t, "exited") /\ Delete(t, "free")
     \/ At(t, "failed") /\ (Delete(t, "free") \/ Delete(t, "crashed"))
  /\ UNCHANGED <<memory, sysEnd, unseen, pc, beat, late>>

\* Mutation: the deletion goes on after the struct is freed.
DeleteFree_Again(t) ==
  /\ deleting[t] = "free"
  /\ memory' = [memory EXCEPT ![t] = "freed"]
  /\ UNCHANGED <<sysEnd, unseen, pc, deleting, beat, late>>

DeleteFree(t) ==
  /\ deleting[t] = "free"
  /\ memory' = [memory EXCEPT ![t] = "freed"]
  /\ unseen' = unseen \ {t}
  /\ Delete(t, "no")
  /\ UNCHANGED <<sysEnd, pc, beat, late>>

-----------------------------------------------------------------------------
(* The timer's thread                                                      *)

\* The sleep is over, call_fn starts.
Wake(t) ==
  /\ Alive
  /\ At(t, "sleep")
  /\ Go(t, "call_fn")
  /\ beat' = [beat EXCEPT ![t] = ~@]
  /\ late' = IF t \in sysEnd THEN [late EXCEPT ![t] = @ + 1] ELSE late
  /\ UNCHANGED <<memory, sysEnd, unseen, deleting>>

\* Mutation: the end is only looked at if there is no call_stop to ask.
Check_OnlyUnasked(t) ==
  /\ Alive
  /\ At(t, "call_fn")
  /\ \/ t \in Asking /\ Go(t, "call_stop")
     \/ t \notin Asking /\ Go(t, IF t \in sysEnd THEN "exited" ELSE "sleep")
  /\ UNCHANGED <<memory, sysEnd, unseen, deleting, beat, late>>

\* call_fn has returned, the end is looked at.
Check(t) ==
  /\ Alive
  /\ At(t, "call_fn")
  /\ \/ t \in sysEnd /\ Go(t, "exited")
     \/ t \notin sysEnd /\ t \in Asking /\ Go(t, "call_stop")
     \/ t \notin sysEnd /\ t \notin Asking /\ Go(t, "sleep")
  /\ UNCHANGED <<memory, sysEnd, unseen, deleting, beat, late>>

\* call_stop returns: not 0 ends the thread.
Asked(t) ==
  /\ Alive
  /\ At(t, "call_stop")
  /\ Go(t, "sleep") \/ Go(t, "exited")
  /\ UNCHANGED <<memory, sysEnd, unseen, deleting, beat, late>>

\* The write of sysEnd becomes visible to the timer's thread.
See(t) ==
  /\ Alive
  /\ t \in unseen
  /\ sysEnd' = sysEnd \cup {t}
  /\ unseen' = unseen \ {t}
  /\ UNCHANGED <<memory, pc, deleting, beat, late>>

Crashed == ~Alive /\ UNCHANGED vars

-----------------------------------------------------------------------------

Init ==
  /\ memory = [t \in Timers |-> "none"]
  /\ sysEnd = {}
  /\ unseen = {}
  /\ pc = [t \in Timers |-> "none"]
  /\ deleting = [t \in Timers |-> "no"]
  /\ beat = [t \in Timers |-> FALSE]
  /\ late = [t \in Timers |-> 0]

timer_delete(t) == DeleteTell(t) \/ DeleteJoin(t) \/ DeleteFree(t)
timer_run(t) == Wake(t) \/ Check(t) \/ Asked(t)

Next == \/ \E t \in Timers : timer_create(t) \/ timer_delete(t) \/ timer_run(t) \/ See(t)
        \/ Crashed

Spec == Init /\ [][Next]_vars

\* Threads are scheduled, callbacks return, writes are seen in the end.
\* Nobody has to create a timer, or to begin to delete it.
FairSpec ==
  /\ Spec
  /\ \A t \in Timers : /\ WF_vars(timer_run(t))
                       /\ WF_vars(See(t))
                       /\ WF_vars(DeleteJoin(t) \/ DeleteFree(t))

-----------------------------------------------------------------------------
(* Properties                                                              *)

\* Type invariant; what timer_delete works on has not been freed.
TypeOK ==
  /\ memory \in [Timers -> {"none", "allocated", "freed"}]
  /\ sysEnd \subseteq Timers /\ unseen \subseteq Timers
  /\ pc \in [Timers -> {"none", "failed", "sleep", "call_fn", "call_stop", "exited"}]
  /\ deleting \in [Timers -> {"no", "join", "free", "crashed"}]
  /\ \A t \in Timers : deleting[t] # "no" => memory[t] = "allocated"
  /\ beat \in [Timers -> BOOLEAN]
  /\ late \in [Timers -> Nat]

\* The thread of a timer, which reads the struct between any two calls back,
\* has ended before timer_delete frees the struct.
NoUseAfterFree ==
  \A t \in Timers :
    memory[t] # "allocated" => pc[t] \in {"none", "failed", "exited"}

\* However the call of timer_delete falls into the loop of timer_run, once
\* the thread can see it call_fn is called at most once more, although
\* sysEnd is only looked at after a call.
OneLateCall == \A t \in Timers : late[t] <= 1

\* timer_delete does not wait for ever, whether call_stop has ended the
\* thread before, never does, or was not given.
DeleteReturns ==
  \A t \in Timers : deleting[t] = "join" ~> deleting[t] # "join"

\* A timer as those it calls know it: it is over when its thread will not
\* call any more, although it may still run.
Silent(t) == pc[t] \in {"exited", "failed"} \/ (t \in sysEnd /\ pc[t] = "call_fn")
Mode(t) ==
  IF memory[t] # "allocated" THEN "off"
  ELSE IF Silent(t) THEN "over"
  ELSE IF t \in sysEnd THEN "last" ELSE "on"

Promise == INSTANCE KfsTimerPromise WITH mode <- [t \in Timers |-> Mode(t)]

\* The timer does what KfsTimerPromise says.
KeepsPromise == Promise!Spec

=============================================================================
