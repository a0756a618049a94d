-------------------------- MODULE KfsTimerPromise ---------------------------
(***************************************************************************)
(* What a timer of src/rt/thread.c promises to whom it calls: it may call  *)
(* as long as it is on; once it has been told to end it calls once more at *)
(* the most; and it can only be gone after that.  beat is what the callback *)
(* changes, so that a call can be seen.                                    *)
(***************************************************************************)
CONSTANT Timers

VARIABLES mode, beat

promise == <<mode, beat>>

Enter(t, m) == mode' = [mode EXCEPT ![t] = m]
Beat(t) == beat' = [beat EXCEPT ![t] = ~@]

Init ==
  /\ mode = [t \in Timers |-> "off"]
  /\ beat \in [Timers -> BOOLEAN]

\* It may turn out to be over before it began: no thread could be started.
Start(t) == mode[t] = "off" /\ \E m \in {"on", "over"} : Enter(t, m) /\ UNCHANGED beat

Call(t) == mode[t] = "on" /\ Beat(t) /\ UNCHANGED mode

Told(t) == mode[t] = "on" /\ Enter(t, "last") /\ UNCHANGED beat

LastCall(t) == mode[t] = "last" /\ Beat(t) /\ Enter(t, "over")

End(t) == mode[t] \in {"on", "last"} /\ Enter(t, "over") /\ UNCHANGED beat

Remove(t) == mode[t] = "over" /\ Enter(t, "off") /\ UNCHANGED beat

Next == \E t \in Timers :
          Start(t) \/ Call(t) \/ Told(t) \/ LastCall(t) \/ End(t) \/ Remove(t)

Spec == Init /\ [][Next]_promise

=============================================================================
