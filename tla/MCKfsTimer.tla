----------------------------- MODULE MCKfsTimer -----------------------------
(***************************************************************************)
(* Timers for TLC: with and without a call_stop.                           *)
(***************************************************************************)
EXTENDS KfsTimer

CONSTANTS asking, blind

MCTimers == {asking, blind}
MCAsking == {asking}

=============================================================================
