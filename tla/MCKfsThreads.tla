---------------------------- MODULE MCKfsThreads ----------------------------
(***************************************************************************)
(* KfsThreads for TLC, and what the code says of itself but does not do.   *)
(***************************************************************************)
EXTENDS KfsThreads

\* "if (thread->endingOptions & THREAD_ENDING_JOIN) thread_thread_join(thread)":
\* whoever deletes another thread with that option frees its struct only
\* after it has ended.
JoinedWhenDeleted ==
  \A p \in Procs : \A t \in Threads \ {p} :
    at[p] = "free" /\ arg[p] = t /\ "JOIN" \in options[t] => at[t] = "gone"

\* "thread_mutex_unlock(&mtEnv->threadMutex); return RET_CANNOT_INIT_MUTEX": a
\* call that fails gives the lock back before it returns.
FailureUnlocks == \A p \in Procs : at[p] = "idle" => lock # p

=============================================================================
