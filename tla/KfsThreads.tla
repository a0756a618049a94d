----------------------------- MODULE KfsThreads -----------------------------
(***************************************************************************)
(* Threads and mutexes of src/rt/thread.c.  A MultiThreadEnvs keeps a list *)
(* of each; threadMutex protects both.  Every thread of the program, the   *)
(* ones created here included, may call any function of thread.h.          *)
(*                                                                         *)
(* Nothing in the repository uses these functions yet.  Of their callers   *)
(* this much is assumed: a thread or mutex is deleted by one call, and     *)
(* thread_env_delete is the last call of all, made by main when no other   *)
(* call is active.                                                         *)
(*                                                                         *)
(* joined is 0 from the start and only raised where it is positive, so     *)
(* that thread_thread_join never waits: it does nothing here.              *)
(***************************************************************************)
CONSTANTS
  Threads, Mutexes,  \* one name for each attempt to create one
  Main,              \* the thread that exists from the start
  Nobody             \* no thread, or no thread and no mutex

Objects == Threads \cup Mutexes
Procs == Threads \cup {Main}

ASSUME NamesAssumption ==
  Threads \cap Mutexes = {} /\ Main \notin Objects /\ Nobody \notin Objects \cup {Main}

VARIABLES
  struct,     \* object -> "none", "asked", "allocated", "freed", or "lost" (an
              \* error: never allocated, or never to be found again)
  options,    \* thread -> endingOptions
  listed,     \* the objects in threadList and mutexList
  lock,       \* who holds threadMutex
  at,         \* process -> where it is
  arg,        \* process -> the object of the call it is in
  cancelled,  \* threads that pthread_cancel was called for
  handles,    \* objects the program may still delete
  closing,    \* main is in thread_env_delete
  env         \* "alive" or "freed"

lists == <<struct, options, listed, handles>>
procs == <<at, arg, cancelled>>
vars == <<lists, lock, procs, closing, env>>

Goto(p, label) == at' = [at EXCEPT ![p] = label]
Arg(p, x) == arg' = [arg EXCEPT ![p] = x]
Set(x, state) == struct' = [struct EXCEPT ![x] = state]

\* In no call; the walk of thread_env_delete goes on after each of its own.
AtRest == {"unborn", "idle", "walk", "gone"}
Back(p) == Goto(p, IF closing THEN "walk" ELSE "idle") /\ Arg(p, Nobody)

\* The labels at which the code has locked threadMutex.
Inside == {"create", "link", "unlock", "delete", "unlock_free",
           "report_unlock", "report_return", "report_free"}

\* In the deletion of an object.
Deleting == {"delete_lock", "delete", "unlock_free", "report_free", "free"}

-----------------------------------------------------------------------------
(* What the program does                                                   *)

MayCall(p) == at[p] = "idle" /\ ~closing

BeginCreate(p) ==
  /\ MayCall(p)
  /\ \E x \in Objects : struct[x] = "none" /\ Set(x, "asked") /\ Arg(p, x)
  /\ Goto(p, "create_lock")
  /\ UNCHANGED <<options, listed, handles, lock, cancelled, closing, env>>

BeginDelete(p) ==
  /\ MayCall(p)
  /\ \E x \in handles : handles' = handles \ {x} /\ Arg(p, x)
  /\ Goto(p, "delete_lock")
  /\ UNCHANGED <<struct, options, listed, lock, cancelled, closing, env>>

\* thread_thread_cancel, called by itself: it needs no lock.
thread_thread_cancel(p) ==
  /\ MayCall(p)
  /\ \E t \in (Threads \cap handles) \ cancelled : cancelled' = cancelled \cup {t}
  /\ UNCHANGED <<lists, lock, at, arg, closing, env>>

\* The function of a thread returns.
Finish(t) ==
  /\ at[t] = "idle"
  /\ Goto(t, "gone")
  /\ UNCHANGED <<lists, lock, arg, cancelled, closing, env>>

\* A cancelled thread ends where it waits or prints: in its own code, but
\* also in a KFS_ERROR inside of the lock, which it then takes with it.
Die(t) ==
  /\ t \in cancelled
  /\ at[t] \in {"idle", "report_unlock", "report_return", "report_free"}
  /\ Goto(t, "gone")
  /\ UNCHANGED <<lists, lock, arg, cancelled, closing, env>>

-----------------------------------------------------------------------------
(* Inside of the functions                                                 *)

\* Mutation: the lock is not waited for.
Lock_Never(p) ==
  /\ \/ at[p] = "create_lock" /\ Goto(p, "create")
     \/ at[p] = "delete_lock" /\ Goto(p, "delete")
  /\ lock' = p
  /\ UNCHANGED <<lists, arg, cancelled, closing, env>>

Lock(p) ==
  /\ lock = Nobody
  /\ \/ at[p] = "create_lock" /\ Goto(p, "create")
     \/ at[p] = "delete_lock" /\ Goto(p, "delete")
  /\ lock' = p
  /\ UNCHANGED <<lists, arg, cancelled, closing, env>>

\* thread_thread_create_int up to pthread_create, which may fail, as malloc may
\* (pthread_attr_destroy does not).  The new thread runs before it is listed.
ThreadMake(p) ==
  /\ at[p] = "create" /\ arg[p] \in Threads
  /\ \/ \E ending \in SUBSET {"JOIN", "CANCEL"} :
          /\ options' = [options EXCEPT ![arg[p]] = ending]
          /\ Set(arg[p], "allocated")
          /\ at' = [at EXCEPT ![p] = "link", ![arg[p]] = "idle"]
     \/ Set(arg[p], "lost") /\ Goto(p, "report_unlock") /\ UNCHANGED options
  /\ UNCHANGED <<listed, handles, lock, arg, cancelled, closing, env>>

\* If malloc fails KFS_MALLOC2 returns at once, with the lock held.
MutexMake(p) ==
  /\ at[p] = "create" /\ arg[p] \in Mutexes
  /\ \/ Set(arg[p], "allocated") /\ Goto(p, "link")
     \/ Set(arg[p], "lost") /\ Goto(p, "report_unlock")    \* pthread_mutex_init
     \/ Set(arg[p], "lost") /\ Goto(p, "report_return")    \* malloc
  /\ UNCHANGED <<options, listed, handles, lock, arg, cancelled, closing, env>>

Link(p) ==
  /\ at[p] = "link"
  /\ listed' = listed \cup {arg[p]}
  /\ handles' = handles \cup {arg[p]}
  /\ Goto(p, "unlock")
  /\ UNCHANGED <<struct, options, lock, arg, cancelled, closing, env>>

Unlock(p) ==
  /\ at[p] \in {"unlock", "report_unlock"}
  /\ lock' = Nobody
  /\ Back(p)
  /\ UNCHANGED <<lists, cancelled, closing, env>>

ReturnLocked(p) ==
  /\ at[p] = "report_return"
  /\ Back(p)
  /\ UNCHANGED <<lists, lock, cancelled, closing, env>>

\* Mutations: a thread created with THREAD_ENDING_JOIN is really joined, with
\* the lock held; what is deleted stays in its list.
Unlink_Joining(p) ==
  /\ at[p] = "delete"
  /\ arg[p] \in Threads /\ "JOIN" \in options[arg[p]] => at[arg[p]] = "gone"
  /\ listed' = listed \ {arg[p]}
  /\ Goto(p, "unlock_free")
  /\ UNCHANGED <<struct, options, handles, lock, arg, cancelled, closing, env>>
Unlink_Missing(p) ==
  /\ at[p] = "delete"
  /\ Goto(p, "unlock_free")
  /\ UNCHANGED <<lists, lock, arg, cancelled, closing, env>>

\* list_del, the join that does nothing, and the cancellation, which may fail if
\* the thread has ended, and is reported.  resultData is still NULL.
Unlink(p) ==
  /\ at[p] = "delete"
  /\ listed' = listed \ {arg[p]}
  /\ LET cancel == arg[p] \in Threads /\ "CANCEL" \in options[arg[p]]
     IN  \/ /\ cancelled' = IF cancel THEN cancelled \cup {arg[p]} ELSE cancelled
            /\ Goto(p, "unlock_free")
         \/ /\ cancel /\ at[arg[p]] = "gone"
            /\ Goto(p, "report_free") /\ UNCHANGED cancelled
  /\ UNCHANGED <<struct, options, handles, lock, arg, closing, env>>

UnlockFree(p) ==
  /\ at[p] \in {"unlock_free", "report_free"}
  /\ lock' = Nobody
  /\ Goto(p, "free")
  /\ UNCHANGED <<lists, arg, cancelled, closing, env>>

Free(p) ==
  /\ at[p] = "free"
  /\ Set(arg[p], "freed")
  /\ Back(p)
  /\ UNCHANGED <<options, listed, handles, lock, cancelled, closing, env>>

-----------------------------------------------------------------------------
(* thread_env_delete                                                       *)

BeginEnvDelete ==
  /\ MayCall(Main)
  /\ \A t \in Threads : at[t] \in AtRest
  /\ closing' = TRUE
  /\ Goto(Main, "walk")
  /\ UNCHANGED <<lists, lock, arg, cancelled, env>>

\* Mutation: nothing to delete is deleted all the same.
Walk_PastEnd ==
  /\ at[Main] = "walk"
  /\ \E x \in listed \cup {Nobody} : handles' = handles \ {x} /\ Arg(Main, x)
  /\ Goto(Main, "delete_lock")
  /\ UNCHANGED <<struct, options, listed, lock, cancelled, closing, env>>

\* The threads first, then the mutexes; the lists are read without the lock.
Walk ==
  /\ at[Main] = "walk"
  /\ LET rest == IF listed \cap Threads # {} THEN listed \cap Threads ELSE listed
     IN  \E x \in rest : handles' = handles \ {x} /\ Arg(Main, x)
  /\ Goto(Main, "delete_lock")
  /\ UNCHANGED <<struct, options, listed, lock, cancelled, closing, env>>

\* Mutation: the loop over the mutexes is missing.
EndEnvDelete_ThreadsOnly ==
  /\ at[Main] = "walk"
  /\ listed \cap Threads = {}
  /\ env' = IF lock = Nobody THEN "freed" ELSE env
  /\ Goto(Main, "gone")
  /\ UNCHANGED <<lists, lock, arg, cancelled, closing>>

\* threadMutex cannot be destroyed while it is locked: then env is kept.
EndEnvDelete ==
  /\ at[Main] = "walk"
  /\ listed = {}
  /\ env' = IF lock = Nobody THEN "freed" ELSE env
  /\ Goto(Main, "gone")
  /\ UNCHANGED <<lists, lock, arg, cancelled, closing>>

-----------------------------------------------------------------------------

Init ==
  /\ struct = [x \in Objects |-> "none"]
  /\ options = [t \in Threads |-> {}]
  /\ listed = {} /\ handles = {} /\ cancelled = {}
  /\ lock = Nobody
  /\ at = [p \in Procs |-> IF p = Main THEN "idle" ELSE "unborn"]
  /\ arg = [p \in Procs |-> Nobody]
  /\ closing = FALSE /\ env = "alive"

\* What a call does once it has begun.
Call(p) ==
  \/ Lock(p) \/ ThreadMake(p) \/ MutexMake(p) \/ Link(p) \/ Unlock(p)
  \/ ReturnLocked(p) \/ Unlink(p) \/ UnlockFree(p) \/ Free(p)
  \/ p = Main /\ (Walk \/ EndEnvDelete)

\* What nobody has to do.
Choice(p) ==
  \/ BeginCreate(p) \/ BeginDelete(p) \/ thread_thread_cancel(p)
  \/ p \in Threads /\ (Finish(p) \/ Die(p))
  \/ p = Main /\ BeginEnvDelete

Next == \E p \in Procs : Call(p) \/ Choice(p)

Spec == Init /\ [][Next]_vars

\* Threads are scheduled, and whoever waits for threadMutex gets it in the
\* end, the number of calls being finite.  Nobody has to begin a call, and
\* no thread has to end.
FairSpec == Spec /\ \A p \in Procs : WF_vars(Call(p))

-----------------------------------------------------------------------------
(* Properties                                                              *)

\* Type invariant; a call has an object to work on, and nothing else has.
TypeOK ==
  /\ struct \in [Objects -> {"none", "asked", "allocated", "freed", "lost"}]
  /\ options \in [Threads -> SUBSET {"JOIN", "CANCEL"}]
  /\ listed \subseteq Objects /\ handles \subseteq Objects
  /\ lock \in Procs \cup {Nobody}
  /\ at \in [Procs -> AtRest \cup Inside \cup {"create_lock", "delete_lock", "free"}]
  /\ arg \in [Procs -> Objects \cup {Nobody}]
  /\ \A p \in Procs : at[p] \notin AtRest => arg[p] # Nobody
  /\ cancelled \subseteq Threads
  /\ closing \in BOOLEAN /\ env \in {"alive", "freed"}

\* What the code does under threadMutex is done by one thread at a time.
MutualExclusion == \A p \in Procs : at[p] \in Inside => lock = p

\* Between any steps of any calls: what is in a list has not been freed, is
\* a thread that was started if it is a thread, and whoever takes it out or
\* frees it is the only one to do so.
ListsSound ==
  /\ \A x \in listed : struct[x] = "allocated"
  /\ \A t \in listed \cap Threads : at[t] # "unborn"
  /\ \A p \in Procs :
       /\ at[p] \in {"delete_lock", "delete"} => arg[p] \in listed
       /\ at[p] \in {"unlock_free", "report_free", "free"} =>
            arg[p] \notin listed /\ struct[arg[p]] = "allocated"
       /\ \A q \in Procs \ {p} :
            at[p] \in Deleting /\ at[q] \in Deleting => arg[p] # arg[q]

\* When thread_env_delete has freed the environment everything that was ever
\* created in it is freed, by whichever call.
NothingLeft == env = "freed" => \A x \in Objects : struct[x] # "allocated"

\* threadMutex was left locked by a failed thread_mutex_create, or by a
\* cancelled thread.
Stuck ==
  /\ lock # Nobody /\ at[lock] \notin Inside
  /\ \/ \E m \in Mutexes : struct[m] = "lost"
     \/ lock \in cancelled /\ at[lock] = "gone"

\* No two calls wait for each other: each returns, unless the lock was left
\* behind in one of the two ways the code has for that.
CallsReturn ==
  \A p \in Procs : at[p] \notin AtRest ~> (at[p] \in AtRest \/ Stuck)

=============================================================================
