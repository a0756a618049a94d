-------------------------- MODULE KfsThreadsProofs --------------------------
(***************************************************************************)
(* The safety of KfsThreads, proved for any number of threads and mutexes. *)
(***************************************************************************)
EXTENDS KfsThreads, TLAPS

\* A call owns the object it works on.
Making == {"create_lock", "create"}
Working == Making \cup {"link"} \cup Deleting

\* A thread runs once its struct is made.
Births ==
  \A t \in Threads : at[t] = "unborn" <=> struct[t] \in {"none", "asked", "lost"}

\* How far an object is made.
Makings ==
  \A p \in Procs :
    /\ at[p] \in Making => struct[arg[p]] = "asked"
    /\ at[p] = "link" => struct[arg[p]] = "allocated" /\ arg[p] \notin listed

\* No two calls work on one object, and none on what may still be deleted.
Owners ==
  \A p, q \in Procs :
    p # q /\ at[p] \in Working /\ at[q] \in Working => arg[p] # arg[q]
Handles ==
  /\ handles \subseteq listed
  /\ \A p \in Procs : at[p] \in Deleting => arg[p] \notin handles

\* While main is in thread_env_delete nobody is in another call.
Closing ==
  /\ at[Main] # "unborn"
  /\ \A p \in Procs : at[p] = "walk" => p = Main /\ closing
  /\ closing => /\ at[Main] \in {"walk", "gone"} \cup Deleting
                /\ \A t \in Threads : at[t] \in AtRest

\* What is allocated is in a list, or is put there or taken from there, or a
\* thread that took it from there has ended with the lock.
Held(p) ==
  \/ at[p] \in {"link", "unlock_free", "report_free", "free"}
  \/ lock = p /\ at[p] = "gone"
Accounted ==
  \A x \in Objects : struct[x] = "allocated" =>
    x \in listed \/ \E p \in Procs : arg[p] = x /\ Held(p)

\* The environment is freed by the last step of thread_env_delete.
Closed ==
  env = "freed" => closing /\ at[Main] = "gone" /\ listed = {} /\ lock = Nobody

\* The inductive invariant.
IInv ==
  /\ TypeOK /\ MutualExclusion /\ ListsSound
  /\ Births /\ Makings /\ Owners /\ Handles /\ Closing /\ Accounted /\ Closed

\* The program before its first call.
LEMMA InitIInv == Init => IInv
<1> SUFFICES ASSUME Init PROVE IInv
  OBVIOUS
<1> USE NamesAssumption DEF Init, Procs, Objects
<1>1. TypeOK
  BY DEF TypeOK, AtRest
<1>2. ListsSound /\ MutualExclusion
  BY DEF ListsSound, MutualExclusion, Inside, Deleting
<1>3. Births /\ Makings /\ Owners /\ Handles
  BY DEF Births, Makings, Making, Owners, Working, Handles, Deleting
<1>4. Closing /\ Accounted /\ Closed
  BY DEF Closing, Accounted, Held, Closed, Deleting
<1> QED
  BY <1>1, <1>2, <1>3, <1>4 DEF IInv

\* An object that nobody has asked for yet is asked for.
LEMMA BeginCreateKeeps ==
  ASSUME IInv, NEW p \in Procs, BeginCreate(p)
  PROVE  IInv'
<1> USE NamesAssumption DEF BeginCreate, MayCall, Arg, Set, Goto, lists,
         IInv, Procs, Objects
<1>1. TypeOK'
  BY DEF TypeOK
<1>2. MutualExclusion'
  BY DEF MutualExclusion, Inside
<1>3. ListsSound' /\ Makings' /\ Owners' /\ Handles'
  BY DEF TypeOK, ListsSound, Makings, Owners, Handles, Deleting, Working
<1>4. Births' /\ Closing' /\ Accounted' /\ Closed'
  BY DEF Births, Closing, Accounted, Held, Closed
<1> QED
  BY <1>1, <1>2, <1>3, <1>4

\* An object that may still be deleted is taken by one call.
LEMMA BeginDeleteKeeps ==
  ASSUME IInv, NEW p \in Procs, BeginDelete(p)
  PROVE  IInv'
<1> USE NamesAssumption DEF BeginDelete, MayCall, Arg, Goto, lists, IInv,
         Procs, Objects
<1>1. TypeOK'
  BY DEF TypeOK
<1>2. MutualExclusion'
  BY DEF MutualExclusion, Inside
<1>3. ListsSound' /\ Makings' /\ Owners' /\ Handles'
  BY DEF TypeOK, ListsSound, Makings, Owners, Handles, Making, Working
<1>4. Births' /\ Closing' /\ Accounted' /\ Closed'
  BY DEF Births, Closing, Accounted, Held, Closed
<1> QED
  BY <1>1, <1>2, <1>3, <1>4

\* A cancellation is only noted.
LEMMA CancelKeeps ==
  ASSUME IInv, NEW p \in Procs, thread_thread_cancel(p)
  PROVE  IInv'
<1> USE NamesAssumption DEF thread_thread_cancel, MayCall, lists, IInv,
         Procs, Objects
<1>1. TypeOK'
  BY DEF TypeOK
<1>2. MutualExclusion'
  BY DEF MutualExclusion
<1>3. ListsSound' /\ Makings' /\ Owners' /\ Handles'
  BY DEF ListsSound, Makings, Owners, Handles
<1>4. Births' /\ Closing' /\ Accounted' /\ Closed'
  BY DEF Births, Closing, Accounted, Held, Closed
<1> QED
  BY <1>1, <1>2, <1>3, <1>4

\* A thread ends in its own code.
LEMMA FinishKeeps ==
  ASSUME IInv, NEW p \in Procs, p \in Threads, Finish(p)
  PROVE  IInv'
<1> USE NamesAssumption DEF Finish, Goto, lists, IInv, Procs, Objects
<1>1. TypeOK'
  BY DEF TypeOK, AtRest
<1>2. MutualExclusion'
  BY DEF MutualExclusion, Inside
<1>3. ListsSound' /\ Makings' /\ Owners' /\ Handles'
  BY DEF ListsSound, Makings, Owners, Handles, Deleting, Making, Working
<1>4. Births' /\ Closing' /\ Accounted' /\ Closed'
  BY DEF Births, Closing, Accounted, Held, Closed, AtRest
<1> QED
  BY <1>1, <1>2, <1>3, <1>4

\* A cancelled thread ends where it owns nothing, perhaps with the lock.
LEMMA DieKeeps ==
  ASSUME IInv, NEW p \in Procs, p \in Threads, Die(p)
  PROVE  IInv'
<1> USE NamesAssumption DEF Die, Goto, lists, IInv, Procs, Objects
<1>1. TypeOK'
  BY DEF TypeOK, AtRest
<1>2. MutualExclusion'
  BY DEF MutualExclusion, Inside
<1>3. ListsSound' /\ Makings' /\ Owners' /\ Handles'
  BY DEF ListsSound, Makings, Owners, Handles, Deleting, Making, Working
<1>4. Births' /\ Closing' /\ Accounted' /\ Closed'
  BY DEF MutualExclusion, Inside, Births, Closing, Accounted, Held, Closed, AtRest
<1> QED
  BY <1>1, <1>2, <1>3, <1>4

\* The lock is taken when nobody has it.
LEMMA LockKeeps ==
  ASSUME IInv, NEW p \in Procs, Lock(p)
  PROVE  IInv'
<1> USE NamesAssumption DEF Lock, Goto, lists, IInv, Procs, Objects
<1>1. TypeOK'
  BY DEF TypeOK, AtRest, Inside
<1>2. MutualExclusion'
  BY DEF TypeOK, MutualExclusion
<1>3. ListsSound' /\ Makings' /\ Owners' /\ Handles'
  BY DEF TypeOK, ListsSound, Makings, Owners, Handles, Deleting, Making,
         Working
<1>4. Births' /\ Closing' /\ Accounted' /\ Closed'
  BY DEF TypeOK, Births, Closing, Accounted, Held, Closed, AtRest, Deleting
<1> QED
  BY <1>1, <1>2, <1>3, <1>4

\* A thread is started, or the attempt fails.
LEMMA ThreadMakeKeeps ==
  ASSUME IInv, NEW p \in Procs, ThreadMake(p)
  PROVE  IInv'
<1> USE NamesAssumption DEF ThreadMake, Goto, Set, lists, IInv, Procs,
         Objects
<1>1. TypeOK'
  <2>1. struct' \in [Objects -> {"none", "asked", "allocated", "freed", "lost"}]
    BY DEF TypeOK
  <2>2. options' \in [Threads -> SUBSET {"JOIN", "CANCEL"}]
    <3>1. options' = options \/
          \E ending \in SUBSET {"JOIN", "CANCEL"} :
            options' = [options EXCEPT ![arg[p]] = ending]
      OBVIOUS
    <3>2. options \in [Threads -> SUBSET {"JOIN", "CANCEL"}]
      BY DEF TypeOK
    <3> HIDE DEF ThreadMake, IInv
    <3> QED
      BY <3>1, <3>2
  <2>3. at' \in [Procs -> AtRest \cup Inside \cup {"create_lock", "delete_lock", "free"}]
    BY DEF TypeOK, AtRest, Inside
  <2>4. \A q \in Procs : at'[q] \notin AtRest => arg'[q] # Nobody
    BY DEF TypeOK, AtRest
  <2> QED
    BY <2>1, <2>2, <2>3, <2>4 DEF TypeOK
<1>2. MutualExclusion'
  BY DEF TypeOK, MutualExclusion, Inside
<1>3. ListsSound' /\ Makings' /\ Owners' /\ Handles'
  BY DEF TypeOK, ListsSound, Makings, Owners, Handles, AtRest, Deleting,
         Making, Working
<1>4. Births' /\ Closing' /\ Accounted' /\ Closed'
  BY DEF TypeOK, Makings, Births, Closing, Accounted, Held, Closed, AtRest,
         Deleting, Making
<1> QED
  BY <1>1, <1>2, <1>3, <1>4

\* A mutex is made, or the attempt fails.
LEMMA MutexMakeKeeps ==
  ASSUME IInv, NEW p \in Procs, MutexMake(p)
  PROVE  IInv'
<1> USE NamesAssumption DEF MutexMake, Goto, Set, lists, IInv, Procs,
         Objects
<1>1. TypeOK'
  BY DEF TypeOK, Inside
<1>2. MutualExclusion'
  BY DEF TypeOK, MutualExclusion, AtRest
<1>3. ListsSound' /\ Makings' /\ Owners' /\ Handles'
  BY DEF TypeOK, ListsSound, Makings, Owners, Handles, AtRest, Making,
         Working
<1>4. Births' /\ Closing' /\ Accounted' /\ Closed'
  BY DEF TypeOK, Births, Closing, Accounted, Held, Closed, AtRest, Deleting
<1> QED
  BY <1>1, <1>2, <1>3, <1>4

\* What was made is put into its list.
LEMMA LinkKeeps ==
  ASSUME IInv, NEW p \in Procs, Link(p)
  PROVE  IInv'
<1> USE NamesAssumption DEF Link, Goto, lists, IInv, Procs, Objects
<1>1. TypeOK'
  BY DEF TypeOK, AtRest, Inside
<1>2. MutualExclusion'
  BY DEF MutualExclusion, Inside
<1>3. ListsSound' /\ Makings' /\ Owners' /\ Handles'
  BY DEF TypeOK, ListsSound, Makings, Owners, Handles, Births, Deleting,
         Making, Working
<1>4. Births' /\ Closing' /\ Accounted' /\ Closed'
  BY DEF Births, Closing, Accounted, Held, Closed, AtRest, Deleting
<1> QED
  BY <1>1, <1>2, <1>3, <1>4

\* The maker leaves, with its object in the list or lost.
LEMMA UnlockKeeps ==
  ASSUME IInv, NEW p \in Procs, Unlock(p)
  PROVE  IInv'
<1> USE NamesAssumption DEF Unlock, Back, Goto, Arg, lists, IInv, Procs,
         Objects
<1>1. TypeOK'
  BY DEF TypeOK, AtRest
<1>2. MutualExclusion'
  BY DEF TypeOK, MutualExclusion, Inside
<1>3. ListsSound' /\ Makings' /\ Owners' /\ Handles'
  BY DEF ListsSound, Makings, Owners, Handles, Deleting, Making, Working
<1>4. Births' /\ Closing' /\ Accounted' /\ Closed'
  BY DEF MutualExclusion, Inside, Births, Closing, Accounted, Held, Closed, AtRest
<1> QED
  BY <1>1, <1>2, <1>3, <1>4

\* A call that failed leaves with the lock.
LEMMA ReturnLockedKeeps ==
  ASSUME IInv, NEW p \in Procs, ReturnLocked(p)
  PROVE  IInv'
<1> USE NamesAssumption DEF ReturnLocked, Back, Goto, Arg, lists, IInv,
         Procs, Objects
<1>1. TypeOK'
  BY DEF TypeOK, AtRest
<1>2. MutualExclusion'
  BY DEF MutualExclusion, Inside
<1>3. ListsSound' /\ Makings' /\ Owners' /\ Handles'
  BY DEF ListsSound, Makings, Owners, Handles, Deleting, Making, Working
<1>4. Births' /\ Closing' /\ Accounted' /\ Closed'
  BY DEF Births, Closing, Accounted, Held, Closed, AtRest
<1> QED
  BY <1>1, <1>2, <1>3, <1>4

\* What is deleted leaves its list.
LEMMA UnlinkKeeps ==
  ASSUME IInv, NEW p \in Procs, Unlink(p)
  PROVE  IInv'
<1> USE NamesAssumption DEF Unlink, Goto, lists, IInv, Procs, Objects
<1>1. TypeOK'
  BY DEF TypeOK, AtRest, Inside
<1>2. MutualExclusion'
  BY DEF TypeOK, MutualExclusion, Inside
<1>3. ListsSound' /\ Makings' /\ Owners' /\ Handles'
  BY DEF TypeOK, ListsSound, Makings, Owners, Handles, Deleting, Making,
         Working
<1>4. Births' /\ Closing' /\ Accounted' /\ Closed'
  BY DEF TypeOK, Births, Closing, Accounted, Held, Closed, AtRest, Deleting
<1> QED
  BY <1>1, <1>2, <1>3, <1>4

\* The lock is given back before the struct is freed.
LEMMA UnlockFreeKeeps ==
  ASSUME IInv, NEW p \in Procs, UnlockFree(p)
  PROVE  IInv'
<1> USE NamesAssumption DEF UnlockFree, Goto, lists, IInv, Procs, Objects
<1>1. TypeOK'
  BY DEF TypeOK, AtRest
<1>2. MutualExclusion'
  BY DEF TypeOK, MutualExclusion, Inside
<1>3. ListsSound' /\ Makings' /\ Owners' /\ Handles'
  BY DEF ListsSound, Makings, Owners, Handles, Deleting, Making, Working
<1>4. Births' /\ Closing' /\ Accounted' /\ Closed'
  BY DEF MutualExclusion, Inside, Births, Closing, Accounted, Held, Closed, AtRest, Deleting
<1> QED
  BY <1>1, <1>2, <1>3, <1>4

\* The struct is freed by the call that owns it.
LEMMA FreeKeeps ==
  ASSUME IInv, NEW p \in Procs, Free(p)
  PROVE  IInv'
<1> USE NamesAssumption DEF Free, Back, Goto, Arg, Set, lists, IInv, Procs,
         Objects
<1>1. TypeOK'
  BY DEF TypeOK, AtRest
<1>2. MutualExclusion'
  BY DEF MutualExclusion, Inside
<1>3. ListsSound' /\ Makings' /\ Owners' /\ Handles'
  BY DEF TypeOK, ListsSound, Makings, Owners, Handles, Deleting, Making,
         Working
<1>4. Births' /\ Closing' /\ Accounted' /\ Closed'
  BY DEF TypeOK, ListsSound, Births, Closing, Accounted, Held, Closed, AtRest
<1> QED
  BY <1>1, <1>2, <1>3, <1>4

\* thread_env_delete begins when nobody is in a call.
LEMMA BeginEnvDeleteKeeps ==
  ASSUME IInv, BeginEnvDelete
  PROVE  IInv'
<1> USE NamesAssumption DEF BeginEnvDelete, MayCall, Goto, lists, IInv,
         Procs, Objects
<1>1. TypeOK'
  BY DEF TypeOK, AtRest
<1>2. MutualExclusion'
  BY DEF MutualExclusion, Inside
<1>3. ListsSound' /\ Makings' /\ Owners' /\ Handles'
  BY DEF ListsSound, Makings, Owners, Handles, Deleting, Making, Working
<1>4. Births' /\ Closing' /\ Accounted' /\ Closed'
  BY DEF TypeOK, Births, Closing, Accounted, Held, Closed
<1> QED
  BY <1>1, <1>2, <1>3, <1>4

\* thread_env_delete takes what it finds in the lists.
LEMMA WalkKeeps ==
  ASSUME IInv, Walk
  PROVE  IInv'
<1> USE NamesAssumption DEF Walk, Goto, Arg, lists, IInv, Procs, Objects
<1>1. TypeOK'
  BY DEF TypeOK
<1>2. MutualExclusion'
  BY DEF MutualExclusion, Inside
<1>3. ListsSound' /\ Makings' /\ Owners' /\ Handles'
  BY DEF TypeOK, ListsSound, Makings, Owners, Handles, Closing, AtRest,
         Deleting, Making, Working
<1>4. Births' /\ Closing' /\ Accounted' /\ Closed'
  BY DEF Births, Closing, Accounted, Held, Closed, Deleting
<1> QED
  BY <1>1, <1>2, <1>3, <1>4

\* thread_env_delete ends with empty lists.
LEMMA EndEnvDeleteKeeps ==
  ASSUME IInv, EndEnvDelete
  PROVE  IInv'
<1> USE NamesAssumption DEF EndEnvDelete, Goto, lists, IInv, Procs, Objects
<1>1. TypeOK'
  BY DEF TypeOK, AtRest
<1>2. MutualExclusion'
  BY DEF MutualExclusion, Inside
<1>3. ListsSound' /\ Makings' /\ Owners' /\ Handles'
  BY DEF ListsSound, Makings, Owners, Handles, Deleting, Making, Working
<1>4. Births' /\ Closing' /\ Accounted' /\ Closed'
  BY DEF TypeOK, Births, Closing, Accounted, Held, Closed
<1> QED
  BY <1>1, <1>2, <1>3, <1>4

\* What a call does once it has begun keeps the invariant.
LEMMA CallKeeps ==
  ASSUME IInv, NEW p \in Procs, Call(p)
  PROVE  IInv'
BY LockKeeps, ThreadMakeKeeps, MutexMakeKeeps, LinkKeeps, UnlockKeeps,
   ReturnLockedKeeps, UnlinkKeeps, UnlockFreeKeeps, FreeKeeps, WalkKeeps,
   EndEnvDeleteKeeps DEF Call

\* So does what the program and the scheduler may choose.
LEMMA ChoiceKeeps ==
  ASSUME IInv, NEW p \in Procs, Choice(p)
  PROVE  IInv'
BY BeginCreateKeeps, BeginDeleteKeeps, CancelKeeps, FinishKeeps, DieKeeps,
   BeginEnvDeleteKeeps DEF Choice

\* Every step keeps it.
LEMMA NextKeepsIInv == IInv /\ [Next]_vars => IInv'
<1> SUFFICES ASSUME IInv, [Next]_vars PROVE IInv'
  OBVIOUS
<1>1. CASE UNCHANGED vars
  BY <1>1 DEF vars, lists, procs, IInv, TypeOK, MutualExclusion, ListsSound,
              Births, Makings, Owners, Handles, Closing, Accounted, Held, Closed
<1>2. CASE Next
  BY <1>2, CallKeeps, ChoiceKeeps DEF Next
<1> QED
  BY <1>1, <1>2

\* The invariant holds in every state of every program that uses threads.
THEOREM ThreadsInvariance == Spec => []IInv
BY InitIInv, NextKeepsIInv, PTL DEF Spec

\* Calls have objects, and the rest of the type invariant.
THEOREM ThreadsTypeCorrect == Spec => []TypeOK
<1>1. IInv => TypeOK
  BY DEF IInv
<1> QED
  BY <1>1, ThreadsInvariance, PTL

\* What is done under threadMutex is done by one thread at a time, although
\* calls leave it locked and threads end with it.
THEOREM OneInside == Spec => []MutualExclusion
<1>1. IInv => MutualExclusion
  BY DEF IInv
<1> QED
  BY <1>1, ThreadsInvariance, PTL

\* The lists hold live objects only, and each is taken out and freed once.
THEOREM ListsAreSound == Spec => []ListsSound
<1>1. IInv => ListsSound
  BY DEF IInv
<1> QED
  BY <1>1, ThreadsInvariance, PTL

\* thread_env_delete frees all that is left, or keeps the environment.
THEOREM NothingIsLeft == Spec => []NothingLeft
<1>1. IInv => NothingLeft
  <2> SUFFICES ASSUME IInv, env = "freed", NEW x \in Objects,
                      struct[x] = "allocated"
               PROVE  FALSE
    BY DEF NothingLeft
  <2>1. PICK p \in Procs : arg[p] = x /\ Held(p)
    BY DEF IInv, Accounted, Closed
  <2>2. at[p] \in AtRest
    BY DEF IInv, Closing, Closed, Procs, AtRest
  <2>3. lock # p
    BY NamesAssumption DEF IInv, Closed, Procs, Objects
  <2> QED
    BY <2>1, <2>2, <2>3 DEF Held, AtRest
<1> QED
  BY <1>1, ThreadsInvariance, PTL

-----------------------------------------------------------------------------
(* No two calls wait for each other                                        *)

\* A lock that is held by nobody inside of the functions was left behind in
\* one of the two ways the code has for that; and a call that returns with
\* it has failed to make a mutex.
LockLeft ==
  /\ lock # Nobody /\ at[lock] \notin Inside => Stuck
  /\ \A p \in Procs :
       at[p] = "report_return" => arg[p] \in Mutexes /\ struct[arg[p]] = "lost"

\* What Call(p) waits for: nothing but the lock.
GoesOn(p) ==
  \/ at[p] \in Inside \cup {"free", "walk"}
  \/ at[p] \in {"create_lock", "delete_lock"} /\ lock = Nobody

\* Whoever is in a call goes on, or waits for one who does; or the lock was
\* left behind.  (CallsReturn without the fairness of the scheduler.)
NoDeadlock ==
  \A p \in Procs : at[p] \notin AtRest => Stuck \/ \E q \in Procs : GoesOn(q)

\* What a call does once it has begun keeps LockLeft.
LEMMA CallKeepsLockLeft ==
  ASSUME IInv, LockLeft, NEW p \in Procs, Call(p)
  PROVE  LockLeft'
<1> USE NamesAssumption DEF IInv, TypeOK, LockLeft, Stuck, Procs, Objects, lists
<1>1. CASE Lock(p)
  BY <1>1 DEF Lock, Goto, Inside
<1>2. CASE ThreadMake(p)
  <2>1. at[arg[p]] = "unborn" /\ lock = p
    BY <1>2 DEF ThreadMake, Makings, Making, Births, MutualExclusion, Inside
  <2> QED
    BY <1>2, <2>1 DEF ThreadMake, Goto, Set, Inside, Makings, Making
<1>3. CASE MutexMake(p)
  <2>1. lock = p
    BY <1>3 DEF MutexMake, MutualExclusion, Inside
  <2> QED
    BY <1>3, <2>1 DEF MutexMake, Goto, Set, Inside, Makings, Making, AtRest
<1>4. CASE Link(p)
  BY <1>4 DEF Link, Goto, Inside
<1>5. CASE Unlock(p)
  BY <1>5 DEF Unlock, Back, Goto, Arg
<1>6. CASE ReturnLocked(p)
  <2>1. \E m \in Mutexes : struct[m] = "lost"
    BY <1>6 DEF ReturnLocked
  <2> QED
    BY <1>6, <2>1 DEF ReturnLocked, Back, Goto, Arg, Inside
<1>7. CASE Unlink(p)
  BY <1>7 DEF Unlink, Goto, Inside
<1>8. CASE UnlockFree(p)
  BY <1>8 DEF UnlockFree, Goto
<1>9. CASE Free(p)
  BY <1>9 DEF Free, Back, Goto, Arg, Set, Inside, ListsSound
<1>10. CASE p = Main /\ Walk
  BY <1>10 DEF Walk, Goto, Arg, Inside
<1>11. CASE p = Main /\ EndEnvDelete
  BY <1>11 DEF EndEnvDelete, Goto, Inside
<1> QED
  BY <1>1, <1>2, <1>3, <1>4, <1>5, <1>6, <1>7, <1>8, <1>9, <1>10, <1>11 DEF Call

\* So does what the program and the scheduler may choose: a thread that ends
\* inside of the functions was cancelled.
LEMMA ChoiceKeepsLockLeft ==
  ASSUME IInv, LockLeft, NEW p \in Procs, Choice(p)
  PROVE  LockLeft'
<1> USE NamesAssumption DEF IInv, TypeOK, LockLeft, Stuck, Procs, Objects, lists, Inside
<1>1. CASE BeginCreate(p)
  BY <1>1 DEF BeginCreate, MayCall, Goto, Arg, Set
<1>2. CASE BeginDelete(p)
  BY <1>2 DEF BeginDelete, MayCall, Goto, Arg
<1>3. CASE thread_thread_cancel(p)
  BY <1>3 DEF thread_thread_cancel
<1>4. CASE p \in Threads /\ Finish(p)
  BY <1>4 DEF Finish, Goto
<1>5. CASE p \in Threads /\ Die(p)
  BY <1>5 DEF Die, Goto
<1>6. CASE p = Main /\ BeginEnvDelete
  BY <1>6 DEF BeginEnvDelete, MayCall, Goto
<1> QED
  BY <1>1, <1>2, <1>3, <1>4, <1>5, <1>6 DEF Choice

\* The lock is only ever left behind in these ways.
LEMMA LockLeftInvariance == Spec => []LockLeft
<1>1. Init => LockLeft
  BY NamesAssumption DEF Init, LockLeft, Procs
<1>2. IInv /\ LockLeft /\ [Next]_vars => LockLeft'
  <2> SUFFICES ASSUME IInv, LockLeft, [Next]_vars PROVE LockLeft'
    OBVIOUS
  <2>1. CASE UNCHANGED vars
    BY <2>1 DEF vars, lists, procs, LockLeft, Stuck
  <2>2. CASE Next
    BY <2>2, CallKeepsLockLeft, ChoiceKeepsLockLeft DEF Next
  <2> QED
    BY <2>1, <2>2
<1> QED
  BY <1>1, <1>2, ThreadsInvariance, PTL DEF Spec

\* Calls never wait for each other in a circle, and never for a thread that
\* has ended: as long as the lock was not left behind, one that is in a call
\* can go on, however many there are.
THEOREM CallsNeverDeadlock == Spec => []NoDeadlock
<1>1. IInv /\ LockLeft => NoDeadlock
  <2> SUFFICES ASSUME IInv, LockLeft, NEW p \in Procs, at[p] \notin AtRest
               PROVE  Stuck \/ \E q \in Procs : GoesOn(q)
    BY DEF NoDeadlock
  <2>1. CASE lock = Nobody
    BY <2>1 DEF IInv, TypeOK, GoesOn
  <2>2. CASE lock # Nobody
    BY <2>2 DEF IInv, TypeOK, LockLeft, GoesOn
  <2> QED
    BY <2>1, <2>2
<1> QED
  BY <1>1, LockLeftInvariance, ThreadsInvariance, PTL

=============================================================================
