---------------------------- MODULE GuardProofs -----------------------------
(***************************************************************************)
(* Proofs about Guards for any threads and processes and every kind of     *)
(* guard.  Steps on the mutex are steps of Mutex, so MutexStep carries its *)
(* invariant over; the rest relates the position of a thread in its scope  *)
(* to the mutex, to the scope record and to what was left behind.          *)
(***************************************************************************)
EXTENDS Guards, TLAPS

(***************************************************************************)
(* The mutex, for any set of threads, recursive or not.                    *)
(***************************************************************************)

(* The inductive invariant: CountMatchesHolder, its converse for an owner  *)
(* that still executes, and the agreement of the three metadata fields.    *)
MutexInv ==
    /\ TypeOK
    /\ CountMatchesHolder
    /\ \A t \in Tasks : Executing(t) /\ owner = t => held[t] = rcc
    /\ state = "LOCKED" <=> owner # NULL
    /\ state = "LOCKED" <=> rcc # 0

(* Initially nobody holds the mutex. *)
LEMMA MutexInitial == Init => MutexInv
BY MutexAssumption
   DEF Init, LifecycleInit, MutexInit, MutexInv, TypeOK, Phases, CountMatchesHolder, Executing

(* The step shared by mutex_lock, mutex_trylock and mutex_lock_recoverable *)
(* keeps the metadata and the callers' counts in agreement.                *)
LEMMA AcquirePreserves ==
    ASSUME MutexInv, NEW t \in Tasks, Executing(t), Acquire(t), UNCHANGED <<phase, rec>>,
           recovered' \in [Tasks -> BOOLEAN]
    PROVE  MutexInv'
<1> USE MutexAssumption DEF MutexInv, TypeOK, CountMatchesHolder, Executing, Goto
<1>1. CASE UNCHANGED <<mutexVars, held>> /\ Goto(t, "ready")
  BY <1>1, Zenon DEF mutexVars
<1>2. CASE /\ state # "DESTROYED" /\ owner = t /\ rec
           /\ rcc' = rcc + 1
           /\ UNCHANGED <<state, owner>>
           /\ Granted(t)
  BY <1>2 DEF Granted
<1>3. CASE /\ state = "UNLOCKED" /\ owner # t
           /\ state' = "LOCKED"
           /\ owner' = t
           /\ rcc' = 1
           /\ Granted(t)
  <2>1. held[t] = 0
    BY <1>3
  <2> QED
    BY <1>3, <2>1 DEF Granted
<1> QED
  BY <1>1, <1>2, <1>3, Zenon DEF Acquire, Refused

(* Every step of Next preserves the inductive invariant. *)
LEMMA MutexStep == MutexInv /\ [Next]_vars => MutexInv'
<1> SUFFICES ASSUME MutexInv, [Next]_vars PROVE MutexInv'
  BY Zenon
<1> USE MutexAssumption DEF MutexInv, TypeOK, CountMatchesHolder, Executing
<1>1. ASSUME NEW t \in Tasks, Run(t) PROVE MutexInv'
  <2>1. CASE Acquire(t) /\ recovered' \in [Tasks -> BOOLEAN]
    BY <1>1, <2>1, AcquirePreserves, Zenon DEF Run
  <2>2. CASE UNCHANGED <<mutexVars, held>> /\ recovered' \in [Tasks -> BOOLEAN]
             /\ (Goto(t, "lock") \/ Goto(t, "steal") \/ Goto(t, "try"))
    BY <1>1, <2>2, Zenon DEF Run, Goto, mutexVars
  <2>3. CASE lock_recoverable_steal(t)
    <3>1. CASE state = "LOCKED" /\ OwnerHasStopped
      <4>1. \A u \in Tasks : Executing(u) => held[u] = 0
        BY <3>1 DEF OwnerHasStopped
      <4>2. /\ owner' = t /\ rcc' = 1 /\ state' = "LOCKED" /\ phase' = phase /\ rec' = rec
            /\ held' = [held EXCEPT ![t] = 1]
            /\ pc' = [pc EXCEPT ![t] = "ready"]
            /\ recovered' = [recovered EXCEPT ![t] = TRUE]
        BY <1>1, <2>3, <3>1, <4>1 DEF lock_recoverable_steal, Granted, Goto, Run
      <4> QED
        BY <4>1, <4>2
    <3>2. CASE ~(state = "LOCKED" /\ OwnerHasStopped)
      BY <2>2, <2>3, <3>2, Zenon DEF lock_recoverable_steal
    <3> QED
      BY <3>1, <3>2, Zenon
  <2>4. CASE mutex_unlock(t)
    BY <1>1, <2>4 DEF mutex_unlock, Run
  <2>5. CASE mutex_destroy(t)
    BY <1>1, <2>5, Zenon DEF mutex_destroy, callerVars, Run
  <2>6. CASE mutex_lock(t)
    BY <2>1, <2>2, <2>6, Zenon DEF mutex_lock
  <2>7. CASE mutex_trylock(t)
    BY <2>1, <2>7, Zenon DEF mutex_trylock
  <2>8. CASE lock_recoverable_try(t)
    BY <2>1, <2>2, <2>8, Zenon DEF lock_recoverable_try
  <2> QED
    BY <1>1, <2>3, <2>4, <2>5, <2>6, <2>7, <2>8, Zenon DEF Run
<1>2. ASSUME NEW t \in Tasks, Die(t) PROVE MutexInv'
  BY <1>2, Zenon DEF Die, Kill, Stop, mutexVars, callerVars, Phases
<1>3. ASSUME NEW members \in SUBSET Tasks, AbortHook(members) PROVE MutexInv'
  BY <1>3 DEF AbortHook, mutex_abort_for_process, AbortReleases, OwnerHasStopped,
              mutexVars, callerVars
<1>4. CASE UNCHANGED vars
  BY <1>4, Zenon DEF vars
<1> QED
  BY <1>1, <1>2, <1>3, <1>4, Zenon DEF Next

(* The metadata always agrees with what the callers believe they hold. *)
THEOREM MutexInvariant == Spec => []MutexInv
BY MutexInitial, MutexStep, PTL DEF Spec

(* Two threads that still execute never both hold the mutex, for any       *)
(* number of threads, kills and recoveries.                                *)
THEOREM MutexSafe == Spec => []MutualExclusion
<1>1. MutexInv => MutualExclusion
  BY Zenon DEF MutexInv, CountMatchesHolder, MutualExclusion
<1> QED
  BY <1>1, MutexInvariant, PTL

(* A step that takes the mutex from a thread is its own unlock, or finds   *)
(* it stopped.                                                             *)
LEMMA OwnershipStep ==
    ASSUME MutexInv, Next, NEW t \in Tasks, owner = t, owner' # t
    PROVE  phase[t] = "stopped" \/ held'[t] = 0
<1> USE MutexAssumption DEF MutexInv, TypeOK, CountMatchesHolder, Executing
<1>1. ASSUME NEW u \in Tasks, Run(u) PROVE phase[t] = "stopped" \/ held'[t] = 0
  <2>1. ~Acquire(u)
    BY Zenon DEF Acquire, Refused, mutexVars
  <2>2. CASE lock_recoverable_steal(u)
    BY <2>2, Zenon DEF lock_recoverable_steal, OwnerHasStopped, mutexVars
  <2>3. CASE mutex_unlock(u)
    BY <1>1, <2>3 DEF mutex_unlock, Run
  <2>4. CASE mutex_destroy(u)
    BY <2>4, Zenon DEF mutex_destroy
  <2> QED
    BY <1>1, <2>1, <2>2, <2>3, <2>4, Zenon
       DEF Run, mutex_lock, mutex_trylock, lock_recoverable_try, mutexVars
<1>2. ASSUME NEW u \in Tasks, Die(u) PROVE FALSE
  BY <1>2, Zenon DEF Die, mutexVars
<1>3. ASSUME NEW members \in SUBSET Tasks, AbortHook(members) PROVE phase[t] = "stopped"
  BY <1>3, Zenon DEF AbortHook, mutex_abort_for_process, AbortReleases, OwnerHasStopped, mutexVars
<1> QED
  BY <1>1, <1>2, <1>3, Zenon DEF Next

(* Ownership leaves a thread only by its own unlock or after it stopped. *)
THEOREM OwnershipSafe == Spec => NeverStolenFromExecuting
<1> DEFINE A == \A t \in Tasks :
                  owner = t /\ owner' # t => phase[t] = "stopped" \/ held'[t] = 0
<1>1. MutexInv /\ [Next]_vars => [A]_vars
  BY OwnershipStep, Zenon
<1> QED
  BY <1>1, MutexInvariant, PTL DEF Spec, NeverStolenFromExecuting
-----------------------------------------------------------------------------
(***************************************************************************)
(* The guards.                                                             *)
(***************************************************************************)

Labels == {"out", "abort", "locking", "check", "poison", "publish", "count", "inside", "clear",
           "unlock", "rebuild"}

GuardTypes ==
    /\ kind \in Kinds
    /\ at \in [Tasks -> Labels]
    /\ collecting \in Processes \cup {NULL}
    /\ abandoned \in BOOLEAN /\ torn \in BOOLEAN /\ poisoned \in BOOLEAN
    /\ operation_owner \in Tasks \cup {NULL}
    /\ operation_depth \in Nat

(* Outside a scope a thread has nothing, past its lock it has the mutex.   *)
(* Only a recursive mutex is locked by a thread that has it already, and   *)
(* the exit hook, which is never killed, opens one scope only.             *)
PositionInv ==
    /\ state # "DESTROYED"
    /\ \A t \in Tasks : Executing(t) =>
         /\ at[t] \in {"out", "abort"} => held[t] = 0
         /\ at[t] \notin {"out", "abort", "locking"} => held[t] > 0
         /\ at[t] = "abort" => kind = "ime"
         /\ at[t] # "locking" => pc[t] = "ready"
         /\ at[t] = "locking" /\ held[t] > 0 => rec
         /\ pc[t] # "lock"
         /\ pc[t] # "ready" => ~recovered[t]
    /\ phase[Reaper] = "live"
    /\ held[Reaper] = IF at[Reaper] \in {"out", "abort", "locking"} THEN 0 ELSE 1
    /\ collecting = NULL => at[Reaper] = "out"

(* Once the exit hook has had the mutex, nothing names a thread of the     *)
(* process any more, and nothing will: its threads have stopped.           *)
CollectInv ==
    /\ owner # NULL => phase[owner] # "freed"
    /\ operation_owner # NULL => phase[operation_owner] # "freed"
    /\ collecting # NULL =>
         /\ \A t \in collecting : phase[t] = "stopped"
         /\ at[Reaper] \notin {"abort", "locking"} => owner \notin collecting
         /\ at[Reaper] \notin {"abort", "locking", "check"} => operation_owner \notin collecting

(* n scopes of t are on record. *)
Recorded(t, n) == operation_depth = n /\ operation_owner = IF n = 0 THEN NULL ELSE t

(* What the scope record says while t has the mutex and executes. *)
RecordOf(t) ==
    /\ at[t] = "locking" => Recorded(t, held[t])
    /\ at[t] = "check" => IF recovered[t] THEN held[t] = 1 ELSE Recorded(t, held[t] - 1)
    /\ at[t] = "poison" => held[t] = 1 /\ Recorded(t, 0)
    /\ at[t] \in {"publish", "unlock"} => Recorded(t, held[t] - 1)
    /\ at[t] = "count" => operation_depth = held[t] - 1 /\ operation_owner = t
    /\ at[t] = "inside" => Recorded(t, held[t])
    /\ at[t] = "clear" => held[t] = 1 /\ operation_depth = 0 /\ operation_owner = t

(* The record is empty while the mutex is free, and in step with the       *)
(* owner while that one executes.  What a stopped owner left of it is      *)
(* arbitrary.                                                              *)
RecordInv ==
    /\ operation_depth # 0 => operation_owner # NULL
    /\ ~Storage \/ owner = NULL => operation_depth = 0 /\ operation_owner = NULL
    /\ Storage => \A t \in Tasks : owner = t /\ Executing(t) => RecordOf(t)

(* The owner is the one who has to deal with what was left behind. *)
Pending(repair) ==
    /\ owner # NULL
    /\ Executing(owner) => \/ at[owner] = "check" /\ recovered[owner]
                           \/ at[owner] = repair

(* A thread that stopped as owner is known to have until the latch is set. *)
AbandonInv ==
    /\ owner # NULL /\ phase[owner] = "stopped" => abandoned
    /\ \A t \in Tasks : Executing(t) /\ at[t] = "check" /\ recovered[t] => abandoned
    /\ \A t \in Tasks : Executing(t) /\ at[t] = "poison" => abandoned
    /\ poisoned => abandoned
    /\ Storage /\ abandoned /\ ~poisoned => Pending("poison")

(* Nobody is in a scope of FAT once it is poisoned. *)
RefusedInv ==
    kind = "fat" /\ poisoned => \A t \in Tasks : Executing(t) =>
        /\ at[t] \notin {"count", "inside", "clear"}
        /\ at[t] = "locking" => held[t] = 0
        /\ held[t] \in {0, 1}

(* Half-written state has somebody who is bound to rebuild it. *)
TornInv == kind = "auth" /\ torn => Pending("rebuild")

Scoped ==
    /\ MutexInv /\ GuardTypes /\ kind # "plain"
    /\ PositionInv /\ CollectInv /\ RecordInv /\ AbandonInv /\ RefusedInv /\ TornInv

(* A mutex without a guard: no thread is freed and no ghost is set. *)
PlainInv ==
    /\ MutexInv /\ GuardTypes /\ kind = "plain"
    /\ ~abandoned /\ ~torn /\ ~poisoned /\ operation_depth = 0
    /\ \A t \in Tasks : phase[t] # "freed"

GuardInv == Scoped \/ PlainInv

(* Initially nobody is in a scope. *)
LEMMA GuardInitial == GuardInit => GuardInv
<1> SUFFICES ASSUME GuardInit PROVE GuardInv
  BY Zenon
<1>1. MutexInv
  BY MutexInitial, Zenon DEF GuardInit, ClientInit, Init, MutexInit
<1>2. GuardTypes /\ phase = [t \in Tasks |-> "live"]
  BY MutexAssumption, ClientAssumption, Zenon
     DEF GuardInit, ClientInit, LifecycleInit, StorageInit, GuardTypes, Labels
<1>3. PositionInv /\ CollectInv /\ RecordInv /\ AbandonInv /\ RefusedInv /\ TornInv
  BY <1>2, MutexAssumption, ClientAssumption
     DEF GuardInit, ClientInit, StorageInit, MutexInit, PositionInv, CollectInv, RecordInv,
         AbandonInv, RefusedInv, TornInv, Pending, Executing
<1> QED
  BY <1>1, <1>2, <1>3, Zenon DEF GuardInv, Scoped, PlainInv, GuardInit, StorageInit, ClientInit
-----------------------------------------------------------------------------
(* A thread that executes past its lock is the owner, and nobody else that *)
(* executes holds anything.                                                *)
LEMMA HolderAlone ==
    ASSUME Scoped, NEW t \in Tasks, Executing(t), at[t] \notin {"out", "abort", "locking"}
    PROVE  /\ owner = t /\ held[t] > 0 /\ pc[t] = "ready"
           /\ \A u \in Tasks : Executing(u) /\ u # t =>
                held[u] = 0 /\ at[u] \in {"out", "abort", "locking"}
<1>1. owner = t /\ held[t] > 0 /\ pc[t] = "ready"
  BY Zenon DEF Scoped, PositionInv, MutexInv, CountMatchesHolder
<1>2. ASSUME NEW u \in Tasks, Executing(u), u # t PROVE ~(held[u] > 0)
  BY <1>1, <1>2, Zenon DEF Scoped, MutexInv, CountMatchesHolder
<1>3. ASSUME NEW u \in Tasks PROVE held[u] \in Nat
  BY Zenon DEF Scoped, MutexInv, TypeOK
<1> QED
  BY <1>1, <1>2, <1>3 DEF Scoped, PositionInv

(* A statement inside a scope leaves the mutex and its callers alone. *)
LEMMA StatementPosition ==
    ASSUME Scoped, NEW t \in Tasks, NEW from, NEW to, Step(t, from, to),
           UNCHANGED <<mutexVars, callerVars>>,
           to \in Labels \ {"out", "abort", "locking"}, from \notin {"out", "abort", "locking"}
    PROVE  MutexInv' /\ PositionInv' /\ at' \in [Tasks -> Labels]
<1>1. UNCHANGED vars
  BY Zenon DEF Step, mutexVars, callerVars, fixedVars, vars
<1>2. MutexInv'
  BY <1>1, MutexStep, Zenon DEF Scoped
<1>3. at' \in [Tasks -> Labels]
  BY Zenon DEF Scoped, GuardTypes, Step
<1>4. PositionInv'
  <2>1. /\ at[t] = from /\ at' = [at EXCEPT ![t] = to] /\ Executing(t)
        /\ UNCHANGED <<kind, collecting, phase, state, held, pc, recovered, rec>>
        /\ at \in [Tasks -> Labels] /\ Reaper \in Tasks
    BY <1>1, ClientAssumption, Zenon DEF Step, fixedVars, Scoped, GuardTypes, vars
  <2> QED
    BY <2>1, Zenon DEF Scoped, PositionInv, Executing
<1> QED
  BY <1>2, <1>3, <1>4, Zenon

(* What the statements of a scope have in common: the owner, alone past    *)
(* its lock, moves on, and the mutex and its callers stay as they are.     *)
OwnerMoves(t, from, to) ==
    /\ MutexInv' /\ PositionInv' /\ kind' = kind
    /\ at[t] = from /\ at' = [at EXCEPT ![t] = to] /\ at' \in [Tasks -> Labels]
    /\ Executing(t) /\ owner = t /\ owner' = t /\ held[t] \in Nat /\ held[t] > 0
    /\ UNCHANGED <<phase, held, recovered, collecting>>
    /\ \A u \in Tasks : Executing(u) /\ u # t =>
         held[u] = 0 /\ at[u] \in {"out", "abort", "locking"}
    /\ collecting # NULL => t \notin collecting /\ Reaper \notin collecting

(* Every such statement moves the owner in this way. *)
LEMMA StepMoves ==
    ASSUME Scoped, NEW t \in Tasks, NEW from, NEW to, Step(t, from, to),
           UNCHANGED <<mutexVars, callerVars>>,
           to \in Labels \ {"out", "abort", "locking"}, from \notin {"out", "abort", "locking"}
    PROVE  OwnerMoves(t, from, to)
<1>1. MutexInv' /\ PositionInv' /\ at' \in [Tasks -> Labels]
  BY StatementPosition, Zenon
<1>2. /\ kind' = kind /\ at[t] = from /\ at' = [at EXCEPT ![t] = to] /\ Executing(t)
      /\ UNCHANGED <<phase, held, recovered, collecting, owner>>
  BY Zenon DEF Step, mutexVars, callerVars, fixedVars
<1>3. /\ owner = t /\ held[t] > 0
      /\ \A u \in Tasks : Executing(u) /\ u # t =>
           held[u] = 0 /\ at[u] \in {"out", "abort", "locking"}
  BY <1>2, HolderAlone, Zenon
<1>4. held[t] \in Nat
  BY Zenon DEF Scoped, MutexInv, TypeOK
<1>5. collecting # NULL => t \notin collecting /\ Reaper \notin collecting
  BY <1>2, ClientAssumption DEF Scoped, CollectInv, GuardTypes, Executing
<1> QED
  BY <1>1, <1>2, <1>3, <1>4, <1>5, Zenon DEF OwnerMoves
-----------------------------------------------------------------------------
(* StorageCheck starts the record afresh when anything was abandoned. *)
LEMMA StorageCheckKeeps ==
    ASSUME Scoped, Storage, NEW t \in Tasks, StorageCheck(t)
    PROVE  Scoped'
<1>1. PICK to \in {"poison", "publish"} : Statement(t, "check", to)
  BY Zenon DEF StorageCheck
<1>2. OwnerMoves(t, "check", to) /\ UNCHANGED ghostVars
  BY <1>1, StepMoves, Zenon DEF Labels, Statement
<1> USE DEF OwnerMoves, ghostVars, Storage
<1>3. RecordOf(t)
  BY <1>2, Zenon DEF Scoped, RecordInv
<1>4. /\ poisoned' = poisoned
      /\ IF recovered[t] THEN to = "poison" /\ operation_depth' = 0 /\ operation_owner' = NULL
         ELSE to = "publish" /\ UNCHANGED <<operation_depth, operation_owner>>
  <2>1. SeesAbandonment(t) <=> recovered[t]
    BY <1>2, <1>3, Zenon DEF SeesAbandonment, RecordOf, Recorded
  <2> QED
    BY <1>2, <2>1, Zenon DEF StorageCheck, Statement, Step, scopeVars, Scoped, GuardTypes
<1>5. GuardTypes' /\ TornInv'
  BY <1>2, <1>4 DEF Scoped, GuardTypes, TornInv
<1>6. RecordInv'
  <2>1. RecordOf(t)'
    BY <1>2, <1>3, <1>4, Zenon DEF RecordOf, Recorded, Scoped, GuardTypes
  <2> QED
    BY <1>2, <1>4, <2>1, MutexAssumption, Zenon DEF Scoped, RecordInv
<1>7. CollectInv'
  BY <1>2, <1>3, <1>4, MutexAssumption, ClientAssumption
     DEF Scoped, CollectInv, RecordOf, Recorded, GuardTypes
<1>8. AbandonInv'
  BY <1>2, <1>4, Zenon DEF Scoped, AbandonInv, Pending, Executing, GuardTypes
<1>9. RefusedInv'
  BY <1>2, <1>4, Zenon DEF Scoped, RefusedInv, Executing, GuardTypes
<1> QED
  BY <1>2, <1>5, <1>6, <1>7, <1>8, <1>9, Zenon DEF Scoped

(* The latch is set by the thread that found the record abandoned. *)
LEMMA PoisonKeeps ==
    ASSUME Scoped, Storage, NEW t \in Tasks, Poison(t)
    PROVE  Scoped'
<1>1. OwnerMoves(t, "poison", "publish") /\ UNCHANGED ghostVars
  BY StepMoves, Zenon DEF Labels, Statement, Poison
<1>2. poisoned' = TRUE /\ UNCHANGED <<operation_owner, operation_depth>>
  BY Zenon DEF Poison
<1> USE DEF OwnerMoves, ghostVars, Storage
<1>3. RecordOf(t)
  BY <1>1, Zenon DEF Scoped, RecordInv
<1>4. GuardTypes' /\ TornInv'
  BY <1>1, <1>2, Zenon DEF Scoped, GuardTypes, TornInv
<1>5. RecordInv'
  <2>1. RecordOf(t)'
    BY <1>1, <1>2, <1>3 DEF RecordOf, Recorded, Scoped, GuardTypes
  <2> QED
    BY <1>1, <1>2, <2>1, MutexAssumption, Zenon DEF Scoped, RecordInv
<1>6. CollectInv'
  BY <1>1, <1>2, MutexAssumption, ClientAssumption DEF Scoped, CollectInv, GuardTypes
<1>7. AbandonInv'
  BY <1>1, <1>2, Zenon DEF Scoped, AbandonInv, Executing, GuardTypes
<1>8. RefusedInv'
  BY <1>1, <1>3, Zenon DEF Scoped, RefusedInv, RecordOf, Executing, GuardTypes
<1> QED
  BY <1>1, <1>4, <1>5, <1>6, <1>7, <1>8, Zenon DEF Scoped

(* Past the check, the statements of a scope keep the record in step with  *)
(* the owner; a poisoned FAT turns its caller away.                        *)
LEMMA ScopeKeeps ==
    ASSUME Scoped, Storage, NEW t \in Tasks, Publish(t) \/ Count(t) \/ Uncount(t) \/ Clear(t)
    PROVE  Scoped'
<1>1. PICK from \in {"publish", "count", "inside", "clear"}, to \in {"count", "inside", "clear", "unlock"} :
        Statement(t, from, to)
  BY Zenon DEF Publish, Count, Uncount, Clear
<1>2. OwnerMoves(t, from, to) /\ UNCHANGED ghostVars
  BY <1>1, StepMoves, Zenon DEF Labels, Statement
<1>3. poisoned' = poisoned
  BY Zenon DEF Publish, Count, Uncount, Clear
<1> USE DEF OwnerMoves, ghostVars, Storage
<1>4. RecordOf(t)
  BY <1>2, Zenon DEF Scoped, RecordInv
<1>5. /\ operation_depth' \in Nat
      /\ operation_owner' \in {t, NULL, operation_owner}
      /\ operation_depth' # 0 => operation_owner' # NULL
      /\ RecordOf(t)'
  <2> USE MutexAssumption DEF Statement, Step, RecordOf, Recorded
  <2>1. operation_depth \in Nat /\ (operation_depth # 0 => operation_owner # NULL)
    BY Zenon DEF Scoped, GuardTypes, RecordInv
  <2>2. CASE Publish(t)
    BY <1>2, <1>4, <2>1, <2>2, ZenonT(40) DEF Publish
  <2>3. CASE Count(t)
    BY <1>2, <1>4, <2>1, <2>3 DEF Count
  <2>4. CASE Uncount(t)
    BY <1>2, <1>4, <2>1, <2>4 DEF Uncount, LastScope
  <2>5. CASE Clear(t)
    BY <1>2, <1>4, <2>1, <2>5 DEF Clear
  <2> QED
    BY <2>2, <2>3, <2>4, <2>5, Zenon
<1>6. GuardTypes' /\ TornInv'
  BY <1>2, <1>3, <1>5, Zenon DEF Scoped, GuardTypes, TornInv
<1>7. RecordInv'
  BY <1>2, <1>5, MutexAssumption, Zenon DEF RecordInv
<1>8. CollectInv'
  BY <1>2, <1>4, <1>5, MutexAssumption, ClientAssumption
     DEF Scoped, CollectInv, GuardTypes, Executing
<1>9. AbandonInv'
  BY <1>2, <1>3, Zenon DEF Scoped, AbandonInv, Pending, Executing, GuardTypes
<1>10. RefusedInv'
  <2> SUFFICES ASSUME kind = "fat", poisoned PROVE RefusedInv'
    BY <1>2, <1>3, Zenon DEF RefusedInv
  <2>1. Statement(t, "publish", "unlock")
    BY <1>2, Zenon DEF Scoped, RefusedInv, Publish, Count, Uncount, Clear, Refuse, Statement, Step
  <2> QED
    BY <1>2, <2>1, Zenon DEF Scoped, RefusedInv, Executing, GuardTypes, Statement, Step
<1> QED
  BY <1>2, <1>6, <1>7, <1>8, <1>9, <1>10, Zenon DEF Scoped

(* Whoever is told rebuilds what was left before the body of its scope. *)
LEMMA RebuildKeeps ==
    ASSUME Scoped, Rebuildable, NEW t \in Tasks, RebuildCheck(t) \/ Rebuild(t) \/ Leave(t),
           UNCHANGED scopeVars
    PROVE  Scoped'
<1>1. PICK from \in {"check", "rebuild", "inside"}, to \in {"rebuild", "inside", "unlock"} :
        Step(t, from, to)
  BY Zenon DEF RebuildCheck, Rebuild, Leave
<1>2. OwnerMoves(t, from, to) /\ abandoned' = abandoned
  BY <1>1, StepMoves, Zenon DEF Labels, RebuildCheck, Rebuild, Leave, ghostVars
<1> USE DEF OwnerMoves, scopeVars, Rebuildable
<1>3. TornInv' /\ torn' \in BOOLEAN
  <2>1. CASE Rebuild(t)
    BY <2>1, Zenon DEF Rebuild, TornInv
  <2>2. CASE RebuildCheck(t) \/ Leave(t)
    <3>1. torn' = torn /\ torn \in BOOLEAN
      BY <2>2, Zenon DEF RebuildCheck, Leave, ghostVars, Scoped, GuardTypes
    <3>2. ASSUME kind = "auth", torn PROVE at'[t] = "rebuild"
      <4>1. at[t] = "check" /\ recovered[t]
        BY <1>2, <2>2, <3>2, Zenon DEF Scoped, TornInv, Pending, RebuildCheck, Leave, Step
      <4> QED
        BY <1>2, <2>2, <4>1, Zenon DEF RebuildCheck, Leave, Step, Told, Scoped, GuardTypes
    <3> QED
      BY <1>2, <3>1, <3>2, MutexAssumption, Zenon DEF TornInv, Pending
  <2> QED
    BY <2>1, <2>2, Zenon
<1>4. GuardTypes'
  BY <1>2, <1>3, Zenon DEF Scoped, GuardTypes
<1>5. RecordInv'
  BY <1>2, Zenon DEF Scoped, RecordInv, Storage
<1>6. CollectInv'
  BY <1>2, MutexAssumption, ClientAssumption DEF Scoped, CollectInv, RecordInv, GuardTypes, Storage
<1>7. AbandonInv'
  BY <1>2, Zenon DEF Scoped, AbandonInv, Executing, GuardTypes, Storage
<1>8. RefusedInv'
  BY <1>2, Zenon DEF RefusedInv
<1> QED
  BY <1>2, <1>3, <1>4, <1>5, <1>6, <1>7, <1>8, Zenon DEF Scoped
-----------------------------------------------------------------------------
(* What a step of the locking loop does.  It waits, or it takes the mutex: *)
(* free, its own already, or that of a stopped owner, and only in the last *)
(* case it is told so.                                                     *)
LockWaits(t) ==
    /\ UNCHANGED <<mutexVars, held, at>>
    /\ pc'[t] \in {"try", "steal"} /\ ~recovered'[t]

LockTakes(t) ==
    /\ at' = [at EXCEPT ![t] = "check"]
    /\ state' = "LOCKED" /\ owner' = t
    /\ held' = [held EXCEPT ![t] = @ + 1]
    /\ pc'[t] = "ready"
    /\ \/ owner = NULL /\ held[t] = 0 /\ ~recovered'[t]
       \/ owner = t /\ held[t] > 0 /\ rec /\ ~recovered'[t]
       \/ /\ owner \in Tasks /\ owner # t /\ phase[owner] = "stopped"
          /\ held[t] = 0 /\ recovered'[t]

(* There is no other outcome: the guards never relock a mutex that is not  *)
(* recursive, and never destroy one.                                       *)
LEMMA LockOutcome ==
    ASSUME Scoped, NEW t \in Tasks, Lock(t)
    PROVE  /\ Executing(t) /\ at[t] = "locking"
           /\ MutexInv'
           /\ UNCHANGED <<phase, rec, kind, collecting, abandoned, torn>>
           /\ \A u \in Tasks \ {t} : pc'[u] = pc[u] /\ recovered'[u] = recovered[u]
           /\ LockWaits(t) \/ LockTakes(t)
<1>1. /\ Executing(t) /\ at[t] = "locking"
      /\ at' = [at EXCEPT ![t] = IF pc'[t] = "ready" THEN "check" ELSE "locking"]
      /\ UNCHANGED <<phase, rec, kind, collecting, abandoned, torn>>
  BY Zenon DEF Lock, Step, fixedVars, ghostVars
<1>2. Run(t)
  BY <1>1, Zenon DEF Lock, Run
<1>3. MutexInv'
  BY <1>2, MutexStep, Zenon DEF Next, Scoped
<1>4. /\ pc \in [Tasks -> {"ready", "lock", "try", "steal"}]
      /\ recovered \in [Tasks -> BOOLEAN] /\ held \in [Tasks -> Nat] /\ at \in [Tasks -> Labels]
      /\ owner \in Tasks \cup {NULL} /\ state \in {"UNLOCKED", "LOCKED"}
      /\ state = "LOCKED" <=> owner # NULL
      /\ owner = t => held[t] > 0 /\ rec
      /\ held[t] > 0 => owner = t
      /\ pc[t] \in {"try", "steal"} => ~recovered[t]
  <2>1. TypeOK /\ at \in [Tasks -> Labels] /\ state # "DESTROYED"
    BY Zenon DEF Scoped, MutexInv, GuardTypes, PositionInv
  <2>2. /\ state = "LOCKED" <=> owner # NULL
        /\ state = "LOCKED" <=> rcc # 0
        /\ owner = t => held[t] = rcc
        /\ held[t] > 0 => owner = t
    BY <1>1, Zenon DEF Scoped, MutexInv, CountMatchesHolder
  <2>3. /\ held[t] > 0 => rec
        /\ pc[t] # "ready" => ~recovered[t]
    BY <1>1, Zenon DEF Scoped, PositionInv
  <2> QED
    BY <2>1, <2>2, <2>3, MutexAssumption DEF TypeOK
<1>5. CASE lock_recoverable_try(t)
  <2>1. ~recovered'[t] /\ \A u \in Tasks \ {t} : recovered'[u] = recovered[u]
    BY <1>4, <1>5, Zenon DEF lock_recoverable_try
  <2>2. CASE Busy(t) /\ Goto(t, "steal") /\ UNCHANGED <<mutexVars, held>>
    BY <1>1, <1>3, <1>4, <2>1, <2>2, Zenon DEF LockWaits, Goto
  <2>3. CASE Acquire(t)
    <3>1. /\ state' = "LOCKED" /\ owner' = t /\ Granted(t)
          /\ owner = NULL \/ owner = t
      <4>1. /\ state # "DESTROYED" /\ (owner = t => rec)
            /\ state = "UNLOCKED" => owner = NULL
            /\ owner = t => state = "LOCKED"
        BY <1>4, MutexAssumption, Zenon
      <4> QED
        BY <2>3, <4>1, Zenon DEF Acquire
    <3> QED
      <4>1. pc'[t] = "ready" /\ \A u \in Tasks \ {t} : pc'[u] = pc[u]
        BY <1>4, <3>1, Zenon DEF Granted, Goto
      <4>2. LockTakes(t)
        BY <1>1, <1>4, <2>1, <3>1, <4>1, MutexAssumption DEF LockTakes, Granted
      <4> QED
        BY <1>1, <1>3, <2>1, <4>1, <4>2, Zenon
  <2> QED
    BY <1>5, <2>2, <2>3, Zenon DEF lock_recoverable_try
<1>6. CASE lock_recoverable_steal(t)
  <2>1. CASE state = "LOCKED" /\ OwnerHasStopped
    BY <1>1, <1>3, <1>4, <1>6, <2>1
       DEF lock_recoverable_steal, LockTakes, Granted, Goto, OwnerHasStopped, Executing
  <2>2. CASE ~(state = "LOCKED" /\ OwnerHasStopped)
    BY <1>1, <1>3, <1>4, <1>6, <2>2, Zenon DEF lock_recoverable_steal, LockWaits, Goto
  <2> QED
    BY <2>1, <2>2, Zenon
<1> QED
  BY <1>5, <1>6, Zenon DEF Lock

(* The locking loop keeps everything. *)
LEMMA LockKeeps ==
    ASSUME Scoped, NEW t \in Tasks, Lock(t), UNCHANGED scopeVars
    PROVE  Scoped'
<1>1. /\ Executing(t) /\ at[t] = "locking"
      /\ MutexInv'
      /\ UNCHANGED <<phase, rec, kind, collecting, abandoned, torn>>
      /\ UNCHANGED <<operation_owner, operation_depth, poisoned>>
      /\ \A u \in Tasks \ {t} : pc'[u] = pc[u] /\ recovered'[u] = recovered[u]
      /\ LockWaits(t) \/ LockTakes(t)
  BY LockOutcome, Zenon DEF scopeVars
<1>2. /\ held \in [Tasks -> Nat] /\ at \in [Tasks -> Labels]
      /\ collecting # NULL => t \notin collecting /\ Reaper \notin collecting
      /\ collecting # NULL => collecting \subseteq Tasks
      /\ Reaper \in Tasks /\ NULL \notin Tasks
  BY <1>1, MutexAssumption, ClientAssumption
     DEF Scoped, MutexInv, TypeOK, GuardTypes, CollectInv, Executing
<1>3. CASE LockWaits(t)
  <2>1. UNCHANGED <<state, owner, held, at>> /\ pc'[t] \in {"try", "steal"} /\ ~recovered'[t]
    BY <1>3, Zenon DEF LockWaits, mutexVars
  <2>2. GuardTypes' /\ PositionInv'
    BY <1>1, <1>2, <2>1 DEF Scoped, GuardTypes, PositionInv, Executing
  <2>3. CollectInv' /\ RefusedInv'
    BY <1>1, <2>1, Zenon DEF Scoped, CollectInv, RefusedInv, Executing
  <2>4. RecordInv'
    <3>1. ASSUME NEW u \in Tasks PROVE RecordOf(u) => RecordOf(u)'
      BY <1>1, <1>2, <2>1, Zenon DEF RecordOf, Recorded
    <3> QED
      BY <1>1, <2>1, <3>1, Zenon DEF Scoped, RecordInv, Executing, Storage
  <2>5. AbandonInv' /\ TornInv'
    <3>1. ASSUME NEW repair PROVE Pending(repair) => Pending(repair)'
      BY <1>1, <2>1, Zenon DEF Pending, Executing, Scoped, MutexInv, TypeOK
    <3> QED
      BY <1>1, <2>1, <3>1, Zenon DEF Scoped, AbandonInv, TornInv, Executing, Storage
  <2> QED
    BY <1>1, <2>2, <2>3, <2>4, <2>5, Zenon DEF Scoped
<1>4. CASE LockTakes(t)
  <2>1. /\ at' = [at EXCEPT ![t] = "check"] /\ state' = "LOCKED" /\ owner' = t
        /\ held' = [held EXCEPT ![t] = @ + 1] /\ pc'[t] = "ready"
    BY <1>4, Zenon DEF LockTakes
  <2>2. GuardTypes' /\ PositionInv'
    BY <1>1, <1>2, <2>1 DEF Scoped, GuardTypes, PositionInv, Executing, Labels
  <2>3. CollectInv'
    BY <1>1, <1>2, <2>1, Zenon DEF Scoped, CollectInv, Executing
  <2>4. RefusedInv'
    BY <1>1, <1>2, <2>1, SMTT(30) DEF Scoped, RefusedInv, Executing
  <2>5. RecordInv'
    <3>1. Storage => RecordOf(t)'
      BY <1>1, <1>2, <1>4, <2>1 DEF Scoped, RecordInv, RecordOf, Recorded, LockTakes
    <3> QED
      BY <1>1, <1>2, <2>1, <3>1, Zenon DEF Scoped, RecordInv, Storage
  <2>6. recovered'[t] <=> owner # NULL /\ phase[owner] = "stopped"
    BY <1>1, <1>2, <1>4, Zenon DEF LockTakes, Executing
  <2>7. ASSUME NEW repair, Pending(repair), repair # "locking" PROVE Pending(repair)'
    <3>1. recovered'[t]
      BY <1>1, <1>2, <1>4, <2>7, Zenon DEF LockTakes, Pending
    <3> QED
      BY <1>2, <2>1, <3>1, Zenon DEF Pending
  <2>8. AbandonInv' /\ TornInv'
    BY <1>1, <1>2, <2>1, <2>6, <2>7, Zenon DEF Scoped, AbandonInv, TornInv, Executing, Storage
  <2> QED
    BY <1>1, <2>2, <2>3, <2>4, <2>5, <2>8, Zenon DEF Scoped
<1> QED
  BY <1>1, <1>3, <1>4, Zenon

(* So does the unlock: the record is empty when the mutex becomes free. *)
LEMMA UnlockKeeps ==
    ASSUME Scoped, NEW t \in Tasks, Unlock(t), UNCHANGED scopeVars
    PROVE  Scoped'
<1>1. /\ Executing(t) /\ at[t] = "unlock"
      /\ at' = [at EXCEPT ![t] = IF held'[t] = 0 THEN "out" ELSE "inside"]
      /\ UNCHANGED <<phase, rec, kind, collecting, abandoned, torn, pc, recovered>>
      /\ UNCHANGED <<operation_owner, operation_depth, poisoned>>
      /\ state = "LOCKED" /\ owner = t /\ rcc # 0 /\ rcc' = rcc - 1
      /\ held' = [held EXCEPT ![t] = @ - 1]
      /\ IF rcc = 1 THEN owner' = NULL /\ state' = "UNLOCKED" ELSE owner' = t /\ state' = "LOCKED"
  BY Zenon DEF Unlock, Step, fixedVars, ghostVars, mutex_unlock, scopeVars
<1>2. MutexInv'
  BY <1>1, MutexStep, Zenon DEF Unlock, Run, Next, Scoped
<1>3. /\ held \in [Tasks -> Nat] /\ at \in [Tasks -> Labels] /\ rcc \in Nat /\ held[t] = rcc
      /\ collecting # NULL => t \notin collecting /\ Reaper \notin collecting
      /\ collecting # NULL => collecting \subseteq Tasks
      /\ Reaper \in Tasks /\ NULL \notin Tasks
      /\ \A u \in Tasks : Executing(u) /\ u # t =>
           held[u] = 0 /\ at[u] \in {"out", "abort", "locking"}
  BY <1>1, HolderAlone, MutexAssumption, ClientAssumption
     DEF Scoped, MutexInv, TypeOK, GuardTypes, CollectInv, Executing
<1>4. GuardTypes' /\ PositionInv'
  BY <1>1, <1>3 DEF Scoped, GuardTypes, PositionInv, Executing, Labels
<1>5. CollectInv'
  BY <1>1, <1>3, Zenon DEF Scoped, CollectInv, Executing
<1>6. RefusedInv'
  BY <1>1, <1>3 DEF Scoped, RefusedInv, Executing
<1>7. RecordInv'
  <2>1. Storage => RecordOf(t)
    BY <1>1, Zenon DEF Scoped, RecordInv
  <2> QED
    BY <1>1, <1>3, <2>1 DEF Scoped, RecordInv, RecordOf, Recorded, Storage
<1>8. AbandonInv' /\ TornInv'
  <2>1. ~Pending("poison") /\ ~Pending("rebuild")
    BY <1>1, Zenon DEF Pending
  <2> QED
    BY <1>1, <1>3, <2>1, Zenon DEF Scoped, AbandonInv, TornInv, Executing, Storage
<1> QED
  BY <1>1, <1>2, <1>4, <1>5, <1>6, <1>7, <1>8, Zenon DEF Scoped
-----------------------------------------------------------------------------
(* A scope is opened: nothing is locked or recorded yet. *)
LEMMA EnterKeeps ==
    ASSUME Scoped, NEW t \in Tasks, Enter(t), UNCHANGED recordVars
    PROVE  Scoped'
<1>1. /\ Executing(t) /\ t # Reaper /\ (at[t] = "out" \/ (at[t] = "inside" /\ rec))
      /\ at' = [at EXCEPT ![t] = "locking"]
      /\ UNCHANGED <<vars, kind, collecting, abandoned, torn>>
      /\ UNCHANGED <<operation_owner, operation_depth, poisoned>>
  BY Zenon DEF Enter, recordVars, scopeVars, ghostVars
<1>2. MutexInv'
  BY <1>1, MutexStep, Zenon DEF Scoped
<1> USE DEF vars
<1>3. /\ at \in [Tasks -> Labels] /\ held \in [Tasks -> Nat] /\ Reaper \in Tasks
      /\ owner = t => held[t] > 0
  BY <1>1, ClientAssumption, MutexAssumption DEF Scoped, MutexInv, TypeOK, GuardTypes
<1>4. GuardTypes' /\ PositionInv'
  BY <1>1, <1>3 DEF Scoped, GuardTypes, PositionInv, Executing, Labels
<1>5. CollectInv'
  BY <1>1, <1>3, Zenon DEF Scoped, CollectInv
<1>6. RefusedInv'
  BY <1>1, <1>3, Zenon DEF Scoped, RefusedInv, PositionInv, Executing
<1>7. RecordInv'
  <2>1. Storage /\ owner = t => RecordOf(t)'
    BY <1>1, <1>3 DEF Scoped, PositionInv, RecordInv, RecordOf, Recorded
  <2>2. ASSUME NEW u \in Tasks, u # t PROVE RecordOf(u) => RecordOf(u)'
    BY <1>1, <1>3, <2>2, Zenon DEF RecordOf, Recorded
  <2> QED
    BY <1>1, <2>1, <2>2, Zenon DEF Scoped, RecordInv, Executing, Storage
<1>8. AbandonInv' /\ TornInv'
  <2>1. ASSUME NEW repair, repair \in {"poison", "rebuild"}, Pending(repair) PROVE Pending(repair)'
    BY <1>1, <1>3, <2>1, Zenon DEF Pending, Executing, Scoped, MutexInv, TypeOK
  <2> QED
    BY <1>1, <1>3, <2>1, Zenon DEF Scoped, AbandonInv, TornInv, Executing, Storage
<1> QED
  BY <1>1, <1>2, <1>4, <1>5, <1>6, <1>7, <1>8, Zenon DEF Scoped

(* A thread is killed or stops: what it leaves as owner is remembered. *)
LEMMA DeathKeeps ==
    ASSUME Scoped, NEW t \in Tasks, ClientKill(t) \/ ClientStop(t), UNCHANGED recordVars
    PROVE  Scoped'
<1>1. /\ UNCHANGED <<mutexVars, callerVars, rec, kind, at, collecting>>
      /\ UNCHANGED <<operation_owner, operation_depth, poisoned>>
      /\ Abandon(t) /\ (Kill(t) \/ Stop(t))
      /\ phase[t] = "live" => t # Reaper
  BY Zenon DEF ClientKill, ClientStop, recordVars, scopeVars, fixedVars, Stop
<1>2. Executing(t) /\ \E p \in {"dying", "stopped"} : phase' = [phase EXCEPT ![t] = p]
  BY <1>1, Zenon DEF Kill, Stop, Executing
<1>3. MutexInv'
  BY <1>1, MutexStep, Zenon DEF Scoped, Next, Die
<1>4. /\ phase \in [Tasks -> Phases] /\ owner \in Tasks \cup {NULL} /\ NULL \notin Tasks
      /\ Reaper \in Tasks /\ t # Reaper /\ at \in [Tasks -> Labels]
      /\ collecting # NULL => t \notin collecting
      /\ collecting # NULL => collecting \subseteq Tasks
  BY <1>1, <1>2, ClientAssumption, MutexAssumption, Zenon
     DEF Scoped, MutexInv, TypeOK, GuardTypes, PositionInv, CollectInv, Executing, Kill, Stop
<1>5. PICK p \in {"dying", "stopped"} : phase' = [phase EXCEPT ![t] = p]
  BY <1>2, Zenon
<1> USE DEF mutexVars, callerVars
<1>6. GuardTypes' /\ abandoned' = (abandoned \/ (owner = t /\ p = "stopped"))
      /\ torn' = (torn \/ (owner = t /\ p = "stopped" /\ at[t] = "inside"))
  BY <1>1, <1>4, <1>5, ZenonT(40) DEF Scoped, GuardTypes, Abandon
<1>7. PositionInv' /\ CollectInv' /\ RefusedInv'
  BY <1>1, <1>2, <1>4, <1>5, ZenonT(60) DEF Scoped, PositionInv, CollectInv, RefusedInv, Executing, GuardTypes
<1>8. RecordInv'
  <2>1. ASSUME NEW u \in Tasks PROVE (RecordOf(u) <=> RecordOf(u)') /\ (Executing(u)' => Executing(u))
    BY <1>1, <1>2, <1>4, <1>5, Zenon DEF RecordOf, Recorded, Executing
  <2> QED
    BY <1>1, <2>1, Zenon DEF Scoped, RecordInv, Storage
<1>9. AbandonInv' /\ TornInv'
  <2>1. ASSUME NEW u \in Tasks PROVE Executing(u)' => Executing(u)
    BY <1>2, <1>4, <1>5, Zenon DEF Executing
  <2>2. ASSUME NEW repair, Pending(repair) \/ (owner = t /\ p = "stopped") PROVE Pending(repair)'
    BY <1>1, <1>4, <1>5, <2>1, <2>2, Zenon DEF Pending, Executing
  <2> QED
    BY <1>1, <1>2, <1>4, <1>5, <1>6, <2>1, <2>2, Zenon
       DEF Scoped, AbandonInv, TornInv, Storage, GuardTypes
<1> QED
  BY <1>1, <1>3, <1>6, <1>7, <1>8, <1>9, Zenon DEF Scoped
-----------------------------------------------------------------------------
(* The reaper enters the exit hook of a process whose threads have all     *)
(* stopped.                                                                *)
LEMMA HookKeeps ==
    ASSUME Scoped, NEW p \in Processes, RunExitHook(p)
    PROVE  Scoped'
<1> DEFINE first == IF kind = "ime" THEN "abort" ELSE "locking"
<1>1. /\ collecting = NULL /\ collecting' = p /\ \A t \in p : phase[t] = "stopped"
      /\ at' = [at EXCEPT ![Reaper] = first]
      /\ UNCHANGED <<vars, kind, abandoned, torn>>
      /\ UNCHANGED <<operation_owner, operation_depth, poisoned>>
  BY Zenon DEF RunExitHook, CollectBegin, ghostVars, scopeVars
<1>2. MutexInv'
  BY <1>1, MutexStep, Zenon DEF Scoped
<1> USE DEF vars
<1>3. /\ at \in [Tasks -> Labels] /\ Reaper \in Tasks /\ at[Reaper] = "out" /\ held[Reaper] = 0
      /\ Executing(Reaper) /\ pc[Reaper] = "ready" /\ owner # Reaper
      /\ owner \in Tasks \cup {NULL} /\ NULL \notin Tasks
      /\ NULL \notin Processes
  BY <1>1, ClientAssumption, MutexAssumption
     DEF Scoped, MutexInv, TypeOK, GuardTypes, PositionInv, Executing
<1>4. GuardTypes' /\ PositionInv'
  BY <1>1, <1>3 DEF Scoped, GuardTypes, PositionInv, Executing, Labels
<1>5. CollectInv' /\ RefusedInv'
  BY <1>1, <1>3, Zenon DEF Scoped, CollectInv, RefusedInv, Executing
<1>6. RecordInv'
  <2>1. ASSUME NEW u \in Tasks, u # Reaper PROVE RecordOf(u) => RecordOf(u)'
    BY <1>1, <1>3, <2>1, Zenon DEF RecordOf, Recorded
  <2> QED
    BY <1>1, <1>3, <2>1, Zenon DEF Scoped, RecordInv, Executing, Storage
<1>7. AbandonInv' /\ TornInv'
  <2>1. ASSUME NEW repair, Pending(repair) PROVE Pending(repair)'
    BY <1>1, <1>3, <2>1, Zenon DEF Pending, Executing
  <2> QED
    BY <1>1, <1>3, <2>1, Zenon DEF Scoped, AbandonInv, TornInv, Executing, Storage
<1> QED
  BY <1>1, <1>2, <1>4, <1>5, <1>6, <1>7, Zenon DEF Scoped

(* ime_process_exit releases the mutex of a stopped owner. *)
LEMMA AbortKeeps ==
    ASSUME Scoped, Abort, UNCHANGED scopeVars
    PROVE  Scoped'
<1>1. /\ Executing(Reaper) /\ at[Reaper] = "abort" /\ at' = [at EXCEPT ![Reaper] = "locking"]
      /\ mutex_abort_for_process(collecting)
      /\ UNCHANGED <<phase, rec, kind, collecting, callerVars, abandoned, torn>>
      /\ UNCHANGED <<operation_owner, operation_depth, poisoned>>
  BY Zenon DEF Abort, Step, fixedVars, ghostVars, scopeVars
<1>2. /\ at \in [Tasks -> Labels] /\ Reaper \in Tasks /\ kind = "ime"
      /\ collecting \in SUBSET Tasks /\ held[Reaper] = 0 /\ pc[Reaper] = "ready"
  BY <1>1, ClientAssumption, MutexAssumption, Zenon DEF Scoped, GuardTypes, PositionInv, Executing
<1>3. MutexInv'
  BY <1>1, <1>2, MutexStep, Zenon DEF Scoped, Next, AbortHook
<1>4. /\ state' \in {state, "UNLOCKED"} /\ owner' \in {owner, NULL}
      /\ UNCHANGED <<pc, recovered, held>>
  BY <1>1, Zenon DEF mutex_abort_for_process, mutexVars, callerVars
<1>5. GuardTypes' /\ PositionInv'
  BY <1>1, <1>2, <1>4 DEF Scoped, GuardTypes, PositionInv, Executing, Labels
<1>6. CollectInv' /\ RefusedInv' /\ TornInv'
  BY <1>1, <1>2, <1>4, Zenon DEF Scoped, CollectInv, RefusedInv, TornInv
<1>7. RecordInv'
  BY <1>1, <1>2, Zenon DEF Scoped, RecordInv, Storage
<1>8. AbandonInv'
  BY <1>1, <1>2, <1>4, Zenon DEF Scoped, AbandonInv, Executing, Storage
<1> QED
  BY <1>1, <1>2, <1>3, <1>5, <1>6, <1>7, <1>8, Zenon DEF Scoped

(* The threads are freed: nothing names them. *)
LEMMA CollectEndKeeps ==
    ASSUME Scoped, CollectEnd, UNCHANGED recordVars
    PROVE  Scoped'
<1>1. /\ collecting # NULL /\ at[Reaper] = "out" /\ collecting' = NULL
      /\ phase' = [t \in Tasks |-> IF t \in collecting THEN "freed" ELSE phase[t]]
      /\ UNCHANGED <<mutexVars, callerVars, rec, kind, at, abandoned, torn>>
      /\ UNCHANGED <<operation_owner, operation_depth, poisoned>>
  BY Zenon DEF CollectEnd, fixedVars, ghostVars, recordVars, scopeVars
<1>2. /\ collecting \in SUBSET Tasks /\ Reaper \in Tasks /\ Reaper \notin collecting
      /\ owner \notin collecting /\ operation_owner \notin collecting
      /\ \A t \in collecting : phase[t] = "stopped"
      /\ NULL \notin Tasks
  BY <1>1, ClientAssumption, MutexAssumption, Zenon DEF Scoped, GuardTypes, CollectInv
<1> USE DEF mutexVars, callerVars
<1>3. \A t \in Tasks : Executing(t)' <=> Executing(t)
  BY <1>1, <1>2, Zenon DEF Executing
<1>4. MutexInv'
  BY <1>1, <1>3, Zenon DEF Scoped, MutexInv, TypeOK, CountMatchesHolder, Phases
<1>5. GuardTypes' /\ PositionInv'
  BY <1>1, <1>2, <1>3, Zenon DEF Scoped, GuardTypes, PositionInv
<1>6. CollectInv'
  BY <1>1, <1>2, Zenon DEF Scoped, CollectInv, MutexInv, TypeOK, GuardTypes
<1>7. RefusedInv'
  BY <1>1, <1>3, Zenon DEF Scoped, RefusedInv
<1>8. RecordInv'
  <2>1. ASSUME NEW u \in Tasks PROVE RecordOf(u) <=> RecordOf(u)'
    BY <1>1, Zenon DEF RecordOf, Recorded
  <2> QED
    BY <1>1, <1>3, <2>1, Zenon DEF Scoped, RecordInv, Storage
<1>9. AbandonInv' /\ TornInv'
  BY <1>1, <1>2, <1>3, Zenon DEF Scoped, AbandonInv, TornInv, Pending, Storage, MutexInv, TypeOK
<1> QED
  BY <1>1, <1>4, <1>5, <1>6, <1>7, <1>8, <1>9, Zenon DEF Scoped

(* A new process gets the freed blocks, which no record names. *)
LEMMA RecreateKeeps ==
    ASSUME Scoped, NEW p \in Processes, StorageRecreate(p)
    PROVE  Scoped'
<1>1. /\ \A t \in p : phase[t] = "freed"
      /\ phase' = [t \in Tasks |-> IF t \in p THEN "live" ELSE phase[t]]
      /\ pc' = [t \in Tasks |-> IF t \in p THEN "ready" ELSE pc[t]]
      /\ recovered' = [t \in Tasks |-> recovered[t] /\ t \notin p]
      /\ held' = [t \in Tasks |-> IF t \in p THEN 0 ELSE held[t]]
      /\ at' = [t \in Tasks |-> IF t \in p THEN "out" ELSE at[t]]
      /\ UNCHANGED <<state, owner, rcc, rec, kind, collecting, abandoned, torn>>
      /\ UNCHANGED <<operation_owner, operation_depth, poisoned>>
  BY Zenon DEF StorageRecreate, Recreate, mutexVars, fixedVars, ghostVars
<1>2. /\ p \in SUBSET Tasks /\ Reaper \in Tasks /\ Reaper \notin p /\ NULL \notin Tasks
      /\ owner \notin p /\ operation_owner \notin p
      /\ collecting # NULL => collecting \cap p = {} /\ collecting \subseteq Tasks
      /\ at \in [Tasks -> Labels]
  BY <1>1, ClientAssumption, MutexAssumption DEF Scoped, GuardTypes, CollectInv
<1>3. /\ \A t \in Tasks \ p : /\ Executing(t)' <=> Executing(t)
                              /\ UNCHANGED <<pc[t], recovered[t], held[t], at[t], phase[t]>>
      /\ \A t \in p : pc'[t] = "ready" /\ ~recovered'[t] /\ held'[t] = 0 /\ at'[t] = "out"
                      /\ phase'[t] = "live"
  BY <1>1, <1>2, Zenon DEF Executing, Scoped, MutexInv, TypeOK
<1>4. MutexInv'
  BY <1>1, <1>2, <1>3 DEF Scoped, MutexInv, TypeOK, CountMatchesHolder, Phases
<1>5. GuardTypes'
  BY <1>1, <1>2, Zenon DEF Scoped, GuardTypes, Labels
<1>6. PositionInv'
  BY <1>1, <1>2, <1>3 DEF Scoped, PositionInv
<1>7. CollectInv'
  BY <1>1, <1>2, <1>3 DEF Scoped, CollectInv, MutexInv, TypeOK, GuardTypes
<1>8. RefusedInv'
  BY <1>1, <1>3, Zenon DEF Scoped, RefusedInv
<1>9. RecordInv'
  <2>1. ASSUME NEW u \in Tasks \ p PROVE RecordOf(u) => RecordOf(u)'
    BY <1>1, <1>3, ZenonT(60) DEF RecordOf, Recorded
  <2> QED
    BY <1>1, <1>2, <1>3, <2>1, ZenonT(60) DEF Scoped, RecordInv, Storage
<1>10. AbandonInv' /\ TornInv'
  BY <1>1, <1>2, <1>3, ZenonT(60) DEF Scoped, AbandonInv, TornInv, Pending, Storage, MutexInv, TypeOK
<1> QED
  BY <1>1, <1>4, <1>5, <1>6, <1>7, <1>8, <1>9, <1>10, Zenon DEF Scoped
-----------------------------------------------------------------------------
(* A mutex without a guard behaves as Mutex, which frees nobody. *)
LEMMA PlainKeeps ==
    ASSUME PlainInv, Plain
    PROVE  PlainInv'
<1>1. Next /\ UNCHANGED <<kind, at, collecting, abandoned, torn, operation_owner, operation_depth, poisoned>>
  BY Zenon DEF Plain, ghostVars, recordVars, scopeVars
<1>2. MutexInv'
  BY <1>1, MutexStep, Zenon DEF PlainInv
<1>3. \A t \in Tasks : phase'[t] # "freed"
  BY <1>1, Zenon DEF PlainInv, MutexInv, TypeOK, Next, Run, AbortHook, Die, Kill, Stop
<1> QED
  BY <1>1, <1>2, <1>3, Zenon DEF PlainInv, GuardTypes

(* Every step of a guard's clients preserves the invariant. *)
LEMMA GuardedKeeps ==
    ASSUME Scoped, Guarded
    PROVE  Scoped'
<1>1. ASSUME NEW t \in Tasks, Proceed(t) PROVE Scoped'
  <2>1. CASE StorageProceed(t)
    BY <2>1, LockKeeps, UnlockKeeps, StorageCheckKeeps, PoisonKeeps, ScopeKeeps, Zenon
       DEF StorageProceed
  <2>2. CASE RebuildProceed(t) /\ UNCHANGED scopeVars
    BY <2>2, LockKeeps, UnlockKeeps, RebuildKeeps, Zenon DEF RebuildProceed
  <2> QED
    BY <1>1, <2>1, <2>2, Zenon DEF Proceed
<1>2. ASSUME NEW t \in Tasks, Enter(t) \/ ClientKill(t) \/ ClientStop(t), UNCHANGED recordVars
      PROVE  Scoped'
  BY <1>2, EnterKeeps, DeathKeeps, Zenon
<1>3. ASSUME NEW p \in Processes, RunExitHook(p) PROVE Scoped'
  BY <1>3, HookKeeps, Zenon
<1>4. CASE ReaperContinues
  BY <1>4, AbortKeeps, CollectEndKeeps, Zenon DEF ReaperContinues
<1>5. ASSUME NEW p \in Processes, StorageRecreate(p) PROVE Scoped'
  BY <1>5, RecreateKeeps, Zenon
<1> QED
  BY <1>1, <1>2, <1>3, <1>4, <1>5, Zenon DEF Guarded

(* A step that changes nothing changes no part of the invariant. *)
LEMMA GuardStutters ==
    ASSUME GuardInv, UNCHANGED guardVars
    PROVE  GuardInv'
<1>1. UNCHANGED vars /\ UNCHANGED <<kind, at, collecting, abandoned, torn, operation_owner, operation_depth, poisoned>>
  BY Zenon DEF guardVars, clientVars, ghostVars, scopeVars
<1>2. MutexInv'
  BY <1>1, MutexStep, Zenon DEF GuardInv, Scoped, PlainInv
<1> USE DEF vars
<1>3. GuardTypes' <=> GuardTypes
  BY <1>1, Zenon DEF GuardTypes
<1>4. CASE PlainInv
  BY <1>1, <1>2, <1>3, <1>4, Zenon DEF GuardInv, PlainInv
<1>5. CASE Scoped
  <2>1. PositionInv' /\ CollectInv' /\ RefusedInv'
    BY <1>1, <1>5, ZenonT(40) DEF Scoped, PositionInv, CollectInv, RefusedInv, Executing
  <2>2. RecordInv'
    BY <1>1, <1>5 DEF Scoped, RecordInv, RecordOf, Recorded, Executing, Storage
  <2>3. AbandonInv' /\ TornInv'
    BY <1>1, <1>5, Zenon DEF Scoped, AbandonInv, TornInv, Pending, Executing, Storage
  <2> QED
    BY <1>1, <1>2, <1>3, <1>5, <2>1, <2>2, <2>3, Zenon DEF GuardInv, Scoped
<1> QED
  BY <1>4, <1>5, Zenon DEF GuardInv

(* Positions, scope record and what was left behind agree at every step of *)
(* every kind of guard.                                                    *)
THEOREM GuardInvariant == GuardSpec => []GuardInv
<1>1. GuardInv /\ [GuardNext]_guardVars => GuardInv'
  BY PlainKeeps, GuardedKeeps, GuardStutters, Zenon
     DEF GuardNext, GuardInv, Plain, Scoped, PlainInv
<1> QED
  BY <1>1, GuardInitial, PTL DEF GuardSpec

(* Under every guard, and by itself, the mutex excludes. *)
THEOREM GuardsExclude == GuardSpec => []MutualExclusion
<1>1. GuardInv => MutualExclusion
  BY Zenon DEF GuardInv, Scoped, PlainInv, MutexInv, CountMatchesHolder, MutualExclusion
<1> QED
  BY <1>1, GuardInvariant, PTL

(* No guard loses the mutex but by its own unlock or after it stopped. *)
THEOREM GuardsKeepOwnership == GuardSpec => NeverStolenFromExecuting
<1> DEFINE A == \A t \in Tasks :
                  owner = t /\ owner' # t => phase[t] = "stopped" \/ held'[t] = 0
<1>1. ASSUME GuardInv, GuardNext PROVE Next \/ owner' = owner
  <2>1. CASE Plain
    BY <2>1, Zenon DEF Plain
  <2>2. ASSUME NEW t \in Tasks, Lock(t) \/ Unlock(t) PROVE Next
    BY <2>2, Zenon DEF Lock, Unlock, Step, fixedVars, Next, Run
  <2>3. ASSUME Scoped, Abort PROVE Next
    <3>1. collecting \in SUBSET Tasks
      BY <2>3, ClientAssumption, Zenon DEF Scoped, GuardTypes, PositionInv, Abort, Step
    <3> QED
      BY <2>3, <3>1, Zenon DEF Abort, Step, fixedVars, Next, AbortHook
  <2>4. CASE kind # "plain" /\ Guarded
    <3>1. ASSUME NEW t \in Tasks, Proceed(t) PROVE Next \/ owner' = owner
      BY <2>2, <3>1, Zenon
         DEF Proceed, StorageProceed, RebuildProceed, StorageCheck, Poison, Publish, Count,
                        Uncount, Clear, Statement, RebuildCheck, Rebuild, Leave, mutexVars
    <3>2. ASSUME NEW t \in Tasks, Enter(t) \/ ClientKill(t) \/ ClientStop(t) PROVE owner' = owner
      BY <3>2, Zenon DEF Enter, ClientKill, ClientStop, vars, mutexVars
    <3>3. ASSUME NEW p \in Processes, RunExitHook(p) \/ StorageRecreate(p) PROVE owner' = owner
      BY <3>3, Zenon DEF RunExitHook, CollectBegin, StorageRecreate, Recreate, vars, mutexVars
    <3>4. CASE ReaperContinues
      BY <1>1, <2>3, <2>4, <3>4, Zenon
         DEF ReaperContinues, CollectEnd, mutexVars, GuardInv, PlainInv
    <3> QED
      BY <2>4, <3>1, <3>2, <3>3, <3>4, Zenon DEF Guarded
  <2> QED
    BY <1>1, <2>1, <2>4, Zenon DEF GuardNext
<1>2. GuardInv /\ [GuardNext]_guardVars => [A]_vars
  <2>1. GuardInv => MutexInv
    BY Zenon DEF GuardInv, Scoped, PlainInv
  <2>2. UNCHANGED guardVars => UNCHANGED vars
    BY Zenon DEF guardVars, clientVars
  <2> QED
    BY <1>1, <2>1, <2>2, OwnershipStep, Zenon
<1> QED
  BY <1>2, GuardInvariant, PTL DEF GuardSpec, NeverStolenFromExecuting

(* Nobody works in ext4 or FAT as if nothing had happened after a thread   *)
(* was stopped half way: ext4 is poisoned, and nobody gets into FAT.       *)
THEOREM GuardsPoison == GuardSpec => []AbandonedIsPoisoned
<1>1. GuardInv => AbandonedIsPoisoned
  <2> SUFFICES ASSUME Scoped, Storage, NEW t \in Tasks, Executing(t), at[t] = "inside", abandoned
               PROVE  kind = "ext4" /\ poisoned
    BY Zenon DEF GuardInv, PlainInv, AbandonedIsPoisoned
  <2>1. owner = t
    BY HolderAlone, Zenon
  <2>2. poisoned
    BY <2>1, Zenon DEF Scoped, AbandonInv, Pending
  <2> QED
    BY <2>2, Zenon DEF Scoped, RefusedInv, Storage
<1> QED
  BY <1>1, GuardInvariant, PTL

(* A driver is taken out of service only if a thread stopped inside it. *)
THEOREM PoisonIsJustified == GuardSpec => []PoisonJustified
<1>1. GuardInv => PoisonJustified
  BY Zenon DEF GuardInv, Scoped, PlainInv, AbandonInv, PoisonJustified
<1> QED
  BY <1>1, GuardInvariant, PTL

(* No freed thread control block is named by the mutex or by an open scope. *)
THEOREM GuardOwnersLive == GuardSpec => []NoFreedOwner
<1>1. GuardInv => NoFreedOwner
  BY MutexAssumption, Zenon
     DEF GuardInv, Scoped, PlainInv, CollectInv, RecordInv, NoFreedOwner, MutexInv, TypeOK
<1> QED
  BY <1>1, GuardInvariant, PTL

(* The account service rebuilds what a killed thread left half-written     *)
(* before the body of the next scope runs.                                 *)
THEOREM AuthRebuilds == GuardSpec => []AuthRebuiltBeforeUse
<1>1. GuardInv => AuthRebuiltBeforeUse
  <2> SUFFICES ASSUME Scoped, kind = "auth", NEW t \in Tasks, Executing(t), at[t] = "inside"
               PROVE  ~torn
    BY Zenon DEF GuardInv, PlainInv, AuthRebuiltBeforeUse, RebuiltBeforeUse
  <2>1. owner = t
    BY HolderAlone, Zenon
  <2> QED
    BY <2>1, Zenon DEF Scoped, TornInv, Pending
<1> QED
  BY <1>1, GuardInvariant, PTL
=============================================================================
