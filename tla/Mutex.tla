------------------------------- MODULE Mutex -------------------------------
(***************************************************************************)
(* The yield-type mutex of kernel/task/mutex.cpp.  Every metadata access   *)
(* is made under the mutex's own spin lock, which also disables            *)
(* interrupts, so each critical section of that lock is one action.        *)
(* Between two of them the thread can be preempted, killed and stopped;    *)
(* a killed thread that is still on a CPU goes on executing (phase         *)
(* "dying") until the scheduler drops it.                                  *)
(*                                                                         *)
(* Spec lets threads call the operations in any order.  StorageGuard and   *)
(* RebuildableGuard reuse the operations under the discipline of their     *)
(* callers.                                                                *)
(***************************************************************************)
EXTENDS TaskLifecycle, Naturals

CONSTANTS
    NULL,       \* no owner
    MaxHeld     \* bound: nested acquisitions one thread attempts

ASSUME MutexAssumption ==
    /\ NULL \notin Tasks
    /\ MaxHeld \in Nat \ {0}

VARIABLES
    state,      \* MUTEX_UNLOCKED, MUTEX_LOCKED, MUTEX_DESTROYED
    owner,
    rcc,        \* recursion count
    rec,        \* whether the mutex is recursive
    pc,         \* where each thread is inside the mutex code
    recovered,  \* the *recovered result of mutex_lock_recoverable
    held        \* acquisitions the thread was granted and has not given back

mutexVars == <<state, owner, rcc>>  \* what changes after mutex_create
callerVars == <<pc, recovered, held>>
vars == <<phase, state, owner, rcc, rec, pc, recovered, held>>

\* mutex_create(mtx, recursive), and threads that have not called anything.
MutexInit(recursive) ==
    /\ state = "UNLOCKED"
    /\ owner = NULL
    /\ rcc = 0
    /\ rec = recursive
    /\ pc = [t \in Tasks |-> "ready"]
    /\ recovered = [t \in Tasks |-> FALSE]
    /\ held = [t \in Tasks |-> 0]

Goto(t, label) == pc' = [pc EXCEPT ![t] = label]

\* The lock was granted to t: rcc and the caller's own count move together.
Granted(t) ==
    /\ Goto(t, "ready")
    /\ held' = [held EXCEPT ![t] = @ + 1]

Refused(t) ==
    /\ Goto(t, "ready")
    /\ UNCHANGED <<mutexVars, held>>

(* The part mutex_lock and mutex_trylock share: everything but the busy case. *)
Acquire(t) ==
    \/ /\ state = "DESTROYED"                       \* -EINVAL
       /\ Refused(t)
    \/ /\ state # "DESTROYED" /\ owner = t /\ ~rec   \* -EDEADLK
       /\ Refused(t)
    \/ /\ state # "DESTROYED" /\ owner = t /\ rec
       /\ rcc' = rcc + 1
       /\ UNCHANGED <<state, owner>>
       /\ Granted(t)
    \/ /\ state = "UNLOCKED" /\ owner # t
       /\ state' = "LOCKED"
       /\ owner' = t
       /\ rcc' = 1
       /\ Granted(t)

Busy(t) == state = "LOCKED" /\ owner # t

\* One pass of the loop in mutex_lock; a busy mutex is retried after a yield.
mutex_lock(t) ==
    /\ (pc[t] = "ready" /\ held[t] < MaxHeld) \/ pc[t] = "lock"
    /\ \/ Acquire(t)
       \/ Busy(t) /\ Goto(t, "lock") /\ UNCHANGED <<mutexVars, held>>
    /\ UNCHANGED recovered

\* A direct call; -EBUSY leaves everything as it was.
mutex_trylock(t) ==
    /\ pc[t] = "ready" /\ held[t] < MaxHeld
    /\ Acquire(t)
    /\ UNCHANGED recovered

\* mutex_lock_recoverable, first half of its loop: the trylock.
lock_recoverable_try(t) ==
    /\ \/ pc[t] = "ready" /\ held[t] < MaxHeld /\ recovered' = [recovered EXCEPT ![t] = FALSE]
       \/ pc[t] = "try" /\ UNCHANGED recovered
    /\ \/ Acquire(t)
       \/ Busy(t) /\ Goto(t, "steal") /\ UNCHANGED <<mutexVars, held>>

\* Mutant: the owner's status alone is tested, not the scheduler's references.
OwnerIsTerminal == owner # NULL /\ phase[owner] \in {"dying", "stopped"}

\* status is terminal and no CPU refers to the owner any more.
OwnerHasStopped == owner # NULL /\ phase[owner] = "stopped"

\* Mutant: a stopped owner is waited for like any other.
StealWaits(t) ==
    /\ pc[t] = "steal"
    /\ Goto(t, "try")
    /\ UNCHANGED <<mutexVars, recovered, held>>

\* Second half: ownership passes from a stopped owner straight to the caller.
lock_recoverable_steal(t) ==
    /\ pc[t] = "steal"
    /\ IF state = "LOCKED" /\ OwnerHasStopped
       THEN /\ owner' = t
            /\ rcc' = 1
            /\ recovered' = [recovered EXCEPT ![t] = TRUE]
            /\ Granted(t)
            /\ UNCHANGED state
       ELSE /\ Goto(t, "try")
            /\ UNCHANGED <<mutexVars, recovered, held>>

\* -EPERM (not the owner) and -EINVAL (destroyed) change nothing.
mutex_unlock(t) ==
    /\ pc[t] = "ready"
    /\ state = "LOCKED" /\ owner = t /\ rcc # 0
    /\ rcc' = rcc - 1
    /\ held' = [held EXCEPT ![t] = @ - 1]
    /\ IF rcc = 1
       THEN owner' = NULL /\ state' = "UNLOCKED"
       ELSE UNCHANGED <<owner, state>>
    /\ UNCHANGED <<pc, recovered>>

\* -EBUSY while locked.
mutex_destroy(t) ==
    /\ pc[t] = "ready"
    /\ state # "LOCKED"
    /\ state' = "DESTROYED"
    /\ owner' = NULL
    /\ rcc' = 0
    /\ UNCHANGED callerVars

\* Mutant: a member of the process loses the mutex while it may still run.
AbortReleasesRunning(members) == state = "LOCKED" /\ owner \in members

\* mutex_abort_for_process for the members of one process; the result is
\* whether a stopped owner was cleared.
AbortReleases(members) == state = "LOCKED" /\ owner \in members /\ OwnerHasStopped

mutex_abort_for_process(members) ==
    IF AbortReleases(members)
    THEN state' = "UNLOCKED" /\ owner' = NULL /\ rcc' = 0
    ELSE UNCHANGED mutexVars
-----------------------------------------------------------------------------
Init == LifecycleInit /\ \E recursive \in BOOLEAN : MutexInit(recursive)

Run(t) ==
    /\ Executing(t)
    /\ \/ mutex_lock(t)
       \/ mutex_trylock(t)
       \/ lock_recoverable_try(t)
       \/ lock_recoverable_steal(t)
       \/ mutex_unlock(t)
       \/ mutex_destroy(t)
    /\ UNCHANGED <<phase, rec>>

\* An exit hook of the process that consists of the given threads.
AbortHook(members) ==
    /\ mutex_abort_for_process(members)
    /\ UNCHANGED <<phase, rec, callerVars>>

Die(t) == (Kill(t) \/ Stop(t)) /\ UNCHANGED <<mutexVars, rec, callerVars>>

Next ==
    \/ \E t \in Tasks : Run(t) \/ Die(t)
    \/ \E members \in SUBSET Tasks : AbortHook(members)

Spec == Init /\ [][Next]_vars
-----------------------------------------------------------------------------
TypeOK ==
    /\ phase \in [Tasks -> Phases]
    /\ state \in {"UNLOCKED", "LOCKED", "DESTROYED"}
    /\ owner \in Tasks \cup {NULL}
    /\ rcc \in Nat
    /\ rec \in BOOLEAN
    /\ pc \in [Tasks -> {"ready", "lock", "try", "steal"}]
    /\ recovered \in [Tasks -> BOOLEAN]
    /\ held \in [Tasks -> Nat]

(***************************************************************************)
(* A killed owner that is still on a CPU keeps the mutex to itself: two    *)
(* threads that still execute never both hold it, whatever kills,          *)
(* recoveries and exit hooks happen in between (mutex_owner_has_stopped_   *)
(* locked: "never steal its lock until it has actually stopped").          *)
(***************************************************************************)
MutualExclusion ==
    \A t, u \in Tasks :
        Executing(t) /\ Executing(u) /\ held[t] > 0 /\ held[u] > 0 => t = u

(***************************************************************************)
(* The recursion count is what the executing owner is still to unlock, and *)
(* a thread that holds anything is the recorded owner: no unlock of a      *)
(* nested scope releases the outer one, and none is refused with -EPERM.   *)
(***************************************************************************)
CountMatchesHolder ==
    \A t \in Tasks :
        Executing(t) /\ held[t] > 0 => state = "LOCKED" /\ owner = t /\ rcc = held[t]

(***************************************************************************)
(* Ownership leaves a thread only by its own unlock, or after the thread   *)
(* has stopped (recovery and mutex_abort_for_process).                     *)
(***************************************************************************)
NeverStolenFromExecuting ==
    [][\A t \in Tasks :
         owner = t /\ owner' # t => phase[t] = "stopped" \/ held'[t] = 0]_vars

=============================================================================
