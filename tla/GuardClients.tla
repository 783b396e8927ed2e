---------------------------- MODULE GuardClients ----------------------------
(***************************************************************************)
(* What the users of a recoverable mutex have in common: threads that open *)
(* scopes, are killed and stopped at any statement of them, and a reaper   *)
(* that runs an exit hook for a stopped process before it frees the thread *)
(* control blocks, whose addresses a new process may get again.            *)
(* StorageGuard and RebuildableGuard add the scopes themselves, Guards the *)
(* next-state relation.                                                    *)
(***************************************************************************)
EXTENDS Mutex

CONSTANTS
    Kinds,        \* of "plain" (a mutex without a guard), "ext4", "fat", "auth", "ime"
    Processes,    \* a partition of the killable threads
    Reaper,       \* the kernel thread that collects processes
    MaxEntries    \* bound: scopes opened per thread address

ASSUME ClientAssumption ==
    /\ Kinds \subseteq {"plain", "ext4", "fat", "auth", "ime"}
    /\ UNION Processes = Tasks \ {Reaper}
    /\ \A p, q \in Processes : p # q => p \cap q = {}
    /\ Reaper \in Tasks
    /\ NULL \notin Processes
    /\ MaxEntries \in Nat

VARIABLES
    kind,         \* which guard this is
    at,           \* statement of the scope each thread is at
    collecting,   \* process the reaper is running the exit hook for
    entries,      \* scopes opened so far by each thread address
    abandoned,    \* history: some thread stopped while it owned the mutex
    torn          \* some thread stopped in the body of a scope, and nobody
                  \* has rebuilt the protected state since

ghostVars == <<abandoned, torn>>
fixedVars == <<rec, kind>>
clientVars == <<vars, kind, at, collecting, entries, ghostVars>>

ClientInit ==
    /\ LifecycleInit
    /\ kind \in Kinds
    /\ \E recursive \in IF kind = "plain" THEN BOOLEAN ELSE {kind # "ime"} : MutexInit(recursive)
    /\ at = [t \in Tasks |-> "out"]
    /\ collecting = NULL
    /\ entries = [t \in Tasks |-> 0]
    /\ abandoned = FALSE
    /\ torn = FALSE

\* Thread t, still executing, moves from one statement to another.
Step(t, from, to) ==
    /\ Executing(t)
    /\ at[t] = from
    /\ at' = [at EXCEPT ![t] = to]
    /\ UNCHANGED <<phase, fixedVars, collecting, entries>>

\* A scope opens, outermost or inside another scope of the same thread.
Enter(t) ==
    /\ Executing(t) /\ t # Reaper
    /\ at[t] = "out" \/ (at[t] = "inside" /\ rec /\ held[t] < MaxHeld)
    /\ entries[t] < MaxEntries
    /\ at' = [at EXCEPT ![t] = "locking"]
    /\ entries' = [entries EXCEPT ![t] = @ + 1]
    /\ UNCHANGED <<vars, kind, collecting, ghostVars>>

\* One step of the loop of mutex_lock_recoverable(&lock, &recovered).
Lock(t) ==
    /\ lock_recoverable_try(t) \/ lock_recoverable_steal(t)
    /\ Step(t, "locking", IF pc'[t] = "ready" THEN "check" ELSE "locking")
    /\ UNCHANGED ghostVars

Unlock(t) ==
    /\ mutex_unlock(t)
    /\ Step(t, "unlock", IF held'[t] = 0 THEN "out" ELSE "inside")
    /\ UNCHANGED ghostVars

\* What t leaves behind if this step stops it.
Abandon(t) ==
    LET stops == owner = t /\ phase'[t] = "stopped"
    IN /\ abandoned' = (abandoned \/ stops)
       /\ torn' = (torn \/ (stops /\ at[t] = "inside"))

ClientKill(t) ==
    /\ t # Reaper
    /\ Kill(t)
    /\ Abandon(t)
    /\ UNCHANGED <<mutexVars, callerVars, fixedVars, at, collecting, entries>>

ClientStop(t) ==
    /\ Stop(t)
    /\ Abandon(t)
    /\ UNCHANGED <<mutexVars, callerVars, fixedVars, at, collecting, entries>>

\* Mutant: the process is collected without its exit hook.
CollectWithoutHook(p, first) ==
    /\ collecting = NULL
    /\ \A t \in p : phase[t] = "stopped"
    /\ collecting' = p
    /\ UNCHANGED <<vars, kind, at, entries, ghostVars>>

\* collect_quiesced_process calls the exit hook, which starts at "first".
CollectBegin(p, first) ==
    /\ collecting = NULL
    /\ \A t \in p : phase[t] = "stopped"
    /\ collecting' = p
    /\ at' = [at EXCEPT ![Reaper] = first]
    /\ UNCHANGED <<vars, kind, entries, ghostVars>>

\* The hook has returned: kill_thread0 and free for every thread.
CollectEnd ==
    /\ collecting # NULL /\ at[Reaper] = "out"
    /\ phase' = [t \in Tasks |-> IF t \in collecting THEN "freed" ELSE phase[t]]
    /\ collecting' = NULL
    /\ UNCHANGED <<mutexVars, callerVars, fixedVars, at, entries, ghostVars>>

\* A new process reuses the freed blocks: zeroed thread state.
Recreate(p) ==
    /\ \A t \in p : phase[t] = "freed"
    /\ phase' = [t \in Tasks |-> IF t \in p THEN "live" ELSE phase[t]]
    /\ pc' = [t \in Tasks |-> IF t \in p THEN "ready" ELSE pc[t]]
    /\ recovered' = [t \in Tasks |-> recovered[t] /\ t \notin p]
    /\ held' = [t \in Tasks |-> IF t \in p THEN 0 ELSE held[t]]
    /\ at' = [t \in Tasks |-> IF t \in p THEN "out" ELSE at[t]]
    /\ UNCHANGED <<mutexVars, fixedVars, collecting, entries, ghostVars>>

=============================================================================
