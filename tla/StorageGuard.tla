---------------------------- MODULE StorageGuard ----------------------------
(***************************************************************************)
(* The operation guard of the ext4 and FAT drivers.  Every entry into the  *)
(* driver takes a recursive, recoverable mutex and then checks a second    *)
(* record of who is inside (operation_owner, operation_depth); evidence    *)
(* that a killed thread left the driver half way latches the driver as     *)
(* poisoned until reboot.  Process collection enters the guard once more   *)
(* (ext4fs_quiescent_exit, fatfs_quiescent_exit) before the thread control *)
(* blocks of the process are freed and their addresses can be reused.      *)
(*                                                                         *)
(* The statements of the guard are separate steps: the thread may be       *)
(* killed and stopped between any two of them.                             *)
(***************************************************************************)
EXTENDS GuardClients

VARIABLES
    operation_owner,
    operation_depth,
    storage_depth,    \* task->ime_storage_depth
    poisoned          \* operation_poisoned, fatfs_poisoned

scopeVars == <<operation_owner, operation_depth, storage_depth, poisoned>>

StorageInit ==
    /\ operation_owner = NULL
    /\ operation_depth = 0
    /\ storage_depth = [t \in Tasks |-> 0]
    /\ poisoned = FALSE

Storage == kind \in {"ext4", "fat"}

\* A statement that touches neither the mutex nor its caller's record of it.
Statement(t, from, to) == Step(t, from, to) /\ UNCHANGED <<mutexVars, callerVars, ghostVars>>

\* Mutants: one sign only, or nesting taken for a sign.
SeesOpenScope(t) == operation_depth # 0 /\ operation_owner # t
SeesNesting(t) == recovered[t] \/ operation_depth # 0

\* Either sign of abandonment resets the scope record.
SeesAbandonment(t) == recovered[t] \/ (operation_depth # 0 /\ operation_owner # t)

StorageCheck(t) ==
    IF SeesAbandonment(t)
    THEN /\ Statement(t, "check", "poison")
         /\ operation_depth' = 0
         /\ operation_owner' = NULL
         /\ UNCHANGED <<storage_depth, poisoned>>
    ELSE /\ Statement(t, "check", "publish")
         /\ UNCHANGED scopeVars

\* poison_operations, fatfs_poison.
Poison(t) ==
    /\ Statement(t, "poison", "publish")
    /\ poisoned' = TRUE
    /\ UNCHANGED <<operation_owner, operation_depth, storage_depth>>

\* fatfs_lock turns callers away, ext4's Guard leaves that to the operation.
Refuse == kind = "fat" /\ poisoned

\* operation_owner = task, or the early return of fatfs_lock.
Publish(t) ==
    /\ IF Refuse
       THEN Statement(t, "publish", "unlock") /\ UNCHANGED operation_owner
       ELSE Statement(t, "publish", "count") /\ operation_owner' = t
    /\ UNCHANGED <<operation_depth, storage_depth, poisoned>>

Count(t) ==
    /\ Statement(t, "count", "inside")
    /\ operation_depth' = operation_depth + 1
    /\ storage_depth' = [storage_depth EXCEPT ![t] = @ + 1]
    /\ UNCHANGED <<operation_owner, poisoned>>

LastScope(t) == operation_owner = t /\ operation_depth = 1

\* ~Guard, fatfs_unlock: the scope count first, the mutex last.
Uncount(t) ==
    /\ Statement(t, "inside", IF LastScope(t) THEN "clear" ELSE "unlock")
    /\ operation_depth' = IF operation_owner = t /\ operation_depth # 0
                          THEN operation_depth - 1 ELSE operation_depth
    /\ storage_depth' = [storage_depth EXCEPT ![t] = @ - 1]
    /\ UNCHANGED <<operation_owner, poisoned>>

Clear(t) ==
    /\ Statement(t, "clear", "unlock")
    /\ operation_owner' = NULL
    /\ UNCHANGED <<operation_depth, storage_depth, poisoned>>

\* The statements a thread that has entered the guard will execute.
StorageProceed(t) ==
    /\ Storage
    /\ \/ (Lock(t) \/ Unlock(t)) /\ UNCHANGED scopeVars
       \/ StorageCheck(t) \/ Poison(t) \/ Publish(t) \/ Count(t) \/ Uncount(t) \/ Clear(t)

StorageRecreate(p) ==
    /\ Recreate(p)
    /\ storage_depth' = [t \in Tasks |-> IF t \in p THEN 0 ELSE storage_depth[t]]
    /\ UNCHANGED <<operation_owner, operation_depth, poisoned>>
-----------------------------------------------------------------------------
(***************************************************************************)
(* "That memory must never resume as a normal mount": whoever is inside    *)
(* ext4 after some thread was stopped half way finds it poisoned, and      *)
(* nobody gets into FAT any more.                                          *)
(***************************************************************************)
AbandonedIsPoisoned ==
    Storage => \A t \in Tasks :
        Executing(t) /\ at[t] = "inside" /\ abandoned => kind = "ext4" /\ poisoned

(***************************************************************************)
(* The latch is never set by recursion or by an orderly exit: a driver is  *)
(* taken out of service only if a thread really stopped inside it.         *)
(***************************************************************************)
PoisonJustified == poisoned => abandoned

=============================================================================
