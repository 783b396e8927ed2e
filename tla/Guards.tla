------------------------------- MODULE Guards -------------------------------
(***************************************************************************)
(* The guards of StorageGuard and RebuildableGuard under their clients:    *)
(* threads that enter them, are killed anywhere inside and are collected   *)
(* by the reaper through the exit hook of the guard.  The kind "plain" is  *)
(* the mutex by itself, under any order of calls, kills and exit hooks.    *)
(***************************************************************************)
EXTENDS StorageGuard, RebuildableGuard

guardVars == <<clientVars, scopeVars, hook_abandoned>>
recordVars == <<scopeVars, hook_abandoned>>

GuardInit == ClientInit /\ StorageInit /\ RebuildInit

Proceed(t) ==
    \/ StorageProceed(t) /\ UNCHANGED hook_abandoned
    \/ RebuildProceed(t) /\ UNCHANGED scopeVars

\* ext4fs_quiescent_exit, fatfs_quiescent_exit and user_auth_process_exit open
\* one more scope; ime_process_exit calls mutex_abort_for_process before that.
RunExitHook(p) ==
    /\ CollectBegin(p, IF kind = "ime" THEN "abort" ELSE "locking")
    /\ hook_abandoned' = FALSE
    /\ UNCHANGED scopeVars

ReaperContinues ==
    \/ Abort /\ UNCHANGED scopeVars
    \/ CollectEnd /\ UNCHANGED recordVars

\* A mutex without a guard: its callers and the exit hooks do as they like.
Plain == kind = "plain" /\ Next /\ UNCHANGED <<kind, at, collecting, entries, ghostVars, recordVars>>

Guarded ==
    \/ \E t \in Tasks : Proceed(t)
    \/ \E t \in Tasks : (Enter(t) \/ ClientKill(t) \/ ClientStop(t)) /\ UNCHANGED recordVars
    \/ \E p \in Processes : RunExitHook(p)
    \/ ReaperContinues
    \/ \E p \in Processes : StorageRecreate(p) /\ UNCHANGED hook_abandoned

GuardNext == Plain \/ (kind # "plain" /\ Guarded)

\* A runnable thread runs again, a terminal one is eventually descheduled,
\* and the reaper, which is never killed, keeps going.
GuardFairness ==
    /\ \A t \in Tasks : /\ WF_guardVars(Proceed(t))
                        /\ WF_guardVars(kind # "plain" /\ ClientStop(t) /\ UNCHANGED recordVars)
    /\ WF_guardVars(ReaperContinues)

GuardSpec == GuardInit /\ [][GuardNext]_guardVars /\ GuardFairness
-----------------------------------------------------------------------------
(***************************************************************************)
(* No record of ownership names a freed thread control block: neither the  *)
(* mutex owner that a waiter inspects in mutex_owner_has_stopped_locked    *)
(* ("its process-exit hook must clear this owner before freeing the TCB")  *)
(* nor an open scope, whose owner test a thread at the reused address      *)
(* would silently pass.                                                    *)
(***************************************************************************)
NoFreedOwner ==
    /\ owner # NULL => phase[owner] # "freed"
    /\ operation_depth # 0 => phase[operation_owner] # "freed"

(***************************************************************************)
(* The account service rebuilds what a killed thread left half-written     *)
(* before the next scope's body runs.  user_auth_process_exit: "Do not     *)
(* independently unlock the mutex and leave a race before damaged crypto   *)
(* is discarded."                                                          *)
(***************************************************************************)
AuthRebuiltBeforeUse == kind = "auth" => RebuiltBeforeUse

(***************************************************************************)
(* The same of the input method.  mutex.cpp: "Publishing UNLOCKED first    *)
(* would let a second waiter enter without learning that state recovery is *)
(* required, before this recoverer can rebuild or poison it."              *)
(***************************************************************************)
ImeRebuiltBeforeUse == kind = "ime" => RebuiltBeforeUse

(***************************************************************************)
(* The exit hook always gets through the guard, whatever the thread it is  *)
(* cleaning up after held: collection never waits for a dead owner.        *)
(***************************************************************************)
ExitHookReturns == (collecting # NULL) ~> (collecting = NULL)

=============================================================================
