-------------------------- MODULE RebuildableGuard --------------------------
(***************************************************************************)
(* Recoverable mutexes around state that can be rebuilt: the account       *)
(* service (kernel/user/user_auth.cpp) and the input method                *)
(* (kernel/input_method.cpp).  Whoever is told that the previous owner     *)
(* died discards the half-written state (reset_abandoned_service;          *)
(* config_loaded = false and fail_open_locked).  The two differ in their   *)
(* exit hook: user_auth_process_exit just opens a scope of its own, while  *)
(* ime_process_exit first calls mutex_abort_for_process and then opens     *)
(* the scope.                                                              *)
(***************************************************************************)
EXTENDS GuardClients

VARIABLE hook_abandoned  \* the local "abandoned" of ime_process_exit

RebuildInit == hook_abandoned = FALSE

Rebuildable == kind \in {"auth", "ime"}

\* bool abandoned = mutex_abort_for_process(&ime_lock, process);
Abort ==
    /\ Step(Reaper, "abort", "locking")
    /\ hook_abandoned' = AbortReleases(collecting)
    /\ mutex_abort_for_process(collecting)
    /\ UNCHANGED <<callerVars, ghostVars>>

\* Mutant: the constructor ignores the *recovered result.
ToldByHook(t) == t = Reaper /\ hook_abandoned

Told(t) == recovered[t] \/ (t = Reaper /\ hook_abandoned)

\* The guard's constructor, and the hook's own test after it.
RebuildCheck(t) ==
    /\ Step(t, "check", IF Told(t) THEN "rebuild" ELSE "inside")
    /\ UNCHANGED <<mutexVars, callerVars, ghostVars, hook_abandoned>>

Rebuild(t) ==
    /\ Step(t, "rebuild", "inside")
    /\ torn' = FALSE
    /\ UNCHANGED <<mutexVars, callerVars, abandoned, hook_abandoned>>

\* The scope's body ends; its destructor unlocks.
Leave(t) ==
    /\ Step(t, "inside", "unlock")
    /\ UNCHANGED <<mutexVars, callerVars, ghostVars, hook_abandoned>>

RebuildProceed(t) ==
    /\ Rebuildable
    /\ \/ (Lock(t) \/ Unlock(t)) /\ UNCHANGED hook_abandoned
       \/ RebuildCheck(t) \/ Rebuild(t) \/ Leave(t)
-----------------------------------------------------------------------------
\* Nobody works on state a killed thread left half-written: it is rebuilt
\* before the next scope's body runs.
RebuiltBeforeUse ==
    \A t \in Tasks : Executing(t) /\ at[t] = "inside" => ~torn

=============================================================================
