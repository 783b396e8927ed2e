--------------------------- MODULE TaskLifecycle ---------------------------
(***************************************************************************)
(* What the scheduler promises the rest of the kernel about the life of a  *)
(* thread control block.  A task whose status is DEATH or OUT may still be *)
(* finishing a kernel call on some CPU ("dying"); once                     *)
(* scheduler_task_referenced reports it neither current, selected nor      *)
(* previous anywhere it is "stopped", executes no further instruction and  *)
(* may be freed.  A freed block may be handed out again by the heap, so    *)
(* the same address can later name a new, live task.                       *)
(*                                                                         *)
(* Scheduler.tla implements this specification; the components that        *)
(* recover what a dead task left behind are modelled above it.             *)
(***************************************************************************)

CONSTANT Tasks

VARIABLE phase

Phases == {"live", "dying", "stopped", "freed"}

LifecycleInit == phase = [t \in Tasks |-> "live"]

\* A task still executes instructions: it is live, or terminal but referenced.
Executing(t) == phase[t] \in {"live", "dying"}

\* status := DEATH.  A task no CPU refers to stops in the same step.
Kill(t) ==
    /\ phase[t] = "live"
    /\ \E p \in {"dying", "stopped"} : phase' = [phase EXCEPT ![t] = p]

\* The last scheduler reference to a terminal task is dropped.
Stop(t) ==
    /\ phase[t] = "dying"
    /\ phase' = [phase EXCEPT ![t] = "stopped"]

\* free(thread) at the end of collect_quiesced_process.
Free(t) ==
    /\ phase[t] = "stopped"
    /\ phase' = [phase EXCEPT ![t] = "freed"]

\* The heap hands the same block out for a new thread.
Recycle(t) ==
    /\ phase[t] = "freed"
    /\ phase' = [phase EXCEPT ![t] = "live"]

LifecycleNext == \E t \in Tasks : Kill(t) \/ Stop(t) \/ Free(t) \/ Recycle(t)

LifecycleSpec == LifecycleInit /\ [][LifecycleNext]_phase

=============================================================================
