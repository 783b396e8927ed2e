---------------------------- MODULE MCScheduler ----------------------------
(* Two CPUs and one thread, which either of them may be given.             *)
EXTENDS Scheduler, TLC

CONSTANTS c1, c2, idle1, idle2, t1, g1

MCIdle == (c1 :> idle1) @@ (c2 :> idle2)
MCParentGroup == t1 :> g1

=============================================================================
