---------------------------- MODULE MCFdLifetime ----------------------------
(* Two processes, of one thread each, that share a descriptor table.       *)
EXTENDS FdLifetime, TLC

CONSTANTS t1, t2, p1, p2, tb1

MCProcessOf == (t1 :> p1) @@ (t2 :> p2)
SharedTable == (p1 :> tb1) @@ (p2 :> tb1)

=============================================================================
