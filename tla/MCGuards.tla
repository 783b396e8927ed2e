------------------------------ MODULE MCGuards ------------------------------
(* Two single-threaded processes and the reaper: an owner that dies, a     *)
(* second waiter and the exit hook contend for the guard.                  *)
EXTENDS Guards

CONSTANTS t1, t2, reaper

MCTasks == {t1, t2, reaper}
MCProcesses == {{t1}, {t2}}

=============================================================================
