------------------------- MODULE ProcessCollection -------------------------
(***************************************************************************)
(* The end of a process: kernel/task/pcb.cpp, kernel/task/reaper.cpp and   *)
(* wait4 in kernel/syscall/sys.cpp.  A process dies because a thread of it *)
(* exits or faults (kill_proc), because its last window is closed or its   *)
(* launch fails (kill_proc_deferred).  Its PCB is then contended for by    *)
(* the threads of the parent in wait4, by the reaper that drains its       *)
(* descriptors and collects it, and by launches that pin it.  The contest  *)
(* is decided by status, wait_owner, fd_cleanup_state and the preparation  *)
(* pins; PCB and TCB addresses are reused once they are freed.             *)
(*                                                                         *)
(* Every critical section, and every atomic access outside of one, is one  *)
(* action.  The EPID message of notify_parent_exit is left out: wait4      *)
(* rescans the list of children whether or not one arrives.                *)
(***************************************************************************)
EXTENDS TaskLifecycle, Naturals, FiniteSets

CONSTANTS
    Processes,
    First,       \* processes that run initially, children of Kernel
    ProcessOf,   \* [Tasks -> Processes]: parent_group
    Windows,     \* threads that open a window
    Kernel,      \* kernel_group
    Reaper,
    Gui,         \* the kernel thread that closes windows
    NULL,
    MaxLaunches, \* bound on the launches modelled
    MaxFaults    \* bound on the wait4 calls that fail with EFAULT

Actors == Tasks \cup {Reaper, Gui}

ASSUME CollectionAssumption ==
    /\ ProcessOf \in [Tasks -> Processes]
    /\ First \subseteq Processes /\ Windows \subseteq Tasks
    /\ Kernel \notin Processes
    /\ Reaper \notin Tasks /\ Gui \notin Tasks /\ Reaper # Gui
    /\ NULL \notin Processes \cup Actors
    /\ MaxLaunches \in Nat /\ MaxFaults \in Nat

VARIABLES
    status, wait_owner,
    cleanup,       \* fd_cleanup_state
    parent,        \* parent_task
    allocated,     \* PCBs that are not freed
    listed,        \* PCBs in pcb_group_queue and in their parent's child_pcb
    pin,           \* owner of the preparation pin of a process, or NULL
    construction,  \* the pin is the construction pin of a launch
    window,        \* threads whose window is open
    at, target,    \* statement an actor is at, and the PCB it works on
    seen,          \* what the draining reaper read: <<fd_cleanup_state, no wait_owner>>
    next,          \* the scan the reaper goes on with after this one
    faults,        \* wait4 calls that could not store the exit status
    reports,       \* history: wait4 calls that returned this process
    launches

pcbVars == <<status, wait_owner, cleanup, parent>>
listVars == <<allocated, listed>>
pinVars == <<pin, construction, window>>
histVars == <<reports, launches, faults>>
reaperVars == <<seen, next>>
vars == <<phase, pcbVars, listVars, pinVars, at, target, reaperVars, histVars>>

Members(p) == {t \in Tasks : ProcessOf[t] = p}

CollectionInit ==
    /\ phase = [t \in Tasks |-> IF ProcessOf[t] \in First THEN "live" ELSE "freed"]
    /\ status = [p \in Processes |-> "START"]
    /\ wait_owner = [p \in Processes |-> NULL]
    /\ cleanup = [p \in Processes |-> 0]
    /\ parent = [p \in Processes |-> Kernel]
    /\ allocated = First /\ listed = First
    /\ pin = [p \in Processes |-> NULL]
    /\ construction = [p \in Processes |-> FALSE]
    /\ window = {t \in Windows : ProcessOf[t] \in First}
    /\ at = [a \in Actors |-> IF a = Reaper THEN "claims" ELSE "user"]
    /\ target = [a \in Actors |-> NULL]
    /\ seen = <<0, FALSE>> /\ next = "find"
    /\ reports = [p \in Processes |-> 0]
    /\ launches = 0 /\ faults = 0
-----------------------------------------------------------------------------
Terminal(p) == status[p] \in {"DEATH", "ZOMBIE"}

Children(p) == {c \in listed : parent[c] = p}

\* Exit paths run with interrupts closed: their thread is not switched away.
IrqOff == {"exiting", "status", "mark", "zombie"}

\* Actor a, not stopped yet, is at this statement.
At(a, label) == at[a] = label /\ (a \in Tasks => Executing(a))

Go(a, label, p) ==
    /\ at' = [at EXCEPT ![a] = label]
    /\ target' = [target EXCEPT ![a] = p]

\* The end of a system call, or of the reaper's current scan.
Done(a) == Go(a, IF a = Reaper THEN next ELSE "user", NULL)

SetStatus(p, s) == status' = [status EXCEPT ![p] = s]
SetOwner(p, t) == wait_owner' = [wait_owner EXCEPT ![p] = t]
SetCleanup(p, n) == cleanup' = [cleanup EXCEPT ![p] = n]

\* scheduler_process_referenced.  A live thread of a terminal process has not
\* been marked yet, so the thread that marks it is still on a CPU.
Referenced(p) == \E t \in Members(p) : Executing(t)

\* process_current_on_cpu
CurrentOnCpu(p) == pin[p] # NULL \/ Referenced(p)

\* status := DEATH for these threads; one that runs goes on to its next switch.
MarkThreads(T) ==
    \E f \in [T -> {"dying", "stopped"}] :
        /\ \A t \in T : at[t] \in IrqOff => f[t] = "dying"
        /\ phase' = [t \in Tasks |-> IF t \in T /\ phase[t] = "live" THEN f[t] ELSE phase[t]]

\* kill_proc_deferred: adopt, mark the threads, publish DEATH, in one critical
\* section; nothing if the process has left the list.
Deferred(p) ==
    IF p \in listed
    THEN /\ parent' = [parent EXCEPT ![p] = Kernel]
         /\ MarkThreads(Members(p))
         /\ SetStatus(p, "DEATH")
    ELSE UNCHANGED <<parent, phase, status>>
-----------------------------------------------------------------------------
(* exit, exit_group, fatal signals and faults *)

\* sys_exit: the last live thread ends the process, another one only itself.
SysExit(t) ==
    /\ At(t, "user")
    /\ Go(t, IF \E u \in Members(ProcessOf[t]) \ {t} : phase[u] = "live" THEN "exiting" ELSE "status", NULL)
    /\ UNCHANGED <<phase, pcbVars, listVars, pinVars, reaperVars, histVars>>

ExitGroup(t) ==
    /\ At(t, "user")
    /\ Go(t, "status", NULL)
    /\ UNCHANGED <<phase, pcbVars, listVars, pinVars, reaperVars, histVars>>

\* kill_thread on the calling thread.
KillSelf(t) ==
    /\ At(t, "exiting")
    /\ phase' = [phase EXCEPT ![t] = "dying"]
    /\ Go(t, "exited", NULL)
    /\ UNCHANGED <<pcbVars, listVars, pinVars, reaperVars, histVars>>

\* kill_proc with is_zombie, statement by statement.
KillStatus(t) ==
    /\ At(t, "status")
    /\ SetStatus(ProcessOf[t], "DEATH")
    /\ Go(t, "mark", NULL)
    /\ UNCHANGED <<phase, wait_owner, cleanup, parent, listVars, pinVars, reaperVars, histVars>>

KillMark(t) ==
    /\ At(t, "mark")
    /\ MarkThreads(Members(ProcessOf[t]))
    /\ Go(t, "zombie", NULL)
    /\ UNCHANGED <<pcbVars, listVars, pinVars, reaperVars, histVars>>

KillZombie(t) ==
    /\ At(t, "zombie")
    /\ SetStatus(ProcessOf[t], "ZOMBIE")
    /\ Go(t, "exited", NULL)
    /\ UNCHANGED <<phase, wait_owner, cleanup, parent, listVars, pinVars, reaperVars, histVars>>

\* The last scheduler reference to a killed thread goes.
Switch(t) ==
    /\ at[t] \notin IrqOff
    /\ Stop(t)
    /\ UNCHANGED <<pcbVars, listVars, pinVars, at, target, reaperVars, histVars>>

\* process_close_window_thread: the window gate pins thread and process.  The
\* thread is marked ...
CloseWindow(t) ==
    LET p == ProcessOf[t]
    IN /\ at[Gui] = "user"
       /\ t \in window /\ p \in listed
       /\ window' = window \ {t}
       /\ MarkThreads({t})
       /\ Go(Gui, "close", p)
       /\ UNCHANGED <<pcbVars, listVars, pin, construction, reaperVars, histVars>>

\* ... then, under create_thread_lock, process and threads are looked at ...
CloseCheck ==
    LET p == target[Gui]
    IN /\ at[Gui] = "close"
       /\ IF Terminal(p) \/ \E u \in Members(p) : phase[u] = "live"
          THEN Done(Gui) ELSE Go(Gui, "last", p)
       /\ UNCHANGED <<phase, pcbVars, listVars, pinVars, reaperVars, histVars>>

\* ... and the process is ended when no live thread is left.
CloseDeferred ==
    LET p == target[Gui]
    IN /\ at[Gui] = "last"
       /\ Deferred(p)
       /\ Done(Gui)
       /\ UNCHANGED <<wait_owner, cleanup, listVars, pinVars, reaperVars, histVars>>
-----------------------------------------------------------------------------
(* Launching a child: create_user_process_with_options *)

CreateThreadLockFree == at[Gui] # "last"

\* process_preparation_acquire on the launcher's own process.
Acquire(t) ==
    LET p == ProcessOf[t]
    IN /\ At(t, "user") /\ phase[t] = "live"
       /\ CreateThreadLockFree
       /\ p \in listed /\ ~Terminal(p) /\ cleanup[p] = 0
       /\ pin[p] = NULL
       /\ launches < MaxLaunches
       /\ launches' = launches + 1
       /\ pin' = [pin EXCEPT ![p] = t]
       /\ construction' = [construction EXCEPT ![p] = FALSE]
       /\ Go(t, "create", NULL)
       /\ UNCHANGED <<phase, pcbVars, listVars, window, reaperVars, reports, faults>>

\* create_process_group_prepared publishes the child with its construction pin.
Create(t, c) ==
    LET p == ProcessOf[t]
    IN /\ At(t, "create") /\ CreateThreadLockFree
       /\ c \notin allocated /\ ~Terminal(p)
       /\ allocated' = allocated \cup {c} /\ listed' = listed \cup {c}
       /\ status' = [status EXCEPT ![c] = "START"]
       /\ wait_owner' = [wait_owner EXCEPT ![c] = NULL]
       /\ cleanup' = [cleanup EXCEPT ![c] = 0]
       /\ parent' = [parent EXCEPT ![c] = p]
       /\ pin' = [pin EXCEPT ![c] = t]
       /\ construction' = [construction EXCEPT ![c] = TRUE]
       /\ reports' = [reports EXCEPT ![c] = 0]
       /\ Go(t, "created", c)
       /\ UNCHANGED <<phase, window, reaperVars, launches, faults>>

\* Either way the pin on the own process goes.
ReleaseParent(t) ==
    /\ At(t, "create") \/ At(t, "created")
    /\ pin' = [pin EXCEPT ![ProcessOf[t]] = NULL]
    /\ IF at[t] = "created" THEN Go(t, "load", target[t]) ELSE Done(t)
    /\ UNCHANGED <<phase, pcbVars, listVars, construction, window, reaperVars, histVars>>

\* prepare_application_thread: the image is loaded, the first threads run.
Publish(t) ==
    LET c == target[t]
    IN /\ At(t, "load") /\ CreateThreadLockFree
       /\ ~Terminal(c) /\ cleanup[c] = 0
       /\ phase' = [u \in Tasks |-> IF u \in Members(c) THEN "live" ELSE phase[u]]
       /\ at' = [a \in Actors |-> IF a \in Members(c) THEN "user" ELSE IF a = t THEN "release" ELSE at[a]]
       /\ target' = [a \in Actors |-> IF a \in Members(c) THEN NULL ELSE target[a]]
       /\ window' = window \cup (Windows \cap Members(c))
       /\ UNCHANGED <<pcbVars, listVars, pin, construction, reaperVars, histVars>>

\* Any failure ends the child.
LaunchFails(t) ==
    /\ At(t, "load")
    /\ Deferred(target[t])
    /\ Go(t, "release", target[t])
    /\ UNCHANGED <<wait_owner, cleanup, listVars, pinVars, reaperVars, histVars>>

Release(t) ==
    /\ At(t, "release")
    /\ pin' = [pin EXCEPT ![target[t]] = NULL]
    /\ Done(t)
    /\ UNCHANGED <<phase, pcbVars, listVars, construction, window, reaperVars, histVars>>

Abandoned(p) == pin[p] # NULL /\ phase[pin[p]] = "stopped"

\* abandon_process_preparations on the pin of p; an unfinished child is ended.
Abandon(p) ==
    /\ Abandoned(p)
    /\ IF construction[p] THEN Deferred(p) ELSE UNCHANGED <<parent, phase, status>>
    /\ pin' = [pin EXCEPT ![p] = NULL]
    /\ UNCHANGED <<wait_owner, cleanup, listVars, construction, window, reaperVars, histVars>>
-----------------------------------------------------------------------------
(* wait4 *)

WaitEnter(t) ==
    /\ At(t, "user")
    /\ Children(ProcessOf[t]) # {}
    /\ Go(t, "wait", NULL)
    /\ UNCHANGED <<phase, pcbVars, listVars, pinVars, reaperVars, histVars>>

\* Mutant: only the entry of wait4 looks whether there are children.
WaitIgnoresNoChild(t) == FALSE

\* -ECHILD
WaitNoChild(t) ==
    /\ At(t, "wait")
    /\ Children(ProcessOf[t]) = {}
    /\ Done(t)
    /\ UNCHANGED <<phase, pcbVars, listVars, pinVars, reaperVars, histVars>>

\* wait4_find_zombie_child, under the lock of the list of children.
FindZombie(t, c) ==
    /\ At(t, "wait")
    /\ c \in Children(ProcessOf[t])
    /\ status[c] = "ZOMBIE" /\ wait_owner[c] = NULL
    /\ SetOwner(c, t)
    /\ SetStatus(c, "WAIT")
    /\ Go(t, "claimed", c)
    /\ UNCHANGED <<phase, cleanup, parent, listVars, pinVars, reaperVars, histVars>>

\* wait4_reap_child: the exit status cannot be stored and the claim is given up.
CopyFails(t) ==
    /\ At(t, "claimed") /\ faults < MaxFaults
    /\ faults' = faults + 1
    /\ SetOwner(target[t], NULL)
    /\ IF status[target[t]] = "WAIT" THEN SetStatus(target[t], "ZOMBIE") ELSE UNCHANGED status
    /\ Done(t)
    /\ UNCHANGED <<phase, cleanup, parent, listVars, pinVars, reaperVars, reports, launches>>
-----------------------------------------------------------------------------
(* process_complete_wait, by a thread in wait4 or by the reaper *)

\* claim_process_collection with transfer_waiter; no other thread can report
\* this exit from here on.
ClaimStatus(a) ==
    /\ At(a, "claimed")
    /\ SetStatus(target[a], "DEATH")
    /\ reports' = [reports EXCEPT ![target[a]] = IF a \in Tasks THEN @ + 1 ELSE @]
    /\ Go(a, "compete", target[a])
    /\ UNCHANGED <<phase, wait_owner, cleanup, parent, listVars, pinVars, reaperVars, launches, faults>>

\* Mutant: the drain in progress is not told that collection is wanted.
CompeteOverDrain(a) ==
    LET p == target[a]
    IN /\ At(a, "compete")
       /\ IF cleanup[p] \in {3, 4, 5}
          THEN UNCHANGED cleanup /\ Go(a, "yield", p)
          ELSE SetCleanup(p, 4) /\ Go(a, "take", p)
       /\ UNCHANGED <<phase, status, wait_owner, parent, listVars, pinVars, reaperVars, histVars>>

\* The compare-and-swap loop on fd_cleanup_state.
Compete(a) ==
    LET p == target[a]
    IN /\ At(a, "compete")
       /\ CASE cleanup[p] = 1 -> SetCleanup(p, 5) /\ Go(a, "yield", p)
            [] cleanup[p] \in {3, 4, 5} -> UNCHANGED cleanup /\ Go(a, "yield", p)
            [] OTHER -> SetCleanup(p, 4) /\ Go(a, "take", p)
       /\ UNCHANGED <<phase, status, wait_owner, parent, listVars, pinVars, reaperVars, histVars>>

\* wait_owner is given up, the last access of a caller that lost.
Transfer(a) ==
    /\ At(a, "yield") \/ At(a, "take")
    /\ SetOwner(target[a], NULL)
    /\ IF at[a] = "yield" THEN Done(a) ELSE Go(a, "check", target[a])
    /\ UNCHANGED <<phase, status, cleanup, parent, listVars, pinVars, reaperVars, histVars>>

\* Mutant: scheduler references are not looked at.
CheckIgnoresCpu(a) ==
    LET p == target[a]
    IN /\ At(a, "check")
       /\ IF pin[p] # NULL
          THEN UNCHANGED cleanup /\ Go(a, "defer", p)
          ELSE SetCleanup(p, 3) /\ Go(a, "collect", p)
       /\ UNCHANGED <<phase, status, wait_owner, parent, listVars, pinVars, reaperVars, histVars>>

\* A process that still runs or is pinned is left to the reaper.
Check(a) ==
    LET p == target[a]
    IN /\ At(a, "check")
       /\ IF CurrentOnCpu(p)
          THEN UNCHANGED cleanup /\ Go(a, "defer", p)
          ELSE SetCleanup(p, 3) /\ Go(a, "collect", p)
       /\ UNCHANGED <<phase, status, wait_owner, parent, listVars, pinVars, reaperVars, histVars>>

Defer(a) ==
    /\ At(a, "defer")
    /\ Deferred(target[a])
    /\ Go(a, "undo", target[a])
    /\ UNCHANGED <<wait_owner, cleanup, listVars, pinVars, reaperVars, histVars>>

\* Mutant: the exclusive preparation is never given up.
UndoNothing(a) ==
    /\ At(a, "undo")
    /\ Done(a)
    /\ UNCHANGED <<phase, pcbVars, listVars, pinVars, reaperVars, histVars>>

Undo(a) ==
    /\ At(a, "undo")
    /\ SetCleanup(target[a], 0)
    /\ Done(a)
    /\ UNCHANGED <<phase, status, wait_owner, parent, listVars, pinVars, reaperVars, histVars>>
-----------------------------------------------------------------------------
(* collect_quiesced_process *)

\* detach_process_child: withdraw the process unless it is claimed; its
\* children go to Kernel, the dead ones for the reaper to collect.
Detach(a) ==
    LET p == target[a]
        left == {c \in Children(p) : status[c] \in {"ZOMBIE", "WAIT"}}
    IN /\ At(a, "collect")
       /\ IF wait_owner[p] # NULL
          THEN Go(a, "redo", p) /\ UNCHANGED <<pcbVars, listed>>
          ELSE /\ listed' = listed \ {p}
               /\ parent' = [c \in Processes |-> IF c \in Children(p) THEN Kernel ELSE parent[c]]
               /\ status' = [c \in Processes |-> IF c \in left THEN "DEATH" ELSE status[c]]
               /\ wait_owner' = [c \in Processes |-> IF c \in left THEN NULL ELSE wait_owner[c]]
               /\ Go(a, "threads", p)
               /\ UNCHANGED cleanup
       /\ UNCHANGED <<phase, allocated, pinVars, reaperVars, histVars>>

Redo(a) ==
    /\ At(a, "redo")
    /\ SetCleanup(target[a], 2)
    /\ Done(a)
    /\ UNCHANGED <<phase, status, wait_owner, parent, listVars, pinVars, reaperVars, histVars>>

\* release_wait_claims: the claims these threads hold are given back.
ReleaseClaims(T) ==
    LET mine == {c \in listed : wait_owner[c] \in T}
    IN /\ wait_owner' = [c \in Processes |-> IF c \in mine THEN NULL ELSE wait_owner[c]]
       /\ status' = [c \in Processes |-> IF c \in mine /\ status[c] = "WAIT" THEN "ZOMBIE" ELSE status[c]]

\* kill_thread0: the pins of the threads are abandoned first ...
ThreadsAbandon(a, p) ==
    /\ At(a, "threads") /\ pin[p] \in Members(target[a])
    /\ Abandon(p)
    /\ UNCHANGED <<at, target>>

\* Mutant: the claims of the threads stay.
ThreadsKeepClaims(a) ==
    /\ At(a, "threads") /\ \A p \in Processes : pin[p] \notin Members(target[a])
    /\ Go(a, "free", target[a])
    /\ UNCHANGED <<phase, pcbVars, listVars, pinVars, reaperVars, histVars>>

\* ... then their claims; the exit hook has waited for the window gate.
Threads(a) ==
    /\ At(a, "threads") /\ \A p \in Processes : pin[p] \notin Members(target[a])
    /\ target[Gui] # target[a]
    /\ ReleaseClaims(Members(target[a]))
    /\ Go(a, "free", target[a])
    /\ UNCHANGED <<phase, cleanup, parent, listVars, pinVars, reaperVars, histVars>>

\* The threads and the PCB are freed.  (A thread that still ran would go on.)
FreeProcess(a) ==
    LET p == target[a]
    IN /\ At(a, "free")
       /\ phase' = [t \in Tasks |-> IF t \in Members(p) /\ ~Executing(t) THEN "freed" ELSE phase[t]]
       /\ allocated' = allocated \ {p}
       /\ window' = window \ Members(p)
       /\ Done(a)
       /\ UNCHANGED <<pcbVars, listed, pin, construction, reaperVars, histVars>>
-----------------------------------------------------------------------------
(* reaper_thread *)

\* process_reap_wait_claims
ReapClaims ==
    /\ at[Reaper] = "claims"
    /\ ReleaseClaims({t \in Tasks : phase[t] = "stopped"})
    /\ next' = "find"
    /\ Go(Reaper, "sweep", NULL)
    /\ UNCHANGED <<phase, cleanup, parent, listVars, pinVars, seen, histVars>>

\* abandon_process_preparations goes on until it finds none.
ReapAbandon(p) ==
    /\ at[Reaper] = "sweep"
    /\ Abandon(p)
    /\ UNCHANGED <<at, target>>

ReapSwept ==
    /\ at[Reaper] = "sweep"
    /\ \A p \in Processes : ~Abandoned(p)
    /\ Go(Reaper, "scan", NULL)
    /\ UNCHANGED <<phase, pcbVars, listVars, pinVars, reaperVars, histVars>>

Scannable(p) == p \in listed /\ Terminal(p) /\ ~CurrentOnCpu(p)
Drainable(p) == Scannable(p) /\ cleanup[p] = 0
Collectable(p) == Scannable(p) /\ cleanup[p] = 2 /\ status[p] = "DEATH" /\ wait_owner[p] = NULL

\* reap_quiesced_file_descriptors claims one process, to drain it ...
ScanDrain(p) ==
    /\ at[Reaper] = "scan" /\ Drainable(p)
    /\ SetCleanup(p, 1)
    /\ Go(Reaper, "drain", p)
    /\ UNCHANGED <<phase, status, wait_owner, parent, listVars, pinVars, reaperVars, histVars>>

\* ... or, once drained, to collect it.
ScanCollect(p) ==
    /\ at[Reaper] = "scan" /\ Collectable(p)
    /\ SetCleanup(p, 3)
    /\ Go(Reaper, "collect", p)
    /\ UNCHANGED <<phase, status, wait_owner, parent, listVars, pinVars, reaperVars, histVars>>

ScanNothing ==
    /\ at[Reaper] = "scan"
    /\ \A p \in Processes : ~Drainable(p) /\ ~Collectable(p)
    /\ Go(Reaper, "find", NULL)
    /\ UNCHANGED <<phase, pcbVars, listVars, pinVars, reaperVars, histVars>>

\* The descriptors are closed (FdLifetime.tla); then state and claim are read.
DrainRead ==
    /\ at[Reaper] = "drain"
    /\ seen' = <<cleanup[target[Reaper]], wait_owner[target[Reaper]] = NULL>>
    /\ Go(Reaper, "decide", target[Reaper])
    /\ UNCHANGED <<phase, pcbVars, listVars, pinVars, next, histVars>>

\* Mutant: a claim is not looked at.
DecideAlways ==
    LET p == target[Reaper]
    IN /\ at[Reaper] = "decide"
       /\ SetCleanup(p, 3) /\ Go(Reaper, "collect", p)
       /\ UNCHANGED <<phase, status, wait_owner, parent, listVars, pinVars, reaperVars, histVars>>

\* The drain pin becomes the collection pin, or is given up.
Decide ==
    LET p == target[Reaper]
        collect == seen[2] /\ (seen[1] = 5 \/ status[p] = "DEATH")
    IN /\ at[Reaper] = "decide"
       /\ IF cleanup[p] # seen[1] THEN UNCHANGED cleanup /\ Go(Reaper, "drain", p)
          ELSE IF collect THEN SetCleanup(p, 3) /\ Go(Reaper, "collect", p)
          ELSE SetCleanup(p, 2) /\ Go(Reaper, "find", NULL)
       /\ UNCHANGED <<phase, status, wait_owner, parent, listVars, pinVars, reaperVars, histVars>>

Reapable(p) ==
    /\ p \in Children(Kernel) /\ status[p] = "DEATH" /\ wait_owner[p] = NULL
    /\ cleanup[p] \notin {3, 4} /\ ~Referenced(p)

\* find_reapable_child, then process_complete_wait
FindReapable(p) ==
    /\ at[Reaper] = "find" /\ Reapable(p)
    /\ SetOwner(p, Reaper)
    /\ SetStatus(p, "WAIT")
    /\ next' = "claims"
    /\ Go(Reaper, "claimed", p)
    /\ UNCHANGED <<phase, cleanup, parent, listVars, pinVars, seen, histVars>>

\* An empty pass sleeps.
FindNothing ==
    /\ at[Reaper] = "find"
    /\ \A p \in Processes : ~Reapable(p)
    /\ Go(Reaper, "claims", NULL)
    /\ UNCHANGED <<phase, pcbVars, listVars, pinVars, reaperVars, histVars>>
-----------------------------------------------------------------------------
Collector(a) ==
    \/ ClaimStatus(a) \/ Compete(a) \/ Transfer(a) \/ Check(a) \/ Defer(a) \/ Undo(a)
    \/ Detach(a) \/ Redo(a) \/ Threads(a) \/ FreeProcess(a)
    \/ \E p \in Processes : ThreadsAbandon(a, p)

\* What a thread does on its own account ...
Call(t) == SysExit(t) \/ ExitGroup(t) \/ Acquire(t) \/ WaitEnter(t)

\* ... and the kernel code it then runs through.
Continue(t) ==
    \/ KillSelf(t) \/ KillStatus(t) \/ KillMark(t) \/ KillZombie(t)
    \/ ReleaseParent(t) \/ Publish(t) \/ LaunchFails(t) \/ Release(t)
    \/ \E c \in Processes : Create(t, c) \/ FindZombie(t, c)
    \/ WaitNoChild(t) \/ CopyFails(t)
    \/ Collector(t)

ReaperStep ==
    \/ ReapClaims \/ ReapSwept \/ ScanNothing \/ DrainRead \/ Decide \/ FindNothing
    \/ \E p \in Processes : ReapAbandon(p) \/ ScanDrain(p) \/ ScanCollect(p) \/ FindReapable(p)
    \/ Collector(Reaper)

GuiStep == CloseCheck \/ CloseDeferred

CollectionNext ==
    \/ \E t \in Tasks : Call(t) \/ Continue(t) \/ Switch(t) \/ CloseWindow(t)
    \/ ReaperStep \/ GuiStep

CollectionSpec == CollectionInit /\ [][CollectionNext]_vars

\* The reaper and the GUI are permanent threads; a thread inside the kernel goes
\* on or, once killed, leaves its CPU (Scheduler.tla).
CollectionFairness ==
    /\ WF_vars(ReaperStep) /\ WF_vars(GuiStep)
    /\ \A t \in Tasks : WF_vars((at[t] \notin {"user", "exited"} /\ Continue(t)) \/ Switch(t))

FairCollectionSpec == CollectionSpec /\ CollectionFairness
-----------------------------------------------------------------------------
Alive(a) == a \in Tasks => Executing(a)

\* Statements at which an actor owns the cleanup of its target.
Owning == {"take", "check", "defer", "undo", "collect", "redo", "threads", "free"}
Owns(a, p) == target[a] = p /\ at[a] \in Owning \cup {"drain", "decide"}

(***************************************************************************)
(* A PCB is not freed under anyone who still uses it: the actors of the    *)
(* contest for it, a launch that loads its image, and its own threads.     *)
(***************************************************************************)
NoFreedPcb ==
    /\ \A a \in Actors : Alive(a) /\ target[a] # NULL => target[a] \in allocated
    /\ \A t \in Tasks : Executing(t) => ProcessOf[t] \in allocated

(***************************************************************************)
(* fd_cleanup_state admits one owner: of all waiters and the reaper at     *)
(* most one drains, defers or collects a process at a time.                *)
(***************************************************************************)
OneOwner ==
    \A p \in Processes, a, b \in Actors : Owns(a, p) /\ Owns(b, p) => a = b

(***************************************************************************)
(* wait_owner and the owner of a preparation pin are followed to a TCB by  *)
(* the reaper; neither ever names a freed one.                             *)
(***************************************************************************)
NoFreedOwner ==
    \A p \in listed :
        /\ wait_owner[p] \in Tasks => phase[wait_owner[p]] # "freed"
        /\ pin[p] # NULL => phase[pin[p]] # "freed"

(***************************************************************************)
(* The exit status of a child is not thrown away: as long as its parent    *)
(* may ask for it, a child that exited is collected only after a wait4     *)
(* call has returned it.                                                   *)
(***************************************************************************)
ExitStatusKept ==
    \A p \in listed : cleanup[p] = 3 => reports[p] > 0 \/ parent[p] = Kernel

(***************************************************************************)
(* The exit of a child is returned by one wait4 call: "The parent          *)
(* child-list lock publishes one exclusive waiter."                        *)
(***************************************************************************)
ReportedOnce == \A p \in allocated : reports[p] <= 1

\* The collection of p was entrusted to a thread that was killed meanwhile.
Retained(p) == \E t \in Tasks : target[t] = p /\ at[t] \in Owning /\ ~Executing(t)

(***************************************************************************)
(* A dead process whose threads have all stopped is freed, whatever the    *)
(* waiters, launches and deferrals do, except when the thread that was     *)
(* collecting it is killed itself.                                         *)
(***************************************************************************)
DeadCollected ==
    \A p \in Processes :
        (p \in allocated /\ status[p] = "DEATH" /\ ~Referenced(p))
            ~> (p \notin allocated \/ Retained(p))

\* A thread in wait4 whose children have all exited, with none retained.
Hangs(t) ==
    /\ At(t, "wait") /\ \A c \in Children(ProcessOf[t]) : status[c] # "START"
    /\ \A c \in Processes : ~Retained(c)

(***************************************************************************)
(* wait4 does not hang on children that have all exited, even if another   *)
(* thread claimed one and was killed before it reported it.                *)
(***************************************************************************)
WaiterReturns == (\E t \in Tasks : Hangs(t)) ~> (\A t \in Tasks : ~Hangs(t))

(***************************************************************************)
(* What a collected process leaves behind is the reaper's: "Withdrawal     *)
(* already transferred every child node to the reaper."  So every child    *)
(* adopted by the kernel group is freed once it has exited.                *)
(***************************************************************************)
AdoptedCollected ==
    \A p \in Processes \ First :
        (p \in listed /\ parent[p] = Kernel /\ status[p] = "ZOMBIE" /\ ~Referenced(p))
            ~> (p \notin allocated \/ Retained(p))

=============================================================================
