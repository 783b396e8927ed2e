----------------------------- MODULE FdLifetime -----------------------------
(***************************************************************************)
(* kernel/syscall/fd_lifetime.cpp: descriptor tables and operation         *)
(* tickets.  A file handle is owned by the table entry that names it; a    *)
(* system call that uses it holds a ticket (FdOperationRecord).  Closing a *)
(* descriptor detaches the entry, then retires the handle: the handle is   *)
(* closed and freed at once if no ticket is left, otherwise by whoever     *)
(* removes the last ticket.  Threads are killed at any statement in        *)
(* between; the reaper removes the tickets of stopped threads and drains   *)
(* the tables of dead processes.                                           *)
(*                                                                         *)
(* Every critical section of registry_lock is one action.  Handle and      *)
(* ticket addresses are reused as soon as they are freed.                  *)
(***************************************************************************)
EXTENDS TaskLifecycle, Naturals, FiniteSets

CONSTANTS
    Processes,
    ProcessOf,     \* [Tasks -> Processes]: parent_group
    Tables,
    InitialTable,  \* [Processes -> Tables]: CLONE_FILES shares one
    Handles,       \* addresses of fd_file_handle
    Tickets,       \* addresses of FdOperationRecord
    MaxFd,         \* descriptor numbers are 0..MaxFd
    Reaper,
    Worker,        \* the kernel thread that owns transferred tickets
    NULL

Fds == 0..MaxFd
Actors == Tasks \cup {Reaper, Worker}

ASSUME FdAssumption ==
    /\ IsFiniteSet(Processes)
    /\ ProcessOf \in [Tasks -> Processes]
    /\ InitialTable \in [Processes -> Tables]
    /\ MaxFd \in Nat
    /\ Reaper \notin Tasks /\ Worker \notin Tasks /\ Reaper # Worker
    /\ NULL \notin Tables \cup Handles \cup Tickets \cup Processes \cup Actors \cup Nat

VARIABLES
    dead,        \* process->status is DEATH, ZOMBIE or OUT
    file_open,   \* process->file_open
    refs,        \* *file_open_shared_refs of a table
    destroyed,   \* tables freed by queue_destroy
    entry,       \* [Tables -> [Fds -> handle]]: the descriptor table
    allocated,   \* handles that are not freed
    handle, owner, retired,   \* the fields of each linked ticket
    at, hand,    \* statement an actor is at, and the handle in its hands
    op,          \* record_ of the FdOperation the thread has open
    published,   \* number under which pipe2 published the handle of op
    stage,       \* where the reaper is in draining a process
    draining,    \* that process
    dtable,      \* and the table it detached
    drained,     \* processes whose descriptors are drained
    orphan       \* history: handles whose closer was stopped half way

ticketVars == <<handle, owner, retired>>
tableVars == <<file_open, refs, destroyed, entry>>
actorVars == <<at, hand, op, published>>
drainVars == <<stage, draining, dtable, drained>>
fdVars == <<phase, dead, tableVars, allocated, ticketVars, actorVars, drainVars, orphan>>

\* One reference for every process that uses the table.
TableRefs(tb) == Cardinality({p \in Processes : InitialTable[p] = tb})

FdInit ==
    /\ LifecycleInit
    /\ dead = {}
    /\ file_open = InitialTable
    /\ refs = [tb \in Tables |-> TableRefs(tb)]
    /\ destroyed = {}
    /\ entry = [tb \in Tables |-> [fd \in Fds |-> NULL]]
    /\ allocated = {}
    /\ handle = [k \in Tickets |-> NULL]
    /\ owner = [k \in Tickets |-> NULL]
    /\ retired = [k \in Tickets |-> FALSE]
    /\ at = [a \in Actors |-> "idle"]
    /\ hand = [a \in Actors |-> NULL]
    /\ op = [t \in Tasks |-> NULL]
    /\ published = [t \in Tasks |-> NULL]
    /\ stage = "idle" /\ draining = NULL /\ dtable = NULL
    /\ drained = {}
    /\ orphan = {}
-----------------------------------------------------------------------------
Runs(a) == a \in Tasks => Executing(a)

Idle(a) == Runs(a) /\ at[a] = "idle"

\* Actor a goes on with handle h in its hands; "idle" with none.
Hold(a, label, h) ==
    /\ at' = [at EXCEPT ![a] = label]
    /\ hand' = [hand EXCEPT ![a] = h]

Linked == {k \in Tickets : handle[k] # NULL}

Pins(h) == {k \in Tickets : handle[k] = h}

Link(k, h, t) ==
    /\ handle' = [handle EXCEPT ![k] = h]
    /\ owner' = [owner EXCEPT ![k] = t]
    /\ retired' = [retired EXCEPT ![k] = FALSE]

Unlink(k) ==
    /\ handle' = [handle EXCEPT ![k] = NULL]
    /\ owner' = [owner EXCEPT ![k] = NULL]
    /\ retired' = [retired EXCEPT ![k] = FALSE]

\* Mutants: other tickets are not looked for, or the handle is never returned.
RemoveShared(a, k) ==
    /\ Unlink(k)
    /\ IF retired[k] THEN Hold(a, "finish", handle[k]) ELSE UNCHANGED <<at, hand>>
RemoveSilently(a, k) == Unlink(k) /\ UNCHANGED <<at, hand>>

\* remove_record_locked: the last ticket of a retired handle leaves it to the
\* caller to finish.
Remove(a, k) ==
    /\ Unlink(k)
    /\ IF retired[k] /\ Pins(handle[k]) = {k}
       THEN Hold(a, "finish", handle[k])
       ELSE UNCHANGED <<at, hand>>

SetEntry(tb, fd, h) == entry' = [entry EXCEPT ![tb][fd] = h]

\* A system call has allocated a handle (open, dup, pipe2 ...).
MakeHandle(t) ==
    /\ Idle(t)
    /\ \E h \in Handles \ allocated :
          /\ allocated' = allocated \cup {h}
          /\ Hold(t, "install", h)
    /\ UNCHANGED <<phase, dead, tableVars, ticketVars, op, published, drainVars, orphan>>

\* The number fd_install_handle uses: the lowest free one unless exact.
Number(tb, minimum, exact, fd) ==
    IF exact THEN fd = minimum
    ELSE /\ fd >= minimum /\ entry[tb][fd] = NULL
         /\ \A g \in minimum..(fd - 1) : entry[tb][g] # NULL

\* fd_install_handle; a publisher's ticket is linked in the same critical section.
Install(t, minimum, exact, k) ==
    LET p == ProcessOf[t]
        tb == file_open[p]
    IN /\ Runs(t) /\ at[t] = "install"
       /\ tb # NULL /\ p \notin dead
       /\ \E fd \in Fds :
             /\ Number(tb, minimum, exact, fd)
             /\ SetEntry(tb, fd, hand[t])
             /\ IF entry[tb][fd] = NULL THEN Hold(t, "idle", NULL)
                ELSE Hold(t, "retire", entry[tb][fd])
             /\ IF k = NULL
                THEN UNCHANGED <<ticketVars, op, published>>
                ELSE /\ op[t] = NULL /\ ~exact
                     /\ k \in Tickets \ Linked
                     /\ Link(k, hand[t], t)
                     /\ op' = [op EXCEPT ![t] = k]
                     /\ published' = [published EXCEPT ![t] = fd]
       /\ UNCHANGED <<phase, dead, file_open, refs, destroyed, allocated, drainVars, orphan>>

\* No memory, no table, a dead process or no number left: the caller retires
\* the handle it made.
InstallFails(t) ==
    /\ Runs(t) /\ at[t] = "install"
    /\ Hold(t, "retire", hand[t])
    /\ UNCHANGED <<phase, dead, tableVars, allocated, ticketVars, op, published, drainVars, orphan>>

\* fd_detach_matching, as close, close_range and exec call it.
Detach(t, fd) ==
    LET tb == file_open[ProcessOf[t]]
    IN /\ Idle(t) /\ op[t] = NULL
       /\ tb # NULL /\ entry[tb][fd] # NULL
       /\ SetEntry(tb, fd, NULL)
       /\ Hold(t, "retire", entry[tb][fd])
       /\ UNCHANGED <<phase, dead, file_open, refs, destroyed, allocated, ticketVars, op, published,
                      drainVars, orphan>>

\* fd_detach_descriptor_if: pipe2 takes back what it published.
DetachIf(t) ==
    LET tb == file_open[ProcessOf[t]]
        fd == published[t]
        found == tb # NULL /\ entry[tb][fd] = handle[op[t]]
    IN /\ Idle(t) /\ fd # NULL /\ op[t] # NULL
       /\ published' = [published EXCEPT ![t] = NULL]
       /\ IF found
          THEN SetEntry(tb, fd, NULL) /\ Hold(t, "retire", handle[op[t]])
          ELSE UNCHANGED <<entry, at, hand>>
       /\ UNCHANGED <<phase, dead, file_open, refs, destroyed, allocated, ticketVars, op,
                      drainVars, orphan>>

\* Mutant: the tickets of the handle are not looked for.
RetireUnpinned(a) ==
    /\ Runs(a) /\ at[a] = "retire"
    /\ Hold(a, "finish", hand[a])
    /\ UNCHANGED <<phase, dead, tableVars, allocated, ticketVars, op, published, drainVars, orphan>>

\* fd_retire_handle up to the unlock.
Retire(a) ==
    /\ Runs(a) /\ at[a] = "retire"
    /\ retired' = [k \in Tickets |-> retired[k] \/ k \in Pins(hand[a])]
    /\ IF Pins(hand[a]) = {} THEN Hold(a, "finish", hand[a]) ELSE Hold(a, "idle", NULL)
    /\ UNCHANGED <<phase, dead, tableVars, allocated, handle, owner, op, published, drainVars, orphan>>

\* finish_handle: vfs_close and free.
Finish(a) ==
    /\ Runs(a) /\ at[a] = "finish"
    /\ allocated' = allocated \ {hand[a]}
    /\ Hold(a, "idle", NULL)
    /\ UNCHANGED <<phase, dead, tableVars, ticketVars, op, published, drainVars, orphan>>

\* acquire_prepared: a descriptor of the own process, or of one that procfs or
\* a notification looks at.
Acquire(t, p, fd, k) ==
    /\ Idle(t) /\ op[t] = NULL
    /\ phase[t] = "live" /\ p \notin dead
    /\ file_open[p] # NULL /\ entry[file_open[p]][fd] # NULL
    /\ k \notin Linked
    /\ Link(k, entry[file_open[p]][fd], t)
    /\ op' = [op EXCEPT ![t] = k]
    /\ UNCHANGED <<phase, dead, tableVars, allocated, at, hand, published, drainVars, orphan>>

\* fd_operation_transfer_to_kernel.
Transfer(t) ==
    /\ Idle(t) /\ op[t] # NULL /\ published[t] = NULL
    /\ owner[op[t]] = t /\ ~retired[op[t]] /\ phase[t] = "live"
    /\ owner' = [owner EXCEPT ![op[t]] = Worker]
    /\ op' = [op EXCEPT ![t] = NULL]
    /\ UNCHANGED <<phase, dead, tableVars, allocated, handle, retired, at, hand, published,
                   drainVars, orphan>>

\* fd_operation_release by the thread, and by the worker.
Release(t) ==
    /\ Idle(t) /\ op[t] # NULL
    /\ Remove(t, op[t])
    /\ op' = [op EXCEPT ![t] = NULL]
    /\ published' = [published EXCEPT ![t] = NULL]
    /\ UNCHANGED <<phase, dead, tableVars, allocated, drainVars, orphan>>

WorkerRelease(k) ==
    /\ Idle(Worker) /\ k \in Linked /\ owner[k] = Worker
    /\ Remove(Worker, k)
    /\ UNCHANGED <<phase, dead, tableVars, allocated, op, published, drainVars, orphan>>
-----------------------------------------------------------------------------
(* Threads die, one by one or with their process. *)

\* The handle in the hands of a thread that stops is never closed.
Lose == orphan' = orphan \cup ({hand[t] : t \in {u \in Tasks : phase'[u] = "stopped"}} \ {NULL})

KillThread(t) ==
    /\ Kill(t) \/ Stop(t)
    /\ Lose
    /\ UNCHANGED <<dead, tableVars, allocated, ticketVars, actorVars, drainVars>>

KillProcess(p) ==
    /\ p \notin dead
    /\ dead' = dead \cup {p}
    /\ UNCHANGED <<phase, tableVars, allocated, ticketVars, actorVars, drainVars, orphan>>

Members(p) == {t \in Tasks : ProcessOf[t] = p}

\* Mutants: a killed owner may still run; or only a dead process is looked at.
OwnerKilled(k) == owner[k] \in Tasks /\ phase[owner[k]] \in {"dying", "stopped"}
OwnerProcessDead(k) ==
    owner[k] \in Tasks /\ phase[owner[k]] = "stopped" /\ ProcessOf[owner[k]] \in dead

OwnerQuiescent(k) == owner[k] \in Tasks /\ phase[owner[k]] = "stopped"

\* fd_reap_abandoned_operations, one ticket.
Reap(k) ==
    /\ Idle(Reaper) /\ stage = "idle"
    /\ k \in Linked /\ OwnerQuiescent(k)
    /\ Remove(Reaper, k)
    /\ UNCHANGED <<phase, dead, tableVars, allocated, op, published, drainVars, orphan>>

\* close_process_file_table of a quiescent process: detach the table ...
DrainTable(p) ==
    /\ Idle(Reaper) /\ stage = "idle"
    /\ p \in dead \ drained
    /\ \A t \in Members(p) : phase[t] = "stopped"
    /\ draining' = p
    /\ dtable' = file_open[p]
    /\ file_open' = [file_open EXCEPT ![p] = NULL]
    /\ stage' = "unref"
    /\ UNCHANGED <<phase, dead, refs, destroyed, entry, allocated, ticketVars, actorVars, drained, orphan>>

\* ... drop the reference of a table that may be shared ...
DrainUnref ==
    /\ stage = "unref"
    /\ refs' = [refs EXCEPT ![dtable] = @ - 1]
    /\ stage' = IF refs[dtable] = 1 THEN "close" ELSE "tickets"
    /\ UNCHANGED <<phase, dead, file_open, destroyed, entry, allocated, ticketVars, actorVars,
                   draining, dtable, drained, orphan>>

\* ... and close what is in it: fd_detach_first, fd_retire_handle.
DrainFirst(fd) ==
    /\ stage = "close" /\ Idle(Reaper)
    /\ entry[dtable][fd] # NULL
    /\ SetEntry(dtable, fd, NULL)
    /\ Hold(Reaper, "retire", entry[dtable][fd])
    /\ UNCHANGED <<phase, dead, file_open, refs, destroyed, allocated, ticketVars, op, published,
                   drainVars, orphan>>

DrainDestroy ==
    /\ stage = "close" /\ Idle(Reaper)
    /\ \A fd \in Fds : entry[dtable][fd] = NULL
    /\ destroyed' = destroyed \cup {dtable}
    /\ stage' = "tickets"
    /\ UNCHANGED <<phase, dead, file_open, refs, entry, allocated, ticketVars, actorVars,
                   draining, dtable, drained, orphan>>

\* fd_operation_thread_exit for every thread of the process.
DrainTicket(k) ==
    /\ stage = "tickets" /\ Idle(Reaper)
    /\ k \in Linked /\ owner[k] \in Members(draining)
    /\ Remove(Reaper, k)
    /\ UNCHANGED <<phase, dead, tableVars, allocated, op, published, drainVars, orphan>>

DrainEnd ==
    /\ stage = "tickets" /\ Idle(Reaper)
    /\ \A k \in Linked : owner[k] \notin Members(draining)
    /\ stage' = "idle"
    /\ draining' = NULL
    /\ dtable' = NULL
    /\ drained' = drained \cup {draining}
    /\ UNCHANGED <<phase, dead, tableVars, allocated, ticketVars, actorVars, orphan>>

\* collect_quiesced_process frees the thread control blocks.
FreeThreads(p) ==
    /\ p \in drained /\ stage = "idle" /\ Idle(Reaper)
    /\ Members(p) # {}
    /\ \A t \in Members(p) : phase[t] = "stopped"
    /\ phase' = [t \in Tasks |-> IF t \in Members(p) THEN "freed" ELSE phase[t]]
    /\ UNCHANGED <<dead, tableVars, allocated, ticketVars, actorVars, drainVars, orphan>>

ReaperStep ==
    \/ \E k \in Tickets : Reap(k) \/ DrainTicket(k)
    \/ \E p \in Processes : DrainTable(p) \/ FreeThreads(p)
    \/ \E fd \in Fds : DrainFirst(fd)
    \/ DrainUnref \/ DrainDestroy \/ DrainEnd
    \/ Retire(Reaper) \/ Finish(Reaper)

ThreadStep(t) ==
    \/ MakeHandle(t) \/ InstallFails(t) \/ DetachIf(t) \/ Transfer(t) \/ Release(t)
    \/ \E m \in Fds, exact \in BOOLEAN, k \in Tickets \cup {NULL} : Install(t, m, exact, k)
    \/ \E fd \in Fds : Detach(t, fd) \/ \E p \in Processes, k \in Tickets : Acquire(t, p, fd, k)
    \/ Retire(t) \/ Finish(t)

WorkerStep == Finish(Worker) \/ \E k \in Tickets : WorkerRelease(k)

FdNext ==
    \/ \E t \in Tasks : ThreadStep(t) \/ KillThread(t)
    \/ WorkerStep \/ ReaperStep
    \/ \E p \in Processes : KillProcess(p)

FdSpec == FdInit /\ [][FdNext]_fdVars

\* The reaper is a permanent thread: every pass of its loop reaches each of
\* its scans, and a scan takes whatever it finds.
FdFairness == WF_fdVars(ReaperStep)
-----------------------------------------------------------------------------
FdTypeOK ==
    /\ phase \in [Tasks -> Phases]
    /\ dead \subseteq Processes /\ drained \subseteq Processes
    /\ file_open \in [Processes -> Tables \cup {NULL}]
    /\ refs \in [Tables -> Nat]
    /\ destroyed \subseteq Tables
    /\ entry \in [Tables -> [Fds -> Handles \cup {NULL}]]
    /\ allocated \subseteq Handles /\ orphan \subseteq Handles
    /\ handle \in [Tickets -> Handles \cup {NULL}]
    /\ owner \in [Tickets -> Tasks \cup {Worker, NULL}]
    /\ retired \in [Tickets -> BOOLEAN]
    /\ at \in [Actors -> {"idle", "install", "retire", "finish"}]
    /\ hand \in [Actors -> Handles \cup {NULL}]
    /\ op \in [Tasks -> Tickets \cup {NULL}]
    /\ published \in [Tasks -> Fds \cup {NULL}]
    /\ stage \in {"idle", "unref", "close", "tickets"}
    /\ draining \in Processes \cup {NULL}
    /\ dtable \in Tables \cup {NULL}

Named(h) == \E tb \in Tables, fd \in Fds : entry[tb][fd] = h

(***************************************************************************)
(* A ticket keeps its handle: as long as a system call, a queued message   *)
(* or a procfs reader holds a ticket, whatever closes, replacements, exits *)
(* and drains happen, the handle is neither closed nor freed.              *)
(***************************************************************************)
TicketPinsHandle == \A k \in Linked : handle[k] \in allocated

(***************************************************************************)
(* A handle is closed once: the actor about to run finish_handle is the    *)
(* only one that can still reach it, through a table, a ticket or another  *)
(* actor's hands.                                                          *)
(***************************************************************************)
ClosedOnce ==
    \A a \in Actors : hand[a] # NULL =>
        /\ hand[a] \in allocated
        /\ ~Named(hand[a])
        /\ at[a] = "finish" => Pins(hand[a]) = {}
        /\ \A b \in Actors : hand[b] = hand[a] => a = b

(***************************************************************************)
(* Nobody gets a new ticket for a descriptor that was closed: a retired    *)
(* handle is in no table, and all of its tickets know.                     *)
(***************************************************************************)
RetiredIsDetached ==
    \A k \in Linked : retired[k] =>
        /\ ~Named(handle[k])
        /\ \A j \in Pins(handle[k]) : retired[j]

(***************************************************************************)
(* No descriptor is lost: an allocated handle is named by a table, or is   *)
(* on its way into or out of one in the hands of a running actor, or is    *)
(* retired and waits for its last ticket.  The only exception is a handle  *)
(* whose closer was itself killed between detachment and retirement.       *)
(***************************************************************************)
HandleAccounted ==
    \A h \in allocated \ orphan :
        \/ Named(h)
        \/ \E a \in Actors : Runs(a) /\ hand[a] = h
        \/ \E k \in Pins(h) : retired[k]

(***************************************************************************)
(* A thread that still executes finds the ticket it opened: neither the    *)
(* reaper nor a drain frees the record under it.                           *)
(***************************************************************************)
TicketOfExecutingThread ==
    \A t \in Tasks : Executing(t) /\ op[t] # NULL => op[t] \in Linked /\ owner[op[t]] = t

(***************************************************************************)
(* owner_quiescent, which looks into the owner of every linked ticket,     *)
(* never reads a freed thread control block.                               *)
(***************************************************************************)
NoFreedTicketOwner ==
    \A k \in Linked : owner[k] \in Tasks => phase[owner[k]] # "freed"

(***************************************************************************)
(* A table shared through CLONE_FILES is destroyed by the last process     *)
(* only, and empty.                                                        *)
(***************************************************************************)
NoDestroyedTable ==
    \A tb \in destroyed :
        /\ \A p \in Processes : file_open[p] # tb
        /\ \A fd \in Fds : entry[tb][fd] = NULL

(***************************************************************************)
(* Nothing dangles: the handle of a ticket, the thread that owns it and    *)
(* the table of a process are there as long as somebody may follow the     *)
(* pointer, whatever closes, kills, exits and drains come in between.      *)
(***************************************************************************)
NothingDangles == TicketPinsHandle /\ NoFreedTicketOwner /\ NoDestroyedTable

Orphaned(k) == owner[k] \in Tasks /\ phase[owner[k]] = "stopped"

(***************************************************************************)
(* The tickets of killed threads go away, all of them, even if a process   *)
(* lives on, so they do not retain closed descriptors for ever.            *)
(***************************************************************************)
AbandonedTicketsGo ==
    (\E k \in Linked : Orphaned(k)) ~> (\A k \in Linked : ~Orphaned(k))

FairFdSpec == FdSpec /\ FdFairness

=============================================================================
