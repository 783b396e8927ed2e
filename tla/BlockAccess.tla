----------------------------- MODULE BlockAccess -----------------------------
(***************************************************************************)
(* driver/block_access.cpp: the registry that keeps the users of a disk    *)
(* apart.  One physical disk is registered as a whole, with slices of it.  *)
(* A lease is held by a filesystem that is mounted (shared: anybody may do *)
(* I/O) or by a task that has the range for itself; a ticket is a request  *)
(* in flight.  What a task leaves behind when it is killed is poisoned:    *)
(* nobody may use the range any more.  Every operation holds the           *)
(* registry's lock, and is one step.                                       *)
(***************************************************************************)
EXTENDS Integers, FiniteSets

CONSTANTS
    Tasks,
    Devices, Disk,   \* the devices of the disk, and the one that is all of it
    Sectors,         \* the sectors of a device
    NoTask,
    MaxGeneration    \* bound on the registrations of the disk

ASSUME BlockAssumption ==
    /\ Disk \in Devices /\ NoTask \notin Tasks /\ MaxGeneration \in Nat
    /\ \A d \in Devices : Sectors[d] # {} /\ Sectors[d] \subseteq Sectors[Disk]

VARIABLES
    reg,          \* the generation of a device, 0 if it is not registered
    physical,     \* the generation of the disk it was registered on
    generation,   \* next_identity, of which the generations are taken
    leases,       \* by the name of the holder
    tickets,
    io_abandoned,
    status        \* of the tasks: run, dying (but still on a CPU), dead, freed

accessVars == <<reg, physical, generation, leases, tickets, io_abandoned, status>>
-----------------------------------------------------------------------------
\* resolve: a slice is there only while its disk is.
Resolves(d, g) == reg[d] = g /\ g # 0 /\ physical[d] = reg[Disk]

\* overlaps, contains.
Overlaps(a, b) == a.disk = b.disk /\ a.range \cap b.range # {}
Contains(a, b) == a.disk = b.disk /\ b.range \subseteq a.range

Extent(d) == [dev |-> d, gen |-> reg[d], disk |-> physical[d], range |-> Sectors[d]]

\* available, for the registrations.
Available(e) == \A a \in leases \cup tickets : ~Overlaps(a.extent, e)

\* claim: EIO, ENODEV or EBUSY if not.
MayClaim(d, g) ==
    /\ ~io_abandoned /\ Resolves(d, g)
    /\ \A a \in leases \cup tickets : ~Overlaps(a.extent, Extent(d))

Claimed(holder, d, task, scan) ==
    leases \cup {[holder |-> holder, extent |-> Extent(d), owner |-> task, poisoned |-> FALSE, scan |-> scan]}

LeaseOf(holder) == {a \in leases : a.holder = holder}

\* block_access_release.
MayRelease(holder, task) ==
    \E a \in LeaseOf(holder) : ~a.poisoned /\ a.owner \in {NoTask, task}

\* block_access_poison.
Poisoned(S, A) == (A \ S) \cup {[a EXCEPT !.poisoned = TRUE] : a \in S}

\* block_access_validate_owned_exclusive.
OwnsWhole(holder, task) ==
    /\ ~io_abandoned /\ status[task] = "run"
    /\ \E a \in LeaseOf(holder) : a.owner = task /\ a.extent = Extent(Disk) /\ Resolves(Disk, a.extent.gen)
    /\ \A a \in leases \cup tickets : a.poisoned => ~Overlaps(a.extent, Extent(Disk))

\* Mutant: the range of a lease that is not this task's is let through.
MayStartShared(task, d, g) ==
    /\ ~io_abandoned /\ Resolves(d, g)
    /\ \A a \in leases \cup tickets : Overlaps(a.extent, Extent(d)) => ~a.poisoned

\* block_access_io_begin.
MayStart(task, d, g) ==
    /\ ~io_abandoned /\ Resolves(d, g)
    /\ \A a \in leases \cup tickets : Overlaps(a.extent, Extent(d)) => ~a.poisoned
    /\ \A a \in leases : Overlaps(a.extent, Extent(d)) /\ a.owner # NoTask =>
          a.owner = task /\ Contains(a.extent, Extent(d))

Started(task, d) ==
    tickets \cup {[holder |-> task, extent |-> Extent(d), owner |-> task, poisoned |-> FALSE]}

\* block_access_io_end.
Ended(task) == {t \in tickets : t.holder # task \/ t.poisoned}
-----------------------------------------------------------------------------
Register ==
    /\ reg[Disk] = 0 /\ generation < MaxGeneration
    /\ generation' = generation + 1
    /\ reg' = [reg EXCEPT ![Disk] = generation + 1]
    /\ physical' = [physical EXCEPT ![Disk] = generation + 1]
    /\ UNCHANGED <<leases, tickets, io_abandoned, status>>

\* block_access_register_slice, by a scan that has the disk for itself, or
\* when nobody uses the range.
RegisterSlice(x, d) ==
    LET e == [dev |-> d, gen |-> 0, disk |-> reg[Disk], range |-> Sectors[d]]
    IN /\ d # Disk /\ reg[d] = 0 /\ reg[Disk] # 0 /\ generation < MaxGeneration
       /\ status[x] = "run"
       /\ \A a \in leases : Overlaps(a.extent, e) =>
             ~a.poisoned /\ a.scan /\ a.owner = x /\ Contains(a.extent, e)
       /\ \A a \in tickets : ~Overlaps(a.extent, e)
       /\ generation' = generation + 1
       /\ reg' = [reg EXCEPT ![d] = generation + 1]
       /\ physical' = [physical EXCEPT ![d] = reg[Disk]]
       /\ UNCHANGED <<leases, tickets, io_abandoned, status>>

\* block_access_unregister: with the disk go its slices.
Unregister(d) ==
    /\ reg[d] # 0 /\ Available(Extent(d))
    /\ reg' = [k \in Devices |->
                 IF k = d \/ (d = Disk /\ physical[k] = physical[Disk]) THEN 0 ELSE reg[k]]
    /\ UNCHANGED <<physical, generation, leases, tickets, io_abandoned, status>>

\* A filesystem is mounted on a device, and unmounted.
Mount(d) ==
    /\ LeaseOf("mount") = {} /\ MayClaim(d, reg[d])
    /\ leases' = Claimed("mount", d, NoTask, FALSE)
    /\ UNCHANGED <<reg, physical, generation, tickets, io_abandoned, status>>

Unmount ==
    /\ MayRelease("mount", NoTask)
    /\ leases' = leases \ LeaseOf("mount")
    /\ UNCHANGED <<reg, physical, generation, tickets, io_abandoned, status>>

\* driver/fs/partition.cpp: block_access_scan_begin and its release.
ScanBegin(x) ==
    /\ status[x] = "run" /\ LeaseOf("scan") = {} /\ MayClaim(Disk, reg[Disk])
    /\ leases' = Claimed("scan", Disk, x, TRUE)
    /\ UNCHANGED <<reg, physical, generation, tickets, io_abandoned, status>>

ScanEnd(x) ==
    /\ status[x] \in {"run", "dying"} /\ MayRelease("scan", x)
    /\ leases' = leases \ LeaseOf("scan")
    /\ UNCHANGED <<reg, physical, generation, tickets, io_abandoned, status>>

\* A request of a task, to a device it has a handle of.
IoBegin(x, d) ==
    /\ status[x] = "run" /\ MayStart(x, d, reg[d])
    /\ tickets' = Started(x, d)
    /\ UNCHANGED <<reg, physical, generation, leases, io_abandoned, status>>

IoEnd(x) ==
    /\ status[x] \in {"run", "dying"} /\ Ended(x) # tickets
    /\ tickets' = Ended(x)
    /\ UNCHANGED <<reg, physical, generation, leases, io_abandoned, status>>
-----------------------------------------------------------------------------
\* What the tasks of S hold, poisoned: block_access_abandon_owner for one of
\* them, block_access_reap_abandoned for those that have stopped.
Abandoned(S) ==
    LET mine(A) == {a \in A : a.owner \in S}
    IN /\ leases' = Poisoned(mine(leases), leases)
       /\ tickets' = Poisoned(mine(tickets), tickets)
       /\ io_abandoned' = (io_abandoned \/ mine(tickets) # {})

Stopped == {s \in Tasks : status[s] = "dead"}

\* A lease or ticket that is not poisoned names a TCB the reaper may read.
OwnersLive ==
    \A a \in leases \cup tickets : ~a.poisoned /\ a.owner # NoTask => status[a.owner] # "freed"

\* The users of the disk are kept apart: no two leases overlap, and whoever
\* has a request in flight inside an exclusive lease is its owner, even if
\* the request came before the lease or the lease was poisoned since.
UsersApart ==
    /\ \A a, b \in leases : a # b => ~Overlaps(a.extent, b.extent)
    /\ \A a \in leases, t \in tickets :
          a.owner # NoTask /\ Overlaps(a.extent, t.extent) => t.owner = a.owner
=============================================================================
