# Verification of the OpenXJ380 kernel

TLA+ models of the parts of the OpenXJ380 kernel in which threads that can be killed
at any statement share state, or in which a power cut can come between any two writes:
the scheduler's references to threads, recoverable mutexes and the guards built on
them, file descriptor lifetime, the end of a process, pipes and message delivery, the
ext4 journal and orphan list, the block access registry and the installer. The models
are checked with TLC on small instances, and most of their safety properties are
proved with TLAPS for every instance. `PROJECT.json` maps each definition to the lines
it models and lists the runs, mutants, hazards and theorems.

## 1. The system

OpenXJ380 is an x86_64 SMP kernel in C++ with its own boot loader, built-in
drivers, a VFS with ext4 and FAT, and ELF applications on top of it
(`docs/ARCHITECTURE.md`). The parts, what they hold and what changes it:

| Part | State | Operations | Works with |
|---|---|---|---|
| Scheduler (`kernel/task/scheduler.cpp`) | per-CPU queue, `current_task`, private `selected` and `previous` references, disable depth, thread status and deadline | timer interrupt, selection, switch, sleep, wake, yield, add, remove, reference scan | everything that frees or wakes a thread |
| Mutex (`kernel/task/mutex.cpp`) | state, owner, recursion count | lock, trylock, recoverable lock, unlock, destroy, abort for a process | scheduler references of the owner |
| Storage guards (`driver/fs/ext4/ext4.cpp`, `driver/fs/fatfs/fatfs.cpp`) | scope owner and depth, poison latch | guard constructor and destructor, exit hook | mutex, process collection |
| Service guards (`kernel/user/user_auth.cpp`, `kernel/input_method.cpp`) | service state that can be rebuilt | guard, reset, exit hook | mutex, process collection |
| Descriptors (`kernel/syscall/fd_lifetime.cpp`) | tables, handles, operation tickets | install, duplicate, detach, retire, acquire, transfer, release, reap, drain | reaper, message worker, scheduler references |
| Process end (`kernel/task/pcb.cpp`, `reaper.cpp`, `wait4` in `kernel/syscall/sys.cpp`) | PCB status, `wait_owner`, `fd_cleanup_state`, family lists, preparation pins | exit, exit_group, deferred kill, window close, launch, wait4, drain, collect, adopt | scheduler references, descriptors, guards |
| Messages (`kernel/syscall/message.cpp`) and pipes (`driver/fs/vfs/pipefs.cpp`) | per-pipe queues with limits, ring of ready channels, pipe buffer, wait lists | post, pump, read, write, close, wait, wake | tickets of descriptors, scheduler wake |
| ext4 (`driver/fs/ext4/`) | journal, RECOVER flag, orphan list, links, held inodes | commit, recover, mount, unmount, create, link, unlink, rename, truncate, finalise | block devices, VFS nodes, storage guard |
| VFS (`driver/fs/vfs/vfs.cpp`) | nodes, references, deletion marks | open, close, delete, finalise | ext4, descriptors |
| Block access (`driver/block_access.cpp`) | registered devices, leases, tickets, poison | register, claim, release, request, scan, abandon | mounts, partition scan, installer, reaper |
| Installer (`kernel/installer/`) | targets, jobs, admission, quarantine, the disk | select, queue, run, cancel, release, abandon, reap | block access, devfs nodes, reaper |
| Queues, IPC, memory (`kernel/lock_queue.cpp`, `kernel/task/ipc.cpp`, `kernel/memory/`) | lists, bitmaps, page tables | sequential operations under one lock | all of the above |
| Drivers (`driver/`, `kmod/`), boot, console, panic, audio, input | device registers | device I/O | interrupts |

What makes it hard, and what tests reach badly:

- **Terminal is not stopped.** A thread marked `DEATH` goes on executing a kernel
  call on another CPU until the scheduler drops it. Everything that takes
  something from a dead thread (a mutex, a ticket, a pin, a claim, its memory) has
  to wait for all three references of every CPU to go, and looks at the CPUs one
  after the other.
- **Threads are stopped anywhere in kernel code**, between any two statements
  outside a spin lock. Whatever they held stays half done, and addresses of freed
  threads, processes, handles and tickets are reused at once.
- **Lock-free agreement.** Exit, waiters, the reaper's two scans, the window closer
  and launches contend for one process through a handful of plain and atomic
  fields.
- **Power fails between any two writes**, and the device keeps an arbitrary part of
  what was not flushed. Recovery can itself be cut off, and meets what earlier turns
  of the log left behind.
- **Progress depends on cleaners.** One reaper thread drains, reclaims and
  collects; if a hook of it blocks, nothing is collected any more.

The properties follow from that: nothing is freed while it can still be used,
nothing is taken from a thread that still executes, nothing is done twice,
half-done work is noticed before it is used, and cleaning up terminates.

## 2. The modules

```
TaskLifecycle            what every module may assume about a thread
  |- Scheduler           - SchedulerProofs; implements it (refinement, proved)
  |- Mutex
  |    `- GuardClients
  |         |- StorageGuard      ext4, FAT
  |         |- RebuildableGuard  accounts, input method
  |         `- Guards            composition - GuardProofs, of the mutex too
  |- FdLifetime          - FdLifetimeProofs
  `- ProcessCollection   - CollectionProofs

Mailbox                  what a sender and a reader may rely on
  `- MessageDelivery     - DeliveryProofs; implements it (refinement, proved);
                           extends Pipe

AtomicStore              what a transaction promises
  `- Journal             - JournalProofs; implements it (refinement, checked);
                           extends JournalLog
OrphanList               files and their last links, on atomic transactions

BlockAccess
  `- InstallerJobs       - InstallerProofs - NodesProofs; also extends InstallDisk
```

A critical section of a spin lock is one action: `spin_lock` disables interrupts,
so neither another CPU that takes the lock nor a kill that needs a context switch
comes in between. Everything outside is cut at every access to shared state.

**TaskLifecycle.** `phase` of a thread: `live`; `dying` (terminal status, still
referenced by a CPU, still executing); `stopped` (terminal and unreferenced);
`freed`. An address may be recycled. The other modules let a thread take a step
when it is `live` or `dying`; this is the abstract specification the scheduler is
shown to implement.

**Scheduler.** `current`, `selected`, `previous` are the references
`scheduler_referenced` reads; `stack` is the kernel stack the CPU is really on
and `best` the local variable of `timer_handle`. The timer interrupt is cut into
`Timer` (interrupt entry, which drops `previous`), `Decline` or `Reschedule`, the
scan under the queue lock with `WakeDue`, `Select`, the unlocked `Check`,
`Demote`, `Promote`, the publication and the return. Threads sleep, block, yield,
disable and enable scheduling, take stop signals; other CPUs wake and kill them;
a collector scans the CPUs in order and frees. EEVDF arithmetic is left out:
`Select` may take any schedulable task, which includes the one the code takes.
Time is abstract: a deadline is armed and then due.

**Mutex.** One action per critical section; `held` counts what each caller
believes to hold, which is the caller's side of `owner` and `rcc`. Whether the
mutex is recursive (`rec`) is chosen at creation. `mutex_lock_recoverable` is its
two halves, the trylock and the inspection of the owner.

**GuardClients, StorageGuard, RebuildableGuard, Guards.** The statements of the
guards' constructors and destructors, one step each, so that a thread can be
stopped between any two; the exit hooks the reaper runs before it frees a thread;
reuse of the freed address. `kind` says which guard the behaviour is about. The
code inside a guard is the single step "inside"; `torn` is the half-written state
a thread leaves when it is stopped there.

**FdLifetime.** `entry` is the descriptor table, `handle`, `owner` and `retired`
are the fields of the linked tickets, `hand` is the local variable that carries a
handle from one critical section to the next. Installing (lowest free number or
an exact one, with or without a ticket), closing, taking back what `pipe2`
published, acquiring over the own or another process, transfer to the message
worker, the reaper's scan for abandoned tickets and the drain of a dead process
with a table that may be shared. A process is marked dead and its threads are
killed in separate steps and in any order, which includes what `kill_proc` does.

**ProcessCollection.** `status`, `wait_owner`, `cleanup` (`fd_cleanup_state`),
`parent`, the lists and the pins. `at` and `target` say where each thread, the
reaper and the window closer are. `kill_proc` is three stores; a deferred kill is
one critical section; `wait4` finds, claims, copies the status, competes and
collects; the reaper runs its scans in the order of `reaper_thread`. The EPID
message to the parent is left out because `wait4` rescans its children anyway.
Pins of a stopped launcher are taken back in one step. The window gate and its
callers belong to the product layer, outside this repository, and are represented
by one thread that closes windows.

**Pipe, MessageDelivery, Mailbox.** `buf` is the ring of a pipe, `waiting` its two
wait lists, `op` the call each task is in with the ends it has tickets on. A waiter
is a TCB address and a tid, as in `task_block_list_t`; `todo` holds the nodes a
waker has detached and not yet handled. Reading, writing whole packets, deciding to
sleep, allocating the node, linking it with a second look at the pipe, sleeping,
and waking are separate steps. `queue` and `ready` are `message_channels` and the
ring the worker rotates; `worker` is where `message_delivery_pump` is. A post
acquires its tickets step by step, hands one to the kernel and may fail anywhere
(`PostFails`; a refusal at a limit is one of its cases). `Attended` names the pipes
whose process closes its own descriptors; only for them does the second ticket of a
window message matter. A record is its number, bytes written by other writers are
0. The mapping to `Mailbox` joins the pipe and its queue into one box: what is to be
read, the records that are still queued last. In `Mailbox` a record is posted at the
end, the reader takes from the front, what the process writes itself comes in between
(`Mix`) without changing the order of the records, and records are dropped only once
an end is out of use. A killed thread stops at once: what a dying one still does it
may as well do before.

**JournalLog, Journal, AtomicStore.** `JournalLog` holds the records of the log and
`Scan` and `Recovery` as functions of it: descriptors with tags, escaped images,
revokes, commits with a checksum that may not match, sequence numbers that wrap
(`Modulus` stands for 2^32). A tag or a revoke of a block that is not a home block
(`valid_target`) makes the scan refuse the log, and `MayReplay` is what
`validate_transaction` says of the surviving images. `Acceptable` are the arguments
`commit` does not reject; the updates of a transaction come in any order. `Journal`
adds the device: `pending` is what it has not flushed; the writes before a barrier are
one step, the barrier another, and `Crash` keeps any part of what is pending. `step`
follows the six barriers of `commit`, then `recover`, `clear`, `set_recovery` and
`close`. Blocks are written whole, as `docs/EXT4.md:143-146` says of the crash model,
except commit records, which may be torn. `Imported` are the logs a volume may come
with; in the run the one mkfs makes and those of two transactions with images and
revokes, the second perhaps with a torn commit, at the start of the ring or wrapped
around its end. The two home blocks are alike, so the first of these transactions is
about A. The images of a transaction that hold the superblock have RECOVER as the disk
has it, which is why the flag is a block of its own.

**OrphanList.** `fs` is the volume (directory, links, use, sizes, blocks and the
singly linked orphan list with its head in the superblock), changed by one
transaction at a time; `vn` are the vnodes with their ext4 handles, `held` is
`held_bits_`, `guard` who is in `Guard`. The callbacks of `ext4.cpp` are cut where
the VFS runs without `Guard` or a transaction ends; `job` is the loop of
`clean_orphan`. Threads are killed outside `Guard` (inside, `Guards` says what
happens); power fails and requests fail anywhere; `Mount` validates and recovers the
list, `Unmount` and `Shutdown` reclaim it.

**BlockAccess.** One disk and its slices by generation, leases with their holder,
and tickets of requests in flight. Every operation is one critical section. A range
is the set of sectors of a device, so that `Overlaps` and `Contains` are set
operations; requests cover the whole of the device they are made to.

**InstallDisk, InstallerJobs.** `Script` is the order of writes, flushes and read
backs of `execute`; `left` is what a power cut may leave of each region, and `holds`
what the device would make durable next, which nobody knows any more ("unknown")
after a write that failed or whose worker was killed. The slots
`targets` and `jobs` have the fields of `Target` and `Job` that decide anything.
`call` and `run` are where a caller and a worker are: a section under the registry
lock is a step, and so is each call to the block registry, devfs, the VFS or the
device between two of them. Kills, failing closes and requests, a revoked session
and what the other users of the disk begin are `MaxTroubles` in total.

## 3. The runs

| Run | Instance | States | Shows |
|---|---|---|---|
| `guards` | 2 processes of 1 thread, reaper, nesting 2, 2 entries each, the mutex alone and the four guards | 492,808 | exclusion among executing threads, nothing taken from one; abandoned work is noticed (poisoned or rebuilt) before use, and only then; no freed owner; exit hooks return |
| `scheduler` | 2 CPUs, 1 thread, time slice 2 | 22,925 | no use after free, one CPU per thread, refinement of TaskLifecycle, killed threads leave, sleepers wake |
| `fd_lifetime` | 2 processes of 1 thread sharing a table, 2 handles, 2 tickets, 2 numbers | 835,460 | nothing named is gone, one close, nothing lost, tickets of killed threads reclaimed, not too early |
| `collection` | parent of 2 threads, child of 1, 1 launch, 1 failed copy | 159,296 | one collector, nothing freed in use, claims respected, exit status kept, the dead collected, waiters return |
| `messages` | 2 pipes of 1 packet, 2 tasks, worker, reaper, 2 posts, limits 2, 1 death (of the one of two like tasks) | 415,160 | no lost wake-up, no freed thread or closed pipe touched, refinement of Mailbox, no pipe held up by another |
| `journal` | 2 home blocks, ring of 8, sequences modulo 16 from 14, 3 commits, 2 power cuts, new and imported logs | 2,403,699 (symmetry) | refinement of AtomicStore, RECOVER set whenever the log is used, nothing committed is refused |
| `orphans` | 3 inodes, 2 names, 3 vnodes, 2 threads, any number of power cuts, files of up to 2 blocks | 472,310 (symmetry) | every crash leaves what fsck accepts, open files keep their inode, no orphan forgotten, no sound volume refused |
| `installer` | 1 caller, 2 workers, 1 bystander, disk and 1 slice, 1 target, 2 jobs, 2 troubles | 846,719 (symmetry) | users of the disk apart, no freed thread named, one installation, nodes held, boots whole or not at all, outcomes true |
| `ime_rebuild`, `collection_adopted`, `collection_exits`, `journal_refused` | | | the disagreements of section 6 |

**Why the bounds are enough to be interesting.** Two killable threads and the
reaper make the three parties every protocol here has: the one that died, the one
that takes over, the one that cleans up. Two nested acquisitions distinguish
"released" from "one level less". Two tickets on one handle are needed for "the
last one closes", two handles for replacement by `dup2`, two numbers for "the lowest
free one". Two CPUs are needed for a scan that looks at one while the other
switches. Two pipes are the least for which one can hold up the other, and capacity
one makes every second write wait. Three commits write over the records of the
first with both a shorter and a longer transaction, sequence 14 modulo 16 wraps on
the way, two power cuts interrupt a recovery, and a ring of 8 is wrapped by the
imported logs. Three inodes make the head, the middle and the end of the orphan
list, two names a hard link and a rename over a file. Two jobs are needed for an old
one that is cleaned up while a new one is admitted, two troubles for a kill in what
another failure left. Addresses are few on purpose: every freed one is reused.

`MaxEntries`, `MaxLaunches`, `MaxFaults`, `MaxPosts`, `MaxDeaths`, `MaxCommits`,
`MaxCrashes` (of the journal), `MaxGeneration`, `MaxHandle` and `MaxTroubles` bound
how often something is started; the proofs hold for every value of them. A behaviour
then ends, which is why only the scheduler run checks deadlock.

**Fairness.** `Guards`: a thread inside a guard is scheduled again, a terminal
one is descheduled, the reaper goes on. The first two are what the `scheduler`
run shows of `timer_handle`; the reaper is a permanent kernel thread.
`Scheduler`: the timer interrupts again and again outside disabled sections
(strong fairness, because a thread may disable and enable scheduling between two
ticks), a handler runs to its end, a disabled section ends, time passes.
`FdLifetime`: only the reaper's steps. `ProcessCollection`: reaper, window
closer, and each thread: inside a kernel call it goes on or, when terminal, leaves
the CPU. `MessageDelivery`: only the steps of the delivery worker, a permanent
kernel thread that nobody kills. No fairness is assumed of what applications choose
to do (exit, launch, wait, close, read, write), of the disk or of power. `Journal`,
`OrphanList` and `InstallerJobs` state safety only.

Every property has a mutant in the module it is about, a plausible mistake in the
code that TLC finds through that property; each is defined before the definition it
replaces and marked `Mutant`.

## 4. What is proved

The theorems hold for any sets of threads, processes, CPUs, tables, descriptors,
tickets, pipes, slots and blocks, and any sizes and limits, that satisfy the named
assumptions of the modules. These ask for little: constants of the right shape,
`NULL` and `NoTask` none of the values, and

- `SchedulerAssumption`: every CPU has its own idle task;
- `ClientAssumption`: processes are disjoint and have all threads but the reaper;
- `FdAssumption`, `InstallerAssumption`: processes, targets and jobs are finitely
  many, callers and workers different threads;
- `BlockAssumption`: a slice is a part of its disk;
- `CollectionAssumption`, `PipeAssumption`, `MessageAssumption`: the reaper, the
  window closer and the delivery worker are no threads of an application, capacities
  and limits are positive;
- `LogAssumption`, `JournalAssumption`: the ring holds the largest transaction, home
  blocks, journal and superblock are different blocks, and whoever left a log in use
  on the volume set RECOVER, as every writer of the format does.

Every safety proof has the same form: an inductive invariant, a lemma per action (or
per kind of step that several actions share) that it is preserved, and the property
from the invariant.

**GuardProofs.** For the mutex alone, `MutexInv` adds to `CountMatchesHolder` its
converse for an owner that still executes (`held[t] = rcc`) and the agreement of
state, owner and count. Without the converse the abort hook could release a mutex
whose owner is inside. It gives `MutexSafe` and `OwnershipSafe`. Steps of the guards
on the mutex are steps of `Mutex`, so its invariant carries over; `GuardInv` adds

- `PositionInv`: where a thread is in the constructor or destructor tells what it has;
- `RecordInv`: the scope record is in step with the owner while that one executes,
  and empty while the mutex is free. What a stopped owner left of it is arbitrary,
  and this is why `recovered` and not the record has to tell the next owner;
- `AbandonInv`, `TornInv`: after a thread stopped as owner, somebody has the mutex who
  is bound to notice, until the latch is set or the service rebuilt;
- `RefusedInv`: nobody is in a scope of FAT once it is poisoned;
- `CollectInv`: once the exit hook has had the mutex, nothing names a thread of the
  process that is collected.

From it: `GuardsExclude`, `GuardsKeepOwnership`, `GuardsPoison`, `PoisonIsJustified`,
`GuardOwnersLive` and `AuthRebuilds`.

**SchedulerProofs.** No use after free follows from an ordering argument that the
code leaves implicit: the collector reads the references of one CPU after another
and the CPUs go on switching behind it. `SchedulerInv` says why that is enough.

- `StepInv`: where `timer_handle` is decides which references are set. `selected`
  covers the local `best` as soon as the queue lock is dropped, `previous` covers
  the old stack once the switch is published.
- `HomeInv`: whatever a CPU names is a task of its own queue, so only one CPU can
  ever refer to a thread.
- `ScanInv`: once that CPU was passed it names the thread no more, and the thread
  is terminal or of a dead process, so the CPU cannot select it again.
- `FreedInv`, `QueueInv`: a freed thread is in no queue.

From it: `ReferencesCoverUse`, `SchedulerMemorySafe`, `SchedulerExclusive`,
`RunningOnCpu`, and `SchedulerRefines`, the refinement of `TaskLifecycle`. The
last one is what the other modules rest on: they let a thread take steps while it
is `live` or `dying`, and the theorem says that a thread the scheduler reports
unreferenced is on no CPU and stays off. Its proof shows step by step that the
phase the mapping computes for each thread changes as `TaskLifecycle` allows.

**FdLifetimeProofs.** `FdInv` has three parts, each with frame lemmas for the steps
that leave it alone.

- `HandleInv`: the three properties about handles together with
  `IdleHand` (an actor has a handle in hand exactly between two critical
  sections), `RetiredUnheld` (nobody holds a retired handle that still has
  tickets) and `EntryOwns` (one entry per handle). None of the properties is inductive
  without the others: that the remover of the last ticket is alone with the handle
  needs that nobody else had it in hand while it was retired.
- `OwnerInv`: a drained process has stopped threads and no tickets, and a freed
  thread belongs to a drained process.
- `TableInv`: the reference count of a table is the number of processes that use
  it, the one being drained included until it has dropped its reference. The proof
  uses the library's cardinality theorems.

`NoneDangles` (tickets, owners and tables together), `ClosesOnce`,
`RetiredDetached` and `TicketStays` follow. `HandlesAccounted` has a step lemma of its
own: `AccountStep` follows a handle from the table to a hand, to the
tickets and back to a hand until it is closed.

**CollectionProofs.** Exit, waiters, launches, the window closer and the reaper
agree through plain fields, and the invariant says what an actor may conclude from
the statement it has reached.

- `PlacesInv`: where an actor can be, and where it has a target.
- `OwnInv`: whoever drains, prepares or collects a process is alone with it, and
  `fd_cleanup_state` is the number of that stage. This is `OneOwner`, made inductive
  by the numbers.
- `QuietInv`: a process that is drained or past the collector's check is on no CPU,
  and one with an executing thread is listed.
- `ClaimInv`: a live claimant is in `wait_owner`, its target is listed and is its
  child or the kernel's.
- `LaunchInv`: a launch has pinned its own process and the child it makes.
- `SettledInv`: from the competition on the exit is reported or nobody can ask for
  it. `DEATH` alone does not say so, because `kill_proc` stores it before `ZOMBIE`:
  `Dies` is the window between the two.
- `FreeInv`: before the threads of a process are freed no claim, pin or window names
  them.

From it: `CleanupHasOneOwner`, `UsedPcbsStay`, `NamedThreadsStay`, `ExitsAreReported`.

**DeliveryProofs.** `DeliveryInv` has `CallInv` (where a call is tells which tickets
it has), `RingInv` (the ring has each channel with records once, and each record one
ticket of the kernel), `ClosedInv` (a closed end is retired and without tickets) and
`WaiterIsAwaited` itself. `NoWakeupIsLost` and `NothingFreedIsUsed` follow: the second
look at the pipe when the node is linked and the tid in the node are what they need.
`MessagesDelivered` is the refinement of `Mailbox`, one lemma per kind of step: most
leave the box as it is (to write a record moves it from the queue to the pipe, to
take it off removes what is no longer counted), a post appends, a read takes from the
front, a write of the process mixes in before the queued records, and a record that
the worker gives up is a drop. That it may be dropped needs `RefusedInv`: between the
worker's look at the pipe and the removal an end stays out of use.

**JournalProofs.** `RecoverIsMarked` compares two blocks that are written at different
barriers, with a cache in between of which a crash keeps any part. `MarkInv` says
which of the two is settled: RECOVER is on the disk and no write of it in the cache
(`Marked`), or the log is empty and no write of its superblock in the cache (`Empty`).
Committing, replaying and clearing need `Marked`, setting and resetting RECOVER need
`Empty`, an idle mount has both, and a failed or crashed one still has one of them.
The rest says where the writes go: a transaction and a replay write home blocks and
the ring (`valid_target`, `validate_transaction`), never a superblock. `LogInUseIsMarked`
follows for any ring, any blocks and values, any logs left by others and any number of
crashes and failures.

**InstallerProofs.** `UsersStayApart` holds for every disk, set of slices, number
of tasks and interleaving, the installer's steps included. `UsersApart` is inductive
by itself (`AccessShaped` only says that leases and tickets have their fields). The
steps that matter are the claim, which finds no lease and no ticket in its range, and
the request, which finds no exclusive lease but its owner's. A poisoned lease or ticket
stays, so that abandonment lets nobody in.

`OneAtATime` needs to know who may change a job. `CallsOwn`
says that a caller between two critical sections works on a job of its own, still in
the state it left it in, although the registry was unlocked in between; `RunsOwn`
the same of a worker; `StatesAgree` that a job under cleanup does not run;
`HandlesApart` that no handle is given twice, so that `admitted_job` names one job
at most and comparing it with the job's own handle (`jobs.cpp:192`, `460`) clears no
other job's admission. `PointersLive` adds `Owned`: leases and tickets that are not
poisoned belong to threads that are not freed, because freeing a thread first
withdraws its running job and poisons what it holds.

`PowerCutsHarmless` and `ReportsAreTrue` rest on `OutcomeInv`: `Progress(n)` is what
the disk has for certain when the requests before the n-th of `Script` are done, a
worker that is in its job has made that much progress (one job runs at a time, so
nobody else writes), and a job that has not started a request says so (`JobsTrue`). A
failed or killed installation keeps only `DiskFit`, which a later one starts from.

**NodesProofs.** `NodesStayHeld` counts: `node_refs` is the number of targets and
jobs that hold a reference (`Accounted`), a target between two critical sections is
its caller's and in the state it was left in (`TargetsOwn`), and where a call is tells
whether its target or job has a node (`NodesAgree`). A target moves into a job in one
step, so the sum stays.

Some properties of the code are proved and, being proved for every instance, not
repeated in a run: `ReferencesCoverUse` and `RunningOnCpu` of the scheduler,
`RetiredDetached` of descriptors, `RingHasTheChannels` of messages, and the type
invariants inside the inductive ones.

**Left to TLC.** All liveness (`ExitHookReturns`, `KilledLeavesCpu`, `SleeperWakes`,
`AbandonedTicketsGo`, `DeadCollected`, `WaiterReturns`, `EveryPipeServed`), which is
out of the prover's reach. `AtomicCommits` and `CommittedNeverRefused` of the journal,
because recovery is the recursive function `Scan` over the ring, and the four
invariants of `OrphanList`, whose list is walked by a recursive function: what these
compute for every input needs induction over data, which the installed provers cannot
do. The properties of section 6 do not hold.

## 5. Not modelled

The models cover the state machines of the kernel, not its bulk. The source tree has
239,000 lines; most of it is vendored (FatFs, lwIP, decoders, fonts and generated
tables), device drivers and register programming, formatting and drawing, and data
transformations (package verification, import, dictionaries, cryptography). The
definitions stand for about 3,000 lines of the rest, a small share of the whole,
which is what has interleavings, crashes or protocols a model checker can say
something about. Of the parts that are modelled, the following is left out.

- Scheduler and processes: EEVDF virtual time, the first-thread start of
  `timer_handle` (a task whose saved context is empty), fork and exec, signal frames,
  `kill_proc` without the zombie flag (no caller uses it), the exception for threads
  named "Window Message Thread" in `sys_exit`.
- Guards: what runs inside them, except as far as OrphanList and Journal do.
- Messages and pipes: logging of overflow, poll and stat of a pipe. A waker that is
  killed with detached waiters in hand leaves them asleep; `lost` excepts exactly
  these from `WaiterIsAwaited`.
- Journal: torn blocks other than commit records, and devices that ignore a flush
  (both excluded by `docs/EXT4.md:143-146`). A ring of exactly `kMaximumUpdates + 2`
  blocks, which `open` accepts, makes `scan` refuse a committed transaction of the
  largest size (`journal.cpp:472`); `format.cpp` never makes one below 1024 blocks, and the
  runs use a larger ring.
- ext4: extents, directory indexes, attributes, allocation and directories as
  objects (one directory of regular files). A thread killed before `finalize_node`
  leaves a held orphan until the next mount, as `OrphansAwaited` says. The stale
  finaliser of a reused inode number finds its handle marked deleted and does
  nothing.
- Installer: the management claim and worker tickets of `service.cpp`,
  `source_lifetime.cpp`, `jobs_query`, and reuse of a worker's TCB under a new tid.
  Slots of a killed caller stay taken until reboot, as `jobs.h` documents. The two
  filesystem builders are one write each; what they write is data.
- Block access: limits of the tables and of identities, requests to a part of a
  device.
- Not modelled at all: IPC queues, pseudo terminals, sockets, the serial transport,
  memory management, image loading, users and permissions, network, device drivers,
  boot, console and panic screens. `PROJECT.json` gives the reason for each.

## 6. Where the code disagrees with its comments

1. `ime_rebuild`. `ime_process_exit` (`kernel/input_method.cpp:166`) unlocks the
   dead owner's mutex with `mutex_abort_for_process` and then locks it again to
   rebuild. A caller that gets in between works on half-written state.
   `kernel/task/mutex.cpp:134-136` and `kernel/user/user_auth.cpp:618-620` both say
   why this order must not be used.
2. `collection_adopted`. A child that is alive when its parent is collected is
   handed to the kernel process; when it exits it becomes a `ZOMBIE`, the reaper
   collects only `DEATH`, and nobody waits for it. `kernel/task/pcb.cpp:902`:
   "Withdrawal already transferred every child node to the reaper."
3. `collection_exits`. Two threads of a process in `exit_group` on two CPUs each
   end with an unconditional store of `ZOMBIE` (`kernel/task/pcb.cpp:334`). The
   second can follow the claim of a waiter, and the exit is reported again.
   `kernel/syscall/sys.cpp:608`: "The parent child-list lock publishes one
   exclusive waiter." The `collection` run therefore has one thread per child.

4. `journal_refused`. `commit` writes the anchor superblock behind a barrier of its
   own before the descriptor. A power cut in between leaves the previous
   transaction's descriptor at the start of the log, which `recover` knows by its
   sequence being one behind (`driver/fs/ext4/journal.cpp:653`); it clears the log
   and advances the sequence. A second cut at the same place leaves that descriptor
   two behind, and line 663 refuses the volume, with nothing lost or damaged
   (`CommittedNeverRefused`). `docs/EXT4.md:6-7`: "Writable mounts recover supported
   committed journals before publication"; `driver/fs/ext4/PROVENANCE.md:62-64`:
   "empty/stale logs are checked before clearing them".

The store of `ZOMBIE` in 3 can also replace the `DEATH` that `process_close_window_thread`
deferred to while the closed thread was exiting on another CPU. And two documented
limits are respected by the models: a waiter killed while it owns the collection
retains the child (`docs/SCHEDULER_AND_LOCKING.md:184-188`; `Retained` excepts
exactly this), and a thread killed between detaching a descriptor and retiring its
handle leaks the handle (`orphan`).

## 7. What could come next

1. `AtomicCommits` of the journal for logs of this writer: one transaction from block
   1 on, for which the recursion of `Scan` has a closed form that TLC could compare
   with it and the proof could use.
2. Worker tickets and the management claim of `service.cpp`, on top of
   InstallerJobs.
3. Directories (rmdir, rename of directories) in OrphanList.
