---------------------------- MODULE InstallerJobs ----------------------------
(***************************************************************************)
(* kernel/installer/jobs.cpp, the submission of kernel/installer/          *)
(* service.cpp and the factory of kernel/installer/factory.cpp: a thread   *)
(* selects a disk, queues an installation for it and has a kernel worker   *)
(* run it, while other tasks use the disk and any of them may be killed.   *)
(* A section under the registry's lock is one step, and so is each call to *)
(* the block registry, the VFS and the device between two of them.         *)
(***************************************************************************)
EXTENDS BlockAccess, InstallDisk

CONSTANTS
    Callers, Workers,  \* threads that ask for installations; those that run them
    Targets, Jobs,     \* the slots
    MaxHandle,         \* bound on the handles of jobs
    MaxTroubles        \* bound on kills, faults, a revoked session and what the
                       \* other users of the disk begin, taken together

ASSUME InstallerAssumption ==
    /\ Callers \subseteq Tasks /\ Workers \subseteq Tasks /\ Callers \cap Workers = {}
    /\ IsFiniteSet(Targets) /\ IsFiniteSet(Jobs)
    /\ MaxHandle \in Nat /\ MaxTroubles \in Nat

VARIABLES
    targets, jobs,
    admitted_job, service_quarantined,
    issued,     \* next_handle
    session,    \* the session of the installer is ready
    node_refs,  \* references to the node of the disk that slots have taken
    call,       \* the call a caller is in
    run,        \* where a worker is
    troubles

jobVars == <<targets, jobs, admitted_job, service_quarantined, issued>>
vars == <<accessVars, diskVars, jobVars, session, node_refs, call, run, troubles>>

FreeTarget == [state |-> "Free", owner |-> NoTask, gen |-> 0, node |-> FALSE]

FreeJob == [internal |-> "Free", state |-> "none", handle |-> 0, owner |-> NoTask,
            worker |-> NoTask, gen |-> 0, node |-> FALSE, pin |-> FALSE, io |-> FALSE]

NoCall == [at |-> "none", target |-> {}, job |-> {}, then |-> "none"]
NoRun == [at |-> "none", job |-> {}, handle |-> 0, step |-> 0]

Init ==
    /\ reg = [d \in Devices |-> IF d = Disk THEN 1 ELSE 0]
    /\ physical = reg /\ generation = 1
    /\ leases = {} /\ tickets = {} /\ io_abandoned = FALSE
    /\ status = [s \in Tasks |-> IF s \in Workers THEN "none" ELSE "run"]
    /\ DiskInit
    /\ targets = [t \in Targets |-> FreeTarget]
    /\ jobs = [j \in Jobs |-> FreeJob]
    /\ admitted_job = 0 /\ service_quarantined = FALSE /\ issued = 0
    /\ session = TRUE /\ node_refs = 0
    /\ call = [c \in Callers |-> NoCall]
    /\ run = [w \in Workers |-> NoRun]
    /\ troubles = 0

OnCpu(s) == status[s] \in {"run", "dying"}
At(c, where) == OnCpu(c) /\ call[c].at = where
Target(c) == targets[call[c].target]
Job(c) == jobs[call[c].job]
Go(c, where) == call' = [call EXCEPT ![c].at = where]
Back(c) == call' = [call EXCEPT ![c] = NoCall]
SetTarget(t, f, v) == [targets EXCEPT ![t][f] = v]

\* The caller is still alive, and the session still its session.
StillAdmits(c) == status[c] = "run" /\ session

\* validate_target: the node is that of the disk as it is registered now, and
\* nothing on it is poisoned.
ValidTarget(g) ==
    /\ ~io_abandoned /\ Resolves(Disk, g)
    /\ \A a \in leases \cup tickets : a.poisoned => ~Overlaps(a.extent, Extent(Disk))

Trouble == troubles < MaxTroubles /\ troubles' = troubles + 1
-----------------------------------------------------------------------------
\* jobs_select_target: a slot is reserved.
Select(c, t) ==
    /\ status[c] = "run" /\ call[c] = NoCall /\ session
    /\ ~service_quarantined /\ targets[t].state = "Free"
    /\ targets' = [targets EXCEPT ![t] = [FreeTarget EXCEPT !.state = "Preparing", !.owner = c]]
    /\ call' = [call EXCEPT ![c] = [NoCall EXCEPT !.at = "retain", !.target = t]]
    /\ UNCHANGED <<accessVars, diskVars, jobs, admitted_job, service_quarantined, issued, session,
                   node_refs, run, troubles>>

\* devfs_retain_block takes a reference to the node, or fails (the disk is
\* gone, another task manages devices); it may keep one it cannot close.
Retain(c) ==
    /\ At(c, "retain")
    /\ \/ /\ reg[Disk] # 0
          /\ targets' = [targets EXCEPT ![call[c].target].gen = reg[Disk],
                                        ![call[c].target].node = TRUE]
          /\ node_refs' = node_refs + 1
          /\ \/ Go(c, "probe") /\ UNCHANGED troubles
             \/ Trouble /\ call' = [call EXCEPT ![c].at = "select_fails", ![c].then = "quarantine"]
       \/ /\ Go(c, "select_fails")
          /\ UNCHANGED <<targets, node_refs, troubles>>
    /\ UNCHANGED <<accessVars, diskVars, jobs, admitted_job, service_quarantined, issued, session,
                   run>>

\* validate_target and the claim that looks whether anybody uses the disk.
Probe(c) ==
    /\ At(c, "probe")
    /\ IF ValidTarget(Target(c).gen) /\ MayClaim(Disk, Target(c).gen)
       THEN leases' = Claimed(call[c].target, Disk, c, FALSE) /\ Go(c, "unprobe")
       ELSE Go(c, "select_fails") /\ UNCHANGED leases
    /\ UNCHANGED <<reg, physical, generation, tickets, io_abandoned, status, diskVars, jobVars,
                   session, node_refs, run, troubles>>

Unprobe(c) ==
    /\ At(c, "unprobe")
    /\ MayRelease(call[c].target, c)
    /\ leases' = leases \ LeaseOf(call[c].target)
    /\ Go(c, "selected")
    /\ UNCHANGED <<reg, physical, generation, tickets, io_abandoned, status, diskVars, jobVars,
                   session, node_refs, run, troubles>>

\* The second section: the target is the caller's, or is cleaned up.
SelectDone(c) ==
    /\ At(c, "selected") \/ At(c, "select_fails")
    /\ IF call[c].at = "selected" /\ StillAdmits(c) /\ ~service_quarantined
       THEN targets' = SetTarget(call[c].target, "state", "Selected") /\ Back(c)
       ELSE targets' = SetTarget(call[c].target, "state", "Cleaning") /\ Go(c, "close_target")
    /\ UNCHANGED <<accessVars, diskVars, jobs, admitted_job, service_quarantined, issued, session,
                   node_refs, run, troubles>>

\* jobs_release_target.
ReleaseTarget(c, t) ==
    /\ status[c] = "run" /\ call[c] = NoCall
    /\ targets[t].owner = c /\ targets[t].state = "Selected"
    /\ targets' = SetTarget(t, "state", "Cleaning")
    /\ call' = [call EXCEPT ![c] = [NoCall EXCEPT !.at = "close_target", !.target = t]]
    /\ UNCHANGED <<accessVars, diskVars, jobs, admitted_job, service_quarantined, issued, session,
                   node_refs, run, troubles>>

\* close_target: the node, then the slot, which stays as it is if vfs_close
\* fails.
CloseTarget(c) ==
    /\ At(c, "close_target")
    /\ \/ /\ call[c].then # "quarantine"
          /\ Go(c, "free_target")
          /\ node_refs' = node_refs - (IF Target(c).node THEN 1 ELSE 0)
          /\ UNCHANGED <<targets, troubles>>
       \/ /\ \/ Target(c).node /\ Trouble
             \/ call[c].then = "quarantine" /\ UNCHANGED troubles
          /\ targets' = SetTarget(call[c].target, "state", "Quarantined")
          /\ Back(c) /\ UNCHANGED node_refs
    /\ UNCHANGED <<accessVars, diskVars, jobs, admitted_job, service_quarantined, issued, session,
                   run>>

FreeTargetSlot(c) ==
    /\ At(c, "free_target")
    /\ targets' = [targets EXCEPT ![call[c].target] = FreeTarget]
    /\ Back(c)
    /\ UNCHANGED <<accessVars, diskVars, jobs, admitted_job, service_quarantined, issued, session,
                   node_refs, run, troubles>>
-----------------------------------------------------------------------------
\* jobs_queue: one job at a time.
Queue(c, t, j) ==
    /\ status[c] = "run" /\ call[c] = NoCall /\ session
    /\ ~service_quarantined /\ admitted_job = 0
    /\ targets[t].owner = c /\ targets[t].state = "Selected"
    /\ jobs[j].internal = "Free" /\ issued < MaxHandle
    /\ issued' = issued + 1
    /\ jobs' = [jobs EXCEPT ![j] = [FreeJob EXCEPT !.internal = "Preparing", !.state = "Queued",
                                                   !.handle = issued + 1, !.owner = c]]
    /\ targets' = SetTarget(t, "state", "Borrowed")
    /\ admitted_job' = issued + 1
    /\ call' = [call EXCEPT ![c] = [at |-> "pin", target |-> t, job |-> j, then |-> "none"]]
    /\ UNCHANGED <<accessVars, diskVars, service_quarantined, session, node_refs, run, troubles>>

\* validate_target again, and pin_source.
Pin(c) ==
    /\ At(c, "pin")
    /\ \/ /\ ValidTarget(Target(c).gen)
          /\ jobs' = [jobs EXCEPT ![call[c].job].pin = TRUE]
          /\ Go(c, "queued")
          /\ UNCHANGED troubles
       \/ /\ ~ValidTarget(Target(c).gen)
          /\ Go(c, "queue_fails") /\ UNCHANGED <<jobs, troubles>>
       \/ /\ Trouble
          /\ Go(c, "queue_fails") /\ UNCHANGED jobs
    /\ UNCHANGED <<accessVars, diskVars, targets, admitted_job, service_quarantined, issued,
                   session, node_refs, run>>

\* Mutant: the target keeps the reference it has given to the job.
TargetKept(t) == SetTarget(t, "state", "Selected")

\* The reference moves to the job.
TargetMoved(t) == [targets EXCEPT ![t] = FreeTarget]

QueueDone(c) ==
    LET t == call[c].target  j == call[c].job
    IN /\ At(c, "queued") \/ At(c, "queue_fails")
       /\ IF call[c].at = "queued" /\ StillAdmits(c) /\ ~service_quarantined
          THEN /\ jobs' = [jobs EXCEPT ![j].internal = "Published",
                                       ![j].gen = targets[t].gen, ![j].node = TRUE]
               /\ targets' = TargetMoved(t)
               /\ Go(c, "respond")
          ELSE /\ jobs' = [jobs EXCEPT ![j].internal = "Cleaning"]
               /\ targets' = SetTarget(t, "state", "Selected")
               /\ call' = [call EXCEPT ![c].at = "unpin", ![c].then = "free"]
       /\ UNCHANGED <<accessVars, diskVars, admitted_job, service_quarantined, issued, session,
                      node_refs, run, troubles>>

\* XJ_INST_NATIVE_SUBMIT behind jobs_queue: the answer is written and a worker
\* is made; if either fails the job is cancelled and released.
Dispatch(c) ==
    /\ At(c, "respond")
    /\ \/ \E w \in Workers :
             /\ status[w] = "none"
             /\ status' = [status EXCEPT ![w] = "run"]
             /\ run' = [run EXCEPT ![w] = [NoRun EXCEPT !.at = "start", !.handle = Job(c).handle]]
             /\ Back(c) /\ UNCHANGED troubles
       \/ /\ Trouble
          /\ call' = [call EXCEPT ![c].at = "cancel", ![c].then = "release"]
          /\ UNCHANGED <<status, run>>
    /\ UNCHANGED <<reg, physical, generation, leases, tickets, io_abandoned, diskVars, jobVars,
                   session, node_refs>>

Finished == {"Succeeded", "Failed", "Cancelled"}

\* jobs_cancel_queued and jobs_release, by the thread that queued the job.
AskCancel(c, j) ==
    /\ status[c] = "run" /\ call[c] = NoCall /\ jobs[j].owner = c
    /\ jobs[j].internal = "Published" /\ jobs[j].state = "Queued"
    /\ call' = [call EXCEPT ![c] = [NoCall EXCEPT !.at = "cancel", !.job = j]]
    /\ UNCHANGED <<accessVars, diskVars, jobVars, session, node_refs, run, troubles>>

Cancel(c) ==
    LET j == call[c].job
    IN /\ At(c, "cancel")
       /\ IF status[c] = "run" /\ Job(c).internal = "Published" /\ Job(c).state = "Queued"
          THEN /\ jobs' = [jobs EXCEPT ![j].state = "Cancelled", ![j].internal = "Cleaning"]
               /\ Go(c, "unpin")
          ELSE UNCHANGED jobs /\ Back(c)
       /\ UNCHANGED <<accessVars, diskVars, targets, admitted_job, service_quarantined, issued,
                      session, node_refs, run, troubles>>

ReleaseJob(c, j) ==
    /\ status[c] = "run"
    /\ call[c] = NoCall \/ (call[c].at = "release" /\ call[c].job = j)
    /\ jobs[j].owner = c /\ jobs[j].internal = "Published" /\ jobs[j].state \in Finished
    /\ jobs' = [jobs EXCEPT ![j].internal = "Cleaning"]
    /\ call' = [call EXCEPT ![c] = [NoCall EXCEPT !.at = "unpin", !.job = j, !.then = "free"]]
    /\ UNCHANGED <<accessVars, diskVars, targets, admitted_job, service_quarantined, issued,
                   session, node_refs, run, troubles>>

\* clean_job: the source, then the target's node, then the slot.
CleanFails(c) ==
    /\ Trouble
    /\ jobs' = [jobs EXCEPT ![call[c].job].internal = "Published", ![call[c].job].state = "Quarantined"]
    /\ service_quarantined' = TRUE
    /\ Back(c)
    /\ UNCHANGED <<targets, admitted_job, issued, node_refs>>

Unpin(c) ==
    /\ At(c, "unpin")
    /\ \/ /\ jobs' = [jobs EXCEPT ![call[c].job].pin = FALSE]
          /\ Go(c, "unref")
          /\ UNCHANGED <<targets, admitted_job, service_quarantined, issued, node_refs, troubles>>
       \/ Job(c).pin /\ CleanFails(c)
    /\ UNCHANGED <<accessVars, diskVars, session, run>>

Unref(c) ==
    /\ At(c, "unref")
    /\ \/ /\ jobs' = [jobs EXCEPT ![call[c].job].node = FALSE]
          /\ node_refs' = node_refs - (IF Job(c).node THEN 1 ELSE 0)
          /\ Go(c, "cleaned")
          /\ UNCHANGED <<targets, admitted_job, service_quarantined, issued, troubles>>
       \/ Job(c).node /\ CleanFails(c)
    /\ UNCHANGED <<accessVars, diskVars, session, run>>

\* Mutant: the admission is given up whoever has it.
AdmissionDropped(h) == 0

\* The admission ends with the job that has it.
AdmissionWithout(h) == IF admitted_job = h THEN 0 ELSE admitted_job

Cleaned(c) ==
    LET j == call[c].job
    IN /\ At(c, "cleaned")
       /\ admitted_job' = AdmissionWithout(jobs[j].handle)
       /\ IF call[c].then = "free"
          THEN jobs' = [jobs EXCEPT ![j] = FreeJob] /\ Back(c)
          ELSE /\ jobs' = [jobs EXCEPT ![j].internal = "Published"]
               /\ IF call[c].then = "release" THEN Go(c, "release") ELSE Back(c)
       /\ UNCHANGED <<accessVars, diskVars, targets, service_quarantined, issued, session,
                      node_refs, run, troubles>>
-----------------------------------------------------------------------------
RunAt(w, where) == OnCpu(w) /\ run[w].at = where
RunGo(w, where) == run' = [run EXCEPT ![w].at = where]

\* Nothing remains of where the thread was.
GoneRun == [NoRun EXCEPT !.at = "exit"]
Exit(w) == run' = [run EXCEPT ![w] = GoneRun]

\* jobs_run: only a job that is queued is run.
RunBegin(w) ==
    /\ RunAt(w, "start")
    /\ IF /\ status[w] = "run" /\ ~service_quarantined
          /\ \E j \in Jobs : jobs[j].handle = run[w].handle /\ jobs[j].internal = "Published"
                             /\ jobs[j].state = "Queued"
       THEN LET j == CHOOSE k \in Jobs : jobs[k].handle = run[w].handle
            IN /\ jobs' = [jobs EXCEPT ![j].worker = w, ![j].state = "Running"]
               /\ run' = [run EXCEPT ![w].at = "claim", ![w].job = j]
       ELSE UNCHANGED jobs /\ Exit(w)
    /\ UNCHANGED <<accessVars, diskVars, targets, admitted_job, service_quarantined, issued,
                   session, node_refs, call, troubles>>

\* installer_build_ext4_disk takes the disk for the worker; what does not
\* need the disk (preflight) fails here too.
FactoryClaim(w) ==
    /\ RunAt(w, "claim")
    /\ \/ /\ session /\ ValidTarget(jobs[run[w].job].gen) /\ MayClaim(Disk, jobs[run[w].job].gen)
          /\ leases' = Claimed("factory", Disk, w, FALSE)
          /\ RunGo(w, "publish") /\ UNCHANGED troubles
       \/ /\ ~(session /\ ValidTarget(jobs[run[w].job].gen) /\ MayClaim(Disk, jobs[run[w].job].gen))
          /\ RunGo(w, "failed") /\ UNCHANGED <<leases, troubles>>
       \/ Trouble /\ RunGo(w, "failed") /\ UNCHANGED leases
    /\ UNCHANGED <<reg, physical, generation, tickets, io_abandoned, status, diskVars, jobVars,
                   session, node_refs, call>>

\* The preflight passes, and the context is published: what is on the disk
\* now is the old system.  Or it fails, and the lease is given back.
FactoryPublish(w) ==
    /\ RunAt(w, "publish")
    /\ \/ /\ OwnsWhole("factory", w)
          /\ run' = [run EXCEPT ![w].at = "io", ![w].step = 1]
          /\ Relabel
          /\ UNCHANGED <<leases, troubles>>
       \/ /\ \/ Trouble
             \/ ~OwnsWhole("factory", w) /\ UNCHANGED troubles
          /\ leases' = IF MayRelease("factory", w) THEN leases \ LeaseOf("factory") ELSE leases
          /\ RunGo(w, "failed") /\ UNCHANGED diskVars
    /\ UNCHANGED <<reg, physical, generation, tickets, io_abandoned, status, jobVars, session,
                   node_refs, call>>

\* A request: ready, then a ticket; io_started is set when ready passes.
FactoryBegin(w) ==
    /\ RunAt(w, "io")
    /\ IF OwnsWhole("factory", w) /\ MayStart(w, Disk, reg[Disk])
       THEN /\ tickets' = Started(w, Disk)
            /\ jobs' = [jobs EXCEPT ![run[w].job].io = TRUE]
            /\ RunGo(w, "request") /\ UNCHANGED leases
       ELSE /\ leases' = Poisoned(LeaseOf("factory"), leases)
            /\ RunGo(w, "broken") /\ UNCHANGED <<tickets, jobs>>
    /\ UNCHANGED <<reg, physical, generation, io_abandoned, status, diskVars, targets,
                   admitted_job, service_quarantined, issued, session, node_refs, call, troubles>>

\* The device has answered.  An error poisons the lease for good.
FactoryEnd(w) ==
    LET n == run[w].step
    IN /\ RunAt(w, "request")
       /\ tickets' = Ended(w)
       /\ \/ /\ Carry(Script[n])
             /\ run' = [run EXCEPT ![w].step = n + 1, ![w].at = IF n = Len(Script) THEN "release" ELSE "io"]
             /\ UNCHANGED <<leases, troubles>>
          \/ /\ Trouble /\ Perhaps(Script[n])
             /\ leases' = Poisoned(LeaseOf("factory"), leases)
             /\ RunGo(w, "broken")
       /\ UNCHANGED <<reg, physical, generation, io_abandoned, status, jobVars, session,
                      node_refs, call>>

\* The pins are closed and the lease is given back; an error now is no
\* better than one before.
FactoryRelease(w) ==
    /\ RunAt(w, "release")
    /\ \/ /\ MayRelease("factory", w)
          /\ leases' = leases \ LeaseOf("factory") /\ RunGo(w, "complete") /\ UNCHANGED troubles
       \/ /\ \/ ~MayRelease("factory", w) /\ UNCHANGED troubles
             \/ Trouble
          /\ leases' = Poisoned(LeaseOf("factory"), leases) /\ RunGo(w, "broken")
    /\ UNCHANGED <<reg, physical, generation, tickets, io_abandoned, status, diskVars, jobVars,
                   session, node_refs, call>>

\* Mutant: any error is reported as a failure.
OutcomeByError(at) == IF at = "complete" THEN "Succeeded" ELSE "Failed"

\* The last section of jobs_run: a factory that broke after it had started
\* leaves the job, and the service, in quarantine.
Outcome(at) == CASE at = "complete" -> "Succeeded" [] at = "failed" -> "Failed" [] OTHER -> "Quarantined"

RunEnd(w) ==
    LET j == run[w].job
        outcome == Outcome(run[w].at)
    IN /\ OnCpu(w) /\ run[w].at \in {"complete", "failed", "broken"}
       /\ IF jobs[j].state = "Quarantined"
          THEN UNCHANGED <<jobs, service_quarantined, admitted_job>>
          ELSE /\ jobs' = [jobs EXCEPT ![j].state = outcome]
               /\ service_quarantined' = (service_quarantined \/ outcome = "Quarantined")
               /\ admitted_job' = IF outcome = "Quarantined" THEN admitted_job
                                  ELSE AdmissionWithout(run[w].handle)
       /\ Exit(w)
       /\ UNCHANGED <<accessVars, diskVars, targets, issued, session, node_refs, call, troubles>>
-----------------------------------------------------------------------------
\* The jobs that tasks of S were running, in quarantine.
Withdrawn(S) ==
    LET torn == {j \in Jobs : jobs[j].internal = "Published" /\ jobs[j].state = "Running"
                              /\ jobs[j].worker \in S}
    IN /\ jobs' = [j \in Jobs |-> IF j \in torn THEN [jobs[j] EXCEPT !.state = "Quarantined"] ELSE jobs[j]]
       /\ service_quarantined' = (service_quarantined \/ torn # {})

\* The reaper's pass: block_access_reap_abandoned; jobs_reap_abandoned.  One
\* that finds nobody changes nothing.
ReapAccess ==
    /\ Stopped # {} /\ Abandoned(Stopped)
    /\ UNCHANGED <<reg, physical, generation, status, diskVars, jobVars, session, node_refs, call,
                   run, troubles>>

ReapJobs ==
    /\ Stopped # {} /\ Withdrawn(Stopped)
    /\ UNCHANGED <<accessVars, diskVars, targets, admitted_job, issued, session, node_refs, call,
                   run, troubles>>

\* Mutant: the job of the thread is left to the reaper's next pass.
FreedLate(S) == UNCHANGED <<jobs, service_quarantined>>

\* jobs_abandon_worker.
AbandonWorker(S) == Withdrawn(S)

\* kill_thread0: block_access_abandon_owner and jobs_abandon_worker before
\* the memory of the thread goes.
FreeTask(s) ==
    /\ status[s] = "dead"
    /\ Abandoned({s}) /\ AbandonWorker({s})
    /\ status' = [status EXCEPT ![s] = "freed"]
    /\ UNCHANGED <<reg, physical, generation, diskVars, targets, admitted_job, issued, session,
                   node_refs, call, run, troubles>>

\* Any task may be killed; one that holds nothing leaves nothing behind.
HoldsSomething(s) ==
    \/ s \in Callers
    \/ s \in Workers /\ run[s].at # "exit"
    \/ \E a \in leases \cup tickets : a.owner = s

Kill(s) ==
    /\ status[s] = "run" /\ HoldsSomething(s) /\ Trouble
    /\ status' = [status EXCEPT ![s] = "dying"]
    /\ UNCHANGED <<reg, physical, generation, leases, tickets, io_abandoned, diskVars, jobVars,
                   session, node_refs, call, run>>

\* The thread leaves its CPU for good.  A request it had with the device may
\* or may not have been carried out.
Stop(s) ==
    /\ status[s] = "dying"
    /\ status' = [status EXCEPT ![s] = "dead"]
    /\ IF s \in Workers /\ run[s].at = "request" THEN Perhaps(Script[run[s].step]) ELSE UNCHANGED diskVars
    /\ run' = [w \in Workers |-> IF w = s THEN GoneRun ELSE run[w]]
    /\ UNCHANGED <<reg, physical, generation, leases, tickets, io_abandoned, jobVars, session,
                   node_refs, call, troubles>>

\* session_revoke_native.
Revoke ==
    /\ session /\ Trouble /\ session' = FALSE
    /\ UNCHANGED <<accessVars, diskVars, jobVars, node_refs, call, run>>

\* The other users of the disk.
OthersBegin ==
    /\ Trouble
    /\ \/ \E d \in Devices : Unregister(d) \/ Mount(d)
       \/ \E x \in Tasks \ (Callers \cup Workers) :
             ScanBegin(x) \/ \E d \in Devices : IoBegin(x, d) \/ RegisterSlice(x, d)
    /\ UNCHANGED <<diskVars, jobVars, session, node_refs, call, run>>

OthersEnd ==
    /\ Register \/ Unmount \/ \E x \in Tasks \ (Callers \cup Workers) : ScanEnd(x) \/ IoEnd(x)
    /\ UNCHANGED <<diskVars, jobVars, session, node_refs, call, run, troubles>>

Caller(c) ==
    \/ \E t \in Targets : Select(c, t) \/ ReleaseTarget(c, t)
    \/ Retain(c) \/ Probe(c) \/ Unprobe(c) \/ SelectDone(c) \/ CloseTarget(c) \/ FreeTargetSlot(c)
    \/ \E t \in Targets, j \in Jobs : Queue(c, t, j)
    \/ Pin(c) \/ QueueDone(c) \/ Dispatch(c) \/ Cancel(c) \/ Unpin(c) \/ Unref(c) \/ Cleaned(c)
    \/ \E j \in Jobs : AskCancel(c, j) \/ ReleaseJob(c, j)

WorkerStep(w) ==
    \/ RunBegin(w) \/ FactoryClaim(w) \/ FactoryPublish(w) \/ FactoryBegin(w) \/ FactoryEnd(w)
    \/ FactoryRelease(w) \/ RunEnd(w)

Next ==
    \/ \E c \in Callers : Caller(c)
    \/ \E w \in Workers : WorkerStep(w)
    \/ \E s \in Tasks : Kill(s) \/ Stop(s) \/ FreeTask(s)
    \/ ReapAccess \/ ReapJobs \/ Revoke \/ OthersBegin \/ OthersEnd

Spec == Init /\ [][Next]_vars
-----------------------------------------------------------------------------
\* No TCB is read after it is freed: the reaper's passes (jobs_reap_abandoned,
\* block_access_reap_abandoned) follow the pointers of the jobs that run and
\* of the leases and tickets that are not poisoned, whenever they come.
CookiesLive ==
    /\ OwnersLive
    /\ \A j \in Jobs : jobs[j].internal = "Published" /\ jobs[j].state = "Running" =>
          status[jobs[j].worker] # "freed"

\* One installation at a time: a job that is being prepared, waits or runs is
\* the one that is admitted, so there are never two, although older ones are
\* cleaned up and cancelled while it is under way.
OneInstallation ==
    \A j \in Jobs :
        \/ jobs[j].internal = "Preparing"
        \/ jobs[j].internal = "Published" /\ jobs[j].state \in {"Queued", "Running"}
        => jobs[j].handle = admitted_job

\* The node behind a target or a job is not closed under it: there are as
\* many references as slots that a later call will use or close.
NodesHeld ==
    node_refs >= Cardinality({t \in Targets : targets[t].node /\ targets[t].state # "Cleaning"})
               + Cardinality({j \in Jobs : jobs[j].node})

\* What a job reports is what happened to the disk: a job that succeeds has
\* left the whole new system where a power cut does not reach it, a job that
\* fails or is cancelled never started a request, and quarantine is final.
OutcomeIsTrue ==
    [][\A j \in Jobs :
         /\ jobs[j].state # "Succeeded" /\ jobs'[j].state = "Succeeded" =>
               \A r \in Regions : left[r] = {"new"}
         /\ jobs'[j].state \in {"Failed", "Cancelled"} => ~jobs'[j].io
         /\ jobs[j].state = "Quarantined" => jobs'[j].state = "Quarantined"]_vars
=============================================================================
