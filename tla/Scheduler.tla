----------------------------- MODULE Scheduler -----------------------------
(***************************************************************************)
(* kernel/task/scheduler.cpp: per-CPU run queues, the timer interrupt that *)
(* switches between the tasks of one queue, sleeping and waking, and the   *)
(* three references per CPU (current, selected, previous) that tell the    *)
(* rest of the kernel when a killed task has left the processor for good.  *)
(*                                                                         *)
(* timer_handle runs with interrupts off on its own CPU but is not atomic: *)
(* other CPUs kill, wake, scan and collect tasks between its steps, and    *)
(* even while it holds the queue lock a remote kill changes a status.  A   *)
(* task lives in the queue of one CPU and never migrates.                  *)
(*                                                                         *)
(* Which of the schedulable tasks EEVDF prefers is left open here: every   *)
(* schedulable task of the queue may be selected.                          *)
(***************************************************************************)
EXTENDS Integers, FiniteSets

CONSTANTS
    CPUs,
    Threads,       \* tasks that are created, killed and collected
    Idle,          \* [CPUs -> tasks]: the idle task of each CPU
    Groups,        \* processes
    ParentGroup,   \* [Threads -> Groups]
    TIME_SLICE,    \* timer ticks a running task keeps the CPU
    NULL

IdleTasks == {Idle[c] : c \in CPUs}
AllTasks == Threads \cup IdleTasks

ASSUME SchedulerAssumption ==
    /\ Idle \in [CPUs -> IdleTasks]
    /\ \A c, d \in CPUs : Idle[c] = Idle[d] => c = d
    /\ Threads \cap IdleTasks = {}
    /\ NULL \notin AllTasks \cup CPUs
    /\ ParentGroup \in [Threads -> Groups]
    /\ TIME_SLICE \in Nat \ {0}

VARIABLES
    status,      \* task->status
    group,       \* [Groups -> {"live", "dead"}]: "dead" stands for the process
                 \* states that make its threads unschedulable
    wakeup,      \* task->wakeup_time: "none", "armed", or "due" once it has passed
    home,        \* CPU whose queue holds the task, NULL outside any queue
    current, selected, previous,  \* the references of each CPU
    best,        \* the local of that name in timer_handle
    at,          \* statement of timer_handle each CPU is at
    qlock,       \* the queue lock is held across a scan of the queue
    stack,       \* the task whose kernel stack the CPU is using
    ticks,       \* cpu->scheduler_ticks
    depth,       \* cpu->scheduler_disable_depth
    scanned,     \* CPUs scheduler_referenced has found clear of the task
    killed,      \* history: the status was terminal at some time
    freed        \* the thread control block was freed

taskVars == <<status, group, wakeup, home, killed, freed, scanned>>
refVars == <<current, selected, previous>>
cpuVars == <<best, at, qlock, stack, ticks, depth>>
vars == <<taskVars, refVars, cpuVars>>

Statuses == {"NONE", "CREATE", "RUNNING", "WAIT", "DEATH", "START", "FUTEX", "OUT"}

Terminal(t) == status[t] \in {"DEATH", "OUT"}

GroupDead(t) == t \in Threads /\ group[ParentGroup[t]] = "dead"

Init ==
    /\ status = [t \in AllTasks |-> IF t \in Threads THEN "NONE" ELSE "RUNNING"]
    /\ group = [g \in Groups |-> "live"]
    /\ wakeup = [t \in Threads |-> "none"]
    /\ home = [t \in AllTasks |-> IF t \in Threads THEN NULL
                                  ELSE CHOOSE c \in CPUs : Idle[c] = t]
    /\ current = Idle
    /\ selected = [c \in CPUs |-> NULL]
    /\ previous = [c \in CPUs |-> NULL]
    /\ best = [c \in CPUs |-> NULL]
    /\ at = [c \in CPUs |-> "run"]
    /\ qlock = [c \in CPUs |-> FALSE]
    /\ stack = Idle
    /\ ticks = [c \in CPUs |-> 0]
    /\ depth = [c \in CPUs |-> 0]
    /\ scanned = [t \in Threads |-> {}]
    /\ killed = [t \in Threads |-> FALSE]
    /\ freed = [t \in Threads |-> FALSE]
-----------------------------------------------------------------------------
(* is_current_task_runnable and is_task_schedulable, of the statuses st. *)
Runnable(st, t) == st[t] \in {"RUNNING", "START", "CREATE"} /\ ~GroupDead(t)

Queue(c) == {t \in AllTasks : home[t] = c}

Goto(c, label) == at' = [at EXCEPT ![c] = label]

\* Mutant: entering the handler does not end the last handoff.
TimerKeepsPrevious(c) ==
    /\ at[c] = "run" /\ ~qlock[c]
    /\ Goto(c, "entered")
    /\ UNCHANGED <<taskVars, refVars, best, qlock, stack, ticks, depth>>

\* scheduler_interrupt_enter: the stack handoff of the last switch is over.
Timer(c) ==
    /\ at[c] = "run" /\ ~qlock[c]
    /\ previous' = [previous EXCEPT ![c] = NULL]
    /\ Goto(c, "entered")
    /\ UNCHANGED <<taskVars, current, selected, best, qlock, stack, ticks, depth>>

\* Scheduling is disabled on this CPU, or the time slice is not used up.
Decline(c) ==
    /\ at[c] = "entered"
    /\ LET slice == status[current[c]] = "RUNNING" /\ current[c] \in Threads
       IN \/ depth[c] # 0 /\ UNCHANGED ticks
          \/ /\ depth[c] = 0 /\ slice /\ ticks[c] + 1 < TIME_SLICE
             /\ ticks' = [ticks EXCEPT ![c] = @ + 1]
    /\ Goto(c, "run")
    /\ UNCHANGED <<taskVars, refVars, best, qlock, stack, depth>>

\* The tick ends the current task's turn; take the queue lock for the scan.
Reschedule(c) ==
    /\ at[c] = "entered" /\ ~qlock[c]
    /\ depth[c] = 0
    /\ LET slice == status[current[c]] = "RUNNING" /\ current[c] \in Threads
       IN /\ slice => ticks[c] + 1 >= TIME_SLICE
          /\ ticks' = [ticks EXCEPT ![c] = IF slice THEN @ + 1 ELSE 0]
    /\ qlock' = [qlock EXCEPT ![c] = TRUE]
    /\ Goto(c, "scan")
    /\ UNCHANGED <<taskVars, refVars, best, stack, depth>>

\* Mutant: only the current task's deadline is looked at.
DueIfCurrent(c) == {t \in {current[c]} \cap Threads : status[t] = "WAIT" /\ wakeup[t] = "due"}

\* wake_sleeping_task for the tasks of the queue whose deadline has passed.
Due(c) == {t \in Queue(c) \cap Threads : status[t] = "WAIT" /\ wakeup[t] = "due"}

WakeDue(c) ==
    /\ status' = [t \in AllTasks |-> IF t \in Due(c) THEN "START" ELSE status[t]]
    /\ wakeup' = [t \in Threads |-> IF t \in Due(c) THEN "none" ELSE wakeup[t]]

(* The scan of select_next_task_safe_at: expired sleepers first, then some *)
(* schedulable task, the current one, or the idle task.  A status read     *)
(* here may be stale by the time the choice is published.                  *)
Scan(c) ==
    /\ at[c] = "scan"
    /\ WakeDue(c)
    /\ LET ready == {t \in Queue(c) \cap Threads : t # current[c] /\ Runnable(status', t)}
           idle == IF current[c] # Idle[c] /\ Runnable(status', Idle[c]) THEN Idle[c] ELSE NULL
       IN \E b \in (IF ready # {} THEN ready
                    ELSE {IF Runnable(status', current[c]) THEN current[c] ELSE idle}) :
             best' = [best EXCEPT ![c] = b]
    /\ Goto(c, "select")
    /\ UNCHANGED <<group, home, killed, freed, scanned, refVars, qlock, stack, ticks, depth>>

\* references->selected = result, and the queue lock is released.
Select(c) ==
    /\ at[c] = "select"
    /\ selected' = [selected EXCEPT ![c] = best[c]]
    /\ qlock' = [qlock EXCEPT ![c] = FALSE]
    /\ Goto(c, "check")
    /\ UNCHANGED <<taskVars, current, previous, best, stack, ticks, depth>>

\* The selected task may have been killed since.
Check(c) ==
    /\ at[c] = "check"
    /\ Goto(c, IF best[c] \notin {NULL, current[c]} /\ Runnable(status, best[c])
               THEN "demote" ELSE "keep")
    /\ UNCHANGED <<taskVars, refVars, best, qlock, stack, ticks, depth>>

\* Both status changes are compare-and-swaps, so a kill is never undone.
Demote(c) ==
    /\ at[c] = "demote"
    /\ status' = [status EXCEPT ![current[c]] = IF @ = "RUNNING" THEN "START" ELSE @]
    /\ Goto(c, "promote")
    /\ UNCHANGED <<group, wakeup, home, killed, freed, scanned, refVars, best, qlock, stack, ticks, depth>>

Promote(c) ==
    /\ at[c] = "promote"
    /\ status' = [status EXCEPT ![best[c]] = IF @ \in {"START", "CREATE"} THEN "RUNNING" ELSE @]
    /\ Goto(c, "switch")
    /\ UNCHANGED <<group, wakeup, home, killed, freed, scanned, refVars, best, qlock, stack, ticks, depth>>

\* scheduler_publish_task(cpu, current, next)
Publish(c, next) ==
    /\ ~qlock[c]
    /\ previous' = [previous EXCEPT ![c] = IF next # current[c] THEN current[c] ELSE @]
    /\ selected' = [selected EXCEPT ![c] = NULL]
    /\ current' = [current EXCEPT ![c] = next]
    /\ ticks' = [ticks EXCEPT ![c] = 0]
    /\ best' = [best EXCEPT ![c] = NULL]

\* change_proccess loads the context of the next task; publish.
Switch(c) ==
    /\ at[c] = "switch"
    /\ Publish(c, best[c])
    /\ Goto(c, "return")
    /\ UNCHANGED <<taskVars, qlock, stack, depth>>

Keep(c) ==
    /\ at[c] = "keep"
    /\ Publish(c, current[c])
    /\ Goto(c, "return")
    /\ UNCHANGED <<taskVars, qlock, stack, depth>>

\* The interrupt epilogue leaves the old stack with iretq.
Return(c) ==
    /\ at[c] = "return"
    /\ stack' = [stack EXCEPT ![c] = current[c]]
    /\ Goto(c, "run")
    /\ UNCHANGED <<taskVars, refVars, best, qlock, ticks, depth>>

TimerStep(c) ==
    \/ Decline(c) \/ Reschedule(c) \/ Scan(c) \/ Select(c) \/ Check(c)
    \/ Demote(c) \/ Promote(c) \/ Switch(c) \/ Keep(c) \/ Return(c)
-----------------------------------------------------------------------------
(* What the task on a CPU does between two interrupts. *)
OnCpu(t, c) == current[c] = t /\ at[c] = "run"

\* add_task by a task on CPU c: the shortest queue, the creator's own on a tie.
Shortest(c, d) ==
    LET size(x) == Cardinality(Queue(x))
    IN IF \A x \in CPUs : size(c) <= size(x) THEN d = c
       ELSE \A x \in CPUs : size(d) <= size(x)

\* Mutant: a task that is in a queue already is queued again.
AddTaskAgain(t, c, d) ==
    /\ at[c] = "run" /\ ~freed[t] /\ ~GroupDead(t)
    /\ Shortest(c, d) /\ ~qlock[d]
    /\ status' = [status EXCEPT ![t] = "START"]
    /\ home' = [home EXCEPT ![t] = d]
    /\ UNCHANGED <<group, wakeup, killed, freed, scanned, refVars, cpuVars>>

AddTask(t, c, d) ==
    /\ at[c] = "run" /\ status[t] = "NONE" /\ ~freed[t] /\ ~GroupDead(t)
    /\ Shortest(c, d) /\ ~qlock[d]
    /\ status' = [status EXCEPT ![t] = "START"]
    /\ home' = [home EXCEPT ![t] = d]
    /\ UNCHANGED <<group, wakeup, killed, freed, scanned, refVars, cpuVars>>

\* scheduler_sleep_ns up to its loop; the queue lock orders it against expiry.
Sleep(t, c) ==
    /\ OnCpu(t, c) /\ ~qlock[c] /\ depth[c] = 0
    /\ status[t] \in {"RUNNING", "START"}
    /\ wakeup' = [wakeup EXCEPT ![t] = "armed"]
    /\ status' = [status EXCEPT ![t] = "WAIT"]
    /\ UNCHANGED <<group, home, killed, freed, scanned, refVars, cpuVars>>

\* pipe_wait_on: WAIT without a deadline.
Block(t, c) ==
    /\ OnCpu(t, c)
    /\ status[t] \in {"RUNNING", "START"}
    /\ wakeup' = [wakeup EXCEPT ![t] = "none"]
    /\ status' = [status EXCEPT ![t] = "WAIT"]
    /\ UNCHANGED <<group, home, killed, freed, scanned, refVars, cpuVars>>

\* The end of scheduler_sleep_ns: the task finds itself awake.
Awake(t, c) ==
    /\ OnCpu(t, c) /\ status[t] = "START"
    /\ status' = [status EXCEPT ![t] = "RUNNING"]
    /\ UNCHANGED <<group, wakeup, home, killed, freed, scanned, refVars, cpuVars>>

\* scheduler_yield: the software interrupt follows with the slice used up.
Yield(t, c) ==
    /\ OnCpu(t, c) /\ depth[c] = 0 /\ ~qlock[c]
    /\ ticks' = [ticks EXCEPT ![c] = TIME_SLICE]
    /\ previous' = [previous EXCEPT ![c] = NULL]
    /\ Goto(c, "entered")
    /\ UNCHANGED <<taskVars, current, selected, best, qlock, stack, depth>>

\* SIGSTOP's default action stores FUTEX without looking at the old status.
StopSignal(t, c) ==
    /\ OnCpu(t, c)
    /\ status' = [status EXCEPT ![t] = "FUTEX"]
    /\ UNCHANGED <<group, wakeup, home, killed, freed, scanned, refVars, cpuVars>>

disable_scheduler(t, c) ==
    /\ OnCpu(t, c) /\ depth[c] = 0
    /\ depth' = [depth EXCEPT ![c] = @ + 1]
    /\ UNCHANGED <<taskVars, refVars, best, at, qlock, stack, ticks>>

enable_scheduler(c) ==
    /\ at[c] = "run" /\ depth[c] # 0
    /\ depth' = [depth EXCEPT ![c] = @ - 1]
    /\ UNCHANGED <<taskVars, refVars, best, at, qlock, stack, ticks>>

TaskStep(t, c) ==
    \/ Sleep(t, c) \/ Block(t, c) \/ Awake(t, c) \/ Yield(t, c)
    \/ StopSignal(t, c) \/ disable_scheduler(t, c)
-----------------------------------------------------------------------------
(* What other CPUs do to a task. *)

\* A deadline passes.
Expire(t) ==
    /\ wakeup[t] = "armed"
    /\ wakeup' = [wakeup EXCEPT ![t] = "due"]
    /\ UNCHANGED <<status, group, home, killed, freed, scanned, refVars, cpuVars>>

\* scheduler_wake_task, rechecked under the task's queue lock.
WakeTask(t) ==
    /\ status[t] = "WAIT" /\ ~qlock[home[t]]
    /\ wakeup' = [wakeup EXCEPT ![t] = "none"]
    /\ status' = [status EXCEPT ![t] = "START"]
    /\ UNCHANGED <<group, home, killed, freed, scanned, refVars, cpuVars>>

\* kill_proc and its kin make the process state terminal first ...
KillGroup(g) ==
    /\ group[g] = "live"
    /\ group' = [group EXCEPT ![g] = "dead"]
    /\ UNCHANGED <<status, wakeup, home, killed, freed, scanned, refVars, cpuVars>>

\* ... and then, as kill_thread does alone, each thread's.
KillThread(t) ==
    /\ home[t] # NULL /\ ~Terminal(t)
    /\ status' = [status EXCEPT ![t] = "DEATH"]
    /\ killed' = [killed EXCEPT ![t] = TRUE]
    /\ UNCHANGED <<group, wakeup, home, freed, scanned, refVars, cpuVars>>

References(c) == {current[c], selected[c], previous[c]}

\* Mutants: a reference that is not looked at.
ScanIgnoresPrevious(t, c) ==
    /\ home[t] # NULL /\ (Terminal(t) \/ GroupDead(t))
    /\ c \notin scanned[t] /\ ~qlock[c]
    /\ scanned' = [scanned EXCEPT ![t] = IF t \in {current[c], selected[c]} THEN {} ELSE @ \cup {c}]
    /\ UNCHANGED <<status, group, wakeup, home, killed, freed, refVars, cpuVars>>
ScanIgnoresSelected(t, c) ==
    /\ home[t] # NULL /\ (Terminal(t) \/ GroupDead(t))
    /\ c \notin scanned[t] /\ ~qlock[c]
    /\ scanned' = [scanned EXCEPT ![t] = IF t \in {current[c], previous[c]} THEN {} ELSE @ \cup {c}]
    /\ UNCHANGED <<status, group, wakeup, home, killed, freed, refVars, cpuVars>>

\* One iteration of scheduler_referenced, under the CPU's queue lock.
ScanCpu(t, c) ==
    /\ home[t] # NULL /\ (Terminal(t) \/ GroupDead(t))
    /\ c \notin scanned[t] /\ ~qlock[c]
    /\ scanned' = [scanned EXCEPT ![t] = IF t \in References(c) THEN {} ELSE @ \cup {c}]
    /\ UNCHANGED <<status, group, wakeup, home, killed, freed, refVars, cpuVars>>

\* collect_quiesced_process removes the task from its queue and frees it;
\* every thread was marked DEATH before.
Collect(t) ==
    /\ scanned[t] = CPUs /\ GroupDead(t) /\ status[t] = "DEATH"
    /\ ~qlock[home[t]]
    /\ home' = [home EXCEPT ![t] = NULL]
    /\ status' = [status EXCEPT ![t] = "OUT"]
    /\ freed' = [freed EXCEPT ![t] = TRUE]
    /\ scanned' = [scanned EXCEPT ![t] = {}]
    /\ UNCHANGED <<group, wakeup, killed, refVars, cpuVars>>

Next ==
    \/ \E c \in CPUs : Timer(c) \/ TimerStep(c) \/ enable_scheduler(c)
    \/ \E t \in Threads, c \in CPUs :
          TaskStep(t, c) \/ ScanCpu(t, c) \/ \E d \in CPUs : AddTask(t, c, d)
    \/ \E t \in Threads : Expire(t) \/ WakeTask(t) \/ KillThread(t) \/ Collect(t)
    \/ \E g \in Groups : KillGroup(g)

Spec == Init /\ [][Next]_vars

(* The timer keeps interrupting and does not hit a scheduler-disabled      *)
(* section every time, an interrupt handler runs to its end, a disabled    *)
(* section ends, and time passes.                                          *)
Fairness ==
    /\ \A c \in CPUs : /\ SF_vars(depth[c] = 0 /\ Timer(c))
                       /\ WF_vars(TimerStep(c))
                       /\ SF_vars(enable_scheduler(c))
    /\ \A t \in Threads : WF_vars(Expire(t))

FairSpec == Spec /\ Fairness
-----------------------------------------------------------------------------
TypeOK ==
    /\ status \in [AllTasks -> Statuses]
    /\ group \in [Groups -> {"live", "dead"}]
    /\ wakeup \in [Threads -> {"none", "armed", "due"}]
    /\ home \in [AllTasks -> CPUs \cup {NULL}]
    /\ current \in [CPUs -> AllTasks]
    /\ selected \in [CPUs -> AllTasks \cup {NULL}]
    /\ previous \in [CPUs -> AllTasks \cup {NULL}]
    /\ best \in [CPUs -> AllTasks \cup {NULL}]
    /\ at \in [CPUs -> {"run", "entered", "scan", "select", "check", "demote",
                        "promote", "switch", "keep", "return"}]
    /\ qlock \in [CPUs -> BOOLEAN]
    /\ stack \in [CPUs -> AllTasks]
    /\ ticks \in [CPUs -> Nat]
    /\ depth \in [CPUs -> Nat]
    /\ scanned \in [Threads -> SUBSET CPUs]
    /\ killed \in [Threads -> BOOLEAN]
    /\ freed \in [Threads -> BOOLEAN]

\* What CPU c is really using: the stack it runs on, the task it runs or has
\* picked in a scan that is still under the queue lock.
InUse(c) == {current[c], stack[c], best[c]} \ {NULL}

(***************************************************************************)
(* The three references cover what the CPU uses: a task whose stack or     *)
(* context timer_handle still touches is current, selected or previous, or *)
(* the queue lock keeps scheduler_referenced out until it is.              *)
(***************************************************************************)
UseIsReferenced ==
    \A c \in CPUs : ~qlock[c] => InUse(c) \subseteq References(c)

(***************************************************************************)
(* No CPU touches a thread control block after collect_quiesced_process    *)
(* freed it on the word of scheduler_referenced, which looks at one CPU    *)
(* at a time.                                                              *)
(***************************************************************************)
NoUseAfterFree ==
    \A t \in Threads, c \in CPUs : freed[t] => t \notin InUse(c) \cup References(c)

(***************************************************************************)
(* A task runs on one CPU at a time, and no two CPUs ever share a kernel   *)
(* stack, although a switch leaves the old stack after publication.        *)
(***************************************************************************)
OneCpuPerTask ==
    \A c, d \in CPUs : InUse(c) \cap InUse(d) # {} => c = d

(***************************************************************************)
(* A thread marked RUNNING is on a CPU or is the selected one of a switch  *)
(* in progress: the swaps of timer_handle and of the sleepers never leave  *)
(* a preempted thread RUNNING.                                             *)
(***************************************************************************)
RunningIsOnCpu ==
    \A t \in Threads : status[t] = "RUNNING" =>
        \E c \in CPUs : current[c] = t \/ (selected[c] = t /\ at[c] = "switch")

\* Terminal, and no CPU refers to it or is about to.
Quiescent(t) ==
    /\ Terminal(t) \/ GroupDead(t)
    /\ \A c \in CPUs : t \notin References(c) \cup InUse(c)

(***************************************************************************)
(* "Terminal tasks cannot become runnable again": once a task of a dead    *)
(* process, or a killed one, is referenced nowhere it stays so for ever.   *)
(***************************************************************************)
QuiescentForGood == [][\A t \in Threads : Quiescent(t) => Quiescent(t)']_vars

(***************************************************************************)
(* A killed thread leaves the processor, and its references with it, so    *)
(* whoever polls scheduler_referenced to free it does not wait for ever.   *)
(***************************************************************************)
KilledLeavesCpu ==
    \A t \in Threads : killed[t] ~> (\A c \in CPUs : t \notin References(c))

(***************************************************************************)
(* A sleeper wakes when its deadline has passed, or is killed.             *)
(***************************************************************************)
SleeperWakes ==
    \A t \in Threads : (status[t] = "WAIT" /\ wakeup[t] = "armed") ~> status[t] # "WAIT"

\* The life of a thread as the rest of the kernel sees it.
Phase(t) ==
    IF freed[t] THEN "freed"
    ELSE IF Terminal(t) /\ \A c \in CPUs : t \notin References(c) \cup InUse(c) THEN "stopped"
    ELSE IF killed[t] THEN "dying"
    ELSE "live"

Lifecycle == INSTANCE TaskLifecycle WITH
                Tasks <- Threads, phase <- [t \in Threads |-> Phase(t)]

(***************************************************************************)
(* The scheduler keeps the promise of TaskLifecycle: a killed thread stops *)
(* once, is freed only then, and never executes after it stopped.          *)
(***************************************************************************)
ImplementsLifecycle == Lifecycle!LifecycleSpec

=============================================================================
