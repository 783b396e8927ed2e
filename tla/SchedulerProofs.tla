-------------------------- MODULE SchedulerProofs --------------------------
(***************************************************************************)
(* Proofs about Scheduler for any number of CPUs, threads and processes.   *)
(***************************************************************************)
EXTENDS Scheduler, TLAPS

(* Where timer_handle is on a CPU decides which of its references are set. *)
(* The queue lock is held from the scan to the publication of selected;    *)
(* after that selected covers best; once the switch is published previous  *)
(* covers the stack that is still in use.                                  *)
StepInv(c) ==
    /\ qlock[c] <=> at[c] \in {"scan", "select"}
    /\ at[c] \in {"run", "entered", "scan", "return"} => best[c] = NULL
    /\ at[c] \in {"check", "demote", "promote", "switch", "keep"} => best[c] = selected[c]
    /\ at[c] \in {"demote", "promote", "switch"} => best[c] \notin {NULL, current[c]}
    /\ at[c] \in {"promote", "switch"} => status[current[c]] # "RUNNING"
    /\ at[c] # "return" => stack[c] = current[c]
    /\ at[c] = "return" => stack[c] \in {current[c], previous[c]}

(* The tasks the variables of CPU c name: InUse and References together. *)
Touches(c) == {current[c], selected[c], previous[c], stack[c], best[c]}

(* Whatever a CPU uses or refers to is a task of its own queue. *)
HomeInv == \A c \in CPUs : \A t \in Touches(c) : t # NULL => home[t] = c

(* A CPU that scheduler_referenced has passed cannot come back to the      *)
(* task.  Only the CPU whose queue holds it could, and there the task is   *)
(* unschedulable and not running, so it cannot lose its terminal status.   *)
ScanInv ==
    \A t \in Threads :
        /\ scanned[t] # {} => home[t] # NULL
        /\ home[t] \in scanned[t] => t \notin Touches(home[t]) /\ (Terminal(t) \/ GroupDead(t))

(* A freed thread is in no queue; a terminal one was killed. *)
FreedInv ==
    \A t \in Threads :
        /\ freed[t] => home[t] = NULL /\ status[t] = "OUT"
        /\ Terminal(t) => killed[t]

(* Idle tasks stay in their queue; a thread is in one once it was added    *)
(* and until it is removed.                                                *)
QueueInv ==
    /\ \A c \in CPUs : home[Idle[c]] = c
    /\ \A t \in Threads : home[t] = NULL <=> status[t] \in {"NONE", "OUT"}

(* The inductive invariant. *)
SchedulerInv ==
    /\ TypeOK
    /\ \A c \in CPUs : StepInv(c)
    /\ QueueInv /\ HomeInv /\ ScanInv /\ FreedInv
    /\ RunningIsOnCpu

(* The inductive invariant holds when every CPU runs its idle task. *)
LEMMA SchedulerInitial == Init => SchedulerInv
BY SchedulerAssumption
   DEF Init, SchedulerInv, TypeOK, Statuses, StepInv, QueueInv, HomeInv, ScanInv, FreedInv,
       Touches, Terminal, GroupDead, AllTasks, IdleTasks, RunningIsOnCpu

(* Every step keeps the types. *)
LEMMA TypeStep == SchedulerInv /\ [Next]_vars => TypeOK'
<1> SUFFICES ASSUME TypeOK, \A c \in CPUs : StepInv(c), [Next]_vars PROVE TypeOK'
  BY Zenon DEF SchedulerInv
<1> USE SchedulerAssumption DEF TypeOK, Statuses, taskVars, refVars, cpuVars, Goto, AllTasks
<1>1. ASSUME NEW c \in CPUs, Timer(c) PROVE TypeOK'
  BY <1>1, Zenon DEF Timer
<1>2. ASSUME NEW c \in CPUs, Decline(c) PROVE TypeOK'
  BY <1>2 DEF Decline
<1>3. ASSUME NEW c \in CPUs, Reschedule(c) PROVE TypeOK'
  BY <1>3 DEF Reschedule
<1>4. ASSUME NEW c \in CPUs, Scan(c) PROVE TypeOK'
  <2>1. PICK b \in AllTasks \cup {NULL} : best' = [best EXCEPT ![c] = b]
    BY <1>4, ZenonT(30) DEF Scan
  <2>2. status' \in [AllTasks -> Statuses] /\ wakeup' \in [Threads -> {"none", "armed", "due"}]
    BY <1>4, Zenon DEF Scan, WakeDue
  <2> QED
    BY <1>4, <2>1, <2>2, Zenon DEF Scan
<1>5. ASSUME NEW c \in CPUs, Select(c) PROVE TypeOK'
  BY <1>5, Zenon DEF Select
<1>6. ASSUME NEW c \in CPUs, Check(c) PROVE TypeOK'
  BY <1>6, Zenon DEF Check
<1>7. ASSUME NEW c \in CPUs, Demote(c) PROVE TypeOK'
  BY <1>7, Zenon DEF Demote
<1>8. ASSUME NEW c \in CPUs, Promote(c) PROVE TypeOK'
  BY <1>8, ZenonT(30) DEF Promote
<1>9. ASSUME NEW c \in CPUs, Switch(c) PROVE TypeOK'
  BY <1>9, Zenon DEF Switch, Publish, StepInv
<1>10. ASSUME NEW c \in CPUs, Keep(c) PROVE TypeOK'
  BY <1>10, Zenon DEF Keep, Publish
<1>11. ASSUME NEW c \in CPUs, Return(c) PROVE TypeOK'
  BY <1>11, Zenon DEF Return
<1>12. ASSUME NEW c \in CPUs, enable_scheduler(c) PROVE TypeOK'
  <2>1. depth[c] \in Nat /\ depth[c] # 0
    BY <1>12, Zenon DEF enable_scheduler
  <2>2. depth[c] - 1 \in Nat
    BY <2>1
  <2> QED
    BY <1>12, <2>2, Zenon DEF enable_scheduler
<1>13. ASSUME NEW t \in Threads, NEW c \in CPUs, Sleep(t, c) PROVE TypeOK'
  BY <1>13, Zenon DEF Sleep
<1>14. ASSUME NEW t \in Threads, NEW c \in CPUs, Block(t, c) PROVE TypeOK'
  BY <1>14, Zenon DEF Block
<1>15. ASSUME NEW t \in Threads, NEW c \in CPUs, Awake(t, c) PROVE TypeOK'
  BY <1>15, Zenon DEF Awake
<1>16. ASSUME NEW t \in Threads, NEW c \in CPUs, Yield(t, c) PROVE TypeOK'
  BY <1>16, Zenon DEF Yield
<1>17. ASSUME NEW t \in Threads, NEW c \in CPUs, StopSignal(t, c) PROVE TypeOK'
  BY <1>17, Zenon DEF StopSignal
<1>18. ASSUME NEW t \in Threads, NEW c \in CPUs, disable_scheduler(t, c) PROVE TypeOK'
  BY <1>18 DEF disable_scheduler
<1>19. ASSUME NEW t \in Threads, NEW c \in CPUs, ScanCpu(t, c) PROVE TypeOK'
  BY <1>19 DEF ScanCpu
<1>20. ASSUME NEW t \in Threads, NEW c \in CPUs, NEW d \in CPUs, AddTask(t, c, d) PROVE TypeOK'
  BY <1>20, Zenon DEF AddTask
<1>21. ASSUME NEW t \in Threads, Expire(t) PROVE TypeOK'
  BY <1>21, Zenon DEF Expire
<1>22. ASSUME NEW t \in Threads, WakeTask(t) PROVE TypeOK'
  BY <1>22, Zenon DEF WakeTask
<1>23. ASSUME NEW t \in Threads, KillThread(t) PROVE TypeOK'
  BY <1>23, Zenon DEF KillThread
<1>24. ASSUME NEW t \in Threads, Collect(t) PROVE TypeOK'
  BY <1>24, Zenon DEF Collect
<1>25. ASSUME NEW g \in Groups, KillGroup(g) PROVE TypeOK'
  BY <1>25, Zenon DEF KillGroup
<1>26. CASE UNCHANGED vars
  BY <1>26, Zenon DEF vars
<1> QED
  BY ZenonT(30), <1>1, <1>2, <1>3, <1>4, <1>5, <1>6, <1>7, <1>8, <1>9, <1>10, <1>11, <1>12,
     <1>13, <1>14,
     <1>15, <1>16, <1>17, <1>18, <1>19, <1>20, <1>21, <1>22, <1>23, <1>24, <1>25, <1>26 DEF Next,
     TimerStep, TaskStep

-----------------------------------------------------------------------------
(* No thread is added, killed, removed or freed, and no terminal status is *)
(* set or lost.                                                            *)
Quiet ==
    /\ UNCHANGED <<group, home, killed, freed, scanned>>
    /\ \A t \in AllTasks : status'[t] # status[t] =>
          {status[t], status'[t]} \cap {"NONE", "OUT", "DEATH"} = {}

(* No CPU gets to know a new task, and none but d leaves one. *)
Moves(d) ==
    \A x \in CPUs : /\ Touches(x)' \subseteq Touches(x) \cup {NULL}
                    /\ Touches(x) \subseteq Touches(x)' \cup {d, NULL}

(* Such a step keeps the part of the invariant about queues and freeing. *)
LEMMA QuietMove ==
    ASSUME SchedulerInv, TypeOK', Quiet, NEW d, Moves(d)
    PROVE  QueueInv' /\ HomeInv' /\ ScanInv' /\ FreedInv'
<1> USE SchedulerAssumption DEF AllTasks
<1>1. \A t \in Threads : /\ Terminal(t)' <=> Terminal(t)
                         /\ GroupDead(t)' <=> GroupDead(t)
                         /\ status'[t] \in {"NONE", "OUT"} <=> status[t] \in {"NONE", "OUT"}
                         /\ status'[t] = "OUT" <=> status[t] = "OUT"
  BY ZenonT(30) DEF Quiet, Terminal, GroupDead
<1>2. QueueInv' /\ FreedInv'
  BY <1>1, Zenon DEF Quiet, SchedulerInv, QueueInv, FreedInv
<1>3. \A x \in CPUs : Touches(x)' \subseteq Touches(x) \cup {NULL}
  BY Zenon DEF Moves
<1>4. HomeInv'
  BY <1>3 DEF Quiet, SchedulerInv, HomeInv
<1>5. ScanInv'
  <2>1. \A t \in Threads : scanned'[t] # {} => home'[t] # NULL
    BY Zenon DEF Quiet, SchedulerInv, ScanInv
  <2>2. ASSUME NEW t \in Threads, NEW x \in CPUs, home[t] = x, x \in scanned[t]
        PROVE  t \notin Touches(x)' /\ (Terminal(t)' \/ GroupDead(t)')
    BY <1>1, <1>3, <2>2 DEF SchedulerInv, ScanInv
  <2> QED
    BY <2>1, <2>2, Zenon DEF Quiet, ScanInv, Touches, SchedulerInv, TypeOK
<1> QED
  BY <1>2, <1>4, <1>5, Zenon

(* The steps of timer_handle but the scan of the queue are quiet and take  *)
(* at most one task off the CPU.                                           *)
LEMMA TimerMoves ==
    ASSUME SchedulerInv, TypeOK', NEW c \in CPUs, Timer(c) \/ TimerStep(c), ~Scan(c)
    PROVE  Quiet /\ \E d : Moves(d)
<1> USE DEF Quiet, Moves, Touches, TypeOK, taskVars, refVars, AllTasks
<1>0. TypeOK
  BY Zenon DEF SchedulerInv
<1>11. StepInv(c)
  BY Zenon DEF SchedulerInv
<1>1. CASE Timer(c)
  <2>1. Quiet
    BY <1>0, <1>1, Zenon DEF Timer
  <2>2. Moves(previous[c])
    BY <1>0, <1>1 DEF Timer
  <2> QED
    BY <2>1, <2>2, ZenonT(30)
<1>2. CASE Decline(c)
  <2>1. Quiet
    BY <1>0, <1>2, Zenon DEF Decline
  <2>2. Moves(NULL)
    BY <1>0, <1>2, Zenon DEF Decline
  <2> QED
    BY <2>1, <2>2, ZenonT(30)
<1>3. CASE Reschedule(c)
  <2>1. Quiet
    BY <1>0, <1>3, Zenon DEF Reschedule
  <2>2. Moves(NULL)
    BY <1>0, <1>3, Zenon DEF Reschedule
  <2> QED
    BY <2>1, <2>2, Zenon
<1>4. CASE Select(c)
  <2>1. Quiet
    BY <1>0, <1>4, Zenon DEF Select
  <2>2. Moves(selected[c])
    BY <1>0, <1>4 DEF Select
  <2> QED
    BY <2>1, <2>2, ZenonT(30)
<1>5. CASE Check(c)
  <2>1. Quiet
    BY <1>0, <1>5, Zenon DEF Check
  <2>2. Moves(NULL)
    BY <1>0, <1>5, Zenon DEF Check
  <2> QED
    BY <2>1, <2>2, Zenon
<1>6. CASE Demote(c)
  <2>1. Quiet
    BY <1>0, <1>6 DEF Demote
  <2>2. Moves(NULL)
    BY <1>0, <1>6, Zenon DEF Demote
  <2> QED
    BY <2>1, <2>2, Zenon
<1>7. CASE Promote(c)
  <2>1. Quiet
    BY <1>0, <1>7 DEF Promote
  <2>2. Moves(NULL)
    BY <1>0, <1>7, Zenon DEF Promote
  <2> QED
    BY <2>1, <2>2, Zenon
<1>8. CASE Switch(c)
  <2>1. Quiet
    BY <1>0, <1>8, Zenon DEF Switch
  <2>2. Moves(previous[c])
    BY <1>0, <1>11, <1>8 DEF Switch, Publish, StepInv
  <2> QED
    BY <2>1, <2>2, ZenonT(40)
<1>9. CASE Keep(c)
  <2>1. Quiet
    BY <1>0, <1>9, Zenon DEF Keep
  <2>2. Moves(selected[c])
    BY <1>0, <1>11, <1>9 DEF Keep, Publish, StepInv
  <2> QED
    BY <2>1, <2>2, ZenonT(40)
<1>10. CASE Return(c)
  <2>1. Quiet
    BY <1>0, <1>10, Zenon DEF Return
  <2>2. Moves(NULL)
    BY <1>0, <1>11, <1>10 DEF Return, StepInv
  <2> QED
    BY <2>1, <2>2, Zenon
<1> HIDE DEF Quiet, Moves
<1> QED
  BY <1>1, <1>2, <1>3, <1>4, <1>5, <1>6, <1>7, <1>8, <1>9, <1>10, Zenon DEF TimerStep

(* The steps of timer_handle preserve the invariant.  For the scan, the    *)
(* task it picks is runnable and of the right queue.                       *)
LEMMA TimerPreserves ==
    ASSUME SchedulerInv, TypeOK', NEW c \in CPUs, Timer(c) \/ TimerStep(c)
    PROVE  SchedulerInv'
<1> USE SchedulerAssumption DEF AllTasks
<1>1. TypeOK /\ (\A x \in CPUs : StepInv(x)) /\ QueueInv /\ HomeInv /\ RunningIsOnCpu
  BY Zenon DEF SchedulerInv
<1>2. CASE ~Scan(c)
  <2>1. QueueInv' /\ HomeInv' /\ ScanInv' /\ FreedInv'
    BY <1>2, TimerMoves, QuietMove, Zenon
  <2>2. (\A x \in CPUs : StepInv(x))' /\ RunningIsOnCpu'
    <3> USE <1>1 DEF StepInv, RunningIsOnCpu, TypeOK, Goto, taskVars, refVars
    <3>1. CASE Timer(c)
      <4>1. (\A x \in CPUs : StepInv(x))'
        BY <3>1 DEF Timer
      <4>2. RunningIsOnCpu'
        BY <3>1, Zenon DEF Timer
      <4> QED
        BY <4>1, <4>2, Zenon
    <3>2. CASE Decline(c)
      <4>1. (\A x \in CPUs : StepInv(x))'
        BY <3>2 DEF Decline
      <4>2. RunningIsOnCpu'
        BY <3>2, Zenon DEF Decline
      <4> QED
        BY <4>1, <4>2, Zenon
    <3>3. CASE Reschedule(c)
      <4>1. (\A x \in CPUs : StepInv(x))'
        BY <3>3 DEF Reschedule
      <4>2. RunningIsOnCpu'
        BY <3>3, Zenon DEF Reschedule
      <4> QED
        BY <4>1, <4>2, Zenon
    <3>4. CASE Select(c)
      <4>1. (\A x \in CPUs : StepInv(x))'
        BY <3>4 DEF Select
      <4>2. RunningIsOnCpu'
        BY <3>4, Zenon DEF Select
      <4> QED
        BY <4>1, <4>2, Zenon
    <3>5. CASE Check(c)
      <4>1. (\A x \in CPUs : StepInv(x))'
        BY <3>5 DEF Check, Runnable
      <4>2. RunningIsOnCpu'
        BY <3>5, Zenon DEF Check, Runnable
      <4> QED
        BY <4>1, <4>2, Zenon
    <3>6. CASE Demote(c)
      <4>1. (\A x \in CPUs : StepInv(x))'
        BY <3>6 DEF Demote
      <4>2. RunningIsOnCpu'
        BY <3>6, Zenon DEF Demote
      <4> QED
        BY <4>1, <4>2, Zenon
    <3>7. CASE Promote(c)
      <4>0. \A x \in CPUs : current[x] # best[c]
        BY <3>7 DEF Promote, HomeInv, Touches
      <4>1. (\A x \in CPUs : StepInv(x))'
        BY <3>7, <4>0 DEF Promote
      <4>2. RunningIsOnCpu'
        BY <3>7 DEF Promote
      <4> QED
        BY <4>1, <4>2, Zenon
    <3>8. CASE Switch(c)
      <4>1. (\A x \in CPUs : StepInv(x))'
        BY <3>8 DEF Switch, Publish
      <4>2. RunningIsOnCpu'
        <5>1. /\ \A x \in CPUs : x # c => /\ current'[x] = current[x] /\ selected'[x] = selected[x]
                                          /\ at'[x] = at[x]
              /\ current'[c] = selected[c] /\ status[current[c]] # "RUNNING" /\ status' = status
          BY <3>8 DEF Switch, Publish
        <5> HIDE DEF StepInv, TypeOK
        <5> QED
          BY <5>1
      <4> QED
        BY <4>1, <4>2, Zenon
    <3>9. CASE Keep(c)
      <4>1. (\A x \in CPUs : StepInv(x))'
        BY <3>9 DEF Keep, Publish
      <4>2. RunningIsOnCpu'
        <5>1. /\ \A x \in CPUs : current'[x] = current[x]
              /\ \A x \in CPUs : at[x] = "switch" => selected'[x] = selected[x] /\ at'[x] = at[x]
              /\ status' = status
          BY <3>9 DEF Keep, Publish
        <5> HIDE DEF StepInv, TypeOK
        <5> QED
          BY <5>1
      <4> QED
        BY <4>1, <4>2, Zenon
    <3>10. CASE Return(c)
      <4>1. (\A x \in CPUs : StepInv(x))'
        BY <3>10 DEF Return
      <4>2. RunningIsOnCpu'
        BY <3>10, Zenon DEF Return
      <4> QED
        BY <4>1, <4>2, Zenon
    <3> HIDE DEF StepInv, RunningIsOnCpu
    <3> QED
      BY <1>2, <3>1, <3>2, <3>3, <3>4, <3>5, <3>6, <3>7, <3>8, <3>9, <3>10, Zenon DEF TimerStep
  <2> QED
    BY <2>1, <2>2, Zenon DEF SchedulerInv
<1>3. CASE Scan(c)
  <2>1. current[c] \in Queue(c) /\ Idle[c] \in Queue(c)
    BY <1>1 DEF Queue, IdleTasks, QueueInv, HomeInv, Touches, TypeOK
  <2>2. PICK b \in Queue(c) \cup {NULL} :
             best' = [best EXCEPT ![c] = b] /\ (b # NULL => Runnable(status', b))
    <3> DEFINE ready == {t \in Queue(c) \cap Threads : t # current[c] /\ Runnable(status', t)}
               idle == IF current[c] # Idle[c] /\ Runnable(status', Idle[c]) THEN Idle[c] ELSE NULL
    <3>1. PICK b \in (IF ready # {} THEN ready
                      ELSE {IF Runnable(status', current[c]) THEN current[c] ELSE idle}) :
               best' = [best EXCEPT ![c] = b]
      BY <1>3, ZenonT(30) DEF Scan
    <3>2. b \in Queue(c) \cup {NULL} /\ (b # NULL => Runnable(status', b))
      BY <2>1, Zenon
    <3> QED
      BY <3>1, <3>2, ZenonT(30)
  <2>3. \A t \in AllTasks : status'[t] # status[t] => status[t] = "WAIT" /\ status'[t] = "START"
    BY <1>3, Zenon DEF Scan, WakeDue, Due
  <2>4. /\ at[c] = "scan" /\ at' = [at EXCEPT ![c] = "select"]
        /\ UNCHANGED <<group, home, killed, freed, scanned, current, selected, previous, qlock, stack>>
    BY <1>3, Zenon DEF Scan, Goto, refVars
  <2>5. (\A x \in CPUs : StepInv(x))'
    <3> SUFFICES ASSUME NEW x \in CPUs PROVE StepInv(x)'
      BY Zenon
    <3>1. status'[current[x]] = "RUNNING" => status[current[x]] = "RUNNING"
      BY <1>1, <2>3 DEF TypeOK
    <3>2. x # c => best'[x] = best[x] /\ at'[x] = at[x]
      BY <1>1, <2>2, <2>4 DEF TypeOK
    <3>3. at'[c] = "select"
      BY <1>1, <2>4 DEF TypeOK
    <3> QED
      BY <1>1, <2>4, <3>1, <3>2, <3>3, Zenon DEF StepInv
  <2>6. RunningIsOnCpu'
    BY <1>1, <2>3, <2>4 DEF RunningIsOnCpu, TypeOK
  <2>7. QueueInv' /\ FreedInv'
    BY <2>3, <2>4, Zenon DEF SchedulerInv, QueueInv, FreedInv, Terminal
  <2>8. HomeInv'
    BY <1>1, <2>2, <2>4 DEF HomeInv, Touches, Queue, TypeOK
  <2>9. ScanInv'
    <3>1. \A t \in Threads : (Terminal(t)' <=> Terminal(t)) /\ (GroupDead(t)' <=> GroupDead(t))
      BY <2>3, <2>4, Zenon DEF Terminal, GroupDead
    <3>2. ASSUME NEW t \in Threads, NEW x \in CPUs, home[t] = x, x \in scanned[t]
          PROVE  t \notin Touches(x)' /\ (Terminal(t)' \/ GroupDead(t)')
      <4>1. t \notin Touches(x) /\ (Terminal(t) \/ GroupDead(t))
        BY <3>2, Zenon DEF SchedulerInv, ScanInv
      <4>2. x = c => t # b
        BY <2>2, <3>1, <4>1 DEF Runnable, Terminal, GroupDead
      <4> QED
        BY <1>1, <2>2, <2>4, <3>1, <4>1, <4>2 DEF Touches, TypeOK
    <3> QED
      BY <2>4, <3>2, Zenon DEF SchedulerInv, ScanInv, Touches, TypeOK
  <2> QED
    BY <2>5, <2>6, <2>7, <2>8, <2>9, Zenon DEF SchedulerInv
<1> QED
  BY <1>2, <1>3, Zenon

(* Setting the status of a thread that is in a queue preserves the         *)
(* invariant, unless it wakes a terminal thread that left its CPU or lets  *)
(* a thread run that is not on one.                                        *)
LEMMA StatusPreserves ==
    ASSUME SchedulerInv, TypeOK', NEW t \in Threads, NEW s, status' = [status EXCEPT ![t] = s],
           UNCHANGED <<group, home, freed, scanned, refVars, best, at, qlock, stack>>,
           home[t] # NULL, s \notin {"NONE", "OUT"},
           \A u \in Threads : killed[u] => killed'[u],
           s = "DEATH" => killed'[t],
           s = "RUNNING" => \E c \in CPUs : current[c] = t /\ at[c] = "run",
           home[t] \in scanned[t] /\ Terminal(t) => s = "DEATH"
    PROVE  SchedulerInv'
<1> USE SchedulerAssumption DEF AllTasks, refVars
<1>1. TypeOK /\ (\A x \in CPUs : StepInv(x)) /\ QueueInv /\ HomeInv /\ ScanInv /\ FreedInv /\ RunningIsOnCpu
  BY Zenon DEF SchedulerInv
<1>2. \A u \in Threads : u # t => status'[u] = status[u]
  BY <1>1, Zenon DEF TypeOK
<1>3. status'[t] = s
  BY <1>1, Zenon DEF TypeOK
<1>4. (\A x \in CPUs : StepInv(x))'
  <2>1. s = "RUNNING" => \A x \in CPUs : current[x] = t => at[x] = "run"
    <3>1. t # NULL
      BY Zenon
    <3>2. \A x \in CPUs : current[x] = t => home[t] = x
      BY <1>1, <3>1 DEF HomeInv, Touches
    <3> QED
      BY <3>2, Zenon
  <2> QED
    BY <1>1, <2>1 DEF StepInv, TypeOK
<1>5. QueueInv' /\ HomeInv' /\ FreedInv'
  <2>1. QueueInv'
    BY <1>1, <1>2, <1>3, Zenon DEF QueueInv
  <2>2. HomeInv'
    BY <1>1 DEF HomeInv, Touches
  <2>3. FreedInv'
    BY <1>1, <1>2, <1>3 DEF QueueInv, FreedInv, Terminal
  <2> QED
    BY <2>1, <2>2, <2>3, Zenon
<1>6. ScanInv'
  <2>1. \A u \in Threads : (u # t => (Terminal(u)' <=> Terminal(u))) /\ (GroupDead(u)' <=> GroupDead(u))
    BY <1>2, Zenon DEF Terminal, GroupDead
  <2>2. home[t] \in scanned[t] /\ Terminal(t) => Terminal(t)'
    BY <1>3, Zenon DEF Terminal
  <2> QED
    BY <1>1, <2>1, <2>2, Zenon DEF ScanInv, Touches
<1>7. RunningIsOnCpu'
  BY <1>1, <1>2, <1>3 DEF RunningIsOnCpu
<1> QED
  BY <1>4, <1>5, <1>6, <1>7, Zenon DEF SchedulerInv

(* What the task on a CPU does preserves the invariant. *)
LEMMA TaskPreserves ==
    ASSUME SchedulerInv, TypeOK', NEW t \in Threads, NEW c \in CPUs, TaskStep(t, c)
    PROVE  SchedulerInv'
<1> USE SchedulerAssumption DEF AllTasks
<1>1. TypeOK /\ (\A x \in CPUs : StepInv(x)) /\ QueueInv /\ HomeInv /\ ScanInv /\ RunningIsOnCpu
  BY Zenon DEF SchedulerInv
<1>2. CASE OnCpu(t, c)
  <2>1. home[t] = c /\ home[t] \notin scanned[t]
    BY <1>1, <1>2, ZenonT(30) DEF OnCpu, HomeInv, ScanInv, Touches
  <2>2. CASE Sleep(t, c) \/ Block(t, c)
    <3>1. status' = [status EXCEPT ![t] = "WAIT"]
      BY <2>2, Zenon DEF Sleep, Block
    <3>2. UNCHANGED <<group, home, freed, scanned, refVars, best, at, qlock, stack>> /\ killed' = killed
      BY <2>2, Zenon DEF Sleep, Block, cpuVars
    <3>3. home[t] # NULL /\ "WAIT" \notin {"NONE", "OUT", "DEATH"} /\ home[t] \notin scanned[t]
      BY <2>1, Zenon
    <3> HIDE DEF AllTasks
    <3> QED
      BY <3>1, <3>2, <3>3, StatusPreserves, ZenonT(30)
  <2>3. CASE Awake(t, c)
    <3>1. status' = [status EXCEPT ![t] = "RUNNING"]
      BY <2>3, Zenon DEF Awake
    <3>2. UNCHANGED <<group, home, freed, scanned, refVars, best, at, qlock, stack>> /\ killed' = killed
      BY <2>3, Zenon DEF Awake, cpuVars
    <3>3. home[t] # NULL /\ "RUNNING" \notin {"NONE", "OUT", "DEATH"} /\ home[t] \notin scanned[t]
      BY <2>1, Zenon
    <3> HIDE DEF AllTasks
    <3> QED
      BY <1>2, <3>1, <3>2, <3>3, StatusPreserves, ZenonT(30) DEF OnCpu
  <2>4. CASE StopSignal(t, c)
    <3>1. status' = [status EXCEPT ![t] = "FUTEX"]
      BY <2>4, Zenon DEF StopSignal
    <3>2. UNCHANGED <<group, home, freed, scanned, refVars, best, at, qlock, stack>> /\ killed' = killed
      BY <2>4, Zenon DEF StopSignal, cpuVars
    <3>3. home[t] # NULL /\ "FUTEX" \notin {"NONE", "OUT", "DEATH"} /\ home[t] \notin scanned[t]
      BY <2>1, Zenon
    <3> HIDE DEF AllTasks
    <3> QED
      BY <3>1, <3>2, <3>3, StatusPreserves, ZenonT(30)
  <2>5. CASE Yield(t, c) \/ disable_scheduler(t, c)
    <3>1. Quiet /\ Moves(previous[c])
      BY <1>1, <2>5 DEF Yield, disable_scheduler, Quiet, Moves, Touches, TypeOK, taskVars, refVars
    <3>2. (\A x \in CPUs : StepInv(x))'
      BY <1>1, <1>2, <2>5
         DEF Yield, disable_scheduler, OnCpu, Goto, StepInv, TypeOK, taskVars, refVars
    <3>3. RunningIsOnCpu'
      <4>1. /\ UNCHANGED <<status, current, selected>>
            /\ \A x \in CPUs : at[x] = "switch" => at'[x] = "switch"
        BY <1>1, <1>2, <2>5 DEF Yield, disable_scheduler, OnCpu, Goto, TypeOK, taskVars, refVars
      <4> QED
        BY <1>1, <4>1, Zenon DEF RunningIsOnCpu
    <3> QED
      BY <3>1, <3>2, <3>3, QuietMove, Zenon DEF SchedulerInv
  <2> QED
    BY <2>2, <2>3, <2>4, <2>5, Zenon DEF TaskStep
<1> QED
  BY <1>2, Zenon DEF TaskStep, Sleep, Block, Awake, Yield, StopSignal, disable_scheduler

(* Steps that leave the variables of the CPUs alone and start nothing. *)
LEMMA CpuFrame ==
    ASSUME SchedulerInv, UNCHANGED <<refVars, best, at, qlock, stack>>,
           \A t \in AllTasks : status'[t] = "RUNNING" => status[t] = "RUNNING"
    PROVE  /\ (\A x \in CPUs : StepInv(x))' /\ RunningIsOnCpu'
           /\ \A x \in CPUs : Touches(x)' = Touches(x) /\ Touches(x) \subseteq AllTasks \cup {NULL}
<1>1. (\A x \in CPUs : StepInv(x)) /\ RunningIsOnCpu
  BY Zenon DEF SchedulerInv
<1>2. \A x \in CPUs : {current[x], stack[x]} \subseteq AllTasks
                      /\ {selected[x], previous[x], best[x]} \subseteq AllTasks \cup {NULL}
  BY DEF SchedulerInv, TypeOK
<1>3. (\A x \in CPUs : StepInv(x))'
  <2> SUFFICES ASSUME NEW x \in CPUs PROVE StepInv(x)'
    BY Zenon
  <2>1. status'[current[x]] = "RUNNING" => status[current[x]] = "RUNNING"
    BY <1>2, Zenon
  <2>2. StepInv(x)
    BY <1>1, Zenon
  <2> QED
    BY <2>1, <2>2, Zenon DEF StepInv, refVars
<1>4. RunningIsOnCpu'
  BY <1>1, Zenon DEF RunningIsOnCpu, refVars, AllTasks
<1>5. \A x \in CPUs : Touches(x)' = Touches(x) /\ Touches(x) \subseteq AllTasks \cup {NULL}
  BY <1>2, Zenon DEF Touches, refVars
<1> QED
  BY <1>3, <1>4, <1>5, Zenon

(* scheduler_referenced finds a CPU clear of an unschedulable task. *)
LEMMA ScanCpuPreserves ==
    ASSUME SchedulerInv, TypeOK', NEW t \in Threads, NEW c \in CPUs, ScanCpu(t, c)
    PROVE  SchedulerInv'
<1>1. TypeOK /\ (\A x \in CPUs : StepInv(x)) /\ QueueInv /\ HomeInv /\ ScanInv /\ FreedInv
  BY Zenon DEF SchedulerInv
<1>2. UNCHANGED <<status, group, home, killed, freed, refVars, best, at, qlock, stack>>
  BY Zenon DEF ScanCpu, cpuVars
<1>3. /\ (\A x \in CPUs : StepInv(x))' /\ RunningIsOnCpu'
      /\ \A x \in CPUs : Touches(x)' = Touches(x)
  BY <1>2, CpuFrame, Zenon
<1>4. QueueInv' /\ FreedInv'
  BY <1>1, <1>2, ZenonT(30) DEF QueueInv, FreedInv, Terminal
<1>5. HomeInv'
  BY <1>1, <1>2, <1>3, Zenon DEF HomeInv
<1>6. c \in scanned'[t] => t \notin Touches(c)
  <2>1. scanned' = [scanned EXCEPT ![t] = IF t \in References(c) THEN {} ELSE @ \cup {c}]
    BY Zenon DEF ScanCpu
  <2>2. ~qlock[c]
    BY Zenon DEF ScanCpu
  <2>3. t # NULL
    BY SchedulerAssumption, Zenon DEF AllTasks
  <2>4. t \in Touches(c) => t \in References(c)
    BY <1>1, <2>2, <2>3 DEF StepInv, References, Touches, TypeOK
  <2> QED
    BY <1>1, <2>1, <2>4, Zenon DEF TypeOK
<1>7. ScanInv'
  <2>1. ASSUME NEW u \in Threads
        PROVE  /\ scanned'[u] # {} => home[u] # NULL
               /\ home[u] \in scanned'[u] => u = t \/ home[u] \in scanned[u]
               /\ home[t] \in scanned'[t] => home[t] = c \/ home[t] \in scanned[t]
    BY <1>1, Zenon DEF ScanCpu, ScanInv, TypeOK
  <2>2. Terminal(t) \/ GroupDead(t)
    BY Zenon DEF ScanCpu
  <2>3. \A u \in Threads : (Terminal(u)' <=> Terminal(u)) /\ (GroupDead(u)' <=> GroupDead(u))
    BY <1>2, Zenon DEF Terminal, GroupDead
  <2>4. ASSUME NEW u \in Threads, home[u] \in scanned'[u]
        PROVE  u \notin Touches(home[u]) /\ (Terminal(u) \/ GroupDead(u)) /\ home[u] \in CPUs
    BY <1>1, <1>6, <2>1, <2>2, <2>4 DEF ScanInv, TypeOK
  <2> QED
    BY <1>2, <1>3, <2>1, <2>3, <2>4, ZenonT(30) DEF ScanInv
<1> QED
  BY <1>3, <1>4, <1>5, <1>7, Zenon DEF SchedulerInv

(* add_task and collect_quiesced_process: a thread that no CPU touches is  *)
(* put into a queue or taken out of one.                                   *)
LEMMA RequeuePreserves ==
    ASSUME SchedulerInv, TypeOK', NEW t \in Threads, \A x \in CPUs : t \notin Touches(x),
           NEW s \in {"START", "OUT"}, status' = [status EXCEPT ![t] = s],
           NEW q, home' = [home EXCEPT ![t] = q], s = "START" <=> q # NULL,
           freed'[t] => s = "OUT", s = "OUT" => killed[t],
           \A u \in Threads : u # t => freed'[u] = freed[u] /\ scanned'[u] = scanned[u],
           scanned'[t] = {}, UNCHANGED <<group, killed, refVars, best, at, qlock, stack>>
    PROVE  SchedulerInv'
<1>1. TypeOK /\ QueueInv /\ HomeInv /\ ScanInv /\ FreedInv
  BY Zenon DEF SchedulerInv
<1>2. /\ status'[t] = s /\ home'[t] = q
      /\ \A u \in AllTasks : u # t => status'[u] = status[u] /\ home'[u] = home[u]
  BY <1>1, Zenon DEF TypeOK, AllTasks
<1>3. s \in {"START", "OUT"} /\ s # "RUNNING" /\ s # "NONE" /\ s # "DEATH"
  BY Zenon
<1>4. /\ (\A x \in CPUs : StepInv(x))' /\ RunningIsOnCpu'
      /\ \A x \in CPUs : Touches(x)' = Touches(x) /\ Touches(x) \subseteq AllTasks \cup {NULL}
  BY <1>2, <1>3, CpuFrame, ZenonT(30)
<1>5. QueueInv'
  <2>1. \A c \in CPUs : Idle[c] \in AllTasks /\ Idle[c] # t
    BY SchedulerAssumption DEF AllTasks, IdleTasks
  <2>2. \A c \in CPUs : home'[Idle[c]] = c
    BY <1>1, <1>2, <2>1 DEF QueueInv
  <2>3. \A u \in Threads : home'[u] = NULL <=> status'[u] \in {"NONE", "OUT"}
    BY <1>1, <1>2, <1>3 DEF QueueInv, AllTasks
  <2> QED
    BY <2>2, <2>3, ZenonT(30) DEF QueueInv
<1>6. FreedInv'
  BY <1>1, <1>2, <1>3 DEF FreedInv, Terminal, AllTasks
<1>7. HomeInv'
  BY <1>1, <1>2, <1>4 DEF HomeInv
<1>8. ScanInv'
  <2>1. \A u \in Threads : u # t => (Terminal(u)' <=> Terminal(u)) /\ (GroupDead(u)' <=> GroupDead(u))
    BY <1>2, ZenonT(30) DEF Terminal, GroupDead, AllTasks
  <2>2. \A u \in Threads : u # t /\ home[u] \in scanned[u] => home[u] \in CPUs
    BY <1>1, Zenon DEF TypeOK
  <2> QED
    BY <1>1, <1>2, <1>4, <2>1, <2>2 DEF ScanInv, AllTasks
<1> QED
  BY <1>4, <1>5, <1>6, <1>7, <1>8, Zenon DEF SchedulerInv

(* A new task enters a queue no CPU knows it from yet. *)
LEMMA AddTaskPreserves ==
    ASSUME SchedulerInv, TypeOK', NEW t \in Threads, NEW c \in CPUs, NEW d \in CPUs, AddTask(t, c, d)
    PROVE  SchedulerInv'
<1>1. QueueInv /\ HomeInv /\ ScanInv /\ FreedInv
  BY Zenon DEF SchedulerInv
<1>2. /\ status[t] = "NONE" /\ status' = [status EXCEPT ![t] = "START"]
      /\ home' = [home EXCEPT ![t] = d]
      /\ UNCHANGED <<group, killed, freed, scanned, refVars, best, at, qlock, stack>>
  BY Zenon DEF AddTask, cpuVars
<1>3. home[t] = NULL
  BY <1>1, <1>2, Zenon DEF QueueInv
<1>4. t # NULL /\ \A x \in CPUs : x # NULL
  BY SchedulerAssumption, Zenon DEF AllTasks
<1>5. scanned[t] = {} /\ \A x \in CPUs : t \notin Touches(x)
  BY <1>1, <1>3, <1>4, Zenon DEF HomeInv, ScanInv
<1>6. ~freed[t]
  BY <1>1, <1>2, Zenon DEF FreedInv
<1> QED
  BY <1>2, <1>4, <1>5, <1>6, RequeuePreserves, ZenonT(30)

(* A task every CPU was found clear of leaves its queue and is freed. *)
LEMMA CollectPreserves ==
    ASSUME SchedulerInv, TypeOK', NEW t \in Threads, Collect(t)
    PROVE  SchedulerInv' /\ Terminal(t) /\ \A x \in CPUs : t \notin Touches(x)
<1>1. TypeOK /\ QueueInv /\ HomeInv /\ ScanInv /\ FreedInv
  BY Zenon DEF SchedulerInv
<1>2. /\ status[t] = "DEATH" /\ status' = [status EXCEPT ![t] = "OUT"]
      /\ home' = [home EXCEPT ![t] = NULL]
      /\ freed' = [freed EXCEPT ![t] = TRUE]
      /\ scanned[t] = CPUs /\ scanned' = [scanned EXCEPT ![t] = {}]
      /\ UNCHANGED <<group, killed, refVars, best, at, qlock, stack>>
  BY Zenon DEF Collect, cpuVars
<1>3. home[t] \in CPUs
  <2>1. home[t] \in CPUs \cup {NULL}
    BY <1>1, Zenon DEF TypeOK, AllTasks
  <2>2. home[t] # NULL
    BY <1>1, <1>2, Zenon DEF QueueInv
  <2> QED
    BY <2>1, <2>2, Zenon
<1>4. \A x \in CPUs : t \notin Touches(x)
  <2>1. t \notin Touches(home[t])
    BY <1>1, <1>2, <1>3, Zenon DEF ScanInv
  <2>2. t # NULL
    BY SchedulerAssumption, Zenon DEF AllTasks
  <2> QED
    BY <1>1, <2>1, <2>2, Zenon DEF HomeInv
<1>5. Terminal(t) /\ killed[t]
  BY <1>1, <1>2, Zenon DEF Terminal, FreedInv
<1>6. scanned'[t] = {} /\ \A u \in Threads : u # t => freed'[u] = freed[u] /\ scanned'[u] = scanned[u]
  BY <1>1, <1>2 DEF TypeOK
<1> QED
  BY <1>2, <1>4, <1>5, <1>6, RequeuePreserves, ZenonT(30)

(* kill_proc makes the threads of a process unschedulable. *)
LEMMA KillGroupPreserves ==
    ASSUME SchedulerInv, TypeOK', NEW g \in Groups, KillGroup(g)
    PROVE  SchedulerInv'
<1>1. TypeOK /\ QueueInv /\ HomeInv /\ ScanInv /\ FreedInv
  BY Zenon DEF SchedulerInv
<1>2. /\ group' = [group EXCEPT ![g] = "dead"]
      /\ UNCHANGED <<status, home, killed, freed, scanned, refVars, best, at, qlock, stack>>
  BY Zenon DEF KillGroup, cpuVars
<1>3. /\ (\A x \in CPUs : StepInv(x))' /\ RunningIsOnCpu'
      /\ \A x \in CPUs : Touches(x)' = Touches(x)
  BY <1>2, CpuFrame, Zenon
<1>4. QueueInv' /\ FreedInv'
  BY <1>1, <1>2, Zenon DEF QueueInv, FreedInv, Terminal
<1>5. HomeInv'
  BY <1>1, <1>2, <1>3, Zenon DEF HomeInv
<1>6. ScanInv'
  <2>1. \A t \in Threads : (Terminal(t)' <=> Terminal(t)) /\ (GroupDead(t) => GroupDead(t)')
    BY <1>1, <1>2, SchedulerAssumption DEF Terminal, GroupDead, TypeOK
  <2>2. \A t \in Threads : home[t] \in scanned[t] => home[t] \in CPUs
    BY <1>1, Zenon DEF TypeOK
  <2> QED
    BY <1>1, <1>2, <1>3, <2>1, <2>2, ZenonT(30) DEF ScanInv
<1> QED
  BY <1>3, <1>4, <1>5, <1>6, Zenon DEF SchedulerInv

(* Waking or killing a task preserves the invariant. *)
LEMMA RemotePreserves ==
    ASSUME SchedulerInv, TypeOK', NEW t \in Threads, WakeTask(t) \/ KillThread(t)
    PROVE  SchedulerInv'
<1>1. TypeOK /\ QueueInv
  BY Zenon DEF SchedulerInv
<1>2. CASE WakeTask(t)
  <2>1. status' = [status EXCEPT ![t] = "START"]
    BY <1>2, ZenonT(30) DEF WakeTask
  <2>2. UNCHANGED <<group, home, freed, scanned, refVars, best, at, qlock, stack>> /\ killed' = killed
    BY <1>2, Zenon DEF WakeTask, cpuVars
  <2>3. home[t] # NULL /\ "START" \notin {"NONE", "OUT", "DEATH", "RUNNING"} /\ ~Terminal(t)
    BY <1>1, <1>2, Zenon DEF WakeTask, QueueInv, Terminal
  <2> QED
    BY <2>1, <2>2, <2>3, StatusPreserves, ZenonT(30)
<1>3. CASE KillThread(t)
  <2>1. status' = [status EXCEPT ![t] = "DEATH"]
    BY <1>3, Zenon DEF KillThread
  <2>2. UNCHANGED <<group, home, freed, scanned, refVars, best, at, qlock, stack>>
    BY <1>3, Zenon DEF KillThread, cpuVars
  <2>3. home[t] # NULL /\ "DEATH" \notin {"NONE", "OUT", "RUNNING"}
    BY <1>3, Zenon DEF KillThread
  <2>4. killed'[t] /\ \A u \in Threads : killed[u] => killed'[u]
    BY <1>1, <1>3 DEF KillThread, TypeOK
  <2> QED
    BY <2>1, <2>2, <2>3, <2>4, StatusPreserves, ZenonT(30)
<1> QED
  BY <1>2, <1>3, Zenon

(* Time and enable_scheduler touch nothing the invariant speaks of. *)
LEMMA IdlePreserves ==
    ASSUME SchedulerInv, TypeOK',
           UNCHANGED <<status, group, home, killed, freed, scanned, refVars, best, at, qlock, stack>>
    PROVE  SchedulerInv'
<1>1. QueueInv /\ HomeInv /\ ScanInv /\ FreedInv /\ TypeOK
  BY Zenon DEF SchedulerInv
<1>2. /\ (\A x \in CPUs : StepInv(x))' /\ RunningIsOnCpu'
      /\ \A x \in CPUs : Touches(x)' = Touches(x)
  BY CpuFrame, Zenon
<1>3. QueueInv' /\ FreedInv'
  BY <1>1, Zenon DEF QueueInv, FreedInv, Terminal
<1>4. HomeInv'
  BY <1>1, <1>2, Zenon DEF HomeInv
<1>5. ScanInv'
  <2>1. \A t \in Threads : (Terminal(t)' <=> Terminal(t)) /\ (GroupDead(t)' <=> GroupDead(t))
    BY Zenon DEF Terminal, GroupDead
  <2>2. \A t \in Threads : home[t] \in scanned[t] => home[t] \in CPUs
    BY <1>1, Zenon DEF TypeOK
  <2> QED
    BY <1>1, <1>2, <2>1, <2>2, Zenon DEF ScanInv
<1> QED
  BY <1>2, <1>3, <1>4, <1>5, Zenon DEF SchedulerInv

(* Every step of Next preserves the inductive invariant. *)
LEMMA SchedulerStep == SchedulerInv /\ [Next]_vars => SchedulerInv'
<1> SUFFICES ASSUME SchedulerInv, [Next]_vars PROVE SchedulerInv'
  BY Zenon
<1>1. TypeOK'
  BY TypeStep, Zenon
<1>2. ASSUME NEW c \in CPUs, Timer(c) \/ TimerStep(c) PROVE SchedulerInv'
  BY <1>1, <1>2, TimerPreserves, Zenon
<1>3. ASSUME NEW t \in Threads, NEW c \in CPUs, TaskStep(t, c) PROVE SchedulerInv'
  BY <1>1, <1>3, TaskPreserves, Zenon
<1>4. ASSUME NEW t \in Threads, NEW c \in CPUs, ScanCpu(t, c) PROVE SchedulerInv'
  BY <1>1, <1>4, ScanCpuPreserves, Zenon
<1>5. ASSUME NEW t \in Threads, NEW c \in CPUs, NEW d \in CPUs, AddTask(t, c, d) PROVE SchedulerInv'
  BY <1>1, <1>5, AddTaskPreserves, Zenon
<1>6. ASSUME NEW t \in Threads, WakeTask(t) \/ KillThread(t) PROVE SchedulerInv'
  BY <1>1, <1>6, RemotePreserves, Zenon
<1>7. ASSUME NEW t \in Threads, Collect(t) PROVE SchedulerInv'
  BY <1>1, <1>7, CollectPreserves, Zenon
<1>8. ASSUME NEW g \in Groups, KillGroup(g) PROVE SchedulerInv'
  BY <1>1, <1>8, KillGroupPreserves, Zenon
<1>9. ASSUME NEW t \in Threads, Expire(t) PROVE SchedulerInv'
  BY <1>1, <1>9, IdlePreserves, Zenon DEF Expire, cpuVars
<1>10. ASSUME NEW c \in CPUs, enable_scheduler(c) PROVE SchedulerInv'
  BY <1>1, <1>10, IdlePreserves, Zenon DEF enable_scheduler, taskVars
<1>11. CASE UNCHANGED vars
  BY <1>1, <1>11, IdlePreserves, Zenon DEF vars, taskVars, cpuVars
<1> QED
  BY <1>2, <1>3, <1>4, <1>5, <1>6, <1>7, <1>8, <1>9, <1>10, <1>11, Zenon DEF Next

(* What a CPU knows and where its handler stands always fit together. *)
THEOREM SchedulerInvariant == Spec => []SchedulerInv
BY SchedulerInitial, SchedulerStep, PTL DEF Spec

(* The three references of a CPU cover what it uses, so that               *)
(* scheduler_referenced misses no task still on a stack or in a context.   *)
THEOREM ReferencesCoverUse == Spec => []UseIsReferenced
<1>1. SchedulerInv => UseIsReferenced
  BY Zenon DEF SchedulerInv, TypeOK, StepInv, UseIsReferenced, InUse, References
<1> QED
  BY <1>1, SchedulerInvariant, PTL

(* No CPU uses a thread control block after it was freed, for any number   *)
(* of CPUs that scheduler_referenced visits one after the other.           *)
THEOREM SchedulerMemorySafe == Spec => []NoUseAfterFree
<1>1. SchedulerInv => NoUseAfterFree
  BY SchedulerAssumption
     DEF SchedulerInv, HomeInv, FreedInv, NoUseAfterFree, Touches, InUse, References, AllTasks
<1> QED
  BY <1>1, SchedulerInvariant, PTL

(* No two CPUs run the same task or share a kernel stack. *)
THEOREM SchedulerExclusive == Spec => []OneCpuPerTask
<1>1. SchedulerInv => OneCpuPerTask
  BY DEF SchedulerInv, HomeInv, OneCpuPerTask, Touches, InUse
<1> QED
  BY <1>1, SchedulerInvariant, PTL

(* A preempted thread is never left RUNNING. *)
THEOREM RunningOnCpu == Spec => []RunningIsOnCpu
<1>1. SchedulerInv => RunningIsOnCpu
  BY Zenon DEF SchedulerInv
<1> QED
  BY <1>1, SchedulerInvariant, PTL
-----------------------------------------------------------------------------
(* Refinement of TaskLifecycle. *)

(* Phase in terms of what the CPUs touch. *)
LEMMA PhaseTouches ==
    \A t \in Threads :
        Phase(t) = IF freed[t] THEN "freed"
                   ELSE IF Terminal(t) /\ \A c \in CPUs : t \notin Touches(c) THEN "stopped"
                   ELSE IF killed[t] THEN "dying" ELSE "live"
<1>1. \A t \in Threads, c \in CPUs : t \in Touches(c) <=> t \in References(c) \cup InUse(c)
  BY SchedulerAssumption, Zenon DEF Touches, References, InUse, AllTasks
<1> QED
  BY <1>1, Zenon DEF Phase

(* The same of the state after a step. *)
LEMMA PhaseTouchesNext ==
    \A t \in Threads :
        Phase(t)' = IF freed'[t] THEN "freed"
                    ELSE IF Terminal(t)' /\ \A c \in CPUs : t \notin Touches(c)' THEN "stopped"
                    ELSE IF killed'[t] THEN "dying" ELSE "live"
<1>1. \A t \in Threads, c \in CPUs : t \in Touches(c)' <=> t \in (References(c) \cup InUse(c))'
  BY SchedulerAssumption, Zenon DEF Touches, References, InUse, AllTasks
<1> QED
  BY <1>1, Zenon DEF Phase

(* The thread is killed and no CPU touches it. *)
Off(t) == Terminal(t) /\ \A c \in CPUs : t \notin Touches(c)

(* A thread's phase changes only with what it is read from. *)
LEMMA SamePhase ==
    ASSUME NEW t \in Threads, freed'[t] = freed[t], killed'[t] = killed[t], Off(t)' <=> Off(t)
    PROVE  Phase(t)' = Phase(t)
<1>1. Phase(t) = IF freed[t] THEN "freed" ELSE IF Off(t) THEN "stopped"
                 ELSE IF killed[t] THEN "dying" ELSE "live"
  BY PhaseTouches, Zenon DEF Off
<1>2. Phase(t)' = IF freed'[t] THEN "freed" ELSE IF Off(t)' THEN "stopped"
                  ELSE IF killed'[t] THEN "dying" ELSE "live"
  BY PhaseTouchesNext, Zenon DEF Off
<1> QED
  BY <1>1, <1>2

(* A step of TaskLifecycle, or none, seen from one thread. *)
PhaseStep ==
    \E d \in Threads :
        /\ \A t \in Threads \ {d} : Phase(t)' = Phase(t)
        /\ \/ Phase(d)' = Phase(d)
           \/ Phase(d) = "live" /\ Phase(d)' \in {"dying", "stopped"}
           \/ Phase(d) = "dying" /\ Phase(d)' = "stopped"
           \/ Phase(d) = "stopped" /\ Phase(d)' = "freed"

(* A step that changes no thread's status to or from terminal, and takes   *)
(* at most one terminal thread off the CPUs, is a Stop or a stutter.       *)
LEMMA DropOne ==
    ASSUME SchedulerInv, Threads # {}, Quiet, NEW d, Moves(d)
    PROVE  PhaseStep
<1>1. /\ \A t \in Threads : Terminal(t)' <=> Terminal(t)
      /\ \A t \in Threads : Terminal(t) => killed[t]
      /\ UNCHANGED <<killed, freed>>
  BY ZenonT(30) DEF Quiet, Terminal, AllTasks, SchedulerInv, FreedInv
<1>2. /\ \A t \in Threads, x \in CPUs : t \in Touches(x)' => t \in Touches(x)
      /\ \A t \in Threads, x \in CPUs : t \in Touches(x) /\ t # d => t \in Touches(x)'
  BY SchedulerAssumption, Zenon DEF Moves, AllTasks
<1>3. ASSUME NEW t \in Threads
      PROVE  \/ Phase(t)' = Phase(t)
             \/ t = d /\ Phase(t) = "dying" /\ Phase(t)' = "stopped"
  <2>1. CASE \E x \in CPUs : t \in Touches(x)'
    <3>1. Off(t)' <=> Off(t)
      BY <1>1, <1>2, <2>1, Zenon DEF Off
    <3> QED
      BY <1>1, <3>1, SamePhase, Zenon
  <2>2. CASE \A x \in CPUs : t \notin Touches(x)
    <3>1. Off(t)' <=> Off(t)
      BY <1>1, <1>2, <2>2, Zenon DEF Off
    <3> QED
      BY <1>1, <3>1, SamePhase, Zenon
  <2>3. CASE /\ \A x \in CPUs : t \notin Touches(x)'
             /\ \E x \in CPUs : t \in Touches(x)
    BY <1>1, <1>2, <2>3, PhaseTouches, PhaseTouchesNext, Zenon
  <2> QED
    BY <2>1, <2>2, <2>3, Zenon
<1>4. \A t \in Threads : t # d => Phase(t)' = Phase(t)
  BY <1>3, Zenon
<1>5. CASE d \in Threads
  BY <1>3, <1>4, <1>5, Zenon DEF PhaseStep
<1>6. CASE d \notin Threads
  BY <1>4, <1>6, Zenon DEF PhaseStep
<1> QED
  BY <1>5, <1>6, Zenon

(* A step that brings only threads that are not terminal to a CPU, takes   *)
(* none off, and makes none terminal or alive again but on a CPU, changes  *)
(* no phase.                                                               *)
LEMMA PhaseKept ==
    ASSUME Threads # {}, UNCHANGED <<killed, freed>>,
           \A t \in Threads : (Terminal(t)' <=> Terminal(t)) \/ \E c \in CPUs : t \in Touches(c),
           \A t \in Threads, c \in CPUs : t \in Touches(c) => t \in Touches(c)',
           \A t \in Threads, c \in CPUs :
               t \in Touches(c)' /\ Terminal(t) => t \in Touches(c)
    PROVE  PhaseStep
<1>1. ASSUME NEW t \in Threads PROVE Phase(t)' = Phase(t)
  <2>1. Off(t)' <=> Off(t)
    BY Zenon DEF Off
  <2> QED
    BY <2>1, SamePhase, Zenon
<1> QED
  BY <1>1, Zenon DEF PhaseStep

(* Every step of the scheduler is at most one step of TaskLifecycle. *)
LEMMA StepRefines == SchedulerInv /\ SchedulerInv' /\ Next /\ Threads # {} => PhaseStep
<1> SUFFICES ASSUME SchedulerInv, SchedulerInv', Next, Threads # {} PROVE PhaseStep
  BY Zenon
<1> USE SchedulerAssumption
<1>0. TypeOK /\ TypeOK' /\ FreedInv /\ HomeInv
  BY Zenon DEF SchedulerInv
<1>1. ASSUME NEW c \in CPUs, Timer(c) \/ TimerStep(c), ~Scan(c) PROVE PhaseStep
  BY <1>0, <1>1, TimerMoves, DropOne, Zenon
<1>2. ASSUME NEW c \in CPUs, Scan(c) PROVE PhaseStep
  <2>1. \A t \in Threads : Terminal(t)' <=> Terminal(t)
    BY <1>0, <1>2, Zenon DEF Scan, WakeDue, Due, Terminal, TypeOK, AllTasks
  <2>2. PICK b : best' = [best EXCEPT ![c] = b] /\ (b \in Threads => ~Terminal(b)')
    BY <1>2, ZenonT(30) DEF Scan, Runnable, Terminal, AllTasks, IdleTasks
  <2>3. best[c] = NULL
    BY <1>2, ZenonT(30) DEF Scan, SchedulerInv, StepInv
  <2>4. UNCHANGED <<killed, freed, refVars, stack>>
    BY <1>2, ZenonT(30) DEF Scan
  <2>5. \A x \in CPUs : Touches(x) \subseteq Touches(x)' \cup {NULL} /\ Touches(x)' \subseteq Touches(x) \cup {b}
    BY <1>0, <2>2, <2>3, <2>4 DEF Touches, refVars, TypeOK
  <2>6. \A t \in Threads : t # NULL
    BY Zenon DEF AllTasks
  <2> QED
    BY <2>1, <2>2, <2>4, <2>5, <2>6, PhaseKept, Zenon
<1>3. ASSUME UNCHANGED <<killed, freed, refVars, stack, best>>,
             \A t \in Threads : (Terminal(t)' <=> Terminal(t)) \/ \E c \in CPUs : t \in Touches(c)
      PROVE  PhaseStep
  BY <1>3, PhaseKept, ZenonT(30) DEF Touches, refVars
<1>4. ASSUME NEW t \in Threads, NEW c \in CPUs, TaskStep(t, c) PROVE PhaseStep
  <2>1. CASE Yield(t, c)
    <3>1. Quiet /\ Moves(previous[c])
      BY <1>0, <2>1 DEF Yield, Quiet, Moves, Touches, TypeOK, taskVars
    <3> QED
      BY <3>1, DropOne, Zenon
  <2>2. CASE Sleep(t, c) \/ Block(t, c) \/ Awake(t, c)
    <3>1. /\ ~Terminal(t) /\ \E s \in {"WAIT", "RUNNING"} : status' = [status EXCEPT ![t] = s]
          /\ UNCHANGED <<killed, freed, refVars, stack, best>>
      BY <2>2, ZenonT(30) DEF Sleep, Block, Awake, Terminal, cpuVars
    <3>2. \A u \in Threads : Terminal(u)' <=> Terminal(u)
      BY <1>0, <3>1 DEF Terminal, TypeOK, AllTasks
    <3> QED
      BY <1>3, <3>1, <3>2, Zenon
  <2>3. CASE StopSignal(t, c)
    BY <1>0, <1>3, <2>3, Zenon DEF StopSignal, OnCpu, Touches, Terminal, TypeOK, AllTasks, cpuVars
  <2>4. CASE disable_scheduler(t, c)
    BY <1>0, <1>3, <2>4, Zenon DEF disable_scheduler, Terminal, taskVars
  <2> QED
    BY <1>4, <2>1, <2>2, <2>3, <2>4, Zenon DEF TaskStep
<1>5. ASSUME NEW t \in Threads, KillThread(t) PROVE PhaseStep
  <2>1. /\ \A x \in CPUs : Touches(x)' = Touches(x)
        /\ UNCHANGED freed
        /\ ~Terminal(t) /\ Terminal(t)' /\ killed'[t]
        /\ \A u \in Threads : u # t => killed'[u] = killed[u] /\ (Terminal(u)' <=> Terminal(u))
        /\ ~freed[t]
    <3>1. /\ home[t] # NULL /\ ~Terminal(t)
          /\ status' = [status EXCEPT ![t] = "DEATH"] /\ killed' = [killed EXCEPT ![t] = TRUE]
          /\ UNCHANGED <<freed, refVars, stack, best>>
      BY <1>5, Zenon DEF KillThread, cpuVars
    <3>2. \A x \in CPUs : Touches(x)' = Touches(x)
      BY <3>1, ZenonT(30) DEF Touches, refVars
    <3>3. Terminal(t)' /\ \A u \in Threads : u # t => (Terminal(u)' <=> Terminal(u))
      BY <1>0, <3>1, ZenonT(30) DEF Terminal, TypeOK, AllTasks
    <3>4. killed'[t] /\ \A u \in Threads : u # t => killed'[u] = killed[u]
      BY <1>0, <3>1, ZenonT(40) DEF TypeOK
    <3>5. ~freed[t]
      BY <1>0, <3>1, ZenonT(30) DEF FreedInv
    <3> QED
      BY <3>1, <3>2, <3>3, <3>4, <3>5, Zenon
  <2>2. ASSUME NEW u \in Threads \ {t} PROVE Phase(u)' = Phase(u)
    <3>1. Off(u)' <=> Off(u)
      BY <2>1 DEF Off
    <3> QED
      BY <2>1, <3>1, SamePhase, ZenonT(30)
  <2>3. Phase(t) \in {"live", "dying"} /\ Phase(t)' \in {"dying", "stopped"}
    BY <2>1, PhaseTouches, PhaseTouchesNext, Zenon
  <2> QED
    BY <2>2, <2>3, Zenon DEF PhaseStep
<1>6. ASSUME NEW t \in Threads, Collect(t) PROVE PhaseStep
  <2>1. Terminal(t) /\ \A x \in CPUs : t \notin Touches(x)
    BY <1>0, <1>6, CollectPreserves, Zenon
  <2>2. /\ \A x \in CPUs : Touches(x)' = Touches(x)
        /\ freed'[t] /\ UNCHANGED killed
        /\ \A u \in Threads : u # t => freed'[u] = freed[u] /\ (Terminal(u)' <=> Terminal(u))
        /\ ~freed[t]
    <3>1. /\ status[t] = "DEATH" /\ status' = [status EXCEPT ![t] = "OUT"]
          /\ freed' = [freed EXCEPT ![t] = TRUE]
          /\ UNCHANGED <<killed, refVars, cpuVars>>
      BY <1>6, Zenon DEF Collect
    <3>2. \A x \in CPUs : Touches(x)' = Touches(x)
      BY <3>1, ZenonT(30) DEF Touches, refVars, cpuVars
    <3>3. freed'[t] /\ ~freed[t] /\ \A u \in Threads : u # t => freed'[u] = freed[u]
      BY <1>0, <3>1 DEF TypeOK, FreedInv
    <3>4. \A u \in Threads : u # t => (Terminal(u)' <=> Terminal(u))
      BY <1>0, <3>1, ZenonT(30) DEF TypeOK, Terminal, AllTasks
    <3> QED
      BY <3>1, <3>2, <3>3, <3>4, Zenon
  <2>3. ASSUME NEW u \in Threads \ {t} PROVE Phase(u)' = Phase(u)
    <3>1. Off(u)' <=> Off(u)
      BY <2>2 DEF Off
    <3> QED
      BY <2>2, <3>1, SamePhase, Zenon
  <2>4. Phase(t) = "stopped" /\ Phase(t)' = "freed"
    BY <2>1, <2>2, PhaseTouches, PhaseTouchesNext, Zenon
  <2> QED
    BY <2>3, <2>4, Zenon DEF PhaseStep
<1>7. ASSUME NEW c \in CPUs, enable_scheduler(c) PROVE PhaseStep
  BY <1>3, <1>7, Zenon DEF enable_scheduler, Terminal, taskVars
<1>8. ASSUME NEW t \in Threads, NEW c \in CPUs, ScanCpu(t, c) PROVE PhaseStep
  BY <1>3, <1>8, Zenon DEF ScanCpu, Terminal, cpuVars
<1>9. ASSUME NEW t \in Threads, NEW c \in CPUs, NEW d \in CPUs, AddTask(t, c, d) PROVE PhaseStep
  BY <1>0, <1>3, <1>9, ZenonT(30) DEF AddTask, Terminal, TypeOK, AllTasks, cpuVars
<1>10. ASSUME NEW t \in Threads, Expire(t) \/ WakeTask(t) PROVE PhaseStep
  BY <1>0, <1>3, <1>10 DEF Expire, WakeTask, Terminal, TypeOK, AllTasks, cpuVars
<1>11. ASSUME NEW g \in Groups, KillGroup(g) PROVE PhaseStep
  BY <1>3, <1>11, Zenon DEF KillGroup, Terminal, cpuVars
<1> QED
  BY <1>1, <1>2, <1>4, <1>5, <1>6, <1>7, <1>8, <1>9, <1>10, <1>11, Zenon DEF Next

(* The scheduler implements TaskLifecycle: whatever the other modules      *)
(* assume of a thread's life holds of the threads timer_handle switches,   *)
(* kill_proc kills and collect_quiesced_process frees.                     *)
THEOREM SchedulerRefines == Spec => ImplementsLifecycle
<1> DEFINE phases == [t \in Threads |-> Phase(t)]
<1>1. Init => Lifecycle!LifecycleInit
  BY SchedulerAssumption, Zenon DEF Init, Lifecycle!LifecycleInit, Phase, Terminal, AllTasks
<1>2. SchedulerInv /\ SchedulerInv' /\ [Next]_vars => [Lifecycle!LifecycleNext]_phases
  <2> SUFFICES ASSUME SchedulerInv, SchedulerInv', [Next]_vars, phases' # phases
               PROVE  Lifecycle!LifecycleNext
    BY Zenon
  <2>1. Next
    BY Zenon DEF vars, taskVars, refVars, cpuVars, Phase, Terminal, References, InUse
  <2>2. Threads # {}
    BY Zenon
  <2>3. PICK d \in Threads :
            /\ \A t \in Threads \ {d} : Phase(t)' = Phase(t)
            /\ \/ Phase(d)' = Phase(d)
               \/ Phase(d) = "live" /\ Phase(d)' \in {"dying", "stopped"}
               \/ Phase(d) = "dying" /\ Phase(d)' = "stopped"
               \/ Phase(d) = "stopped" /\ Phase(d)' = "freed"
    BY <2>1, <2>2, StepRefines, Zenon DEF PhaseStep
  <2>4. phases' = [phases EXCEPT ![d] = Phase(d)']
    BY <2>3, ZenonT(30)
  <2> QED
    BY <2>3, <2>4, ZenonT(30)
       DEF Lifecycle!LifecycleNext, Lifecycle!Kill, Lifecycle!Stop, Lifecycle!Free
<1> QED
  BY <1>1, <1>2, SchedulerInvariant, PTL DEF Spec, ImplementsLifecycle, Lifecycle!LifecycleSpec

=============================================================================
