-------------------------- MODULE CollectionProofs --------------------------
(***************************************************************************)
(* Proofs about ProcessCollection for any threads and processes and any    *)
(* number of launches and faults.  The invariant says what an actor has    *)
(* where it is: a claim of wait_owner, a preparation pin, or the cleanup   *)
(* of its target; and what the fields of a PCB then exclude.               *)
(***************************************************************************)
EXTENDS ProcessCollection, TLAPS

Claiming == {"claimed", "compete", "yield", "take"}
Launching == {"created", "load", "release"}
Draining == {"drain", "decide"}
Preparing == {"take", "check", "defer", "undo"}
Collecting == {"collect", "redo", "threads", "free"}
Holding == Draining \cup Preparing \cup Collecting

Untargeted == {"user", "exiting", "status", "mark", "zombie", "exited", "create", "wait",
               "claims", "sweep", "scan", "find"}

Places == Untargeted \cup Claiming \cup Launching \cup Holding \cup {"close", "last"}
GuiPlaces == {"user", "close", "last"}
ReaperPlaces == {"claims", "sweep", "scan", "find"} \cup Claiming \cup Holding
TaskPlaces == Places \ {"close", "last", "drain", "decide"}

FieldTypes ==
    /\ phase \in [Tasks -> Phases]
    /\ status \in [Processes -> {"START", "DEATH", "ZOMBIE", "WAIT"}]
    /\ wait_owner \in [Processes -> Tasks \cup {Reaper, NULL}]
    /\ cleanup \in [Processes -> 0..5]
    /\ parent \in [Processes -> Processes \cup {Kernel}]
    /\ allocated \subseteq Processes /\ listed \subseteq allocated
    /\ pin \in [Processes -> Tasks \cup {NULL}]
    /\ reports \in [Processes -> Nat]

(* Where an actor can be, and where it has a target. *)
PlacesInv ==
    /\ at \in [Actors -> Places] /\ target \in [Actors -> Processes \cup {NULL}]
    /\ next \in {"find", "claims"}
    /\ at[Gui] \in GuiPlaces /\ at[Reaper] \in ReaperPlaces
    /\ \A t \in Tasks : at[t] \in TaskPlaces
    /\ \A a \in Actors : at[a] \in Untargeted <=> target[a] = NULL

(* fd_cleanup_state says how far its one owner is. *)
OwnInv ==
    /\ \A a \in Actors :
         /\ at[a] \in Holding => target[a] \in allocated
         /\ at[a] \in Draining => cleanup[target[a]] \in {1, 5}
         /\ at[a] \in Preparing => cleanup[target[a]] = 4
         /\ at[a] \in Collecting => cleanup[target[a]] = 3
    /\ \A a, b \in Actors :
         at[a] \in Holding /\ at[b] \in Holding /\ target[a] = target[b] => a = b

(* A process that is drained or collected does not run and is not pinned,  *)
(* and one that runs is on the list.                                       *)
QuietInv ==
    /\ \A p \in allocated : cleanup[p] \in {1, 2, 3, 5} => ~CurrentOnCpu(p)
    /\ \A t \in Tasks : Executing(t) => ProcessOf[t] \in listed

(* The claim of wait_owner is exclusive and keeps the process on the list; *)
(* a thread claims only children of its process, the reaper the kernel's.  *)
ClaimInv ==
    \A a \in Actors : Alive(a) /\ at[a] \in Claiming =>
        /\ target[a] \in listed /\ wait_owner[target[a]] = a
        /\ parent[target[a]] = Kernel \/ (a \in Tasks /\ parent[target[a]] = ProcessOf[a])

(* A launch has pinned its own process and the child it makes. *)
LaunchInv ==
    \A t \in Tasks : Executing(t) =>
        /\ at[t] \in Launching =>
             target[t] \in listed /\ pin[target[t]] = t /\ target[t] # ProcessOf[t]
        /\ at[t] \in {"create", "created"} => pin[ProcessOf[t]] = t

(* The exit of p has been reported, or nobody can ask for it any more. *)
Settled(p) == reports[p] > 0 \/ parent[p] = Kernel

(* A thread that is between the two writes of status in kill_proc. *)
Dies(p) == \E t \in Members(p) : Executing(t) /\ at[t] \in {"mark", "zombie"}

SettledInv ==
    /\ \A p \in allocated : cleanup[p] \in {3, 5} => Settled(p)
    /\ \A a \in Actors :
         /\ at[a] \in Preparing => Settled(target[a])
         /\ Alive(a) /\ at[a] \in {"compete", "yield"} => Settled(target[a])
    /\ \A p \in allocated : status[p] = "DEATH" => Settled(p) \/ Dies(p)

(* When the threads of a process are freed nothing names them. *)
FreeInv ==
    /\ \A a \in Actors :
         /\ at[a] \in {"threads", "free"} => target[a] \notin listed
         /\ at[a] = "free" =>
              /\ \A c \in listed : wait_owner[c] \notin Members(target[a])
                                   /\ pin[c] \notin Members(target[a])
              /\ target[Gui] # target[a]
    /\ target[Gui] # NULL => target[Gui] \in allocated
    /\ NoFreedOwner

CollectionInv ==
    FieldTypes /\ PlacesInv /\ OwnInv /\ QuietInv /\ ClaimInv /\ LaunchInv /\ SettledInv /\ FreeInv
-----------------------------------------------------------------------------
(***************************************************************************)
(* What the parts of a step do to threads and processes.                   *)
(***************************************************************************)
(* Threads only come nearer to their end, none is freed, and a thread in   *)
(* kill_proc stays on its CPU.                                             *)
Fades ==
    /\ phase' \in [Tasks -> Phases]
    /\ \A t \in Tasks :
         /\ phase'[t] \in {"live", "dying"} => phase[t] \in {"live", "dying"}
         /\ phase'[t] = "freed" <=> phase[t] = "freed"
         /\ phase[t] \in {"live", "dying"} /\ at[t] \in {"mark", "zombie"} =>
              phase'[t] \in {"live", "dying"}

(* Processes die only into the hands of the kernel group. *)
Adopts ==
    /\ parent' \in [Processes -> Processes \cup {Kernel}]
    /\ status' \in [Processes -> {"START", "DEATH", "ZOMBIE", "WAIT"}]
    /\ \A q \in Processes :
         /\ parent'[q] \in {parent[q], Kernel}
         /\ status'[q] = status[q] \/ (status'[q] = "DEATH" /\ parent'[q] = Kernel)

(* A step that leaves the threads alone. *)
LEMMA PhaseStays ==
    ASSUME FieldTypes, phase' = phase
    PROVE  Fades
BY Zenon DEF FieldTypes, Fades

(* Marking threads. *)
LEMMA MarkFades ==
    ASSUME FieldTypes, NEW T \in SUBSET Tasks, MarkThreads(T)
    PROVE  Fades
<1>1. PICK f \in [T -> {"dying", "stopped"}] :
        /\ \A t \in T : at[t] \in IrqOff => f[t] = "dying"
        /\ phase' = [t \in Tasks |-> IF t \in T /\ phase[t] = "live" THEN f[t] ELSE phase[t]]
  BY Zenon DEF MarkThreads
<1>2. \A t \in T : f[t] \in {"dying", "stopped"}
  BY <1>1, Zenon
<1>3. \A t \in Tasks : phase'[t] = IF t \in T /\ phase[t] = "live" THEN f[t] ELSE phase[t]
  BY <1>1, Zenon
<1>4. phase' \in [Tasks -> Phases]
  BY <1>1, <1>2, Zenon DEF FieldTypes, Phases
<1> QED
  BY <1>1, <1>2, <1>3, <1>4, Zenon DEF Fades, FieldTypes, Phases, IrqOff

(* kill_proc_deferred. *)
LEMMA DeferredFacts ==
    ASSUME FieldTypes, NEW p \in Processes, Deferred(p)
    PROVE  Fades /\ Adopts
<1>1. CASE p \in listed
  <2>1. Fades
    BY <1>1, MarkFades, Zenon DEF Deferred, Members
  <2>2. Adopts
    BY <1>1, Zenon DEF Deferred, Adopts, FieldTypes, SetStatus
  <2> QED BY <2>1, <2>2, Zenon
<1>2. CASE p \notin listed
  BY <1>2, PhaseStays, Zenon DEF Deferred, Adopts, FieldTypes
<1> QED BY <1>1, <1>2, Zenon

(* abandon_process_preparations. *)
LEMMA AbandonFacts ==
    ASSUME FieldTypes, NEW p \in Processes, Abandon(p)
    PROVE  Fades /\ Adopts
<1>1. CASE construction[p]
  BY <1>1, DeferredFacts, Zenon DEF Abandon
<1>2. CASE ~construction[p]
  BY <1>2, PhaseStays, Zenon DEF Abandon, Adopts, FieldTypes
<1> QED BY <1>1, <1>2, Zenon

(* The fields keep their types. *)
LEMMA ClaimsTypes ==
    ASSUME FieldTypes, NEW T, ReleaseClaims(T)
    PROVE  /\ wait_owner' \in [Processes -> Tasks \cup {Reaper, NULL}]
           /\ status' \in [Processes -> {"START", "DEATH", "ZOMBIE", "WAIT"}]
BY Zenon DEF ReleaseClaims, FieldTypes
-----------------------------------------------------------------------------
(***************************************************************************)
(* The steps, by who takes them.                                           *)
(***************************************************************************)
(* A thread's kernel code apart from process_complete_wait. *)
Alone(t) ==
    \/ KillSelf(t) \/ KillStatus(t) \/ KillMark(t) \/ KillZombie(t)
    \/ ReleaseParent(t) \/ Publish(t) \/ LaunchFails(t) \/ Release(t)
    \/ \E c \in Processes : Create(t, c) \/ FindZombie(t, c)
    \/ WaitNoChild(t) \/ CopyFails(t)

(* The reaper's. *)
Reaping ==
    \/ ReapClaims \/ ReapSwept \/ ScanNothing \/ DrainRead \/ Decide \/ FindNothing
    \/ \E p \in Processes : ReapAbandon(p) \/ ScanDrain(p) \/ ScanCollect(p) \/ FindReapable(p)

(* Every step is one of these. *)
LEMMA StepCases ==
    ASSUME CollectionNext
    PROVE  \/ \E t \in Tasks : Call(t) \/ Alone(t) \/ Switch(t) \/ CloseWindow(t)
           \/ \E a \in Tasks \cup {Reaper} : Collector(a)
           \/ Reaping
           \/ GuiStep
<1>1. CASE \E t \in Tasks : Call(t) \/ Continue(t) \/ Switch(t) \/ CloseWindow(t)
  BY <1>1, Zenon DEF Continue, Alone
<1>2. CASE ReaperStep
  BY <1>2, Zenon DEF ReaperStep, Reaping
<1> QED BY <1>1, <1>2, Zenon DEF CollectionNext

(* An actor at a place that has a target. *)
LEMMA HasTarget ==
    ASSUME PlacesInv, NEW a \in Actors, at[a] \notin Untargeted
    PROVE  target[a] \in Processes
BY Zenon DEF PlacesInv

(* The threads and the reaper are actors. *)
LEMMA ActorsAre ==
    /\ \A t \in Tasks : t \in Actors /\ t # Reaper /\ t # Gui
    /\ Reaper \in Actors /\ Gui \in Actors /\ Reaper \notin Tasks /\ Gui \notin Tasks /\ Reaper # Gui
    /\ \A t \in Tasks : ProcessOf[t] \in Processes
BY CollectionAssumption, Zenon DEF Actors
-----------------------------------------------------------------------------
(***************************************************************************)
(* Types.                                                                  *)
(***************************************************************************)
(* Nothing that FieldTypes is about changes. *)
LEMMA TypesStay ==
    ASSUME FieldTypes, UNCHANGED <<phase, pcbVars, listVars, pin, reports>>
    PROVE  FieldTypes'
BY Zenon DEF FieldTypes, pcbVars, listVars

(* Only threads, parents and states do. *)
LEMMA TypesAdopt ==
    ASSUME FieldTypes, Fades, Adopts, UNCHANGED <<wait_owner, cleanup, listVars, reports>>,
           pin' \in [Processes -> Tasks \cup {NULL}]
    PROVE  FieldTypes'
BY Zenon DEF FieldTypes, Fades, Adopts, listVars

(* Only threads do. *)
LEMMA TypesFade ==
    ASSUME FieldTypes, Fades, UNCHANGED <<pcbVars, listVars, pin, reports>>
    PROVE  FieldTypes'
BY Zenon DEF FieldTypes, Fades, pcbVars, listVars

(* The fields keep their types when a thread steps. *)
LEMMA TypesTask ==
    ASSUME FieldTypes, PlacesInv, NEW t \in Tasks,
           Call(t) \/ Alone(t) \/ Switch(t) \/ CloseWindow(t)
    PROVE  FieldTypes'
<1> USE ActorsAre DEF At
<1>1. CASE SysExit(t) \/ ExitGroup(t) \/ WaitEnter(t) \/ WaitNoChild(t)
  BY <1>1, TypesStay, Zenon DEF SysExit, ExitGroup, WaitEnter, WaitNoChild, pinVars, histVars
<1>2. CASE Acquire(t)
  BY <1>2, Zenon DEF Acquire, FieldTypes, pcbVars, listVars
<1>3. CASE KillSelf(t)
  <2>1. Fades
    BY <1>3, Zenon DEF KillSelf, Fades, FieldTypes, Phases, Executing
  <2> QED BY <1>3, <2>1, TypesFade, Zenon DEF KillSelf, pinVars, histVars
<1>4. CASE KillStatus(t) \/ KillZombie(t)
  BY <1>4 DEF KillStatus, KillZombie, FieldTypes, SetStatus, listVars, pinVars, histVars
<1>5. CASE KillMark(t)
  <2>1. Fades
    BY <1>5, MarkFades, Zenon DEF KillMark, Members
  <2> QED BY <1>5, <2>1, TypesFade, Zenon DEF KillMark, pinVars, histVars
<1>6. CASE ReleaseParent(t)
  BY <1>6, Zenon DEF ReleaseParent, FieldTypes, pcbVars, listVars, histVars
<1>7. CASE Publish(t)
  BY <1>7, Zenon DEF Publish, FieldTypes, Phases, pcbVars, listVars, histVars
<1>8. CASE LaunchFails(t)
  <2>1. target[t] \in Processes
    BY <1>8, HasTarget, Zenon DEF LaunchFails, Untargeted
  <2>2. Fades /\ Adopts
    BY <1>8, <2>1, DeferredFacts, Zenon DEF LaunchFails
  <2> QED BY <1>8, <2>2, TypesAdopt, Zenon DEF LaunchFails, FieldTypes, pinVars, histVars
<1>9. CASE Release(t)
  BY <1>9, Zenon DEF Release, FieldTypes, pcbVars, listVars, histVars
<1>10. ASSUME NEW c \in Processes, Create(t, c) PROVE FieldTypes'
  BY <1>10 DEF Create, FieldTypes
<1>11. ASSUME NEW c \in Processes, FindZombie(t, c) PROVE FieldTypes'
  BY <1>11, Zenon DEF FindZombie, FieldTypes, SetOwner, SetStatus, listVars, pinVars, histVars
<1>12. CASE CopyFails(t)
  BY <1>12, Zenon DEF CopyFails, FieldTypes, SetOwner, SetStatus, listVars, pinVars
<1>13. CASE Switch(t)
  <2>1. Fades
    BY <1>13, Zenon DEF Switch, Stop, Fades, FieldTypes, Phases, IrqOff
  <2> QED BY <1>13, <2>1, TypesFade, Zenon DEF Switch, pinVars, histVars
<1>14. CASE CloseWindow(t)
  <2>1. Fades
    BY <1>14, MarkFades, Zenon DEF CloseWindow
  <2> QED BY <1>14, <2>1, TypesFade, Zenon DEF CloseWindow, histVars
<1> QED BY <1>1, <1>2, <1>3, <1>4, <1>5, <1>6, <1>7, <1>8, <1>9, <1>10, <1>11, <1>12, <1>13,
           <1>14, Zenon
        DEF Call, Alone


(* ... when somebody is in process_complete_wait ... *)
LEMMA TypesCollector ==
    ASSUME FieldTypes, PlacesInv, FreeInv, NEW a \in Tasks \cup {Reaper}, Collector(a)
    PROVE  FieldTypes'
<1> USE ActorsAre DEF At
<1>1. CASE ClaimStatus(a)
  <2>1. target[a] \in Processes
    BY <1>1, HasTarget, Zenon DEF ClaimStatus, Untargeted
  <2>2. reports' \in [Processes -> Nat]
    BY <1>1, <2>1 DEF ClaimStatus, FieldTypes
  <2> QED BY <1>1, <2>2, Zenon DEF ClaimStatus, FieldTypes, SetStatus, listVars, pinVars
<1>2. CASE Compete(a) \/ Check(a) \/ Undo(a) \/ Redo(a)
  BY <1>2 DEF Compete, Check, Undo, Redo, FieldTypes, SetCleanup, listVars, pinVars, histVars
<1>3. CASE Transfer(a)
  BY <1>3, Zenon DEF Transfer, FieldTypes, SetOwner, listVars, pinVars, histVars
<1>4. CASE Defer(a)
  <2>1. target[a] \in Processes
    BY <1>4, HasTarget, Zenon DEF Defer, Untargeted
  <2>2. Fades /\ Adopts
    BY <1>4, <2>1, DeferredFacts, Zenon DEF Defer
  <2> QED BY <1>4, <2>2, TypesAdopt, Zenon DEF Defer, FieldTypes, pinVars, histVars
<1>5. CASE Detach(a)
  BY <1>5 DEF Detach, FieldTypes, pcbVars, pinVars, histVars
<1>6. CASE Threads(a)
  BY <1>6, ClaimsTypes, Zenon DEF Threads, FieldTypes, listVars, pinVars, histVars
<1>7. CASE FreeProcess(a)
  <2>1. target[a] \notin listed
    BY <1>7, Zenon DEF FreeProcess, FreeInv
  <2> QED BY <1>7, <2>1, Zenon DEF FreeProcess, FieldTypes, Phases, pcbVars, histVars
<1>8. ASSUME NEW p \in Processes, ThreadsAbandon(a, p) PROVE FieldTypes'
  <2>1. Fades /\ Adopts /\ Abandon(p)
    BY <1>8, AbandonFacts, Zenon DEF ThreadsAbandon
  <2> QED BY <2>1, TypesAdopt, Zenon DEF Abandon, FieldTypes, histVars
<1> QED BY <1>1, <1>2, <1>3, <1>4, <1>5, <1>6, <1>7, <1>8, Zenon DEF Collector

(* ... and when the reaper or the GUI steps. *)
LEMMA TypesKernel ==
    ASSUME FieldTypes, PlacesInv, FreeInv, Reaping \/ GuiStep
    PROVE  FieldTypes'
<1> USE ActorsAre
<1>1. CASE ReapClaims
  BY <1>1, ClaimsTypes, Zenon DEF ReapClaims, FieldTypes, listVars, pinVars, histVars
<1>2. CASE ReapSwept \/ ScanNothing \/ DrainRead \/ FindNothing
  BY <1>2, TypesStay, Zenon DEF ReapSwept, ScanNothing, DrainRead, FindNothing, pinVars, histVars
<1>3. CASE Decide
  BY <1>3 DEF Decide, FieldTypes, SetCleanup, listVars, pinVars, histVars
<1>4. ASSUME NEW p \in Processes, ReapAbandon(p) PROVE FieldTypes'
  <2>1. Fades /\ Adopts /\ Abandon(p)
    BY <1>4, AbandonFacts, Zenon DEF ReapAbandon
  <2> QED BY <2>1, TypesAdopt, Zenon DEF Abandon, FieldTypes, histVars
<1>5. ASSUME NEW p \in Processes, ScanDrain(p) \/ ScanCollect(p) PROVE FieldTypes'
  BY <1>5 DEF ScanDrain, ScanCollect, FieldTypes, SetCleanup, listVars, pinVars, histVars
<1>6. ASSUME NEW p \in Processes, FindReapable(p) PROVE FieldTypes'
  BY <1>6, Zenon DEF FindReapable, FieldTypes, SetOwner, SetStatus, listVars, pinVars, histVars
<1>7. CASE CloseCheck
  BY <1>7, TypesStay, Zenon DEF CloseCheck, pinVars, histVars
<1>8. CASE CloseDeferred
  <2>1. target[Gui] \in Processes
    BY <1>8, HasTarget, Zenon DEF CloseDeferred, Untargeted
  <2>2. Fades /\ Adopts
    BY <1>8, <2>1, DeferredFacts, Zenon DEF CloseDeferred
  <2> QED BY <1>8, <2>2, TypesAdopt, Zenon DEF CloseDeferred, FieldTypes, pinVars, histVars
<1> QED BY <1>1, <1>2, <1>3, <1>4, <1>5, <1>6, <1>7, <1>8, Zenon DEF Reaping, GuiStep
-----------------------------------------------------------------------------
(***************************************************************************)
(* Places.                                                                 *)
(***************************************************************************)
(* A step of one actor from place to place. *)
LEMMA Moved ==
    ASSUME PlacesInv, NEW a \in Actors, NEW l \in Places, NEW p \in Processes \cup {NULL},
           Go(a, l, p), l \in Untargeted <=> p = NULL,
           a = Gui => l \in GuiPlaces, a = Reaper => l \in ReaperPlaces,
           a \in Tasks => l \in TaskPlaces, next' \in {"find", "claims"}
    PROVE  PlacesInv'
BY ActorsAre, Zenon DEF PlacesInv, Go

(* A thread goes to a place without a target ... *)
LEMMA MovedFreely ==
    ASSUME PlacesInv, NEW t \in Tasks,
           NEW l \in {"user", "exiting", "status", "mark", "zombie", "exited", "create", "wait"},
           Go(t, l, NULL), UNCHANGED next
    PROVE  PlacesInv'
<1>1. l \in Places /\ l \in Untargeted /\ l \in TaskPlaces
  BY Zenon DEF Places, Untargeted, TaskPlaces
<1> QED BY <1>1, Moved, ActorsAre, Zenon DEF PlacesInv

(* ... or, as a collector may, to one with a target. *)
LEMMA MovedAt ==
    ASSUME PlacesInv, NEW a \in Tasks \cup {Reaper}, NEW p \in Processes, NEW l,
           l \in Claiming \cup Preparing \cup Collecting \/ (a \in Tasks /\ l \in Launching)
                                                         \/ (a = Reaper /\ l \in Draining),
           Go(a, l, p), next' \in {"find", "claims"}
    PROVE  PlacesInv'
<1>1. l \in Places /\ l \notin Untargeted /\ p # NULL
  BY CollectionAssumption, Zenon
  DEF Places, Untargeted, Claiming, Preparing, Collecting, Launching, Draining, Holding
<1>2. a \in Tasks => l \in TaskPlaces
  BY ActorsAre, Zenon
  DEF Places, TaskPlaces, Untargeted, Claiming, Preparing, Collecting, Launching, Draining, Holding
<1>3. a = Reaper => l \in ReaperPlaces
  BY ActorsAre, Zenon
     DEF ReaperPlaces, Claiming, Preparing, Collecting, Launching, Draining, Holding
<1> QED BY <1>1, <1>2, <1>3, Moved, ActorsAre, Zenon

(* The reaper between its scans. *)
LEMMA MovedReaper ==
    ASSUME PlacesInv, NEW l \in {"claims", "sweep", "scan", "find"}, Go(Reaper, l, NULL),
           next' \in {"find", "claims"}
    PROVE  PlacesInv'
<1>1. l \in Places /\ l \in Untargeted /\ l \in ReaperPlaces
  BY Zenon DEF Places, Untargeted, ReaperPlaces
<1> QED BY <1>1, Moved, ActorsAre, Zenon

(* The end of a collector's work. *)
LEMMA MovedDone ==
    ASSUME PlacesInv, NEW a \in Tasks \cup {Reaper}, Done(a), UNCHANGED next
    PROVE  PlacesInv'
<1>1. CASE a \in Tasks
  <2>1. Go(a, "user", NULL)
    BY <1>1, ActorsAre, Zenon DEF Done
  <2> QED BY <1>1, <2>1, MovedFreely, Zenon
<1>2. CASE a = Reaper
  <2>1. Go(Reaper, next, NULL)
    BY <1>2, Zenon DEF Done
  <2> QED BY <2>1, MovedReaper, Zenon DEF PlacesInv
<1> QED BY <1>1, <1>2, Zenon

(* The GUI's steps. *)
LEMMA MovedGui ==
    ASSUME PlacesInv, UNCHANGED next,
           \/ Go(Gui, "user", NULL)
           \/ \E l \in {"close", "last"}, p \in Processes : Go(Gui, l, p)
    PROVE  PlacesInv'
<1>1. "user" \in Places /\ "user" \in Untargeted /\ "user" \in GuiPlaces
  BY Zenon DEF Places, Untargeted, GuiPlaces
<1>2. \A l \in {"close", "last"} : l \in Places /\ l \notin Untargeted /\ l \in GuiPlaces
  BY Zenon DEF Places, Untargeted, GuiPlaces
<1>3. NULL \notin Processes
  BY CollectionAssumption, Zenon
<1> QED BY <1>1, <1>2, <1>3, Moved, ActorsAre, Zenon DEF PlacesInv

(* The places are kept when a thread steps ... *)
LEMMA PlacesTask ==
    ASSUME FieldTypes, PlacesInv, NEW t \in Tasks,
           Call(t) \/ Alone(t) \/ Switch(t) \/ CloseWindow(t)
    PROVE  PlacesInv'
<1> USE ActorsAre DEF At, reaperVars
<1>1. CASE SysExit(t)
  BY <1>1, MovedFreely, Zenon DEF SysExit
<1>2. CASE ExitGroup(t) \/ Acquire(t) \/ WaitEnter(t)
  BY <1>2, MovedFreely, Zenon DEF ExitGroup, Acquire, WaitEnter
<1>3. CASE KillSelf(t) \/ KillStatus(t) \/ KillMark(t) \/ KillZombie(t)
  BY <1>3, MovedFreely, Zenon DEF KillSelf, KillStatus, KillMark, KillZombie
<1>4. CASE Release(t) \/ WaitNoChild(t) \/ CopyFails(t)
  BY <1>4, MovedDone, Zenon DEF Release, WaitNoChild, CopyFails
<1>5. CASE ReleaseParent(t)
  <2>1. CASE at[t] = "created"
    <3>1. target[t] \in Processes
      BY <2>1, HasTarget, Zenon DEF Untargeted
    <3>2. Go(t, "load", target[t]) /\ next' \in {"find", "claims"} /\ "load" \in Launching
      BY <1>5, <2>1, Zenon DEF ReleaseParent, Launching, PlacesInv
    <3> QED BY <3>1, <3>2, MovedAt, Zenon
  <2>2. CASE at[t] # "created"
    BY <1>5, <2>2, MovedDone, Zenon DEF ReleaseParent
  <2> QED BY <2>1, <2>2, Zenon
<1>6. CASE Publish(t)
  <2>1. target[t] \in Processes
    BY <1>6, HasTarget, Zenon DEF Publish, Untargeted
  <2>2. "user" \in Places /\ "release" \in Places /\ "user" \in Untargeted /\ "release" \notin Untargeted
        /\ "user" \in TaskPlaces /\ "release" \in TaskPlaces
    BY Zenon DEF Places, Untargeted, TaskPlaces, Launching
  <2>3. Members(target[t]) \subseteq Tasks /\ NULL \notin Processes
    BY CollectionAssumption, Zenon DEF Members
  <2> QED BY <1>6, <2>1, <2>2, <2>3, Zenon DEF Publish, PlacesInv
<1>7. CASE LaunchFails(t)
  <2>1. target[t] \in Processes
    BY <1>7, HasTarget, Zenon DEF LaunchFails, Untargeted
  <2> QED BY <1>7, <2>1, MovedAt, Zenon DEF LaunchFails, Launching, PlacesInv
<1>8. ASSUME NEW c \in Processes, Create(t, c) \/ FindZombie(t, c) PROVE PlacesInv'
  BY <1>8, MovedAt, Zenon DEF Create, FindZombie, Launching, Claiming, PlacesInv
<1>9. CASE Switch(t)
  BY <1>9, Zenon DEF Switch, PlacesInv
<1>10. CASE CloseWindow(t)
  BY <1>10, MovedGui, Zenon DEF CloseWindow
<1> QED BY <1>1, <1>2, <1>3, <1>4, <1>5, <1>6, <1>7, <1>8, <1>9, <1>10, Zenon DEF Call, Alone

(* ... when somebody is in process_complete_wait ... *)
LEMMA PlacesCollector ==
    ASSUME FieldTypes, PlacesInv, NEW a \in Tasks \cup {Reaper}, Collector(a)
    PROVE  PlacesInv'
<1> USE ActorsAre DEF At, reaperVars
<1>1. CASE ClaimStatus(a) \/ Compete(a) \/ Check(a) \/ Defer(a) \/ Detach(a) \/ Threads(a)
  <2>1. target[a] \in Processes
    BY <1>1, HasTarget, Zenon DEF ClaimStatus, Compete, Check, Defer, Detach, Threads, Untargeted
  <2>2. \E l \in Claiming \cup Preparing \cup Collecting : Go(a, l, target[a]) /\ UNCHANGED next
    BY <1>1, Zenon
       DEF ClaimStatus, Compete, Check, Defer, Detach, Threads, Claiming, Preparing, Collecting
  <2> QED BY <2>1, <2>2, MovedAt, Zenon DEF PlacesInv
<1>2. CASE Transfer(a)
  <2>1. target[a] \in Processes
    BY <1>2, HasTarget, Zenon DEF Transfer, Untargeted
  <2>2. Done(a) \/ Go(a, "check", target[a])
    BY <1>2, Zenon DEF Transfer
  <2> QED BY <1>2, <2>1, <2>2, MovedAt, MovedDone, Zenon DEF Transfer, Preparing, PlacesInv
<1>3. CASE Undo(a) \/ Redo(a) \/ FreeProcess(a)
  BY <1>3, MovedDone, Zenon DEF Undo, Redo, FreeProcess
<1>4. ASSUME NEW p \in Processes, ThreadsAbandon(a, p) PROVE PlacesInv'
  BY <1>4, Zenon DEF ThreadsAbandon, Abandon, PlacesInv
<1> QED BY <1>1, <1>2, <1>3, <1>4, Zenon DEF Collector

(* ... and when the reaper or the GUI steps. *)
LEMMA PlacesKernel ==
    ASSUME FieldTypes, PlacesInv, Reaping \/ GuiStep
    PROVE  PlacesInv'
<1> USE ActorsAre DEF reaperVars
<1>1. CASE ReapClaims \/ ReapSwept \/ ScanNothing \/ FindNothing
  BY <1>1, MovedReaper, Zenon DEF ReapClaims, ReapSwept, ScanNothing, FindNothing, PlacesInv
<1>2. CASE DrainRead
  <2>1. target[Reaper] \in Processes
    BY <1>2, HasTarget, Zenon DEF DrainRead, Untargeted
  <2> QED BY <1>2, <2>1, MovedAt, Zenon DEF DrainRead, Draining, PlacesInv
<1>3. CASE Decide
  <2>1. target[Reaper] \in Processes
    BY <1>3, HasTarget, Zenon DEF Decide, Untargeted
  <2>2. \/ Go(Reaper, "drain", target[Reaper])
        \/ Go(Reaper, "collect", target[Reaper])
        \/ Go(Reaper, "find", NULL)
    BY <1>3, Zenon DEF Decide
  <2> QED BY <1>3, <2>1, <2>2, MovedAt, MovedReaper, Zenon
             DEF Decide, Draining, Collecting, PlacesInv
<1>4. ASSUME NEW p \in Processes, ReapAbandon(p) PROVE PlacesInv'
  BY <1>4, Zenon DEF ReapAbandon, Abandon, PlacesInv
<1>5. ASSUME NEW p \in Processes, ScanDrain(p) \/ ScanCollect(p) \/ FindReapable(p) PROVE PlacesInv'
  BY <1>5, MovedAt, Zenon
     DEF ScanDrain, ScanCollect, FindReapable, Draining, Collecting, Claiming, PlacesInv
<1>6. CASE CloseCheck
  <2>1. target[Gui] \in Processes
    BY <1>6, HasTarget, Zenon DEF CloseCheck, Untargeted
  <2> QED BY <1>6, <2>1, MovedGui, Zenon DEF CloseCheck, Done
<1>7. CASE CloseDeferred
  BY <1>7, MovedGui, Zenon DEF CloseDeferred, Done
<1> QED BY <1>1, <1>2, <1>3, <1>4, <1>5, <1>6, <1>7, Zenon DEF Reaping, GuiStep
-----------------------------------------------------------------------------
(***************************************************************************)
(* The owner of fd_cleanup_state.                                          *)
(***************************************************************************)
(* One actor moves; what the others hold is not touched. *)
LEMMA OwnMove ==
    ASSUME PlacesInv, OwnInv, NEW a \in Actors, NEW l, NEW p, Go(a, l, p),
           \A b \in Actors \ {a} : at[b] \in Holding =>
              /\ target[b] \in allocated'
              /\ \/ cleanup'[target[b]] = cleanup[target[b]]
                 \/ cleanup[target[b]] = 1 /\ cleanup'[target[b]] = 5
              /\ l \in Holding => target[b] # p,
           l \in Holding => p \in allocated',
           l \in Draining => cleanup'[p] \in {1, 5},
           l \in Preparing => cleanup'[p] = 4,
           l \in Collecting => cleanup'[p] = 3
    PROVE  OwnInv'
<1>1. \A b \in Actors : at'[b] = IF b = a THEN l ELSE at[b]
  BY Zenon DEF Go, PlacesInv
<1>2. \A b \in Actors : target'[b] = IF b = a THEN p ELSE target[b]
  BY Zenon DEF Go, PlacesInv
<1>3. \A b \in Actors : at[b] \in Draining \cup Preparing \cup Collecting => at[b] \in Holding
  BY Zenon DEF Holding
<1> QED BY <1>1, <1>2, <1>3 DEF OwnInv

(* An actor goes where it holds nothing, and fd_cleanup_state stays. *)
LEMMA OwnLeft ==
    ASSUME PlacesInv, OwnInv, NEW a \in Actors, NEW l, NEW p, Go(a, l, p), l \notin Holding,
           cleanup' = cleanup, allocated \subseteq allocated'
    PROVE  OwnInv'
<1>1. l \notin Draining /\ l \notin Preparing /\ l \notin Collecting
  BY Zenon DEF Holding
<1> QED BY <1>1, OwnMove, Zenon DEF OwnInv

(* The owner goes on with its target, and fd_cleanup_state with it. *)
LEMMA OwnGoesOn ==
    ASSUME PlacesInv, OwnInv, FieldTypes, NEW a \in Actors, NEW l, NEW n \in 0..5,
           at[a] \in Holding, Go(a, l, target[a]),
           \A q \in Processes : cleanup'[q] = IF q = target[a] THEN n ELSE cleanup[q],
           allocated' = allocated, l \in Draining => n \in {1, 5},
           l \in Preparing => n = 4, l \in Collecting => n = 3
    PROVE  OwnInv'
<1>1. target[a] \in allocated /\ target[a] \in Processes
  BY Zenon DEF OwnInv, FieldTypes
<1>2. \A b \in Actors \ {a} : at[b] \in Holding => target[b] # target[a] /\ target[b] \in Processes
  BY Zenon DEF OwnInv, FieldTypes
<1> QED BY <1>1, <1>2, OwnMove DEF OwnInv

(* The owner gives its target up. *)
LEMMA OwnGivesUp ==
    ASSUME PlacesInv, OwnInv, FieldTypes, NEW a \in Actors, NEW l, NEW p, l \notin Holding,
           at[a] \in Holding, Go(a, l, p),
           \A q \in Processes \ {target[a]} : cleanup'[q] = cleanup[q],
           \A q \in allocated : q # target[a] => q \in allocated'
    PROVE  OwnInv'
<1>1. l \notin Draining /\ l \notin Preparing /\ l \notin Collecting
  BY Zenon DEF Holding
<1>2. \A b \in Actors \ {a} : at[b] \in Holding => target[b] # target[a] /\ target[b] \in Processes
                                                  /\ target[b] \in allocated
  BY Zenon DEF OwnInv, FieldTypes
<1> QED BY <1>1, <1>2, OwnMove, Zenon

(* A process that nobody owns gets an owner. *)
LEMMA OwnTakes ==
    ASSUME PlacesInv, OwnInv, FieldTypes, NEW a \in Actors, NEW l, NEW p \in allocated, NEW n \in 0..5,
           Go(a, l, p), cleanup[p] \in {0, 2}, cleanup' = [cleanup EXCEPT ![p] = n],
           allocated' = allocated,
           l \in Draining => n \in {1, 5}, l \in Preparing => n = 4, l \in Collecting => n = 3
    PROVE  OwnInv'
<1>1. \A b \in Actors : at[b] \in Holding => cleanup[target[b]] \in {1, 3, 4, 5}
  BY Zenon DEF OwnInv, Holding
<1>2. \A b \in Actors : at[b] \in Holding => target[b] # p /\ target[b] \in Processes
                                             /\ target[b] \in allocated
  BY <1>1 DEF OwnInv, FieldTypes
<1>3. p \in Processes /\ cleanup'[p] = n /\ \A q \in Processes \ {p} : cleanup'[q] = cleanup[q]
  BY Zenon DEF FieldTypes
<1> QED BY <1>2, <1>3, OwnMove, Zenon

(* Whoever competes for a process that is drained tells the drainer. *)
LEMMA OwnTells ==
    ASSUME PlacesInv, OwnInv, FieldTypes, NEW a \in Actors, NEW l, NEW p \in Processes, NEW r, Go(a, l, r),
           l \notin Holding, cleanup[p] = 1, cleanup' = [cleanup EXCEPT ![p] = 5],
           allocated' = allocated
    PROVE  OwnInv'
<1>1. l \notin Draining /\ l \notin Preparing /\ l \notin Collecting
  BY Zenon DEF Holding
<1>2. \A q \in Processes : cleanup'[q] = IF q = p THEN 5 ELSE cleanup[q]
  BY Zenon DEF FieldTypes
<1>3. \A b \in Actors : at[b] \in Holding => target[b] \in Processes /\ target[b] \in allocated
  BY Zenon DEF OwnInv, FieldTypes
<1> QED BY <1>1, <1>2, <1>3, OwnMove, Zenon

(* The owner is the only one when a thread steps ... *)
LEMMA OwnTask ==
    ASSUME FieldTypes, PlacesInv, OwnInv, NEW t \in Tasks,
           Call(t) \/ Alone(t) \/ Switch(t) \/ CloseWindow(t)
    PROVE  OwnInv'
<1> USE ActorsAre DEF At, pcbVars, listVars
<1>0. \A l \in {"user", "exiting", "status", "mark", "zombie", "exited", "create", "created",
                "load", "release", "wait", "claimed", "close"} : l \notin Holding
  BY Zenon DEF Holding, Draining, Preparing, Collecting
<1>1. CASE SysExit(t) \/ ExitGroup(t) \/ Acquire(t) \/ WaitEnter(t)
  BY <1>0, <1>1, OwnLeft, Zenon DEF SysExit, ExitGroup, Acquire, WaitEnter
<1>2. CASE KillSelf(t) \/ KillStatus(t) \/ KillMark(t) \/ KillZombie(t)
  BY <1>0, <1>2, OwnLeft, Zenon DEF KillSelf, KillStatus, KillMark, KillZombie
<1>3. CASE Release(t) \/ WaitNoChild(t) \/ CopyFails(t) \/ ReleaseParent(t)
  BY <1>0, <1>3, OwnLeft, Zenon DEF Release, WaitNoChild, CopyFails, ReleaseParent, Done
<1>4. CASE LaunchFails(t)
  BY <1>0, <1>4, OwnLeft, Zenon DEF LaunchFails
<1>5. CASE Publish(t)
  <2>1. \A b \in Actors : at'[b] \in Holding => at'[b] = at[b] /\ target'[b] = target[b]
    BY <1>0, <1>5, Zenon DEF Publish
  <2>2. cleanup' = cleanup /\ allocated' = allocated
    BY <1>5, Zenon DEF Publish
  <2> QED BY <2>1, <2>2 DEF OwnInv, Holding
<1>6. ASSUME NEW c \in Processes, Create(t, c) PROVE OwnInv'
  <2>1. \A b \in Actors : at[b] \in Holding => target[b] # c /\ target[b] \in allocated
    BY <1>6, Zenon DEF OwnInv, Create
  <2>2. \A q \in Processes \ {c} : cleanup'[q] = cleanup[q]
    BY <1>6, Zenon DEF Create, FieldTypes
  <2>3. "created" \notin Draining /\ "created" \notin Preparing /\ "created" \notin Collecting
    BY Zenon DEF Draining, Preparing, Collecting
  <2>4. allocated \subseteq allocated' /\ Go(t, "created", c)
    BY <1>6, Zenon DEF Create
  <2>5. \A b \in Actors : at[b] \in Holding => cleanup'[target[b]] = cleanup[target[b]]
    BY <2>1, <2>2, Zenon DEF FieldTypes
  <2> HIDE DEF At, pcbVars, listVars
  <2> QED BY <1>0, <2>1, <2>3, <2>4, <2>5, OwnMove, Zenon
<1>7. ASSUME NEW c \in Processes, FindZombie(t, c) PROVE OwnInv'
  BY <1>0, <1>7, OwnLeft, Zenon DEF FindZombie
<1>8. CASE Switch(t)
  BY <1>8, Zenon DEF Switch, OwnInv
<1>9. CASE CloseWindow(t)
  BY <1>0, <1>9, OwnLeft, Zenon DEF CloseWindow
<1> QED BY <1>1, <1>2, <1>3, <1>4, <1>5, <1>6, <1>7, <1>8, <1>9, Zenon DEF Call, Alone


(* ... when somebody is in process_complete_wait ... *)
LEMMA OwnCollector ==
    ASSUME FieldTypes, PlacesInv, OwnInv, ClaimInv, NEW a \in Tasks \cup {Reaper}, Collector(a)
    PROVE  OwnInv'
<1> USE ActorsAre DEF At, pcbVars, listVars
<1>0. /\ \A l \in {"user", "claims", "find", "compete", "yield"} : l \notin Holding
      /\ a \in Actors /\ (IF a = Reaper THEN next ELSE "user") \notin Holding
  BY Zenon DEF Holding, Draining, Preparing, Collecting, PlacesInv
<1>1. CASE ClaimStatus(a)
  BY <1>0, <1>1, OwnLeft, Zenon DEF ClaimStatus
<1>2. CASE Compete(a)
  <2>1. target[a] \in allocated /\ target[a] \in Processes
    BY <1>2, Zenon DEF Compete, ClaimInv, Claiming, Alive, FieldTypes
  <2>2. "take" \in Preparing /\ "take" \notin Draining /\ "take" \notin Collecting
    BY Zenon DEF Preparing, Draining, Collecting
  <2>3. CASE cleanup[target[a]] = 1
    BY <1>0, <1>2, <2>1, <2>3, OwnTells DEF Compete, SetCleanup
  <2>4. CASE cleanup[target[a]] \in {3, 4, 5}
    BY <1>0, <1>2, <2>4, OwnLeft DEF Compete
  <2>5. CASE cleanup[target[a]] \in {0, 2}
    BY <1>2, <2>1, <2>2, <2>5, OwnTakes DEF Compete, SetCleanup
  <2> QED BY <2>1, <2>3, <2>4, <2>5 DEF FieldTypes
<1>3. CASE Transfer(a)
  <2>1. CASE at[a] = "yield"
    BY <1>0, <1>3, <2>1, OwnLeft, Zenon DEF Transfer, Done
  <2>2. CASE at[a] = "take"
    <3>1. cleanup[target[a]] = 4 /\ at[a] \in Holding
      BY <2>2, Zenon DEF OwnInv, Preparing, Holding
    <3>2. "check" \notin Draining /\ "check" \notin Collecting
      BY Zenon DEF Draining, Collecting
    <3> QED BY <1>3, <2>2, <3>1, <3>2, OwnGoesOn DEF Transfer
  <2> QED BY <1>3, <2>1, <2>2, Zenon DEF Transfer
<1>4. CASE Check(a) \/ Defer(a)
  <2>1. cleanup[target[a]] = 4 /\ at[a] \in Holding /\ target[a] \in Processes
    BY <1>4 DEF OwnInv, Preparing, Holding, Check, Defer, FieldTypes
  <2>2. /\ "defer" \notin Draining /\ "defer" \notin Collecting
        /\ "undo" \notin Draining /\ "undo" \notin Collecting
        /\ "collect" \notin Draining /\ "collect" \notin Preparing
    BY Zenon DEF Draining, Preparing, Collecting
  <2>3. \/ /\ Go(a, "defer", target[a]) \/ Go(a, "undo", target[a])
           /\ cleanup' = cleanup
        \/ Go(a, "collect", target[a]) /\ cleanup' = [cleanup EXCEPT ![target[a]] = 3]
    BY <1>4, Zenon DEF Check, Defer, SetCleanup
  <2>4. allocated' = allocated
    BY <1>4, Zenon DEF Check, Defer
  <2>5. CASE Go(a, "collect", target[a]) /\ cleanup' = [cleanup EXCEPT ![target[a]] = 3]
    <3>1. \A q \in Processes : cleanup'[q] = IF q = target[a] THEN 3 ELSE cleanup[q]
      BY <2>1, <2>5, Zenon DEF FieldTypes
    <3> QED BY <1>0, <2>1, <2>2, <2>4, <2>5, <3>1, OwnGoesOn
  <2>6. CASE (Go(a, "defer", target[a]) \/ Go(a, "undo", target[a])) /\ cleanup' = cleanup
    BY <1>0, <2>1, <2>2, <2>4, <2>6, OwnGoesOn
  <2> QED BY <2>3, <2>5, <2>6, Zenon
<1>5. CASE Undo(a) \/ Redo(a)
  <2>1. at[a] \in Holding /\ target[a] \in Processes
    BY <1>5, Zenon DEF OwnInv, Preparing, Collecting, Holding, Undo, Redo, FieldTypes
  <2> QED BY <1>0, <1>5, <2>1, OwnGivesUp, Zenon DEF Undo, Redo, Done, SetCleanup, FieldTypes
<1>6. CASE Detach(a) \/ Threads(a)
  <2>1. cleanup[target[a]] = 3 /\ at[a] \in Holding
    BY <1>6, Zenon DEF OwnInv, Collecting, Holding, Detach, Threads
  <2>2. \A l \in {"redo", "threads", "free"} : l \notin Draining /\ l \notin Preparing
    BY Zenon DEF Draining, Preparing
  <2>3. \E l \in {"redo", "threads", "free"} : Go(a, l, target[a])
    BY <1>6, Zenon DEF Detach, Threads
  <2>4. cleanup' = cleanup /\ allocated' = allocated
    BY <1>6, Zenon DEF Detach, Threads
  <2> QED BY <1>0, <2>1, <2>2, <2>3, <2>4, OwnGoesOn
<1>7. CASE FreeProcess(a)
  <2>1. at[a] \in Holding
    BY <1>7, Zenon DEF OwnInv, Collecting, Holding, FreeProcess
  <2> QED BY <1>0, <1>7, <2>1, OwnGivesUp, Zenon DEF FreeProcess, Done
<1>8. ASSUME NEW p \in Processes, ThreadsAbandon(a, p) PROVE OwnInv'
  BY <1>8, Zenon DEF ThreadsAbandon, Abandon, OwnInv
<1> QED BY <1>1, <1>2, <1>3, <1>4, <1>5, <1>6, <1>7, <1>8, Zenon DEF Collector

(* ... and when the reaper or the GUI steps. *)
LEMMA OwnKernel ==
    ASSUME FieldTypes, PlacesInv, OwnInv, Reaping \/ GuiStep
    PROVE  OwnInv'
<1> USE ActorsAre DEF pcbVars, listVars
<1>0. \A l \in {"user", "claims", "sweep", "scan", "find", "claimed", "last"} : l \notin Holding
  BY Zenon DEF Holding, Draining, Preparing, Collecting
<1>1. CASE ReapClaims \/ ReapSwept \/ ScanNothing \/ FindNothing
  BY <1>0, <1>1, OwnLeft, Zenon DEF ReapClaims, ReapSwept, ScanNothing, FindNothing
<1>2. CASE DrainRead \/ Decide
  <2> DEFINE p == target[Reaper]
  <2>1. at[Reaper] \in Holding /\ p \in Processes /\ cleanup[p] \in {1, 5}
    BY <1>2, Zenon DEF OwnInv, Draining, Holding, DrainRead, Decide, FieldTypes
  <2>2. /\ \A l \in {"drain", "decide"} : l \notin Preparing /\ l \notin Collecting
        /\ "collect" \notin Draining /\ "collect" \notin Preparing
    BY Zenon DEF Draining, Preparing, Collecting
  <2>3. \/ (\E l \in {"drain", "decide"} : Go(Reaper, l, p)) /\ cleanup' = cleanup
        \/ Go(Reaper, "collect", p) /\ cleanup' = [cleanup EXCEPT ![p] = 3]
        \/ Go(Reaper, "find", NULL) /\ cleanup' = [cleanup EXCEPT ![p] = 2]
    BY <1>2, Zenon DEF DrainRead, Decide, SetCleanup
  <2>4. allocated' = allocated
    BY <1>2, Zenon DEF DrainRead, Decide
  <2>5. CASE (\E l \in {"drain", "decide"} : Go(Reaper, l, p)) /\ cleanup' = cleanup
    BY <2>1, <2>2, <2>4, <2>5, OwnGoesOn
  <2>6. CASE Go(Reaper, "collect", p) /\ cleanup' = [cleanup EXCEPT ![p] = 3]
    <3>1. \A q \in Processes : cleanup'[q] = IF q = p THEN 3 ELSE cleanup[q]
      BY <2>1, <2>6, Zenon DEF FieldTypes
    <3> QED BY <2>1, <2>2, <2>4, <2>6, <3>1, OwnGoesOn
  <2>7. CASE Go(Reaper, "find", NULL) /\ cleanup' = [cleanup EXCEPT ![p] = 2]
    <3>1. \A q \in Processes \ {p} : cleanup'[q] = cleanup[q]
      BY <2>1, <2>7, Zenon DEF FieldTypes
    <3> QED BY <1>0, <2>1, <2>4, <2>7, <3>1, OwnGivesUp, Zenon
  <2> QED BY <2>3, <2>5, <2>6, <2>7, Zenon
<1>3. ASSUME NEW p \in Processes, ReapAbandon(p) PROVE OwnInv'
  BY <1>3, Zenon DEF ReapAbandon, Abandon, OwnInv
<1>4. ASSUME NEW p \in Processes, ScanDrain(p) \/ ScanCollect(p) PROVE OwnInv'
  <2>1. p \in allocated /\ cleanup[p] \in {0, 2} /\ allocated' = allocated
    BY <1>4, Zenon DEF ScanDrain, ScanCollect, Drainable, Collectable, Scannable, FieldTypes
  <2>2. /\ "drain" \notin Preparing /\ "drain" \notin Collecting
        /\ "collect" \notin Draining /\ "collect" \notin Preparing
    BY Zenon DEF Draining, Preparing, Collecting
  <2> QED BY <1>4, <2>1, <2>2, OwnTakes DEF ScanDrain, ScanCollect, SetCleanup
<1>5. ASSUME NEW p \in Processes, FindReapable(p) PROVE OwnInv'
  BY <1>0, <1>5, OwnLeft, Zenon DEF FindReapable
<1>6. CASE CloseCheck \/ CloseDeferred
  BY <1>0, <1>6, OwnLeft, Zenon DEF CloseCheck, CloseDeferred, Done
<1> QED BY <1>1, <1>2, <1>3, <1>4, <1>5, <1>6, Zenon DEF Reaping, GuiStep
-----------------------------------------------------------------------------
(***************************************************************************)
(* Quiescence.                                                             *)
(***************************************************************************)
(* Threads fade and pins go. *)
LEMMA QuietStays ==
    ASSUME FieldTypes, QuietInv, Fades, cleanup' = cleanup, allocated' \subseteq allocated,
           listed \subseteq listed',
           \A q \in Processes : pin'[q] \in {pin[q], NULL}
    PROVE  QuietInv'
<1>1. \A t \in Tasks : phase'[t] \in {"live", "dying"} => phase[t] \in {"live", "dying"}
  BY Zenon DEF Fades
<1>2. \A p \in Processes : CurrentOnCpu(p)' => CurrentOnCpu(p)
  BY <1>1, Zenon DEF CurrentOnCpu, Referenced, Members, Executing
<1> QED BY <1>1, <1>2, Zenon DEF QuietInv, Executing, FieldTypes

(* fd_cleanup_state of a process that is quiet, or says nothing of it. *)
LEMMA QuietSets ==
    ASSUME FieldTypes, QuietInv, NEW p \in Processes, NEW n \in 0..5,
           cleanup' = [cleanup EXCEPT ![p] = n], n \in {0, 4} \/ ~CurrentOnCpu(p),
           UNCHANGED <<phase, pin, allocated, listed>>
    PROVE  QuietInv'
<1>1. \A q \in Processes : cleanup'[q] = IF q = p THEN n ELSE cleanup[q]
  BY Zenon DEF FieldTypes
<1>2. \A q \in Processes : CurrentOnCpu(q)' <=> CurrentOnCpu(q)
  BY Zenon DEF CurrentOnCpu, Referenced, Members, Executing
<1> QED BY <1>1, <1>2 DEF QuietInv, Executing, FieldTypes

(* Drained and collected processes are quiet when a thread steps ... *)
LEMMA QuietTask ==
    ASSUME FieldTypes, PlacesInv, QuietInv, LaunchInv, NEW t \in Tasks,
           Call(t) \/ Alone(t) \/ Switch(t) \/ CloseWindow(t)
    PROVE  QuietInv'
<1> USE ActorsAre DEF At, pcbVars, listVars, pinVars
<1>1. CASE SysExit(t) \/ ExitGroup(t) \/ WaitEnter(t) \/ WaitNoChild(t) \/ KillStatus(t) \/ KillZombie(t)
           \/ CopyFails(t)
  BY <1>1, QuietStays, PhaseStays, Zenon
  DEF SysExit, ExitGroup, WaitEnter, WaitNoChild, KillStatus, KillZombie, CopyFails
<1>2. CASE KillSelf(t)
  <2>1. Fades
    BY <1>2, Zenon DEF KillSelf, Fades, FieldTypes, Phases, Executing
  <2> QED BY <1>2, <2>1, QuietStays, Zenon DEF KillSelf
<1>3. CASE KillMark(t) \/ CloseWindow(t)
  <2>1. Fades
    BY <1>3, MarkFades, Zenon DEF KillMark, CloseWindow, Members
  <2> QED BY <1>3, <2>1, QuietStays, Zenon DEF KillMark, CloseWindow
<1>4. CASE Switch(t)
  <2>1. Fades
    BY <1>4, Zenon DEF Switch, Stop, Fades, FieldTypes, Phases, IrqOff
  <2> QED BY <1>4, <2>1, QuietStays, Zenon DEF Switch
<1>5. CASE Release(t) \/ ReleaseParent(t)
  BY <1>5, QuietStays, PhaseStays, Zenon DEF Release, ReleaseParent, FieldTypes
<1>6. CASE LaunchFails(t)
  <2>1. target[t] \in Processes
    BY <1>6, HasTarget, Zenon DEF LaunchFails, Untargeted
  <2>2. Fades
    BY <1>6, <2>1, DeferredFacts, Zenon DEF LaunchFails
  <2> QED BY <1>6, <2>2, QuietStays, Zenon DEF LaunchFails
<1>7. ASSUME NEW c \in Processes, FindZombie(t, c) PROVE QuietInv'
  BY <1>7, QuietStays, PhaseStays, Zenon DEF FindZombie
<1>8. CASE Acquire(t)
  <2>1. \A q \in Processes : cleanup[q] \in {1, 2, 3, 5} => q # ProcessOf[t] /\ pin'[q] = pin[q]
    BY <1>8 DEF Acquire, FieldTypes
  <2>2. UNCHANGED <<phase, cleanup, allocated, listed>>
    BY <1>8, Zenon DEF Acquire
  <2> QED BY <2>1, <2>2, Zenon
             DEF QuietInv, CurrentOnCpu, Referenced, Members, Executing, FieldTypes
<1>9. ASSUME NEW c \in Processes, Create(t, c) PROVE QuietInv'
  <2>1. \A q \in Processes : cleanup'[q] \in {1, 2, 3, 5} =>
           q # c /\ pin'[q] = pin[q] /\ cleanup'[q] = cleanup[q]
    BY <1>9 DEF Create, FieldTypes
  <2>2. phase' = phase /\ allocated' = allocated \cup {c} /\ listed' = listed \cup {c}
    BY <1>9, Zenon DEF Create
  <2> QED BY <2>1, <2>2, Zenon
             DEF QuietInv, CurrentOnCpu, Referenced, Members, Executing, FieldTypes
<1>10. CASE Publish(t)
  <2> DEFINE c == target[t]
  <2>1. c \in listed /\ cleanup[c] = 0
    BY <1>10, Zenon DEF Publish, LaunchInv, Launching
  <2>2. \A u \in Tasks : phase'[u] = IF ProcessOf[u] = c THEN "live" ELSE phase[u]
    BY <1>10, Zenon DEF Publish, Members
  <2>3. UNCHANGED <<cleanup, pin, allocated, listed>>
    BY <1>10, Zenon DEF Publish
  <2>4. \A q \in Processes : q # c => (CurrentOnCpu(q)' <=> CurrentOnCpu(q))
    BY <2>2, <2>3, Zenon DEF CurrentOnCpu, Referenced, Members, Executing
  <2>5. \A p \in allocated' : cleanup'[p] \in {1, 2, 3, 5} => ~CurrentOnCpu(p)'
    BY <2>1, <2>3, <2>4 DEF QuietInv, FieldTypes
  <2>6. \A u \in Tasks : phase'[u] \in {"live", "dying"} => ProcessOf[u] \in listed'
    BY <2>1, <2>2, <2>3, Zenon DEF QuietInv, Executing
  <2> QED BY <2>5, <2>6, Zenon DEF QuietInv, Executing
<1> QED BY <1>1, <1>2, <1>3, <1>4, <1>5, <1>6, <1>7, <1>8, <1>9, <1>10, Zenon DEF Call, Alone

(* ... when somebody is in process_complete_wait ... *)
LEMMA QuietCollector ==
    ASSUME FieldTypes, PlacesInv, OwnInv, QuietInv, NEW a \in Tasks \cup {Reaper}, Collector(a)
    PROVE  QuietInv'
<1> USE ActorsAre DEF At, pcbVars, listVars, pinVars
<1>0. a \in Actors
  BY Zenon
<1>1. CASE ClaimStatus(a) \/ Transfer(a) \/ Threads(a)
  BY <1>1, QuietStays, PhaseStays, Zenon DEF ClaimStatus, Transfer, Threads
<1>2. CASE Compete(a)
  <2>1. target[a] \in Processes
    BY <1>0, <1>2, HasTarget, Zenon DEF Compete, Untargeted
  <2>2. UNCHANGED <<phase, pin, allocated, listed>>
    BY <1>2, Zenon DEF Compete
  <2>3. CASE cleanup[target[a]] = 1
    <3>1. cleanup' = [cleanup EXCEPT ![target[a]] = 5]
      BY <1>2, <2>3 DEF Compete, SetCleanup
    <3>2. \A q \in Processes : CurrentOnCpu(q)' <=> CurrentOnCpu(q)
      BY <2>2, Zenon DEF CurrentOnCpu, Referenced, Members, Executing
    <3>3. \A q \in Processes : cleanup'[q] = IF q = target[a] THEN 5 ELSE cleanup[q]
      BY <2>1, <3>1, Zenon DEF FieldTypes
    <3> QED BY <2>2, <2>3, <3>2, <3>3, Zenon DEF QuietInv, Executing, FieldTypes
  <2>4. CASE cleanup[target[a]] \in {3, 4, 5}
    BY <1>2, <2>2, <2>4, QuietStays, PhaseStays DEF Compete
  <2>5. CASE cleanup[target[a]] \in {0, 2}
    BY <1>2, <2>1, <2>2, <2>5, QuietSets DEF Compete, SetCleanup
  <2> QED BY <2>1, <2>3, <2>4, <2>5 DEF FieldTypes
<1>3. CASE Check(a)
  <2>1. target[a] \in Processes
    BY <1>0, <1>3, HasTarget, Zenon DEF Check, Untargeted
  <2>2. CASE CurrentOnCpu(target[a])
    BY <1>3, <2>2, QuietStays, PhaseStays, Zenon DEF Check
  <2>3. CASE ~CurrentOnCpu(target[a])
    BY <1>3, <2>1, <2>3, QuietSets DEF Check, SetCleanup
  <2> QED BY <2>2, <2>3, Zenon
<1>4. CASE Defer(a)
  <2>1. target[a] \in Processes
    BY <1>0, <1>4, HasTarget, Zenon DEF Defer, Untargeted
  <2>2. Fades
    BY <1>4, <2>1, DeferredFacts, Zenon DEF Defer
  <2> QED BY <1>4, <2>2, QuietStays, Zenon DEF Defer
<1>5. CASE Undo(a)
  <2>1. target[a] \in Processes
    BY <1>0, <1>5, HasTarget, Zenon DEF Undo, Untargeted
  <2>2. cleanup' = [cleanup EXCEPT ![target[a]] = 0] /\ UNCHANGED <<phase, pin, allocated, listed>>
    BY <1>5, Zenon DEF Undo, SetCleanup
  <2>3. 0 \in 0..5 /\ 0 \in {0, 4}
    OBVIOUS
  <2> QED BY <2>1, <2>2, <2>3, QuietSets, Zenon
<1>6. CASE Redo(a)
  <2>1. target[a] \in allocated /\ cleanup[target[a]] = 3
    BY <1>0, <1>6, Zenon DEF Redo, OwnInv, Holding, Collecting
  <2>2. target[a] \in Processes /\ ~CurrentOnCpu(target[a])
    BY <2>1, Zenon DEF QuietInv, FieldTypes
  <2>3. cleanup' = [cleanup EXCEPT ![target[a]] = 2] /\ UNCHANGED <<phase, pin, allocated, listed>>
    BY <1>6, Zenon DEF Redo, SetCleanup
  <2>4. 2 \in 0..5
    OBVIOUS
  <2> QED BY <2>2, <2>3, <2>4, QuietSets, Zenon
<1>7. CASE Detach(a)
  <2>1. target[a] \in allocated /\ cleanup[target[a]] = 3
    BY <1>0, <1>7, Zenon DEF Detach, OwnInv, Holding, Collecting
  <2>2. \A u \in Tasks : Executing(u) => ProcessOf[u] # target[a]
    BY <2>1, Zenon DEF QuietInv, CurrentOnCpu, Referenced, Members
  <2>3. UNCHANGED <<phase, cleanup, pin, allocated>> /\ listed \ {target[a]} \subseteq listed'
    BY <1>7, Zenon DEF Detach
  <2> QED BY <2>2, <2>3, Zenon DEF QuietInv, CurrentOnCpu, Referenced, Members, Executing
<1>8. CASE FreeProcess(a)
  <2>1. \A u \in Tasks : phase'[u] \in {"live", "dying"} => phase[u] \in {"live", "dying"}
    BY <1>8, Zenon DEF FreeProcess, FieldTypes
  <2>2. UNCHANGED <<cleanup, pin, listed>> /\ allocated' \subseteq allocated
    BY <1>8, Zenon DEF FreeProcess
  <2>3. \A p \in Processes : CurrentOnCpu(p)' => CurrentOnCpu(p)
    BY <2>1, <2>2, Zenon DEF CurrentOnCpu, Referenced, Members, Executing
  <2> QED BY <2>1, <2>2, <2>3, Zenon DEF QuietInv, Executing, FieldTypes
<1>9. ASSUME NEW p \in Processes, ThreadsAbandon(a, p) PROVE QuietInv'
  <2>1. Fades /\ Abandon(p)
    BY <1>9, AbandonFacts, Zenon DEF ThreadsAbandon
  <2> QED BY <2>1, QuietStays, Zenon DEF Abandon, FieldTypes
<1> QED BY <1>1, <1>2, <1>3, <1>4, <1>5, <1>6, <1>7, <1>8, <1>9, Zenon DEF Collector

(* ... and when the reaper or the GUI steps. *)
LEMMA QuietKernel ==
    ASSUME FieldTypes, PlacesInv, OwnInv, QuietInv, Reaping \/ GuiStep
    PROVE  QuietInv'
<1> USE ActorsAre DEF pcbVars, listVars, pinVars
<1>1. CASE ReapClaims \/ ReapSwept \/ ScanNothing \/ FindNothing \/ DrainRead \/ CloseCheck
  BY <1>1, QuietStays, PhaseStays, Zenon
     DEF ReapClaims, ReapSwept, ScanNothing, FindNothing, DrainRead, CloseCheck
<1>2. CASE Decide
  <2>1. target[Reaper] \in allocated /\ cleanup[target[Reaper]] \in {1, 5}
    BY <1>2, Zenon DEF Decide, OwnInv, Holding, Draining
  <2>2. target[Reaper] \in Processes /\ ~CurrentOnCpu(target[Reaper])
    BY <2>1, Zenon DEF QuietInv, FieldTypes
  <2>3. UNCHANGED <<phase, pin, allocated, listed>>
    BY <1>2, Zenon DEF Decide
  <2>4. \/ cleanup' = cleanup
        \/ \E n \in {2, 3} : cleanup' = [cleanup EXCEPT ![target[Reaper]] = n]
    BY <1>2, Zenon DEF Decide, SetCleanup
  <2> QED BY <2>2, <2>3, <2>4, QuietSets, QuietStays, PhaseStays
<1>3. ASSUME NEW p \in Processes, ReapAbandon(p) PROVE QuietInv'
  <2>1. Fades /\ Abandon(p)
    BY <1>3, AbandonFacts, Zenon DEF ReapAbandon
  <2> QED BY <2>1, QuietStays, Zenon DEF Abandon, FieldTypes
<1>4. ASSUME NEW p \in Processes, ScanDrain(p) \/ ScanCollect(p) PROVE QuietInv'
  <2>1. ~CurrentOnCpu(p)
    BY <1>4, Zenon DEF ScanDrain, ScanCollect, Drainable, Collectable, Scannable
  <2> QED BY <1>4, <2>1, QuietSets DEF ScanDrain, ScanCollect, SetCleanup
<1>5. ASSUME NEW p \in Processes, FindReapable(p) PROVE QuietInv'
  BY <1>5, QuietStays, PhaseStays, Zenon DEF FindReapable
<1>6. CASE CloseDeferred
  <2>1. target[Gui] \in Processes
    BY <1>6, HasTarget, Zenon DEF CloseDeferred, Untargeted
  <2>2. Fades
    BY <1>6, <2>1, DeferredFacts, Zenon DEF CloseDeferred
  <2> QED BY <1>6, <2>2, QuietStays, Zenon DEF CloseDeferred
<1> QED BY <1>1, <1>2, <1>3, <1>4, <1>5, <1>6, Zenon DEF Reaping, GuiStep
-----------------------------------------------------------------------------
(***************************************************************************)
(* Claims.                                                                 *)
(***************************************************************************)
(* No thread comes to life. *)
Ebbs == \A t \in Tasks : phase'[t] \in {"live", "dying"} => phase[t] \in {"live", "dying"}

(* Whoever has a claim behind the step had it before. *)
ClaimsFollow ==
    \A b \in Actors : (b \in Tasks => phase'[b] \in {"live", "dying"}) /\ at'[b] \in Claiming =>
        /\ b \in Tasks => phase[b] \in {"live", "dying"}
        /\ at[b] \in Claiming /\ target'[b] = target[b]

(* One actor moves, and gets no claim by it. *)
LEMMA GoFollows ==
    ASSUME PlacesInv, Ebbs, NEW a \in Actors, NEW l, NEW p, Go(a, l, p),
           l \in Claiming => at[a] \in Claiming /\ p = target[a]
    PROVE  ClaimsFollow
BY Zenon DEF PlacesInv, Ebbs, Go, ClaimsFollow

(* Nobody moves. *)
LEMMA StayFollows ==
    ASSUME PlacesInv, Ebbs, UNCHANGED <<at, target>>
    PROVE  ClaimsFollow
BY Zenon DEF PlacesInv, Ebbs, ClaimsFollow

(* Claimed processes stay claimed and listed. *)
LEMMA ClaimsStay ==
    ASSUME FieldTypes, ClaimInv, ClaimsFollow, listed \subseteq listed',
           \A q \in listed : wait_owner'[q] = wait_owner[q] /\ parent'[q] \in {parent[q], Kernel}
    PROVE  ClaimInv'
BY DEF ClaimInv, ClaimsFollow, Alive, Executing

(* An actor claims a process that nobody has claimed. *)
LEMMA ClaimNew ==
    ASSUME FieldTypes, PlacesInv, ClaimInv, NEW a \in Tasks \cup {Reaper}, NEW p \in listed,
           Go(a, "claimed", p), wait_owner[p] = NULL,
           wait_owner' = [wait_owner EXCEPT ![p] = a],
           parent[p] = Kernel \/ (a \in Tasks /\ parent[p] = ProcessOf[a]),
           UNCHANGED <<phase, parent, listed>>
    PROVE  ClaimInv'
<1>1. a \in Actors /\ a # NULL /\ \A b \in Actors : b # NULL
  BY ActorsAre, CollectionAssumption, Zenon
<1>2. \A b \in Actors : at'[b] = (IF b = a THEN "claimed" ELSE at[b])
                        /\ target'[b] = (IF b = a THEN p ELSE target[b])
  BY <1>1, Zenon DEF Go, PlacesInv
<1>3. \A q \in Processes : wait_owner'[q] = IF q = p THEN a ELSE wait_owner[q]
  BY Zenon DEF FieldTypes
<1>4. ASSUME NEW b \in Actors, Alive(b)', at'[b] \in Claiming
      PROVE  /\ target'[b] \in listed' /\ wait_owner'[target'[b]] = b
             /\ parent'[target'[b]] = Kernel \/ (b \in Tasks /\ parent'[target'[b]] = ProcessOf[b])
  <2>1. CASE b = a
    BY <1>2, <1>3, <2>1, Zenon DEF FieldTypes
  <2>2. CASE b # a
    <3>1. Alive(b) /\ at[b] \in Claiming /\ target'[b] = target[b]
      BY <1>2, <1>4, <2>2, Zenon DEF Alive, Executing
    <3>2. target[b] \in listed /\ wait_owner[target[b]] = b
      BY <3>1, Zenon DEF ClaimInv
    <3> QED BY <1>1, <1>3, <3>1, <3>2 DEF ClaimInv, FieldTypes
  <2> QED BY <2>1, <2>2, Zenon
<1> QED BY <1>4, Zenon DEF ClaimInv

(* An actor gives its claim up. *)
LEMMA ClaimGone ==
    ASSUME FieldTypes, PlacesInv, ClaimInv, NEW a \in Tasks \cup {Reaper}, NEW l, NEW p,
           Alive(a), at[a] \in Claiming, Go(a, l, p), l \notin Claiming,
           wait_owner' = [wait_owner EXCEPT ![target[a]] = NULL], UNCHANGED <<phase, parent, listed>>
    PROVE  ClaimInv'
<1>1. a \in Actors
  BY ActorsAre, Zenon
<1>2. target[a] \in listed /\ wait_owner[target[a]] = a
  BY <1>1, Zenon DEF ClaimInv
<1>3. \A b \in Actors : at'[b] = (IF b = a THEN l ELSE at[b])
                        /\ target'[b] = (IF b = a THEN p ELSE target[b])
  BY <1>1, Zenon DEF Go, PlacesInv
<1>4. \A q \in Processes : wait_owner'[q] = IF q = target[a] THEN NULL ELSE wait_owner[q]
  BY Zenon DEF FieldTypes
<1>5. ASSUME NEW b \in Actors, Alive(b)', at'[b] \in Claiming
      PROVE  /\ target'[b] \in listed' /\ wait_owner'[target'[b]] = b
             /\ parent'[target'[b]] = Kernel \/ (b \in Tasks /\ parent'[target'[b]] = ProcessOf[b])
  <2>1. b # a /\ Alive(b) /\ at[b] \in Claiming /\ target'[b] = target[b]
    BY <1>3, <1>5, Zenon DEF Alive, Executing
  <2>2. target[b] \in listed /\ wait_owner[target[b]] = b
    BY <2>1, Zenon DEF ClaimInv
  <2> QED BY <1>2, <1>4, <2>1, <2>2 DEF ClaimInv, FieldTypes
<1> QED BY <1>5, Zenon DEF ClaimInv

(* Claims of threads that do not run any more are released. *)
LEMMA ClaimsReleased ==
    ASSUME FieldTypes, ClaimInv, ClaimsFollow, NEW T, ReleaseClaims(T),
           \A t \in Tasks : t \in T => ~Executing(t), Reaper \notin T, Gui \notin T,
           UNCHANGED <<parent, listed>>
    PROVE  ClaimInv'
<1>1. \A q \in listed : wait_owner[q] \notin T => wait_owner'[q] = wait_owner[q]
  BY Zenon DEF ReleaseClaims, FieldTypes
<1>2. \A b \in Actors : Alive(b) => b \notin T
  BY Zenon DEF Alive, Actors
<1> QED BY <1>1, <1>2 DEF ClaimInv, ClaimsFollow, Alive, Executing

(* Claims are exclusive when a thread steps ... *)
LEMMA ClaimTask ==
    ASSUME FieldTypes, PlacesInv, ClaimInv, NEW t \in Tasks,
           Call(t) \/ Alone(t) \/ Switch(t) \/ CloseWindow(t)
    PROVE  ClaimInv'
<1> USE ActorsAre DEF At, pcbVars, listVars, pinVars
<1>0. \A l \in {"user", "exiting", "status", "mark", "zombie", "exited", "create", "created",
                "load", "release", "wait", "close"} : l \notin Claiming
  BY Zenon DEF Claiming
<1>1. CASE SysExit(t) \/ ExitGroup(t) \/ Acquire(t) \/ WaitEnter(t)
  <2>1. ClaimsFollow
    BY <1>0, <1>1, GoFollows, Zenon DEF SysExit, ExitGroup, Acquire, WaitEnter, Ebbs
  <2> QED BY <1>1, <2>1, ClaimsStay, Zenon DEF SysExit, ExitGroup, Acquire, WaitEnter
<1>2. CASE KillStatus(t) \/ KillZombie(t)
  <2>1. ClaimsFollow
    BY <1>0, <1>2, GoFollows, Zenon DEF KillStatus, KillZombie, Ebbs
  <2> QED BY <1>2, <2>1, ClaimsStay, Zenon DEF KillStatus, KillZombie
<1>3. CASE KillSelf(t) \/ KillMark(t) \/ CloseWindow(t) \/ Switch(t)
  <2>1. Ebbs
    <3>1. CASE KillSelf(t) \/ Switch(t)
      BY <3>1, Zenon DEF KillSelf, Switch, Stop, Ebbs, FieldTypes, Executing
    <3>2. CASE KillMark(t) \/ CloseWindow(t)
      BY <3>2, MarkFades, Zenon DEF KillMark, CloseWindow, Members, Fades, Ebbs
    <3> QED BY <1>3, <3>1, <3>2, Zenon
  <2>2. ClaimsFollow
    BY <1>0, <1>3, <2>1, GoFollows, StayFollows, Zenon DEF KillSelf, KillMark, CloseWindow, Switch
  <2> QED BY <1>3, <2>2, ClaimsStay, Zenon DEF KillSelf, KillMark, CloseWindow, Switch
<1>4. CASE Release(t) \/ ReleaseParent(t) \/ WaitNoChild(t)
  <2>1. ClaimsFollow
    BY <1>0, <1>4, GoFollows, Zenon DEF Release, ReleaseParent, WaitNoChild, Done, Ebbs
  <2> QED BY <1>4, <2>1, ClaimsStay, Zenon DEF Release, ReleaseParent, WaitNoChild
<1>5. CASE LaunchFails(t)
  <2>1. target[t] \in Processes
    BY <1>5, HasTarget, Zenon DEF LaunchFails, Untargeted
  <2>2. Fades /\ Adopts
    BY <1>5, <2>1, DeferredFacts, Zenon DEF LaunchFails
  <2>3. ClaimsFollow
    BY <1>0, <1>5, <2>2, GoFollows, Zenon DEF LaunchFails, Ebbs, Fades
  <2> QED BY <1>5, <2>2, <2>3, ClaimsStay, Zenon DEF LaunchFails, Adopts, FieldTypes
<1>6. CASE Publish(t)
  <2>1. \A b \in Actors : b \in Members(target[t]) => at'[b] = "user"
    BY <1>6, Zenon DEF Publish
  <2>2. \A b \in Actors : b \notin Members(target[t]) =>
           (at'[b] = "release" \/ at'[b] = at[b]) /\ target'[b] = target[b]
    BY <1>6, Zenon DEF Publish
  <2>3. \A b \in Tasks : b \notin Members(target[t]) => phase'[b] = phase[b]
    BY <1>6, Zenon DEF Publish
  <2>4. ClaimsFollow
    BY <1>0, <2>1, <2>2, <2>3, Zenon DEF ClaimsFollow
  <2> QED BY <1>6, <2>4, ClaimsStay, Zenon DEF Publish
<1>7. ASSUME NEW c \in Processes, Create(t, c) PROVE ClaimInv'
  <2>1. ClaimsFollow
    BY <1>0, <1>7, GoFollows, Zenon DEF Create, Ebbs
  <2>2. c \notin listed
    BY <1>7, Zenon DEF Create, FieldTypes
  <2> QED BY <1>7, <2>1, <2>2, ClaimsStay, Zenon DEF Create, FieldTypes
<1>8. ASSUME NEW c \in Processes, FindZombie(t, c) PROVE ClaimInv'
  BY <1>8, ClaimNew, Zenon DEF FindZombie, Children, SetOwner
<1>9. CASE CopyFails(t)
  BY <1>0, <1>9, ClaimGone, Zenon DEF CopyFails, SetOwner, Done, Alive, Claiming
<1> QED BY <1>1, <1>2, <1>3, <1>4, <1>5, <1>6, <1>7, <1>8, <1>9, Zenon DEF Call, Alone

(* ... when somebody is in process_complete_wait ... *)
LEMMA ClaimCollector ==
    ASSUME FieldTypes, PlacesInv, OwnInv, QuietInv, ClaimInv, NEW a \in Tasks \cup {Reaper}, Collector(a)
    PROVE  ClaimInv'
<1> USE ActorsAre DEF At, pcbVars, listVars, pinVars
<1>0. /\ \A l \in {"user", "claims", "find", "check", "defer", "undo", "collect", "redo", "threads",
                   "free"} : l \notin Claiming
      /\ a \in Actors /\ (IF a = Reaper THEN next ELSE "user") \notin Claiming
  BY Zenon DEF Claiming, PlacesInv
<1>1. CASE ClaimStatus(a) \/ Compete(a)
  <2>1. ClaimsFollow
    BY <1>0, <1>1, GoFollows, Zenon DEF ClaimStatus, Compete, Ebbs, Claiming
  <2> QED BY <1>1, <2>1, ClaimsStay, Zenon DEF ClaimStatus, Compete
<1>2. CASE Transfer(a)
  <2>1. Alive(a) /\ at[a] \in Claiming /\ wait_owner' = [wait_owner EXCEPT ![target[a]] = NULL]
    BY <1>2, Zenon DEF Transfer, Alive, Claiming, SetOwner
  <2>2. \E l, p : Go(a, l, p) /\ l \notin Claiming
    BY <1>0, <1>2, Zenon DEF Transfer, Done
  <2> QED BY <1>2, <2>1, <2>2, ClaimGone, Zenon DEF Transfer
<1>3. CASE Check(a) \/ Undo(a) \/ Redo(a)
  <2>1. ClaimsFollow
    BY <1>0, <1>3, GoFollows, Zenon DEF Check, Undo, Redo, Done, Ebbs
  <2> QED BY <1>3, <2>1, ClaimsStay, Zenon DEF Check, Undo, Redo
<1>4. CASE Defer(a)
  <2>1. target[a] \in Processes
    BY <1>0, <1>4, HasTarget, Zenon DEF Defer, Untargeted
  <2>2. Fades /\ Adopts
    BY <1>4, <2>1, DeferredFacts, Zenon DEF Defer
  <2>3. ClaimsFollow
    BY <1>0, <1>4, <2>2, GoFollows, Zenon DEF Defer, Ebbs, Fades
  <2> QED BY <1>4, <2>2, <2>3, ClaimsStay, Zenon DEF Defer, Adopts, FieldTypes
<1>5. CASE Threads(a)
  <2>1. ClaimsFollow
    BY <1>0, <1>5, GoFollows, Zenon DEF Threads, Ebbs
  <2>2. target[a] \in allocated /\ cleanup[target[a]] = 3
    BY <1>0, <1>5, Zenon DEF Threads, OwnInv, Holding, Collecting
  <2>3. \A u \in Tasks : u \in Members(target[a]) => ~Executing(u)
    BY <2>2, Zenon DEF QuietInv, CurrentOnCpu, Referenced
  <2>4. Reaper \notin Members(target[a]) /\ Gui \notin Members(target[a])
    BY Zenon DEF Members
  <2> QED BY <1>5, <2>1, <2>3, <2>4, ClaimsReleased, Zenon DEF Threads
<1>6. CASE FreeProcess(a)
  <2>1. ClaimsFollow
    BY <1>0, <1>6, GoFollows, Zenon DEF FreeProcess, Done, Ebbs, FieldTypes
  <2> QED BY <1>6, <2>1, ClaimsStay, Zenon DEF FreeProcess
<1>7. ASSUME NEW p \in Processes, ThreadsAbandon(a, p) PROVE ClaimInv'
  <2>1. Fades /\ Adopts /\ Abandon(p)
    BY <1>7, AbandonFacts, Zenon DEF ThreadsAbandon
  <2>2. ClaimsFollow
    BY <1>7, <2>1, StayFollows, Zenon DEF ThreadsAbandon, Ebbs, Fades
  <2> QED BY <2>1, <2>2, ClaimsStay, Zenon DEF Abandon, Adopts, FieldTypes
<1>8. CASE Detach(a)
  <2> DEFINE p == target[a]
  <2>1. ClaimsFollow
    BY <1>0, <1>8, GoFollows, Zenon DEF Detach, Ebbs
  <2>2. CASE wait_owner[p] # NULL
    BY <1>8, <2>1, <2>2, ClaimsStay, Zenon DEF Detach
  <2>3. CASE wait_owner[p] = NULL
    <3>1. p \in allocated /\ cleanup[p] = 3
      BY <1>0, <1>8, Zenon DEF Detach, OwnInv, Holding, Collecting
    <3>2. \A u \in Tasks : Executing(u) => ProcessOf[u] # p
      BY <3>1, Zenon DEF QuietInv, CurrentOnCpu, Referenced, Members
    <3>3. p \in Processes /\ p # Kernel /\ \A b \in Actors : b # NULL
      BY <3>1, CollectionAssumption, Zenon DEF FieldTypes
    <3>4. /\ listed' = listed \ {p}
          /\ \A q \in Processes : parent'[q] \in {parent[q], Kernel}
          /\ \A q \in Processes : parent[q] # p => wait_owner'[q] = wait_owner[q]
      BY <1>8, <2>3 DEF Detach, FieldTypes, Children
    <3>5. ASSUME NEW b \in Actors, Alive(b), at[b] \in Claiming
          PROVE  /\ target[b] \in listed /\ target[b] \in Processes /\ target[b] # p
                 /\ parent[target[b]] # p /\ wait_owner[target[b]] = b
      <4>1. /\ target[b] \in listed /\ wait_owner[target[b]] = b
            /\ parent[target[b]] = Kernel \/ (b \in Tasks /\ parent[target[b]] = ProcessOf[b])
        BY <3>5, Zenon DEF ClaimInv
      <4> QED BY <2>3, <3>2, <3>3, <3>5, <4>1, Zenon DEF Alive, FieldTypes
    <3>6. ASSUME NEW b \in Actors, Alive(b)', at'[b] \in Claiming
          PROVE  /\ target'[b] \in listed' /\ wait_owner'[target'[b]] = b
                 /\ parent'[target'[b]] = Kernel \/ (b \in Tasks /\ parent'[target'[b]] = ProcessOf[b])
      <4>1. Alive(b) /\ at[b] \in Claiming /\ target'[b] = target[b]
        BY <2>1, <3>6, Zenon DEF ClaimsFollow, Alive, Executing
      <4>2. parent[target[b]] = Kernel \/ (b \in Tasks /\ parent[target[b]] = ProcessOf[b])
        BY <4>1, Zenon DEF ClaimInv
      <4> QED BY <3>4, <3>5, <4>1, <4>2
    <3> QED BY <3>6, Zenon DEF ClaimInv
  <2> QED BY <2>2, <2>3, Zenon
<1> QED BY <1>1, <1>2, <1>3, <1>4, <1>5, <1>6, <1>7, <1>8, Zenon DEF Collector

(* ... and when the reaper or the GUI steps. *)
LEMMA ClaimKernel ==
    ASSUME FieldTypes, PlacesInv, ClaimInv, Reaping \/ GuiStep
    PROVE  ClaimInv'
<1> USE ActorsAre DEF pcbVars, listVars, pinVars
<1>0. \A l \in {"user", "claims", "sweep", "scan", "find", "drain", "decide", "collect", "last"} :
         l \notin Claiming
  BY Zenon DEF Claiming
<1>1. CASE ReapClaims
  <2>1. ClaimsFollow
    BY <1>0, <1>1, GoFollows, Zenon DEF ReapClaims, Ebbs
  <2> QED BY <1>1, <2>1, ClaimsReleased, Zenon DEF ReapClaims, Executing
<1>2. CASE ReapSwept \/ ScanNothing \/ FindNothing \/ DrainRead \/ CloseCheck
  <2>1. ClaimsFollow
    BY <1>0, <1>2, GoFollows, Zenon
       DEF ReapSwept, ScanNothing, FindNothing, DrainRead, CloseCheck, Done, Ebbs
  <2> QED BY <1>2, <2>1, ClaimsStay, Zenon
             DEF ReapSwept, ScanNothing, FindNothing, DrainRead, CloseCheck
<1>3. CASE Decide
  <2>1. ClaimsFollow
    BY <1>0, <1>3, GoFollows, Zenon DEF Decide, Ebbs
  <2> QED BY <1>3, <2>1, ClaimsStay, Zenon DEF Decide
<1>4. ASSUME NEW p \in Processes, ReapAbandon(p) PROVE ClaimInv'
  <2>1. Fades /\ Adopts /\ Abandon(p)
    BY <1>4, AbandonFacts, Zenon DEF ReapAbandon
  <2>2. ClaimsFollow
    BY <1>4, <2>1, StayFollows, Zenon DEF ReapAbandon, Ebbs, Fades
  <2> QED BY <2>1, <2>2, ClaimsStay, Zenon DEF Abandon, Adopts, FieldTypes
<1>5. ASSUME NEW p \in Processes, ScanDrain(p) \/ ScanCollect(p) PROVE ClaimInv'
  <2>1. ClaimsFollow
    BY <1>0, <1>5, GoFollows, Zenon DEF ScanDrain, ScanCollect, Ebbs
  <2> QED BY <1>5, <2>1, ClaimsStay, Zenon DEF ScanDrain, ScanCollect
<1>6. ASSUME NEW p \in Processes, FindReapable(p) PROVE ClaimInv'
  BY <1>6, ClaimNew, Zenon DEF FindReapable, Reapable, Children, SetOwner
<1>7. CASE CloseDeferred
  <2>1. target[Gui] \in Processes
    BY <1>7, HasTarget, Zenon DEF CloseDeferred, Untargeted
  <2>2. Fades /\ Adopts
    BY <1>7, <2>1, DeferredFacts, Zenon DEF CloseDeferred
  <2>3. ClaimsFollow
    BY <1>0, <1>7, <2>2, GoFollows, Zenon DEF CloseDeferred, Done, Ebbs, Fades
  <2> QED BY <1>7, <2>2, <2>3, ClaimsStay, Zenon DEF CloseDeferred, Adopts, FieldTypes
<1> QED BY <1>1, <1>2, <1>3, <1>4, <1>5, <1>6, <1>7, Zenon DEF Reaping, GuiStep
-----------------------------------------------------------------------------
(***************************************************************************)
(* Launches.                                                               *)
(***************************************************************************)
(* Whoever is in a launch behind the step was in it before. *)
LaunchFollows ==
    \A t \in Tasks : phase'[t] \in {"live", "dying"} =>
        /\ at'[t] \in Launching =>
             phase[t] \in {"live", "dying"} /\ at[t] \in Launching /\ target'[t] = target[t]
        /\ at'[t] \in {"create", "created"} =>
             phase[t] \in {"live", "dying"} /\ at[t] \in {"create", "created"}

(* One actor moves. *)
LEMMA GoLaunch ==
    ASSUME PlacesInv, Ebbs, NEW a \in Actors, NEW l, NEW p, Go(a, l, p),
           l \in Launching => at[a] \in Launching /\ p = target[a],
           l \in {"create", "created"} => at[a] \in {"create", "created"}
    PROVE  LaunchFollows
BY ActorsAre, Zenon DEF PlacesInv, Ebbs, Go, LaunchFollows

(* Nobody moves. *)
LEMMA StayLaunch ==
    ASSUME PlacesInv, Ebbs, UNCHANGED <<at, target>>
    PROVE  LaunchFollows
BY Zenon DEF PlacesInv, Ebbs, LaunchFollows

(* What a running thread has pinned stays pinned and listed. *)
LEMMA LaunchStays ==
    ASSUME FieldTypes, LaunchInv, LaunchFollows,
           \A q \in Processes : pin[q] \in Tasks /\ Executing(pin[q]) =>
              pin'[q] = pin[q] /\ (q \in listed => q \in listed')
    PROVE  LaunchInv'
BY ActorsAre DEF LaunchInv, LaunchFollows, Executing, FieldTypes

(* The same when pins and list do not change at all. *)
LEMMA LaunchSame ==
    ASSUME FieldTypes, LaunchInv, LaunchFollows, UNCHANGED <<pin, listed>>
    PROVE  LaunchInv'
BY LaunchStays, Zenon

(* A thread gives a pin up. *)
LEMMA LaunchDrops ==
    ASSUME FieldTypes, PlacesInv, LaunchInv, NEW t \in Tasks, NEW p \in Processes, NEW l, NEW r,
           pin[p] = t, Go(t, l, r), l \notin {"create", "created"},
           l \in Launching => at[t] \in Launching /\ r = target[t] /\ r # p /\ Executing(t),
           pin' = [pin EXCEPT ![p] = NULL], UNCHANGED <<phase, listed>>
    PROVE  LaunchInv'
<1>1. \A q \in Processes : pin'[q] = IF q = p THEN NULL ELSE pin[q]
  BY Zenon DEF FieldTypes
<1>2. \A b \in Tasks : at'[b] = (IF b = t THEN l ELSE at[b])
                       /\ target'[b] = (IF b = t THEN r ELSE target[b])
  BY ActorsAre, Zenon DEF Go, PlacesInv
<1>3. ASSUME NEW b \in Tasks, Executing(b)', at'[b] \in Launching
      PROVE  target'[b] \in listed' /\ pin'[target'[b]] = b /\ target'[b] # ProcessOf[b]
  <2>1. Executing(b) /\ at[b] \in Launching /\ target'[b] = target[b] /\ (b = t => target[b] # p)
    BY <1>2, <1>3, Zenon DEF Executing
  <2>2. target[b] \in listed /\ pin[target[b]] = b /\ target[b] # ProcessOf[b] /\ target[b] \in Processes
    BY <2>1, Zenon DEF LaunchInv, FieldTypes
  <2> QED BY <1>1, <2>1, <2>2, Zenon
<1>4. ASSUME NEW b \in Tasks, Executing(b)', at'[b] \in {"create", "created"}
      PROVE  pin'[ProcessOf[b]] = b
  <2>1. b # t /\ Executing(b) /\ at[b] \in {"create", "created"}
    BY <1>2, <1>4, Zenon DEF Executing
  <2>2. pin[ProcessOf[b]] = b
    BY <2>1, Zenon DEF LaunchInv
  <2> QED BY <1>1, <2>1, <2>2, ActorsAre, Zenon
<1> QED BY <1>3, <1>4, Zenon DEF LaunchInv

(* Launches keep their pins when a thread steps ... *)
LEMMA LaunchTask ==
    ASSUME FieldTypes, PlacesInv, QuietInv, LaunchInv, NEW t \in Tasks,
           Call(t) \/ Alone(t) \/ Switch(t) \/ CloseWindow(t)
    PROVE  LaunchInv'
<1> USE ActorsAre DEF At, pcbVars, listVars, pinVars
<1>0. \A l \in {"user", "exiting", "status", "mark", "zombie", "exited", "wait", "claimed", "close"} :
         l \notin Launching /\ l \notin {"create", "created"}
  BY Zenon DEF Launching
<1>1. CASE SysExit(t) \/ ExitGroup(t) \/ WaitEnter(t) \/ WaitNoChild(t) \/ CopyFails(t)
  <2>1. LaunchFollows
    BY <1>0, <1>1, GoLaunch, Zenon
       DEF SysExit, ExitGroup, WaitEnter, WaitNoChild, CopyFails, Done, Ebbs
  <2> QED BY <1>1, <2>1, LaunchSame, Zenon
             DEF SysExit, ExitGroup, WaitEnter, WaitNoChild, CopyFails
<1>2. CASE KillStatus(t) \/ KillZombie(t)
  <2>1. LaunchFollows
    BY <1>0, <1>2, GoLaunch, Zenon DEF KillStatus, KillZombie, Ebbs
  <2> QED BY <1>2, <2>1, LaunchSame, Zenon DEF KillStatus, KillZombie
<1>3. CASE KillSelf(t) \/ KillMark(t) \/ CloseWindow(t) \/ Switch(t)
  <2>1. Ebbs
    <3>1. CASE KillSelf(t) \/ Switch(t)
      BY <3>1, Zenon DEF KillSelf, Switch, Stop, Ebbs, FieldTypes, Executing
    <3>2. CASE KillMark(t) \/ CloseWindow(t)
      BY <3>2, MarkFades, Zenon DEF KillMark, CloseWindow, Members, Fades, Ebbs
    <3> QED BY <1>3, <3>1, <3>2, Zenon
  <2>2. LaunchFollows
    BY <1>0, <1>3, <2>1, GoLaunch, StayLaunch, Zenon DEF KillSelf, KillMark, CloseWindow, Switch
  <2> QED BY <1>3, <2>2, LaunchSame, Zenon DEF KillSelf, KillMark, CloseWindow, Switch
<1>4. ASSUME NEW c \in Processes, FindZombie(t, c) PROVE LaunchInv'
  <2>1. LaunchFollows
    BY <1>0, <1>4, GoLaunch, Zenon DEF FindZombie, Ebbs
  <2> QED BY <1>4, <2>1, LaunchSame, Zenon DEF FindZombie
<1>5. CASE LaunchFails(t)
  <2>1. target[t] \in Processes
    BY <1>5, HasTarget, Zenon DEF LaunchFails, Untargeted
  <2>2. Fades
    BY <1>5, <2>1, DeferredFacts, Zenon DEF LaunchFails
  <2>3. LaunchFollows
    BY <1>5, <2>2, GoLaunch, Zenon DEF LaunchFails, Ebbs, Fades, Launching
  <2> QED BY <1>5, <2>3, LaunchSame, Zenon DEF LaunchFails
<1>6. CASE Publish(t)
  <2>1. \A b \in Tasks : b \in Members(target[t]) => at'[b] = "user"
    BY <1>6, Zenon DEF Publish
  <2>2. \A b \in Tasks : b \notin Members(target[t]) =>
           (at'[b] = at[b] \/ (b = t /\ at'[b] = "release")) /\ target'[b] = target[b]
           /\ phase'[b] = phase[b]
    BY <1>6, Zenon DEF Publish
  <2>3. at[t] \in Launching /\ "release" \notin {"create", "created"} /\ Executing(t)
    BY <1>6, Zenon DEF Publish, Launching
  <2>4. LaunchFollows
    BY <1>0, <2>1, <2>2, <2>3 DEF LaunchFollows, Executing
  <2> QED BY <1>6, <2>4, LaunchSame, Zenon DEF Publish
<1>7. CASE Release(t)
  <2>1. pin[target[t]] = t /\ target[t] \in Processes
    BY <1>7, Zenon DEF Release, LaunchInv, Launching, FieldTypes
  <2> QED BY <1>0, <1>7, <2>1, LaunchDrops, Zenon DEF Release, Done
<1>8. CASE ReleaseParent(t)
  <2>1. pin[ProcessOf[t]] = t
    BY <1>8, Zenon DEF ReleaseParent, LaunchInv
  <2>2. CASE at[t] = "created"
    <3>1. target[t] # ProcessOf[t] /\ at[t] \in Launching /\ Executing(t)
      BY <1>8, <2>2, Zenon DEF ReleaseParent, LaunchInv, Launching
    <3>2. /\ Go(t, "load", target[t]) /\ pin' = [pin EXCEPT ![ProcessOf[t]] = NULL]
          /\ UNCHANGED <<phase, listed>> /\ "load" \notin {"create", "created"}
      BY <1>8, <2>2, Zenon DEF ReleaseParent
    <3> QED BY <2>1, <3>1, <3>2, LaunchDrops, Zenon
  <2>3. CASE at[t] # "created"
    BY <1>0, <1>8, <2>1, <2>3, LaunchDrops, Zenon DEF ReleaseParent, Done
  <2> QED BY <2>2, <2>3, Zenon
<1>9. CASE Acquire(t)
  <2>1. \A q \in Processes : pin'[q] = IF q = ProcessOf[t] THEN t ELSE pin[q]
    BY <1>9, Zenon DEF Acquire, FieldTypes
  <2>2. pin[ProcessOf[t]] = NULL /\ NULL \notin Tasks
    BY <1>9, CollectionAssumption, Zenon DEF Acquire, Actors
  <2>3. \A b \in Tasks : at'[b] = (IF b = t THEN "create" ELSE at[b]) /\ (b # t => target'[b] = target[b])
    BY <1>9, Zenon DEF Acquire, Go, PlacesInv
  <2>4. phase' = phase /\ listed' = listed
    BY <1>9, Zenon DEF Acquire
  <2>5. "create" \notin Launching
    BY Zenon DEF Launching
  <2> QED BY <2>1, <2>2, <2>3, <2>4, <2>5 DEF LaunchInv, Executing, FieldTypes
<1>10. ASSUME NEW c \in Processes, Create(t, c) PROVE LaunchInv'
  <2>1. \A q \in Processes : pin'[q] = IF q = c THEN t ELSE pin[q]
    BY <1>10, Zenon DEF Create, FieldTypes
  <2>2. c \notin listed /\ \A b \in Tasks : Executing(b) => ProcessOf[b] # c
    BY <1>10, Zenon DEF Create, FieldTypes, QuietInv
  <2>3. \A b \in Tasks : /\ at'[b] = (IF b = t THEN "created" ELSE at[b])
                         /\ target'[b] = (IF b = t THEN c ELSE target[b])
    BY <1>10, Zenon DEF Create, Go, PlacesInv
  <2>4. phase' = phase /\ listed' = listed \cup {c} /\ Executing(t) /\ at[t] = "create"
    BY <1>10, Zenon DEF Create
  <2>5. ASSUME NEW b \in Tasks, Executing(b)', at'[b] \in Launching
        PROVE  target'[b] \in listed' /\ pin'[target'[b]] = b /\ target'[b] # ProcessOf[b]
    <3>1. CASE b = t
      BY <2>1, <2>2, <2>3, <2>4, <3>1, Zenon
    <3>2. CASE b # t
      <4>1. Executing(b) /\ at[b] \in Launching /\ target'[b] = target[b]
        BY <2>3, <2>4, <2>5, <3>2, Zenon DEF Executing
      <4>2. target[b] \in listed /\ pin[target[b]] = b /\ target[b] # ProcessOf[b] /\ target[b] \in Processes
        BY <4>1, Zenon DEF LaunchInv, FieldTypes
      <4> QED BY <2>1, <2>2, <2>4, <4>1, <4>2, Zenon
    <3> QED BY <3>1, <3>2, Zenon
  <2>6. ASSUME NEW b \in Tasks, Executing(b)', at'[b] \in {"create", "created"}
        PROVE  pin'[ProcessOf[b]] = b
    <3>1. Executing(b) /\ at[b] \in {"create", "created"}
      BY <2>3, <2>4, <2>6, Zenon DEF Executing
    <3> QED BY <2>1, <2>2, <3>1, Zenon DEF LaunchInv
  <2> QED BY <2>5, <2>6, Zenon DEF LaunchInv
<1> QED BY <1>1, <1>2, <1>3, <1>4, <1>5, <1>6, <1>7, <1>8, <1>9, <1>10, Zenon DEF Call, Alone

(* An abandoned pin is the pin of a thread that does not run. *)
LEMMA LaunchAbandon ==
    ASSUME FieldTypes, PlacesInv, LaunchInv, NEW p \in Processes, Abandon(p), UNCHANGED <<at, target>>
    PROVE  LaunchInv'
<1>1. Fades
  BY AbandonFacts, Zenon
<1>2. LaunchFollows
  BY <1>1, StayLaunch, Zenon DEF Fades, Ebbs
<1>3. \A q \in Processes : pin[q] \in Tasks /\ Executing(pin[q]) => pin'[q] = pin[q]
  BY Zenon DEF Abandon, Abandoned, Executing, FieldTypes
<1> QED BY <1>2, <1>3, LaunchStays, Zenon DEF Abandon, listVars

(* ... when somebody is in process_complete_wait ... *)
LEMMA LaunchCollector ==
    ASSUME FieldTypes, PlacesInv, OwnInv, QuietInv, LaunchInv,
           NEW a \in Tasks \cup {Reaper}, Collector(a)
    PROVE  LaunchInv'
<1> USE ActorsAre DEF At, pcbVars, listVars, pinVars
<1>0. /\ \A l \in {"user", "claims", "find", "compete", "yield", "take", "check", "defer", "undo",
                   "collect", "redo", "threads", "free"} :
            l \notin Launching /\ l \notin {"create", "created"}
      /\ a \in Actors /\ (IF a = Reaper THEN next ELSE "user") \notin Launching
      /\ (IF a = Reaper THEN next ELSE "user") \notin {"create", "created"}
  BY Zenon DEF Launching, PlacesInv
<1>1. CASE ClaimStatus(a) \/ Compete(a) \/ Transfer(a) \/ Check(a) \/ Undo(a) \/ Redo(a) \/ Threads(a)
  <2>1. LaunchFollows
    <3>1. \E l, p : Go(a, l, p) /\ l \notin Launching /\ l \notin {"create", "created"}
      BY <1>0, <1>1, Zenon DEF ClaimStatus, Compete, Transfer, Check, Undo, Redo, Threads, Done
    <3>2. Ebbs
      BY <1>1, Zenon DEF ClaimStatus, Compete, Transfer, Check, Undo, Redo, Threads, Ebbs
    <3> QED BY <1>0, <3>1, <3>2, GoLaunch, Zenon
  <2> QED BY <1>1, <2>1, LaunchSame, Zenon
             DEF ClaimStatus, Compete, Transfer, Check, Undo, Redo, Threads
<1>2. CASE Defer(a)
  <2>1. target[a] \in Processes
    BY <1>0, <1>2, HasTarget, Zenon DEF Defer, Untargeted
  <2>2. Fades
    BY <1>2, <2>1, DeferredFacts, Zenon DEF Defer
  <2>3. LaunchFollows
    BY <1>0, <1>2, <2>2, GoLaunch, Zenon DEF Defer, Ebbs, Fades
  <2> QED BY <1>2, <2>3, LaunchSame, Zenon DEF Defer
<1>3. CASE Detach(a)
  <2>1. LaunchFollows
    BY <1>0, <1>3, GoLaunch, Zenon DEF Detach, Ebbs
  <2>2. target[a] \in allocated /\ cleanup[target[a]] = 3
    BY <1>0, <1>3, Zenon DEF Detach, OwnInv, Holding, Collecting
  <2>3. pin[target[a]] = NULL /\ NULL \notin Tasks
    BY <2>2, CollectionAssumption, Zenon DEF QuietInv, CurrentOnCpu, Actors
  <2>4. pin' = pin /\ listed \ {target[a]} \subseteq listed'
    BY <1>3, Zenon DEF Detach
  <2> QED BY <2>1, <2>3, <2>4, LaunchStays, Zenon
<1>4. CASE FreeProcess(a)
  <2>1. LaunchFollows
    BY <1>0, <1>4, GoLaunch, Zenon DEF FreeProcess, Done, Ebbs, FieldTypes
  <2> QED BY <1>4, <2>1, LaunchSame, Zenon DEF FreeProcess
<1>5. ASSUME NEW p \in Processes, ThreadsAbandon(a, p) PROVE LaunchInv'
  BY <1>5, LaunchAbandon, Zenon DEF ThreadsAbandon
<1> QED BY <1>1, <1>2, <1>3, <1>4, <1>5, Zenon DEF Collector

(* ... and when the reaper or the GUI steps. *)
LEMMA LaunchKernel ==
    ASSUME FieldTypes, PlacesInv, LaunchInv, Reaping \/ GuiStep
    PROVE  LaunchInv'
<1> USE ActorsAre DEF pcbVars, listVars, pinVars
<1>0. \A l \in {"user", "claims", "sweep", "scan", "find", "drain", "decide", "collect", "claimed",
                "last"} : l \notin Launching /\ l \notin {"create", "created"}
  BY Zenon DEF Launching
<1>1. CASE ReapClaims \/ ReapSwept \/ ScanNothing \/ FindNothing \/ DrainRead \/ Decide \/ CloseCheck
  <2>1. LaunchFollows
    BY <1>0, <1>1, GoLaunch, Zenon
    DEF ReapClaims, ReapSwept, ScanNothing, FindNothing, DrainRead, Decide, CloseCheck, Done, Ebbs
  <2> QED BY <1>1, <2>1, LaunchSame, Zenon
      DEF ReapClaims, ReapSwept, ScanNothing, FindNothing, DrainRead, Decide, CloseCheck
<1>2. ASSUME NEW p \in Processes, ReapAbandon(p) PROVE LaunchInv'
  BY <1>2, LaunchAbandon, Zenon DEF ReapAbandon
<1>3. ASSUME NEW p \in Processes, ScanDrain(p) \/ ScanCollect(p) \/ FindReapable(p) PROVE LaunchInv'
  <2>1. LaunchFollows
    BY <1>0, <1>3, GoLaunch, Zenon DEF ScanDrain, ScanCollect, FindReapable, Ebbs
  <2> QED BY <1>3, <2>1, LaunchSame, Zenon DEF ScanDrain, ScanCollect, FindReapable
<1>4. CASE CloseDeferred
  <2>1. target[Gui] \in Processes
    BY <1>4, HasTarget, Zenon DEF CloseDeferred, Untargeted
  <2>2. Fades
    BY <1>4, <2>1, DeferredFacts, Zenon DEF CloseDeferred
  <2>3. LaunchFollows
    BY <1>0, <1>4, <2>2, GoLaunch, Zenon DEF CloseDeferred, Done, Ebbs, Fades
  <2> QED BY <1>4, <2>3, LaunchSame, Zenon DEF CloseDeferred
<1> QED BY <1>1, <1>2, <1>3, <1>4, Zenon DEF Reaping, GuiStep
-----------------------------------------------------------------------------
(***************************************************************************)
(* Exit statuses.                                                          *)
(***************************************************************************)
(* No thread comes to life, and one in kill_proc stays on its CPU. *)
Slows ==
    /\ Ebbs
    /\ \A t \in Tasks : phase[t] \in {"live", "dying"} /\ at[t] \in {"mark", "zombie"} =>
         phase'[t] \in {"live", "dying"}

(* What is settled behind the step. *)
SettledThen(p) == reports'[p] > 0 \/ parent'[p] = Kernel

(* What changes in the processes, and is allowed to. *)
SettlesOnly ==
    /\ allocated' \subseteq allocated
    /\ \A q \in Processes : Settled(q) => SettledThen(q)
    /\ \A q \in allocated : cleanup'[q] \in {3, 5} => cleanup[q] \in {3, 5} \/ Settled(q)
    /\ \A q \in allocated : status'[q] = "DEATH" => status[q] = "DEATH" \/ SettledThen(q)

(* One actor moves. *)
LEMMA SettledGo ==
    ASSUME FieldTypes, PlacesInv, SettledInv, SettlesOnly, Slows,
           NEW a \in Actors, NEW l, NEW p, Go(a, l, p),
           at[a] \in {"mark", "zombie"} => l \in {"mark", "zombie"},
           l \in Preparing \cup {"compete", "yield"} => SettledThen(p)
    PROVE  SettledInv'
<1>1. \A b \in Actors : at'[b] = (IF b = a THEN l ELSE at[b])
                        /\ target'[b] = (IF b = a THEN p ELSE target[b])
  BY Zenon DEF Go, PlacesInv
<1>2. \A b \in Actors : at[b] \in Preparing \cup {"compete", "yield"} => target[b] \in Processes
  BY HasTarget, Zenon DEF Preparing, Untargeted
<1>3. \A q \in allocated' : cleanup'[q] \in {3, 5} => SettledThen(q)
  BY Zenon DEF SettlesOnly, SettledInv, FieldTypes
<1>4. ASSUME NEW b \in Actors, at'[b] \in Preparing PROVE SettledThen(target'[b])
  BY <1>1, <1>2, <1>4, Zenon DEF SettledInv, SettlesOnly
<1>5. ASSUME NEW b \in Actors, Alive(b)', at'[b] \in {"compete", "yield"} PROVE SettledThen(target'[b])
  BY <1>1, <1>2, <1>5, Zenon DEF SettledInv, SettlesOnly, Alive, Executing, Slows, Ebbs
<1>6. ASSUME NEW q \in allocated', status'[q] = "DEATH"
      PROVE  SettledThen(q) \/ \E t \in Members(q) : phase'[t] \in {"live", "dying"}
                                                     /\ at'[t] \in {"mark", "zombie"}
  <2>1. q \in allocated /\ q \in Processes /\ (status[q] = "DEATH" \/ SettledThen(q))
    BY <1>6, Zenon DEF SettlesOnly, FieldTypes
  <2>2. Settled(q) \/ SettledThen(q) \/ \E t \in Members(q) : Executing(t) /\ at[t] \in {"mark", "zombie"}
    BY <2>1, Zenon DEF SettledInv, Dies
  <2>3. \A t \in Members(q) : Executing(t) /\ at[t] \in {"mark", "zombie"} =>
           phase'[t] \in {"live", "dying"} /\ at'[t] \in {"mark", "zombie"}
    BY <1>1, ActorsAre, Zenon DEF Slows, Executing, Members
  <2> QED BY <2>1, <2>2, <2>3, Zenon DEF SettlesOnly
<1> QED BY <1>3, <1>4, <1>5, <1>6, Zenon DEF SettledInv, Settled, SettledThen, Dies, Executing

(* Nobody moves. *)
LEMMA SettledStay ==
    ASSUME FieldTypes, PlacesInv, SettledInv, SettlesOnly, Slows, UNCHANGED <<at, target>>
    PROVE  SettledInv'
<1>2. \A b \in Actors : at[b] \in Preparing \cup {"compete", "yield"} => target[b] \in Processes
  BY HasTarget, Zenon DEF Preparing, Untargeted
<1>3. \A q \in allocated' : cleanup'[q] \in {3, 5} => SettledThen(q)
  BY Zenon DEF SettlesOnly, SettledInv, FieldTypes
<1>4. ASSUME NEW b \in Actors, at'[b] \in Preparing PROVE SettledThen(target'[b])
  BY <1>2, <1>4, Zenon DEF SettledInv, SettlesOnly
<1>5. ASSUME NEW b \in Actors, Alive(b)', at'[b] \in {"compete", "yield"} PROVE SettledThen(target'[b])
  BY <1>2, <1>5, Zenon DEF SettledInv, SettlesOnly, Alive, Executing, Slows, Ebbs
<1>6. ASSUME NEW q \in allocated', status'[q] = "DEATH"
      PROVE  SettledThen(q) \/ \E t \in Members(q) : phase'[t] \in {"live", "dying"}
                                                     /\ at'[t] \in {"mark", "zombie"}
  <2>1. q \in allocated /\ q \in Processes /\ (status[q] = "DEATH" \/ SettledThen(q))
    BY <1>6, Zenon DEF SettlesOnly, FieldTypes
  <2>2. Settled(q) \/ SettledThen(q) \/ \E t \in Members(q) : Executing(t) /\ at[t] \in {"mark", "zombie"}
    BY <2>1, Zenon DEF SettledInv, Dies
  <2>3. \A t \in Members(q) : Executing(t) /\ at[t] \in {"mark", "zombie"} =>
           phase'[t] \in {"live", "dying"} /\ at'[t] \in {"mark", "zombie"}
    BY Zenon DEF Slows, Executing, Members
  <2> QED BY <2>1, <2>2, <2>3, Zenon DEF SettlesOnly
<1> QED BY <1>3, <1>4, <1>5, <1>6, Zenon DEF SettledInv, Settled, SettledThen, Dies, Executing

(* Fading threads slow down. *)
LEMMA FadesSlow == ASSUME Fades PROVE Slows
BY Zenon DEF Fades, Slows, Ebbs

(* Nothing of it changes in the processes. *)
LEMMA SettlesNothing ==
    ASSUME UNCHANGED <<cleanup, parent, allocated, reports>>,
           \A q \in allocated : status'[q] = "DEATH" => status[q] = "DEATH"
    PROVE  SettlesOnly
BY Zenon DEF SettlesOnly, Settled, SettledThen

(* Processes are adopted. *)
LEMMA SettlesAdopts ==
    ASSUME FieldTypes, Adopts, UNCHANGED <<cleanup, allocated, reports>>
    PROVE  SettlesOnly
BY Zenon DEF SettlesOnly, Settled, SettledThen, Adopts, FieldTypes

(* fd_cleanup_state changes for a process that is settled, or says nothing. *)
LEMMA SettlesCleanup ==
    ASSUME FieldTypes, NEW p \in Processes, NEW n, cleanup' = [cleanup EXCEPT ![p] = n],
           n \notin {3, 5} \/ Settled(p), UNCHANGED <<status, parent, allocated, reports>>
    PROVE  SettlesOnly
<1>1. \A q \in Processes : cleanup'[q] = IF q = p THEN n ELSE cleanup[q]
  BY Zenon DEF FieldTypes
<1> QED BY <1>1, Zenon DEF SettlesOnly, Settled, SettledThen, FieldTypes


(* Statuses are kept when a thread steps ... *)
LEMMA SettledTask ==
    ASSUME FieldTypes, PlacesInv, OwnInv, QuietInv, ClaimInv, LaunchInv, SettledInv, NEW t \in Tasks,
           Call(t) \/ Alone(t) \/ Switch(t) \/ CloseWindow(t)
    PROVE  SettledInv'
<1> USE ActorsAre DEF At, pcbVars, listVars, pinVars, histVars
<1>0. /\ \A l \in {"user", "exiting", "status", "mark", "zombie", "exited", "create", "created", "load",
                   "release", "wait", "claimed", "close"} : l \notin Preparing \cup {"compete", "yield"}
      /\ at[Gui] \notin {"mark", "zombie"}
  BY Zenon DEF Preparing, PlacesInv, GuiPlaces
<1>1. CASE SysExit(t) \/ ExitGroup(t) \/ Acquire(t) \/ WaitEnter(t) \/ WaitNoChild(t)
  <2>1. SettlesOnly /\ Slows
    BY <1>1, SettlesNothing, PhaseStays, FadesSlow, Zenon
       DEF SysExit, ExitGroup, Acquire, WaitEnter, WaitNoChild
  <2> QED BY <1>0, <1>1, <2>1, SettledGo, Zenon
             DEF SysExit, ExitGroup, Acquire, WaitEnter, WaitNoChild, Done
<1>2. CASE KillSelf(t)
  <2>1. SettlesOnly
    BY <1>2, SettlesNothing, Zenon DEF KillSelf
  <2>2. Slows
    BY <1>2, Zenon DEF KillSelf, Slows, Ebbs, FieldTypes, Executing
  <2> QED BY <1>0, <1>2, <2>1, <2>2, SettledGo, Zenon DEF KillSelf
<1>3. CASE KillMark(t) \/ CloseWindow(t)
  <2>1. SettlesOnly
    BY <1>3, SettlesNothing, Zenon DEF KillMark, CloseWindow
  <2>2. Slows
    BY <1>3, MarkFades, FadesSlow, Zenon DEF KillMark, CloseWindow, Members
  <2> QED BY <1>0, <1>3, <2>1, <2>2, SettledGo, Zenon DEF KillMark, CloseWindow
<1>4. CASE Switch(t)
  <2>1. SettlesOnly
    BY <1>4, SettlesNothing, Zenon DEF Switch
  <2>2. Slows
    BY <1>4, Zenon DEF Switch, Stop, Slows, Ebbs, FieldTypes, IrqOff
  <2> QED BY <1>4, <2>1, <2>2, SettledStay, Zenon DEF Switch
<1>5. CASE Release(t) \/ ReleaseParent(t)
  <2>1. SettlesOnly /\ Slows
    BY <1>5, SettlesNothing, PhaseStays, FadesSlow, Zenon DEF Release, ReleaseParent
  <2> QED BY <1>0, <1>5, <2>1, SettledGo, Zenon DEF Release, ReleaseParent, Done
<1>6. CASE LaunchFails(t)
  <2>1. target[t] \in Processes
    BY <1>6, HasTarget, Zenon DEF LaunchFails, Untargeted
  <2>2. Slows /\ Adopts
    BY <1>6, <2>1, DeferredFacts, FadesSlow, Zenon DEF LaunchFails
  <2>3. SettlesOnly
    BY <1>6, <2>2, SettlesAdopts, Zenon DEF LaunchFails
  <2> QED BY <1>0, <1>6, <2>2, <2>3, SettledGo, Zenon DEF LaunchFails
<1>7. ASSUME NEW c \in Processes, FindZombie(t, c) PROVE SettledInv'
  <2>1. SettlesOnly /\ Slows
    BY <1>7, SettlesNothing, PhaseStays, FadesSlow, Zenon DEF FindZombie, SetStatus, FieldTypes
  <2> QED BY <1>0, <1>7, <2>1, SettledGo, Zenon DEF FindZombie
<1>8. CASE CopyFails(t)
  <2>1. SettlesOnly /\ Slows
    BY <1>8, SettlesNothing, PhaseStays, FadesSlow, Zenon DEF CopyFails, SetStatus, FieldTypes
  <2> QED BY <1>0, <1>8, <2>1, SettledGo, Zenon DEF CopyFails, Done
<1>9. CASE KillStatus(t) \/ KillZombie(t)
  <2> DEFINE p == ProcessOf[t]
  <2>1. UNCHANGED <<phase, cleanup, parent, allocated, reports>>
    BY <1>9, Zenon DEF KillStatus, KillZombie
  <2>2. \A q \in Processes \ {p} : status'[q] = status[q]
    BY <1>9, Zenon DEF KillStatus, KillZombie, SetStatus, FieldTypes
  <2>3. \E l \in {"mark", "exited"} : /\ \A b \in Actors : at'[b] = IF b = t THEN l ELSE at[b]
                                      /\ \A b \in Actors : b # t => target'[b] = target[b]
                                      /\ status'[p] = "DEATH" => l = "mark"
    BY <1>9, ZenonT(40) DEF KillStatus, KillZombie, SetStatus, Go, PlacesInv, FieldTypes
  <2>4. \A q \in allocated' : cleanup'[q] \in {3, 5} => Settled(q)'
    BY <2>1, Zenon DEF SettledInv, Settled, SettledThen
  <2>5. \A b \in Actors : at'[b] \in Preparing => SettledThen(target'[b])
    <3> SUFFICES ASSUME NEW b \in Actors, at'[b] \in Preparing PROVE SettledThen(target'[b])
      BY Zenon
    <3>1. at[b] \in Preparing /\ target'[b] = target[b]
      BY <1>0, <2>3, Zenon
    <3> QED BY <2>1, <3>1, Zenon DEF SettledInv, Settled, SettledThen
  <2>6. \A b \in Actors : Alive(b)' /\ at'[b] \in {"compete", "yield"} => SettledThen(target'[b])
    BY <1>0, <2>1, <2>3, Zenon DEF SettledInv, Settled, SettledThen, Alive, Executing
  <2>7. ASSUME NEW q \in allocated', status'[q] = "DEATH" PROVE Settled(q)' \/ Dies(q)'
    <3>1. CASE q = p
      <4>1. at'[t] = "mark" /\ t \in Members(q) /\ phase'[t] \in {"live", "dying"}
        BY <1>9, <2>1, <2>3, <2>7, <3>1, ZenonT(40) DEF Members, KillStatus, KillZombie, Executing
      <4> QED BY <4>1, Zenon DEF Dies, Executing
    <3>2. CASE q # p
      <4>1. status[q] = "DEATH" /\ q \in allocated
        BY <2>1, <2>2, <2>7, <3>2, Zenon DEF FieldTypes
      <4>2. \A u \in Members(q) : u # t /\ u \in Actors
        BY <3>2, Zenon DEF Members
      <4> QED BY <2>1, <2>3, <4>1, <4>2 DEF SettledInv, Settled, SettledThen, Dies, Executing
    <3> QED BY <3>1, <3>2, Zenon
  <2> QED BY <2>4, <2>5, <2>6, <2>7, Zenon DEF SettledInv, Settled, SettledThen
<1>10. CASE Publish(t)
  <2> DEFINE c == target[t]
  <2>1. UNCHANGED <<cleanup, parent, status, allocated, reports>> /\ status[c] # "DEATH"
    BY <1>10, Zenon DEF Publish, Terminal
  <2>2. \A b \in Actors : b \in Members(c) => at'[b] = "user"
    BY <1>10, Zenon DEF Publish
  <2>3. \A b \in Actors : b \notin Members(c) =>
           (at'[b] = at[b] \/ (b = t /\ at'[b] = "release")) /\ target'[b] = target[b]
    BY <1>10, Zenon DEF Publish
  <2>4. \A b \in Tasks : b \notin Members(c) => phase'[b] = phase[b]
    BY <1>10, Zenon DEF Publish
  <2>5. \A q \in allocated' : cleanup'[q] \in {3, 5} => Settled(q)'
    BY <2>1, ZenonT(40) DEF SettledInv, Settled, SettledThen
  <2>6. \A b \in Actors : at'[b] \in Preparing => SettledThen(target'[b])
    BY <1>0, <2>1, <2>2, <2>3 DEF SettledInv, Settled, SettledThen
  <2>7. \A b \in Actors : Alive(b)' /\ at'[b] \in {"compete", "yield"} => SettledThen(target'[b])
    BY <1>0, <2>1, <2>2, <2>3, <2>4 DEF SettledInv, Settled, SettledThen, Alive, Executing
  <2>8. ASSUME NEW q \in allocated', status'[q] = "DEATH" PROVE Settled(q)' \/ Dies(q)'
    <3>1. status[q] = "DEATH" /\ q \in allocated /\ q # c
      BY <2>1, <2>8, Zenon
    <3>2. \A u \in Members(q) : u \notin Members(c) /\ u \in Actors /\ u \in Tasks
      BY <3>1, Zenon DEF Members
    <3>3. at[t] = "load"
      BY <1>10, Zenon DEF Publish
    <3> QED BY <2>1, <2>3, <2>4, <3>1, <3>2, <3>3
               DEF SettledInv, Settled, SettledThen, Dies, Executing
  <2> QED BY <2>5, <2>6, <2>7, <2>8, Zenon DEF SettledInv, Settled, SettledThen
<1>11. ASSUME NEW c \in Processes, Create(t, c) PROVE SettledInv'
  <2>1. /\ \A q \in Processes \ {c} : /\ cleanup'[q] = cleanup[q] /\ status'[q] = status[q]
                                      /\ parent'[q] = parent[q] /\ reports'[q] = reports[q]
        /\ cleanup'[c] = 0 /\ status'[c] = "START"
    BY <1>11, Zenon DEF Create, FieldTypes
  <2>2. phase' = phase /\ allocated' = allocated \cup {c} /\ c \notin allocated /\ c \notin listed
        /\ at[t] = "create"
    BY <1>11, Zenon DEF Create, FieldTypes
  <2>3. \A b \in Actors : /\ at'[b] = (IF b = t THEN "created" ELSE at[b])
                          /\ target'[b] = (IF b = t THEN c ELSE target[b])
    BY <1>11, Zenon DEF Create, Go, PlacesInv
  <2>4. \A q \in allocated' : cleanup'[q] \in {3, 5} => Settled(q)'
    BY <2>1, <2>2, SMTT(30) DEF SettledInv, Settled, SettledThen, FieldTypes
  <2>5. ASSUME NEW b \in Actors, at'[b] \in Preparing PROVE SettledThen(target'[b])
    <3>1. at[b] \in Preparing /\ target'[b] = target[b]
      BY <1>0, <2>3, <2>5, Zenon
    <3>2. target[b] \in allocated
      BY <3>1, ZenonT(40) DEF OwnInv, Holding
    <3>3. Settled(target[b])
      BY <3>1, Zenon DEF SettledInv
    <3>4. target[b] \in Processes \ {c}
      BY <2>2, <3>2, Zenon DEF FieldTypes
    <3>5. parent'[target[b]] = parent[target[b]] /\ reports'[target[b]] = reports[target[b]]
      BY <2>1, <3>4, Zenon
    <3> QED BY <3>1, <3>3, <3>5, Zenon DEF Settled, SettledThen
  <2>6. ASSUME NEW b \in Actors, Alive(b)', at'[b] \in {"compete", "yield"} PROVE SettledThen(target'[b])
    <3>1. Alive(b) /\ at[b] \in {"compete", "yield"} /\ target'[b] = target[b]
      BY <1>0, <2>2, <2>3, <2>6, Zenon DEF Alive, Executing
    <3>2. target[b] \in listed
      BY <3>1, ZenonT(40) DEF ClaimInv, Claiming
    <3> QED BY <2>1, <2>2, <3>1, <3>2 DEF SettledInv, Settled, SettledThen, FieldTypes
  <2>7. ASSUME NEW q \in allocated', status'[q] = "DEATH" PROVE Settled(q)' \/ Dies(q)'
    <3>1. status[q] = "DEATH" /\ q \in allocated /\ q \in Processes \ {c}
      BY <2>1, <2>2, <2>7, Zenon DEF FieldTypes
    <3>2. \A u \in Members(q) : u \in Actors
      BY Zenon DEF Members
    <3> QED BY <2>1, <2>2, <2>3, <3>1, <3>2 DEF SettledInv, Settled, SettledThen, Dies, Executing
  <2> QED BY <2>4, <2>5, <2>6, <2>7, Zenon DEF SettledInv, Settled, SettledThen
<1> QED BY <1>1, <1>2, <1>3, <1>4, <1>5, <1>6, <1>7, <1>8, <1>9, <1>10, <1>11 DEF Call, Alone


(* ... when somebody is in process_complete_wait ... *)
LEMMA SettledCollector ==
    ASSUME FieldTypes, PlacesInv, OwnInv, QuietInv, ClaimInv, SettledInv,
           NEW a \in Tasks \cup {Reaper}, Collector(a)
    PROVE  SettledInv'
<1> USE ActorsAre DEF At, pcbVars, listVars, pinVars, histVars
<1>0. a \in Actors
  BY Zenon
<1>00. /\ \A l \in {"user", "claims", "find", "collect", "redo", "threads", "free"} :
            l \notin Preparing \cup {"compete", "yield"}
       /\ "user" \notin {"mark", "zombie"} /\ "find" \notin {"mark", "zombie"}
       /\ "take" \in Preparing /\ "check" \in Preparing /\ "defer" \in Preparing /\ "undo" \in Preparing
       /\ IF a = Reaper THEN next \notin Preparing \cup {"compete", "yield"} ELSE TRUE
  BY Zenon DEF Preparing, PlacesInv
<1>1. CASE ClaimStatus(a)
  <2> DEFINE p == target[a]
  <2>1. p \in listed /\ p \in Processes /\ (a \notin Tasks => parent[p] = Kernel)
    BY <1>0, <1>1, Zenon DEF ClaimStatus, ClaimInv, Claiming, Alive, FieldTypes
  <2>2. \A q \in Processes : reports'[q] = IF q = p /\ a \in Tasks THEN reports[q] + 1 ELSE reports[q]
    BY <1>1, <2>1, Zenon DEF ClaimStatus, FieldTypes
  <2>3. \A q \in Processes : status'[q] = IF q = p THEN "DEATH" ELSE status[q]
    BY <1>1, <2>1, Zenon DEF ClaimStatus, SetStatus, FieldTypes
  <2>4. UNCHANGED <<cleanup, parent, allocated, phase>>
    BY <1>1, Zenon DEF ClaimStatus
  <2>5. \A q \in Processes : reports[q] \in Nat
    BY Zenon DEF FieldTypes
  <2>6. SettledThen(p) /\ \A q \in Processes : Settled(q) => SettledThen(q)
    BY <2>1, <2>2, <2>4, <2>5 DEF Settled, SettledThen
  <2>7. SettlesOnly
    BY <2>3, <2>4, <2>6, Zenon DEF SettlesOnly, FieldTypes
  <2>8. Slows
    BY <2>4, PhaseStays, FadesSlow, Zenon
  <2> QED BY <1>0, <1>1, <2>6, <2>7, <2>8, SettledGo, Zenon DEF ClaimStatus
<1>2. CASE Compete(a)
  <2> DEFINE p == target[a]
  <2>1. p \in Processes /\ Settled(p)
    BY <1>0, <1>2, HasTarget, Zenon DEF Compete, Untargeted, SettledInv, Alive
  <2>2. Slows /\ UNCHANGED <<status, parent, allocated, reports>>
    BY <1>2, PhaseStays, FadesSlow, Zenon DEF Compete
  <2>3. \/ cleanup' = cleanup /\ Go(a, "yield", p)
        \/ cleanup' = [cleanup EXCEPT ![p] = 5] /\ Go(a, "yield", p)
        \/ cleanup' = [cleanup EXCEPT ![p] = 4] /\ Go(a, "take", p)
    BY <1>2, Zenon DEF Compete, SetCleanup
  <2>4. SettlesOnly
    BY <2>1, <2>2, <2>3, SettlesNothing, SettlesCleanup, Zenon
  <2>5. SettledThen(p) /\ at[a] = "compete"
    BY <1>2, <2>1, <2>2, Zenon DEF Settled, SettledThen, Compete
  <2> QED BY <1>0, <2>2, <2>3, <2>4, <2>5, SettledGo, Zenon
<1>3. CASE Transfer(a)
  <2> DEFINE p == target[a]
  <2>1. at[a] = "take" => Settled(p)
    BY <1>0, <1>00, Zenon DEF SettledInv
  <2>2. Slows /\ SettlesOnly
    BY <1>3, PhaseStays, FadesSlow, SettlesNothing, Zenon DEF Transfer
  <2>3. at[a] = "take" => SettledThen(p)
    BY <1>3, <2>1, Zenon DEF Settled, SettledThen, Transfer
  <2>4. CASE at[a] = "yield"
    <3>1. \E l \in {"user", "find", "claims"} : Go(a, l, NULL)
      BY <1>3, <2>4, Zenon DEF Transfer, Done, PlacesInv
    <3> QED BY <1>0, <1>00, <2>2, <2>4, <3>1, SettledGo, Zenon
  <2>5. CASE at[a] = "take"
    <3>1. Go(a, "check", p)
      BY <1>3, <2>5, Zenon DEF Transfer
    <3> QED BY <1>0, <2>2, <2>3, <2>5, <3>1, SettledGo, Zenon
  <2> QED BY <1>3, <2>4, <2>5, Zenon DEF Transfer
<1>4. CASE Check(a)
  <2> DEFINE p == target[a]
  <2>1. p \in Processes /\ Settled(p) /\ at[a] = "check"
    BY <1>0, <1>00, <1>4, HasTarget, Zenon DEF Check, Untargeted, SettledInv
  <2>2. Slows /\ UNCHANGED <<status, parent, allocated, reports>>
    BY <1>4, PhaseStays, FadesSlow, Zenon DEF Check
  <2>3. \/ cleanup' = cleanup /\ Go(a, "defer", p)
        \/ cleanup' = [cleanup EXCEPT ![p] = 3] /\ Go(a, "collect", p)
    BY <1>4, Zenon DEF Check, SetCleanup
  <2>4. SettlesOnly
    BY <2>1, <2>2, <2>3, SettlesNothing, SettlesCleanup, Zenon
  <2>5. SettledThen(p)
    BY <2>1, <2>2, Zenon DEF Settled, SettledThen
  <2> QED BY <1>0, <2>1, <2>2, <2>3, <2>4, <2>5, SettledGo, Zenon
<1>5. CASE Defer(a)
  <2> DEFINE p == target[a]
  <2>1. p \in Processes /\ Settled(p) /\ at[a] = "defer"
    BY <1>0, <1>00, <1>5, HasTarget, Zenon DEF Defer, Untargeted, SettledInv
  <2>2. Slows /\ Adopts
    BY <1>5, <2>1, DeferredFacts, FadesSlow, Zenon DEF Defer
  <2>3. SettlesOnly
    BY <1>5, <2>2, SettlesAdopts, Zenon DEF Defer
  <2>4. SettledThen(p)
    BY <2>1, <2>3, Zenon DEF SettlesOnly
  <2> QED BY <1>0, <1>5, <2>1, <2>2, <2>3, <2>4, SettledGo, Zenon DEF Defer
<1>6. CASE Undo(a) \/ Redo(a)
  <2>1. target[a] \in Processes /\ at[a] \notin {"mark", "zombie"}
    BY <1>0, <1>6, HasTarget, Zenon DEF Undo, Redo, Untargeted
  <2>2. Slows /\ UNCHANGED <<status, parent, allocated, reports>>
    BY <1>6, PhaseStays, FadesSlow, ZenonT(40) DEF Undo, Redo
  <2>3. PICK n : cleanup' = [cleanup EXCEPT ![target[a]] = n] /\ n \notin {3, 5}
    BY <1>6 DEF Undo, Redo, SetCleanup
  <2>4. SettlesOnly
    BY <2>1, <2>2, <2>3, SettlesCleanup, Zenon
  <2>5. \E l \in {"user", "find", "claims"} : Go(a, l, NULL)
    BY <1>6, Zenon DEF Undo, Redo, Done, PlacesInv
  <2> QED BY <1>0, <1>00, <2>1, <2>2, <2>4, <2>5, SettledGo, Zenon
<1>7. CASE Detach(a)
  <2>1. Slows /\ UNCHANGED <<cleanup, allocated, reports>>
    BY <1>7, PhaseStays, FadesSlow, ZenonT(40) DEF Detach
  <2>2. Adopts
    BY <1>7, SMTT(30) DEF Detach, Adopts, FieldTypes, Children
  <2>3. SettlesOnly
    BY <2>1, <2>2, SettlesAdopts, Zenon
  <2>4. at[a] = "collect" /\ \E l \in {"redo", "threads"} : Go(a, l, target[a])
    BY <1>7, Zenon DEF Detach
  <2> QED BY <1>0, <1>00, <2>1, <2>3, <2>4, SettledGo, Zenon
<1>8. CASE Threads(a)
  <2>1. Slows /\ UNCHANGED <<cleanup, parent, allocated, reports>>
    BY <1>8, PhaseStays, FadesSlow, Zenon DEF Threads
  <2>2. \A q \in allocated : status'[q] = "DEATH" => status[q] = "DEATH"
    BY <1>8, Zenon DEF Threads, ReleaseClaims, FieldTypes
  <2>3. SettlesOnly
    BY <2>1, <2>2, SettlesNothing, Zenon
  <2> QED BY <1>0, <1>00, <1>8, <2>1, <2>3, SettledGo, Zenon DEF Threads
<1>9. CASE FreeProcess(a)
  <2>1. Slows
    BY <1>9, Zenon DEF FreeProcess, Slows, Ebbs, Executing, FieldTypes
  <2>2. SettlesOnly
    BY <1>9, Zenon DEF FreeProcess, SettlesOnly, Settled, SettledThen
  <2>3. at[a] = "free" /\ \E l \in {"user", "find", "claims"} : Go(a, l, NULL)
    BY <1>9, Zenon DEF FreeProcess, Done, PlacesInv
  <2> QED BY <1>0, <1>00, <2>1, <2>2, <2>3, SettledGo, Zenon
<1>10. ASSUME NEW p \in Processes, ThreadsAbandon(a, p) PROVE SettledInv'
  <2>1. Slows /\ Adopts /\ Abandon(p)
    BY <1>10, AbandonFacts, FadesSlow, Zenon DEF ThreadsAbandon
  <2>2. SettlesOnly
    BY <2>1, SettlesAdopts, Zenon DEF Abandon
  <2> QED BY <1>10, <2>1, <2>2, SettledStay, Zenon DEF ThreadsAbandon
<1> QED BY <1>1, <1>2, <1>3, <1>4, <1>5, <1>6, <1>7, <1>8, <1>9, <1>10 DEF Collector


(* ... and when the reaper or the GUI steps. *)
LEMMA SettledKernel ==
    ASSUME FieldTypes, PlacesInv, OwnInv, QuietInv, SettledInv, Reaping \/ GuiStep
    PROVE  SettledInv'
<1> USE ActorsAre DEF At, pcbVars, listVars, pinVars, histVars, reaperVars
<1>0. /\ \A l \in {"user", "sweep", "scan", "find", "claims", "claimed", "drain", "decide", "collect",
                   "last"} : l \notin Preparing \cup {"compete", "yield"}
      /\ at[Reaper] \notin {"mark", "zombie"} /\ at[Gui] \notin {"mark", "zombie"}
  BY Zenon
     DEF Preparing, PlacesInv, ReaperPlaces, GuiPlaces, Claiming, Holding, Draining, Collecting
<1>00. ASSUME NEW q \in allocated, status[q] = "DEATH", ~CurrentOnCpu(q)
       PROVE  Settled(q)
  BY <1>00, Zenon DEF SettledInv, Dies, CurrentOnCpu, Referenced
<1>1. CASE ReapClaims
  <2>1. Slows /\ UNCHANGED <<cleanup, parent, allocated, reports>>
    BY <1>1, PhaseStays, FadesSlow, Zenon DEF ReapClaims
  <2>2. \A q \in allocated : status'[q] = "DEATH" => status[q] = "DEATH"
    BY <1>1, Zenon DEF ReapClaims, ReleaseClaims, FieldTypes
  <2>3. SettlesOnly
    BY <2>1, <2>2, SettlesNothing, Zenon
  <2> QED BY <1>0, <1>1, <2>1, <2>3, SettledGo, Zenon DEF ReapClaims
<1>2. CASE ReapSwept \/ ScanNothing \/ DrainRead \/ FindNothing
  <2>1. Slows /\ SettlesOnly
    BY <1>2, PhaseStays, FadesSlow, SettlesNothing, Zenon
       DEF ReapSwept, ScanNothing, DrainRead, FindNothing
  <2> QED BY <1>0, <1>2, <2>1, SettledGo, Zenon DEF ReapSwept, ScanNothing, DrainRead, FindNothing
<1>3. CASE Decide
  <2> DEFINE p == target[Reaper]
  <2>1. p \in allocated /\ p \in Processes /\ cleanup[p] \in {1, 5}
    BY <1>3, Zenon DEF Decide, OwnInv, Holding, Draining, FieldTypes
  <2>2. Slows /\ UNCHANGED <<status, parent, allocated, reports>>
    BY <1>3, PhaseStays, FadesSlow, Zenon DEF Decide
  <2>3. \/ cleanup' = cleanup
        \/ cleanup' = [cleanup EXCEPT ![p] = 3] /\ (cleanup[p] = 5 \/ status[p] = "DEATH")
        \/ cleanup' = [cleanup EXCEPT ![p] = 2]
    BY <1>3, Zenon DEF Decide, SetCleanup
  <2>4. cleanup[p] = 5 \/ status[p] = "DEATH" => Settled(p)
    BY <1>00, <2>1, Zenon DEF SettledInv, QuietInv
  <2>5. SettlesOnly
    BY <2>1, <2>2, <2>3, <2>4, SettlesNothing, SettlesCleanup
  <2> QED BY <1>0, <1>3, <2>2, <2>5, SettledGo, Zenon DEF Decide
<1>4. ASSUME NEW p \in Processes, ReapAbandon(p) PROVE SettledInv'
  <2>1. Slows /\ Adopts /\ Abandon(p)
    BY <1>4, AbandonFacts, FadesSlow, Zenon DEF ReapAbandon
  <2>2. SettlesOnly
    BY <2>1, SettlesAdopts, Zenon DEF Abandon
  <2> QED BY <1>4, <2>1, <2>2, SettledStay, Zenon DEF ReapAbandon
<1>5. ASSUME NEW p \in Processes, ScanDrain(p) PROVE SettledInv'
  <2>1. Slows /\ UNCHANGED <<status, parent, allocated, reports>> /\ cleanup' = [cleanup EXCEPT ![p] = 1]
    BY <1>5, PhaseStays, FadesSlow, Zenon DEF ScanDrain, SetCleanup
  <2>2. 1 \notin {3, 5}
    OBVIOUS
  <2>3. SettlesOnly
    BY <2>1, <2>2, SettlesCleanup, Zenon
  <2> QED BY <1>0, <1>5, <2>1, <2>3, SettledGo, Zenon DEF ScanDrain
<1>6. ASSUME NEW p \in Processes, ScanCollect(p) PROVE SettledInv'
  <2>1. Slows /\ UNCHANGED <<status, parent, allocated, reports>> /\ cleanup' = [cleanup EXCEPT ![p] = 3]
    BY <1>6, PhaseStays, FadesSlow, Zenon DEF ScanCollect, SetCleanup
  <2>2. p \in allocated /\ status[p] = "DEATH" /\ ~CurrentOnCpu(p)
    BY <1>6, Zenon DEF ScanCollect, Collectable, Scannable, FieldTypes
  <2>3. SettlesOnly
    BY <1>00, <2>1, <2>2, SettlesCleanup, Zenon
  <2> QED BY <1>0, <1>6, <2>1, <2>3, SettledGo, Zenon DEF ScanCollect
<1>7. ASSUME NEW p \in Processes, FindReapable(p) PROVE SettledInv'
  <2>1. SettlesOnly /\ Slows
    BY <1>7, SettlesNothing, PhaseStays, FadesSlow, Zenon DEF FindReapable, SetStatus, FieldTypes
  <2> QED BY <1>0, <1>7, <2>1, SettledGo, Zenon DEF FindReapable
<1>8. CASE CloseCheck
  <2>1. SettlesOnly /\ Slows
    BY <1>8, SettlesNothing, PhaseStays, FadesSlow, Zenon DEF CloseCheck
  <2> QED BY <1>0, <1>8, <2>1, SettledGo, Zenon DEF CloseCheck, Done
<1>9. CASE CloseDeferred
  <2>1. target[Gui] \in Processes
    BY <1>9, HasTarget, Zenon DEF CloseDeferred, Untargeted
  <2>2. Slows /\ Adopts
    BY <1>9, <2>1, DeferredFacts, FadesSlow, Zenon DEF CloseDeferred
  <2>3. SettlesOnly
    BY <1>9, <2>2, SettlesAdopts, Zenon DEF CloseDeferred
  <2> QED BY <1>0, <1>9, <2>2, <2>3, SettledGo, Zenon DEF CloseDeferred, Done
<1> QED BY <1>1, <1>2, <1>3, <1>4, <1>5, <1>6, <1>7, <1>8, <1>9 DEF Reaping, GuiStep
-----------------------------------------------------------------------------
(***************************************************************************)
(* Freeing.                                                                *)
(***************************************************************************)
(* Only new processes come to the list. *)
ListFollows == \A q \in listed' : q \in listed \/ q \notin allocated

(* A claim or a pin is as it was, or goes, or a running thread has it. *)
NamesFollow ==
    \A c \in listed' :
        /\ \/ wait_owner'[c] \in {NULL, Reaper}
           \/ wait_owner'[c] \in Tasks /\ Executing(wait_owner'[c])
           \/ c \in listed /\ wait_owner'[c] = wait_owner[c]
        /\ \/ pin'[c] = NULL
           \/ pin'[c] \in Tasks /\ Executing(pin'[c])
           \/ c \in listed /\ pin'[c] = pin[c]

(* No thread is freed that runs or is named. *)
FreesUnnamed ==
    \A t \in Tasks : phase'[t] = "freed" =>
        \/ phase[t] = "freed"
        \/ ~Executing(t) /\ \A c \in listed : wait_owner[c] # t /\ pin[c] # t

(* Nothing names the threads of p behind the step. *)
Cleared(p) ==
    /\ p \notin listed' /\ target'[Gui] # p
    /\ \A c \in listed' : wait_owner'[c] \notin Members(p) /\ pin'[c] \notin Members(p)

(* Whoever frees threads did so before, or has just withdrawn the process,  *)
(* or has just cleared it.                                                  *)
FreesFollow ==
    \A b \in Actors : at'[b] \in {"threads", "free"} =>
        \/ at'[b] = at[b] /\ target'[b] = target[b]
        \/ at'[b] = "threads" /\ target'[b] \notin listed'
        \/ Cleared(target'[b])

(* The GUI works on a listed process, or on the same as before. *)
GuiFollows ==
    /\ target'[Gui] \in {target[Gui], NULL} \cup listed
    /\ target'[Gui] # NULL => target'[Gui] \in allocated'

(* The threads of a process about to be freed do not run. *)
LEMMA FreedQuiet ==
    ASSUME FieldTypes, PlacesInv, OwnInv, QuietInv, NEW a \in Actors, at[a] \in {"threads", "free"}
    PROVE  /\ target[a] \in allocated /\ target[a] \in Processes
           /\ \A t \in Members(target[a]) : ~Executing(t)
<1>1. target[a] \in allocated /\ cleanup[target[a]] = 3
  BY Zenon DEF OwnInv, Holding, Collecting
<1> QED BY <1>1, Zenon DEF QuietInv, CurrentOnCpu, Referenced, FieldTypes

(* So what frees a process keeps finding it alone. *)
LEMMA FreeKept ==
    ASSUME FieldTypes, PlacesInv, OwnInv, QuietInv, FreeInv,
           ListFollows, NamesFollow, FreesUnnamed, FreesFollow, GuiFollows
    PROVE  FreeInv'
<1>0. NULL \notin Tasks /\ NULL \notin Processes /\ Reaper \notin Tasks
  BY CollectionAssumption, ActorsAre, Zenon DEF Actors
<1>1. ASSUME NEW b \in Actors, at'[b] \in {"threads", "free"} PROVE target'[b] \notin listed'
  <2>1. CASE at'[b] = at[b] /\ target'[b] = target[b]
    BY <1>1, <2>1, FreedQuiet, Zenon DEF FreeInv, ListFollows
  <2> QED BY <1>1, <2>1, Zenon DEF FreesFollow, Cleared
<1>2. ASSUME NEW b \in Actors, at'[b] = "free", at[b] = "free", target'[b] = target[b]
      PROVE  Cleared(target'[b])
  <2> DEFINE p == target[b]
  <2>1. p \in allocated /\ p \in Processes /\ \A t \in Members(p) : ~Executing(t)
    BY <1>2, FreedQuiet, Zenon
  <2>2. p \notin listed /\ target[Gui] # p
        /\ \A c \in listed : wait_owner[c] \notin Members(p) /\ pin[c] \notin Members(p)
    BY <1>2, Zenon DEF FreeInv
  <2>3. target'[Gui] # p
    BY <1>0, <2>1, <2>2, Zenon DEF GuiFollows
  <2>4. \A t \in Members(p) : t \in Tasks
    BY Zenon DEF Members
  <2>5. \A c \in listed' : wait_owner'[c] \notin Members(p) /\ pin'[c] \notin Members(p)
    BY <1>0, <2>1, <2>2, <2>4, Zenon DEF NamesFollow
  <2> QED BY <1>1, <1>2, <2>3, <2>5, Zenon DEF Cleared
<1>3. ASSUME NEW b \in Actors, at'[b] = "free" PROVE Cleared(target'[b])
  BY <1>2, <1>3, Zenon DEF FreesFollow
<1>4. ASSUME NEW c \in listed', wait_owner'[c] \in Tasks PROVE phase'[wait_owner'[c]] # "freed"
  BY <1>0, <1>4 DEF NamesFollow, FreesUnnamed, FreeInv, NoFreedOwner, Executing
<1>5. ASSUME NEW c \in listed', pin'[c] # NULL PROVE phase'[pin'[c]] # "freed"
  <2>1. pin'[c] \in Tasks
    BY <1>5, Zenon DEF NamesFollow, FieldTypes
  <2> QED BY <1>5, <2>1 DEF NamesFollow, FreesUnnamed, FreeInv, NoFreedOwner, Executing
<1> QED BY <1>1, <1>3, <1>4, <1>5, Zenon DEF FreeInv, NoFreedOwner, Cleared, GuiFollows, Members

(* Claims and pins only go. *)
LEMMA NamesGo ==
    ASSUME listed' \subseteq listed,
           \A c \in listed : wait_owner'[c] \in {wait_owner[c], NULL} /\ pin'[c] \in {pin[c], NULL}
    PROVE  NamesFollow
BY Zenon DEF NamesFollow

(* An actor moves, not to free anything. *)
LEMMA FreeGo ==
    ASSUME FieldTypes, PlacesInv, OwnInv, QuietInv, FreeInv, Fades, NamesFollow,
           UNCHANGED <<listed, allocated>>, NEW a \in Actors, NEW l, NEW p, Go(a, l, p),
           l \notin {"threads", "free"}, a = Gui => p \in {target[Gui], NULL} \cup listed
    PROVE  FreeInv'
<1>1. \A b \in Actors : at'[b] = (IF b = a THEN l ELSE at[b])
                        /\ target'[b] = (IF b = a THEN p ELSE target[b])
  BY Zenon DEF Go, PlacesInv
<1>2. ListFollows /\ FreesUnnamed
  BY Zenon DEF ListFollows, FreesUnnamed, Fades
<1>3. FreesFollow
  BY <1>1, Zenon DEF FreesFollow
<1>4. GuiFollows
  BY <1>1, ActorsAre, Zenon DEF GuiFollows, FreeInv, FieldTypes
<1> QED BY <1>2, <1>3, <1>4, FreeKept, Zenon

(* Nobody moves. *)
LEMMA FreeStay ==
    ASSUME FieldTypes, PlacesInv, OwnInv, QuietInv, FreeInv, Fades, NamesFollow,
           UNCHANGED <<listed, allocated, at, target>>
    PROVE  FreeInv'
<1>1. ListFollows /\ FreesUnnamed /\ FreesFollow /\ GuiFollows
  BY Zenon DEF ListFollows, FreesUnnamed, Fades, FreesFollow, GuiFollows, FreeInv
<1> QED BY <1>1, FreeKept, Zenon


(* Nothing freed is named when a thread steps ... *)
LEMMA FreeTask ==
    ASSUME FieldTypes, PlacesInv, OwnInv, QuietInv, FreeInv, LaunchInv, NEW t \in Tasks,
           Call(t) \/ Alone(t) \/ Switch(t) \/ CloseWindow(t)
    PROVE  FreeInv'
<1> USE ActorsAre DEF At, pcbVars, listVars, pinVars, histVars
<1>0. \A l \in {"user", "exiting", "status", "mark", "zombie", "exited", "create", "created", "load",
                "release", "wait", "claimed", "close"} : l \notin {"threads", "free"}
  BY Zenon
<1>1. CASE SysExit(t) \/ ExitGroup(t) \/ WaitEnter(t) \/ WaitNoChild(t) \/ KillStatus(t) \/ KillZombie(t)
  <2>1. Fades /\ NamesFollow /\ UNCHANGED <<listed, allocated>>
    BY <1>1, PhaseStays, NamesGo, Zenon
       DEF SysExit, ExitGroup, WaitEnter, WaitNoChild, KillStatus, KillZombie
  <2>2. \E l \in {"user", "exiting", "status", "mark", "exited", "wait"} : Go(t, l, NULL)
    BY <1>1, Zenon DEF SysExit, ExitGroup, WaitEnter, WaitNoChild, KillStatus, KillZombie, Done
  <2> QED BY <1>0, <2>1, <2>2, FreeGo, Zenon
<1>2. CASE KillSelf(t)
  <2>1. Fades
    BY <1>2, Zenon DEF KillSelf, Fades, FieldTypes, Phases, Executing
  <2>2. NamesFollow /\ UNCHANGED <<listed, allocated>> /\ Go(t, "exited", NULL)
    BY <1>2, NamesGo, Zenon DEF KillSelf
  <2> QED BY <1>0, <2>1, <2>2, FreeGo, Zenon
<1>3. CASE KillMark(t) \/ CloseWindow(t)
  <2>1. Fades
    BY <1>3, MarkFades, Zenon DEF KillMark, CloseWindow, Members
  <2>2. NamesFollow /\ UNCHANGED <<listed, allocated>>
    BY <1>3, NamesGo, Zenon DEF KillMark, CloseWindow
  <2>3. Go(t, "zombie", NULL) \/ (Go(Gui, "close", ProcessOf[t]) /\ ProcessOf[t] \in listed)
    BY <1>3, Zenon DEF KillMark, CloseWindow
  <2> QED BY <1>0, <2>1, <2>2, <2>3, FreeGo, Zenon
<1>4. CASE Switch(t)
  <2>1. Fades
    BY <1>4, Zenon DEF Switch, Stop, Fades, FieldTypes, Phases, IrqOff
  <2> QED BY <1>4, <2>1, NamesGo, FreeStay, Zenon DEF Switch
<1>5. CASE Release(t) \/ ReleaseParent(t)
  <2>1. Fades /\ UNCHANGED <<listed, allocated, wait_owner>>
    BY <1>5, PhaseStays, Zenon DEF Release, ReleaseParent
  <2>2. \A c \in listed : pin'[c] \in {pin[c], NULL}
    BY <1>5, Zenon DEF Release, ReleaseParent, FieldTypes
  <2>3. \E l \in {"user", "load"}, p \in {NULL, target[t]} : Go(t, l, p)
    BY <1>5, Zenon DEF Release, ReleaseParent, Done
  <2>4. NamesFollow
    BY <2>1, <2>2, NamesGo, Zenon
  <2> QED BY <1>0, <2>1, <2>3, <2>4, FreeGo, Zenon
<1>6. CASE LaunchFails(t)
  <2>1. target[t] \in Processes
    BY <1>6, HasTarget, Zenon DEF LaunchFails, Untargeted
  <2>2. Fades
    BY <1>6, <2>1, DeferredFacts, Zenon DEF LaunchFails
  <2>3. NamesFollow /\ UNCHANGED <<listed, allocated>> /\ Go(t, "release", target[t])
    BY <1>6, NamesGo, Zenon DEF LaunchFails
  <2> QED BY <1>0, <2>2, <2>3, FreeGo, Zenon
<1>7. ASSUME NEW c \in Processes, FindZombie(t, c) PROVE FreeInv'
  <2>1. Fades /\ UNCHANGED <<listed, allocated, pin>> /\ Go(t, "claimed", c) /\ Executing(t)
    BY <1>7, PhaseStays, Zenon DEF FindZombie
  <2>2. \A q \in listed : wait_owner'[q] = IF q = c THEN t ELSE wait_owner[q]
    BY <1>7, Zenon DEF FindZombie, SetOwner, FieldTypes
  <2>3. NamesFollow
    BY <2>1, <2>2, Zenon DEF NamesFollow
  <2> QED BY <1>0, <2>1, <2>3, FreeGo, Zenon
<1>8. CASE CopyFails(t)
  <2>1. Fades /\ UNCHANGED <<listed, allocated, pin>> /\ Go(t, "user", NULL)
    BY <1>8, PhaseStays, Zenon DEF CopyFails, Done
  <2>2. \A q \in listed : wait_owner'[q] \in {wait_owner[q], NULL}
    BY <1>8, Zenon DEF CopyFails, SetOwner, FieldTypes
  <2>3. NamesFollow
    BY <2>1, <2>2, NamesGo, Zenon
  <2> QED BY <1>0, <2>1, <2>3, FreeGo, Zenon
<1>9. CASE Acquire(t)
  <2>1. Fades /\ UNCHANGED <<listed, allocated, wait_owner>> /\ Go(t, "create", NULL) /\ Executing(t)
    BY <1>9, PhaseStays, Zenon DEF Acquire
  <2>2. \A q \in listed : pin'[q] = IF q = ProcessOf[t] THEN t ELSE pin[q]
    BY <1>9, Zenon DEF Acquire, FieldTypes
  <2>3. NamesFollow
    BY <2>1, <2>2, Zenon DEF NamesFollow
  <2> QED BY <1>0, <2>1, <2>3, FreeGo, Zenon
<1>10. CASE Publish(t)
  <2>1. UNCHANGED <<listed, allocated, wait_owner, pin>> /\ at[t] = "load"
    BY <1>10, Zenon DEF Publish
  <2>2. \A b \in Actors : at'[b] \in {"threads", "free"} => at'[b] = at[b] /\ target'[b] = target[b]
    BY <1>10, Zenon DEF Publish
  <2>3. \A u \in Tasks : phase'[u] = "freed" => phase[u] = "freed"
    BY <1>10, Zenon DEF Publish
  <2>4. target'[Gui] = target[Gui]
    BY <1>10, Zenon DEF Publish, Members
  <2>5. NamesFollow /\ ListFollows
    BY <2>1, NamesGo, Zenon DEF ListFollows
  <2>6. FreesFollow /\ FreesUnnamed /\ GuiFollows
    BY <2>1, <2>2, <2>3, <2>4, Zenon DEF FreesFollow, FreesUnnamed, GuiFollows, FreeInv
  <2> QED BY <2>5, <2>6, FreeKept, Zenon
<1>11. ASSUME NEW c \in Processes, Create(t, c) PROVE FreeInv'
  <2>1. /\ phase' = phase /\ allocated' = allocated \cup {c} /\ listed' = listed \cup {c}
        /\ c \notin allocated /\ Executing(t) /\ Go(t, "created", c)
    BY <1>11, Zenon DEF Create
  <2>2. \A q \in Processes : /\ wait_owner'[q] = (IF q = c THEN NULL ELSE wait_owner[q])
                             /\ pin'[q] = (IF q = c THEN t ELSE pin[q])
    BY <1>11, Zenon DEF Create, FieldTypes
  <2>3. \A b \in Actors : /\ at'[b] = (IF b = t THEN "created" ELSE at[b])
                          /\ target'[b] = (IF b = t THEN c ELSE target[b])
    BY <2>1, Zenon DEF Go, PlacesInv
  <2>4. ListFollows /\ FreesUnnamed
    BY <2>1, Zenon DEF ListFollows, FreesUnnamed
  <2>5. NamesFollow
    BY <2>1, <2>2, Zenon DEF NamesFollow, FieldTypes
  <2>6. FreesFollow
    BY <2>3, Zenon DEF FreesFollow
  <2>7. GuiFollows
    BY <2>1, <2>3, Zenon DEF GuiFollows, FreeInv
  <2> QED BY <2>4, <2>5, <2>6, <2>7, FreeKept, Zenon
<1> QED BY <1>1, <1>2, <1>3, <1>4, <1>5, <1>6, <1>7, <1>8, <1>9, <1>10, <1>11, ZenonT(40)
           DEF Call, Alone


(* ... when somebody is in process_complete_wait ... *)
LEMMA FreeCollector ==
    ASSUME FieldTypes, PlacesInv, OwnInv, QuietInv, FreeInv, NEW a \in Tasks \cup {Reaper}, Collector(a)
    PROVE  FreeInv'
<1> USE ActorsAre DEF At, pcbVars, listVars, pinVars, histVars
<1>0. a \in Actors /\ a # Gui
  BY Zenon
<1>1. CASE ClaimStatus(a) \/ Compete(a) \/ Check(a) \/ Undo(a) \/ Redo(a)
  <2>1. Fades /\ NamesFollow /\ UNCHANGED <<listed, allocated>>
    BY <1>1, PhaseStays, NamesGo, Zenon DEF ClaimStatus, Compete, Check, Undo, Redo
  <2>2. \E l \in {"compete", "yield", "take", "defer", "collect", "user", "find", "claims"},
           p \in {NULL, target[a]} : Go(a, l, p)
    BY <1>1, Zenon DEF ClaimStatus, Compete, Check, Undo, Redo, Done, PlacesInv
  <2> QED BY <1>0, <2>1, <2>2, FreeGo, Zenon
<1>2. CASE Transfer(a)
  <2>1. Fades /\ UNCHANGED <<listed, allocated, pin>>
    BY <1>2, PhaseStays, Zenon DEF Transfer
  <2>2. \A q \in listed : wait_owner'[q] \in {wait_owner[q], NULL}
    BY <1>2, Zenon DEF Transfer, SetOwner, FieldTypes
  <2>3. NamesFollow
    BY <2>1, <2>2, NamesGo, Zenon
  <2>4. \E l \in {"check", "user", "find", "claims"}, p \in {NULL, target[a]} : Go(a, l, p)
    BY <1>2, Zenon DEF Transfer, Done, PlacesInv
  <2> QED BY <1>0, <2>1, <2>3, <2>4, FreeGo, Zenon
<1>3. CASE Defer(a)
  <2>1. target[a] \in Processes
    BY <1>0, <1>3, HasTarget, Zenon DEF Defer, Untargeted
  <2>2. Fades
    BY <1>3, <2>1, DeferredFacts, Zenon DEF Defer
  <2>3. NamesFollow /\ UNCHANGED <<listed, allocated>> /\ Go(a, "undo", target[a])
    BY <1>3, NamesGo, Zenon DEF Defer
  <2> QED BY <1>0, <2>2, <2>3, FreeGo
<1>4. CASE Detach(a)
  <2> DEFINE p == target[a]
  <2>1. Fades /\ UNCHANGED <<allocated, pin>>
    BY <1>4, PhaseStays, Zenon DEF Detach
  <2>2. \A q \in listed : wait_owner'[q] \in {wait_owner[q], NULL}
    BY <1>4, Zenon DEF Detach, FieldTypes
  <2>3. listed' \subseteq listed
    BY <1>4, Zenon DEF Detach
  <2>4. Go(a, "redo", p) \/ (Go(a, "threads", p) /\ p \notin listed')
    BY <1>4, Zenon DEF Detach
  <2>5. \E l \in {"redo", "threads"} :
           /\ l = "threads" => p \notin listed'
           /\ \A b \in Actors : at'[b] = (IF b = a THEN l ELSE at[b]) /\ target'[b] = target[b]
    BY <1>0, <2>4 DEF Go, PlacesInv
  <2>6. NamesFollow /\ ListFollows /\ FreesUnnamed
    BY <2>1, <2>2, <2>3, NamesGo, Zenon DEF ListFollows, FreesUnnamed, Fades
  <2>7. FreesFollow
    BY <2>5, Zenon DEF FreesFollow
  <2>8. GuiFollows
    BY <2>1, <2>5, Zenon DEF GuiFollows, FreeInv
  <2> QED BY <2>6, <2>7, <2>8, FreeKept, Zenon
<1>5. CASE Threads(a)
  <2> DEFINE p == target[a]
  <2>1. Fades /\ UNCHANGED <<allocated, pin, listed>> /\ at[a] = "threads"
    BY <1>5, PhaseStays, Zenon DEF Threads
  <2>2. \A q \in listed : wait_owner'[q] = IF wait_owner[q] \in Members(p) THEN NULL ELSE wait_owner[q]
    BY <1>5, Zenon DEF Threads, ReleaseClaims, FieldTypes
  <2>3. \A b \in Actors : at'[b] = (IF b = a THEN "free" ELSE at[b]) /\ target'[b] = target[b]
    BY <1>0, <1>5, Zenon DEF Threads, Go, PlacesInv
  <2>4. NULL \notin Members(p)
    BY CollectionAssumption, Zenon DEF Members, Actors
  <2>5. p \notin listed
    BY <1>0, <2>1, Zenon DEF FreeInv
  <2>6. \A q \in listed : pin[q] \notin Members(p)
    BY <1>5, Zenon DEF Threads, FieldTypes
  <2>7. Cleared(p)
    BY <1>5, <2>1, <2>2, <2>3, <2>4, <2>5, <2>6, Zenon DEF Cleared, Threads
  <2>8. NamesFollow /\ ListFollows /\ FreesUnnamed
    BY <2>1, <2>2, NamesGo, Zenon DEF ListFollows, FreesUnnamed, Fades
  <2>9. FreesFollow
    BY <2>3, <2>7, Zenon DEF FreesFollow
  <2>10. GuiFollows
    BY <2>1, <2>3, Zenon DEF GuiFollows, FreeInv
  <2> QED BY <2>8, <2>9, <2>10, FreeKept, Zenon
<1>6. CASE FreeProcess(a)
  <2> DEFINE p == target[a]
  <2>1. UNCHANGED <<pin, listed, wait_owner>> /\ at[a] = "free" /\ allocated' = allocated \ {p}
    BY <1>6, Zenon DEF FreeProcess
  <2>2. \A u \in Tasks : phase'[u] = "freed" => phase[u] = "freed" \/ (u \in Members(p) /\ ~Executing(u))
    BY <1>6, Zenon DEF FreeProcess
  <2>3. target[Gui] # p /\ \A c \in listed : wait_owner[c] \notin Members(p) /\ pin[c] \notin Members(p)
    BY <1>0, <2>1, Zenon DEF FreeInv
  <2>4. \E l \in {"user", "find", "claims"} :
           /\ \A b \in Actors : at'[b] = (IF b = a THEN l ELSE at[b])
           /\ \A b \in Actors : target'[b] = (IF b = a THEN NULL ELSE target[b])
    BY <1>0, <1>6, Zenon DEF FreeProcess, Done, Go, PlacesInv
  <2>5. NamesFollow /\ ListFollows
    BY <2>1, NamesGo, Zenon DEF ListFollows
  <2>6. FreesUnnamed
    BY <2>2, <2>3, Zenon DEF FreesUnnamed
  <2>7. FreesFollow
    BY <2>4, Zenon DEF FreesFollow
  <2>8. GuiFollows
    BY <1>0, <2>1, <2>3, <2>4, Zenon DEF GuiFollows, FreeInv
  <2> QED BY <2>5, <2>6, <2>7, <2>8, FreeKept, Zenon
<1>7. ASSUME NEW p \in Processes, ThreadsAbandon(a, p) PROVE FreeInv'
  <2>1. Fades /\ Abandon(p)
    BY <1>7, AbandonFacts, Zenon DEF ThreadsAbandon
  <2>2. NamesFollow
    BY <2>1, NamesGo, Zenon DEF Abandon, FieldTypes
  <2> QED BY <1>7, <2>1, <2>2, FreeStay, Zenon DEF ThreadsAbandon, Abandon
<1> QED BY <1>1, <1>2, <1>3, <1>4, <1>5, <1>6, <1>7, Zenon DEF Collector

(* ... and when the reaper or the GUI steps. *)
LEMMA FreeKernel ==
    ASSUME FieldTypes, PlacesInv, OwnInv, QuietInv, FreeInv, Reaping \/ GuiStep
    PROVE  FreeInv'
<1> USE ActorsAre DEF At, pcbVars, listVars, pinVars, histVars, reaperVars
<1>1. CASE ReapSwept \/ ScanNothing \/ DrainRead \/ Decide \/ FindNothing
  <2>1. Fades /\ NamesFollow /\ UNCHANGED <<listed, allocated>>
    BY <1>1, PhaseStays, NamesGo, Zenon DEF ReapSwept, ScanNothing, DrainRead, Decide, FindNothing
  <2>2. \E l \in {"scan", "find", "claims", "drain", "decide", "collect"},
           p \in {NULL, target[Reaper]} : Go(Reaper, l, p)
    BY <1>1, Zenon DEF ReapSwept, ScanNothing, DrainRead, Decide, FindNothing
  <2> QED BY <2>1, <2>2, FreeGo, Zenon
<1>2. CASE ReapClaims
  <2>1. Fades /\ UNCHANGED <<listed, allocated, pin>> /\ Go(Reaper, "sweep", NULL)
    BY <1>2, PhaseStays, Zenon DEF ReapClaims
  <2>2. \A q \in listed : wait_owner'[q] \in {wait_owner[q], NULL}
    BY <1>2, Zenon DEF ReapClaims, ReleaseClaims, FieldTypes
  <2>3. NamesFollow
    BY <2>1, <2>2, NamesGo, Zenon
  <2> QED BY <2>1, <2>3, FreeGo, Zenon
<1>3. ASSUME NEW p \in Processes, ReapAbandon(p) PROVE FreeInv'
  <2>1. Fades /\ Abandon(p)
    BY <1>3, AbandonFacts, Zenon DEF ReapAbandon
  <2>2. NamesFollow
    BY <2>1, NamesGo, Zenon DEF Abandon, FieldTypes
  <2> QED BY <1>3, <2>1, <2>2, FreeStay, Zenon DEF ReapAbandon, Abandon
<1>4. ASSUME NEW p \in Processes, ScanDrain(p) \/ ScanCollect(p) PROVE FreeInv'
  <2>1. Fades /\ NamesFollow /\ UNCHANGED <<listed, allocated>>
    BY <1>4, PhaseStays, NamesGo, Zenon DEF ScanDrain, ScanCollect
  <2>2. \E l \in {"drain", "collect"} : Go(Reaper, l, p)
    BY <1>4, Zenon DEF ScanDrain, ScanCollect
  <2> QED BY <2>1, <2>2, FreeGo, Zenon
<1>5. ASSUME NEW p \in Processes, FindReapable(p) PROVE FreeInv'
  <2>1. Fades /\ UNCHANGED <<listed, allocated, pin>> /\ Go(Reaper, "claimed", p)
    BY <1>5, PhaseStays, Zenon DEF FindReapable
  <2>2. \A q \in listed : wait_owner'[q] = IF q = p THEN Reaper ELSE wait_owner[q]
    BY <1>5, Zenon DEF FindReapable, SetOwner, FieldTypes
  <2>3. NamesFollow
    BY <2>1, <2>2, Zenon DEF NamesFollow
  <2> QED BY <2>1, <2>3, FreeGo, Zenon
<1>6. CASE CloseCheck \/ CloseDeferred
  <2>1. target[Gui] \in Processes
    BY <1>6, HasTarget, Zenon DEF CloseCheck, CloseDeferred, Untargeted
  <2>2. Fades
    BY <1>6, <2>1, DeferredFacts, PhaseStays, Zenon DEF CloseCheck, CloseDeferred
  <2>3. NamesFollow /\ UNCHANGED <<listed, allocated>>
    BY <1>6, NamesGo, Zenon DEF CloseCheck, CloseDeferred
  <2>4. \E l \in {"user", "last"}, p \in {NULL, target[Gui]} : Go(Gui, l, p)
    BY <1>6, Zenon DEF CloseCheck, CloseDeferred, Done
  <2> QED BY <2>2, <2>3, <2>4, FreeGo, Zenon
<1> QED BY <1>1, <1>2, <1>3, <1>4, <1>5, <1>6, Zenon DEF Reaping, GuiStep
-----------------------------------------------------------------------------
(***************************************************************************)
(* The invariant.                                                          *)
(***************************************************************************)
LEMMA CollectionInitial ==
    ASSUME CollectionInit
    PROVE  CollectionInv
<1> USE CollectionAssumption, ActorsAre
<1>1. FieldTypes
  BY DEF CollectionInit, FieldTypes, Phases
<1>2. \A a \in Actors : at[a] = (IF a = Reaper THEN "claims" ELSE "user") /\ target[a] = NULL
  BY Zenon DEF CollectionInit
<1>3. PlacesInv
  <2>1. /\ "claims" \in Untargeted /\ "user" \in Untargeted /\ "claims" \in Places /\ "user" \in Places
        /\ "user" \in GuiPlaces /\ "claims" \in ReaperPlaces /\ "user" \in TaskPlaces
    BY Zenon DEF Untargeted, Places, GuiPlaces, ReaperPlaces, TaskPlaces
  <2>2. at \in [Actors -> Places] /\ target \in [Actors -> Processes \cup {NULL}] /\ next = "find"
    BY <2>1, Zenon DEF CollectionInit
  <2> QED BY <1>2, <2>1, <2>2, Zenon DEF PlacesInv
<1>4. /\ "claims" \notin Holding /\ "user" \notin Holding
      /\ "claims" \notin Claiming /\ "user" \notin Claiming
      /\ "claims" \notin Launching /\ "user" \notin Launching
      /\ "claims" \notin Preparing /\ "user" \notin Preparing
      /\ "claims" \notin Draining /\ "user" \notin Draining
      /\ "claims" \notin Collecting /\ "user" \notin Collecting
  BY Zenon DEF Holding, Claiming, Launching, Preparing, Draining, Collecting
<1>5. OwnInv
  BY <1>2, <1>4 DEF OwnInv
<1>6. QuietInv
  BY DEF CollectionInit, QuietInv, Executing
<1>7. ClaimInv /\ LaunchInv
  BY <1>2, <1>4, Zenon DEF ClaimInv, LaunchInv
<1>8. SettledInv
  BY <1>1, <1>2, <1>4, Zenon DEF SettledInv, Settled, CollectionInit, FieldTypes
<1>9. FreeInv
  BY <1>1, <1>2, Zenon DEF FreeInv, NoFreedOwner, CollectionInit, FieldTypes
<1> QED BY <1>1, <1>3, <1>5, <1>6, <1>7, <1>8, <1>9, ZenonT(40) DEF CollectionInv

(* Stuttering. *)
LEMMA CollectionStutters ==
    ASSUME CollectionInv, UNCHANGED vars
    PROVE  CollectionInv'
<1>1. UNCHANGED <<phase, status, wait_owner, cleanup, parent, allocated, listed, pin, at, target, next,
                  reports>>
  BY Zenon DEF vars, pcbVars, listVars, pinVars, reaperVars, histVars
<1>2. FieldTypes' /\ PlacesInv' /\ OwnInv'
  BY <1>1, Zenon DEF CollectionInv, FieldTypes, PlacesInv, OwnInv
<1>3. QuietInv' /\ ClaimInv' /\ LaunchInv'
  BY <1>1, Zenon
     DEF CollectionInv, QuietInv, ClaimInv, LaunchInv, CurrentOnCpu, Referenced, Executing, Alive
<1>4. SettledInv'
  BY <1>1, Zenon DEF CollectionInv, SettledInv, Settled, Dies, Alive, Executing
<1>5. FreeInv'
  BY <1>1, Zenon DEF CollectionInv, FreeInv, NoFreedOwner
<1> QED BY <1>2, <1>3, <1>4, <1>5, Zenon DEF CollectionInv

(* Every step of a thread, of the two collectors and of the kernel        *)
(* preserves the invariant.                                                *)
LEMMA CollectionStep ==
    ASSUME CollectionInv, [CollectionNext]_vars
    PROVE  CollectionInv'
<1> SUFFICES ASSUME CollectionNext PROVE CollectionInv'
  BY CollectionStutters, Zenon
<1> USE DEF CollectionInv
<1>1. ASSUME NEW t \in Tasks, Call(t) \/ Alone(t) \/ Switch(t) \/ CloseWindow(t) PROVE CollectionInv'
  BY <1>1, TypesTask, PlacesTask, OwnTask, QuietTask, ClaimTask, LaunchTask, SettledTask,
     FreeTask, Zenon
<1>2. ASSUME NEW a \in Tasks \cup {Reaper}, Collector(a) PROVE CollectionInv'
  BY <1>2, TypesCollector, PlacesCollector, OwnCollector, QuietCollector, ClaimCollector,
     LaunchCollector,
     SettledCollector, FreeCollector, Zenon
<1>3. CASE Reaping \/ GuiStep
  BY <1>3, TypesKernel, PlacesKernel, OwnKernel, QuietKernel, ClaimKernel, LaunchKernel,
     SettledKernel,
     FreeKernel, Zenon
<1> QED BY <1>1, <1>2, <1>3, StepCases, Zenon

(***************************************************************************)
(* What the fields of a PCB say of the actors that work on it holds        *)
(* whatever waits, launches, exits, faults and reaps at the same time.     *)
(***************************************************************************)
THEOREM CollectionInvariant == CollectionSpec => []CollectionInv
<1>1. CollectionInit => CollectionInv
  BY CollectionInitial, Zenon
<1>2. CollectionInv /\ [CollectionNext]_vars => CollectionInv'
  BY CollectionStep, Zenon
<1> QED BY <1>1, <1>2, PTL DEF CollectionSpec

(***************************************************************************)
(* fd_cleanup_state admits one owner of a process at a time.               *)
(***************************************************************************)
THEOREM CleanupHasOneOwner == CollectionSpec => []OneOwner
<1>1. ASSUME CollectionInv PROVE OneOwner
  <2>1. Owning \cup {"drain", "decide"} = Holding
    BY Zenon DEF Owning, Holding, Draining, Preparing, Collecting
  <2> QED BY <1>1, <2>1, Zenon DEF CollectionInv, OwnInv, OneOwner, Owns
<1> QED BY <1>1, CollectionInvariant, PTL

(***************************************************************************)
(* No PCB is freed under the actors of the contest for it, the launch that *)
(* loads it, the window gate or its own threads.                           *)
(***************************************************************************)
THEOREM UsedPcbsStay == CollectionSpec => []NoFreedPcb
<1>1. ASSUME CollectionInv PROVE NoFreedPcb
  <2>1. ASSUME NEW a \in Actors, Alive(a), target[a] # NULL PROVE target[a] \in allocated
    <3>1. CASE a = Gui
      BY <1>1, <2>1, <3>1, Zenon DEF CollectionInv, FreeInv
    <3>2. CASE at[a] \in Holding
      BY <1>1, <3>2, Zenon DEF CollectionInv, OwnInv
    <3>3. CASE at[a] \in Claiming
      BY <1>1, <2>1, <3>3, Zenon DEF CollectionInv, ClaimInv, FieldTypes
    <3>4. CASE at[a] \in Launching /\ a \in Tasks
      BY <1>1, <2>1, <3>4, Zenon DEF CollectionInv, LaunchInv, FieldTypes, Alive
    <3>5. a # Gui => at[a] \in Holding \cup Claiming \/ (at[a] \in Launching /\ a \in Tasks)
      <4>1. at[a] \notin Untargeted
        BY <1>1, <2>1, Zenon DEF CollectionInv, PlacesInv
      <4>2. a = Reaper => at[a] \in {"claims", "sweep", "scan", "find"} \cup Claiming \cup Holding
        BY <1>1, Zenon DEF CollectionInv, PlacesInv, ReaperPlaces
      <4>3. a \in Tasks => at[a] \in Untargeted \cup Claiming \cup Launching \cup Holding
        BY <1>1, Zenon DEF CollectionInv, PlacesInv, TaskPlaces, Places
      <4>4. {"claims", "sweep", "scan", "find"} \subseteq Untargeted
        BY Zenon DEF Untargeted
      <4> QED BY <4>1, <4>2, <4>3, <4>4, Zenon DEF Actors
    <3> QED BY <3>1, <3>2, <3>3, <3>4, <3>5, Zenon
  <2>2. \A t \in Tasks : Executing(t) => ProcessOf[t] \in allocated
    BY <1>1, Zenon DEF CollectionInv, QuietInv, FieldTypes
  <2> QED BY <2>1, <2>2, Zenon DEF NoFreedPcb
<1> QED BY <1>1, CollectionInvariant, PTL

(***************************************************************************)
(* wait_owner and the owner of a preparation pin never name a freed TCB.   *)
(***************************************************************************)
THEOREM NamedThreadsStay == CollectionSpec => []NoFreedOwner
<1>1. CollectionInv => NoFreedOwner
  BY Zenon DEF CollectionInv, FreeInv
<1> QED BY <1>1, CollectionInvariant, PTL

(***************************************************************************)
(* A child that exited is collected only after a wait4 call returned it,   *)
(* as long as its parent may ask for it.                                   *)
(***************************************************************************)
THEOREM ExitsAreReported == CollectionSpec => []ExitStatusKept
<1>1. CollectionInv => ExitStatusKept
  BY Zenon DEF CollectionInv, SettledInv, Settled, FieldTypes, ExitStatusKept
<1> QED BY <1>1, CollectionInvariant, PTL

=============================================================================
