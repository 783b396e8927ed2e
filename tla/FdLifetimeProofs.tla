-------------------------- MODULE FdLifetimeProofs --------------------------
(***************************************************************************)
(* Proofs about FdLifetime for any number of processes, threads, shared    *)
(* tables, descriptors, handles and tickets.                               *)
(***************************************************************************)
EXTENDS FdLifetime, FiniteSetTheorems, TLAPS

(***************************************************************************)
(* Who may reach a handle: the first part of the inductive invariant, and  *)
(* what the steps of every action do to it.                                *)
(***************************************************************************)

(* An actor is between two critical sections exactly while it holds a      *)
(* handle in its hands.                                                    *)
IdleHand == \A a \in Actors : at[a] = "idle" <=> hand[a] = NULL

(* A retired handle waits for its tickets; nobody has it in hand. *)
RetiredUnheld == \A k \in Tickets, a \in Actors : retired[k] /\ handle[k] # NULL => hand[a] # handle[k]

(* A table entry names an allocated handle, and no other entry does. *)
EntryOwns ==
    \A tb \in Tables, fd \in Fds : entry[tb][fd] # NULL =>
        /\ entry[tb][fd] \in allocated
        /\ \A tc \in Tables, fe \in Fds : entry[tc][fe] = entry[tb][fd] => tc = tb /\ fe = fd

(* Who may reach a handle. *)
HandleInv ==
    /\ ClosedOnce /\ TicketPinsHandle /\ RetiredIsDetached
    /\ IdleHand /\ RetiredUnheld /\ EntryOwns

handleVars == <<at, hand, entry, allocated, handle, retired>>

(* Steps that touch none of them. *)
LEMMA HandleFrame ==
    ASSUME HandleInv, UNCHANGED handleVars
    PROVE  HandleInv'
BY DEF HandleInv, ClosedOnce, TicketPinsHandle, RetiredIsDetached, IdleHand, RetiredUnheld,
       EntryOwns, Named, Pins, Linked, handleVars

(* The steps of the registry, one kind after the other, keep HandleInv:    *)
(* a handle is made,                                                       *)
LEMMA MakeKeeps ==
    ASSUME FdTypeOK, HandleInv, NEW a \in Actors, hand[a] = NULL, NEW h \in Handles \ allocated,
           allocated' = allocated \cup {h}, Hold(a, "install", h), UNCHANGED <<entry, handle, retired>>
    PROVE  HandleInv'
<1> USE FdAssumption DEF HandleInv, FdTypeOK, Hold
<1>1. /\ ~Named(h)
      /\ \A k \in Tickets : handle[k] # h
      /\ \A b \in Actors : hand[b] # h
  BY DEF EntryOwns, TicketPinsHandle, ClosedOnce, Named, Linked
<1>2. ClosedOnce'
  BY <1>1 DEF ClosedOnce, Named, Pins
<1>3. TicketPinsHandle' /\ RetiredIsDetached' /\ EntryOwns'
  BY DEF TicketPinsHandle, RetiredIsDetached, EntryOwns, Named, Pins, Linked
<1>4. IdleHand' /\ RetiredUnheld'
  BY <1>1 DEF IdleHand, RetiredUnheld
<1> QED
  BY <1>2, <1>3, <1>4, Zenon

(* its maker goes on to retire it instead of installing it,                *)
LEMMA GiveUpKeeps ==
    ASSUME FdTypeOK, HandleInv, NEW a \in Actors, at[a] = "install", Hold(a, "retire", hand[a]),
           UNCHANGED <<entry, allocated, handle, retired>>
    PROVE  HandleInv'
<1> USE FdAssumption DEF HandleInv, FdTypeOK, Hold
<1>1. ClosedOnce'
  BY DEF ClosedOnce, Named, Pins
<1>2. TicketPinsHandle' /\ RetiredIsDetached' /\ EntryOwns'
  BY DEF TicketPinsHandle, RetiredIsDetached, EntryOwns, Named, Pins, Linked
<1>3. IdleHand' /\ RetiredUnheld'
  BY DEF IdleHand, RetiredUnheld
<1> QED
  BY <1>1, <1>2, <1>3, Zenon

(* a descriptor is detached,                                               *)
LEMMA TakeKeeps ==
    ASSUME FdTypeOK, HandleInv, NEW a \in Actors, hand[a] = NULL, NEW tb \in Tables, NEW fd \in Fds,
           entry[tb][fd] # NULL, SetEntry(tb, fd, NULL), Hold(a, "retire", entry[tb][fd]),
           UNCHANGED <<allocated, handle, retired>>
    PROVE  HandleInv'
<1> USE FdAssumption DEF HandleInv, FdTypeOK, Hold
<1>1. \A tc \in Tables, fe \in Fds :
          entry'[tc][fe] = IF tc = tb /\ fe = fd THEN NULL ELSE entry[tc][fe]
  BY DEF SetEntry
<1>2. \A b \in Actors : hand'[b] = IF b = a THEN entry[tb][fd] ELSE hand[b]
  OBVIOUS
<1>3. \A h \in Handles : Named(h)' => Named(h) /\ h # entry[tb][fd]
  BY <1>1 DEF EntryOwns, Named
<1>4. \A b \in Actors : hand[b] # entry[tb][fd]
  BY DEF ClosedOnce, Named
<1>5. \A k \in Tickets : retired[k] => handle[k] # entry[tb][fd]
  BY Zenon DEF RetiredIsDetached, Named, Linked
<1>6. ClosedOnce'
  BY <1>2, <1>3, <1>4 DEF ClosedOnce, EntryOwns, Pins
<1>7. TicketPinsHandle' /\ RetiredIsDetached'
  BY <1>3, Zenon DEF TicketPinsHandle, RetiredIsDetached, Pins, Linked
<1>8. EntryOwns'
  BY <1>1 DEF EntryOwns
<1>9. IdleHand' /\ RetiredUnheld'
  BY <1>2, <1>5 DEF IdleHand, RetiredUnheld
<1> QED
  BY <1>6, <1>7, <1>8, <1>9, Zenon

(* a descriptor is installed, perhaps over another and perhaps with a      *)
(* publisher's ticket,                                                     *)
LEMMA PutKeeps ==
    ASSUME FdTypeOK, HandleInv, NEW a \in Actors, at[a] = "install", NEW tb \in Tables, NEW fd \in Fds,
           SetEntry(tb, fd, hand[a]),
           IF entry[tb][fd] = NULL THEN Hold(a, "idle", NULL) ELSE Hold(a, "retire", entry[tb][fd]),
           UNCHANGED allocated,
           \/ UNCHANGED <<handle, retired>>
           \/ \E k \in Tickets : /\ handle[k] = NULL
                                 /\ handle' = [handle EXCEPT ![k] = hand[a]]
                                 /\ retired' = [retired EXCEPT ![k] = FALSE]
    PROVE  HandleInv'
<1> USE FdAssumption DEF HandleInv, FdTypeOK, Hold
<1> DEFINE old == entry[tb][fd]
           new == hand[a]
<1>1. \A tc \in Tables, fe \in Fds :
          entry'[tc][fe] = IF tc = tb /\ fe = fd THEN new ELSE entry[tc][fe]
  BY DEF SetEntry
<1>2. /\ \A b \in Actors : hand'[b] = IF b = a THEN old ELSE hand[b]
      /\ \A b \in Actors : b # a => at'[b] = at[b]
      /\ at'[a] = IF old = NULL THEN "idle" ELSE "retire"
  OBVIOUS
<1>3. \A k \in Tickets : \/ handle'[k] = handle[k] /\ retired'[k] = retired[k]
                         \/ handle'[k] = new /\ ~retired'[k] /\ handle[k] = NULL
  <2>1. CASE UNCHANGED <<handle, retired>>
    BY <2>1, Zenon
  <2>2. ASSUME NEW j \in Tickets, handle[j] = NULL,
               handle' = [handle EXCEPT ![j] = hand[a]], retired' = [retired EXCEPT ![j] = FALSE]
        PROVE  \A k \in Tickets : \/ handle'[k] = handle[k] /\ retired'[k] = retired[k]
                                  \/ handle'[k] = new /\ ~retired'[k] /\ handle[k] = NULL
    BY <2>2, ZenonT(30)
  <2> QED
    BY <2>1, <2>2, Zenon
<1>4. /\ new \in allocated /\ new \in Handles /\ ~Named(new) /\ new # old
      /\ \A k \in Tickets : handle[k] = new => ~retired[k]
      /\ \A b \in Actors : hand[b] = new => b = a
  BY DEF ClosedOnce, IdleHand, RetiredUnheld, Named
<1>5. old # NULL => /\ old \in allocated /\ Named(old)
                    /\ \A b \in Actors : hand[b] # old
                    /\ \A k \in Tickets : handle[k] = old => ~retired[k]
  BY DEF EntryOwns, ClosedOnce, RetiredIsDetached, Named, Linked
<1>6. \A h \in Handles : Named(h)' => h = new \/ (Named(h) /\ h # old)
  BY <1>1 DEF Named, EntryOwns
<1>7. \A k \in Tickets : handle'[k] # NULL => handle'[k] = new \/ handle'[k] = handle[k]
  BY <1>3, Zenon
<1> HIDE DEF old, new
<1>8. ClosedOnce'
  BY <1>2, <1>3, <1>4, <1>5, <1>6 DEF ClosedOnce, Pins, IdleHand
<1>9. TicketPinsHandle'
  BY <1>3, <1>4, Zenon DEF TicketPinsHandle, Linked
<1>10. RetiredIsDetached'
  BY <1>3, <1>4, <1>6 DEF RetiredIsDetached, Pins, Linked
<1>11. EntryOwns'
  BY <1>1, <1>4 DEF EntryOwns, Named
<1>12. IdleHand' /\ RetiredUnheld'
  BY <1>2, <1>3, <1>5 DEF IdleHand, RetiredUnheld
<1> QED
  BY <1>8, <1>9, <1>10, <1>11, <1>12, Zenon

(* a detached handle is retired,                                           *)
LEMMA RetireKeeps ==
    ASSUME FdTypeOK, HandleInv, NEW a \in Actors, Retire(a)
    PROVE  HandleInv'
<1> USE FdAssumption DEF HandleInv, FdTypeOK, Hold
<1>1. /\ retired' = [k \in Tickets |-> retired[k] \/ handle[k] = hand[a]]
      /\ UNCHANGED <<entry, allocated, handle>>
      /\ hand[a] # NULL /\ hand[a] \in Handles
  BY Zenon DEF Retire, Pins, tableVars, IdleHand
<1>2. CASE Pins(hand[a]) = {} /\ Hold(a, "finish", hand[a])
  <2>1. retired' = retired /\ hand' = hand
    BY <1>1, <1>2 DEF Pins
  <2>2. ClosedOnce'
    BY <1>1, <1>2, <2>1 DEF ClosedOnce, Named, Pins
  <2> QED
    BY <1>1, <1>2, <2>1, <2>2 DEF TicketPinsHandle, RetiredIsDetached, EntryOwns, IdleHand,
       RetiredUnheld, Named, Pins, Linked
<1>3. CASE Hold(a, "idle", NULL)
  <2>1. ClosedOnce' /\ IdleHand'
    BY <1>1, <1>3 DEF ClosedOnce, Named, Pins, IdleHand
  <2>2. TicketPinsHandle' /\ EntryOwns'
    BY <1>1 DEF TicketPinsHandle, EntryOwns, Linked
  <2>3. RetiredIsDetached'
    BY <1>1 DEF RetiredIsDetached, ClosedOnce, Named, Pins, Linked
  <2>4. RetiredUnheld'
    BY <1>1, <1>3 DEF RetiredUnheld, ClosedOnce
  <2> QED
    BY <2>1, <2>2, <2>3, <2>4, Zenon
<1> QED
  BY <1>2, <1>3, Zenon DEF Retire

(* closed and freed,                                                       *)
LEMMA FinishKeeps ==
    ASSUME FdTypeOK, HandleInv, NEW a \in Actors, Finish(a)
    PROVE  HandleInv'
<1> USE FdAssumption DEF HandleInv, FdTypeOK, Hold
<1>1. /\ allocated' = allocated \ {hand[a]} /\ at[a] = "finish"
      /\ UNCHANGED <<entry, handle, retired>>
      /\ Hold(a, "idle", NULL)
      /\ hand[a] # NULL /\ hand[a] \in Handles
  BY Zenon DEF Finish, tableVars, ticketVars, IdleHand
<1>2. /\ ~Named(hand[a])
      /\ \A k \in Tickets : handle[k] # hand[a]
      /\ \A b \in Actors : hand[b] = hand[a] => b = a
  BY <1>1, Zenon DEF ClosedOnce, Pins
<1>3. ClosedOnce' /\ IdleHand'
  BY <1>1, <1>2 DEF ClosedOnce, Named, Pins, IdleHand
<1>4. TicketPinsHandle' /\ EntryOwns'
  BY <1>1, <1>2 DEF TicketPinsHandle, EntryOwns, Linked, Named
<1>5. RetiredIsDetached' /\ RetiredUnheld'
  BY <1>1, Zenon DEF RetiredIsDetached, RetiredUnheld, Named, Pins, Linked
<1> QED
  BY <1>3, <1>4, <1>5, Zenon

(* a ticket is linked to the handle of a descriptor,                       *)
LEMMA LinkKeeps ==
    ASSUME FdTypeOK, HandleInv, NEW k \in Tickets, handle[k] = NULL, NEW tb \in Tables, NEW fd \in Fds,
           entry[tb][fd] # NULL,
           handle' = [handle EXCEPT ![k] = entry[tb][fd]],
           retired' = [retired EXCEPT ![k] = FALSE],
           UNCHANGED <<at, hand, entry, allocated>>
    PROVE  HandleInv'
<1> USE FdAssumption DEF HandleInv, FdTypeOK
<1>1. /\ entry[tb][fd] \in allocated /\ Named(entry[tb][fd])
      /\ \A b \in Actors : hand[b] # entry[tb][fd]
      /\ \A j \in Tickets : handle[j] = entry[tb][fd] => ~retired[j]
  BY DEF EntryOwns, ClosedOnce, RetiredIsDetached, Named, Linked
<1>2. ClosedOnce' /\ IdleHand'
  BY <1>1 DEF ClosedOnce, Named, Pins, IdleHand
<1>3. TicketPinsHandle' /\ EntryOwns'
  BY <1>1 DEF TicketPinsHandle, EntryOwns, Linked
<1>4. RetiredIsDetached'
  BY <1>1 DEF RetiredIsDetached, Named, Pins, Linked
<1>5. RetiredUnheld'
  BY <1>1 DEF RetiredUnheld
<1> QED
  BY <1>2, <1>3, <1>4, <1>5, Zenon

(* and a ticket is removed, its handle coming to the remover if it was the *)
(* last one of a retired handle.                                           *)
LEMMA RemoveKeeps ==
    ASSUME FdTypeOK, HandleInv, NEW a \in Actors, at[a] = "idle", NEW k \in Tickets, handle[k] # NULL,
           Remove(a, k), UNCHANGED <<entry, allocated>>
    PROVE  HandleInv'
<1> USE FdAssumption DEF HandleInv, FdTypeOK
<1>1. /\ handle' = [handle EXCEPT ![k] = NULL]
      /\ retired' = [retired EXCEPT ![k] = FALSE]
  BY Zenon DEF Remove, Unlink
<1>2. TicketPinsHandle' /\ EntryOwns' /\ RetiredIsDetached'
  BY <1>1 DEF TicketPinsHandle, EntryOwns, RetiredIsDetached, Named, Pins, Linked
<1>3. CASE retired[k] /\ Pins(handle[k]) = {k} /\ Hold(a, "finish", handle[k])
  <2>1. /\ handle[k] \in allocated /\ ~Named(handle[k])
        /\ \A b \in Actors : hand[b] # handle[k]
        /\ \A j \in Tickets : handle'[j] # handle[k]
    BY <1>1, <1>3, Zenon DEF TicketPinsHandle, RetiredIsDetached, RetiredUnheld, Linked, Pins
  <2>2. ClosedOnce'
    BY <1>1, <1>3, <2>1 DEF ClosedOnce, Named, Pins, Hold
  <2>3. IdleHand' /\ RetiredUnheld'
    BY <1>1, <1>3, <2>1 DEF IdleHand, RetiredUnheld, Hold
  <2> QED
    BY <1>2, <2>2, <2>3, Zenon
<1>4. CASE UNCHANGED <<at, hand>>
  <2>1. ClosedOnce'
    BY <1>1, <1>4 DEF ClosedOnce, Named, Pins
  <2>2. IdleHand' /\ RetiredUnheld'
    BY <1>1, <1>4 DEF IdleHand, RetiredUnheld
  <2> QED
    BY <1>2, <2>1, <2>2, Zenon
<1> QED
  BY <1>3, <1>4, Zenon DEF Remove
-----------------------------------------------------------------------------
(***************************************************************************)
(* The rest of the invariant, and what follows from it.                    *)
(***************************************************************************)

(* What a stopped thread has left, and what the reaper has cleared away. *)
OwnerInv ==
    /\ TicketOfExecutingThread
    /\ stage # "idle" => draining \in Processes /\ \A t \in Members(draining) : phase[t] = "stopped"
    /\ \A p \in drained :
          /\ \A t \in Members(p) : phase[t] \in {"stopped", "freed"}
          /\ \A k \in Tickets : handle[k] # NULL => owner[k] \notin Members(p)
    /\ \A t \in Tasks : phase[t] = "freed" => ProcessOf[t] \in drained

(* The processes the reference count of a table counts. *)
Users(tb) == {p \in Processes : file_open[p] = tb}
             \cup (IF stage = "unref" /\ dtable = tb THEN {draining} ELSE {})

(* The reference counts of the tables. *)
TableInv ==
    /\ NoDestroyedTable
    /\ \A tb \in Tables : refs[tb] = Cardinality(Users(tb))
    /\ \A p \in Processes : file_open[p] = NULL => p \in drained \/ (stage # "idle" /\ p = draining)
    /\ stage # "idle" => /\ draining \in Processes /\ file_open[draining] = NULL
                         /\ dtable \in Tables
    /\ stage = "close" => \A p \in Processes : file_open[p] # dtable

FdInv == FdTypeOK /\ HandleInv /\ OwnerInv /\ TableInv

(* What the type says of single entries, hands, tickets and operations. *)
LEMMA Ranges ==
    ASSUME FdTypeOK
    PROVE  /\ \A p \in Processes : file_open[p] \in Tables \cup {NULL}
           /\ \A tb \in Tables, fd \in Fds : entry[tb][fd] \in Handles \cup {NULL}
           /\ \A a \in Actors : hand[a] \in Handles \cup {NULL}
           /\ \A t \in Tasks : op[t] \in Tickets \cup {NULL} /\ published[t] \in Fds \cup {NULL}
           /\ \A k \in Tickets : handle[k] \in Handles \cup {NULL}
BY DEF FdTypeOK

(* Initially there are no handles and no tickets. *)
LEMMA FdInitial == FdInit => FdInv
<1> SUFFICES ASSUME FdInit PROVE FdInv
  BY Zenon
<1> USE FdAssumption DEF FdInit
<1>1. \A tb \in Tables : refs[tb] = Cardinality(Users(tb)) /\ refs[tb] \in Nat
  <2> SUFFICES ASSUME NEW tb \in Tables PROVE refs[tb] = Cardinality(Users(tb)) /\ refs[tb] \in Nat
    BY Zenon
  <2>1. Users(tb) = {p \in Processes : InitialTable[p] = tb}
    BY Zenon DEF Users
  <2>2. Users(tb) \subseteq Processes
    BY <2>1, Zenon
  <2>3. Cardinality(Users(tb)) \in Nat
    BY <2>2, FS_Subset, FS_CardinalityType, Zenon
  <2> QED
    BY <2>1, <2>3, Zenon DEF TableRefs
<1>2. FdTypeOK
  BY <1>1, Zenon DEF FdTypeOK, LifecycleInit, Phases
<1>3. HandleInv
  BY Zenon DEF HandleInv, ClosedOnce, TicketPinsHandle, RetiredIsDetached, IdleHand, RetiredUnheld,
         EntryOwns, Linked
<1>4. OwnerInv
  BY Zenon DEF OwnerInv, TicketOfExecutingThread, LifecycleInit
<1>5. TableInv
  BY <1>1 DEF TableInv, NoDestroyedTable
<1> QED
  BY <1>2, <1>3, <1>4, <1>5, Zenon DEF FdInv

(* A ticket removed under the registry lock belongs to the actor's thread, *)
(* to the worker or to a thread that no longer executes.                   *)
LEMMA UnlinkOwner ==
    ASSUME FdTypeOK, OwnerInv, NEW k \in Tickets, Unlink(k),
           UNCHANGED <<phase, drainVars>>,
           \A t \in Tasks : Executing(t) /\ owner[k] = t => op'[t] = NULL,
           \A t \in Tasks : op'[t] \in {op[t], NULL}
    PROVE  OwnerInv'
<1> USE FdAssumption DEF OwnerInv, FdTypeOK, Unlink, drainVars
<1>1. TicketOfExecutingThread'
  BY DEF TicketOfExecutingThread, Linked, Executing
<1> QED
  BY <1>1 DEF Members

(* Types after a ticket was removed. *)
LEMMA RemoveType ==
    ASSUME FdTypeOK, NEW a \in Actors, NEW k \in Tickets, Remove(a, k),
           UNCHANGED <<phase, dead, tableVars, allocated, drainVars, orphan>>,
           op' \in [Tasks -> Tickets \cup {NULL}], published' \in [Tasks -> Fds \cup {NULL}]
    PROVE  FdTypeOK'
<1>1. /\ handle' \in [Tickets -> Handles \cup {NULL}]
      /\ owner' \in [Tickets -> Tasks \cup {Worker, NULL}]
      /\ retired' \in [Tickets -> BOOLEAN]
  BY Zenon DEF FdTypeOK, Remove, Unlink
<1>2. /\ at' \in [Actors -> {"idle", "install", "retire", "finish"}]
      /\ hand' \in [Actors -> Handles \cup {NULL}]
  BY ZenonT(30) DEF FdTypeOK, Remove, Hold
<1> QED
  BY <1>1, <1>2, Zenon DEF FdTypeOK, tableVars, drainVars

(* A ticket linked by a thread that executes is its own. *)
LEMMA LinkOwner ==
    ASSUME FdTypeOK, OwnerInv, NEW k \in Tickets, handle[k] = NULL, NEW h \in Handles, NEW t \in Tasks,
           Executing(t), Link(k, h, t), op' = [op EXCEPT ![t] = k], UNCHANGED <<phase, drainVars>>
    PROVE  OwnerInv'
<1> USE FdAssumption DEF OwnerInv, FdTypeOK, Link, drainVars
<1>1. TicketOfExecutingThread'
  BY DEF TicketOfExecutingThread, Linked, Executing
<1>2. \A p \in drained : t \notin Members(p)
  BY Zenon DEF Members, Executing
<1> QED
  BY <1>1, <1>2 DEF Members

(* Steps that leave the tables and the drain alone. *)
LEMMA TableFrame ==
    ASSUME TableInv, UNCHANGED <<tableVars, drainVars>>
    PROVE  TableInv'
BY DEF TableInv, NoDestroyedTable, Users, tableVars, drainVars

(* Steps that change the entry of a table some process, or the drain, has. *)
LEMMA TableEntry ==
    ASSUME FdTypeOK, TableInv, NEW tb \in Tables, NEW fd \in Fds, NEW h, SetEntry(tb, fd, h),
           h = NULL \/ \E p \in Processes : file_open[p] = tb,
           UNCHANGED <<file_open, refs, destroyed, drainVars>>
    PROVE  TableInv'
<1>1. NoDestroyedTable'
  BY DEF TableInv, NoDestroyedTable, SetEntry, FdTypeOK
<1> QED
  BY <1>1, Zenon DEF TableInv, Users, drainVars

-----------------------------------------------------------------------------
(* A step that touches only hands, handles and tickets' flags keeps        *)
(* OwnerInv.                                                               *)
LEMMA OwnerFrame ==
    ASSUME OwnerInv, UNCHANGED <<phase, handle, owner, op, drainVars>>
    PROVE  OwnerInv'
BY Zenon DEF OwnerInv, TicketOfExecutingThread, Executing, Linked, Members, drainVars

(* Retiring or finishing a handle touches neither owners nor tables. *)
LEMMA ClosePreserves ==
    ASSUME FdInv, NEW a \in Actors, Retire(a) \/ Finish(a)
    PROVE  FdInv'
<1>1. FdTypeOK /\ HandleInv /\ OwnerInv /\ TableInv
  BY Zenon DEF FdInv
<1>2. UNCHANGED <<phase, dead, tableVars, handle, owner, op, published, drainVars, orphan>>
  BY Zenon DEF Retire, Finish, ticketVars
<1>3. FdTypeOK'
  <2>1. /\ at' \in [Actors -> {"idle", "install", "retire", "finish"}]
        /\ hand' \in [Actors -> Handles \cup {NULL}]
    BY <1>1, ZenonT(30) DEF FdTypeOK, Retire, Finish, Hold
  <2>2. retired' \in [Tickets -> BOOLEAN] /\ allocated' \subseteq Handles
    BY <1>1, ZenonT(30) DEF FdTypeOK, Retire, Finish, ticketVars
  <2> QED
    BY <1>1, <1>2, <2>1, <2>2, Zenon DEF FdTypeOK, tableVars, drainVars
<1>4. HandleInv'
  BY <1>1, RetireKeeps, FinishKeeps, Zenon
<1> QED
  BY <1>1, <1>2, <1>3, <1>4, OwnerFrame, TableFrame, Zenon DEF FdInv

(* What a thread does in a system call preserves the invariant. *)
LEMMA ThreadPreserves ==
    ASSUME FdInv, NEW t \in Tasks, ThreadStep(t)
    PROVE  FdInv'
<1> USE FdAssumption DEF Actors
<1>1. FdTypeOK /\ HandleInv /\ OwnerInv /\ TableInv /\ IdleHand /\ TicketOfExecutingThread
  BY Zenon DEF FdInv, HandleInv, OwnerInv
<1>2. CASE MakeHandle(t)
  <2>1. PICK h \in Handles \ allocated : allocated' = allocated \cup {h} /\ Hold(t, "install", h)
    BY <1>2, Zenon DEF MakeHandle
  <2>2. UNCHANGED <<phase, dead, tableVars, ticketVars, op, published, drainVars, orphan>> /\ hand[t] = NULL
    BY <1>1, <1>2, Zenon DEF MakeHandle, Idle, IdleHand
  <2>3. FdTypeOK'
    BY <1>1, <2>1, <2>2, Zenon DEF FdTypeOK, Hold, tableVars, ticketVars, drainVars
  <2>4. HandleInv'
    BY <1>1, <2>1, <2>2, MakeKeeps, Zenon DEF tableVars, ticketVars
  <2> QED
    BY <1>1, <2>2, <2>3, <2>4, OwnerFrame, TableFrame, Zenon DEF FdInv, ticketVars
<1>3. CASE InstallFails(t)
  <2>1. /\ at[t] = "install" /\ Hold(t, "retire", hand[t])
        /\ UNCHANGED <<phase, dead, tableVars, allocated, ticketVars, op, published, drainVars, orphan>>
    BY <1>3, Zenon DEF InstallFails
  <2>2. FdTypeOK'
    BY <1>1, <2>1, Zenon DEF FdTypeOK, Hold, tableVars, ticketVars, drainVars
  <2>3. HandleInv'
    BY <1>1, <2>1, GiveUpKeeps, Zenon DEF tableVars, ticketVars
  <2> QED
    BY <1>1, <2>1, <2>2, <2>3, OwnerFrame, TableFrame, Zenon DEF FdInv, ticketVars
<1>4. CASE DetachIf(t)
  <2> DEFINE tb == file_open[ProcessOf[t]]
             fd == published[t]
  <2>1. /\ Idle(t) /\ fd # NULL /\ op[t] # NULL
        /\ published' = [published EXCEPT ![t] = NULL]
        /\ UNCHANGED <<phase, dead, file_open, refs, destroyed, allocated, ticketVars, op,
                       drainVars, orphan>>
    BY <1>4, Zenon DEF DetachIf
  <2>2. handle[op[t]] # NULL /\ handle[op[t]] \in Handles /\ hand[t] = NULL
    <3>1. op[t] \in Linked
      BY <1>1, <2>1, Zenon DEF Idle, Runs, TicketOfExecutingThread
    <3>2. handle[op[t]] # NULL /\ handle[op[t]] \in Handles
      BY <1>1, <3>1, Ranges, Zenon DEF Linked
    <3>3. hand[t] = NULL
      BY <1>1, <2>1, Zenon DEF Idle, IdleHand
    <3> QED
      BY <3>2, <3>3, Zenon
  <2>3. fd \in Fds /\ ProcessOf[t] \in Processes
    BY <1>1, <2>1, Ranges, Zenon
  <2>4. CASE UNCHANGED <<entry, at, hand>>
    <3>1. FdTypeOK'
      BY <1>1, <2>1, <2>4, Zenon DEF FdTypeOK, ticketVars, drainVars
    <3>2. HandleInv'
      BY <1>1, <2>1, <2>4, HandleFrame, Zenon DEF handleVars, ticketVars
    <3> QED
      BY <1>1, <2>1, <2>4, <3>1, <3>2, OwnerFrame, TableFrame, Zenon
         DEF FdInv, ticketVars, tableVars
  <2>5. CASE tb # NULL /\ entry[tb][fd] = handle[op[t]] /\ SetEntry(tb, fd, NULL)
             /\ Hold(t, "retire", handle[op[t]])
    <3>1. tb \in Tables
      BY <1>1, <2>3, <2>5, Ranges, Zenon
    <3>2. FdTypeOK'
      BY <1>1, <2>1, <2>2, <2>3, <2>5, <3>1, ZenonT(40)
         DEF FdTypeOK, Hold, SetEntry, ticketVars, drainVars
    <3> HIDE DEF tb, fd
    <3>3. HandleInv'
      BY <1>1, <2>1, <2>2, <2>3, <2>5, <3>1, TakeKeeps, ZenonT(30) DEF ticketVars
    <3>4. TableInv'
      BY <1>1, <2>1, <2>3, <2>5, <3>1, TableEntry, ZenonT(30)
    <3> QED
      BY <1>1, <2>1, <3>2, <3>3, <3>4, OwnerFrame, Zenon DEF FdInv, ticketVars
  <2> QED
    BY <1>4, <2>4, <2>5, Zenon DEF DetachIf
<1>5. CASE Transfer(t)
  <2>1. /\ Idle(t) /\ op[t] # NULL /\ owner[op[t]] = t
        /\ owner' = [owner EXCEPT ![op[t]] = Worker]
        /\ op' = [op EXCEPT ![t] = NULL]
        /\ UNCHANGED <<phase, dead, tableVars, allocated, handle, retired, at, hand, published,
                       drainVars, orphan>>
    BY <1>5, Zenon DEF Transfer
  <2>2. FdTypeOK'
    BY <1>1, <2>1, Zenon DEF FdTypeOK, tableVars, drainVars
  <2>3. HandleInv'
    BY <1>1, <2>1, HandleFrame, Zenon DEF handleVars, tableVars
  <2>4. TicketOfExecutingThread'
    BY <1>1, <2>1 DEF TicketOfExecutingThread, Executing, Linked, FdTypeOK
  <2>5. OwnerInv'
    <3>1. op[t] \in Tickets /\ Worker \notin Tasks
      BY <1>1, <2>1, Ranges, Zenon
    <3>2. \A k \in Tickets : owner'[k] \in Tasks => owner'[k] = owner[k]
      BY <1>1, <2>1, <3>1, Zenon DEF FdTypeOK
    <3> QED
      BY <1>1, <2>1, <2>4, <3>2, Zenon DEF OwnerInv, Members, drainVars
  <2> QED
    BY <1>1, <2>1, <2>2, <2>3, <2>5, TableFrame, Zenon DEF FdInv
<1>6. CASE Release(t)
  <2>1. /\ Idle(t) /\ op[t] # NULL /\ Remove(t, op[t])
        /\ op' = [op EXCEPT ![t] = NULL]
        /\ published' = [published EXCEPT ![t] = NULL]
        /\ UNCHANGED <<phase, dead, tableVars, allocated, drainVars, orphan>>
    BY <1>6, Zenon DEF Release
  <2>2. op[t] \in Tickets /\ handle[op[t]] # NULL /\ owner[op[t]] = t /\ at[t] = "idle"
    BY <1>1, <2>1, Zenon DEF Idle, Runs, TicketOfExecutingThread, Linked, FdTypeOK
  <2>3. FdTypeOK'
    <3>1. op' \in [Tasks -> Tickets \cup {NULL}] /\ published' \in [Tasks -> Fds \cup {NULL}]
      BY <1>1, <2>1, Zenon DEF FdTypeOK
    <3> QED
      BY <1>1, <2>1, <2>2, <3>1, RemoveType, Zenon
  <2>4. HandleInv'
    BY <1>1, <2>1, <2>2, RemoveKeeps, Zenon DEF tableVars
  <2>5. OwnerInv'
    BY <1>1, <2>1, <2>2, UnlinkOwner, Zenon DEF Remove, FdTypeOK
  <2> QED
    BY <1>1, <2>1, <2>3, <2>4, <2>5, TableFrame, Zenon DEF FdInv
<1>7. ASSUME NEW m \in Fds, NEW exact \in BOOLEAN, NEW k \in Tickets \cup {NULL}, Install(t, m, exact, k)
      PROVE  FdInv'
  <2> DEFINE tb == file_open[ProcessOf[t]]
  <2>1. PICK fd \in Fds :
          /\ SetEntry(tb, fd, hand[t])
          /\ IF entry[tb][fd] = NULL THEN Hold(t, "idle", NULL) ELSE Hold(t, "retire", entry[tb][fd])
          /\ IF k = NULL THEN UNCHANGED <<ticketVars, op, published>>
             ELSE /\ k \in Tickets \ Linked
                  /\ Link(k, hand[t], t)
                  /\ op' = [op EXCEPT ![t] = k]
                  /\ published' = [published EXCEPT ![t] = fd]
    BY <1>7, ZenonT(30) DEF Install
  <2>2. /\ Executing(t) /\ at[t] = "install" /\ tb # NULL
        /\ UNCHANGED <<phase, dead, file_open, refs, destroyed, allocated, drainVars, orphan>>
    BY <1>7, ZenonT(30) DEF Install, Runs
  <2>3. tb \in Tables /\ hand[t] \in Handles /\ hand[t] # NULL
    <3>1. hand[t] # NULL
      BY <1>1, <2>2, Zenon DEF IdleHand
    <3>2. tb \in Tables /\ hand[t] \in Handles
      BY <1>1, <2>2, <3>1, Ranges, Zenon
    <3> QED
      BY <3>1, <3>2, Zenon
  <2>4. entry[tb][fd] \in Handles \cup {NULL}
    BY <1>1, <2>3, Ranges, Zenon
  <2>5. FdTypeOK'
    <3>1. /\ entry' \in [Tables -> [Fds -> Handles \cup {NULL}]]
          /\ at' \in [Actors -> {"idle", "install", "retire", "finish"}]
          /\ hand' \in [Actors -> Handles \cup {NULL}]
      BY <1>1, <2>1, <2>3, <2>4, ZenonT(30) DEF FdTypeOK, SetEntry, Hold
    <3>2. /\ handle' \in [Tickets -> Handles \cup {NULL}]
          /\ owner' \in [Tickets -> Tasks \cup {Worker, NULL}]
          /\ retired' \in [Tickets -> BOOLEAN]
          /\ op' \in [Tasks -> Tickets \cup {NULL}]
          /\ published' \in [Tasks -> Fds \cup {NULL}]
      <4>1. CASE k = NULL
        BY <1>1, <2>1, <4>1 DEF FdTypeOK, ticketVars
      <4>2. CASE k # NULL
        <5>1. /\ k \in Tickets /\ Link(k, hand[t], t)
              /\ op' = [op EXCEPT ![t] = k] /\ published' = [published EXCEPT ![t] = fd]
          BY <2>1, <4>2, Zenon
        <5>2. /\ op' \in [Tasks -> Tickets \cup {NULL}]
              /\ published' \in [Tasks -> Fds \cup {NULL}]
          BY <1>1, <5>1, Zenon DEF FdTypeOK
        <5> QED
          BY <1>1, <2>3, <5>1, <5>2, Zenon DEF FdTypeOK, Link
      <4> QED
        BY <4>1, <4>2, Zenon
    <3> QED
      BY <1>1, <2>2, <3>1, <3>2, Zenon DEF FdTypeOK, drainVars
  <2>6. HandleInv'
    <3>1. \/ UNCHANGED <<handle, retired>>
          \/ \E j \in Tickets : /\ handle[j] = NULL
                                /\ handle' = [handle EXCEPT ![j] = hand[t]]
                                /\ retired' = [retired EXCEPT ![j] = FALSE]
      BY <2>1, Zenon DEF Link, Linked, ticketVars
    <3> HIDE DEF tb
    <3> QED
      BY <1>1, <2>1, <2>2, <2>3, <3>1, PutKeeps, Zenon
  <2>7. OwnerInv'
    <3>1. CASE k = NULL
      BY <1>1, <2>1, <2>2, <3>1, OwnerFrame, Zenon DEF ticketVars
    <3>2. CASE k # NULL
      <4>1. k \in Tickets /\ handle[k] = NULL /\ Link(k, hand[t], t) /\ op' = [op EXCEPT ![t] = k]
        BY <2>1, <3>2, Zenon DEF Linked
      <4> QED
        BY <1>1, <2>2, <2>3, <4>1, LinkOwner, ZenonT(30)
    <3> QED
      BY <3>1, <3>2, Zenon
  <2>8. TableInv'
    BY <1>1, <2>1, <2>2, <2>3, TableEntry, ZenonT(30)
  <2> QED
    BY <2>5, <2>6, <2>7, <2>8, Zenon DEF FdInv
<1>8. ASSUME NEW fd \in Fds, Detach(t, fd) PROVE FdInv'
  <2> DEFINE tb == file_open[ProcessOf[t]]
  <2>1. /\ Idle(t) /\ tb # NULL /\ entry[tb][fd] # NULL
        /\ SetEntry(tb, fd, NULL) /\ Hold(t, "retire", entry[tb][fd])
        /\ UNCHANGED <<phase, dead, file_open, refs, destroyed, allocated, ticketVars, op, published,
                       drainVars, orphan>>
    BY <1>8, Zenon DEF Detach
  <2>2. tb \in Tables /\ hand[t] = NULL /\ entry[tb][fd] \in Handles
    <3>1. tb \in Tables
      BY <1>1, <2>1, Ranges, Zenon
    <3>2. hand[t] = NULL
      BY <1>1, <2>1, ZenonT(30) DEF IdleHand, Idle
    <3>3. entry[tb][fd] \in Handles
      BY <1>1, <2>1, <3>1, Ranges, Zenon
    <3> QED
      BY <3>1, <3>2, <3>3, Zenon
  <2>3. FdTypeOK'
    BY <1>1, <2>1, <2>2, ZenonT(30) DEF FdTypeOK, Hold, SetEntry, ticketVars, drainVars
  <2> HIDE DEF tb
  <2>4. HandleInv'
    BY <1>1, <2>1, <2>2, TakeKeeps, Zenon DEF ticketVars
  <2>5. TableInv'
    BY <1>1, <2>1, <2>2, TableEntry, Zenon
  <2> QED
    BY <1>1, <2>1, <2>3, <2>4, <2>5, OwnerFrame, Zenon DEF FdInv, ticketVars
<1>9. ASSUME NEW fd \in Fds, NEW p \in Processes, NEW k \in Tickets, Acquire(t, p, fd, k) PROVE FdInv'
  <2> DEFINE tb == file_open[p]
  <2>1. /\ Executing(t) /\ tb # NULL /\ entry[tb][fd] # NULL /\ handle[k] = NULL
        /\ Link(k, entry[tb][fd], t)
        /\ op' = [op EXCEPT ![t] = k]
        /\ UNCHANGED <<phase, dead, tableVars, allocated, at, hand, published, drainVars, orphan>>
    BY <1>9, Zenon DEF Acquire, Idle, Runs, Linked
  <2>2. tb \in Tables /\ entry[tb][fd] \in Handles
    <3>1. tb \in Tables
      BY <1>1, <2>1, Ranges, Zenon
    <3> QED
      BY <1>1, <2>1, <3>1, Ranges, Zenon
  <2>3. FdTypeOK'
    BY <1>1, <2>1, <2>2, Zenon DEF FdTypeOK, Link, tableVars, drainVars
  <2> HIDE DEF tb
  <2>4. HandleInv'
    BY <1>1, <2>1, <2>2, LinkKeeps, ZenonT(30) DEF Link, tableVars
  <2>5. OwnerInv'
    BY <1>1, <2>1, <2>2, LinkOwner, ZenonT(30)
  <2> QED
    BY <1>1, <2>1, <2>3, <2>4, <2>5, TableFrame, Zenon DEF FdInv
<1>10. CASE Retire(t) \/ Finish(t)
  BY <1>10, ClosePreserves, Zenon
<1> QED
  BY <1>2, <1>3, <1>4, <1>5, <1>6, <1>7, <1>8, <1>9, <1>10, Zenon DEF ThreadStep

(* Removing the ticket of a thread that no longer executes, or of the      *)
(* worker, preserves the invariant.                                        *)
LEMMA RemovePreserves ==
    ASSUME FdInv, NEW a \in Actors, at[a] = "idle", NEW k \in Tickets, handle[k] # NULL, Remove(a, k),
           owner[k] \in Tasks => ~Executing(owner[k]),
           UNCHANGED <<phase, dead, tableVars, allocated, op, published, drainVars, orphan>>
    PROVE  FdInv'
<1>1. FdTypeOK /\ HandleInv /\ OwnerInv /\ TableInv
  BY Zenon DEF FdInv
<1>2. op' \in [Tasks -> Tickets \cup {NULL}] /\ published' \in [Tasks -> Fds \cup {NULL}]
  BY <1>1, Zenon DEF FdTypeOK
<1>3. FdTypeOK'
  BY <1>1, <1>2, RemoveType, Zenon
<1>4. HandleInv'
  BY <1>1, RemoveKeeps, Zenon DEF tableVars
<1>5. Unlink(k)
  BY Zenon DEF Remove
<1>6. OwnerInv'
  BY <1>1, <1>5, UnlinkOwner, Zenon
<1> QED
  BY <1>1, <1>3, <1>4, <1>6, TableFrame, Zenon DEF FdInv

(* The last step of a shared table's life: the count reaches zero with the *)
(* last process that used it.                                              *)
LEMMA DrainUnrefPreserves ==
    ASSUME FdInv, DrainUnref
    PROVE  FdInv'
<1> USE FdAssumption
<1>1. FdTypeOK /\ HandleInv /\ OwnerInv /\ TableInv
  BY Zenon DEF FdInv
<1>2. /\ stage = "unref" /\ refs' = [refs EXCEPT ![dtable] = @ - 1]
      /\ stage' = IF refs[dtable] = 1 THEN "close" ELSE "tickets"
      /\ UNCHANGED <<phase, dead, file_open, destroyed, entry, allocated, ticketVars, actorVars,
                     draining, dtable, drained, orphan>>
  BY Zenon DEF DrainUnref
<1>3. dtable \in Tables /\ draining \in Processes /\ file_open[draining] = NULL /\ dtable # NULL
  BY <1>1, <1>2, Zenon DEF TableInv
<1>4. IsFiniteSet(Users(dtable)) /\ draining \in Users(dtable)
  <2>1. Users(dtable) \subseteq Processes
    BY <1>3, Zenon DEF Users
  <2> QED
    BY <1>2, <2>1, FS_Subset, Zenon DEF Users
<1>5. Users(dtable)' = Users(dtable) \ {draining}
  BY <1>2, <1>3, Zenon DEF Users
<1>6. \A tb \in Tables : tb # dtable => Users(tb)' = Users(tb)
  BY <1>2, Zenon DEF Users
<1>7. Cardinality(Users(dtable)') = Cardinality(Users(dtable)) - 1 /\ Cardinality(Users(dtable)') \in Nat
  BY <1>4, <1>5, FS_RemoveElement, FS_CardinalityType, Zenon
<1>8. refs[dtable] = Cardinality(Users(dtable)) /\ refs[dtable] \in Nat
  BY <1>1, <1>3, Zenon DEF TableInv, FdTypeOK
<1>9. refs' \in [Tables -> Nat] /\ \A tb \in Tables : refs'[tb] = Cardinality(Users(tb)')
  <2>1. refs'[dtable] = Cardinality(Users(dtable)') /\ refs'[dtable] \in Nat
    BY <1>1, <1>2, <1>3, <1>7, <1>8, Zenon DEF FdTypeOK
  <2>2. \A tb \in Tables : tb # dtable => refs'[tb] = Cardinality(Users(tb)')
    <3>1. \A tb \in Tables : tb # dtable => refs'[tb] = refs[tb]
      BY <1>1, <1>2, ZenonT(40) DEF FdTypeOK
    <3> QED
      BY <1>1, <1>6, <3>1, ZenonT(30) DEF TableInv
  <2>3. refs' \in [Tables -> Nat]
    BY <1>1, <1>2, <1>3, <1>7, <1>8 DEF FdTypeOK
  <2>4. dtable' = dtable
    BY <1>2, Zenon
  <2> QED
    BY <2>1, <2>2, <2>3, <2>4, Zenon
<1>10. stage' = "close" => \A p \in Processes : file_open[p] # dtable
  <2>1. stage' = "close" => Cardinality(Users(dtable)') = 0
    BY <1>2, <1>7, <1>8
  <2>2. IsFiniteSet(Users(dtable)')
    BY <1>4, <1>5, FS_RemoveElement, Zenon
  <2>3. stage' = "close" => Users(dtable)' = {}
    BY <2>1, <2>2, FS_EmptySet, Zenon
  <2> QED
    BY <1>2, <2>3, Zenon DEF Users
<1>11. FdTypeOK'
  BY <1>1, <1>2, <1>9, Zenon DEF FdTypeOK, ticketVars, actorVars
<1>12. HandleInv'
  BY <1>1, <1>2, HandleFrame, Zenon DEF handleVars, ticketVars, actorVars
<1>13. OwnerInv'
  BY <1>1, <1>2, Zenon
     DEF OwnerInv, TicketOfExecutingThread, Executing, Linked, Members, ticketVars, actorVars
<1>14. TableInv'
  <2>1. NoDestroyedTable'
    BY <1>1, <1>2, Zenon DEF TableInv, NoDestroyedTable
  <2> QED
    BY <1>1, <1>2, <1>3, <1>9, <1>10, <2>1, Zenon DEF TableInv
<1> QED
  BY <1>11, <1>12, <1>13, <1>14, Zenon DEF FdInv

(* The reaper and the worker preserve the invariant. *)
LEMMA ReaperPreserves ==
    ASSUME FdInv, ReaperStep \/ WorkerStep
    PROVE  FdInv'
<1>0. Reaper \in Actors /\ Worker \in Actors /\ Worker \notin Tasks
  BY FdAssumption, Zenon DEF Actors
<1>1. FdTypeOK /\ HandleInv /\ OwnerInv /\ TableInv /\ IdleHand
  BY Zenon DEF FdInv, HandleInv
<1>2. ASSUME NEW k \in Tickets, Reap(k) \/ DrainTicket(k) \/ WorkerRelease(k) PROVE FdInv'
  <2>1. handle[k] # NULL
    BY <1>2, Zenon DEF Reap, DrainTicket, WorkerRelease, Linked
  <2>2. owner[k] \in Tasks => ~Executing(owner[k])
    BY <1>0, <1>1, <1>2, Zenon
       DEF Reap, DrainTicket, WorkerRelease, OwnerQuiescent, OwnerInv, Executing
  <2>3. UNCHANGED <<phase, dead, tableVars, allocated, op, published, drainVars, orphan>>
    BY <1>2, Zenon DEF Reap, DrainTicket, WorkerRelease
  <2>4. \E a \in Actors : at[a] = "idle" /\ Remove(a, k)
    BY <1>0, <1>2, Zenon DEF Reap, DrainTicket, WorkerRelease, Idle
  <2> QED
    BY <2>1, <2>2, <2>3, <2>4, RemovePreserves, Zenon
<1>3. ASSUME NEW p \in Processes, DrainTable(p) PROVE FdInv'
  <2>1. /\ stage = "idle" /\ p \notin drained /\ \A t \in Members(p) : phase[t] = "stopped"
        /\ draining' = p /\ dtable' = file_open[p] /\ stage' = "unref"
        /\ file_open' = [file_open EXCEPT ![p] = NULL]
        /\ UNCHANGED <<phase, dead, refs, destroyed, entry, allocated, ticketVars, actorVars, drained, orphan>>
    BY <1>3, Zenon DEF DrainTable
  <2>2. file_open[p] \in Tables /\ file_open[p] # NULL
    BY <1>1, <2>1, FdAssumption DEF TableInv, FdTypeOK
  <2>3. /\ file_open'[p] = NULL /\ \A q \in Processes : q # p => file_open'[q] = file_open[q]
        /\ file_open' \in [Processes -> Tables \cup {NULL}]
    BY <1>1, <2>1, Zenon DEF FdTypeOK
  <2>4. FdTypeOK'
    BY <1>1, <2>1, <2>2, <2>3, Zenon DEF FdTypeOK, ticketVars, actorVars
  <2>5. HandleInv'
    BY <1>1, <2>1, HandleFrame, Zenon DEF handleVars, ticketVars, actorVars
  <2>6. OwnerInv'
    BY <1>1, <2>1, Zenon
       DEF OwnerInv, TicketOfExecutingThread, Executing, Linked, Members, ticketVars, actorVars
  <2>7. \A tb \in Tables : Users(tb)' = Users(tb)
    <3> SUFFICES ASSUME NEW tb \in Tables PROVE Users(tb)' = Users(tb)
      BY Zenon
    <3>1. Users(tb) = {q \in Processes : file_open[q] = tb}
      BY <2>1, Zenon DEF Users
    <3>2. Users(tb)' = {q \in Processes : file_open'[q] = tb} \cup (IF file_open[p] = tb THEN {p} ELSE {})
      BY <2>1, Zenon DEF Users
    <3>3. \A q \in Processes : file_open'[q] = tb <=> q # p /\ file_open[q] = tb
      BY <2>3, FdAssumption, ZenonT(40)
    <3> QED
      BY <3>1, <3>2, <3>3, Zenon
  <2>8. NoDestroyedTable'
    <3>1. destroyed \subseteq Tables /\ NULL \notin Tables
      BY <1>1, FdAssumption, Zenon DEF FdTypeOK
    <3> QED
      BY <1>1, <2>1, <2>3, <3>1 DEF TableInv, NoDestroyedTable
  <2>9. TableInv'
    BY <1>1, <2>1, <2>2, <2>3, <2>7, <2>8, Zenon DEF TableInv
  <2> QED
    BY <2>4, <2>5, <2>6, <2>9, Zenon DEF FdInv
<1>4. ASSUME NEW p \in Processes, FreeThreads(p) PROVE FdInv'
  <2>1. /\ p \in drained /\ stage = "idle" /\ \A t \in Members(p) : phase[t] = "stopped"
        /\ phase' = [t \in Tasks |-> IF t \in Members(p) THEN "freed" ELSE phase[t]]
        /\ UNCHANGED <<dead, tableVars, allocated, ticketVars, actorVars, drainVars, orphan>>
    BY <1>4, Zenon DEF FreeThreads
  <2>2. FdTypeOK'
    BY <1>1, <2>1, Zenon DEF FdTypeOK, Phases, tableVars, ticketVars, actorVars, drainVars
  <2>3. HandleInv'
    BY <1>1, <2>1, HandleFrame, Zenon DEF handleVars, tableVars, ticketVars, actorVars
  <2>4. TicketOfExecutingThread'
    BY <1>1, <2>1, Zenon
       DEF OwnerInv, TicketOfExecutingThread, Executing, Linked, ticketVars, actorVars
  <2>5. OwnerInv'
    BY <1>1, <2>1, <2>4, Zenon DEF OwnerInv, Members, ticketVars, drainVars
  <2> QED
    BY <1>1, <2>1, <2>2, <2>3, <2>5, TableFrame, Zenon DEF FdInv
<1>5. ASSUME NEW fd \in Fds, DrainFirst(fd) PROVE FdInv'
  <2>1. /\ stage = "close" /\ Idle(Reaper) /\ entry[dtable][fd] # NULL
        /\ SetEntry(dtable, fd, NULL) /\ Hold(Reaper, "retire", entry[dtable][fd])
        /\ UNCHANGED <<phase, dead, file_open, refs, destroyed, allocated, ticketVars, op, published,
                       drainVars, orphan>>
    BY <1>5, Zenon DEF DrainFirst
  <2>2. dtable \in Tables /\ hand[Reaper] = NULL
    BY <1>0, <1>1, <2>1, Zenon DEF TableInv, IdleHand, Idle
  <2>3. entry[dtable][fd] \in Handles
    BY <1>1, <2>1, <2>2, Ranges, Zenon
  <2>4. FdTypeOK'
    BY <1>0, <1>1, <2>1, <2>2, <2>3, Zenon DEF FdTypeOK, Hold, SetEntry, ticketVars, drainVars
  <2>5. HandleInv'
    BY <1>0, <1>1, <2>1, <2>2, TakeKeeps, ZenonT(30) DEF ticketVars
  <2>6. TableInv'
    BY <1>1, <2>1, <2>2, TableEntry, ZenonT(30)
  <2> QED
    BY <1>1, <2>1, <2>4, <2>5, <2>6, OwnerFrame, Zenon DEF FdInv, ticketVars
<1>6. CASE DrainDestroy
  <2>1. /\ stage = "close" /\ (\A fd \in Fds : entry[dtable][fd] = NULL)
        /\ destroyed' = destroyed \cup {dtable} /\ stage' = "tickets"
        /\ UNCHANGED <<phase, dead, file_open, refs, entry, allocated, ticketVars, actorVars,
                       draining, dtable, drained, orphan>>
    BY <1>6, Zenon DEF DrainDestroy
  <2>2. dtable \in Tables
    BY <1>1, <2>1, Zenon DEF TableInv
  <2>3. FdTypeOK'
    BY <1>1, <2>1, <2>2, Zenon DEF FdTypeOK, ticketVars, actorVars
  <2>4. HandleInv'
    BY <1>1, <2>1, HandleFrame, Zenon DEF handleVars, ticketVars, actorVars
  <2>5. OwnerInv'
    BY <1>1, <2>1, Zenon
       DEF OwnerInv, TicketOfExecutingThread, Executing, Linked, Members, ticketVars, actorVars
  <2>6. NoDestroyedTable'
    BY <1>1, <2>1, ZenonT(30) DEF TableInv, NoDestroyedTable
  <2>7. \A tb \in Tables : Users(tb)' = Users(tb)
    BY <2>1, Zenon DEF Users
  <2>8. TableInv'
    BY <1>1, <2>1, <2>6, <2>7, Zenon DEF TableInv
  <2> QED
    BY <2>3, <2>4, <2>5, <2>8, Zenon DEF FdInv
<1>7. CASE DrainEnd
  <2>1. /\ stage = "tickets" /\ stage' = "idle" /\ draining' = NULL /\ dtable' = NULL
        /\ \A k \in Tickets : handle[k] # NULL => owner[k] \notin Members(draining)
        /\ drained' = drained \cup {draining}
        /\ UNCHANGED <<phase, dead, tableVars, allocated, ticketVars, actorVars, orphan>>
    BY <1>7, Zenon DEF DrainEnd, Linked
  <2>2. draining \in Processes
    BY <1>1, <2>1, Zenon DEF OwnerInv
  <2>3. FdTypeOK'
    BY <1>1, <2>1, <2>2, Zenon DEF FdTypeOK, tableVars, ticketVars, actorVars
  <2>4. HandleInv'
    BY <1>1, <2>1, HandleFrame, ZenonT(30) DEF handleVars, tableVars, ticketVars, actorVars
  <2>5. OwnerInv'
    BY <1>1, <2>1, Zenon
       DEF OwnerInv, TicketOfExecutingThread, Executing, Linked, Members, ticketVars, actorVars
  <2>6. \A tb \in Tables : Users(tb)' = Users(tb)
    BY <2>1, Zenon DEF Users, tableVars
  <2>7. NoDestroyedTable'
    BY <1>1, <2>1, ZenonT(30) DEF TableInv, NoDestroyedTable, tableVars
  <2>8. TableInv'
    BY <1>1, <2>1, <2>6, <2>7, Zenon DEF TableInv, tableVars
  <2> QED
    BY <2>3, <2>4, <2>5, <2>8, Zenon DEF FdInv
<1>8. ASSUME NEW a \in Actors, Retire(a) \/ Finish(a) PROVE FdInv'
  BY <1>8, ClosePreserves, Zenon
<1> QED
  BY <1>0, <1>2, <1>3, <1>4, <1>5, <1>6, <1>7, <1>8, DrainUnrefPreserves, Zenon
     DEF ReaperStep, WorkerStep

(* Every step of FdNext preserves the inductive invariant. *)
LEMMA FdStep == FdInv /\ [FdNext]_fdVars => FdInv'
<1> SUFFICES ASSUME FdInv, [FdNext]_fdVars PROVE FdInv'
  BY Zenon
<1>1. FdTypeOK /\ HandleInv /\ OwnerInv /\ TableInv
  BY Zenon DEF FdInv
<1>2. ASSUME NEW t \in Tasks, KillThread(t) PROVE FdInv'
  <2>1. /\ phase[t] \in {"live", "dying"}
        /\ \E s \in {"dying", "stopped"} : phase' = [phase EXCEPT ![t] = s]
        /\ UNCHANGED <<dead, tableVars, allocated, ticketVars, actorVars, drainVars>>
    BY <1>2, Zenon DEF KillThread, Kill, Stop
  <2>2. phase' \in [Tasks -> Phases] /\ phase'[t] \in {"dying", "stopped"}
        /\ \A u \in Tasks : u # t => phase'[u] = phase[u]
    BY <1>1, <2>1, Zenon DEF FdTypeOK, Phases
  <2>3. orphan' \subseteq Handles
    BY <1>1, <1>2 DEF KillThread, Lose, FdTypeOK, Actors
  <2>4. FdTypeOK'
    BY <1>1, <2>1, <2>2, <2>3, ZenonT(30) DEF FdTypeOK, tableVars, ticketVars, actorVars, drainVars
  <2>5. HandleInv'
    BY <1>1, <2>1, HandleFrame, Zenon DEF handleVars, tableVars, ticketVars, actorVars
  <2>6. TicketOfExecutingThread'
    BY <1>1, <2>1, <2>2, ZenonT(40)
       DEF OwnerInv, TicketOfExecutingThread, Executing, Linked, ticketVars, actorVars
  <2>7. OwnerInv'
    BY <1>1, <2>1, <2>2, <2>6 DEF OwnerInv, Members, ticketVars, drainVars
  <2> QED
    BY <1>1, <2>1, <2>4, <2>5, <2>7, TableFrame, Zenon DEF FdInv
<1>3. ASSUME NEW p \in Processes, KillProcess(p) PROVE FdInv'
  <2>1. dead' = dead \cup {p}
        /\ UNCHANGED <<phase, tableVars, allocated, ticketVars, actorVars, drainVars, orphan>>
    BY <1>3, Zenon DEF KillProcess
  <2>2. FdTypeOK'
    BY <1>1, <2>1, Zenon DEF FdTypeOK, tableVars, ticketVars, actorVars, drainVars
  <2> QED
    BY <1>1, <2>1, <2>2, HandleFrame, OwnerFrame, TableFrame, Zenon
       DEF FdInv, handleVars, tableVars, ticketVars, actorVars
<1>4. CASE UNCHANGED fdVars
  <2>1. FdTypeOK'
    BY <1>1, <1>4, Zenon DEF FdTypeOK, fdVars, tableVars, ticketVars, actorVars, drainVars
  <2> QED
    BY <1>1, <1>4, <2>1, HandleFrame, OwnerFrame, TableFrame, Zenon
       DEF FdInv, fdVars, handleVars, tableVars, ticketVars, actorVars
<1> QED
  BY <1>2, <1>3, <1>4, ThreadPreserves, ReaperPreserves, Zenon DEF FdNext

(* Handles, owners and tables always fit together. *)
THEOREM FdInvariant == FdSpec => []FdInv
BY FdInitial, FdStep, PTL DEF FdSpec

(* A handle that a ticket holds is not freed, whatever closes, exits and   *)
(* drains run beside the system call.                                      *)
THEOREM TicketsPin == FdSpec => []TicketPinsHandle
<1>1. FdInv => TicketPinsHandle
  BY Zenon DEF FdInv, HandleInv
<1> QED
  BY <1>1, FdInvariant, PTL

(* finish_handle runs once for each handle: nothing else can reach it. *)
THEOREM ClosesOnce == FdSpec => []ClosedOnce
<1>1. FdInv => ClosedOnce
  BY Zenon DEF FdInv, HandleInv
<1> QED
  BY <1>1, FdInvariant, PTL

(* No operation starts on a closed descriptor. *)
THEOREM RetiredDetached == FdSpec => []RetiredIsDetached
<1>1. FdInv => RetiredIsDetached
  BY Zenon DEF FdInv, HandleInv
<1> QED
  BY <1>1, FdInvariant, PTL

(* The record of an open operation is not freed under its thread. *)
THEOREM TicketStays == FdSpec => []TicketOfExecutingThread
<1>1. FdInv => TicketOfExecutingThread
  BY Zenon DEF FdInv, OwnerInv
<1> QED
  BY <1>1, FdInvariant, PTL

(* The reaper's look at the owner of a ticket never reads freed memory. *)
THEOREM OwnersNotFreed == FdSpec => []NoFreedTicketOwner
<1>1. FdInv => NoFreedTicketOwner
  BY Zenon DEF FdInv, OwnerInv, NoFreedTicketOwner, Members, Linked
<1> QED
  BY <1>1, FdInvariant, PTL

(* The reference count destroys a table with its last process only. *)
THEOREM TablesCounted == FdSpec => []NoDestroyedTable
<1>1. FdInv => NoDestroyedTable
  BY Zenon DEF FdInv, TableInv
<1> QED
  BY <1>1, FdInvariant, PTL

(* No ticket, owner or table that can still be reached has been freed. *)
THEOREM NoneDangles == FdSpec => []NothingDangles
BY TicketsPin, OwnersNotFreed, TablesCounted, PTL DEF NothingDangles
-----------------------------------------------------------------------------
(***************************************************************************)
(* No descriptor is lost.                                                  *)
(***************************************************************************)

(* Where HandleAccounted looks for a handle. *)
Accounted(h) ==
    \/ Named(h)
    \/ \E a \in Actors : Runs(a) /\ hand[a] = h
    \/ \E k \in Tickets : handle[k] = h /\ retired[k]

(* A descriptor leaves its entry for the hands of a running actor, which   *)
(* may have put another one in its place.                                  *)
LEMMA TakeAccounted ==
    ASSUME FdTypeOK, NEW a \in Actors, Runs(a), NEW tb \in Tables, NEW fd \in Fds,
           NEW b \in Handles \cup {NULL}, hand[a] \in {b, NULL}, SetEntry(tb, fd, b),
           hand' = [hand EXCEPT ![a] = entry[tb][fd]], UNCHANGED phase,
           NEW h \in Handles, Accounted(h),
           \A k \in Tickets : handle[k] = h /\ retired[k] => handle'[k] = h /\ retired'[k]
    PROVE  Accounted(h)'
<1>0. /\ entry'[tb][fd] = b /\ hand'[a] = entry[tb][fd] /\ Runs(a)' /\ NULL \notin Handles
      /\ \A tc \in Tables, fe \in Fds : tc # tb \/ fe # fd => entry'[tc][fe] = entry[tc][fe]
      /\ \A c \in Actors : c # a => hand'[c] = hand[c] /\ (Runs(c) => Runs(c)')
  <2>1. /\ entry'[tb][fd] = b
        /\ \A tc \in Tables, fe \in Fds : tc # tb \/ fe # fd => entry'[tc][fe] = entry[tc][fe]
    BY Zenon DEF FdTypeOK, SetEntry
  <2>2. hand'[a] = entry[tb][fd] /\ \A c \in Actors : c # a => hand'[c] = hand[c]
    BY Zenon DEF FdTypeOK
  <2>3. Runs(a)' /\ \A c \in Actors : Runs(c) => Runs(c)'
    BY Zenon DEF Runs, Executing
  <2> QED
    BY <2>1, <2>2, <2>3, FdAssumption, Zenon
<1>1. CASE Named(h)
  <2>1. PICK tc \in Tables, fe \in Fds : entry[tc][fe] = h
    BY <1>1, Zenon DEF Named
  <2>2. CASE tc = tb /\ fe = fd
    BY <1>0, <2>1, <2>2, Zenon DEF Accounted
  <2>3. CASE ~(tc = tb /\ fe = fd)
    BY <1>0, <2>1, <2>3 DEF Accounted, Named
  <2> QED
    BY <2>2, <2>3, Zenon
<1>2. CASE \E c \in Actors : Runs(c) /\ hand[c] = h
  <2>1. PICK c \in Actors : Runs(c) /\ hand[c] = h
    BY <1>2, Zenon
  <2>2. CASE c = a
    BY <1>0, <2>1, <2>2 DEF Accounted, Named
  <2>3. CASE c # a
    BY <1>0, <2>1, <2>3, Zenon DEF Accounted
  <2> QED
    BY <2>2, <2>3, Zenon
<1>3. CASE \E k \in Tickets : handle[k] = h /\ retired[k]
  BY <1>3, Zenon DEF Accounted
<1> QED
  BY <1>1, <1>2, <1>3, Zenon DEF Accounted

(* Removing a ticket leaves its handle to its other tickets or to the      *)
(* remover.                                                                *)
LEMMA RemoveAccounted ==
    ASSUME FdTypeOK, RetiredIsDetached, NEW a \in Actors, Runs(a), hand[a] = NULL, NEW j \in Tickets,
           handle[j] # NULL, Remove(a, j), UNCHANGED <<phase, entry>>, NEW h \in Handles, Accounted(h)
    PROVE  Accounted(h)'
<1>0. /\ NULL \notin Handles /\ \A c \in Actors : Runs(c) => Runs(c)'
      /\ handle \in [Tickets -> Handles \cup {NULL}] /\ retired \in [Tickets -> BOOLEAN]
      /\ hand \in [Actors -> Handles \cup {NULL}]
  BY FdAssumption, Zenon DEF FdTypeOK, Runs, Executing
<1>1. CASE Named(h)
  BY <1>1, Zenon DEF Accounted, Named
<1>2. CASE \E c \in Actors : Runs(c) /\ hand[c] = h
  <2>1. PICK c \in Actors : Runs(c) /\ hand[c] = h
    BY <1>2, Zenon
  <2>2. c # a /\ hand'[c] = hand[c]
    BY <1>0, <2>1, Zenon DEF Remove, Hold
  <2> QED
    BY <1>0, <2>1, <2>2, Zenon DEF Accounted
<1>3. CASE \E k \in Tickets : handle[k] = h /\ retired[k]
  <2>1. PICK k \in Tickets : handle[k] = h /\ retired[k]
    BY <1>3, Zenon
  <2>2. handle' = [handle EXCEPT ![j] = NULL] /\ retired' = [retired EXCEPT ![j] = FALSE]
    BY Zenon DEF Remove, Unlink
  <2>3. CASE k # j
    BY <1>0, <2>1, <2>2, <2>3, Zenon DEF Accounted
  <2>4. CASE k = j /\ Pins(handle[j]) = {j}
    <3>1. hand' = [hand EXCEPT ![a] = h]
      BY <2>1, <2>4, Zenon DEF Remove, Hold
    <3> QED
      BY <1>0, <3>1, Zenon DEF Accounted
  <2>5. CASE k = j /\ Pins(handle[j]) # {j}
    <3>1. PICK i \in Tickets : handle[i] = handle[j] /\ i # j
      BY <2>1, <2>5, Zenon DEF Pins
    <3>2. retired[i]
      BY <2>1, <2>5, <3>1, Zenon DEF RetiredIsDetached, Linked, Pins
    <3> QED
      BY <1>0, <2>1, <2>2, <2>5, <3>1, <3>2, Zenon DEF Accounted
  <2> QED
    BY <2>3, <2>4, <2>5, Zenon
<1> QED
  BY <1>1, <1>2, <1>3, Zenon DEF Accounted

(* A step that takes nothing out of an entry, a running hand or the        *)
(* retired tickets keeps every handle accounted for.                       *)
LEMMA KeepAccounted ==
    ASSUME FdTypeOK, NEW h \in Handles, Accounted(h),
           \A tb \in Tables, fd \in Fds : entry[tb][fd] = h => entry'[tb][fd] = h,
           \A a \in Actors : Runs(a) /\ hand[a] = h => Runs(a)' /\ hand'[a] = h,
           \A k \in Tickets : handle[k] = h /\ retired[k] => handle'[k] = h /\ retired'[k]
    PROVE  Accounted(h)'
<1>1. CASE Named(h)
  BY <1>1, Zenon DEF Accounted, Named
<1>2. CASE \E a \in Actors : Runs(a) /\ hand[a] = h
  BY <1>2, Zenon DEF Accounted
<1>3. CASE \E k \in Tickets : handle[k] = h /\ retired[k]
  BY <1>3, Zenon DEF Accounted
<1> QED
  BY <1>1, <1>2, <1>3, Zenon DEF Accounted

(* Every step accounts for the handles it leaves allocated. *)
LEMMA AccountStep == FdInv /\ HandleAccounted /\ [FdNext]_fdVars => HandleAccounted'
<1> SUFFICES ASSUME FdInv, HandleAccounted, [FdNext]_fdVars, NEW h \in allocated' \ orphan'
             PROVE  Accounted(h)'
  <2>1. (\A h \in allocated' \ orphan' : Accounted(h)') => HandleAccounted'
    BY Zenon DEF HandleAccounted, Accounted, Pins
  <2> QED
    BY <2>1, Zenon
<1>0. FdTypeOK /\ IdleHand /\ RetiredIsDetached /\ TableInv /\ TicketOfExecutingThread /\ FdTypeOK'
  BY FdStep, Zenon DEF FdInv, HandleInv, OwnerInv
<1>1. h \in Handles /\ (h \in allocated \ orphan => Accounted(h)) /\ h # NULL
  <2>1. allocated' \subseteq Handles
    BY <1>0, Zenon DEF FdTypeOK
  <2>2. \A g \in allocated \ orphan : Accounted(g)
    BY Zenon DEF HandleAccounted, Accounted, Pins
  <2>3. NULL \notin Handles
    BY FdAssumption, Zenon
  <2> QED
    BY <2>1, <2>2, <2>3, Zenon
<1>2. ASSUME UNCHANGED <<phase, entry, hand, handle, retired>>, h \in allocated \ orphan PROVE Accounted(h)'
  BY <1>0, <1>1, <1>2, KeepAccounted, Zenon DEF Runs, Executing
<1>3. ASSUME NEW a \in Actors, Retire(a) PROVE Accounted(h)'
  <2>1. /\ retired' = [k \in Tickets |-> retired[k] \/ handle[k] = hand[a]]
        /\ UNCHANGED <<phase, entry, allocated, handle, orphan>> /\ Runs(a)
    BY <1>3, Zenon DEF Retire, Pins, tableVars
  <2>2. CASE h = hand[a] /\ Pins(h) = {}
    <3>1. hand' = [hand EXCEPT ![a] = h]
      BY <1>3, <2>2, Zenon DEF Retire, Hold
    <3> QED
      BY <1>0, <2>1, <3>1, Zenon DEF Accounted, FdTypeOK, Runs, Executing
  <2>3. CASE h = hand[a] /\ Pins(h) # {}
    BY <2>1, <2>3, ZenonT(30) DEF Accounted, Pins
  <2>4. CASE h # hand[a]
    <3>1. \A c \in Actors : hand[c] = h => hand'[c] = h
      BY <1>0, <1>3, <2>4, Zenon DEF Retire, Hold, FdTypeOK
    <3> QED
      BY <1>0, <1>1, <2>1, <3>1, KeepAccounted, ZenonT(30) DEF Runs, Executing
  <2> QED
    BY <2>2, <2>3, <2>4, Zenon
<1>4. ASSUME NEW a \in Actors, Finish(a) PROVE Accounted(h)'
  <2>1. /\ allocated' = allocated \ {hand[a]} /\ hand' = [hand EXCEPT ![a] = NULL]
        /\ UNCHANGED <<phase, entry, handle, retired, orphan>>
    BY <1>4, Zenon DEF Finish, Hold, tableVars, ticketVars
  <2>2. \A c \in Actors : hand[c] = h => hand'[c] = h
    BY <1>0, <2>1, Zenon DEF FdTypeOK
  <2> QED
    BY <1>0, <1>1, <2>1, <2>2, KeepAccounted, Zenon DEF Runs, Executing
<1>5. ASSUME NEW a \in Actors, Idle(a), NEW k \in Tickets, handle[k] # NULL, Remove(a, k),
             UNCHANGED <<phase, tableVars, allocated, orphan>>
      PROVE  Accounted(h)'
  BY <1>0, <1>1, <1>5, RemoveAccounted, Zenon DEF Idle, IdleHand, tableVars
<1>6. ASSUME NEW a \in Actors, Idle(a), NEW tb \in Tables, NEW fd \in Fds, SetEntry(tb, fd, NULL),
             Hold(a, "retire", entry[tb][fd]), UNCHANGED <<phase, allocated, ticketVars, orphan>>
      PROVE  Accounted(h)'
  BY <1>0, <1>1, <1>6, TakeAccounted, ZenonT(30) DEF Idle, IdleHand, Hold, ticketVars
<1>7. ASSUME NEW t \in Tasks, ThreadStep(t) PROVE Accounted(h)'
  <2>0. t \in Actors
    BY Zenon DEF Actors
  <2>1. CASE MakeHandle(t)
    <3>1. PICK n \in Handles \ allocated : allocated' = allocated \cup {n} /\ Hold(t, "install", n)
      BY <2>1, Zenon DEF MakeHandle
    <3>2. Runs(t) /\ hand[t] = NULL /\ UNCHANGED <<phase, entry, handle, retired, orphan>>
      BY <1>0, <2>0, <2>1, Zenon DEF MakeHandle, Idle, IdleHand, tableVars, ticketVars
    <3>3. hand'[t] = n /\ \A c \in Actors : c # t => hand'[c] = hand[c]
      BY <1>0, <2>0, <3>1, Zenon DEF Hold, FdTypeOK
    <3>4. CASE h = n
      BY <2>0, <3>2, <3>3, <3>4, Zenon DEF Accounted, Runs, Executing
    <3>5. CASE h # n
      <4>1. h \in allocated \ orphan /\ \A c \in Actors : hand[c] = h => hand'[c] = h
        BY <1>1, <3>1, <3>2, <3>3, <3>5, Zenon
      <4> QED
        BY <1>0, <1>1, <3>2, <4>1, KeepAccounted, Zenon DEF Runs, Executing
    <3> QED
      BY <3>4, <3>5, Zenon
  <2>2. CASE InstallFails(t)
    <3>1. hand' = hand
      BY <1>0, <2>0, <2>2, Zenon DEF InstallFails, Hold, FdTypeOK
    <3> QED
      BY <1>2, <2>2, <3>1, Zenon DEF InstallFails, tableVars, ticketVars
  <2>3. CASE DetachIf(t)
    <3> DEFINE tb == file_open[ProcessOf[t]]
               fd == published[t]
    <3>1. CASE UNCHANGED <<entry, at, hand>>
      BY <1>2, <2>3, <3>1, Zenon DEF DetachIf, ticketVars
    <3>2. CASE tb # NULL /\ entry[tb][fd] = handle[op[t]] /\ SetEntry(tb, fd, NULL)
               /\ Hold(t, "retire", handle[op[t]])
      <4>1. tb \in Tables /\ fd \in Fds /\ Idle(t)
        BY <1>0, <2>3, <3>2, FdAssumption, ZenonT(30) DEF DetachIf, FdTypeOK
      <4> QED
        BY <1>6, <2>0, <2>3, <3>2, <4>1, Zenon DEF DetachIf
    <3> QED
      BY <2>3, <3>1, <3>2, Zenon DEF DetachIf
  <2>4. CASE Transfer(t)
    BY <1>2, <2>4, Zenon DEF Transfer, tableVars
  <2>5. CASE Release(t)
    <3>1. op[t] \in Tickets /\ handle[op[t]] # NULL
      BY <1>0, <2>5, Zenon DEF Release, Idle, Runs, TicketOfExecutingThread, Linked, FdTypeOK
    <3> QED
      BY <1>5, <2>0, <2>5, <3>1, Zenon DEF Release
  <2>6. ASSUME NEW m \in Fds, NEW exact \in BOOLEAN, NEW k \in Tickets \cup {NULL}, Install(t, m, exact, k)
        PROVE  Accounted(h)'
    <3> DEFINE tb == file_open[ProcessOf[t]]
    <3>1. PICK fd \in Fds :
            /\ SetEntry(tb, fd, hand[t])
            /\ IF entry[tb][fd] = NULL THEN Hold(t, "idle", NULL) ELSE Hold(t, "retire", entry[tb][fd])
            /\ k = NULL => UNCHANGED ticketVars
            /\ k # NULL => k \in Tickets \ Linked /\ Link(k, hand[t], t)
      BY <2>6, Zenon DEF Install
    <3>2. Runs(t) /\ tb \in Tables /\ UNCHANGED <<phase, allocated, orphan>>
      BY <1>0, <2>6, FdAssumption, ZenonT(40) DEF Install, FdTypeOK
    <3>3. \A j \in Tickets : handle[j] = h /\ retired[j] => handle'[j] = h /\ retired'[j]
      BY <1>0, <1>1, <3>1 DEF FdTypeOK, Link, Linked, ticketVars
    <3>4. hand' = [hand EXCEPT ![t] = entry[tb][fd]]
      BY <3>1, Zenon DEF Hold
    <3>5. hand[t] \in Handles \cup {NULL}
      BY <1>0, <2>0, Zenon DEF FdTypeOK
    <3> HIDE DEF tb
    <3> QED
      BY <1>0, <1>1, <2>0, <3>1, <3>2, <3>3, <3>4, <3>5, TakeAccounted, ZenonT(30)
  <2>7. ASSUME NEW fd \in Fds, Detach(t, fd) PROVE Accounted(h)'
    <3>1. file_open[ProcessOf[t]] \in Tables
      BY <1>0, <2>7, FdAssumption DEF Detach, FdTypeOK
    <3> QED
      BY <1>6, <2>0, <2>7, <3>1, ZenonT(40) DEF Detach
  <2>8. ASSUME NEW fd \in Fds, NEW p \in Processes, NEW k \in Tickets, Acquire(t, p, fd, k)
        PROVE  Accounted(h)'
    <3>1. /\ handle[k] = NULL /\ Link(k, entry[file_open[p]][fd], t)
          /\ UNCHANGED <<phase, entry, allocated, hand, orphan>>
      BY <2>8, Zenon DEF Acquire, Linked, tableVars
    <3>2. \A j \in Tickets : handle[j] = h /\ retired[j] => handle'[j] = h /\ retired'[j]
      BY <1>0, <1>1, <3>1 DEF FdTypeOK, Link
    <3> QED
      BY <1>0, <1>1, <3>1, <3>2, KeepAccounted, Zenon DEF Runs, Executing
  <2> QED
    BY <1>3, <1>4, <1>7, <2>0, <2>1, <2>2, <2>3, <2>4, <2>5, <2>6, <2>7, <2>8 DEF ThreadStep
<1>8. CASE ReaperStep \/ WorkerStep
  <2>0. Reaper \in Actors /\ Worker \in Actors
    BY Zenon DEF Actors
  <2>1. ASSUME NEW k \in Tickets, Reap(k) \/ DrainTicket(k) \/ WorkerRelease(k) PROVE Accounted(h)'
    BY <1>5, <2>0, <2>1, Zenon DEF Reap, DrainTicket, WorkerRelease, Linked
  <2>2. ASSUME NEW p \in Processes, FreeThreads(p) PROVE Accounted(h)'
    <3>1. /\ \A t \in Members(p) : phase[t] = "stopped"
          /\ phase' = [t \in Tasks |-> IF t \in Members(p) THEN "freed" ELSE phase[t]]
          /\ UNCHANGED <<entry, allocated, hand, handle, retired, orphan>>
      BY <2>2, Zenon DEF FreeThreads, tableVars, ticketVars, actorVars
    <3>2. \A a \in Actors : Runs(a) => Runs(a)'
      BY <3>1, Zenon DEF Runs, Executing
    <3> QED
      BY <1>0, <1>1, <3>1, <3>2, KeepAccounted, Zenon
  <2>3. ASSUME NEW p \in Processes, DrainTable(p) PROVE Accounted(h)'
    BY <1>2, <2>3, Zenon DEF DrainTable, ticketVars, actorVars
  <2>4. CASE DrainUnref \/ DrainDestroy \/ DrainEnd
    BY <1>2, <2>4, Zenon DEF DrainUnref, DrainDestroy, DrainEnd, tableVars, ticketVars, actorVars
  <2>5. ASSUME NEW fd \in Fds, DrainFirst(fd) PROVE Accounted(h)'
    <3>1. dtable \in Tables
      BY <1>0, <2>5, Zenon DEF DrainFirst, TableInv
    <3> QED
      BY <1>6, <2>0, <2>5, <3>1, Zenon DEF DrainFirst
  <2> QED
    BY <1>3, <1>4, <1>8, <2>0, <2>1, <2>2, <2>3, <2>4, <2>5, Zenon DEF ReaperStep, WorkerStep
<1>9. ASSUME NEW t \in Tasks, KillThread(t) PROVE Accounted(h)'
  <2>1. /\ \E s \in {"dying", "stopped"} : phase' = [phase EXCEPT ![t] = s]
        /\ orphan' = orphan \cup ({hand[u] : u \in {v \in Tasks : phase'[v] = "stopped"}} \ {NULL})
        /\ UNCHANGED <<entry, allocated, hand, handle, retired>>
    BY <1>9, Zenon DEF KillThread, Kill, Stop, Lose, tableVars, ticketVars, actorVars
  <2>2. \A u \in Tasks : hand[u] = h => phase'[u] # "stopped"
    BY <1>1, <2>1, Zenon
  <2>3. \A u \in Tasks : hand[u] = h /\ Executing(u) => Executing(u)'
    BY <1>0, <2>1, <2>2, Zenon DEF Executing, FdTypeOK
  <2>4. \A a \in Actors : Runs(a) /\ hand[a] = h => Runs(a)'
    BY <2>3, Zenon DEF Runs
  <2> QED
    BY <1>0, <1>1, <2>1, <2>4, KeepAccounted, Zenon
<1>10. ASSUME NEW p \in Processes, KillProcess(p) PROVE Accounted(h)'
  BY <1>2, <1>10, Zenon DEF KillProcess, tableVars, ticketVars, actorVars
<1>11. CASE UNCHANGED fdVars
  BY <1>2, <1>11, Zenon DEF fdVars, tableVars, ticketVars, actorVars
<1> QED
  BY <1>7, <1>8, <1>9, <1>10, <1>11, Zenon DEF FdNext

(* No descriptor leaks but one whose closer was killed half way. *)
THEOREM HandlesAccounted == FdSpec => []HandleAccounted
<1>1. FdInit => HandleAccounted
  BY Zenon DEF FdInit, HandleAccounted
<1> QED
  BY <1>1, AccountStep, FdInvariant, PTL DEF FdSpec
=============================================================================
