--------------------------- MODULE DeliveryProofs ---------------------------
(***************************************************************************)
(* Proofs about the pipes and the message delivery on them, for any pipes, *)
(* threads, sizes and limits: a waiter that nobody would wake cannot come  *)
(* about (WaiterIsAwaited), what is freed is not used (FreedUntouched),    *)
(* and message delivery implements the mailbox (ImplementsMailbox).  The   *)
(* inductive invariant has, besides the types and WaiterIsAwaited, three   *)
(* parts.  Where a call is tells which tickets it has (CallInv).  The ring *)
(* has each channel with records once, and every record has a ticket of    *)
(* the kernel (RingInv).  An end that is closed is retired and has no      *)
(* ticket (ClosedInv).  The refinement needs one more: where the worker    *)
(* gives a record up, an end of the pipe is out of use (RefusedInv).       *)
(***************************************************************************)
EXTENDS MessageDelivery, TLAPS

Reading == {"read", "read_prepared", "read_done"}
Writing == {"write", "write_prepared", "write_done"}
Posting == {"acquire", "compare", "post"}
Call == [at : {"none"} \cup Reading \cup Writing \cup Posting, pipe : Pipes \cup {{}}, size : Nat,
         pins : SUBSET Ends]

Waiters == SUBSET (Tasks \X Nat)

\* The types of the variables that the proofs are about.
PipeTypes ==
    /\ buf \in [Pipes -> Seq(Nat)]
    /\ closed \in [Pipes -> SUBSET Ends]
    /\ retired \in [Pipes -> SUBSET Ends]
    /\ waiting \in [Pipes -> [Ends -> Waiters]]
    /\ status \in [Tasks -> {"run", "wait", "dead", "freed"}]
    /\ tid \in [Tasks -> Nat]
    /\ op \in [Tasks -> Call]
    /\ todo \in [Actors -> Waiters]

\* The ends that a call has a ticket on, by where it is.
PinsAt(where) ==
    IF where = "none" THEN {} ELSE IF where = "compare" THEN Ends
    ELSE IF where \in Reading THEN {"read"} ELSE {"write"}

\* A call of a thread that is alive has the tickets of the place it is at, and
\* one of a dead thread those that the reaper has not given back; a thread
\* sleeps in a read or a write only, and a freed one is in no call.
CallOk(c, st) ==
    /\ c.at # "none" => c.pipe \in Pipes
    /\ c.pins \subseteq PinsAt(c.at)
    /\ st \in {"run", "wait"} => c.pins = PinsAt(c.at)
    /\ st = "wait" => c.at \in Ends
    /\ st = "freed" => c.at = "none"

CallInv == \A s \in Tasks : CallOk(op[s], status[s])

Places == {"idle", "picked", "checked", "refused", "written", "release"}

\* The worker's record that is off its channel and still has its ticket.
Loose(p) == IF worker.at = "release" /\ worker.pipe = p THEN 1 ELSE 0

RingTypes ==
    /\ queue \in [Pipes -> Seq(Nat)]
    /\ ready \in Seq(Pipes)
    /\ worker \in [at : Places, pipe : Pipes \cup {{}}]
    /\ posted \in Nat
    /\ kernel \in [Pipes -> Nat]

\* The ring r has the pipes for which P holds, each of them once.
Rings(r, P) ==
    /\ \A i \in 1..Len(r) : r[i] \in P
    /\ \A i, j \in 1..Len(r) : r[i] = r[j] => i = j
    /\ \A p \in P : \E i \in 1..Len(r) : r[i] = p

\* The channels with records.
Loaded == {p \in Pipes : queue[p] # << >>}

\* message.cpp's ring has just the channels with records, each once, the one
\* the worker is about included; every record has a ticket of the kernel.
RingInv ==
    /\ Rings(ready, Loaded)
    /\ worker.at # "idle" => worker.pipe \in Pipes
    /\ worker.at \notin {"idle", "release"} => worker.pipe \in Loaded
    /\ \A p \in Pipes : kernel[p] = Len(queue[p]) + Loose(p)

ClosedInv ==
    \A p \in Pipes, e \in Ends : e \in closed[p] => e \in retired[p] /\ NoOther({}, 0, e, p)

PipeInv == PipeTypes /\ CallInv /\ ClosedInv /\ WaiterIsAwaited

DeliveryInv == PipeInv /\ RingTypes /\ RingInv
-----------------------------------------------------------------------------
\* A step that changes the call of one thread, and the state of that thread
\* perhaps, keeps what the calls have if the new call is in order.
LEMMA OneCall ==
    ASSUME PipeTypes, CallInv,
           NEW s \in Tasks, NEW c \in Call,
           op' = [op EXCEPT ![s] = c],
           \A t \in Tasks \ {s} : status'[t] = status[t],
           CallOk(c, status'[s])
    PROVE  op' \in [Tasks -> Call] /\ CallInv'
<1>1. op \in [Tasks -> Call]
  BY Zenon DEF PipeTypes
<1>2. op'[s] = c /\ \A t \in Tasks \ {s} : op'[t] = op[t]
  BY <1>1, Zenon
<1>3. op' \in [Tasks -> Call]
  BY <1>1, Zenon
<1>4. ASSUME NEW t \in Tasks PROVE CallOk(op'[t], status'[t])
  BY <1>2, Zenon DEF CallInv
<1> QED
  BY <1>3, <1>4, Zenon DEF CallInv

\* A call that goes on with the tickets it has.
LEMMA OnwardCall ==
    ASSUME PipeTypes, CallInv,
           NEW s \in Tasks, NEW where \in (Reading \cup Writing \cup Posting),
           Moved(s, where), PinsAt(where) = PinsAt(op[s].at), op[s].at # "none",
           status[s] \in {"run", "wait"},
           \A t \in Tasks \ {s} : status'[t] = status[t],
           status'[s] = "run" \/ (status'[s] = "wait" /\ where \in Ends)
    PROVE  op' \in [Tasks -> Call] /\ CallInv'
<1> DEFINE c == [op[s] EXCEPT !.at = where]
<1>1. op \in [Tasks -> Call] /\ op[s] \in Call
  BY Zenon DEF PipeTypes
<1>2. op' = [op EXCEPT ![s] = c]
  BY <1>1, Zenon DEF Moved
<1>3. c \in Call /\ c.at = where /\ c.pipe = op[s].pipe /\ c.pins = op[s].pins
  BY <1>1, SMT DEF Call
<1>4. CallOk(op[s], status[s])
  BY Zenon DEF CallInv
<1>5. CallOk(c, status'[s])
  <2> HIDE DEF c
  <2>1. c.pipe \in Pipes /\ c.pins = PinsAt(where)
    BY <1>3, <1>4, Zenon DEF CallOk
  <2>2. c.at # "none"
    BY <1>3, SMT DEF Reading, Writing, Posting
  <2> QED
    BY <1>3, <2>1, <2>2, Zenon DEF CallOk
<1> HIDE DEF c
<1> QED
  BY <1>2, <1>3, <1>5, OneCall, Zenon

\* Where a call has the ticket of the read end, and of the write end.
LEMMA PinsByPlace ==
    /\ \A w \in Reading : PinsAt(w) = {"read"}
    /\ \A w \in Writing : PinsAt(w) = {"write"}
    /\ PinsAt("acquire") = {"write"} /\ PinsAt("post") = {"write"}
    /\ PinsAt("compare") = Ends /\ PinsAt("none") = {}
BY SMT DEF PinsAt, Reading, Writing

\* A new call of a thread in none.
LEMMA NewCall ==
    ASSUME PipeTypes, CallInv,
           NEW s \in Tasks, NEW where \in {"read", "write", "acquire", "post"},
           NEW p \in Pipes, NEW n \in Nat, Begin(s, where, p, n, PinsAt(where))
    PROVE  op' \in [Tasks -> Call] /\ CallInv'
<1> DEFINE c == [at |-> where, pipe |-> p, size |-> n, pins |-> PinsAt(where)]
<1>1. PinsAt(where) \subseteq Ends
  BY SMT DEF PinsAt, Ends, Reading
<1>2. c \in Call
  BY <1>1, SMT DEF Call, Reading, Writing, Posting
<1>3. c.at = where /\ c.pipe = p /\ c.pins = PinsAt(where)
  OBVIOUS
<1>4. op' = [op EXCEPT ![s] = c] /\ status' = status /\ status[s] = "run"
  BY Zenon DEF Begin, Running
<1> HIDE DEF c
<1>5. CallOk(c, status'[s])
  BY <1>3, <1>4, Zenon DEF CallOk
<1> QED
  BY <1>2, <1>4, <1>5, OneCall, Zenon

\* A call that is over.
LEMMA NoCallOk ==
    /\ NoCall \in Call /\ NoCall.at = "none" /\ NoCall.pins = {}
    /\ \A st \in {"run", "dead", "freed"} : CallOk(NoCall, st)
<1>1. NoCall \in Call /\ NoCall.at = "none" /\ NoCall.pins = {}
  BY SMT DEF NoCall, Call
<1> QED
  BY <1>1, SMT DEF CallOk, PinsAt

\* The lists that a waker takes waiters from and adds them to keep their types.
LEMMA DetachTypes ==
    ASSUME PipeTypes, NEW x \in Actors, NEW p \in Pipes, NEW e \in Ends,
           waiting' = [waiting EXCEPT ![p][e] = {}],
           todo' = [todo EXCEPT ![x] = @ \cup waiting[p][e]]
    PROVE  waiting' \in [Pipes -> [Ends -> Waiters]] /\ todo' \in [Actors -> Waiters]
<1>1. /\ waiting \in [Pipes -> [Ends -> Waiters]]
      /\ waiting[p] \in [Ends -> Waiters] /\ waiting[p][e] \in Waiters
      /\ todo \in [Actors -> Waiters] /\ todo[x] \in Waiters
  BY Zenon DEF PipeTypes
<1>2. {} \in Waiters /\ todo[x] \cup waiting[p][e] \in Waiters
  BY <1>1, SMT DEF Waiters
<1>3. waiting' = [waiting EXCEPT ![p] = [waiting[p] EXCEPT ![e] = {}]]
  BY <1>1, Zenon
<1>4. [waiting[p] EXCEPT ![e] = {}] \in [Ends -> Waiters]
  BY <1>1, <1>2, Zenon
<1>5. waiting' \in [Pipes -> [Ends -> Waiters]]
  BY <1>1, <1>3, <1>4, Zenon
<1>6. todo' \in [Actors -> Waiters]
  BY <1>1, <1>2, Zenon
<1> QED
  BY <1>5, <1>6, Zenon

LEMMA CloseTypes ==
    ASSUME PipeTypes, NEW x \in Actors, NEW p \in Pipes, NEW e \in Ends, CloseEnd(x, e, p)
    PROVE  /\ closed' \in [Pipes -> SUBSET Ends]
           /\ waiting' \in [Pipes -> [Ends -> Waiters]] /\ todo' \in [Actors -> Waiters]
<1>1. Other(e) \in Ends
  BY SMT DEF Other, Ends
<1>2. closed \in [Pipes -> SUBSET Ends] /\ closed[p] \subseteq Ends
  BY Zenon DEF PipeTypes
<1>3. closed[p] \cup {e} \in SUBSET Ends
  BY <1>2, Zenon
<1>4. closed' \in [Pipes -> SUBSET Ends]
  BY <1>2, <1>3, Zenon DEF CloseEnd
<1>5. /\ waiting' = [waiting EXCEPT ![p][Other(e)] = {}]
      /\ todo' = [todo EXCEPT ![x] = @ \cup waiting[p][Other(e)]]
  BY Zenon DEF CloseEnd
<1> QED
  BY <1>1, <1>4, <1>5, DetachTypes, Zenon

LEMMA ReleaseTypes ==
    ASSUME PipeTypes, NEW x \in Actors, NEW p \in Pipes, NEW e \in Ends, NEW last,
           Release(x, e, p, last)
    PROVE  /\ closed' \in [Pipes -> SUBSET Ends]
           /\ waiting' \in [Pipes -> [Ends -> Waiters]] /\ todo' \in [Actors -> Waiters]
<1>1. CASE e \in retired[p] /\ last
  BY <1>1, CloseTypes, Zenon DEF Release
<1>2. CASE ~(e \in retired[p] /\ last)
  BY <1>2, Zenon DEF Release, PipeTypes
<1> QED
  BY <1>1, <1>2, Zenon

\* A call that returns, with the last ticket on its end perhaps.
LEMMA FinishTypes ==
    ASSUME PipeTypes, CallInv, NEW s \in Tasks, NEW e \in Ends, op[s].at # "none",
           Running(s), Finish(s, e), status' = status
    PROVE  /\ op' \in [Tasks -> Call] /\ CallInv'
           /\ closed' \in [Pipes -> SUBSET Ends]
           /\ waiting' \in [Pipes -> [Ends -> Waiters]] /\ todo' \in [Actors -> Waiters]
<1>1. op[s].pipe \in Pipes /\ s \in Actors
  BY Zenon DEF CallInv, CallOk, Actors
<1>2. Release(s, e, op[s].pipe, NoOther({s}, 0, e, op[s].pipe)) /\ op' = [op EXCEPT ![s] = NoCall]
  BY Zenon DEF Finish
<1>3. CallOk(NoCall, status'[s])
  BY NoCallOk, Zenon DEF Running
<1>4. op' \in [Tasks -> Call] /\ CallInv'
  BY <1>2, <1>3, NoCallOk, OneCall, Zenon
<1> QED
  BY <1>1, <1>2, <1>4, ReleaseTypes, Zenon
-----------------------------------------------------------------------------
\* What a process writes.
LEMMA FillerIsSeq ==
    ASSUME NEW n \in Nat PROVE Filler(n) \in Seq(Nat) /\ Len(Filler(n)) = n
<1>1. Filler(n) \in [1..n -> Nat]
  BY SMT DEF Filler
<1> QED
  BY <1>1, SMT DEF Filler

LEMMA LongerWith ==
    ASSUME NEW a \in Seq(Nat), NEW b \in Seq(Nat)
    PROVE  a \o b \in Seq(Nat) /\ Len(a \o b) >= Len(a)
BY SMT

\* The types and what the calls have, one lemma per kind of step.
LEMMA TransferTypes ==
    ASSUME PipeTypes, CallInv, NEW s \in Tasks, ReadSome(s) \/ WriteAll(s)
    PROVE  PipeTypes' /\ CallInv'
<1> DEFINE p == op[s].pipe
<1>1. CallOk(op[s], status[s]) /\ status[s] = "run" /\ s \in Actors
  BY ZenonT(20) DEF CallInv, ReadSome, WriteAll, Running, Actors
<1>2. op[s].at \in {"read", "read_prepared"} \/ op[s].at \in {"write", "write_prepared"}
  BY Zenon DEF ReadSome, WriteAll
<1>3. op[s].at # "none"
  BY <1>2, SMT
<1>4. p \in Pipes
  BY <1>1, <1>3, Zenon DEF CallOk
<1>5. op[s].size \in Nat /\ buf[p] \in Seq(Nat) /\ buf \in [Pipes -> Seq(Nat)]
  <2>1. op[s] \in Call /\ buf[p] \in Seq(Nat) /\ buf \in [Pipes -> Seq(Nat)]
    BY <1>4, Zenon DEF PipeTypes
  <2> QED
    BY <2>1, SMT DEF Call
<1>6. UNCHANGED <<closed, retired, status, tid>>
  BY Zenon DEF ReadSome, WriteAll
<1>7. CASE ReadSome(s)
  <2> DEFINE n == IF op[s].size < Len(buf[p]) THEN op[s].size ELSE Len(buf[p])
  <2>1. /\ waiting' = [waiting EXCEPT ![p]["write"] = {}]
        /\ todo' = [todo EXCEPT ![s] = @ \cup waiting[p]["write"]]
        /\ buf' = [buf EXCEPT ![p] = SubSeq(buf[p], n + 1, Len(buf[p]))]
        /\ Moved(s, "read_done")
    BY <1>7, Zenon DEF ReadSome
  <2>2. "write" \in Ends
    BY Zenon DEF Ends
  <2>3. waiting' \in [Pipes -> [Ends -> Waiters]] /\ todo' \in [Actors -> Waiters]
    BY <1>1, <1>4, <2>1, <2>2, DetachTypes, Zenon
  <2>4. SubSeq(buf[p], n + 1, Len(buf[p])) \in Seq(Nat)
    BY <1>5, SMT
  <2>5. buf' \in [Pipes -> Seq(Nat)]
    <3> HIDE DEF n, p
    <3> QED
      BY <1>5, <2>1, <2>4, Zenon
  <2>6. op[s].at \in Reading /\ "read_done" \in Reading
    BY <1>7, SMT DEF ReadSome, Reading
  <2>7. PinsAt("read_done") = PinsAt(op[s].at) /\ "read_done" \in Reading \cup Writing \cup Posting
    BY <2>6, PinsByPlace, Zenon
  <2>8. op' \in [Tasks -> Call] /\ CallInv'
    BY <1>1, <1>3, <1>6, <2>1, <2>7, OnwardCall, Zenon
  <2> QED
    BY <1>6, <2>3, <2>5, <2>8, Zenon DEF PipeTypes
<1>8. CASE WriteAll(s)
  <2>1. /\ waiting' = [waiting EXCEPT ![p]["read"] = {}]
        /\ todo' = [todo EXCEPT ![s] = @ \cup waiting[p]["read"]]
        /\ buf' = [buf EXCEPT ![p] = buf[p] \o Filler(op[s].size)]
        /\ Moved(s, "write_done")
    BY <1>8, Zenon DEF WriteAll
  <2>2. "read" \in Ends
    BY Zenon DEF Ends
  <2>3. waiting' \in [Pipes -> [Ends -> Waiters]] /\ todo' \in [Actors -> Waiters]
    BY <1>1, <1>4, <2>1, <2>2, DetachTypes, Zenon
  <2>4. buf[p] \o Filler(op[s].size) \in Seq(Nat)
    BY <1>5, FillerIsSeq, SMT
  <2>5. buf' \in [Pipes -> Seq(Nat)]
    <3> HIDE DEF p
    <3> QED
      BY <1>5, <2>1, <2>4, Zenon
  <2>6. op[s].at \in Writing /\ "write_done" \in Writing
    BY <1>8, SMT DEF WriteAll, Writing
  <2>7. PinsAt("write_done") = PinsAt(op[s].at) /\ "write_done" \in Reading \cup Writing \cup Posting
    BY <2>6, PinsByPlace, Zenon
  <2>8. op' \in [Tasks -> Call] /\ CallInv'
    BY <1>1, <1>3, <1>6, <2>1, <2>7, OnwardCall, Zenon
  <2> QED
    BY <1>6, <2>3, <2>5, <2>8, Zenon DEF PipeTypes
<1> QED
  BY <1>7, <1>8, Zenon

LEMMA OnwardTypes ==
    ASSUME PipeTypes, CallInv, NEW s \in Tasks, SeesClosed(s) \/ Prepare(s)
    PROVE  PipeTypes' /\ CallInv'
<1>1. CallOk(op[s], status[s]) /\ status[s] = "run" /\ status' = status
  BY Zenon DEF CallInv, SeesClosed, Prepare, Running
<1>2. \E where \in Reading \cup Writing :
         Moved(s, where) /\ PinsAt(where) = PinsAt(op[s].at) /\ op[s].at # "none"
  <2>1. CASE op[s].at \in {"read", "read_prepared"}
    <3>1. \/ Moved(s, "read_done") \/ Moved(s, "read_prepared")
      BY <2>1, SMT DEF SeesClosed, Prepare
    <3>2. {"read_done", "read_prepared", op[s].at} \subseteq Reading /\ op[s].at # "none"
      BY <2>1, SMT DEF Reading
    <3> QED
      BY <3>1, <3>2, PinsByPlace, Zenon
  <2>2. CASE op[s].at \in {"write", "write_prepared"}
    <3>1. \/ Moved(s, "write_done") \/ Moved(s, "write_prepared")
      BY <2>2, SMT DEF SeesClosed, Prepare
    <3>2. {"write_done", "write_prepared", op[s].at} \subseteq Writing /\ op[s].at # "none"
      BY <2>2, SMT DEF Writing
    <3> QED
      BY <3>1, <3>2, PinsByPlace, Zenon
  <2>3. op[s].at \in {"read", "read_prepared", "write", "write_prepared"}
    BY SMT DEF SeesClosed, Prepare
  <2> QED
    BY <2>1, <2>2, <2>3, SMT
<1>3. op' \in [Tasks -> Call] /\ CallInv'
  BY <1>1, <1>2, OnwardCall, Zenon
<1>4. UNCHANGED <<buf, closed, retired, waiting, tid, todo>>
  BY Zenon DEF SeesClosed, Prepare
<1> QED
  BY <1>1, <1>3, <1>4, Zenon DEF PipeTypes

LEMMA WaitOnTypes ==
    ASSUME PipeTypes, CallInv, NEW s \in Tasks, WaitOn(s)
    PROVE  PipeTypes' /\ CallInv'
<1> DEFINE e == IF op[s].at = "read_prepared" THEN "read" ELSE "write"
           p == op[s].pipe
<1>1. CallOk(op[s], status[s]) /\ status[s] = "run"
  BY Zenon DEF CallInv, WaitOn, Running
<1>2. /\ e \in Ends /\ e \in Reading \cup Writing /\ PinsAt(e) = PinsAt(op[s].at)
      /\ op[s].at # "none"
  BY SMT DEF WaitOn, Ends, PinsAt, Reading, Writing
<1>3. p \in Pipes
  BY <1>1, <1>2, Zenon DEF CallOk
<1>4. /\ waiting' = [waiting EXCEPT ![p][e] = @ \cup {<<s, tid[s]>>}]
      /\ status' = [status EXCEPT ![s] = "wait"]
      /\ Moved(s, e)
      /\ UNCHANGED <<buf, closed, retired, tid, todo>>
  BY Zenon DEF WaitOn
<1> HIDE DEF e, p
<1>5. status \in [Tasks -> {"run", "wait", "dead", "freed"}]
  BY Zenon DEF PipeTypes
<1>6. /\ status' \in [Tasks -> {"run", "wait", "dead", "freed"}]
      /\ status'[s] = "wait" /\ \A t \in Tasks \ {s} : status'[t] = status[t]
  BY <1>4, <1>5, Zenon
<1>7. op' \in [Tasks -> Call] /\ CallInv'
  BY <1>1, <1>2, <1>4, <1>6, OnwardCall, Zenon
<1>8. /\ waiting \in [Pipes -> [Ends -> Waiters]] /\ waiting[p] \in [Ends -> Waiters]
      /\ waiting[p][e] \in Waiters /\ <<s, tid[s]>> \in Tasks \X Nat
  <2>1. tid[s] \in Nat
    BY Zenon DEF PipeTypes
  <2>2. <<s, tid[s]>> \in Tasks \X Nat
    BY <2>1, SMT
  <2> QED
    BY <1>2, <1>3, <2>2, Zenon DEF PipeTypes
<1>9. waiting[p][e] \cup {<<s, tid[s]>>} \in Waiters
  BY <1>8, Zenon DEF Waiters
<1>10. waiting' \in [Pipes -> [Ends -> Waiters]]
  <2>1. waiting' = [waiting EXCEPT ![p] = [waiting[p] EXCEPT ![e] = waiting[p][e] \cup {<<s, tid[s]>>}]]
    BY <1>4, <1>8, Zenon
  <2>2. [waiting[p] EXCEPT ![e] = waiting[p][e] \cup {<<s, tid[s]>>}] \in [Ends -> Waiters]
    BY <1>8, <1>9, Zenon
  <2> QED
    BY <1>8, <2>1, <2>2, Zenon
<1> QED
  BY <1>4, <1>6, <1>7, <1>10, Zenon DEF PipeTypes

LEMMA ReturnTypes ==
    ASSUME PipeTypes, CallInv, NEW s \in Tasks, Return(s) \/ PostFails(s)
    PROVE  PipeTypes' /\ CallInv'
<1>1. Running(s) /\ UNCHANGED <<buf, retired, status, tid>>
  BY Zenon DEF Return, PostFails
<1>2. op[s].at # "none" /\ \E e \in Ends : Finish(s, e)
  <2>1. CASE Return(s)
    <3>1. op[s].at \in {"read_done", "write_done"}
      BY <2>1, Zenon DEF Return
    <3>2. Finish(s, IF op[s].at = "read_done" THEN "read" ELSE "write")
      BY <2>1, Zenon DEF Return
    <3> QED
      BY <3>1, <3>2, Zenon DEF Ends
  <2>2. CASE PostFails(s)
    BY <2>2, Zenon DEF PostFails, Ends, At
  <2> QED
    BY <2>1, <2>2, Zenon
<1>3. /\ op' \in [Tasks -> Call] /\ CallInv' /\ closed' \in [Pipes -> SUBSET Ends]
      /\ waiting' \in [Pipes -> [Ends -> Waiters]] /\ todo' \in [Actors -> Waiters]
  BY <1>1, <1>2, FinishTypes, Zenon
<1> QED
  BY <1>1, <1>3, Zenon DEF PipeTypes

LEMMA RetireTypes ==
    ASSUME PipeTypes, CallInv, NEW x \in Actors, NEW e \in Ends, NEW p \in Pipes, Retire(x, e, p)
    PROVE  PipeTypes' /\ CallInv'
<1>1. UNCHANGED <<buf, status, tid, op>>
  BY Zenon DEF Retire
<1>2. /\ closed' \in [Pipes -> SUBSET Ends]
      /\ waiting' \in [Pipes -> [Ends -> Waiters]] /\ todo' \in [Actors -> Waiters]
  <2>1. CASE NoOther({}, 0, e, p)
    BY <2>1, CloseTypes, Zenon DEF Retire
  <2>2. CASE ~NoOther({}, 0, e, p)
    BY <2>2, Zenon DEF Retire, PipeTypes
  <2> QED
    BY <2>1, <2>2, Zenon
<1>3. retired' \in [Pipes -> SUBSET Ends]
  <2>1. retired \in [Pipes -> SUBSET Ends] /\ retired[p] \subseteq Ends
    BY Zenon DEF PipeTypes
  <2>2. retired[p] \cup {e} \in SUBSET Ends
    BY <2>1, Zenon
  <2> QED
    BY <2>1, <2>2, Zenon DEF Retire
<1> QED
  BY <1>1, <1>2, <1>3, Zenon DEF PipeTypes, CallInv

LEMMA WakeTypes ==
    ASSUME PipeTypes, CallInv, NEW x \in Actors, Wake(x)
    PROVE  /\ PipeTypes' /\ CallInv'
           /\ \A t \in Tasks : status'[t] = status[t] \/ (status[t] = "wait" /\ status'[t] = "run")
<1>1. PICK w \in todo[x] : status' = Woken(w) /\ todo' = [todo EXCEPT ![x] = @ \ {w}]
  BY Zenon DEF Wake
<1>2. UNCHANGED <<buf, closed, retired, waiting, tid, op>>
  BY Zenon DEF Wake
<1>3. /\ status \in [Tasks -> {"run", "wait", "dead", "freed"}]
      /\ todo \in [Actors -> Waiters] /\ todo[x] \in Waiters
  BY Zenon DEF PipeTypes
<1>4. status' \in [Tasks -> {"run", "wait", "dead", "freed"}]
  BY <1>1, <1>3, Zenon DEF Woken
<1>5. \A t \in Tasks : status'[t] = status[t] \/ (status[t] = "wait" /\ status'[t] = "run")
  BY <1>1, <1>3, Zenon DEF Woken
<1>6. todo[x] \ {w} \in Waiters
  BY <1>3, Zenon DEF Waiters
<1>7. todo' \in [Actors -> Waiters]
  BY <1>1, <1>3, <1>6, Zenon
<1>8. CallInv'
  <2>1. ASSUME NEW t \in Tasks PROVE CallOk(op[t], status'[t])
    BY <1>5, SMT DEF CallInv, CallOk
  <2> QED
    BY <1>2, <2>1, Zenon DEF CallInv
<1> QED
  BY <1>2, <1>4, <1>5, <1>7, <1>8, Zenon DEF PipeTypes

LEMMA ThreadTypes ==
    ASSUME PipeTypes, CallInv, NEW s \in Tasks, Kill(s) \/ FreeTask(s) \/ Spawn(s)
    PROVE  PipeTypes' /\ CallInv'
<1>1. /\ status \in [Tasks -> {"run", "wait", "dead", "freed"}]
      /\ todo \in [Actors -> Waiters] /\ {} \in Waiters /\ tid \in [Tasks -> Nat] /\ s \in Actors
  BY Zenon DEF PipeTypes, Waiters, Actors
<1>2. UNCHANGED <<buf, closed, retired, waiting, op>>
  BY Zenon DEF Kill, FreeTask, Spawn
<1>3. PICK st \in {"run", "dead", "freed"} :
         status' = [status EXCEPT ![s] = st] /\ CallOk(op[s], st)
  <2>1. CASE Kill(s)
    <3>1. CallOk(op[s], "dead")
      BY <2>1, SMT DEF Kill, CallInv, CallOk
    <3> QED
      BY <2>1, <3>1, Zenon DEF Kill
  <2>2. CASE FreeTask(s)
    <3>1. CallOk(op[s], "freed")
      BY <2>2, SMT DEF FreeTask, CallInv, CallOk, At
    <3> QED
      BY <2>2, <3>1, Zenon DEF FreeTask
  <2>3. CASE Spawn(s)
    <3>1. op[s].at = "none" /\ op[s].pins \subseteq {}
      BY <2>3, PinsByPlace, Zenon DEF Spawn, CallInv, CallOk
    <3>2. CallOk(op[s], "run")
      BY <3>1, PinsByPlace, Zenon DEF CallOk
    <3> QED
      BY <2>3, <3>2, Zenon DEF Spawn
  <2> QED
    BY <2>1, <2>2, <2>3, Zenon
<1>4. /\ status' \in [Tasks -> {"run", "wait", "dead", "freed"}]
      /\ status'[s] = st /\ \A t \in Tasks \ {s} : status'[t] = status[t]
  BY <1>1, <1>3, Zenon
<1>5. todo' \in [Actors -> Waiters]
  BY <1>1, Zenon DEF Kill, FreeTask, Spawn
<1>6. tid' \in [Tasks -> Nat]
  BY <1>1, SMT DEF Kill, FreeTask, Spawn
<1>7. CallInv'
  <2>1. ASSUME NEW t \in Tasks PROVE CallOk(op[t], status'[t])
    BY <1>3, <1>4, Zenon DEF CallInv
  <2> QED
    BY <1>2, <2>1, Zenon DEF CallInv
<1> QED
  BY <1>2, <1>4, <1>5, <1>6, <1>7, Zenon DEF PipeTypes

\* What the reaper leaves of a call of a dead thread is in order.
LEMMA RestOfCall ==
    ASSUME NEW c \in Call, NEW e \in c.pins, CallOk(c, "dead")
    PROVE  /\ Rest(c, e) \in Call /\ CallOk(Rest(c, e), "dead")
           /\ c.pipe \in Pipes /\ e \in Ends
           /\ Rest(c, e).pins = c.pins \ {e}
           /\ Rest(c, e).pins # {} => Rest(c, e).pipe = c.pipe
<1>1. c.at # "none"
  BY PinsByPlace, Zenon DEF CallOk
<1>2. c.pipe \in Pipes
  BY <1>1, Zenon DEF CallOk
<1>3. e \in Ends
  BY SMT DEF Call
<1>4. CASE c.pins = {e}
  <2>1. Rest(c, e) = NoCall
    BY <1>4, Zenon DEF Rest
  <2>2. c.pins \ {e} = {}
    BY <1>4, Zenon
  <2> QED
    BY <1>2, <1>3, <2>1, <2>2, NoCallOk, Zenon
<1>5. CASE c.pins # {e}
  <2>1. Rest(c, e) = [c EXCEPT !.pins = c.pins \ {e}]
    BY <1>5, Zenon DEF Rest
  <2>2. /\ Rest(c, e) \in Call /\ Rest(c, e).at = c.at /\ Rest(c, e).pipe = c.pipe
        /\ Rest(c, e).pins = c.pins \ {e}
    BY <2>1, SMT DEF Call
  <2>3. CallOk(Rest(c, e), "dead")
    BY <2>2, SMT DEF CallOk
  <2> QED
    BY <1>2, <1>3, <2>2, <2>3, Zenon
<1> QED
  BY <1>4, <1>5, Zenon

LEMMA AbandonTypes ==
    ASSUME PipeTypes, CallInv, NEW s \in Tasks, NEW e \in Ends, Abandon(s, e)
    PROVE  PipeTypes' /\ CallInv'
<1>1. /\ op' = [op EXCEPT ![s] = Rest(op[s], e)] /\ e \in op[s].pins /\ status[s] = "dead"
      /\ Release(Reaper, e, op[s].pipe, NoOther({s}, 0, e, op[s].pipe))
      /\ UNCHANGED <<buf, retired, status, tid>>
  BY Zenon DEF Abandon
<1>2. op[s] \in Call /\ CallOk(op[s], "dead") /\ Reaper \in Actors
  BY <1>1, Zenon DEF PipeTypes, CallInv, Actors
<1>3. Rest(op[s], e) \in Call /\ CallOk(Rest(op[s], e), status'[s]) /\ op[s].pipe \in Pipes
  BY <1>1, <1>2, RestOfCall, Zenon
<1>4. op' \in [Tasks -> Call] /\ CallInv'
  BY <1>1, <1>3, OneCall, Zenon
<1>5. /\ closed' \in [Pipes -> SUBSET Ends]
      /\ waiting' \in [Pipes -> [Ends -> Waiters]] /\ todo' \in [Actors -> Waiters]
  BY <1>1, <1>2, <1>3, ReleaseTypes, Zenon
<1> QED
  BY <1>1, <1>4, <1>5, Zenon DEF PipeTypes

\* The two halves of the comparison of message_acquire_channel.
LEMMA CompareTypes ==
    ASSUME PipeTypes, CallInv, NEW s \in Tasks, AcquireReader(s) \/ ReleaseReader(s)
    PROVE  PipeTypes' /\ CallInv' /\ op[s].pipe \in Pipes
<1>1. CallOk(op[s], "run") /\ op[s] \in Call /\ s \in Actors /\ "read" \in Ends
  BY ZenonT(20) DEF PipeTypes, CallInv, AcquireReader, ReleaseReader, Running, Actors, Ends
<1>2. op[s].at \in {"acquire", "compare"}
  BY SMT DEF AcquireReader, ReleaseReader, At
<1>3. op[s].pipe \in Pipes
  BY <1>1, <1>2, SMT DEF CallOk
<1>4. UNCHANGED <<buf, retired, status, tid>> /\ status[s] = "run"
  BY Zenon DEF AcquireReader, ReleaseReader, Running
<1>5. /\ closed' \in [Pipes -> SUBSET Ends]
      /\ waiting' \in [Pipes -> [Ends -> Waiters]] /\ todo' \in [Actors -> Waiters]
  <2>1. CASE AcquireReader(s)
    BY <2>1, Zenon DEF AcquireReader, PipeTypes
  <2>2. CASE ReleaseReader(s)
    <3>1. Release(s, "read", op[s].pipe, NoOther({s}, 0, "read", op[s].pipe))
      BY <2>2, Zenon DEF ReleaseReader
    <3> QED
      BY <1>1, <1>3, <3>1, ReleaseTypes, Zenon
  <2> QED
    BY <2>1, <2>2, Zenon
<1> DEFINE NewCallAt(where) ==
                [at |-> where, pipe |-> op[s].pipe, size |-> 0, pins |-> PinsAt(where)]
<1>6. \E where \in {"compare", "post"} : op' = [op EXCEPT ![s] = NewCallAt(where)]
  <2>1. PinsAt("compare") = Ends /\ PinsAt("post") = {"write"}
    BY PinsByPlace, Zenon
  <2> QED
    BY <2>1, Zenon DEF AcquireReader, ReleaseReader
<1>7. PICK where \in {"compare", "post"} : op' = [op EXCEPT ![s] = NewCallAt(where)]
  BY <1>6, Zenon
<1> DEFINE c == NewCallAt(where)
<1>8. op' = [op EXCEPT ![s] = c]
  BY <1>7, Zenon
<1>9. PinsAt(where) \subseteq Ends
  BY SMT DEF PinsAt, Ends, Reading
<1>10. c \in Call /\ c.at = where /\ c.pins = PinsAt(where) /\ c.pipe = op[s].pipe
  BY <1>3, <1>9, SMT DEF Call, Posting
<1> HIDE DEF c, NewCallAt
<1>11. CallOk(c, status'[s])
  BY <1>3, <1>4, <1>10, Zenon DEF CallOk
<1>12. op' \in [Tasks -> Call] /\ CallInv'
  BY <1>4, <1>8, <1>10, <1>11, OneCall, Zenon
<1> QED
  BY <1>3, <1>4, <1>5, <1>12, Zenon DEF PipeTypes
-----------------------------------------------------------------------------
\* The ring turned by one place.
LEMMA RotatedRing ==
    ASSUME NEW P, NEW r \in Seq(P), r # << >>, Rings(r, P)
    PROVE  Append(Tail(r), Head(r)) \in Seq(P) /\ Rings(Append(Tail(r), Head(r)), P)
<1> DEFINE q == Append(Tail(r), Head(r))
           n == Len(r)
<1>1. /\ n \in Nat /\ n >= 1 /\ q \in Seq(P) /\ Len(q) = n
      /\ \A i \in 1..n : q[i] = IF i = n THEN r[1] ELSE r[i + 1]
  BY SMT
<1> HIDE DEF q, n
<1>2. \A i \in 1..n : q[i] \in P
  BY <1>1, SMT DEF n, Rings
<1>3. \A i, j \in 1..n : q[i] = q[j] => i = j
  <2> SUFFICES ASSUME NEW i \in 1..n, NEW j \in 1..n, q[i] = q[j] PROVE i = j
    OBVIOUS
  <2>1. \A k, l \in 1..n : r[k] = r[l] => k = l
    BY Zenon DEF Rings, n
  <2> DEFINE f(k) == IF k = n THEN 1 ELSE k + 1
  <2>2. f(i) \in 1..n /\ f(j) \in 1..n /\ q[i] = r[f(i)] /\ q[j] = r[f(j)]
    BY <1>1, SMT
  <2>3. f(i) = f(j)
    BY <2>1, <2>2, Zenon
  <2> QED
    BY <1>1, <2>3, SMT
<1>4. ASSUME NEW p \in P PROVE \E i \in 1..n : q[i] = p
  <2>1. PICK k \in 1..n : r[k] = p
    BY Zenon DEF Rings, n
  <2>2. CASE k = 1
    <3>1. n \in 1..n /\ q[n] = p
      BY <1>1, <2>1, <2>2, SMT
    <3> QED
      BY <3>1, Zenon
  <2>3. CASE k # 1
    <3>1. k - 1 \in 1..n /\ q[k - 1] = p
      BY <1>1, <2>1, <2>3, SMT
    <3> QED
      BY <3>1, Zenon
  <2> QED
    BY <2>2, <2>3, Zenon
<1>5. Rings(q, P)
  BY <1>1, <1>2, <1>3, <1>4, Zenon DEF Rings
<1> QED
  BY <1>1, <1>5, Zenon DEF q

\* A channel that is new in the ring.
LEMMA ExtendedRing ==
    ASSUME NEW P, NEW r \in Seq(P), Rings(r, P), NEW c, c \notin P
    PROVE  Append(r, c) \in Seq(P \cup {c}) /\ Rings(Append(r, c), P \cup {c})
<1> DEFINE q == Append(r, c)
           n == Len(r)
<1>1. /\ n \in Nat /\ q \in Seq(P \cup {c}) /\ Len(q) = n + 1
      /\ q[n + 1] = c /\ \A i \in 1..n : q[i] = r[i] /\ q[i] \in P
  BY SMT
<1> HIDE DEF q, n
<1>2. \A i \in 1..(n + 1) : q[i] \in P \cup {c}
  BY <1>1, SMT
<1>3. \A i, j \in 1..(n + 1) : q[i] = q[j] => i = j
  <2>1. \A k, l \in 1..n : r[k] = r[l] => k = l
    BY Zenon DEF Rings, n
  <2> QED
    BY <1>1, <2>1, SMT
<1>4. ASSUME NEW p \in P \cup {c} PROVE \E i \in 1..(n + 1) : q[i] = p
  <2>1. CASE p = c
    <3>1. n + 1 \in 1..(n + 1)
      BY <1>1, SMT
    <3> QED
      BY <1>1, <2>1, <3>1, Zenon
  <2>2. CASE p # c
    <3>1. PICK k \in 1..n : r[k] = p
      BY <2>2, Zenon DEF Rings, n
    <3>2. k \in 1..(n + 1) /\ q[k] = p
      BY <1>1, <3>1, SMT
    <3> QED
      BY <3>2, Zenon
  <2> QED
    BY <2>1, <2>2, Zenon
<1>5. Rings(q, P \cup {c})
  BY <1>1, <1>2, <1>3, <1>4, Zenon DEF Rings
<1> QED
  BY <1>1, <1>5, Zenon DEF q

\* The ring without one of its channels.
LEMMA UnlinkedRing ==
    ASSUME NEW P, NEW r \in Seq(P), Rings(r, P), NEW i \in 1..Len(r)
    PROVE  LET q == SubSeq(r, 1, i - 1) \o SubSeq(r, i + 1, Len(r))
           IN q \in Seq(P \ {r[i]}) /\ Rings(q, P \ {r[i]})
<1> DEFINE q == SubSeq(r, 1, i - 1) \o SubSeq(r, i + 1, Len(r))
           n == Len(r)
           f(k) == IF k < i THEN k ELSE k + 1
<1>1. /\ n \in Nat /\ n >= 1 /\ q \in Seq(P) /\ Len(q) = n - 1
      /\ \A k \in 1..(n - 1) : q[k] = r[f(k)] /\ f(k) \in 1..n /\ f(k) # i
  <2> DEFINE a == SubSeq(r, 1, i - 1)
             b == SubSeq(r, i + 1, n)
  <2>1. n \in Nat /\ n >= 1 /\ i \in 1..n
    BY SMT
  <2>2. a \in Seq(P) /\ Len(a) = i - 1 /\ \A k \in 1..(i - 1) : a[k] = r[k]
    BY SMT
  <2>3. b \in Seq(P) /\ Len(b) = n - i /\ \A k \in 1..(n - i) : b[k] = r[k + i]
    BY SMT
  <2>4. q = a \o b
    OBVIOUS
  <2> HIDE DEF a, b, q, n
  <2>5. /\ q \in Seq(P) /\ Len(q) = n - 1
        /\ \A k \in 1..(n - 1) : q[k] = IF k <= i - 1 THEN a[k] ELSE b[k - (i - 1)]
    BY <2>1, <2>2, <2>3, <2>4, SMT
  <2>6. ASSUME NEW k \in 1..(n - 1) PROVE q[k] = r[f(k)] /\ f(k) \in 1..n /\ f(k) # i
    <3>1. CASE k < i
      <4>1. k \in 1..(i - 1)
        BY <2>1, <3>1, SMT
      <4> QED
        BY <2>1, <2>2, <2>5, <3>1, <4>1, SMT
    <3>2. CASE ~(k < i)
      <4>1. k - (i - 1) \in 1..(n - i) /\ (k - (i - 1)) + i = k + 1 /\ ~(k <= i - 1)
        BY <2>1, <3>2, SMT
      <4>2. q[k] = r[k + 1]
        BY <2>3, <2>5, <4>1, Zenon
      <4> QED
        BY <2>1, <3>2, <4>2, SMT
    <3> QED
      BY <3>1, <3>2, Zenon
  <2> QED
    BY <2>1, <2>5, <2>6, Zenon
<1>2. \A k, l \in 1..n : r[k] = r[l] => k = l
  BY Zenon DEF Rings
<1> HIDE DEF q, n
<1>3. \A k \in 1..(n - 1) : q[k] \in P \ {r[i]}
  <2> SUFFICES ASSUME NEW k \in 1..(n - 1) PROVE q[k] \in P \ {r[i]}
    OBVIOUS
  <2>1. q[k] = r[f(k)] /\ f(k) \in 1..n /\ f(k) # i
    BY <1>1, Zenon
  <2>2. r[f(k)] \in P /\ i \in 1..n
    BY <2>1, Zenon DEF Rings, n
  <2> QED
    BY <1>2, <2>1, <2>2, Zenon
<1>4. \A k, l \in 1..(n - 1) : q[k] = q[l] => k = l
  <2> SUFFICES ASSUME NEW k \in 1..(n - 1), NEW l \in 1..(n - 1), q[k] = q[l] PROVE k = l
    OBVIOUS
  <2>1. f(k) = f(l)
    BY <1>1, <1>2, Zenon
  <2> QED
    BY <1>1, <2>1, SMT
<1>5. ASSUME NEW p \in P \ {r[i]} PROVE \E k \in 1..(n - 1) : q[k] = p
  <2>1. PICK k \in 1..n : r[k] = p
    BY Zenon DEF Rings, n
  <2>2. k # i /\ i \in 1..n
    BY <2>1, Zenon DEF n
  <2>3. CASE k < i
    <3>1. k \in 1..(n - 1) /\ f(k) = k
      BY <1>1, <2>2, <2>3, SMT
    <3> QED
      BY <1>1, <2>1, <3>1, Zenon
  <2>4. CASE ~(k < i)
    <3>1. k - 1 \in 1..(n - 1) /\ f(k - 1) = k
      BY <1>1, <2>2, <2>4, SMT
    <3> QED
      BY <1>1, <2>1, <3>1, Zenon
  <2> QED
    BY <2>3, <2>4, Zenon
<1>6. Rings(q, P \ {r[i]}) /\ q \in Seq(P \ {r[i]})
  <2>1. Rings(q, P \ {r[i]})
    BY <1>1, <1>3, <1>4, <1>5, Zenon DEF Rings
  <2>2. q \in Seq(P \ {r[i]})
    BY <1>1, <1>3, SMT
  <2> QED
    BY <2>1, <2>2, Zenon
<1> QED
  BY <1>6, Zenon DEF q

LEMMA RingIsSeq ==
    ASSUME NEW Q, NEW P, NEW r \in Seq(Q), Rings(r, P) PROVE r \in Seq(P)
BY SMT DEF Rings

\* The place of a call in progress.
LEMMA CallHasPipe ==
    ASSUME CallInv, NEW s \in Tasks, op[s].at # "none" PROVE op[s].pipe \in Pipes
BY Zenon DEF CallInv, CallOk

\* message_enqueue keeps the ring and the tickets of the records.
LEMMA EnqueueRing ==
    ASSUME RingTypes, RingInv, CallInv, NEW s \in Tasks, Enqueue(s)
    PROVE  RingTypes' /\ RingInv'
<1> DEFINE p == op[s].pipe
<1>1. op[s].at # "none"
  BY SMT DEF Enqueue, At
<1>2. p \in Pipes
  BY <1>1, CallHasPipe, Zenon
<1>3. /\ queue' = [queue EXCEPT ![p] = Append(queue[p], posted + 1)]
      /\ ready' = IF queue[p] = << >> THEN Append(ready, p) ELSE ready
      /\ posted' = posted + 1 /\ kernel' = [kernel EXCEPT ![p] = kernel[p] + 1] /\ worker' = worker
  BY Zenon DEF Enqueue
<1> HIDE DEF p
<1>4. /\ queue \in [Pipes -> Seq(Nat)] /\ queue[p] \in Seq(Nat) /\ posted \in Nat
      /\ kernel \in [Pipes -> Nat] /\ kernel[p] \in Nat
  BY <1>2, Zenon DEF RingTypes
<1>5. Append(queue[p], posted + 1) \in Seq(Nat) /\ posted + 1 \in Nat /\ kernel[p] + 1 \in Nat
  BY <1>4, SMT
<1>6. queue' \in [Pipes -> Seq(Nat)] /\ kernel' \in [Pipes -> Nat]
  BY <1>3, <1>4, <1>5, Zenon
<1>7. /\ queue'[p] = Append(queue[p], posted + 1) /\ kernel'[p] = kernel[p] + 1
      /\ \A c \in Pipes \ {p} : queue'[c] = queue[c] /\ kernel'[c] = kernel[c]
  BY <1>2, <1>3, <1>4, Zenon
<1>8. Append(queue[p], posted + 1) # << >> /\ Len(Append(queue[p], posted + 1)) = Len(queue[p]) + 1
  <2>1. Len(Append(queue[p], posted + 1)) = Len(queue[p]) + 1 /\ Len(queue[p]) \in Nat
    BY <1>4, SMT
  <2>2. Len(<< >>) = 0
    BY SMT
  <2>3. Len(queue[p]) + 1 # 0
    BY <2>1, SMT
  <2> QED
    BY <2>1, <2>2, <2>3, Zenon
<1>9. Loaded' = Loaded \cup {p}
  BY <1>2, <1>7, <1>8, Zenon DEF Loaded
<1>10. ready \in Seq(Pipes) /\ Rings(ready, Loaded)
  BY Zenon DEF RingTypes, RingInv
<1>11. ready \in Seq(Loaded)
  BY <1>10, RingIsSeq, Zenon
<1>12. ready' \in Seq(Pipes) /\ Rings(ready', Loaded')
  <2>1. CASE queue[p] = << >>
    <3>1. p \notin Loaded
      BY <2>1, Zenon DEF Loaded
    <3>2. Rings(Append(ready, p), Loaded \cup {p})
      BY <1>10, <1>11, <3>1, ExtendedRing, Zenon
    <3>3. Append(ready, p) \in Seq(Pipes)
      BY <1>2, <1>10, SMT
    <3> QED
      BY <1>3, <1>9, <2>1, <3>2, <3>3, Zenon
  <2>2. CASE queue[p] # << >>
    <3>1. Loaded \cup {p} = Loaded
      BY <1>2, <2>2, Zenon DEF Loaded
    <3> QED
      BY <1>3, <1>9, <1>10, <2>2, <3>1, Zenon
  <2> QED
    BY <2>1, <2>2, Zenon
<1>13. \A c \in Pipes : kernel'[c] = Len(queue'[c]) + Loose(c)'
  <2> SUFFICES ASSUME NEW c \in Pipes PROVE kernel'[c] = Len(queue'[c]) + Loose(c)'
    OBVIOUS
  <2>1. kernel[c] = Len(queue[c]) + Loose(c) /\ Loose(c)' = Loose(c) /\ Loose(c) \in {0, 1}
    BY <1>3, Zenon DEF RingInv, Loose
  <2>2. CASE c = p
    BY <1>4, <1>7, <1>8, <2>1, <2>2, SMT
  <2>3. CASE c # p
    BY <1>7, <2>1, <2>3, Zenon
  <2> QED
    BY <2>2, <2>3, Zenon
<1>14. RingTypes'
  BY <1>3, <1>5, <1>6, <1>12, Zenon DEF RingTypes
<1> QED
  BY <1>3, <1>9, <1>12, <1>13, <1>14, Zenon DEF RingInv

\* message_delivery_pump turns the ring and has the first record of a channel.
LEMMA PickRing ==
    ASSUME RingTypes, RingInv, Pick
    PROVE  RingTypes' /\ RingInv'
<1>1. /\ worker.at = "idle" /\ ready # << >> /\ ready' = Append(Tail(ready), Head(ready))
      /\ worker' = [at |-> "picked", pipe |-> Head(ready)]
      /\ UNCHANGED <<queue, posted, kernel>>
  BY Zenon DEF Pick, Rotated, pipeVars
<1>2. ready \in Seq(Pipes) /\ Rings(ready, Loaded)
  BY Zenon DEF RingTypes, RingInv
<1>3. ready \in Seq(Loaded)
  BY <1>2, RingIsSeq, Zenon
<1>4. Rings(ready', Loaded)
  BY <1>1, <1>2, <1>3, RotatedRing, Zenon
<1>5. Head(ready) \in Loaded /\ Head(ready) \in Pipes /\ ready' \in Seq(Pipes)
  BY <1>1, <1>2, <1>3, SMT
<1>6. worker'.at = "picked" /\ worker'.pipe = Head(ready)
  BY <1>1, Zenon
<1>7. worker' \in [at : Places, pipe : Pipes \cup {{}}]
  BY <1>1, <1>5, SMT DEF Places
<1>8. Loaded' = Loaded
  BY <1>1, Zenon DEF Loaded
<1>9. \A c \in Pipes : Loose(c) = 0 /\ Loose(c)' = 0
  BY <1>1, <1>6, Zenon DEF Loose
<1>10. RingTypes'
  BY <1>1, <1>5, <1>7, Zenon DEF RingTypes
<1>11. \A c \in Pipes : kernel'[c] = Len(queue'[c]) + Loose(c)'
  BY <1>1, <1>9, Zenon DEF RingInv
<1> QED
  BY <1>4, <1>5, <1>6, <1>8, <1>10, <1>11, Zenon DEF RingInv

\* The steps of the worker that leave the channels as they are.
LEMMA WorkerRing ==
    ASSUME RingTypes, RingInv, CheckRetired \/ TryWrite
    PROVE  RingTypes' /\ RingInv'
<1>1. worker.at \in {"picked", "checked"} /\ UNCHANGED <<queue, ready, posted, kernel>>
  <2>1. worker.at \in {"picked", "checked"}
    BY Zenon DEF CheckRetired, TryWrite
  <2> QED
    BY <2>1, Zenon DEF CheckRetired, TryWrite, pipeVars
<1>2. worker \in [at : Places, pipe : Pipes \cup {{}}]
  BY Zenon DEF RingTypes
<1>3. \/ worker' = Idle
      \/ \E where \in {"checked", "refused", "written"} : worker' = [worker EXCEPT !.at = where]
  BY Zenon DEF CheckRetired, TryWrite
<1>4. /\ worker' \in [at : Places, pipe : Pipes \cup {{}}]
      /\ worker'.at = "idle" \/ (worker'.pipe = worker.pipe /\ worker'.at \in {"checked", "refused", "written"})
  BY <1>2, <1>3, SMT DEF Idle, Places
<1>5. worker.pipe \in Loaded /\ worker.pipe \in Pipes
  BY <1>1, SMT DEF RingInv, Loaded
<1>6. \A c \in Pipes : Loose(c) = 0 /\ Loose(c)' = 0
  BY <1>1, <1>4, SMT DEF Loose
<1>7. Loaded' = Loaded
  BY <1>1, Zenon DEF Loaded
<1>8. RingTypes'
  BY <1>1, <1>4, Zenon DEF RingTypes
<1>9. \A c \in Pipes : kernel'[c] = Len(queue'[c]) + Loose(c)'
  BY <1>1, <1>6, Zenon DEF RingInv
<1>10. Rings(ready', Loaded')
  BY <1>1, <1>7, Zenon DEF RingInv
<1> QED
  BY <1>4, <1>5, <1>7, <1>8, <1>9, <1>10, Zenon DEF RingInv

\* The record leaves its channel, and the channel the ring with its last one.
LEMMA TakeOffRing ==
    ASSUME RingTypes, RingInv, TakeOff
    PROVE  RingTypes' /\ RingInv'
<1> DEFINE p == worker.pipe
<1>1. /\ worker.at \in {"refused", "written"} /\ queue' = [queue EXCEPT ![p] = Tail(queue[p])]
      /\ ready' = IF Len(queue[p]) = 1 THEN Without(p) ELSE ready
      /\ worker' = [worker EXCEPT !.at = "release"] /\ UNCHANGED <<posted, kernel>>
  BY Zenon DEF TakeOff, pipeVars
<1>2. p \in Loaded /\ p \in Pipes
  BY <1>1, SMT DEF RingInv, Loaded
<1>3. /\ worker' \in [at : Places, pipe : Pipes \cup {{}}] /\ worker'.at = "release" /\ worker'.pipe = p
  <2>1. worker \in [at : Places, pipe : Pipes \cup {{}}]
    BY Zenon DEF RingTypes
  <2> QED
    BY <1>1, <2>1, SMT DEF Places
<1> HIDE DEF p
<1>4. /\ queue \in [Pipes -> Seq(Nat)] /\ queue[p] \in Seq(Nat) /\ queue[p] # << >>
      /\ ready \in Seq(Pipes) /\ Rings(ready, Loaded)
  BY <1>2, Zenon DEF RingTypes, Loaded, RingInv
<1>5. /\ Tail(queue[p]) \in Seq(Nat) /\ Len(queue[p]) \in Nat \ {0} /\ Len(Tail(queue[p])) = Len(queue[p]) - 1
      /\ Tail(queue[p]) = << >> <=> Len(queue[p]) = 1
  <2>1. Tail(queue[p]) \in Seq(Nat) /\ Len(queue[p]) \in Nat \ {0} /\ Len(Tail(queue[p])) = Len(queue[p]) - 1
    BY <1>4, SMT
  <2>2. \A q \in Seq(Nat) : q = << >> <=> Len(q) = 0
    BY SMT
  <2>3. Len(queue[p]) - 1 = 0 <=> Len(queue[p]) = 1
    BY <2>1, SMT
  <2> QED
    BY <2>1, <2>2, <2>3, Zenon
<1>6. /\ queue' \in [Pipes -> Seq(Nat)] /\ queue'[p] = Tail(queue[p])
      /\ \A c \in Pipes \ {p} : queue'[c] = queue[c]
  BY <1>1, <1>2, <1>4, <1>5, Zenon
<1>7. ready \in Seq(Loaded)
  BY <1>4, RingIsSeq, Zenon
<1>8. ready' \in Seq(Pipes) /\ Rings(ready', Loaded')
  <2>1. CASE Len(queue[p]) = 1
    <3> DEFINE i == CHOOSE k \in DOMAIN ready : ready[k] = p
    <3>1. DOMAIN ready = 1..Len(ready)
      BY <1>4, SMT
    <3>2. \E k \in DOMAIN ready : ready[k] = p
      BY <1>2, <1>4, <3>1, Zenon DEF Rings
    <3>3. i \in 1..Len(ready) /\ ready[i] = p
      BY <3>1, <3>2, Zenon
    <3>4. ready' = SubSeq(ready, 1, i - 1) \o SubSeq(ready, i + 1, Len(ready))
      BY <1>1, <2>1, Zenon DEF Without
    <3> HIDE DEF i
    <3>5. ready' \in Seq(Loaded \ {p}) /\ Rings(ready', Loaded \ {p})
      BY <1>4, <1>7, <3>3, <3>4, UnlinkedRing, Zenon
    <3>6. Loaded' = Loaded \ {p}
      BY <1>2, <1>5, <1>6, <2>1, Zenon DEF Loaded
    <3>7. ready' \in Seq(Pipes)
      <4>1. Loaded \ {p} \subseteq Pipes
        BY Zenon DEF Loaded
      <4> QED
        BY <3>5, <4>1, SMT
    <3> QED
      BY <3>5, <3>6, <3>7, Zenon
  <2>2. CASE Len(queue[p]) # 1
    <3>1. Loaded' = Loaded
      BY <1>2, <1>4, <1>5, <1>6, <2>2, Zenon DEF Loaded
    <3> QED
      BY <1>1, <1>4, <2>2, <3>1, Zenon
  <2> QED
    BY <2>1, <2>2, Zenon
<1>9. ASSUME NEW c \in Pipes PROVE kernel'[c] = Len(queue'[c]) + Loose(c)'
  <2>1. kernel[c] = Len(queue[c]) + Loose(c) /\ kernel' = kernel
    BY <1>1, Zenon DEF RingInv
  <2>2. Loose(c) = 0 /\ Loose(c)' = IF c = p THEN 1 ELSE 0
    BY <1>1, <1>3, SMT DEF Loose
  <2>3. CASE c = p
    BY <1>5, <1>6, <2>1, <2>2, <2>3, SMT
  <2>4. CASE c # p
    BY <1>6, <2>1, <2>2, <2>4, Zenon
  <2> QED
    BY <2>3, <2>4, Zenon
<1>10. RingTypes'
  BY <1>1, <1>3, <1>6, <1>8, Zenon DEF RingTypes, RingInv
<1> QED
  BY <1>2, <1>3, <1>8, <1>9, <1>10, Zenon DEF RingInv

\* fd_operation_release by the worker.
LEMMA ReleaseRecordRing ==
    ASSUME RingTypes, RingInv, ReleaseRecord
    PROVE  RingTypes' /\ RingInv' /\ worker.pipe \in Pipes /\ kernel[worker.pipe] >= 1
<1> DEFINE p == worker.pipe
<1>1. /\ worker.at = "release" /\ kernel' = [kernel EXCEPT ![p] = kernel[p] - 1]
      /\ worker' = Idle /\ UNCHANGED <<queue, ready, posted>>
  BY Zenon DEF ReleaseRecord
<1>2. p \in Pipes
  BY <1>1, Zenon DEF RingInv
<1>3. worker' \in [at : Places, pipe : Pipes \cup {{}}] /\ worker'.at = "idle"
  BY <1>1, SMT DEF Idle, Places
<1>4. \A c \in Pipes : /\ kernel[c] = Len(queue[c]) + Loose(c) /\ Len(queue[c]) \in Nat
                       /\ Loose(c) = (IF c = p THEN 1 ELSE 0) /\ Loose(c)' = 0
  <2>1. \A c \in Pipes : queue[c] \in Seq(Nat) /\ kernel[c] = Len(queue[c]) + Loose(c)
    BY Zenon DEF RingTypes, RingInv
  <2>2. \A c \in Pipes : Loose(c) = (IF c = p THEN 1 ELSE 0) /\ Loose(c)' = 0
    BY <1>1, <1>3, SMT DEF Loose
  <2> QED
    BY <2>1, <2>2, SMT
<1> HIDE DEF p
<1>5. kernel \in [Pipes -> Nat]
  BY Zenon DEF RingTypes
<1>6. kernel[p] - 1 = Len(queue[p]) /\ Len(queue[p]) \in Nat /\ kernel[p] >= 1
  BY <1>2, <1>4, SMT
<1>7. /\ kernel' \in [Pipes -> Nat] /\ kernel'[p] = Len(queue[p])
      /\ \A c \in Pipes \ {p} : kernel'[c] = kernel[c]
  BY <1>1, <1>2, <1>5, <1>6, Zenon
<1>8. \A c \in Pipes : kernel'[c] = Len(queue'[c]) + Loose(c)'
  BY <1>1, <1>4, <1>7, SMT
<1>9. Loaded' = Loaded
  BY <1>1, Zenon DEF Loaded
<1>10. RingTypes'
  BY <1>1, <1>3, <1>7, Zenon DEF RingTypes
<1>11. Rings(ready', Loaded')
  BY <1>1, <1>9, Zenon DEF RingInv
<1> QED
  BY <1>2, <1>3, <1>6, <1>8, <1>10, <1>11, Zenon DEF RingInv, p
-----------------------------------------------------------------------------
\* The types and the calls, for the steps of the message delivery.
LEMMA EnqueueTypes ==
    ASSUME PipeTypes, CallInv, NEW s \in Tasks, Enqueue(s)
    PROVE  PipeTypes' /\ CallInv'
<1>1. /\ op' = [op EXCEPT ![s] = NoCall] /\ status[s] = "run"
      /\ UNCHANGED <<buf, closed, retired, waiting, status, tid, todo>>
  BY Zenon DEF Enqueue, Running
<1>2. CallOk(NoCall, status'[s])
  BY <1>1, NoCallOk, Zenon
<1>3. op' \in [Tasks -> Call] /\ CallInv'
  BY <1>1, <1>2, NoCallOk, OneCall, Zenon
<1> QED
  BY <1>1, <1>3, Zenon DEF PipeTypes

LEMMA PumpTypes ==
    ASSUME PipeTypes, CallInv, RingTypes, RingInv, Pump
    PROVE  PipeTypes' /\ CallInv'
<1>1. CASE Pick \/ CheckRetired \/ TakeOff
  <2>1. UNCHANGED pipeVars
    BY <1>1, Zenon DEF Pick, CheckRetired, TakeOff
  <2>2. UNCHANGED <<buf, closed, retired, waiting, status, tid, op, todo>>
    BY <2>1, Zenon DEF pipeVars
  <2> QED
    BY <2>2, Zenon DEF PipeTypes, CallInv
<1>2. CASE TryWrite
  <2> DEFINE p == worker.pipe
  <2>1. UNCHANGED <<closed, retired, status, tid, op>> /\ worker.at = "checked"
    BY <1>2, Zenon DEF TryWrite
  <2>2. p \in Pipes /\ p \in Loaded
    BY <2>1, SMT DEF RingInv, Loaded
  <2>3. CASE UNCHANGED <<buf, waiting, todo>>
    BY <2>1, <2>3, Zenon DEF PipeTypes, CallInv
  <2>4. CASE /\ buf' = [buf EXCEPT ![p] = Append(buf[p], Head(queue[p]))]
             /\ waiting' = [waiting EXCEPT ![p]["read"] = {}]
             /\ todo' = [todo EXCEPT ![Worker] = @ \cup waiting[p]["read"]]
    <3>1. Worker \in Actors /\ "read" \in Ends
      BY Zenon DEF Actors, Ends
    <3>2. waiting' \in [Pipes -> [Ends -> Waiters]] /\ todo' \in [Actors -> Waiters]
      BY <2>2, <2>4, <3>1, DetachTypes, Zenon
    <3>3. buf \in [Pipes -> Seq(Nat)] /\ buf[p] \in Seq(Nat) /\ queue[p] \in Seq(Nat) /\ queue[p] # << >>
      BY <2>2, Zenon DEF PipeTypes, RingTypes, Loaded
    <3>4. Append(buf[p], Head(queue[p])) \in Seq(Nat)
      BY <3>3, SMT
    <3>5. buf' \in [Pipes -> Seq(Nat)]
      <4> HIDE DEF p
      <4> QED
        BY <2>4, <3>3, <3>4, Zenon
    <3> QED
      BY <2>1, <3>2, <3>5, Zenon DEF PipeTypes, CallInv
  <2> QED
    BY <1>2, <2>3, <2>4, Zenon DEF TryWrite
<1>3. CASE ReleaseRecord
  <2>1. /\ worker.pipe \in Pipes /\ UNCHANGED <<buf, retired, status, tid, op>>
        /\ Release(Worker, "write", worker.pipe, NoOther({}, 1, "write", worker.pipe))
    BY <1>3, ReleaseRecordRing, Zenon DEF ReleaseRecord
  <2>2. Worker \in Actors /\ "write" \in Ends
    BY Zenon DEF Actors, Ends
  <2>3. /\ closed' \in [Pipes -> SUBSET Ends]
        /\ waiting' \in [Pipes -> [Ends -> Waiters]] /\ todo' \in [Actors -> Waiters]
    BY <2>1, <2>2, ReleaseTypes, Zenon
  <2> QED
    BY <2>1, <2>3, Zenon DEF PipeTypes, CallInv
<1> QED
  BY <1>1, <1>2, <1>3, Zenon DEF Pump
-----------------------------------------------------------------------------
\* The tickets of one thread change: who else has none still has none.
LEMMA TicketsOfOne ==
    ASSUME PipeTypes, NEW s \in Tasks, NEW c, op' = [op EXCEPT ![s] = c], kernel' = kernel,
           NEW e, NEW q, NoOther({s}, 0, e, q), c.pipe = q => e \notin c.pins
    PROVE  NoOther({}, 0, e, q)'
<1>1. op \in [Tasks -> Call]
  BY Zenon DEF PipeTypes
<1>2. op'[s] = c /\ \A t \in Tasks \ {s} : op'[t] = op[t]
  BY <1>1, Zenon
<1>3. \A t \in Tasks \ {s} : t \notin Tickets(e, q)
  BY Zenon DEF NoOther
<1>4. \A t \in Tasks : ~(op'[t].pipe = q /\ e \in op'[t].pins)
  BY <1>2, <1>3, Zenon DEF Tickets
<1> QED
  BY <1>4, Zenon DEF NoOther, Tickets

\* A call that takes no ticket on a retired end keeps what is closed unused.
LEMMA ClosedStays ==
    ASSUME PipeTypes, ClosedInv, NEW s \in Tasks, NEW c, op' = [op EXCEPT ![s] = c],
           UNCHANGED <<closed, retired, kernel>>,
           \A e \in c.pins : (c.pipe = op[s].pipe /\ e \in op[s].pins) \/ e \notin retired[c.pipe]
    PROVE  ClosedInv'
<1> SUFFICES ASSUME NEW q \in Pipes, NEW e \in Ends, e \in closed[q]
             PROVE  e \in retired[q] /\ NoOther({}, 0, e, q)'
  BY Zenon DEF ClosedInv
<1>1. e \in retired[q] /\ NoOther({}, 0, e, q)
  BY Zenon DEF ClosedInv
<1>2. NoOther({s}, 0, e, q) /\ s \notin Tickets(e, q)
  BY <1>1, Zenon DEF NoOther
<1>3. c.pipe = q => e \notin c.pins
  BY <1>1, <1>2, Zenon DEF Tickets
<1> QED
  BY <1>1, <1>2, <1>3, TicketsOfOne, Zenon

\* What the closing of an end changes.
LEMMA CloseOne ==
    ASSUME PipeTypes, NEW x \in Actors, NEW e \in Ends, NEW p \in Pipes, CloseEnd(x, e, p)
    PROVE  \A q \in Pipes : \A f : f \in closed'[q] <=> f \in closed[q] \/ (q = p /\ f = e)
<1>1. closed \in [Pipes -> SUBSET Ends]
  BY Zenon DEF PipeTypes
<1>2. closed'[p] = closed[p] \cup {e} /\ \A q \in Pipes \ {p} : closed'[q] = closed[q]
  BY <1>1, Zenon DEF CloseEnd
<1> QED
  BY <1>2, SMT

LEMMA CloseFacts ==
    ASSUME PipeTypes, NEW x \in Actors, NEW e \in Ends, NEW p \in Pipes, CloseEnd(x, e, p)
    PROVE  /\ closed'[p] = closed[p] \cup {e}
           /\ \A q \in Pipes \ {p} : closed'[q] = closed[q] /\ waiting'[q] = waiting[q]
           /\ waiting'[p][e] = waiting[p][e]
           /\ todo'[x] = todo[x] \cup waiting[p][Other(e)]
           /\ \A y \in Actors \ {x} : todo'[y] = todo[y]
<1>1. /\ closed \in [Pipes -> SUBSET Ends] /\ todo \in [Actors -> Waiters]
      /\ waiting \in [Pipes -> [Ends -> Waiters]] /\ waiting[p] \in [Ends -> Waiters]
  BY Zenon DEF PipeTypes
<1>2. Other(e) # e /\ Other(e) \in Ends
  BY SMT DEF Other, Ends
<1>3. waiting' = [waiting EXCEPT ![p] = [waiting[p] EXCEPT ![Other(e)] = {}]]
  BY <1>1, Zenon DEF CloseEnd
<1>4. waiting'[p] = [waiting[p] EXCEPT ![Other(e)] = {}] /\ \A q \in Pipes \ {p} : waiting'[q] = waiting[q]
  BY <1>1, <1>3, Zenon
<1>5. waiting'[p][e] = waiting[p][e]
  BY <1>1, <1>2, <1>4, Zenon
<1> QED
  BY <1>1, <1>4, <1>5, Zenon DEF CloseEnd

\* A ticket that is given back, the last one of its end perhaps.
LEMMA ReleaseCloses ==
    ASSUME PipeTypes, ClosedInv, NEW s \in Tasks, NEW c, NEW x \in Actors, NEW e \in Ends,
           op[s].pipe \in Pipes, op' = [op EXCEPT ![s] = c], UNCHANGED <<retired, kernel>>,
           c.pins \subseteq op[s].pins \ {e}, c.pins # {} => c.pipe = op[s].pipe,
           Release(x, e, op[s].pipe, NoOther({s}, 0, e, op[s].pipe))
    PROVE  ClosedInv'
<1> DEFINE p == op[s].pipe
<1>1. CASE ~(e \in retired[p] /\ NoOther({s}, 0, e, p))
  <2>1. closed' = closed
    BY <1>1, Zenon DEF Release
  <2>2. \A f \in c.pins : c.pipe = op[s].pipe /\ f \in op[s].pins
    BY Zenon
  <2> QED
    BY <2>1, <2>2, ClosedStays, Zenon
<1>2. CASE e \in retired[p] /\ NoOther({s}, 0, e, p)
  <2>0. CloseEnd(x, e, p)
    BY <1>2, Zenon DEF Release
  <2>1. \A q \in Pipes : \A f : f \in closed'[q] <=> f \in closed[q] \/ (q = p /\ f = e)
    BY <2>0, CloseOne, ZenonT(40)
  <2>2. ASSUME NEW q \in Pipes, NEW f \in Ends, f \in closed'[q]
        PROVE  f \in retired[q] /\ NoOther({}, 0, f, q)'
    <3>1. CASE f \in closed[q]
      <4>1. f \in retired[q] /\ NoOther({}, 0, f, q)
        BY <3>1, Zenon DEF ClosedInv
      <4>2. NoOther({s}, 0, f, q) /\ s \notin Tickets(f, q)
        BY <4>1, Zenon DEF NoOther
      <4>3. c.pipe = q => f \notin c.pins
        BY <4>2, Zenon DEF Tickets
      <4> QED
        BY <4>1, <4>2, <4>3, TicketsOfOne, Zenon
    <3>2. CASE f \notin closed[q]
      <4>1. q = p /\ f = e
        BY <2>1, <2>2, <3>2, Zenon
      <4>2. e \notin c.pins
        BY Zenon
      <4> QED
        BY <1>2, <4>1, <4>2, TicketsOfOne, Zenon
    <3> QED
      BY <3>1, <3>2, Zenon
  <2> QED
    BY <2>2, Zenon DEF ClosedInv
<1> QED
  BY <1>1, <1>2, Zenon

\* An end that is retired, and closed if nobody has a ticket on it.
LEMMA RetireCloses ==
    ASSUME PipeTypes, ClosedInv, NEW x \in Actors, NEW e \in Ends, NEW p \in Pipes, Retire(x, e, p)
    PROVE  ClosedInv'
<1>1. UNCHANGED <<op, kernel>> /\ retired' = [retired EXCEPT ![p] = @ \cup {e}]
  BY Zenon DEF Retire
<1>2. retired \in [Pipes -> SUBSET Ends]
  BY Zenon DEF PipeTypes
<1>3. e \in retired'[p] /\ \A q \in Pipes : retired[q] \subseteq retired'[q]
  BY <1>1, <1>2, Zenon
<1>4. \A f, q : NoOther({}, 0, f, q)' <=> NoOther({}, 0, f, q)
  BY <1>1, Zenon DEF NoOther, Tickets
<1>5. ASSUME NEW q \in Pipes, NEW f \in Ends, f \in closed'[q]
      PROVE  f \in retired'[q] /\ NoOther({}, 0, f, q)'
  <2>1. CASE f \in closed[q]
    BY <1>3, <1>4, <2>1, Zenon DEF ClosedInv
  <2>2. CASE f \notin closed[q]
    <3>1. NoOther({}, 0, e, p) /\ CloseEnd(x, e, p)
      BY <1>5, <2>2, Zenon DEF Retire
    <3>2. f = e /\ q = p
      BY <1>5, <2>2, <3>1, CloseOne, Zenon
    <3> QED
      BY <1>3, <1>4, <3>1, <3>2, Zenon
  <2> QED
    BY <2>1, <2>2, Zenon
<1> QED
  BY <1>5, Zenon DEF ClosedInv

\* The worker gives the ticket of a record back.
LEMMA ReleaseRecordCloses ==
    ASSUME PipeTypes, RingTypes, RingInv, ClosedInv, ReleaseRecord
    PROVE  ClosedInv'
<1> DEFINE p == worker.pipe
<1>1. p \in Pipes /\ kernel[p] >= 1
  BY ReleaseRecordRing, Zenon
<1>2. /\ UNCHANGED <<op, retired>> /\ kernel' = [kernel EXCEPT ![p] = kernel[p] - 1]
      /\ Release(Worker, "write", p, NoOther({}, 1, "write", p))
  BY Zenon DEF ReleaseRecord
<1>3. kernel \in [Pipes -> Nat] /\ kernel[p] \in Nat /\ Worker \in Actors /\ "write" \in Ends
  BY <1>1, Zenon DEF RingTypes, Actors, Ends
<1> HIDE DEF p
<1>4. kernel'[p] = kernel[p] - 1 /\ \A q \in Pipes \ {p} : kernel'[q] = kernel[q]
  BY <1>1, <1>2, <1>3, Zenon
<1>5. kernel[p] # 0 /\ (kernel[p] = 1 => kernel'[p] = 0)
  BY <1>1, <1>3, <1>4, SMT
<1>6. \A f, q : Tickets(f, q)' = Tickets(f, q)
  BY <1>2, Zenon DEF Tickets
<1>7. ASSUME NEW q \in Pipes, NEW f \in Ends, f \in closed[q]
      PROVE  f \in retired'[q] /\ NoOther({}, 0, f, q)'
  <2>1. f \in retired[q] /\ NoOther({}, 0, f, q)
    BY <1>7, Zenon DEF ClosedInv
  <2>2. f = "write" => q # p
    BY <1>5, <2>1, Zenon DEF NoOther
  <2> QED
    BY <1>2, <1>4, <1>6, <2>1, <2>2, Zenon DEF NoOther
<1>8. ASSUME NEW q \in Pipes, NEW f \in Ends, f \in closed'[q], f \notin closed[q]
      PROVE  f \in retired'[q] /\ NoOther({}, 0, f, q)'
  <2>1. "write" \in retired[p] /\ NoOther({}, 1, "write", p) /\ CloseEnd(Worker, "write", p)
    BY <1>2, <1>8, Zenon DEF Release
  <2>2. f = "write" /\ q = p
    BY <1>1, <1>3, <1>8, <2>1, CloseOne, Zenon
  <2>3. kernel'[p] = 0 /\ Tickets("write", p) \subseteq {}
    BY <1>5, <2>1, Zenon DEF NoOther
  <2> QED
    BY <1>2, <1>6, <2>1, <2>2, <2>3, Zenon DEF NoOther
<1> QED
  BY <1>7, <1>8, Zenon DEF ClosedInv

\* A record takes the ticket of its poster over.
LEMMA EnqueueCloses ==
    ASSUME PipeTypes, RingTypes, CallInv, ClosedInv, NEW s \in Tasks, Enqueue(s)
    PROVE  ClosedInv'
<1> DEFINE p == op[s].pipe
<1>1. /\ op[s].at = "post" /\ status[s] = "run" /\ UNCHANGED <<closed, retired>>
      /\ op' = [op EXCEPT ![s] = NoCall] /\ kernel' = [kernel EXCEPT ![p] = kernel[p] + 1]
  BY Zenon DEF Enqueue, At, Running
<1>2. p \in Pipes /\ "write" \in op[s].pins
  <2>1. op[s].at # "none" /\ op[s].pins = PinsAt("post")
    BY <1>1, Zenon DEF CallInv, CallOk
  <2> QED
    BY <2>1, CallHasPipe, PinsByPlace, Zenon
<1>3. "write" \notin closed[p]
  <2>1. s \in Tickets("write", p) /\ "write" \in Ends
    BY <1>2, Zenon DEF Tickets, Ends
  <2> QED
    BY <1>2, <2>1, Zenon DEF ClosedInv, NoOther
<1>4. /\ op \in [Tasks -> Call] /\ kernel \in [Pipes -> Nat]
  BY Zenon DEF PipeTypes, RingTypes
<1> HIDE DEF p
<1>5. /\ \A q \in Pipes \ {p} : kernel'[q] = kernel[q]
      /\ op'[s] = NoCall /\ \A t \in Tasks \ {s} : op'[t] = op[t]
  BY <1>1, <1>4, Zenon
<1>6. \A f, q : Tickets(f, q)' \subseteq Tickets(f, q)
  BY <1>5, NoCallOk, Zenon DEF Tickets
<1>7. ASSUME NEW q \in Pipes, NEW f \in Ends, f \in closed[q]
      PROVE  f \in retired[q] /\ NoOther({}, 0, f, q)'
  <2>1. f \in retired[q] /\ NoOther({}, 0, f, q)
    BY <1>7, Zenon DEF ClosedInv
  <2>2. f = "write" => q # p
    BY <1>3, <1>7, Zenon
  <2> QED
    BY <1>5, <1>6, <2>1, <2>2, Zenon DEF NoOther
<1> QED
  BY <1>1, <1>7, Zenon DEF ClosedInv
-----------------------------------------------------------------------------
\* A waiter that is on its list and has nothing to do, and one that a waker
\* has taken off.
Asleep(t) == <<t, tid[t]>> \in waiting[op[t].pipe][op[t].at] /\ ~Ready(t)
Called(t) == (\E x \in Actors : <<t, tid[t]>> \in todo[x]) \/ <<t, tid[t]>> \in lost

\* What a step leaves alone in a thread that sleeps on.
SleepsOn(t) == status[t] = "wait" /\ op'[t] = op[t] /\ tid'[t] = tid[t]

SleepersStay == \A t \in Tasks : status'[t] = "wait" => SleepsOn(t)

\* No waiter but those on the end e of p gets something to do.
NoneGetsReady(p, e) ==
    \A t \in Tasks :
       status[t] = "wait" /\ op'[t] = op[t] /\ ~(op[t].pipe = p /\ op[t].at = e) /\ ~Ready(t)
       => ~Ready(t)'

LEMMA AwaitedMeans ==
    WaiterIsAwaited <=> \A t \in Tasks : status[t] = "wait" => Asleep(t) \/ Called(t)
BY Zenon DEF WaiterIsAwaited, Asleep, Called

LEMMA AwaitedMeansNext ==
    WaiterIsAwaited' <=> \A t \in Tasks : status'[t] = "wait" => Asleep(t)' \/ Called(t)'
BY Zenon DEF WaiterIsAwaited, Asleep, Called

\* Where a waiter's call is.
LEMMA WaiterPlace ==
    ASSUME CallInv, NEW t \in Tasks, status[t] = "wait"
    PROVE  op[t].at \in Ends /\ op[t].pipe \in Pipes
<1>1. op[t].at \in Ends
  BY Zenon DEF CallInv, CallOk
<1>2. op[t].at # "none"
  BY <1>1, SMT DEF Ends
<1> QED
  BY <1>1, <1>2, CallHasPipe, Zenon

\* Steps that leave the pipes and the lists alone.
LEMMA QuietWait ==
    ASSUME WaiterIsAwaited, UNCHANGED <<buf, closed, waiting, todo, lost>>,
           SleepersStay
    PROVE  WaiterIsAwaited'
<1>1. ASSUME NEW t \in Tasks, status'[t] = "wait" PROVE Asleep(t)' \/ Called(t)'
  <2>1. SleepsOn(t)
    BY <1>1, Zenon DEF SleepersStay
  <2>2. Asleep(t) \/ Called(t)
    BY <2>1, AwaitedMeans, Zenon DEF SleepsOn
  <2>3. CASE Asleep(t)
    BY <2>1, <2>3, Zenon DEF SleepsOn, Asleep, Ready, At, Room
  <2>4. CASE Called(t)
    BY <2>1, <2>4, Zenon DEF SleepsOn, Called
  <2> QED
    BY <2>2, <2>3, <2>4, Zenon
<1> QED
  BY <1>1, AwaitedMeansNext, Zenon

\* A waker takes the waiters of one end off: they are called, and those of
\* the other end still have nothing to do.
LEMMA DetachWait ==
    ASSUME PipeTypes, CallInv, WaiterIsAwaited,
           NEW x \in Actors, NEW p \in Pipes, NEW e \in Ends, lost' = lost,
           waiting' = [waiting EXCEPT ![p][e] = {}],
           todo' = [todo EXCEPT ![x] = @ \cup waiting[p][e]],
           SleepersStay,
           NoneGetsReady(p, e)
    PROVE  WaiterIsAwaited'
<1>1. /\ todo \in [Actors -> Waiters] /\ waiting \in [Pipes -> [Ends -> Waiters]]
      /\ waiting[p] \in [Ends -> Waiters]
  BY Zenon DEF PipeTypes
<1>2. todo'[x] = todo[x] \cup waiting[p][e] /\ \A y \in Actors \ {x} : todo'[y] = todo[y]
  BY <1>1, Zenon
<1>3. waiting' = [waiting EXCEPT ![p] = [waiting[p] EXCEPT ![e] = {}]]
  BY <1>1, Zenon
<1>4. waiting'[p] = [waiting[p] EXCEPT ![e] = {}] /\ \A q \in Pipes \ {p} : waiting'[q] = waiting[q]
  BY <1>1, <1>3, Zenon
<1>5. \A f \in Ends \ {e} : waiting'[p][f] = waiting[p][f]
  BY <1>1, <1>4, Zenon
<1>6. ASSUME NEW t \in Tasks, status'[t] = "wait" PROVE Asleep(t)' \/ Called(t)'
  <2>1. SleepsOn(t)
    BY <1>6, Zenon DEF SleepersStay
  <2>2. Asleep(t) \/ Called(t)
    BY <2>1, AwaitedMeans, Zenon DEF SleepsOn
  <2>3. op[t].at \in Ends /\ op[t].pipe \in Pipes
    BY <2>1, WaiterPlace, Zenon DEF SleepsOn
  <2>4. CASE Called(t)
    <3>1. \A y \in Actors : todo[y] \subseteq todo'[y]
      BY <1>2, Zenon
    <3> QED
      BY <2>1, <2>4, <3>1, Zenon DEF SleepsOn, Called
  <2>5. CASE Asleep(t) /\ op[t].pipe = p /\ op[t].at = e
    <3>1. <<t, tid[t]>> \in todo'[x]
      BY <1>2, <2>5, Zenon DEF Asleep
    <3> QED
      BY <2>1, <3>1, Zenon DEF SleepsOn, Called
  <2>6. CASE Asleep(t) /\ ~(op[t].pipe = p /\ op[t].at = e)
    <3>1. waiting'[op[t].pipe][op[t].at] = waiting[op[t].pipe][op[t].at]
      BY <1>4, <1>5, <2>3, <2>6, Zenon
    <3>2. ~Ready(t)'
      BY <2>1, <2>6, Zenon DEF SleepsOn, Asleep, NoneGetsReady
    <3> QED
      BY <2>1, <2>6, <3>1, <3>2, Zenon DEF SleepsOn, Asleep
  <2> QED
    BY <2>2, <2>4, <2>5, <2>6, Zenon
<1> QED
  BY <1>6, AwaitedMeansNext, Zenon

\* pipefs_close wakes the side whose end stays open.
LEMMA CloseWait ==
    ASSUME PipeTypes, CallInv, WaiterIsAwaited,
           NEW x \in Actors, NEW p \in Pipes, NEW e \in Ends, CloseEnd(x, e, p),
           UNCHANGED <<buf, lost>>,
           SleepersStay
    PROVE  WaiterIsAwaited'
<1>1. Other(e) \in Ends
  BY SMT DEF Other, Ends
<1>2. /\ waiting' = [waiting EXCEPT ![p][Other(e)] = {}]
      /\ todo' = [todo EXCEPT ![x] = @ \cup waiting[p][Other(e)]]
  BY Zenon DEF CloseEnd
<1>3. \A q \in Pipes : \A f : f \in closed'[q] <=> f \in closed[q] \/ (q = p /\ f = e)
  BY CloseOne, Zenon
<1>4. ASSUME NEW t \in Tasks, status[t] = "wait", op'[t] = op[t],
             ~(op[t].pipe = p /\ op[t].at = Other(e)), ~Ready(t)
      PROVE  ~Ready(t)'
  <2>1. op[t].at \in Ends /\ op[t].pipe \in Pipes
    BY <1>4, WaiterPlace, Zenon
  <2>2. CASE op[t].at = "read"
    <3>1. buf[op[t].pipe] = << >> /\ "write" \notin closed[op[t].pipe]
      BY <1>4, <2>2, Zenon DEF Ready, At
    <3>2. op[t].pipe = p => e # "write"
      BY <1>4, <2>2, SMT DEF Other
    <3>3. "write" \notin closed'[op[t].pipe]
      BY <1>3, <2>1, <3>1, <3>2, Zenon
    <3> QED
      BY <1>4, <2>2, <3>1, <3>3, Zenon DEF Ready, At
  <2>3. CASE op[t].at = "write"
    <3>1. ~(Room(op[t].pipe) >= op[t].size) /\ "read" \notin closed[op[t].pipe]
      BY <1>4, <2>3, Zenon DEF Ready, At
    <3>2. op[t].pipe = p => e # "read"
      BY <1>4, <2>3, Zenon DEF Other
    <3>3. "read" \notin closed'[op[t].pipe]
      BY <1>3, <2>1, <3>1, <3>2, Zenon
    <3>4. ~At(t, "read")' /\ op'[t].pipe = op[t].pipe /\ op'[t].size = op[t].size
      BY <1>4, <2>3, Zenon DEF At
    <3>5. Room(op[t].pipe)' = Room(op[t].pipe)
      BY <1>4, Zenon DEF Room
    <3> QED
      BY <3>1, <3>3, <3>4, <3>5, Zenon DEF Ready, Room
  <2> QED
    BY <2>1, <2>2, <2>3, Zenon DEF Ends
<1>5. NoneGetsReady(p, Other(e))
  BY <1>4, Zenon DEF NoneGetsReady
<1>6. lost' = lost
  BY Zenon
<1> QED
  BY <1>1, <1>2, <1>5, <1>6, DetachWait, Zenon

\* A step of a thread that is awake, in its own call.
LEMMA OthersSleep ==
    ASSUME PipeTypes, NEW s \in Tasks, NEW c, op' = [op EXCEPT ![s] = c], status[s] # "wait",
           UNCHANGED <<status, tid>>
    PROVE  SleepersStay
<1>1. op \in [Tasks -> Call]
  BY Zenon DEF PipeTypes
<1>2. \A t \in Tasks \ {s} : op'[t] = op[t]
  BY <1>1, Zenon
<1> QED
  BY <1>2, Zenon DEF SleepersStay, SleepsOn

LEMMA ReleaseWait ==
    ASSUME PipeTypes, CallInv, WaiterIsAwaited,
           NEW x \in Actors, NEW p \in Pipes, NEW e \in Ends, NEW last, Release(x, e, p, last),
           UNCHANGED <<buf, lost>>, SleepersStay
    PROVE  WaiterIsAwaited'
<1>1. CASE e \in retired[p] /\ last
  <2>1. CloseEnd(x, e, p)
    BY <1>1, Zenon DEF Release
  <2> QED
    BY <2>1, CloseWait, Zenon
<1>2. CASE ~(e \in retired[p] /\ last)
  <2>1. UNCHANGED <<buf, closed, waiting, todo, lost>>
    BY <1>2, Zenon DEF Release
  <2> QED
    BY <2>1, QuietWait, Zenon
<1> QED
  BY <1>1, <1>2, Zenon

\* pipefs_read wakes the writers: a reader that sleeps on finds the pipe empty,
\* or is called already.
LEMMA ReadWait ==
    ASSUME PipeTypes, CallInv, WaiterIsAwaited, NEW s \in Tasks, ReadSome(s)
    PROVE  WaiterIsAwaited'
<1> DEFINE p == op[s].pipe
<1>1. /\ Running(s) /\ op[s].at # "none" /\ buf[p] # << >>
      /\ waiting' = [waiting EXCEPT ![p]["write"] = {}]
      /\ todo' = [todo EXCEPT ![s] = @ \cup waiting[p]["write"]]
      /\ op' = [op EXCEPT ![s] = [op[s] EXCEPT !.at = "read_done"]]
      /\ UNCHANGED <<closed, status, tid>> /\ lost' = lost
      /\ \E b : buf' = [buf EXCEPT ![p] = b]
  <2>1. op \in [Tasks -> Call]
    BY Zenon DEF PipeTypes
  <2>2. op[s].at \in {"read", "read_prepared"} /\ Moved(s, "read_done")
    BY Zenon DEF ReadSome
  <2>3. op[s].at # "none" /\ op' = [op EXCEPT ![s] = [op[s] EXCEPT !.at = "read_done"]]
    BY <2>1, <2>2, Zenon DEF Moved
  <2> QED
    BY <2>3, Zenon DEF ReadSome
<1>2. p \in Pipes /\ s \in Actors /\ "write" \in Ends /\ status[s] # "wait"
  BY <1>1, CallHasPipe, Zenon DEF Actors, Ends, Running
<1> HIDE DEF p
<1>3. SleepersStay
  BY <1>1, <1>2, OthersSleep, Zenon
<1>4. buf \in [Pipes -> Seq(Nat)]
  BY Zenon DEF PipeTypes
<1>5. \A q \in Pipes \ {p} : buf'[q] = buf[q]
  BY <1>1, <1>4, Zenon
<1>6. ASSUME NEW t \in Tasks, status[t] = "wait", op'[t] = op[t],
             ~(op[t].pipe = p /\ op[t].at = "write"), ~Ready(t)
      PROVE  ~Ready(t)'
  <2>1. op[t].at \in Ends /\ op[t].pipe \in Pipes
    BY <1>6, WaiterPlace, Zenon
  <2>2. op[t].pipe # p
    <3>1. CASE op[t].at = "read"
      BY <1>1, <1>6, <3>1, Zenon DEF Ready, At
    <3>2. CASE op[t].at = "write"
      BY <1>6, <3>2, Zenon
    <3> QED
      BY <2>1, <3>1, <3>2, Zenon DEF Ends
  <2>3. buf'[op[t].pipe] = buf[op[t].pipe] /\ closed' = closed
    BY <1>1, <1>5, <2>1, <2>2, Zenon
  <2> QED
    BY <1>6, <2>3, Zenon DEF Ready, At, Room
<1>7. NoneGetsReady(p, "write")
  BY <1>6, Zenon DEF NoneGetsReady
<1> QED
  BY <1>1, <1>2, <1>3, <1>7, DetachWait, Zenon

\* What fills a pipe wakes the readers, and leaves the writers no more room.
LEMMA FillWait ==
    ASSUME PipeTypes, CallInv, WaiterIsAwaited, NEW x \in Actors, NEW p \in Pipes,
           NEW b \in Seq(Nat), Len(b) >= Len(buf[p]), buf' = [buf EXCEPT ![p] = b],
           waiting' = [waiting EXCEPT ![p]["read"] = {}],
           todo' = [todo EXCEPT ![x] = @ \cup waiting[p]["read"]],
           closed' = closed, lost' = lost, SleepersStay
    PROVE  WaiterIsAwaited'
<1>1. buf \in [Pipes -> Seq(Nat)] /\ buf[p] \in Seq(Nat) /\ "read" \in Ends
  BY Zenon DEF PipeTypes, Ends
<1>2. buf'[p] = b /\ \A q \in Pipes \ {p} : buf'[q] = buf[q]
  BY <1>1, Zenon
<1>3. ASSUME NEW t \in Tasks, status[t] = "wait", op'[t] = op[t],
             ~(op[t].pipe = p /\ op[t].at = "read"), ~Ready(t)
      PROVE  ~Ready(t)'
  <2>1. op[t].at \in Ends /\ op[t].pipe \in Pipes
    BY <1>3, WaiterPlace, Zenon
  <2>2. CASE op[t].pipe # p
    <3>1. buf'[op[t].pipe] = buf[op[t].pipe]
      BY <1>2, <2>1, <2>2, Zenon
    <3> QED
      BY <1>3, <3>1, Zenon DEF Ready, At, Room
  <2>3. CASE op[t].pipe = p
    <3>1. op[t].at # "read"
      BY <1>3, <2>3, Zenon
    <3>2. ~(Room(p) >= op[t].size) /\ "read" \notin closed[p]
      BY <1>3, <2>3, <3>1, Zenon DEF Ready, At
    <3>3. op[t].size \in Nat
      <4>1. op[t] \in Call
        BY Zenon DEF PipeTypes
      <4> QED
        BY <4>1, SMT DEF Call
    <3>4. ~(Room(p)' >= op[t].size)
      <4>1. Len(b) \in Nat /\ Len(buf[p]) \in Nat /\ Capacity \in Nat
        BY <1>1, PipeAssumption, SMT
      <4>2. Room(p)' = Capacity - Len(b) /\ Room(p) = Capacity - Len(buf[p])
        BY <1>2, Zenon DEF Room
      <4> QED
        BY <3>2, <3>3, <4>1, <4>2, SMT
    <3>5. ~At(t, "read")' /\ op'[t].pipe = p /\ op'[t].size = op[t].size
      <4>1. op'[t].at = op[t].at /\ op'[t].pipe = op[t].pipe /\ op'[t].size = op[t].size
        BY <1>3, Zenon
      <4> QED
        BY <2>3, <3>1, <4>1, Zenon DEF At
    <3> QED
      BY <3>2, <3>4, <3>5, Zenon DEF Ready, Room
  <2> QED
    BY <2>2, <2>3, Zenon
<1>4. NoneGetsReady(p, "read")
  BY <1>3, Zenon DEF NoneGetsReady
<1> QED
  BY <1>1, <1>4, DetachWait, Zenon

\* pipe_wait_on puts a thread to sleep that has nothing to do.
LEMMA WaitOnWait ==
    ASSUME PipeTypes, CallInv, WaiterIsAwaited, NEW s \in Tasks, WaitOn(s)
    PROVE  WaiterIsAwaited'
<1> DEFINE e == IF op[s].at = "read_prepared" THEN "read" ELSE "write"
           p == op[s].pipe
           w == <<s, tid[s]>>
<1>1. /\ status[s] = "run" /\ op[s].at \in {"read_prepared", "write_prepared"} /\ MustWait(s)
      /\ waiting' = [waiting EXCEPT ![p][e] = @ \cup {w}]
      /\ status' = [status EXCEPT ![s] = "wait"]
      /\ Moved(s, e) /\ UNCHANGED <<buf, closed, tid, todo, lost>>
  BY Zenon DEF WaitOn, Running
<1>2. /\ op \in [Tasks -> Call] /\ op[s] \in Call
      /\ status \in [Tasks -> {"run", "wait", "dead", "freed"}]
      /\ waiting \in [Pipes -> [Ends -> Waiters]]
  BY Zenon DEF PipeTypes
<1>3. e \in Ends /\ op[s].at # "none"
  BY <1>1, SMT DEF Ends
<1>4. p \in Pipes
  BY <1>3, CallHasPipe, Zenon
<1>5. /\ op' = [op EXCEPT ![s] = [op[s] EXCEPT !.at = e]]
  BY <1>1, <1>2, Zenon DEF Moved
<1>6. op'[s] = [op[s] EXCEPT !.at = e] /\ \A t \in Tasks \ {s} : op'[t] = op[t] /\ status'[t] = status[t]
  BY <1>1, <1>2, <1>5, Zenon
<1>7. op'[s].at = e /\ op'[s].pipe = p /\ op'[s].size = op[s].size
  BY <1>2, <1>6, SMT DEF Call
<1>8. ~Ready(s)'
  <2>1. CASE op[s].at = "read_prepared"
    <3>1. buf[p] = << >> /\ "write" \notin closed[p] /\ e = "read"
      BY <1>1, <2>1, SMT DEF MustWait
    <3> QED
      BY <1>1, <1>7, <3>1, Zenon DEF Ready, At
  <2>2. CASE op[s].at = "write_prepared"
    <3>1. Room(p) < op[s].size /\ "read" \notin closed[p] /\ e = "write"
      BY <1>1, <2>2, Zenon DEF MustWait
    <3>2. ~(Room(p) >= op[s].size)
      <4>1. op[s].size \in Nat /\ buf[p] \in Seq(Nat)
        BY <1>2, <1>4, SMT DEF Call, PipeTypes
      <4>2. Len(buf[p]) \in Nat /\ Capacity \in Nat
        BY <4>1, PipeAssumption, SMT
      <4> HIDE DEF p
      <4> QED
        BY <3>1, <4>1, <4>2, SMT DEF Room
    <3> QED
      BY <1>1, <1>7, <3>1, <3>2, Zenon DEF Ready, At, Room
  <2> QED
    BY <1>1, <2>1, <2>2, Zenon
<1> HIDE DEF e, p, w
<1>9. /\ waiting[p] \in [Ends -> Waiters]
      /\ waiting' = [waiting EXCEPT ![p] = [waiting[p] EXCEPT ![e] = waiting[p][e] \cup {w}]]
  BY <1>1, <1>2, <1>4, Zenon
<1>10. /\ waiting'[p] = [waiting[p] EXCEPT ![e] = waiting[p][e] \cup {w}]
       /\ \A q \in Pipes \ {p} : waiting'[q] = waiting[q]
  BY <1>2, <1>4, <1>9, Zenon
<1>11. waiting'[p][e] = waiting[p][e] \cup {w} /\ \A f \in Ends \ {e} : waiting'[p][f] = waiting[p][f]
  <2>1. waiting'[p][e] = waiting[p][e] \cup {w}
    BY <1>3, <1>9, <1>10, ZenonT(40)
  <2>2. ASSUME NEW f \in Ends, f # e PROVE waiting'[p][f] = waiting[p][f]
    BY <1>9, <1>10, <2>2, ZenonT(40)
  <2> QED
    BY <2>1, <2>2, Zenon
<1>12. \A q \in Pipes, f \in Ends : waiting[q][f] \subseteq waiting'[q][f]
  BY <1>10, <1>11, Zenon
<1>13. ASSUME NEW t \in Tasks, status'[t] = "wait" PROVE Asleep(t)' \/ Called(t)'
  <2>1. CASE t = s
    <3>1. <<s, tid'[s]>> \in waiting'[op'[s].pipe][op'[s].at]
      BY <1>1, <1>7, <1>11, Zenon DEF w
    <3> QED
      BY <1>8, <2>1, <3>1, Zenon DEF Asleep
  <2>2. CASE t # s
    <3>1. status[t] = "wait" /\ op'[t] = op[t] /\ tid'[t] = tid[t]
      BY <1>1, <1>6, <1>13, <2>2, Zenon
    <3>2. op[t].at \in Ends /\ op[t].pipe \in Pipes
      BY <3>1, WaiterPlace, Zenon
    <3>3. Asleep(t) \/ Called(t)
      BY <3>1, AwaitedMeans, Zenon
    <3>4. CASE Asleep(t)
      <4>1. ~Ready(t)'
        BY <1>1, <3>1, <3>4, Zenon DEF Asleep, Ready, At, Room
      <4>2. <<t, tid'[t]>> \in waiting'[op'[t].pipe][op'[t].at]
        BY <1>12, <3>1, <3>2, <3>4, Zenon DEF Asleep
      <4> QED
        BY <4>1, <4>2, Zenon DEF Asleep
    <3>5. CASE Called(t)
      BY <1>1, <3>1, <3>5, Zenon DEF Called
    <3> QED
      BY <3>3, <3>4, <3>5, Zenon
  <2> QED
    BY <2>1, <2>2, Zenon
<1> QED
  BY <1>13, AwaitedMeansNext, Zenon

\* pipe_wake_waiters: the waiter that is called is awake.
LEMMA WakeWait ==
    ASSUME PipeTypes, CallInv, WaiterIsAwaited, NEW x \in Actors, Wake(x)
    PROVE  WaiterIsAwaited'
<1>1. PICK w \in todo[x] : status' = Woken(w) /\ todo' = [todo EXCEPT ![x] = todo[x] \ {w}]
  BY Zenon DEF Wake
<1>2. UNCHANGED <<buf, closed, waiting, tid, op, lost>>
  BY Zenon DEF Wake
<1>3. \A t \in Tasks : status'[t] = status[t] \/ (status[t] = "wait" /\ status'[t] = "run")
  BY WakeTypes, Zenon
<1>4. todo \in [Actors -> Waiters] /\ status \in [Tasks -> {"run", "wait", "dead", "freed"}]
  BY Zenon DEF PipeTypes
<1>5. todo'[x] = todo[x] \ {w} /\ \A y \in Actors \ {x} : todo'[y] = todo[y]
  BY <1>1, <1>4, Zenon
<1>6. ASSUME NEW t \in Tasks, status'[t] = "wait" PROVE Asleep(t)' \/ Called(t)'
  <2>1. status[t] = "wait"
    BY <1>3, <1>6, Zenon
  <2>2. Asleep(t) \/ Called(t)
    BY <2>1, AwaitedMeans, Zenon
  <2>3. w # <<t, tid[t]>>
    <3> SUFFICES ASSUME w = <<t, tid[t]>> PROVE FALSE
      OBVIOUS
    <3>1. w[1] = t /\ w[2] = tid[t]
      BY SMT
    <3>2. status' = [status EXCEPT ![t] = "run"]
      BY <1>1, <2>1, <3>1, Zenon DEF Woken
    <3>3. status'[t] = "run"
      BY <1>4, <3>2, Zenon
    <3> QED
      BY <1>6, <3>3, SMT
  <2>4. CASE Asleep(t)
    BY <1>2, <2>4, Zenon DEF Asleep, Ready, At, Room
  <2>5. CASE Called(t)
    BY <1>2, <1>5, <2>3, <2>5, Zenon DEF Called
  <2> QED
    BY <2>2, <2>4, <2>5, Zenon
<1> QED
  BY <1>6, AwaitedMeansNext, Zenon

\* A waker that is killed loses the waiters it was to wake.
LEMMA KillWait ==
    ASSUME PipeTypes, WaiterIsAwaited, NEW s \in Tasks, Kill(s)
    PROVE  WaiterIsAwaited'
<1>1. /\ status' = [status EXCEPT ![s] = "dead"] /\ lost' = lost \cup todo[s]
      /\ todo' = [todo EXCEPT ![s] = {}] /\ UNCHANGED <<buf, closed, waiting, tid, op>>
  BY Zenon DEF Kill
<1>2. /\ todo \in [Actors -> Waiters] /\ status \in [Tasks -> {"run", "wait", "dead", "freed"}]
      /\ s \in Actors
  BY Zenon DEF PipeTypes, Actors
<1>3. /\ \A y \in Actors \ {s} : todo'[y] = todo[y]
      /\ status'[s] = "dead" /\ \A t \in Tasks \ {s} : status'[t] = status[t]
  BY <1>1, <1>2, Zenon
<1>4. ASSUME NEW t \in Tasks, status'[t] = "wait" PROVE Asleep(t)' \/ Called(t)'
  <2>1. status[t] = "wait"
    BY <1>3, <1>4, SMT
  <2>2. Asleep(t) \/ Called(t)
    BY <2>1, AwaitedMeans, Zenon
  <2>3. CASE Asleep(t)
    BY <1>1, <2>3, Zenon DEF Asleep, Ready, At, Room
  <2>4. CASE Called(t)
    BY <1>1, <1>3, <2>4, Zenon DEF Called
  <2> QED
    BY <2>2, <2>3, <2>4, Zenon
<1> QED
  BY <1>4, AwaitedMeansNext, Zenon
-----------------------------------------------------------------------------
\* The pipes' part of the invariant, one lemma per kind of step.
LEMMA BeginKeeps ==
    ASSUME PipeInv, NEW s \in Tasks, NEW where \in {"read", "write", "acquire", "post"},
           NEW p \in Pipes, NEW n \in Nat, Begin(s, where, p, n, PinsAt(where))
    PROVE  PipeInv'
<1> DEFINE c == [at |-> where, pipe |-> p, size |-> n, pins |-> PinsAt(where)]
<1>1. /\ op' = [op EXCEPT ![s] = c] /\ status[s] = "run" /\ PinsAt(where) \cap retired[p] = {}
      /\ UNCHANGED <<buf, closed, retired, kernel, waiting, status, tid, todo, lost>>
  BY Zenon DEF Begin, Running
<1>2. PipeTypes /\ CallInv /\ ClosedInv /\ WaiterIsAwaited
  BY Zenon DEF PipeInv
<1>3. op' \in [Tasks -> Call] /\ CallInv'
  BY <1>2, NewCall, Zenon
<1>4. PipeTypes'
  BY <1>1, <1>2, <1>3, Zenon DEF PipeTypes
<1>5. c.pins = PinsAt(where) /\ c.pipe = p
  BY Zenon
<1> HIDE DEF c
<1>6. \A e \in c.pins : e \notin retired[c.pipe]
  BY <1>1, <1>5, Zenon
<1>7. ClosedInv'
  BY <1>1, <1>2, <1>6, ClosedStays, Zenon
<1>8. SleepersStay
  BY <1>1, <1>2, OthersSleep, Zenon
<1>9. WaiterIsAwaited'
  BY <1>1, <1>2, <1>8, QuietWait, Zenon
<1> QED
  BY <1>3, <1>4, <1>7, <1>9, Zenon DEF PipeInv

\* A call that goes on, with the tickets and on the pipe it has.
LEMMA MovedFacts ==
    ASSUME PipeTypes, NEW s \in Tasks, NEW where, Moved(s, where)
    PROVE  \E c : /\ op' = [op EXCEPT ![s] = c]
                  /\ c.pins = op[s].pins /\ c.pipe = op[s].pipe
<1> DEFINE c == [op[s] EXCEPT !.at = where]
<1>1. op \in [Tasks -> Call] /\ op[s] \in Call
  BY Zenon DEF PipeTypes
<1>2. op' = [op EXCEPT ![s] = c]
  BY <1>1, Zenon DEF Moved
<1>3. c.pins = op[s].pins /\ c.pipe = op[s].pipe
  BY <1>1, SMT DEF Call
<1> QED
  BY <1>2, <1>3, Zenon

LEMMA MovedCloses ==
    ASSUME PipeTypes, ClosedInv, NEW s \in Tasks, NEW where, Moved(s, where),
           UNCHANGED <<closed, retired, kernel>>
    PROVE  ClosedInv'
<1>1. PICK c : op' = [op EXCEPT ![s] = c] /\ c.pins = op[s].pins /\ c.pipe = op[s].pipe
  BY MovedFacts, Zenon
<1>2. \A e \in c.pins : c.pipe = op[s].pipe /\ e \in op[s].pins
  BY <1>1, Zenon
<1> QED
  BY <1>1, <1>2, ClosedStays, Zenon

LEMMA OnwardKeeps ==
    ASSUME PipeInv, NEW s \in Tasks, SeesClosed(s) \/ Prepare(s)
    PROVE  PipeInv'
<1>1. PipeTypes /\ CallInv /\ ClosedInv /\ WaiterIsAwaited
  BY Zenon DEF PipeInv
<1>2. PipeTypes' /\ CallInv'
  BY <1>1, OnwardTypes, Zenon
<1>3. /\ UNCHANGED <<buf, closed, waiting, todo, lost>> /\ UNCHANGED <<closed, retired, kernel>>
      /\ UNCHANGED <<status, tid>> /\ status[s] # "wait"
  BY ZenonT(20) DEF SeesClosed, Prepare, Running
<1>4. \E where : Moved(s, where)
  BY Zenon DEF SeesClosed, Prepare
<1>5. ClosedInv'
  BY <1>1, <1>3, <1>4, MovedCloses, Zenon
<1>6. SleepersStay
  <2>1. \E c : op' = [op EXCEPT ![s] = c]
    BY <1>1, <1>4, MovedFacts, Zenon
  <2> QED
    BY <1>1, <1>3, <2>1, OthersSleep, Zenon
<1>7. WaiterIsAwaited'
  BY <1>1, <1>3, <1>6, QuietWait, Zenon
<1> QED
  BY <1>2, <1>5, <1>7, Zenon DEF PipeInv

LEMMA ReadKeeps ==
    ASSUME PipeInv, NEW s \in Tasks, ReadSome(s)
    PROVE  PipeInv'
<1>1. PipeTypes /\ CallInv /\ ClosedInv /\ WaiterIsAwaited
  BY Zenon DEF PipeInv
<1>2. PipeTypes' /\ CallInv'
  BY <1>1, TransferTypes, Zenon
<1>3. Moved(s, "read_done") /\ UNCHANGED <<closed, retired, kernel>>
  BY Zenon DEF ReadSome
<1>4. ClosedInv'
  BY <1>1, <1>3, MovedCloses, Zenon
<1>5. WaiterIsAwaited'
  BY <1>1, ReadWait, Zenon
<1> QED
  BY <1>2, <1>4, <1>5, Zenon DEF PipeInv

LEMMA WriteKeeps ==
    ASSUME PipeInv, NEW s \in Tasks, WriteAll(s)
    PROVE  PipeInv'
<1> DEFINE p == op[s].pipe
           b == buf[p] \o Filler(op[s].size)
<1>1. PipeTypes /\ CallInv /\ ClosedInv /\ WaiterIsAwaited
  BY Zenon DEF PipeInv
<1>2. PipeTypes' /\ CallInv'
  BY <1>1, TransferTypes, Zenon
<1>3. /\ Moved(s, "write_done") /\ UNCHANGED <<closed, retired, kernel>> /\ UNCHANGED <<status, tid>>
      /\ status[s] = "run" /\ op[s].at \in {"write", "write_prepared"}
      /\ waiting' = [waiting EXCEPT ![p]["read"] = {}]
      /\ todo' = [todo EXCEPT ![s] = @ \cup waiting[p]["read"]]
      /\ buf' = [buf EXCEPT ![p] = b] /\ closed' = closed /\ lost' = lost
  BY Zenon DEF WriteAll, Running
<1>4. ClosedInv'
  BY <1>1, <1>3, MovedCloses, Zenon
<1>5. SleepersStay
  <2>1. \E c : op' = [op EXCEPT ![s] = c]
    BY <1>1, <1>3, MovedFacts, Zenon
  <2>2. status[s] # "wait"
    BY <1>3, SMT
  <2> HIDE DEF p, b
  <2> QED
    BY <1>1, <1>3, <2>1, <2>2, OthersSleep, Zenon
<1>6. p \in Pipes /\ s \in Actors
  <2>1. op[s].at # "none"
    BY <1>3, SMT
  <2> QED
    BY <1>1, <2>1, CallHasPipe, Zenon DEF Actors
<1>7. b \in Seq(Nat) /\ Len(b) >= Len(buf[p])
  <2>1. op[s] \in Call /\ buf[p] \in Seq(Nat)
    BY <1>1, <1>6, Zenon DEF PipeTypes
  <2>2. op[s].size \in Nat
    BY <2>1, SMT DEF Call
  <2>3. Filler(op[s].size) \in Seq(Nat)
    BY <2>2, FillerIsSeq, Zenon
  <2> QED
    BY <2>1, <2>3, LongerWith, Zenon
<1>8. WaiterIsAwaited'
  <2> HIDE DEF p, b
  <2> QED
    BY <1>1, <1>3, <1>5, <1>6, <1>7, FillWait, Zenon
<1> QED
  BY <1>2, <1>4, <1>8, Zenon DEF PipeInv

LEMMA WaitOnKeeps ==
    ASSUME PipeInv, NEW s \in Tasks, WaitOn(s)
    PROVE  PipeInv'
<1>1. PipeTypes /\ CallInv /\ ClosedInv /\ WaiterIsAwaited
  BY Zenon DEF PipeInv
<1>2. (\E e : Moved(s, e)) /\ UNCHANGED <<closed, retired, kernel>>
  BY Zenon DEF WaitOn
<1>3. ClosedInv'
  BY <1>1, <1>2, MovedCloses, Zenon
<1> QED
  BY <1>1, <1>3, WaitOnTypes, WaitOnWait, Zenon DEF PipeInv

\* A call returns, or a post fails.
LEMMA ReturnKeeps ==
    ASSUME PipeInv, NEW s \in Tasks, Return(s) \/ PostFails(s)
    PROVE  PipeInv'
<1>1. PipeTypes /\ CallInv /\ ClosedInv /\ WaiterIsAwaited
  BY Zenon DEF PipeInv
<1>2. PipeTypes' /\ CallInv'
  BY <1>1, ReturnTypes, Zenon
<1>3. /\ UNCHANGED <<retired, kernel>> /\ UNCHANGED <<buf, lost>> /\ UNCHANGED <<status, tid>>
      /\ status[s] # "wait"
  BY ZenonT(20) DEF Return, PostFails, Running
<1>4. op[s].at # "none" /\ \E e \in Ends : Finish(s, e)
  <2>1. CASE Return(s)
    <3>1. op[s].at \in {"read_done", "write_done"}
      BY <2>1, Zenon DEF Return
    <3>2. Finish(s, IF op[s].at = "read_done" THEN "read" ELSE "write")
      BY <2>1, Zenon DEF Return
    <3> QED
      BY <3>1, <3>2, Zenon DEF Ends
  <2>2. CASE PostFails(s)
    BY <2>2, Zenon DEF PostFails, Ends, At
  <2> QED
    BY <2>1, <2>2, Zenon
<1>5. PICK e \in Ends : Finish(s, e)
  BY <1>4, Zenon
<1>6. /\ op' = [op EXCEPT ![s] = NoCall]
      /\ Release(s, e, op[s].pipe, NoOther({s}, 0, e, op[s].pipe))
  BY <1>5, Zenon DEF Finish
<1>7. op[s].pipe \in Pipes /\ s \in Actors
  BY <1>1, <1>4, CallHasPipe, Zenon DEF Actors
<1>8. NoCall.pins \subseteq op[s].pins \ {e} /\ NoCall.pins = {}
  BY NoCallOk, Zenon
<1>9. ClosedInv'
  BY <1>1, <1>3, <1>6, <1>7, <1>8, ReleaseCloses, Zenon
<1>10. SleepersStay
  BY <1>1, <1>3, <1>6, OthersSleep, Zenon
<1>11. WaiterIsAwaited'
  BY <1>1, <1>3, <1>6, <1>7, <1>10, ReleaseWait, Zenon
<1> QED
  BY <1>2, <1>9, <1>11, Zenon DEF PipeInv

LEMMA RetireKeeps ==
    ASSUME PipeInv, NEW x \in Actors, NEW e \in Ends, NEW p \in Pipes, Retire(x, e, p)
    PROVE  PipeInv'
<1>1. PipeTypes /\ CallInv /\ ClosedInv /\ WaiterIsAwaited
  BY Zenon DEF PipeInv
<1>2. PipeTypes' /\ CallInv' /\ ClosedInv'
  BY <1>1, RetireTypes, RetireCloses, Zenon
<1>3. UNCHANGED <<buf, lost>> /\ UNCHANGED <<op, status, tid>>
  BY Zenon DEF Retire
<1>4. SleepersStay
  BY <1>3, Zenon DEF SleepersStay, SleepsOn
<1>5. WaiterIsAwaited'
  <2>1. CASE NoOther({}, 0, e, p)
    <3>1. CloseEnd(x, e, p)
      BY <2>1, Zenon DEF Retire
    <3> QED
      BY <1>1, <1>3, <1>4, <3>1, CloseWait, Zenon
  <2>2. CASE ~NoOther({}, 0, e, p)
    <3>1. UNCHANGED <<buf, closed, waiting, todo, lost>>
      BY <1>3, <2>2, Zenon DEF Retire
    <3> QED
      BY <1>1, <1>4, <3>1, QuietWait, Zenon
  <2> QED
    BY <2>1, <2>2, Zenon
<1> QED
  BY <1>2, <1>5, Zenon DEF PipeInv

\* Steps that have nothing to do with tickets.
LEMMA SameTickets ==
    ASSUME ClosedInv, UNCHANGED <<closed, retired, kernel, op>> PROVE ClosedInv'
BY Zenon DEF ClosedInv, NoOther, Tickets

LEMMA WakeKeeps ==
    ASSUME PipeInv, NEW x \in Actors, Wake(x)
    PROVE  PipeInv'
<1>1. PipeTypes /\ CallInv /\ ClosedInv /\ WaiterIsAwaited
  BY Zenon DEF PipeInv
<1>2. UNCHANGED <<closed, retired, kernel, op>>
  BY Zenon DEF Wake
<1>3. PipeTypes' /\ CallInv'
  BY <1>1, WakeTypes, Zenon
<1>4. WaiterIsAwaited'
  BY <1>1, WakeWait, Zenon
<1> QED
  BY <1>1, <1>2, <1>3, <1>4, SameTickets, Zenon DEF PipeInv

LEMMA ThreadKeeps ==
    ASSUME PipeInv, NEW s \in Tasks, Kill(s) \/ FreeTask(s) \/ Spawn(s)
    PROVE  PipeInv'
<1>1. PipeTypes /\ CallInv /\ ClosedInv /\ WaiterIsAwaited
  BY Zenon DEF PipeInv
<1>2. UNCHANGED <<closed, retired, kernel, op>>
  BY Zenon DEF Kill, FreeTask, Spawn
<1>3. PipeTypes' /\ CallInv'
  BY <1>1, ThreadTypes, Zenon
<1>4. WaiterIsAwaited'
  <2>1. CASE Kill(s)
    BY <1>1, <2>1, KillWait, Zenon
  <2>2. CASE FreeTask(s) \/ Spawn(s)
    <3>1. UNCHANGED <<buf, closed, waiting, todo, lost>>
      BY <2>2, Zenon DEF FreeTask, Spawn
    <3>2. /\ status \in [Tasks -> {"run", "wait", "dead", "freed"}] /\ tid \in [Tasks -> Nat]
      BY <1>1, Zenon DEF PipeTypes
    <3>3. \E st \in {"run", "freed"} : status' = [status EXCEPT ![s] = st]
      BY <2>2, Zenon DEF FreeTask, Spawn
    <3>4. status'[s] # "wait" /\ \A t \in Tasks \ {s} : status'[t] = status[t]
      BY <3>2, <3>3, SMT
    <3>5. \A t \in Tasks \ {s} : tid'[t] = tid[t]
      BY <2>2, <3>2, Zenon DEF FreeTask, Spawn
    <3>6. SleepersStay
      BY <1>2, <3>4, <3>5, Zenon DEF SleepersStay, SleepsOn
    <3> QED
      BY <1>1, <3>1, <3>6, QuietWait, Zenon
  <2> QED
    BY <2>1, <2>2, Zenon
<1> QED
  BY <1>1, <1>2, <1>3, <1>4, SameTickets, Zenon DEF PipeInv

LEMMA AbandonKeeps ==
    ASSUME PipeInv, NEW s \in Tasks, NEW e \in Ends, Abandon(s, e)
    PROVE  PipeInv'
<1>1. PipeTypes /\ CallInv /\ ClosedInv /\ WaiterIsAwaited
  BY Zenon DEF PipeInv
<1>2. PipeTypes' /\ CallInv'
  BY <1>1, AbandonTypes, Zenon
<1>3. /\ op' = [op EXCEPT ![s] = Rest(op[s], e)] /\ e \in op[s].pins /\ status[s] = "dead"
      /\ Release(Reaper, e, op[s].pipe, NoOther({s}, 0, e, op[s].pipe))
      /\ UNCHANGED <<retired, kernel>> /\ UNCHANGED <<buf, lost>> /\ UNCHANGED <<status, tid>>
  BY Zenon DEF Abandon
<1>4. op[s] \in Call /\ CallOk(op[s], "dead") /\ Reaper \in Actors /\ status[s] # "wait"
  BY <1>1, <1>3, Zenon DEF PipeTypes, CallInv, Actors
<1>5. /\ op[s].pipe \in Pipes /\ Rest(op[s], e).pins = op[s].pins \ {e}
      /\ Rest(op[s], e).pins # {} => Rest(op[s], e).pipe = op[s].pipe
  BY <1>3, <1>4, RestOfCall, Zenon
<1>6. Rest(op[s], e).pins \subseteq op[s].pins \ {e}
  BY <1>5, Zenon
<1>7. ClosedInv'
  BY <1>1, <1>3, <1>4, <1>5, <1>6, ReleaseCloses, Zenon
<1>8. SleepersStay
  BY <1>1, <1>3, <1>4, OthersSleep, Zenon
<1>9. WaiterIsAwaited'
  BY <1>1, <1>3, <1>4, <1>5, <1>8, ReleaseWait, Zenon
<1> QED
  BY <1>2, <1>7, <1>9, Zenon DEF PipeInv

LEMMA CompareKeeps ==
    ASSUME PipeInv, NEW s \in Tasks, AcquireReader(s) \/ ReleaseReader(s)
    PROVE  PipeInv'
<1>1. PipeTypes /\ CallInv /\ ClosedInv /\ WaiterIsAwaited
  BY Zenon DEF PipeInv
<1>2. PipeTypes' /\ CallInv' /\ op[s].pipe \in Pipes
  BY <1>1, CompareTypes, Zenon
<1>3. UNCHANGED <<retired, kernel>> /\ UNCHANGED <<buf, lost>> /\ UNCHANGED <<status, tid>> /\ status[s] = "run"
  BY Zenon DEF AcquireReader, ReleaseReader, Running
<1>4. status[s] # "wait" /\ s \in Actors /\ "read" \in Ends
  BY <1>3, Zenon DEF Actors, Ends
<1>5. CallOk(op[s], "run")
  BY <1>1, <1>3, Zenon DEF CallInv
<1>6. CASE AcquireReader(s)
  <2> DEFINE c == [at |-> "compare", pipe |-> op[s].pipe, size |-> 0, pins |-> Ends]
  <2>1. /\ op' = [op EXCEPT ![s] = c] /\ op[s].at = "acquire" /\ "read" \notin retired[op[s].pipe]
        /\ UNCHANGED <<closed, retired, kernel>> /\ UNCHANGED <<buf, closed, waiting, todo, lost>>
    BY <1>6, Zenon DEF AcquireReader, At
  <2>2. op[s].pins = {"write"}
    BY <1>5, <2>1, PinsByPlace, Zenon DEF CallOk
  <2>3. c.pins = Ends /\ c.pipe = op[s].pipe
    BY Zenon
  <2> HIDE DEF c
  <2>4. \A e \in c.pins : (c.pipe = op[s].pipe /\ e \in op[s].pins) \/ e \notin retired[c.pipe]
    BY <2>1, <2>2, <2>3, SMT DEF Ends
  <2>5. ClosedInv'
    BY <1>1, <2>1, <2>4, ClosedStays, Zenon
  <2>6. SleepersStay
    BY <1>1, <1>3, <1>4, <2>1, OthersSleep, Zenon
  <2>7. WaiterIsAwaited'
    BY <1>1, <2>1, <2>6, QuietWait, Zenon
  <2> QED
    BY <1>2, <2>5, <2>7, Zenon DEF PipeInv
<1>7. CASE ReleaseReader(s)
  <2> DEFINE c == [at |-> "post", pipe |-> op[s].pipe, size |-> 0, pins |-> {"write"}]
  <2>1. /\ op' = [op EXCEPT ![s] = c] /\ op[s].at = "compare"
        /\ Release(s, "read", op[s].pipe, NoOther({s}, 0, "read", op[s].pipe))
    BY <1>7, Zenon DEF ReleaseReader, At
  <2>2. op[s].pins = Ends
    BY <1>5, <2>1, PinsByPlace, Zenon DEF CallOk
  <2>3. c.pins = {"write"} /\ c.pipe = op[s].pipe
    BY Zenon
  <2> HIDE DEF c
  <2>4. c.pins \subseteq op[s].pins \ {"read"}
    BY <2>2, <2>3, SMT DEF Ends
  <2>5. ClosedInv'
    BY <1>1, <1>2, <1>3, <1>4, <2>1, <2>3, <2>4, ReleaseCloses, Zenon
  <2>6. SleepersStay
    BY <1>1, <1>3, <1>4, <2>1, OthersSleep, Zenon
  <2>7. WaiterIsAwaited'
    BY <1>1, <1>2, <1>3, <1>4, <2>1, <2>6, ReleaseWait, Zenon
  <2> QED
    BY <1>2, <2>5, <2>7, Zenon DEF PipeInv
<1> QED
  BY <1>6, <1>7, Zenon

LEMMA EnqueueKeeps ==
    ASSUME PipeInv, RingTypes, NEW s \in Tasks, Enqueue(s)
    PROVE  PipeInv'
<1>1. PipeTypes /\ CallInv /\ ClosedInv /\ WaiterIsAwaited
  BY Zenon DEF PipeInv
<1>2. PipeTypes' /\ CallInv' /\ ClosedInv'
  BY <1>1, EnqueueTypes, EnqueueCloses, Zenon
<1>3. /\ op' = [op EXCEPT ![s] = NoCall] /\ status[s] # "wait" /\ UNCHANGED <<status, tid>>
      /\ UNCHANGED <<buf, closed, waiting, todo, lost>>
  BY ZenonT(20) DEF Enqueue, Running
<1>4. SleepersStay
  BY <1>1, <1>3, OthersSleep, Zenon
<1>5. WaiterIsAwaited'
  BY <1>1, <1>3, <1>4, QuietWait, Zenon
<1> QED
  BY <1>2, <1>5, Zenon DEF PipeInv

LEMMA PumpKeeps ==
    ASSUME PipeInv, RingTypes, RingInv, Pump
    PROVE  PipeInv'
<1>1. PipeTypes /\ CallInv /\ ClosedInv /\ WaiterIsAwaited
  BY Zenon DEF PipeInv
<1>2. PipeTypes' /\ CallInv'
  BY <1>1, PumpTypes, Zenon
<1>3. UNCHANGED <<op, status, tid>> /\ lost' = lost
  BY Zenon DEF Pump, Pick, CheckRetired, TryWrite, TakeOff, ReleaseRecord, pipeVars
<1>4. SleepersStay
  BY <1>3, Zenon DEF SleepersStay, SleepsOn
<1>5. CASE Pick \/ CheckRetired \/ TakeOff
  <2>1. UNCHANGED <<closed, retired, kernel, op>> /\ UNCHANGED <<buf, closed, waiting, todo, lost>>
    BY <1>5, Zenon DEF Pick, CheckRetired, TakeOff, pipeVars
  <2>2. ClosedInv' /\ WaiterIsAwaited'
    BY <1>1, <1>4, <2>1, SameTickets, QuietWait, Zenon
  <2> QED
    BY <1>2, <2>2, Zenon DEF PipeInv
<1>6. CASE TryWrite
  <2> DEFINE p == worker.pipe
             b == Append(buf[p], Head(queue[p]))
  <2>1. UNCHANGED <<closed, retired, kernel, op>> /\ worker.at = "checked" /\ closed' = closed
    BY <1>6, Zenon DEF TryWrite
  <2>2. p \in Pipes /\ p \in Loaded /\ Worker \in Actors
    BY <2>1, SMT DEF RingInv, Loaded, Actors
  <2>3. b \in Seq(Nat) /\ Len(b) >= Len(buf[p])
    <3>1. buf[p] \in Seq(Nat) /\ queue[p] \in Seq(Nat) /\ queue[p] # << >>
      BY <1>1, <2>2, Zenon DEF PipeTypes, RingTypes, Loaded
    <3> HIDE DEF p
    <3>2. Head(queue[p]) \in Nat
      BY <3>1, SMT
    <3> QED
      BY <3>1, <3>2, SMT
  <2>4. ClosedInv'
    BY <1>1, <2>1, SameTickets, Zenon
  <2>5. WaiterIsAwaited'
    <3>1. CASE UNCHANGED <<buf, waiting, todo>>
      <4>1. UNCHANGED <<buf, closed, waiting, todo, lost>>
        BY <1>3, <2>1, <3>1, Zenon
      <4> QED
        BY <1>1, <1>4, <4>1, QuietWait, Zenon
    <3>2. CASE /\ buf' = [buf EXCEPT ![p] = b]
               /\ waiting' = [waiting EXCEPT ![p]["read"] = {}]
               /\ todo' = [todo EXCEPT ![Worker] = @ \cup waiting[p]["read"]]
      <4> HIDE DEF p, b
      <4> QED
        BY <1>1, <1>3, <1>4, <2>1, <2>2, <2>3, <3>2, FillWait, Zenon
    <3> QED
      BY <1>6, <3>1, <3>2, Zenon DEF TryWrite
  <2> QED
    BY <1>2, <2>4, <2>5, Zenon DEF PipeInv
<1>7. CASE ReleaseRecord
  <2>1. /\ worker.pipe \in Pipes /\ UNCHANGED <<buf, lost>>
        /\ Release(Worker, "write", worker.pipe, NoOther({}, 1, "write", worker.pipe))
    BY <1>7, ReleaseRecordRing, Zenon DEF ReleaseRecord
  <2>2. Worker \in Actors /\ "write" \in Ends
    BY Zenon DEF Actors, Ends
  <2>3. WaiterIsAwaited'
    BY <1>1, <1>4, <2>1, <2>2, ReleaseWait, Zenon
  <2>4. ClosedInv'
    BY <1>1, <1>7, ReleaseRecordCloses, Zenon
  <2> QED
    BY <1>2, <2>3, <2>4, Zenon DEF PipeInv
<1> QED
  BY <1>5, <1>6, <1>7, Zenon DEF Pump
-----------------------------------------------------------------------------
\* The ring's part, for the steps that leave the messages alone.
LEMMA RingStays ==
    ASSUME RingTypes, RingInv, UNCHANGED <<queue, ready, worker, posted, kernel>>
    PROVE  RingTypes' /\ RingInv'
<1>1. Loaded' = Loaded /\ \A p \in Pipes : Loose(p)' = Loose(p)
  BY Zenon DEF Loaded, Loose
<1>2. RingTypes'
  BY Zenon DEF RingTypes
<1> QED
  BY <1>1, <1>2, Zenon DEF RingInv

\* A step of the pipes, with the actor and the place it is taken at.
LEMMA PipeStepKeeps ==
    ASSUME PipeInv, PipeStep PROVE PipeInv' /\ kernel' = kernel
<1>1. Attended \subseteq Pipes /\ Tasks \cup {Reaper} \subseteq Actors
  BY MessageAssumption, Zenon DEF Actors
<1>2. ASSUME NEW s \in Tasks, NEW p \in Attended, NEW n \in 1..Capacity,
             BeginRead(s, p, n) \/ BeginWrite(s, p, n)
      PROVE  PipeInv' /\ kernel' = kernel
  <2>1. p \in Pipes /\ n \in Nat
    BY <1>1, PipeAssumption, SMT
  <2>2. PinsAt("read") = {"read"} /\ PinsAt("write") = {"write"}
    BY SMT DEF PinsAt, Reading
  <2>3. PICK where \in {"read", "write"} : Begin(s, where, p, n, PinsAt(where))
    BY <1>2, <2>2, Zenon DEF BeginRead, BeginWrite
  <2>4. kernel' = kernel
    BY <2>3, Zenon DEF Begin
  <2>5. where \in {"read", "write", "acquire", "post"}
    BY <2>3, Zenon
  <2> QED
    BY <2>1, <2>3, <2>4, <2>5, BeginKeeps, Zenon
<1>3. ASSUME NEW s \in Tasks, ReadSome(s) \/ WriteAll(s)
      PROVE  PipeInv' /\ kernel' = kernel
  BY <1>3, ReadKeeps, WriteKeeps, Zenon DEF ReadSome, WriteAll
<1>4. ASSUME NEW s \in Tasks, SeesClosed(s) \/ Prepare(s)
      PROVE  PipeInv' /\ kernel' = kernel
  BY <1>4, OnwardKeeps, Zenon DEF SeesClosed, Prepare
<1>5. ASSUME NEW s \in Tasks, WaitOn(s)
      PROVE  PipeInv' /\ kernel' = kernel
  BY <1>5, WaitOnKeeps, Zenon DEF WaitOn
<1>6. ASSUME NEW s \in Tasks, Return(s)
      PROVE  PipeInv' /\ kernel' = kernel
  BY <1>6, ReturnKeeps, Zenon DEF Return
<1>7. ASSUME NEW s \in Tasks, Kill(s) \/ FreeTask(s) \/ Spawn(s)
      PROVE  PipeInv' /\ kernel' = kernel
  BY <1>7, ThreadKeeps, Zenon DEF Kill, FreeTask, Spawn
<1>8. ASSUME NEW s \in Tasks, NEW e \in Ends, Abandon(s, e)
      PROVE  PipeInv' /\ kernel' = kernel
  BY <1>8, AbandonKeeps, Zenon DEF Abandon
<1>9. ASSUME NEW x \in Tasks \cup {Reaper}, NEW e \in Ends, NEW p \in Attended, Retire(x, e, p)
      PROVE  PipeInv' /\ kernel' = kernel
  <2>1. x \in Actors /\ p \in Pipes
    BY <1>1, Zenon
  <2> QED
    BY <1>9, <2>1, RetireKeeps, Zenon DEF Retire
<1>10. ASSUME NEW x \in Actors, Wake(x)
       PROVE  PipeInv' /\ kernel' = kernel
  BY <1>10, WakeKeeps, Zenon DEF Wake
<1> QED
  BY <1>2, <1>3, <1>4, <1>5, <1>6, <1>7, <1>8, <1>9, <1>10, Zenon DEF PipeStep

LEMMA PostStepKeeps ==
    ASSUME PipeInv, NEW s \in Tasks, PostStep(s) PROVE PipeInv' /\ kernel' = kernel
<1>1. ASSUME NEW p \in Pipes, PostNotification(s, p) \/ PostWindow(s, p)
      PROVE  PipeInv' /\ kernel' = kernel
  <2>1. PICK where \in {"acquire", "post"} : Begin(s, where, p, 0, PinsAt(where))
    BY <1>1, PinsByPlace, Zenon DEF PostNotification, PostWindow
  <2>2. where \in {"read", "write", "acquire", "post"} /\ 0 \in Nat
    BY <2>1, SMT
  <2> QED
    BY <2>1, <2>2, BeginKeeps, Zenon DEF Begin
<1>2. CASE AcquireReader(s) \/ ReleaseReader(s)
  BY <1>2, CompareKeeps, Zenon DEF AcquireReader, ReleaseReader
<1>3. CASE PostFails(s)
  BY <1>3, ReturnKeeps, Zenon DEF PostFails
<1> QED
  BY <1>1, <1>2, <1>3, MessageAssumption, Zenon DEF PostStep

LEMMA DeliveryInitial == Init => DeliveryInv
<1> SUFFICES ASSUME Init PROVE DeliveryInv
  OBVIOUS
<1> USE DEF Init, PipeInit
<1>1. << >> \in Seq(Nat) /\ << >> \in Seq(Pipes) /\ Len(<< >>) = 0
  BY SMT
<1>2. {} \in Waiters /\ {} \in SUBSET Ends
  BY Zenon DEF Waiters
<1>3. PipeTypes
  BY <1>1, <1>2, NoCallOk, Zenon DEF PipeTypes
<1>4. CallInv
  BY NoCallOk, Zenon DEF CallInv
<1>5. ClosedInv
  BY Zenon DEF ClosedInv
<1>6. WaiterIsAwaited
  BY Zenon DEF WaiterIsAwaited
<1>7. worker.at = "idle" /\ worker \in [at : Places, pipe : Pipes \cup {{}}]
  BY SMT DEF Idle, Places
<1>8. RingTypes
  BY <1>1, <1>7, SMT DEF RingTypes
<1>9. Loaded = {} /\ \A p \in Pipes : Loose(p) = 0
  BY <1>7, Zenon DEF Loaded, Loose
<1>10. Rings(ready, Loaded)
  BY <1>1, <1>9, SMT DEF Rings
<1>11. \A p \in Pipes : kernel[p] = Len(queue[p]) + Loose(p)
  BY <1>1, <1>9, SMT
<1>12. RingInv
  BY <1>7, <1>10, <1>11, Zenon DEF RingInv
<1> QED
  BY <1>3, <1>4, <1>5, <1>6, <1>8, <1>12, Zenon DEF DeliveryInv, PipeInv

LEMMA DeliveryStep == DeliveryInv /\ [Next]_vars => DeliveryInv'
<1> SUFFICES ASSUME DeliveryInv, [Next]_vars PROVE DeliveryInv'
  OBVIOUS
<1>0. PipeInv /\ CallInv /\ RingTypes /\ RingInv
  BY Zenon DEF DeliveryInv, PipeInv
<1>1. CASE UNCHANGED vars
  <2>1. UNCHANGED <<queue, ready, worker, posted, kernel>>
    BY <1>1, Zenon DEF vars, pipeVars
  <2>2. UNCHANGED <<buf, closed, retired, waiting, status, tid, op, todo>>
    BY <1>1, Zenon DEF vars, pipeVars
  <2>3. UNCHANGED <<buf, closed, waiting, todo, lost>> /\ UNCHANGED <<closed, retired, kernel, op>>
    BY <1>1, Zenon DEF vars, pipeVars
  <2>4. PipeTypes' /\ CallInv'
    BY <1>0, <2>2, Zenon DEF PipeTypes, CallInv, PipeInv
  <2>5. SleepersStay
    BY <2>2, Zenon DEF SleepersStay, SleepsOn
  <2>6. ClosedInv' /\ WaiterIsAwaited'
    BY <1>0, <2>3, <2>5, SameTickets, QuietWait, Zenon DEF PipeInv
  <2> QED
    BY <1>0, <2>1, <2>4, <2>6, RingStays, Zenon DEF DeliveryInv, PipeInv
<1>2. CASE PipeStep \/ \E s \in Tasks : PostStep(s)
  <2>1. UNCHANGED messageVars
    BY <1>2, Zenon DEF PipeStep, PostStep
  <2>2. PipeInv' /\ kernel' = kernel
    BY <1>0, <1>2, PipeStepKeeps, PostStepKeeps, Zenon
  <2>3. UNCHANGED <<queue, ready, worker, posted, kernel>>
    BY <2>1, <2>2, Zenon DEF messageVars
  <2> QED
    BY <1>0, <2>2, <2>3, RingStays, Zenon DEF DeliveryInv
<1>3. ASSUME NEW s \in Tasks, Enqueue(s) PROVE DeliveryInv'
  BY <1>0, <1>3, EnqueueKeeps, EnqueueRing, Zenon DEF DeliveryInv
<1>4. CASE Pump
  <2>1. PipeInv'
    BY <1>0, <1>4, PumpKeeps, Zenon
  <2>2. RingTypes' /\ RingInv'
    BY <1>0, <1>4, PickRing, WorkerRing, TakeOffRing, ReleaseRecordRing, Zenon DEF Pump
  <2> QED
    BY <2>1, <2>2, Zenon DEF DeliveryInv
<1> QED
  BY <1>1, <1>2, <1>3, <1>4, Zenon DEF Next
-----------------------------------------------------------------------------
\* A step writes the state of a thread only if it is alive, or is made anew.
LEMMA DeadStay ==
    ASSUME PipeTypes, CallInv, Next, NEW s \in Tasks, status[s] \in {"dead", "freed"}
    PROVE  status'[s] \in {"dead", "freed"} \/ tid'[s] # tid[s]
<1>1. /\ status \in [Tasks -> {"run", "wait", "dead", "freed"}] /\ tid \in [Tasks -> Nat]
      /\ tid[s] \in Nat /\ status[s] # "run" /\ status[s] # "wait"
  BY SMT DEF PipeTypes
<1>2. CASE status' = status
  BY <1>2, Zenon
<1>3. ASSUME NEW t \in Tasks, WaitOn(t) PROVE status'[s] = status[s]
  <2>1. t # s /\ status' = [status EXCEPT ![t] = "wait"]
    BY <1>1, <1>3, Zenon DEF WaitOn, Running
  <2> QED
    BY <1>1, <2>1, Zenon
<1>4. ASSUME NEW t \in Tasks, Kill(t) PROVE status'[s] = status[s]
  <2>1. t # s /\ status' = [status EXCEPT ![t] = "dead"]
    BY <1>1, <1>4, Zenon DEF Kill
  <2> QED
    BY <1>1, <2>1, Zenon
<1>5. ASSUME NEW t \in Tasks, FreeTask(t) PROVE status'[s] = status[s] \/ status'[s] = "freed"
  BY <1>1, <1>5, Zenon DEF FreeTask
<1>6. ASSUME NEW t \in Tasks, Spawn(t) PROVE status'[s] = status[s] \/ tid'[s] # tid[s]
  <2>1. CASE t = s
    <3>1. tid'[s] = tid[s] + 1
      BY <1>1, <1>6, <2>1, Zenon DEF Spawn
    <3> QED
      BY <1>1, <3>1, SMT
  <2>2. CASE t # s
    BY <1>1, <1>6, <2>2, Zenon DEF Spawn
  <2> QED
    BY <2>1, <2>2, Zenon
<1>7. ASSUME NEW x \in Actors, Wake(x) PROVE status'[s] = status[s]
  BY <1>1, <1>7, WakeTypes, Zenon
<1>8. ASSUME PipeStep PROVE status' = status \/ status'[s] \in {"dead", "freed"} \/ tid'[s] # tid[s]
  <2>1. ASSUME NEW t \in Tasks, NEW p, NEW n, BeginRead(t, p, n) \/ BeginWrite(t, p, n)
        PROVE  status' = status
    BY <2>1, Zenon DEF BeginRead, BeginWrite, Begin
  <2>2. ASSUME NEW t \in Tasks, ReadSome(t) \/ WriteAll(t) \/ SeesClosed(t) \/ Prepare(t) \/ Return(t)
        PROVE  status' = status
    BY <2>2, Zenon DEF ReadSome, WriteAll, SeesClosed, Prepare, Return
  <2>3. ASSUME NEW t \in Tasks, NEW e, Abandon(t, e) PROVE status' = status
    BY <2>3, Zenon DEF Abandon
  <2>4. ASSUME NEW x, NEW e, NEW p, Retire(x, e, p) PROVE status' = status
    BY <2>4, Zenon DEF Retire
  <2> QED
    BY <1>3, <1>4, <1>5, <1>6, <1>7, <1>8, <2>1, <2>2, <2>3, <2>4, Zenon DEF PipeStep
<1>9. ASSUME NEW t \in Tasks, PostStep(t) \/ Enqueue(t) PROVE status' = status
  BY <1>9, Zenon DEF PostStep, PostNotification, PostWindow, Begin, AcquireReader, ReleaseReader,
                     PostFails, Enqueue
<1>10. ASSUME Pump PROVE status' = status
  BY <1>10, Zenon DEF Pump, Pick, CheckRetired, TryWrite, TakeOff, ReleaseRecord, pipeVars
<1> QED
  BY <1>2, <1>8, <1>9, <1>10, Zenon DEF Next

\* The pipes and the ring of channels keep their invariant, for any pipes,
\* threads, sizes and limits.
THEOREM DeliveryInvariant == Spec => []DeliveryInv
BY DeliveryInitial, DeliveryStep, PTL DEF Spec

\* No wake-up of pipefs.cpp is lost: a thread that sleeps on a pipe is on its
\* list and has nothing to do, or a waker has it to wake, or has been killed.
THEOREM NoWakeupIsLost == Spec => []WaiterIsAwaited
<1>1. DeliveryInv => WaiterIsAwaited
  BY Zenon DEF DeliveryInv, PipeInv
<1> QED
  BY <1>1, DeliveryInvariant, PTL

\* message.cpp's ring has each channel with records once and no other, and
\* there is a ticket of the kernel for every record.
THEOREM RingHasTheChannels == Spec => []RingInv
<1>1. DeliveryInv => RingInv
  BY Zenon DEF DeliveryInv
<1> QED
  BY <1>1, DeliveryInvariant, PTL

\* A dead thread is not revived and a freed TCB not written, and an end of a
\* pipe on which a call or a record has a ticket is not closed.
THEOREM NothingFreedIsUsed == Spec => FreedUntouched
<1>1. DeliveryInv /\ [Next]_vars => [UsesNoFreed]_pipeVars
  <2> SUFFICES ASSUME DeliveryInv, Next PROVE UsesNoFreed
    BY Zenon DEF vars
  <2>1. PipeTypes /\ CallInv /\ ClosedInv
    BY Zenon DEF DeliveryInv, PipeInv
  <2>2. \A s \in Tasks : status[s] \in {"dead", "freed"} =>
           status'[s] \in {"dead", "freed"} \/ tid'[s] # tid[s]
    BY <2>1, DeadStay, Zenon
  <2> QED
    BY <2>1, <2>2, Zenon DEF UsesNoFreed, ClosedInv
<1> QED
  BY <1>1, DeliveryInvariant, PTL DEF Spec, FreedUntouched
-----------------------------------------------------------------------------
\* A sequence in front of another one, in parts.
LEMMA FrontAndRest ==
    ASSUME NEW a \in Seq(Nat), NEW b \in Seq(Nat)
    PROVE  /\ a \o b \in Seq(Nat) /\ Len(a \o b) = Len(a) + Len(b)
           /\ SubSeq(a \o b, 1, Len(a)) = a
           /\ SubSeq(a \o b, Len(a) + 1, Len(a \o b)) = b
<1>1. a \o b \in Seq(Nat) /\ Len(a \o b) = Len(a) + Len(b)
  BY SMT
<1>2. SubSeq(a \o b, 1, Len(a)) = a
  BY SMT
<1>3. SubSeq(a \o b, Len(a) + 1, Len(a \o b)) = b
  BY SMT
<1> QED
  BY <1>1, <1>2, <1>3, Zenon

\* Sequences of the same length with the same elements.
LEMMA SameSeq ==
    ASSUME NEW s \in Seq(Nat), NEW t \in Seq(Nat), Len(s) = Len(t), \A i \in 1..Len(s) : s[i] = t[i]
    PROVE  s = t
BY SMT

\* The elements of two sequences joined, of one appended to, of a suffix.
LEMMA JoinedSeq ==
    ASSUME NEW a \in Seq(Nat), NEW b \in Seq(Nat)
    PROVE  /\ a \o b \in Seq(Nat) /\ Len(a \o b) = Len(a) + Len(b)
           /\ \A i \in 1..Len(a) : (a \o b)[i] = a[i]
           /\ \A i \in 1..Len(b) : (a \o b)[Len(a) + i] = b[i]
BY SMT

LEMMA LongerSeq ==
    ASSUME NEW a \in Seq(Nat), NEW r \in Nat
    PROVE  /\ Append(a, r) \in Seq(Nat) /\ Len(Append(a, r)) = Len(a) + 1
           /\ \A i \in 1..Len(a) : Append(a, r)[i] = a[i]
           /\ Append(a, r)[Len(a) + 1] = r
BY SMT

LEMMA SuffixSeq ==
    ASSUME NEW a \in Seq(Nat), NEW n \in 0..Len(a)
    PROVE  /\ SubSeq(a, n + 1, Len(a)) \in Seq(Nat)
           /\ Len(SubSeq(a, n + 1, Len(a))) = Len(a) - n
           /\ \A i \in 1..(Len(a) - n) : SubSeq(a, n + 1, Len(a))[i] = a[n + i]
BY SMT

LEMMA LenIsNat == ASSUME NEW s \in Seq(Nat) PROVE Len(s) \in Nat
BY SMT

\* A sequence of which nothing is taken, and to which nothing is added.
LEMMA WholeSeq ==
    ASSUME NEW s \in Seq(Nat) PROVE SubSeq(s, 0 + 1, Len(s)) = s
BY SMT

LEMMA EmptyAdded ==
    ASSUME NEW s \in Seq(Nat), NEW f \in Seq(Nat), Len(f) = 0 PROVE s \o f = s
BY SMT

\* Places in a sequence: before the end of its suffix, and the one behind two
\* sequences.
LEMMA PlaceInSuffix ==
    ASSUME NEW x \in Nat, NEW n \in 0..x, NEW i \in Int, 1 <= i, i <= x - n
    PROVE  i \in 1..(x - n) /\ n + i \in 1..x
BY SMT

LEMMA PlaceBehind ==
    ASSUME NEW x \in Nat, NEW y \in Nat, NEW i \in Int, i <= x + y + 1, i > x + y
    PROVE  i = x + y + 1 /\ i = x + (y + 1) /\ y + 1 \in 1..(y + 1)
BY SMT

\* What is read from the pipe is taken from the front of the contents.
LEMMA TakenFromFront ==
    ASSUME NEW a \in Seq(Nat), NEW b \in Seq(Nat), NEW n \in 0..Len(a)
    PROVE  SubSeq(a \o b, n + 1, Len(a \o b)) = SubSeq(a, n + 1, Len(a)) \o b
<1> DEFINE c == a \o b
           d == SubSeq(a, n + 1, Len(a))
           s == SubSeq(c, n + 1, Len(c))
           t == d \o b
<1>1. /\ c \in Seq(Nat) /\ Len(c) = Len(a) + Len(b)
      /\ \A i \in 1..Len(a) : c[i] = a[i]
      /\ \A i \in 1..Len(b) : c[Len(a) + i] = b[i]
  BY JoinedSeq, Zenon
<1>2. /\ d \in Seq(Nat) /\ Len(d) = Len(a) - n /\ \A i \in 1..Len(d) : d[i] = a[n + i]
  BY SMT
<1> HIDE DEF c, d
<1>3. /\ s \in Seq(Nat) /\ Len(s) = Len(c) - n /\ \A i \in 1..Len(s) : s[i] = c[n + i]
  <2>1. Len(a) \in Nat /\ Len(b) \in Nat /\ Len(c) = Len(a) + Len(b)
    BY <1>1, LenIsNat, Zenon
  <2>2. n \in 0..Len(c)
    BY <2>1, SMT
  <2> QED
    BY <1>1, <2>2, SuffixSeq, Zenon
<1>4. /\ t \in Seq(Nat) /\ Len(t) = Len(d) + Len(b)
      /\ \A i \in 1..Len(d) : t[i] = d[i]
      /\ \A i \in 1..Len(b) : t[Len(d) + i] = b[i]
  BY <1>2, JoinedSeq, Zenon
<1> HIDE DEF s, t
<1>5. Len(a) \in Nat /\ Len(b) \in Nat /\ Len(s) = Len(t)
  BY <1>1, <1>2, <1>3, <1>4, SMT
<1>6. ASSUME NEW i \in 1..Len(s) PROVE s[i] = t[i]
  <2>1. s[i] = c[n + i] /\ n + i \in 1..Len(c) /\ i \in 1..Len(t)
    BY <1>1, <1>3, <1>5, SMT
  <2>2. CASE i <= Len(a) - n
    <3>1. i \in Int /\ 1 <= i
      BY <1>5, <2>1, SMT
    <3>2. i \in 1..(Len(a) - n) /\ n + i \in 1..Len(a)
      BY <1>5, <2>2, <3>1, PlaceInSuffix, Zenon
    <3>3. i \in 1..Len(d)
      BY <1>2, <3>2, Zenon
    <3> QED
      BY <1>1, <1>2, <1>4, <2>1, <3>2, <3>3, Zenon
  <2>3. CASE i > Len(a) - n
    <3>1. PICK k \in 1..Len(b) : i = Len(d) + k /\ n + i = Len(a) + k
      <4>1. i - Len(d) \in 1..Len(b) /\ i = Len(d) + (i - Len(d)) /\ n + i = Len(a) + (i - Len(d))
        BY <1>1, <1>2, <1>3, <1>5, <2>1, <2>3, SMT
      <4> QED
        BY <4>1, Zenon
    <3> QED
      BY <1>1, <1>4, <2>1, <3>1, Zenon
  <2> QED
    BY <1>5, <2>2, <2>3, SMT
<1>7. s = t
  BY <1>3, <1>4, <1>5, <1>6, SameSeq, Zenon
<1> QED
  BY <1>7 DEF s, t, c, d

\* What is queued comes behind the contents.
LEMMA AppendedToRest ==
    ASSUME NEW a \in Seq(Nat), NEW b \in Seq(Nat), NEW r \in Nat
    PROVE  /\ Append(a \o b, r) = a \o Append(b, r)
           /\ b # << >> => Tail(Append(b, r)) = Append(Tail(b), r)
<1>1. Append(a \o b, r) = a \o Append(b, r)
  <2> DEFINE c == a \o b
             d == Append(b, r)
             s == Append(c, r)
             t == a \o d
  <2>1. /\ c \in Seq(Nat) /\ Len(c) = Len(a) + Len(b)
        /\ \A i \in 1..Len(a) : c[i] = a[i]
        /\ \A i \in 1..Len(b) : c[Len(a) + i] = b[i]
    BY JoinedSeq, Zenon
  <2>2. /\ d \in Seq(Nat) /\ Len(d) = Len(b) + 1 /\ d[Len(b) + 1] = r
        /\ \A i \in 1..Len(b) : d[i] = b[i]
    BY LongerSeq, Zenon
  <2> HIDE DEF c, d
  <2>3. /\ s \in Seq(Nat) /\ Len(s) = Len(c) + 1 /\ s[Len(c) + 1] = r
        /\ \A i \in 1..Len(c) : s[i] = c[i]
    BY <2>1, LongerSeq, Zenon
  <2>4. /\ t \in Seq(Nat) /\ Len(t) = Len(a) + Len(d)
        /\ \A i \in 1..Len(a) : t[i] = a[i]
        /\ \A i \in 1..Len(d) : t[Len(a) + i] = d[i]
    BY <2>2, JoinedSeq, Zenon
  <2> HIDE DEF s, t
  <2>5. Len(a) \in Nat /\ Len(b) \in Nat /\ Len(s) = Len(t) /\ Len(s) = Len(a) + Len(b) + 1
    <3>1. /\ Len(c) = Len(a) + Len(b) /\ Len(d) = Len(b) + 1 /\ Len(s) = Len(c) + 1
          /\ Len(t) = Len(a) + Len(d) /\ Len(a) \in Nat /\ Len(b) \in Nat
      BY <2>1, <2>2, <2>3, <2>4, LenIsNat, Zenon
    <3> QED
      BY <3>1, SMT
  <2>6. ASSUME NEW i \in 1..Len(s) PROVE s[i] = t[i]
    <3>1. CASE i <= Len(a)
      <4>1. i \in 1..Len(a) /\ i \in 1..Len(c)
        BY <2>1, <2>5, <3>1, SMT
      <4> QED
        BY <2>1, <2>3, <2>4, <4>1, Zenon
    <3>2. CASE i > Len(a) /\ i <= Len(c)
      <4>1. PICK k \in 1..Len(b) : i = Len(a) + k
        <5>1. i - Len(a) \in 1..Len(b) /\ i = Len(a) + (i - Len(a))
          BY <2>1, <2>5, <3>2, SMT
        <5> QED
          BY <5>1, Zenon
      <4>2. i \in 1..Len(c) /\ k \in 1..Len(d)
        BY <2>1, <2>2, <2>5, <3>2, SMT
      <4> QED
        BY <2>1, <2>2, <2>3, <2>4, <4>1, <4>2, Zenon
    <3>3. CASE i > Len(c)
      <4>1. i = Len(c) + 1 /\ i = Len(a) + (Len(b) + 1) /\ Len(b) + 1 \in 1..Len(d)
        <5>1. /\ Len(c) = Len(a) + Len(b) /\ Len(d) = Len(b) + 1
          BY <2>1, <2>2, Zenon
        <5>2. i \in Int /\ i <= Len(a) + Len(b) + 1 /\ i > Len(a) + Len(b)
          BY <2>5, <3>3, <5>1, SMT
        <5>3. i = Len(a) + Len(b) + 1 /\ i = Len(a) + (Len(b) + 1) /\ Len(b) + 1 \in 1..(Len(b) + 1)
          BY <2>5, <5>2, PlaceBehind, Zenon
        <5> QED
          BY <5>1, <5>3, Zenon
      <4> QED
        BY <2>2, <2>3, <2>4, <4>1, Zenon
    <3> QED
      BY <2>1, <2>5, <3>1, <3>2, <3>3, SMT
  <2>7. s = t
    BY <2>3, <2>4, <2>5, <2>6, SameSeq, Zenon
  <2> QED
    BY <2>7 DEF s, t, c, d
<1>2. b # << >> => Tail(Append(b, r)) = Append(Tail(b), r)
  BY SMT
<1> QED
  BY <1>1, <1>2, Zenon

\* The first record of the queue, between the pipe and the rest.
LEMMA FirstOfRest ==
    ASSUME NEW a \in Seq(Nat), NEW b \in Seq(Nat), b # << >>
    PROVE  /\ Head(b) \in Nat /\ Tail(b) \in Seq(Nat)
           /\ Append(a, Head(b)) \o Tail(b) = a \o b
           /\ Len(a) + 1 \in 1..Len(a \o b)
           /\ SubSeq(a \o b, 1, Len(a)) \o SubSeq(a \o b, Len(a) + 2, Len(a \o b)) = a \o Tail(b)
<1>1. Head(b) \in Nat /\ Tail(b) \in Seq(Nat) /\ Len(a) + 1 \in 1..Len(a \o b)
  BY SMT
<1>2. Append(a, Head(b)) \o Tail(b) = a \o b
  BY SMT
<1>3. SubSeq(a \o b, Len(a) + 2, Len(a \o b)) = Tail(b)
  BY SMTT(30)
<1> QED
  BY <1>1, <1>2, <1>3, FrontAndRest, Zenon

\* What a process writes comes between the pipe and the queue.
LEMMA PutBetween ==
    ASSUME NEW a \in Seq(Nat), NEW b \in Seq(Nat), NEW f \in Seq(Nat)
    PROVE  SubSeq(a \o b, 1, Len(a)) \o f \o SubSeq(a \o b, Len(a) + 1, Len(a \o b)) = (a \o f) \o b
BY FrontAndRest, Zenon

\* A step may close or retire the end e of the pipe p, and no other.
EndsStep(p, e) ==
    /\ \A q \in Pipes \ {p} : closed'[q] = closed[q] /\ retired'[q] = retired[q]
    /\ closed'[p] = closed[p] \/ closed'[p] = closed[p] \cup {e}
    /\ retired'[p] = retired[p] \/ retired'[p] = retired[p] \cup {e}

\* One end at most goes out of use.
LEMMA EndsToUnused ==
    ASSUME NEW p \in Pipes, NEW e \in Ends, EndsStep(p, e)
    PROVE  /\ \A q \in Pipes \ {p} : Unused(q)' = Unused(q)
           /\ Unused(p)' = Unused(p) \/ Unused(p)' = Unused(p) \cup {e}
<1>1. \A q \in Pipes \ {p} : Unused(q)' = Unused(q)
  BY Zenon DEF EndsStep, Unused
<1>2. CASE e = "read"
  <2>1. retired'[p] \cap {"write"} = retired[p] \cap {"write"}
    BY <1>2, SMT DEF EndsStep
  <2>2. \/ closed'[p] \cap {"read"} = closed[p] \cap {"read"}
        \/ closed'[p] \cap {"read"} = (closed[p] \cap {"read"}) \cup {"read"}
    BY <1>2, SMT DEF EndsStep
  <2> QED
    BY <1>1, <1>2, <2>1, <2>2, SMT DEF Unused
<1>3. CASE e = "write"
  <2>1. closed'[p] \cap {"read"} = closed[p] \cap {"read"}
    BY <1>3, SMT DEF EndsStep
  <2>2. \/ retired'[p] \cap {"write"} = retired[p] \cap {"write"}
        \/ retired'[p] \cap {"write"} = (retired[p] \cap {"write"}) \cup {"write"}
    BY <1>3, SMT DEF EndsStep
  <2> QED
    BY <1>1, <1>3, <2>1, <2>2, SMT DEF Unused
<1> QED
  BY <1>2, <1>3, Zenon DEF Ends

Box == [p \in Pipes |-> Contents(p)]
Shuts == [p \in Pipes |-> Unused(p)]

\* A step of the mailbox, or none.
MailStep == [Mail!MailNext]_(Mail!mailVars)

EndsMayGo == UNCHANGED <<closed, retired>> \/ \E p \in Pipes, e \in Ends : EndsStep(p, e)

\* The contents stay: an end goes out of use, or nothing happens.
LEMMA QuietMail ==
    ASSUME EndsMayGo, \A q \in Pipes : Contents(q)' = Contents(q)
    PROVE  MailStep
<1>1. Box' = Box
  BY Zenon DEF Box
<1>2. ASSUME UNCHANGED <<closed, retired>> PROVE MailStep
  <2>1. Shuts' = Shuts
    BY <1>2, Zenon DEF Shuts, Unused
  <2> QED
    BY <1>1, <2>1, Zenon DEF MailStep, Mail!mailVars, Box, Shuts
<1>3. ASSUME NEW p \in Pipes, NEW e \in Ends, EndsStep(p, e) PROVE MailStep
  <2>1. /\ \A q \in Pipes \ {p} : Unused(q)' = Unused(q)
        /\ Unused(p)' = Unused(p) \/ Unused(p)' = Unused(p) \cup {e}
    BY <1>3, EndsToUnused, Zenon
  <2>2. CASE Unused(p)' = Unused(p)
    <3>1. Shuts' = Shuts
      BY <2>1, <2>2, Zenon DEF Shuts
    <3> QED
      BY <1>1, <3>1, Zenon DEF MailStep, Mail!mailVars, Box, Shuts
  <2>3. CASE Unused(p)' # Unused(p) /\ Unused(p)' = Unused(p) \cup {e}
    <3>1. Shuts' = [Shuts EXCEPT ![p] = Shuts[p] \cup {e}] /\ Shuts'[p] # Shuts[p]
      BY <2>1, <2>3, Zenon DEF Shuts
    <3>2. Mail!Shut(p, e)
      BY <1>1, <3>1, Zenon DEF Mail!Shut, Box, Shuts
    <3> QED
      BY <3>1, <3>2, Zenon DEF MailStep, Mail!MailNext, Box, Shuts, Ends
  <2> QED
    BY <2>1, <2>2, <2>3, Zenon
<1> QED
  BY <1>2, <1>3, Zenon DEF EndsMayGo

\* What may become of the contents c of a pipe: d, at a step that leaves the
\* ends as they are.
MayBecome(p, c, d) ==
    \/ "write" \notin retired[p] /\ \E r \in 1..MaxPosts : d = Append(c, r)
    \/ \E n \in 1..Len(c) : d = SubSeq(c, n + 1, Len(c))
    \/ \E i \in 0..Len(c), n \in 1..Len(d) :
          d = SubSeq(c, 1, i) \o [k \in 1..n |-> 0] \o SubSeq(c, i + 1, Len(c))
    \/ Unused(p) # {} /\ \E i \in 1..Len(c) : d = SubSeq(c, 1, i - 1) \o SubSeq(c, i + 1, Len(c))

\* The contents of one pipe change, the ends stay: a step of the mailbox.
LEMMA BoxMail ==
    ASSUME UNCHANGED <<closed, retired>>, NEW p \in Pipes,
           \A q \in Pipes \ {p} : Contents(q)' = Contents(q),
           MayBecome(p, Contents(p), Contents(p)')
    PROVE  MailStep
<1>1. Shuts' = Shuts /\ Unused(p)' = Unused(p)
  BY Zenon DEF Shuts, Unused
<1>2. CASE Contents(p)' = Contents(p)
  <2>1. Box' = Box
    BY <1>2, Zenon DEF Box
  <2> QED
    BY <1>1, <2>1, Zenon DEF MailStep, Mail!mailVars, Box, Shuts
<1>3. CASE Contents(p)' # Contents(p)
  <2>1. /\ Box[p] = Contents(p) /\ Box'[p] = Contents(p)' /\ Box'[p] # Box[p]
        /\ Box' = [Box EXCEPT ![p] = Contents(p)'] /\ Shuts[p] = Unused(p)
    <3>1. /\ Box[p] = Contents(p) /\ Box'[p] = Contents(p)' /\ Shuts[p] = Unused(p)
      BY Zenon DEF Box, Shuts
    <3>2. Box' = [Box EXCEPT ![p] = Contents(p)']
      <4>1. \A q \in Pipes : Contents(q)' = IF q = p THEN Contents(p)' ELSE Box[q]
        BY Zenon DEF Box
      <4>2. Box' = [q \in Pipes |-> Contents(q)'] /\ DOMAIN Box = Pipes
        BY Zenon DEF Box
      <4> HIDE DEF Box
      <4> QED
        BY <4>1, <4>2, Zenon
    <3> QED
      BY <1>3, <3>1, <3>2, Zenon
  <2>2. CASE "write" \notin retired[p] /\ \E r \in 1..MaxPosts : Contents(p)' = Append(Contents(p), r)
    <3>1. PICK r \in 1..MaxPosts : Contents(p)' = Append(Contents(p), r)
      BY <2>2, Zenon
    <3>2. "write" \notin Shuts[p]
      BY <2>1, <2>2, SMT DEF Unused
    <3>3. Mail!Post(p, r)
      BY <1>1, <2>1, <3>1, <3>2, Zenon DEF Mail!Post, Box, Shuts
    <3> QED
      BY <2>1, <3>3, Zenon DEF MailStep, Mail!MailNext, Box, Shuts
  <2>3. ASSUME NEW n \in 1..Len(Contents(p)), Contents(p)' = SubSeq(Contents(p), n + 1, Len(Contents(p)))
        PROVE  MailStep
    <3>1. Mail!Take(p, n)
      BY <1>1, <2>1, <2>3, Zenon DEF Mail!Take, Box, Shuts
    <3>2. n \in 1..Len(Box[p])
      BY <2>1, Zenon
    <3> QED
      BY <2>1, <3>1, <3>2, Zenon DEF MailStep, Mail!MailNext, Box, Shuts
  <2>4. ASSUME NEW i \in 0..Len(Contents(p)), NEW n \in 1..Len(Contents(p)'),
               Contents(p)' = SubSeq(Contents(p), 1, i) \o [k \in 1..n |-> 0]
                                \o SubSeq(Contents(p), i + 1, Len(Contents(p)))
        PROVE  MailStep
    <3>1. Mail!Mix(p, i, n)
      BY <1>1, <2>1, <2>4, Zenon DEF Mail!Mix, Box, Shuts
    <3>2. i \in 0..Len(Box[p]) /\ n \in 1..Len(Box'[p])
      BY <2>1, <2>4, Zenon
    <3> QED
      BY <2>1, <3>1, <3>2, Zenon DEF MailStep, Mail!MailNext, Box, Shuts
  <2>5. ASSUME Unused(p) # {}, NEW i \in 1..Len(Contents(p)),
               Contents(p)' = SubSeq(Contents(p), 1, i - 1) \o SubSeq(Contents(p), i + 1, Len(Contents(p)))
        PROVE  MailStep
    <3>1. Mail!Drop(p, i)
      BY <1>1, <2>1, <2>5, Zenon DEF Mail!Drop, Box, Shuts
    <3>2. i \in 1..Len(Box[p])
      BY <2>1, Zenon
    <3> QED
      BY <2>1, <3>1, <3>2, Zenon DEF MailStep, Mail!MailNext, Box, Shuts
  <2> QED
    BY <2>2, <2>3, <2>4, <2>5, Zenon DEF MayBecome
<1> QED
  BY <1>2, <1>3, Zenon

\* Where TryWrite was refused, the record is for an end that is not used.
RefusedInv == worker.at = "refused" => Unused(worker.pipe) # {}

\* The contents are sequences, and the worker's record is queued.
LEMMA ContentsAreSeq ==
    ASSUME DeliveryInv, NEW p \in Pipes
    PROVE  /\ buf[p] \in Seq(Nat) /\ queue[p] \in Seq(Nat) /\ Undelivered(p) \in Seq(Nat)
           /\ worker.at = "written" /\ worker.pipe = p => queue[p] # << >>
<1>1. buf[p] \in Seq(Nat) /\ queue[p] \in Seq(Nat)
  BY Zenon DEF DeliveryInv, PipeInv, PipeTypes, RingTypes
<1>2. ASSUME worker.at = "written", worker.pipe = p PROVE queue[p] # << >>
  <2>1. worker.at \notin {"idle", "release"}
    BY <1>2, SMT
  <2>2. worker.pipe \in Loaded
    BY <2>1, Zenon DEF DeliveryInv, RingInv
  <2> QED
    BY <1>2, <2>2, Zenon DEF Loaded
<1>3. queue[p] # << >> => Tail(queue[p]) \in Seq(Nat)
  BY <1>1, FirstOfRest, Zenon
<1> QED
  BY <1>1, <1>2, <1>3, Zenon DEF Undelivered

\* pipefs_close closes one end of one pipe.
LEMMA ClosesOne ==
    ASSUME PipeTypes, NEW x, NEW e, NEW p \in Pipes, CloseEnd(x, e, p)
    PROVE  closed'[p] = closed[p] \cup {e} /\ \A q \in Pipes \ {p} : closed'[q] = closed[q]
<1>1. closed' = [closed EXCEPT ![p] = closed[p] \cup {e}] /\ closed \in [Pipes -> SUBSET Ends]
  BY Zenon DEF CloseEnd, PipeTypes
<1> QED
  BY <1>1, Zenon

\* The steps of processes that leave the contents of the pipes alone.
LEMMA ReleaseEnds ==
    ASSUME PipeTypes, NEW x \in Actors, NEW e \in Ends, NEW p \in Pipes, NEW last,
           Release(x, e, p, last), retired' = retired
    PROVE  EndsMayGo
<1>1. CASE CloseEnd(x, e, p)
  <2>1. /\ closed'[p] = closed[p] \cup {e}
        /\ \A q \in Pipes \ {p} : closed'[q] = closed[q]
    BY <1>1, ClosesOne, Zenon
  <2> QED
    BY <2>1, Zenon DEF EndsMayGo, EndsStep
<1>2. CASE UNCHANGED closed
  BY <1>2, Zenon DEF EndsMayGo
<1> QED
  BY <1>1, <1>2, Zenon DEF Release

LEMMA RetireEnds ==
    ASSUME PipeTypes, NEW x \in Actors, NEW e \in Ends, NEW p \in Pipes, Retire(x, e, p)
    PROVE  EndsMayGo
<1>1. retired' = [retired EXCEPT ![p] = retired[p] \cup {e}] /\ retired \in [Pipes -> SUBSET Ends]
  BY Zenon DEF Retire, PipeTypes
<1>2. /\ retired'[p] = retired[p] \cup {e}
      /\ \A q \in Pipes \ {p} : retired'[q] = retired[q]
  BY <1>1, Zenon
<1>3. /\ closed'[p] = closed[p] \/ closed'[p] = closed[p] \cup {e}
      /\ \A q \in Pipes \ {p} : closed'[q] = closed[q]
  <2>1. CASE CloseEnd(x, e, p)
    BY <2>1, ClosesOne, Zenon
  <2>2. CASE UNCHANGED closed
    BY <2>2, Zenon
  <2> QED
    BY <2>1, <2>2, Zenon DEF Retire
<1> QED
  BY <1>2, <1>3, Zenon DEF EndsMayGo, EndsStep

LEMMA FinishEnds ==
    ASSUME PipeTypes, CallInv, NEW s \in Tasks, Return(s) \/ PostFails(s) \/ ReleaseReader(s)
    PROVE  EndsMayGo
<1>1. retired' = retired
  BY Zenon DEF Return, PostFails, ReleaseReader
<1>2. \E e \in Ends : Release(s, e, op[s].pipe, NoOther({s}, 0, e, op[s].pipe))
  BY Zenon DEF Return, PostFails, ReleaseReader, Finish, Ends
<1>3. op[s].at # "none"
  BY SMT DEF Return, PostFails, ReleaseReader, At
<1>4. op[s].pipe \in Pipes /\ s \in Actors
  BY <1>3, CallHasPipe, Zenon DEF Actors
<1> QED
  BY <1>1, <1>2, <1>4, ReleaseEnds, Zenon

LEMMA AbandonEnds ==
    ASSUME PipeTypes, CallInv, NEW s \in Tasks, NEW e \in Ends, Abandon(s, e)
    PROVE  EndsMayGo
<1>1. /\ e \in op[s].pins /\ status[s] = "dead" /\ retired' = retired
      /\ Release(Reaper, e, op[s].pipe, NoOther({s}, 0, e, op[s].pipe))
  BY Zenon DEF Abandon
<1>2. op[s] \in Call /\ CallOk(op[s], "dead") /\ Reaper \in Actors
  BY <1>1, Zenon DEF PipeTypes, CallInv, Actors
<1>3. op[s].pipe \in Pipes
  BY <1>1, <1>2, RestOfCall, Zenon
<1> QED
  BY <1>1, <1>2, <1>3, ReleaseEnds, Zenon

\* The contents are made of the pipe, the queue and the worker's place.
LEMMA SameContents ==
    ASSUME UNCHANGED <<buf, queue, worker>> PROVE \A q \in Pipes : Contents(q)' = Contents(q)
BY Zenon DEF Contents, Undelivered

\* pipefs_read takes from the front.
LEMMA ReadMail ==
    ASSUME DeliveryInv, NEW s \in Tasks, ReadSome(s), UNCHANGED messageVars PROVE MailStep
<1>0. CallInv /\ PipeTypes /\ op[s] \in Call
  BY Zenon DEF DeliveryInv, PipeInv, PipeTypes
<1>1. op[s].at \in {"read", "read_prepared"} /\ UNCHANGED <<closed, retired, queue, worker>>
  BY Zenon DEF ReadSome, messageVars
<1>2. op[s].at # "none"
  BY <1>1, SMT
<1>3. PICK p \in Pipes : p = op[s].pipe
  BY <1>0, <1>2, CallHasPipe, Zenon
<1>4. PICK u \in Seq(Nat) : u = Undelivered(p)
  BY ContentsAreSeq, Zenon
<1>5. buf[p] \in Seq(Nat) /\ buf \in [Pipes -> Seq(Nat)]
  BY <1>0, Zenon DEF PipeTypes
<1>6. PICK n \in 0..Len(buf[p]) : buf' = [buf EXCEPT ![p] = SubSeq(buf[p], n + 1, Len(buf[p]))]
  <2> DEFINE m == IF op[s].size < Len(buf[p]) THEN op[s].size ELSE Len(buf[p])
  <2>1. buf' = [buf EXCEPT ![p] = SubSeq(buf[p], m + 1, Len(buf[p]))]
    BY <1>3, Zenon DEF ReadSome
  <2>2. op[s].size \in Nat
    BY <1>0, Zenon DEF Call
  <2>3. m \in 0..Len(buf[p])
    BY <1>5, <2>2, SMT
  <2> HIDE DEF m
  <2> QED
    BY <2>1, <2>3, Zenon
<1>7. \A q \in Pipes : Undelivered(q)' = Undelivered(q)
  BY <1>1, Zenon DEF Undelivered
<1>8. /\ buf'[p] = SubSeq(buf[p], n + 1, Len(buf[p]))
      /\ \A q \in Pipes \ {p} : buf'[q] = buf[q]
  BY <1>5, <1>6, Zenon
<1>9. /\ \A q \in Pipes \ {p} : Contents(q)' = Contents(q)
      /\ Contents(p)' = SubSeq(buf[p], n + 1, Len(buf[p])) \o u /\ Contents(p) = buf[p] \o u
  BY <1>4, <1>7, <1>8, Zenon DEF Contents
<1>10. Contents(p)' = SubSeq(Contents(p), n + 1, Len(Contents(p)))
  BY <1>5, <1>9, TakenFromFront, Zenon
<1>11. Contents(p) \in Seq(Nat) /\ Len(Contents(p)) = Len(buf[p]) + Len(u)
  BY <1>5, <1>9, JoinedSeq, Zenon
<1>12. CASE n = 0
  <2>1. SubSeq(Contents(p), 0 + 1, Len(Contents(p))) = Contents(p)
    BY <1>11, WholeSeq, Zenon
  <2>2. \A q \in Pipes : Contents(q)' = Contents(q)
    BY <1>9, <1>10, <1>12, <2>1, Zenon
  <2> QED
    BY <1>1, <2>2, QuietMail, Zenon DEF EndsMayGo
<1>13. CASE n # 0
  <2>1. Len(buf[p]) \in Nat /\ Len(u) \in Nat
    BY <1>5, LenIsNat, Zenon
  <2>2. n \in 1..Len(Contents(p))
    BY <1>6, <1>11, <1>13, <2>1, SMT
  <2>3. MayBecome(p, Contents(p), Contents(p)')
    BY <1>10, <2>2, Zenon DEF MayBecome
  <2> QED
    BY <1>1, <1>9, <2>3, BoxMail, Zenon
<1> QED
  BY <1>12, <1>13, Zenon

\* pipe_write_inner adds behind what is in the pipe, before the queue.
LEMMA WriteMail ==
    ASSUME DeliveryInv, NEW s \in Tasks, WriteAll(s), UNCHANGED messageVars PROVE MailStep
<1>0. CallInv /\ PipeTypes /\ op[s] \in Call
  BY Zenon DEF DeliveryInv, PipeInv, PipeTypes
<1>1. op[s].at \in {"write", "write_prepared"} /\ UNCHANGED <<closed, retired, queue, worker>>
  BY Zenon DEF WriteAll, messageVars
<1>2. op[s].at # "none"
  BY <1>1, SMT
<1>3. PICK p \in Pipes : p = op[s].pipe
  BY <1>0, <1>2, CallHasPipe, Zenon
<1>4. PICK u \in Seq(Nat) : u = Undelivered(p)
  BY ContentsAreSeq, Zenon
<1>5. buf[p] \in Seq(Nat) /\ buf \in [Pipes -> Seq(Nat)]
  BY <1>0, Zenon DEF PipeTypes
<1>6. PICK n \in Nat : buf' = [buf EXCEPT ![p] = buf[p] \o Filler(n)]
  BY <1>0, <1>3, Zenon DEF WriteAll, Call
<1>7. PICK f \in Seq(Nat) : f = Filler(n) /\ Len(f) = n
  BY FillerIsSeq, Zenon
<1>8. \A q \in Pipes : Undelivered(q)' = Undelivered(q)
  BY <1>1, Zenon DEF Undelivered
<1>9. /\ buf'[p] = buf[p] \o f
      /\ \A q \in Pipes \ {p} : buf'[q] = buf[q]
  BY <1>5, <1>6, <1>7, Zenon
<1>10. /\ \A q \in Pipes \ {p} : Contents(q)' = Contents(q)
       /\ Contents(p)' = (buf[p] \o f) \o u /\ Contents(p) = buf[p] \o u
  BY <1>4, <1>8, <1>9, Zenon DEF Contents
<1>11. Contents(p)' = SubSeq(Contents(p), 1, Len(buf[p])) \o f
                        \o SubSeq(Contents(p), Len(buf[p]) + 1, Len(Contents(p)))
  <2>1. SubSeq(buf[p] \o u, 1, Len(buf[p])) \o f \o SubSeq(buf[p] \o u, Len(buf[p]) + 1, Len(buf[p] \o u))
          = (buf[p] \o f) \o u
    BY <1>5, PutBetween, Zenon
  <2> QED
    BY <1>10, <2>1, Zenon
<1>12. /\ Len(Contents(p)) = Len(buf[p]) + Len(u)
       /\ Len(Contents(p)') = Len(buf[p]) + n + Len(u)
       /\ Len(buf[p]) \in Nat /\ Len(u) \in Nat
  <2>1. buf[p] \o f \in Seq(Nat) /\ Len(buf[p] \o f) = Len(buf[p]) + n
    <3>1. buf[p] \o f \in Seq(Nat) /\ Len(buf[p] \o f) = Len(buf[p]) + Len(f)
      BY <1>5, JoinedSeq, Zenon
    <3> QED
      BY <1>7, <3>1, Zenon
  <2>2. Len(buf[p] \o u) = Len(buf[p]) + Len(u)
    BY <1>5, JoinedSeq, Zenon
  <2>3. Len((buf[p] \o f) \o u) = Len(buf[p] \o f) + Len(u)
    BY <2>1, JoinedSeq, Zenon
  <2>4. Len(buf[p]) \in Nat /\ Len(u) \in Nat
    BY <1>5, LenIsNat, Zenon
  <2> QED
    BY <1>10, <2>1, <2>2, <2>3, <2>4, Zenon
<1>13. CASE n = 0
  <2>1. buf[p] \o f = buf[p]
    BY <1>5, <1>7, <1>13, EmptyAdded, Zenon
  <2>2. \A q \in Pipes : Contents(q)' = Contents(q)
    BY <1>10, <2>1, Zenon
  <2> QED
    BY <1>1, <2>2, QuietMail, Zenon DEF EndsMayGo
<1>14. CASE n # 0
  <2>1. Len(buf[p]) \in 0..Len(Contents(p)) /\ n \in 1..Len(Contents(p)')
    BY <1>12, <1>14, SMT
  <2>2. f = [k \in 1..n |-> 0]
    BY <1>7, Zenon DEF Filler
  <2>3. MayBecome(p, Contents(p), Contents(p)')
    BY <1>11, <2>1, <2>2, Zenon DEF MayBecome
  <2> QED
    BY <1>1, <1>10, <2>3, BoxMail, Zenon
<1> QED
  BY <1>13, <1>14, Zenon

\* message_enqueue posts a record.
LEMMA EnqueueMail ==
    ASSUME DeliveryInv, NEW s \in Tasks, Enqueue(s) PROVE MailStep
<1>0. CallInv /\ RingTypes
  BY Zenon DEF DeliveryInv, PipeInv
<1>1. op[s].at = "post" /\ UNCHANGED <<buf, closed, retired, worker>> /\ posted < MaxPosts
  BY Zenon DEF Enqueue, At
<1>2. op[s].at # "none"
  BY <1>1, SMT
<1>3. PICK p \in Pipes : p = op[s].pipe
  BY <1>0, <1>2, CallHasPipe, Zenon
<1>4. PICK r \in 1..MaxPosts : r = posted + 1 /\ r \in Nat
  <2>1. posted \in Nat /\ MaxPosts \in Nat
    BY <1>0, MessageAssumption, Zenon DEF RingTypes
  <2>2. posted + 1 \in 1..MaxPosts /\ posted + 1 \in Nat
    BY <1>1, <2>1, SMT
  <2> QED
    BY <2>2, Zenon
<1>5. queue' = [queue EXCEPT ![p] = Append(queue[p], r)] /\ "write" \notin retired[p]
  BY <1>3, <1>4, Zenon DEF Enqueue, MayQueue
<1>6. PICK b \in Seq(Nat), a \in Seq(Nat), u \in Seq(Nat) : b = queue[p] /\ a = buf[p] /\ u = Undelivered(p)
  BY ContentsAreSeq, Zenon
<1>7. queue'[p] = Append(b, r) /\ \A q \in Pipes \ {p} : queue'[q] = queue[q]
  BY <1>0, <1>5, <1>6, Zenon DEF RingTypes
<1>8. \A q \in Pipes \ {p} : Contents(q)' = Contents(q)
  BY <1>1, <1>7, Zenon DEF Contents, Undelivered
<1>9. Undelivered(p)' = Append(u, r)
  <2>1. CASE worker.at = "written" /\ worker.pipe = p
    <3>1. u = Tail(b) /\ b # << >>
      BY <1>6, <2>1, ContentsAreSeq, Zenon DEF Undelivered
    <3>2. Tail(Append(b, r)) = Append(Tail(b), r)
      BY <1>4, <1>6, <3>1, AppendedToRest, ZenonT(40)
    <3> QED
      BY <1>1, <1>7, <2>1, <3>1, <3>2, Zenon DEF Undelivered
  <2>2. CASE ~(worker.at = "written" /\ worker.pipe = p)
    BY <1>1, <1>6, <1>7, <2>2, Zenon DEF Undelivered
  <2> QED
    BY <2>1, <2>2, Zenon
<1>10. Contents(p)' = a \o Append(u, r) /\ Contents(p) = a \o u
  BY <1>1, <1>6, <1>9, Zenon DEF Contents
<1>11. Append(a \o u, r) = a \o Append(u, r)
  BY <1>4, AppendedToRest, Zenon
<1>12. MayBecome(p, Contents(p), Contents(p)')
  BY <1>5, <1>10, <1>11, Zenon DEF MayBecome
<1> QED
  BY <1>1, <1>8, <1>12, BoxMail, Zenon

\* TryWrite moves a record from the queue to the pipe, or does nothing.
LEMMA TryWriteMail ==
    ASSUME DeliveryInv, TryWrite PROVE MailStep
<1>0. PipeTypes /\ RingTypes /\ RingInv
  BY Zenon DEF DeliveryInv, PipeInv
<1>1. worker.at = "checked" /\ UNCHANGED <<closed, retired, queue>>
  BY Zenon DEF TryWrite
<1>2. worker.at # "written" /\ worker.at \notin {"idle", "release"}
  BY <1>1, SMT
<1>3. PICK p \in Pipes : p = worker.pipe /\ queue[p] # << >>
  BY <1>0, <1>2, Zenon DEF RingInv, Loaded
<1>4. \A q \in Pipes : Undelivered(q) = queue[q]
  BY <1>2, Zenon DEF Undelivered
<1>5. ASSUME buf' = buf, worker'.at # "written" PROVE MailStep
  <2>1. \A q \in Pipes : Undelivered(q)' = queue[q]
    BY <1>1, <1>5, Zenon DEF Undelivered
  <2>2. \A q \in Pipes : Contents(q)' = Contents(q)
    BY <1>4, <1>5, <2>1, Zenon DEF Contents
  <2> QED
    BY <1>1, <2>2, QuietMail, Zenon DEF EndsMayGo
<1>6. worker \in [at : Places, pipe : Pipes \cup {{}}]
  BY <1>0, Zenon DEF RingTypes
<1>7. ASSUME buf' = [buf EXCEPT ![p] = Append(buf[p], Head(queue[p]))], worker' = [worker EXCEPT !.at = "written"]
      PROVE  MailStep
  <2>1. worker'.at = "written" /\ worker'.pipe = p
    BY <1>3, <1>6, <1>7, SMT
  <2>2. /\ buf'[p] = Append(buf[p], Head(queue[p]))
        /\ \A q \in Pipes \ {p} : buf'[q] = buf[q]
    BY <1>0, <1>7, Zenon DEF PipeTypes
  <2>3. Undelivered(p)' = Tail(queue[p]) /\ \A q \in Pipes \ {p} : Undelivered(q)' = queue[q]
    BY <1>1, <2>1, Zenon DEF Undelivered
  <2>4. Append(buf[p], Head(queue[p])) \o Tail(queue[p]) = buf[p] \o queue[p]
    <3>1. buf[p] \in Seq(Nat) /\ queue[p] \in Seq(Nat)
      BY ContentsAreSeq, Zenon
    <3> QED
      BY <1>3, <3>1, FirstOfRest, Zenon
  <2>5. \A q \in Pipes : Contents(q)' = Contents(q)
    BY <1>4, <2>2, <2>3, <2>4, Zenon DEF Contents
  <2> QED
    BY <1>1, <2>5, QuietMail, Zenon DEF EndsMayGo
<1>8. CASE buf' = buf /\ (worker' = [worker EXCEPT !.at = "refused"] \/ worker' = Idle)
  <2>1. worker'.at # "written"
    BY <1>6, <1>8, SMT DEF Idle
  <2> QED
    BY <1>5, <1>8, <2>1, Zenon
<1> QED
  BY <1>3, <1>7, <1>8, Zenon DEF TryWrite

\* A record that is written has gone already, one that is refused is dropped.
LEMMA TakeOffMail ==
    ASSUME DeliveryInv, RefusedInv, TakeOff PROVE MailStep
<1>0. PipeTypes /\ RingTypes /\ RingInv
  BY Zenon DEF DeliveryInv, PipeInv
<1>1. /\ worker.at \in {"refused", "written"} /\ UNCHANGED <<buf, closed, retired>>
      /\ worker' = [worker EXCEPT !.at = "release"]
  BY Zenon DEF TakeOff, pipeVars
<1>2. worker.at \notin {"idle", "release"}
  BY <1>1, SMT
<1>3. PICK p \in Pipes : p = worker.pipe /\ queue[p] # << >>
  BY <1>0, <1>2, Zenon DEF RingInv, Loaded
<1>4. worker'.at = "release" /\ worker'.at # "written"
  BY <1>0, <1>1, SMT DEF RingTypes
<1>5. queue' = [queue EXCEPT ![p] = Tail(queue[p])]
  BY <1>3, Zenon DEF TakeOff
<1>6. queue'[p] = Tail(queue[p]) /\ \A q \in Pipes \ {p} : queue'[q] = queue[q]
  BY <1>0, <1>5, Zenon DEF RingTypes
<1>7. Undelivered(p)' = Tail(queue[p]) /\ \A q \in Pipes \ {p} : Undelivered(q)' = queue[q]
  BY <1>4, <1>6, Zenon DEF Undelivered
<1>8. \A q \in Pipes \ {p} : Undelivered(q) = queue[q]
  BY <1>3, Zenon DEF Undelivered
<1>9. Contents(p)' = buf[p] \o Tail(queue[p]) /\ \A q \in Pipes \ {p} : Contents(q)' = Contents(q)
  BY <1>1, <1>7, <1>8, Zenon DEF Contents
<1>10. CASE worker.at = "written"
  <2>1. Contents(p) = buf[p] \o Tail(queue[p])
    BY <1>3, <1>10, Zenon DEF Contents, Undelivered
  <2>2. \A q \in Pipes : Contents(q)' = Contents(q)
    BY <1>9, <2>1, Zenon
  <2> QED
    BY <1>1, <2>2, QuietMail, Zenon DEF EndsMayGo
<1>11. CASE worker.at = "refused"
  <2>1. worker.at # "written"
    BY <1>11, SMT
  <2>2. Contents(p) = buf[p] \o queue[p] /\ Unused(p) # {}
    BY <1>3, <1>11, <2>1, Zenon DEF Contents, Undelivered, RefusedInv
  <2>3. PICK a \in Seq(Nat), b \in Seq(Nat) : a = buf[p] /\ b = queue[p]
    BY ContentsAreSeq, Zenon
  <2>4. /\ Len(a) + 1 \in 1..Len(a \o b)
        /\ SubSeq(a \o b, 1, Len(a)) \o SubSeq(a \o b, Len(a) + 2, Len(a \o b)) = a \o Tail(b)
    <3>1. b # << >>
      BY <1>3, <2>3, Zenon
    <3> QED
      BY <3>1, FirstOfRest, Zenon
  <2>5. (Len(a) + 1) - 1 = Len(a) /\ (Len(a) + 1) + 1 = Len(a) + 2
    <3>1. Len(a) \in Nat
      BY LenIsNat, Zenon
    <3> QED
      BY <3>1, SMT
  <2>6. Contents(p)' = SubSeq(a \o b, 1, (Len(a) + 1) - 1) \o SubSeq(a \o b, (Len(a) + 1) + 1, Len(a \o b))
    BY <1>9, <2>3, <2>4, <2>5, Zenon
  <2>7. MayBecome(p, Contents(p), Contents(p)')
    BY <2>2, <2>3, <2>4, <2>6, Zenon DEF MayBecome
  <2> QED
    BY <1>1, <1>9, <2>7, BoxMail, Zenon
<1> QED
  BY <1>1, <1>10, <1>11, Zenon

\* The ticket of the record goes, and the write end perhaps.
LEMMA ReleaseRecordEnds ==
    ASSUME DeliveryInv, ReleaseRecord
    PROVE  EndsMayGo /\ MailStep
<1>0. PipeTypes /\ RingTypes /\ RingInv
  BY Zenon DEF DeliveryInv, PipeInv
<1>1. /\ worker.at = "release" /\ UNCHANGED <<buf, retired, queue>> /\ worker' = Idle
      /\ Release(Worker, "write", worker.pipe, NoOther({}, 1, "write", worker.pipe))
  BY Zenon DEF ReleaseRecord
<1>2. worker.pipe \in Pipes /\ Worker \in Actors /\ "write" \in Ends
  BY <1>0, ReleaseRecordRing, Zenon DEF Actors, Ends
<1>3. EndsMayGo
  BY <1>0, <1>1, <1>2, ReleaseEnds, Zenon
<1>4. worker.at # "written" /\ worker'.at # "written"
  BY <1>1, SMT DEF Idle
<1>5. \A q \in Pipes : Contents(q)' = Contents(q)
  BY <1>1, <1>4, Zenon DEF Contents, Undelivered
<1> QED
  BY <1>3, <1>5, QuietMail, Zenon

\* The worker looks at a record.
LEMMA WorkerMail ==
    ASSUME DeliveryInv, Pick \/ CheckRetired PROVE MailStep
<1>1. UNCHANGED <<buf, closed, retired, queue>>
  BY Zenon DEF Pick, CheckRetired, pipeVars
<1>2. worker \in [at : Places, pipe : Pipes \cup {{}}]
  BY Zenon DEF DeliveryInv, RingTypes
<1>3. worker.at # "written" /\ worker'.at # "written"
  <2>1. CASE Pick
    BY <2>1, SMT DEF Pick
  <2>2. CASE CheckRetired
    BY <1>2, <2>2, SMT DEF CheckRetired
  <2> QED
    BY <2>1, <2>2, Zenon
<1>4. \A q \in Pipes : Contents(q)' = Contents(q)
  BY <1>1, <1>3, Zenon DEF Contents, Undelivered
<1> QED
  BY <1>1, <1>4, QuietMail, Zenon DEF EndsMayGo

\* What the processes do to the ends.
LEMMA ProcessEnds ==
    ASSUME DeliveryInv, PipeStep \/ \E s \in Tasks : PostStep(s) PROVE EndsMayGo
<1>0. PipeTypes /\ CallInv
  BY Zenon DEF DeliveryInv, PipeInv
<1>1. ASSUME PipeStep PROVE EndsMayGo
  <2>1. ASSUME NEW s \in Tasks, NEW p, NEW n, BeginRead(s, p, n) \/ BeginWrite(s, p, n) PROVE EndsMayGo
    BY <2>1, Zenon DEF BeginRead, BeginWrite, Begin, EndsMayGo
  <2>2. ASSUME NEW s \in Tasks, ReadSome(s) \/ WriteAll(s) \/ SeesClosed(s) \/ Prepare(s) \/ WaitOn(s)
        PROVE EndsMayGo
    BY <2>2, Zenon DEF ReadSome, WriteAll, SeesClosed, Prepare, WaitOn, EndsMayGo
  <2>3. ASSUME NEW s \in Tasks, Kill(s) \/ FreeTask(s) \/ Spawn(s) PROVE EndsMayGo
    BY <2>3, Zenon DEF Kill, FreeTask, Spawn, EndsMayGo
  <2>4. ASSUME NEW s \in Tasks, Return(s) PROVE EndsMayGo
    BY <1>0, <2>4, FinishEnds, Zenon
  <2>5. ASSUME NEW s \in Tasks, NEW e \in Ends, Abandon(s, e) PROVE EndsMayGo
    BY <1>0, <2>5, AbandonEnds, Zenon
  <2>6. ASSUME NEW x \in Tasks \cup {Reaper}, NEW e \in Ends, NEW p \in Attended, Retire(x, e, p)
        PROVE  EndsMayGo
    <3>1. x \in Actors /\ p \in Pipes
      BY MessageAssumption, Zenon DEF Actors
    <3> QED
      BY <1>0, <2>6, <3>1, RetireEnds, Zenon
  <2>7. ASSUME NEW x \in Actors, Wake(x) PROVE EndsMayGo
    BY <2>7, Zenon DEF Wake, EndsMayGo
  <2> QED
    BY <1>1, <2>1, <2>2, <2>3, <2>4, <2>5, <2>6, <2>7, Zenon DEF PipeStep
<1>2. ASSUME NEW s \in Tasks, PostStep(s) PROVE EndsMayGo
  <2>1. ASSUME ReleaseReader(s) \/ PostFails(s) PROVE EndsMayGo
    BY <1>0, <2>1, FinishEnds, Zenon
  <2>2. ASSUME NEW p, PostNotification(s, p) \/ PostWindow(s, p) PROVE EndsMayGo
    BY <2>2, Zenon DEF PostNotification, PostWindow, Begin, EndsMayGo
  <2>3. ASSUME AcquireReader(s) PROVE EndsMayGo
    BY <2>3, Zenon DEF AcquireReader, EndsMayGo
  <2> QED
    BY <1>2, <2>1, <2>2, <2>3, Zenon DEF PostStep
<1> QED
  BY <1>1, <1>2, Zenon

\* Other than by a read or a write, the processes leave the contents alone.
LEMMA ProcessMail ==
    ASSUME DeliveryInv, PipeStep \/ \E s \in Tasks : PostStep(s) PROVE MailStep
<1>1. UNCHANGED messageVars
  BY Zenon DEF PipeStep, PostStep
<1>2. ASSUME buf' = buf PROVE MailStep
  <2>1. \A q \in Pipes : Contents(q)' = Contents(q)
    BY <1>1, <1>2, SameContents, Zenon DEF messageVars
  <2> QED
    BY <2>1, ProcessEnds, QuietMail, Zenon
<1>3. ASSUME NEW s \in Tasks, ReadSome(s) \/ WriteAll(s) PROVE MailStep
  BY <1>1, <1>3, ReadMail, WriteMail, Zenon
<1>4. ASSUME PipeStep PROVE buf' = buf \/ \E s \in Tasks : ReadSome(s) \/ WriteAll(s)
  <2>1. ASSUME NEW s \in Tasks, NEW p, NEW n, BeginRead(s, p, n) \/ BeginWrite(s, p, n) PROVE buf' = buf
    BY <2>1, Zenon DEF BeginRead, BeginWrite, Begin
  <2>2. ASSUME NEW s \in Tasks, SeesClosed(s) \/ Prepare(s) \/ WaitOn(s) \/ Return(s) PROVE buf' = buf
    BY <2>2, Zenon DEF SeesClosed, Prepare, WaitOn, Return
  <2>3. ASSUME NEW s \in Tasks, Kill(s) \/ FreeTask(s) \/ Spawn(s) PROVE buf' = buf
    BY <2>3, Zenon DEF Kill, FreeTask, Spawn
  <2>4. ASSUME NEW s \in Tasks, NEW e, Abandon(s, e) PROVE buf' = buf
    BY <2>4, Zenon DEF Abandon
  <2>5. ASSUME NEW x, NEW e, NEW p, Retire(x, e, p) PROVE buf' = buf
    BY <2>5, Zenon DEF Retire
  <2>6. ASSUME NEW x, Wake(x) PROVE buf' = buf
    BY <2>6, Zenon DEF Wake
  <2> QED
    BY <1>4, <2>1, <2>2, <2>3, <2>4, <2>5, <2>6, Zenon DEF PipeStep
<1>5. ASSUME NEW s \in Tasks, PostStep(s) PROVE buf' = buf
  BY <1>5, Zenon DEF PostStep, PostNotification, PostWindow, Begin, AcquireReader, ReleaseReader, PostFails
<1> QED
  BY <1>2, <1>3, <1>4, <1>5, Zenon

\* Every step is a step of the mailbox, or none.
LEMMA NextMail ==
    ASSUME DeliveryInv, RefusedInv, [Next]_vars PROVE MailStep
<1>1. CASE UNCHANGED vars
  <2>1. UNCHANGED <<buf, closed, retired, queue, worker>>
    BY <1>1, Zenon DEF vars, pipeVars
  <2>2. \A q \in Pipes : Contents(q)' = Contents(q)
    BY <2>1, SameContents, Zenon
  <2> QED
    BY <2>1, <2>2, QuietMail, Zenon DEF EndsMayGo
<1>2. CASE PipeStep \/ \E s \in Tasks : PostStep(s)
  BY <1>2, ProcessMail, Zenon
<1>3. CASE \E s \in Tasks : Enqueue(s)
  BY <1>3, EnqueueMail, Zenon
<1>4. CASE Pump
  BY <1>4, WorkerMail, TryWriteMail, TakeOffMail, ReleaseRecordEnds, Zenon DEF Pump
<1> QED
  BY <1>1, <1>2, <1>3, <1>4, Zenon DEF Next

\* An end that is out of use stays so.
LEMMA UnusedStays ==
    ASSUME EndsMayGo, NEW q \in Pipes, Unused(q) # {} PROVE Unused(q)' # {}
<1>1. ASSUME UNCHANGED <<closed, retired>> PROVE Unused(q)' # {}
  BY <1>1, Zenon DEF Unused
<1>2. ASSUME NEW p \in Pipes, NEW e \in Ends, EndsStep(p, e) PROVE Unused(q)' # {}
  <2>1. Unused(q)' = Unused(q) \/ Unused(q)' = Unused(q) \cup {e}
    BY <1>2, EndsToUnused, Zenon
  <2> QED
    BY <2>1, Zenon
<1> QED
  BY <1>1, <1>2, Zenon DEF EndsMayGo

\* The worker gives a record up only for an end that is out of use.
LEMMA RefusedStep ==
    ASSUME DeliveryInv, RefusedInv, [Next]_vars PROVE RefusedInv'
<1>0. PipeTypes /\ ClosedInv /\ RingTypes /\ RingInv
  BY Zenon DEF DeliveryInv, PipeInv
<1>1. ASSUME worker' = worker, EndsMayGo PROVE RefusedInv'
  <2> SUFFICES ASSUME worker.at = "refused" PROVE Unused(worker.pipe)' # {}
    BY <1>1, Zenon DEF RefusedInv
  <2>1. worker.at # "idle"
    BY SMT
  <2>2. PICK p \in Pipes : p = worker.pipe
    BY <1>0, <2>1, Zenon DEF RingInv
  <2>3. Unused(p)' # {}
    BY <1>1, <2>2, UnusedStays, Zenon DEF RefusedInv
  <2> QED
    BY <1>1, <2>2, <2>3, Zenon DEF Unused
<1>2. CASE UNCHANGED vars
  BY <1>1, <1>2, Zenon DEF vars, pipeVars, EndsMayGo
<1>3. CASE PipeStep \/ \E s \in Tasks : PostStep(s)
  <2>1. worker' = worker
    BY <1>3, Zenon DEF PipeStep, PostStep, messageVars
  <2> QED
    BY <1>1, <1>3, <2>1, ProcessEnds, Zenon
<1>4. CASE \E s \in Tasks : Enqueue(s)
  BY <1>1, <1>4, Zenon DEF Enqueue, EndsMayGo
<1>5. ASSUME worker'.at # "refused" PROVE RefusedInv'
  BY <1>5, Zenon DEF RefusedInv
<1>6. worker \in [at : Places, pipe : Pipes \cup {{}}]
  BY <1>0, Zenon DEF RingTypes
<1>7. CASE Pick
  <2>1. worker'.at # "refused"
    BY <1>7, SMT DEF Pick
  <2> QED
    BY <1>5, <2>1, Zenon
<1>8. CASE TakeOff
  <2>1. worker'.at # "refused"
    BY <1>6, <1>8, SMT DEF TakeOff
  <2> QED
    BY <1>5, <2>1, Zenon
<1>9. CASE ReleaseRecord
  <2>1. worker'.at # "refused"
    BY <1>9, SMT DEF ReleaseRecord, Idle
  <2> QED
    BY <1>5, <2>1, Zenon
<1>10. ASSUME "write" \in retired[worker.pipe] \/ "read" \in closed[worker.pipe],
              UNCHANGED <<closed, retired>>, worker'.pipe = worker.pipe
       PROVE  RefusedInv'
  <2>1. Unused(worker.pipe) # {}
    BY <1>10, SMT DEF Unused
  <2> QED
    BY <1>10, <2>1, Zenon DEF RefusedInv, Unused
<1>11. CASE CheckRetired
  <2>1. UNCHANGED <<closed, retired>> /\ worker'.pipe = worker.pipe
    <3>1. UNCHANGED <<closed, retired>>
      BY <1>11, Zenon DEF CheckRetired, pipeVars
    <3>2. worker'.pipe = worker.pipe
      BY <1>6, <1>11, SMT DEF CheckRetired
    <3> QED
      BY <3>1, <3>2, Zenon
  <2>2. CASE "write" \in retired[worker.pipe]
    BY <1>10, <2>1, <2>2, Zenon
  <2>3. CASE "write" \notin retired[worker.pipe]
    <3>1. worker'.at # "refused"
      BY <1>6, <1>11, <2>3, SMT DEF CheckRetired
    <3> QED
      BY <1>5, <3>1, Zenon
  <2> QED
    BY <2>2, <2>3, Zenon
<1>12. CASE TryWrite
  <2>1. UNCHANGED <<closed, retired>> /\ worker.at = "checked"
    BY <1>12, Zenon DEF TryWrite
  <2>2. CASE closed[worker.pipe] # {} /\ worker' = [worker EXCEPT !.at = "refused"]
    <3>1. worker'.pipe = worker.pipe /\ worker.at # "idle"
      BY <1>6, <2>1, <2>2, SMT
    <3>2. worker.pipe \in Pipes /\ closed[worker.pipe] \subseteq Ends
      BY <1>0, <3>1, Zenon DEF RingInv, PipeTypes
    <3>3. "write" \in closed[worker.pipe] \/ "read" \in closed[worker.pipe]
      BY <2>2, <3>2, Zenon DEF Ends
    <3>4. "write" \in retired[worker.pipe] \/ "read" \in closed[worker.pipe]
      BY <1>0, <3>2, <3>3, Zenon DEF ClosedInv, Ends
    <3> QED
      BY <1>10, <2>1, <3>1, <3>4, Zenon
  <2>3. CASE worker' = [worker EXCEPT !.at = "written"] \/ worker' = Idle
    <3>1. worker'.at # "refused"
      BY <1>6, <2>3, SMT DEF Idle
    <3> QED
      BY <1>5, <3>1, Zenon
  <2> QED
    BY <1>12, <2>2, <2>3, Zenon DEF TryWrite
<1> QED
  BY <1>2, <1>3, <1>4, <1>7, <1>8, <1>9, <1>11, <1>12, Zenon DEF Next, Pump

\* At the start the mailbox is empty and the ends are in use.
LEMMA MailInitial == Init => Mail!MailInit /\ RefusedInv
<1> SUFFICES ASSUME Init PROVE Mail!MailInit /\ RefusedInv
  OBVIOUS
<1>1. /\ buf = [p \in Pipes |-> << >>] /\ queue = [p \in Pipes |-> << >>] /\ worker = Idle
      /\ closed = [p \in Pipes |-> {}] /\ retired = [p \in Pipes |-> {}]
  BY Zenon DEF Init, PipeInit
<1>2. worker.at # "written" /\ worker.at # "refused"
  BY <1>1, SMT DEF Idle
<1>3. << >> \o << >> = << >>
  BY SMT
<1>4. \A p \in Pipes : Contents(p) = << >>
  BY <1>1, <1>2, <1>3, Zenon DEF Contents, Undelivered
<1>5. \A p \in Pipes : Unused(p) = {}
  BY <1>1, SMT DEF Unused
<1>6. Mail!MailInit
  BY <1>4, <1>5, Zenon DEF Mail!MailInit
<1> QED
  BY <1>2, <1>6, Zenon DEF RefusedInv

\* Message delivery implements the mailbox, for any pipes, threads, sizes and
\* limits: what message_enqueue has accepted for a pipe is read from it in the
\* order of acceptance, once, and nothing is missing while its ends are in use.
THEOREM MessagesDelivered == Spec => ImplementsMailbox
<1>1. Init => Mail!MailInit /\ RefusedInv
  BY MailInitial
<1>2. DeliveryInv /\ RefusedInv /\ [Next]_vars => RefusedInv'
  BY RefusedStep
<1>3. DeliveryInv /\ RefusedInv /\ [Next]_vars => [Mail!MailNext]_(Mail!mailVars)
  BY NextMail DEF MailStep
<1> QED
  BY <1>1, <1>2, <1>3, DeliveryInvariant, PTL DEF Spec, ImplementsMailbox, Mail!MailSpec

=============================================================================
