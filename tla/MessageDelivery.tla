--------------------------- MODULE MessageDelivery ---------------------------
(***************************************************************************)
(* kernel/syscall/message.cpp: records are queued per pipe by any task and *)
(* written to the pipes by one worker, which goes round the channels that  *)
(* have something.  The worker reads the channel's first record under the  *)
(* queue's lock, writes it without the lock and takes it off afterwards.   *)
(***************************************************************************)
EXTENDS Pipe

CONSTANTS
    Attended,                \* the pipes whose process uses its descriptors
    PipeLimit, GlobalLimit,  \* kMessageLimitPerPipe, kMessageLimitGlobal
    MaxPosts                 \* bound on the records posted

ASSUME MessageAssumption ==
    /\ Attended \subseteq Pipes
    /\ PipeLimit \in Nat \ {0} /\ GlobalLimit \in Nat \ {0} /\ MaxPosts \in Nat

VARIABLES
    queue,   \* the records of a channel
    ready,   \* message_ready: the ring of channels, from the next one on
    worker,  \* where the worker is, and with which channel
    posted   \* how many records have been queued

vars == <<pipeVars, queue, ready, worker, posted>>
messageVars == <<queue, ready, worker, posted>>

Idle == [at |-> "idle", pipe |-> {}]

Init ==
    /\ PipeInit
    /\ queue = [p \in Pipes |-> << >>]
    /\ ready = << >>
    /\ worker = Idle
    /\ posted = 0
-----------------------------------------------------------------------------
\* message_post_notification acquires the write end only.
PostNotification(s, p) == posted < MaxPosts /\ Begin(s, "post", p, 0, {"write"})

\* message_acquire_channel: the write end, then the read end, to compare them
\* (a process that does not use its descriptors retires none of them, so for
\* its pipe this makes no difference).
PostWindow(s, p) == posted < MaxPosts /\ Begin(s, "acquire", p, 0, {"write"})

AcquireReader(s) ==
    LET p == op[s].pipe
    IN /\ Running(s) /\ At(s, "acquire") /\ "read" \notin retired[p]
       /\ op' = [op EXCEPT ![s] = [at |-> "compare", pipe |-> p, size |-> 0, pins |-> Ends]]
       /\ UNCHANGED <<buf, closed, retired, kernel, waiting, status, tid, todo, lost>>

ReleaseReader(s) ==
    LET p == op[s].pipe
    IN /\ Running(s) /\ At(s, "compare")
       /\ op' = [op EXCEPT ![s] = [at |-> "post", pipe |-> p, size |-> 0, pins |-> {"write"}]]
       /\ Release(s, "read", p, NoOther({s}, 0, "read", p))
       /\ UNCHANGED <<buf, retired, kernel, status, tid, lost>>

\* The post fails: no read end, another inode, no memory, a full queue, a
\* retired ticket.
PostFails(s) ==
    /\ Running(s)
    /\ \/ At(s, "acquire") /\ "read" \in retired[op[s].pipe]
       \/ At(s, "post")
    /\ todo[s] = {}
    /\ Finish(s, "write")
    /\ UNCHANGED <<buf, retired, kernel, status, tid, lost>>

\* Mutant: the ticket goes to the kernel whether it is retired or not.
MayQueueRetired(p) ==
    /\ FoldSet(LAMBDA q, n : n + Len(queue[q]), 0, Pipes) < GlobalLimit
    /\ Len(queue[p]) < PipeLimit

\* message_enqueue's conditions, fd_operation_transfer_to_kernel the last.
MayQueue(p) ==
    /\ FoldSet(LAMBDA q, n : n + Len(queue[q]), 0, Pipes) < GlobalLimit
    /\ Len(queue[p]) < PipeLimit
    /\ "write" \notin retired[p]

\* message_enqueue: the ticket becomes the kernel's, and a channel that is
\* new enters the ring at its end.
Enqueue(s) ==
    LET p == op[s].pipe
    IN /\ Running(s) /\ At(s, "post") /\ todo[s] = {} /\ MayQueue(p) /\ posted < MaxPosts
       /\ queue' = [queue EXCEPT ![p] = Append(@, posted + 1)]
       /\ ready' = IF queue[p] = << >> THEN Append(ready, p) ELSE ready
       /\ posted' = posted + 1
       /\ kernel' = [kernel EXCEPT ![p] = @ + 1]
       /\ op' = [op EXCEPT ![s] = NoCall]
       /\ UNCHANGED <<buf, closed, retired, waiting, status, tid, todo, lost, worker>>
-----------------------------------------------------------------------------
\* Mutant: the channel keeps its turn.
NotRotated == ready

\* The channel whose turn it is goes to the end of the ring.
Rotated == Append(Tail(ready), Head(ready))

\* message_delivery_pump: the first record of the next channel.
Pick ==
    /\ worker.at = "idle" /\ ready # << >> /\ todo[Worker] = {}
    /\ worker' = [at |-> "picked", pipe |-> Head(ready)]
    /\ ready' = Rotated
    /\ UNCHANGED <<pipeVars, queue, posted>>

\* fd_operation_is_retired.
CheckRetired ==
    /\ worker.at = "picked"
    /\ worker' = [worker EXCEPT !.at = IF "write" \in retired[worker.pipe] THEN "refused" ELSE "checked"]
    /\ UNCHANGED <<pipeVars, queue, ready, posted>>

\* pipefs_try_write_packet.
TryWrite ==
    LET p == worker.pipe
    IN /\ worker.at = "checked"
       /\ \/ /\ closed[p] # {}
             /\ worker' = [worker EXCEPT !.at = "refused"]
             /\ UNCHANGED <<buf, waiting, todo>>
          \/ /\ closed[p] = {} /\ Room(p) >= 1
             /\ buf' = [buf EXCEPT ![p] = Append(@, Head(queue[p]))]
             /\ waiting' = [waiting EXCEPT ![p]["read"] = {}]
             /\ todo' = [todo EXCEPT ![Worker] = @ \cup waiting[p]["read"]]
             /\ worker' = [worker EXCEPT !.at = "written"]
          \/ /\ closed[p] = {} /\ Room(p) < 1
             /\ worker' = Idle
             /\ UNCHANGED <<buf, waiting, todo>>
       /\ UNCHANGED <<closed, retired, kernel, status, tid, op, lost, queue, ready, posted>>

\* The ring without the channel of p.
Without(p) ==
    LET i == CHOOSE k \in DOMAIN ready : ready[k] = p
    IN SubSeq(ready, 1, i - 1) \o SubSeq(ready, i + 1, Len(ready))

\* The record leaves the channel, and an empty channel the ring.
TakeOff ==
    LET p == worker.pipe
    IN /\ worker.at \in {"refused", "written"} /\ todo[Worker] = {}
       /\ queue' = [queue EXCEPT ![p] = Tail(@)]
       /\ ready' = IF Len(queue[p]) = 1 THEN Without(p) ELSE ready
       /\ worker' = [worker EXCEPT !.at = "release"]
       /\ UNCHANGED <<pipeVars, posted>>

\* fd_operation_release.
ReleaseRecord ==
    LET p == worker.pipe
    IN /\ worker.at = "release"
       /\ Release(Worker, "write", p, NoOther({}, 1, "write", p))
       /\ kernel' = [kernel EXCEPT ![p] = @ - 1]
       /\ worker' = Idle
       /\ UNCHANGED <<buf, retired, status, tid, op, lost, queue, ready, posted>>
-----------------------------------------------------------------------------
PipeStep ==
    /\ \/ \E s \in Tasks :
             \/ \E p \in Attended, n \in 1..Capacity : BeginRead(s, p, n) \/ BeginWrite(s, p, n)
             \/ ReadSome(s) \/ WriteAll(s) \/ SeesClosed(s) \/ Prepare(s) \/ WaitOn(s) \/ Return(s)
             \/ Kill(s) \/ FreeTask(s) \/ Spawn(s)
             \/ \E e \in Ends : Abandon(s, e)
       \/ \E x \in Tasks \cup {Reaper}, e \in Ends, p \in Attended : Retire(x, e, p)
       \/ \E x \in Actors : Wake(x)
    /\ UNCHANGED messageVars

PostStep(s) ==
    /\ \/ \E p \in Pipes : PostNotification(s, p)
       \/ \E p \in Attended : PostWindow(s, p)
       \/ AcquireReader(s) \/ ReleaseReader(s) \/ PostFails(s)
    /\ UNCHANGED messageVars

Pump == Pick \/ CheckRetired \/ TryWrite \/ TakeOff \/ ReleaseRecord

Next ==
    \/ PipeStep
    \/ \E s \in Tasks : PostStep(s) \/ Enqueue(s)
    \/ Pump

\* The kernel's worker is scheduled, and finishes the wake-ups it began.
Fairness == WF_vars(Pump \/ (Wake(Worker) /\ UNCHANGED messageVars))

Spec == Init /\ [][Next]_vars /\ Fairness
-----------------------------------------------------------------------------
\* The records of a channel that are not in its pipe: TryWrite has written
\* the first one, which TakeOff is to remove.
Undelivered(p) ==
    IF worker.at = "written" /\ worker.pipe = p THEN Tail(queue[p]) ELSE queue[p]

\* What is to be read from a pipe, and the ends whose users are gone.
Contents(p) == buf[p] \o Undelivered(p)
Unused(p) == (retired[p] \cap {"write"}) \cup (closed[p] \cap {"read"})

Mail == INSTANCE Mailbox WITH
    Records <- 1..MaxPosts,
    Data <- 0,
    box <- [p \in Pipes |-> Contents(p)],
    shut <- [p \in Pipes |-> Unused(p)]

\* Message delivery implements the mailbox: what message_enqueue accepts for
\* a pipe is read from it in the order of acceptance, nothing twice, and
\* nothing is missing while the descriptors are open, whatever the worker,
\* other producers, readers, writers, closers and killed threads do in between.
ImplementsMailbox == Mail!MailSpec

\* A full pipe does not hold up the others: a channel gets rid of its records
\* unless its own pipe is full.
EveryPipeServed ==
    \A p \in Pipes : queue[p] # << >> ~> (queue[p] = << >> \/ Room(p) < 1)
=============================================================================
