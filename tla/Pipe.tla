-------------------------------- MODULE Pipe --------------------------------
(***************************************************************************)
(* driver/fs/vfs/pipefs.cpp: pipes, the lists of threads that wait on      *)
(* them, and the wake-ups that follow the pipe's lock.  A task is a TCB's  *)
(* place in memory; tid says which thread lives in it.  A call has a       *)
(* ticket of syscall/fd_lifetime.cpp on the end of the pipe it uses, and   *)
(* the end is closed when it is retired and its last ticket is gone (the   *)
(* module FdLifetime).  A section under the pipe's lock is one step.       *)
(***************************************************************************)
EXTENDS Integers, Sequences, FiniteSets, FiniteSetsExt

CONSTANTS
    Pipes, Tasks,
    Worker, Reaper,  \* kernel threads, which nobody kills
    Capacity,        \* PIPE_BUFF, in records
    Mortal,          \* the tasks that may be killed, and
    MaxDeaths        \* bound on how often one is

ASSUME PipeAssumption ==
    /\ Capacity \in Nat \ {0} /\ MaxDeaths \in Nat
    /\ Worker \notin Tasks /\ Reaper \notin Tasks /\ Mortal \subseteq Tasks

VARIABLES
    buf,         \* the contents of a pipe
    closed,      \* the ends pipefs_close has closed: read_fds, write_fds
    retired,     \* the ends whose descriptor is gone
    kernel,      \* the tickets on the write end that are the kernel's own
    waiting,     \* blocking_read and blocking_write
    status, tid, \* the fields of the TCBs
    op,          \* the call a task is in
    todo,        \* the waiters a task has detached and is to wake
    lost         \* history: the waiters of a waker that was killed

pipeVars == <<buf, closed, retired, kernel, waiting, status, tid, op, todo, lost>>

Ends == {"read", "write"}
Other(e) == IF e = "read" THEN "write" ELSE "read"
Actors == Tasks \cup {Worker, Reaper}

\* at: where the call is; pins: the ends it has a ticket on.
NoCall == [at |-> "none", pipe |-> {}, size |-> 0, pins |-> {}]

PipeInit ==
    /\ buf = [p \in Pipes |-> << >>]
    /\ closed = [p \in Pipes |-> {}] /\ retired = [p \in Pipes |-> {}]
    /\ kernel = [p \in Pipes |-> 0]
    /\ waiting = [p \in Pipes |-> [e \in Ends |-> {}]]
    /\ status = [s \in Tasks |-> "run"] /\ tid = [s \in Tasks |-> 0]
    /\ op = [s \in Tasks |-> NoCall]
    /\ todo = [x \in Actors |-> {}]
    /\ lost = {}

\* Appended by a write of a process, beside the records of the kernel.
Filler(n) == [k \in 1..n |-> 0]

Room(p) == Capacity - Len(buf[p])

\* The tasks with a ticket on an end of a pipe.
Tickets(e, p) == {s \in Tasks : op[s].pipe = p /\ e \in op[s].pins}

\* Nobody but the tasks of S, and none of k tickets of the kernel, has one.
NoOther(S, k, e, p) == Tickets(e, p) \subseteq S /\ (e = "write" => kernel[p] = k)
-----------------------------------------------------------------------------
\* pipefs_close of the end e, by x, which then wakes the other side.
CloseEnd(x, e, p) ==
    /\ closed' = [closed EXCEPT ![p] = @ \cup {e}]
    /\ waiting' = [waiting EXCEPT ![p][Other(e)] = {}]
    /\ todo' = [todo EXCEPT ![x] = @ \cup waiting[p][Other(e)]]

\* fd_operation_release: a ticket on the end e goes, the last one perhaps.
Release(x, e, p, last) ==
    IF e \in retired[p] /\ last THEN CloseEnd(x, e, p)
    ELSE UNCHANGED <<closed, waiting, todo>>

Running(s) == status[s] = "run"

At(s, where) == op[s].at = where

Begin(s, where, p, n, pins) ==
    /\ Running(s) /\ At(s, "none") /\ todo[s] = {}
    /\ pins \cap retired[p] = {}
    /\ op' = [op EXCEPT ![s] = [at |-> where, pipe |-> p, size |-> n, pins |-> pins]]
    /\ UNCHANGED <<buf, closed, retired, kernel, waiting, status, tid, todo, lost>>

BeginRead(s, p, n) == Begin(s, "read", p, n, {"read"})
BeginWrite(s, p, n) == Begin(s, "write", p, n, {"write"})

\* The call has its result and gives its ticket back.
Finish(s, e) ==
    /\ op' = [op EXCEPT ![s] = NoCall]
    /\ Release(s, e, op[s].pipe, NoOther({s}, 0, e, op[s].pipe))

Moved(s, where) == op' = [op EXCEPT ![s].at = where]

\* pipefs_read and pipe_write_inner have something to do: all that fits.
ReadSome(s) ==
    LET p == op[s].pipe
        n == IF op[s].size < Len(buf[p]) THEN op[s].size ELSE Len(buf[p])
    IN /\ Running(s) /\ op[s].at \in {"read", "read_prepared"}
       /\ buf[p] # << >>
       /\ buf' = [buf EXCEPT ![p] = SubSeq(@, n + 1, Len(@))]
       /\ waiting' = [waiting EXCEPT ![p]["write"] = {}]
       /\ todo' = [todo EXCEPT ![s] = @ \cup waiting[p]["write"]]
       /\ Moved(s, "read_done")
       /\ UNCHANGED <<closed, retired, kernel, status, tid, lost>>

WriteAll(s) ==
    LET p == op[s].pipe
    IN /\ Running(s) /\ op[s].at \in {"write", "write_prepared"}
       /\ "read" \notin closed[p] /\ Room(p) >= op[s].size
       /\ buf' = [buf EXCEPT ![p] = @ \o Filler(op[s].size)]
       /\ waiting' = [waiting EXCEPT ![p]["read"] = {}]
       /\ todo' = [todo EXCEPT ![s] = @ \cup waiting[p]["read"]]
       /\ Moved(s, "write_done")
       /\ UNCHANGED <<closed, retired, kernel, status, tid, lost>>

\* The other end is closed: end of file, EPIPE.
SeesClosed(s) ==
    LET p == op[s].pipe
    IN /\ Running(s)
       /\ \/ op[s].at \in {"read", "read_prepared"} /\ buf[p] = << >> /\ "write" \in closed[p]
             /\ Moved(s, "read_done")
          \/ op[s].at \in {"write", "write_prepared"} /\ "read" \in closed[p]
             /\ Moved(s, "write_done")
       /\ UNCHANGED <<buf, closed, retired, kernel, waiting, status, tid, todo, lost>>

\* Neither: the pipe is empty, or has no room.
MustWait(s) ==
    LET p == op[s].pipe
    IN \/ op[s].at \in {"read", "read_prepared"} /\ buf[p] = << >> /\ "write" \notin closed[p]
       \/ op[s].at \in {"write", "write_prepared"} /\ Room(p) < op[s].size /\ "read" \notin closed[p]

\* The lock is left to allocate the waiter.
Prepare(s) ==
    /\ Running(s) /\ op[s].at \in {"read", "write"} /\ MustWait(s)
    /\ Moved(s, IF op[s].at = "read" THEN "read_prepared" ELSE "write_prepared")
    /\ UNCHANGED <<buf, closed, retired, kernel, waiting, status, tid, todo, lost>>

\* Mutant: the waiter is published without a second look at the pipe.
WaitUnchecked(s) ==
    LET e == IF op[s].at = "read_prepared" THEN "read" ELSE "write"
    IN /\ Running(s) /\ op[s].at \in {"read_prepared", "write_prepared"}
       /\ waiting' = [waiting EXCEPT ![op[s].pipe][e] = @ \cup {<<s, tid[s]>>}]
       /\ status' = [status EXCEPT ![s] = "wait"]
       /\ Moved(s, e)
       /\ UNCHANGED <<buf, closed, retired, kernel, tid, todo, lost>>

\* pipe_wait_on.
WaitOn(s) ==
    LET e == IF op[s].at = "read_prepared" THEN "read" ELSE "write"
    IN /\ Running(s) /\ op[s].at \in {"read_prepared", "write_prepared"} /\ MustWait(s)
       /\ waiting' = [waiting EXCEPT ![op[s].pipe][e] = @ \cup {<<s, tid[s]>>}]
       /\ status' = [status EXCEPT ![s] = "wait"]
       /\ Moved(s, e)
       /\ UNCHANGED <<buf, closed, retired, kernel, tid, todo, lost>>

\* Behind the wake-ups of its own, the call returns.
Return(s) ==
    /\ Running(s) /\ op[s].at \in {"read_done", "write_done"} /\ todo[s] = {}
    /\ Finish(s, IF op[s].at = "read_done" THEN "read" ELSE "write")
    /\ UNCHANGED <<buf, retired, kernel, status, tid, lost>>

\* close, or the reaper for a process that is gone: the end is retired, and
\* closed at once if nobody has a ticket.
Retire(x, e, p) ==
    /\ x \in Tasks => Running(x) /\ At(x, "none") /\ todo[x] = {}
    /\ e \notin retired[p]
    /\ retired' = [retired EXCEPT ![p] = @ \cup {e}]
    /\ IF NoOther({}, 0, e, p) THEN CloseEnd(x, e, p)
       ELSE UNCHANGED <<closed, waiting, todo>>
    /\ UNCHANGED <<buf, kernel, status, tid, op, lost>>
-----------------------------------------------------------------------------
\* Mutant: the waiter's TCB is written without looking it up.
WokenBlindly(w) == [status EXCEPT ![w[1]] = "run"]

\* pipe_wake_live_waiter: the thread is in its process's list under that tid.
Woken(w) ==
    IF status[w[1]] = "wait" /\ tid[w[1]] = w[2] THEN [status EXCEPT ![w[1]] = "run"] ELSE status

\* pipe_wake_waiters.
Wake(x) ==
    /\ x \in Tasks => Running(x)
    /\ \E w \in todo[x] :
          /\ status' = Woken(w)
          /\ todo' = [todo EXCEPT ![x] = @ \ {w}]
    /\ UNCHANGED <<buf, closed, retired, kernel, waiting, tid, op, lost>>

Deaths == FoldSet(LAMBDA s, n : n + tid[s] + (IF status[s] \in {"dead", "freed"} THEN 1 ELSE 0), 0, Tasks)

\* A thread is killed and has stopped (what it still does in between it may as
\* well do before): it never runs again, its waiter stays on the list and the
\* wake-ups it had to do are lost.
Kill(s) ==
    /\ status[s] \in {"run", "wait"} /\ ~(At(s, "none") /\ todo[s] = {})
    /\ s \in Mortal /\ Deaths < MaxDeaths
    /\ status' = [status EXCEPT ![s] = "dead"]
    /\ lost' = lost \cup todo[s]
    /\ todo' = [todo EXCEPT ![s] = {}]
    /\ UNCHANGED <<buf, closed, retired, kernel, waiting, tid, op>>

\* What is left of the call c when its ticket on e is gone.
Rest(c, e) == IF c.pins = {e} THEN NoCall ELSE [c EXCEPT !.pins = c.pins \ {e}]

\* fd_lifetime.cpp gives the tickets of a dead thread back, end by end.
Abandon(s, e) ==
    LET p == op[s].pipe
    IN /\ status[s] = "dead" /\ e \in op[s].pins
       /\ op' = [op EXCEPT ![s] = Rest(op[s], e)]
       /\ Release(Reaper, e, p, NoOther({s}, 0, e, p))
       /\ UNCHANGED <<buf, retired, kernel, status, tid, lost>>

\* The reaper frees the TCB, and another thread may get its memory.
FreeTask(s) ==
    /\ status[s] = "dead" /\ At(s, "none")
    /\ status' = [status EXCEPT ![s] = "freed"]
    /\ UNCHANGED <<buf, closed, retired, kernel, waiting, tid, op, todo, lost>>

Spawn(s) ==
    /\ status[s] = "freed"
    /\ status' = [status EXCEPT ![s] = "run"]
    /\ tid' = [tid EXCEPT ![s] = @ + 1]
    /\ UNCHANGED <<buf, closed, retired, kernel, waiting, op, todo, lost>>
-----------------------------------------------------------------------------
\* What the call of s waits for is there.
Ready(s) ==
    LET p == op[s].pipe
    IN IF At(s, "read") THEN buf[p] # << >> \/ "write" \in closed[p]
       ELSE Room(p) >= op[s].size \/ "read" \in closed[p]

\* No wake-up is lost: a thread that pipe_wait_on has put to sleep is on the
\* list its next wake-up comes from and has nothing to do yet, or a waker
\* has taken it off and is to wake it, or that waker was killed in between.
WaiterIsAwaited ==
    \A s \in Tasks : status[s] = "wait" =>
        LET w == <<s, tid[s]>>
        IN \/ w \in waiting[op[s].pipe][op[s].at] /\ ~Ready(s)
           \/ \E x \in Actors : w \in todo[x]
           \/ w \in lost

\* A dead thread stays dead until another one is made in its place, and the
\* pipe end of a ticket is not closed.
UsesNoFreed ==
    /\ \A s \in Tasks : status[s] \in {"dead", "freed"} =>
          status'[s] \in {"dead", "freed"} \/ tid'[s] # tid[s]
    /\ \A p \in Pipes, e \in Ends : e \in closed[p] => NoOther({}, 0, e, p)

\* Nothing that is freed is used: a TCB that the reaper has freed is written
\* only when a new thread is made in it, a dead thread is not revived, and
\* while a call or the kernel has a ticket on an end of a pipe that end is
\* not closed, so the pipe the call works on is there.
FreedUntouched == [][UsesNoFreed]_pipeVars
=============================================================================
