-------------------------- MODULE InstallerProofs ---------------------------
(***************************************************************************)
(* One installation at a time, no pointer to a freed worker, and what an   *)
(* installation leaves on the disk and reports of it, for any number of    *)
(* threads, slots, handles and faults.                                     *)
(***************************************************************************)
EXTENDS InstallerJobs, TLAPS

Preparing == {"pin", "queued", "queue_fails"}
Cleaning == {"unpin", "unref", "cleaned"}
Waiting == {"respond", "cancel", "release"}
InJob == {"claim", "publish", "io", "request", "release", "complete", "failed", "broken"}

\* The tables are functions, and their entries have the fields of their type.
Shaped ==
    /\ jobs = [j \in Jobs |-> jobs[j]]
    /\ \A j \in Jobs :
          /\ jobs[j] = [internal |-> jobs[j].internal, state |-> jobs[j].state,
                        handle |-> jobs[j].handle, owner |-> jobs[j].owner,
                        worker |-> jobs[j].worker, gen |-> jobs[j].gen, node |-> jobs[j].node,
                        pin |-> jobs[j].pin, io |-> jobs[j].io]
          /\ jobs[j].handle \in Nat
    /\ call = [c \in Callers |-> call[c]]
    /\ \A c \in Callers : call[c] = [at |-> call[c].at, target |-> call[c].target,
                                     job |-> call[c].job, then |-> call[c].then]
    /\ run = [w \in Workers |-> run[w]]
    /\ \A w \in Workers : run[w] = [at |-> run[w].at, job |-> run[w].job,
                                    handle |-> run[w].handle, step |-> run[w].step]
    /\ issued \in Nat

\* A handle is given once, and only slots in use have one.
HandlesApart ==
    /\ \A j \in Jobs : jobs[j].internal = "Free" => jobs[j].handle = 0
    /\ \A j \in Jobs : jobs[j].internal # "Free" => jobs[j].handle \in 1..issued
    /\ \A j, k \in Jobs : j # k /\ jobs[j].handle = jobs[k].handle => jobs[j].handle = 0

\* A job that nobody may see yet waits, and one that is cleaned up does not run.
StatesAgree ==
    \A j \in Jobs : /\ jobs[j].internal = "Preparing" => jobs[j].state = "Queued"
                    /\ jobs[j].internal = "Cleaning" => jobs[j].state # "Running"

\* The job a caller works on is its own, and in the state it left it in.
CallsOwn ==
    \A c \in Callers :
        /\ call[c].at \in Preparing \cup Cleaning \cup Waiting =>
              call[c].job \in Jobs /\ jobs[call[c].job].owner = c
        /\ call[c].at \in Preparing => jobs[call[c].job].internal = "Preparing"
        /\ call[c].at \in Waiting => jobs[call[c].job].internal = "Published"
        /\ call[c].at \in Cleaning =>
              /\ jobs[call[c].job].internal = "Cleaning"
              /\ call[c].then = "free" \/ jobs[call[c].job].state # "Queued"

\* The job a worker is in is its own until the worker leaves it.
RunsOwn ==
    \A w \in Workers : run[w].at \in InJob =>
        /\ run[w].job \in Jobs
        /\ jobs[run[w].job].handle = run[w].handle
        /\ jobs[run[w].job].worker = w
        /\ jobs[run[w].job].internal = "Published"
        /\ jobs[run[w].job].state \in {"Running", "Quarantined"}

\* A job that runs names a thread that is still there.
WorkersLive ==
    /\ status = [s \in Tasks |-> status[s]]
    /\ \A j \in Jobs : jobs[j].internal = "Published" /\ jobs[j].state = "Running" =>
          jobs[j].worker \in Tasks /\ status[jobs[j].worker] # "freed"

JobsInv ==
    Shaped /\ HandlesApart /\ StatesAgree /\ CallsOwn /\ RunsOwn /\ OneInstallation /\ WorkersLive

\* No thread is freed in the step.
NoneFreed ==
    /\ status' = [s \in Tasks |-> status'[s]]
    /\ \A s \in Tasks : status'[s] = "freed" => status[s] = "freed"

\* What the invariant is about.
ownVars == <<jobs, admitted_job, issued, call, run>>

\* The slots start free.
LEMMA JobsInitial == Init => JobsInv
<1> SUFFICES ASSUME Init PROVE JobsInv
  BY Zenon
<1> USE DEF Init, FreeJob, NoCall, NoRun
<1>1. Shaped
  BY ZenonT(40) DEF Shaped
<1>2. HandlesApart /\ StatesAgree /\ OneInstallation
  BY Zenon DEF HandlesApart, StatesAgree, OneInstallation
<1>3. CallsOwn /\ RunsOwn
  BY Zenon DEF CallsOwn, RunsOwn, Preparing, Cleaning, Waiting, InJob
<1>4. WorkersLive
  BY Zenon DEF WorkersLive
<1> QED BY <1>1, <1>2, <1>3, <1>4, Zenon DEF JobsInv

\* The status of the tasks stays.
LEMMA StatusStays == ASSUME JobsInv, UNCHANGED status PROVE NoneFreed
BY Zenon DEF JobsInv, WorkersLive, NoneFreed

\* Steps that touch neither the jobs nor those who work on them.
LEMMA JobsFrame == ASSUME JobsInv, NoneFreed, UNCHANGED ownVars PROVE JobsInv'
<1>1. WorkersLive'
  BY Zenon DEF JobsInv, WorkersLive, NoneFreed, ownVars
<1> QED BY <1>1
           DEF ownVars, JobsInv, Shaped, HandlesApart, StatesAgree, CallsOwn, RunsOwn,
               OneInstallation

\* Of the calls only c's changes, and at, job and then are what it becomes.
CallMoves(c, at, job, then) ==
    /\ call' = [d \in Callers |-> call'[d]]
    /\ \A d \in Callers \ {c} : call'[d] = call[d]
    /\ call'[c] = [at |-> call'[c].at, target |-> call'[c].target, job |-> call'[c].job,
                   then |-> call'[c].then]
    /\ call'[c].at = at /\ call'[c].job = job /\ call'[c].then = then

\* Go and Back are such moves.
LEMMA GoMoves ==
    ASSUME JobsInv, NEW c \in Callers, NEW x, Go(c, x)
    PROVE  CallMoves(c, x, call[c].job, call[c].then)
BY DEF CallMoves, Go, JobsInv, Shaped

\* And so is a new call.
LEMMA SetMoves ==
    ASSUME JobsInv, NEW c \in Callers, NEW x, NEW t, NEW j, NEW n,
           call' = [call EXCEPT ![c] = [at |-> x, target |-> t, job |-> j, then |-> n]]
    PROVE  CallMoves(c, x, j, n)
BY Zenon DEF CallMoves, JobsInv, Shaped

\* A new call begins with the fields of NoCall.
LEMMA NewCallTarget ==
    ASSUME NEW x, NEW t
    PROVE  [NoCall EXCEPT !.at = x, !.target = t] = [at |-> x, target |-> t, job |-> {}, then |-> "none"]
<1> DEFINE a == [NoCall EXCEPT !.at = x]
<1>1. a = [at |-> x, target |-> {}, job |-> {}, then |-> "none"]
  BY DEF NoCall
<1>2. [NoCall EXCEPT !.at = x, !.target = t] = [a EXCEPT !.target = t]
  BY Zenon
<1> HIDE DEF a
<1> QED BY <1>1, <1>2

\* So does one about a job.
LEMMA NewCallJob ==
    ASSUME NEW x, NEW j
    PROVE  [NoCall EXCEPT !.at = x, !.job = j] = [at |-> x, target |-> {}, job |-> j, then |-> "none"]
<1> DEFINE a == [NoCall EXCEPT !.at = x]
<1>1. a = [at |-> x, target |-> {}, job |-> {}, then |-> "none"]
  BY DEF NoCall
<1>2. [NoCall EXCEPT !.at = x, !.job = j] = [a EXCEPT !.job = j]
  BY Zenon
<1> HIDE DEF a
<1> QED BY <1>1, <1>2

\* And one that also says what follows.
LEMMA NewCallThen ==
    ASSUME NEW x, NEW j, NEW n
    PROVE  [NoCall EXCEPT !.at = x, !.job = j, !.then = n] = [at |-> x, target |-> {}, job |-> j, then |-> n]
<1> DEFINE a == [NoCall EXCEPT !.at = x, !.job = j]
<1>1. a = [at |-> x, target |-> {}, job |-> j, then |-> "none"]
  BY NewCallJob, ZenonT(40)
<1>2. [NoCall EXCEPT !.at = x, !.job = j, !.then = n] = [a EXCEPT !.then = n]
  BY Zenon
<1> HIDE DEF a
<1> QED BY <1>1, <1>2

\* A move may also say what follows it.
LEMMA TwoMoves ==
    ASSUME JobsInv, NEW c \in Callers, NEW x, NEW n,
           call' = [call EXCEPT ![c].at = x, ![c].then = n]
    PROVE  CallMoves(c, x, call[c].job, n)
<1> DEFINE g == [call EXCEPT ![c].at = x]
<1>1. call' = [g EXCEPT ![c].then = n]
  BY Zenon
<1>2. /\ g = [d \in Callers |-> g[d]]
      /\ \A d \in Callers \ {c} : g[d] = call[d]
      /\ g[c] = [call[c] EXCEPT !.at = x]
  <2>1. g = [d \in Callers |-> g[d]] /\ \A d \in Callers \ {c} : g[d] = call[d]
    BY ZenonT(40) DEF JobsInv, Shaped
  <2>2. g[c] = [call[c] EXCEPT !.at = x]
    BY ZenonT(40) DEF JobsInv, Shaped
  <2> QED BY <2>1, <2>2, ZenonT(40)
<1>3. g[c] = [at |-> g[c].at, target |-> g[c].target, job |-> g[c].job, then |-> g[c].then]
  BY Zenon DEF JobsInv, Shaped
<1>4. g[c].at = x /\ g[c].job = call[c].job
  BY DEF JobsInv, Shaped
<1> HIDE DEF g
<1>5. /\ call' = [d \in Callers |-> call'[d]]
      /\ \A d \in Callers \ {c} : call'[d] = call[d]
      /\ call'[c] = [g[c] EXCEPT !.then = n]
  BY <1>1, <1>2, ZenonT(40)
<1>6. /\ call'[c] = [at |-> call'[c].at, target |-> call'[c].target, job |-> call'[c].job,
                     then |-> call'[c].then]
      /\ call'[c].at = g[c].at /\ call'[c].job = g[c].job /\ call'[c].then = n
  BY <1>3, <1>5, ZenonT(40)
<1> QED BY <1>4, <1>5, <1>6, ZenonT(40) DEF CallMoves

\* A caller moves where it works on no job.
LEMMA CallElsewhere ==
    ASSUME JobsInv, NEW c \in Callers, NEW x, NEW j, NEW n, CallMoves(c, x, j, n),
           x \notin Preparing \cup Cleaning \cup Waiting, NoneFreed,
           UNCHANGED <<jobs, admitted_job, issued, run>>
    PROVE  JobsInv'
<1>1. Shaped'
  <2>1. /\ call' = [d \in Callers |-> call'[d]]
        /\ \A d \in Callers : call'[d] = [at |-> call'[d].at, target |-> call'[d].target,
                                          job |-> call'[d].job, then |-> call'[d].then]
    BY Zenon DEF JobsInv, Shaped, CallMoves
  <2> QED BY <2>1, Zenon DEF JobsInv, Shaped
<1>2. CallsOwn'
  BY SMTT(30) DEF JobsInv, Shaped, CallsOwn, CallMoves
<1>3. WorkersLive'
  BY Zenon DEF JobsInv, WorkersLive, NoneFreed
<1> QED BY <1>1, <1>2, <1>3 DEF JobsInv, HandlesApart, StatesAgree, RunsOwn, OneInstallation

\* The steps that select a target, or give one back.
LEMMA TargetSteps ==
    ASSUME JobsInv, NEW c \in Callers,
           \/ \E t \in Targets : Select(c, t) \/ ReleaseTarget(c, t)
           \/ Retain(c) \/ Probe(c) \/ Unprobe(c) \/ SelectDone(c) \/ CloseTarget(c) \/ FreeTargetSlot(c)
    PROVE  JobsInv'
<1>1. UNCHANGED <<jobs, admitted_job, issued, run>> /\ NoneFreed
  BY StatusStays, ZenonT(40)
     DEF Select, ReleaseTarget, Retain, Probe, Unprobe, SelectDone, CloseTarget,
                     FreeTargetSlot, jobVars, accessVars
<1>2. ASSUME NEW x, Go(c, x), x \notin Preparing \cup Cleaning \cup Waiting PROVE JobsInv'
  BY <1>1, <1>2, GoMoves, CallElsewhere, Zenon
<1>3. ASSUME NEW x, NEW u, NEW j, NEW n, x \notin Preparing \cup Cleaning \cup Waiting,
             call' = [call EXCEPT ![c] = [at |-> x, target |-> u, job |-> j, then |-> n]]
      PROVE  JobsInv'
  BY <1>1, <1>3, SetMoves, CallElsewhere, ZenonT(40)
<1>4. CASE \E t \in Targets : Select(c, t) \/ ReleaseTarget(c, t)
  <2>0. PICK t \in Targets : Select(c, t) \/ ReleaseTarget(c, t)
    BY <1>4, Zenon
  <2>1. \E x \in {"retain", "close_target"} :
           call' = [call EXCEPT ![c] = [at |-> x, target |-> t, job |-> {}, then |-> "none"]]
    BY <2>0, NewCallTarget, ZenonT(40) DEF Select, ReleaseTarget
  <2> QED BY <2>1, <1>3, ZenonT(40) DEF Preparing, Cleaning, Waiting
<1>5. CASE Retain(c)
  <2>1. CASE Go(c, "probe") \/ Go(c, "select_fails")
    BY <2>1, <1>2, Zenon DEF Preparing, Cleaning, Waiting
  <2>2. CASE call' = [call EXCEPT ![c].at = "select_fails", ![c].then = "quarantine"]
    <3>1. CallMoves(c, "select_fails", call[c].job, "quarantine")
      BY <2>2, TwoMoves, ZenonT(40)
    <3> QED BY <3>1, <1>1, CallElsewhere, Zenon DEF Preparing, Cleaning, Waiting
  <2> QED BY <1>5, <2>1, <2>2, Zenon DEF Retain
<1>6. CASE Probe(c) \/ Unprobe(c) \/ SelectDone(c) \/ CloseTarget(c) \/ FreeTargetSlot(c)
  <2>1. \/ \E x \in {"unprobe", "select_fails", "selected", "close_target", "free_target"} : Go(c, x)
        \/ Back(c)
    BY <1>6, ZenonT(40) DEF Probe, Unprobe, SelectDone, CloseTarget, FreeTargetSlot
  <2>2. CASE Back(c)
    BY <2>2, <1>3, ZenonT(40) DEF Back, NoCall, Preparing, Cleaning, Waiting
  <2>3. CASE \E x \in {"unprobe", "select_fails", "selected", "close_target", "free_target"} : Go(c, x)
    BY <2>3, <1>2, Zenon DEF Preparing, Cleaning, Waiting
  <2> QED BY <2>1, <2>2, <2>3, Zenon
<1> QED BY <1>4, <1>5, <1>6, Zenon

\* Of the jobs only j changes, and these are the fields that matter.
JobMoves(j, internal, state, handle, owner, worker) ==
    /\ jobs' = [k \in Jobs |-> jobs'[k]]
    /\ \A k \in Jobs \ {j} : jobs'[k] = jobs[k]
    /\ jobs'[j] = [internal |-> internal, state |-> state, handle |-> handle, owner |-> owner,
                   worker |-> worker, gen |-> jobs'[j].gen, node |-> jobs'[j].node,
                   pin |-> jobs'[j].pin, io |-> jobs'[j].io]

\* The steps of clean_job and of the factory change nothing that matters.
LEMMA JobTouched ==
    ASSUME JobsInv, NEW j \in Jobs, NEW v,
           \/ jobs' = [jobs EXCEPT ![j].pin = v]
           \/ jobs' = [jobs EXCEPT ![j].node = v]
           \/ jobs' = [jobs EXCEPT ![j].io = v]
    PROVE  JobMoves(j, jobs[j].internal, jobs[j].state, jobs[j].handle, jobs[j].owner, jobs[j].worker)
<1>1. CASE jobs' = [jobs EXCEPT ![j].pin = v]
  BY <1>1 DEF JobsInv, Shaped, JobMoves
<1>2. CASE jobs' = [jobs EXCEPT ![j].node = v]
  BY <1>2 DEF JobsInv, Shaped, JobMoves
<1>3. CASE jobs' = [jobs EXCEPT ![j].io = v]
  BY <1>3 DEF JobsInv, Shaped, JobMoves
<1> QED BY <1>1, <1>2, <1>3, Zenon

\* The steps that move a job on.
LEMMA JobOne ==
    ASSUME JobsInv, NEW j \in Jobs, NEW v
    PROVE  /\ jobs' = [jobs EXCEPT ![j].internal = v] =>
                JobMoves(j, v, jobs[j].state, jobs[j].handle, jobs[j].owner, jobs[j].worker)
           /\ jobs' = [jobs EXCEPT ![j].state = v] =>
                JobMoves(j, jobs[j].internal, v, jobs[j].handle, jobs[j].owner, jobs[j].worker)
<1>0. Shaped
  BY Zenon DEF JobsInv
<1>1. jobs' = [jobs EXCEPT ![j].internal = v] =>
        JobMoves(j, v, jobs[j].state, jobs[j].handle, jobs[j].owner, jobs[j].worker)
  <2> SUFFICES ASSUME jobs' = [jobs EXCEPT ![j].internal = v]
               PROVE  JobMoves(j, v, jobs[j].state, jobs[j].handle, jobs[j].owner, jobs[j].worker)
    BY Zenon
  <2>1. jobs' = [k \in Jobs |-> jobs'[k]] /\ \A k \in Jobs \ {j} : jobs'[k] = jobs[k]
    BY <1>0, ZenonT(40) DEF Shaped
  <2>2. jobs'[j] = [jobs[j] EXCEPT !.internal = v]
    BY <1>0, Zenon DEF Shaped
  <2> QED BY <1>0, <2>1, <2>2 DEF Shaped, JobMoves
<1>2. jobs' = [jobs EXCEPT ![j].state = v] =>
        JobMoves(j, jobs[j].internal, v, jobs[j].handle, jobs[j].owner, jobs[j].worker)
  <2> SUFFICES ASSUME jobs' = [jobs EXCEPT ![j].state = v]
               PROVE  JobMoves(j, jobs[j].internal, v, jobs[j].handle, jobs[j].owner, jobs[j].worker)
    BY Zenon
  <2>1. jobs' = [k \in Jobs |-> jobs'[k]] /\ \A k \in Jobs \ {j} : jobs'[k] = jobs[k]
    BY <1>0, ZenonT(40) DEF Shaped
  <2>2. jobs'[j] = [jobs[j] EXCEPT !.state = v]
    BY <1>0, Zenon DEF Shaped
  <2> QED BY <1>0, <2>1, <2>2 DEF Shaped, JobMoves
<1> QED BY <1>1, <1>2, Zenon

\* The steps that move it on in two fields.
LEMMA JobTwo ==
    ASSUME JobsInv, NEW j \in Jobs, NEW u, NEW v
    PROVE  /\ jobs' = [jobs EXCEPT ![j].internal = u, ![j].state = v] =>
                JobMoves(j, u, v, jobs[j].handle, jobs[j].owner, jobs[j].worker)
           /\ jobs' = [jobs EXCEPT ![j].state = v, ![j].internal = u] =>
                JobMoves(j, u, v, jobs[j].handle, jobs[j].owner, jobs[j].worker)
           /\ jobs' = [jobs EXCEPT ![j].worker = u, ![j].state = v] =>
                JobMoves(j, jobs[j].internal, v, jobs[j].handle, jobs[j].owner, u)
<1> DEFINE a == [jobs EXCEPT ![j].internal = u]
           b == [jobs EXCEPT ![j].state = v]
           d == [jobs EXCEPT ![j].worker = u]
<1>1. /\ [jobs EXCEPT ![j].internal = u, ![j].state = v] = [a EXCEPT ![j].state = v]
      /\ [jobs EXCEPT ![j].state = v, ![j].internal = u] = [b EXCEPT ![j].internal = u]
      /\ [jobs EXCEPT ![j].worker = u, ![j].state = v] = [d EXCEPT ![j].state = v]
  BY Zenon
<1>2. /\ a = [k \in Jobs |-> a[k]]
      /\ \A k \in Jobs \ {j} : a[k] = jobs[k]
      /\ a[j] = [internal |-> u, state |-> jobs[j].state, handle |-> jobs[j].handle,
                 owner |-> jobs[j].owner, worker |-> jobs[j].worker, gen |-> jobs[j].gen,
                 node |-> jobs[j].node, pin |-> jobs[j].pin, io |-> jobs[j].io]
  BY DEF JobsInv, Shaped
<1>3. /\ b = [k \in Jobs |-> b[k]]
      /\ \A k \in Jobs \ {j} : b[k] = jobs[k]
      /\ b[j] = [internal |-> jobs[j].internal, state |-> v, handle |-> jobs[j].handle,
                 owner |-> jobs[j].owner, worker |-> jobs[j].worker, gen |-> jobs[j].gen,
                 node |-> jobs[j].node, pin |-> jobs[j].pin, io |-> jobs[j].io]
  BY DEF JobsInv, Shaped
<1>4. /\ d = [k \in Jobs |-> d[k]]
      /\ \A k \in Jobs \ {j} : d[k] = jobs[k]
      /\ d[j] = [internal |-> jobs[j].internal, state |-> jobs[j].state, handle |-> jobs[j].handle,
                 owner |-> jobs[j].owner, worker |-> u, gen |-> jobs[j].gen,
                 node |-> jobs[j].node, pin |-> jobs[j].pin, io |-> jobs[j].io]
  BY SMTT(30) DEF JobsInv, Shaped
<1> HIDE DEF a, b, d
<1>5. jobs' = [a EXCEPT ![j].state = v] => JobMoves(j, u, v, jobs[j].handle, jobs[j].owner, jobs[j].worker)
  BY <1>2 DEF JobMoves
<1>6. jobs' = [b EXCEPT ![j].internal = u] => JobMoves(j, u, v, jobs[j].handle, jobs[j].owner, jobs[j].worker)
  BY <1>3 DEF JobMoves
<1>7. jobs' = [d EXCEPT ![j].state = v] => JobMoves(j, jobs[j].internal, v, jobs[j].handle, jobs[j].owner, u)
  BY <1>4 DEF JobMoves
<1> QED BY <1>1, <1>5, <1>6, <1>7, ZenonT(40)

\* The last of the fields that change when the job takes over the node.
LEMMA JobNode ==
    ASSUME JobsInv, NEW j \in Jobs, NEW u, NEW v, NEW g, NEW b,
           b = [k \in Jobs |-> b[k]], \A k \in Jobs \ {j} : b[k] = jobs[k],
           b[j] = [internal |-> u, state |-> jobs[j].state, handle |-> jobs[j].handle,
                   owner |-> jobs[j].owner, worker |-> jobs[j].worker, gen |-> g,
                   node |-> jobs[j].node, pin |-> jobs[j].pin, io |-> jobs[j].io],
           jobs' = [b EXCEPT ![j].node = v]
    PROVE  JobMoves(j, u, jobs[j].state, jobs[j].handle, jobs[j].owner, jobs[j].worker)
BY DEF JobMoves

\* The job takes over the node.
LEMMA JobGiven ==
    ASSUME JobsInv, NEW j \in Jobs, NEW u, NEW g, NEW v
    PROVE  jobs' = [jobs EXCEPT ![j].internal = u, ![j].gen = g, ![j].node = v] =>
             JobMoves(j, u, jobs[j].state, jobs[j].handle, jobs[j].owner, jobs[j].worker)
<1> DEFINE a == [jobs EXCEPT ![j].internal = u]
           b == [a EXCEPT ![j].gen = g]
<1>1. [jobs EXCEPT ![j].internal = u, ![j].gen = g, ![j].node = v] = [b EXCEPT ![j].node = v]
  BY Zenon
<1>2. /\ a = [k \in Jobs |-> a[k]]
      /\ \A k \in Jobs \ {j} : a[k] = jobs[k]
      /\ a[j] = [internal |-> u, state |-> jobs[j].state, handle |-> jobs[j].handle,
                 owner |-> jobs[j].owner, worker |-> jobs[j].worker, gen |-> jobs[j].gen,
                 node |-> jobs[j].node, pin |-> jobs[j].pin, io |-> jobs[j].io]
  BY DEF JobsInv, Shaped
<1> HIDE DEF a
<1>3. /\ b = [k \in Jobs |-> b[k]]
      /\ \A k \in Jobs \ {j} : b[k] = jobs[k]
      /\ b[j] = [internal |-> u, state |-> jobs[j].state, handle |-> jobs[j].handle,
                 owner |-> jobs[j].owner, worker |-> jobs[j].worker, gen |-> g,
                 node |-> jobs[j].node, pin |-> jobs[j].pin, io |-> jobs[j].io]
  BY <1>2
<1> HIDE DEF b
<1>4. jobs' = [b EXCEPT ![j].node = v] =>
        JobMoves(j, u, jobs[j].state, jobs[j].handle, jobs[j].owner, jobs[j].worker)
  BY <1>3, JobNode
<1> QED BY <1>1, <1>4, Zenon

\* The jobs may also stay as they are.
LEMMA JobStays ==
    ASSUME JobsInv, NEW j \in Jobs, UNCHANGED jobs
    PROVE  JobMoves(j, jobs[j].internal, jobs[j].state, jobs[j].handle, jobs[j].owner, jobs[j].worker)
BY Zenon DEF JobsInv, Shaped, JobMoves

\* A job that waits, is prepared or runs.
Active(internal, state) == internal = "Preparing" \/ (internal = "Published" /\ state \in {"Queued", "Running"})

\* A worker whose job and whose own record stay as they are keeps its job.
LEMMA RunsKept ==
    ASSUME RunsOwn,
           \A u \in Workers :
              \/ run'[u] = run[u] /\ (run[u].at \in InJob => jobs'[run[u].job] = jobs[run[u].job])
              \/ run'[u].at \in InJob =>
                    /\ run'[u].job \in Jobs
                    /\ jobs'[run'[u].job].handle = run'[u].handle
                    /\ jobs'[run'[u].job].worker = u
                    /\ jobs'[run'[u].job].internal = "Published"
                    /\ jobs'[run'[u].job].state \in {"Running", "Quarantined"}
    PROVE  RunsOwn'
BY DEF RunsOwn

\* What a caller may do to a job of its own, or to a free slot, that no
\* worker is in.
LEMMA CallerJob ==
    ASSUME JobsInv, NEW c \in Callers, NEW j \in Jobs, NEW x, NEW k, NEW n, CallMoves(c, x, k, n),
           NEW i, NEW s, NEW h \in Nat, NEW o, NEW w, JobMoves(j, i, s, h, o, w),
           run' = run, issued' \in Nat, issued <= issued',
           jobs[j].owner = c \/ jobs[j].internal = "Free",
           jobs[j].internal # "Published" \/ jobs[j].state \notin {"Running", "Quarantined"},
           h = jobs[j].handle \/ h = 0 \/ issued < h,
           i = "Free" => h = 0, i # "Free" => h \in 1..issued',
           i = "Preparing" => s = "Queued", i # "Preparing" => s # "Running", NoneFreed,
           x \in Preparing \cup Cleaning \cup Waiting => k = j /\ o = c,
           x \in Preparing => i = "Preparing", x \in Waiting => i = "Published",
           x \in Cleaning => i = "Cleaning" /\ (n = "free" \/ s # "Queued"),
           Active(i, s) => h = admitted_job',
           admitted_job' = admitted_job \/ admitted_job \in {0, jobs[j].handle}
    PROVE  JobsInv'
<1>0. /\ \A l \in Jobs \ {j} : jobs'[l] = jobs[l]
      /\ jobs'[j].internal = i /\ jobs'[j].state = s /\ jobs'[j].handle = h /\ jobs'[j].owner = o
  BY DEF JobMoves
<1>1. Shaped'
  <2>1. /\ jobs' = [l \in Jobs |-> jobs'[l]]
        /\ jobs'[j] = [internal |-> jobs'[j].internal, state |-> jobs'[j].state,
                       handle |-> jobs'[j].handle, owner |-> jobs'[j].owner,
                       worker |-> jobs'[j].worker, gen |-> jobs'[j].gen, node |-> jobs'[j].node,
                       pin |-> jobs'[j].pin, io |-> jobs'[j].io]
        /\ jobs'[j].handle \in Nat
    BY DEF JobMoves
  <2>2. /\ call' = [d \in Callers |-> call'[d]]
        /\ \A d \in Callers : call'[d] = [at |-> call'[d].at, target |-> call'[d].target,
                                          job |-> call'[d].job, then |-> call'[d].then]
    BY DEF JobsInv, Shaped, CallMoves
  <2>3. \A l \in Jobs :
          /\ jobs'[l] = [internal |-> jobs'[l].internal, state |-> jobs'[l].state,
                         handle |-> jobs'[l].handle, owner |-> jobs'[l].owner,
                         worker |-> jobs'[l].worker, gen |-> jobs'[l].gen, node |-> jobs'[l].node,
                         pin |-> jobs'[l].pin, io |-> jobs'[l].io]
          /\ jobs'[l].handle \in Nat
    BY <1>0, <2>1 DEF JobsInv, Shaped
  <2> QED BY <2>1, <2>2, <2>3, Zenon DEF JobsInv, Shaped
<1>2. HandlesApart'
  <2>1. \A l \in Jobs : jobs[l].handle \in 0..issued
    BY DEF JobsInv, Shaped, HandlesApart
  <2>2. \A l \in Jobs : jobs'[l].internal = "Free" => jobs'[l].handle = 0
    BY <1>0, Zenon DEF JobsInv, HandlesApart
  <2>3. \A l \in Jobs : jobs'[l].internal # "Free" => jobs'[l].handle \in 1..issued'
    <3> SUFFICES ASSUME NEW l \in Jobs, jobs'[l].internal # "Free" PROVE jobs'[l].handle \in 1..issued'
      BY Zenon
    <3>1. CASE l = j
      BY <1>0, <3>1, Zenon
    <3>2. CASE l # j
      <4>1. jobs'[l].handle \in 1..issued
        BY <1>0, <3>2, Zenon DEF JobsInv, HandlesApart
      <4> QED BY <4>1 DEF JobsInv, Shaped
    <3> QED BY <3>1, <3>2, Zenon
  <2>4. \A l \in Jobs \ {j} : h = jobs[l].handle => h = 0
    BY <2>1 DEF JobsInv, Shaped, HandlesApart
  <2>5. \A l, m \in Jobs : l # m /\ jobs'[l].handle = jobs'[m].handle => jobs'[l].handle = 0
    BY <1>0, <2>4 DEF JobsInv, HandlesApart
  <2> QED BY <2>2, <2>3, <2>5, Zenon DEF HandlesApart
<1>3. StatesAgree'
  BY <1>0, Zenon DEF JobsInv, StatesAgree
<1>4. CallsOwn'
  <2>1. \A d \in Callers \ {c} : /\ call'[d] = call[d]
                                 /\ call[d].at \in Preparing \cup Cleaning \cup Waiting => call[d].job # j
    BY DEF CallMoves, JobsInv, CallsOwn
  <2>2. call'[c].at = x /\ call'[c].job = k /\ call'[c].then = n
    BY Zenon DEF CallMoves
  <2> QED BY <1>0, <2>1, <2>2 DEF JobsInv, CallsOwn
<1>5. RunsOwn'
  <2>1. \A u \in Workers : run[u].at \in InJob => run[u].job \in Jobs \ {j}
    BY ZenonT(40) DEF JobsInv, RunsOwn
  <2>2. \A u \in Workers : run'[u] = run[u] /\ (run[u].at \in InJob => jobs'[run[u].job] = jobs[run[u].job])
    BY <1>0, <2>1, ZenonT(40)
  <2>3. RunsOwn
    BY ZenonT(40) DEF JobsInv
  <2> QED BY <2>2, <2>3, RunsKept, ZenonT(40)
<1>6. OneInstallation'
  <2>1. \A l \in Jobs \ {j} : Active(jobs[l].internal, jobs[l].state) =>
           jobs[l].handle = admitted_job /\ admitted_job \notin {0, jobs[j].handle}
    BY DEF JobsInv, Shaped, HandlesApart, OneInstallation, Active
  <2> QED BY <1>0, <2>1 DEF OneInstallation, Active
<1>7. WorkersLive'
  BY <1>0, SMTT(30) DEF JobsInv, WorkersLive, NoneFreed
<1> QED BY <1>1, <1>2, <1>3, <1>4, <1>5, <1>6, <1>7, Zenon DEF JobsInv

\* The same, for a job that stays the caller's.
LEMMA OwnJob ==
    ASSUME JobsInv, NEW c \in Callers, NEW j \in Jobs, NEW x, NEW k, NEW n, CallMoves(c, x, k, n),
           NEW i, NEW s, JobMoves(j, i, s, jobs[j].handle, jobs[j].owner, jobs[j].worker),
           UNCHANGED <<run, issued>>, jobs[j].owner = c, jobs[j].internal # "Free", i # "Free",
           jobs[j].internal # "Published" \/ jobs[j].state \notin {"Running", "Quarantined"},
           i = "Preparing" => s = "Queued", i # "Preparing" => s # "Running", NoneFreed,
           x \in Preparing \cup Cleaning \cup Waiting => k = j,
           x \in Preparing => i = "Preparing", x \in Waiting => i = "Published",
           x \in Cleaning => i = "Cleaning" /\ (n = "free" \/ s # "Queued"),
           Active(i, s) => Active(jobs[j].internal, jobs[j].state) /\ admitted_job' = admitted_job,
           admitted_job' = admitted_job \/ admitted_job = jobs[j].handle
    PROVE  JobsInv'
<1> DEFINE h == jobs[j].handle
           w == jobs[j].worker
<1>1. h \in Nat /\ issued' \in Nat /\ issued <= issued' /\ h \in 1..issued' /\ h = jobs[j].handle
  BY DEF JobsInv, Shaped, HandlesApart
<1>2. Active(i, s) => h = admitted_job'
  BY Zenon DEF JobsInv, OneInstallation, Active
<1>3. JobMoves(j, i, s, h, c, w) /\ run' = run
  BY Zenon
<1>4. admitted_job' = admitted_job \/ admitted_job \in {0, jobs[j].handle}
  BY Zenon
<1>5. i = "Free" => h = 0
  BY Zenon
<1> HIDE DEF h, w
<1> QED BY <1>1, <1>2, <1>3, <1>4, <1>5, CallerJob, SMTT(30), ZenonT(30)

\* jobs_queue up to the answer.
LEMMA QueueSteps ==
    ASSUME JobsInv, NEW c \in Callers, Pin(c) \/ QueueDone(c)
    PROVE  JobsInv'
<1> DEFINE j == call[c].job
<1>0. /\ j \in Jobs /\ jobs[j].owner = c /\ jobs[j].internal = "Preparing" /\ jobs[j].state = "Queued"
      /\ UNCHANGED <<run, issued, admitted_job>> /\ NoneFreed
  BY StatusStays, ZenonT(40)
     DEF Pin, QueueDone, accessVars, At, JobsInv, CallsOwn, StatesAgree, Preparing
<1>a. Active("Preparing", "Queued") /\ Active("Published", "Queued") /\ ~Active("Cleaning", "Queued")
  BY Zenon DEF Active
<1>1. CASE Pin(c)
  <2>1. JobMoves(j, "Preparing", "Queued", jobs[j].handle, jobs[j].owner, jobs[j].worker)
    BY <1>0, <1>1, JobStays, JobTouched, Zenon DEF Pin
  <2>2. \E x \in Preparing : CallMoves(c, x, j, call[c].then)
    BY <1>1, GoMoves, Zenon DEF Pin, Preparing
  <2> QED BY <1>0, <1>a, <2>1, <2>2, OwnJob DEF Preparing, Cleaning, Waiting
<1>2. CASE QueueDone(c)
  <2>1. CASE /\ Go(c, "respond")
             /\ jobs' = [jobs EXCEPT ![j].internal = "Published", ![j].gen = targets[call[c].target].gen,
                                     ![j].node = TRUE]
    <3>1. JobMoves(j, "Published", "Queued", jobs[j].handle, jobs[j].owner, jobs[j].worker)
      BY <1>0, <2>1, JobGiven, ZenonT(40)
    <3>2. CallMoves(c, "respond", j, call[c].then)
      BY <2>1, GoMoves, Zenon
    <3> QED BY <1>0, <1>a, <3>1, <3>2, OwnJob DEF Preparing, Cleaning, Waiting
  <2>2. CASE /\ jobs' = [jobs EXCEPT ![j].internal = "Cleaning"]
             /\ call' = [call EXCEPT ![c].at = "unpin", ![c].then = "free"]
    <3>1. JobMoves(j, "Cleaning", "Queued", jobs[j].handle, jobs[j].owner, jobs[j].worker)
      BY <1>0, <2>2, JobOne, ZenonT(40)
    <3>2. CallMoves(c, "unpin", j, "free")
      BY <2>2, TwoMoves, ZenonT(40)
    <3> QED BY <1>0, <1>a, <3>1, <3>2, OwnJob DEF Preparing, Cleaning, Waiting
  <2> QED BY <1>2, <2>1, <2>2, Zenon DEF QueueDone
<1> QED BY <1>1, <1>2, Zenon

\* clean_job.
LEMMA CleanSteps ==
    ASSUME JobsInv, NEW c \in Callers, Unpin(c) \/ Unref(c) \/ Cleaned(c)
    PROVE  JobsInv'
<1> DEFINE j == call[c].job
           s == jobs[j].state
           n == call[c].then
<1>0. /\ j \in Jobs /\ jobs[j].owner = c /\ jobs[j].internal = "Cleaning" /\ s # "Running"
      /\ n = "free" \/ s # "Queued"
      /\ UNCHANGED <<run, issued>> /\ NoneFreed
  BY StatusStays, ZenonT(40)
     DEF accessVars, Unpin, Unref, Cleaned, CleanFails, At, JobsInv, CallsOwn, StatesAgree,
         Cleaning
<1>a. ~Active("Cleaning", s) /\ ~Active("Published", "Quarantined")
  BY Zenon DEF Active
<1>1. CASE CleanFails(c)
  <2>1. JobMoves(j, "Published", "Quarantined", jobs[j].handle, jobs[j].owner, jobs[j].worker)
    BY <1>0, <1>1, JobTwo, ZenonT(40) DEF CleanFails
  <2>2. CallMoves(c, "none", {}, "none")
    BY <1>1, SetMoves, ZenonT(40) DEF CleanFails, Back, NoCall
  <2>3. admitted_job' = admitted_job
    BY <1>1, Zenon DEF CleanFails
  <2> QED BY <1>0, <1>a, <2>1, <2>2, <2>3, OwnJob, SMTT(30), ZenonT(30)
             DEF Preparing, Cleaning, Waiting
<1>2. CASE /\ UNCHANGED admitted_job
           /\ \/ Go(c, "unref") /\ jobs' = [jobs EXCEPT ![j].pin = FALSE]
              \/ Go(c, "cleaned") /\ jobs' = [jobs EXCEPT ![j].node = FALSE]
  <2>1. JobMoves(j, "Cleaning", s, jobs[j].handle, jobs[j].owner, jobs[j].worker)
    BY <1>0, <1>2, JobTouched, Zenon
  <2>2. \E x \in Cleaning : CallMoves(c, x, j, n)
    BY <1>2, GoMoves, Zenon DEF Cleaning
  <2> QED BY <1>0, <1>2, <1>a, <2>1, <2>2, OwnJob DEF Preparing, Cleaning, Waiting
<1>3. CASE Cleaned(c) /\ n # "free"
  <2>1. JobMoves(j, "Published", s, jobs[j].handle, jobs[j].owner, jobs[j].worker)
    BY <1>0, <1>3, JobOne, Zenon DEF Cleaned
  <2>2. CallMoves(c, "release", j, n) \/ CallMoves(c, "none", {}, "none")
    BY <1>3, GoMoves, SetMoves, ZenonT(40) DEF Cleaned, Back, NoCall
  <2>3. admitted_job' = admitted_job \/ admitted_job = jobs[j].handle
    BY <1>3, Zenon DEF Cleaned, AdmissionWithout
  <2>4. ~Active("Published", s)
    BY <1>0, <1>3, Zenon DEF Active
  <2> QED BY <1>0, <2>1, <2>2, <2>3, <2>4, OwnJob, SMTT(30), ZenonT(30)
             DEF Preparing, Cleaning, Waiting
<1>4. CASE Cleaned(c) /\ n = "free"
  <2>1. JobMoves(j, "Free", "none", 0, NoTask, NoTask)
    BY <1>0, <1>4 DEF Cleaned, FreeJob, JobMoves, JobsInv, Shaped
  <2>2. CallMoves(c, "none", {}, "none")
    BY <1>4, SetMoves, Zenon DEF Cleaned, Back, NoCall
  <2>3. admitted_job' = admitted_job \/ admitted_job = jobs[j].handle
    BY <1>4, Zenon DEF Cleaned, AdmissionWithout
  <2>4. ~Active("Free", "none") /\ issued' \in Nat /\ issued <= issued'
    BY <1>0 DEF Active, JobsInv, Shaped
  <2> QED BY <1>0, <2>1, <2>2, <2>3, <2>4, CallerJob, SMTT(30), ZenonT(30)
             DEF Preparing, Cleaning, Waiting
<1> QED BY <1>1, <1>2, <1>3, <1>4, Zenon DEF Unpin, Unref, Cleaned

\* The slot of a new job.
LEMMA NewJob ==
    ASSUME NEW c, NEW n, NEW r, NEW f,
           r = [internal |-> "Free", state |-> "none", handle |-> 0, owner |-> NoTask,
                worker |-> NoTask, gen |-> 0, node |-> f, pin |-> f, io |-> f]
    PROVE  [r EXCEPT !.internal = "Preparing", !.state = "Queued", !.handle = n, !.owner = c]
           = [internal |-> "Preparing", state |-> "Queued", handle |-> n, owner |-> c,
              worker |-> NoTask, gen |-> 0, node |-> f, pin |-> f, io |-> f]
<1> DEFINE a == [r EXCEPT !.internal = "Preparing"]
           b == [a EXCEPT !.state = "Queued"]
           d == [b EXCEPT !.handle = n]
<1>1. [r EXCEPT !.internal = "Preparing", !.state = "Queued", !.handle = n, !.owner = c]
      = [d EXCEPT !.owner = c]
  BY Zenon
<1>2. a = [internal |-> "Preparing", state |-> "none", handle |-> 0, owner |-> NoTask,
           worker |-> NoTask, gen |-> 0, node |-> f, pin |-> f, io |-> f]
  OBVIOUS
<1> HIDE DEF a
<1>3. b = [internal |-> "Preparing", state |-> "Queued", handle |-> 0, owner |-> NoTask,
           worker |-> NoTask, gen |-> 0, node |-> f, pin |-> f, io |-> f]
  BY <1>2
<1> HIDE DEF b
<1>4. d = [internal |-> "Preparing", state |-> "Queued", handle |-> n, owner |-> NoTask,
           worker |-> NoTask, gen |-> 0, node |-> f, pin |-> f, io |-> f]
  BY <1>3
<1> HIDE DEF d
<1> QED BY <1>1, <1>4

\* jobs_queue reserves a slot and admits the job.
LEMMA QueueStep ==
    ASSUME JobsInv, NEW c \in Callers, NEW t \in Targets, NEW j \in Jobs, Queue(c, t, j)
    PROVE  JobsInv'
<1> DEFINE e == [internal |-> "Preparing", state |-> "Queued", handle |-> issued + 1, owner |-> c,
                 worker |-> NoTask, gen |-> 0, node |-> FALSE, pin |-> FALSE, io |-> FALSE]
<1>1. jobs' = [jobs EXCEPT ![j] = e]
  <2>1. [FreeJob EXCEPT !.internal = "Preparing", !.state = "Queued", !.handle = issued + 1, !.owner = c]
        = e
    BY NewJob, ZenonT(40) DEF FreeJob
  <2> HIDE DEF e
  <2> QED BY <2>1, ZenonT(40) DEF Queue
<1>6. JobMoves(j, "Preparing", "Queued", issued + 1, c, NoTask)
  BY <1>1, ZenonT(40) DEF JobMoves, JobsInv, Shaped
<1>7. CallMoves(c, "pin", j, "none")
  BY SetMoves, ZenonT(40) DEF Queue
<1>8. /\ run' = run /\ issued' = issued + 1 /\ issued \in Nat /\ jobs[j].internal = "Free"
      /\ admitted_job = 0 /\ admitted_job' = issued + 1 /\ NoneFreed
  BY StatusStays, Zenon DEF accessVars, Queue, JobsInv, Shaped
<1> QED BY <1>6, <1>7, <1>8, CallerJob, SMTT(30), ZenonT(30) DEF Preparing, Cleaning, Waiting

\* The caller answers, cancels its job or releases it.
LEMMA AnswerSteps ==
    ASSUME JobsInv, NEW c \in Callers, Cancel(c) \/ \E k \in Jobs : AskCancel(c, k) \/ ReleaseJob(c, k)
    PROVE  JobsInv'
<1>0. UNCHANGED <<run, issued, admitted_job>> /\ NoneFreed
  BY StatusStays, ZenonT(40) DEF AskCancel, Cancel, ReleaseJob, jobVars, accessVars
<1>1. ASSUME NEW k \in Jobs, AskCancel(c, k) PROVE JobsInv'
  <2>1. JobMoves(k, "Published", "Queued", jobs[k].handle, jobs[k].owner, jobs[k].worker)
    BY <1>1, JobStays, ZenonT(40) DEF AskCancel, jobVars
  <2>2. CallMoves(c, "cancel", k, "none")
    <3>1. call' = [call EXCEPT ![c] = [at |-> "cancel", target |-> {}, job |-> k, then |-> "none"]]
      <4>1. [NoCall EXCEPT !.at = "cancel", !.job = k]
            = [at |-> "cancel", target |-> {}, job |-> k, then |-> "none"]
        BY NewCallJob, ZenonT(40)
      <4> QED BY <1>1, <4>1, ZenonT(40) DEF AskCancel
    <3> QED BY <3>1, SetMoves, ZenonT(40)
  <2>3. jobs[k].owner = c /\ jobs[k].internal = "Published" /\ jobs[k].state = "Queued"
    BY <1>1, ZenonT(40) DEF AskCancel
  <2> QED BY <1>0, <2>1, <2>2, <2>3, OwnJob, SMTT(30), ZenonT(30) DEF Preparing, Cleaning, Waiting
<1>2. CASE Cancel(c)
  <2> DEFINE j == call[c].job
  <2>0. j \in Jobs /\ jobs[j].owner = c /\ jobs[j].internal = "Published"
    BY <1>2, Zenon DEF Cancel, At, JobsInv, CallsOwn, Waiting
  <2>1. CASE /\ jobs[j].state = "Queued" /\ Go(c, "unpin")
             /\ jobs' = [jobs EXCEPT ![j].state = "Cancelled", ![j].internal = "Cleaning"]
    <3>1. JobMoves(j, "Cleaning", "Cancelled", jobs[j].handle, jobs[j].owner, jobs[j].worker)
      BY <2>0, <2>1, JobTwo, ZenonT(40)
    <3>2. CallMoves(c, "unpin", j, call[c].then)
      BY <2>1, GoMoves, Zenon
    <3>3. ~Active("Cleaning", "Cancelled")
      BY Zenon DEF Active
    <3> QED BY <1>0, <2>0, <2>1, <3>1, <3>2, <3>3, OwnJob DEF Preparing, Cleaning, Waiting
  <2>2. CASE UNCHANGED jobs /\ Back(c)
    <3>1. CallMoves(c, "none", {}, "none")
      BY <2>2, SetMoves, ZenonT(40) DEF Back, NoCall
    <3> QED BY <1>0, <2>2, <3>1, CallElsewhere, Zenon DEF Preparing, Cleaning, Waiting
  <2> QED BY <1>2, <2>1, <2>2, Zenon DEF Cancel, Job
<1>3. ASSUME NEW k \in Jobs, ReleaseJob(c, k) PROVE JobsInv'
  <2>0. /\ jobs[k].owner = c /\ jobs[k].internal = "Published" /\ jobs[k].state \in Finished
        /\ jobs' = [jobs EXCEPT ![k].internal = "Cleaning"]
    BY <1>3, ZenonT(40) DEF ReleaseJob
  <2>1. JobMoves(k, "Cleaning", jobs[k].state, jobs[k].handle, jobs[k].owner, jobs[k].worker)
    BY <2>0, JobOne, ZenonT(40)
  <2>2. CallMoves(c, "unpin", k, "free")
    <3>1. call' = [call EXCEPT ![c] = [at |-> "unpin", target |-> {}, job |-> k, then |-> "free"]]
      <4>1. [NoCall EXCEPT !.at = "unpin", !.job = k, !.then = "free"]
            = [at |-> "unpin", target |-> {}, job |-> k, then |-> "free"]
        BY NewCallThen, ZenonT(40)
      <4> QED BY <1>3, <4>1, ZenonT(40) DEF ReleaseJob
    <3> QED BY <3>1, SetMoves, ZenonT(40)
  <2>3. ~Active("Cleaning", jobs[k].state) /\ jobs[k].state \notin {"Running", "Quarantined"}
    BY <2>0, Zenon DEF Active, Finished
  <2> QED BY <1>0, <2>0, <2>1, <2>2, <2>3, OwnJob DEF Preparing, Cleaning, Waiting
<1> QED BY <1>1, <1>2, <1>3, Zenon

\* Of the workers only w moves.
RunMoves(w, at, job, handle) ==
    /\ run' = [v \in Workers |-> run'[v]]
    /\ \A v \in Workers \ {w} : run'[v] = run[v]
    /\ run'[w] = [at |-> at, job |-> job, handle |-> handle, step |-> run'[w].step]

\* A worker moves, in its job or outside.
LEMMA RunGoMoves ==
    ASSUME JobsInv, NEW w \in Workers, NEW x, NEW n
    PROVE  /\ RunGo(w, x) => RunMoves(w, x, run[w].job, run[w].handle)
           /\ run' = [run EXCEPT ![w].at = x, ![w].step = n] => RunMoves(w, x, run[w].job, run[w].handle)
           /\ run' = [run EXCEPT ![w].step = n, ![w].at = x] => RunMoves(w, x, run[w].job, run[w].handle)
           /\ run' = [run EXCEPT ![w].at = x, ![w].job = n] => RunMoves(w, x, n, run[w].handle)
           /\ run' = [run EXCEPT ![w] = [NoRun EXCEPT !.at = x, !.handle = n]] => RunMoves(w, x, {}, n)
<1> DEFINE a == [run EXCEPT ![w].at = x]
           b == [run EXCEPT ![w].step = n]
           f == [NoRun EXCEPT !.at = x]
<1>1. /\ [run EXCEPT ![w].at = x, ![w].step = n] = [a EXCEPT ![w].step = n]
      /\ [run EXCEPT ![w].step = n, ![w].at = x] = [b EXCEPT ![w].at = x]
      /\ [run EXCEPT ![w].at = x, ![w].job = n] = [a EXCEPT ![w].job = n]
      /\ [NoRun EXCEPT !.at = x, !.handle = n] = [f EXCEPT !.handle = n]
  BY Zenon
<1>2. /\ a = [v \in Workers |-> a[v]]
      /\ \A v \in Workers \ {w} : a[v] = run[v]
      /\ a[w] = [at |-> x, job |-> run[w].job, handle |-> run[w].handle, step |-> a[w].step]
  BY DEF JobsInv, Shaped
<1>3. /\ b = [v \in Workers |-> b[v]]
      /\ \A v \in Workers \ {w} : b[v] = run[v]
      /\ b[w] = [at |-> run[w].at, job |-> run[w].job, handle |-> run[w].handle, step |-> n]
  BY DEF JobsInv, Shaped
<1>4. f = [at |-> x, job |-> {}, handle |-> 0, step |-> 0]
  BY DEF NoRun
<1>5. RunGo(w, x) => RunMoves(w, x, run[w].job, run[w].handle)
  BY <1>2, Zenon DEF RunGo, RunMoves
<1> HIDE DEF a, b, f
<1>6. run' = [a EXCEPT ![w].step = n] => RunMoves(w, x, run[w].job, run[w].handle)
  BY <1>2 DEF RunMoves
<1>7. run' = [b EXCEPT ![w].at = x] => RunMoves(w, x, run[w].job, run[w].handle)
  BY <1>3 DEF RunMoves
<1>8. run' = [a EXCEPT ![w].job = n] => RunMoves(w, x, n, run[w].handle)
  BY <1>2 DEF RunMoves
<1>9. [f EXCEPT !.handle = n] = [at |-> x, job |-> {}, handle |-> n, step |-> 0]
  BY <1>4
<1>10. run' = [run EXCEPT ![w] = [f EXCEPT !.handle = n]] => RunMoves(w, x, {}, n)
  BY <1>9, ZenonT(40) DEF RunMoves, JobsInv, Shaped
<1> QED BY <1>1, <1>5, <1>6, <1>7, <1>8, <1>10, Zenon

\* A worker that leaves, or stops, is nowhere any more.
LEMMA ExitMoves ==
    ASSUME JobsInv, NEW w \in Workers,
           Exit(w) \/ run' = [v \in Workers |-> IF v = w THEN GoneRun ELSE run[v]]
    PROVE  RunMoves(w, "exit", {}, 0)
<1>1. GoneRun = [at |-> "exit", job |-> {}, handle |-> 0, step |-> 0]
  BY DEF GoneRun, NoRun
<1>2. run' = [v \in Workers |-> IF v = w THEN GoneRun ELSE run[v]]
  BY Zenon DEF Exit, JobsInv, Shaped
<1> QED BY <1>1, <1>2, Zenon DEF RunMoves

\* The callers do not notice what happens to a job, as long as it is theirs and
\* in the hands it was in.
LEMMA CallsKept ==
    ASSUME CallsOwn, call' = call,
           \A l \in Jobs : /\ jobs'[l].owner = jobs[l].owner /\ jobs'[l].internal = jobs[l].internal
                           /\ jobs[l].internal = "Cleaning" => jobs'[l].state = jobs[l].state
    PROVE  CallsOwn'
BY DEF CallsOwn

\* What a worker may do to a job that no other worker is in.
LEMMA WorkerJob ==
    ASSUME JobsInv, NEW w \in Workers, NEW j \in Jobs, NEW y, NEW k, NEW h, RunMoves(w, y, k, h),
           NEW s, NEW v, JobMoves(j, jobs[j].internal, s, jobs[j].handle, jobs[j].owner, v),
           jobs[j].internal = "Published", UNCHANGED <<call, issued>>, NoneFreed,
           s = "Running" => v \in Tasks /\ status[v] # "freed",
           \A u \in Workers \ {w} : run[u].at \in InJob => run[u].job # j,
           y \in InJob => k = j /\ h = jobs[j].handle /\ v = w /\ s \in {"Running", "Quarantined"},
           Active("Published", s) => Active("Published", jobs[j].state) /\ admitted_job' = admitted_job,
           admitted_job' = admitted_job \/ admitted_job = jobs[j].handle
    PROVE  JobsInv'
<1>0. /\ \A l \in Jobs \ {j} : jobs'[l] = jobs[l]
      /\ jobs'[j].internal = "Published" /\ jobs'[j].state = s /\ jobs'[j].handle = jobs[j].handle
      /\ jobs'[j].owner = jobs[j].owner /\ jobs'[j].worker = v
  BY DEF JobMoves
<1>1. Shaped'
  <2>1. /\ jobs' = [l \in Jobs |-> jobs'[l]]
        /\ jobs'[j] = [internal |-> jobs'[j].internal, state |-> jobs'[j].state,
                       handle |-> jobs'[j].handle, owner |-> jobs'[j].owner,
                       worker |-> jobs'[j].worker, gen |-> jobs'[j].gen, node |-> jobs'[j].node,
                       pin |-> jobs'[j].pin, io |-> jobs'[j].io]
    BY Zenon DEF JobMoves
  <2>2. /\ run' = [u \in Workers |-> run'[u]]
        /\ \A u \in Workers : run'[u] = [at |-> run'[u].at, job |-> run'[u].job,
                                         handle |-> run'[u].handle, step |-> run'[u].step]
    BY Zenon DEF JobsInv, Shaped, RunMoves
  <2>3. \A l \in Jobs :
          /\ jobs'[l] = [internal |-> jobs'[l].internal, state |-> jobs'[l].state,
                         handle |-> jobs'[l].handle, owner |-> jobs'[l].owner,
                         worker |-> jobs'[l].worker, gen |-> jobs'[l].gen, node |-> jobs'[l].node,
                         pin |-> jobs'[l].pin, io |-> jobs'[l].io]
          /\ jobs'[l].handle \in Nat
    BY <1>0, <2>1 DEF JobsInv, Shaped
  <2> QED BY <2>1, <2>2, <2>3, Zenon DEF JobsInv, Shaped
<1>2. HandlesApart' /\ StatesAgree'
  <2>1. \A l \in Jobs : jobs'[l].handle = jobs[l].handle /\ jobs'[l].internal = jobs[l].internal
    BY <1>0, ZenonT(40)
  <2>2. HandlesApart'
    BY <2>1, ZenonT(40) DEF JobsInv, HandlesApart
  <2>3. StatesAgree'
    BY <1>0, ZenonT(40) DEF JobsInv, StatesAgree
  <2> QED BY <2>2, <2>3, ZenonT(40)
<1>3. CallsOwn'
  <2>1. \A l \in Jobs : /\ jobs'[l].owner = jobs[l].owner /\ jobs'[l].internal = jobs[l].internal
                        /\ jobs[l].internal = "Cleaning" => jobs'[l].state = jobs[l].state
    BY <1>0, ZenonT(40)
  <2>2. CallsOwn /\ call' = call
    BY ZenonT(40) DEF JobsInv
  <2> QED BY <2>1, <2>2, CallsKept, ZenonT(40)
<1>4. RunsOwn'
  <2>1. run'[w].at = y /\ run'[w].job = k /\ run'[w].handle = h /\ \A u \in Workers \ {w} : run'[u] = run[u]
    BY DEF RunMoves
  <2>2. \A u \in Workers \ {w} : run[u].at \in InJob => run[u].job \in Jobs \ {j}
    BY ZenonT(40) DEF JobsInv, RunsOwn
  <2>3. \A u \in Workers \ {w} :
           run'[u] = run[u] /\ (run[u].at \in InJob => jobs'[run[u].job] = jobs[run[u].job])
    BY <1>0, <2>1, <2>2, ZenonT(40)
  <2>4. run'[w].at \in InJob =>
           /\ run'[w].job \in Jobs
           /\ jobs'[run'[w].job].handle = run'[w].handle
           /\ jobs'[run'[w].job].worker = w
           /\ jobs'[run'[w].job].internal = "Published"
           /\ jobs'[run'[w].job].state \in {"Running", "Quarantined"}
    BY <1>0, <2>1, ZenonT(40)
  <2>5. RunsOwn
    BY ZenonT(40) DEF JobsInv
  <2> QED BY <2>3, <2>4, <2>5, RunsKept, ZenonT(40)
<1>5. OneInstallation'
  <2>1. \A l \in Jobs \ {j} : Active(jobs[l].internal, jobs[l].state) =>
           jobs[l].handle = admitted_job /\ admitted_job # jobs[j].handle
    BY SMTT(30), ZenonT(30) DEF JobsInv, Shaped, HandlesApart, OneInstallation, Active
  <2>2. Active("Published", jobs[j].state) => jobs[j].handle = admitted_job
    BY Zenon DEF JobsInv, OneInstallation, Active
  <2> QED BY <1>0, <2>1, <2>2 DEF OneInstallation, Active
<1>6. WorkersLive'
  BY <1>0, SMTT(30) DEF JobsInv, WorkersLive, NoneFreed
<1> QED BY <1>1, <1>2, <1>3, <1>4, <1>5, <1>6, Zenon DEF JobsInv

\* A worker leaves, or one is made.
LEMMA RunLeaves ==
    ASSUME JobsInv, NEW w \in Workers, NEW y, NEW k, NEW h, RunMoves(w, y, k, h), y \notin InJob,
           UNCHANGED <<jobs, admitted_job, issued, call>>, NoneFreed
    PROVE  JobsInv'
<1>1. Shaped'
  BY Zenon DEF JobsInv, Shaped, RunMoves
<1>2. RunsOwn'
  BY DEF JobsInv, RunsOwn, RunMoves
<1>3. WorkersLive'
  BY Zenon DEF JobsInv, WorkersLive, NoneFreed
<1> QED BY <1>1, <1>2, <1>3 DEF JobsInv, HandlesApart, StatesAgree, CallsOwn, OneInstallation

\* jobs_run and the factory.
LEMMA WorkerSteps ==
    ASSUME JobsInv, NEW w \in Workers, WorkerStep(w)
    PROVE  JobsInv'
<1>0. UNCHANGED <<call, issued>> /\ NoneFreed /\ w \in Tasks /\ status[w] # "freed"
  BY StatusStays, InstallerAssumption, ZenonT(40)
     DEF OnCpu, RunAt, accessVars, WorkerStep, RunBegin, FactoryClaim, FactoryPublish,
         FactoryBegin, FactoryEnd,
         FactoryRelease, RunEnd, jobVars
<1>1. CASE RunBegin(w)
  <2>1. CASE UNCHANGED jobs /\ Exit(w)
    <3>1. RunMoves(w, "exit", {}, 0)
      BY <2>1, ExitMoves, Zenon
    <3>2. UNCHANGED admitted_job
      BY <1>1, Zenon DEF RunBegin
    <3> QED BY <1>0, <2>1, <3>1, <3>2, RunLeaves, Zenon DEF InJob
  <2>2. CASE \E j \in Jobs : /\ jobs[j].handle = run[w].handle /\ jobs[j].internal = "Published"
                            /\ jobs[j].state = "Queued"
    <3> DEFINE j == CHOOSE k \in Jobs : jobs[k].handle = run[w].handle
    <3>1. /\ j \in Jobs /\ jobs[j].handle = run[w].handle
          /\ jobs[j].internal = "Published" /\ jobs[j].state = "Queued"
      <4>1. PICK l \in Jobs : /\ jobs[l].handle = run[w].handle /\ jobs[l].internal = "Published"
                              /\ jobs[l].state = "Queued"
        BY <2>2, Zenon
      <4>2. j \in Jobs /\ jobs[j].handle = run[w].handle
        BY <4>1, Zenon
      <4>3. jobs[l].handle # 0
        BY <4>1 DEF JobsInv, Shaped, HandlesApart
      <4>4. j = l
        BY <4>1, <4>2, <4>3, Zenon DEF JobsInv, HandlesApart
      <4> QED BY <4>1, <4>4, ZenonT(40)
    <3>2. CASE /\ jobs' = [jobs EXCEPT ![j].worker = w, ![j].state = "Running"]
               /\ run' = [run EXCEPT ![w].at = "claim", ![w].job = j]
      <4> HIDE DEF j
      <4>1. JobMoves(j, jobs[j].internal, "Running", jobs[j].handle, jobs[j].owner, w)
        BY <3>1, <3>2, JobTwo, ZenonT(40)
      <4>2. RunMoves(w, "claim", j, run[w].handle)
        BY <3>2, RunGoMoves, ZenonT(40)
      <4>3. \A u \in Workers : run[u].at \in InJob => run[u].job # j
        BY <3>1, Zenon DEF JobsInv, RunsOwn
      <4>4. UNCHANGED admitted_job
        BY <1>1, Zenon DEF RunBegin
      <4>5. Active("Published", "Queued")
        BY Zenon DEF Active
      <4> QED BY <1>0, <3>1, <4>1, <4>2, <4>3, <4>4, <4>5, WorkerJob, SMTT(30), ZenonT(30)
    <3>3. CASE UNCHANGED jobs /\ Exit(w)
      BY <2>1, <3>3, Zenon
    <3> HIDE DEF j
    <3> QED BY <1>1, <3>2, <3>3, Zenon DEF RunBegin, j
  <2> QED BY <1>1, <2>1, <2>2, Zenon DEF RunBegin
<1>2. ASSUME run[w].at \in InJob
      PROVE  /\ run[w].job \in Jobs /\ jobs[run[w].job].internal = "Published"
             /\ jobs[run[w].job].handle = run[w].handle /\ jobs[run[w].job].worker = w
             /\ jobs[run[w].job].state \in {"Running", "Quarantined"}
             /\ \A u \in Workers \ {w} : run[u].at \in InJob => run[u].job # run[w].job
  BY <1>2 DEF JobsInv, RunsOwn
<1>3. CASE /\ FactoryClaim(w) \/ FactoryPublish(w) \/ FactoryBegin(w) \/ FactoryEnd(w) \/ FactoryRelease(w)
  <2> DEFINE j == run[w].job
  <2>1. run[w].at \in InJob /\ UNCHANGED admitted_job
    BY <1>3, ZenonT(40)
       DEF FactoryClaim, FactoryPublish, FactoryBegin, FactoryEnd, FactoryRelease, RunAt, InJob,
           jobVars
  <2>2. \E y \in InJob : RunMoves(w, y, j, run[w].handle)
    <3>1. CASE \E y \in InJob : RunGo(w, y)
      BY <3>1, RunGoMoves, ZenonT(40)
    <3>2. CASE \E y \in InJob, n \in {1, run[w].step + 1} :
                  \/ run' = [run EXCEPT ![w].at = y, ![w].step = n]
                  \/ run' = [run EXCEPT ![w].step = n, ![w].at = y]
      BY <3>2, RunGoMoves, ZenonT(40)
    <3> QED BY <1>3, <3>1, <3>2, ZenonT(40)
            DEF FactoryClaim, FactoryPublish, FactoryBegin, FactoryEnd, FactoryRelease, InJob
  <2>3. JobMoves(j, jobs[j].internal, jobs[j].state, jobs[j].handle, jobs[j].owner, jobs[j].worker)
    <3>1. UNCHANGED jobs \/ jobs' = [jobs EXCEPT ![j].io = TRUE]
      BY <1>3, ZenonT(40)
         DEF FactoryClaim, FactoryPublish, FactoryBegin, FactoryEnd, FactoryRelease, jobVars
    <3> QED BY <1>2, <2>1, <3>1, JobStays, JobTouched, Zenon
  <2>4. /\ j \in Jobs /\ jobs[j].internal = "Published"
        /\ jobs[j].handle = run[w].handle /\ jobs[j].worker = w
        /\ jobs[j].state \in {"Running", "Quarantined"}
        /\ \A u \in Workers \ {w} : run[u].at \in InJob => run[u].job # j
    BY <1>2, <2>1, Zenon
  <2> HIDE DEF j
  <2> QED BY <1>0, <2>1, <2>2, <2>3, <2>4, WorkerJob, SMTT(30), ZenonT(30)
<1>4. CASE RunEnd(w)
  <2> DEFINE j == run[w].job
  <2>1. run[w].at \in InJob
    BY <1>4, Zenon DEF RunEnd, InJob
  <2>2. RunMoves(w, "exit", {}, 0)
    BY <1>4, ExitMoves, Zenon DEF RunEnd
  <2>3. CASE jobs[j].state = "Quarantined"
    BY <1>0, <1>4, <2>2, <2>3, RunLeaves, Zenon DEF RunEnd, InJob
  <2>4. CASE jobs[j].state # "Quarantined"
    <3> DEFINE s == Outcome(run[w].at)
    <3>1. JobMoves(j, jobs[j].internal, s, jobs[j].handle, jobs[j].owner, jobs[j].worker)
      BY <1>2, <1>4, <2>1, <2>4, JobOne, Zenon DEF RunEnd
    <3>2. ~Active("Published", s) /\ s # "Running"
      BY Zenon DEF Active, Outcome
    <3>3. admitted_job' = admitted_job \/ admitted_job = jobs[j].handle
      BY <1>2, <1>4, <2>1, <2>4, Zenon DEF RunEnd, AdmissionWithout
    <3>4. /\ j \in Jobs /\ jobs[j].internal = "Published"
          /\ \A u \in Workers \ {w} : run[u].at \in InJob => run[u].job # j
          /\ "exit" \notin InJob
      BY <1>2, <2>1, Zenon DEF InJob
    <3> HIDE DEF j, s
    <3> QED BY <1>0, <2>2, <3>1, <3>2, <3>3, <3>4, WorkerJob, ZenonT(90)
  <2> QED BY <2>3, <2>4, Zenon
<1> QED BY <1>1, <1>3, <1>4, Zenon DEF WorkerStep

\* The answer: a worker is made for the job, or the job is to be cancelled.
LEMMA DispatchStep ==
    ASSUME JobsInv, NEW c \in Callers, Dispatch(c)
    PROVE  JobsInv'
<1>0. UNCHANGED <<jobs, admitted_job, issued>>
  BY Zenon DEF Dispatch, jobVars
<1>a. NoneFreed
  BY InstallerAssumption, Zenon DEF Dispatch, JobsInv, WorkersLive, NoneFreed
<1>b. WorkersLive'
  BY <1>0, <1>a, Zenon DEF JobsInv, WorkersLive, NoneFreed
<1>1. ASSUME NEW w \in Workers, Back(c),
             run' = [run EXCEPT ![w] = [NoRun EXCEPT !.at = "start", !.handle = Job(c).handle]]
      PROVE  JobsInv'
  <2>1. CallMoves(c, "none", {}, "none")
    BY <1>1, SetMoves, ZenonT(40) DEF Back, NoCall
  <2>2. RunMoves(w, "start", {}, Job(c).handle)
    BY <1>1, RunGoMoves, ZenonT(40)
  <2>3. Shaped'
    BY <1>0, <2>1, <2>2, ZenonT(40) DEF JobsInv, Shaped, CallMoves, RunMoves
  <2>4. CallsOwn'
    BY <1>0, <2>1 DEF JobsInv, CallsOwn, CallMoves, Preparing, Cleaning, Waiting
  <2>5. RunsOwn'
    BY <1>0, <2>2 DEF JobsInv, RunsOwn, RunMoves, InJob
  <2> QED BY <1>0, <1>b, <2>3, <2>4, <2>5, Zenon
             DEF JobsInv, HandlesApart, StatesAgree, OneInstallation
<1>2. CASE call' = [call EXCEPT ![c].at = "cancel", ![c].then = "release"] /\ UNCHANGED run
  <2>1. CallMoves(c, "cancel", call[c].job, "release")
    BY <1>2, TwoMoves, ZenonT(40)
  <2>2. Shaped'
    BY <1>0, <1>2, <2>1 DEF JobsInv, Shaped, CallMoves
  <2>3. CallsOwn'
    BY <1>0, <2>1 DEF JobsInv, CallsOwn, CallMoves, Dispatch, At, Preparing, Cleaning, Waiting
  <2> QED BY <1>0, <1>b, <1>2, <2>2, <2>3
             DEF JobsInv, HandlesApart, StatesAgree, RunsOwn, OneInstallation
<1> QED BY <1>1, <1>2, Zenon DEF Dispatch

\* The jobs of workers that stopped are put in quarantine.
LEMMA WithdrawnStep ==
    ASSUME JobsInv, NEW S, Withdrawn(S), UNCHANGED <<admitted_job, issued, call, run>>,
           status' = [s \in Tasks |-> status'[s]],
           \A s \in Tasks \ S : status'[s] = "freed" => status[s] = "freed"
    PROVE  JobsInv'
<1>1. /\ jobs' = [j \in Jobs |-> jobs'[j]]
      /\ \A j \in Jobs : \/ jobs'[j] = jobs[j]
                         \/ /\ jobs[j].internal = "Published" /\ jobs[j].state = "Running"
                            /\ jobs'[j] = [jobs[j] EXCEPT !.state = "Quarantined"]
  BY Zenon DEF Withdrawn
<1>2. \A j \in Jobs :
        /\ jobs'[j] = [internal |-> jobs'[j].internal, state |-> jobs'[j].state,
                       handle |-> jobs'[j].handle, owner |-> jobs'[j].owner,
                       worker |-> jobs'[j].worker, gen |-> jobs'[j].gen, node |-> jobs'[j].node,
                       pin |-> jobs'[j].pin, io |-> jobs'[j].io]
        /\ jobs'[j].internal = jobs[j].internal /\ jobs'[j].handle = jobs[j].handle
        /\ jobs'[j].owner = jobs[j].owner /\ jobs'[j].worker = jobs[j].worker
        /\ \/ jobs'[j].state = jobs[j].state
           \/ /\ jobs[j].internal = "Published" /\ jobs[j].state = "Running"
              /\ jobs'[j].state = "Quarantined"
  BY <1>1 DEF JobsInv, Shaped
<1>3. Shaped'
  BY <1>1, <1>2, Zenon DEF JobsInv, Shaped
<1>4. \A j \in Jobs :
        /\ jobs'[j].internal = jobs[j].internal /\ jobs'[j].handle = jobs[j].handle
        /\ jobs'[j].owner = jobs[j].owner /\ jobs'[j].worker = jobs[j].worker
        /\ \/ jobs'[j].state = jobs[j].state
           \/ /\ jobs[j].internal = "Published" /\ jobs[j].state = "Running"
              /\ jobs'[j].state = "Quarantined"
  BY <1>2, ZenonT(40)
<1>5. HandlesApart'
  BY <1>4 DEF JobsInv, HandlesApart
<1>6. StatesAgree'
  BY <1>4 DEF JobsInv, StatesAgree
<1>7. OneInstallation'
  BY <1>4 DEF JobsInv, OneInstallation
<1>8. CallsOwn'
  BY <1>4 DEF JobsInv, CallsOwn
<1>9. RunsOwn'
  BY <1>4 DEF JobsInv, RunsOwn
<1>10. WorkersLive'
  <2>1. \A j \in Jobs : jobs[j].internal = "Published" /\ jobs[j].state = "Running" /\ jobs[j].worker \in S =>
           jobs'[j].state = "Quarantined"
    BY DEF Withdrawn, JobsInv, Shaped
  <2> QED BY <1>4, <2>1 DEF JobsInv, WorkersLive
<1> QED BY <1>3, <1>5, <1>6, <1>7, <1>8, <1>9, <1>10, Zenon DEF JobsInv

\* Every step keeps the invariant.
LEMMA JobsStep == JobsInv /\ [Next]_vars => JobsInv'
<1> SUFFICES ASSUME JobsInv, [Next]_vars PROVE JobsInv'
  BY Zenon
<1>1. CASE \E c \in Callers : Caller(c)
  BY <1>1, TargetSteps, QueueStep, QueueSteps, DispatchStep, AnswerSteps, CleanSteps, Zenon
     DEF Caller
<1>2. CASE \E w \in Workers : WorkerStep(w)
  BY <1>2, WorkerSteps, Zenon
<1>3. CASE ReapJobs
  BY <1>3, StatusStays, WithdrawnStep, Zenon DEF ReapJobs, accessVars, NoneFreed
<1>4. ASSUME NEW s \in Tasks, FreeTask(s) PROVE JobsInv'
  <2>1. /\ status' = [r \in Tasks |-> status'[r]]
        /\ \A r \in Tasks \ {s} : status'[r] = "freed" => status[r] = "freed"
    BY <1>4, Zenon DEF FreeTask, JobsInv, WorkersLive
  <2> QED BY <1>4, <2>1, WithdrawnStep, ZenonT(40) DEF FreeTask, AbandonWorker
<1>5. CASE UNCHANGED vars
  BY <1>5, StatusStays, JobsFrame, Zenon DEF vars, ownVars, jobVars, accessVars
<1>6. CASE ReapAccess \/ Revoke \/ OthersBegin \/ OthersEnd
  <2>1. UNCHANGED status
    BY <1>6, ZenonT(40)
       DEF ReapAccess, Revoke, OthersBegin, OthersEnd, accessVars, Unregister, Mount, ScanBegin,
                IoBegin, RegisterSlice, Register, Unmount, ScanEnd, IoEnd
  <2> QED BY <1>6, <2>1, StatusStays, JobsFrame, Zenon
          DEF ReapAccess, Revoke, OthersBegin, OthersEnd, ownVars, jobVars
<1>7. ASSUME NEW s \in Tasks, Kill(s) \/ Stop(s) PROVE JobsInv'
  <2>1. NoneFreed
    BY <1>7, Zenon DEF Kill, Stop, JobsInv, WorkersLive, NoneFreed
  <2>2. UNCHANGED <<jobs, admitted_job, issued, call>>
    BY <1>7, ZenonT(40) DEF Kill, Stop, jobVars
  <2>3. CASE Stop(s) /\ s \in Workers
    BY <2>1, <2>2, <2>3, ExitMoves, RunLeaves, Zenon DEF Stop, InJob
  <2>4. CASE ~(Stop(s) /\ s \in Workers)
    <3>1. run' = run
      BY <1>7, <2>4, Zenon DEF Kill, Stop, JobsInv, Shaped
    <3> QED BY <2>1, <2>2, <3>1, JobsFrame, Zenon DEF ownVars
  <2> QED BY <2>3, <2>4, Zenon
<1> QED BY <1>1, <1>2, <1>3, <1>4, <1>5, <1>6, <1>7, Zenon DEF Next

\* One installation at a time (admitted_job, jobs_queue, jobs_run, clean_job,
\* the reaper's pass): for any number of callers, workers, slots and targets,
\* with kills and failed cleanups, the job that waits or runs is the one that
\* was admitted.
THEOREM OneAtATime == Spec => []OneInstallation
<1>1. JobsInv => OneInstallation
  BY Zenon DEF JobsInv
<1> QED BY <1>1, JobsInitial, JobsStep, PTL DEF Spec
-----------------------------------------------------------------------------
\* Of the jobs only j changes, and this is what becomes of it.
JobBecomes(j, internal, state, io, node) ==
    /\ \A k \in Jobs \ {j} : jobs'[k] = jobs[k]
    /\ jobs'[j].internal = internal /\ jobs'[j].state = state
    /\ jobs'[j].io = io /\ jobs'[j].node = node

\* One field of a job.
LEMMA OneField ==
    ASSUME JobsInv, NEW j \in Jobs, NEW v
    PROVE  /\ jobs' = [jobs EXCEPT ![j].internal = v] =>
                JobBecomes(j, v, jobs[j].state, jobs[j].io, jobs[j].node)
           /\ jobs' = [jobs EXCEPT ![j].state = v] =>
                JobBecomes(j, jobs[j].internal, v, jobs[j].io, jobs[j].node)
           /\ jobs' = [jobs EXCEPT ![j].pin = v] =>
                JobBecomes(j, jobs[j].internal, jobs[j].state, jobs[j].io, jobs[j].node)
           /\ jobs' = [jobs EXCEPT ![j].io = v] =>
                JobBecomes(j, jobs[j].internal, jobs[j].state, v, jobs[j].node)
           /\ jobs' = [jobs EXCEPT ![j].node = v] =>
                JobBecomes(j, jobs[j].internal, jobs[j].state, jobs[j].io, v)
<1>0. Shaped
  BY Zenon DEF JobsInv
<1>1. jobs' = [jobs EXCEPT ![j].internal = v] =>
        JobBecomes(j, v, jobs[j].state, jobs[j].io, jobs[j].node)
  BY <1>0 DEF Shaped, JobBecomes
<1>2. jobs' = [jobs EXCEPT ![j].state = v] =>
        JobBecomes(j, jobs[j].internal, v, jobs[j].io, jobs[j].node)
  BY <1>0 DEF Shaped, JobBecomes
<1>3. jobs' = [jobs EXCEPT ![j].pin = v] =>
        JobBecomes(j, jobs[j].internal, jobs[j].state, jobs[j].io, jobs[j].node)
  BY <1>0 DEF Shaped, JobBecomes
<1>4. jobs' = [jobs EXCEPT ![j].io = v] =>
        JobBecomes(j, jobs[j].internal, jobs[j].state, v, jobs[j].node)
  BY <1>0 DEF Shaped, JobBecomes
<1>5. jobs' = [jobs EXCEPT ![j].node = v] =>
        JobBecomes(j, jobs[j].internal, jobs[j].state, jobs[j].io, v)
  BY <1>0 DEF Shaped, JobBecomes
<1> QED
  BY <1>1, <1>2, <1>3, <1>4, <1>5, Zenon

\* More than one.
LEMMA MoreFields ==
    ASSUME JobsInv, NEW j \in Jobs, NEW u, NEW v, NEW g
    PROVE  /\ jobs' = [jobs EXCEPT ![j].internal = u, ![j].state = v] =>
                JobBecomes(j, u, v, jobs[j].io, jobs[j].node)
           /\ jobs' = [jobs EXCEPT ![j].state = v, ![j].internal = u] =>
                JobBecomes(j, u, v, jobs[j].io, jobs[j].node)
           /\ jobs' = [jobs EXCEPT ![j].worker = u, ![j].state = v] =>
                JobBecomes(j, jobs[j].internal, v, jobs[j].io, jobs[j].node)
           /\ jobs' = [jobs EXCEPT ![j].internal = u, ![j].gen = g, ![j].node = v] =>
                JobBecomes(j, u, jobs[j].state, jobs[j].io, v)
<1> DEFINE a == [jobs EXCEPT ![j].internal = u]
           b == [jobs EXCEPT ![j].state = v]
           d == [jobs EXCEPT ![j].worker = u]
<1>0. Shaped
  BY Zenon DEF JobsInv
<1>1. /\ [jobs EXCEPT ![j].internal = u, ![j].state = v] = [a EXCEPT ![j].state = v]
      /\ [jobs EXCEPT ![j].state = v, ![j].internal = u] = [b EXCEPT ![j].internal = u]
      /\ [jobs EXCEPT ![j].worker = u, ![j].state = v] = [d EXCEPT ![j].state = v]
  BY Zenon
<1>2. /\ a = [k \in Jobs |-> a[k]]
      /\ \A k \in Jobs \ {j} : a[k] = jobs[k]
      /\ a[j] = [internal |-> u, state |-> jobs[j].state, handle |-> jobs[j].handle,
                 owner |-> jobs[j].owner, worker |-> jobs[j].worker, gen |-> jobs[j].gen,
                 node |-> jobs[j].node, pin |-> jobs[j].pin, io |-> jobs[j].io]
  BY <1>0 DEF Shaped
<1>3. /\ b = [k \in Jobs |-> b[k]]
      /\ \A k \in Jobs \ {j} : b[k] = jobs[k]
      /\ b[j] = [internal |-> jobs[j].internal, state |-> v, handle |-> jobs[j].handle,
                 owner |-> jobs[j].owner, worker |-> jobs[j].worker, gen |-> jobs[j].gen,
                 node |-> jobs[j].node, pin |-> jobs[j].pin, io |-> jobs[j].io]
  BY <1>0 DEF Shaped
<1>4. /\ d = [k \in Jobs |-> d[k]]
      /\ \A k \in Jobs \ {j} : d[k] = jobs[k]
      /\ d[j] = [internal |-> jobs[j].internal, state |-> jobs[j].state, handle |-> jobs[j].handle,
                 owner |-> jobs[j].owner, worker |-> u, gen |-> jobs[j].gen,
                 node |-> jobs[j].node, pin |-> jobs[j].pin, io |-> jobs[j].io]
  BY <1>0 DEF Shaped
<1>5. jobs' = [jobs EXCEPT ![j].internal = u, ![j].gen = g, ![j].node = v] =>
        JobBecomes(j, u, jobs[j].state, jobs[j].io, v)
  BY <1>0 DEF Shaped, JobBecomes
<1> HIDE DEF a, b, d
<1>6. jobs' = [a EXCEPT ![j].state = v] => JobBecomes(j, u, v, jobs[j].io, jobs[j].node)
  BY <1>2 DEF JobBecomes
<1>7. jobs' = [b EXCEPT ![j].internal = u] => JobBecomes(j, u, v, jobs[j].io, jobs[j].node)
  BY <1>3 DEF JobBecomes
<1>8. jobs' = [d EXCEPT ![j].state = v] => JobBecomes(j, jobs[j].internal, v, jobs[j].io, jobs[j].node)
  BY <1>4 DEF JobBecomes
<1> QED
  BY <1>1, <1>5, <1>6, <1>7, <1>8, ZenonT(40)
-----------------------------------------------------------------------------
\* The entries of the registry have the fields of an Access, and an owner.
Entries ==
    /\ \A a \in leases : a = [holder |-> a.holder, extent |-> a.extent, owner |-> a.owner,
                              poisoned |-> a.poisoned, scan |-> a.scan]
    /\ \A a \in tickets : a = [holder |-> a.holder, extent |-> a.extent, owner |-> a.owner,
                               poisoned |-> a.poisoned]
    /\ \A a \in leases \cup tickets : a.owner \in Tasks \cup {NoTask}

Owned == Entries /\ OwnersLive

\* Entries that go take no pointer to a freed task with them.
LEMMA FewerOwned ==
    ASSUME Owned, NoneFreed, leases' \subseteq leases, tickets' \subseteq tickets
    PROVE  Owned'
<1>1. Entries'
  BY Zenon DEF Owned, Entries
<1>2. OwnersLive'
  BY Zenon DEF Owned, Entries, OwnersLive, NoneFreed
<1> QED BY <1>1, <1>2, Zenon DEF Owned

\* A lease is claimed by a task that is there, or by nobody.
LEMMA ClaimOwned ==
    ASSUME Owned, NoneFreed, NEW h, NEW d, NEW x, NEW b, leases' = Claimed(h, d, x, b), tickets' = tickets,
           x = NoTask \/ (x \in Tasks /\ status[x] # "freed")
    PROVE  Owned'
<1> DEFINE new == [holder |-> h, extent |-> Extent(d), owner |-> x, poisoned |-> FALSE, scan |-> b]
<1>1. leases' = leases \cup {new}
  BY Zenon DEF Claimed
<1>2. new.owner = x /\ new = [holder |-> new.holder, extent |-> new.extent, owner |-> new.owner,
                             poisoned |-> new.poisoned, scan |-> new.scan]
  BY Zenon
<1> HIDE DEF new
<1>3. Entries'
  BY <1>1, <1>2, Zenon DEF Owned, Entries
<1>4. OwnersLive'
  BY <1>1, <1>2, Zenon DEF Owned, Entries, OwnersLive, NoneFreed
<1> QED BY <1>3, <1>4, Zenon DEF Owned

\* A request is started by a task that is there.
LEMMA StartOwned ==
    ASSUME Owned, NoneFreed, NEW d, NEW x \in Tasks, tickets' = Started(x, d), leases' = leases,
           status[x] # "freed"
    PROVE  Owned'
<1> DEFINE new == [holder |-> x, extent |-> Extent(d), owner |-> x, poisoned |-> FALSE]
<1>1. tickets' = tickets \cup {new}
  BY Zenon DEF Started
<1>2. new.owner = x /\ new = [holder |-> new.holder, extent |-> new.extent, owner |-> new.owner,
                             poisoned |-> new.poisoned]
  BY Zenon
<1> HIDE DEF new
<1>3. Entries'
  BY <1>1, <1>2, Zenon DEF Owned, Entries
<1>4. OwnersLive'
  BY <1>1, <1>2, Zenon DEF Owned, Entries, OwnersLive, NoneFreed
<1> QED BY <1>3, <1>4, Zenon DEF Owned

\* What poisoning makes of an entry.
LEMMA PoisonedLease ==
    ASSUME Owned, NEW S \in SUBSET leases, NEW p \in Poisoned(S, leases)
    PROVE  /\ p \in leases \ S \/ (p.poisoned /\ p.owner \in Tasks \cup {NoTask})
           /\ p = [holder |-> p.holder, extent |-> p.extent, owner |-> p.owner,
                   poisoned |-> p.poisoned, scan |-> p.scan]
BY DEF Poisoned, Owned, Entries

\* The same of a ticket.
LEMMA PoisonedTicket ==
    ASSUME Owned, NEW S \in SUBSET tickets, NEW p \in Poisoned(S, tickets)
    PROVE  /\ p \in tickets \ S \/ (p.poisoned /\ p.owner \in Tasks \cup {NoTask})
           /\ p = [holder |-> p.holder, extent |-> p.extent, owner |-> p.owner,
                   poisoned |-> p.poisoned]
BY DEF Poisoned, Owned, Entries

\* Entries of S and T are poisoned, and a task is freed only if all it owns
\* is among them.
LEMMA PoisonOwned ==
    ASSUME Owned, NEW S \in SUBSET leases, NEW T \in SUBSET tickets,
           leases' = Poisoned(S, leases),
           tickets' = Poisoned(T, tickets) \/ (tickets' \subseteq tickets /\ T = {}),
           \A a \in (leases \ S) \cup (tickets \ T) :
              a.owner \in Tasks /\ status'[a.owner] = "freed" => status[a.owner] = "freed"
    PROVE  Owned'
<1>1. \A p \in leases' :
         /\ p \in leases \ S \/ (p.poisoned /\ p.owner \in Tasks \cup {NoTask})
         /\ p = [holder |-> p.holder, extent |-> p.extent, owner |-> p.owner,
                 poisoned |-> p.poisoned, scan |-> p.scan]
  BY PoisonedLease, Zenon
<1>2. \A p \in tickets' :
         /\ p \in tickets \ T \/ (p.poisoned /\ p.owner \in Tasks \cup {NoTask})
         /\ p = [holder |-> p.holder, extent |-> p.extent, owner |-> p.owner,
                 poisoned |-> p.poisoned]
  <2>1. CASE tickets' = Poisoned(T, tickets)
    BY <2>1, PoisonedTicket, Zenon
  <2>2. CASE tickets' \subseteq tickets /\ T = {}
    BY <2>2, Zenon DEF Owned, Entries
  <2> QED BY <2>1, <2>2, Zenon
<1>3. Entries'
  BY <1>1, <1>2, Zenon DEF Owned, Entries
<1>4. OwnersLive'
  BY <1>1, <1>2, Zenon DEF Owned, Entries, OwnersLive
<1> QED BY <1>3, <1>4, Zenon DEF Owned

\* block_access_abandon_owner and block_access_reap_abandoned.
LEMMA AbandonOwned ==
    ASSUME Owned, NEW S, Abandoned(S), \A s \in Tasks \ S : status'[s] = "freed" => status[s] = "freed"
    PROVE  Owned'
<1> DEFINE L == {a \in leases : a.owner \in S}
           T == {a \in tickets : a.owner \in S}
<1>1. leases' = Poisoned(L, leases) /\ tickets' = Poisoned(T, tickets)
  BY Zenon DEF Abandoned
<1>2. \A a \in (leases \ L) \cup (tickets \ T) :
        a.owner \in Tasks /\ status'[a.owner] = "freed" => status[a.owner] = "freed"
  BY Zenon
<1>3. L \in SUBSET leases /\ T \in SUBSET tickets
  BY Zenon
<1> HIDE DEF L, T
<1> QED BY <1>1, <1>2, <1>3, PoisonOwned, Zenon

\* The factory's lease is poisoned.
LEMMA FactoryOwned ==
    ASSUME Owned, NoneFreed, leases' = Poisoned(LeaseOf("factory"), leases), tickets' \subseteq tickets
    PROVE  Owned'
<1>1. LeaseOf("factory") \in SUBSET leases /\ {} \in SUBSET tickets
  BY Zenon DEF LeaseOf
<1>2. \A a \in (leases \ LeaseOf("factory")) \cup (tickets \ {}) :
        a.owner \in Tasks /\ status'[a.owner] = "freed" => status[a.owner] = "freed"
  BY Zenon DEF NoneFreed
<1> QED BY <1>1, <1>2, PoisonOwned, ZenonT(40)

\* The steps of a caller: only the probe touches the registry.
LEMMA CallerOwned ==
    ASSUME JobsInv, Owned, NEW c \in Callers, Caller(c)
    PROVE  Owned'
<1>0. NoneFreed
  <2>1. CASE Dispatch(c)
    BY <2>1, InstallerAssumption, Zenon DEF Dispatch, JobsInv, WorkersLive, NoneFreed
  <2>2. CASE UNCHANGED status
    BY <2>2, StatusStays, Zenon
  <2> QED BY <2>1, <2>2, ZenonT(40)
             DEF Caller, accessVars, Select, ReleaseTarget, Retain, Probe, Unprobe, SelectDone,
            CloseTarget, FreeTargetSlot, Queue, Pin, QueueDone, Cancel, Unpin, Unref, Cleaned, AskCancel,
            ReleaseJob
<1>1. CASE UNCHANGED <<leases, tickets>>
  BY <1>0, <1>1, FewerOwned, Zenon
<1>2. CASE Probe(c)
  <2>1. c \in Tasks /\ status[c] # "freed" /\ tickets' = tickets
    BY <1>2, InstallerAssumption, Zenon DEF Probe, At, OnCpu
  <2>2. CASE leases' = Claimed(call[c].target, Disk, c, FALSE)
    BY <1>0, <2>1, <2>2, ClaimOwned, ZenonT(40)
  <2>3. CASE UNCHANGED leases
    BY <1>1, <2>1, <2>3, Zenon
  <2> QED BY <1>2, <2>2, <2>3, ZenonT(40) DEF Probe
<1>3. CASE Unprobe(c)
  BY <1>0, <1>3, FewerOwned, Zenon DEF Unprobe
<1> QED
  BY <1>1, <1>2, <1>3, ZenonT(40)
     DEF Caller, accessVars, Select, ReleaseTarget, Retain, SelectDone, CloseTarget,
     FreeTargetSlot, Queue, Pin, QueueDone, Dispatch, Cancel, Unpin, Unref, Cleaned, AskCancel, ReleaseJob

\* The steps of a worker, which is on a CPU.
LEMMA WorkerOwned ==
    ASSUME JobsInv, Owned, NEW w \in Workers, WorkerStep(w)
    PROVE  Owned'
<1>0. NoneFreed /\ w \in Tasks /\ status[w] # "freed"
  BY StatusStays, InstallerAssumption, ZenonT(40)
     DEF OnCpu, RunAt, accessVars, WorkerStep, RunBegin, FactoryClaim, FactoryPublish,
         FactoryBegin,
         FactoryEnd, FactoryRelease, RunEnd
<1>1. CASE leases' \subseteq leases /\ tickets' \subseteq tickets
  BY <1>0, <1>1, FewerOwned, Zenon
<1>2. CASE leases' = Claimed("factory", Disk, w, FALSE) /\ tickets' = tickets
  BY <1>0, <1>2, ClaimOwned, ZenonT(40)
<1>3. CASE tickets' = Started(w, Disk) /\ leases' = leases
  BY <1>0, <1>3, StartOwned, Zenon
<1>4. CASE leases' = Poisoned(LeaseOf("factory"), leases) /\ tickets' \subseteq tickets
  BY <1>0, <1>4, FactoryOwned, Zenon
<1>5. CASE FactoryEnd(w)
  <2>1. tickets' \subseteq tickets
    BY <1>5, Zenon DEF FactoryEnd, Ended
  <2> QED BY <1>1, <1>4, <1>5, <2>1, Zenon DEF FactoryEnd
<1>6. CASE RunBegin(w) \/ RunEnd(w) \/ FactoryClaim(w)
  BY <1>1, <1>2, <1>6, ZenonT(40) DEF RunBegin, RunEnd, FactoryClaim, accessVars
<1>7. CASE FactoryPublish(w)
  BY <1>1, <1>7, Zenon DEF FactoryPublish
<1>8. CASE FactoryBegin(w)
  BY <1>3, <1>4, <1>8, Zenon DEF FactoryBegin
<1>9. CASE FactoryRelease(w)
  BY <1>1, <1>4, <1>9, Zenon DEF FactoryRelease
<1> QED BY <1>5, <1>6, <1>7, <1>8, <1>9, Zenon DEF WorkerStep

\* The other users of the disk.
LEMMA OthersOwned ==
    ASSUME JobsInv, Owned, OthersBegin \/ OthersEnd
    PROVE  Owned'
<1>0. NoneFreed
  BY StatusStays, ZenonT(40)
     DEF OthersBegin, OthersEnd, Unregister, Mount, ScanBegin, IoBegin, RegisterSlice,
                     Register, Unmount, ScanEnd, IoEnd
<1>1. CASE leases' \subseteq leases /\ tickets' \subseteq tickets
  BY <1>0, <1>1, FewerOwned, Zenon
<1>2. ASSUME NEW d \in Devices, Mount(d) PROVE Owned'
  BY <1>0, <1>2, ClaimOwned, ZenonT(40) DEF Mount
<1>3. ASSUME NEW x \in Tasks, ScanBegin(x) PROVE Owned'
  BY <1>0, <1>3, ClaimOwned, ZenonT(40) DEF ScanBegin
<1>4. ASSUME NEW x \in Tasks, NEW d \in Devices, IoBegin(x, d) PROVE Owned'
  BY <1>0, <1>4, StartOwned, Zenon DEF IoBegin
<1>5. ASSUME NEW x \in Tasks, NEW d \in Devices, RegisterSlice(x, d) PROVE Owned'
  BY <1>5, <1>1, Zenon DEF RegisterSlice
<1>6. ASSUME NEW d \in Devices, Unregister(d) PROVE Owned'
  BY <1>6, <1>1, Zenon DEF Unregister
<1>7. CASE OthersBegin
  BY <1>7, <1>2, <1>3, <1>4, <1>5, <1>6, ZenonT(40) DEF OthersBegin
<1>8. CASE OthersEnd
  BY <1>8, <1>1, Zenon DEF OthersEnd, Register, Unmount, ScanEnd, IoEnd, Ended
<1> QED BY <1>7, <1>8, Zenon

\* Every step keeps the pointers of the registry.
LEMMA OwnedStep == JobsInv /\ Owned /\ [Next]_vars => Owned'
<1> SUFFICES ASSUME JobsInv, Owned, [Next]_vars PROVE Owned'
  BY Zenon
<1>1. CASE \E c \in Callers : Caller(c)
  BY <1>1, CallerOwned, Zenon
<1>2. CASE \E w \in Workers : WorkerStep(w)
  BY <1>2, WorkerOwned, Zenon
<1>3. ASSUME NEW s \in Tasks, Kill(s) \/ Stop(s) PROVE Owned'
  <2>1. NoneFreed
    BY <1>3, Zenon DEF Kill, Stop, JobsInv, WorkersLive, NoneFreed
  <2> QED BY <1>3, <2>1, FewerOwned, ZenonT(40) DEF Kill, Stop
<1>4. ASSUME NEW s \in Tasks, FreeTask(s) PROVE Owned'
  <2>1. \A r \in Tasks \ {s} : status'[r] = "freed" => status[r] = "freed"
    BY <1>4, Zenon DEF FreeTask, JobsInv, WorkersLive
  <2> QED BY <1>4, <2>1, AbandonOwned, Zenon DEF FreeTask
<1>5. CASE ReapAccess
  BY <1>5, AbandonOwned, Zenon DEF ReapAccess
<1>6. CASE ReapJobs \/ Revoke \/ UNCHANGED vars
  BY <1>6, StatusStays, FewerOwned, Zenon DEF ReapJobs, Revoke, vars, accessVars
<1>7. CASE OthersBegin \/ OthersEnd
  BY <1>7, OthersOwned, Zenon
<1> QED BY <1>1, <1>2, <1>3, <1>4, <1>5, <1>6, <1>7, Zenon DEF Next

\* No TCB is read after it is freed (jobs_abandon_worker,
\* block_access_abandon_owner and the reaper's passes): whatever the number of
\* tasks, and whenever they are killed and freed, a job that runs and a lease
\* or ticket that is not poisoned name a task that is still there.
THEOREM PointersLive == Spec => []CookiesLive
<1>1. Init => Owned
  BY Zenon DEF Init, Owned, Entries, OwnersLive
<1>2. JobsInv /\ Owned => CookiesLive
  BY Zenon DEF JobsInv, WorkersLive, Owned, CookiesLive
<1> QED BY <1>1, <1>2, JobsInitial, JobsStep, OwnedStep, PTL DEF Spec
-----------------------------------------------------------------------------
(***************************************************************************)
(* The users of the disk are kept apart, for any number of tasks, devices, *)
(* sectors, slots, workers and faults.  UsersApart is inductive once the   *)
(* records of the registry are known to be records; what a step does to    *)
(* the registry is one of five things, and a lemma deals with each.        *)
(***************************************************************************)

\* The entries of the two tables have the fields of an Access.
AccessShaped ==
    /\ \A a \in leases : a = [holder |-> a.holder, extent |-> a.extent, owner |-> a.owner,
                              poisoned |-> a.poisoned, scan |-> a.scan]
    /\ \A t \in tickets : t = [holder |-> t.holder, extent |-> t.extent, owner |-> t.owner,
                               poisoned |-> t.poisoned]

AccessInv == AccessShaped /\ UsersApart

\* overlaps does not depend on the order of its arguments.
LEMMA OverlapsSymmetric == ASSUME NEW a, NEW b PROVE Overlaps(a, b) <=> Overlaps(b, a)
BY Zenon DEF Overlaps

\* Entries that are released, or requests that end, disturb nobody.
LEMMA FewerApart ==
    ASSUME AccessInv, leases' \subseteq leases, tickets' \subseteq tickets
    PROVE  AccessInv'
BY Zenon DEF AccessInv, AccessShaped, UsersApart

\* claim finds no lease and no request in the range.
LEMMA ClaimApart ==
    ASSUME AccessInv, NEW h, NEW d, NEW g, NEW x, NEW b,
           MayClaim(d, g), leases' = Claimed(h, d, x, b), tickets' = tickets
    PROVE  AccessInv'
<1> DEFINE new == [holder |-> h, extent |-> Extent(d), owner |-> x, poisoned |-> FALSE, scan |-> b]
<1>1. leases' = leases \cup {new}
  BY Zenon DEF Claimed
<1>2. new.extent = Extent(d) /\ new.owner = x
  BY Zenon
<1>3. \A a \in leases \cup tickets : ~Overlaps(a.extent, Extent(d)) /\ ~Overlaps(Extent(d), a.extent)
  BY OverlapsSymmetric, Zenon DEF MayClaim
<1>4. AccessShaped'
  BY <1>1 DEF AccessInv, AccessShaped
<1>5. UsersApart'
  <2> HIDE DEF new
  <2>1. ASSUME NEW a \in leases', NEW c \in leases', a # c PROVE ~Overlaps(a.extent, c.extent)
    BY <1>1, <1>2, <1>3, <2>1, Zenon DEF AccessInv, UsersApart
  <2>2. ASSUME NEW a \in leases', NEW t \in tickets', a.owner # NoTask, Overlaps(a.extent, t.extent)
        PROVE  t.owner = a.owner
    BY <1>1, <1>2, <1>3, <2>2, Zenon DEF AccessInv, UsersApart
  <2> QED BY <2>1, <2>2, Zenon DEF UsersApart
<1> QED BY <1>4, <1>5, Zenon DEF AccessInv

\* io_begin lets a request into an exclusive lease only for its owner.
LEMMA StartApart ==
    ASSUME AccessInv, NEW x, NEW d, NEW g,
           MayStart(x, d, g), tickets' = Started(x, d), leases' = leases
    PROVE  AccessInv'
<1> DEFINE new == [holder |-> x, extent |-> Extent(d), owner |-> x, poisoned |-> FALSE]
<1>1. tickets' = tickets \cup {new}
  BY Zenon DEF Started
<1>2. new.extent = Extent(d) /\ new.owner = x
  BY Zenon
<1>3. \A a \in leases : Overlaps(a.extent, Extent(d)) /\ a.owner # NoTask => a.owner = x
  BY Zenon DEF MayStart
<1>4. AccessShaped'
  BY <1>1 DEF AccessInv, AccessShaped
<1>5. UsersApart'
  <2> HIDE DEF new
  <2> QED BY <1>1, <1>2, <1>3 DEF AccessInv, UsersApart
<1> QED BY <1>4, <1>5, Zenon DEF AccessInv

\* An entry that is poisoned keeps its range and its owner.
LEMMA PoisonedFrom ==
    ASSUME NEW A, NEW S \in SUBSET A, NEW p \in Poisoned(S, A),
           \A a \in A : a = [holder |-> a.holder, extent |-> a.extent, owner |-> a.owner,
                             poisoned |-> a.poisoned, scan |-> a.scan]
    PROVE  \/ p \in A \ S
           \/ \E a \in S : /\ p = [a EXCEPT !.poisoned = TRUE]
                           /\ p.extent = a.extent /\ p.owner = a.owner
                           /\ p = [holder |-> p.holder, extent |-> p.extent, owner |-> p.owner,
                                   poisoned |-> p.poisoned, scan |-> p.scan]
BY DEF Poisoned

\* The same for the requests in flight.
LEMMA PoisonedTicketFrom ==
    ASSUME NEW A, NEW S \in SUBSET A, NEW p \in Poisoned(S, A),
           \A a \in A : a = [holder |-> a.holder, extent |-> a.extent, owner |-> a.owner,
                             poisoned |-> a.poisoned]
    PROVE  \/ p \in A \ S
           \/ \E a \in S : /\ p.extent = a.extent /\ p.owner = a.owner
                           /\ p = [holder |-> p.holder, extent |-> p.extent, owner |-> p.owner,
                                   poisoned |-> p.poisoned]
BY DEF Poisoned

\* Poison disturbs nobody, whether it is for a failure or a killed owner.
LEMMA PoisonApart ==
    ASSUME AccessInv, NEW S \in SUBSET leases, NEW T \in SUBSET tickets,
           leases' = Poisoned(S, leases),
           tickets' = Poisoned(T, tickets) \/ tickets' \subseteq tickets
    PROVE  AccessInv'
<1>1. \A p \in leases' :
         \/ p \in leases \ S
         \/ \E a \in S : /\ p = [a EXCEPT !.poisoned = TRUE]
                         /\ p.extent = a.extent /\ p.owner = a.owner
                         /\ p = [holder |-> p.holder, extent |-> p.extent, owner |-> p.owner,
                                 poisoned |-> p.poisoned, scan |-> p.scan]
  BY PoisonedFrom DEF AccessInv, AccessShaped
<1>2. \A p \in tickets' :
         \/ p \in tickets
         \/ \E a \in tickets : /\ p.extent = a.extent /\ p.owner = a.owner
                               /\ p = [holder |-> p.holder, extent |-> p.extent, owner |-> p.owner,
                                       poisoned |-> p.poisoned]
  BY PoisonedTicketFrom DEF AccessInv, AccessShaped
<1>3. AccessShaped'
  BY <1>1, <1>2, Zenon DEF AccessInv, AccessShaped
<1>4. ASSUME NEW p \in leases', NEW q \in leases', p # q PROVE ~Overlaps(p.extent, q.extent)
  <2> DEFINE From(r, a) == /\ r.extent = a.extent
                           /\ \/ a \notin S /\ r = a
                              \/ a \in S /\ r = [a EXCEPT !.poisoned = TRUE]
  <2>1. PICK a \in leases : From(p, a)
    BY <1>1, Zenon
  <2>2. PICK b \in leases : From(q, b)
    BY <1>1, Zenon
  <2>3. a # b
    BY <1>4, <2>1, <2>2, Zenon
  <2> QED BY <2>1, <2>2, <2>3, Zenon DEF AccessInv, UsersApart
<1>5. ASSUME NEW p \in leases', NEW t \in tickets', p.owner # NoTask, Overlaps(p.extent, t.extent)
      PROVE  t.owner = p.owner
  <2>1. \E a \in leases : p.extent = a.extent /\ p.owner = a.owner
    BY <1>1, Zenon
  <2>2. \E u \in tickets : t.extent = u.extent /\ t.owner = u.owner
    BY <1>2, ZenonT(40)
  <2> QED BY <1>5, <2>1, <2>2, Zenon DEF AccessInv, UsersApart
<1> QED BY <1>3, <1>4, <1>5, Zenon DEF AccessInv, UsersApart

\* The steps of a caller: only the probe touches the registry.
LEMMA CallerApart == ASSUME AccessInv, NEW c \in Callers, Caller(c) PROVE AccessInv'
<1>1. CASE UNCHANGED <<leases, tickets>>
  BY <1>1, FewerApart, Zenon
<1>2. CASE Probe(c)
  <2>1. CASE UNCHANGED leases
    BY <1>2, <2>1, FewerApart, Zenon DEF Probe
  <2>2. CASE /\ MayClaim(Disk, Target(c).gen) /\ leases' = Claimed(call[c].target, Disk, c, FALSE)
    BY <1>2, <2>2, ClaimApart, Zenon DEF Probe
  <2> QED BY <1>2, <2>1, <2>2, Zenon DEF Probe
<1>3. CASE Unprobe(c)
  BY <1>3, FewerApart, Zenon DEF Unprobe
<1> QED
  BY <1>1, <1>2, <1>3, ZenonT(40)
     DEF Caller, accessVars, Select, ReleaseTarget, Retain, SelectDone, CloseTarget,
     FreeTargetSlot, Queue, Pin, QueueDone, Dispatch, Cancel, Unpin, Unref, Cleaned, AskCancel, ReleaseJob

\* The steps of a worker: the factory claims the disk, uses it and gives it
\* back, or poisons it.
LEMMA WorkerApart == ASSUME AccessInv, NEW w \in Workers, WorkerStep(w) PROVE AccessInv'
<1> DEFINE mine == LeaseOf("factory")
<1>m. mine \in SUBSET leases
  BY Zenon DEF LeaseOf
<1>1. CASE RunBegin(w) \/ RunEnd(w)
  BY <1>1, FewerApart, Zenon DEF RunBegin, RunEnd, accessVars
<1>2. CASE FactoryClaim(w)
  <2>1. CASE UNCHANGED leases
    BY <1>2, <2>1, FewerApart, Zenon DEF FactoryClaim
  <2>2. CASE MayClaim(Disk, jobs[run[w].job].gen) /\ leases' = Claimed("factory", Disk, w, FALSE)
    BY <1>2, <2>2, ClaimApart, Zenon DEF FactoryClaim
  <2> QED BY <1>2, <2>1, <2>2, Zenon DEF FactoryClaim
<1>3. CASE FactoryPublish(w)
  BY <1>3, FewerApart, Zenon DEF FactoryPublish
<1>4. CASE FactoryBegin(w)
  <2>1. CASE MayStart(w, Disk, reg[Disk]) /\ tickets' = Started(w, Disk) /\ leases' = leases
    BY <2>1, StartApart, Zenon
  <2>2. CASE leases' = Poisoned(mine, leases) /\ tickets' = tickets
    BY <1>m, <2>2, PoisonApart, Zenon
  <2> QED BY <1>4, <2>1, <2>2, Zenon DEF FactoryBegin
<1>5. CASE FactoryEnd(w)
  <2>1. tickets' \subseteq tickets
    BY <1>5, Zenon DEF FactoryEnd, Ended
  <2>2. CASE leases' = leases
    BY <2>1, <2>2, FewerApart, Zenon
  <2>3. CASE leases' = Poisoned(mine, leases)
    BY <1>m, <2>1, <2>3, PoisonApart, Zenon
  <2> QED BY <1>5, <2>2, <2>3, Zenon DEF FactoryEnd
<1>6. CASE FactoryRelease(w)
  <2>1. CASE leases' = leases \ mine
    BY <1>6, <2>1, FewerApart, Zenon DEF FactoryRelease
  <2>2. CASE leases' = Poisoned(mine, leases)
    BY <1>6, <1>m, <2>2, PoisonApart, Zenon DEF FactoryRelease
  <2> QED BY <1>6, <2>1, <2>2, Zenon DEF FactoryRelease
<1> QED BY <1>1, <1>2, <1>3, <1>4, <1>5, <1>6, Zenon DEF WorkerStep

\* What a task leaves behind is poisoned.
LEMMA AbandonApart == ASSUME AccessInv, NEW S, Abandoned(S) PROVE AccessInv'
<1>1. leases' = Poisoned({a \in leases : a.owner \in S}, leases)
  BY Zenon DEF Abandoned
<1>2. tickets' = Poisoned({a \in tickets : a.owner \in S}, tickets)
  BY Zenon DEF Abandoned
<1> QED BY <1>1, <1>2, PoisonApart, Zenon

\* The other users of the disk: mounts, scans, requests, registrations.
LEMMA OthersApart == ASSUME AccessInv, OthersBegin \/ OthersEnd PROVE AccessInv'
<1>1. CASE leases' \subseteq leases /\ tickets' \subseteq tickets
  BY <1>1, FewerApart, Zenon
<1>2. ASSUME NEW d \in Devices, Mount(d) PROVE AccessInv'
  BY <1>2, ClaimApart, Zenon DEF Mount
<1>3. ASSUME NEW x \in Tasks, ScanBegin(x) PROVE AccessInv'
  BY <1>3, ClaimApart, Zenon DEF ScanBegin
<1>4. ASSUME NEW x \in Tasks, NEW d \in Devices, IoBegin(x, d) PROVE AccessInv'
  BY <1>4, StartApart, Zenon DEF IoBegin
<1>5. ASSUME NEW x \in Tasks, NEW d \in Devices, Unregister(d) \/ RegisterSlice(x, d) PROVE AccessInv'
  BY <1>5, <1>1, Zenon DEF Unregister, RegisterSlice
<1>6. ASSUME NEW d \in Devices, Unregister(d) PROVE AccessInv'
  BY <1>6, <1>1, Zenon DEF Unregister
<1>7. CASE OthersBegin
  BY <1>7, <1>2, <1>3, <1>4, <1>5, <1>6 DEF OthersBegin
<1>8. CASE OthersEnd
  BY <1>8, <1>1, Zenon DEF OthersEnd, Register, Unmount, ScanEnd, IoEnd, Ended
<1> QED BY <1>7, <1>8, Zenon

\* Every step keeps the users apart.
LEMMA StepApart == AccessInv /\ [Next]_vars => AccessInv'
<1> SUFFICES ASSUME AccessInv, [Next]_vars PROVE AccessInv'
  BY Zenon
<1>1. CASE \E c \in Callers : Caller(c)
  BY <1>1, CallerApart, Zenon
<1>2. CASE \E w \in Workers : WorkerStep(w)
  BY <1>2, WorkerApart, Zenon
<1>3. ASSUME NEW s \in Tasks, Kill(s) \/ Stop(s) PROVE AccessInv'
  BY <1>3, FewerApart, Zenon DEF Kill, Stop
<1>4. ASSUME NEW s \in Tasks, FreeTask(s) PROVE AccessInv'
  BY <1>4, AbandonApart, Zenon DEF FreeTask
<1>5. CASE ReapAccess
  BY <1>5, AbandonApart, Zenon DEF ReapAccess
<1>6. CASE ReapJobs \/ Revoke \/ UNCHANGED vars
  BY <1>6, FewerApart, Zenon DEF ReapJobs, Revoke, vars, accessVars
<1>7. CASE OthersBegin \/ OthersEnd
  BY <1>7, OthersApart, Zenon
<1> QED BY <1>1, <1>2, <1>3, <1>4, <1>5, <1>6, <1>7, SMTT(30) DEF Next

\* The registry of driver/block_access.cpp keeps the users of the disk apart,
\* whatever mounts, scans, requests, installations, kills and unplugged disks
\* do: leases never overlap, and a request inside an exclusive lease is its
\* owner's.
THEOREM UsersStayApart == Spec => []UsersApart
<1>1. Init => AccessInv
  BY Zenon DEF Init, AccessInv, AccessShaped, UsersApart
<1>2. AccessInv => UsersApart
  BY Zenon DEF AccessInv
<1> QED BY <1>1, <1>2, StepApart, PTL DEF Spec
-----------------------------------------------------------------------------
(***************************************************************************)
(* What an installation leaves on the disk and what its job reports of it. *)
(***************************************************************************)
\* A flush leaves what the cache holds, where that is known.
HeldLeft ==
    /\ holds = [r \in Regions |-> holds[r]] /\ left = [r \in Regions |-> left[r]]
    /\ \A r \in Regions : holds[r] = "unknown" \/ holds[r] \in left[r]

\* What is on the disk once the requests before the n-th are done.
Progress(n) ==
    /\ n \in 3..7 => holds["gpt"] = "zero"
    /\ n \in 4..7 => left["gpt"] = {"zero"}
    /\ n \in 6..14 => holds["bind"] = "zero"
    /\ n \in 7..14 => left["bind"] = {"zero"}
    /\ n >= 8 => holds["gpt"] = "new"
    /\ n >= 9 => left["gpt"] = {"new"}
    /\ n >= 11 => holds["root"] = "new"
    /\ n >= 12 => holds["esp"] = "new"
    /\ n >= 14 => left["gpt"] = {"new"} /\ left["esp"] = {"new"} /\ left["root"] = {"new"}
    /\ n >= 15 => holds["bind"] = "new"
    /\ n >= 16 => left["bind"] = {"new"}

DiskFit == HeldLeft /\ BootsWhole

\* The requests by their number.
LEMMA ScriptAt ==
    /\ Len(Script) = 16
    /\ \A n \in {1, 3, 6, 8, 13, 15} : Script[n] = Flush
    /\ \A n \in {4, 9, 12, 16} : Script[n] = Check
    /\ Script[2] = Write({"gpt"}, "zero") /\ Script[5] = Write({"esp", "bind"}, "zero")
    /\ Script[7] = Write({"gpt"}, "new") /\ Script[10] = Write({"root"}, "new")
    /\ Script[11] = Write({"esp"}, "new") /\ Script[14] = Write({"bind"}, "new")
BY DEF Script

\* A flush that is done leaves what the cache holds.
LEMMA Flushed ==
    ASSUME HeldLeft, Carry(Flush)
    PROVE  /\ holds' = holds /\ left' = [r \in Regions |-> left'[r]]
           /\ \A r \in Regions : left'[r] = IF holds[r] = "unknown" THEN left[r] ELSE {holds[r]}
BY Zenon DEF HeldLeft, Carry, Flush

\* A read leaves everything.
LEMMA WasRead ==
    ASSUME HeldLeft, Carry(Check)
    PROVE  holds' = holds /\ left' = left
BY Zenon DEF HeldLeft, Carry, Check

\* A write changes the cache, and perhaps what is behind it.
LEMMA Written ==
    ASSUME HeldLeft, NEW S, NEW v, Carry(Write(S, v))
    PROVE  /\ holds' = [r \in Regions |-> holds'[r]] /\ left' = [r \in Regions |-> left'[r]]
           /\ \A r \in Regions : holds'[r] = IF r \in S THEN v ELSE holds[r]
           /\ \A r \in Regions : left'[r] = IF r \in S THEN left[r] \cup Torn(r, v) ELSE left[r]
BY Zenon DEF HeldLeft, Carry, Write

\* After a write that may have been done the cache is not known.
LEMMA PerhapsWritten ==
    ASSUME HeldLeft, NEW S, NEW v, Perhaps(Write(S, v))
    PROVE  /\ holds' = [r \in Regions |-> holds'[r]] /\ left' = [r \in Regions |-> left'[r]]
           /\ \A r \in Regions : holds'[r] = IF r \in S THEN "unknown" ELSE holds[r]
           /\ \A r \in Regions : left'[r] = IF r \in S THEN left[r] \cup Torn(r, v) ELSE left[r]
BY Zenon DEF HeldLeft, Perhaps, Write

\* A flush or a read that may have been done changes nothing for sure.
LEMMA PerhapsNothing ==
    ASSUME HeldLeft, Perhaps(Flush) \/ Perhaps(Check)
    PROVE  holds' = holds /\ left' = left
BY Zenon DEF HeldLeft, Perhaps, Flush, Check

\* What a write in the n-th place may leave still boots whole: the table and
\* the binding are not there together before the files are.
LEMMA WriteFits ==
    ASSUME DiskFit, NEW n \in {2, 5, 7, 10, 11, 14}, Progress(n), NEW S, NEW v, Script[n] = Write(S, v),
           \A r \in Regions : left'[r] = IF r \in S THEN left[r] \cup Torn(r, v) ELSE left[r]
    PROVE  BootsWhole'
<1> USE DEF DiskFit, Progress, Write, Torn, Regions, BootsWhole, Boots
<1>1. CASE n = 2
  BY <1>1, ScriptAt
<1>2. CASE n = 5
  BY <1>2, ScriptAt
<1>3. CASE n = 7
  BY <1>3, ScriptAt
<1>4. CASE n = 10
  BY <1>4, ScriptAt
<1>5. CASE n = 11
  BY <1>5, ScriptAt
<1>6. CASE n = 14
  BY <1>6, ScriptAt
<1> QED
  BY <1>1, <1>2, <1>3, <1>4, <1>5, <1>6, ZenonT(40)

\* The n-th request is done.
LEMMA RequestDone ==
    ASSUME DiskFit, NEW n \in 1..16, Progress(n), Carry(Script[n])
    PROVE  DiskFit' /\ Progress(n + 1)'
<1> USE DEF DiskFit, HeldLeft, Regions
<1>1. CASE n \in {1, 3, 6, 8, 13, 15}
  <2>1. /\ holds' = holds /\ left' = [r \in Regions |-> left'[r]]
        /\ \A r \in Regions : left'[r] = IF holds[r] = "unknown" THEN left[r] ELSE {holds[r]}
    BY <1>1, ScriptAt, Flushed, Zenon
  <2>2. BootsWhole' /\ HeldLeft'
    BY <2>1 DEF BootsWhole
  <2>3. Progress(n + 1)'
    BY <1>1, <2>1 DEF Progress
  <2> QED
    BY <2>2, <2>3, Zenon
<1>2. CASE n \in {4, 9, 12, 16}
  <2>1. holds' = holds /\ left' = left
    BY <1>2, ScriptAt, WasRead, Zenon
  <2> QED
    BY <1>2, <2>1 DEF Progress, BootsWhole
<1>3. CASE n \in {2, 5, 7, 10, 11, 14}
  <2>1. PICK S, v : Script[n] = Write(S, v)
    BY <1>3, ScriptAt
  <2>2. /\ holds' = [r \in Regions |-> holds'[r]] /\ left' = [r \in Regions |-> left'[r]]
        /\ \A r \in Regions : holds'[r] = IF r \in S THEN v ELSE holds[r]
        /\ \A r \in Regions : left'[r] = IF r \in S THEN left[r] \cup Torn(r, v) ELSE left[r]
    <3> HIDE DEF HeldLeft, Regions
    <3>1. Carry(Write(S, v)) /\ HeldLeft
      BY <2>1, Zenon
    <3> QED
      BY <3>1, Written, Zenon
  <2>3. HeldLeft'
    BY <2>2 DEF Torn
  <2>4. Progress(n + 1)'
    BY <1>3, <2>1, <2>2, ScriptAt DEF Progress, Write
  <2> QED
    BY <1>3, <2>1, <2>2, <2>3, <2>4, WriteFits
<1> QED
  BY <1>1, <1>2, <1>3

\* The n-th request may have been done.
LEMMA RequestPerhaps ==
    ASSUME DiskFit, NEW n \in 1..16, Progress(n), Perhaps(Script[n])
    PROVE  DiskFit'
<1> USE DEF DiskFit, HeldLeft, Regions
<1>1. CASE n \in {1, 3, 6, 8, 13, 15} \cup {4, 9, 12, 16}
  <2>1. holds' = holds /\ left' = left
    BY <1>1, ScriptAt, PerhapsNothing, Zenon
  <2> QED
    BY <2>1 DEF BootsWhole
<1>2. CASE n \in {2, 5, 7, 10, 11, 14}
  <2>1. PICK S, v : Script[n] = Write(S, v)
    BY <1>2, ScriptAt
  <2>2. /\ holds' = [r \in Regions |-> holds'[r]] /\ left' = [r \in Regions |-> left'[r]]
        /\ \A r \in Regions : holds'[r] = IF r \in S THEN "unknown" ELSE holds[r]
        /\ \A r \in Regions : left'[r] = IF r \in S THEN left[r] \cup Torn(r, v) ELSE left[r]
    BY <2>1, PerhapsWritten, SMTT(30)
  <2>3. HeldLeft'
    BY <2>2, Zenon
  <2> QED
    BY <1>2, <2>1, <2>2, <2>3, WriteFits
<1> QED
  BY <1>1, <1>2

\* What was whole is whole when it is called old.
LEMMA Relabelled ==
    ASSUME DiskFit, Relabel
    PROVE  DiskFit' /\ Progress(1)'
<1> DEFINE old(v) == IF v = "new" THEN "old" ELSE v
<1>1. /\ holds' = [r \in Regions |-> old(holds[r])]
      /\ left' = [r \in Regions |-> {old(v) : v \in left[r]}]
  BY Zenon DEF Relabel
<1>2. HeldLeft'
  BY <1>1, Zenon DEF DiskFit, HeldLeft
<1>3. BootsWhole'
  <2> SUFFICES ASSUME NEW gpt \in left'["gpt"], NEW esp \in left'["esp"], NEW root \in left'["root"],
                      NEW bind \in left'["bind"], Boots(gpt, bind)
               PROVE  gpt = bind /\ esp = bind /\ root = bind
    BY Zenon DEF BootsWhole
  <2>1. PICK g \in left["gpt"], e \in left["esp"], f \in left["root"], b \in left["bind"] :
          gpt = old(g) /\ esp = old(e) /\ root = old(f) /\ bind = old(b)
    BY <1>1, Zenon DEF Regions
  <2>2. Boots(g, b)
    BY <2>1, Zenon DEF Boots
  <2> QED
    BY <2>1, <2>2, Zenon DEF DiskFit, BootsWhole
<1> QED
  BY <1>2, <1>3 DEF DiskFit, Progress
-----------------------------------------------------------------------------
\* A worker in its job is on a CPU, the job runs, and the disk is as far as
\* the worker is in the script; before the first request nothing was started.
RunsProgress ==
    \A w \in Workers : run[w].at \in InJob =>
        /\ OnCpu(w) /\ jobs[run[w].job].state = "Running"
        /\ run[w].at \in {"io", "request"} => run[w].step \in 1..16 /\ Progress(run[w].step)
        /\ run[w].at \in {"release", "complete"} => Progress(17)
        /\ run[w].at \in {"claim", "publish", "failed"} => ~jobs[run[w].job].io

\* A job that has started no request, by its state, and those in quarantine
\* are not cleaned up.
JobsTrue ==
    \A j \in Jobs :
        /\ jobs[j].state \in {"none", "Queued", "Failed", "Cancelled"} => ~jobs[j].io
        /\ jobs[j].internal = "Free" => jobs[j].state = "none"
        /\ jobs[j].internal = "Cleaning" => jobs[j].state # "Quarantined"

OutcomeInv == DiskFit /\ RunsProgress /\ JobsTrue

-----------------------------------------------------------------------------
\* What a caller makes of a job: it queues it, hands it over or takes it back,
\* cancels it, releases it and cleans it up.
CallerMakes(j, internal, state, io) ==
    \/ jobs[j].internal = "Free" /\ internal = "Preparing" /\ state = "Queued" /\ io = FALSE
    \/ /\ jobs[j].internal = "Preparing" /\ internal \in {"Preparing", "Published", "Cleaning"}
       /\ state = jobs[j].state /\ io = jobs[j].io
    \/ /\ jobs[j].internal = "Published" /\ jobs[j].state = "Queued"
       /\ internal = "Cleaning" /\ state = "Cancelled" /\ io = jobs[j].io
    \/ /\ jobs[j].internal = "Published" /\ jobs[j].state \in Finished
       /\ internal = "Cleaning" /\ state = jobs[j].state /\ io = jobs[j].io
    \/ /\ jobs[j].internal = "Cleaning" /\ internal \in {"Cleaning", "Published"}
       /\ state \in {jobs[j].state, "Quarantined"} /\ io = jobs[j].io
       /\ internal = "Cleaning" => state = jobs[j].state
    \/ jobs[j].internal = "Cleaning" /\ internal = "Free" /\ state = "none" /\ io = FALSE

CallerChanges(j) ==
    /\ \A k \in Jobs \ {j} : jobs'[k] = jobs[k]
    /\ CallerMakes(j, jobs'[j].internal, jobs'[j].state, jobs'[j].io)

\* The steps of a caller by what they make of a job.
LEMMA CallerEffect ==
    ASSUME JobsInv, NEW c \in Callers, Caller(c)
    PROVE  UNCHANGED jobs \/ \E j \in Jobs : CallerChanges(j)
<1>0. ASSUME NEW j \in Jobs, NEW i, NEW s, NEW o, NEW n, JobBecomes(j, i, s, o, n), CallerMakes(j, i, s, o)
      PROVE  \E k \in Jobs : CallerChanges(k)
  BY <1>0, Zenon DEF JobBecomes, CallerChanges
<1>1. ASSUME NEW t \in Targets, NEW j \in Jobs, Queue(c, t, j) PROVE \E k \in Jobs : CallerChanges(k)
  <2> DEFINE e == [internal |-> "Preparing", state |-> "Queued", handle |-> issued + 1, owner |-> c,
                   worker |-> NoTask, gen |-> 0, node |-> FALSE, pin |-> FALSE, io |-> FALSE]
  <2>1. [FreeJob EXCEPT !.internal = "Preparing", !.state = "Queued", !.handle = issued + 1, !.owner = c]
        = e
    BY NewJob, ZenonT(40) DEF FreeJob
  <2>2. e.internal = "Preparing" /\ e.state = "Queued" /\ e.io = FALSE /\ e.node = FALSE
    BY Zenon
  <2> HIDE DEF e
  <2>3. jobs' = [jobs EXCEPT ![j] = e] /\ jobs[j].internal = "Free"
    BY <1>1, <2>1, ZenonT(40) DEF Queue
  <2>4. JobBecomes(j, "Preparing", "Queued", FALSE, FALSE)
    BY <2>2, <2>3, Zenon DEF JobBecomes, JobsInv, Shaped
  <2> QED
    BY <1>0, <2>3, <2>4, Zenon DEF CallerMakes
<1> DEFINE j == call[c].job
<1>2. CASE Pin(c) \/ QueueDone(c)
  <2>1. j \in Jobs /\ jobs[j].internal = "Preparing"
    BY <1>2, ZenonT(40) DEF Pin, QueueDone, At, JobsInv, CallsOwn, Preparing
  <2>2. \/ UNCHANGED jobs
        \/ jobs' = [jobs EXCEPT ![j].pin = TRUE]
        \/ jobs' = [jobs EXCEPT ![j].internal = "Published", ![j].gen = targets[call[c].target].gen,
                                ![j].node = TRUE]
        \/ jobs' = [jobs EXCEPT ![j].internal = "Cleaning"]
    BY <1>2, ZenonT(40) DEF Pin, QueueDone
  <2>3. \/ UNCHANGED jobs
        \/ \E i \in {"Preparing", "Published", "Cleaning"}, n \in {jobs[j].node, TRUE} :
              JobBecomes(j, i, jobs[j].state, jobs[j].io, n)
    BY <2>1, <2>2, OneField, MoreFields, ZenonT(40)
  <2> QED
    BY <1>0, <2>1, <2>3, Zenon DEF CallerMakes
<1>3. CASE Cancel(c)
  <2>1. j \in Jobs
    BY <1>3, Zenon DEF Cancel, At, JobsInv, CallsOwn, Waiting
  <2>2. \/ UNCHANGED jobs
        \/ /\ jobs[j].internal = "Published" /\ jobs[j].state = "Queued"
           /\ jobs' = [jobs EXCEPT ![j].state = "Cancelled", ![j].internal = "Cleaning"]
    BY <1>3, Zenon DEF Cancel, Job
  <2>3. \/ UNCHANGED jobs
        \/ /\ jobs[j].internal = "Published" /\ jobs[j].state = "Queued"
           /\ JobBecomes(j, "Cleaning", "Cancelled", jobs[j].io, jobs[j].node)
    BY <2>1, <2>2, MoreFields, ZenonT(40)
  <2> QED
    BY <1>0, <2>1, <2>3, Zenon DEF CallerMakes
<1>4. ASSUME NEW k \in Jobs, AskCancel(c, k) \/ ReleaseJob(c, k)
      PROVE  UNCHANGED jobs \/ \E l \in Jobs : CallerChanges(l)
  <2>1. \/ UNCHANGED jobs
        \/ /\ jobs[k].internal = "Published" /\ jobs[k].state \in Finished
           /\ jobs' = [jobs EXCEPT ![k].internal = "Cleaning"]
    BY <1>4, ZenonT(40) DEF AskCancel, ReleaseJob, jobVars
  <2>2. \/ UNCHANGED jobs
        \/ /\ jobs[k].internal = "Published" /\ jobs[k].state \in Finished
           /\ JobBecomes(k, "Cleaning", jobs[k].state, jobs[k].io, jobs[k].node)
    BY <2>1, OneField, ZenonT(40)
  <2> QED
    BY <1>0, <2>2, Zenon DEF CallerMakes
<1>5. CASE Unpin(c) \/ Unref(c) \/ Cleaned(c)
  <2>1. j \in Jobs /\ jobs[j].internal = "Cleaning"
    BY <1>5, ZenonT(40) DEF Unpin, Unref, Cleaned, At, JobsInv, CallsOwn, Cleaning
  <2>2. \/ jobs' = [jobs EXCEPT ![j].pin = FALSE] \/ jobs' = [jobs EXCEPT ![j].node = FALSE]
        \/ jobs' = [jobs EXCEPT ![j].internal = "Published", ![j].state = "Quarantined"]
        \/ jobs' = [jobs EXCEPT ![j].internal = "Published"]
        \/ jobs' = [jobs EXCEPT ![j] = FreeJob]
    BY <1>5, ZenonT(40) DEF Unpin, Unref, Cleaned, CleanFails
  <2>3. CASE jobs' = [jobs EXCEPT ![j] = FreeJob]
    <3>1. JobBecomes(j, "Free", "none", FALSE, FALSE)
      BY <2>1, <2>3, Zenon DEF JobBecomes, JobsInv, Shaped, FreeJob
    <3> QED
      BY <1>0, <2>1, <3>1, Zenon DEF CallerMakes
  <2>4. CASE jobs' # [jobs EXCEPT ![j] = FreeJob]
    <3>1. \E n \in {jobs[j].node, FALSE} :
             \/ JobBecomes(j, "Cleaning", jobs[j].state, jobs[j].io, n)
             \/ JobBecomes(j, "Published", jobs[j].state, jobs[j].io, n)
             \/ JobBecomes(j, "Published", "Quarantined", jobs[j].io, n)
      BY <2>1, <2>2, <2>4, OneField, MoreFields, ZenonT(40)
    <3> QED
      BY <1>0, <2>1, <3>1, ZenonT(40) DEF CallerMakes
  <2> QED
    BY <2>3, <2>4, Zenon
<1>6. CASE UNCHANGED jobs
  BY <1>6, Zenon
<1> QED
  BY <1>1, <1>2, <1>3, <1>4, <1>5, <1>6, ZenonT(40)
     DEF Caller, Select, ReleaseTarget, Retain, Probe, Unprobe, SelectDone, CloseTarget,
         FreeTargetSlot,
         Dispatch, jobVars

\* What OutcomeIsTrue says of a step.
Honest ==
    \A j \in Jobs :
        /\ jobs[j].state # "Succeeded" /\ jobs'[j].state = "Succeeded" =>
              \A r \in Regions : left[r] = {"new"}
        /\ jobs'[j].state \in {"Failed", "Cancelled"} => ~jobs'[j].io
        /\ jobs[j].state = "Quarantined" => jobs'[j].state = "Quarantined"

\* Nothing starts so.
LEMMA OutcomeInitial == Init => OutcomeInv
<1> SUFFICES ASSUME Init PROVE OutcomeInv
  BY Zenon
<1>1. HeldLeft /\ BootsWhole
  BY DEF Init, DiskInit, HeldLeft, BootsWhole, Boots, Regions
<1>2. RunsProgress
  BY Zenon DEF Init, RunsProgress, NoRun, InJob
<1>3. JobsTrue
  BY Zenon DEF Init, JobsTrue, FreeJob
<1> QED
  BY <1>1, <1>2, <1>3, Zenon DEF OutcomeInv, DiskFit

\* The disk is left alone.
LEMMA DiskStays ==
    ASSUME DiskFit, UNCHANGED diskVars
    PROVE  DiskFit' /\ \A n \in 1..17 : Progress(n) => Progress(n)'
<1>1. holds' = holds /\ left' = left
  BY Zenon DEF diskVars
<1>2. DiskFit'
  <2>1. HeldLeft'
    BY <1>1, ZenonT(40) DEF DiskFit, HeldLeft
  <2>2. BootsWhole'
    BY <1>1, ZenonT(40) DEF DiskFit, BootsWhole
  <2> QED
    BY <2>1, <2>2, Zenon DEF DiskFit
<1>3. ASSUME NEW n \in 1..17, Progress(n) PROVE Progress(n)'
  BY <1>1, <1>3 DEF Progress
<1> QED
  BY <1>2, <1>3, Zenon

\* Two workers are not in jobs that run at the same time.
LEMMA OneWorker ==
    ASSUME JobsInv, OutcomeInv, NEW w \in Workers, run[w].at \in InJob,
           NEW u \in Workers, run[u].at \in InJob
    PROVE  u = w
<1>1. /\ run[w].job \in Jobs /\ jobs[run[w].job].worker = w /\ jobs[run[w].job].handle = admitted_job
      /\ run[u].job \in Jobs /\ jobs[run[u].job].worker = u /\ jobs[run[u].job].handle = admitted_job
      /\ jobs[run[w].job].internal = "Published"
  BY Zenon DEF JobsInv, RunsOwn, OneInstallation, OutcomeInv, RunsProgress
<1>2. jobs[run[w].job].handle # 0
  BY <1>1 DEF JobsInv, Shaped, HandlesApart
<1>3. run[w].job = run[u].job
  BY <1>1, <1>2, Zenon DEF JobsInv, HandlesApart
<1> QED
  BY <1>1, <1>3, Zenon

\* The workers do not notice steps that leave their jobs as they are.
LEMMA RunsStay ==
    ASSUME RunsProgress, UNCHANGED diskVars, DiskFit,
           \A w \in Workers : run'[w].at \in InJob =>
              /\ run'[w] = run[w] /\ OnCpu(w)'
              /\ jobs'[run[w].job].state = jobs[run[w].job].state /\ jobs'[run[w].job].io = jobs[run[w].job].io
    PROVE  RunsProgress'
<1> SUFFICES ASSUME NEW w \in Workers, run'[w].at \in InJob
             PROVE  /\ OnCpu(w)' /\ jobs'[run'[w].job].state = "Running"
                    /\ run'[w].at \in {"io", "request"} => run'[w].step \in 1..16 /\ Progress(run[w].step)'
                    /\ run'[w].at \in {"release", "complete"} => Progress(17)'
                    /\ run'[w].at \in {"claim", "publish", "failed"} => ~jobs'[run'[w].job].io
  BY Zenon DEF RunsProgress
<1>1. \A n \in 1..17 : Progress(n) => Progress(n)'
  BY DiskStays, Zenon
<1>2. 17 \in 1..17 /\ \A n \in 1..16 : n \in 1..17
  OBVIOUS
<1>3. run'[w] = run[w] /\ OnCpu(w)' /\ jobs'[run[w].job].state = "Running"
  BY Zenon DEF RunsProgress
<1>4. run[w].at \in {"io", "request"} => run[w].step \in 1..16 /\ Progress(run[w].step)'
  BY <1>1, <1>2, <1>3, Zenon DEF RunsProgress
<1>5. run[w].at \in {"release", "complete"} => Progress(17)'
  BY <1>1, <1>2, <1>3, Zenon DEF RunsProgress
<1> QED
  BY <1>3, <1>4, <1>5 DEF RunsProgress

\* A job that a caller changes does not run.
LEMMA CallerFits ==
    ASSUME JobsInv, OutcomeInv, NEW j \in Jobs, CallerChanges(j)
    PROVE  JobsTrue' /\ Honest /\ jobs[j].state # "Running"
<1>1. JobsTrue /\ StatesAgree
  BY Zenon DEF JobsInv, OutcomeInv
<1>2. jobs[j].state # "Running"
  BY <1>1, Zenon DEF CallerChanges, CallerMakes, StatesAgree, JobsTrue, Finished
<1>3. JobsTrue'
  BY <1>1 DEF CallerChanges, CallerMakes, StatesAgree, JobsTrue, Finished
<1>4. Honest
  BY <1>1, <1>3, Zenon DEF CallerChanges, CallerMakes, StatesAgree, JobsTrue, Finished, Honest
<1> QED
  BY <1>2, <1>3, <1>4, Zenon

\* Steps after which the jobs are as they were.
LEMMA JobsStay ==
    ASSUME OutcomeInv, UNCHANGED jobs
    PROVE  JobsTrue' /\ Honest
BY Zenon DEF OutcomeInv, JobsTrue, Honest

\* The steps of a caller.
LEMMA CallerOutcome ==
    ASSUME JobsInv, OutcomeInv, NEW c \in Callers, Caller(c)
    PROVE  OutcomeInv' /\ Honest
<1>1. UNCHANGED diskVars
  BY ZenonT(40) DEF Caller, Select, ReleaseTarget, Retain, Probe, Unprobe, SelectDone, CloseTarget,
     FreeTargetSlot, Queue, Pin, QueueDone, Dispatch, Cancel, Unpin, Unref, Cleaned, AskCancel, ReleaseJob
<1>2. CASE Dispatch(c)
  <2>1. UNCHANGED jobs
    BY <1>2, Zenon DEF Dispatch, jobVars
  <2>2. \A w \in Workers : run'[w].at \in InJob => run'[w] = run[w] /\ OnCpu(w)'
    <3>1. ASSUME NEW u \in Workers, status[u] = "none", status' = [status EXCEPT ![u] = "run"],
                 run' = [run EXCEPT ![u] = [NoRun EXCEPT !.at = "start", !.handle = Job(c).handle]]
          PROVE  \A w \in Workers : run'[w].at \in InJob => run'[w] = run[w] /\ OnCpu(w)'
      <4>1. RunMoves(u, "start", {}, Job(c).handle)
        BY <3>1, RunGoMoves, ZenonT(40)
      <4> QED
        BY <3>1, <4>1, InstallerAssumption
           DEF RunMoves, InJob, OutcomeInv, RunsProgress, OnCpu, JobsInv, WorkersLive
    <3>2. CASE UNCHANGED <<status, run>>
      BY <3>2, Zenon DEF OutcomeInv, RunsProgress, OnCpu
    <3> QED
      BY <1>2, <3>1, <3>2, Zenon DEF Dispatch
  <2> QED
    BY <1>1, <2>1, <2>2, JobsStay, DiskStays, RunsStay, Zenon DEF OutcomeInv
<1>3. CASE UNCHANGED <<status, run>>
  <2>1. CASE UNCHANGED jobs
    <3>1. \A w \in Workers : run'[w].at \in InJob =>
             /\ run'[w] = run[w] /\ OnCpu(w)'
             /\ jobs'[run[w].job].state = jobs[run[w].job].state /\ jobs'[run[w].job].io = jobs[run[w].job].io
      BY <1>3, <2>1, Zenon DEF OutcomeInv, RunsProgress, OnCpu
    <3>2. RunsProgress'
      BY <1>1, <3>1, RunsStay, Zenon DEF OutcomeInv
    <3> QED
      BY <1>1, <2>1, <3>2, JobsStay, DiskStays, Zenon DEF OutcomeInv
  <2>2. ASSUME NEW j \in Jobs, CallerChanges(j) PROVE OutcomeInv' /\ Honest
    <3>1. JobsTrue' /\ Honest /\ jobs[j].state # "Running"
      BY <2>2, CallerFits, Zenon
    <3>2. \A w \in Workers : run[w].at \in InJob => run[w].job \in Jobs /\ jobs'[run[w].job] = jobs[run[w].job]
      <4> SUFFICES ASSUME NEW w \in Workers, run[w].at \in InJob
                   PROVE  run[w].job \in Jobs /\ jobs'[run[w].job] = jobs[run[w].job]
        BY Zenon
      <4>1. run[w].job \in Jobs /\ jobs[run[w].job].state = "Running"
        BY Zenon DEF JobsInv, RunsOwn, OutcomeInv, RunsProgress
      <4>2. run[w].job # j
        BY <3>1, <4>1, Zenon
      <4> QED
        BY <2>2, <4>1, <4>2, Zenon DEF CallerChanges
    <3> QED
      BY <1>1, <1>3, <3>1, <3>2, DiskStays, RunsStay DEF OutcomeInv, RunsProgress, OnCpu
  <2> QED
    BY <2>1, <2>2, CallerEffect, ZenonT(40)
<1> QED
  BY <1>2, <1>3, ZenonT(40)
     DEF Caller, Select, ReleaseTarget, Retain, Probe, Unprobe, SelectDone, CloseTarget,
     FreeTargetSlot, Queue, Pin, QueueDone, Cancel, Unpin, Unref, CleanFails, Cleaned, AskCancel, ReleaseJob,
     accessVars

\* Where a worker is in the script after its move.
LEMMA RunSteps ==
    ASSUME JobsInv, NEW w \in Workers, NEW x, NEW n
    PROVE  /\ RunGo(w, x) => run'[w].step = run[w].step
           /\ run' = [run EXCEPT ![w].at = x, ![w].step = n] => run'[w].step = n
           /\ run' = [run EXCEPT ![w].step = n, ![w].at = x] => run'[w].step = n
<1> DEFINE a == [run EXCEPT ![w].at = x]
           b == [run EXCEPT ![w].step = n]
<1>1. /\ [run EXCEPT ![w].at = x, ![w].step = n] = [a EXCEPT ![w].step = n]
      /\ [run EXCEPT ![w].step = n, ![w].at = x] = [b EXCEPT ![w].at = x]
  BY Zenon
<1>2. /\ a = [v \in Workers |-> a[v]]
      /\ a[w] = [at |-> x, job |-> run[w].job, handle |-> run[w].handle, step |-> run[w].step]
  BY DEF JobsInv, Shaped
<1>3. /\ b = [v \in Workers |-> b[v]]
      /\ b[w] = [at |-> run[w].at, job |-> run[w].job, handle |-> run[w].handle, step |-> n]
  BY DEF JobsInv, Shaped
<1>4. RunGo(w, x) => run'[w].step = run[w].step
  BY <1>2, Zenon DEF RunGo
<1> HIDE DEF a, b
<1>5. run' = [a EXCEPT ![w].step = n] => run'[w].step = n
  BY <1>2, Zenon
<1>6. run' = [b EXCEPT ![w].at = x] => run'[w].step = n
  BY <1>3
<1> QED
  BY <1>1, <1>4, <1>5, <1>6, ZenonT(40)

\* A worker moves while no other is in a job.
LEMMA OnlyWorker ==
    ASSUME NEW w \in Workers, NEW y, NEW k, NEW h, NEW n, RunMoves(w, y, k, h), run'[w].step = n,
           \A u \in Workers \ {w} : run[u].at \notin InJob,
           y \in InJob =>
              /\ OnCpu(w)' /\ jobs'[k].state = "Running"
              /\ y \in {"io", "request"} => n \in 1..16 /\ Progress(n)'
              /\ y \in {"release", "complete"} => Progress(17)'
              /\ y \in {"claim", "publish", "failed"} => ~jobs'[k].io
    PROVE  RunsProgress'
<1>1. /\ run'[w].at = y /\ run'[w].job = k
      /\ \A u \in Workers \ {w} : run'[u].at \notin InJob
  BY DEF RunMoves
<1> QED
  BY <1>1, Zenon DEF RunsProgress

\* jobs_run takes a job that is queued; no other runs.
LEMMA BeginOutcome ==
    ASSUME JobsInv, OutcomeInv, NEW w \in Workers, RunBegin(w)
    PROVE  OutcomeInv' /\ Honest
<1>0. UNCHANGED <<status, diskVars>> /\ OnCpu(w) /\ run[w].at = "start" /\ DiskFit'
  BY DiskStays, Zenon DEF RunBegin, RunAt, accessVars, OutcomeInv
<1>1. CASE UNCHANGED jobs /\ Exit(w)
  <2>1. RunMoves(w, "exit", {}, 0)
    BY <1>1, ExitMoves, Zenon
  <2>2. \A u \in Workers : run'[u].at \in InJob => run'[u] = run[u] /\ OnCpu(u)'
    BY <1>0, <2>1 DEF RunMoves, InJob, OutcomeInv, RunsProgress, OnCpu
  <2> QED
    BY <1>0, <1>1, <2>2, JobsStay, RunsStay DEF OutcomeInv
<1>2. CASE \E j \in Jobs : /\ jobs[j].handle = run[w].handle /\ jobs[j].internal = "Published"
                          /\ jobs[j].state = "Queued"
  <2> DEFINE j == CHOOSE k \in Jobs : jobs[k].handle = run[w].handle
  <2>1. /\ j \in Jobs /\ jobs[j].handle = run[w].handle
        /\ jobs[j].internal = "Published" /\ jobs[j].state = "Queued" /\ jobs[j].handle # 0
    <3>1. PICK l \in Jobs : /\ jobs[l].handle = run[w].handle /\ jobs[l].internal = "Published"
                            /\ jobs[l].state = "Queued"
      BY <1>2, Zenon
    <3>2. j \in Jobs /\ jobs[j].handle = run[w].handle
      BY <3>1, Zenon
    <3>3. jobs[l].handle # 0
      BY <3>1 DEF JobsInv, Shaped, HandlesApart
    <3>4. j = l
      BY <3>1, <3>2, <3>3, Zenon DEF JobsInv, HandlesApart
    <3> QED
      BY <3>1, <3>3, <3>4, ZenonT(40)
  <2>2. CASE /\ jobs' = [jobs EXCEPT ![j].worker = w, ![j].state = "Running"]
             /\ run' = [run EXCEPT ![w].at = "claim", ![w].job = j]
    <3> HIDE DEF j
    <3>1. JobBecomes(j, jobs[j].internal, "Running", jobs[j].io, jobs[j].node)
      BY <2>1, <2>2, MoreFields, ZenonT(40)
    <3>2. RunMoves(w, "claim", j, run[w].handle)
      BY <2>2, RunGoMoves, ZenonT(40)
    <3>3. \A u \in Workers \ {w} : run[u].at \notin InJob
      BY <2>1 DEF JobsInv, HandlesApart, RunsOwn, OneInstallation, OutcomeInv, RunsProgress
    <3>4. JobsTrue' /\ Honest /\ ~jobs'[j].io /\ jobs'[j].state = "Running"
      BY <2>1, <3>1 DEF JobBecomes, OutcomeInv, JobsTrue, Honest
    <3>5. OnCpu(w)'
      BY <1>0, Zenon DEF OnCpu
    <3>6. RunsProgress'
      BY <3>2, <3>3, <3>4, <3>5, OnlyWorker, Zenon
    <3> QED
      BY <1>0, <3>4, <3>6, Zenon DEF OutcomeInv
  <2>3. CASE UNCHANGED jobs /\ Exit(w)
    BY <1>1, <2>3, Zenon
  <2> HIDE DEF j
  <2> QED
    BY <2>2, <2>3, Zenon DEF RunBegin, j
<1> QED
  BY <1>1, <1>2, Zenon DEF RunBegin

\* A factory that moves on with the job as it is.
LEMMA FactoryMoves ==
    ASSUME JobsInv, OutcomeInv, NEW w \in Workers, run[w].at \in InJob, OnCpu(w), UNCHANGED <<status, jobs>>,
           NEW y, NEW n, RunMoves(w, y, run[w].job, run[w].handle), run'[w].step = n, DiskFit',
           y \in {"io", "request"} => n \in 1..16 /\ Progress(n)',
           y \in {"release", "complete"} => Progress(17)',
           y \in {"claim", "publish", "failed"} => ~jobs[run[w].job].io
    PROVE  OutcomeInv' /\ Honest
<1>1. JobsTrue' /\ Honest
  BY JobsStay, Zenon
<1>2. \A u \in Workers \ {w} : run[u].at \notin InJob
  BY OneWorker, Zenon
<1>3. OnCpu(w)' /\ jobs'[run[w].job].state = "Running"
  BY Zenon DEF OnCpu, OutcomeInv, RunsProgress
<1> DEFINE k == run[w].job
           h == run[w].handle
<1>4. RunMoves(w, y, k, h) /\ (y \in {"claim", "publish", "failed"} => ~jobs'[k].io)
  BY Zenon
<1>5. jobs'[k].state = "Running"
  BY <1>3, Zenon
<1> HIDE DEF k, h
<1>6. RunsProgress'
  BY <1>2, <1>3, <1>4, <1>5, OnlyWorker
<1> QED
  BY <1>1, <1>6, Zenon DEF OutcomeInv

\* The factory before its first request, and after its last.
LEMMA EdgesOutcome ==
    ASSUME JobsInv, OutcomeInv, NEW w \in Workers, FactoryClaim(w) \/ FactoryPublish(w) \/ FactoryRelease(w)
    PROVE  OutcomeInv' /\ Honest
<1>0. UNCHANGED <<status, jobs>> /\ OnCpu(w) /\ run[w].at \in {"claim", "publish", "release"}
  BY ZenonT(40) DEF FactoryClaim, FactoryPublish, FactoryRelease, RunAt, jobVars, accessVars
<1>1. run[w].at \in InJob
  BY <1>0, Zenon DEF InJob
<1>2. DiskFit
  BY Zenon DEF OutcomeInv
<1>3. CASE FactoryPublish(w) /\ Relabel /\ run' = [run EXCEPT ![w].at = "io", ![w].step = 1]
  <2>1. RunMoves(w, "io", run[w].job, run[w].handle) /\ run'[w].step = 1
    BY <1>3, RunGoMoves, RunSteps, ZenonT(40)
  <2>2. DiskFit' /\ Progress(1)'
    BY <1>2, <1>3, Relabelled, Zenon
  <2>3. 1 \in 1..16 /\ "io" \notin {"release", "complete"} /\ "io" \notin {"claim", "publish", "failed"}
    OBVIOUS
  <2> QED
    BY <1>0, <1>1, <2>1, <2>2, <2>3, FactoryMoves
<1>4. CASE /\ UNCHANGED diskVars
           /\ \E y \in {"publish", "failed"} : RunGo(w, y)
           /\ run[w].at \in {"claim", "publish"}
  <2>1. PICK y \in {"publish", "failed"} : RunGo(w, y)
    BY <1>4, Zenon
  <2>2. RunMoves(w, y, run[w].job, run[w].handle) /\ DiskFit'
    BY <1>2, <1>4, <2>1, RunGoMoves, DiskStays, ZenonT(40)
  <2>3. ~jobs[run[w].job].io
    BY <1>1, <1>4, Zenon DEF OutcomeInv, RunsProgress
  <2> QED
    BY <1>0, <1>1, <2>2, <2>3, FactoryMoves
<1>5. CASE /\ UNCHANGED diskVars
           /\ \E y \in {"complete", "broken"} : RunGo(w, y)
           /\ run[w].at = "release"
  <2>1. PICK y \in {"complete", "broken"} : RunGo(w, y)
    BY <1>5, Zenon
  <2>2. RunMoves(w, y, run[w].job, run[w].handle) /\ DiskFit'
    BY <1>2, <1>5, <2>1, RunGoMoves, DiskStays, ZenonT(40)
  <2>3. Progress(17)'
    BY <1>1, <1>2, <1>5, DiskStays DEF OutcomeInv, RunsProgress
  <2> QED
    BY <1>0, <1>1, <2>2, <2>3, FactoryMoves, ZenonT(40)
<1> QED
  BY <1>3, <1>4, <1>5, ZenonT(40) DEF FactoryClaim, FactoryPublish, FactoryRelease, RunAt

\* A request begins: from now on the job has started some.
LEMMA RequestOutcome ==
    ASSUME JobsInv, OutcomeInv, NEW w \in Workers, FactoryBegin(w)
    PROVE  OutcomeInv' /\ Honest
<1>0. UNCHANGED <<status, diskVars>> /\ OnCpu(w) /\ run[w].at = "io"
  BY ZenonT(40) DEF FactoryBegin, RunAt
<1>1. run[w].at \in InJob
  BY <1>0, Zenon DEF InJob
<1>2. DiskFit' /\ run[w].step \in 1..16 /\ run[w].job \in Jobs /\ jobs[run[w].job].state = "Running"
  BY <1>0, <1>1, DiskStays, ZenonT(40) DEF OutcomeInv, RunsProgress, JobsInv, RunsOwn
<1>3. CASE UNCHANGED jobs /\ RunGo(w, "broken")
  <2>1. RunMoves(w, "broken", run[w].job, run[w].handle)
    BY <1>3, RunGoMoves, ZenonT(40)
  <2> QED
    BY <1>0, <1>1, <1>2, <1>3, <2>1, FactoryMoves, ZenonT(40)
<1>4. CASE jobs' = [jobs EXCEPT ![run[w].job].io = TRUE] /\ RunGo(w, "request")
  <2> DEFINE j == run[w].job
             n == run[w].step
             h == run[w].handle
  <2>1. JobBecomes(j, jobs[j].internal, jobs[j].state, TRUE, jobs[j].node)
    BY <1>2, <1>4, OneField, ZenonT(40)
  <2>2. RunMoves(w, "request", j, h) /\ run'[w].step = n
    BY <1>4, RunGoMoves, RunSteps, ZenonT(40)
  <2>3. JobsTrue' /\ Honest /\ jobs'[j].state = "Running"
    BY <1>2, <2>1, SMTT(30) DEF JobBecomes, OutcomeInv, JobsTrue, Honest
  <2>4. n \in 1..16 /\ n \in 1..17 /\ Progress(n)
    BY <1>0, <1>1, <1>2 DEF OutcomeInv, RunsProgress
  <2>5. \A u \in Workers \ {w} : run[u].at \notin InJob
    BY <1>1, OneWorker, Zenon
  <2>6. \A m \in 1..17 : Progress(m) => Progress(m)'
    BY <1>0, DiskStays, Zenon DEF OutcomeInv
  <2>7. OnCpu(w)'
    BY <1>0, Zenon DEF OnCpu
  <2>8. \E m \in 1..16 : m = n /\ Progress(m)'
    BY <2>4, <2>6, ZenonT(40)
  <2> HIDE DEF j, n, h
  <2>9. RunsProgress'
    BY <2>2, <2>3, <2>5, <2>7, <2>8, OnlyWorker, SMTT(30)
  <2> QED
    BY <1>2, <2>3, <2>9, Zenon DEF OutcomeInv
<1> QED
  BY <1>3, <1>4, Zenon DEF FactoryBegin

\* A request ends.
LEMMA AnswerOutcome ==
    ASSUME JobsInv, OutcomeInv, NEW w \in Workers, FactoryEnd(w)
    PROVE  OutcomeInv' /\ Honest
<1>0. UNCHANGED <<status, jobs>> /\ OnCpu(w) /\ run[w].at = "request"
  BY ZenonT(40) DEF FactoryEnd, RunAt, jobVars
<1>1. run[w].at \in InJob
  BY <1>0, Zenon DEF InJob
<1>2. PICK n \in 1..16 : n = run[w].step /\ Progress(n)
  BY <1>0, <1>1, Zenon DEF OutcomeInv, RunsProgress
<1>3. DiskFit
  BY Zenon DEF OutcomeInv
<1>4. CASE /\ Carry(Script[n])
           /\ run' = [run EXCEPT ![w].step = n + 1, ![w].at = IF n = Len(Script) THEN "release" ELSE "io"]
  <2> DEFINE y == IF n = Len(Script) THEN "release" ELSE "io"
             m == n + 1
  <2>1. DiskFit' /\ Progress(m)'
    BY <1>2, <1>3, <1>4, RequestDone, ZenonT(40)
  <2>2. y \in {"release", "io"} /\ (y = "io" => m \in 1..16) /\ (y = "release" => m = 17)
    BY ScriptAt
  <2>3. run' = [run EXCEPT ![w].step = m, ![w].at = y]
    BY <1>4, Zenon
  <2> HIDE DEF y, m
  <2>4. RunMoves(w, y, run[w].job, run[w].handle) /\ run'[w].step = m
    BY <2>3, RunGoMoves, RunSteps, ZenonT(40)
  <2> QED
    BY <1>0, <1>1, <2>1, <2>2, <2>4, FactoryMoves, SMTT(30)
<1>5. CASE Perhaps(Script[n]) /\ RunGo(w, "broken")
  <2>1. DiskFit'
    BY <1>2, <1>3, <1>5, RequestPerhaps, Zenon
  <2>2. RunMoves(w, "broken", run[w].job, run[w].handle)
    BY <1>5, RunGoMoves, ZenonT(40)
  <2> QED
    BY <1>0, <1>1, <2>1, <2>2, FactoryMoves, ZenonT(40)
<1> QED
  BY <1>2, <1>4, <1>5, Zenon DEF FactoryEnd

\* jobs_run reports.
LEMMA EndOutcome ==
    ASSUME JobsInv, OutcomeInv, NEW w \in Workers, RunEnd(w)
    PROVE  OutcomeInv' /\ Honest
<1> DEFINE j == run[w].job
<1>0. run[w].at \in InJob /\ UNCHANGED <<status, diskVars>> /\ run[w].at \in {"complete", "failed", "broken"}
  BY Zenon DEF RunEnd, InJob, accessVars
<1>1. j \in Jobs /\ jobs[j].state = "Running" /\ jobs[j].internal = "Published" /\ DiskFit'
  BY <1>0, DiskStays, Zenon DEF JobsInv, RunsOwn, OutcomeInv, RunsProgress
<1>2. JobBecomes(j, "Published", Outcome(run[w].at), jobs[j].io, jobs[j].node)
  BY <1>1, OneField, Zenon DEF RunEnd
<1>3. RunMoves(w, "exit", {}, 0) /\ "exit" \notin InJob
  BY ExitMoves, Zenon DEF RunEnd, InJob
<1>4. RunsProgress'
  BY <1>0, <1>3, OneWorker, OnlyWorker, ZenonT(40)
<1>5. run[w].at = "complete" => \A r \in Regions : left[r] = {"new"}
  BY <1>0 DEF OutcomeInv, RunsProgress, Progress, Regions
<1>6. run[w].at = "failed" => ~jobs[j].io
  BY <1>0, ZenonT(40) DEF OutcomeInv, RunsProgress
<1>7. JobsTrue' /\ Honest
  <2>1. /\ Outcome("complete") = "Succeeded" /\ Outcome("failed") = "Failed"
        /\ Outcome("broken") = "Quarantined"
    BY Zenon DEF Outcome
  <2> HIDE DEF j
  <2>2. /\ \A k \in Jobs \ {j} : jobs'[k] = jobs[k]
        /\ jobs'[j].internal = "Published" /\ jobs'[j].state = Outcome(run[w].at) /\ jobs'[j].io = jobs[j].io
    BY <1>2, Zenon DEF JobBecomes
  <2>3. \/ run[w].at = "complete" /\ jobs'[j].state = "Succeeded"
        \/ run[w].at = "failed" /\ jobs'[j].state = "Failed"
        \/ run[w].at = "broken" /\ jobs'[j].state = "Quarantined"
    BY <1>0, <2>1, <2>2, Zenon
  <2>4. /\ "Succeeded" \notin {"none", "Queued", "Failed", "Cancelled"}
        /\ "Quarantined" \notin {"none", "Queued", "Failed", "Cancelled"}
        /\ "Published" # "Free" /\ "Published" # "Cleaning" /\ "Running" # "Quarantined"
        /\ "Failed" # "Succeeded" /\ "Quarantined" # "Succeeded"
        /\ \A s \in {"Failed", "Cancelled"} : s \in {"none", "Queued", "Failed", "Cancelled"}
    BY SMT
  <2>5. jobs'[j].state \in {"none", "Queued", "Failed", "Cancelled"} => ~jobs'[j].io
    BY <1>6, <2>2, <2>3, <2>4, Zenon
  <2>6. JobsTrue'
    BY <2>2, <2>4, <2>5, Zenon DEF OutcomeInv, JobsTrue
  <2>7. Honest
    BY <1>1, <1>5, <2>2, <2>3, <2>4, <2>5, Zenon DEF OutcomeInv, JobsTrue, Honest
  <2> QED
    BY <2>6, <2>7, Zenon
<1> QED
  BY <1>1, <1>4, <1>7, Zenon DEF OutcomeInv

\* The jobs of threads that stopped are put in quarantine; no worker is in
\* one of them any more.
LEMMA WithdrawnOutcome ==
    ASSUME JobsInv, OutcomeInv, NEW S, Withdrawn(S), \A s \in S : status[s] = "dead",
           UNCHANGED <<diskVars, run>>, \A s \in Tasks : status[s] # "dead" => status'[s] = status[s]
    PROVE  OutcomeInv' /\ Honest
<1>1. \A j \in Jobs : \/ jobs'[j] = jobs[j]
                      \/ /\ jobs[j].internal = "Published" /\ jobs[j].state = "Running"
                         /\ jobs[j].worker \in S
                         /\ jobs'[j] = [jobs[j] EXCEPT !.state = "Quarantined"]
  BY Zenon DEF Withdrawn
<1>2. \A j \in Jobs : \/ jobs'[j] = jobs[j]
                      \/ /\ jobs[j].internal = "Published" /\ jobs[j].state = "Running"
                         /\ jobs[j].worker \in S
                         /\ jobs'[j].internal = "Published" /\ jobs'[j].state = "Quarantined"
  <2> SUFFICES ASSUME NEW j \in Jobs, jobs[j].internal = "Published", jobs[j].state = "Running",
                      jobs'[j] = [jobs[j] EXCEPT !.state = "Quarantined"]
               PROVE  jobs'[j].internal = "Published" /\ jobs'[j].state = "Quarantined"
    BY <1>1, ZenonT(40)
  <2>1. jobs[j] = [internal |-> jobs[j].internal, state |-> jobs[j].state,
                   handle |-> jobs[j].handle, owner |-> jobs[j].owner,
                   worker |-> jobs[j].worker, gen |-> jobs[j].gen, node |-> jobs[j].node,
                   pin |-> jobs[j].pin, io |-> jobs[j].io]
    BY Zenon DEF JobsInv, Shaped
  <2> QED
    BY <2>1, Zenon
<1>3. JobsTrue' /\ Honest
  BY <1>2 DEF OutcomeInv, JobsTrue, Honest
<1>4. \A w \in Workers : run[w].at \in InJob => OnCpu(w)' /\ jobs'[run[w].job] = jobs[run[w].job]
  <2> SUFFICES ASSUME NEW w \in Workers, run[w].at \in InJob
               PROVE  OnCpu(w)' /\ jobs'[run[w].job] = jobs[run[w].job]
    BY Zenon
  <2>1. w \in Tasks /\ OnCpu(w) /\ run[w].job \in Jobs /\ jobs[run[w].job].worker = w
    BY InstallerAssumption, Zenon DEF JobsInv, RunsOwn, OutcomeInv, RunsProgress
  <2>2. status[w] # "dead"
    BY <2>1, SMT DEF OnCpu
  <2>3. OnCpu(w)'
    BY <2>1, <2>2, Zenon DEF OnCpu
  <2>4. jobs[run[w].job].worker \notin S
    BY <2>1, <2>2, Zenon
  <2> QED
    BY <1>2, <2>1, <2>3, <2>4, Zenon
<1>5. RunsProgress'
  BY <1>4, RunsStay, Zenon DEF OutcomeInv
<1> QED
  BY <1>3, <1>5, DiskStays, Zenon DEF OutcomeInv

\* A thread stops, perhaps in the middle of a request.
LEMMA StopOutcome ==
    ASSUME JobsInv, OutcomeInv, NEW s \in Tasks, Stop(s)
    PROVE  OutcomeInv' /\ Honest
<1>0. /\ JobsTrue' /\ Honest /\ jobs' = jobs
      /\ \A w \in Workers \ {s} : run'[w] = run[w] /\ OnCpu(w)' = OnCpu(w)
  BY JobsStay, InstallerAssumption, Zenon DEF Stop, jobVars, JobsInv, WorkersLive, OnCpu
<1>1. CASE s \in Workers /\ run[s].at = "request"
  <2>1. run[s].at \in InJob
    BY <1>1, Zenon DEF InJob
  <2>2. PICK n \in 1..16 : n = run[s].step /\ Progress(n)
    BY <1>1, <2>1, Zenon DEF OutcomeInv, RunsProgress
  <2>3. DiskFit'
    BY <1>1, <2>2, RequestPerhaps, Zenon DEF OutcomeInv, Stop
  <2>4. \A w \in Workers \ {s} : run[w].at \notin InJob
    BY <1>1, <2>1, OneWorker, Zenon
  <2>5. RunMoves(s, "exit", {}, 0) /\ "exit" \notin InJob
    BY <1>1, ExitMoves, Zenon DEF Stop, InJob
  <2>6. RunsProgress'
    BY <1>1, <2>4, <2>5, OnlyWorker, Zenon
  <2> QED
    BY <1>0, <2>3, <2>6, Zenon DEF OutcomeInv
<1>2. CASE ~(s \in Workers /\ run[s].at = "request")
  <2>1. UNCHANGED diskVars
    BY <1>2, Zenon DEF Stop
  <2>2. s \in Workers => run'[s].at = "exit"
    BY Zenon DEF Stop, GoneRun, NoRun
  <2>3. \A w \in Workers : run'[w].at \in InJob => run'[w] = run[w] /\ OnCpu(w)'
    BY <1>0, <2>2, Zenon DEF OutcomeInv, RunsProgress, InJob
  <2> QED
    BY <1>0, <2>1, <2>3, RunsStay, DiskStays DEF OutcomeInv
<1> QED
  BY <1>1, <1>2, Zenon

\* The steps of tasks other than callers and workers, and the ones of nobody.
LEMMA OthersOutcome ==
    ASSUME JobsInv, OutcomeInv, UNCHANGED <<diskVars, jobs, run>>,
           \A s \in Tasks : status[s] \in {"run", "dying"} => status'[s] \in {"run", "dying"}
    PROVE  OutcomeInv' /\ Honest
<1>1. \A w \in Workers : run[w].at \in InJob => OnCpu(w)'
  BY InstallerAssumption, Zenon DEF OutcomeInv, RunsProgress, OnCpu
<1> QED
  BY <1>1, JobsStay, RunsStay, DiskStays, Zenon DEF OutcomeInv

\* Every step keeps the invariant and is honest.
LEMMA OutcomeStep == JobsInv /\ OutcomeInv /\ [Next]_vars => OutcomeInv' /\ Honest
<1> SUFFICES ASSUME JobsInv, OutcomeInv, [Next]_vars PROVE OutcomeInv' /\ Honest
  BY Zenon
<1>1. CASE \E c \in Callers : Caller(c)
  BY <1>1, CallerOutcome, Zenon
<1>2. CASE \E w \in Workers : WorkerStep(w)
  BY <1>2, BeginOutcome, EdgesOutcome, RequestOutcome, AnswerOutcome, EndOutcome, SMTT(30)
     DEF WorkerStep
<1>3. ASSUME NEW s \in Tasks, Kill(s) PROVE OutcomeInv' /\ Honest
  <2>1. \A t \in Tasks : status[t] \in {"run", "dying"} => status'[t] \in {"run", "dying"}
    BY <1>3, Zenon DEF Kill, JobsInv, WorkersLive
  <2> QED
    BY <1>3, <2>1, OthersOutcome, Zenon DEF Kill, jobVars
<1>4. ASSUME NEW s \in Tasks, Stop(s) PROVE OutcomeInv' /\ Honest
  BY <1>4, StopOutcome, Zenon
<1>5. ASSUME NEW s \in Tasks, FreeTask(s) PROVE OutcomeInv' /\ Honest
  <2>1. Withdrawn({s}) /\ status[s] = "dead" /\ UNCHANGED <<diskVars, run>>
    BY <1>5, Zenon DEF FreeTask, AbandonWorker
  <2>2. \A t \in Tasks : status[t] # "dead" => status'[t] = status[t]
    BY <1>5, <2>1, Zenon DEF FreeTask, JobsInv, WorkersLive
  <2> QED
    BY <2>1, <2>2, WithdrawnOutcome, Zenon
<1>6. CASE ReapJobs
  BY <1>6, WithdrawnOutcome, Zenon DEF ReapJobs, Stopped, accessVars
<1>7. CASE ReapAccess \/ Revoke \/ OthersBegin \/ OthersEnd \/ UNCHANGED vars
  <2>1. UNCHANGED status
    BY <1>7, ZenonT(40)
       DEF ReapAccess, Revoke, OthersBegin, OthersEnd, vars, accessVars, Unregister, Mount,
       ScanBegin, IoBegin, RegisterSlice, Register, Unmount, ScanEnd, IoEnd
  <2>2. UNCHANGED <<diskVars, jobs, run>>
    BY <1>7, ZenonT(40) DEF ReapAccess, Revoke, OthersBegin, OthersEnd, vars, jobVars
  <2> QED
    BY <2>1, <2>2, OthersOutcome, Zenon
<1> QED
  BY <1>1, <1>2, <1>3, <1>4, <1>5, <1>6, <1>7, SMTT(30) DEF Next

\* A power cut at any point of any installation (execute of factory.cpp, with
\* requests that fail and workers killed in the middle of one) leaves a disk
\* that boots all of one system or nothing.
THEOREM PowerCutsHarmless == Spec => []BootsWhole
<1>1. OutcomeInv => BootsWhole
  BY Zenon DEF OutcomeInv, DiskFit
<1> QED
  BY <1>1, JobsInitial, JobsStep, OutcomeInitial, OutcomeStep, PTL DEF Spec

\* What jobs_run, jobs_cancel_queued, clean_job and the reaper's pass report
\* of a job is what happened to the disk.
THEOREM ReportsAreTrue == Spec => OutcomeIsTrue
<1>1. JobsInv /\ OutcomeInv /\ [Next]_vars => [Honest]_vars
  BY OutcomeStep, Zenon
<1>2. OutcomeIsTrue <=> [][Honest]_vars
  BY Zenon DEF OutcomeIsTrue, Honest
<1> QED
  BY <1>1, <1>2, JobsInitial, JobsStep, OutcomeInitial, OutcomeStep, PTL DEF Spec

=============================================================================
