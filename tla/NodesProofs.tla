---------------------------- MODULE NodesProofs ----------------------------
(***************************************************************************)
(* The references to the device node: targets and jobs account for every   *)
(* one of them, for any number of threads, slots, handles and faults.      *)
(***************************************************************************)
EXTENDS InstallerProofs, FiniteSetTheorems

Selecting == {"retain", "probe", "unprobe", "selected", "select_fails"}
Closing == {"close_target", "free_target"}

\* The tables of targets.
TargetsShaped ==
    /\ targets = [t \in Targets |-> targets[t]]
    /\ \A t \in Targets : targets[t] = [state |-> targets[t].state, owner |-> targets[t].owner,
                                        gen |-> targets[t].gen, node |-> targets[t].node]

\* The target a caller works on is its own, and in the state it left it in.
TargetsOwn ==
    \A c \in Callers :
        /\ call[c].at \in Selecting \cup Closing \cup Preparing =>
              call[c].target \in Targets /\ targets[call[c].target].owner = c
        /\ call[c].at \in Selecting => targets[call[c].target].state = "Preparing"
        /\ call[c].at \in Closing => targets[call[c].target].state = "Cleaning"
        /\ call[c].at \in Preparing => targets[call[c].target].state = "Borrowed"

\* Who has a reference.
NodesAgree ==
    /\ \A t \in Targets : /\ targets[t].node \in BOOLEAN
                          /\ targets[t].state = "Free" => ~targets[t].node
                          /\ targets[t].state \in {"Selected", "Borrowed"} => targets[t].node
    /\ \A j \in Jobs : /\ jobs[j].node \in BOOLEAN
                       /\ jobs[j].internal \in {"Free", "Preparing"} => ~jobs[j].node
    /\ \A c \in Callers : /\ call[c].at = "retain" => ~targets[call[c].target].node
                          /\ call[c].at \in {"probe", "unprobe", "selected"} => targets[call[c].target].node
                          /\ call[c].at = "cleaned" => ~jobs[call[c].job].node

\* The targets whose node is closed, with the slot still to be freed.
Closed == {t \in Targets : \E c \in Callers : call[c].at = "free_target" /\ call[c].target = t}
TargetNodes == {t \in Targets : targets[t].node /\ t \notin Closed}
JobNodes == {j \in Jobs : jobs[j].node}

\* Every reference is somebody's.
Accounted ==
    /\ node_refs = Cardinality(TargetNodes) + Cardinality(JobNodes)

NodesInv == TargetsShaped /\ TargetsOwn /\ NodesAgree /\ Accounted
-----------------------------------------------------------------------------
\* Of the calls only c's changes, and this is what it is about then.
CallTo(c, at, target, job) ==
    /\ \A d \in Callers \ {c} : call'[d] = call[d]
    /\ call'[c].at = at /\ call'[c].target = target /\ call'[c].job = job

\* The moves of a call.
LEMMA CallGoes ==
    ASSUME JobsInv, NEW c \in Callers, NEW x, NEW n
    PROVE  /\ Go(c, x) => CallTo(c, x, call[c].target, call[c].job)
           /\ call' = [call EXCEPT ![c].at = x, ![c].then = n] => CallTo(c, x, call[c].target, call[c].job)
           /\ Back(c) => CallTo(c, "none", {}, {})
<1> DEFINE a == [call EXCEPT ![c].at = x]
<1>1. [call EXCEPT ![c].at = x, ![c].then = n] = [a EXCEPT ![c].then = n]
  BY Zenon
<1>2. /\ a = [d \in Callers |-> a[d]]
      /\ \A d \in Callers \ {c} : a[d] = call[d]
      /\ a[c] = [at |-> x, target |-> call[c].target, job |-> call[c].job, then |-> call[c].then]
  BY DEF JobsInv, Shaped
<1>3. Go(c, x) => CallTo(c, x, call[c].target, call[c].job)
  BY <1>2, Zenon DEF Go, CallTo
<1>4. Back(c) => CallTo(c, "none", {}, {})
  BY DEF Back, NoCall, CallTo, JobsInv, Shaped
<1> HIDE DEF a
<1>5. call' = [a EXCEPT ![c].then = n] => CallTo(c, x, call[c].target, call[c].job)
  BY <1>2 DEF CallTo
<1> QED
  BY <1>1, <1>3, <1>4, <1>5, ZenonT(40)

\* A new call.
LEMMA CallBegins ==
    ASSUME JobsInv, NEW c \in Callers, NEW x, NEW t, NEW j, NEW n,
           call' = [call EXCEPT ![c] = [at |-> x, target |-> t, job |-> j, then |-> n]]
    PROVE  CallTo(c, x, t, j)
BY Zenon DEF CallTo, JobsInv, Shaped

\* Of the targets only t changes, and this is what becomes of it.
TargetBecomes(t, state, owner, node) ==
    /\ targets' = [u \in Targets |-> targets'[u]]
    /\ \A u \in Targets \ {t} : targets'[u] = targets[u]
    /\ targets'[t] = [state |-> state, owner |-> owner, gen |-> targets'[t].gen, node |-> node]

\* What the steps make of a target.
LEMMA TargetFields ==
    ASSUME TargetsShaped, NEW t \in Targets, NEW v, NEW g
    PROVE  /\ targets' = SetTarget(t, "state", v) =>
                TargetBecomes(t, v, targets[t].owner, targets[t].node)
           /\ targets' = [targets EXCEPT ![t] = FreeTarget] => TargetBecomes(t, "Free", NoTask, FALSE)
           /\ targets' = [targets EXCEPT ![t].gen = g, ![t].node = TRUE] =>
                TargetBecomes(t, targets[t].state, targets[t].owner, TRUE)
           /\ targets' = [targets EXCEPT ![t] = [FreeTarget EXCEPT !.state = "Preparing", !.owner = v]] =>
                TargetBecomes(t, "Preparing", v, FALSE)
           /\ targets' = targets => TargetBecomes(t, targets[t].state, targets[t].owner, targets[t].node)
<1>1. targets' = SetTarget(t, "state", v) => TargetBecomes(t, v, targets[t].owner, targets[t].node)
  BY ZenonT(40) DEF SetTarget, TargetBecomes, TargetsShaped
<1>2. targets' = [targets EXCEPT ![t] = FreeTarget] => TargetBecomes(t, "Free", NoTask, FALSE)
  BY Zenon DEF FreeTarget, TargetBecomes, TargetsShaped
<1>3. ASSUME NEW b PROVE targets' = [targets EXCEPT ![t].gen = g, ![t].node = b] =>
                             TargetBecomes(t, targets[t].state, targets[t].owner, b)
  <2> DEFINE a == [targets EXCEPT ![t].gen = g]
  <2>1. [targets EXCEPT ![t].gen = g, ![t].node = b] = [a EXCEPT ![t].node = b]
    BY Zenon
  <2>2. /\ a = [u \in Targets |-> a[u]] /\ \A u \in Targets \ {t} : a[u] = targets[u]
        /\ a[t] = [state |-> targets[t].state, owner |-> targets[t].owner, gen |-> g,
                   node |-> targets[t].node]
    BY DEF TargetsShaped
  <2> HIDE DEF a
  <2>3. targets' = [a EXCEPT ![t].node = b] => TargetBecomes(t, targets[t].state, targets[t].owner, b)
    BY <2>2 DEF TargetBecomes
  <2> QED
    BY <2>1, <2>3, Zenon
<1>4. ASSUME NEW r, NEW f, r = [state |-> "Free", owner |-> NoTask, gen |-> 0, node |-> f],
             targets' = [targets EXCEPT ![t] = [r EXCEPT !.state = "Preparing", !.owner = v]]
      PROVE  TargetBecomes(t, "Preparing", v, f)
  <2> DEFINE a == [r EXCEPT !.state = "Preparing"]
             e == [r EXCEPT !.state = "Preparing", !.owner = v]
  <2>1. a = [state |-> "Preparing", owner |-> NoTask, gen |-> 0, node |-> f]
    BY <1>4
  <2>2. e = [a EXCEPT !.owner = v]
    BY Zenon
  <2> HIDE DEF a
  <2>3. e = [state |-> "Preparing", owner |-> v, gen |-> 0, node |-> f]
    BY <2>1, <2>2
  <2>4. targets' = [targets EXCEPT ![t] = e]
    BY <1>4, Zenon
  <2> HIDE DEF e
  <2> QED
    BY <2>3, <2>4, Zenon DEF TargetBecomes, TargetsShaped
<1>5. targets' = targets => TargetBecomes(t, targets[t].state, targets[t].owner, targets[t].node)
  BY Zenon DEF TargetBecomes, TargetsShaped
<1>6. targets' = [targets EXCEPT ![t] = [FreeTarget EXCEPT !.state = "Preparing", !.owner = v]] =>
        TargetBecomes(t, "Preparing", v, FALSE)
  BY <1>4, ZenonT(40) DEF FreeTarget
<1>7. targets' = [targets EXCEPT ![t].gen = g, ![t].node = TRUE] =>
        TargetBecomes(t, targets[t].state, targets[t].owner, TRUE)
  BY <1>3, ZenonT(40)
<1> QED
  BY <1>1, <1>2, <1>5, <1>6, <1>7, ZenonT(40)

\* The jobs in a step of c: those of other callers stay, and a slot that is
\* free or being prepared has no node.
JobsFit(c) ==
    /\ \A j \in Jobs : /\ jobs'[j].node \in BOOLEAN
                       /\ jobs'[j].internal \in {"Free", "Preparing"} => ~jobs'[j].node
    /\ \A d \in Callers \ {c} : call[d].at = "cleaned" => ~jobs'[call[d].job].node

Agreed == TargetsShaped /\ TargetsOwn /\ NodesAgree

\* What a caller may do to a target of its own, or to a free slot.
LEMMA CallerTarget ==
    ASSUME Agreed, NEW c \in Callers, NEW t \in Targets, NEW x, NEW u, NEW k, CallTo(c, x, u, k),
           NEW s, NEW o, NEW n \in BOOLEAN, TargetBecomes(t, s, o, n), JobsFit(c),
           targets[t].owner = c \/ targets[t].state = "Free",
           x \in Selecting \cup Closing \cup Preparing => u = t /\ o = c,
           x \in Selecting => s = "Preparing", x \in Closing => s = "Cleaning",
           x \in Preparing => s = "Borrowed",
           s = "Free" => ~n, s \in {"Selected", "Borrowed"} => n,
           x = "retain" => ~n, x \in {"probe", "unprobe", "selected"} => n,
           x # "cleaned"
    PROVE  Agreed'
<1>0. /\ targets'[t].state = s /\ targets'[t].owner = o /\ targets'[t].node = n
      /\ targets'[t] = [state |-> targets'[t].state, owner |-> targets'[t].owner,
                        gen |-> targets'[t].gen, node |-> targets'[t].node]
      /\ \A v \in Targets \ {t} : targets'[v] = targets[v]
      /\ call'[c].at = x /\ call'[c].target = u /\ call'[c].job = k
      /\ \A d \in Callers \ {c} : call'[d] = call[d]
  BY DEF TargetBecomes, CallTo
<1>1. TargetsShaped'
  BY <1>0, Zenon DEF TargetBecomes, Agreed, TargetsShaped
<1>2. \A d \in Callers \ {c} : call[d].at \in Selecting \cup Closing \cup Preparing =>
         call[d].target \in Targets \ {t}
  BY DEF Agreed, TargetsOwn
<1>3. TargetsOwn'
  BY <1>0, <1>2 DEF Agreed, TargetsOwn
<1>4. NodesAgree'
  <2>1. \A v \in Targets : /\ targets'[v].node \in BOOLEAN
                           /\ targets'[v].state = "Free" => ~targets'[v].node
                           /\ targets'[v].state \in {"Selected", "Borrowed"} => targets'[v].node
    BY <1>0, Zenon DEF Agreed, NodesAgree
  <2>2. \A d \in Callers : /\ call'[d].at = "retain" => ~targets'[call'[d].target].node
                           /\ call'[d].at \in {"probe", "unprobe", "selected"} => targets'[call'[d].target].node
    BY <1>0, <1>2, SMTT(30) DEF Agreed, NodesAgree, Selecting
  <2>3. \A d \in Callers : call'[d].at = "cleaned" => ~jobs'[call'[d].job].node
    BY <1>0, Zenon DEF JobsFit
  <2> QED
    BY <2>1, <2>2, <2>3, ZenonT(40) DEF JobsFit, NodesAgree
<1> QED
  BY <1>1, <1>3, <1>4, Zenon DEF Agreed

\* What a caller may do to a job of its own, or to none.
LEMMA CallerElsewhere ==
    ASSUME Agreed, NEW c \in Callers, NEW x, NEW u, NEW k, CallTo(c, x, u, k), UNCHANGED targets, JobsFit(c),
           x \notin Selecting \cup Closing \cup Preparing, x = "cleaned" => ~jobs'[k].node
    PROVE  Agreed'
<1>0. /\ call'[c].at = x /\ call'[c].target = u /\ call'[c].job = k
      /\ \A d \in Callers \ {c} : call'[d] = call[d]
  BY Zenon DEF CallTo
<1>1. TargetsShaped' /\ TargetsOwn'
  BY <1>0, Zenon DEF Agreed, TargetsShaped, TargetsOwn
<1>2. NodesAgree'
  BY <1>0, Zenon DEF Agreed, NodesAgree, Selecting, JobsFit
<1> QED
  BY <1>1, <1>2, Zenon DEF Agreed

\* Slots are finite in number.
LEMMA FiniteNodes ==
    /\ IsFiniteSet(TargetNodes) /\ Cardinality(TargetNodes) \in Nat
    /\ IsFiniteSet(JobNodes) /\ Cardinality(JobNodes) \in Nat
<1>1. IsFiniteSet(TargetNodes) /\ IsFiniteSet(JobNodes)
  BY FS_Subset, InstallerAssumption, Zenon DEF TargetNodes, JobNodes
<1> QED
  BY <1>1, FS_CardinalityType, Zenon

\* Nothing is taken or given back.
LEMMA NothingMoves ==
    ASSUME Accounted, TargetNodes' = TargetNodes, JobNodes' = JobNodes, node_refs' = node_refs
    PROVE  Accounted'
BY Zenon DEF Accounted

\* A reference for a target.
LEMMA TargetTakes ==
    ASSUME Accounted, NEW t, t \notin TargetNodes, TargetNodes' = TargetNodes \cup {t},
           JobNodes' = JobNodes, node_refs' = node_refs + 1
    PROVE  Accounted'
<1>1. Cardinality(TargetNodes') = Cardinality(TargetNodes) + 1
  BY FiniteNodes, FS_AddElement, ZenonT(40)
<1> QED
  BY <1>1, FiniteNodes DEF Accounted

\* The reference of a target is given back.
LEMMA TargetGives ==
    ASSUME Accounted, NEW t, t \in TargetNodes, TargetNodes' = TargetNodes \ {t},
           JobNodes' = JobNodes, node_refs' = node_refs - 1
    PROVE  Accounted'
<1>1. Cardinality(TargetNodes') = Cardinality(TargetNodes) - 1
  BY FiniteNodes, FS_RemoveElement, Zenon
<1> QED
  BY <1>1, FiniteNodes DEF Accounted

\* The reference of a job is given back.
LEMMA JobGives ==
    ASSUME Accounted, NEW j, j \in JobNodes, JobNodes' = JobNodes \ {j},
           TargetNodes' = TargetNodes, node_refs' = node_refs - 1
    PROVE  Accounted'
<1>1. Cardinality(JobNodes') = Cardinality(JobNodes) - 1
  BY FiniteNodes, FS_RemoveElement, Zenon
<1> QED
  BY <1>1, FiniteNodes DEF Accounted

\* A target's reference becomes a job's.
LEMMA TargetToJob ==
    ASSUME Accounted, NEW t, t \in TargetNodes, TargetNodes' = TargetNodes \ {t},
           NEW j, j \notin JobNodes, JobNodes' = JobNodes \cup {j}, node_refs' = node_refs
    PROVE  Accounted'
<1>1. Cardinality(TargetNodes') = Cardinality(TargetNodes) - 1
  BY FiniteNodes, FS_RemoveElement, Zenon
<1>2. Cardinality(JobNodes') = Cardinality(JobNodes) + 1
  BY FiniteNodes, FS_AddElement, Zenon
<1> QED
  BY <1>1, <1>2, FiniteNodes DEF Accounted

\* The jobs are left alone.
LEMMA JobsAlone ==
    ASSUME Agreed, NEW c \in Callers, UNCHANGED jobs
    PROVE  JobsFit(c) /\ JobNodes' = JobNodes
BY Zenon DEF Agreed, NodesAgree, JobsFit, JobNodes

\* A call that neither was nor is about to free a target.
LEMMA ClosedStays ==
    ASSUME NEW c \in Callers, NEW x, NEW u, NEW k, CallTo(c, x, u, k),
           call[c].at # "free_target", x # "free_target"
    PROVE  Closed' = Closed
BY Zenon DEF CallTo, Closed

\* A target that changes but for its node.
LEMMA NodeStays ==
    ASSUME NEW t \in Targets, NEW s, NEW o, NEW n, TargetBecomes(t, s, o, n), Closed' = Closed,
           n = targets[t].node
    PROVE  TargetNodes' = TargetNodes
BY DEF TargetBecomes, TargetNodes

\* Targets that are not being closed are not closed.
LEMMA StillOpen ==
    ASSUME Agreed, NEW t \in Targets, targets[t].state # "Cleaning"
    PROVE  t \notin Closed
BY Zenon DEF Agreed, TargetsOwn, Closed, Closing

\* jobs_select_target: a slot is reserved, and gets the node.
LEMMA SelectNodes ==
    ASSUME JobsInv, NodesInv, NEW c \in Callers,
           (\E t \in Targets : Select(c, t)) \/ Retain(c) \/ Probe(c) \/ Unprobe(c) \/ SelectDone(c)
    PROVE  NodesInv'
<1>0. Agreed /\ Accounted /\ jobs' = jobs /\ JobsFit(c) /\ JobNodes' = JobNodes
  <2>1. Agreed /\ Accounted
    BY Zenon DEF NodesInv, Agreed
  <2>2. jobs' = jobs
    BY ZenonT(40) DEF Select, Retain, Probe, Unprobe, SelectDone, jobVars
  <2> QED
    BY <2>1, <2>2, JobsAlone, Zenon
<1> USE DEF Selecting, Closing, Preparing
<1>1. ASSUME NEW t \in Targets, Select(c, t) PROVE NodesInv'
  <2>1. TargetBecomes(t, "Preparing", c, FALSE)
    BY <1>0, <1>1, TargetFields, ZenonT(40) DEF Select, Agreed
  <2>2. CallTo(c, "retain", t, {})
    <3>1. call' = [call EXCEPT ![c] = [at |-> "retain", target |-> t, job |-> {}, then |-> "none"]]
      BY <1>1, NewCallTarget, ZenonT(40) DEF Select
    <3> QED
      BY <3>1, CallBegins, ZenonT(40)
  <2>3. targets[t].state = "Free" /\ call[c].at = "none" /\ node_refs' = node_refs
    <3>1. targets[t].state = "Free" /\ call[c] = NoCall /\ node_refs' = node_refs
      BY <1>1, ZenonT(40) DEF Select
    <3> QED
      BY <3>1 DEF NoCall
  <2>4. targets[t].node = FALSE
    BY <1>0, <2>3, ZenonT(40) DEF Agreed, NodesAgree
  <2>5. TargetNodes' = TargetNodes
    BY <2>1, <2>2, <2>3, <2>4, ClosedStays, NodeStays, ZenonT(40)
  <2>6. Agreed'
    <3>1. PICK n \in BOOLEAN : ~n /\ TargetBecomes(t, "Preparing", c, n)
      BY <2>1, ZenonT(40)
    <3> QED
      BY <1>0, <2>2, <2>3, <3>1, CallerTarget
  <2> QED
    BY <1>0, <2>3, <2>5, <2>6, NothingMoves, Zenon DEF NodesInv, Agreed
<1> DEFINE t == call[c].target
<1>2. ASSUME call[c].at \in Selecting
      PROVE  t \in Targets /\ targets[t].owner = c /\ targets[t].state = "Preparing"
  BY <1>0, <1>2, ZenonT(40) DEF Agreed, TargetsOwn
<1>3. CASE Retain(c)
  <2>0. call[c].at = "retain"
    BY <1>3, ZenonT(40) DEF Retain, At
  <2>1. /\ t \in Targets /\ targets[t].owner = c /\ targets[t].state = "Preparing"
        /\ targets[t].node = FALSE
    BY <1>0, <1>2, <2>0, Zenon DEF Agreed, NodesAgree
  <2>2. \E x \in {"probe", "select_fails"} : CallTo(c, x, t, call[c].job)
    BY <1>3, CallGoes, ZenonT(40) DEF Retain
  <2>3. PICK x \in {"probe", "select_fails"} : CallTo(c, x, t, call[c].job)
    BY <2>2, Zenon
  <2>4. Closed' = Closed
    BY <2>0, <2>3, ClosedStays, Zenon
  <2> HIDE DEF t
  <2>5. CASE targets' = [targets EXCEPT ![t].gen = reg[Disk], ![t].node = TRUE] /\ node_refs' = node_refs + 1
    <3>1. TargetBecomes(t, "Preparing", c, TRUE)
      BY <1>0, <2>1, <2>5, TargetFields, ZenonT(40) DEF Agreed
    <3>2. Agreed'
      BY <1>0, <2>1, <2>3, <3>1, CallerTarget, ZenonT(40)
    <3>3. t \notin Closed
      BY <1>0, <2>1, StillOpen, Zenon
    <3>4. t \notin TargetNodes /\ TargetNodes' = TargetNodes \cup {t}
      BY <2>1, <2>4, <3>1, <3>3 DEF TargetNodes, TargetBecomes
    <3>5. Accounted'
      BY <1>0, <2>5, <3>4, TargetTakes, ZenonT(40)
    <3> QED
      BY <3>2, <3>5, ZenonT(40) DEF NodesInv, Agreed
  <2>6. CASE UNCHANGED <<targets, node_refs>> /\ Go(c, "select_fails")
    <3>1. TargetBecomes(t, "Preparing", c, FALSE)
      BY <1>0, <2>1, <2>6, TargetFields, ZenonT(40) DEF Agreed
    <3>2. CallTo(c, "select_fails", t, call[c].job)
      BY <2>6, CallGoes, ZenonT(40) DEF t
    <3>3. Agreed'
      <4>1. PICK n \in BOOLEAN : ~n /\ TargetBecomes(t, "Preparing", c, n)
        BY <3>1, ZenonT(40)
      <4> QED
        BY <1>0, <2>1, <3>2, <4>1, CallerTarget, SMTT(30)
    <3>4. TargetNodes' = TargetNodes
      BY <2>1, <2>4, <3>1, NodeStays, ZenonT(40)
    <3> QED
      BY <1>0, <2>6, <3>3, <3>4, NothingMoves, Zenon DEF NodesInv, Agreed
  <2> QED
    BY <1>3, <2>5, <2>6, Zenon DEF Retain, t
<1>4. CASE Probe(c) \/ Unprobe(c) \/ SelectDone(c)
  <2>0. /\ call[c].at \in Selecting /\ node_refs' = node_refs
        /\ call[c].at \in {"probe", "unprobe", "selected", "select_fails"}
    BY <1>4, ZenonT(40) DEF Probe, Unprobe, SelectDone, At
  <2>1. t \in Targets /\ targets[t].owner = c /\ targets[t].state = "Preparing" /\ targets[t].node \in BOOLEAN
    BY <1>0, <1>2, <2>0, Zenon DEF Agreed, NodesAgree
  <2>2. call[c].at \in {"probe", "unprobe", "selected"} => targets[t].node = TRUE
    BY <1>0, <2>1, ZenonT(40) DEF Agreed, NodesAgree
  <2>3. ASSUME NEW s, NEW x, NEW u, NEW k, TargetBecomes(t, s, c, targets[t].node), CallTo(c, x, u, k),
               x \notin {"free_target", "retain", "cleaned"} \cup Preparing, s # "Free", s # "Borrowed",
               x # "none" => u = t,
               x \in Selecting => s = "Preparing", x \in Closing => s = "Cleaning",
               s = "Selected" \/ x \in {"unprobe", "selected"} => targets[t].node = TRUE, x # "probe"
        PROVE  NodesInv'
    <3>1. Agreed'
      BY <1>0, <2>1, <2>3, CallerTarget, SMTT(30)
    <3>2. TargetNodes' = TargetNodes
      BY <2>0, <2>1, <2>3, ClosedStays, NodeStays, ZenonT(40)
    <3> QED
      BY <1>0, <2>0, <3>1, <3>2, NothingMoves, Zenon DEF NodesInv, Agreed
  <2>4. CASE Probe(c) \/ Unprobe(c)
    <3>1. targets' = targets /\ \E x \in {"unprobe", "select_fails", "selected"} : Go(c, x)
      BY <2>4, ZenonT(40) DEF Probe, Unprobe, jobVars
    <3>2. TargetBecomes(t, "Preparing", c, targets[t].node)
      BY <1>0, <2>1, <3>1, TargetFields, ZenonT(40) DEF Agreed
    <3>3. PICK x \in {"unprobe", "select_fails", "selected"} : CallTo(c, x, t, call[c].job)
      BY <3>1, CallGoes, Zenon
    <3>4. targets[t].node = TRUE
      BY <2>2, <2>4, ZenonT(40) DEF Probe, Unprobe, At
    <3> HIDE DEF t
    <3> QED
      BY <2>3, <3>2, <3>3, <3>4, ZenonT(40)
  <2>5. CASE SelectDone(c)
    <3>1. CASE call[c].at = "selected" /\ targets' = SetTarget(t, "state", "Selected") /\ Back(c)
      <4>1. TargetBecomes(t, "Selected", c, targets[t].node) /\ targets[t].node = TRUE
        BY <1>0, <2>1, <2>2, <3>1, TargetFields, ZenonT(40) DEF Agreed
      <4>2. CallTo(c, "none", {}, {})
        BY <3>1, CallGoes, Zenon
      <4> HIDE DEF t
      <4> QED
        BY <2>3, <4>1, <4>2, ZenonT(40)
    <3>2. CASE targets' = SetTarget(t, "state", "Cleaning") /\ Go(c, "close_target")
      <4>1. TargetBecomes(t, "Cleaning", c, targets[t].node)
        BY <1>0, <2>1, <3>2, TargetFields, ZenonT(40) DEF Agreed
      <4>2. CallTo(c, "close_target", t, call[c].job)
        BY <3>2, CallGoes, ZenonT(40)
      <4> HIDE DEF t
      <4> QED
        BY <2>3, <4>1, <4>2, ZenonT(40)
    <3> QED
      BY <2>5, <3>1, <3>2, Zenon DEF SelectDone
  <2> QED
    BY <1>4, <2>4, <2>5, Zenon
<1> QED
  BY <1>1, <1>3, <1>4, ZenonT(40)

\* jobs_release_target and close_target.
LEMMA CloseNodes ==
    ASSUME JobsInv, NodesInv, NEW c \in Callers,
           (\E t \in Targets : ReleaseTarget(c, t)) \/ CloseTarget(c) \/ FreeTargetSlot(c)
    PROVE  NodesInv'
<1>0. Agreed /\ Accounted /\ JobsFit(c) /\ JobNodes' = JobNodes
  <2>1. Agreed /\ Accounted
    BY Zenon DEF NodesInv, Agreed
  <2>2. jobs' = jobs
    BY ZenonT(40) DEF ReleaseTarget, CloseTarget, FreeTargetSlot
  <2> QED
    BY <2>1, <2>2, JobsAlone, ZenonT(40)
<1> USE DEF Selecting, Closing, Preparing
<1>1. ASSUME NEW t \in Targets, ReleaseTarget(c, t) PROVE NodesInv'
  <2>1. /\ targets[t].state = "Selected" /\ targets[t].owner = c /\ call[c] = NoCall
        /\ node_refs' = node_refs /\ targets' = SetTarget(t, "state", "Cleaning")
    BY <1>1, ZenonT(40) DEF ReleaseTarget
  <2>2. TargetBecomes(t, "Cleaning", c, targets[t].node) /\ targets[t].node \in BOOLEAN
    BY <1>0, <2>1, TargetFields, ZenonT(40) DEF Agreed, NodesAgree
  <2>3. CallTo(c, "close_target", t, {}) /\ call[c].at = "none"
    <3>1. call' = [call EXCEPT ![c] = [at |-> "close_target", target |-> t, job |-> {}, then |-> "none"]]
      BY <1>1, NewCallTarget, ZenonT(90) DEF ReleaseTarget
    <3>2. CallTo(c, "close_target", t, {})
      BY <3>1, CallBegins, ZenonT(90)
    <3>3. call[c].at = "none"
      BY <2>1 DEF NoCall
    <3> QED
      BY <3>2, <3>3, Zenon
  <2>4. TargetNodes' = TargetNodes
    BY <2>2, <2>3, ClosedStays, NodeStays, Zenon
  <2>5. Agreed'
    BY <1>0, <2>1, <2>2, <2>3, CallerTarget
  <2> QED
    BY <1>0, <2>1, <2>4, <2>5, NothingMoves, Zenon DEF NodesInv, Agreed
<1> DEFINE t == call[c].target
<1>2. ASSUME call[c].at \in Closing
      PROVE  /\ t \in Targets /\ targets[t].owner = c /\ targets[t].state = "Cleaning"
             /\ targets[t].node \in BOOLEAN
             /\ \A d \in Callers \ {c} : ~(call[d].at = "free_target" /\ call[d].target = t)
  BY <1>0, <1>2 DEF Agreed, TargetsOwn, NodesAgree
<1>3. CASE CloseTarget(c)
  <2>0. call[c].at = "close_target"
    BY <1>3, Zenon DEF CloseTarget, At
  <2>1. /\ t \in Targets /\ targets[t].owner = c /\ targets[t].state = "Cleaning"
        /\ targets[t].node \in BOOLEAN
        /\ \A d \in Callers \ {c} : ~(call[d].at = "free_target" /\ call[d].target = t)
    BY <1>2, <2>0, ZenonT(40)
  <2>2. CASE /\ Go(c, "free_target") /\ UNCHANGED targets
             /\ node_refs' = node_refs - (IF targets[t].node THEN 1 ELSE 0)
    <3>1. CallTo(c, "free_target", t, call[c].job)
      BY <2>2, CallGoes, ZenonT(40)
    <3>2. TargetBecomes(t, "Cleaning", c, targets[t].node)
      BY <1>0, <2>1, <2>2, TargetFields, ZenonT(40) DEF Agreed
    <3> HIDE DEF t
    <3>3. Agreed'
      BY <1>0, <2>1, <3>1, <3>2, CallerTarget, SMTT(30)
    <3>4. t \notin Closed /\ Closed' = Closed \cup {t}
      BY <2>0, <2>1, <3>1, Zenon DEF Closed, CallTo
    <3>5. CASE targets[t].node
      <4>1. t \in TargetNodes /\ TargetNodes' = TargetNodes \ {t}
        BY <2>1, <2>2, <3>4, <3>5, Zenon DEF TargetNodes
      <4> QED
        BY <1>0, <2>2, <3>3, <3>5, <4>1, TargetGives, ZenonT(40) DEF NodesInv, Agreed
    <3>6. CASE ~targets[t].node
      <4>1. TargetNodes' = TargetNodes
        BY <2>1, <2>2, <3>4, <3>6, Zenon DEF TargetNodes
      <4>2. node_refs' = node_refs
        BY <1>0, <2>2, <3>6, FiniteNodes, SMTT(30) DEF Accounted
      <4> QED
        BY <1>0, <3>3, <4>1, <4>2, NothingMoves, Zenon DEF NodesInv, Agreed
    <3> QED
      BY <3>5, <3>6, Zenon
  <2>3. CASE targets' = SetTarget(t, "state", "Quarantined") /\ Back(c) /\ UNCHANGED node_refs
    <3>1. CallTo(c, "none", {}, {})
      BY <2>3, CallGoes, ZenonT(40)
    <3>2. TargetBecomes(t, "Quarantined", c, targets[t].node)
      BY <1>0, <2>1, <2>3, TargetFields, ZenonT(40) DEF Agreed
    <3> HIDE DEF t
    <3>3. Agreed'
      BY <1>0, <2>1, <3>1, <3>2, CallerTarget, SMTT(30)
    <3>4. TargetNodes' = TargetNodes
      BY <2>0, <2>1, <3>1, <3>2, ClosedStays, NodeStays, ZenonT(40)
    <3> QED
      BY <1>0, <2>3, <3>3, <3>4, NothingMoves, Zenon DEF NodesInv, Agreed
  <2> QED
    BY <1>3, <2>2, <2>3, Zenon DEF CloseTarget, Target
<1>4. CASE FreeTargetSlot(c)
  <2>0. call[c].at = "free_target" /\ Back(c) /\ targets' = [targets EXCEPT ![t] = FreeTarget] /\ node_refs' = node_refs
    BY <1>4, Zenon DEF FreeTargetSlot, At
  <2>1. /\ t \in Targets /\ targets[t].owner = c /\ targets[t].state = "Cleaning"
        /\ \A d \in Callers \ {c} : ~(call[d].at = "free_target" /\ call[d].target = t)
    BY <1>2, <2>0, ZenonT(40)
  <2>2. CallTo(c, "none", {}, {})
    BY <2>0, CallGoes, ZenonT(40)
  <2>3. TargetBecomes(t, "Free", NoTask, FALSE)
    BY <1>0, <2>0, <2>1, TargetFields, ZenonT(40) DEF Agreed
  <2>4. t \in Closed /\ Closed' = Closed \ {t}
    BY <2>0, <2>1, <2>2, ZenonT(40) DEF Closed, CallTo
  <2> HIDE DEF t
  <2>5. Agreed'
    <3>1. PICK n \in BOOLEAN : ~n /\ TargetBecomes(t, "Free", NoTask, n)
      BY <2>3, ZenonT(40)
    <3> QED
      BY <1>0, <2>1, <2>2, <3>1, CallerTarget, SMTT(30)
  <2>6. TargetNodes' = TargetNodes
    <3>1. ~targets'[t].node /\ \A u \in Targets \ {t} : targets'[u] = targets[u]
      BY <2>3 DEF TargetBecomes
    <3> QED
      BY <2>4, <3>1 DEF TargetNodes
  <2> QED
    BY <1>0, <2>0, <2>5, <2>6, NothingMoves, Zenon DEF NodesInv, Agreed
<1> QED
  BY <1>1, <1>3, <1>4, ZenonT(40)

\* What a step of a caller may do to a job of its own, or to a free slot.
LEMMA OwnJobFits ==
    ASSUME JobsInv, Agreed, NEW c \in Callers, NEW j \in Jobs, NEW i, NEW s, NEW o, NEW n \in BOOLEAN,
           JobBecomes(j, i, s, o, n), jobs[j].owner = c \/ jobs[j].internal = "Free",
           i \in {"Free", "Preparing"} => ~n
    PROVE  /\ JobsFit(c)
           /\ n = jobs[j].node => JobNodes' = JobNodes
           /\ n /\ ~jobs[j].node => j \notin JobNodes /\ JobNodes' = JobNodes \cup {j}
           /\ ~n /\ jobs[j].node => j \in JobNodes /\ JobNodes' = JobNodes \ {j}
<1>0. \A k \in Jobs : jobs[k].node \in BOOLEAN
  BY Zenon DEF Agreed, NodesAgree
<1>1. \A d \in Callers \ {c} : call[d].at = "cleaned" => call[d].job \in Jobs \ {j}
  BY Zenon DEF JobsInv, CallsOwn, Cleaning
<1>2. JobsFit(c)
  BY <1>0, <1>1, Zenon DEF Agreed, NodesAgree, JobsFit, JobBecomes
<1>3. n = jobs[j].node => JobNodes' = JobNodes
  BY Zenon DEF JobNodes, JobBecomes
<1>4. n /\ ~jobs[j].node => j \notin JobNodes /\ JobNodes' = JobNodes \cup {j}
  BY Zenon DEF JobNodes, JobBecomes
<1>5. ~n /\ jobs[j].node => j \in JobNodes /\ JobNodes' = JobNodes \ {j}
  BY Zenon DEF JobNodes, JobBecomes
<1> QED
  BY <1>2, <1>3, <1>4, <1>5, ZenonT(40)

\* jobs_queue: the job gets the reference of the target.
LEMMA QueueNodes ==
    ASSUME JobsInv, NodesInv, NEW c \in Callers,
           (\E t \in Targets, j \in Jobs : Queue(c, t, j)) \/ Pin(c) \/ QueueDone(c)
    PROVE  NodesInv'
<1>0. Agreed /\ Accounted /\ node_refs' = node_refs
  BY ZenonT(40) DEF NodesInv, Agreed, Queue, Pin, QueueDone
<1> USE DEF Selecting, Closing, Preparing
<1>1. ASSUME NEW t \in Targets, NEW j \in Jobs, Queue(c, t, j) PROVE NodesInv'
  <2>1. /\ targets[t].state = "Selected" /\ targets[t].owner = c /\ call[c] = NoCall
        /\ jobs[j].internal = "Free" /\ targets' = SetTarget(t, "state", "Borrowed")
        /\ call' = [call EXCEPT ![c] = [at |-> "pin", target |-> t, job |-> j, then |-> "none"]]
    BY <1>1, ZenonT(40) DEF Queue
  <2>2. TargetBecomes(t, "Borrowed", c, targets[t].node) /\ targets[t].node \in BOOLEAN /\ targets[t].node
    BY <1>0, <2>1, TargetFields, ZenonT(40) DEF Agreed, NodesAgree
  <2>3. CallTo(c, "pin", t, j)
    BY <2>1, CallBegins, ZenonT(40)
  <2>4. call[c].at = "none"
    BY <2>1, SMTT(30) DEF NoCall
  <2>5. JobsFit(c) /\ JobNodes' = JobNodes
    <3> DEFINE e == [internal |-> "Preparing", state |-> "Queued", handle |-> issued + 1, owner |-> c,
                     worker |-> NoTask, gen |-> 0, node |-> FALSE, pin |-> FALSE, io |-> FALSE]
    <3>1. [FreeJob EXCEPT !.internal = "Preparing", !.state = "Queued", !.handle = issued + 1, !.owner = c]
          = e
      BY NewJob, ZenonT(40) DEF FreeJob
    <3>2. e.internal = "Preparing" /\ e.state = "Queued" /\ e.io = FALSE /\ e.node = FALSE
      BY Zenon
    <3> HIDE DEF e
    <3>3. jobs' = [jobs EXCEPT ![j] = e]
      BY <1>1, <3>1, ZenonT(40) DEF Queue
    <3>4. JobBecomes(j, "Preparing", "Queued", FALSE, FALSE)
      BY <3>2, <3>3, Zenon DEF JobBecomes, JobsInv, Shaped
    <3>5. PICK n \in BOOLEAN, o \in BOOLEAN : ~n /\ JobBecomes(j, "Preparing", "Queued", o, n)
      BY <3>4, ZenonT(40)
    <3>6. n = jobs[j].node
      BY <1>0, <2>1, <3>5, Zenon DEF Agreed, NodesAgree
    <3> QED
      BY <1>0, <2>1, <3>5, <3>6, OwnJobFits, SMTT(30)
  <2>6. Agreed'
    <3>1. PICK n \in BOOLEAN : n /\ TargetBecomes(t, "Borrowed", c, n)
      BY <2>2, ZenonT(40)
    <3>2. /\ "pin" \notin Selecting /\ "pin" \notin Closing /\ "pin" \in Preparing
          /\ "pin" \notin {"probe", "unprobe", "selected"}
      BY Zenon
    <3> HIDE DEF Selecting, Closing, Preparing
    <3> QED
      BY <1>0, <2>1, <2>3, <2>5, <3>1, <3>2, CallerTarget, ZenonT(40)
  <2>7. TargetNodes' = TargetNodes
    BY <2>2, <2>3, <2>4, ClosedStays, NodeStays, ZenonT(40)
  <2> QED
    BY <1>0, <2>5, <2>6, <2>7, NothingMoves, Zenon DEF NodesInv, Agreed
<1> DEFINE t == call[c].target
           j == call[c].job
<1>2. ASSUME call[c].at \in Preparing
      PROVE  /\ t \in Targets /\ targets[t].owner = c /\ targets[t].state = "Borrowed"
             /\ targets[t].node \in BOOLEAN /\ targets[t].node
             /\ j \in Jobs /\ jobs[j].owner = c /\ jobs[j].internal = "Preparing"
             /\ jobs[j].node \in BOOLEAN /\ ~jobs[j].node
  <2>1. /\ t \in Targets /\ targets[t].owner = c /\ targets[t].state = "Borrowed"
        /\ j \in Jobs /\ jobs[j].owner = c /\ jobs[j].internal = "Preparing"
    BY <1>0, <1>2, Zenon DEF Agreed, TargetsOwn, JobsInv, CallsOwn
  <2> HIDE DEF t, j
  <2> QED
    BY <1>0, <2>1, Zenon DEF Agreed, NodesAgree
<1>3. CASE Pin(c)
  <2>0. call[c].at = "pin" /\ targets' = targets
    BY <1>3, Zenon DEF Pin, At
  <2>1. /\ t \in Targets /\ targets[t].owner = c /\ targets[t].state = "Borrowed"
        /\ targets[t].node \in BOOLEAN /\ targets[t].node
        /\ j \in Jobs /\ jobs[j].owner = c /\ jobs[j].internal = "Preparing"
        /\ jobs[j].node \in BOOLEAN /\ ~jobs[j].node
    BY <1>2, <2>0, ZenonT(40)
  <2>2. PICK x \in {"queued", "queue_fails"} : CallTo(c, x, t, j)
    BY <1>3, CallGoes, ZenonT(40) DEF Pin
  <2>3. JobBecomes(j, "Preparing", jobs[j].state, jobs[j].io, jobs[j].node)
    <3>1. UNCHANGED jobs \/ jobs' = [jobs EXCEPT ![j].pin = TRUE]
      BY <1>3, ZenonT(40) DEF Pin
    <3>2. UNCHANGED jobs => JobBecomes(j, jobs[j].internal, jobs[j].state, jobs[j].io, jobs[j].node)
      BY Zenon DEF JobBecomes
    <3> QED
      BY <2>1, <3>1, <3>2, OneField, ZenonT(40)
  <2>4. TargetBecomes(t, "Borrowed", c, targets[t].node)
    BY <1>0, <2>0, <2>1, TargetFields, ZenonT(40) DEF Agreed
  <2> HIDE DEF t, j
  <2>5. JobsFit(c) /\ JobNodes' = JobNodes
    BY <1>0, <2>1, <2>3, OwnJobFits, SMTT(30)
  <2>6. Agreed'
    BY <1>0, <2>1, <2>2, <2>4, <2>5, CallerTarget, ZenonT(90)
  <2>7. TargetNodes' = TargetNodes
    BY <2>0, <2>1, <2>2, <2>4, ClosedStays, NodeStays, ZenonT(90)
  <2> QED
    BY <1>0, <2>5, <2>6, <2>7, NothingMoves, Zenon DEF NodesInv, Agreed
<1>4. CASE QueueDone(c)
  <2>0. call[c].at \in {"queued", "queue_fails"}
    BY <1>4, Zenon DEF QueueDone, At
  <2>1. /\ t \in Targets /\ targets[t].owner = c /\ targets[t].state = "Borrowed"
        /\ targets[t].node \in BOOLEAN /\ targets[t].node
        /\ j \in Jobs /\ jobs[j].owner = c /\ jobs[j].internal = "Preparing"
        /\ jobs[j].node \in BOOLEAN /\ ~jobs[j].node
    BY <1>2, <2>0, ZenonT(40)
  <2>2. CASE /\ Go(c, "respond") /\ targets' = TargetMoved(t)
             /\ jobs' = [jobs EXCEPT ![j].internal = "Published", ![j].gen = targets[t].gen, ![j].node = TRUE]
    <3>1. JobBecomes(j, "Published", jobs[j].state, jobs[j].io, TRUE)
      BY <2>1, <2>2, MoreFields, ZenonT(40)
    <3>2. TargetBecomes(t, "Free", NoTask, FALSE)
      BY <1>0, <2>1, <2>2, TargetFields, ZenonT(40) DEF Agreed, TargetMoved
    <3>3. CallTo(c, "respond", t, j)
      BY <2>2, CallGoes, ZenonT(40)
    <3> HIDE DEF t, j
    <3>4. JobsFit(c) /\ j \notin JobNodes /\ JobNodes' = JobNodes \cup {j}
      BY <1>0, <2>1, <3>1, OwnJobFits, ZenonT(40)
    <3>5. Agreed'
      <4>1. PICK n \in BOOLEAN : ~n /\ TargetBecomes(t, "Free", NoTask, n)
        BY <3>2, ZenonT(40)
      <4> QED
        BY <1>0, <2>1, <3>3, <3>4, <4>1, CallerTarget
    <3>6. Closed' = Closed /\ t \notin Closed
      BY <1>0, <2>0, <2>1, <3>3, ClosedStays, StillOpen, Zenon
    <3>7. t \in TargetNodes /\ TargetNodes' = TargetNodes \ {t}
      BY <2>1, <3>2, <3>6, SMTT(30) DEF TargetNodes, TargetBecomes
    <3> QED
      BY <1>0, <3>4, <3>5, <3>7, TargetToJob, Zenon DEF NodesInv, Agreed
  <2>3. CASE /\ jobs' = [jobs EXCEPT ![j].internal = "Cleaning"]
             /\ targets' = SetTarget(t, "state", "Selected")
             /\ call' = [call EXCEPT ![c].at = "unpin", ![c].then = "free"]
    <3>1. JobBecomes(j, "Cleaning", jobs[j].state, jobs[j].io, jobs[j].node)
      BY <2>1, <2>3, OneField, ZenonT(40)
    <3>2. TargetBecomes(t, "Selected", c, targets[t].node)
      BY <1>0, <2>1, <2>3, TargetFields, ZenonT(40) DEF Agreed
    <3>3. CallTo(c, "unpin", t, j)
      BY <2>3, CallGoes, ZenonT(40)
    <3> HIDE DEF t, j
    <3>4. JobsFit(c) /\ JobNodes' = JobNodes
      BY <1>0, <2>1, <3>1, OwnJobFits, SMTT(30)
    <3>5. Agreed'
      <4>1. PICK n \in BOOLEAN : n /\ TargetBecomes(t, "Selected", c, n)
        BY <2>1, <3>2, ZenonT(40)
      <4>2. /\ "unpin" \notin Selecting /\ "unpin" \notin Closing /\ "unpin" \notin Preparing
            /\ "unpin" \notin {"probe", "unprobe", "selected"}
        BY Zenon
      <4> HIDE DEF Selecting, Closing, Preparing
      <4> QED
        BY <1>0, <2>1, <3>3, <3>4, <4>1, <4>2, CallerTarget, ZenonT(90)
    <3>6. TargetNodes' = TargetNodes
      BY <2>0, <2>1, <3>2, <3>3, ClosedStays, NodeStays, Zenon
    <3> QED
      BY <1>0, <3>4, <3>5, <3>6, NothingMoves, ZenonT(90) DEF NodesInv, Agreed
  <2> QED
    BY <1>4, <2>2, <2>3, Zenon DEF QueueDone
<1> QED
  BY <1>1, <1>3, <1>4, Zenon

\* A step that leaves the targets, and moves a call that is not about one.
LEMMA JobCallNodes ==
    ASSUME NodesInv, NEW c \in Callers, NEW x, NEW u, NEW k, CallTo(c, x, u, k), UNCHANGED targets, JobsFit(c),
           x \notin Selecting \cup Closing \cup Preparing, x = "cleaned" => ~jobs'[k].node,
           call[c].at # "free_target"
    PROVE  /\ Agreed'
           /\ JobNodes' = JobNodes /\ node_refs' = node_refs => NodesInv'
           /\ \A j : j \in JobNodes /\ JobNodes' = JobNodes \ {j} /\ node_refs' = node_refs - 1 => NodesInv'
<1>0. Agreed /\ Accounted
  BY Zenon DEF NodesInv, Agreed
<1>1. Agreed'
  BY <1>0, CallerElsewhere, Zenon
<1>2. TargetNodes' = TargetNodes
  <2>1. Closed' = Closed
    BY ClosedStays, Zenon DEF Closing
  <2> QED
    BY <2>1, Zenon DEF TargetNodes
<1>3. JobNodes' = JobNodes /\ node_refs' = node_refs => NodesInv'
  BY <1>0, <1>1, <1>2, NothingMoves, Zenon DEF NodesInv, Agreed
<1>4. ASSUME NEW j, j \in JobNodes, JobNodes' = JobNodes \ {j}, node_refs' = node_refs - 1 PROVE NodesInv'
  BY <1>0, <1>1, <1>2, <1>4, JobGives, Zenon DEF NodesInv, Agreed
<1> QED
  BY <1>1, <1>3, <1>4, Zenon

\* The answer to the caller, and what it asks of its jobs.
LEMMA AskNodes ==
    ASSUME JobsInv, NodesInv, NEW c \in Callers,
           Dispatch(c) \/ Cancel(c) \/ \E j \in Jobs : AskCancel(c, j) \/ ReleaseJob(c, j)
    PROVE  NodesInv'
<1>0. Agreed /\ UNCHANGED <<targets, node_refs>>
  BY ZenonT(40) DEF NodesInv, Agreed, Dispatch, Cancel, AskCancel, ReleaseJob, jobVars
<1> USE DEF Selecting, Closing, Preparing
<1>1. ASSUME UNCHANGED jobs, NEW x \in {"none", "cancel"}, NEW u, NEW k, CallTo(c, x, u, k),
             call[c].at # "free_target"
      PROVE  NodesInv'
  <2>1. JobsFit(c) /\ JobNodes' = JobNodes
    BY <1>0, <1>1, JobsAlone, Zenon
  <2> QED
    BY <1>0, <1>1, <2>1, JobCallNodes, Zenon
<1>2. ASSUME NEW j \in Jobs, NEW s, NEW o, JobBecomes(j, "Cleaning", s, o, jobs[j].node), jobs[j].owner = c,
             NEW u, NEW k, CallTo(c, "unpin", u, k), call[c].at # "free_target"
      PROVE  NodesInv'
  <2>1. jobs[j].node \in BOOLEAN
    BY <1>0, ZenonT(40) DEF Agreed, NodesAgree
  <2>2. JobsFit(c) /\ JobNodes' = JobNodes
    BY <1>0, <1>2, <2>1, OwnJobFits, SMTT(30)
  <2> QED
    BY <1>0, <1>2, <2>2, JobCallNodes, Zenon
<1>3. CASE Dispatch(c)
  <2>1. UNCHANGED jobs /\ call[c].at = "respond"
    BY <1>3, ZenonT(40) DEF Dispatch, At, jobVars
  <2>2. CallTo(c, "none", {}, {}) \/ CallTo(c, "cancel", call[c].target, call[c].job)
    BY <1>3, CallGoes, ZenonT(40) DEF Dispatch
  <2> QED
    BY <1>1, <2>1, <2>2, ZenonT(40)
<1>4. CASE Cancel(c)
  <2> DEFINE j == call[c].job
  <2>0. j \in Jobs /\ jobs[j].owner = c /\ call[c].at = "cancel"
    BY <1>4, ZenonT(40) DEF Cancel, At, JobsInv, CallsOwn, Waiting
  <2>1. CASE /\ Go(c, "unpin")
             /\ jobs' = [jobs EXCEPT ![j].state = "Cancelled", ![j].internal = "Cleaning"]
    <3>1. JobBecomes(j, "Cleaning", "Cancelled", jobs[j].io, jobs[j].node)
      BY <2>0, <2>1, MoreFields, ZenonT(40)
    <3>2. CallTo(c, "unpin", call[c].target, j)
      BY <2>1, CallGoes, ZenonT(40)
    <3> HIDE DEF j
    <3> QED
      BY <1>2, <2>0, <3>1, <3>2, ZenonT(40)
  <2>2. CASE UNCHANGED jobs /\ Back(c)
    BY <1>1, <2>0, <2>2, CallGoes, ZenonT(40)
  <2> QED
    BY <1>4, <2>1, <2>2, Zenon DEF Cancel
<1>5. ASSUME NEW j \in Jobs, AskCancel(c, j) PROVE NodesInv'
  <2>1. UNCHANGED jobs /\ call[c] = NoCall
    BY <1>5, ZenonT(40) DEF AskCancel, jobVars
  <2>2. call[c].at = "none"
    BY <2>1 DEF NoCall
  <2>3. CallTo(c, "cancel", {}, j)
    <3>1. call' = [call EXCEPT ![c] = [at |-> "cancel", target |-> {}, job |-> j, then |-> "none"]]
      BY <1>5, NewCallJob, ZenonT(90) DEF AskCancel
    <3> QED
      BY <3>1, CallBegins, ZenonT(90)
  <2> QED
    BY <1>1, <2>1, <2>2, <2>3, Zenon
<1>6. ASSUME NEW j \in Jobs, ReleaseJob(c, j) PROVE NodesInv'
  <2>1. /\ jobs[j].owner = c /\ jobs' = [jobs EXCEPT ![j].internal = "Cleaning"]
        /\ call[c] = NoCall \/ call[c].at = "release"
    BY <1>6, ZenonT(40) DEF ReleaseJob
  <2>2. call[c].at # "free_target"
    BY <2>1 DEF NoCall
  <2>3. CallTo(c, "unpin", {}, j)
    <3>1. call' = [call EXCEPT ![c] = [at |-> "unpin", target |-> {}, job |-> j, then |-> "free"]]
      <4>1. [NoCall EXCEPT !.at = "unpin", !.job = j, !.then = "free"]
            = [at |-> "unpin", target |-> {}, job |-> j, then |-> "free"]
        BY NewCallThen, ZenonT(40)
      <4> QED
        BY <1>6, <4>1, ZenonT(40) DEF ReleaseJob
    <3> QED
      BY <3>1, CallBegins, ZenonT(40)
  <2>4. JobBecomes(j, "Cleaning", jobs[j].state, jobs[j].io, jobs[j].node)
    BY <2>1, OneField, ZenonT(40)
  <2> QED
    BY <1>2, <2>1, <2>2, <2>3, <2>4, Zenon
<1> QED
  BY <1>3, <1>4, <1>5, <1>6, Zenon

\* clean_job.
LEMMA CleanNodes ==
    ASSUME JobsInv, NodesInv, NEW c \in Callers, Unpin(c) \/ Unref(c) \/ Cleaned(c)
    PROVE  NodesInv'
<1> DEFINE j == call[c].job
<1>0. Agreed /\ Accounted /\ UNCHANGED targets
  BY ZenonT(40) DEF NodesInv, Agreed, Unpin, Unref, Cleaned, CleanFails
<1>1. /\ call[c].at \in Cleaning /\ j \in Jobs /\ jobs[j].owner = c /\ jobs[j].internal = "Cleaning"
      /\ jobs[j].node \in BOOLEAN /\ call[c].at # "free_target"
      /\ call[c].at = "cleaned" => ~jobs[j].node
  BY <1>0, ZenonT(40)
     DEF Unpin, Unref, Cleaned, At, JobsInv, CallsOwn, Cleaning, Agreed, NodesAgree
<1>2. ASSUME NEW i, NEW s, NEW o, JobBecomes(j, i, s, o, jobs[j].node), i # "Preparing", i = "Free" => ~jobs[j].node,
             NEW x \in {"none", "unref", "release"}, NEW u, NEW k, CallTo(c, x, u, k), node_refs' = node_refs
      PROVE  NodesInv'
  <2> HIDE DEF j
  <2>1. JobsFit(c) /\ JobNodes' = JobNodes
    BY <1>0, <1>1, <1>2, OwnJobFits, SMTT(30)
  <2>2. x \notin Selecting \cup Closing \cup Preparing /\ x # "cleaned"
    BY Zenon DEF Selecting, Closing, Preparing
  <2> QED
    BY <1>0, <1>1, <1>2, <2>1, <2>2, JobCallNodes, Zenon
<1>3. CASE CleanFails(c)
  <2>1. JobBecomes(j, "Published", "Quarantined", jobs[j].io, jobs[j].node)
    BY <1>1, <1>3, MoreFields, ZenonT(40) DEF CleanFails
  <2>2. CallTo(c, "none", {}, {}) /\ node_refs' = node_refs
    BY <1>3, CallGoes, ZenonT(40) DEF CleanFails
  <2> HIDE DEF j
  <2> QED
    BY <1>2, <2>1, <2>2, ZenonT(40)
<1>4. CASE jobs' = [jobs EXCEPT ![j].pin = FALSE] /\ Go(c, "unref") /\ node_refs' = node_refs
  <2>1. JobBecomes(j, "Cleaning", jobs[j].state, jobs[j].io, jobs[j].node)
    BY <1>1, <1>4, OneField, ZenonT(40)
  <2>2. CallTo(c, "unref", call[c].target, j)
    BY <1>4, CallGoes, ZenonT(40)
  <2> HIDE DEF j
  <2> QED
    BY <1>2, <1>4, <2>1, <2>2, Zenon
<1>5. CASE /\ jobs' = [jobs EXCEPT ![j].node = FALSE] /\ Go(c, "cleaned")
           /\ node_refs' = node_refs - (IF jobs[j].node THEN 1 ELSE 0)
  <2>1. JobBecomes(j, "Cleaning", jobs[j].state, jobs[j].io, FALSE)
    BY <1>1, <1>5, OneField, ZenonT(40)
  <2>2. CallTo(c, "cleaned", call[c].target, j)
    BY <1>5, CallGoes, Zenon
  <2> HIDE DEF j
  <2>3. PICK n \in BOOLEAN : ~n /\ JobBecomes(j, "Cleaning", jobs[j].state, jobs[j].io, n)
    BY <2>1, ZenonT(40)
  <2>4. /\ JobsFit(c) /\ ~jobs'[j].node
        /\ jobs[j].node => j \in JobNodes /\ JobNodes' = JobNodes \ {j}
        /\ ~jobs[j].node => JobNodes' = JobNodes
    <3>1. ~jobs'[j].node
      BY <2>3, Zenon DEF JobBecomes
    <3>2. ~jobs[j].node => n = jobs[j].node
      BY <1>1, <2>3, ZenonT(40)
    <3> QED
      BY <1>0, <1>1, <2>3, <3>1, <3>2, OwnJobFits, SMTT(30)
  <2>5. "cleaned" \notin Selecting \cup Closing \cup Preparing
    BY Zenon DEF Selecting, Closing, Preparing
  <2>6. ~jobs[j].node => node_refs' = node_refs
    BY <1>0, <1>5, FiniteNodes, SMTT(30) DEF Accounted
  <2> QED
    BY <1>0, <1>1, <1>5, <2>2, <2>4, <2>5, <2>6, JobCallNodes, Zenon
<1>6. CASE Cleaned(c)
  <2>0. ~jobs[j].node /\ node_refs' = node_refs
    BY <1>1, <1>6, ZenonT(40) DEF Cleaned, At
  <2>1. CASE jobs' = [jobs EXCEPT ![j] = FreeJob] /\ Back(c)
    <3>1. JobBecomes(j, "Free", "none", FALSE, FALSE)
      BY <1>1, <2>1, Zenon DEF JobBecomes, JobsInv, Shaped, FreeJob
    <3>2. CallTo(c, "none", {}, {})
      BY <2>1, CallGoes, Zenon
    <3> HIDE DEF j
    <3>3. jobs[j].node = FALSE
      BY <1>1, <2>0, ZenonT(40)
    <3>4. JobBecomes(j, "Free", "none", FALSE, jobs[j].node)
      BY <3>1, <3>3, ZenonT(40)
    <3> QED
      BY <1>2, <2>0, <3>2, <3>4, ZenonT(40)
  <2>2. CASE jobs' = [jobs EXCEPT ![j].internal = "Published"] /\ (Go(c, "release") \/ Back(c))
    <3>1. JobBecomes(j, "Published", jobs[j].state, jobs[j].io, jobs[j].node)
      BY <1>1, <2>2, OneField, ZenonT(40)
    <3>2. CallTo(c, "release", call[c].target, j) \/ CallTo(c, "none", {}, {})
      BY <2>2, CallGoes, ZenonT(40)
    <3> HIDE DEF j
    <3> QED
      BY <1>2, <2>0, <3>1, <3>2, Zenon
  <2> QED
    BY <1>6, <2>1, <2>2, ZenonT(40) DEF Cleaned
<1> QED
  BY <1>3, <1>4, <1>5, <1>6, Zenon DEF Unpin, Unref, Job

\* Steps that take or give no reference.
LEMMA OthersNodes ==
    ASSUME NodesInv, UNCHANGED <<targets, call, node_refs>>,
           \A j \in Jobs : jobs'[j].node = jobs[j].node /\ jobs'[j].internal = jobs[j].internal,
           \A c \in Callers : call[c].at = "cleaned" => call[c].job \in Jobs
    PROVE  NodesInv'
<1>1. TargetsShaped' /\ TargetsOwn'
  BY Zenon DEF NodesInv, TargetsShaped, TargetsOwn
<1>2. NodesAgree'
  BY Zenon DEF NodesInv, NodesAgree
<1>3. TargetNodes' = TargetNodes /\ JobNodes' = JobNodes
  BY Zenon DEF TargetNodes, JobNodes, Closed
<1> QED
  BY <1>1, <1>2, <1>3, NothingMoves, Zenon DEF NodesInv

\* The jobs keep their nodes in the steps of workers and of the reaper.
LEMMA RunNodes ==
    ASSUME JobsInv,
           (\E w \in Workers : WorkerStep(w)) \/ (\E S : Withdrawn(S)) \/ UNCHANGED jobs
    PROVE  \A j \in Jobs : jobs'[j].node = jobs[j].node /\ jobs'[j].internal = jobs[j].internal
<1>1. ASSUME NEW k \in Jobs, NEW s, NEW o, JobBecomes(k, jobs[k].internal, s, o, jobs[k].node)
      PROVE  \A j \in Jobs : jobs'[j].node = jobs[j].node /\ jobs'[j].internal = jobs[j].internal
  BY <1>1, ZenonT(40) DEF JobBecomes
<1>2. ASSUME NEW w \in Workers, WorkerStep(w)
      PROVE  \A j \in Jobs : jobs'[j].node = jobs[j].node /\ jobs'[j].internal = jobs[j].internal
  <2>1. CASE UNCHANGED jobs
    BY <2>1, Zenon
  <2>2. ASSUME run[w].at \in InJob,
               \/ jobs' = [jobs EXCEPT ![run[w].job].io = TRUE]
               \/ jobs' = [jobs EXCEPT ![run[w].job].state = Outcome(run[w].at)]
        PROVE  \A j \in Jobs : jobs'[j].node = jobs[j].node /\ jobs'[j].internal = jobs[j].internal
    <3> DEFINE k == run[w].job
    <3>1. k \in Jobs
      BY <2>2, Zenon DEF JobsInv, RunsOwn
    <3>2. \/ JobBecomes(k, jobs[k].internal, jobs[k].state, TRUE, jobs[k].node)
          \/ JobBecomes(k, jobs[k].internal, Outcome(run[w].at), jobs[k].io, jobs[k].node)
      BY <2>2, <3>1, OneField, ZenonT(40)
    <3> HIDE DEF k
    <3> QED
      BY <1>1, <3>1, <3>2, ZenonT(40)
  <2>3. CASE RunBegin(w)
    <3> DEFINE k == CHOOSE l \in Jobs : jobs[l].handle = run[w].handle
    <3>1. CASE /\ \E j \in Jobs : jobs[j].handle = run[w].handle /\ jobs[j].internal = "Published"
                                  /\ jobs[j].state = "Queued"
               /\ jobs' = [jobs EXCEPT ![k].worker = w, ![k].state = "Running"]
      <4>1. k \in Jobs
        BY <3>1, Zenon
      <4> HIDE DEF k
      <4>2. JobBecomes(k, jobs[k].internal, "Running", jobs[k].io, jobs[k].node)
        BY <3>1, <4>1, MoreFields, ZenonT(40)
      <4> QED
        BY <1>1, <4>1, <4>2, ZenonT(40)
    <3> HIDE DEF k
    <3> QED
      BY <2>1, <2>3, <3>1, Zenon DEF RunBegin, k
  <2>4. CASE RunEnd(w) \/ FactoryBegin(w)
    BY <2>1, <2>2, <2>4, ZenonT(40) DEF RunEnd, FactoryBegin, RunAt, InJob
  <2>5. CASE FactoryClaim(w) \/ FactoryPublish(w) \/ FactoryEnd(w) \/ FactoryRelease(w)
    BY <2>1, <2>5, ZenonT(40) DEF FactoryClaim, FactoryPublish, FactoryEnd, FactoryRelease, jobVars
  <2> QED
    BY <1>2, <2>3, <2>4, <2>5, Zenon DEF WorkerStep
<1>3. ASSUME NEW S, Withdrawn(S), NEW j \in Jobs
      PROVE  jobs'[j].node = jobs[j].node /\ jobs'[j].internal = jobs[j].internal
  <2>1. jobs'[j] = jobs[j] \/ jobs'[j] = [jobs[j] EXCEPT !.state = "Quarantined"]
    BY <1>3, ZenonT(40) DEF Withdrawn
  <2>2. jobs[j] = [internal |-> jobs[j].internal, state |-> jobs[j].state,
                   handle |-> jobs[j].handle, owner |-> jobs[j].owner,
                   worker |-> jobs[j].worker, gen |-> jobs[j].gen, node |-> jobs[j].node,
                   pin |-> jobs[j].pin, io |-> jobs[j].io]
    BY Zenon DEF JobsInv, Shaped
  <2> QED
    BY <2>1, <2>2, ZenonT(40)
<1> QED
  BY <1>2, <1>3, ZenonT(40)

\* Every step keeps the account of the references.
LEMMA NodesStep == JobsInv /\ NodesInv /\ [Next]_vars => NodesInv'
<1> SUFFICES ASSUME JobsInv, NodesInv, [Next]_vars PROVE NodesInv'
  BY ZenonT(40)
<1>1. CASE \E c \in Callers : Caller(c)
  BY <1>1, SelectNodes, CloseNodes, QueueNodes, AskNodes, CleanNodes, Zenon DEF Caller
<1>2. \A c \in Callers : call[c].at = "cleaned" => call[c].job \in Jobs
  BY ZenonT(40) DEF JobsInv, CallsOwn, Cleaning
<1>3. CASE \E w \in Workers : WorkerStep(w)
  <2>1. UNCHANGED <<targets, call, node_refs>>
    BY <1>3, ZenonT(40)
       DEF WorkerStep, RunBegin, FactoryClaim, FactoryPublish, FactoryBegin, FactoryEnd,
       FactoryRelease, RunEnd, jobVars
  <2> QED
    BY <1>2, <1>3, <2>1, RunNodes, OthersNodes, Zenon
<1>4. CASE ReapJobs \/ \E s \in Tasks : FreeTask(s)
  <2>1. UNCHANGED <<targets, call, node_refs>> /\ \E S : Withdrawn(S)
    BY <1>4, ZenonT(40) DEF ReapJobs, FreeTask, AbandonWorker
  <2> QED
    BY <1>2, <2>1, RunNodes, OthersNodes, ZenonT(40)
<1>5. CASE \/ ReapAccess \/ Revoke \/ OthersBegin \/ OthersEnd \/ UNCHANGED vars
           \/ \E s \in Tasks : Kill(s) \/ Stop(s)
  <2>1. UNCHANGED <<targets, call, node_refs, jobs>>
    BY <1>5, ZenonT(40) DEF ReapAccess, Revoke, OthersBegin, OthersEnd, Kill, Stop, vars, jobVars
  <2> QED
    BY <1>2, <2>1, RunNodes, OthersNodes, Zenon
<1> QED
  BY <1>1, <1>3, <1>4, <1>5, Zenon DEF Next

\* At the start nobody has a reference.
LEMMA NodesInitial == Init => NodesInv
<1> SUFFICES ASSUME Init PROVE NodesInv
  BY Zenon
<1>1. TargetsShaped
  BY ZenonT(40) DEF Init, TargetsShaped, FreeTarget
<1>2. TargetsOwn
  BY Zenon DEF Init, TargetsOwn, NoCall, Selecting, Closing, Preparing
<1>3. NodesAgree
  BY Zenon DEF Init, NodesAgree, NoCall, FreeTarget, FreeJob
<1>4. TargetNodes = {} /\ JobNodes = {}
  BY ZenonT(40) DEF Init, TargetNodes, JobNodes, FreeTarget, FreeJob
<1>5. Accounted
  BY <1>4, FS_EmptySet, SMTT(30) DEF Init, Accounted
<1> QED
  BY <1>1, <1>2, <1>3, <1>5, Zenon DEF NodesInv

\* The node behind a target or a job is not closed under it (jobs_select_target,
\* close_target, jobs_queue and clean_job, with kills and failed closes between
\* any two steps): the references are those of the slots that hold one.
THEOREM NodesStayHeld == Spec => []NodesHeld
<1>1. NodesInv => NodesHeld
  <2> SUFFICES ASSUME NodesInv PROVE NodesHeld
    BY Zenon
  <2> DEFINE T == {t \in Targets : targets[t].node /\ targets[t].state # "Cleaning"}
  <2>1. T \in SUBSET TargetNodes
    BY StillOpen, ZenonT(40) DEF NodesInv, Agreed, TargetNodes
  <2>2. Cardinality(T) <= Cardinality(TargetNodes) /\ Cardinality(T) \in Nat
    BY <2>1, FiniteNodes, FS_Subset, FS_CardinalityType, Zenon
  <2> HIDE DEF T
  <2>3. node_refs >= Cardinality(T) + Cardinality(JobNodes)
    BY <2>2, FiniteNodes DEF NodesInv, Accounted
  <2> QED
    BY <2>3, ZenonT(40) DEF NodesHeld, T, JobNodes
<1> QED
  BY <1>1, JobsInitial, JobsStep, NodesInitial, NodesStep, PTL DEF Spec

=============================================================================
