----------------------------- MODULE OrphanList -----------------------------
(***************************************************************************)
(* Last links, open files and the orphan list of a writable ext4 volume:   *)
(* driver/fs/ext4/orphan.cpp and namespace.cpp, the callbacks of ext4.cpp  *)
(* and the vnode lifetime of driver/fs/vfs/vfs.cpp around them.  A         *)
(* transaction of WriteSession is one step, which is what the module       *)
(* Journal shows of it; a callback holds ext4.cpp's Guard for all of its   *)
(* transactions, while vnode references change under VFS's child lock at   *)
(* any time.  One directory of regular files; a size counts blocks.        *)
(***************************************************************************)
EXTENDS Integers, FiniteSets, Functions, TLC

CONSTANTS
    Inodes, Names, Vnodes, Threads,
    None,        \* no inode, no vnode, no name, nobody
    Kernel,      \* whoever mounts, unmounts and shuts down
    MaxBlocks    \* bound on the size of a file

ASSUME OrphanAssumption ==
    /\ IsFiniteSet(Inodes) /\ IsFiniteSet(Names)
    /\ None \notin Inodes \cup Names \cup Vnodes \cup Threads
    /\ Kernel \notin Threads \cup {None}
    /\ MaxBlocks \in Nat \ {0}

VARIABLES
    fs,          \* the volume: directory, inodes and the list
    recover,     \* RECOVER in its superblock
    mode,        \* the mount
    held,        \* held_bits_
    vn,          \* the vnodes with their ext4 handles
    fds,         \* the vnodes a descriptor refers to
    guard,       \* who is in Guard
    job,         \* the inode clean_orphan works on, and release_inode
    pc, at,      \* a thread's place and its vnode
    arg          \* what a callback goes on with

threads == <<pc, at, arg>>
vars == <<fs, recover, mode, held, vn, fds, guard, job, threads>>

NoVnode == [inode |-> None, name |-> None, refs |-> 0,
            marked |-> FALSE, unlinked |-> FALSE, deleted |-> FALSE]

NoArg == [inode |-> None, vnode |-> None, name |-> None]

Named(i, n) == [NoVnode EXCEPT !.inode = i, !.name = n, !.refs = 1]

Init ==
    /\ fs = [dir |-> [n \in Names |-> None], links |-> [i \in Inodes |-> 0],
             used |-> [i \in Inodes |-> FALSE], size |-> [i \in Inodes |-> 0],
             blocks |-> [i \in Inodes |-> 0], head |-> None, next |-> [i \in Inodes |-> None]]
    /\ recover = FALSE
    /\ mode = "down" /\ held = {} /\ job = None /\ guard = None
    /\ vn = [v \in Vnodes |-> NoVnode] /\ fds = {}
    /\ pc = [t \in Threads |-> "idle"]
    /\ at = [t \in Threads |-> None] /\ arg = [t \in Threads |-> NoArg]
-----------------------------------------------------------------------------
(***************************************************************************)
(* The list, and what a transaction does to the volume f.                  *)
(***************************************************************************)
\* The walk from the head: find_orphan, validate_orphans_afterstate.
Walk(f) ==
    LET walk[n \in 0..Cardinality(Inodes)] ==
          IF n = 0 THEN f.head
          ELSE IF walk[n - 1] = None THEN None ELSE f.next[walk[n - 1]]
    IN walk

Pending(f) == {Walk(f)[n] : n \in 0..Cardinality(Inodes)} \ {None}

\* tx_add_orphan, tx_remove_orphan.
AddOrphan(f, i) == [f EXCEPT !.next[i] = f.head, !.head = i]

RemoveOrphan(f, i) ==
    IF f.head = i
    THEN [f EXCEPT !.head = f.next[i], !.next[i] = None]
    ELSE LET previous == CHOOSE j \in Pending(f) : f.next[j] = i
         IN [f EXCEPT !.next[previous] = f.next[i], !.next[i] = None]

\* tx_release_inode.
ReleaseInode(f, i) == [f EXCEPT !.used[i] = FALSE, !.size[i] = 0]

\* Mutant: the last link goes, and the intent is left to a later transaction.
DropLinkOnly(f, i) == [f EXCEPT !.links[i] = @ - 1]

\* The part of unlink and rename that takes a link off an inode.
DropLink(f, i) ==
    LET g == [f EXCEPT !.links[i] = @ - 1]
    IN IF f.links[i] = 1 THEN AddOrphan(g, i) ELSE g

Unlinked(f, n) == [DropLink(f, f.dir[n]) EXCEPT !.dir[n] = None]

Renamed(f, n, m) ==
    LET g == IF f.dir[m] = None THEN f ELSE DropLink(f, f.dir[m])
    IN [g EXCEPT !.dir[m] = f.dir[n], !.dir[n] = None]

Created(f, n, i) == [f EXCEPT !.dir[n] = i, !.links[i] = 1, !.used[i] = TRUE]

Linked(f, n, i) == [f EXCEPT !.dir[n] = i, !.links[i] = @ + 1]

Resized(f, i, s) == [f EXCEPT !.size[i] = s, !.blocks[i] = s]
-----------------------------------------------------------------------------
(***************************************************************************)
(* clean_orphan, transaction by transaction, for whoever is in Guard.      *)
(***************************************************************************)
Cleaning(i, release) == [inode |-> i, release |-> release]

CleanSize ==
    /\ job # None /\ job.release /\ fs.size[job.inode] # 0
    /\ fs' = [fs EXCEPT !.size[job.inode] = 0]
    /\ UNCHANGED <<recover, mode, held, vn, fds, guard, job, threads>>

\* Some of the blocks behind the size; the last transaction takes the inode
\* off the list and, when blocks went before it, is one of its own.
CleanBlocks(removed) ==
    LET i == job.inode
        left == fs.blocks[i] - fs.size[i]
        f == [fs EXCEPT !.blocks[i] = @ - removed]
        finalize == removed = left /\ (~job.release \/ removed = 0)
        off == IF finalize /\ (job.release \/ fs.links[i] # 0) THEN RemoveOrphan(f, i) ELSE f
    IN /\ job # None /\ ~(job.release /\ fs.size[i] # 0)
       /\ removed \in 0..left /\ (removed = 0 => left = 0)
       /\ fs' = IF finalize /\ job.release THEN ReleaseInode(off, i) ELSE off
       /\ job' = IF finalize THEN None ELSE job
       /\ UNCHANGED <<recover, mode, held, vn, fds, guard, threads>>

\* What reclaim_orphan(i) begins; a held inode that is not on the list stops
\* the mount.
ReclaimJob(f, i) == IF i \in Pending(f) /\ f.links[i] = 0 THEN Cleaning(i, TRUE) ELSE None

\* Mutant: the hold outlives the inode.
ReclaimKeepsHold(f, i) == held

ReclaimHeld(f, i) == IF ReclaimJob(f, i) # None THEN held \ {i} ELSE held

ReclaimStops(f, i) == i \notin Pending(f) /\ i \in held

\* ext4.cpp, refresh: the handles of an inode that is gone are deleted, and one
\* that has a name then fails the mount.
Refreshed(vs, i) ==
    [v \in Vnodes |-> IF vs[v].inode = i /\ vs[v].unlinked /\ ~fs.used[i]
                      THEN [vs[v] EXCEPT !.deleted = TRUE] ELSE vs[v]]

RefreshFails(vs, i) ==
    ~fs.used[i] /\ \E v \in Vnodes : vs[v].inode = i /\ ~vs[v].deleted /\ ~vs[v].unlinked
-----------------------------------------------------------------------------
(***************************************************************************)
(* VFS: lookups, descriptors and vnode references.                         *)
(***************************************************************************)
Running == mode = "mounted"

Goto(t, where) == pc' = [pc EXCEPT ![t] = where]

\* vfs_child_find_for_open.
Visible(v) == vn[v].name # None /\ ~vn[v].marked

OpenFile(v) ==
    /\ Running /\ Visible(v) /\ v \notin fds
    /\ fds' = fds \cup {v}
    /\ vn' = [vn EXCEPT ![v].refs = @ + 1]
    /\ UNCHANGED <<fs, recover, mode, held, guard, job, threads>>

\* A system call looks its file up and has a reference of its own.
Lookup(t, v) ==
    /\ Running /\ pc[t] = "idle" /\ Visible(v)
    /\ vn' = [vn EXCEPT ![v].refs = @ + 1]
    /\ at' = [at EXCEPT ![t] = v]
    /\ Goto(t, "looked")
    /\ UNCHANGED <<fs, recover, mode, held, fds, guard, job, arg>>

\* vfs_close: the last reference of a deleted vnode finalizes it.
CloseBy(t, v) ==
    /\ vn' = [vn EXCEPT ![v].refs = @ - 1]
    /\ IF vn[v].marked /\ vn[v].refs = 1
       THEN Goto(t, "finalize") /\ at' = [at EXCEPT ![t] = v]
       ELSE Goto(t, "idle") /\ at' = [at EXCEPT ![t] = None]
    /\ UNCHANGED <<fs, recover, mode, held, guard, job, arg>>

CloseFile(t, v) ==
    /\ Running /\ pc[t] = "idle" /\ v \in fds
    /\ fds' = fds \ {v}
    /\ CloseBy(t, v)

Forget(t) ==
    /\ Running /\ pc[t] = "looked"
    /\ CloseBy(t, at[t])
    /\ UNCHANGED fds

\* Mutant: only the vnode at hand is looked at.
IsOpenHere(vs, i, current, callers) ==
    \E v \in Vnodes :
       /\ v = current /\ vs[v].inode = i /\ ~vs[v].deleted
       /\ vs[v].refs > (IF vs[v].unlinked THEN 0 ELSE 1) + callers

\* ext4.cpp, inode_is_open.
IsOpen(vs, i, current, callers) ==
    \E v \in Vnodes :
       /\ vs[v].inode = i /\ ~vs[v].deleted
       /\ vs[v].refs > (IF vs[v].unlinked THEN 0 ELSE 1) + (IF v = current THEN callers ELSE 0)

\* ext4.cpp, finalize_node up to the end of reclaim_orphan's first steps: the
\* handle goes, and the inode if nothing else has it open.
FinalizeHandle(v) ==
    LET i == vn[v].inode
        vs == [vn EXCEPT ![v] = NoVnode]
        reclaim == vn[v].unlinked /\ ~IsOpen(vs, i, None, 0)
    IN /\ vn' = vs
       /\ job' = IF reclaim THEN ReclaimJob(fs, i) ELSE None
       /\ held' = IF reclaim THEN ReclaimHeld(fs, i) ELSE held
       /\ mode' = IF reclaim /\ ReclaimStops(fs, i) THEN "broken" ELSE mode

Finalize(t) ==
    /\ Running /\ pc[t] = "finalize" /\ guard = None
    /\ FinalizeHandle(at[t])
    /\ guard' = t /\ Goto(t, "finalizing")
    /\ arg' = [arg EXCEPT ![t].inode = vn[at[t]].inode]
    /\ at' = [at EXCEPT ![t] = None]
    /\ UNCHANGED <<fs, recover, fds>>

\* The end of a callback: refresh, and Guard is left.
Leaves(t, vs, i, next) ==
    /\ guard = t /\ job = None /\ Running
    /\ vn' = Refreshed(vs, i)
    /\ mode' = IF RefreshFails(vs, i) THEN "broken" ELSE mode
    /\ guard' = None
    /\ Goto(t, next)

FinalizeDone(t) ==
    /\ pc[t] = "finalizing"
    /\ Leaves(t, vn, arg[t].inode, "idle")
    /\ arg' = [arg EXCEPT ![t] = NoArg]
    /\ UNCHANGED <<fs, recover, held, fds, job, at>>
-----------------------------------------------------------------------------
(***************************************************************************)
(* vfs.cpp, delete_impl and ext4.cpp, delete_node.                         *)
(***************************************************************************)
DeleteMark(t) ==
    /\ Running /\ pc[t] = "looked" /\ ~vn[at[t]].marked
    /\ vn' = [vn EXCEPT ![at[t]].marked = TRUE]
    /\ Goto(t, "marked")
    /\ UNCHANGED <<fs, recover, mode, held, fds, guard, job, at, arg>>

\* What follows the transaction that took the last link of i: hold_orphan or
\* reclaim_orphan.
AfterDrop(f, i, last, defer) ==
    /\ held' = IF last /\ defer THEN held \cup {i}
               ELSE IF last THEN ReclaimHeld(f, i) ELSE held
    /\ job' = IF last /\ ~defer THEN ReclaimJob(f, i) ELSE None

DeleteUnlink(t) ==
    LET v == at[t]
        i == vn[v].inode
        last == fs.links[i] = 1
    IN /\ Running /\ pc[t] = "marked" /\ guard = None
       /\ fs' = Unlinked(fs, vn[v].name)
       /\ AfterDrop(fs', i, last, IsOpen(vn, i, v, 1))
       /\ mode' = IF last /\ i \in Pending(fs) THEN "broken" ELSE mode
       /\ guard' = t /\ Goto(t, "unlinking")
       /\ UNCHANGED <<recover, vn, fds, at, arg>>

\* unlink refuses, for want of space or of room in a transaction.
DeleteRefused(t) ==
    /\ Running /\ pc[t] = "marked" /\ guard = None
    /\ vn' = [vn EXCEPT ![at[t]].marked = FALSE]
    /\ Goto(t, "looked")
    /\ UNCHANGED <<fs, recover, mode, held, fds, guard, job, at, arg>>

DeleteDone(t) ==
    /\ pc[t] = "unlinking"
    /\ Leaves(t, [vn EXCEPT ![at[t]].unlinked = TRUE], vn[at[t]].inode, "unlinked")
    /\ UNCHANGED <<fs, recover, held, fds, job, at, arg>>

\* The tree's and the caller's references go.
DeleteDetach(t) ==
    LET v == at[t]
        last == vn[v].refs = 2
    IN /\ Running /\ pc[t] = "unlinked"
       /\ vn' = [vn EXCEPT ![v].name = None, ![v].refs = @ - 2]
       /\ Goto(t, IF last THEN "finalize" ELSE "idle")
       /\ at' = IF last THEN at ELSE [at EXCEPT ![t] = None]
       /\ UNCHANGED <<fs, recover, mode, held, fds, guard, job, arg>>
-----------------------------------------------------------------------------
(***************************************************************************)
(* ext4.cpp, rename_node, of the vnode the thread has looked up.           *)
(***************************************************************************)
NamedBy(m) == {w \in Vnodes : vn[w].name = m}

RenameReserve(t, m) ==
    LET v == at[t]
        targets == NamedBy(m)
        w == IF targets = {} THEN None ELSE CHOOSE x \in targets : TRUE
    IN /\ Running /\ pc[t] = "looked" /\ guard = None
       /\ ~vn[v].marked /\ vn[v].name # None
       /\ \A x \in targets : ~vn[x].marked /\ vn[x].inode # vn[v].inode
       /\ vn' = [x \in Vnodes |-> IF x \in {v, w} THEN [vn[x] EXCEPT !.marked = TRUE] ELSE vn[x]]
       /\ arg' = [arg EXCEPT ![t] = [inode |-> fs.dir[m], vnode |-> w, name |-> m]]
       /\ guard' = t /\ Goto(t, "reserved")
       /\ UNCHANGED <<fs, recover, mode, held, fds, job, at>>

RenameCommit(t) ==
    LET i == arg[t].inode
        last == i # None /\ fs.links[i] = 1
    IN /\ Running /\ pc[t] = "reserved"
       /\ fs' = Renamed(fs, vn[at[t]].name, arg[t].name)
       /\ AfterDrop(fs', i, last, IsOpen(vn, i, arg[t].vnode, 0))
       /\ mode' = IF last /\ i \in Pending(fs) THEN "broken" ELSE mode
       /\ Goto(t, "renamed")
       /\ UNCHANGED <<recover, vn, fds, guard, at, arg>>

RenameRefused(t) ==
    /\ Running /\ pc[t] = "reserved"
    /\ vn' = [x \in Vnodes |-> IF x \in {at[t], arg[t].vnode} THEN [vn[x] EXCEPT !.marked = FALSE] ELSE vn[x]]
    /\ arg' = [arg EXCEPT ![t] = NoArg]
    /\ guard' = None /\ Goto(t, "looked")
    /\ UNCHANGED <<fs, recover, mode, held, fds, job, at>>

RenamePublish(t) ==
    LET moved == [vn EXCEPT ![at[t]].name = arg[t].name, ![at[t]].marked = FALSE]
        w == arg[t].vnode
    IN /\ Running /\ pc[t] = "renamed" /\ job = None
       /\ vn' = IF w = None THEN moved
                 ELSE [moved EXCEPT ![w].name = None, ![w].unlinked = TRUE]
       /\ Goto(t, "published")
       /\ UNCHANGED <<fs, recover, mode, held, fds, guard, job, at, arg>>

\* vfs_close of the replaced vnode, in Guard.
RenameClose(t) ==
    LET w == arg[t].vnode
    IN /\ Running /\ pc[t] = "published"
       /\ Goto(t, "closed")
       /\ IF w # None /\ vn[w].refs = 1 THEN FinalizeHandle(w)
          ELSE /\ vn' = IF w = None THEN vn ELSE [vn EXCEPT ![w].refs = @ - 1]
               /\ UNCHANGED <<mode, held, job>>
       /\ UNCHANGED <<fs, recover, fds, guard, at, arg>>

RenameDone(t) ==
    /\ pc[t] = "closed"
    /\ IF arg[t].inode # None THEN Leaves(t, vn, arg[t].inode, "looked")
       ELSE Leaves(t, vn, vn[at[t]].inode, "looked")
    /\ arg' = [arg EXCEPT ![t] = NoArg]
    /\ UNCHANGED <<fs, recover, held, fds, job, at>>
-----------------------------------------------------------------------------
(***************************************************************************)
(* The other mutations of ext4.cpp, one transaction each.                  *)
(***************************************************************************)
Unused(v) == vn[v] = NoVnode

\* make_node between reserve_creation and finish_creation, which hide the name.
Create(n, i, v) ==
    /\ Running /\ guard = None
    /\ NamedBy(n) = {} /\ fs.dir[n] = None /\ ~fs.used[i] /\ Unused(v)
    /\ fs' = Created(fs, n, i)
    /\ vn' = [vn EXCEPT ![v] = Named(i, n)]
    /\ UNCHANGED <<recover, mode, held, fds, guard, job, threads>>

\* create_link_node.
Link(t, n, v) ==
    LET i == vn[at[t]].inode
    IN /\ Running /\ pc[t] = "looked" /\ guard = None
       /\ ~vn[at[t]].deleted /\ fs.links[i] # 0
       /\ NamedBy(n) = {} /\ fs.dir[n] = None /\ Unused(v)
       /\ fs' = Linked(fs, n, i)
       /\ vn' = [vn EXCEPT ![v] = Named(i, n)]
       /\ UNCHANGED <<recover, mode, held, fds, guard, job, threads>>

\* write_node: pwrite behind the end.
Append(v) ==
    LET i == vn[v].inode
    IN /\ Running /\ guard = None /\ v \in fds /\ ~vn[v].deleted
       /\ fs.size[i] < MaxBlocks
       /\ fs' = Resized(fs, i, fs.size[i] + 1)
       /\ UNCHANGED <<recover, mode, held, vn, fds, guard, job, threads>>

\* resize_node and truncate, if one transaction has room for it.
Truncate(v, s) ==
    LET i == vn[v].inode
    IN /\ Running /\ guard = None /\ v \in fds
       /\ s < fs.size[i]
       /\ fs' = Resized(fs, i, s)
       /\ UNCHANGED <<recover, mode, held, vn, fds, guard, job, threads>>

\* begin_orphan_truncate.
TruncateBegin(t, v, s) ==
    LET i == vn[v].inode
        f == [fs EXCEPT !.size[i] = s]
    IN /\ Running /\ guard = None /\ pc[t] = "idle" /\ v \in fds
       /\ s < fs.size[i]
       /\ fs' = IF i \in Pending(fs) THEN f ELSE AddOrphan(f, i)
       /\ job' = Cleaning(i, FALSE)
       /\ guard' = t /\ Goto(t, "truncating")
       /\ arg' = [arg EXCEPT ![t].inode = i]
       /\ UNCHANGED <<recover, mode, held, vn, fds, at>>

TruncateDone(t) ==
    /\ pc[t] = "truncating"
    /\ Leaves(t, vn, arg[t].inode, "idle")
    /\ arg' = [arg EXCEPT ![t] = NoArg]
    /\ UNCHANGED <<fs, recover, held, fds, job, at>>
-----------------------------------------------------------------------------
(***************************************************************************)
(* write.cpp, open, close and shutdown; orphan.cpp, recover_orphans.       *)
(***************************************************************************)
\* validate_orphans_afterstate and validate_orphan_references.
Valid(f) ==
    /\ Walk(f)[Cardinality(Inodes)] = None
    /\ \A i \in Pending(f) : f.used[i]
    /\ \A n \in Names : f.dir[n] # None => f.links[f.dir[n]] # 0

Mount ==
    /\ mode = "down" /\ guard = None
    /\ IF (~recover /\ fs.head # None) \/ ~Valid(fs)
       THEN mode' = "refused" /\ UNCHANGED <<recover, guard>>
       ELSE mode' = "recovering" /\ recover' = TRUE /\ guard' = Kernel
    /\ held' = {}
    /\ UNCHANGED <<fs, vn, fds, job, threads>>

\* prepare_unmount behind VFS's busy scan: every vnode is a name that nobody
\* refers to.
Unmount ==
    /\ Running /\ guard = None /\ held = {}
    /\ \A v \in Vnodes : Unused(v) \/ (Visible(v) /\ vn[v].refs = 1)
    /\ mode' = "unmounting" /\ guard' = Kernel
    /\ UNCHANGED <<fs, recover, held, vn, fds, job, threads>>

\* ext4fs_finish_all: files may be open.
Shutdown ==
    /\ Running /\ guard = None
    /\ held' = {}
    /\ mode' = "stopping" /\ guard' = Kernel
    /\ UNCHANGED <<fs, recover, vn, fds, job, threads>>

\* Mutant: recover_orphans passes over a truncated file.
OnlyDeleted == {n \in 0..Cardinality(Inodes) :
                 LET i == Walk(fs)[n] IN i # None /\ i \notin held /\ fs.links[i] = 0}

\* The places of the list recover_orphans may choose.
NotHeld == {n \in 0..Cardinality(Inodes) : LET i == Walk(fs)[n] IN i # None /\ i \notin held}

RecoverNext ==
    /\ guard = Kernel /\ job = None /\ NotHeld # {}
    /\ \E n \in NotHeld :
          /\ \A m \in NotHeld : n <= m
          /\ LET i == Walk(fs)[n] IN job' = Cleaning(i, fs.links[i] = 0)
    /\ UNCHANGED <<fs, recover, mode, held, vn, fds, guard, threads>>

\* Behind recover_orphans: the names are published, or RECOVER is cleared.
RecoverDone ==
    /\ guard = Kernel /\ job = None /\ NotHeld = {}
    /\ guard' = None
    /\ CASE mode = "recovering" ->
              /\ mode' = "mounted" /\ UNCHANGED recover
              /\ LET names == {n \in Names : fs.dir[n] # None}
                 IN \E f \in Injection(names, Vnodes) :
                       vn' = [v \in Vnodes |->
                                IF \E n \in names : f[n] = v
                                THEN LET n == CHOOSE m \in names : f[m] = v IN Named(fs.dir[n], n)
                                ELSE NoVnode]
         [] mode = "unmounting" ->
              mode' = "down" /\ recover' = FALSE /\ vn' = [v \in Vnodes |-> NoVnode]
         [] mode = "stopping" -> mode' = "off" /\ recover' = FALSE /\ UNCHANGED vn
    /\ UNCHANGED <<fs, held, fds, job, threads>>
-----------------------------------------------------------------------------
\* An I/O error, or the thread in Guard is killed: io_failed or the poisoned
\* latch refuses every callback until the machine restarts.
Fault ==
    /\ mode \in {"mounted", "recovering", "unmounting", "stopping"}
    /\ mode' = "failed"
    /\ UNCHANGED <<fs, recover, held, vn, fds, guard, job, threads>>

\* A thread is killed in a system call, outside Guard.
Kill(t) ==
    /\ Running /\ pc[t] \notin {"idle", "dead"} /\ guard # t
    /\ Goto(t, "dead")
    /\ UNCHANGED <<fs, recover, mode, held, vn, fds, guard, job, at, arg>>

Crash ==
    /\ mode \notin {"down", "refused", "broken"}
    /\ mode' = "down" /\ held' = {} /\ job' = None /\ guard' = None
    /\ vn' = [v \in Vnodes |-> NoVnode] /\ fds' = {}
    /\ pc' = [t \in Threads |-> "idle"]
    /\ at' = [t \in Threads |-> None] /\ arg' = [t \in Threads |-> NoArg]
    /\ UNCHANGED <<fs, recover>>

Files ==
    \/ \E v \in Vnodes : OpenFile(v) \/ Append(v) \/ \E s \in 0..MaxBlocks : Truncate(v, s)
    \/ \E n \in Names, i \in Inodes, v \in Vnodes : Create(n, i, v)

Calls(t) ==
    \/ \E v \in Vnodes : Lookup(t, v) \/ CloseFile(t, v)
    \/ Forget(t) \/ Finalize(t) \/ FinalizeDone(t)
    \/ DeleteMark(t) \/ DeleteUnlink(t) \/ DeleteRefused(t) \/ DeleteDone(t) \/ DeleteDetach(t)
    \/ \E m \in Names : RenameReserve(t, m)
    \/ RenameCommit(t) \/ RenameRefused(t) \/ RenamePublish(t) \/ RenameClose(t) \/ RenameDone(t)
    \/ \E n \in Names, v \in Vnodes : Link(t, n, v)
    \/ \E v \in Vnodes, s \in 0..MaxBlocks : TruncateBegin(t, v, s)
    \/ TruncateDone(t)
    \/ Kill(t)

Volume ==
    \/ mode # "failed" /\ (CleanSize \/ \E n \in 0..MaxBlocks : CleanBlocks(n))
    \/ Mount \/ Unmount \/ Shutdown
    \/ mode # "failed" /\ (RecoverNext \/ RecoverDone)
    \/ Fault \/ Crash

Next == Files \/ (\E t \in Threads : Calls(t)) \/ Volume

Spec == Init /\ [][Next]_vars
-----------------------------------------------------------------------------
\* What a consistency check of the volume asks, in every state, for a crash
\* may come in any: an inode has as many links as names, one without a name is
\* on the orphan list or free, the list ends, and blocks behind the end of a
\* file belong to an inode on the list.
FsckClean ==
    /\ Walk(fs)[Cardinality(Inodes)] = None
    /\ \A i \in Inodes :
          /\ fs.links[i] = Cardinality({n \in Names : fs.dir[n] = i})
          /\ fs.used[i] <=> fs.links[i] # 0 \/ i \in Pending(fs)
          /\ fs.blocks[i] # 0 => fs.used[i]
          /\ fs.blocks[i] > fs.size[i] => i \in Pending(fs)

\* A file that a descriptor refers to keeps its inode, whatever unlink, rename
\* and the close of other names of it do, until the volume is shut down; its
\* number is therefore never given to another file under the descriptor.
OpenKeepsFile ==
    mode = "mounted" =>
       \A v \in fds : LET i == vn[v].inode IN
          fs.used[i] /\ ~vn[v].deleted /\ (fs.links[i] = 0 => i \in held \cap Pending(fs))

\* Between callbacks the list of a mounted volume has only deleted files that
\* are held for someone, whose last close is still to come and will reclaim
\* them; only a thread that was killed before its finalize_node leaves one.
OrphansAwaited ==
    mode = "mounted" /\ guard = None =>
       /\ held = Pending(fs)
       /\ \A i \in held :
             /\ fs.links[i] = 0
             /\ \E v \in Vnodes :
                   /\ vn[v].inode = i
                   /\ vn[v].refs > 0 \/ \E t \in Threads : at[t] = v /\ pc[t] \in {"finalize", "dead"}

\* No history of calls, crashes and failures makes open refuse the volume or
\* makes a callback take its own list or handles for corrupt.
NeverTakenForCorrupt == mode \notin {"refused", "broken"}
=============================================================================
