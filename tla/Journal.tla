------------------------------ MODULE Journal ------------------------------
(***************************************************************************)
(* driver/fs/ext4/journal.cpp, Journal::commit and Journal::recover, with  *)
(* the calls of driver/fs/ext4/write.cpp that open and close a writable    *)
(* mount around them.  The device has a write-back cache: pending holds    *)
(* the writes since the last flush, and a crash keeps any part of them, so *)
(* the writes between two barriers are one step.  The bit RECOVER is in    *)
(* the filesystem's superblock, which set_recovery writes beside the       *)
(* journal; it is a block of its own here, for the images of that block    *)
(* that transactions hold have the bit set as the disk has.                *)
(***************************************************************************)
EXTENDS JournalLog

CONSTANTS
    Super,       \* the block with RECOVER
    Imported,    \* journals another writer left behind, with what they mean
    MaxCommits,  \* bound on the transactions
    MaxCrashes   \* bound on the crashes

\* The blocks of the journal and the superblock are no home blocks, and a
\* writer that leaves a log in use has set RECOVER.
ASSUME JournalAssumption ==
    /\ Home \cap (0..Ring) = {} /\ Super \notin Home \cup (0..Ring)
    /\ \A j \in Imported :
          /\ DOMAIN j.log = 0..Ring /\ DOMAIN j.home = Home
          /\ j.recover \in BOOLEAN /\ (j.log[0].start # 0 => j.recover = TRUE)

VARIABLES
    disk,        \* what the device keeps without power
    pending,     \* writes in its cache
    step,        \* the phase the mount is in
    stored,      \* its writes are issued, the barrier is not
    start_, sequence_,   \* the fields of the Journal
    updates,     \* the transaction that is being committed, in order
    replay,      \* the images recovery writes
    inherited,   \* history: what the imported log means until it is cleared
    commits, crashes

vars == <<disk, pending, step, stored, start_, sequence_, updates, replay,
          inherited, commits, crashes>>

memory == <<start_, sequence_, updates, replay>>

Blocks == (0..Ring) \cup Home \cup {Super}

JournalSuper(start, s) == [kind |-> "super", start |-> start, seq |-> s]

\* A journal mkfs made.
EmptyLog(s) == [b \in 0..Ring |-> IF b = 0 THEN JournalSuper(0, s) ELSE Zero]

Fresh(s) ==
    [log |-> EmptyLog(s), home |-> [b \in Home |-> Blank], recover |-> FALSE, means |-> << >>]

Init ==
    /\ \E j \in Imported :
          /\ disk = Over(j.log, Over(j.home, Only(Super, j.recover)))
          /\ inherited = j.means
    /\ pending = << >>
    /\ step = "down" /\ stored = FALSE
    /\ start_ = 0 /\ sequence_ = 0
    /\ updates = << >> /\ replay = << >>
    /\ commits = (IF inherited = << >> THEN 0 ELSE MaxCommits - 1)
    /\ crashes = 0
-----------------------------------------------------------------------------
(***************************************************************************)
(* The six barriers of Journal::commit: what is written before each.       *)
(***************************************************************************)
Targets == {updates[k].block : k \in DOMAIN updates}

CommitSlot == Advance(1, Len(updates) + 1)

AnchorWrites == Only(0, JournalSuper(1, sequence_))

InvalidateWrites == Only(CommitSlot, Zero)

RecordWrites ==
    Over(Only(1, Descriptor(sequence_, [k \in DOMAIN updates |-> Tag(updates[k].block, updates[k].value)])),
         [b \in {Advance(1, k) : k \in DOMAIN updates} |-> Image(updates[b - 1].value)])

CommitWrites == Only(CommitSlot, Commit(sequence_, TRUE))

HomeWrites == [b \in Targets |-> updates[CHOOSE k \in DOMAIN updates : updates[k].block = b].value]

\* Journal::clear.
ClearWrites == Only(0, JournalSuper(0, Successor(sequence_)))

\* Mutant: a writable mount does not mark the volume.
EnableNothing == << >>

\* WriteSession::set_recovery.
EnableWrites == Only(Super, TRUE)
DisableWrites == Only(Super, FALSE)

Writes ==
    CASE step = "anchor" -> AnchorWrites
      [] step = "invalidate" -> InvalidateWrites
      [] step = "records" -> RecordWrites
      [] step = "commit" -> CommitWrites
      [] step = "home" -> HomeWrites
      [] step = "replay" -> replay
      [] step \in {"clear", "reclear"} -> ClearWrites
      [] step = "enable" -> EnableWrites
      [] step = "disable" -> DisableWrites
      [] step = "sync" -> << >>

Committing == {"anchor", "invalidate", "records", "commit", "home", "clear"}
Busy == Committing \cup {"replay", "reclear", "enable", "sync", "disable"}

\* Mutant: the home blocks are written before the commit record.
HomeBeforeCommit ==
    [anchor |-> "invalidate", invalidate |-> "records", records |-> "home",
     home |-> "commit", commit |-> "clear", clear |-> "idle",
     replay |-> "reclear", reclear |-> "enable", enable |-> "idle",
     sync |-> "disable", disable |-> "down"]

\* The step behind each barrier.
Following ==
    [anchor |-> "invalidate", invalidate |-> "records", records |-> "commit",
     commit |-> "home", home |-> "clear", clear |-> "idle",
     replay |-> "reclear", reclear |-> "enable", enable |-> "idle",
     sync |-> "disable", disable |-> "down"]

\* Journal::store and store_run.
Write ==
    /\ step \in Busy /\ ~stored
    /\ pending' = Over(Writes, pending)
    /\ stored' = TRUE
    /\ UNCHANGED <<disk, step, memory, inherited, commits, crashes>>

\* An imported log has its meaning until the empty superblock is on the disk.
Inherited(d) == IF d[0].start = 0 THEN << >> ELSE inherited

\* Journal::barrier, and what the code does when it succeeds.
Barrier ==
    /\ step \in Busy /\ stored
    /\ disk' = Over(pending, disk)
    /\ pending' = << >>
    /\ stored' = FALSE
    /\ step' = Following[step]
    /\ inherited' = Inherited(disk')
    /\ IF step \in {"clear", "reclear"}
       THEN start_' = 0 /\ sequence_' = Successor(sequence_)
       ELSE UNCHANGED <<start_, sequence_>>
    /\ updates' = IF step = "clear" THEN << >> ELSE updates
    /\ replay' = IF step = "replay" THEN << >> ELSE replay
    /\ UNCHANGED <<commits, crashes>>

\* A write or a flush fails: the device has all, some or nothing of it, and
\* failed_ refuses every later call until the machine restarts.
Fails ==
    /\ step \in Busy
    /\ step' = "failed"
    /\ pending' \in {pending, IF stored THEN pending ELSE Over(Writes, pending)}
    /\ stored' = FALSE
    /\ UNCHANGED <<disk, memory, inherited, commits, crashes>>

\* The updates that Journal::commit takes: as many as a descriptor has tags
\* for, each of another home block.
Acceptable(us) ==
    /\ Len(us) \in 1..MaxUpdates
    /\ \A k \in DOMAIN us : ValidTarget(us[k].block) /\ \A j \in 1..(k - 1) : us[j].block # us[k].block

\* Journal::commit up to its first write.
BeginCommit(us) ==
    /\ step = "idle" /\ start_ = 0 /\ commits < MaxCommits
    /\ Acceptable(us)
    /\ updates' = us
    /\ start_' = 1
    /\ step' = "anchor"
    /\ commits' = commits + 1
    /\ UNCHANGED <<disk, pending, stored, sequence_, replay, inherited, crashes>>
-----------------------------------------------------------------------------
\* WriteSession::open up to the first write: Journal::open, Journal::recover.
Open ==
    LET log == [b \in 0..Ring |-> disk[b]]
        plan == Recovery(log)
        recovery == disk[Super]
    IN /\ step = "down"
       /\ start_' = log[0].start
       /\ sequence_' = plan.sequence
       /\ replay' = plan.images
       /\ step' = IF ~recovery THEN IF log[0].start # 0 THEN "refused" ELSE "enable"
                  ELSE CASE plan.what = "none" -> "enable"
                         [] plan.what = "clear" -> "reclear"
                         [] plan.what = "refuse" -> "refused"
                         [] plan.what = "replay" -> "replay"
       /\ UNCHANGED <<disk, pending, stored, updates, inherited, commits, crashes>>

\* WriteSession::close.
Close ==
    /\ step = "idle"
    /\ step' = "sync"
    /\ UNCHANGED <<disk, pending, stored, memory, inherited, commits, crashes>>

\* What a crash can leave of the block b: the new contents, or a commit record
\* that does not match its checksum.
Kept(b) == {pending[b]} \cup
           (IF b \in 1..Ring /\ pending[b].kind = "commit" THEN {Commit(pending[b].seq, FALSE)} ELSE {})

Crash ==
    /\ crashes < MaxCrashes
    /\ \E S \in SUBSET DOMAIN pending :
          \E kept \in [S -> UNION {Kept(b) : b \in S}] :
             /\ \A b \in S : kept[b] \in Kept(b)
             /\ disk' = Over(kept, disk)
             /\ inherited' = Inherited(disk')
    /\ pending' = << >>
    /\ step' = "down" /\ stored' = FALSE
    /\ start_' = 0 /\ sequence_' = 0
    /\ updates' = << >> /\ replay' = << >>
    /\ crashes' = crashes + 1
    /\ UNCHANGED commits

\* Transactions: after-images of some home blocks, in any order.
Transactions == UNION {[1..n -> [block : Home, value : Values]] : n \in 1..MaxUpdates}

Next ==
    \/ \E us \in Transactions : BeginCommit(us)
    \/ Write \/ Barrier \/ Fails
    \/ Open \/ Close
    \/ Crash

Spec == Init /\ [][Next]_vars
-----------------------------------------------------------------------------
(***************************************************************************)
(* What the disk means: the home blocks, and over them the images of a     *)
(* transaction whose commit record is on the disk with the superblock that *)
(* points at it.                                                           *)
(***************************************************************************)
Logged(d) ==
    LET s == d[0]
        c == d[s.start]
        last == Len(c.tags) + 1
    IN IF /\ s.start # 0
          /\ c.kind = "descriptor" /\ c.seq = s.seq
          /\ d[Advance(s.start, last)] = Commit(s.seq, TRUE)
       THEN [b \in {c.tags[k].block : k \in DOMAIN c.tags} |->
               d[Advance(s.start, CHOOSE k \in DOMAIN c.tags : c.tags[k].block = b)].value]
       ELSE << >>

Content ==
    LET logged == Logged(disk)
    IN IF inherited # << >> THEN inherited
       ELSE [b \in Home |-> IF b \in DOMAIN logged THEN logged[b] ELSE disk[b]]

Store == INSTANCE AtomicStore WITH content <- Content,
            tx <- HomeWrites

\* A mount is a store of blocks that changes by whole transactions, whatever
\* writes of the cache a crash keeps and wherever commit or recover stops:
\* commit has taken effect when it returns, and never in part.  Recovery is no
\* step of the store: it writes home every committed image and no other, not a
\* revoked one, one of a torn commit or an older one of the same block.
AtomicCommits == Store!StoreSpec

\* A log in use is never on the disk without RECOVER in the filesystem's
\* superblock, or WriteSession::open would refuse the volume and a mount
\* without a journal would take it for clean.
RecoverIsMarked == disk[0].start # 0 => disk[Super]

\* A volume that recover refuses holds no committed transaction that is still
\* to be replayed: the refusal loses nothing.
CommittedNeverRefused ==
    step = "refused" => \A b \in Home : disk[b] = Content[b]

\* docs/EXT4.md:6, "Writable mounts recover supported committed journals before
\* publication", and driver/fs/ext4/PROVENANCE.md:63, "empty/stale logs are
\* checked before clearing them": a journal this driver wrote is never refused,
\* wherever the power failed.
NeverRefused == step # "refused"
=============================================================================
