----------------------------- MODULE JournalLog -----------------------------
(***************************************************************************)
(* driver/fs/ext4/journal.cpp, the log format and Journal::scan.  The ring *)
(* has the blocks 1..Ring (first_ = 1, maximum_ = Ring + 1), block 0 holds *)
(* the journal's superblock.  A block is what its bytes say: a record with *)
(* the magic word, a block of zeros, or the after-image of a home block.   *)
(* The checksum of an image is the image itself.  Parsing tags, uuids and  *)
(* the widths of the fields is left out.                                   *)
(***************************************************************************)
EXTENDS Integers, Sequences

CONSTANTS
    Ring,        \* maximum_ - first_
    MaxUpdates,  \* kMaximumUpdates
    Modulus,     \* sequence numbers are modulo 2^w
    Home,        \* the home blocks transactions write
    Values,      \* their contents
    Magic,       \* those whose first word is the journal's magic number
    Blank        \* the value of a block of zeros

ASSUME LogAssumption ==
    /\ MaxUpdates \in Nat \ {0}
    /\ Ring \in Nat /\ Ring >= MaxUpdates + 2
    /\ Modulus \in Nat /\ Modulus > 2 /\ Modulus % 2 = 0
    /\ Magic \subseteq Values /\ Blank \in Values \ Magic

\* Blocks over others, and one block alone.
Over(blocks, others) ==
    [b \in DOMAIN blocks \cup DOMAIN others |-> IF b \in DOMAIN blocks THEN blocks[b] ELSE others[b]]
Only(block, c) == [b \in {block} |-> c]

Successor(n) == (n + 1) % Modulus
Previous(n) == (n - 1) % Modulus

\* at_least: the sign of the difference modulo 2^w.
AtLeast(a, b) == (a - b) % Modulus < Modulus \div 2

\* Journal::advance.
Advance(block, count) == 1 + ((block - 1 + count) % Ring)
-----------------------------------------------------------------------------
Zero == [kind |-> "zero"]
Descriptor(s, tags) == [kind |-> "descriptor", seq |-> s, tags |-> tags]
Revoke(s, blocks) == [kind |-> "revoke", seq |-> s, blocks |-> blocks]

\* A commit record, or one whose checksum a torn write broke.
Commit(s, intact) == [kind |-> "commit", seq |-> s, intact |-> intact]

\* Mutant: the magic word of an image stays in the log.
RawImage(v) == [kind |-> "image", value |-> v, zeroed |-> FALSE]

\* The copy of an image in the log: the magic word is zeroed.
Image(v) == [kind |-> "image", value |-> v, zeroed |-> v \in Magic]

Tag(block, v) == [block |-> block, escape |-> v \in Magic, sum |-> v]

IsRecord(c) == c.kind \in {"descriptor", "revoke", "commit"}
HasMagic(c) == IsRecord(c) \/ (c.kind = "image" /\ c.value \in Magic /\ ~c.zeroed)
AllZero(c) == c.kind = "zero" \/ (c.kind = "image" /\ c.value = Blank)

\* The sequence number of a record is s; an image that kept its magic word is
\* taken for a record of any number.
HasSequence(c, s) == IsRecord(c) => c.seq = s

\* Journal::read_image accepts the block of the log a tag stands for.
ImageFits(tag, c) ==
    /\ c.kind = "image" /\ c.value = tag.sum
    /\ c.zeroed = tag.escape
-----------------------------------------------------------------------------
(***************************************************************************)
(* Journal::scan.  images are the tags of the transactions met so far,     *)
(* done of them are committed; result is "go" until the scan returns.      *)
(***************************************************************************)
ScanStart(start, sequence) ==
    [result |-> "go", cursor |-> start, expected |-> sequence, consumed |-> 0,
     images |-> << >>, done |-> 0, started |-> FALSE, end |-> start,
     next |-> sequence, revoked |-> {}]

\* The end of the log: what is not committed is dropped.
EndOfLog(scan, next) ==
    [scan EXCEPT !.result = "ok", !.images = SubSeq(@, 1, scan.done), !.next = next,
                 !.revoked = {r \in @ : r[2] # scan.expected}]

Refuse(scan) == [scan EXCEPT !.result = "EUCLEAN"]

\* A block that does not continue the log.
ScanTail(scan, c, start) ==
    LET current == HasMagic(c) /\ (IsRecord(c) => AtLeast(c.seq, scan.expected))
        older == HasMagic(c) /\ ~current
    IN IF \/ ~AllZero(c) /\ ~older /\ (scan.started \/ scan.end = start)
          \/ current
       THEN Refuse(scan)
       ELSE EndOfLog(scan, IF scan.started THEN Successor(scan.expected) ELSE scan.expected)

\* Journal::valid_target: a block of the filesystem that is not the journal's.
ValidTarget(b) == b \in Home

\* The tags of a descriptor: room in the ring, no target twice.
ScanDescriptor(scan, c) ==
    LET n == Len(c.tags)
        mine == SelectSeq(scan.images, LAMBDA g : g.sequence = scan.expected)
        targets == {mine[k].block : k \in DOMAIN mine}
        twice == \E k \in 1..n : \/ c.tags[k].block \in targets
                                 \/ \E j \in 1..(k - 1) : c.tags[j].block = c.tags[k].block
        found == [k \in 1..n |->
                     [block |-> c.tags[k].block, tag |-> c.tags[k],
                      logical |-> Advance(scan.cursor, k), sequence |-> scan.expected]]
        valid == \A k \in 1..n : ValidTarget(c.tags[k].block)
    IN IF n = 0 \/ ~valid \/ twice \/ scan.consumed + n + 1 >= Ring
       THEN Refuse(scan)
       ELSE [scan EXCEPT !.images = @ \o found, !.started = TRUE,
                         !.cursor = Advance(@, n + 1), !.consumed = @ + n + 1]

ScanRevoke(scan, c) ==
    IF \E b \in c.blocks : ~ValidTarget(b) THEN Refuse(scan)
    ELSE
    [scan EXCEPT !.revoked = @ \cup {<<b, scan.expected>> : b \in c.blocks},
                 !.started = TRUE, !.cursor = Advance(@, 1), !.consumed = @ + 1]

\* A torn commit ends the log, unless the next transaction follows it.
ScanCommit(scan, c, log) ==
    LET follows == log[Advance(scan.cursor, 1)]
        fits == \A k \in (scan.done + 1)..Len(scan.images) :
                   ImageFits(scan.images[k].tag, log[scan.images[k].logical])
    IN IF ~scan.started THEN Refuse(scan)
       ELSE IF ~c.intact
       THEN IF HasMagic(follows) /\ HasSequence(follows, Successor(scan.expected))
            THEN Refuse(scan)
            ELSE EndOfLog(scan, Successor(scan.expected))
       ELSE IF ~fits THEN Refuse(scan)
       ELSE [scan EXCEPT !.done = Len(scan.images), !.expected = Successor(@),
                         !.cursor = Advance(@, 1), !.consumed = @ + 1, !.started = FALSE,
                         !.end = Advance(scan.cursor, 1), !.next = Successor(scan.expected)]

\* One turn of the loop.
ScanRecord(scan, log, start) ==
    LET c == log[scan.cursor]
    IN CASE scan.result # "go" -> scan
         [] scan.result = "go" /\ scan.consumed >= Ring -> Refuse(scan)
         [] OTHER ->
            IF ~HasMagic(c) \/ ~HasSequence(c, scan.expected) THEN ScanTail(scan, c, start)
            ELSE CASE c.kind = "descriptor" -> ScanDescriptor(scan, c)
                   [] c.kind = "revoke" -> ScanRevoke(scan, c)
                   [] c.kind = "commit" -> ScanCommit(scan, c, log)
                   [] OTHER -> Refuse(scan)

\* The loop turns at most once for each block of the ring and once more.
Scan(log, start, sequence) ==
    LET after[turn \in 0..(Ring + 1)] ==
            IF turn = 0 THEN ScanStart(start, sequence)
            ELSE ScanRecord(after[turn - 1], log, start)
    IN after[Ring + 1]

\* The second scan and the collapse in Journal::recover: the latest image of
\* each block, unless it is revoked at its own or at a later sequence number.
Surviving(scan) ==
    LET last(b) == CHOOSE k \in DOMAIN scan.images :
                      /\ scan.images[k].block = b
                      /\ \A j \in DOMAIN scan.images : scan.images[j].block = b => j <= k
        revoked(b) == \E r \in scan.revoked :
                         r[1] = b /\ AtLeast(r[2], scan.images[last(b)].sequence)
    IN [b \in {c \in {scan.images[k].block : k \in DOMAIN scan.images} : ~revoked(c)} |->
          scan.images[last(b)].tag.sum]

\* validate_transaction, of the images: no block it would overwrite is the
\* journal's or protected.
MayReplay(images) == \A b \in DOMAIN images : ValidTarget(b)

\* Journal::recover before its first write: nothing to do, a log without a
\* transaction to clear, a log it refuses, or images to write home.
Recovery(log) ==
    LET start == log[0].start
        sequence == log[0].seq
        c == log[start]
        scan == Scan(log, start, sequence)
        plan(what, images, next) == [what |-> what, images |-> images, sequence |-> next]
    IN CASE start = 0 -> plan("none", << >>, sequence)
         [] start # 0 /\ (AllZero(c) \/ (c.kind = "descriptor" /\ c.seq = Previous(sequence))) ->
               plan("clear", << >>, sequence)
         [] OTHER ->
            IF \/ ~HasMagic(c) \/ ~HasSequence(c, sequence) \/ scan.result # "ok"
               \/ ~MayReplay(Surviving(scan))
            THEN plan("refuse", << >>, sequence)
            ELSE plan("replay", Surviving(scan), Previous(scan.next))
=============================================================================
