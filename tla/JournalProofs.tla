--------------------------- MODULE JournalProofs ----------------------------
(***************************************************************************)
(* A log in use is marked, for a journal and transactions of any size: the *)
(* inductive invariant says at every step which of the two superblocks is  *)
(* settled.  Either RECOVER is on the disk and no write to it is in the    *)
(* cache, or the log is empty and no write to its superblock is.           *)
(***************************************************************************)
EXTENDS Journal, TLAPS

\* RECOVER is set, and stays so; the log is empty, and stays so.
Marked == disk[Super] = TRUE /\ Super \notin DOMAIN pending
Empty == disk[0].start = 0 /\ 0 \notin DOMAIN pending

\* The steps of a volume that is marked, and of one with an empty log.
MarkedSteps == Committing \cup {"idle", "replay", "reclear", "sync"}
EmptySteps == {"enable", "idle", "sync", "disable"}

\* What a step has in the cache when its writes are issued.
CacheInv ==
    /\ ~stored /\ step # "failed" => pending = << >>
    /\ stored => step \in Busy
    /\ stored /\ step \in {"clear", "reclear"} => 0 \in DOMAIN pending /\ pending[0].start = 0
    /\ stored /\ step = "enable" => Super \in DOMAIN pending /\ pending[Super] = TRUE
    /\ Super \in DOMAIN pending => pending[Super] \in BOOLEAN

MarkInv ==
    /\ 0 \in DOMAIN disk /\ Super \in DOMAIN disk /\ disk[Super] \in BOOLEAN
    /\ step \in Busy \cup {"down", "idle", "failed", "refused"}
    /\ stored \in BOOLEAN
    /\ step \in Committing => updates \in Transactions
    /\ step = "replay" => \A b \in DOMAIN replay : b \in Home
    /\ CacheInv
    /\ Marked \/ Empty
    /\ step \in MarkedSteps => Marked
    /\ step \in EmptySteps => Empty
-----------------------------------------------------------------------------
\* Blocks over others, and one block.
LEMMA OverParts ==
    ASSUME NEW f, NEW g
    PROVE  /\ DOMAIN Over(f, g) = DOMAIN f \cup DOMAIN g
           /\ \A x \in DOMAIN f : Over(f, g)[x] = f[x]
           /\ \A x \in DOMAIN g : x \notin DOMAIN f => Over(f, g)[x] = g[x]
BY Zenon DEF Over

LEMMA OnlyOne ==
    ASSUME NEW x, NEW y PROVE DOMAIN Only(x, y) = {x} /\ Only(x, y)[x] = y
BY Zenon DEF Only

LEMMA NothingHasNoDomain == DOMAIN << >> = {}
BY SMT

\* Journal::advance stays in the ring.
LEMMA InRing ==
    ASSUME NEW k \in Nat PROVE Advance(1, k) \in 1..Ring
BY LogAssumption, SMT DEF Advance

LEMMA OutsideRing ==
    /\ 0 \notin Home /\ Super \notin Home /\ Super # 0 /\ 0 \notin 1..Ring /\ Super \notin 1..Ring
<1>1. 0 \in 0..Ring /\ 0 \notin 1..Ring /\ 1..Ring \subseteq 0..Ring
  BY LogAssumption, SMT
<1> QED
  BY <1>1, JournalAssumption, Zenon

LEMMA TransactionParts ==
    ASSUME NEW us \in Transactions
    PROVE  /\ Len(us) \in Nat /\ DOMAIN us \subseteq Nat
           /\ \A k \in DOMAIN us : us[k].block \in Home
<1>1. PICK n \in 1..MaxUpdates : us \in [1..n -> [block : Home, value : Values]]
  BY Zenon DEF Transactions
<1>2. n \in Nat
  BY <1>1, LogAssumption, SMT
<1>3. DOMAIN us = 1..n /\ \A k \in 1..n : us[k] \in [block : Home, value : Values]
  BY <1>1, Zenon
<1>4. Len(us) = n
  BY <1>1, <1>2, SMT
<1>5. 1..n \subseteq Nat
  BY <1>2, SMT
<1> QED
  BY <1>2, <1>3, <1>4, <1>5, Zenon

\* What the steps write.
LEMMA WritesOf ==
    /\ step = "anchor" => Writes = AnchorWrites
    /\ step = "invalidate" => Writes = InvalidateWrites
    /\ step = "records" => Writes = RecordWrites
    /\ step = "commit" => Writes = CommitWrites
    /\ step = "home" => Writes = HomeWrites
    /\ step = "replay" => Writes = replay
    /\ step \in {"clear", "reclear"} => Writes = ClearWrites
    /\ step = "enable" => Writes = EnableWrites
    /\ step = "disable" => Writes = DisableWrites
    /\ step = "sync" => Writes = << >>
BY SMT DEF Writes

\* The steps, by what they may be.
LEMMA StepFacts ==
    /\ Committing \subseteq MarkedSteps /\ Committing \subseteq Busy
    /\ \A s \in Busy : s \in MarkedSteps \/ s \in {"enable", "disable"}
    /\ \A s \in MarkedSteps : s # "enable" /\ s # "disable" /\ s # "failed"
    /\ \A s \in EmptySteps \cap Busy : s \in {"enable", "sync", "disable"}
    /\ "failed" \notin Busy
BY SMT DEF Committing, MarkedSteps, EmptySteps, Busy

\* What a step writes to the two superblocks.
LEMMA WritesToSupers ==
    ASSUME MarkInv, step \in Busy
    PROVE  /\ step \in MarkedSteps => Super \notin DOMAIN Writes
           /\ step \in EmptySteps => 0 \notin DOMAIN Writes
           /\ step \in {"clear", "reclear"} => 0 \in DOMAIN Writes /\ Writes[0].start = 0
           /\ step = "enable" => Super \in DOMAIN Writes /\ Writes[Super] = TRUE
           /\ Super \in DOMAIN Writes => Writes[Super] \in BOOLEAN
<1>1. CASE step = "anchor"
  <2>1. DOMAIN Writes = {0}
    BY <1>1, WritesOf, OnlyOne, Zenon DEF AnchorWrites
  <2>2. step \notin EmptySteps /\ step \notin {"clear", "reclear"} /\ step # "enable"
    BY <1>1, SMT DEF EmptySteps
  <2> QED
    BY <2>1, <2>2, OutsideRing, Zenon
<1>2. CASE step \in {"invalidate", "commit", "records", "home"}
  <2>1. step \in Committing
    BY <1>2, SMT DEF Committing
  <2>2. updates \in Transactions
    BY <2>1, Zenon DEF MarkInv
  <2>3. Len(updates) + 1 \in Nat
    BY <2>2, TransactionParts, SMT
  <2>4. CommitSlot \in 1..Ring
    BY <2>3, InRing, Zenon DEF CommitSlot
  <2>5. DOMAIN Writes \subseteq Home \cup (1..Ring)
    <3>1. CASE step = "invalidate"
      <4>1. DOMAIN Writes = {CommitSlot}
        BY <3>1, WritesOf, OnlyOne, Zenon DEF InvalidateWrites
      <4> QED
        BY <2>4, <4>1, Zenon
    <3>2. CASE step = "commit"
      <4>1. DOMAIN Writes = {CommitSlot}
        BY <3>2, WritesOf, OnlyOne, Zenon DEF CommitWrites
      <4> QED
        BY <2>4, <4>1, Zenon
    <3>3. CASE step = "records"
      <4>1. \A k \in DOMAIN updates : Advance(1, k) \in 1..Ring
        BY <2>2, TransactionParts, InRing, Zenon
      <4>2. DOMAIN Writes = {1} \cup {Advance(1, k) : k \in DOMAIN updates}
        <5> DEFINE d == Descriptor(sequence_, [k \in DOMAIN updates |-> Tag(updates[k].block, updates[k].value)])
                   i == [b \in {Advance(1, k) : k \in DOMAIN updates} |-> Image(updates[b - 1].value)]
        <5>1. Writes = Over(Only(1, d), i) /\ DOMAIN i = {Advance(1, k) : k \in DOMAIN updates}
          BY <3>3, WritesOf, Zenon DEF RecordWrites
        <5> HIDE DEF d, i
        <5>2. DOMAIN Writes = DOMAIN Only(1, d) \cup DOMAIN i
          BY <5>1, OverParts, Zenon
        <5>3. DOMAIN Only(1, d) = {1}
          BY OnlyOne, Zenon
        <5> QED
          BY <5>1, <5>2, <5>3, Zenon
      <4>3. 1 \in 1..Ring
        BY LogAssumption, SMT
      <4> QED
        BY <4>1, <4>2, <4>3, Zenon
    <3>4. CASE step = "home"
      <4>1. DOMAIN Writes = Targets
        BY <3>4, WritesOf, Zenon DEF HomeWrites
      <4> QED
        BY <2>2, <4>1, TransactionParts, Zenon DEF Targets
    <3> QED
      BY <1>2, <3>1, <3>2, <3>3, <3>4, Zenon
  <2>6. step \notin {"clear", "reclear"} /\ step # "enable"
    BY <1>2, SMT
  <2> QED
    BY <2>5, <2>6, OutsideRing, Zenon
<1>3. CASE step = "replay"
  <2>1. \A b \in DOMAIN Writes : b \in Home
    BY <1>3, WritesOf, Zenon DEF MarkInv
  <2>2. step \notin {"clear", "reclear"} /\ step # "enable"
    BY <1>3, SMT
  <2> QED
    BY <2>1, <2>2, OutsideRing, Zenon
<1>4. CASE step \in {"clear", "reclear"}
  <2>1. DOMAIN Writes = {0} /\ Writes[0] = JournalSuper(0, Successor(sequence_))
    BY <1>4, WritesOf, OnlyOne, Zenon DEF ClearWrites
  <2>2. Writes[0].start = 0
    BY <2>1, SMT DEF JournalSuper
  <2>3. step \notin EmptySteps /\ step # "enable"
    BY <1>4, SMT DEF EmptySteps
  <2> QED
    BY <2>1, <2>2, <2>3, OutsideRing, Zenon
<1>5. CASE step \in {"enable", "disable"}
  <2>1. DOMAIN Writes = {Super} /\ Writes[Super] \in BOOLEAN /\ (step = "enable" => Writes[Super] = TRUE)
    <3>1. step = "enable" => DOMAIN Writes = {Super} /\ Writes[Super] = TRUE
      BY WritesOf, OnlyOne, Zenon DEF EnableWrites
    <3>2. step = "disable" => DOMAIN Writes = {Super} /\ Writes[Super] = FALSE
      BY WritesOf, OnlyOne, Zenon DEF DisableWrites
    <3> QED
      BY <1>5, <3>1, <3>2, Zenon
  <2>2. step \notin {"clear", "reclear"} /\ step \notin MarkedSteps
    BY <1>5, SMT DEF MarkedSteps, Committing
  <2> QED
    BY <2>1, <2>2, OutsideRing, Zenon
<1>6. CASE step = "sync"
  <2>1. DOMAIN Writes = {}
    BY <1>6, WritesOf, NothingHasNoDomain, Zenon
  <2>2. step \notin {"clear", "reclear"} /\ step # "enable"
    BY <1>6, SMT
  <2> QED
    BY <2>1, <2>2, Zenon
<1>7. \/ step = "anchor" \/ step \in {"invalidate", "commit", "records", "home"} \/ step = "replay"
      \/ step \in {"clear", "reclear"} \/ step \in {"enable", "disable"} \/ step = "sync"
  BY SMT DEF Busy, Committing
<1> QED
  BY <1>1, <1>2, <1>3, <1>4, <1>5, <1>6, <1>7, Zenon

\* The cache once the writes of the step are issued.
LEMMA IssuedWrites ==
    ASSUME MarkInv, step \in Busy, ~stored, NEW q, q = Over(Writes, pending)
    PROVE  /\ \A b : b \in DOMAIN q <=> b \in DOMAIN Writes
           /\ \A b \in DOMAIN Writes : q[b] = Writes[b]
<1>1. step # "failed"
  BY StepFacts, Zenon
<1>2. DOMAIN pending = {}
  BY <1>1, NothingHasNoDomain, Zenon DEF MarkInv, CacheInv
<1>3. /\ DOMAIN Over(Writes, pending) = DOMAIN Writes \cup DOMAIN pending
      /\ \A b \in DOMAIN Writes : Over(Writes, pending)[b] = Writes[b]
  BY OverParts, Zenon
<1> QED
  BY <1>2, <1>3, Zenon

LEMMA WriteMarks == ASSUME MarkInv, Write PROVE MarkInv'
<1>1. /\ step \in Busy /\ ~stored /\ pending' = Over(Writes, pending) /\ stored' = TRUE
      /\ UNCHANGED <<disk, step, updates, replay>>
  BY Zenon DEF Write, memory
<1>2. /\ \A b : b \in DOMAIN pending' <=> b \in DOMAIN Writes
      /\ \A b \in DOMAIN Writes : pending'[b] = Writes[b]
  BY <1>1, IssuedWrites, Zenon
<1>3. CacheInv'
  BY <1>1, <1>2, WritesToSupers, Zenon DEF CacheInv
<1>4. step \in MarkedSteps => Marked'
  BY <1>1, <1>2, WritesToSupers, Zenon DEF MarkInv, Marked
<1>5. step \in EmptySteps => Empty'
  BY <1>1, <1>2, WritesToSupers, Zenon DEF MarkInv, Empty
<1>6. step \in MarkedSteps \/ step \in EmptySteps
  BY <1>1, StepFacts, Zenon DEF EmptySteps
<1>7. Transactions' = Transactions
  BY Zenon DEF Transactions
<1> QED
  BY <1>1, <1>3, <1>4, <1>5, <1>6, <1>7, Zenon DEF MarkInv

\* A write or a flush fails: what is in the cache is what it had, or the
\* writes of the step.
LEMMA FailMarks == ASSUME MarkInv, Fails PROVE MarkInv'
<1>1. /\ step \in Busy /\ step' = "failed" /\ stored' = FALSE /\ UNCHANGED <<disk, updates, replay>>
      /\ pending' = pending \/ (~stored /\ pending' = Over(Writes, pending))
  BY Zenon DEF Fails, memory
<1>2. "failed" \notin Committing /\ "failed" # "replay" /\ "failed" \notin MarkedSteps /\ "failed" \notin EmptySteps
  BY SMT DEF Committing, MarkedSteps, EmptySteps
<1>3. step \in MarkedSteps \/ step \in EmptySteps
  BY <1>1, StepFacts, Zenon DEF EmptySteps
<1>4. CASE pending' = pending
  <2>1. (Marked' <=> Marked) /\ (Empty' <=> Empty)
    BY <1>1, <1>4, Zenon DEF Marked, Empty
  <2>2. CacheInv'
    BY <1>1, <1>4, Zenon DEF MarkInv, CacheInv
  <2> QED
    BY <1>1, <1>2, <2>1, <2>2, Zenon DEF MarkInv
<1>5. CASE ~stored /\ pending' = Over(Writes, pending)
  <2>1. /\ \A b : b \in DOMAIN pending' <=> b \in DOMAIN Writes
        /\ \A b \in DOMAIN Writes : pending'[b] = Writes[b]
    BY <1>1, <1>5, IssuedWrites, Zenon
  <2>2. step \in MarkedSteps => Marked'
    BY <1>1, <2>1, WritesToSupers, Zenon DEF MarkInv, Marked
  <2>3. step \in EmptySteps => Empty'
    BY <1>1, <2>1, WritesToSupers, Zenon DEF MarkInv, Empty
  <2>4. CacheInv'
    BY <1>1, <2>1, WritesToSupers, Zenon DEF CacheInv
  <2> QED
    BY <1>1, <1>2, <1>3, <2>2, <2>3, <2>4, Zenon DEF MarkInv
<1> QED
  BY <1>1, <1>4, <1>5, Zenon

\* The steps behind the barriers.
LEMMA FollowingOf ==
    /\ Following["anchor"] = "invalidate" /\ Following["invalidate"] = "records"
    /\ Following["records"] = "commit" /\ Following["commit"] = "home"
    /\ Following["home"] = "clear" /\ Following["clear"] = "idle"
    /\ Following["replay"] = "reclear" /\ Following["reclear"] = "enable"
    /\ Following["enable"] = "idle" /\ Following["sync"] = "disable"
    /\ Following["disable"] = "down"
BY SMT DEF Following

\* After a barrier the cache is empty and the disk has what it had.
LEMMA BarrierMarks == ASSUME MarkInv, Barrier PROVE MarkInv'
<1>1. /\ step \in Busy /\ stored /\ disk' = Over(pending, disk) /\ pending' = << >> /\ stored' = FALSE
      /\ step' = Following[step] /\ (step # "clear" => updates' = updates)
  BY Zenon DEF Barrier
<1>2. /\ DOMAIN disk' = DOMAIN pending \cup DOMAIN disk
      /\ \A b \in DOMAIN pending : disk'[b] = pending[b]
      /\ \A b \in DOMAIN disk : b \notin DOMAIN pending => disk'[b] = disk[b]
  <2>1. /\ DOMAIN Over(pending, disk) = DOMAIN pending \cup DOMAIN disk
        /\ \A b \in DOMAIN pending : Over(pending, disk)[b] = pending[b]
        /\ \A b \in DOMAIN disk : b \notin DOMAIN pending => Over(pending, disk)[b] = disk[b]
    BY OverParts, Zenon
  <2> QED
    BY <1>1, <2>1, Zenon
<1>3. 0 \in DOMAIN disk' /\ Super \in DOMAIN disk' /\ disk'[Super] \in BOOLEAN
  BY <1>2, Zenon DEF MarkInv, CacheInv
<1>4. DOMAIN pending' = {}
  BY <1>1, NothingHasNoDomain, Zenon
<1>5. CacheInv'
  BY <1>1, <1>4, Zenon DEF CacheInv
<1>6. Marked => Marked'
  BY <1>2, <1>4, Zenon DEF MarkInv, Marked
<1>7. Empty => Empty'
  BY <1>2, <1>4, Zenon DEF MarkInv, Empty
<1>8. CASE step \in {"anchor", "invalidate", "records", "commit", "home"}
  <2>1. step \in Committing /\ step' \in Committing /\ step # "clear"
    BY <1>1, <1>8, FollowingOf, SMT DEF Committing
  <2>2. step' \notin EmptySteps /\ step' # "replay" /\ step' \in Busy
    BY <2>1, SMT DEF Committing, EmptySteps, Busy
  <2>3. Marked' /\ updates' \in Transactions'
    BY <1>1, <1>6, <2>1, StepFacts, Zenon DEF MarkInv, Transactions
  <2> QED
    BY <1>1, <1>3, <1>5, <2>1, <2>2, <2>3, Zenon DEF MarkInv
<1>9. ASSUME step' \in {"idle", "reclear", "enable", "disable", "down"}, Marked' \/ Empty',
             step' \in {"idle", "reclear"} => Marked', step' \in {"idle", "enable", "disable"} => Empty'
      PROVE  MarkInv'
  <2>1. /\ step' \in Busy \cup {"down", "idle", "failed", "refused"}
        /\ step' \notin Committing /\ step' # "replay"
        /\ step' \in MarkedSteps => step' \in {"idle", "reclear"}
        /\ step' \in EmptySteps => step' \in {"idle", "enable", "disable"}
    BY <1>9, SMT DEF Busy, Committing, MarkedSteps, EmptySteps
  <2> QED
    BY <1>1, <1>3, <1>5, <1>9, <2>1, Zenon DEF MarkInv
<1>10. CASE step \in {"clear", "reclear"}
  <2>1. step \in MarkedSteps
    BY <1>10, SMT DEF MarkedSteps, Committing
  <2>2. Marked'
    BY <1>6, <2>1, Zenon DEF MarkInv
  <2>3. Empty'
    BY <1>1, <1>2, <1>4, <1>10, Zenon DEF MarkInv, CacheInv, Empty
  <2>4. step' \in {"idle", "enable"}
    BY <1>1, <1>10, FollowingOf, Zenon
  <2>5. step' \in {"idle", "reclear", "enable", "disable", "down"}
    BY <2>4, Zenon
  <2> QED
    BY <1>9, <2>2, <2>3, <2>5, Zenon
<1>11. CASE step = "replay"
  <2>1. step \in MarkedSteps
    BY <1>11, SMT DEF MarkedSteps
  <2>2. Marked'
    BY <1>6, <2>1, Zenon DEF MarkInv
  <2>3. step' = "reclear"
    BY <1>1, <1>11, FollowingOf, Zenon
  <2>4. step' \in {"idle", "reclear", "enable", "disable", "down"} /\ step' \notin {"idle", "enable", "disable"}
    BY <2>3, SMT
  <2> QED
    BY <1>9, <2>2, <2>4, Zenon
<1>12. CASE step = "enable"
  <2>1. step \in EmptySteps
    BY <1>12, SMT DEF EmptySteps
  <2>2. Empty'
    BY <1>7, <2>1, Zenon DEF MarkInv
  <2>3. Marked'
    BY <1>1, <1>2, <1>4, <1>12, Zenon DEF MarkInv, CacheInv, Marked
  <2>4. step' = "idle"
    BY <1>1, <1>12, FollowingOf, Zenon
  <2> QED
    BY <1>9, <2>2, <2>3, <2>4, Zenon
<1>13. CASE step \in {"sync", "disable"}
  <2>1. step \in EmptySteps
    BY <1>13, SMT DEF EmptySteps
  <2>2. Empty'
    BY <1>7, <2>1, Zenon DEF MarkInv
  <2>3. step' \in {"disable", "down"}
    BY <1>1, <1>13, FollowingOf, Zenon
  <2>4. step' \in {"idle", "reclear", "enable", "disable", "down"} /\ step' \notin {"idle", "reclear"}
    BY <2>3, SMT
  <2> QED
    BY <1>9, <2>2, <2>4, Zenon
<1>14. \/ step \in {"anchor", "invalidate", "records", "commit", "home"} \/ step \in {"clear", "reclear"}
       \/ step = "replay" \/ step = "enable" \/ step \in {"sync", "disable"}
  BY <1>1, SMT DEF Busy, Committing
<1> QED
  BY <1>8, <1>10, <1>11, <1>12, <1>13, <1>14, Zenon

\* A crash keeps some of the writes in the cache, and those to the two
\* superblocks whole.
LEMMA CrashMarks == ASSUME MarkInv, Crash PROVE MarkInv'
<1>1. PICK S \in SUBSET DOMAIN pending :
         \E kept \in [S -> UNION {Kept(b) : b \in S}] :
            (\A b \in S : kept[b] \in Kept(b)) /\ disk' = Over(kept, disk)
  BY Zenon DEF Crash
<1>2. PICK kept \in [S -> UNION {Kept(b) : b \in S}] :
         (\A b \in S : kept[b] \in Kept(b)) /\ disk' = Over(kept, disk)
  BY <1>1, Zenon
<1>3. pending' = << >> /\ step' = "down" /\ stored' = FALSE
  BY Zenon DEF Crash
<1>4. DOMAIN kept = S /\ S \subseteq DOMAIN pending
  BY <1>1, <1>2, Zenon
<1>5. /\ DOMAIN disk' = S \cup DOMAIN disk
      /\ \A b \in S : disk'[b] = kept[b]
      /\ \A b \in DOMAIN disk : b \notin S => disk'[b] = disk[b]
  <2>1. /\ DOMAIN Over(kept, disk) = DOMAIN kept \cup DOMAIN disk
        /\ \A b \in DOMAIN kept : Over(kept, disk)[b] = kept[b]
        /\ \A b \in DOMAIN disk : b \notin DOMAIN kept => Over(kept, disk)[b] = disk[b]
    BY OverParts, ZenonT(30)
  <2> QED
    BY <1>2, <1>4, <2>1, Zenon
<1>6. ASSUME NEW b \in S, b \notin 1..Ring PROVE disk'[b] = pending[b]
  <2>1. Kept(b) = {pending[b]}
    BY <1>6, Zenon DEF Kept
  <2> QED
    BY <1>2, <1>5, <2>1, Zenon
<1>7. 0 \in DOMAIN disk' /\ Super \in DOMAIN disk' /\ disk'[Super] \in BOOLEAN
  <2>1. 0 \in DOMAIN disk' /\ Super \in DOMAIN disk'
    BY <1>5, Zenon DEF MarkInv
  <2>2. CASE Super \in S
    BY <1>4, <1>6, <2>1, <2>2, OutsideRing, Zenon DEF MarkInv, CacheInv
  <2>3. CASE Super \notin S
    BY <1>5, <2>3, Zenon DEF MarkInv
  <2> QED
    BY <2>1, <2>2, <2>3, Zenon
<1>8. DOMAIN pending' = {}
  BY <1>3, NothingHasNoDomain, Zenon
<1>9. CacheInv'
  BY <1>3, <1>8, Zenon DEF CacheInv
<1>10. Marked => Marked'
  BY <1>4, <1>5, <1>8, Zenon DEF MarkInv, Marked
<1>11. Empty => Empty'
  BY <1>4, <1>5, <1>8, Zenon DEF MarkInv, Empty
<1>12. "down" \notin Committing /\ "down" # "replay" /\ "down" \notin MarkedSteps /\ "down" \notin EmptySteps
  BY SMT DEF Committing, MarkedSteps, EmptySteps
<1> QED
  BY <1>3, <1>7, <1>9, <1>10, <1>11, <1>12, Zenon DEF MarkInv


\* What Journal::recover decides before its first write.
LEMMA RecoveryKinds ==
    ASSUME NEW log
    PROVE  \E images, next :
              \/ log[0].start = 0 /\ Recovery(log) = [what |-> "none", images |-> images, sequence |-> next]
              \/ Recovery(log) = [what |-> "clear", images |-> images, sequence |-> next]
              \/ Recovery(log) = [what |-> "refuse", images |-> images, sequence |-> next]
              \/ /\ MayReplay(images)
                 /\ Recovery(log) = [what |-> "replay", images |-> images, sequence |-> next]
<1> DEFINE start == log[0].start
           sequence == log[0].seq
           c == log[start]
           scan == Scan(log, start, sequence)
           stale == AllZero(c) \/ (c.kind = "descriptor" /\ c.seq = Previous(sequence))
           bad == \/ ~HasMagic(c) \/ ~HasSequence(c, sequence) \/ scan.result # "ok"
                  \/ ~MayReplay(Surviving(scan))
<1>1. CASE start = 0
  <2>1. Recovery(log) = [what |-> "none", images |-> << >>, sequence |-> sequence]
    BY <1>1, Zenon DEF Recovery
  <2> QED
    BY <1>1, <2>1, Zenon
<1>2. CASE start # 0 /\ stale
  <2>1. Recovery(log) = [what |-> "clear", images |-> << >>, sequence |-> sequence]
    BY <1>2, Zenon DEF Recovery
  <2> QED
    BY <2>1, Zenon
<1>3. CASE start # 0 /\ ~stale /\ bad
  <2>1. Recovery(log) = [what |-> "refuse", images |-> << >>, sequence |-> sequence]
    BY <1>3, Zenon DEF Recovery
  <2> QED
    BY <2>1, Zenon
<1>4. CASE start # 0 /\ ~stale /\ ~bad
  <2>1. Recovery(log) = [what |-> "replay", images |-> Surviving(scan), sequence |-> Previous(scan.next)]
    BY <1>4, Zenon DEF Recovery
  <2>2. MayReplay(Surviving(scan))
    BY <1>4, Zenon
  <2> QED
    BY <2>1, <2>2, Zenon
<1> QED
  BY <1>1, <1>2, <1>3, <1>4, Zenon

\* A mount opens a marked volume, or one whose log is empty.
LEMMA OpenMarks == ASSUME MarkInv, Open PROVE MarkInv'
<1> DEFINE log == [b \in 0..Ring |-> disk[b]]
<1>1. /\ step = "down" /\ UNCHANGED <<disk, pending, stored, updates>>
      /\ replay' = Recovery(log).images
      /\ step' = IF ~disk[Super] THEN IF log[0].start # 0 THEN "refused" ELSE "enable"
                 ELSE CASE Recovery(log).what = "none" -> "enable"
                        [] Recovery(log).what = "clear" -> "reclear"
                        [] Recovery(log).what = "refuse" -> "refused"
                        [] Recovery(log).what = "replay" -> "replay"
  BY Zenon DEF Open
<1>2. log[0] = disk[0]
  <2>1. 0 \in 0..Ring
    BY LogAssumption, SMT
  <2> QED
    BY <2>1, Zenon
<1>3. \E images, next :
         \/ log[0].start = 0 /\ Recovery(log) = [what |-> "none", images |-> images, sequence |-> next]
         \/ Recovery(log) = [what |-> "clear", images |-> images, sequence |-> next]
         \/ Recovery(log) = [what |-> "refuse", images |-> images, sequence |-> next]
         \/ /\ MayReplay(images)
            /\ Recovery(log) = [what |-> "replay", images |-> images, sequence |-> next]
  BY RecoveryKinds, Zenon
<1> HIDE DEF log
<1>4. PICK images, next :
         \/ log[0].start = 0 /\ Recovery(log) = [what |-> "none", images |-> images, sequence |-> next]
         \/ Recovery(log) = [what |-> "clear", images |-> images, sequence |-> next]
         \/ Recovery(log) = [what |-> "refuse", images |-> images, sequence |-> next]
         \/ /\ MayReplay(images)
            /\ Recovery(log) = [what |-> "replay", images |-> images, sequence |-> next]
  BY <1>3, Zenon
<1>5. ~stored /\ pending = << >> /\ "down" \notin Busy
  <2>1. "down" \notin Busy /\ "down" # "failed"
    BY SMT DEF Busy, Committing
  <2> QED
    BY <1>1, <2>1, Zenon DEF MarkInv, CacheInv
<1>6. DOMAIN pending = {}
  BY <1>5, NothingHasNoDomain, Zenon
<1>7. /\ (Marked' <=> Marked) /\ (Empty' <=> Empty)
      /\ Marked <=> disk[Super] = TRUE
      /\ Empty <=> disk[0].start = 0
  BY <1>1, <1>6, Zenon DEF Marked, Empty
<1>8. CacheInv'
  BY <1>1, <1>5, <1>6, Zenon DEF CacheInv
<1>9. \/ step' = "refused"
      \/ step' = "enable" /\ disk[0].start = 0
      \/ step' = "reclear" /\ disk[Super]
      \/ step' = "replay" /\ disk[Super] /\ MayReplay(replay')
  <2>1. CASE ~disk[Super]
    BY <1>1, <1>2, <2>1, Zenon
  <2>2. CASE disk[Super] /\ log[0].start = 0 /\ Recovery(log) = [what |-> "none", images |-> images, sequence |-> next]
    <3>1. Recovery(log).what = "none"
      BY <2>2, SMT
    <3> QED
      BY <1>1, <1>2, <2>2, <3>1, SMT
  <2>3. CASE disk[Super] /\ Recovery(log) = [what |-> "clear", images |-> images, sequence |-> next]
    <3>1. Recovery(log).what = "clear"
      BY <2>3, SMT
    <3> QED
      BY <1>1, <2>3, <3>1, SMT
  <2>4. CASE disk[Super] /\ Recovery(log) = [what |-> "refuse", images |-> images, sequence |-> next]
    <3>1. Recovery(log).what = "refuse"
      BY <2>4, SMT
    <3> QED
      BY <1>1, <2>4, <3>1, SMT
  <2>5. CASE disk[Super] /\ MayReplay(images) /\ Recovery(log) = [what |-> "replay", images |-> images, sequence |-> next]
    <3>1. Recovery(log).what = "replay" /\ Recovery(log).images = images
      BY <2>5, SMT
    <3>2. step' = "replay"
      BY <1>1, <2>5, <3>1, SMT
    <3> QED
      BY <1>1, <2>5, <3>1, <3>2, Zenon
  <2> QED
    BY <1>4, <2>1, <2>2, <2>3, <2>4, <2>5, Zenon
<1>10. CASE step' = "refused"
  <2>1. "refused" \notin MarkedSteps /\ "refused" \notin EmptySteps /\ "refused" \notin Committing /\ "refused" # "replay"
    BY SMT DEF MarkedSteps, EmptySteps, Committing
  <2> QED
    BY <1>1, <1>7, <1>8, <1>10, <2>1, Zenon DEF MarkInv
<1>11. CASE step' = "enable" /\ disk[0].start = 0
  <2>1. "enable" \notin MarkedSteps /\ "enable" \in Busy /\ "enable" \notin Committing /\ "enable" # "replay"
    BY SMT DEF MarkedSteps, Busy, Committing
  <2> QED
    BY <1>1, <1>7, <1>8, <1>11, <2>1, Zenon DEF MarkInv
<1>12. CASE step' \in {"reclear", "replay"} /\ disk[Super] /\ (step' = "replay" => MayReplay(replay'))
  <2>1. step' \notin EmptySteps /\ step' \in Busy /\ step' \notin Committing
    BY <1>12, SMT DEF EmptySteps, Busy, Committing
  <2>2. Marked'
    BY <1>7, <1>12, Zenon DEF MarkInv
  <2>3. step' = "replay" => \A b \in DOMAIN replay' : b \in Home
    BY <1>12, Zenon DEF MayReplay, ValidTarget
  <2> QED
    BY <1>1, <1>8, <2>1, <2>2, <2>3, Zenon DEF MarkInv
<1>13. "reclear" # "replay"
  BY SMT
<1> QED
  BY <1>9, <1>10, <1>11, <1>12, <1>13, Zenon

\* A transaction begins, and a mount is closed, from "idle".
LEMMA IdleMarks ==
    ASSUME MarkInv, Close \/ \E us \in Transactions : BeginCommit(us) PROVE MarkInv'
<1>1. /\ step = "idle" /\ UNCHANGED <<disk, pending, stored>>
      /\ step' = "sync" \/ (step' = "anchor" /\ updates' \in Transactions)
  BY Zenon DEF Close, BeginCommit
<1>2. "idle" \in MarkedSteps /\ "idle" \in EmptySteps /\ "idle" \notin Busy /\ "idle" # "failed"
  BY SMT DEF MarkedSteps, EmptySteps, Busy, Committing
<1>3. ~stored /\ pending = << >> /\ Marked /\ Empty
  BY <1>1, <1>2, Zenon DEF MarkInv, CacheInv
<1>4. Marked' /\ Empty'
  BY <1>1, <1>3, Zenon DEF Marked, Empty
<1>5. DOMAIN pending' = {}
  BY <1>1, <1>3, NothingHasNoDomain, Zenon
<1>6. CacheInv'
  BY <1>1, <1>3, <1>5, Zenon DEF CacheInv
<1>7. /\ "sync" \in Busy /\ "anchor" \in Busy /\ "sync" \notin Committing /\ "sync" # "replay"
      /\ "anchor" # "replay"
  BY SMT DEF Busy, Committing
<1>8. updates' \in Transactions => updates' \in Transactions'
  BY Zenon DEF Transactions
<1> QED
  BY <1>1, <1>4, <1>6, <1>7, <1>8, Zenon DEF MarkInv
-----------------------------------------------------------------------------
LEMMA MarkInit == Init => MarkInv
<1> SUFFICES ASSUME Init PROVE MarkInv
  BY Zenon
<1>1. PICK j \in Imported : disk = Over(j.log, Over(j.home, Only(Super, j.recover)))
  BY Zenon DEF Init
<1> DEFINE home == Over(j.home, Only(Super, j.recover))
<1>2. /\ DOMAIN j.log = 0..Ring /\ DOMAIN j.home = Home
      /\ j.recover \in BOOLEAN /\ (j.log[0].start # 0 => j.recover = TRUE)
  BY JournalAssumption, Zenon
<1>3. 0 \in 0..Ring /\ Super \notin 0..Ring /\ Super \notin Home
  <2>1. 0 \in 0..Ring
    BY LogAssumption, SMT
  <2> QED
    BY <2>1, JournalAssumption, Zenon
<1>4. Super \in DOMAIN home /\ home[Super] = j.recover
  <2>1. DOMAIN Only(Super, j.recover) = {Super} /\ Only(Super, j.recover)[Super] = j.recover
    BY OnlyOne, Zenon
  <2>2. /\ DOMAIN home = DOMAIN j.home \cup DOMAIN Only(Super, j.recover)
        /\ \A x \in DOMAIN Only(Super, j.recover) :
              x \notin DOMAIN j.home => home[x] = Only(Super, j.recover)[x]
    BY OverParts, Zenon
  <2> QED
    BY <1>2, <1>3, <2>1, <2>2, Zenon
<1> HIDE DEF home
<1>5. /\ DOMAIN Over(j.log, home) = DOMAIN j.log \cup DOMAIN home
      /\ \A b \in DOMAIN j.log : Over(j.log, home)[b] = j.log[b]
      /\ \A b \in DOMAIN home : b \notin DOMAIN j.log => Over(j.log, home)[b] = home[b]
  BY OverParts, Zenon
<1>6. disk = Over(j.log, home)
  BY <1>1, Zenon DEF home
<1>7. 0 \in DOMAIN disk /\ Super \in DOMAIN disk /\ disk[0] = j.log[0] /\ disk[Super] = j.recover
  BY <1>2, <1>3, <1>4, <1>5, <1>6, Zenon
<1>8. pending = << >> /\ step = "down" /\ stored = FALSE
  BY Zenon DEF Init
<1>9. DOMAIN pending = {}
  BY <1>8, NothingHasNoDomain, Zenon
<1>10. "down" \notin Committing /\ "down" # "replay" /\ "down" \notin MarkedSteps /\ "down" \notin EmptySteps
  BY SMT DEF Committing, MarkedSteps, EmptySteps
<1>11. CacheInv
  BY <1>8, <1>9, Zenon DEF CacheInv
<1>12. Marked \/ Empty
  BY <1>2, <1>7, <1>9, Zenon DEF Marked, Empty
<1> QED
  BY <1>2, <1>7, <1>8, <1>10, <1>11, <1>12, Zenon DEF MarkInv

LEMMA MarkStutter == ASSUME MarkInv, UNCHANGED vars PROVE MarkInv'
<1>1. UNCHANGED <<disk, pending, step, stored, updates, replay>>
  BY Zenon DEF vars
<1> QED
  BY <1>1, Zenon DEF MarkInv, CacheInv, Marked, Empty, Transactions

LEMMA MarkNext == MarkInv /\ [Next]_vars => MarkInv'
<1> SUFFICES ASSUME MarkInv, [Next]_vars PROVE MarkInv'
  BY Zenon
<1>1. CASE Next
  BY <1>1, IdleMarks, WriteMarks, BarrierMarks, FailMarks, OpenMarks, CrashMarks, Zenon DEF Next
<1>2. CASE UNCHANGED vars
  BY <1>2, MarkStutter, Zenon
<1> QED
  BY <1>1, <1>2, Zenon

\* One of the two superblocks is settled at every step: a marked volume has
\* no write of RECOVER in the device's cache, and an unmarked one has an empty
\* log with none of the log's superblock.
THEOREM MarkInvariant == Spec => []MarkInv
BY MarkInit, MarkNext, PTL DEF Spec

\* A log in use is never on the disk without RECOVER, wherever commit, recover,
\* open or close stops and whatever part of the device's cache a crash keeps.
THEOREM LogInUseIsMarked == Spec => []RecoverIsMarked
<1>1. MarkInv => RecoverIsMarked
  BY Zenon DEF MarkInv, Marked, Empty, RecoverIsMarked
<1> QED
  BY <1>1, MarkInvariant, PTL

=============================================================================
