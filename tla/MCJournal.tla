----------------------------- MODULE MCJournal -----------------------------
(* Two home blocks.  The journals are the one mkfs makes and the ones that  *)
(* another JBD2 writer leaves with two transactions in the log.             *)
EXTENDS Journal, SequencesExt

CONSTANTS A, B, FirstSequence

Two == {A, B}

\* No operation tells one home block from another.
Alike == Permutations(Two)

FreshOnly == {Fresh(FirstSequence)}

\* A transaction of another writer: blocks revoked, after-images.
Foreign == {t \in [revoked : SUBSET Home, images : UNION {[S -> {"text", "magic"}] : S \in SUBSET Home}] :
              /\ t.revoked \cup DOMAIN t.images # {}
              /\ t.revoked \cap DOMAIN t.images = {}}

\* The blocks it puts into the log.
Encode(t, s, intact) ==
    LET order == SetToSeq(DOMAIN t.images)
        revoke == IF t.revoked = {} THEN << >> ELSE <<Revoke(s, t.revoked)>>
        tags == [k \in DOMAIN order |-> Tag(order[k], t.images[order[k]])]
        images == [k \in DOMAIN order |-> Image(t.images[order[k]])]
        written == IF order = << >> THEN << >> ELSE <<Descriptor(s, tags)>> \o images
    IN revoke \o written \o <<Commit(s, intact)>>

\* The log of two transactions from block start on, the second perhaps torn.
\* Its meaning: the second overrides and revokes the first.
Left(one, two, start, intact) ==
    LET s == FirstSequence
        records == Encode(one, s, TRUE) \o Encode(two, Successor(s), intact)
        place == [k \in 1..Len(records) |-> Advance(start, k - 1)]
        used == {place[k] : k \in DOMAIN place}
        home == [b \in Home |-> Blank]
        first == one.images @@ home
        both == [b \in Home |-> IF b \in DOMAIN two.images THEN two.images[b]
                                ELSE IF b \in two.revoked THEN home[b] ELSE first[b]]
    IN [log |-> [b \in 0..Ring |->
                   IF b = 0 THEN JournalSuper(start, s)
                   ELSE IF b \in used THEN records[CHOOSE k \in DOMAIN place : place[k] = b]
                   ELSE Zero],
        home |-> home, recover |-> TRUE, means |-> IF intact THEN both ELSE first]

Fits(one, two) ==
    Len(Encode(one, FirstSequence, TRUE) \o Encode(two, FirstSequence, TRUE)) < Ring

\* The first transaction is about A, perhaps among others: the blocks are alike.
AboutA(t) == A \in t.revoked \cup DOMAIN t.images

FreshOrForeign ==
    FreshOnly \cup
    {Left(p[1], p[2], p[3], p[4]) :
        p \in {q \in Foreign \X Foreign \X {1, Ring - 1} \X BOOLEAN : AboutA(q[1]) /\ Fits(q[1], q[2])}}
=============================================================================
