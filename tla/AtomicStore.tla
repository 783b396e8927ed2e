----------------------------- MODULE AtomicStore -----------------------------
(***************************************************************************)
(* What driver/fs/ext4/journal.cpp promises its caller: a store of blocks  *)
(* that changes by whole transactions.  A transaction that was begun takes *)
(* effect at most once; when commit reports success it has taken effect,   *)
(* and a crash or an I/O error leaves all of it or nothing.                *)
(***************************************************************************)
EXTENDS TLC

CONSTANTS
    Home,     \* the blocks of the store
    Values    \* their contents

VARIABLES
    content,  \* what survives a crash
    tx        \* the updates being committed, << >> if there are none

storeVars == <<content, tx>>

Updates == UNION {[S -> Values] : S \in SUBSET Home \ {{}}}

After(u) == u @@ content

StoreInit == content \in [Home -> Values] /\ tx = << >>

Begin ==
    /\ tx = << >>
    /\ tx' \in Updates
    /\ UNCHANGED content

TakeEffect == tx # << >> /\ content' = After(tx) /\ UNCHANGED tx

Succeed == tx # << >> /\ content = After(tx) /\ tx' = << >> /\ UNCHANGED content

GiveUp == tx # << >> /\ content' \in {content, After(tx)} /\ tx' = << >>

StoreNext == Begin \/ TakeEffect \/ Succeed \/ GiveUp

StoreSpec == StoreInit /\ [][StoreNext]_storeVars
=============================================================================
