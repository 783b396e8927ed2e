------------------------------- MODULE Mailbox -------------------------------
(***************************************************************************)
(* What message delivery promises: each pipe has the records posted to it, *)
(* in the order they were posted, and a record leaves only at the front,   *)
(* to the reader, for as long as both ends of the pipe are open.  What the *)
(* threads of the process write themselves comes between the records and   *)
(* leaves them in order.  When an end is closed, records that were not     *)
(* read may be dropped.                                                    *)
(***************************************************************************)
EXTENDS Naturals, Sequences

CONSTANTS Pipes, Records, Data

VARIABLES box, shut

mailVars == <<box, shut>>

MailInit == box = [p \in Pipes |-> << >>] /\ shut = [p \in Pipes |-> {}]

Post(p, r) ==
    /\ "write" \notin shut[p]
    /\ box' = [box EXCEPT ![p] = Append(@, r)]
    /\ UNCHANGED shut

Take(p, n) == box' = [box EXCEPT ![p] = SubSeq(@, n + 1, Len(@))] /\ UNCHANGED shut

Mix(p, i, n) ==
    /\ box' = [box EXCEPT ![p] = SubSeq(@, 1, i) \o [k \in 1..n |-> Data] \o SubSeq(@, i + 1, Len(@))]
    /\ UNCHANGED shut

Shut(p, e) == shut' = [shut EXCEPT ![p] = @ \cup {e}] /\ UNCHANGED box

Drop(p, i) ==
    /\ shut[p] # {}
    /\ box' = [box EXCEPT ![p] = SubSeq(@, 1, i - 1) \o SubSeq(@, i + 1, Len(@))]
    /\ UNCHANGED shut

MailNext ==
    \E p \in Pipes :
        /\ box'[p] # box[p] \/ shut'[p] # shut[p]
        /\ \/ \E r \in Records : Post(p, r)
           \/ \E n \in 1..Len(box[p]) : Take(p, n)
           \/ \E i \in 0..Len(box[p]), n \in 1..Len(box'[p]) : Mix(p, i, n)
           \/ \E e \in {"read", "write"} : Shut(p, e)
           \/ \E i \in 1..Len(box[p]) : Drop(p, i)

MailSpec == MailInit /\ [][MailNext]_mailVars
=============================================================================
