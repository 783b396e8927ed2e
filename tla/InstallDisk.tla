----------------------------- MODULE InstallDisk -----------------------------
(***************************************************************************)
(* kernel/installer/factory.cpp, execute: the requests that make a disk an *)
(* installation, and what a power cut can leave of them.  The disk has     *)
(* four regions: the partition table, the system partition (esp), the root *)
(* filesystem and the sector of the esp that binds the two (root.bin),     *)
(* without which the loader does not boot.  A region is as it was, zeroed, *)
(* new, or a part of new; a write is lost, half done or done until the     *)
(* next flush.  The table has two copies: half of one is the other.        *)
(***************************************************************************)
EXTENDS Integers, Sequences

VARIABLES
    holds,  \* what a region was last written to be, if that is known
    left    \* what a power cut may leave in it

diskVars == <<holds, left>>

Regions == {"gpt", "esp", "root", "bind"}

DiskInit ==
    /\ holds = [r \in Regions |-> "old"]
    /\ left = [r \in Regions |-> {"old"}]

Flush == [do |-> "flush", regions |-> {}, value |-> ""]
Check == [do |-> "read", regions |-> {}, value |-> ""]
Write(S, v) == [do |-> "write", regions |-> S, value |-> v]

\* Mutant: the binding is written with what it vouches for still in the cache.
ScriptUnflushed ==
    <<Flush, Write({"gpt"}, "zero"), Flush, Check, Write({"esp", "bind"}, "zero"), Flush,
      Write({"gpt"}, "new"), Flush, Check, Write({"root"}, "new"), Write({"esp"}, "new"), Check,
      Write({"bind"}, "new"), Flush, Check>>

\* The requests of execute, in order; the builders of the two filesystems
\* are one write each.
Script ==
    <<Flush, Write({"gpt"}, "zero"), Flush, Check, Write({"esp", "bind"}, "zero"), Flush,
      Write({"gpt"}, "new"), Flush, Check, Write({"root"}, "new"), Write({"esp"}, "new"), Check,
      Flush, Write({"bind"}, "new"), Flush, Check>>

\* What a power cut may leave while v is on its way to the region.
Torn(r, v) == IF r \in {"esp", "root"} THEN {v, "part"} ELSE {v}

\* The effect of a request that the device has carried out.
Carry(c) ==
    /\ holds' = [r \in Regions |-> IF r \in c.regions THEN c.value ELSE holds[r]]
    /\ left' = [r \in Regions |->
                  CASE c.do = "flush" -> IF holds[r] = "unknown" THEN left[r] ELSE {holds[r]}
                    [] r \in c.regions -> left[r] \cup Torn(r, c.value)
                    [] OTHER -> left[r]]

\* A request that failed, or whose caller was killed: it may have been done,
\* and a flush then makes durable nobody knows what.
Perhaps(c) ==
    /\ holds' = [r \in Regions |-> IF r \in c.regions THEN "unknown" ELSE holds[r]]
    /\ left' = [r \in Regions |-> IF r \in c.regions THEN left[r] \cup Torn(r, c.value) ELSE left[r]]

\* Another installation begins: what is new on the disk is old to it.
Relabel ==
    LET old(v) == IF v = "new" THEN "old" ELSE v
    IN /\ holds' = [r \in Regions |-> old(holds[r])]
       /\ left' = [r \in Regions |-> {old(v) : v \in left[r]}]

\* A partition table and a binding lead the loader to the root filesystem.
Boots(gpt, bind) == {gpt, bind} \subseteq {"old", "new"}

\* After a power cut at any point of an installation the disk boots all of
\* the old system or all of the new one, or nothing: never a binding that
\* vouches for files that are not there.
BootsWhole ==
    \A gpt \in left["gpt"], esp \in left["esp"], root \in left["root"], bind \in left["bind"] :
        Boots(gpt, bind) => gpt = bind /\ esp = bind /\ root = bind
=============================================================================
