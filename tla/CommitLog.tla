------------------------------ MODULE CommitLog ------------------------------
(***************************************************************************)
(* What a log promises its callers, with no segments, buffers or files: an *)
(* append gets the next offset, an offset keeps its record for as long as  *)
(* the log keeps the offset, and compaction drops a prefix of the offsets  *)
(* and nothing else.  It is the contract behind the CommitLog interface of *)
(* internal/server/server.go; the logs of this project are shown to        *)
(* implement it.                                                           *)
(***************************************************************************)
EXTENDS Integers

CONSTANTS FirstOffset,   \* the offset of the first record
          Payloads       \* what a record can hold

VARIABLES entries,   \* offset -> the payload kept there
          end        \* the offset the next append gets

vars == <<entries, end>>

Init ==
    /\ entries = [o \in {} |-> FirstOffset]
    /\ end = FirstOffset

Append(p) ==
    /\ end' = end + 1
    /\ entries' = [o \in DOMAIN entries \cup {end} |->
                      IF o = end THEN p ELSE entries[o]]

\* The offsets up to and including lo are dropped.
Compact(lo) ==
    /\ end' = end
    /\ entries' = [o \in {q \in DOMAIN entries : q > lo} |-> entries[o]]

Next ==
    \/ \E p \in Payloads : Append(p)
    \/ \E lo \in DOMAIN entries : Compact(lo)

Spec == Init /\ [][Next]_vars
=============================================================================
