---- MODULE AppendLog ----
(***************************************************************************)
(* What the write-ahead log promises its readers: the records it was given *)
(* come back in the order they were given, each once; a record that came   *)
(* back once does so for ever, except across a power loss, which may take  *)
(* any of them and never adds or reorders one.  Records are numbered as    *)
(* they are given.  WriteAheadLog implements this; IngestPipeline uses it. *)
(***************************************************************************)
EXTENDS Naturals, Sequences

CONSTANT Records   \* the numbers of the records

VARIABLES
    records,   \* what a reader gets
    losses     \* power losses so far

vars == <<records, losses>>

Ascending(s) == \A m \in 2..Len(s) : s[m - 1] < s[m]

Elements(s) == {s[m] : m \in DOMAIN s}

Init == records = <<>> /\ losses = 0

Give(n) ==
    /\ records' = Append(records, n)
    /\ \A m \in DOMAIN records : records[m] < n
    /\ UNCHANGED losses

\* Both sequences ascend, so that the later one is a subsequence of the earlier.
LosePower ==
    /\ losses' = losses + 1
    /\ records' \in Seq(Records)
    /\ Ascending(records') /\ Elements(records') \subseteq Elements(records)

Next == LosePower \/ \E n \in Records : Give(n)

Spec == Init /\ [][Next]_vars
====
