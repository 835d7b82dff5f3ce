---- MODULE TradeLog ----
(***************************************************************************)
(* The audit log logs/critical/trades.jsonl, as the sequence of its lines, *)
(* and the pairing of entries with exits that the start-up reconciliation  *)
(* and the UI perform on it.  A line is abstracted to its kind, the key    *)
(* both readers pair on, and two marks no reader of the file sees: the     *)
(* number of the trade it belongs to and who wrote it.                     *)
(***************************************************************************)
EXTENDS Naturals, Sequences, FiniteSets, SequencesExt

CONSTANTS Indices, Contracts

\* (index, strike, side): the strike and the side are one contract.
Keys == Indices \X Contracts

\* Only the subscriber enters; either thread exits, and so does the reconciliation.
Writers == {"sub", "manage", "reconcile"}

Line == [kind : {"entry"}, key : Keys, trade : Nat, by : {"sub"}]
            \cup [kind : {"exit"}, key : Keys, trade : Nat, by : Writers]

EntryLine(key, n) == [kind |-> "entry", key |-> key, trade |-> n, by |-> "sub"]

ExitLine(key, n, who) == [kind |-> "exit", key |-> key, trade |-> n, by |-> who]

(***************************************************************************)
(* _pair_entries, line by line: open_by_key maps a key to the position of  *)
(* the entry it holds, 0 when the key is absent.  A later entry overwrites *)
(* an earlier one of the same key, an exit pops whatever is there.         *)
(***************************************************************************)
OpenByKey(events) ==
    LET open[n \in 0..Len(events)] ==
            IF n = 0 THEN [k \in Keys |-> 0]
            ELSE [open[n - 1] EXCEPT ![events[n].key] = IF events[n].kind = "entry" THEN n ELSE 0]
    IN  open[Len(events)]

PairEntries(events) ==
    {n \in 1..Len(events) : OpenByKey(events)[events[n].key] = n}

\* What that loop computes: the entries that are the last line of their key.
LastOfKey(events) ==
    {n \in 1..Len(events) :
        /\ events[n].kind = "entry"
        /\ \A m \in (n + 1)..Len(events) : events[m].key # events[n].key}

\* Mutant of SyntheticExits: a key that was ever exited is taken for closed.
SyntheticExitsOnce(events) ==
    LET never == {n \in PairEntries(events) :
                    \A m \in 1..Len(events) : events[m].key = events[n].key
                                                => events[m].kind = "entry"}
    IN  {[n \in DOMAIN s |-> ExitLine(events[s[n]].key, events[s[n]].trade, "reconcile")] :
            s \in SetToSeqs(never)}

(***************************************************************************)
(* reconcile_orphan_entries: one synthetic exit for every paired-open      *)
(* entry, all in one append.  Their order, that of the dictionary, is      *)
(* left open: nothing that reads the file tells two such orders apart.     *)
(***************************************************************************)
SyntheticExits(events) ==
    {[n \in DOMAIN s |-> ExitLine(events[s[n]].key, events[s[n]].trade, "reconcile")] :
        s \in SetToSeqs(PairEntries(events))}

\* The trades whose entry was logged and that no exit line names.
Unexited(events) ==
    {events[n].trade : n \in {n \in 1..Len(events) : events[n].kind = "entry"}}
        \ {events[n].trade : n \in {n \in 1..Len(events) : events[n].kind = "exit"}}
====
