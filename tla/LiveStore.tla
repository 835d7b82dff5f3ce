---- MODULE LiveStore ----
(***************************************************************************)
(* The live view of one index and one of its option contracts in Redis     *)
(* (storage.py, LiveStore) and its two writers in the ingest process: the  *)
(* websocket's callback thread "ws" and the open interest poller "oi".     *)
(* A quote arrives without open interest, which the broker's socket drops; *)
(* the poller, and a depth frame, bring the open interest without a quote. *)
(* Either writer reads the stored record, puts its own field over it and   *)
(* writes the whole record back to two keys, with no lock and no           *)
(* transaction.  What is written is then published.                        *)
(***************************************************************************)
EXTENDS Integers, Sequences

CONSTANTS
    Spots,          \* the prices an index tick may carry
    MaxTicks, MaxIndexTicks, MaxDepths, MaxOI, MaxBus, MaxRedisFaults,  \* bounds
    NONE            \* a key that is not there

ASSUME StoreAssumption ==
    /\ Spots \subseteq Nat \ {0}
    /\ \A n \in {MaxTicks, MaxIndexTicks,
                 MaxDepths, MaxOI, MaxBus, MaxRedisFaults} : n \in Nat
    /\ NONE \notin [ltp : 0..MaxTicks, oi : 0..MaxOI]

VARIABLES
    latest, chain,   \* the record at the contract's own key, and in the chain's hash
    spot,            \* tpp:spot, with the number of the tick that set it
    marketOI,        \* the open interest at the broker
    ticks, indexTicks, depths, redisFaults,  \* how many there were
    pc, job,         \* per writer: where it is, and the record it is about
    bus,             \* messages on their way to the greeks engine
    newest,          \* history: the last quote that was stored
    merged,          \* history: the last open interest that was stored
    overlap,         \* history: the other writer wrote since this one read
    clean            \* history: the fields no race has spoiled

store == <<latest, chain, spot>>
counts == <<ticks, indexTicks, depths, redisFaults>>
threads == <<pc, job>>
history == <<newest, merged, overlap, clean>>
writers == <<marketOI, counts, threads, history>>

Thread == {"ws", "oi"}

Other(t) == CHOOSE u \in Thread : u # t

\* A quote is its number, and open interest 0 means that it is not known.
Record == [ltp : 0..MaxTicks, oi : 0..MaxOI]

Spot == [price : {0} \cup Spots, n : 0..MaxIndexTicks]

NoSpot == [price |-> 0, n |-> 0]

NoJob == [kind |-> "none", ltp |-> 0, oi |-> 0]

Body(t) == [ltp |-> job[t].ltp, oi |-> job[t].oi]

\* A thread between its read and its last write.
Writing(t) == pc[t] \in {"set", "hset"}

StoreInit ==
    /\ latest = NONE /\ chain = NONE /\ spot = NoSpot
    /\ marketOI = 0
    /\ ticks = 0 /\ indexTicks = 0 /\ depths = 0 /\ redisFaults = 0
    /\ pc = [t \in Thread |-> "idle"] /\ job = [t \in Thread |-> NoJob]
    /\ bus = <<>>
    /\ newest = 0 /\ merged = 0
    /\ overlap = [t \in Thread |-> FALSE] /\ clean = {}

Begin(t, kind, ltp, oi) ==
    /\ pc[t] = "idle"
    /\ pc' = [pc EXCEPT ![t] = "read"]
    /\ job' = [job EXCEPT ![t] = [kind |-> kind, ltp |-> ltp, oi |-> oi]]

End(t) ==
    /\ pc' = [pc EXCEPT ![t] = "idle"]
    /\ job' = [job EXCEPT ![t] = NoJob]

-----------------------------------------------------------------------------
(* What starts a writer.                                                   *)

\* Contracts are opened and closed: the open interest changes.
Trade ==
    /\ marketOI < MaxOI
    /\ marketOI' = marketOI + 1
    /\ UNCHANGED <<store, counts, threads, bus, history>>

\* _on_message, a frame with the next quote of the contract.
OptionTick ==
    /\ ticks < MaxTicks
    /\ Begin("ws", "tick", ticks + 1, 0)
    /\ ticks' = ticks + 1
    /\ UNCHANGED <<store, marketOI, indexTicks, depths, redisFaults, bus, history>>

\* _on_message, a depth frame: _handle_depth_oi merges and does not publish.
Depth ==
    /\ depths < MaxDepths
    /\ Begin("ws", "depth", 0, marketOI)
    /\ depths' = depths + 1
    /\ UNCHANGED <<store, marketOI, ticks, indexTicks, redisFaults, bus, history>>

\* _on_message, an index tick: set_index_tick, then the publication.
IndexTick(p) ==
    /\ pc["ws"] = "idle" /\ indexTicks < MaxIndexTicks
    /\ spot' = [price |-> p, n |-> indexTicks + 1]
    /\ indexTicks' = indexTicks + 1
    /\ pc' = [pc EXCEPT !["ws"] = "index"]
    /\ UNCHANGED <<latest, chain, marketOI, ticks, depths, redisFaults, job,
                   bus, history>>

\* _poll_chain: the row of the contract in a response that is "ok".  A call that
\* fails, an answer that is not "ok" and a poller that was stopped do nothing.
PollOk ==
    /\ Begin("oi", "poll", 0, marketOI)
    /\ UNCHANGED <<store, marketOI, counts, bus, history>>

-----------------------------------------------------------------------------
(* The two read-modify-write paths, one call to Redis at a time.           *)

\* Mutant: only a record that was there before is looked at, never its field.
PreservedNever(quote, prev) == quote

\* set_option_tick: a quote without open interest keeps the known one.
Preserved(quote, prev) ==
    IF quote.oi = 0 /\ prev # NONE /\ prev.oi # 0
    THEN [quote EXCEPT !.oi = prev.oi]
    ELSE quote

\* merge_option_oi: the open interest over the stored record.
Overlaid(merge, prev) == [merge EXCEPT !.ltp = prev.ltp]

\* The first call: the record as it is now.
Read(t) ==
    /\ pc[t] = "read"
    /\ \/ /\ job[t].kind = "tick"
          /\ pc' = [pc EXCEPT ![t] = "set"]
          /\ job' = [job EXCEPT ![t] = Preserved(@, latest)]
       \/ /\ job[t].kind # "tick" /\ latest # NONE
          /\ pc' = [pc EXCEPT ![t] = "set"]
          /\ job' = [job EXCEPT ![t] = Overlaid(@, latest)]
       \/ /\ job[t].kind # "tick" /\ latest = NONE
          /\ End(t)
    /\ UNCHANGED <<store, marketOI, counts, bus, history>>

\* A write of t falls between the read and the last write of the other thread.
Overlaps(t) ==
    overlap' = [overlap EXCEPT ![Other(t)] = @ \/ Writing(Other(t)),
                               ![t] = @ /\ pc'[t] = "hset"]

SetLatest(t) ==
    /\ pc[t] = "set"
    /\ latest' = Body(t)
    /\ pc' = [pc EXCEPT ![t] = "hset"]
    /\ newest' = IF job[t].kind = "tick" THEN job[t].ltp ELSE newest
    /\ merged' = IF job[t].kind # "tick" THEN job[t].oi ELSE merged
    /\ clean' = IF overlap[t] THEN {}
                ELSE clean \cup {IF job[t].kind = "tick" THEN "ltp" ELSE "oi"}
    /\ Overlaps(t)
    /\ UNCHANGED <<chain, spot, marketOI, counts, job, bus>>

\* Mutant: a merge forgets the copy in the chain.
SetChainOfTicks(t) ==
    /\ pc[t] = "hset"
    /\ chain' = IF job[t].kind = "tick" THEN Body(t) ELSE chain
    /\ pc' = [pc EXCEPT ![t] = IF job[t].kind = "depth" THEN "idle" ELSE "publish"]
    /\ job' = [job EXCEPT ![t] = NoJob]
    /\ clean' = IF overlap[t] THEN clean \ {"copies"} ELSE clean \cup {"copies"}
    /\ Overlaps(t)
    /\ UNCHANGED <<latest, spot, marketOI, counts, bus, newest, merged>>

SetChain(t) ==
    /\ pc[t] = "hset"
    /\ chain' = Body(t)
    /\ pc' = [pc EXCEPT ![t] = IF job[t].kind = "depth" THEN "idle" ELSE "publish"]
    /\ job' = [job EXCEPT ![t] = NoJob]
    /\ clean' = IF overlap[t] THEN clean \ {"copies"} ELSE clean \cup {"copies"}
    /\ Overlaps(t)
    /\ UNCHANGED <<latest, spot, marketOI, counts, bus, newest, merged>>

\* A call raises.  The websocket's handler and the poller's loop swallow that
\* and go on with the next message, or row; a pipeline may be half executed.  The
\* publication of an index tick does not fail here.
CallFails(t) ==
    /\ pc[t] \in {"read", "set", "hset", "publish"} /\ redisFaults < MaxRedisFaults
    /\ redisFaults' = redisFaults + 1
    /\ End(t)
    /\ clean' = IF pc[t] = "hset" THEN {} ELSE clean
    /\ overlap' = [overlap EXCEPT ![t] = FALSE]
    /\ UNCHANGED <<store, marketOI, ticks, indexTicks, depths, bus, newest, merged>>

\* The bus delivers the messages of ingest to one subscriber in order.
Publish(t) ==
    /\ Len(bus) < MaxBus
    /\ \/ /\ pc[t] = "publish"
          /\ bus' = Append(bus, [kind |-> "option", spot |-> NoSpot])
       \/ /\ pc[t] = "index"
          /\ bus' = Append(bus, [kind |-> "index", spot |-> spot])
    /\ End(t)
    /\ UNCHANGED <<store, marketOI, counts, history>>

WriterStep(t) == Read(t) \/ SetLatest(t) \/ SetChain(t) \/ Publish(t) \/ CallFails(t)

StoreNext ==
    \/ Trade \/ OptionTick \/ Depth \/ PollOk
    \/ \E p \in Spots : IndexTick(p)
    \/ \E t \in Thread : WriterStep(t)

-----------------------------------------------------------------------------

StoreTypeOK ==
    /\ latest \in Record \cup {NONE} /\ chain \in Record \cup {NONE}
    /\ spot \in Spot
    /\ marketOI \in 0..MaxOI
    /\ ticks \in 0..MaxTicks /\ indexTicks \in 0..MaxIndexTicks
    /\ depths \in 0..MaxDepths /\ redisFaults \in 0..MaxRedisFaults
    /\ pc \in [Thread -> {"idle", "read", "set", "hset", "publish", "index"}]
    /\ job \in [Thread -> [kind : {"none", "tick", "depth", "poll"},
                           ltp : 0..MaxTicks, oi : 0..MaxOI]]
    /\ bus \in Seq([kind : {"option", "index"}, spot : Spot]) /\ Len(bus) <= MaxBus
    /\ newest \in 0..MaxTicks /\ merged \in 0..MaxOI
    /\ overlap \in [Thread -> BOOLEAN] /\ clean \subseteq {"ltp", "oi", "copies"}

\* Without a race the two writers do not hurt each other (storage.py:76-141): the
\* stored quote is the last one, the stored open interest the last one merged, and
\* the chain's copy agrees; and each field is right again as soon as its own
\* writer gets through alone, whatever a race or a half pipeline left behind.
CleanFieldsAreCurrent ==
    /\ "ltp" \in clean => latest.ltp = newest
    /\ "oi" \in clean => latest.oi = merged
    /\ "copies" \in clean /\ (\A t \in Thread : pc[t] # "hset") => chain = latest

\* storage.py:119, "Overlay OI onto the cached option tick without clobbering
\* LTP/quotes": a merge leaves the stored quote as it is.
MergeKeepsQuote ==
    [][\A t \in Thread : SetLatest(t) /\ job[t].kind # "tick" => latest'.ltp = latest.ltp]_latest

\* Open interest does not stay at 0 (the comment at storage.py:86): once quotes and
\* trades have ended, the poller brings both copies to what the broker says.
OpenInterestSettles ==
    <>[](latest # NONE => latest.oi = marketOI /\ chain = latest)

====
