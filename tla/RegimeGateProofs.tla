---- MODULE RegimeGateProofs ----
(***************************************************************************)
(* Theorems about RegimeGate, for every market, every answer of the model, *)
(* every interval, rule and bound.                                         *)
(***************************************************************************)
EXTENDS RegimeGate, FiniteSetTheorems, SequenceTheorems, TLAPS

Votable == Sides \cup {None}

Asked == {"ask", "recall", "lookup", "call", "put", "degrade", "store", "mark", "decide"}

Places == Asked \cup {"idle", "dead"}

\* A job has the fields of NoJob.
IsJob(j) == j = [kind |-> j.kind, seen |-> j.seen, sigs |-> j.sigs, pos |-> j.pos, ltp |-> j.ltp,
                 ts |-> j.ts, last |-> j.last, shown |-> j.shown, regime |-> j.regime,
                 asOf |-> j.asOf, stored |-> j.stored]

(***************************************************************************)
(* What a thread carries fits where it is, at time n: it asked for the     *)
(* regime by then; an answer of its own was not an interval old when it    *)
(* asked; and one it is about to decide on had been stored within one.     *)
(***************************************************************************)
Fits(place, j, n) ==
    /\ IsJob(j)
    /\ place \in Asked => j.ts \in Nat /\ j.ts <= n
    /\ place = "recall" => j.last \in Int
    /\ place \in {"put", "store", "mark", "decide"} => j.asOf \in Int
    /\ place \in {"put", "store", "mark"} => j.ts - j.asOf < Interval
    /\ place \in {"mark", "decide"} => j.stored \in Int /\ j.ts - j.stored < Interval
    /\ j.regime.bias \in Biases
    /\ j.sigs \in Seq(Votable)

ThreadsOK ==
    /\ pc \in [Threads -> Places]
    /\ job = [t \in Threads |-> job[t]]
    /\ \A t \in Threads : Fits(pc[t], job[t], now)

KnownOK ==
    /\ now \in Nat /\ market \in Markets
    /\ lastRegime.decision.bias \in Biases
    /\ \A k \in DOMAIN cache : cache[k].bias \in Biases

(***************************************************************************)
(* No stamp runs ahead of the decision in memory: not the one beside it,   *)
(* nor one a thread has read before it or will write after it.             *)
(***************************************************************************)
MemoryOK ==
    /\ lastAt \in Int /\ lastRegime.asOf \in Int /\ lastRegime.stored \in Int
    /\ lastRegime.stored <= now /\ lastAt <= lastRegime.stored
    /\ \A t \in Threads :
          /\ pc[t] = "recall" => job[t].last <= lastRegime.stored
          /\ pc[t] = "mark" => job[t].ts <= lastRegime.stored

(***************************************************************************)
(* While the threads have not crossed, decision and stamp are of one       *)
(* answer, or one thread alone is about to make them so.                   *)
(***************************************************************************)
PairOK ==
    ~crossed =>
        /\ (\A t \in Threads : pc[t] # "mark") => lastAt - lastRegime.asOf < Interval
        /\ \A t \in Threads :
              /\ pc[t] = "recall" => job[t].last - lastRegime.asOf < Interval
              /\ pc[t] = "mark" => /\ job[t].ts - lastRegime.asOf < Interval
                                   /\ ~OtherAt(t, {"recall", "mark"})
              /\ pc[t] = "decide" => job[t].ts - job[t].asOf < 2 * Interval

IInv == ThreadsOK /\ KnownOK /\ MemoryOK /\ PairOK
----
\* The number of a bucket is of its time: its beginning is less than an interval ago.
LEMMA BucketIsRecent ==
    ASSUME NEW ts \in Nat
    PROVE  Bucket(ts) * Interval \in Int /\ ts - Bucket(ts) * Interval < Interval
BY RegimeAssumption DEF Bucket

\* Every trigger votes for a side or for none.
LEMMA TriggersVote ==
    ASSUME NEW m \in Markets, NEW prev
    PROVE  Triggers(m, prev) \in Seq(Votable)
<1>1. \A b : Micro(b) \in Votable
    BY DEF Micro, Votable, Sides
<1>2. Buildup(m.price, m.oiMove) \in Votable
    BY RegimeAssumption DEF Buildup, Votable, Sides
<1>3. Momentum(m.colours) \in Votable
    BY DEF Momentum, Votable, Sides
<1>4. LevelBreak(m.spot, prev, m.oi) \in Votable
    BY DEF LevelBreak, Votable, Sides
<1>5. QED
    BY <1>1, <1>2, <1>3, <1>4 DEF Triggers

\* The rule of thumb leans one of the ways.
LEMMA FallbackLeans == \A m : Fallback(m).bias \in Biases
BY DEF Fallback, Biases

\* The empty hand fits anywhere it can be found.
LEMMA NoJobFits ==
    \A n : Fits("idle", NoJob, n) /\ Fits("dead", NoJob, n)
<1>1. <<>> \in Seq(Votable) /\ NoRegime.bias \in Biases
    BY DEF NoRegime, Biases
<1>2. QED
    BY <1>1 DEF Fits, IsJob, NoJob, Asked

\* A thread that moves with a job that fits leaves the other's as it was.
LEMMA MoveKeepsThreads ==
    ASSUME ThreadsOK, NEW t \in Threads, NEW to \in Places, NEW j,
           pc' = [pc EXCEPT ![t] = to], job' = [job EXCEPT ![t] = j], now' = now,
           Fits(to, j, now)
    PROVE  /\ ThreadsOK'
           /\ pc'[t] = to /\ job'[t] = j
           /\ \A u \in Threads \ {t} : pc'[u] = pc[u] /\ job'[u] = job[u]
BY DEF ThreadsOK

\* A thread that moves anywhere but between its reads or its writes leaves the memory in order.
LEMMA MoveKeeps ==
    ASSUME IInv, NEW t \in Threads, NEW to \in Places \ {"recall", "mark"}, NEW j,
           pc[t] # "mark",
           pc' = [pc EXCEPT ![t] = to], job' = [job EXCEPT ![t] = j],
           UNCHANGED <<now, market, recall>>, Fits(to, j, now),
           to = "decide" => (crossed \/ j.ts - j.asOf < 2 * Interval),
           \A k \in DOMAIN cache' : cache'[k].bias \in Biases
    PROVE  IInv'
<1>1. /\ ThreadsOK'
      /\ pc'[t] = to /\ job'[t] = j
      /\ \A u \in Threads \ {t} : pc'[u] = pc[u] /\ job'[u] = job[u]
    BY MoveKeepsThreads DEF IInv
<1>2. lastRegime' = lastRegime /\ lastAt' = lastAt /\ crossed' = crossed /\ now' = now
    BY DEF recall
<1>3. KnownOK'
    BY <1>2 DEF IInv, KnownOK
<1>4. MemoryOK'
    BY <1>1, <1>2 DEF IInv, MemoryOK
<1>5. PairOK'
    BY <1>1, <1>2 DEF IInv, PairOK, OtherAt
<1>6. QED
    BY <1>1, <1>3, <1>4, <1>5 DEF IInv

\* What a thread has in hand.
LEMMA InHand ==
    ASSUME IInv, NEW t \in Threads
    PROVE  IsJob(job[t]) /\ Fits(pc[t], job[t], now) /\ job = [u \in Threads |-> job[u]]
BY DEF IInv, ThreadsOK, Fits

\* A thread takes a regime in hand.
LEMMA HasIt ==
    ASSUME IInv, NEW t \in Threads, NEW d, NEW asOf, NEW stored, Has(t, d, asOf, stored)
    PROVE  \E j : /\ job' = [job EXCEPT ![t] = j] /\ IsJob(j)
                  /\ j.regime = d /\ j.asOf = asOf /\ j.stored = stored
                  /\ j.ts = job[t].ts /\ j.sigs = job[t].sigs
<1>1. PICK j : j = [job[t] EXCEPT !.regime = d, !.asOf = asOf, !.stored = stored]
    OBVIOUS
<1>2. job' = [job EXCEPT ![t] = j]
    BY <1>1, InHand DEF Has
<1>3. IsJob(job[t])
    BY InHand
<1>4. IsJob(j) /\ j.regime = d /\ j.asOf = asOf /\ j.stored = stored
      /\ j.ts = job[t].ts /\ j.sigs = job[t].sigs
    BY <1>1, <1>3 DEF IsJob
<1>5. QED
    BY <1>2, <1>4
----
\* Nothing is known and nobody is busy.
LEMMA InitIInv == Init => IInv
<1> SUFFICES ASSUME Init PROVE IInv
    OBVIOUS
<1>1. ThreadsOK
    BY NoJobFits DEF Init, ThreadsOK, Places
<1>2. KnownOK
    BY DEF Init, KnownOK, Unasked, NoRegime, Biases
<1>3. MemoryOK
    BY RegimeAssumption DEF Init, MemoryOK, Unasked, Never
<1>4. PairOK
    BY RegimeAssumption DEF Init, PairOK, Unasked, Never
<1>5. QED
    BY <1>1, <1>2, <1>3, <1>4 DEF IInv

\* Asking for the regime, with what the thread has read.
LEMMA AskKeeps ==
    ASSUME IInv, NEW t \in Threads, NEW j, IsJob(j), j.sigs \in Seq(Votable),
           j.regime = NoRegime, Ask(t, j), UNCHANGED <<world, recall, cache>>
    PROVE  IInv'
<1>1. PICK k : k = [j EXCEPT !.ts = now, !.shown = j.seen]
    OBVIOUS
<1>2. IsJob(k) /\ k.ts = now /\ k.regime = NoRegime /\ k.sigs = j.sigs
    BY <1>1 DEF IsJob
<1>3. Fits("ask", k, now)
    BY <1>2 DEF Fits, IInv, KnownOK, NoRegime, Biases
<1>4. pc[t] = "idle" /\ pc' = [pc EXCEPT ![t] = "ask"] /\ job' = [job EXCEPT ![t] = k]
    BY <1>1 DEF Ask, Step
<1>5. \A c \in DOMAIN cache' : cache'[c].bias \in Biases
    BY DEF IInv, KnownOK
<1>6. QED
    BY <1>3, <1>4, <1>5, MoveKeeps DEF world, Places, Asked

\* The subscriber starts on an entry.
LEMMA BeginEntryKeeps == IInv /\ BeginEntry => IInv'
<1> SUFFICES ASSUME IInv, BeginEntry PROVE IInv'
    OBVIOUS
<1>1. PICK j : j = [NoJob EXCEPT !.kind = "entry", !.seen = market,
                                 !.sigs = Triggers(market, prevOi)]
    OBVIOUS
<1>2. Triggers(market, prevOi) \in Seq(Votable)
    BY TriggersVote DEF IInv, KnownOK
<1>3. IsJob(j) /\ j.sigs \in Seq(Votable) /\ j.regime = NoRegime
    BY <1>1, <1>2 DEF IsJob, NoJob
<1>4. QED
    BY <1>1, <1>3, AskKeeps DEF BeginEntry, Threads

\* A thread starts on an exit.
LEMMA BeginExitKeeps == ASSUME IInv, NEW t \in Threads, BeginExit(t) PROVE IInv'
<1>1. PICK j : j = [NoJob EXCEPT !.kind = "exit", !.seen = market, !.pos = held, !.ltp = Quote]
    OBVIOUS
<1>2. IsJob(j) /\ j.sigs \in Seq(Votable) /\ j.regime = NoRegime
    <2>1. <<>> \in Seq(Votable)
        OBVIOUS
    <2>2. QED
        BY <1>1, <2>1 DEF IsJob, NoJob
<1>3. QED
    BY <1>1, <1>2, AskKeeps DEF BeginExit
----
\* The stamp is read: it is not ahead of the decision beside it, nor of any that replaces it.
LEMMA ReadStampKeeps == ASSUME IInv, NEW t \in Threads, ReadStamp(t) PROVE IInv'
<1>1. PICK j : j = [job[t] EXCEPT !.last = lastAt]
    OBVIOUS
<1>2. IsJob(j) /\ j.last = lastAt /\ j.ts = job[t].ts /\ j.regime = job[t].regime
      /\ j.sigs = job[t].sigs
    <2>1. IsJob(job[t])
        BY InHand
    <2>2. QED
        BY <1>1, <2>1 DEF IsJob
<1>3. job' = [job EXCEPT ![t] = j] /\ pc[t] = "ask" /\ pc' = [pc EXCEPT ![t] = "recall"]
    BY <1>1, InHand DEF ReadStamp, Step
<1>4. Fits("recall", j, now)
    BY <1>2, <1>3, InHand DEF Fits, Asked, IInv, MemoryOK
<1>5. /\ ThreadsOK'
      /\ pc'[t] = "recall" /\ job'[t] = j
      /\ \A u \in Threads \ {t} : pc'[u] = pc[u] /\ job'[u] = job[u]
    BY <1>3, <1>4, MoveKeepsThreads DEF ReadStamp, world, IInv, Places, Asked
<1>6. lastRegime' = lastRegime /\ lastAt' = lastAt /\ now' = now
      /\ market' = market /\ cache' = cache
    BY DEF ReadStamp, world
<1>7. MemoryOK'
    BY <1>2, <1>5, <1>6 DEF IInv, MemoryOK
<1>8. PairOK'
    <2> SUFFICES ASSUME ~crossed' PROVE PairOK'
        BY DEF PairOK
    <2>1. ~crossed /\ \A u \in Threads \ {t} : pc[u] # "mark"
        BY DEF ReadStamp, OtherAt
    <2>2. \A u \in Threads : pc[u] # "mark"
        BY <1>3, <2>1
    <2>3. lastAt - lastRegime.asOf < Interval
        BY <2>1, <2>2 DEF IInv, PairOK
    <2>4. \A u \in Threads : pc'[u] # "mark"
        BY <1>5, <2>2
    <2>5. QED
        BY <1>2, <1>5, <1>6, <2>1, <2>3, <2>4 DEF IInv, PairOK
<1>9. QED
    BY <1>5, <1>6, <1>7, <1>8 DEF IInv, KnownOK

\* The decision is read: it is used if the stamp read before it is recent.
LEMMA ReadRegimeKeeps == ASSUME IInv, NEW t \in Threads, ReadRegime(t) PROVE IInv'
<1>0. now \in Nat /\ \A c \in DOMAIN cache' : cache'[c].bias \in Biases
    BY DEF ReadRegime, IInv, KnownOK
<1>1. CASE /\ Step(t, "recall", "decide") /\ Recent(t)
           /\ Has(t, lastRegime.decision, lastRegime.asOf, lastRegime.stored)
    <2>1. PICK d, asOf, stored : /\ d = lastRegime.decision /\ asOf = lastRegime.asOf
                                 /\ stored = lastRegime.stored
        OBVIOUS
    <2>2. PICK j : /\ job' = [job EXCEPT ![t] = j] /\ IsJob(j)
                   /\ j.regime = d /\ j.asOf = asOf /\ j.stored = stored
                   /\ j.ts = job[t].ts /\ j.sigs = job[t].sigs
        BY <1>1, <2>1, HasIt
    <2>3. /\ job[t].ts \in Nat /\ job[t].ts <= now /\ job[t].last \in Int
          /\ job[t].sigs \in Seq(Votable)
        BY <1>1, InHand DEF Step, Fits, Asked
    <2>4. job[t].ts - job[t].last < Interval
        BY <1>1 DEF Recent
    <2>5. asOf \in Int /\ stored \in Int /\ job[t].last <= stored /\ d.bias \in Biases
        BY <1>1, <2>1 DEF Step, IInv, MemoryOK, KnownOK
    <2>6. Fits("decide", j, now)
        <3>1. job[t].ts - stored < Interval
            BY <2>3, <2>4, <2>5, RegimeAssumption
        <3>2. QED
            BY <2>2, <2>3, <2>5, <3>1 DEF Fits
    <2>7. ~crossed => j.ts - j.asOf < 2 * Interval
        <3>1. ~crossed => job[t].last - asOf < Interval
            BY <1>1, <2>1 DEF Step, IInv, PairOK
        <3>2. lastRegime.asOf \in Int /\ Interval \in Nat
            BY RegimeAssumption DEF IInv, MemoryOK
        <3>3. ~crossed => job[t].ts - asOf < 2 * Interval
            BY <2>1, <2>3, <2>4, <3>1, <3>2
        <3>4. QED
            BY <2>2, <3>3
    <2>8. QED
        BY <1>0, <1>1, <2>2, <2>6, <2>7, MoveKeeps DEF Step, ReadRegime, world, Places, Asked
<1>2. CASE Step(t, "recall", "decide") /\ Has(t, NoRegime, now, now)
    <2>1. PICK j : /\ job' = [job EXCEPT ![t] = j] /\ IsJob(j)
                   /\ j.regime = NoRegime /\ j.asOf = now /\ j.stored = now
                   /\ j.ts = job[t].ts /\ j.sigs = job[t].sigs
        BY <1>2, HasIt
    <2>2. job[t].ts \in Nat /\ job[t].ts <= now /\ job[t].sigs \in Seq(Votable)
        BY <1>2, InHand DEF Step, Fits, Asked
    <2>3. Fits("decide", j, now)
        BY <1>0, <2>1, <2>2, RegimeAssumption DEF Fits, NoRegime, Biases
    <2>4. j.ts - j.asOf < 2 * Interval
        BY <1>0, <2>1, <2>2, RegimeAssumption
    <2>5. QED
        BY <1>0, <1>2, <2>1, <2>3, <2>4, MoveKeeps DEF Step, ReadRegime, world, Places, Asked
<1>3. CASE Step(t, "recall", "lookup") /\ job' = [job EXCEPT ![t].shown = market]
    <2>1. PICK j : j = [job[t] EXCEPT !.shown = market]
        OBVIOUS
    <2>2. job' = [job EXCEPT ![t] = j]
        BY <1>3, <2>1, InHand
    <2>3. IsJob(j) /\ j.ts = job[t].ts /\ j.regime = job[t].regime /\ j.sigs = job[t].sigs
        <3>1. IsJob(job[t])
            BY InHand
        <3>2. QED
            BY <2>1, <3>1 DEF IsJob
    <2>4. Fits("lookup", j, now)
        BY <1>3, <2>3, InHand DEF Step, Fits, Asked
    <2>5. QED
        BY <1>0, <1>3, <2>2, <2>4, MoveKeeps DEF Step, ReadRegime, world, Places, Asked
<1>4. QED
    BY <1>1, <1>2, <1>3 DEF ReadRegime
----
\* The cache has the answer or not.
LEMMA LookupKeeps == ASSUME IInv, NEW t \in Threads, Lookup(t) PROVE IInv'
<1>0. \A c \in DOMAIN cache' : cache'[c].bias \in Biases
    BY DEF Lookup, IInv, KnownOK
<1>1. pc[t] = "lookup" => /\ job[t].ts \in Nat /\ job[t].ts <= now
                          /\ job[t].sigs \in Seq(Votable)
    BY InHand DEF Fits, Asked
<1>2. CASE /\ Step(t, "lookup", "store") /\ Key(t) \in DOMAIN cache
           /\ Has(t, cache[Key(t)], Bucket(job[t].ts) * Interval, -1)
    <2>1. PICK d, asOf : d = cache[Key(t)] /\ asOf = Bucket(job[t].ts) * Interval
        OBVIOUS
    <2>2. asOf \in Int /\ job[t].ts - asOf < Interval
        BY <1>1, <1>2, <2>1, BucketIsRecent DEF Step
    <2>3. d.bias \in Biases
        BY <1>2, <2>1 DEF IInv, KnownOK
    <2>4. PICK j : /\ job' = [job EXCEPT ![t] = j] /\ IsJob(j)
                   /\ j.regime = d /\ j.asOf = asOf
                   /\ j.ts = job[t].ts /\ j.sigs = job[t].sigs
        BY <1>2, <2>1, HasIt
    <2>5. Fits("store", j, now)
        BY <1>1, <1>2, <2>2, <2>3, <2>4 DEF Step, Fits
    <2>6. QED
        BY <1>0, <1>2, <2>4, <2>5, MoveKeeps DEF Step, Lookup, world, Places, Asked
<1>3. CASE Step(t, "lookup", "call") /\ UNCHANGED job
    <2>1. PICK j : j = job[t]
        OBVIOUS
    <2>2. Fits("call", j, now)
        BY <1>3, <2>1, InHand DEF Step, Fits, Asked
    <2>3. job' = [job EXCEPT ![t] = j]
        BY <1>3, <2>1, InHand
    <2>4. QED
        BY <1>0, <1>3, <2>2, <2>3, MoveKeeps DEF Step, Lookup, world, Places, Asked
<1>4. QED
    BY <1>2, <1>3 DEF Lookup

\* An answer as of the time it was asked for.
LEMMA AnswerFits ==
    ASSUME IInv, NEW t \in Threads, NEW d, d.bias \in Biases, Has(t, d, job[t].ts, -1),
           pc[t] \in {"call", "degrade"}
    PROVE  \E j : job' = [job EXCEPT ![t] = j] /\ Fits("put", j, now) /\ Fits("store", j, now)
<1>1. PICK j : /\ job' = [job EXCEPT ![t] = j] /\ IsJob(j)
               /\ j.regime = d /\ j.asOf = job[t].ts
               /\ j.ts = job[t].ts /\ j.sigs = job[t].sigs
    BY HasIt
<1>2. job[t].ts \in Nat /\ job[t].ts <= now /\ job[t].sigs \in Seq(Votable)
    BY InHand DEF Fits, Asked
<1>3. j.ts - j.asOf < Interval /\ j.asOf \in Int
    BY <1>1, <1>2, RegimeAssumption
<1>4. Fits("put", j, now)
    BY <1>1, <1>2, <1>3 DEF Fits
<1>5. Fits("store", j, now)
    BY <1>1, <1>2, <1>3 DEF Fits
<1>6. QED
    BY <1>1, <1>4, <1>5

\* The model answers or not.
LEMMA CallKeeps == ASSUME IInv, NEW t \in Threads, Call(t) PROVE IInv'
<1>0. \A c \in DOMAIN cache' : cache'[c].bias \in Biases
    BY DEF Call, IInv, KnownOK
<1>1. CASE Step(t, "call", "put") /\ \E d \in Answers : Has(t, d, job[t].ts, -1)
    <2>1. PICK d \in Answers : Has(t, d, job[t].ts, -1)
        BY <1>1
    <2>2. PICK j : job' = [job EXCEPT ![t] = j] /\ Fits("put", j, now)
        BY <1>1, <2>1, AnswerFits, RegimeAssumption DEF Step
    <2>3. QED
        BY <1>0, <1>1, <2>2, MoveKeeps DEF Step, Call, world, Places, Asked
<1>2. CASE Step(t, "call", "degrade") /\ UNCHANGED job
    <2>1. PICK j : j = job[t]
        OBVIOUS
    <2>2. Fits("degrade", j, now)
        BY <1>2, <2>1, InHand DEF Step, Fits, Asked
    <2>3. job' = [job EXCEPT ![t] = j]
        BY <1>2, <2>1, InHand
    <2>4. QED
        BY <1>0, <1>2, <2>2, <2>3, MoveKeeps DEF Step, Call, world, Places, Asked
<1>3. QED
    BY <1>1, <1>2 DEF Call

\* What is cached leans one of the ways.
LEMMA CachedLeans ==
    ASSUME IInv, NEW t \in Threads, NEW d, d.bias \in Biases, Cached(t, d) \/ UNCHANGED cache
    PROVE  \A k \in DOMAIN cache' : cache'[k].bias \in Biases
BY DEF Cached, IInv, KnownOK

\* The model's answer goes to the cache, or is lost with it.
LEMMA PutKeeps == ASSUME IInv, NEW t \in Threads, Put(t) PROVE IInv'
<1>1. PICK d, j : d = job[t].regime /\ j = job[t]
    OBVIOUS
<1>2. pc[t] = "put" /\ (Cached(t, d) \/ UNCHANGED cache)
    BY <1>1 DEF Put, Step
<1>3. Fits("put", j, now) /\ d.bias \in Biases
    BY <1>1, <1>2, InHand DEF Fits
<1>4. \A k \in DOMAIN cache' : cache'[k].bias \in Biases
    BY <1>2, <1>3, CachedLeans
<1>5. job' = [job EXCEPT ![t] = j]
    BY <1>1, InHand DEF Put
<1>6. Fits("store", j, now) /\ Fits("degrade", j, now)
    BY <1>3 DEF Fits, Asked
<1>7. PICK to \in {"store", "degrade"} : pc' = [pc EXCEPT ![t] = to]
    BY DEF Put, Step
<1>8. QED
    BY <1>2, <1>4, <1>5, <1>6, <1>7, MoveKeeps DEF Put, Places, Asked

\* The rule of thumb.
LEMMA DegradeKeeps == ASSUME IInv, NEW t \in Threads, Degrade(t) PROVE IInv'
<1>1. PICK d : d = Fallback(job[t].shown)
    OBVIOUS
<1>2. d.bias \in Biases
    BY <1>1, FallbackLeans
<1>3. pc[t] = "degrade" /\ pc' = [pc EXCEPT ![t] = "store"]
    BY DEF Degrade, Step
<1>4. \A k \in DOMAIN cache' : cache'[k].bias \in Biases
    BY <1>1, <1>2, CachedLeans DEF Degrade
<1>5. PICK j : job' = [job EXCEPT ![t] = j] /\ Fits("store", j, now)
    BY <1>1, <1>2, <1>3, AnswerFits DEF Degrade
<1>6. QED
    BY <1>3, <1>4, <1>5, MoveKeeps DEF Degrade, Places, Asked
----
\* The decision is stored: it is of now, and the threads have crossed or this one is alone.
LEMMA StoreKeeps ==
    ASSUME IInv, NEW t \in Threads, Step(t, "store", "mark"), StoreRegime(t), UNCHANGED lastAt,
           UNCHANGED <<world, held, prevOi, cache>>
    PROVE  IInv'
<1>1. PICK d, asOf : d = job[t].regime /\ asOf = job[t].asOf
    OBVIOUS
<1>2. /\ job[t].ts \in Nat /\ job[t].ts <= now /\ job[t].sigs \in Seq(Votable)
      /\ asOf \in Int /\ job[t].ts - asOf < Interval /\ d.bias \in Biases
    BY <1>1, InHand DEF Step, Fits, Asked
<1>3. lastRegime' = [decision |-> d, asOf |-> asOf, stored |-> now]
    BY <1>1 DEF StoreRegime
<1>4. PICK j : /\ job' = [job EXCEPT ![t] = j] /\ IsJob(j)
               /\ j.regime = d /\ j.asOf = asOf /\ j.stored = now
               /\ j.ts = job[t].ts /\ j.sigs = job[t].sigs
    BY <1>1, HasIt DEF StoreRegime
<1>5. now \in Nat /\ now' = now /\ market' = market /\ cache' = cache /\ lastAt' = lastAt
    BY DEF world, IInv, KnownOK
<1>6. Fits("mark", j, now)
    <2>1. job[t].ts - now < Interval
        <3>1. Interval \in Nat \ {0}
            BY RegimeAssumption
        <3>2. QED
            BY <1>2, <1>5, <3>1
    <2>2. QED
        BY <1>2, <1>4, <1>5, <2>1 DEF Fits
<1>7. /\ ThreadsOK'
      /\ pc'[t] = "mark" /\ job'[t] = j
      /\ \A u \in Threads \ {t} : pc'[u] = pc[u] /\ job'[u] = job[u]
    BY <1>4, <1>5, <1>6, MoveKeepsThreads DEF Step, IInv, Places, Asked
<1>8. KnownOK'
    BY <1>2, <1>3, <1>5 DEF IInv, KnownOK
<1>9. MemoryOK'
    <2>1. lastRegime'.stored = now /\ lastRegime'.asOf = asOf
        BY <1>3
    <2>2. lastAt <= now
        BY <1>5 DEF IInv, MemoryOK
    <2>3. ASSUME NEW u \in Threads \ {t}
          PROVE  /\ pc[u] = "recall" => job[u].last <= now
                 /\ pc[u] = "mark" => job[u].ts <= now
        <3>1. pc[u] = "recall" => job[u].last \in Int
            BY InHand DEF Fits
        <3>2. pc[u] = "mark" => job[u].ts \in Nat /\ job[u].ts <= now
            BY InHand DEF Fits, Asked
        <3>3. QED
            BY <1>5, <3>1, <3>2 DEF IInv, MemoryOK
    <2>4. QED
        BY <1>2, <1>4, <1>5, <1>7, <2>1, <2>2, <2>3 DEF IInv, MemoryOK
<1>10. PairOK'
    <2> SUFFICES ASSUME ~crossed' PROVE PairOK'
        BY DEF PairOK
    <2>1. ~OtherAt(t, {"recall", "mark"}) /\ (crossed => OtherAt(t, {"idle", "dead"}))
        BY DEF StoreRegime
    <2>2. \A u \in Threads \ {t} : pc'[u] # "recall" /\ pc'[u] # "mark"
        BY <1>7, <2>1 DEF OtherAt
    <2>3. ASSUME NEW u \in Threads \ {t}, pc'[u] = "decide"
          PROVE  job'[u].ts - job'[u].asOf < 2 * Interval
        <3>1. \A w \in Threads \ {t} : w = u
            BY DEF Threads
        <3>2. ~crossed
            BY <1>7, <2>1, <2>3, <3>1 DEF OtherAt
        <3>3. QED
            BY <1>7, <2>3, <3>2 DEF IInv, PairOK
    <2>4. job'[t].ts - lastRegime'.asOf < Interval
        BY <1>2, <1>3, <1>4, <1>7
    <2>5. QED
        BY <1>7, <2>2, <2>3, <2>4 DEF PairOK, OtherAt
<1>11. QED
    BY <1>7, <1>8, <1>9, <1>10 DEF IInv

\* The stamp is written: it is of the question, and not ahead of what was stored since.
LEMMA MarkKeeps ==
    ASSUME IInv, NEW t \in Threads, Step(t, "mark", "decide"), lastAt' = job[t].ts,
           UNCHANGED <<lastRegime, crossed, job>>, UNCHANGED <<world, held, prevOi, cache>>
    PROVE  IInv'
<1>1. PICK j : j = job[t]
    OBVIOUS
<1>2. Fits("mark", j, now) /\ pc[t] = "mark" /\ pc' = [pc EXCEPT ![t] = "decide"]
    BY <1>1, InHand DEF Step
<1>3. Fits("decide", j, now) /\ j.ts \in Nat
    BY <1>2 DEF Fits, Asked
<1>4. job' = [job EXCEPT ![t] = j] /\ now' = now /\ market' = market /\ cache' = cache
    BY <1>1, InHand DEF world
<1>5. /\ ThreadsOK'
      /\ pc'[t] = "decide" /\ job'[t] = j
      /\ \A u \in Threads \ {t} : pc'[u] = pc[u] /\ job'[u] = job[u]
    BY <1>2, <1>3, <1>4, MoveKeepsThreads DEF IInv, Places, Asked
<1>6. KnownOK'
    BY <1>4 DEF IInv, KnownOK
<1>7. MemoryOK'
    BY <1>1, <1>2, <1>3, <1>4, <1>5 DEF IInv, MemoryOK
<1>8. PairOK'
    <2> SUFFICES ASSUME ~crossed' PROVE PairOK'
        BY DEF PairOK
    <2>1. /\ job[t].ts - lastRegime.asOf < Interval
          /\ ~OtherAt(t, {"recall", "mark"})
        BY <1>2 DEF IInv, PairOK
    <2>2. \A u \in Threads \ {t} : pc[u] # "recall" /\ pc[u] # "mark"
        BY <2>1 DEF OtherAt
    <2>3. j.ts - j.asOf < 2 * Interval
        BY <1>2, <1>3, RegimeAssumption DEF Fits
    <2>4. \A u \in Threads : pc'[u] # "recall" /\ pc'[u] # "mark"
        BY <1>5, <2>2
    <2>5. \A u \in Threads : pc'[u] = "decide" => job'[u].ts - job'[u].asOf < 2 * Interval
        BY <1>5, <2>3 DEF IInv, PairOK
    <2>6. QED
        BY <2>1, <2>4, <2>5 DEF PairOK
<1>9. QED
    BY <1>5, <1>6, <1>7, <1>8 DEF IInv

LEMMA SettleKeeps == ASSUME IInv, NEW t \in Threads, Settle(t) PROVE IInv'
BY StoreKeeps, MarkKeeps DEF Settle
----
\* A thread has decided, or its read has failed.
LEMMA DropKeeps ==
    ASSUME IInv, NEW t \in Threads, NEW to \in {"idle", "dead"}, pc[t] # "mark",
           pc' = [pc EXCEPT ![t] = to], job' = [job EXCEPT ![t] = NoJob],
           UNCHANGED <<now, market, recall, cache>>
    PROVE  IInv'
<1>1. \A c \in DOMAIN cache' : cache'[c].bias \in Biases
    BY DEF IInv, KnownOK
<1>2. QED
    BY <1>1, NoJobFits, MoveKeeps DEF Places

LEMMA DecideEntryKeeps == IInv /\ DecideEntry => IInv'
BY DropKeeps DEF DecideEntry, Step, world, Threads

LEMMA DecideExitKeeps == ASSUME IInv, NEW t \in Threads, DecideExit(t) PROVE IInv'
BY DropKeeps DEF DecideExit, Step, world

LEMMA RaiseKeeps == ASSUME IInv, NEW t \in Threads, Raise(t) PROVE IInv'
<1>1. pc[t] # "mark"
    BY DEF Raise, Reads
<1>2. PICK to \in {"idle", "dead"} : pc' = [pc EXCEPT ![t] = to]
    BY DEF Raise
<1>3. QED
    BY <1>1, <1>2, DropKeeps DEF Raise

\* The clock, the market and the death of the process.
LEMMA EnvironmentKeeps == IInv /\ (Clock \/ MarketMoves \/ Restart) => IInv'
<1> SUFFICES ASSUME IInv, Clock \/ MarketMoves \/ Restart PROVE IInv'
    OBVIOUS
<1>1. CASE Clock
    <2>1. now \in Nat /\ now' = now + 1
        BY <1>1 DEF Clock, IInv, KnownOK
    <2>2. ThreadsOK'
        BY <1>1, <2>1 DEF Clock, IInv, ThreadsOK, Fits
    <2>3. MemoryOK'
        BY <1>1, <2>1 DEF Clock, recall, IInv, MemoryOK
    <2>4. PairOK'
        BY <1>1 DEF Clock, recall, IInv, PairOK, OtherAt
    <2>5. QED
        BY <1>1, <2>1, <2>2, <2>3, <2>4 DEF Clock, recall, IInv, KnownOK
<1>2. CASE MarketMoves
    BY <1>2 DEF MarketMoves, recall, IInv, ThreadsOK, KnownOK, MemoryOK, PairOK, OtherAt
<1>3. CASE Restart
    <2>1. ThreadsOK'
        BY <1>3, NoJobFits DEF Restart, ThreadsOK, Places
    <2>2. KnownOK'
        BY <1>3 DEF Restart, IInv, KnownOK, Unasked, NoRegime, Biases
    <2>3. MemoryOK'
        BY <1>3, RegimeAssumption DEF Restart, IInv, KnownOK, MemoryOK, Unasked, Never
    <2>4. PairOK'
        BY <1>3, RegimeAssumption DEF Restart, PairOK, Unasked, Never
    <2>5. QED
        BY <2>1, <2>2, <2>3, <2>4 DEF IInv
<1>4. QED
    BY <1>1, <1>2, <1>3

\* The invariant is inductive.
LEMMA StepKeepsIInv == IInv /\ [Next]_vars => IInv'
<1> SUFFICES ASSUME IInv, [Next]_vars PROVE IInv'
    OBVIOUS
<1>1. CASE \E t \in Threads : Thread(t) \/ Raise(t)
    BY <1>1, BeginExitKeeps, DecideExitKeeps, ReadStampKeeps, ReadRegimeKeeps, LookupKeeps,
       CallKeeps, PutKeeps, DegradeKeeps, SettleKeeps, RaiseKeeps
    DEF Thread, Regime
<1>2. CASE UNCHANGED vars
    BY <1>2 DEF vars, world, recall, IInv, ThreadsOK, KnownOK, MemoryOK, PairOK, OtherAt
<1>3. QED
    BY <1>1, <1>2, BeginEntryKeeps, DecideEntryKeeps, EnvironmentKeeps DEF Next

THEOREM RegimeInvariant == Spec => []IInv
<1>1. QED
    BY InitIInv, StepKeepsIInv, PTL DEF Spec

(***************************************************************************)
(* Unless the threads have crossed, no decision rests on a regime two      *)
(* intervals old when it was asked for: the ages in the cache and in       *)
(* memory add up to less, and a slow call to the model does not make its   *)
(* answer look younger (engine.py _regime_for, cache.py).                  *)
(***************************************************************************)
THEOREM RegimesAreRecent == Spec => []RegimeIsRecent
<1>1. IInv => RegimeIsRecent
    BY DEF IInv, PairOK, RegimeIsRecent
<1>2. QED
    BY <1>1, RegimeInvariant, PTL

(***************************************************************************)
(* However the two threads come between each other's reads and writes of   *)
(* the memory, the regime a decision rests on was stored less than an      *)
(* interval before it was asked for (engine.py:441-454).                   *)
(***************************************************************************)
THEOREM AnswersAreFresh == Spec => []AnswerIsFresh
<1>1. IInv => AnswerIsFresh
    BY DEF IInv, ThreadsOK, Fits, AnswerIsFresh
<1>2. QED
    BY <1>1, RegimeInvariant, PTL
----
\* Turning every trigger around exchanges the two sides' votes.
LEMMA VotesTurn ==
    ASSUME NEW sigs \in Seq(Votable), NEW side \in Sides
    PROVE  Votes([n \in 1..Len(sigs) |-> Flipped(sigs[n])], side) = Votes(sigs, Flipped(side))
<1> DEFINE turned == [n \in 1..Len(sigs) |-> Flipped(sigs[n])]
<1>1. Len(sigs) \in Nat
    BY LenProperties
<1>2. turned \in Seq(Votable) /\ Len(turned) = Len(sigs)
    <2>1. \A n \in 1..Len(sigs) : Flipped(sigs[n]) \in Votable
        BY ElementOfSeq DEF Flipped, Votable, Sides, None
    <2>2. QED
        BY <1>1, <2>1
<1>3. \A n \in 1..Len(sigs) : turned[n] = side <=> sigs[n] = Flipped(side)
    BY ElementOfSeq DEF Flipped, Votable, Sides, None
<1>4. {n \in 1..Len(turned) : turned[n] = side} = {n \in 1..Len(sigs) : sigs[n] = Flipped(side)}
    BY <1>2, <1>3
<1>5. QED
    BY <1>4 DEF Votes

(***************************************************************************)
(* The entry rule prefers no side: triggers and regime turned around give  *)
(* the opposite decision, but for a tie under a neutral regime, which goes *)
(* to calls (triggers.py combine_signals).                                 *)
(***************************************************************************)
THEOREM EntriesAreEvenHanded == Spec => []EntryIsEvenHanded
<1>1. IInv => EntryIsEvenHanded
    <2> SUFFICES ASSUME IInv, pc["feed"] = "decide", ~Tied(job["feed"])
                 PROVE  Combine([n \in 1..Len(job["feed"].sigs) |-> Flipped(job["feed"].sigs[n])],
                                FlippedBias(job["feed"].regime.bias)) = Flipped(Enters(job["feed"]))
        BY DEF EntryIsEvenHanded
    <2>1. PICK sigs, bias : sigs = job["feed"].sigs /\ bias = job["feed"].regime.bias
        OBVIOUS
    <2>2. sigs \in Seq(Votable) /\ bias \in Biases
        BY <2>1, InHand DEF Fits, Threads
    <2>3. PICK turned : turned = [n \in 1..Len(sigs) |-> Flipped(sigs[n])]
        OBVIOUS
    <2>4. Votes(turned, "CE") = Votes(sigs, "PE") /\ Votes(turned, "PE") = Votes(sigs, "CE")
        <3>1. "CE" \in Sides /\ "PE" \in Sides /\ Flipped("CE") = "PE" /\ Flipped("PE") = "CE"
            BY DEF Sides, Flipped, None
        <3>2. \A side \in Sides : Votes(turned, side) = Votes(sigs, Flipped(side))
            BY <2>2, <2>3, VotesTurn
        <3>3. QED
            BY <3>1, <3>2
    <2>5. ~(Votes(sigs, "CE") >= MinAgreement /\ Votes(sigs, "PE") >= MinAgreement /\ bias = "neutral")
        BY <2>1 DEF Tied, Sides
    <2>6. Combine(turned, FlippedBias(bias)) = Flipped(Combine(sigs, bias))
        <3>1. CASE bias = "long"
            BY <2>4, <3>1 DEF Combine, Opposes, Flipped, FlippedBias, None
        <3>2. CASE bias = "short"
            BY <2>4, <3>2 DEF Combine, Opposes, Flipped, FlippedBias, None
        <3>3. CASE bias = "neutral"
            BY <2>4, <2>5, <3>3 DEF Combine, Opposes, Flipped, FlippedBias, None
        <3>4. QED
            BY <2>2, <3>1, <3>2, <3>3 DEF Biases
    <2>7. QED
        BY <2>1, <2>3, <2>6 DEF Enters
<1>2. QED
    BY <1>1, RegimeInvariant, PTL
====
