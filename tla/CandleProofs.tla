---- MODULE CandleProofs ----
(***************************************************************************)
(* Theorems about CandleEngine, for every width of a bucket, every set of  *)
(* prices, every delay of a tick and every number of deaths and failures.  *)
(***************************************************************************)
EXTENDS CandleEngine, SequenceTheorems, WellFoundedInduction, TLAPS

(***************************************************************************)
(* The arithmetic of buckets.                                              *)
(***************************************************************************)

LEMMA Divide ==
    ASSUME NEW k \in Nat \ {0}, NEW n \in Nat
    PROVE  n \div k \in Nat /\ n % k \in 0..(k - 1) /\ n = (n \div k) * k + (n % k)
OBVIOUS

LEMMA Multiple ==
    ASSUME NEW k \in Nat \ {0}, NEW a \in Nat
    PROVE  (a * k) % k = 0
OBVIOUS

LEMMA Apart ==
    ASSUME NEW k \in Nat \ {0}, NEW a \in Nat, NEW b \in Nat, a * k < b * k
    PROVE  a * k + k <= b * k
<1>1. a + 1 <= b
    OBVIOUS
<1>2. (a + 1) * k <= b * k
    BY <1>1
<1>3. (a + 1) * k = a * k + k
    OBVIOUS
<1>4. QED
    BY <1>2, <1>3

\* A tick falls into a bucket that has begun; of two buckets one ends before the other begins.
LEMMA BucketForIs ==
    ASSUME NEW ts \in 0..MaxNow
    PROVE  /\ BucketFor(ts) \in Starts /\ BucketFor(ts) <= ts
           /\ \A s \in Starts : s < BucketFor(ts) => s + Step <= BucketFor(ts)
<1> DEFINE b == ts \div Step
<1>1. Step \in Nat \ {0} /\ ts \in Nat /\ MaxNow \in Nat
    BY CandleAssumption
<1>2. b \in Nat /\ ts % Step \in 0..(Step - 1) /\ ts = b * Step + (ts % Step)
    BY <1>1, Divide
<1>3. b * Step \in Nat /\ b * Step <= ts /\ (b * Step) % Step = 0
    <2>1. b * Step \in Nat
        BY <1>1, <1>2
    <2>2. (b * Step) % Step = 0
        BY <1>1, <1>2, Multiple
    <2>3. QED
        BY <1>1, <1>2, <2>1, <2>2
<1>4. BucketFor(ts) = b * Step
    BY DEF BucketFor
<1> HIDE DEF b
<1>5. BucketFor(ts) \in Starts
    BY <1>1, <1>3, <1>4 DEF Starts
<1>6. ASSUME NEW s \in Starts, s < b * Step
      PROVE  s + Step <= b * Step
    <2>1. s \in Nat /\ s % Step = 0
        BY <1>1 DEF Starts
    <2>2. s \div Step \in Nat /\ s = (s \div Step) * Step + (s % Step)
        BY <1>1, <2>1, Divide
    <2>3. s = (s \div Step) * Step
        <3>1. (s \div Step) * Step \in Nat
            BY <1>1, <2>2
        <3>2. QED
            BY <2>1, <2>2, <3>1
    <2> DEFINE a == s \div Step
    <2>4. a \in Nat /\ s = a * Step
        BY <2>2, <2>3
    <2> HIDE DEF a
    <2>5. QED
        BY <1>1, <1>2, <1>6, <2>4, Apart
<1>7. QED
    BY <1>3, <1>4, <1>5, <1>6

(***************************************************************************)
(* The candle of a sequence of prices.                                     *)
(***************************************************************************)

\* Every non-empty set of numbers has a least one: induction for the lemma below.
LEMMA Least ==
    ASSUME NEW T \in SUBSET Nat, T # {}
    PROVE  \E n \in T : \A m \in T : n <= m
<1>1. PICK n \in T : \A m \in T : <<m, n>> \notin OpToRel(<, Nat)
    BY NatLessThanWellFounded, WFMin, Zenon
<1>2. \A m \in T : ~(m < n)
    BY <1>1, Zenon DEF OpToRel
<1>3. QED
    BY <1>2

\* A sequence of numbers has a greatest and a least element.
LEMMA ExtremesExist ==
    ASSUME NEW p \in Seq(Nat), Len(p) # 0
    PROVE  /\ \E n \in 1..Len(p) : \A m \in 1..Len(p) : p[n] >= p[m]
           /\ \E n \in 1..Len(p) : \A m \in 1..Len(p) : p[n] <= p[m]
<1> DEFINE High(k) == \E n \in 1..k : \A m \in 1..k : p[n] >= p[m]
           Low(k) == \E n \in 1..k : \A m \in 1..k : p[n] <= p[m]
           Bad == {k \in 1..Len(p) : ~(High(k) /\ Low(k))}
<1>1. Len(p) \in Nat /\ \A n \in 1..Len(p) : p[n] \in Nat
    BY LenProperties, ElementOfSeq
<1>2. /\ \A k : k \in Bad <=> k \in 1..Len(p) /\ ~(High(k) /\ Low(k))
      /\ Bad \in SUBSET Nat
    BY <1>1
<1> HIDE DEF Bad
<1>3. Bad = {}
    <2> SUFFICES ASSUME Bad # {} PROVE FALSE
        OBVIOUS
    <2>1. PICK k \in Bad : \A j \in Bad : k <= j
        BY <1>2, Least
    <2>2. k \in 1..Len(p) /\ k \in Nat
        BY <1>1, <1>2
    <2>3. ~(High(k) /\ Low(k))
        BY <1>2
    <2>4. \A m \in 1..k : m \in 1..Len(p) /\ p[m] \in Nat
        BY <1>1, <2>2
    <2>5. CASE k = 1
        <3>1. \A m \in 1..1 : m = 1
            OBVIOUS
        <3>2. High(1) /\ Low(1)
            BY <2>4, <2>5, <3>1
        <3>3. QED
            BY <2>3, <2>5, <3>2
    <2>6. CASE k # 1
        <3>1. k - 1 \in 1..Len(p) /\ ~(k <= k - 1)
            BY <1>1, <2>2, <2>6
        <3>2. k - 1 \notin Bad
            BY <2>1, <3>1
        <3>3. High(k - 1) /\ Low(k - 1)
            BY <1>2, <3>1, <3>2
        <3>4. PICK h \in 1..(k - 1) : \A m \in 1..(k - 1) : p[h] >= p[m]
            BY <3>3
        <3>5. PICK l \in 1..(k - 1) : \A m \in 1..(k - 1) : p[l] <= p[m]
            BY <3>3
        <3>6. \A m \in 1..k : m \in 1..(k - 1) \/ m = k
            BY <2>2
        <3>7. h \in 1..k /\ l \in 1..k /\ k \in 1..k
            BY <2>2, <3>1
        <3>8. p[h] \in Nat /\ p[l] \in Nat /\ p[k] \in Nat
            BY <2>4, <3>7
        <3>9. High(k)
            <4>1. CASE p[h] >= p[k]
                <5>1. \A m \in 1..k : p[h] >= p[m]
                    BY <3>4, <3>6, <4>1
                <5>2. QED
                    BY <3>7, <5>1
            <4>2. CASE ~(p[h] >= p[k])
                <5>1. \A m \in 1..(k - 1) : p[m] \in Nat
                    BY <2>4, <3>6, <2>2
                <5>2. ASSUME NEW m \in 1..(k - 1) PROVE p[k] >= p[m]
                    <6>1. p[m] \in Nat /\ p[h] >= p[m]
                        BY <3>4, <5>1
                    <6>2. \A x, y, z \in Nat : x >= z /\ ~(x >= y) => y >= z
                        OBVIOUS
                    <6>3. QED
                        BY <3>8, <4>2, <6>1, <6>2
                <5>3. \A m \in 1..k : p[k] >= p[m]
                    BY <3>6, <3>8, <5>2
                <5>4. QED
                    BY <3>7, <5>3
            <4>3. QED
                BY <4>1, <4>2
        <3>10. Low(k)
            <4>1. CASE p[l] <= p[k]
                <5>1. \A m \in 1..k : p[l] <= p[m]
                    BY <3>5, <3>6, <4>1
                <5>2. QED
                    BY <3>7, <5>1
            <4>2. CASE ~(p[l] <= p[k])
                <5>1. \A m \in 1..(k - 1) : p[m] \in Nat
                    BY <2>4, <3>6, <2>2
                <5>2. ASSUME NEW m \in 1..(k - 1) PROVE p[k] <= p[m]
                    <6>1. p[m] \in Nat /\ p[l] <= p[m]
                        BY <3>5, <5>1
                    <6>2. \A x, y, z \in Nat : x <= z /\ ~(x <= y) => y <= z
                        OBVIOUS
                    <6>3. QED
                        BY <3>8, <4>2, <6>1, <6>2
                <5>3. \A m \in 1..k : p[k] <= p[m]
                    BY <3>6, <3>8, <5>2
                <5>4. QED
                    BY <3>7, <5>3
            <4>3. QED
                BY <4>1, <4>2
        <3>11. QED
            BY <2>3, <3>9, <3>10
    <2>7. QED
        BY <2>5, <2>6
<1>4. Len(p) \in 1..Len(p)
    BY <1>1
<1>5. High(Len(p)) /\ Low(Len(p))
    BY <1>2, <1>3, <1>4
<1>6. QED
    BY <1>5

LEMMA MaxIs ==
    ASSUME NEW S, S \subseteq Nat, NEW x \in S, \A y \in S : x >= y
    PROVE  Max(S) = x
<1>1. \E z \in S : \A y \in S : z >= y
    OBVIOUS
<1>2. Max(S) \in S /\ \A y \in S : Max(S) >= y
    BY <1>1 DEF Max
<1>3. Max(S) \in Nat /\ x \in Nat /\ Max(S) >= x /\ x >= Max(S)
    BY <1>2
<1>4. QED
    BY <1>3

LEMMA MinIs ==
    ASSUME NEW S, S \subseteq Nat, NEW x \in S, \A y \in S : x <= y
    PROVE  Min(S) = x
<1>1. \E z \in S : \A y \in S : z <= y
    OBVIOUS
<1>2. Min(S) \in S /\ \A y \in S : Min(S) <= y
    BY <1>1 DEF Min
<1>3. Min(S) \in Nat /\ x \in Nat /\ Min(S) <= x /\ x <= Min(S)
    BY <1>2
<1>4. QED
    BY <1>3

LEMMA OfTwo ==
    ASSUME NEW a \in Nat, NEW b \in Nat
    PROVE  /\ Max({a, b}) = (IF a >= b THEN a ELSE b)
           /\ Min({a, b}) = (IF a <= b THEN a ELSE b)
<1>1. {a, b} \subseteq Nat /\ a \in {a, b} /\ b \in {a, b}
    OBVIOUS
<1>2. a >= b => \A y \in {a, b} : a >= y
    OBVIOUS
<1>3. ~(a >= b) => \A y \in {a, b} : b >= y
    OBVIOUS
<1>4. a <= b => \A y \in {a, b} : a <= y
    OBVIOUS
<1>5. ~(a <= b) => \A y \in {a, b} : b <= y
    OBVIOUS
<1>6. (a >= b => Max({a, b}) = a) /\ (~(a >= b) => Max({a, b}) = b)
    BY <1>1, <1>2, <1>3, MaxIs
<1>7. (a <= b => Min({a, b}) = a) /\ (~(a <= b) => Min({a, b}) = b)
    BY <1>1, <1>4, <1>5, MinIs
<1>8. QED
    BY <1>6, <1>7

Seen(p) == {p[n] : n \in 1..Len(p)}

LEMMA Extremes ==
    ASSUME NEW p \in Seq(Nat), Len(p) # 0
    PROVE  /\ Seen(p) \subseteq Nat
           /\ Max(Seen(p)) \in Seen(p) /\ \A y \in Seen(p) : Max(Seen(p)) >= y
           /\ Min(Seen(p)) \in Seen(p) /\ \A y \in Seen(p) : Min(Seen(p)) <= y
<1>1. Seen(p) \subseteq Nat
    BY ElementOfSeq DEF Seen
<1>2. PICK n \in 1..Len(p) : \A m \in 1..Len(p) : p[n] >= p[m]
    BY ExtremesExist
<1>3. PICK k \in 1..Len(p) : \A m \in 1..Len(p) : p[k] <= p[m]
    BY ExtremesExist
<1>4. p[n] \in Seen(p) /\ \A y \in Seen(p) : p[n] >= y
    BY <1>2 DEF Seen
<1>5. p[k] \in Seen(p) /\ \A y \in Seen(p) : p[k] <= y
    BY <1>3 DEF Seen
<1>6. Max(Seen(p)) = p[n] /\ Min(Seen(p)) = p[k]
    BY <1>1, <1>4, <1>5, MaxIs, MinIs
<1>7. QED
    BY <1>1, <1>4, <1>5, <1>6

\* The first price begins the candle, each further one updates it.
LEMMA OhlcFirst ==
    ASSUME NEW s, NEW x \in Nat
    PROVE  BeginBucket(s, x) = Ohlc(s, Append(<<>>, x))
<1>1. Append(<<>>, x) = <<x>> /\ Len(<<x>>) = 1 /\ <<x>>[1] = x
    OBVIOUS
<1>2. {<<x>>[n] : n \in 1..1} = {x}
    OBVIOUS
<1>3. Max({x}) = x /\ Min({x}) = x
    <2>1. {x} \subseteq Nat /\ x \in {x} /\ (\A y \in {x} : x >= y) /\ (\A y \in {x} : x <= y)
        OBVIOUS
    <2>2. QED
        BY <2>1, MaxIs, MinIs
<1>4. QED
    BY <1>1, <1>2, <1>3 DEF BeginBucket, Ohlc

LEMMA OhlcNext ==
    ASSUME NEW s, NEW p \in Seq(Nat), p # <<>>, NEW x \in Nat
    PROVE  UpdateBucket(Ohlc(s, p), x) = Ohlc(s, Append(p, x))
<1> DEFINE q == Append(p, x)
<1>1. /\ Len(p) \in Nat \ {0} /\ q \in Seq(Nat) /\ Len(q) = Len(p) + 1
      /\ q[Len(p) + 1] = x /\ \A n \in 1..Len(p) : q[n] = p[n]
    BY EmptySeq, LenProperties, AppendProperties
<1> HIDE DEF q
<1>2. /\ Seen(p) \subseteq Nat
      /\ Max(Seen(p)) \in Seen(p) /\ \A y \in Seen(p) : Max(Seen(p)) >= y
      /\ Min(Seen(p)) \in Seen(p) /\ \A y \in Seen(p) : Min(Seen(p)) <= y
    BY <1>1, Extremes
<1>3. Seen(q) = Seen(p) \cup {x}
    <2>1. \A n \in 1..Len(q) : n \in 1..Len(p) \/ n = Len(p) + 1
        BY <1>1
    <2>2. \A n \in 1..Len(p) : n \in 1..Len(q)
        BY <1>1
    <2>3. Len(p) + 1 \in 1..Len(q)
        BY <1>1
    <2>4. QED
        BY <1>1, <2>1, <2>2, <2>3 DEF Seen
<1> DEFINE h == Max(Seen(p))
           l == Min(Seen(p))
<1>4. h \in Nat /\ l \in Nat /\ h \in Seen(p) /\ l \in Seen(p)
      /\ (\A y \in Seen(p) : h >= y) /\ (\A y \in Seen(p) : l <= y)
    BY <1>2
<1>5. Max({h, x}) = (IF h >= x THEN h ELSE x) /\ Min({l, x}) = (IF l <= x THEN l ELSE x)
    BY <1>4, OfTwo
<1> HIDE DEF h, l
<1>6. Max(Seen(q)) = Max({h, x})
    <2>1. Seen(q) \subseteq Nat
        BY <1>2, <1>3
    <2>2. Max({h, x}) \in Seen(q)
        BY <1>3, <1>4, <1>5
    <2>3. Max({h, x}) \in Nat /\ Max({h, x}) >= h /\ Max({h, x}) >= x
        BY <1>4, <1>5
    <2>4. \A y \in Seen(p) : Max({h, x}) >= y
        BY <1>2, <1>4, <2>3
    <2>5. \A y \in Seen(q) : Max({h, x}) >= y
        BY <1>3, <2>3, <2>4
    <2>6. QED
        BY <2>1, <2>2, <2>5, MaxIs
<1>7. Min(Seen(q)) = Min({l, x})
    <2>1. Seen(q) \subseteq Nat
        BY <1>2, <1>3
    <2>2. Min({l, x}) \in Seen(q)
        BY <1>3, <1>4, <1>5
    <2>3. Min({l, x}) \in Nat /\ Min({l, x}) <= l /\ Min({l, x}) <= x
        BY <1>4, <1>5
    <2>4. \A y \in Seen(p) : Min({l, x}) <= y
        BY <1>2, <1>4, <2>3
    <2>5. \A y \in Seen(q) : Min({l, x}) <= y
        BY <1>3, <2>3, <2>4
    <2>6. QED
        BY <2>1, <2>2, <2>5, MinIs
<1>8. Ohlc(s, p) = [openTs |-> s, open |-> p[1], high |-> h, low |-> l, close |-> p[Len(p)], count |-> Len(p)]
    BY DEF Ohlc, h, l, Seen
<1>9. Ohlc(s, q) = [openTs |-> s, open |-> p[1], high |-> Max({h, x}), low |-> Min({l, x}),
                    close |-> x, count |-> Len(p) + 1]
    <2>1. q[1] = p[1] /\ q[Len(q)] = x /\ Len(q) = Len(p) + 1
        BY <1>1
    <2>2. Ohlc(s, q) = [openTs |-> s, open |-> q[1], high |-> Max(Seen(q)), low |-> Min(Seen(q)),
                        close |-> q[Len(q)], count |-> Len(q)]
        BY DEF Ohlc, Seen
    <2>3. QED
        BY <1>6, <1>7, <2>1, <2>2
<1>10. ASSUME NEW c, c = [openTs |-> s, open |-> p[1], high |-> h, low |-> l, close |-> p[Len(p)], count |-> Len(p)]
       PROVE  UpdateBucket(c, x) = [openTs |-> s, open |-> p[1], high |-> Max({h, x}), low |-> Min({l, x}),
                                    close |-> x, count |-> Len(p) + 1]
    <2>1. /\ c.high = h /\ c.low = l /\ c.close = p[Len(p)] /\ c.count = Len(p)
          /\ c.openTs = s /\ c.open = p[1]
        BY <1>10
    <2>2. UpdateBucket(c, x) = [c EXCEPT !.high = Max({h, x}), !.low = Min({l, x}), !.close = x, !.count = Len(p) + 1]
        BY <2>1 DEF UpdateBucket
    <2> DEFINE top == Max({h, x})
               bottom == Min({l, x})
    <2>3. UpdateBucket(c, x) = [c EXCEPT !.high = top, !.low = bottom, !.close = x, !.count = Len(p) + 1]
        BY <2>2
    <2> HIDE DEF top, bottom
    <2>4. UpdateBucket(c, x) = [openTs |-> s, open |-> p[1], high |-> top, low |-> bottom,
                                close |-> x, count |-> Len(p) + 1]
        BY <1>10, <2>3
    <2>5. QED
        BY <2>4 DEF top, bottom
<1>11. UpdateBucket(Ohlc(s, p), x) = Ohlc(s, q)
    BY <1>8, <1>9, <1>10
<1>12. QED
    BY <1>11 DEF q
-----------------------------------------------------------------------------
(***************************************************************************)
(* What the engine holds, and where.                                       *)
(***************************************************************************)

Bucket == [openTs : Starts, open : Nat, high : Nat, low : Nat, close : Nat, count : Nat]

Slot == Bucket \cup {None}

Emitting == {"insert", "last", "clear", "publish"}

TypesInv ==
    /\ now \in 0..MaxNow /\ up \in BOOLEAN
    /\ agg \in Slot /\ inProgress \in Slot /\ job \in [candle : Slot, tick : BOOLEAN]
    /\ pc \in Emitting \cup {"free", "persist"}
    /\ pg \in [Starts -> Slot] /\ published \in Seq(Bucket)
    /\ absorbed \in [Starts -> Seq(Nat)] /\ spoiled \subseteq Starts
    /\ pc \in Emitting => job.candle \in Bucket /\ (job.tick <=> agg # None)
    /\ pc = "persist" => agg # None
    /\ ~up => pc = "free" /\ agg = None

LEMMA SlotIs ==
    /\ None \notin Bucket /\ None.openTs \notin Starts
    /\ \A c \in Bucket : c # None /\ c.openTs \in Starts
    /\ \A c \in Slot : (c # None <=> c \in Bucket) /\ (c # None <=> c.openTs \in Starts)
    /\ \A s \in Starts : s \in Nat
<1>1. \A s \in Starts : s \in Nat
    BY CandleAssumption DEF Starts
<1>2. None.openTs = -1 /\ -1 \notin Nat
    BY DEF None
<1>3. None.openTs \notin Starts
    BY <1>1, <1>2
<1>4. \A c \in Bucket : c.openTs \in Starts
    BY DEF Bucket
<1>5. None \notin Bucket
    BY <1>3, <1>4
<1>6. QED
    BY <1>1, <1>3, <1>4, <1>5 DEF Slot

\* What a tick finds: no bucket, an older one, a later one, its own.
First(start, x) ==
    /\ agg = None /\ agg' = BeginBucket(start, x)
    /\ pc' = "persist" /\ job' = job /\ Absorb(start, x)

Roll(start, x) ==
    /\ agg # None /\ agg.openTs + Step <= now /\ agg.openTs < start /\ agg' = BeginBucket(start, x)
    /\ pc' = "insert" /\ job' = [candle |-> agg, tick |-> TRUE] /\ Absorb(start, x)

Drop ==
    /\ agg # None /\ agg' = agg /\ pc' = "persist" /\ job' = job
    /\ absorbed' = absorbed /\ spoiled' = spoiled

More(start, x) ==
    /\ agg # None /\ start = agg.openTs /\ agg' = UpdateBucket(agg, x)
    /\ pc' = "persist" /\ job' = job /\ Absorb(start, x)

LEMMA TickCases ==
    ASSUME TypesInv, NEW d \in 0..Delay, NEW ltp \in Prices, now - d >= 0, OnTick(now - d, ltp)
    PROVE  /\ up /\ pc = "free" /\ now' = now /\ up' = up
           /\ inProgress' = inProgress /\ pg' = pg /\ published' = published
           /\ \E start \in Starts, x \in Nat :
                  start <= now /\ (First(start, x) \/ Roll(start, x) \/ Drop \/ More(start, x))
<1> DEFINE start == BucketFor(now - d)
<1>1. /\ now \in 0..MaxNow /\ now - d \in 0..MaxNow /\ now - d <= now
      /\ d \in Nat /\ ltp \in Nat /\ Step \in Nat \ {0}
    BY CandleAssumption DEF TypesInv
<1>2. start \in Starts /\ start <= now - d /\ \A s \in Starts : s < start => s + Step <= start
    BY <1>1, BucketForIs
<1>3. start \in Nat /\ start <= now
    BY <1>1, <1>2, SlotIs
<1>4. /\ up /\ pc = "free" /\ now' = now /\ up' = up
      /\ inProgress' = inProgress /\ pg' = pg /\ published' = published
    BY DEF OnTick, process, redis
<1>5. \/ /\ agg = None /\ agg' = BeginBucket(start, ltp)
         /\ pc' = "persist" /\ job' = job /\ Absorb(start, ltp)
      \/ /\ agg # None /\ start > agg.openTs /\ agg' = BeginBucket(start, ltp)
         /\ pc' = "insert" /\ job' = [candle |-> agg, tick |-> TRUE] /\ Absorb(start, ltp)
      \/ /\ agg # None /\ agg' = agg /\ pc' = "persist" /\ job' = job
         /\ absorbed' = absorbed /\ spoiled' = spoiled
      \/ /\ agg # None /\ start = agg.openTs /\ agg' = UpdateBucket(agg, ltp)
         /\ pc' = "persist" /\ job' = job /\ Absorb(start, ltp)
    BY DEF OnTick, history
<1> HIDE DEF start
<1>6. agg # None /\ start > agg.openTs => agg.openTs + Step <= now /\ agg.openTs < start
    <2> SUFFICES ASSUME agg # None, start > agg.openTs
                 PROVE  agg.openTs + Step <= now /\ agg.openTs < start
        OBVIOUS
    <2>1. agg.openTs \in Starts /\ agg.openTs \in Nat
        BY SlotIs DEF TypesInv
    <2>2. agg.openTs < start
        BY <1>3, <2>1
    <2>3. agg.openTs + Step <= start
        BY <1>2, <2>1, <2>2
    <2>4. QED
        BY <1>1, <1>3, <2>1, <2>2, <2>3
<1>7. First(start, ltp) \/ Roll(start, ltp) \/ Drop \/ More(start, ltp)
    BY <1>5, <1>6 DEF First, Roll, Drop, More
<1>8. QED
    BY <1>1, <1>2, <1>3, <1>4, <1>7

LEMMA BeginType ==
    ASSUME NEW start \in Starts, NEW x \in Nat
    PROVE  BeginBucket(start, x) \in Bucket /\ BeginBucket(start, x).openTs = start
BY DEF BeginBucket, Bucket

LEMMA UpdateType ==
    ASSUME NEW c \in Bucket, NEW x \in Nat
    PROVE  UpdateBucket(c, x) \in Bucket /\ UpdateBucket(c, x).openTs = c.openTs
<1> DEFINE top == Max({c.high, x})
           bottom == Min({c.low, x})
<1>1. c.high \in Nat /\ c.low \in Nat /\ c.count \in Nat /\ c.count + 1 \in Nat
    BY DEF Bucket
<1>2. top \in Nat /\ bottom \in Nat
    BY <1>1, OfTwo
<1>3. UpdateBucket(c, x) = [c EXCEPT !.high = top, !.low = bottom, !.close = x, !.count = c.count + 1]
    BY DEF UpdateBucket
<1> HIDE DEF top, bottom
<1>4. QED
    BY <1>1, <1>2, <1>3 DEF Bucket

LEMMA AbsorbType ==
    ASSUME TypesInv, NEW start \in Starts, NEW x \in Nat, Absorb(start, x)
    PROVE  /\ absorbed' \in [Starts -> Seq(Nat)] /\ spoiled' \subseteq Starts /\ spoiled \subseteq spoiled'
           /\ absorbed'[start] = Append(absorbed[start], x) /\ absorbed'[start] # <<>>
           /\ \A s \in Starts : s # start => absorbed'[s] = absorbed[s]
           /\ start \notin spoiled' => agg.openTs = start \/ absorbed[start] = <<>>
<1>1. absorbed \in [Starts -> Seq(Nat)] /\ absorbed[start] \in Seq(Nat) /\ spoiled \subseteq Starts
    BY DEF TypesInv
<1>2. Append(absorbed[start], x) \in Seq(Nat) /\ Append(absorbed[start], x) # <<>>
    <2>1. Append(absorbed[start], x) \in Seq(Nat) /\ Len(Append(absorbed[start], x)) = Len(absorbed[start]) + 1
          /\ Len(absorbed[start]) \in Nat
        BY <1>1, AppendProperties, LenProperties
    <2>2. Len(Append(absorbed[start], x)) # 0
        BY <2>1
    <2>3. QED
        BY <2>1, <2>2, EmptySeq
<1>3. absorbed' = [absorbed EXCEPT ![start] = Append(absorbed[start], x)]
    BY DEF Absorb
<1>4. spoiled' = IF agg.openTs # start /\ absorbed[start] # <<>> THEN spoiled \cup {start} ELSE spoiled
    BY DEF Absorb
<1>5. spoiled' \subseteq Starts /\ spoiled \subseteq spoiled'
      /\ (start \notin spoiled' => agg.openTs = start \/ absorbed[start] = <<>>)
    BY <1>1, <1>4
<1> DEFINE more == Append(absorbed[start], x)
<1>6. absorbed' = [absorbed EXCEPT ![start] = more] /\ more \in Seq(Nat) /\ more # <<>>
    BY <1>2, <1>3
<1> HIDE DEF more
<1>7. /\ absorbed' \in [Starts -> Seq(Nat)] /\ absorbed'[start] = more
      /\ \A s \in Starts : s # start => absorbed'[s] = absorbed[s]
    BY <1>1, <1>6
<1>8. QED
    BY <1>5, <1>6, <1>7 DEF more

LEMMA InitTypes == Init => TypesInv
<1> SUFFICES ASSUME Init PROVE TypesInv
    OBVIOUS
<1>1. None \in Slot /\ <<>> \in Seq(Bucket) /\ <<>> \in Seq(Nat) /\ 0 \in 0..MaxNow
    BY EmptySeq, CandleAssumption DEF Slot
<1>2. Idle \in [candle : Slot, tick : BOOLEAN]
    BY <1>1 DEF Idle
<1>3. QED
    BY <1>1, <1>2 DEF Init, TypesInv, Emitting

LEMMA TickTypes ==
    ASSUME TypesInv, NEW d \in 0..Delay, NEW ltp \in Prices, now - d >= 0, OnTick(now - d, ltp)
    PROVE  TypesInv'
<1>1. /\ up /\ pc = "free" /\ now' = now /\ up' = up
      /\ inProgress' = inProgress /\ pg' = pg /\ published' = published
    BY TickCases
<1>2. PICK start \in Starts, x \in Nat :
          start <= now /\ (First(start, x) \/ Roll(start, x) \/ Drop \/ More(start, x))
    BY TickCases
<1>3. CASE Drop
    BY <1>1, <1>3 DEF Drop, TypesInv, Emitting
<1>4. CASE First(start, x)
    <2>1. agg' \in Bucket
        BY <1>4, BeginType DEF First
    <2>2. absorbed' \in [Starts -> Seq(Nat)] /\ spoiled' \subseteq Starts
        BY <1>4, AbsorbType DEF First
    <2>3. agg' \in Slot /\ agg' # None
        BY <2>1, SlotIs DEF Slot
    <2>4. QED
        BY <1>1, <1>4, <2>2, <2>3 DEF First, TypesInv, Emitting
<1>5. CASE More(start, x)
    <2>1. agg' \in Bucket
        BY <1>5, UpdateType, SlotIs DEF More, TypesInv
    <2>2. absorbed' \in [Starts -> Seq(Nat)] /\ spoiled' \subseteq Starts
        BY <1>5, AbsorbType DEF More
    <2>3. agg' \in Slot /\ agg' # None
        BY <2>1, SlotIs DEF Slot
    <2>4. QED
        BY <1>1, <1>5, <2>2, <2>3 DEF More, TypesInv, Emitting
<1>6. CASE Roll(start, x)
    <2>1. agg' \in Bucket
        BY <1>6, BeginType DEF Roll
    <2>2. absorbed' \in [Starts -> Seq(Nat)] /\ spoiled' \subseteq Starts
        BY <1>6, AbsorbType DEF Roll
    <2>3. agg' \in Slot /\ agg' # None
        BY <2>1, SlotIs DEF Slot
    <2>4. agg \in Bucket /\ agg \in Slot /\ job' = [candle |-> agg, tick |-> TRUE] /\ pc' = "insert"
        BY <1>6, SlotIs DEF Roll, TypesInv
    <2>5. job' \in [candle : Slot, tick : BOOLEAN] /\ job'.candle \in Bucket /\ job'.tick = TRUE
        BY <2>4
    <2>6. QED
        BY <1>1, <2>2, <2>3, <2>4, <2>5 DEF TypesInv, Emitting
<1>7. QED
    BY <1>2, <1>3, <1>4, <1>5, <1>6

LEMMA EmitTypes ==
    ASSUME TypesInv, NEW ok \in BOOLEAN, EmitClosed(ok) \/ PersistInProgress(ok)
    PROVE  TypesInv'
<1>1. CASE InsertCandle(ok)
    <2>1. job.candle \in Bucket /\ job.candle.openTs \in Starts /\ job.candle \in Slot
        BY <1>1, SlotIs DEF InsertCandle, TypesInv, Emitting, Slot
    <2>2. pg' \in [Starts -> Slot]
        BY <1>1, <2>1 DEF InsertCandle, TypesInv
    <2>3. spoiled' \subseteq Starts
        BY <1>1, <2>1 DEF InsertCandle, TypesInv
    <2>4. /\ now' = now /\ up' = up /\ agg' = agg /\ inProgress' = inProgress /\ job' = job /\ pc' = "last"
          /\ published' = published /\ absorbed' = absorbed /\ up /\ pc = "insert"
        BY <1>1 DEF InsertCandle, process, redis
    <2>5. QED
        BY <2>1, <2>2, <2>3, <2>4 DEF TypesInv, Emitting
<1>2. CASE SetLastClose(ok)
    BY <1>2 DEF SetLastClose, TypesInv, Emitting, process, history
<1>3. CASE ClearInProgress(ok)
    <2>1. inProgress' \in Slot
        BY <1>3 DEF ClearInProgress, TypesInv, Slot
    <2>2. QED
        BY <1>3, <2>1 DEF ClearInProgress, TypesInv, Emitting, process, history
<1>4. CASE PublishCandle(ok)
    <2>1. job.candle \in Bucket /\ (job.tick <=> agg # None) /\ published \in Seq(Bucket)
        BY <1>4 DEF PublishCandle, TypesInv, Emitting
    <2>2. published' \in Seq(Bucket)
        BY <1>4, <2>1, AppendProperties DEF PublishCandle
    <2>3. job' \in [candle : Slot, tick : BOOLEAN] /\ pc' \in {"persist", "free"}
          /\ (pc' = "persist" => agg # None)
        BY <1>4, <2>1 DEF PublishCandle, Idle, Slot
    <2>4. QED
        BY <1>4, <2>2, <2>3 DEF PublishCandle, TypesInv, Emitting, process, redis, history
<1>5. CASE PersistInProgress(ok)
    <2>1. agg \in Slot /\ agg.openTs \in Starts
        BY <1>5, SlotIs DEF PersistInProgress, TypesInv
    <2>2. inProgress' \in Slot /\ spoiled' \subseteq Starts
        BY <1>5, <2>1 DEF PersistInProgress, TypesInv
    <2>3. QED
        BY <1>5, <2>2 DEF PersistInProgress, TypesInv, Emitting, process
<1>6. QED
    BY <1>1, <1>2, <1>3, <1>4, <1>5 DEF EmitClosed

LEMMA RecoverCases ==
    ASSUME TypesInv, Recover
    PROVE  /\ ~up /\ up' = TRUE /\ pc = "free" /\ agg = None /\ inProgress \in Slot
           /\ now' = now /\ inProgress' = inProgress /\ pg' = pg /\ published' = published
           /\ absorbed' = absorbed /\ spoiled' = spoiled
           /\ \/ /\ inProgress \in Bucket /\ now >= inProgress.openTs + Step
                 /\ pc' = "insert" /\ job' = [candle |-> inProgress, tick |-> FALSE] /\ agg' = None
              \/ /\ inProgress = None \/ ~(now >= inProgress.openTs + Step)
                 /\ pc' = "free" /\ job' = job /\ agg' = inProgress
<1>1. ~up /\ pc = "free" /\ agg = None /\ inProgress \in Slot /\ (inProgress # None => inProgress \in Bucket)
    BY SlotIs DEF Recover, TypesInv
<1>2. /\ up' = TRUE /\ now' = now /\ inProgress' = inProgress /\ pg' = pg /\ published' = published
      /\ absorbed' = absorbed /\ spoiled' = spoiled
    BY DEF Recover, redis, history
<1>3. CASE inProgress # None /\ now >= inProgress.openTs + Step
    BY <1>1, <1>2, <1>3 DEF Recover, CloseTs
<1>4. CASE ~(inProgress # None /\ now >= inProgress.openTs + Step)
    BY <1>1, <1>2, <1>4 DEF Recover, CloseTs
<1>5. QED
    BY <1>3, <1>4

LEMMA OtherTypes ==
    ASSUME TypesInv, Sweep \/ Tick \/ Crash \/ Recover \/ UNCHANGED vars
    PROVE  TypesInv'
<1>1. CASE Sweep
    <2>1. agg \in Bucket /\ None \in Slot
        BY <1>1, SlotIs DEF Sweep, TypesInv, Slot
    <2>2. QED
        BY <1>1, <2>1, SlotIs DEF Sweep, TypesInv, Emitting, process, redis, history, Slot
<1>2. CASE Tick
    <2>1. now' \in 0..MaxNow
        BY <1>2, CandleAssumption DEF Tick, TypesInv
    <2>2. QED
        BY <1>2, <2>1 DEF Tick, TypesInv, process, redis, history
<1>3. CASE Crash
    <2>1. None \in Slot /\ Idle \in [candle : Slot, tick : BOOLEAN]
        BY DEF Slot, Idle
    <2>2. spoiled' \subseteq Starts
        BY <1>3, SlotIs DEF Crash, TypesInv
    <2>3. QED
        BY <1>3, <2>1, <2>2 DEF Crash, TypesInv, Emitting, redis
<1>4. CASE Recover
    <2>1. /\ now' = now /\ up' = TRUE /\ inProgress' = inProgress /\ pg' = pg /\ published' = published
          /\ absorbed' = absorbed /\ spoiled' = spoiled /\ inProgress \in Slot /\ None \in Slot
        BY <1>4, RecoverCases DEF Slot
    <2>2. CASE /\ inProgress \in Bucket /\ pc' = "insert"
               /\ job' = [candle |-> inProgress, tick |-> FALSE] /\ agg' = None
        <3>1. job' \in [candle : Slot, tick : BOOLEAN] /\ job'.candle \in Bucket /\ job'.tick = FALSE
            BY <2>1, <2>2
        <3>2. QED
            BY <2>1, <2>2, <3>1 DEF TypesInv, Emitting
    <2>3. CASE pc' = "free" /\ job' = job /\ agg' = inProgress
        BY <2>1, <2>3 DEF TypesInv, Emitting
    <2>4. QED
        BY <1>4, <2>2, <2>3, RecoverCases
<1>5. CASE UNCHANGED vars
    BY <1>5 DEF vars, process, redis, history, TypesInv
<1>6. QED
    BY <1>1, <1>2, <1>3, <1>4, <1>5

LEMMA NextTypes == TypesInv /\ [Next]_vars => TypesInv'
BY TickTypes, EmitTypes, OtherTypes DEF Next
-----------------------------------------------------------------------------
(***************************************************************************)
(* No candle leaves the aggregator before its bucket is over.              *)
(***************************************************************************)

ClockInv ==
    /\ \A s \in Starts : pg[s] # None => pg[s].openTs = s /\ now >= s + Step
    /\ pc \in Emitting => now >= job.candle.openTs + Step
    /\ \A n \in 1..Len(published) : now >= published[n].openTs + Step

LEMMA NextClock ==
    ASSUME TypesInv, ClockInv, [Next]_vars
    PROVE  ClockInv'
<1>1. now \in Nat /\ Step \in Nat /\ \A s \in Starts : s \in Nat
    BY CandleAssumption, SlotIs DEF TypesInv
<1>2. \A d \in 0..Delay, ltp \in Prices : now - d >= 0 /\ OnTick(now - d, ltp) => ClockInv'
    <2> SUFFICES ASSUME NEW d \in 0..Delay, NEW ltp \in Prices, now - d >= 0, OnTick(now - d, ltp)
                 PROVE  ClockInv'
        OBVIOUS
    <2>1. now' = now /\ pg' = pg /\ published' = published
        BY TickCases
    <2>2. pc' = "persist" \/ (agg.openTs + Step <= now /\ job'.candle = agg)
        BY TickCases DEF First, Roll, Drop, More
    <2>3. agg \in Slot /\ (agg # None => agg.openTs \in Nat)
        BY <1>1, SlotIs DEF TypesInv
    <2>4. pc' \in Emitting => now >= job'.candle.openTs + Step
        <3>1. CASE pc' = "persist"
            BY <3>1 DEF Emitting
        <3>2. CASE agg.openTs + Step <= now /\ job'.candle = agg
            <4>1. agg.openTs \in Int
                BY <2>3 DEF None
            <4>2. QED
                BY <1>1, <3>2, <4>1
        <3>3. QED
            BY <2>2, <3>1, <3>2
    <2>5. QED
        BY <2>1, <2>4 DEF ClockInv
<1>3. ASSUME Sweep PROVE ClockInv'
    BY <1>3 DEF Sweep, ClockInv, CloseTs
<1>4. \A ok \in BOOLEAN : EmitClosed(ok) \/ PersistInProgress(ok) => ClockInv'
    <2> SUFFICES ASSUME NEW ok \in BOOLEAN, EmitClosed(ok) \/ PersistInProgress(ok)
                 PROVE  ClockInv'
        OBVIOUS
    <2>1. CASE InsertCandle(ok)
        <3>1. job.candle.openTs \in Starts /\ now >= job.candle.openTs + Step
            BY <2>1, SlotIs DEF InsertCandle, TypesInv, ClockInv, Emitting
        <3>2. now' = now /\ job' = job /\ published' = published
            BY <2>1 DEF InsertCandle
        <3>3. pg' = pg \/ pg' = [pg EXCEPT ![job.candle.openTs] = job.candle]
            BY <2>1 DEF InsertCandle
        <3>4. ASSUME NEW s \in Starts, pg'[s] # None
              PROVE  pg'[s].openTs = s /\ now >= s + Step
            BY <3>1, <3>3, <3>4 DEF TypesInv, ClockInv
        <3>5. QED
            BY <3>1, <3>2, <3>4 DEF ClockInv
    <2>2. CASE SetLastClose(ok) \/ ClearInProgress(ok)
        BY <2>2 DEF SetLastClose, ClearInProgress, ClockInv, Emitting
    <2>3. CASE PublishCandle(ok)
        <3>1. job.candle \in Bucket /\ now >= job.candle.openTs + Step /\ published \in Seq(Bucket)
              /\ now' = now /\ pg' = pg /\ pc' \notin Emitting
            BY <2>3 DEF PublishCandle, TypesInv, ClockInv, Emitting
        <3>2. published' = published \/ published' = Append(published, job.candle)
            BY <2>3 DEF PublishCandle
        <3>3. \A n \in 1..Len(published') : now >= published'[n].openTs + Step
            <4>1. CASE published' = published
                BY <4>1 DEF ClockInv
            <4>2. CASE published' = Append(published, job.candle)
                <5>1. /\ Len(published') = Len(published) + 1 /\ Len(published) \in Nat
                      /\ published'[Len(published) + 1] = job.candle
                      /\ \A n \in 1..Len(published) : published'[n] = published[n]
                    BY <3>1, <4>2, AppendProperties, LenProperties
                <5>2. \A n \in 1..(Len(published) + 1) : n \in 1..Len(published) \/ n = Len(published) + 1
                    BY <5>1
                <5>3. QED
                    BY <3>1, <5>1, <5>2 DEF ClockInv
            <4>3. QED
                BY <3>2, <4>1, <4>2
        <3>4. QED
            BY <3>1, <3>3 DEF ClockInv
    <2>4. CASE PersistInProgress(ok)
        BY <2>4 DEF PersistInProgress, ClockInv, Emitting
    <2>5. QED
        BY <2>1, <2>2, <2>3, <2>4 DEF EmitClosed
<1>5. ASSUME Tick PROVE ClockInv'
    <2>1. now' = now + 1 /\ pg' = pg /\ pc' = pc /\ job' = job /\ published' = published
        BY <1>5 DEF Tick
    <2>2. \A s \in Starts : now >= s + Step => now + 1 >= s + Step
        BY <1>1
    <2>3. pc \in Emitting => job.candle.openTs \in Nat
        BY <1>1, SlotIs DEF TypesInv
    <2>4. \A n \in 1..Len(published) : published[n].openTs \in Nat
        BY <1>1, SlotIs, ElementOfSeq DEF TypesInv
    <2>5. pc \in Emitting => now + 1 >= job.candle.openTs + Step
        BY <1>1, <2>3 DEF ClockInv
    <2>6. \A n \in 1..Len(published) : now + 1 >= published[n].openTs + Step
        BY <1>1, <2>4 DEF ClockInv
    <2>7. QED
        BY <2>1, <2>2, <2>5, <2>6 DEF ClockInv
<1>6. ASSUME Crash PROVE ClockInv'
    BY <1>6 DEF Crash, ClockInv, Emitting
<1>7. ASSUME Recover PROVE ClockInv'
    <2>1. now' = now /\ pg' = pg /\ published' = published
        BY <1>7, RecoverCases
    <2>2. pc' \in Emitting => now >= job'.candle.openTs + Step
        BY <1>7, RecoverCases DEF Emitting
    <2>3. QED
        BY <2>1, <2>2 DEF ClockInv
<1>8. ASSUME UNCHANGED vars PROVE ClockInv'
    BY <1>8 DEF vars, process, redis, history, ClockInv
<1>9. QED
    BY <1>2, <1>3, <1>4, <1>5, <1>6, <1>7, <1>8 DEF Next

LEMMA InitClock == Init => ClockInv
<1> SUFFICES ASSUME Init PROVE ClockInv
    OBVIOUS
<1>1. published = <<>> /\ Len(<<>>) = 0 /\ pc = "free" /\ pg = [s \in Starts |-> None]
    BY EmptySeq DEF Init
<1>2. QED
    BY <1>1 DEF ClockInv, Emitting

(***************************************************************************)
(* What a bucket that nothing spoiled says: the candle of the prices it    *)
(* took in, in each of the places that hold it, and it is in one of them.  *)
(***************************************************************************)

Of(s) == Ohlc(s, absorbed[s])

Working(s) == pc \in Emitting /\ job.candle.openTs = s

Inserting(s) == pc = "insert" /\ job.candle.openTs = s

Sound(s) ==
    /\ absorbed[s] = <<>> => pg[s] = None /\ agg.openTs # s /\ inProgress.openTs # s /\ ~Working(s)
    /\ pg[s] # None => pg[s] = Of(s)
    /\ agg.openTs = s => agg = Of(s) /\ pg[s] = None /\ ~Working(s)
    /\ Inserting(s) => job.candle = Of(s) /\ (pg[s] # None \/ inProgress.openTs = s)
    /\ inProgress.openTs = s => inProgress = Of(s) \/ (pc = "persist" /\ agg.openTs = s)
    /\ up /\ pc = "free" /\ agg.openTs = s => inProgress = agg
    /\ absorbed[s] # <<>> =>
           pg[s] # None \/ agg.openTs = s \/ Inserting(s) \/ (~up /\ inProgress.openTs = s)

SoundInv == \A s \in Starts \ spoiled : Sound(s)

LEMMA TickSound ==
    ASSUME TypesInv, SoundInv, NEW d \in 0..Delay, NEW ltp \in Prices,
           now - d >= 0, OnTick(now - d, ltp)
    PROVE  SoundInv'
<1>1. /\ up /\ pc = "free" /\ up' = up /\ inProgress' = inProgress /\ pg' = pg
    BY TickCases
<1>2. PICK start \in Starts, x \in Nat :
          start <= now /\ (First(start, x) \/ Roll(start, x) \/ Drop \/ More(start, x))
    BY TickCases
<1>3. spoiled \subseteq spoiled'
    BY <1>2, AbsorbType DEF First, Roll, Drop, More
<1> SUFFICES ASSUME NEW s \in Starts, s \notin spoiled'
             PROVE  Sound(s)'
    BY DEF SoundInv
<1>4. Sound(s) /\ absorbed[s] \in Seq(Nat) /\ ~Working(s) /\ ~Inserting(s)
    BY <1>1, <1>3 DEF SoundInv, TypesInv, Working, Inserting, Emitting
<1>5. absorbed'[s] = absorbed[s] => Of(s)' = Of(s)
    BY DEF Of
\* A bucket that is begun: it took in nothing before, and nothing speaks of it.
<1>6. ASSUME s = start, First(start, x) \/ Roll(start, x)
      PROVE  /\ pg[s] = None /\ inProgress.openTs # s /\ absorbed'[s] # <<>>
             /\ agg'.openTs = s /\ agg' = Of(s)'
    <2>1. agg.openTs # start /\ Absorb(start, x) /\ agg' = BeginBucket(start, x)
        BY <1>2, <1>6, SlotIs DEF First, Roll, TypesInv
    <2>2. absorbed[s] = <<>> /\ absorbed'[s] = Append(<<>>, x) /\ absorbed'[s] # <<>>
        BY <1>6, <2>1, AbsorbType
    <2>3. agg'.openTs = s /\ agg' = Of(s)'
        BY <1>6, <2>1, <2>2, BeginType, OhlcFirst DEF Of
    <2>4. QED
        BY <1>4, <2>2, <2>3 DEF Sound
<1>7. CASE First(start, x)
    <2>1. pc' = "persist" /\ agg = None /\ agg.openTs # s /\ agg'.openTs = start
        BY <1>7, BeginType, SlotIs DEF First
    <2>2. ~Working(s)' /\ ~Inserting(s)'
        BY <2>1 DEF Working, Inserting, Emitting
    <2>3. CASE s = start
        BY <1>1, <1>6, <1>7, <2>1, <2>2, <2>3 DEF Sound
    <2>4. CASE s # start
        <3>1. absorbed'[s] = absorbed[s] /\ Of(s)' = Of(s)
            BY <1>5, <1>7, <2>4, AbsorbType DEF First
        <3>2. QED
            BY <1>1, <1>4, <2>1, <2>2, <2>4, <3>1 DEF Sound
    <2>5. QED
        BY <2>3, <2>4
<1>8. CASE Roll(start, x)
    <2>1. /\ pc' = "insert" /\ agg # None /\ agg.openTs # start /\ agg'.openTs = start
          /\ job'.candle = agg
        BY <1>8, BeginType, SlotIs DEF Roll, TypesInv
    <2>2. /\ Working(s)' <=> agg.openTs = s
          /\ Inserting(s)' <=> agg.openTs = s
        BY <2>1 DEF Working, Inserting, Emitting
    <2>3. CASE s = start
        BY <1>1, <1>6, <1>8, <2>1, <2>2, <2>3 DEF Sound
    <2>4. CASE s # start
        <3>1. absorbed'[s] = absorbed[s] /\ Of(s)' = Of(s)
            BY <1>5, <1>8, <2>4, AbsorbType DEF Roll
        <3>2. agg'.openTs # s
            BY <2>1, <2>4
        <3>3. CASE agg.openTs = s
            <4>1. agg = Of(s) /\ pg[s] = None /\ inProgress = agg /\ absorbed[s] # <<>>
                BY <1>1, <1>4, <3>3 DEF Sound
            <4>2. QED
                BY <1>1, <2>1, <2>2, <3>1, <3>2, <3>3, <4>1 DEF Sound
        <3>4. CASE agg.openTs # s
            BY <1>1, <1>4, <2>1, <2>2, <3>1, <3>2, <3>4 DEF Sound
        <3>5. QED
            BY <3>3, <3>4
    <2>5. QED
        BY <2>3, <2>4
<1>9. CASE More(start, x)
    <2>1. /\ pc' = "persist" /\ agg \in Bucket /\ agg.openTs = start /\ agg'.openTs = start
          /\ agg' = UpdateBucket(agg, x)
        BY <1>9, UpdateType, SlotIs DEF More, TypesInv
    <2>2. ~Working(s)' /\ ~Inserting(s)'
        BY <2>1 DEF Working, Inserting, Emitting
    <2>3. CASE s = start
        <3>1. agg = Of(s) /\ pg[s] = None /\ absorbed[s] # <<>>
            BY <1>4, <2>1, <2>3 DEF Sound
        <3>2. absorbed'[s] = Append(absorbed[s], x) /\ absorbed'[s] # <<>>
            BY <1>9, <2>3, AbsorbType DEF More
        <3>3. agg' = Of(s)'
            BY <1>4, <2>1, <3>1, <3>2, OhlcNext DEF Of
        <3>4. QED
            BY <1>1, <2>1, <2>2, <2>3, <3>1, <3>2, <3>3 DEF Sound
    <2>4. CASE s # start
        <3>1. absorbed'[s] = absorbed[s] /\ Of(s)' = Of(s)
            BY <1>5, <1>9, <2>4, AbsorbType DEF More
        <3>2. QED
            BY <1>1, <1>4, <2>1, <2>2, <2>4, <3>1 DEF Sound
    <2>5. QED
        BY <2>3, <2>4
<1>10. CASE Drop
    <2>1. pc' = "persist" /\ agg' = agg /\ absorbed' = absorbed
        BY <1>10 DEF Drop
    <2>2. ~Working(s)' /\ ~Inserting(s)' /\ Of(s)' = Of(s)
        BY <1>5, <2>1 DEF Working, Inserting, Emitting
    <2>3. QED
        BY <1>1, <1>4, <2>1, <2>2 DEF Sound
<1>11. QED
    BY <1>2, <1>7, <1>8, <1>9, <1>10

LEMMA EmitSound ==
    ASSUME TypesInv, SoundInv, NEW ok \in BOOLEAN, EmitClosed(ok) \/ PersistInProgress(ok)
    PROVE  SoundInv'
<1>1. spoiled \subseteq spoiled' /\ absorbed' = absorbed /\ up /\ up' = up /\ agg' = agg
    BY DEF EmitClosed, InsertCandle, SetLastClose, ClearInProgress, PublishCandle, PersistInProgress,
           process, history
<1> SUFFICES ASSUME NEW s \in Starts, s \notin spoiled'
             PROVE  Sound(s)'
    BY DEF SoundInv
<1>2. Sound(s) /\ Of(s)' = Of(s)
    BY <1>1 DEF SoundInv, Of
<1>3. CASE InsertCandle(ok)
    <2>1. /\ pc = "insert" /\ pc' = "last" /\ job' = job /\ inProgress' = inProgress
          /\ pg \in [Starts -> Slot] /\ job.candle \in Bucket /\ job.candle # None
          /\ pg' = [pg EXCEPT ![job.candle.openTs] = job.candle]
             \/ (pg' = pg /\ spoiled' = spoiled \cup {job.candle.openTs})
        BY <1>3, SlotIs DEF InsertCandle, TypesInv, Emitting, redis
    <2>2. (Working(s)' <=> Working(s)) /\ (Inserting(s) <=> Working(s)) /\ ~Inserting(s)'
        BY <2>1 DEF Working, Inserting, Emitting
    <2>3. CASE job.candle.openTs = s
        <3>1. Working(s) /\ job.candle = Of(s) /\ pg'[s] = job.candle /\ pg'[s] # None
            BY <1>2, <2>1, <2>2, <2>3 DEF Sound, Working, Emitting
        <3>2. agg.openTs # s /\ absorbed[s] # <<>>
            BY <1>2, <3>1 DEF Sound
        <3>3. QED
            BY <1>1, <1>2, <2>1, <2>2, <3>1, <3>2 DEF Sound
    <2>4. CASE job.candle.openTs # s
        <3>1. pg'[s] = pg[s] /\ ~Working(s) /\ ~Inserting(s)
            BY <2>1, <2>4 DEF Working, Inserting
        <3>2. QED
            BY <1>1, <1>2, <2>1, <2>2, <3>1 DEF Sound
    <2>5. QED
        BY <2>3, <2>4
<1>4. CASE SetLastClose(ok)
    <2>1. /\ pc = "last" /\ pc' \in {"clear", "publish"} /\ job' = job /\ inProgress' = inProgress /\ pg' = pg
        BY <1>4 DEF SetLastClose
    <2>2. (Working(s)' <=> Working(s)) /\ ~Inserting(s) /\ ~Inserting(s)'
        BY <2>1 DEF Working, Inserting, Emitting
    <2>3. QED
        BY <1>1, <1>2, <2>1, <2>2 DEF Sound
<1>5. CASE ClearInProgress(ok)
    <2>1. /\ pc = "clear" /\ pc' = "publish" /\ job' = job /\ pg' = pg
          /\ inProgress' = inProgress \/ inProgress'.openTs # s
        BY <1>5, SlotIs DEF ClearInProgress
    <2>2. (Working(s)' <=> Working(s)) /\ ~Inserting(s) /\ ~Inserting(s)'
        BY <2>1 DEF Working, Inserting, Emitting
    <2>3. QED
        BY <1>1, <1>2, <2>1, <2>2 DEF Sound
<1>6. CASE PublishCandle(ok)
    <2>1. /\ pc = "publish" /\ inProgress' = inProgress /\ pg' = pg
          /\ pc' = "persist" \/ (pc' = "free" /\ agg.openTs # s)
        BY <1>6, SlotIs DEF PublishCandle, TypesInv, Emitting, redis
    <2>2. ~Working(s)' /\ ~Inserting(s) /\ ~Inserting(s)'
        BY <2>1 DEF Working, Inserting, Emitting
    <2>3. QED
        BY <1>1, <1>2, <2>1, <2>2 DEF Sound
<1>7. CASE PersistInProgress(ok)
    <2>1. /\ pc = "persist" /\ pc' = "free" /\ job' = job /\ pg' = pg
          /\ inProgress' = agg \/ (inProgress' = inProgress /\ agg.openTs # s)
        BY <1>7 DEF PersistInProgress
    <2>2. ~Working(s) /\ ~Working(s)' /\ ~Inserting(s) /\ ~Inserting(s)'
        BY <2>1 DEF Working, Inserting, Emitting
    <2>3. QED
        BY <1>1, <1>2, <2>1, <2>2 DEF Sound
<1>8. QED
    BY <1>3, <1>4, <1>5, <1>6, <1>7 DEF EmitClosed

LEMMA OtherSound ==
    ASSUME TypesInv, ClockInv, SoundInv, Sweep \/ Tick \/ Crash \/ Recover \/ UNCHANGED vars
    PROVE  SoundInv'
<1>1. spoiled \subseteq spoiled' /\ absorbed' = absorbed /\ pg' = pg /\ inProgress' = inProgress
    BY DEF Sweep, Tick, Crash, Recover, vars, redis, history
<1> SUFFICES ASSUME NEW s \in Starts, s \notin spoiled'
             PROVE  Sound(s)'
    BY DEF SoundInv
<1>2. Sound(s) /\ Of(s)' = Of(s)
    BY <1>1 DEF SoundInv, Of
<1>3. CASE Sweep
    <2>1. /\ up /\ up' = up /\ pc = "free" /\ pc' = "insert" /\ job'.candle = agg
          /\ agg' = None /\ agg'.openTs # s
        BY <1>3, SlotIs DEF Sweep, process
    <2>2. /\ Working(s)' <=> agg.openTs = s
          /\ Inserting(s)' <=> agg.openTs = s
          /\ ~Working(s) /\ ~Inserting(s)
        BY <2>1 DEF Working, Inserting, Emitting
    <2>3. CASE agg.openTs = s
        <3>1. agg = Of(s) /\ pg[s] = None /\ inProgress = agg /\ absorbed[s] # <<>>
            BY <1>2, <2>1, <2>3 DEF Sound
        <3>2. QED
            BY <1>1, <1>2, <2>1, <2>2, <2>3, <3>1 DEF Sound
    <2>4. CASE agg.openTs # s
        BY <1>1, <1>2, <2>1, <2>2, <2>4 DEF Sound
    <2>5. QED
        BY <2>3, <2>4
<1>4. CASE Tick \/ UNCHANGED vars
    <2>1. up' = up /\ agg' = agg /\ pc' = pc /\ job' = job
        BY <1>4 DEF Tick, vars, process
    <2>2. (Working(s)' <=> Working(s)) /\ (Inserting(s)' <=> Inserting(s))
        BY <2>1 DEF Working, Inserting
    <2>3. QED
        BY <1>1, <1>2, <2>1, <2>2 DEF Sound
<1>5. CASE Crash
    <2>1. /\ up /\ ~up' /\ pc' = "free" /\ agg' = None /\ agg'.openTs # s
          /\ agg.openTs = s => agg = inProgress
        BY <1>5, SlotIs DEF Crash
    <2>2. ~Working(s)' /\ ~Inserting(s)'
        BY <2>1 DEF Working, Inserting, Emitting
    <2>3. inProgress.openTs = s => inProgress = Of(s)
        BY <1>2, <2>1 DEF Sound
    <2>4. absorbed[s] # <<>> => pg[s] # None \/ inProgress.openTs = s
        BY <1>2, <2>1 DEF Sound
    <2>5. QED
        BY <1>1, <1>2, <2>1, <2>2, <2>3, <2>4 DEF Sound
<1>6. CASE Recover
    <2>1. /\ ~up /\ up' = TRUE /\ pc = "free" /\ agg = None /\ agg.openTs # s
          /\ \/ /\ now >= inProgress.openTs + Step
                /\ pc' = "insert" /\ job'.candle = inProgress /\ agg' = None
             \/ /\ inProgress = None \/ ~(now >= inProgress.openTs + Step)
                /\ pc' = "free" /\ agg' = inProgress
        BY <1>6, RecoverCases, SlotIs
    <2>2. ~Working(s) /\ ~Inserting(s)
        BY <2>1 DEF Working, Inserting, Emitting
    <2>3. CASE pc' = "insert" /\ job'.candle = inProgress /\ agg' = None
        <3>1. /\ Working(s)' <=> inProgress.openTs = s
              /\ Inserting(s)' <=> inProgress.openTs = s
            BY <2>3 DEF Working, Inserting, Emitting
        <3>2. QED
            BY <1>1, <1>2, <2>1, <2>2, <2>3, <3>1 DEF Sound
    <2>4. CASE pc' = "free" /\ agg' = inProgress /\ (inProgress = None \/ ~(now >= inProgress.openTs + Step))
        <3>1. ~Working(s)' /\ ~Inserting(s)'
            BY <2>4 DEF Working, Inserting, Emitting
        <3>2. inProgress.openTs = s => pg[s] = None
            BY <2>4, SlotIs DEF ClockInv
        <3>3. QED
            BY <1>1, <1>2, <2>1, <2>2, <2>4, <3>1, <3>2 DEF Sound
    <2>5. QED
        BY <2>1, <2>3, <2>4
<1>7. QED
    BY <1>3, <1>4, <1>5, <1>6

LEMMA InitSound == Init => SoundInv
<1> SUFFICES ASSUME Init, NEW s \in Starts PROVE Sound(s)
    BY DEF SoundInv
<1>1. /\ agg.openTs # s /\ inProgress.openTs # s /\ absorbed[s] = <<>> /\ pg[s] = None /\ pc = "free"
    BY SlotIs DEF Init
<1>2. QED
    BY <1>1 DEF Sound, Working, Inserting, Emitting

LEMMA SoundHolds == Spec => [](TypesInv /\ ClockInv /\ SoundInv)
<1>1. TypesInv /\ ClockInv /\ SoundInv /\ [Next]_vars => (TypesInv /\ ClockInv /\ SoundInv)'
    BY NextTypes, NextClock, TickSound, EmitSound, OtherSound DEF Next
<1>2. QED
    BY <1>1, InitTypes, InitClock, InitSound, PTL DEF Spec

(***************************************************************************)
(* No candle is stored or announced before the clock passed the end of its *)
(* bucket (candles.py: on_tick, maybe_close_stale, _recover_from_redis).   *)
(***************************************************************************)
THEOREM CandlesAreClosedInTime == Spec => []NoEarlyClose
<1>1. ClockInv => NoEarlyClose
    <2> SUFFICES ASSUME ClockInv,
                        NEW c \in {pg[s] : s \in Starts} \cup {published[n] : n \in 1..Len(published)},
                        c # None
                 PROVE  now >= CloseTs(c)
        BY DEF NoEarlyClose
    <2>1. CASE \E s \in Starts : c = pg[s]
        BY <2>1 DEF ClockInv, CloseTs
    <2>2. CASE \E n \in 1..Len(published) : c = published[n]
        BY <2>2 DEF ClockInv, CloseTs
    <2>3. QED
        BY <2>1, <2>2
<1>2. QED
    BY <1>1, SoundHolds, PTL

(***************************************************************************)
(* A stored candle is the open, high, low, close and count of the prices   *)
(* its bucket took in (candles.py: on_tick, _emit_closed), whatever        *)
(* deaths, recoveries and failing writes came between, as long as they did *)
(* not spoil the bucket.                                                   *)
(***************************************************************************)
THEOREM CandlesAreExact == Spec => []UnspoiledCandleIsExact
<1>1. SoundInv => UnspoiledCandleIsExact
    BY DEF SoundInv, Sound, Of, UnspoiledCandleIsExact
<1>2. QED
    BY <1>1, SoundHolds, PTL

(***************************************************************************)
(* A bucket that took in a tick is stored, in progress, on its way to      *)
(* Postgres or kept in Redis for the next process, at every step.          *)
(***************************************************************************)
THEOREM BucketsAreKept == Spec => []NoBucketLost
<1>1. SoundInv => NoBucketLost
    BY DEF SoundInv, Sound, Inserting, NoBucketLost
<1>2. QED
    BY <1>1, SoundHolds, PTL

(***************************************************************************)
(* Redis holds the bucket in progress whenever the lock is free            *)
(* (candles.py: _persist_in_progress): what a restart takes up is what the *)
(* dead process had.                                                       *)
(***************************************************************************)
THEOREM RedisHoldsTheBucket == Spec => []RedisIsCurrent
<1>1. TypesInv /\ SoundInv => RedisIsCurrent
    BY SlotIs DEF TypesInv, SoundInv, Sound, RedisIsCurrent
<1>2. QED
    BY <1>1, SoundHolds, PTL

\* What is on the bus, and what is on its way there, is stored.
StoredInv ==
    /\ PublishedIsStored
    /\ pc \in {"last", "clear", "publish"} =>
           job.candle.openTs \in spoiled \/ pg[job.candle.openTs] # None

LEMMA NextStored ==
    ASSUME TypesInv, StoredInv, [Next]_vars
    PROVE  StoredInv'
<1> DEFINE Kept(s) == s \in spoiled \/ pg[s] # None
           Stays(s) == s \in spoiled' \/ pg'[s] # None
<1>1. spoiled \subseteq spoiled' /\ \A s \in Starts : pg[s] # None => pg'[s] # None
    <2>1. CASE \E d \in 0..Delay, ltp \in Prices : now - d >= 0 /\ OnTick(now - d, ltp)
        BY <2>1, TickCases, AbsorbType DEF First, Roll, Drop, More
    <2>2. CASE \E ok \in BOOLEAN : InsertCandle(ok)
        <3>1. PICK ok \in BOOLEAN : InsertCandle(ok)
            BY <2>2
        <3>2. job.candle # None /\ pg \in [Starts -> Slot]
            BY <3>1, SlotIs DEF InsertCandle, TypesInv, Emitting
        <3>3. QED
            BY <3>1, <3>2 DEF InsertCandle
    <2>3. CASE \/ Sweep \/ Tick \/ Crash \/ Recover \/ UNCHANGED vars
               \/ \E ok \in BOOLEAN : \/ SetLastClose(ok) \/ ClearInProgress(ok)
                                      \/ PublishCandle(ok) \/ PersistInProgress(ok)
        BY <2>3 DEF Sweep, Tick, Crash, Recover, vars, SetLastClose, ClearInProgress,
                    PublishCandle, PersistInProgress, history
    <2>4. QED
        BY <2>1, <2>2, <2>3 DEF Next, EmitClosed
<1>2. \A s \in Starts : Kept(s) => Stays(s)
    BY <1>1
<1>3. published \in Seq(Bucket) /\ \A n \in 1..Len(published) : published[n].openTs \in Starts
    BY SlotIs, ElementOfSeq DEF TypesInv
<1>4. \A n \in 1..Len(published) : Stays(published[n].openTs)
    BY <1>2, <1>3 DEF StoredInv, PublishedIsStored
<1>5. CASE \E ok \in BOOLEAN : PublishCandle(ok)
    <2>1. pc' \in {"persist", "free"} /\ job.candle \in Bucket /\ Stays(job.candle.openTs)
        <3>1. job.candle \in Bucket /\ job.candle.openTs \in Starts /\ Kept(job.candle.openTs)
            BY <1>5, SlotIs DEF PublishCandle, TypesInv, StoredInv, Emitting
        <3>2. QED
            BY <1>2, <1>5, <3>1 DEF PublishCandle
    <2>2. published' = published \/ published' = Append(published, job.candle)
        BY <1>5 DEF PublishCandle
    <2>3. \A n \in 1..Len(published') : Stays(published'[n].openTs)
        <3>1. CASE published' = published
            BY <1>4, <3>1
        <3>2. CASE published' = Append(published, job.candle)
            <4>1. /\ Len(published') = Len(published) + 1 /\ Len(published) \in Nat
                  /\ published'[Len(published) + 1] = job.candle
                  /\ \A n \in 1..Len(published) : published'[n] = published[n]
                BY <1>3, <2>1, <3>2, AppendProperties, LenProperties
            <4>2. \A n \in 1..(Len(published) + 1) : n \in 1..Len(published) \/ n = Len(published) + 1
                BY <4>1
            <4>3. QED
                BY <1>4, <2>1, <4>1, <4>2
        <3>3. QED
            BY <2>2, <3>1, <3>2
    <2>4. QED
        BY <2>1, <2>3 DEF StoredInv, PublishedIsStored
<1>6. CASE \E ok \in BOOLEAN : InsertCandle(ok)
    <2>1. PICK ok \in BOOLEAN : InsertCandle(ok)
        BY <1>6
    <2>2. /\ job.candle \in Bucket /\ job.candle # None /\ job.candle.openTs \in Starts
          /\ pg \in [Starts -> Slot]
        BY <2>1, SlotIs DEF InsertCandle, TypesInv, Emitting
    <2>3. job' = job /\ published' = published /\ Stays(job.candle.openTs)
        BY <2>1, <2>2 DEF InsertCandle
    <2>4. QED
        BY <1>4, <2>3 DEF StoredInv, PublishedIsStored
<1>7. ASSUME published' = published,
             pc' \in {"last", "clear", "publish"} => pc \in {"last", "clear", "publish"} /\ job' = job
      PROVE  StoredInv'
    <2>1. ASSUME pc' \in {"last", "clear", "publish"}
          PROVE  Stays(job'.candle.openTs)
        <3>1. pc \in Emitting /\ job' = job /\ Kept(job.candle.openTs)
            BY <1>7, <2>1 DEF StoredInv, Emitting
        <3>2. job.candle.openTs \in Starts
            BY <3>1, SlotIs DEF TypesInv
        <3>3. QED
            BY <1>2, <3>1, <3>2
    <2>2. QED
        BY <1>4, <1>7, <2>1 DEF StoredInv, PublishedIsStored
<1>8. CASE \E d \in 0..Delay, ltp \in Prices : now - d >= 0 /\ OnTick(now - d, ltp)
    <2>1. published' = published /\ pc' \notin {"last", "clear", "publish"}
        BY <1>8, TickCases DEF First, Roll, Drop, More
    <2>2. QED
        BY <1>7, <2>1
<1>9. CASE \/ Sweep \/ Tick \/ Crash \/ Recover \/ UNCHANGED vars
           \/ \E ok \in BOOLEAN : SetLastClose(ok) \/ ClearInProgress(ok) \/ PersistInProgress(ok)
    <2>1. /\ published' = published
          /\ pc' \in {"last", "clear", "publish"} => pc \in {"last", "clear", "publish"} /\ job' = job
        BY <1>9 DEF Sweep, Tick, Crash, Recover, vars, SetLastClose, ClearInProgress, PersistInProgress
    <2>2. QED
        BY <1>7, <2>1
<1>10. QED
    BY <1>5, <1>6, <1>8, <1>9 DEF Next, EmitClosed

(***************************************************************************)
(* A subscriber that hears of a candle finds its bucket in the database    *)
(* (candles.py: _emit_closed inserts before it publishes), unless the      *)
(* insert failed.                                                          *)
(***************************************************************************)
THEOREM AnnouncedAreStored == Spec => []PublishedIsStored
<1>1. Init => StoredInv
    <2>1. Len(<<>>) = 0
        BY EmptySeq
    <2>2. QED
        BY <2>1 DEF Init, StoredInv, PublishedIsStored
<1>2. StoredInv => PublishedIsStored
    BY DEF StoredInv
<1>3. QED
    BY <1>1, <1>2, InitTypes, NextTypes, NextStored, PTL DEF Spec

(***************************************************************************)
(* What is stored once more is the same candle (candles.py:                *)
(* _recover_from_redis emits again what may have been emitted already),    *)
(* unless the bucket is spoiled.                                           *)
(***************************************************************************)
THEOREM UnspoiledAreImmutable == Spec => UnspoiledCandlesAreImmutable
<1>1. ASSUME TypesInv, SoundInv, [Next]_vars, NEW s \in Starts, pg[s] # None, s \notin spoiled'
      PROVE  pg'[s] = pg[s]
    <2>1. CASE \E ok \in BOOLEAN : InsertCandle(ok)
        <3>1. PICK ok \in BOOLEAN : InsertCandle(ok)
            BY <2>1
        <3>2. /\ pc = "insert" /\ spoiled \subseteq spoiled'
              /\ pg' = pg \/ pg' = [pg EXCEPT ![job.candle.openTs] = job.candle]
            BY <3>1 DEF InsertCandle
        <3>3. Sound(s) /\ pg \in [Starts -> Slot]
            BY <1>1, <3>2 DEF SoundInv, TypesInv
        <3>4. job.candle.openTs = s => job.candle = pg[s]
            BY <1>1, <3>2, <3>3 DEF Sound, Inserting
        <3>5. QED
            BY <3>2, <3>3, <3>4
    <2>2. CASE \E d \in 0..Delay, ltp \in Prices : now - d >= 0 /\ OnTick(now - d, ltp)
        BY <1>1, <2>2, TickCases
    <2>3. CASE \/ Sweep \/ Tick \/ Crash \/ Recover \/ UNCHANGED vars
               \/ \E ok \in BOOLEAN : \/ SetLastClose(ok) \/ ClearInProgress(ok)
                                      \/ PublishCandle(ok) \/ PersistInProgress(ok)
        BY <2>3 DEF Sweep, Tick, Crash, Recover, vars, SetLastClose, ClearInProgress,
                    PublishCandle, PersistInProgress
    <2>4. QED
        BY <1>1, <2>1, <2>2, <2>3 DEF Next, EmitClosed
<1>2. TypesInv /\ SoundInv /\ [Next]_vars
      => [\A s \in Starts : pg[s] # None /\ s \notin spoiled' => pg'[s] = pg[s]]_vars
    BY <1>1
<1>3. QED
    BY <1>2, SoundHolds, PTL DEF Spec, UnspoiledCandlesAreImmutable
====
