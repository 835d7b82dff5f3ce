---- MODULE LogProofs ----
(***************************************************************************)
(* Theorems about the log and its replay.  WriteAheadLog, for every sync   *)
(* period and every number of appends, segments, deaths and failures: what *)
(* a reader gets back.  ReplayRun, for every set of timeframes, times and  *)
(* prices and every number of ticks and runs: what one run over that log   *)
(* builds, lets the greeks see and leaves at its end, and that another run *)
(* writes the same.                                                        *)
(***************************************************************************)
EXTENDS WriteAheadLog, ReplayRun, SequenceTheorems, FiniteSetTheorems, WellFoundedInduction, TLAPS

\* The parts of a sequence of sequences, joined from the first to each.
Joins(parts, f) ==
    f = [n \in 0..Len(parts) |-> IF n = 0 THEN <<>> ELSE f[n - 1] \o parts[n]]

Join(parts) == (CHOOSE f : Joins(parts, f))[Len(parts)]

\* The same, point by point and as far as n.
JoinsUpTo(parts, n, f) ==
    f[0] = <<>> /\ \A m \in 1..n : f[m] = f[m - 1] \o parts[m]

\* s is t with some of its elements left out.
Places(s, t, h) ==
    /\ h \in [1..Len(s) -> 1..Len(t)]
    /\ \A m, n \in 1..Len(s) : m < n => h[m] < h[n]
    /\ \A n \in 1..Len(s) : s[n] = t[h[n]]

Subsequence(s, t) == \E h : Places(s, t, h)
----
\* Every non-empty set of numbers has a least one: induction for the lemmas below.
LEMMA Least ==
    ASSUME NEW T \in SUBSET Nat, T # {}
    PROVE  \E n \in T : \A m \in T : n <= m
<1>1. PICK n \in T : \A m \in T : <<m, n>> \notin OpToRel(<, Nat)
    BY NatLessThanWellFounded, WFMin, Zenon
<1>2. \A m \in T : ~(m < n)
    BY <1>1, Zenon DEF OpToRel
<1>3. QED
    BY <1>2

LEMMA JoinsExist ==
    ASSUME NEW S, NEW parts \in Seq(Seq(S))
    PROVE  \E f \in [0..Len(parts) -> Seq(S)] : JoinsUpTo(parts, Len(parts), f)
<1> DEFINE Bad == {n \in 0..Len(parts) : ~\E f \in [0..n -> Seq(S)] : JoinsUpTo(parts, n, f)}
<1>1. Len(parts) \in Nat /\ \A n \in 1..Len(parts) : parts[n] \in Seq(S)
    BY LenProperties, ElementOfSeq
<1>2. SUFFICES ASSUME Bad # {} PROVE FALSE
    BY <1>1
<1>3. PICK n \in Bad : \A m \in Bad : n <= m
    <2>1. Bad \in SUBSET Nat
        BY <1>1
    <2> HIDE DEF Bad
    <2>2. QED
        BY <1>2, <2>1, Least
<1>4. CASE n = 0
    <2> DEFINE g == [m \in 0..0 |-> <<>>]
    <2>1. g \in [0..0 -> Seq(S)]
        BY EmptySeq
    <2>2. JoinsUpTo(parts, 0, g)
        BY DEF JoinsUpTo
    <2>3. QED
        BY <1>3, <1>4, <2>1, <2>2
<1>5. CASE n # 0
    <2>1. n \in Nat \ {0} /\ n - 1 \in 0..Len(parts) /\ n \in 1..Len(parts) /\ ~(n <= n - 1)
        BY <1>1, <1>3, <1>5
    <2>2. PICK f \in [0..(n - 1) -> Seq(S)] : JoinsUpTo(parts, n - 1, f)
        BY <1>3, <2>1
    <2> DEFINE ending == f[n - 1] \o parts[n]
               g == [m \in 0..n |-> IF m = n THEN ending ELSE f[m]]
    <2>3. ending \in Seq(S)
        BY <1>1, <2>1, <2>2, ConcatProperties
    <2>4. g \in [0..n -> Seq(S)]
        <3> HIDE DEF ending
        <3>1. QED
            BY <2>1, <2>2, <2>3
    <2>5. g[n] = ending /\ \A m \in 0..(n - 1) : g[m] = f[m]
        <3> HIDE DEF ending
        <3>1. QED
            BY <2>1
    <2>6. \A m \in 1..(n - 1) : f[m] = f[m - 1] \o parts[m] /\ m - 1 \in 0..(n - 1) /\ m \in 0..(n - 1)
        <3>1. \A m \in 1..(n - 1) : m - 1 \in 0..(n - 1) /\ m \in 0..(n - 1)
            BY <2>1
        <3>2. QED
            BY <2>2, <3>1 DEF JoinsUpTo
    <2>7. f[0] = <<>> /\ 0 \in 0..(n - 1) /\ \A m \in 1..n : m = n \/ m \in 1..(n - 1)
        BY <2>1, <2>2 DEF JoinsUpTo
    <2>8. JoinsUpTo(parts, n, g)
        <3> HIDE DEF g
        <3>1. g[n] = g[n - 1] \o parts[n]
            <4>1. n - 1 \in 0..(n - 1)
                BY <2>1
            <4>2. QED
                BY <2>5, <4>1
        <3>2. \A m \in 1..(n - 1) : g[m] = g[m - 1] \o parts[m]
            BY <2>5, <2>6
        <3>3. QED
            BY <2>5, <2>7, <3>1, <3>2 DEF JoinsUpTo
    <2>9. QED
        BY <1>3, <2>4, <2>8
<1>6. QED
    BY <1>4, <1>5

\* Two functions that join the same parts agree.
LEMMA JoinsUnique ==
    ASSUME NEW parts, NEW n \in Nat, NEW f, NEW g, JoinsUpTo(parts, n, f), JoinsUpTo(parts, n, g)
    PROVE  \A m \in 0..n : f[m] = g[m]
<1> DEFINE Bad == {m \in 0..n : f[m] # g[m]}
<1>1. SUFFICES ASSUME Bad # {} PROVE FALSE
    OBVIOUS
<1>2. PICK m \in Bad : \A k \in Bad : m <= k
    <2>1. Bad \in SUBSET Nat
        OBVIOUS
    <2> HIDE DEF Bad
    <2>2. QED
        BY <1>1, <2>1, Least
<1>3. m # 0
    BY DEF JoinsUpTo
<1>4. m - 1 \in 0..n /\ m \in 1..n /\ ~(m <= m - 1)
    BY <1>3
<1>5. f[m - 1] = g[m - 1]
    BY <1>2, <1>4
<1>6. QED
    BY <1>4, <1>5 DEF JoinsUpTo

LEMMA JoinIs ==
    ASSUME NEW S, NEW parts \in Seq(Seq(S)), NEW f, JoinsUpTo(parts, Len(parts), f)
    PROVE  Join(parts) = f[Len(parts)] /\ \A m \in 0..Len(parts) : f[m] \in Seq(S)
<1> DEFINE c == CHOOSE h : Joins(parts, h)
<1>1. Len(parts) \in Nat
    BY LenProperties
<1>2. PICK g \in [0..Len(parts) -> Seq(S)] : JoinsUpTo(parts, Len(parts), g)
    BY JoinsExist
<1>3. ASSUME NEW m \in 0..Len(parts)
      PROVE  g[m] = IF m = 0 THEN <<>> ELSE g[m - 1] \o parts[m]
    <2>1. CASE m = 0
        BY <1>2, <2>1 DEF JoinsUpTo
    <2>2. CASE m # 0
        <3>1. m \in 1..Len(parts)
            BY <1>1, <2>2
        <3>2. QED
            BY <1>2, <2>2, <3>1 DEF JoinsUpTo
    <2>3. QED
        BY <2>1, <2>2
<1>4. Joins(parts, g)
    BY <1>2, <1>3 DEF Joins
<1>5. Joins(parts, c)
    BY <1>4
<1> HIDE DEF c
<1>6. \A m \in 0..Len(parts) : c[m] = IF m = 0 THEN <<>> ELSE c[m - 1] \o parts[m]
    BY <1>5 DEF Joins
<1>7. JoinsUpTo(parts, Len(parts), c)
    <2>1. 0 \in 0..Len(parts) /\ \A m \in 1..Len(parts) : m \in 0..Len(parts) /\ m # 0
        BY <1>1
    <2>2. QED
        BY <1>6, <2>1 DEF JoinsUpTo
<1>8. \A m \in 0..Len(parts) : c[m] = f[m] /\ g[m] = f[m]
    BY <1>1, <1>2, <1>7, JoinsUnique
<1>9. \A m \in 0..Len(parts) : f[m] \in Seq(S)
    BY <1>2, <1>8
<1>10. Join(parts) = f[Len(parts)]
    <2>1. Join(parts) = c[Len(parts)]
        BY DEF Join, c
    <2>2. QED
        BY <1>1, <1>8, <2>1
<1>11. QED
    BY <1>9, <1>10

LEMMA JoinEmpty == Join(<<>>) = <<>>
<1> DEFINE f == [m \in {0} |-> <<>>]
<1>1. <<>> \in Seq(Seq({})) /\ Len(<<>>) = 0
    BY EmptySeq
<1>2. JoinsUpTo(<<>>, 0, f)
    BY DEF JoinsUpTo
<1>3. QED
    BY <1>1, <1>2, JoinIs

LEMMA JoinAppend ==
    ASSUME NEW S, NEW parts \in Seq(Seq(S)), NEW part \in Seq(S)
    PROVE  /\ Join(parts) \in Seq(S)
           /\ Join(Append(parts, part)) = Join(parts) \o part
<1> DEFINE more == Append(parts, part)
           n == Len(parts)
<1>1. /\ n \in Nat /\ more \in Seq(Seq(S)) /\ Len(more) = n + 1
      /\ more[n + 1] = part /\ \A m \in 1..n : more[m] = parts[m]
    BY LenProperties, AppendProperties
<1> HIDE DEF more
<1>2. PICK f \in [0..(n + 1) -> Seq(S)] : JoinsUpTo(more, n + 1, f)
    <2>1. \E f \in [0..Len(more) -> Seq(S)] : JoinsUpTo(more, Len(more), f)
        BY <1>1, JoinsExist
    <2>2. Len(more) = n + 1
        BY <1>1
    <2> HIDE DEF n
    <2>3. QED
        BY <2>1, <2>2
<1>3. \A m \in 1..n : m \in 1..(n + 1)
    BY <1>1
<1>4. JoinsUpTo(parts, n, f)
    BY <1>1, <1>2, <1>3 DEF JoinsUpTo
<1>5. Join(parts) = f[n] /\ f[n] \in Seq(S)
    BY <1>1, <1>4, JoinIs
<1>6. Join(more) = f[n + 1]
    BY <1>1, <1>2, JoinIs
<1>7. f[n + 1] = f[n] \o part
    <2>1. n + 1 \in 1..(n + 1) /\ (n + 1) - 1 = n
        BY <1>1
    <2>2. QED
        BY <1>1, <1>2, <2>1 DEF JoinsUpTo
<1>8. QED
    BY <1>5, <1>6, <1>7 DEF more
----
LEMMA ToSetConcat ==
    ASSUME NEW S, NEW s \in Seq(S), NEW t \in Seq(S)
    PROVE  ToSet(s \o t) = ToSet(s) \cup ToSet(t)
<1>1. /\ Len(s) \in Nat /\ Len(t) \in Nat /\ DOMAIN s = 1..Len(s) /\ DOMAIN t = 1..Len(t)
      /\ s \o t \in Seq(S) /\ Len(s \o t) = Len(s) + Len(t)
      /\ \A n \in 1..(Len(s) + Len(t)) :
            (s \o t)[n] = IF n <= Len(s) THEN s[n] ELSE t[n - Len(s)]
    BY LenProperties, ConcatProperties
<1>2. DOMAIN (s \o t) = 1..(Len(s) + Len(t))
    BY <1>1, LenProperties
<1>3. ToSet(s \o t) \subseteq ToSet(s) \cup ToSet(t)
    <2> SUFFICES ASSUME NEW n \in 1..(Len(s) + Len(t))
                 PROVE  (s \o t)[n] \in ToSet(s) \cup ToSet(t)
        BY <1>2 DEF ToSet
    <2>1. CASE n <= Len(s)
        BY <1>1, <2>1 DEF ToSet
    <2>2. CASE ~(n <= Len(s))
        <3>1. n - Len(s) \in 1..Len(t)
            BY <1>1, <2>2
        <3>2. QED
            BY <1>1, <2>2, <3>1 DEF ToSet
    <2>3. QED
        BY <2>1, <2>2
<1>4. ToSet(s) \subseteq ToSet(s \o t)
    <2>1. \A n \in 1..Len(s) : n \in 1..(Len(s) + Len(t)) /\ n <= Len(s)
        BY <1>1
    <2>2. QED
        BY <1>1, <1>2, <2>1 DEF ToSet
<1>5. ToSet(t) \subseteq ToSet(s \o t)
    <2> SUFFICES ASSUME NEW n \in 1..Len(t) PROVE t[n] \in ToSet(s \o t)
        BY <1>1 DEF ToSet
    <2>1. n + Len(s) \in 1..(Len(s) + Len(t)) /\ ~(n + Len(s) <= Len(s)) /\ (n + Len(s)) - Len(s) = n
        BY <1>1
    <2>2. (s \o t)[n + Len(s)] = t[n]
        BY <1>1, <2>1
    <2>3. QED
        BY <1>2, <2>1, <2>2 DEF ToSet
<1>6. QED
    BY <1>3, <1>4, <1>5

LEMMA ToSetJoin ==
    ASSUME NEW S, NEW parts \in Seq(Seq(S))
    PROVE  ToSet(Join(parts)) = UNION {ToSet(parts[k]) : k \in 1..Len(parts)}
<1> DEFINE n == Len(parts)
           Of(m) == UNION {ToSet(parts[k]) : k \in 1..m}
<1>1. n \in Nat /\ \A k \in 1..n : parts[k] \in Seq(S)
    BY LenProperties, ElementOfSeq
<1>2. PICK f \in [0..n -> Seq(S)] : JoinsUpTo(parts, n, f)
    BY JoinsExist
<1> DEFINE Bad == {m \in 0..n : ToSet(f[m]) # Of(m)}
<1>3. ASSUME Bad # {} PROVE FALSE
    <2>1. PICK m \in Bad : \A k \in Bad : m <= k
        <3>1. Bad \in SUBSET Nat
            BY <1>1
        <3> HIDE DEF Bad
        <3>2. QED
            BY <1>3, <3>1, Least
    <2>2. m # 0
        BY <1>2, EmptySeq DEF JoinsUpTo, ToSet
    <2>3. m - 1 \in 0..n /\ m \in 1..n /\ ~(m <= m - 1) /\ 1..m = (1..(m - 1)) \cup {m}
        BY <1>1, <2>1, <2>2
    <2>4. ToSet(f[m - 1]) = Of(m - 1)
        BY <2>1, <2>3
    <2>5. ToSet(f[m]) = ToSet(f[m - 1]) \cup ToSet(parts[m])
        <3>1. f[m] = f[m - 1] \o parts[m] /\ f[m - 1] \in Seq(S) /\ parts[m] \in Seq(S)
            BY <1>1, <1>2, <2>3 DEF JoinsUpTo
        <3>2. QED
            BY <3>1, ToSetConcat
    <2>6. Of(m) = Of(m - 1) \cup ToSet(parts[m])
        BY <2>3
    <2>7. QED
        BY <2>1, <2>4, <2>5, <2>6
<1>4. n \in 0..n /\ n \notin Bad
    <2>1. n \in 0..n
        BY <1>1
    <2>2. QED
        BY <1>3, <2>1
<1>5. ToSet(f[n]) = Of(n)
    BY <1>4
<1>6. QED
    BY <1>2, <1>5, JoinIs
----
LEMMA SubsequenceRefl ==
    ASSUME NEW S, NEW s \in Seq(S)
    PROVE  Subsequence(s, s)
<1>1. Len(s) \in Nat
    BY LenProperties
<1>2. Places(s, s, [n \in 1..Len(s) |-> n])
    BY <1>1 DEF Places
<1>3. QED
    BY <1>2 DEF Subsequence

LEMMA SubsequenceEmpty ==
    ASSUME NEW S, NEW t \in Seq(S)
    PROVE  Subsequence(<<>>, t)
<1>1. Len(<<>>) = 0 /\ Len(t) \in Nat
    BY EmptySeq, LenProperties
<1>2. Places(<<>>, t, [n \in 1..0 |-> n])
    BY <1>1 DEF Places
<1>3. QED
    BY <1>2 DEF Subsequence

LEMMA SubsequenceConcat ==
    ASSUME NEW S, NEW s \in Seq(S), NEW t \in Seq(S), NEW s2 \in Seq(S), NEW t2 \in Seq(S),
           Subsequence(s, t), Subsequence(s2, t2)
    PROVE  Subsequence(s \o s2, t \o t2)
<1>1. PICK h : Places(s, t, h)
    BY DEF Subsequence
<1>2. PICK h2 : Places(s2, t2, h2)
    BY DEF Subsequence
<1> DEFINE a == Len(s)
           b == Len(t)
           a2 == Len(s2)
           b2 == Len(t2)
           h3 == [n \in 1..(a + a2) |-> IF n <= a THEN h[n] ELSE b + h2[n - a]]
<1>3. a \in Nat /\ b \in Nat /\ a2 \in Nat /\ b2 \in Nat
    BY LenProperties
<1>4. /\ Len(s \o s2) = a + a2 /\ Len(t \o t2) = b + b2
      /\ \A n \in 1..(a + a2) : (s \o s2)[n] = IF n <= a THEN s[n] ELSE s2[n - a]
      /\ \A n \in 1..(b + b2) : (t \o t2)[n] = IF n <= b THEN t[n] ELSE t2[n - b]
    BY ConcatProperties
<1>5. /\ h \in [1..a -> 1..b] /\ \A m, n \in 1..a : m < n => h[m] < h[n]
      /\ h2 \in [1..a2 -> 1..b2] /\ \A m, n \in 1..a2 : m < n => h2[m] < h2[n]
      /\ \A n \in 1..a : s[n] = t[h[n]]
      /\ \A n \in 1..a2 : s2[n] = t2[h2[n]]
    BY <1>1, <1>2 DEF Places
<1> HIDE DEF a, b, a2, b2
<1>6. ASSUME NEW n \in 1..(a + a2)
      PROVE  /\ n <= a => n \in 1..a /\ h3[n] = h[n] /\ h3[n] \in 1..b
             /\ ~(n <= a) => n - a \in 1..a2 /\ h3[n] = b + h2[n - a] /\ h3[n] \in (b + 1)..(b + b2)
    BY <1>3, <1>5
<1>7. h3 \in [1..(a + a2) -> 1..(b + b2)]
    <2>1. ASSUME NEW n \in 1..(a + a2) PROVE h3[n] \in 1..(b + b2)
        <3> HIDE DEF h3
        <3>1. QED
            BY <1>3, <1>6
    <2>2. QED
        BY <2>1
<1> HIDE DEF h3
<1>8. ASSUME NEW m \in 1..(a + a2), NEW n \in 1..(a + a2), m < n PROVE h3[m] < h3[n]
    <2>1. CASE n <= a
        BY <1>3, <1>5, <1>6, <1>8, <2>1
    <2>2. CASE ~(m <= a)
        <3>1. m - a \in 1..a2 /\ n - a \in 1..a2 /\ m - a < n - a
            BY <1>3, <1>6, <1>8, <2>2
        <3>2. h2[m - a] < h2[n - a] /\ h2[m - a] \in Nat /\ h2[n - a] \in Nat
            BY <1>3, <1>5, <3>1
        <3>3. h3[m] = b + h2[m - a] /\ h3[n] = b + h2[n - a]
            BY <1>3, <1>6, <1>8, <2>2
        <3>4. QED
            BY <1>3, <3>2, <3>3
    <2>3. CASE m <= a /\ ~(n <= a)
        BY <1>3, <1>6, <2>3
    <2>4. QED
        BY <1>3, <1>8, <2>1, <2>2, <2>3
<1>9. ASSUME NEW n \in 1..(a + a2) PROVE (s \o s2)[n] = (t \o t2)[h3[n]]
    <2>1. CASE n <= a
        <3>1. h3[n] \in 1..(b + b2) /\ h3[n] <= b /\ h3[n] = h[n] /\ n \in 1..a
            BY <1>3, <1>6, <2>1
        <3>2. QED
            BY <1>4, <1>5, <2>1, <3>1
    <2>2. CASE ~(n <= a)
        <3>1. /\ h3[n] \in 1..(b + b2) /\ ~(h3[n] <= b) /\ n - a \in 1..a2
              /\ h2[n - a] \in 1..b2 /\ h3[n] = b + h2[n - a] /\ h3[n] - b = h2[n - a]
            <4>1. n - a \in 1..a2
                BY <1>3, <2>2
            <4>2. h2[n - a] \in 1..b2
                BY <1>5, <4>1
            <4>3. h3[n] = b + h2[n - a]
                BY <1>3, <1>6, <2>2
            <4>4. \A x \in 1..b2 : b + x \in 1..(b + b2) /\ ~(b + x <= b) /\ (b + x) - b = x
                BY <1>3
            <4>5. QED
                BY <4>1, <4>2, <4>3, <4>4
        <3>2. (s \o s2)[n] = s2[n - a] /\ (t \o t2)[h3[n]] = t2[h2[n - a]]
            BY <1>4, <2>2, <3>1
        <3>3. QED
            BY <1>5, <3>1, <3>2
    <2>3. QED
        BY <2>1, <2>2
<1>10. Places(s \o s2, t \o t2, h3)
    BY <1>4, <1>7, <1>8, <1>9 DEF Places
<1>11. QED
    BY <1>10 DEF Subsequence

\* A part left out, or shortened, in each place.
LEMMA SubsequenceJoin ==
    ASSUME NEW S, NEW a \in Seq(Seq(S)), NEW b \in Seq(Seq(S)), Len(a) = Len(b),
           \A k \in 1..Len(a) : Subsequence(a[k], b[k])
    PROVE  Subsequence(Join(a), Join(b))
<1> DEFINE n == Len(a)
<1>1. n \in Nat /\ n = Len(b) /\ \A k \in 1..n : a[k] \in Seq(S) /\ b[k] \in Seq(S)
    BY LenProperties, ElementOfSeq
<1>2. PICK f \in [0..n -> Seq(S)] : JoinsUpTo(a, n, f)
    BY JoinsExist
<1>3. PICK g \in [0..n -> Seq(S)] : JoinsUpTo(b, n, g)
    BY <1>1, JoinsExist
<1> DEFINE Bad == {m \in 0..n : ~Subsequence(f[m], g[m])}
<1>4. ASSUME Bad # {} PROVE FALSE
    <2>1. PICK m \in Bad : \A k \in Bad : m <= k
        <3>1. Bad \in SUBSET Nat
            BY <1>1
        <3> HIDE DEF Bad
        <3>2. QED
            BY <1>4, <3>1, Least
    <2>2. m # 0
        <3>1. f[0] = <<>> /\ g[0] = <<>> /\ <<>> \in Seq(S)
            BY <1>2, <1>3, EmptySeq DEF JoinsUpTo
        <3>2. QED
            BY <2>1, <3>1, SubsequenceRefl
    <2>3. m - 1 \in 0..n /\ m \in 1..n /\ ~(m <= m - 1)
        BY <1>1, <2>1, <2>2
    <2>4. Subsequence(f[m - 1], g[m - 1])
        BY <2>1, <2>3
    <2>5. /\ f[m] = f[m - 1] \o a[m] /\ f[m - 1] \in Seq(S) /\ a[m] \in Seq(S)
          /\ g[m] = g[m - 1] \o b[m] /\ g[m - 1] \in Seq(S) /\ b[m] \in Seq(S)
        BY <1>1, <1>2, <1>3, <2>3 DEF JoinsUpTo
    <2>6. Subsequence(f[m], g[m])
        BY <2>3, <2>4, <2>5, SubsequenceConcat
    <2>7. QED
        BY <2>1, <2>6
<1>5. n \in 0..n /\ n \notin Bad
    <2>1. n \in 0..n
        BY <1>1
    <2>2. QED
        BY <1>4, <2>1
<1>6. Subsequence(f[n], g[n])
    BY <1>5
<1>7. QED
    BY <1>1, <1>2, <1>3, <1>6, JoinIs

\* What is joined so far stays at the beginning.
LEMMA SubsequencePrefix ==
    ASSUME NEW S, NEW parts \in Seq(Seq(S)), NEW f, JoinsUpTo(parts, Len(parts), f),
           NEW n \in 0..Len(parts)
    PROVE  Subsequence(f[n], Join(parts))
<1> DEFINE len == Len(parts)
           Bad == {m \in n..len : ~Subsequence(f[n], f[m])}
<1>1. len \in Nat /\ \A k \in 1..len : parts[k] \in Seq(S)
    BY LenProperties, ElementOfSeq
<1>2. Join(parts) = f[len] /\ \A m \in 0..len : f[m] \in Seq(S)
    BY JoinIs
<1>3. ASSUME Bad # {} PROVE FALSE
    <2>1. PICK m \in Bad : \A k \in Bad : m <= k
        <3>1. Bad \in SUBSET Nat
            BY <1>1
        <3> HIDE DEF Bad
        <3>2. QED
            BY <1>3, <3>1, Least
    <2>2. m # n
        BY <1>2, <2>1, SubsequenceRefl
    <2>3. m - 1 \in n..len /\ m \in 1..len /\ ~(m <= m - 1) /\ m - 1 \in 0..len
        BY <1>1, <2>1, <2>2
    <2>4. Subsequence(f[n], f[m - 1])
        BY <2>1, <2>3
    <2>5. f[m] = f[m - 1] \o parts[m] /\ f[n] \o <<>> = f[n] /\ <<>> \in Seq(S)
        BY <1>2, <2>3, ConcatEmptySeq, EmptySeq DEF JoinsUpTo
    <2>6. Subsequence(<<>>, parts[m])
        BY <1>1, <2>3, SubsequenceEmpty
    <2>7. Subsequence(f[n] \o <<>>, f[m - 1] \o parts[m])
        BY <1>1, <1>2, <2>3, <2>4, <2>5, <2>6, SubsequenceConcat
    <2>8. QED
        BY <2>1, <2>5, <2>7
<1>4. len \in n..len /\ len \notin Bad
    <2>1. len \in n..len
        BY <1>1
    <2>2. QED
        BY <1>3, <2>1
<1>5. QED
    BY <1>2, <1>4
----
Fields == {"record", "seq"}

Segment == [lines : Seq(Line), synced : Nat]

\* What the lines of a segment, and the segments of a log, give a reader.
Pieces(lines, field) == [n \in 1..Len(lines) |-> ReadLine(lines[n], field)]

Reads(segs, field) == [k \in 1..Len(segs) |-> ReadSegment(segs[k], field)]

LEMMA ReadLineType ==
    ASSUME NEW line \in Line, NEW field \in Fields
    PROVE  ReadLine(line, field) \in Seq(Nat) /\ (line.whole => ReadLine(line, field) = <<line[field]>>)
<1>1. line[field] \in Nat
    BY LogAssumption DEF Line, Fields
<1>2. <<line[field]>> \in Seq(Nat) /\ <<>> \in Seq(Nat)
    BY <1>1, EmptySeq
<1>3. QED
    BY <1>2 DEF ReadLine

LEMMA PiecesType ==
    ASSUME NEW lines \in Seq(Line), NEW field \in Fields
    PROVE  /\ Pieces(lines, field) \in Seq(Seq(Nat)) /\ Len(Pieces(lines, field)) = Len(lines)
           /\ \A n \in 1..Len(lines) : Pieces(lines, field)[n] = ReadLine(lines[n], field)
<1>1. Len(lines) \in Nat /\ \A n \in 1..Len(lines) : lines[n] \in Line
    BY LenProperties, ElementOfSeq
<1>2. \A n \in 1..Len(lines) : ReadLine(lines[n], field) \in Seq(Nat)
    BY <1>1, ReadLineType
<1>3. Pieces(lines, field) \in [1..Len(lines) -> Seq(Nat)]
    BY <1>2 DEF Pieces
<1>4. QED
    BY <1>1, <1>3 DEF Pieces

LEMMA ReadSegmentIs ==
    ASSUME NEW seg \in Segment, NEW field \in Fields
    PROVE  /\ ReadSegment(seg, field) = Join(Pieces(seg.lines, field))
           /\ ReadSegment(seg, field) \in Seq(Nat)
<1> DEFINE lines == seg.lines
           len == Len(lines)
           parts == Pieces(lines, field)
           Reading(f) == f = [n \in 0..len |-> IF n = 0 THEN <<>> ELSE f[n - 1] \o ReadLine(lines[n], field)]
           c == CHOOSE f : Reading(f)
<1>1. lines \in Seq(Line) /\ len \in Nat
    BY LenProperties DEF Segment
<1>2. parts \in Seq(Seq(Nat)) /\ Len(parts) = len /\ \A n \in 1..len : parts[n] = ReadLine(lines[n], field)
    BY <1>1, PiecesType
<1>3. ReadSegment(seg, field) = c[len]
    BY DEF ReadSegment
<1> HIDE DEF lines, parts
<1>4. PICK g \in [0..len -> Seq(Nat)] : JoinsUpTo(parts, len, g)
    BY <1>2, JoinsExist
<1>5. ASSUME NEW n \in 0..len
      PROVE  g[n] = IF n = 0 THEN <<>> ELSE g[n - 1] \o ReadLine(lines[n], field)
    <2>1. CASE n = 0
        BY <1>4, <2>1 DEF JoinsUpTo
    <2>2. CASE n # 0
        <3>1. n \in 1..len
            BY <1>1, <2>2
        <3>2. QED
            BY <1>2, <1>4, <2>2, <3>1 DEF JoinsUpTo
    <2>3. QED
        BY <2>1, <2>2
<1>6. Reading(g)
    BY <1>4, <1>5
<1>7. Reading(c)
    BY <1>6
<1> HIDE DEF c
<1>8. \A n \in 0..len : c[n] = IF n = 0 THEN <<>> ELSE c[n - 1] \o ReadLine(lines[n], field)
    BY <1>7
<1>9. JoinsUpTo(parts, len, c)
    <2>1. 0 \in 0..len /\ \A n \in 1..len : n \in 0..len /\ n # 0
        BY <1>1
    <2>2. QED
        BY <1>2, <1>8, <2>1 DEF JoinsUpTo
<1>10. Join(parts) = c[len] /\ c[len] \in Seq(Nat)
    <2>1. len \in 0..len
        BY <1>1
    <2>2. QED
        BY <1>2, <1>9, <2>1, JoinIs
<1>11. QED
    BY <1>3, <1>10 DEF parts, lines

LEMMA ReadsType ==
    ASSUME NEW segs \in Seq(Segment), NEW field \in Fields
    PROVE  /\ Reads(segs, field) \in Seq(Seq(Nat)) /\ Len(Reads(segs, field)) = Len(segs)
           /\ \A k \in 1..Len(segs) : Reads(segs, field)[k] = ReadSegment(segs[k], field)
<1>1. Len(segs) \in Nat /\ \A k \in 1..Len(segs) : segs[k] \in Segment
    BY LenProperties, ElementOfSeq
<1>2. \A k \in 1..Len(segs) : ReadSegment(segs[k], field) \in Seq(Nat)
    BY <1>1, ReadSegmentIs
<1>3. Reads(segs, field) \in [1..Len(segs) -> Seq(Nat)]
    BY <1>2 DEF Reads
<1>4. QED
    BY <1>1, <1>3 DEF Reads

LEMMA ReadAllIs ==
    ASSUME NEW segs \in Seq(Segment), NEW field \in Fields
    PROVE  /\ ReadAll(segs, field) = Join(Reads(segs, field))
           /\ ReadAll(segs, field) \in Seq(Nat)
<1> DEFINE len == Len(segs)
           parts == Reads(segs, field)
           Reading(f) == f = [k \in 0..len |-> IF k = 0 THEN <<>> ELSE f[k - 1] \o ReadSegment(segs[k], field)]
           c == CHOOSE f : Reading(f)
<1>1. len \in Nat
    BY LenProperties
<1>2. parts \in Seq(Seq(Nat)) /\ Len(parts) = len /\ \A k \in 1..len : parts[k] = ReadSegment(segs[k], field)
    BY ReadsType
<1>3. ReadAll(segs, field) = c[len]
    BY DEF ReadAll
<1> HIDE DEF parts
<1>4. PICK g \in [0..len -> Seq(Nat)] : JoinsUpTo(parts, len, g)
    BY <1>2, JoinsExist
<1>5. ASSUME NEW k \in 0..len
      PROVE  g[k] = IF k = 0 THEN <<>> ELSE g[k - 1] \o ReadSegment(segs[k], field)
    <2>1. CASE k = 0
        BY <1>4, <2>1 DEF JoinsUpTo
    <2>2. CASE k # 0
        <3>1. k \in 1..len
            BY <1>1, <2>2
        <3>2. QED
            BY <1>2, <1>4, <2>2, <3>1 DEF JoinsUpTo
    <2>3. QED
        BY <2>1, <2>2
<1>6. Reading(g)
    BY <1>4, <1>5
<1>7. Reading(c)
    BY <1>6
<1> HIDE DEF c
<1>8. \A k \in 0..len : c[k] = IF k = 0 THEN <<>> ELSE c[k - 1] \o ReadSegment(segs[k], field)
    BY <1>7
<1>9. JoinsUpTo(parts, len, c)
    <2>1. 0 \in 0..len /\ \A k \in 1..len : k \in 0..len /\ k # 0
        BY <1>1
    <2>2. QED
        BY <1>2, <1>8, <2>1 DEF JoinsUpTo
<1>10. Join(parts) = c[len] /\ c[len] \in Seq(Nat)
    <2>1. len \in 0..len
        BY <1>1
    <2>2. QED
        BY <1>2, <1>9, <2>1, JoinIs
<1>11. QED
    BY <1>3, <1>10 DEF parts
----
\* One more segment is read after the others.
LEMMA ReadAppend ==
    ASSUME NEW segs \in Seq(Segment), NEW seg \in Segment, NEW field \in Fields
    PROVE  ReadAll(Append(segs, seg), field) = ReadAll(segs, field) \o ReadSegment(seg, field)
<1> DEFINE more == Append(segs, seg)
           a == Reads(segs, field)
           b == Reads(more, field)
<1>1. /\ Len(segs) \in Nat /\ more \in Seq(Segment) /\ Len(more) = Len(segs) + 1
      /\ more[Len(segs) + 1] = seg /\ \A k \in 1..Len(segs) : more[k] = segs[k]
    BY LenProperties, AppendProperties
<1> HIDE DEF more
<1>2. /\ a \in Seq(Seq(Nat)) /\ Len(a) = Len(segs) /\ \A k \in 1..Len(segs) : a[k] = ReadSegment(segs[k], field)
      /\ b \in Seq(Seq(Nat)) /\ Len(b) = Len(more) /\ \A k \in 1..Len(more) : b[k] = ReadSegment(more[k], field)
    BY <1>1, ReadsType
<1>3. ReadSegment(seg, field) \in Seq(Nat)
    BY ReadSegmentIs
<1> HIDE DEF a, b
<1>4. b = Append(a, ReadSegment(seg, field))
    <2> DEFINE c == Append(a, ReadSegment(seg, field))
    <2>1. /\ c \in Seq(Seq(Nat)) /\ Len(c) = Len(a) + 1
          /\ c[Len(a) + 1] = ReadSegment(seg, field) /\ \A k \in 1..Len(a) : c[k] = a[k]
        BY <1>2, <1>3, AppendProperties
    <2> HIDE DEF c
    <2>2. ASSUME NEW k \in 1..Len(b) PROVE b[k] = c[k]
        <3>1. k \in 1..Len(segs) \/ k = Len(segs) + 1
            BY <1>1, <1>2
        <3>2. CASE k \in 1..Len(segs)
            BY <1>1, <1>2, <2>1, <2>2, <3>2
        <3>3. CASE k = Len(segs) + 1
            BY <1>1, <1>2, <2>1, <2>2, <3>3
        <3>4. QED
            BY <3>1, <3>2, <3>3
    <2>3. Len(b) = Len(c) /\ \A k \in 1..Len(b) : b[k] = c[k]
        BY <1>1, <1>2, <2>1, <2>2
    <2>4. b = c
        BY <1>2, <2>1, <2>3, SeqEqual
    <2>5. QED
        BY <2>4 DEF c
<1>5. Join(b) = Join(a) \o ReadSegment(seg, field)
    BY <1>2, <1>3, <1>4, JoinAppend
<1>6. QED
    BY <1>1, <1>5, ReadAllIs DEF a, b, more

\* What is done to the last segment changes the end of what is read.
LEMMA ReadWithLast ==
    ASSUME NEW segs \in Seq(Segment), Len(segs) # 0, NEW seg \in Segment, NEW field \in Fields
    PROVE  \E before \in Seq(Nat) :
              /\ ReadAll(segs, field) = before \o ReadSegment(segs[Len(segs)], field)
              /\ ReadAll([segs EXCEPT ![Len(segs)] = seg], field) = before \o ReadSegment(seg, field)
<1>1. segs # <<>>
    BY EmptySeq
<1>2. PICK front \in Seq(Segment), ending \in Segment : segs = Append(front, ending)
    BY <1>1, SequenceEmptyOrAppend
<1>3. Len(front) \in Nat /\ Len(segs) = Len(front) + 1 /\ segs[Len(segs)] = ending
    BY <1>2, LenProperties, AppendProperties
<1>4. [segs EXCEPT ![Len(segs)] = seg] = Append(front, seg)
    <2> DEFINE a == [segs EXCEPT ![Len(segs)] = seg]
               b == Append(front, seg)
    <2>1. Len(segs) \in 1..Len(segs)
        BY <1>3
    <2>2. /\ a \in Seq(Segment) /\ Len(a) = Len(segs)
          /\ \A k \in 1..Len(segs) : a[k] = IF k = Len(segs) THEN seg ELSE segs[k]
        BY <2>1, ExceptSeq
    <2>3. /\ b \in Seq(Segment) /\ Len(b) = Len(front) + 1 /\ b[Len(front) + 1] = seg
          /\ \A k \in 1..Len(front) : b[k] = front[k] /\ segs[k] = front[k]
        BY <1>2, AppendProperties
    <2> HIDE DEF a, b
    <2>4. \A k \in 1..Len(a) : a[k] = b[k]
        BY <1>3, <2>2, <2>3
    <2>5. a = b
        BY <1>3, <2>2, <2>3, <2>4, SeqEqual
    <2>6. QED
        BY <2>5 DEF a, b
<1>5. /\ ReadAll(segs, field) = ReadAll(front, field) \o ReadSegment(ending, field)
      /\ ReadAll([segs EXCEPT ![Len(segs)] = seg], field) = ReadAll(front, field) \o ReadSegment(seg, field)
    <2>1. \A x \in Segment : ReadAll(Append(front, x), field) = ReadAll(front, field) \o ReadSegment(x, field)
        BY ReadAppend
    <2>2. QED
        BY <1>2, <1>4, <2>1
<1>6. ReadAll(front, field) \in Seq(Nat)
    BY ReadAllIs
<1>7. QED
    BY <1>3, <1>5, <1>6

\* A segment reads as its lines do, synced or not.
LEMMA ReadSegmentLines ==
    ASSUME NEW seg \in Segment, NEW seg2 \in Segment, seg2.lines = seg.lines, NEW field \in Fields
    PROVE  ReadSegment(seg2, field) = ReadSegment(seg, field)
BY ReadSegmentIs

LEMMA EmptySegmentType ==
    ASSUME NEW field \in Fields
    PROVE  EmptySegment \in Segment /\ ReadSegment(EmptySegment, field) = <<>>
<1>1. EmptySegment \in Segment /\ EmptySegment.lines = <<>>
    BY EmptySeq DEF EmptySegment, Segment
<1>2. Pieces(<<>>, field) = <<>>
    <2>1. Len(<<>>) = 0 /\ <<>> \in Seq(Line)
        BY EmptySeq
    <2>2. Pieces(<<>>, field) \in Seq(Seq(Nat)) /\ Len(Pieces(<<>>, field)) = 0
        BY <2>1, PiecesType
    <2>3. QED
        BY <2>2, EmptySeq
<1>3. QED
    BY <1>1, <1>2, ReadSegmentIs, JoinEmpty

LEMMA PiecesAppend ==
    ASSUME NEW lines \in Seq(Line), NEW line \in Line, NEW field \in Fields
    PROVE  Pieces(Append(lines, line), field) = Append(Pieces(lines, field), ReadLine(line, field))
<1> DEFINE more == Append(lines, line)
           a == Pieces(lines, field)
           b == Pieces(more, field)
           c == Append(a, ReadLine(line, field))
<1>1. /\ Len(lines) \in Nat /\ more \in Seq(Line) /\ Len(more) = Len(lines) + 1
      /\ more[Len(lines) + 1] = line /\ \A n \in 1..Len(lines) : more[n] = lines[n]
    BY LenProperties, AppendProperties
<1> HIDE DEF more
<1>2. /\ a \in Seq(Seq(Nat)) /\ Len(a) = Len(lines) /\ \A n \in 1..Len(lines) : a[n] = ReadLine(lines[n], field)
      /\ b \in Seq(Seq(Nat)) /\ Len(b) = Len(more) /\ \A n \in 1..Len(more) : b[n] = ReadLine(more[n], field)
    BY <1>1, PiecesType
<1> HIDE DEF a, b
<1>3. /\ c \in Seq(Seq(Nat)) /\ Len(c) = Len(a) + 1
      /\ c[Len(a) + 1] = ReadLine(line, field) /\ \A n \in 1..Len(a) : c[n] = a[n]
    BY <1>2, ReadLineType, AppendProperties
<1> HIDE DEF c
<1>4. ASSUME NEW n \in 1..Len(b) PROVE b[n] = c[n]
    <2>1. n \in 1..Len(lines) \/ n = Len(lines) + 1
        BY <1>1, <1>2
    <2>2. CASE n \in 1..Len(lines)
        BY <1>1, <1>2, <1>3, <1>4, <2>2
    <2>3. CASE n = Len(lines) + 1
        BY <1>1, <1>2, <1>3, <1>4, <2>3
    <2>4. QED
        BY <2>1, <2>2, <2>3
<1>5. Len(b) = Len(c) /\ \A n \in 1..Len(b) : b[n] = c[n]
    BY <1>1, <1>2, <1>3, <1>4
<1>6. b = c
    BY <1>2, <1>3, <1>5, SeqEqual
<1>7. QED
    BY <1>6 DEF a, b, c, more

LEMMA ReadSegmentAppend ==
    ASSUME NEW seg \in Segment, NEW line \in Line, NEW field \in Fields
    PROVE  /\ [seg EXCEPT !.lines = Append(@, line)] \in Segment
           /\ ReadSegment([seg EXCEPT !.lines = Append(@, line)], field)
                  = ReadSegment(seg, field) \o ReadLine(line, field)
<1> DEFINE more == [seg EXCEPT !.lines = Append(@, line)]
<1>1. seg.lines \in Seq(Line) /\ Append(seg.lines, line) \in Seq(Line)
    BY AppendProperties DEF Segment
<1>2. more \in Segment /\ more.lines = Append(seg.lines, line)
    BY <1>1 DEF Segment
<1> HIDE DEF more
<1>3. Join(Pieces(more.lines, field)) = Join(Pieces(seg.lines, field)) \o ReadLine(line, field)
    <2>1. Pieces(seg.lines, field) \in Seq(Seq(Nat)) /\ ReadLine(line, field) \in Seq(Nat)
        BY <1>1, PiecesType, ReadLineType
    <2>2. Join(Append(Pieces(seg.lines, field), ReadLine(line, field)))
              = Join(Pieces(seg.lines, field)) \o ReadLine(line, field)
        BY <2>1, JoinAppend
    <2>3. Pieces(more.lines, field) = Append(Pieces(seg.lines, field), ReadLine(line, field))
        BY <1>1, <1>2, PiecesAppend
    <2>4. QED
        BY <2>2, <2>3
<1>4. QED
    BY <1>2, <1>3, ReadSegmentIs DEF more
----
LEMMA TornType == Torn \in Line /\ \A field \in Fields : ReadLine(Torn, field) = <<>>
BY LogAssumption DEF Torn, Line, ReadLine

\* The beginning of a segment reads as the beginning of what the segment reads as.
LEMMA ReadPrefix ==
    ASSUME NEW seg \in Segment, NEW n \in 0..Len(seg.lines), NEW field \in Fields,
           NEW left \in Segment, left.lines = SubSeq(seg.lines, 1, n)
    PROVE  Subsequence(ReadSegment(left, field), ReadSegment(seg, field))
<1> DEFINE lines == seg.lines
           parts == Pieces(lines, field)
           kept == Pieces(left.lines, field)
<1>1. lines \in Seq(Line) /\ Len(lines) \in Nat
    BY LenProperties DEF Segment
<1>2. /\ left.lines \in Seq(Line) /\ Len(left.lines) = n
      /\ \A m \in 1..n : left.lines[m] = lines[m]
    <2>1. \A m \in 1..n : lines[m] \in Line
        BY <1>1, ElementOfSeq
    <2>2. n \in Nat
        BY <1>1
    <2>3. Len(left.lines) = n
        BY <1>1, <2>1, <2>2, SubSeqProperties
    <2>4. \A m \in 1..(n - 1 + 1) : left.lines[m] = lines[1 + m - 1]
        BY <1>1, <2>1, <2>2, SubSeqProperties
    <2>5. QED
        BY <2>2, <2>3, <2>4 DEF Segment
<1>3. /\ parts \in Seq(Seq(Nat)) /\ Len(parts) = Len(lines)
      /\ \A m \in 1..Len(lines) : parts[m] = ReadLine(lines[m], field)
      /\ kept \in Seq(Seq(Nat)) /\ Len(kept) = n
      /\ \A m \in 1..n : kept[m] = ReadLine(left.lines[m], field)
    BY <1>1, <1>2, PiecesType
<1> HIDE DEF lines, parts, kept
<1>4. PICK f \in [0..Len(lines) -> Seq(Nat)] : JoinsUpTo(parts, Len(lines), f)
    BY <1>3, JoinsExist
<1>5. Subsequence(f[n], Join(parts))
    <2>1. n \in 0..Len(parts)
        BY <1>3 DEF lines
    <2>2. QED
        BY <1>3, <1>4, <2>1, SubsequencePrefix
<1>6. JoinsUpTo(kept, n, f)
    <2>1. \A m \in 1..n : m \in 1..Len(lines)
        BY <1>1 DEF lines
    <2>2. \A m \in 1..n : kept[m] = parts[m]
        BY <1>2, <1>3, <2>1
    <2>3. QED
        BY <1>4, <2>1, <2>2 DEF JoinsUpTo
<1>7. Join(kept) = f[n]
    BY <1>3, <1>6, JoinIs
<1>8. QED
    BY <1>5, <1>7, ReadSegmentIs DEF parts, kept, lines

\* What a power loss leaves of a segment reads as a part of what was there, and is on the disk.
LEMMA RemainsRead ==
    ASSUME NEW seg \in Segment, seg.synced <= Len(seg.lines), NEW left \in Remains(seg)
    PROVE  /\ left \in Segment /\ left.synced = Len(left.lines)
           /\ \A field \in Fields : Subsequence(ReadSegment(left, field), ReadSegment(seg, field))
           /\ \E n \in seg.synced..Len(seg.lines) :
                  \/ Len(left.lines) = n
                  \/ Len(left.lines) = n + 1 /\ left.lines[n + 1] = Torn
           /\ \A m \in 1..seg.synced : m \in 1..Len(left.lines) /\ left.lines[m] = seg.lines[m]
<1> DEFINE lines == seg.lines
<1>1. lines \in Seq(Line) /\ Len(lines) \in Nat /\ seg.synced \in Nat
    BY LenProperties DEF Segment
<1>2. PICK n \in seg.synced..Len(lines) :
          \/ left = [lines |-> SubSeq(lines, 1, n), synced |-> Len(SubSeq(lines, 1, n))]
          \/ left = [lines |-> Append(SubSeq(lines, 1, n), Torn),
                     synced |-> Len(Append(SubSeq(lines, 1, n), Torn))]
    BY DEF Remains
<1> DEFINE begin == SubSeq(lines, 1, n)
           short == [lines |-> begin, synced |-> Len(begin)]
<1>3. n \in Nat /\ n \in 0..Len(lines)
    BY <1>1
<1>4. begin \in Seq(Line) /\ Len(begin) = n /\ \A m \in 1..n : begin[m] = lines[m]
    <2>1. \A m \in 1..n : lines[m] \in Line
        BY <1>1, <1>3, ElementOfSeq
    <2>2. begin \in Seq(Line) /\ Len(begin) = n
        BY <1>3, <2>1, SubSeqProperties
    <2>3. \A m \in 1..(n - 1 + 1) : begin[m] = lines[1 + m - 1]
        BY <1>3, <2>1, SubSeqProperties
    <2>4. QED
        BY <1>3, <2>2, <2>3
<1>5. short \in Segment /\ \A field \in Fields : Subsequence(ReadSegment(short, field), ReadSegment(seg, field))
    <2>1. short \in Segment /\ short.lines = SubSeq(seg.lines, 1, n)
        BY <1>3, <1>4 DEF Segment
    <2> HIDE DEF short
    <2>2. QED
        BY <1>3, <2>1, ReadPrefix
<1>6. \A m \in 1..seg.synced : m \in 1..n
    BY <1>1, <1>3
<1>7. CASE left = short
    BY <1>2, <1>4, <1>5, <1>6, <1>7
<1>8. CASE left # short
    <2>1. left = [lines |-> Append(begin, Torn), synced |-> Len(Append(begin, Torn))]
        BY <1>2, <1>8
    <2>2. /\ Append(begin, Torn) \in Seq(Line) /\ Len(Append(begin, Torn)) = n + 1
          /\ Append(begin, Torn)[n + 1] = Torn /\ \A m \in 1..n : Append(begin, Torn)[m] = lines[m]
        BY <1>4, TornType, AppendProperties
    <2> HIDE DEF begin
    <2>3. left \in Segment /\ left.lines = Append(begin, Torn) /\ left.synced = Len(left.lines)
        BY <1>3, <2>1, <2>2 DEF Segment
    <2>4. ASSUME NEW field \in Fields PROVE ReadSegment(left, field) = ReadSegment(short, field)
        <3>1. ReadSegment(left, field) = Join(Pieces(Append(begin, Torn), field))
            BY <2>3, ReadSegmentIs
        <3>2. Pieces(Append(begin, Torn), field) = Append(Pieces(begin, field), <<>>)
            BY <1>4, TornType, PiecesAppend DEF begin
        <3>3. Pieces(begin, field) \in Seq(Seq(Nat)) /\ <<>> \in Seq(Nat)
            BY <1>4, PiecesType, EmptySeq DEF begin
        <3>4. /\ Join(Append(Pieces(begin, field), <<>>)) = Join(Pieces(begin, field)) \o <<>>
              /\ Join(Pieces(begin, field)) \in Seq(Nat)
            BY <3>3, JoinAppend
        <3>5. Join(Pieces(begin, field)) \o <<>> = Join(Pieces(begin, field))
            BY <3>4, ConcatEmptySeq
        <3>6. ReadSegment(short, field) = Join(Pieces(begin, field))
            BY <1>5, ReadSegmentIs
        <3>7. QED
            BY <3>1, <3>2, <3>4, <3>5, <3>6
    <2>5. \A m \in 1..seg.synced : m \in 1..(n + 1)
        BY <1>1, <1>3
    <2> HIDE DEF short
    <2>6. QED
        BY <1>1, <1>2, <1>5, <1>6, <2>2, <2>3, <2>4, <2>5
<1>9. QED
    BY <1>7, <1>8

\* What is left of a log reads as a part of what was there.
LEMMA LossRead ==
    ASSUME NEW segs \in Seq(Segment), NEW left \in Seq(Segment), Len(left) = Len(segs),
           NEW field \in Fields,
           \A k \in 1..Len(segs) : Subsequence(ReadSegment(left[k], field), ReadSegment(segs[k], field))
    PROVE  Subsequence(ReadAll(left, field), ReadAll(segs, field))
<1>1. /\ Reads(segs, field) \in Seq(Seq(Nat)) /\ Len(Reads(segs, field)) = Len(segs)
      /\ \A k \in 1..Len(segs) : Reads(segs, field)[k] = ReadSegment(segs[k], field)
      /\ Reads(left, field) \in Seq(Seq(Nat)) /\ Len(Reads(left, field)) = Len(segs)
      /\ \A k \in 1..Len(segs) : Reads(left, field)[k] = ReadSegment(left[k], field)
    BY ReadsType
<1>2. \A k \in 1..Len(Reads(left, field)) : Subsequence(Reads(left, field)[k], Reads(segs, field)[k])
    BY <1>1
<1>3. Subsequence(Join(Reads(left, field)), Join(Reads(segs, field)))
    BY <1>1, <1>2, SubsequenceJoin
<1>4. QED
    BY <1>3, ReadAllIs
----
\* The records that the lines of a segment, or some of them, hold for a reader.
Holds(seg, n, r) ==
    \E m \in 1..n : seg.lines[m].whole /\ seg.lines[m].record = r

LEMMA SegmentHolds ==
    ASSUME NEW seg \in Segment, NEW r
    PROVE  r \in ToSet(ReadSegment(seg, "record")) <=> Holds(seg, Len(seg.lines), r)
<1> DEFINE parts == Pieces(seg.lines, "record")
<1>1. "record" \in Fields /\ seg.lines \in Seq(Line)
    BY DEF Fields, Segment
<1>2. /\ parts \in Seq(Seq(Nat)) /\ Len(parts) = Len(seg.lines)
      /\ \A m \in 1..Len(seg.lines) : parts[m] = ReadLine(seg.lines[m], "record")
    BY <1>1, PiecesType
<1>3. ToSet(ReadSegment(seg, "record")) = UNION {ToSet(parts[m]) : m \in 1..Len(parts)}
    BY <1>1, <1>2, ReadSegmentIs, ToSetJoin
<1> HIDE DEF parts
<1>4. ASSUME NEW m \in 1..Len(seg.lines)
      PROVE  r \in ToSet(parts[m]) <=> seg.lines[m].whole /\ seg.lines[m].record = r
    <2>1. parts[m] = IF seg.lines[m].whole THEN <<seg.lines[m].record>> ELSE <<>>
        BY <1>2 DEF ReadLine
    <2>2. ToSet(<<seg.lines[m].record>>) = {seg.lines[m].record} /\ ToSet(<<>>) = {}
        BY DEF ToSet
    <2>3. QED
        BY <2>1, <2>2
<1>5. QED
    BY <1>2, <1>3, <1>4 DEF Holds

LEMMA LogHolds ==
    ASSUME NEW segs \in Seq(Segment), NEW r
    PROVE  r \in ToSet(ReadAll(segs, "record")) <=>
              \E k \in 1..Len(segs) : Holds(segs[k], Len(segs[k].lines), r)
<1> DEFINE parts == Reads(segs, "record")
<1>1. "record" \in Fields /\ \A k \in 1..Len(segs) : segs[k] \in Segment
    BY ElementOfSeq DEF Fields
<1>2. /\ parts \in Seq(Seq(Nat)) /\ Len(parts) = Len(segs)
      /\ \A k \in 1..Len(segs) : parts[k] = ReadSegment(segs[k], "record")
    BY <1>1, ReadsType
<1>3. ToSet(ReadAll(segs, "record")) = UNION {ToSet(parts[k]) : k \in 1..Len(parts)}
    BY <1>1, <1>2, ReadAllIs, ToSetJoin
<1> HIDE DEF parts
<1>4. QED
    BY <1>1, <1>2, <1>3, SegmentHolds
----
\* What the segments of a log always are.
Logs == {segs \in Seq(Segment) :
            Len(segs) # 0 /\ \A k \in 1..Len(segs) : segs[k].synced <= Len(segs[k].lines)}

SetLast(segs, seg) == [segs EXCEPT ![Len(segs)] = seg]

\* A record that is certainly on the disk; one that the last segment holds.
Safe(segs, r) == \E k \in 1..Len(segs) : Holds(segs[k], segs[k].synced, r)

InLast(segs, r) == Holds(Last(segs), Len(Last(segs).lines), r)

TornTail(segs) == Last(segs).lines # <<>> /\ Last(segs).lines[Len(Last(segs).lines)] = Torn

LEMMA LogsType ==
    ASSUME NEW segs \in Logs
    PROVE  /\ segs \in Seq(Segment) /\ Len(segs) \in Nat \ {0} /\ DOMAIN segs = 1..Len(segs)
           /\ Len(segs) \in 1..Len(segs) /\ Last(segs) \in Segment
           /\ Last(segs).lines \in Seq(Line) /\ Len(Last(segs).lines) \in Nat
           /\ \A k \in 1..Len(segs) :
                  /\ segs[k] \in Segment /\ segs[k].synced \in 0..Len(segs[k].lines)
                  /\ Len(segs[k].lines) \in Nat
<1>1. segs \in Seq(Segment) /\ Len(segs) \in Nat \ {0} /\ DOMAIN segs = 1..Len(segs)
    BY LenProperties DEF Logs
<1>2. ASSUME NEW k \in 1..Len(segs)
      PROVE  segs[k] \in Segment /\ segs[k].synced \in 0..Len(segs[k].lines) /\ Len(segs[k].lines) \in Nat
    <2>1. segs[k] \in Segment
        BY <1>1, ElementOfSeq
    <2>2. segs[k].lines \in Seq(Line) /\ segs[k].synced \in Nat /\ segs[k].synced <= Len(segs[k].lines)
        BY <2>1 DEF Logs, Segment
    <2>3. QED
        BY <2>1, <2>2, LenProperties
<1>3. Len(segs) \in 1..Len(segs)
    BY <1>1
<1>4. Last(segs) \in Segment
    BY <1>2, <1>3 DEF Last
<1>5. QED
    BY <1>1, <1>2, <1>3, <1>4, LenProperties DEF Segment

\* A last segment replaced.
LEMMA SetLastType ==
    ASSUME NEW segs \in Logs, NEW seg \in Segment, seg.synced <= Len(seg.lines)
    PROVE  /\ SetLast(segs, seg) \in Logs /\ Len(SetLast(segs, seg)) = Len(segs)
           /\ Last(SetLast(segs, seg)) = seg
           /\ \A k \in 1..Len(segs) : k # Len(segs) => SetLast(segs, seg)[k] = segs[k]
<1> DEFINE new == SetLast(segs, seg)
<1>1. segs \in Seq(Segment) /\ Len(segs) \in 1..Len(segs) /\ Len(segs) \in Nat \ {0}
    BY LogsType
<1>2. /\ new \in Seq(Segment) /\ Len(new) = Len(segs)
      /\ \A k \in 1..Len(segs) : new[k] = IF k = Len(segs) THEN seg ELSE segs[k]
    BY <1>1, ExceptSeq DEF SetLast
<1> HIDE DEF new
<1>3. \A k \in 1..Len(new) : new[k].synced <= Len(new[k].lines)
    BY <1>2 DEF Logs
<1>4. QED
    BY <1>1, <1>2, <1>3 DEF Logs, Last, new

\* fsync: what the last segment holds is safe, and reads as before.
LEMMA SyncLast ==
    ASSUME NEW segs \in Logs
    PROVE  LET new == SetLast(segs, Sync(Last(segs)))
           IN  /\ new \in Logs /\ Len(new) = Len(segs)
               /\ Last(new).lines = Last(segs).lines /\ Last(new).synced = Len(Last(segs).lines)
               /\ \A field \in Fields : ReadAll(new, field) = ReadAll(segs, field)
               /\ \A r : Safe(new, r) <=> Safe(segs, r) \/ InLast(segs, r)
               /\ \A r : InLast(new, r) <=> InLast(segs, r)
               /\ TornTail(new) = TornTail(segs)
<1> DEFINE new == SetLast(segs, Sync(Last(segs)))
           ending == Last(segs)
<1>1. /\ segs \in Seq(Segment) /\ Len(segs) \in Nat \ {0} /\ Len(segs) \in 1..Len(segs)
      /\ ending \in Segment /\ ending.lines \in Seq(Line) /\ Len(ending.lines) \in Nat
      /\ ending.synced \in 0..Len(ending.lines)
    BY LogsType DEF Last
<1>2. /\ Sync(ending) \in Segment /\ Sync(ending).lines = ending.lines
      /\ Sync(ending).synced = Len(ending.lines)
    BY <1>1 DEF Sync, Segment
<1>3. /\ new \in Logs /\ Len(new) = Len(segs) /\ Last(new) = Sync(ending)
      /\ \A k \in 1..Len(segs) : k # Len(segs) => new[k] = segs[k]
    BY <1>1, <1>2, SetLastType
<1>4. ASSUME NEW field \in Fields PROVE ReadAll(new, field) = ReadAll(segs, field)
    <2>1. ReadSegment(Sync(ending), field) = ReadSegment(ending, field)
        BY <1>1, <1>2, ReadSegmentLines
    <2>2. PICK before \in Seq(Nat) :
              /\ ReadAll(segs, field) = before \o ReadSegment(ending, field)
              /\ ReadAll(new, field) = before \o ReadSegment(Sync(ending), field)
        BY <1>1, <1>2, ReadWithLast DEF SetLast, Last
    <2>3. QED
        BY <2>1, <2>2
<1> HIDE DEF new
<1>5. Last(new) = new[Len(segs)] /\ ending = segs[Len(segs)]
    BY <1>3 DEF Last
<1>6. ASSUME NEW r PROVE Safe(new, r) <=> Safe(segs, r) \/ InLast(segs, r)
    <2>1. ASSUME NEW k \in 1..Len(segs), k # Len(segs)
          PROVE  Holds(new[k], new[k].synced, r) <=> Holds(segs[k], segs[k].synced, r)
        BY <1>3, <2>1
    <2>2. Holds(new[Len(segs)], new[Len(segs)].synced, r) <=> InLast(segs, r)
        BY <1>2, <1>3, <1>5 DEF Holds, InLast
    <2>3. Holds(ending, ending.synced, r) => InLast(segs, r)
        <3>1. \A m \in 1..ending.synced : m \in 1..Len(ending.lines)
            BY <1>1
        <3>2. QED
            BY <3>1 DEF Holds, InLast
    <2>4. QED
        BY <1>1, <1>3, <1>5, <2>1, <2>2, <2>3 DEF Safe
<1>7. \A r : InLast(new, r) <=> InLast(segs, r)
    BY <1>2, <1>3 DEF InLast, Holds
<1>8. TornTail(new) = TornTail(segs)
    BY <1>2, <1>3 DEF TornTail
<1>9. QED
    BY <1>2, <1>3, <1>4, <1>6, <1>7, <1>8 DEF new

\* A new file: nothing is in it, and nothing of the others changes.
LEMMA AddSegment ==
    ASSUME NEW segs \in Logs
    PROVE  LET new == Append(segs, EmptySegment)
           IN  /\ new \in Logs /\ Len(new) = Len(segs) + 1 /\ Last(new) = EmptySegment
               /\ \A field \in Fields : ReadAll(new, field) = ReadAll(segs, field)
               /\ \A r : Safe(new, r) <=> Safe(segs, r)
               /\ \A r : ~InLast(new, r)
               /\ ~TornTail(new)
<1> DEFINE new == Append(segs, EmptySegment)
<1>1. EmptySegment \in Segment /\ \A field \in Fields : ReadSegment(EmptySegment, field) = <<>>
    BY EmptySegmentType DEF Fields
<1>2. EmptySegment.lines = <<>> /\ EmptySegment.synced = 0 /\ Len(<<>>) = 0
    BY EmptySeq DEF EmptySegment
<1>3. segs \in Seq(Segment) /\ Len(segs) \in Nat \ {0}
    BY LogsType
<1>4. /\ new \in Seq(Segment) /\ Len(new) = Len(segs) + 1 /\ new[Len(segs) + 1] = EmptySegment
      /\ \A k \in 1..Len(segs) : new[k] = segs[k]
    BY <1>1, <1>3, AppendProperties
<1>5. ASSUME NEW field \in Fields PROVE ReadAll(new, field) = ReadAll(segs, field)
    <2>1. ReadAll(new, field) = ReadAll(segs, field) \o <<>>
        BY <1>1, <1>3, ReadAppend
    <2>2. QED
        BY <1>3, <2>1, ReadAllIs, ConcatEmptySeq
<1> HIDE DEF new
<1>6. Last(new) = EmptySegment /\ \A k \in 1..Len(new) : k \in 1..Len(segs) \/ k = Len(segs) + 1
    BY <1>3, <1>4 DEF Last
<1>7. new \in Logs
    <2>1. \A k \in 1..Len(new) : new[k].synced <= Len(new[k].lines)
        BY <1>2, <1>4, <1>6 DEF Logs
    <2>2. QED
        BY <1>3, <1>4, <2>1 DEF Logs
<1>8. \A r : ~Holds(EmptySegment, 0, r)
    BY DEF Holds
<1>9. ASSUME NEW r PROVE Safe(new, r) <=> Safe(segs, r)
    <2>1. \A k \in 1..Len(segs) : k \in 1..Len(new)
        BY <1>3, <1>4
    <2>2. QED
        BY <1>2, <1>4, <1>6, <1>8, <2>1 DEF Safe
<1>10. \A r : ~InLast(new, r)
    BY <1>2, <1>6, <1>8 DEF InLast
<1>11. ~TornTail(new)
    BY <1>2, <1>6 DEF TornTail
<1>12. QED
    BY <1>4, <1>5, <1>6, <1>7, <1>9, <1>10, <1>11 DEF new

\* A line more in the last segment.
LEMMA PutLast ==
    ASSUME NEW segs \in Logs, NEW line \in Line
    PROVE  LET new == SetLast(segs, [Last(segs) EXCEPT !.lines = Append(@, line)])
           IN  /\ new \in Logs /\ Len(new) = Len(segs)
               /\ \A field \in Fields : ReadAll(new, field) = ReadAll(segs, field) \o ReadLine(line, field)
               /\ \A r : Safe(new, r) <=> Safe(segs, r)
               /\ \A r : InLast(new, r) <=> InLast(segs, r) \/ (line.whole /\ line.record = r)
               /\ TornTail(new) <=> line = Torn
<1> DEFINE ending == Last(segs)
           more == [ending EXCEPT !.lines = Append(@, line)]
           new == SetLast(segs, more)
<1>1. /\ segs \in Seq(Segment) /\ Len(segs) \in Nat \ {0} /\ Len(segs) \in 1..Len(segs)
      /\ ending \in Segment /\ ending.lines \in Seq(Line) /\ Len(ending.lines) \in Nat
      /\ ending.synced \in 0..Len(ending.lines)
    BY LogsType DEF Last
<1>2. /\ Append(ending.lines, line) \in Seq(Line) /\ Len(Append(ending.lines, line)) = Len(ending.lines) + 1
      /\ Append(ending.lines, line)[Len(ending.lines) + 1] = line /\ Append(ending.lines, line) # <<>>
      /\ \A m \in 1..Len(ending.lines) : Append(ending.lines, line)[m] = ending.lines[m]
    BY <1>1, AppendProperties
<1>3. /\ more \in Segment /\ more.lines = Append(ending.lines, line) /\ more.synced = ending.synced
      /\ more.synced <= Len(more.lines)
    <2> HIDE DEF ending
    <2>1. more \in Segment /\ more.lines = Append(ending.lines, line) /\ more.synced = ending.synced
        BY <1>1, <1>2 DEF Segment
    <2>2. ending.synced <= Len(ending.lines) + 1
        BY <1>1
    <2>3. QED
        BY <1>2, <2>1, <2>2
<1>4. /\ new \in Logs /\ Len(new) = Len(segs) /\ Last(new) = more
      /\ \A k \in 1..Len(segs) : k # Len(segs) => new[k] = segs[k]
    BY <1>3, SetLastType
<1>5. ASSUME NEW field \in Fields
      PROVE  ReadAll(new, field) = ReadAll(segs, field) \o ReadLine(line, field)
    <2>1. PICK before \in Seq(Nat) :
              /\ ReadAll(segs, field) = before \o ReadSegment(ending, field)
              /\ ReadAll(new, field) = before \o ReadSegment(more, field)
        BY <1>1, <1>3, ReadWithLast DEF SetLast, Last
    <2>2. ReadSegment(more, field) = ReadSegment(ending, field) \o ReadLine(line, field)
        BY <1>1, ReadSegmentAppend
    <2>3. ReadSegment(ending, field) \in Seq(Nat) /\ ReadLine(line, field) \in Seq(Nat)
        BY <1>1, ReadSegmentIs, ReadLineType
    <2>4. (before \o ReadSegment(ending, field)) \o ReadLine(line, field)
              = before \o (ReadSegment(ending, field) \o ReadLine(line, field))
        BY <2>3, ConcatAssociative
    <2> HIDE DEF more, new, ending
    <2>5. QED
        BY <2>1, <2>2, <2>4
<1> HIDE DEF new, more, ending
<1>6. Last(new) = new[Len(segs)] /\ ending = segs[Len(segs)]
    BY <1>4 DEF Last, ending
<1>7. ASSUME NEW r PROVE Holds(more, more.synced, r) <=> Holds(ending, ending.synced, r)
    <2>1. \A m \in 1..ending.synced : m \in 1..Len(ending.lines)
        BY <1>1
    <2>2. QED
        BY <1>2, <1>3, <2>1 DEF Holds
<1>8. ASSUME NEW r PROVE Safe(new, r) <=> Safe(segs, r)
    BY <1>1, <1>4, <1>6, <1>7 DEF Safe
<1>9. ASSUME NEW r PROVE InLast(new, r) <=> InLast(segs, r) \/ (line.whole /\ line.record = r)
    <2>1. /\ \A m \in 1..Len(ending.lines) : m \in 1..(Len(ending.lines) + 1)
          /\ \A m \in 1..(Len(ending.lines) + 1) : m \in 1..Len(ending.lines) \/ m = Len(ending.lines) + 1
          /\ Len(ending.lines) + 1 \in 1..(Len(ending.lines) + 1)
        BY <1>1
    <2>2. Holds(more, Len(ending.lines) + 1, r) <=> Holds(ending, Len(ending.lines), r) \/ (line.whole /\ line.record = r)
        BY <1>2, <1>3, <2>1 DEF Holds
    <2>3. QED
        BY <1>2, <1>3, <1>4, <2>2 DEF InLast, ending
<1>10. TornTail(new) <=> line = Torn
    BY <1>2, <1>3, <1>4 DEF TornTail
<1>11. QED
    BY <1>4, <1>5, <1>8, <1>9, <1>10 DEF new, more, ending

\* A power loss.
LEMMA LoseSome ==
    ASSUME NEW segs \in Logs,
           NEW left \in [DOMAIN segs -> UNION {Remains(segs[k]) : k \in DOMAIN segs}],
           \A k \in DOMAIN segs : left[k] \in Remains(segs[k])
    PROVE  /\ left \in Logs /\ Len(left) = Len(segs)
           /\ \A field \in Fields : Subsequence(ReadAll(left, field), ReadAll(segs, field))
           /\ \A r : Safe(segs, r) => Safe(left, r)
           /\ \A r : InLast(left, r) => Safe(left, r)
<1>1. /\ segs \in Seq(Segment) /\ Len(segs) \in Nat \ {0} /\ DOMAIN segs = 1..Len(segs)
      /\ Len(segs) \in 1..Len(segs)
      /\ \A k \in 1..Len(segs) : segs[k] \in Segment /\ segs[k].synced \in 0..Len(segs[k].lines)
    BY LogsType
<1>2. ASSUME NEW k \in 1..Len(segs)
      PROVE  /\ left[k] \in Segment /\ left[k].synced = Len(left[k].lines) /\ Len(left[k].lines) \in Nat
             /\ \A field \in Fields : Subsequence(ReadSegment(left[k], field), ReadSegment(segs[k], field))
             /\ \A m \in 1..segs[k].synced : m \in 1..Len(left[k].lines) /\ left[k].lines[m] = segs[k].lines[m]
    <2>1. left[k] \in Remains(segs[k]) /\ segs[k] \in Segment /\ segs[k].synced <= Len(segs[k].lines)
        BY <1>1 DEF Logs
    <2>2. /\ left[k] \in Segment /\ left[k].synced = Len(left[k].lines)
          /\ \A field \in Fields : Subsequence(ReadSegment(left[k], field), ReadSegment(segs[k], field))
          /\ \A m \in 1..segs[k].synced : m \in 1..Len(left[k].lines) /\ left[k].lines[m] = segs[k].lines[m]
        BY <2>1, RemainsRead
    <2>3. Len(left[k].lines) \in Nat
        BY <2>2 DEF Segment
    <2>4. QED
        BY <2>2, <2>3
<1>3. left \in Seq(Segment) /\ Len(left) = Len(segs)
    <2>1. left \in [1..Len(segs) -> Segment]
        BY <1>1, <1>2
    <2>2. DOMAIN left = 1..Len(segs) /\ Len(segs) \in Nat
        BY <1>1, <2>1
    <2>3. left \in Seq(Segment)
        BY <2>1, <2>2, SeqDef
    <2>4. QED
        BY <2>2, <2>3, LenProperties
<1>4. left \in Logs
    BY <1>1, <1>2, <1>3 DEF Logs
<1>5. \A field \in Fields : Subsequence(ReadAll(left, field), ReadAll(segs, field))
    BY <1>1, <1>2, <1>3, LossRead
<1>6. ASSUME NEW r, Safe(segs, r) PROVE Safe(left, r)
    <2>1. PICK k \in 1..Len(segs) : Holds(segs[k], segs[k].synced, r)
        BY <1>6 DEF Safe
    <2>2. PICK m \in 1..segs[k].synced : segs[k].lines[m].whole /\ segs[k].lines[m].record = r
        BY <2>1 DEF Holds
    <2>3. m \in 1..left[k].synced /\ left[k].lines[m] = segs[k].lines[m]
        BY <1>2
    <2>4. QED
        BY <1>3, <2>2, <2>3 DEF Safe, Holds
<1>7. \A r : InLast(left, r) => Safe(left, r)
    BY <1>1, <1>2, <1>3 DEF InLast, Safe, Last
<1>8. QED
    BY <1>3, <1>4, <1>5, <1>6, <1>7
----
(***************************************************************************)
(* Types, and what the numbers owe each other: neither the counter in      *)
(* memory nor the counter file is ever ahead of the appends begun.         *)
(***************************************************************************)
TypesInv ==
    /\ up \in BOOLEAN /\ handle \in BOOLEAN /\ counterLost \in BOOLEAN
    /\ deaths \in Nat /\ powerLosses \in Nat /\ faults \in Nat /\ shorts \in Nat /\ sinceSync \in Nat
    /\ given \in 0..MaxAppends /\ seq \in 0..given /\ seqFile \in 0..given
    /\ pc \in {"idle", "write", "sync", "persist"} /\ (pc # "idle" => up /\ handle /\ given # 0)
    /\ returned \subseteq 1..given
    /\ segments \in Logs

\* The readers see no difference.
Same == \A field \in Fields : ReadAll(segments', field) = ReadAll(segments, field)

LEMMA TypesNat ==
    ASSUME TypesInv
    PROVE  given \in Nat /\ seq \in Nat /\ seqFile \in Nat /\ MaxAppends \in Nat
BY LogAssumption DEF TypesInv

\* A step that touches the segments at most to sync, to rotate or to open a file.
LEMMA QuietStep ==
    ASSUME segments \in Logs,
           \/ segments' = segments
           \/ segments' = WithCurrent(Sync(Current))
           \/ segments' = Append(segments, EmptySegment)
           \/ segments' = Append(WithCurrent(Sync(Current)), EmptySegment)
    PROVE  segments' \in Logs /\ Same
<1> DEFINE synced == SetLast(segments, Sync(Last(segments)))
<1>1. synced \in Logs /\ \A field \in Fields : ReadAll(synced, field) = ReadAll(segments, field)
    BY SyncLast
<1>2. WithCurrent(Sync(Current)) = synced
    BY DEF WithCurrent, Current, SetLast, Last
<1> HIDE DEF synced
<1>3. \A segs \in Logs : /\ Append(segs, EmptySegment) \in Logs
                         /\ \A field \in Fields : ReadAll(Append(segs, EmptySegment), field) = ReadAll(segs, field)
    BY AddSegment
<1>4. CASE segments' = segments
    BY <1>4 DEF Same
<1>5. CASE segments' = synced
    BY <1>1, <1>5 DEF Same
<1>6. CASE segments' = Append(segments, EmptySegment)
    BY <1>3, <1>6 DEF Same
<1>7. CASE segments' = Append(synced, EmptySegment)
    BY <1>1, <1>3, <1>7 DEF Same
<1>8. QED
    BY <1>2, <1>4, <1>5, <1>6, <1>7

\* The line of a write.
LEMMA NextLineType ==
    ASSUME TypesInv
    PROVE  /\ NextLine(Current.lines, given, seq) \in Line /\ Torn \in Line
           /\ pc # "idle" => NextLine(Current.lines, given, seq) # Torn
<1>1. given \in 0..MaxAppends /\ seq \in 0..MaxAppends
    BY TypesNat DEF TypesInv
<1>2. (Current.lines = <<>> \/ Current.lines[Len(Current.lines)] # Torn) \in BOOLEAN
    OBVIOUS
<1>3. NextLine(Current.lines, given, seq) \in Line
    BY <1>1, <1>2 DEF NextLine, Line
<1>4. given # 0 => NextLine(Current.lines, given, seq) # Torn
    BY DEF NextLine, Torn
<1>5. QED
    BY <1>3, <1>4, TornType DEF TypesInv

\* A write: what is read grows by what the line reads as.
LEMMA WriteStep ==
    ASSUME TypesInv, NEW line \in Line, PutLine(line)
    PROVE  /\ segments' \in Logs
           /\ \A field \in Fields : ReadAll(segments', field) = ReadAll(segments, field) \o ReadLine(line, field)
           /\ segments' = SetLast(segments, [Last(segments) EXCEPT !.lines = Append(@, line)])
           /\ sinceSync' = sinceSync + 1
           /\ \/ pc' = "sync" /\ SyncIsDue(sinceSync + 1) /\ returned' = returned
              \/ pc' = "idle" /\ ~SyncIsDue(sinceSync + 1) /\ returned' = returned \cup {given}
<1>1. segments \in Logs
    BY DEF TypesInv
<1>2. segments' = SetLast(segments, [Last(segments) EXCEPT !.lines = Append(@, line)])
    BY DEF PutLine, WithCurrent, Current, SetLast, Last
<1>3. sinceSync' = sinceSync + 1
    BY DEF PutLine
<1>4. \/ pc' = "sync" /\ SyncIsDue(sinceSync') /\ returned' = returned
      \/ pc' = "idle" /\ ~SyncIsDue(sinceSync') /\ returned' = returned \cup {given}
    BY DEF PutLine
<1>5. QED
    BY <1>1, <1>2, <1>3, <1>4, PutLast

\* A power loss: what is read is a part of what was read before.
LEMMA LossStep ==
    ASSUME TypesInv, PowerLoss
    PROVE  /\ segments' \in Logs /\ seqFile' \in 0..seqFile
           /\ \A field \in Fields : Subsequence(ReadAll(segments', field), ReadAll(segments, field))
           /\ \A r : Safe(segments, r) => Safe(segments', r)
           /\ \A r : InLast(segments', r) => Safe(segments', r)
<1>1. segments \in Logs
    BY DEF TypesInv
<1>2. PICK left \in [DOMAIN segments -> UNION {Remains(segments[k]) : k \in DOMAIN segments}] :
          (\A k \in DOMAIN segments : left[k] \in Remains(segments[k])) /\ segments' = left
    BY DEF PowerLoss
<1>3. seqFile' \in 0..seqFile
    BY DEF PowerLoss
<1>4. QED
    BY <1>1, <1>2, <1>3, LoseSome

LEMMA InitTypes == Init => TypesInv /\ \A field \in Fields : ReadAll(segments, field) = <<>>
<1> SUFFICES ASSUME Init PROVE TypesInv /\ \A field \in Fields : ReadAll(segments, field) = <<>>
    OBVIOUS
<1>1. segments = <<EmptySegment>>
    BY DEF Init
<1>2. EmptySegment \in Segment /\ EmptySegment.synced = 0 /\ EmptySegment.lines = <<>> /\ Len(<<>>) = 0
    BY EmptySegmentType, EmptySeq DEF EmptySegment, Fields
<1>3. <<>> \in Seq(Segment) /\ <<EmptySegment>> = Append(<<>>, EmptySegment)
    BY <1>2, EmptySeq
<1>4. segments \in Logs
    <2>1. segments \in Seq(Segment) /\ Len(segments) = 1 /\ segments[1] = EmptySegment
        BY <1>1, <1>2, <1>3, AppendProperties
    <2>2. \A k \in 1..Len(segments) : segments[k].synced <= Len(segments[k].lines)
        BY <1>2, <2>1
    <2>3. Len(segments) # 0
        BY <2>1
    <2>4. QED
        BY <2>1, <2>2, <2>3 DEF Logs
<1>5. ASSUME NEW field \in Fields PROVE ReadAll(segments, field) = <<>>
    <2>1. ReadAll(segments, field) = ReadAll(<<>>, field) \o ReadSegment(EmptySegment, field)
        BY <1>1, <1>2, <1>3, ReadAppend
    <2>2. Reads(<<>>, field) = <<>>
        <3>1. Reads(<<>>, field) \in Seq(Seq(Nat)) /\ Len(Reads(<<>>, field)) = 0
            BY <1>2, <1>3, ReadsType
        <3>2. QED
            BY <3>1, EmptySeq
    <2>3. ReadAll(<<>>, field) = <<>>
        BY <1>3, <2>2, ReadAllIs, JoinEmpty
    <2>4. QED
        BY <2>1, <2>3, EmptySegmentType, EmptySeq, ConcatEmptySeq
<1>6. TypesInv
    <2>1. /\ up = TRUE /\ handle = TRUE /\ counterLost = FALSE /\ pc = "idle" /\ returned = {}
          /\ deaths = 0 /\ powerLosses = 0 /\ faults = 0 /\ shorts = 0 /\ sinceSync = 0
          /\ given = 0 /\ seq = 0 /\ seqFile = 0
        BY DEF Init
    <2>2. given \in 0..MaxAppends /\ seq \in 0..given /\ seqFile \in 0..given
        BY <2>1, LogAssumption
    <2>3. QED
        BY <1>4, <2>1, <2>2 DEF TypesInv
<1>7. QED
    BY <1>5, <1>6

LEMMA AppendTypes ==
    ASSUME TypesInv, AppendHere \/ AppendRotating \/ RotationFails \/ AppendRefused
    PROVE  /\ TypesInv' /\ Same /\ given' = given + 1 /\ pc = "idle" /\ up
           /\ returned' = returned /\ seqFile' = seqFile
           /\ seq' \in {seq, seq + 1} /\ (seq' = seq => pc' = "idle")
<1>1. /\ given < MaxAppends /\ given' = given + 1 /\ pc = "idle" /\ up /\ up' = up
      /\ returned' = returned /\ seqFile' = seqFile /\ sinceSync' = sinceSync
      /\ deaths' = deaths /\ powerLosses' = powerLosses /\ shorts' = shorts
      /\ faults' \in {faults, faults + 1} /\ counterLost' = counterLost
      /\ seq' \in {seq, seq + 1} /\ (seq' = seq => pc' = "idle")
      /\ pc' \in {"idle", "write"} /\ handle' \in BOOLEAN /\ (pc' = "write" => handle')
    <2>1. given \in Nat /\ seq \in Nat /\ faults \in Nat /\ handle \in BOOLEAN /\ pc = pc
        BY TypesNat DEF TypesInv
    <2>2. CASE AppendHere
        BY <2>1, <2>2 DEF AppendHere, Begin, counts
    <2>3. CASE AppendRotating
        BY <2>1, <2>3 DEF AppendRotating, Begin, counts
    <2>4. CASE RotationFails
        BY <2>1, <2>4 DEF RotationFails, Begin, Raises, Fault
    <2>5. CASE AppendRefused
        BY <2>1, <2>5 DEF AppendRefused, Begin, counts
    <2>6. QED
        BY <2>2, <2>3, <2>4, <2>5
<1>2. segments' \in Logs /\ Same
    <2>1. \/ segments' = segments
          \/ segments' = WithCurrent(Sync(Current))
          \/ segments' = Append(WithCurrent(Sync(Current)), EmptySegment)
        BY DEF AppendHere, AppendRotating, RotationFails, AppendRefused
    <2>2. QED
        BY <2>1, QuietStep DEF TypesInv
<1>3. /\ given' \in 0..MaxAppends /\ seq' \in 0..given' /\ seqFile' \in 0..given'
      /\ returned' \subseteq 1..given' /\ faults' \in Nat
    BY <1>1, TypesNat DEF TypesInv
<1>4. TypesInv'
    BY <1>1, <1>2, <1>3 DEF TypesInv
<1>5. QED
    BY <1>1, <1>2, <1>4

LEMMA WriteTypes ==
    ASSUME TypesInv, WriteRecord \/ WriteShort
    PROVE  /\ TypesInv' /\ pc = "write" /\ up /\ handle /\ up' = up /\ handle' = handle
           /\ given' = given /\ seq' = seq /\ seqFile' = seqFile /\ counterLost' = counterLost
           /\ deaths' = deaths /\ powerLosses' = powerLosses /\ faults' = faults
           /\ \/ WriteRecord /\ shorts' = shorts /\ PutLine(NextLine(Current.lines, given, seq))
              \/ WriteShort /\ shorts' = shorts + 1 /\ PutLine(Torn)
<1>1. PICK line \in Line : PutLine(line)
    BY NextLineType DEF WriteRecord, WriteShort
<1>2. /\ pc = "write" /\ up /\ up' = up /\ handle' = handle
      /\ given' = given /\ seq' = seq /\ seqFile' = seqFile /\ counterLost' = counterLost
      /\ deaths' = deaths /\ powerLosses' = powerLosses /\ faults' = faults
      /\ \/ WriteRecord /\ shorts' = shorts /\ PutLine(NextLine(Current.lines, given, seq))
         \/ WriteShort /\ shorts' = shorts + 1 /\ PutLine(Torn)
    BY DEF WriteRecord, WriteShort, counts
<1>3. segments' \in Logs /\ pc' \in {"sync", "idle"} /\ sinceSync' = sinceSync + 1
      /\ returned' \in {returned, returned \cup {given}}
    BY <1>1, WriteStep
<1>4. handle /\ given \in Nat /\ shorts' \in Nat /\ sinceSync' \in Nat
    BY <1>2, <1>3, TypesNat DEF TypesInv
<1>5. returned' \subseteq 1..given'
    <2>1. given # 0 /\ returned \subseteq 1..given
        BY <1>2 DEF TypesInv
    <2>2. given \in 1..given
        BY <1>4, <2>1
    <2>3. QED
        BY <1>2, <1>3, <2>1, <2>2
<1>6. TypesInv'
    BY <1>2, <1>3, <1>4, <1>5 DEF TypesInv
<1>7. QED
    BY <1>2, <1>4, <1>6

LEMMA OtherTypes ==
    ASSUME TypesInv,
           SyncFile \/ PersistSeq \/ DiskFails \/ CloseWriter \/ CloseFails \/ Kill \/ Open \/ UNCHANGED vars
    PROVE  /\ TypesInv' /\ Same /\ given' = given /\ powerLosses' = powerLosses /\ shorts' = shorts
           /\ pc' = "write" => pc = "write" /\ returned' = returned
           /\ pc' \in {"sync", "persist"} => pc \in {"sync", "persist"} /\ returned' = returned
           /\ returned' = returned \/ (pc = "persist" /\ returned' = returned \cup {given})
<1>1. segments' \in Logs /\ Same
    <2>1. \/ segments' = segments
          \/ segments' = WithCurrent(Sync(Current))
          \/ segments' = Append(segments, EmptySegment)
        BY DEF SyncFile, PersistSeq, DiskFails, CloseWriter, CloseFails, Kill, Open, OpenFile, vars
    <2>2. QED
        BY <2>1, QuietStep DEF TypesInv
<1>2. /\ given' = given /\ powerLosses' = powerLosses /\ shorts' = shorts
      /\ pc' = "write" => pc = "write" /\ returned' = returned
      /\ pc' \in {"sync", "persist"} => pc \in {"sync", "persist"} /\ returned' = returned
      /\ returned' = returned \/ (pc = "persist" /\ returned' = returned \cup {given})
      /\ pc' # "idle" => pc # "idle" /\ up' = up /\ handle' = handle
    BY DEF SyncFile, PersistSeq, DiskFails, Raises, Fault, CloseWriter, CloseFails, Kill, Open, LoadSeq,
           vars, counts, writer, TypesInv
<1>3. /\ up' \in BOOLEAN /\ handle' \in BOOLEAN /\ deaths' \in {deaths, deaths + 1}
      /\ faults' \in {faults, faults + 1} /\ sinceSync' \in {sinceSync, 0}
      /\ pc' \in {"idle", "write", "sync", "persist"}
    BY DEF SyncFile, PersistSeq, DiskFails, Raises, Fault, CloseWriter, CloseFails, Kill, Open, LoadSeq,
           vars, counts, writer, TypesInv
<1>4. seq' \in {seq, seqFile, 0} /\ seqFile' \in {seqFile, seq} /\ counterLost' \in BOOLEAN
    BY DEF SyncFile, PersistSeq, DiskFails, Raises, Fault, CloseWriter, CloseFails, Kill, Open, LoadSeq,
           vars, counts, writer, TypesInv
<1>5. seq' \in 0..given' /\ seqFile' \in 0..given'
    BY <1>2, <1>4, TypesNat DEF TypesInv
<1>6. returned' \subseteq 1..given'
    <2>1. returned \subseteq 1..given /\ (pc = "persist" => given \in 1..given)
        BY TypesNat DEF TypesInv
    <2>2. QED
        BY <1>2, <2>1
<1>7. TypesInv'
    <2>1. given' = given /\ given' \in 0..MaxAppends /\ powerLosses' \in Nat /\ shorts' \in Nat
          /\ deaths' \in Nat /\ faults' \in Nat /\ sinceSync' \in Nat
        BY <1>2, <1>3 DEF TypesInv
    <2>2. pc' # "idle" => up' /\ handle' /\ given' # 0
        BY <1>2 DEF TypesInv
    <2>3. QED
        BY <1>1, <1>3, <1>4, <1>5, <1>6, <2>1, <2>2 DEF TypesInv
<1>8. QED
    BY <1>1, <1>2, <1>7

LEMMA LossTypes ==
    ASSUME TypesInv, PowerLoss
    PROVE  /\ TypesInv' /\ given' = given /\ returned' = returned /\ ~up' /\ pc' = "idle"
           /\ deaths' = deaths + 1 /\ powerLosses' = powerLosses + 1
           /\ faults' = faults /\ shorts' = shorts
<1>1. segments' \in Logs /\ seqFile' \in 0..seqFile
    BY LossStep
<1>2. /\ given' = given /\ returned' = returned /\ up' = FALSE /\ pc' = "idle" /\ handle' = handle
      /\ seq' = seq /\ sinceSync' = sinceSync /\ counterLost' = counterLost
      /\ deaths' = deaths + 1 /\ powerLosses' = powerLosses + 1
      /\ faults' = faults /\ shorts' = shorts
    BY DEF PowerLoss, writer
<1>3. seqFile' \in 0..given'
    BY <1>1, <1>2, TypesNat DEF TypesInv
<1>4. TypesInv'
    <2>1. given' \in 0..MaxAppends /\ seq' \in 0..given' /\ returned' \subseteq 1..given'
        BY <1>2 DEF TypesInv
    <2>2. deaths' \in Nat /\ powerLosses' \in Nat /\ faults' \in Nat /\ shorts' \in Nat
        BY <1>2 DEF TypesInv
    <2>3. sinceSync' \in Nat /\ up' \in BOOLEAN /\ handle' \in BOOLEAN /\ counterLost' \in BOOLEAN
        BY <1>2 DEF TypesInv
    <2>4. QED
        BY <1>1, <1>2, <1>3, <2>1, <2>2, <2>3 DEF TypesInv
<1>5. QED
    BY <1>2, <1>4

LEMMA NextTypes == TypesInv /\ [Next]_vars => TypesInv'
BY AppendTypes, WriteTypes, OtherTypes, LossTypes DEF Next, AppendStep

LEMMA TypesHold == Spec => []TypesInv
BY InitTypes, NextTypes, PTL DEF Spec
-----------------------------------------------------------------------------
(***************************************************************************)
(* What is read back: in the order it was given, each record once.         *)
(***************************************************************************)

\* s ascends strictly, from lo to at most hi.
Within(s, lo, hi) ==
    /\ \A n \in 1..Len(s) : s[n] \in lo..hi
    /\ \A m, n \in 1..Len(s) : m < n => s[m] < s[n]

LEMMA WithinAppend ==
    ASSUME NEW s \in Seq(Nat), NEW lo \in Nat, NEW hi \in Nat, NEW x \in lo..hi, Within(s, lo, x - 1)
    PROVE  s \o <<x>> = Append(s, x) /\ Within(s \o <<x>>, lo, hi)
<1>1. /\ Append(s, x) \in Seq(Nat) /\ Len(Append(s, x)) = Len(s) + 1 /\ Len(s) \in Nat
      /\ Append(s, x)[Len(s) + 1] = x /\ \A n \in 1..Len(s) : Append(s, x)[n] = s[n]
    BY LenProperties, AppendProperties
<1>2. s \o <<x>> = Append(s, x)
    BY AppendIsConcat
<1>3. \A n \in 1..Len(s) : s[n] \in lo..(x - 1)
    BY DEF Within
<1>4. \A n \in 1..(Len(s) + 1) : n \in 1..Len(s) \/ n = Len(s) + 1
    BY <1>1
<1>5. \A n \in 1..(Len(s) + 1) : Append(s, x)[n] \in lo..hi
    BY <1>1, <1>3, <1>4
<1>6. ASSUME NEW m \in 1..(Len(s) + 1), NEW n \in 1..(Len(s) + 1), m < n
      PROVE  Append(s, x)[m] < Append(s, x)[n]
    <2>1. m \in 1..Len(s) /\ Append(s, x)[m] = s[m]
        BY <1>1, <1>6
    <2>2. CASE n \in 1..Len(s)
        BY <1>1, <1>6, <2>1, <2>2 DEF Within
    <2>3. CASE n = Len(s) + 1
        BY <1>1, <1>3, <2>1, <2>3
    <2>4. QED
        BY <1>4, <2>2, <2>3
<1>7. QED
    BY <1>1, <1>2, <1>5, <1>6 DEF Within

LEMMA WithinSubsequence ==
    ASSUME NEW s, NEW t, NEW lo, NEW hi, Subsequence(s, t), Within(t, lo, hi)
    PROVE  Within(s, lo, hi) /\ \A n \in 1..Len(s) : \E m \in 1..Len(t) : s[n] = t[m]
<1>1. PICK h : Places(s, t, h)
    BY DEF Subsequence
<1>2. \A n \in 1..Len(s) : h[n] \in 1..Len(t) /\ s[n] = t[h[n]]
    BY <1>1 DEF Places
<1>3. \A m, n \in 1..Len(s) : m < n => h[m] < h[n]
    BY <1>1 DEF Places
<1>4. QED
    BY <1>2, <1>3 DEF Within

LEMMA WithinMore ==
    ASSUME NEW s, NEW lo \in Int, NEW hi \in Int, NEW more \in Int, hi <= more, Within(s, lo, hi)
    PROVE  Within(s, lo, more)
<1>1. \A n \in 1..Len(s) : s[n] \in lo..more
    BY DEF Within
<1>2. QED
    BY <1>1 DEF Within

\* What was read so far is older than the record a write is about to store.
RecordInv == Within(ReadRecords, 1, IF pc = "write" THEN given - 1 ELSE given)

LEMMA ReadRecordsType ==
    ASSUME TypesInv
    PROVE  ReadRecords \in Seq(Nat) /\ ReadSeqs \in Seq(Nat) /\ "record" \in Fields /\ "seq" \in Fields
<1>1. segments \in Seq(Segment)
    BY LogsType DEF TypesInv
<1>2. QED
    BY <1>1, ReadAllIs DEF Fields, ReadRecords, ReadSeqs

\* A step that changes nothing a reader sees.
LEMMA SameRead ==
    ASSUME TypesInv, Same
    PROVE  ReadRecords' = ReadRecords /\ ReadSeqs' = ReadSeqs
BY ReadRecordsType DEF Same, ReadRecords, ReadSeqs

LEMMA WriteRead ==
    ASSUME TypesInv, RecordInv, WriteRecord \/ WriteShort
    PROVE  /\ RecordInv'
           /\ ReadRecords' = ReadRecords \/ (ReadRecords' = Append(ReadRecords, given) /\ given \in 1..MaxAppends
                                              /\ Within(ReadRecords, 1, given - 1))
<1> DEFINE next == NextLine(Current.lines, given, seq)
<1>1. /\ TypesInv' /\ pc = "write" /\ given' = given
      /\ \/ WriteRecord /\ PutLine(next)
         \/ WriteShort /\ PutLine(Torn)
    BY WriteTypes
<1>2. next \in Line /\ Torn \in Line /\ ReadLine(Torn, "record") = <<>>
    BY NextLineType, TornType, ReadRecordsType
<1>3. \A line \in Line : PutLine(line) =>
          /\ ReadRecords' = ReadRecords \o ReadLine(line, "record")
          /\ pc' \in {"sync", "idle"}
    BY WriteStep, ReadRecordsType DEF ReadRecords
<1>4. ReadLine(next, "record") = <<>> \/ ReadLine(next, "record") = <<given>>
    BY DEF NextLine, ReadLine
<1>5. ReadRecords' = ReadRecords \o <<>> \/ ReadRecords' = ReadRecords \o <<given>>
    BY <1>1, <1>2, <1>3, <1>4
<1>6. Within(ReadRecords, 1, given - 1) /\ given \in 1..MaxAppends /\ given \in Nat
      /\ ReadRecords \in Seq(Nat) /\ pc' # "write"
    <2>1. given \in 1..MaxAppends /\ given \in Nat
        BY <1>1, TypesNat DEF TypesInv
    <2>2. pc' # "write"
        BY <1>1, <1>2, <1>3
    <2>3. QED
        BY <1>1, <2>1, <2>2, ReadRecordsType DEF RecordInv
<1>7. CASE ReadRecords' = ReadRecords \o <<>>
    <2>1. ReadRecords' = ReadRecords
        BY <1>6, <1>7, ConcatEmptySeq
    <2>2. Within(ReadRecords, 1, given)
        BY <1>6, WithinMore
    <2>3. QED
        BY <1>1, <1>6, <2>1, <2>2 DEF RecordInv
<1>8. CASE ReadRecords' = ReadRecords \o <<given>>
    <2>1. given \in 1..given /\ 1 \in Nat
        BY <1>6
    <2>2. ReadRecords' = Append(ReadRecords, given) /\ Within(ReadRecords', 1, given)
        BY <1>6, <1>8, <2>1, WithinAppend
    <2>3. QED
        BY <1>1, <1>6, <2>2 DEF RecordInv
<1>9. QED
    BY <1>5, <1>7, <1>8

LEMMA LossKeepsOrder ==
    ASSUME TypesInv, RecordInv, PowerLoss
    PROVE  /\ RecordInv' /\ powerLosses' = powerLosses + 1 /\ Within(ReadRecords, 1, given)
           /\ Subsequence(ReadRecords', ReadRecords)
<1>1. Subsequence(ReadRecords', ReadRecords)
    BY LossStep, ReadRecordsType DEF ReadRecords
<1>2. given' = given /\ pc' = "idle" /\ powerLosses' = powerLosses + 1
    BY LossTypes
<1>3. Within(ReadRecords, 1, given)
    <2>1. given \in Int /\ given - 1 \in Int /\ 1 \in Int /\ given - 1 <= given
        BY TypesNat
    <2>2. QED
        BY <2>1, WithinMore DEF RecordInv
<1>4. Within(ReadRecords', 1, given)
    BY <1>1, <1>3, WithinSubsequence
<1>5. QED
    BY <1>1, <1>2, <1>3, <1>4 DEF RecordInv

LEMMA NextRecord ==
    ASSUME TypesInv, RecordInv, [Next]_vars
    PROVE  RecordInv'
<1>1. given \in Nat /\ 1 \in Int
    BY TypesNat
<1>2. CASE AppendHere \/ AppendRotating \/ RotationFails \/ AppendRefused
    <2>1. Same /\ given' = given + 1 /\ pc = "idle"
        BY <1>2, AppendTypes
    <2>2. ReadRecords' = ReadRecords /\ Within(ReadRecords, 1, given)
        BY <2>1, SameRead DEF RecordInv
    <2>3. Within(ReadRecords, 1, given + 1)
        BY <1>1, <2>2, WithinMore
    <2>4. (IF pc' = "write" THEN given' - 1 ELSE given') = given \/
          (IF pc' = "write" THEN given' - 1 ELSE given') = given + 1
        BY <1>1, <2>1
    <2>5. QED
        BY <2>2, <2>3, <2>4 DEF RecordInv
<1>3. CASE WriteRecord \/ WriteShort
    BY <1>3, WriteRead
<1>4. CASE SyncFile \/ PersistSeq \/ DiskFails \/ CloseWriter \/ CloseFails \/ Kill \/ Open \/ UNCHANGED vars
    <2>1. Same /\ given' = given /\ (pc' = "write" => pc = "write")
        BY <1>4, OtherTypes
    <2>2. ReadRecords' = ReadRecords
        BY <2>1, SameRead
    <2>3. Within(ReadRecords, 1, given - 1) => Within(ReadRecords, 1, given)
        BY <1>1, WithinMore
    <2>4. QED
        BY <2>1, <2>2, <2>3 DEF RecordInv
<1>5. CASE PowerLoss
    BY <1>5, LossKeepsOrder
<1>6. QED
    BY <1>2, <1>3, <1>4, <1>5 DEF Next, AppendStep

LEMMA InitRecord == Init => RecordInv
<1> SUFFICES ASSUME Init PROVE RecordInv
    OBVIOUS
<1>1. ReadRecords = <<>> /\ Len(<<>>) = 0
    BY InitTypes, EmptySeq DEF ReadRecords, Fields
<1>2. QED
    BY <1>1 DEF RecordInv, Within

LEMMA RecordsHold == Spec => [](TypesInv /\ RecordInv)
BY InitTypes, InitRecord, NextTypes, NextRecord, PTL DEF Spec

(***************************************************************************)
(* The log implements what it promises its readers (wal.py:67-177): every  *)
(* step of the writer, and every death, gives the readers one record more, *)
(* changes nothing they see, or, after a power loss, takes some of what    *)
(* they saw and leaves the rest in order.                                  *)
(***************************************************************************)
THEOREM LogImplements == Spec => ImplementsAppendLog
<1>1. Init => Promise!Init
    BY InitTypes DEF Init, Promise!Init, ReadRecords, Fields
<1>2. ASSUME TypesInv, RecordInv, [Next]_vars
      PROVE  [Promise!Next]_(Promise!vars)
    <2>1. CASE AppendHere \/ AppendRotating \/ RotationFails \/ AppendRefused
        <3>1. ReadRecords' = ReadRecords
            BY <1>2, <2>1, AppendTypes, SameRead
        <3>2. powerLosses' = powerLosses
            BY <2>1 DEF AppendHere, AppendRotating, RotationFails, AppendRefused, Raises, Fault, counts
        <3>3. QED
            BY <3>1, <3>2 DEF Promise!vars
    <2>2. CASE WriteRecord \/ WriteShort
        <3>1. powerLosses' = powerLosses
            BY <1>2, <2>2, WriteTypes
        <3>2. CASE ReadRecords' = ReadRecords
            BY <3>1, <3>2 DEF Promise!vars
        <3>3. CASE ReadRecords' = Append(ReadRecords, given) /\ given \in 1..MaxAppends
                   /\ Within(ReadRecords, 1, given - 1)
            <4>1. ReadRecords \in Seq(Nat) /\ DOMAIN ReadRecords = 1..Len(ReadRecords)
                BY <1>2, ReadRecordsType, LenProperties
            <4>2. \A m \in DOMAIN ReadRecords : ReadRecords[m] < given
                BY <3>3, <4>1 DEF Within
            <4>3. Promise!Give(given)
                BY <3>1, <3>3, <4>2 DEF Promise!Give
            <4>4. QED
                BY <3>3, <4>3 DEF Promise!Next
        <3>4. QED
            BY <1>2, <2>2, <3>2, <3>3, WriteRead
    <2>3. CASE SyncFile \/ PersistSeq \/ DiskFails \/ CloseWriter \/ CloseFails \/ Kill \/ Open \/ UNCHANGED vars
        <3>1. Same /\ powerLosses' = powerLosses
            BY <1>2, <2>3, OtherTypes
        <3>2. ReadRecords' = ReadRecords
            BY <1>2, <3>1, SameRead
        <3>3. QED
            BY <3>1, <3>2 DEF Promise!vars
    <2>4. CASE PowerLoss
        <3>1. /\ powerLosses' = powerLosses + 1 /\ Within(ReadRecords, 1, given)
              /\ Subsequence(ReadRecords', ReadRecords) /\ given' = given
            BY <1>2, <2>4, LossKeepsOrder, LossTypes
        <3>2. /\ Within(ReadRecords', 1, given)
              /\ \A n \in 1..Len(ReadRecords') : \E m \in 1..Len(ReadRecords) : ReadRecords'[n] = ReadRecords[m]
            BY <3>1, WithinSubsequence
        <3>3. ReadRecords' \in Seq(Nat) /\ ReadRecords \in Seq(Nat) /\ given \in 0..MaxAppends /\ MaxAppends \in Nat
            <4>1. TypesInv'
                BY <1>2, NextTypes
            <4>2. ReadAll(segments', "record") \in Seq(Nat)
                <5>1. segments' \in Seq(Segment)
                    BY <4>1, LogsType DEF TypesInv
                <5>2. QED
                    BY <5>1, ReadAllIs DEF Fields
            <4>3. QED
                BY <1>2, <4>2, ReadRecordsType, TypesNat DEF TypesInv, ReadRecords
        <3>4. /\ Len(ReadRecords') \in Nat /\ DOMAIN ReadRecords' = 1..Len(ReadRecords')
              /\ DOMAIN ReadRecords = 1..Len(ReadRecords)
            BY <3>3, LenProperties
        <3>5. ReadRecords' \in Seq(1..MaxAppends)
            <4>1. \A n \in 1..Len(ReadRecords') : ReadRecords'[n] \in 1..MaxAppends
                BY <3>2, <3>3 DEF Within
            <4>2. ReadRecords' \in [1..Len(ReadRecords') -> 1..MaxAppends]
                BY <3>3, <4>1, LenProperties
            <4>3. QED
                BY <3>4, <4>2, SeqDef
        <3>6. Promise!Ascending(ReadRecords')
            <4>1. \A m \in 2..Len(ReadRecords') : m - 1 \in 1..Len(ReadRecords') /\ m \in 1..Len(ReadRecords') /\ m - 1 < m
                BY <3>4
            <4>2. \A m \in 2..Len(ReadRecords') : ReadRecords'[m - 1] < ReadRecords'[m]
                BY <3>2, <4>1 DEF Within
            <4>3. QED
                BY <4>2 DEF Promise!Ascending
        <3>7. Promise!Elements(ReadRecords') \subseteq Promise!Elements(ReadRecords)
            BY <3>2, <3>4 DEF Promise!Elements
        <3>8. QED
            BY <3>1, <3>5, <3>6, <3>7 DEF Promise!LosePower, Promise!Next
    <2>5. QED
        BY <1>2, <2>1, <2>2, <2>3, <2>4 DEF Next, AppendStep
<1>3. QED
    BY <1>1, <1>2, RecordsHold, PTL DEF Spec, ImplementsAppendLog, Promise!Spec
-----------------------------------------------------------------------------
(***************************************************************************)
(* What kills and failures of the disk cannot do.                          *)
(***************************************************************************)

LEMMA NextTail ==
    ASSUME TypesInv
    PROVE  /\ pc # "idle" => NextLine(Current.lines, given, seq) # Torn
           /\ NextLine(Current.lines, given, seq).whole <=> ~TornTail(segments)
           /\ NextLine(Current.lines, given, seq).record = given
           /\ NextLine(Current.lines, given, seq).seq = seq
BY NextLineType DEF NextLine, TornTail, Last, Current

\* A step that stores no line: the last segment is torn if it was.
LEMMA QuietTail ==
    ASSUME segments \in Logs,
           \/ segments' = segments
           \/ segments' = WithCurrent(Sync(Current))
           \/ segments' = Append(segments, EmptySegment)
           \/ segments' = Append(WithCurrent(Sync(Current)), EmptySegment)
    PROVE  TornTail(segments') => TornTail(segments)
<1> DEFINE synced == SetLast(segments, Sync(Last(segments)))
<1>1. synced \in Logs /\ TornTail(synced) = TornTail(segments)
    BY SyncLast
<1>2. WithCurrent(Sync(Current)) = synced
    BY DEF WithCurrent, Current, SetLast, Last
<1> HIDE DEF synced
<1>3. \A segs \in Logs : ~TornTail(Append(segs, EmptySegment))
    BY AddSegment
<1>4. CASE segments' = segments
    BY <1>4
<1>5. CASE segments' = synced
    BY <1>1, <1>5
<1>6. CASE segments' = Append(segments, EmptySegment)
    BY <1>3, <1>6
<1>7. CASE segments' = Append(synced, EmptySegment)
    BY <1>1, <1>3, <1>7
<1>8. QED
    BY <1>2, <1>4, <1>5, <1>6, <1>7

LEMMA StepTail ==
    ASSUME TypesInv,
           \/ AppendHere \/ AppendRotating \/ RotationFails \/ AppendRefused
           \/ SyncFile \/ PersistSeq \/ DiskFails \/ CloseWriter \/ CloseFails \/ Kill \/ Open \/ UNCHANGED vars
    PROVE  TornTail(segments') => TornTail(segments)
<1>1. \/ segments' = segments
      \/ segments' = WithCurrent(Sync(Current))
      \/ segments' = Append(segments, EmptySegment)
      \/ segments' = Append(WithCurrent(Sync(Current)), EmptySegment)
    BY DEF AppendHere, AppendRotating, RotationFails, AppendRefused,
           SyncFile, PersistSeq, DiskFails, CloseWriter, CloseFails, Kill, Open, OpenFile, vars
<1>2. QED
    BY <1>1, QuietTail DEF TypesInv

\* Without a power loss or a short write no line is torn, and what returned is in the file.
KillInv ==
    powerLosses = 0 /\ shorts = 0 =>
        /\ returned \subseteq ToSet(ReadRecords) /\ ~TornTail(segments)
        /\ pc \in {"sync", "persist"} => given \in ToSet(ReadRecords)

LEMMA InitKill == Init => KillInv
<1> SUFFICES ASSUME Init PROVE KillInv
    OBVIOUS
<1>1. returned = {} /\ pc = "idle" /\ segments = <<EmptySegment>>
    BY DEF Init
<1>2. Last(segments).lines = <<>>
    BY <1>1 DEF Last, EmptySegment
<1>3. QED
    BY <1>1, <1>2 DEF KillInv, TornTail

LEMMA NextKill ==
    ASSUME TypesInv, KillInv, [Next]_vars
    PROVE  KillInv'
<1>1. powerLosses \in Nat /\ shorts \in Nat
    BY DEF TypesInv
<1>2. CASE AppendHere \/ AppendRotating \/ RotationFails \/ AppendRefused
    <2>1. ReadRecords' = ReadRecords /\ returned' = returned
        BY <1>2, AppendTypes, SameRead
    <2>2. powerLosses' = powerLosses /\ shorts' = shorts /\ pc' \notin {"sync", "persist"}
        BY <1>2 DEF AppendHere, AppendRotating, RotationFails, AppendRefused, Raises, Fault, counts, Begin
    <2>3. TornTail(segments') => TornTail(segments)
        BY <1>2, StepTail
    <2>4. QED
        BY <2>1, <2>2, <2>3 DEF KillInv
<1>3. CASE SyncFile \/ PersistSeq \/ DiskFails \/ CloseWriter \/ CloseFails \/ Kill \/ Open \/ UNCHANGED vars
    <2>1. ReadRecords' = ReadRecords
        BY <1>3, OtherTypes, SameRead
    <2>2. /\ given' = given /\ powerLosses' = powerLosses /\ shorts' = shorts
          /\ pc' \in {"sync", "persist"} => pc \in {"sync", "persist"}
          /\ returned' = returned \/ (pc = "persist" /\ returned' = returned \cup {given})
        BY <1>3, OtherTypes
    <2>3. TornTail(segments') => TornTail(segments)
        BY <1>3, StepTail
    <2>4. SUFFICES ASSUME powerLosses = 0 /\ shorts = 0
                   PROVE  /\ returned' \subseteq ToSet(ReadRecords) /\ ~TornTail(segments')
                          /\ pc' \in {"sync", "persist"} => given \in ToSet(ReadRecords)
        BY <2>1, <2>2 DEF KillInv
    <2>5. /\ returned \subseteq ToSet(ReadRecords) /\ ~TornTail(segments)
          /\ pc \in {"sync", "persist"} => given \in ToSet(ReadRecords)
        BY <2>4 DEF KillInv
    <2>6. QED
        BY <2>2, <2>3, <2>5
<1>4. CASE WriteRecord
    <2> DEFINE next == NextLine(Current.lines, given, seq)
    <2>1. PutLine(next) /\ next \in Line /\ pc = "write"
        BY <1>4, NextLineType DEF WriteRecord
    <2>2. given' = given /\ powerLosses' = powerLosses /\ shorts' = shorts
        BY <1>4 DEF WriteRecord, counts
    <2>3. next # Torn /\ (next.whole <=> ~TornTail(segments)) /\ next.record = given
        BY <2>1, NextTail
    <2> HIDE DEF next
    <2>4. SUFFICES ASSUME powerLosses = 0 /\ shorts = 0
                   PROVE  /\ returned' \subseteq ToSet(ReadRecords') /\ ~TornTail(segments')
                          /\ given \in ToSet(ReadRecords')
        BY <2>2 DEF KillInv
    <2>5. returned \subseteq ToSet(ReadRecords) /\ next.whole
        BY <2>3, <2>4 DEF KillInv
    <2>6. ReadRecords' = ReadRecords \o <<given>>
        <3>1. ReadLine(next, "record") = <<given>>
            BY <2>3, <2>5 DEF ReadLine
        <3>2. QED
            BY <2>1, <3>1, WriteStep, ReadRecordsType DEF ReadRecords
    <2>7. ToSet(ReadRecords') = ToSet(ReadRecords) \cup {given}
        <3>1. given \in Nat /\ <<given>> \in Seq(Nat) /\ ReadRecords \in Seq(Nat)
            BY TypesNat, ReadRecordsType
        <3>2. ToSet(<<given>>) = {given}
            BY DEF ToSet
        <3>3. ToSet(ReadRecords \o <<given>>) = ToSet(ReadRecords) \cup ToSet(<<given>>)
            BY <3>1, ToSetConcat
        <3>4. QED
            BY <2>6, <3>2, <3>3
    <2>8. ~TornTail(segments')
        <3>1. segments' = SetLast(segments, [Last(segments) EXCEPT !.lines = Append(@, next)])
            BY <2>1, WriteStep
        <3>2. QED
            BY <2>1, <2>3, <3>1, PutLast DEF TypesInv
    <2>9. returned' \in {returned, returned \cup {given}}
        BY <2>1, WriteStep
    <2>10. QED
        BY <2>5, <2>7, <2>8, <2>9
<1>5. CASE WriteShort
    BY <1>1, <1>5 DEF WriteShort, KillInv
<1>6. CASE PowerLoss
    BY <1>1, <1>6 DEF PowerLoss, KillInv
<1>7. QED
    BY <1>2, <1>3, <1>4, <1>5, <1>6 DEF Next, AppendStep

(***************************************************************************)
(* "No tick is processed before it hits disk" (README.md:11, wal.py:67):   *)
(* as long as the machine stays up and no write stores a part of its line, *)
(* what was appended before a return is read back, whatever raises and     *)
(* whenever the process is killed.                                         *)
(***************************************************************************)
THEOREM ReturnedAreRead == Spec => []ReturnedSurvivesKill
<1>1. KillInv => ReturnedSurvivesKill
    BY DEF KillInv, ReturnedSurvivesKill, Lost
<1>2. QED
    BY <1>1, InitTypes, InitKill, NextTypes, NextKill, PTL DEF Spec

\* As long as the counter is kept, the numbers of the next process go on where the last stopped.
SeqInv ==
    deaths = 0 /\ ~counterLost =>
        /\ ~up => seqFile = seq
        /\ Within(ReadSeqs, 0, IF pc = "write" THEN seq - 1 ELSE seq)

LEMMA InitSeq == Init => SeqInv
<1> SUFFICES ASSUME Init PROVE SeqInv
    OBVIOUS
<1>1. ReadSeqs = <<>> /\ Len(<<>>) = 0
    BY InitTypes, EmptySeq DEF ReadSeqs, Fields
<1>2. QED
    BY <1>1 DEF SeqInv, Within, Init

LEMMA NextSeq ==
    ASSUME TypesInv, SeqInv, [Next]_vars
    PROVE  SeqInv'
<1>1. deaths \in Nat /\ counterLost \in BOOLEAN /\ seq \in Nat /\ 0 \in Int /\ (pc # "idle" => up)
    BY TypesNat DEF TypesInv
<1>2. CASE AppendHere \/ AppendRotating \/ RotationFails \/ AppendRefused
    <2>1. ReadSeqs' = ReadSeqs /\ seq' \in {seq, seq + 1} /\ (seq' = seq => pc' = "idle") /\ pc = "idle"
        BY <1>2, AppendTypes, SameRead
    <2>2. deaths' = deaths /\ counterLost' = counterLost /\ up'
        BY <1>2 DEF AppendHere, AppendRotating, RotationFails, AppendRefused, Raises, Fault, counts, Begin
    <2>3. SUFFICES ASSUME deaths = 0, ~counterLost
                   PROVE  Within(ReadSeqs, 0, IF pc' = "write" THEN seq' - 1 ELSE seq')
        BY <2>1, <2>2 DEF SeqInv
    <2>4. Within(ReadSeqs, 0, seq)
        BY <2>1, <2>3 DEF SeqInv
    <2>5. Within(ReadSeqs, 0, seq + 1)
        BY <1>1, <2>4, WithinMore
    <2>6. CASE pc' = "write"
        <3>1. seq' = seq + 1
            BY <2>1, <2>6
        <3>2. seq' - 1 = seq
            BY <1>1, <3>1
        <3>3. QED
            BY <2>4, <2>6, <3>2
    <2>7. CASE pc' # "write"
        BY <2>1, <2>4, <2>5, <2>7
    <2>8. QED
        BY <2>6, <2>7
<1>3. CASE SyncFile \/ PersistSeq \/ DiskFails \/ CloseWriter \/ CloseFails \/ Kill \/ Open \/ UNCHANGED vars
    <2>1. ReadSeqs' = ReadSeqs /\ (pc' = "write" => pc = "write")
        BY <1>3, OtherTypes, SameRead
    <2>2. \/ deaths' = deaths + 1
          \/ /\ deaths' = deaths /\ (counterLost => counterLost')
             /\ \/ up' = up /\ seq' = seq /\ seqFile' = seqFile
                \/ up' = up /\ up /\ seq' = seq
                \/ ~up' /\ seq' = seq /\ seqFile' = seq
                \/ ~up' /\ seq' = seq /\ seqFile' = seqFile /\ (~counterLost' => seqFile = seq)
                \/ ~up /\ seq' = seqFile /\ up'
                \/ ~up /\ seq' = 0 /\ up' /\ (~counterLost' => seqFile = 0)
        <3>1. CASE SyncFile \/ PersistSeq \/ DiskFails \/ UNCHANGED vars
            BY <3>1 DEF SyncFile, PersistSeq, DiskFails, Raises, Fault, vars, counts, writer
        <3>2. CASE CloseWriter
            BY <3>2 DEF CloseWriter, Fault, counts, writer
        <3>3. CASE CloseFails
            BY <1>1, <3>3 DEF CloseFails, Raises, Fault, writer
        <3>4. CASE Kill
            BY <3>4 DEF Kill
        <3>5. CASE Open
            BY <1>1, <3>5 DEF Open, LoadSeq, Fault, counts
        <3>6. QED
            BY <1>3, <3>1, <3>2, <3>3, <3>4, <3>5
    <2>3. SUFFICES ASSUME deaths' = deaths, deaths = 0, ~counterLost, ~counterLost'
                   PROVE  SeqInv'
        <3>1. deaths' = deaths + 1 => deaths' # 0
            BY <1>1
        <3>2. QED
            BY <2>2, <3>1 DEF SeqInv
    <2>4. Within(ReadSeqs, 0, seq)
        BY <1>1, <2>3, WithinMore DEF SeqInv
    <2>5. ~up => seqFile = seq
        BY <2>3 DEF SeqInv
    <2>6. seq' = seq /\ (~up' => seqFile' = seq')
        <3>1. deaths' # deaths + 1
            BY <1>1, <2>3
        <3>2. QED
            BY <2>2, <2>3, <2>5, <3>1
    <2>7. Within(ReadSeqs, 0, IF pc' = "write" THEN seq' - 1 ELSE seq')
        BY <2>1, <2>3, <2>4, <2>6 DEF SeqInv
    <2>8. QED
        BY <2>1, <2>6, <2>7 DEF SeqInv
<1>4. CASE WriteRecord \/ WriteShort
    <2> DEFINE next == NextLine(Current.lines, given, seq)
    <2>1. /\ pc = "write" /\ up /\ up' = up /\ seq' = seq
          /\ deaths' = deaths /\ counterLost' = counterLost
          /\ PutLine(next) \/ PutLine(Torn)
        BY <1>4, WriteTypes
    <2>2. next \in Line /\ Torn \in Line /\ ReadLine(Torn, "seq") = <<>>
        BY NextLineType, TornType, ReadRecordsType
    <2>3. \A line \in Line : PutLine(line) =>
              /\ ReadSeqs' = ReadSeqs \o ReadLine(line, "seq")
              /\ pc' \in {"sync", "idle"}
        BY WriteStep, ReadRecordsType DEF ReadSeqs
    <2>4. ReadLine(next, "seq") = <<>> \/ ReadLine(next, "seq") = <<seq>>
        BY DEF NextLine, ReadLine
    <2>5. (ReadSeqs' = ReadSeqs \o <<>> \/ ReadSeqs' = ReadSeqs \o <<seq>>) /\ pc' # "write"
        BY <2>1, <2>2, <2>3, <2>4
    <2>6. SUFFICES ASSUME deaths = 0, ~counterLost
                   PROVE  Within(ReadSeqs', 0, seq)
        BY <2>1, <2>5 DEF SeqInv
    <2>7. Within(ReadSeqs, 0, seq - 1) /\ ReadSeqs \in Seq(Nat)
        BY <2>1, <2>6, ReadRecordsType DEF SeqInv
    <2>8. CASE ReadSeqs' = ReadSeqs \o <<>>
        <3>1. ReadSeqs' = ReadSeqs
            BY <2>7, <2>8, ConcatEmptySeq
        <3>2. QED
            BY <1>1, <2>7, <3>1, WithinMore
    <2>9. CASE ReadSeqs' = ReadSeqs \o <<seq>>
        <3>1. 0 \in Nat /\ seq \in 0..seq
            BY <1>1
        <3>2. QED
            BY <1>1, <2>7, <2>9, <3>1, WithinAppend
    <2>10. QED
        BY <2>5, <2>8, <2>9
<1>5. CASE PowerLoss
    BY <1>1, <1>5 DEF PowerLoss, SeqInv
<1>6. QED
    BY <1>2, <1>3, <1>4, <1>5 DEF Next, AppendStep

(***************************************************************************)
(* The seq fields ascend over all segments and restarts (wal.py:46-145) as *)
(* long as no process is killed and the counter is kept: each process that *)
(* ended had saved it, each that began could read it.  Any other call to   *)
(* the disk that raises loses a number and never gives one twice.          *)
(***************************************************************************)
THEOREM SeqsAscend == Spec => []SeqAscendsWhileCounted
<1>1. TypesInv /\ SeqInv => SeqAscendsWhileCounted
    <2> SUFFICES ASSUME TypesInv, SeqInv, deaths = 0, ~counterLost
                 PROVE  \A m, n \in DOMAIN ReadSeqs : m < n => ReadSeqs[m] < ReadSeqs[n]
        BY DEF SeqAscendsWhileCounted
    <2>1. DOMAIN ReadSeqs = 1..Len(ReadSeqs)
        BY ReadRecordsType, LenProperties
    <2>2. QED
        BY <2>1 DEF SeqInv, Within
<1>2. QED
    BY <1>1, InitTypes, InitSeq, NextTypes, NextSeq, PTL DEF Spec
-----------------------------------------------------------------------------
(***************************************************************************)
(* What a death can cost.                                                  *)
(***************************************************************************)

Period == Max({1, FsyncEvery})

Budget == (deaths + faults) * Period + 2 * shorts

\* What the running process may leave unsynced.
Slack ==
    IF up /\ handle THEN (IF sinceSync < Period THEN sinceSync ELSE Period - 1) ELSE 0

\* Returned and not certainly on the disk; and not even in the file a sync would save.
Exposed == {r \in returned : ~Safe(segments, r)}

Stuck == {r \in returned : ~Safe(segments, r) /\ ~InLast(segments, r)}

\* What is still to be lost: the line that will join a torn one, the record not yet returned.
Joining == IF TornTail(segments) THEN 1 ELSE 0

Missing == IF pc \in {"sync", "persist"} /\ ~InLast(segments, given) THEN 1 ELSE 0

BudgetInv ==
    /\ Cardinality(Stuck) + Joining + Missing <= Budget
    /\ Cardinality(Exposed) + Joining + Missing <= Budget + Slack
    /\ pc = "persist" => Last(segments).synced = Len(Last(segments).lines)

LEMMA PeriodIs ==
    /\ Period \in Nat \ {0}
    /\ \A n \in Nat : n # 0 => (SyncIsDue(n) <=> n >= Period)
<1>1. FsyncEvery \in Nat
    BY LogAssumption
<1>2. \E p \in {1, FsyncEvery} : \A y \in {1, FsyncEvery} : p >= y
    BY <1>1
<1>3. Period \in {1, FsyncEvery} /\ \A y \in {1, FsyncEvery} : Period >= y
    BY <1>2 DEF Period, Max
<1>4. QED
    BY <1>1, <1>3 DEF SyncIsDue

LEMMA Sizes ==
    ASSUME NEW n \in Nat, NEW R, R \subseteq 1..n, NEW S, S \subseteq R
    PROVE  IsFiniteSet(S) /\ Cardinality(S) \in Nat
<1>1. IsFiniteSet(1..n) /\ S \subseteq 1..n
    BY FS_Interval
<1>2. IsFiniteSet(S)
    BY <1>1, FS_Subset
<1>3. QED
    BY <1>2, FS_CardinalityType

LEMMA Smaller ==
    ASSUME NEW S, IsFiniteSet(S), NEW T, T \subseteq S
    PROVE  Cardinality(T) <= Cardinality(S)
BY FS_Subset

LEMMA OneMore ==
    ASSUME NEW S, IsFiniteSet(S), NEW x, NEW T, T \subseteq S \cup {x}
    PROVE  Cardinality(T) <= Cardinality(S) + 1
<1>1. /\ IsFiniteSet(S \cup {x}) /\ Cardinality(S) \in Nat /\ Cardinality(S \cup {x}) \in Nat
      /\ Cardinality(S \cup {x}) <= Cardinality(S) + 1
    <2>1. /\ IsFiniteSet(S \cup {x})
          /\ Cardinality(S \cup {x}) = IF x \in S THEN Cardinality(S) ELSE Cardinality(S) + 1
        BY FS_AddElement
    <2>2. Cardinality(S) \in Nat
        BY FS_CardinalityType
    <2>3. QED
        BY <2>1, <2>2
<1>2. IsFiniteSet(T) /\ Cardinality(T) <= Cardinality(S \cup {x})
    BY <1>1, FS_Subset
<1>3. Cardinality(T) \in Nat
    BY <1>2, FS_CardinalityType
<1>4. QED
    BY <1>1, <1>2, <1>3

LEMMA BudgetTypes ==
    ASSUME TypesInv
    PROVE  /\ Period \in Nat \ {0} /\ Budget \in Nat /\ Slack \in 0..(Period - 1)
           /\ Joining \in {0, 1} /\ Missing \in {0, 1}
           /\ Cardinality(Stuck) \in Nat /\ Cardinality(Exposed) \in Nat
           /\ IsFiniteSet(Stuck) /\ IsFiniteSet(Exposed)
<1>1. Period \in Nat \ {0}
    BY PeriodIs
<1>2. deaths + faults \in Nat /\ shorts \in Nat /\ sinceSync \in Nat
    BY DEF TypesInv
<1>3. Budget \in Nat
    BY <1>1, <1>2 DEF Budget
<1>4. Slack \in 0..(Period - 1)
    BY <1>1, <1>2 DEF Slack
<1>5. given \in Nat /\ returned \subseteq 1..given /\ Stuck \subseteq returned /\ Exposed \subseteq returned
    BY TypesNat DEF TypesInv, Stuck, Exposed
<1>6. Cardinality(Stuck) \in Nat /\ Cardinality(Exposed) \in Nat /\ IsFiniteSet(Stuck) /\ IsFiniteSet(Exposed)
    BY <1>5, Sizes
<1>7. QED
    BY <1>1, <1>3, <1>4, <1>6 DEF Joining, Missing

\* The budget of one death or failure more.
LEMMA BudgetGrows ==
    ASSUME TypesInv
    PROVE  /\ deaths' = deaths + 1 /\ faults' = faults /\ shorts' = shorts => Budget' = Budget + Period
           /\ deaths' = deaths /\ faults' = faults + 1 /\ shorts' = shorts => Budget' = Budget + Period
           /\ deaths' = deaths /\ faults' = faults /\ shorts' = shorts + 1 => Budget' = Budget + 2
           /\ deaths' = deaths /\ faults' = faults /\ shorts' = shorts => Budget' = Budget
<1>1. Period \in Nat /\ deaths \in Nat /\ faults \in Nat /\ shorts \in Nat
    BY PeriodIs DEF TypesInv
<1>2. Budget = (deaths + faults) * Period + 2 * shorts /\ Budget' = (deaths' + faults') * Period + 2 * shorts'
    BY DEF Budget, Period
<1>3. \A k \in Nat : (k + 1) * Period = k * Period + Period
    BY <1>1
<1>4. (deaths + faults + 1) * Period = (deaths + faults) * Period + Period
    BY <1>1, <1>3
<1>5. (deaths + 1) + faults = deaths + faults + 1 /\ deaths + (faults + 1) = deaths + faults + 1
    BY <1>1
<1>6. (deaths + faults) * Period \in Nat /\ 2 * (shorts + 1) = 2 * shorts + 2
    BY <1>1
<1>7. ASSUME deaths' = deaths + 1, faults' = faults, shorts' = shorts
      PROVE  Budget' = Budget + Period
    BY <1>1, <1>2, <1>4, <1>5, <1>6, <1>7
<1>8. ASSUME deaths' = deaths, faults' = faults + 1, shorts' = shorts
      PROVE  Budget' = Budget + Period
    BY <1>1, <1>2, <1>4, <1>5, <1>6, <1>8
<1>9. ASSUME deaths' = deaths, faults' = faults, shorts' = shorts + 1
      PROVE  Budget' = Budget + 2
    BY <1>1, <1>2, <1>6, <1>9
<1>10. ASSUME deaths' = deaths, faults' = faults, shorts' = shorts
       PROVE  Budget' = Budget
    BY <1>2, <1>10
<1>11. QED
    BY <1>7, <1>8, <1>9, <1>10

\* What a step that stores no line does to them.
LEMMA QuietSets ==
    ASSUME TypesInv, returned' = returned
    PROVE  /\ segments' = segments =>
                  /\ Stuck' = Stuck /\ Exposed' = Exposed /\ Joining' = Joining
                  /\ \A r : InLast(segments', r) <=> InLast(segments, r)
           /\ segments' = WithCurrent(Sync(Current)) =>
                  /\ Stuck' = Stuck /\ Exposed' = Stuck /\ Joining' = Joining
                  /\ \A r : InLast(segments', r) <=> InLast(segments, r)
                  /\ Last(segments').synced = Len(Last(segments').lines)
           /\ segments' = Append(segments, EmptySegment) =>
                  Stuck' = Exposed /\ Exposed' = Exposed /\ Joining' = 0
           /\ segments' = Append(WithCurrent(Sync(Current)), EmptySegment) =>
                  Stuck' = Stuck /\ Exposed' = Stuck /\ Joining' = 0
<1> DEFINE synced == SetLast(segments, Sync(Last(segments)))
<1>1. segments \in Logs
    BY DEF TypesInv
<1>2. /\ synced \in Logs /\ Last(synced).synced = Len(Last(synced).lines)
      /\ \A r : Safe(synced, r) <=> Safe(segments, r) \/ InLast(segments, r)
      /\ \A r : InLast(synced, r) <=> InLast(segments, r)
      /\ TornTail(synced) = TornTail(segments)
    BY <1>1, SyncLast
<1>3. WithCurrent(Sync(Current)) = synced
    BY DEF WithCurrent, Current, SetLast, Last
<1> HIDE DEF synced
<1>4. \A segs \in Logs : /\ \A r : Safe(Append(segs, EmptySegment), r) <=> Safe(segs, r)
                         /\ \A r : ~InLast(Append(segs, EmptySegment), r)
                         /\ ~TornTail(Append(segs, EmptySegment))
    BY AddSegment
<1>5. /\ Stuck' = {r \in returned : ~Safe(segments', r) /\ ~InLast(segments', r)}
      /\ Exposed' = {r \in returned : ~Safe(segments', r)}
      /\ Joining' = IF TornTail(segments') THEN 1 ELSE 0
    BY DEF Stuck, Exposed, Joining
<1>6. ASSUME segments' = segments
      PROVE  /\ Stuck' = Stuck /\ Exposed' = Exposed /\ Joining' = Joining
             /\ \A r : InLast(segments', r) <=> InLast(segments, r)
    BY <1>5, <1>6 DEF Stuck, Exposed, Joining
<1>7. ASSUME segments' = synced
      PROVE  /\ Stuck' = Stuck /\ Exposed' = Stuck /\ Joining' = Joining
             /\ \A r : InLast(segments', r) <=> InLast(segments, r)
             /\ Last(segments').synced = Len(Last(segments').lines)
    <2>1. \A r : (~Safe(segments', r) /\ ~InLast(segments', r)) <=> (~Safe(segments, r) /\ ~InLast(segments, r))
        BY <1>2, <1>7
    <2>2. \A r : ~Safe(segments', r) <=> (~Safe(segments, r) /\ ~InLast(segments, r))
        BY <1>2, <1>7
    <2>3. Stuck' = Stuck /\ Exposed' = Stuck
        BY <1>5, <2>1, <2>2 DEF Stuck
    <2>4. QED
        BY <1>2, <1>5, <1>7, <2>3 DEF Joining
<1>8. ASSUME segments' = Append(segments, EmptySegment)
      PROVE  Stuck' = Exposed /\ Exposed' = Exposed /\ Joining' = 0
    <2>1. /\ \A r : Safe(segments', r) <=> Safe(segments, r)
          /\ \A r : ~InLast(segments', r)
          /\ ~TornTail(segments')
        BY <1>1, <1>4, <1>8
    <2>2. QED
        BY <1>5, <2>1 DEF Exposed
<1>9. ASSUME segments' = Append(synced, EmptySegment)
      PROVE  Stuck' = Stuck /\ Exposed' = Stuck /\ Joining' = 0
    <2>1. /\ \A r : Safe(segments', r) <=> Safe(segments, r) \/ InLast(segments, r)
          /\ \A r : ~InLast(segments', r)
          /\ ~TornTail(segments')
        BY <1>2, <1>4, <1>9
    <2>2. QED
        BY <1>5, <2>1 DEF Stuck
<1>10. QED
    BY <1>3, <1>6, <1>7, <1>8, <1>9

LEMMA AppendBudget ==
    ASSUME TypesInv, BudgetInv, AppendHere \/ AppendRotating \/ RotationFails \/ AppendRefused
    PROVE  BudgetInv'
<1>1. returned' = returned /\ pc = "idle" /\ up /\ Missing = 0
    BY AppendTypes DEF Missing
<1>2. pc' # "persist" /\ Missing' = 0 /\ Period \in Nat \ {0} /\ Period' = Period
    BY PeriodIs DEF AppendHere, AppendRotating, RotationFails, AppendRefused, Raises, Fault, Begin, Missing, Period
<1>3. /\ Cardinality(Stuck) + Joining <= Budget
      /\ Cardinality(Exposed) + Joining <= Budget + Slack
    BY <1>1, BudgetTypes DEF BudgetInv
<1>4. /\ Budget \in Nat /\ Slack \in 0..(Period - 1) /\ Joining \in {0, 1}
      /\ Cardinality(Stuck) \in Nat /\ Cardinality(Exposed) \in Nat
      /\ Cardinality(Stuck) <= Cardinality(Exposed)
    <2>1. Stuck \subseteq Exposed /\ IsFiniteSet(Exposed)
        BY BudgetTypes DEF Stuck, Exposed
    <2>2. QED
        BY <2>1, BudgetTypes, Smaller
<1>5. CASE AppendHere \/ AppendRefused
    <2>1. segments' = segments /\ up' = up /\ handle' = handle /\ sinceSync' = sinceSync
          /\ deaths' = deaths /\ faults' = faults /\ shorts' = shorts
        BY <1>5 DEF AppendHere, AppendRefused, Begin, counts
    <2>2. Stuck' = Stuck /\ Exposed' = Exposed /\ Joining' = Joining /\ Budget' = Budget /\ Slack' = Slack
        BY <1>1, <1>2, <2>1, QuietSets, BudgetGrows DEF Slack
    <2>3. QED
        BY <1>2, <1>3, <1>4, <2>2 DEF BudgetInv
<1>6. CASE AppendRotating
    <2>1. segments' = Append(WithCurrent(Sync(Current)), EmptySegment)
          /\ up' = up /\ handle' = handle /\ sinceSync' = sinceSync
          /\ deaths' = deaths /\ faults' = faults /\ shorts' = shorts
        BY <1>6 DEF AppendRotating, Begin, counts
    <2>2. Stuck' = Stuck /\ Exposed' = Stuck /\ Joining' = 0 /\ Budget' = Budget /\ Slack' = Slack
        BY <1>1, <1>2, <2>1, QuietSets, BudgetGrows DEF Slack
    <2>3. Cardinality(Stuck) <= Budget /\ Cardinality(Stuck) <= Budget + Slack
        BY <1>2, <1>3, <1>4
    <2>4. QED
        BY <1>2, <1>4, <2>2, <2>3 DEF BudgetInv
<1>7. CASE RotationFails
    <2>1. segments' \in {segments, WithCurrent(Sync(Current))} /\ handle' = FALSE
          /\ deaths' = deaths /\ faults' = faults + 1 /\ shorts' = shorts
        BY <1>7 DEF RotationFails, Raises, Fault
    <2>2. Stuck' = Stuck /\ Exposed' \in {Exposed, Stuck} /\ Joining' = Joining
        BY <1>1, <2>1, QuietSets
    <2>3. Budget' = Budget + Period /\ Slack' = 0
        BY <2>1, BudgetGrows DEF Slack
    <2>4. /\ Cardinality(Stuck) + Joining <= Budget + Period
          /\ Cardinality(Exposed) + Joining <= Budget + Period
        BY <1>2, <1>3, <1>4
    <2>5. Cardinality(Exposed') \in {Cardinality(Exposed), Cardinality(Stuck)}
        BY <2>2
    <2>6. QED
        BY <1>2, <1>4, <2>2, <2>3, <2>4, <2>5 DEF BudgetInv
<1>8. QED
    BY <1>5, <1>6, <1>7

\* A line stored: what it does to the file that is written.
LEMMA PutSets ==
    ASSUME TypesInv, NEW line \in Line, PutLine(line)
    PROVE  /\ \A r : Safe(segments', r) <=> Safe(segments, r)
           /\ \A r : InLast(segments', r) <=> InLast(segments, r) \/ (line.whole /\ line.record = r)
           /\ TornTail(segments') <=> line = Torn
           /\ \/ pc' = "sync" /\ sinceSync + 1 >= Period /\ returned' = returned
              \/ pc' = "idle" /\ sinceSync + 1 < Period /\ returned' = returned \cup {given}
           /\ sinceSync' = sinceSync + 1
<1>1. segments \in Logs /\ sinceSync + 1 \in Nat /\ sinceSync + 1 # 0
    BY DEF TypesInv
<1>2. /\ segments' = SetLast(segments, [Last(segments) EXCEPT !.lines = Append(@, line)])
      /\ sinceSync' = sinceSync + 1
      /\ \/ pc' = "sync" /\ SyncIsDue(sinceSync + 1) /\ returned' = returned
         \/ pc' = "idle" /\ ~SyncIsDue(sinceSync + 1) /\ returned' = returned \cup {given}
    BY WriteStep
<1>3. (SyncIsDue(sinceSync + 1) <=> sinceSync + 1 >= Period) /\ Period \in Nat
    BY <1>1, PeriodIs
<1>4. ~(sinceSync + 1 >= Period) => sinceSync + 1 < Period
    BY <1>1, <1>3
<1>5. /\ \A r : Safe(segments', r) <=> Safe(segments, r)
      /\ \A r : InLast(segments', r) <=> InLast(segments, r) \/ (line.whole /\ line.record = r)
      /\ TornTail(segments') <=> line = Torn
    BY <1>1, <1>2, PutLast
<1>6. QED
    BY <1>2, <1>3, <1>4, <1>5

LEMMA WriteBudget ==
    ASSUME TypesInv, BudgetInv, WriteRecord \/ WriteShort
    PROVE  BudgetInv'
<1> DEFINE next == NextLine(Current.lines, given, seq)
<1>1. /\ pc = "write" /\ up /\ handle /\ up' = up /\ handle' = handle /\ given' = given
      /\ deaths' = deaths /\ faults' = faults
      /\ \/ WriteRecord /\ shorts' = shorts /\ PutLine(next)
         \/ WriteShort /\ shorts' = shorts + 1 /\ PutLine(Torn)
    BY WriteTypes
<1>2. /\ next \in Line /\ Torn \in Line /\ next # Torn
      /\ (next.whole <=> ~TornTail(segments)) /\ next.record = given /\ ~Torn.whole
    BY <1>1, NextLineType, NextTail DEF Torn
<1> HIDE DEF next
<1>3. Missing = 0 /\ sinceSync \in Nat /\ Period' = Period
    BY <1>1 DEF Missing, TypesInv, Period
<1>4. /\ Budget \in Nat /\ Slack \in 0..(Period - 1) /\ Joining \in {0, 1} /\ Period \in Nat \ {0}
      /\ Cardinality(Stuck) \in Nat /\ Cardinality(Exposed) \in Nat
      /\ IsFiniteSet(Stuck) /\ IsFiniteSet(Exposed)
      /\ Cardinality(Stuck) + Joining <= Budget
      /\ Cardinality(Exposed) + Joining <= Budget + Slack
    BY <1>3, BudgetTypes DEF BudgetInv
<1>5. Slack = IF sinceSync < Period THEN sinceSync ELSE Period - 1
    BY <1>1 DEF Slack
<1>6. Slack' = IF sinceSync' < Period THEN sinceSync' ELSE Period - 1
    BY <1>1, <1>3 DEF Slack
<1>7. /\ Stuck' = {r \in returned' : ~Safe(segments', r) /\ ~InLast(segments', r)}
      /\ Exposed' = {r \in returned' : ~Safe(segments', r)}
      /\ Joining' = IF TornTail(segments') THEN 1 ELSE 0
      /\ Missing' = IF pc' \in {"sync", "persist"} /\ ~InLast(segments', given) THEN 1 ELSE 0
    BY <1>1 DEF Stuck, Exposed, Joining, Missing
<1>8. /\ Cardinality(Stuck') \in Nat /\ Cardinality(Exposed') \in Nat
      /\ Joining' \in {0, 1} /\ Missing' \in {0, 1}
    <2>1. given' \in Nat /\ returned' \subseteq 1..given'
        BY WriteTypes, TypesNat DEF TypesInv
    <2>2. Stuck' \subseteq returned' /\ Exposed' \subseteq returned'
        BY <1>7
    <2>3. QED
        BY <1>7, <2>1, <2>2, Sizes
\* What is stored stays as safe as it was.
<1>9. ASSUME NEW line \in Line, PutLine(line)
      PROVE  /\ returned' = returned => Exposed' \subseteq Exposed /\ Stuck' \subseteq Stuck
             /\ returned' = returned \cup {given} =>
                    /\ Exposed' \subseteq Exposed \cup {given} /\ Stuck' \subseteq Stuck \cup {given}
                    /\ InLast(segments', given) => Stuck' \subseteq Stuck
    <2>1. /\ \A r : Safe(segments', r) <=> Safe(segments, r)
          /\ \A r : InLast(segments, r) => InLast(segments', r)
        BY <1>9, PutSets
    <2>2. QED
        BY <1>7, <2>1 DEF Exposed, Stuck
<1>10. CASE WriteRecord /\ shorts' = shorts /\ PutLine(next)
    <2>1. /\ \/ pc' = "sync" /\ sinceSync + 1 >= Period /\ returned' = returned
             \/ pc' = "idle" /\ sinceSync + 1 < Period /\ returned' = returned \cup {given}
          /\ sinceSync' = sinceSync + 1
          /\ ~TornTail(segments')
          /\ ~TornTail(segments) => InLast(segments', given)
        BY <1>2, <1>10, PutSets
    <2>2. Budget' = Budget /\ Joining' = 0 /\ pc' # "persist"
        BY <1>1, <1>7, <1>10, <2>1, BudgetGrows
    <2>3. CASE returned' = returned
        <3>1. Cardinality(Exposed') <= Cardinality(Exposed) /\ Cardinality(Stuck') <= Cardinality(Stuck)
            BY <1>2, <1>4, <1>9, <1>10, <2>3, Smaller
        <3>2. Slack' >= Slack
            BY <1>3, <1>4, <1>5, <1>6, <2>1
        <3>3. Slack' \in Nat
            BY <1>3, <1>4, <1>6, <2>1
        <3>4. Missing' <= Joining
            BY <1>7, <1>8, <2>1 DEF Joining
        <3>5. Cardinality(Stuck') + Joining' + Missing' <= Budget'
            BY <1>4, <1>8, <2>2, <3>1, <3>4
        <3>6. Cardinality(Exposed') + Joining' + Missing' <= Budget' + Slack'
            BY <1>4, <1>8, <2>2, <3>1, <3>2, <3>3, <3>4
        <3>7. QED
            BY <2>2, <3>5, <3>6 DEF BudgetInv
    <2>4. CASE pc' = "idle" /\ sinceSync + 1 < Period /\ returned' = returned \cup {given}
        <3>1. Slack' = Slack + 1 /\ Missing' = 0
            BY <1>3, <1>4, <1>5, <1>6, <1>7, <2>1, <2>4
        <3>2. Cardinality(Exposed') <= Cardinality(Exposed) + 1
            BY <1>2, <1>4, <1>9, <1>10, <2>4, OneMore
        <3>3. Cardinality(Stuck') <= Cardinality(Stuck) + Joining
            <4>1. CASE TornTail(segments)
                BY <1>2, <1>4, <1>9, <1>10, <2>4, <4>1, OneMore DEF Joining
            <4>2. CASE ~TornTail(segments)
                <5>1. Stuck' \subseteq Stuck /\ Joining = 0
                    BY <1>2, <1>9, <1>10, <2>1, <2>4, <4>2 DEF Joining
                <5>2. QED
                    BY <1>4, <1>8, <5>1, Smaller
            <4>3. QED
                BY <4>1, <4>2
        <3>4. Cardinality(Stuck') + Joining' + Missing' <= Budget'
            BY <1>4, <1>8, <2>2, <3>1, <3>3
        <3>5. Cardinality(Exposed') + Joining' + Missing' <= Budget' + Slack'
            BY <1>4, <1>8, <2>2, <3>1, <3>2
        <3>6. QED
            BY <2>2, <3>4, <3>5 DEF BudgetInv
    <2>5. QED
        BY <2>1, <2>3, <2>4
<1>11. CASE WriteShort /\ shorts' = shorts + 1 /\ PutLine(Torn)
    <2>1. /\ \/ pc' = "sync" /\ sinceSync + 1 >= Period /\ returned' = returned
             \/ pc' = "idle" /\ sinceSync + 1 < Period /\ returned' = returned \cup {given}
          /\ sinceSync' = sinceSync + 1
        BY <1>2, <1>11, PutSets
    <2>2. Budget' = Budget + 2 /\ pc' # "persist"
        BY <1>1, <1>11, <2>1, BudgetGrows
    <2>3. Slack' >= Slack /\ Slack' \in Nat
        BY <1>3, <1>4, <1>5, <1>6, <2>1
    <2>4. CASE returned' = returned
        <3>1. Cardinality(Exposed') <= Cardinality(Exposed) /\ Cardinality(Stuck') <= Cardinality(Stuck)
            BY <1>2, <1>4, <1>9, <1>11, <2>4, Smaller
        <3>2. /\ Joining' \in Nat /\ Joining' <= 1 /\ Missing' \in Nat /\ Missing' <= 1
              /\ Joining \in Nat /\ Cardinality(Stuck') \in Nat /\ Cardinality(Exposed') \in Nat
            BY <1>4, <1>8
        <3>3. Cardinality(Stuck') + Joining' + Missing' <= Budget'
            BY <1>4, <2>2, <3>1, <3>2
        <3>4. Cardinality(Exposed') + Joining' + Missing' <= Budget' + Slack'
            BY <1>4, <2>2, <2>3, <3>1, <3>2
        <3>5. QED
            BY <2>2, <3>3, <3>4 DEF BudgetInv
    <2>5. CASE pc' = "idle" /\ returned' = returned \cup {given}
        <3>1. Cardinality(Exposed') <= Cardinality(Exposed) + 1 /\ Cardinality(Stuck') <= Cardinality(Stuck) + 1
            BY <1>2, <1>4, <1>9, <1>11, <2>5, OneMore
        <3>2. /\ Missing' = 0 /\ Joining' \in Nat /\ Joining' <= 1
              /\ Cardinality(Stuck') \in Nat /\ Cardinality(Exposed') \in Nat
            BY <1>4, <1>7, <1>8, <2>5
        <3>3. Cardinality(Stuck') + Joining' + Missing' <= Budget'
            BY <1>4, <2>2, <3>1, <3>2
        <3>4. Cardinality(Exposed') + Joining' + Missing' <= Budget' + Slack'
            BY <1>4, <2>2, <2>3, <3>1, <3>2
        <3>5. QED
            BY <2>2, <3>3, <3>4 DEF BudgetInv
    <2>6. QED
        BY <2>1, <2>4, <2>5
<1>12. QED
    BY <1>1, <1>10, <1>11

\* A step that only changes where the append is, or that syncs.
LEMMA OtherBudget ==
    ASSUME TypesInv, BudgetInv,
           SyncFile \/ DiskFails \/ CloseWriter \/ CloseFails \/ Kill \/ UNCHANGED vars
    PROVE  BudgetInv'
<1>1. returned' = returned /\ given' = given /\ shorts' = shorts /\ Period' = Period
    BY DEF SyncFile, DiskFails, Raises, Fault, CloseWriter, CloseFails, Kill, vars, counts, Period
<1>2. /\ Budget \in Nat /\ Slack \in 0..(Period - 1) /\ Period \in Nat \ {0}
      /\ Joining \in {0, 1} /\ Missing \in {0, 1}
      /\ Cardinality(Stuck) \in Nat /\ Cardinality(Exposed) \in Nat
      /\ Cardinality(Stuck) <= Cardinality(Exposed)
    <2>1. Stuck \subseteq Exposed
        BY DEF Stuck, Exposed
    <2>2. QED
        BY <2>1, BudgetTypes, Smaller
<1>3. /\ Cardinality(Stuck) + Joining + Missing <= Budget
      /\ Cardinality(Exposed) + Joining + Missing <= Budget + Slack
    BY DEF BudgetInv
<1>4. CASE SyncFile
    <2>1. /\ segments' = WithCurrent(Sync(Current)) /\ pc = "sync" /\ pc' = "persist"
          /\ up' = up /\ handle' = handle /\ sinceSync' = sinceSync /\ deaths' = deaths /\ faults' = faults
        BY <1>4 DEF SyncFile, counts, writer
    <2>2. /\ Stuck' = Stuck /\ Exposed' = Stuck /\ Joining' = Joining
          /\ \A r : InLast(segments', r) <=> InLast(segments, r)
          /\ Last(segments').synced = Len(Last(segments').lines)
        BY <1>1, <2>1, QuietSets
    <2>3. Missing' = Missing /\ Budget' = Budget /\ Slack' = Slack
        BY <1>1, <2>1, <2>2, BudgetGrows DEF Missing, Slack
    <2>4. Cardinality(Stuck) + Joining + Missing <= Budget + Slack
        BY <1>2, <1>3
    <2>5. QED
        BY <1>3, <2>2, <2>3, <2>4 DEF BudgetInv
<1>5. CASE DiskFails
    <2>1. /\ segments' = segments /\ pc' = "idle" /\ up' = up /\ handle' = handle /\ sinceSync' = sinceSync
          /\ deaths' = deaths /\ faults' = faults + 1
        BY <1>5 DEF DiskFails, Raises, Fault, writer
    <2>2. /\ Stuck' = Stuck /\ Exposed' = Exposed /\ Joining' = Joining
          /\ Missing' = 0 /\ Budget' = Budget + Period /\ Slack' = Slack
        BY <1>1, <2>1, QuietSets, BudgetGrows DEF Missing, Slack
    <2>3. /\ Cardinality(Stuck) + Joining + 0 <= Budget + Period
          /\ Cardinality(Exposed) + Joining + 0 <= Budget + Period + Slack
        BY <1>2, <1>3
    <2>4. QED
        BY <2>1, <2>2, <2>3 DEF BudgetInv
<1>6. CASE CloseWriter /\ faults' = faults
    <2>1. /\ segments' = IF handle THEN WithCurrent(Sync(Current)) ELSE segments
          /\ pc = "idle" /\ pc' = "idle" /\ up' = FALSE /\ deaths' = deaths /\ faults' = faults
        <3>1. faults + 1 # faults
            BY DEF TypesInv
        <3>2. QED
            BY <1>6, <3>1 DEF CloseWriter, Fault, counts
    <2>2. Missing' = 0 /\ Missing = 0 /\ Budget' = Budget /\ Slack' = 0
        BY <1>1, <2>1, BudgetGrows DEF Missing, Slack
    <2>3. CASE handle
        <3>1. Stuck' = Stuck /\ Exposed' = Stuck /\ Joining' = Joining
            BY <1>1, <2>1, <2>3, QuietSets
        <3>2. Cardinality(Stuck) + Joining + 0 <= Budget + 0
            BY <1>2, <1>3
        <3>3. QED
            BY <1>3, <2>1, <2>2, <3>1, <3>2 DEF BudgetInv
    <2>4. CASE ~handle
        <3>1. Stuck' = Stuck /\ Exposed' = Exposed /\ Joining' = Joining /\ Slack = 0
            BY <1>1, <2>1, <2>4, QuietSets DEF Slack
        <3>2. QED
            BY <1>3, <2>1, <2>2, <3>1 DEF BudgetInv
    <2>5. QED
        BY <2>3, <2>4
<1>7. CASE CloseFails \/ Kill \/ (CloseWriter /\ faults' # faults)
    <2>1. /\ segments' = segments /\ pc' = "idle" /\ up' = FALSE
          /\ \/ deaths' = deaths + 1 /\ faults' = faults
             \/ deaths' = deaths /\ faults' = faults + 1
        BY <1>7 DEF CloseFails, Kill, CloseWriter, Raises, Fault, counts
    <2>2. /\ Stuck' = Stuck /\ Exposed' = Exposed /\ Joining' = Joining
          /\ Missing' = 0 /\ Budget' = Budget + Period /\ Slack' = 0
        BY <1>1, <2>1, QuietSets, BudgetGrows DEF Missing, Slack
    <2>3. /\ Cardinality(Stuck) + Joining + 0 <= Budget + Period
          /\ Cardinality(Exposed) + Joining + 0 <= Budget + Period + 0
        BY <1>2, <1>3
    <2>4. QED
        BY <2>1, <2>2, <2>3 DEF BudgetInv
<1>8. CASE UNCHANGED vars
    <2>1. /\ segments' = segments /\ pc' = pc /\ up' = up /\ handle' = handle /\ sinceSync' = sinceSync
          /\ deaths' = deaths /\ faults' = faults
        BY <1>8 DEF vars, counts, writer
    <2>2. /\ Stuck' = Stuck /\ Exposed' = Exposed /\ Joining' = Joining
          /\ Missing' = Missing /\ Budget' = Budget /\ Slack' = Slack
        BY <1>1, <2>1, QuietSets, BudgetGrows DEF Missing, Slack
    <2>3. QED
        BY <1>3, <2>1, <2>2 DEF BudgetInv
<1>9. QED
    BY <1>4, <1>5, <1>6, <1>7, <1>8

\* The saving of the counter: what a sync saved is safe when the append returns.
LEMMA PersistBudget ==
    ASSUME TypesInv, BudgetInv, PersistSeq
    PROVE  BudgetInv'
<1>1. /\ pc = "persist" /\ pc' = "idle" /\ returned' = returned \cup {given} /\ segments' = segments
      /\ deaths' = deaths /\ faults' = faults /\ shorts' = shorts /\ sinceSync' = 0 /\ Period' = Period
    BY DEF PersistSeq, counts, Period
<1>2. Missing' = 0 /\ Joining' = Joining /\ Slack' = 0 /\ Budget' = Budget
    <2>1. Period \in Nat \ {0}
        BY PeriodIs
    <2>2. Slack' = 0
        BY <1>1, <2>1 DEF Slack
    <2>3. QED
        BY <1>1, <2>2, BudgetGrows DEF Missing, Joining
<1>3. \A r : InLast(segments, r) => Safe(segments, r)
    <2>1. Last(segments).synced = Len(Last(segments).lines)
        BY <1>1 DEF BudgetInv
    <2>2. Len(segments) \in 1..Len(segments)
        BY LogsType DEF TypesInv
    <2>3. QED
        BY <2>1, <2>2 DEF InLast, Safe, Last
<1>4. /\ Budget \in Nat /\ Joining \in {0, 1} /\ Missing \in {0, 1}
      /\ Cardinality(Stuck) \in Nat /\ Cardinality(Exposed) \in Nat
      /\ IsFiniteSet(Stuck) /\ Cardinality(Stuck) + Joining + Missing <= Budget
    BY BudgetTypes DEF BudgetInv
<1>5. /\ Exposed' = {r \in returned \cup {given} : ~Safe(segments, r)}
      /\ Stuck' = {r \in returned \cup {given} : ~Safe(segments, r) /\ ~InLast(segments, r)}
    BY <1>1 DEF Exposed, Stuck
<1>6. Exposed' \subseteq Stuck \cup {given} /\ Stuck' = Exposed'
    BY <1>3, <1>5 DEF Stuck
<1>7. CASE InLast(segments, given)
    <2>1. Exposed' \subseteq Stuck
        BY <1>3, <1>5, <1>7 DEF Stuck
    <2>2. Cardinality(Exposed') <= Cardinality(Stuck) /\ Cardinality(Exposed') \in Nat
        BY <1>4, <2>1, FS_Subset, FS_CardinalityType
    <2>3. QED
        BY <1>1, <1>2, <1>4, <1>6, <2>2 DEF BudgetInv
<1>8. CASE ~InLast(segments, given)
    <2>1. Missing = 1
        BY <1>1, <1>8 DEF Missing
    <2>2. Cardinality(Exposed') <= Cardinality(Stuck) + 1
        BY <1>4, <1>6, OneMore
    <2>3. Cardinality(Exposed') \in Nat
        <3>1. IsFiniteSet(Stuck \cup {given})
            BY <1>4, FS_AddElement
        <3>2. QED
            BY <1>6, <3>1, FS_Subset, FS_CardinalityType
    <2>4. QED
        BY <1>1, <1>2, <1>4, <1>6, <2>1, <2>2, <2>3 DEF BudgetInv
<1>9. QED
    BY <1>7, <1>8

LEMMA OpenBudget ==
    ASSUME TypesInv, BudgetInv, Open
    PROVE  BudgetInv'
<1>1. /\ ~up /\ pc' = pc /\ given' = given /\ returned' = returned /\ sinceSync' = 0
      /\ segments' = segments \/ segments' = Append(segments, EmptySegment)
      /\ deaths' = deaths /\ faults' \in {faults, faults + 1} /\ shorts' = shorts /\ Period' = Period
    BY DEF Open, OpenFile, LoadSeq, Fault, counts, Period
<1>2. pc = "idle" /\ Missing = 0 /\ Missing' = 0 /\ Slack = 0 /\ Slack' = 0
    <2>1. pc = "idle"
        BY <1>1 DEF TypesInv
    <2>2. Period \in Nat \ {0}
        BY PeriodIs
    <2>3. Slack = 0 /\ Slack' = 0
        BY <1>1, <2>2 DEF Slack
    <2>4. QED
        BY <1>1, <2>1, <2>3 DEF Missing
<1>3. Budget \in Nat /\ Budget' \in Nat /\ Budget <= Budget'
    <2>1. Budget' = Budget \/ Budget' = Budget + Period
        BY <1>1, BudgetGrows
    <2>2. QED
        BY <2>1, BudgetTypes
<1>4. /\ Cardinality(Stuck) + Joining <= Budget'
      /\ Cardinality(Exposed) + Joining <= Budget'
    <2>1. /\ Cardinality(Stuck) + Joining + 0 <= Budget
          /\ Cardinality(Exposed) + Joining + 0 <= Budget + 0
        BY <1>2 DEF BudgetInv
    <2>2. QED
        BY <1>3, <2>1, BudgetTypes
<1>5. CASE segments' = segments
    <2>1. Stuck' = Stuck /\ Exposed' = Exposed /\ Joining' = Joining
        BY <1>1, <1>5, QuietSets
    <2>2. QED
        BY <1>1, <1>2, <1>3, <1>4, <2>1, BudgetTypes DEF BudgetInv
<1>6. CASE segments' = Append(segments, EmptySegment)
    <2>1. Stuck' = Exposed /\ Exposed' = Exposed /\ Joining' = 0
        BY <1>1, <1>6, QuietSets
    <2>2. Cardinality(Exposed) + 0 + 0 <= Budget'
        BY <1>3, <1>4, BudgetTypes
    <2>3. QED
        BY <1>1, <1>2, <1>3, <2>1, <2>2, BudgetTypes DEF BudgetInv
<1>7. QED
    BY <1>1, <1>5, <1>6

LEMMA LossBudget ==
    ASSUME TypesInv, BudgetInv, PowerLoss
    PROVE  BudgetInv'
<1>1. /\ given' = given /\ returned' = returned /\ ~up' /\ pc' = "idle"
      /\ deaths' = deaths + 1 /\ faults' = faults /\ shorts' = shorts
    BY LossTypes
<1>2. /\ \A r : Safe(segments, r) => Safe(segments', r)
      /\ \A r : InLast(segments', r) => Safe(segments', r)
    BY LossStep
<1>3. Budget' = Budget + Period /\ Slack' = 0 /\ Missing' = 0 /\ Joining' \in {0, 1}
    BY <1>1, BudgetGrows DEF Slack, Missing, Joining
<1>4. /\ Budget \in Nat /\ Slack \in 0..(Period - 1) /\ Period \in Nat \ {0}
      /\ Joining \in {0, 1} /\ Missing \in {0, 1}
      /\ Cardinality(Exposed) \in Nat /\ IsFiniteSet(Exposed)
      /\ Cardinality(Exposed) + Joining + Missing <= Budget + Slack
    BY BudgetTypes DEF BudgetInv
<1>5. /\ Exposed' = {r \in returned : ~Safe(segments', r)}
      /\ Stuck' = {r \in returned : ~Safe(segments', r) /\ ~InLast(segments', r)}
    BY <1>1 DEF Exposed, Stuck
<1>6. Exposed' \subseteq Exposed /\ Stuck' \subseteq Exposed
    BY <1>2, <1>5 DEF Exposed
<1>7. /\ Cardinality(Exposed') <= Cardinality(Exposed) /\ Cardinality(Exposed') \in Nat
      /\ Cardinality(Stuck') <= Cardinality(Exposed) /\ Cardinality(Stuck') \in Nat
    BY <1>4, <1>6, FS_Subset, FS_CardinalityType
<1>8. /\ Cardinality(Stuck') + Joining' + Missing' <= Budget'
      /\ Cardinality(Exposed') + Joining' + Missing' <= Budget' + Slack'
    BY <1>3, <1>4, <1>7
<1>9. QED
    BY <1>1, <1>8 DEF BudgetInv

LEMMA InitBudget == Init => BudgetInv
<1> SUFFICES ASSUME Init PROVE BudgetInv
    OBVIOUS
<1>1. returned = {} /\ pc = "idle" /\ segments = <<EmptySegment>> /\ TypesInv
    BY InitTypes DEF Init
<1>2. Stuck = {} /\ Exposed = {}
    BY <1>1 DEF Stuck, Exposed
<1>3. Joining = 0 /\ Missing = 0
    <2>1. Last(segments).lines = <<>>
        BY <1>1 DEF Last, EmptySegment
    <2>2. QED
        BY <1>1, <2>1 DEF Joining, Missing, TornTail
<1>4. Cardinality(Stuck) = 0 /\ Cardinality(Exposed) = 0
    BY <1>2, FS_EmptySet
<1>5. Budget \in Nat /\ Slack \in Nat
    BY <1>1, BudgetTypes
<1>6. QED
    BY <1>1, <1>3, <1>4, <1>5 DEF BudgetInv

LEMMA NextBudget ==
    ASSUME TypesInv, BudgetInv, [Next]_vars
    PROVE  BudgetInv'
BY AppendBudget, WriteBudget, OtherBudget, PersistBudget, OpenBudget, LossBudget DEF Next, AppendStep

(***************************************************************************)
(* How much is lost at most (wal.py:67-129): of what was appended before a *)
(* return, each death and each failure of the disk costs at most one sync  *)
(* period, each short write two records, whatever the order they come in.  *)
(***************************************************************************)
THEOREM LossesAreBounded == Spec => []LossIsBounded
<1>1. TypesInv /\ BudgetInv => LossIsBounded
    <2> SUFFICES ASSUME TypesInv, BudgetInv
                 PROVE  LossIsBounded
        OBVIOUS
    <2>1. segments \in Seq(Segment) /\ Len(segments) \in 1..Len(segments)
          /\ \A k \in 1..Len(segments) : segments[k].synced \in 0..Len(segments[k].lines)
        BY LogsType DEF TypesInv
    <2>2. ASSUME NEW r, Safe(segments, r) \/ InLast(segments, r)
          PROVE  r \in ToSet(ReadRecords)
        <3>1. PICK k \in 1..Len(segments) : Holds(segments[k], Len(segments[k].lines), r)
            <4>1. CASE InLast(segments, r)
                BY <2>1, <4>1 DEF InLast, Last
            <4>2. CASE Safe(segments, r)
                <5>1. PICK k \in 1..Len(segments) : Holds(segments[k], segments[k].synced, r)
                    BY <4>2 DEF Safe
                <5>2. 1..segments[k].synced \subseteq 1..Len(segments[k].lines)
                    BY <2>1, LogsType DEF TypesInv
                <5>3. Holds(segments[k], Len(segments[k].lines), r)
                    BY <5>1, <5>2 DEF Holds
                <5>4. QED
                    BY <5>3
            <4>3. QED
                BY <2>2, <4>1, <4>2
        <3>2. QED
            BY <2>1, <3>1, LogHolds DEF ReadRecords
    <2>3. Lost \subseteq Stuck
        BY <2>2 DEF Lost, Stuck
    <2>4. Cardinality(Lost) <= Cardinality(Stuck) /\ Cardinality(Lost) \in Nat
        BY <2>3, BudgetTypes, FS_Subset, FS_CardinalityType
    <2>5. Cardinality(Stuck) <= Budget
        BY BudgetTypes DEF BudgetInv
    <2>6. QED
        BY <2>4, <2>5, BudgetTypes DEF LossIsBounded, Budget, Period
<1>2. QED
    BY <1>1, InitTypes, InitBudget, NextTypes, NextBudget, PTL DEF Spec
----
\* R is a strict total order on S; the elements of S that come before e.
Orders(R, S) ==
    /\ \A a \in S : <<a, a>> \notin R
    /\ \A a, b, c \in S : <<a, b>> \in R /\ <<b, c>> \in R => <<a, c>> \in R
    /\ \A a, b \in S : a # b => <<a, b>> \in R \/ <<b, a>> \in R

Below(R, S, e) == {f \in S : <<f, e>> \in R}

\* list has the elements of S in the order R.
InOrder(list, R, S) ==
    /\ list \in [1..Cardinality(S) -> S]
    /\ \A m, n \in 1..Cardinality(S) : m < n => <<list[m], list[n]>> \in R
    /\ \A e \in S : \E n \in 1..Cardinality(S) : list[n] = e
----
\* How many come before an element grows with the order and is less than all.
LEMMA RanksAscend ==
    ASSUME NEW S, IsFiniteSet(S), NEW R, Orders(R, S), NEW a \in S, NEW b \in S, <<a, b>> \in R
    PROVE  Cardinality(Below(R, S, a)) < Cardinality(Below(R, S, b))
<1>1. Below(R, S, a) \subseteq Below(R, S, b) /\ a \in Below(R, S, b) /\ a \notin Below(R, S, a)
    BY DEF Orders, Below
<1>2. IsFiniteSet(Below(R, S, b)) /\ Cardinality(Below(R, S, b)) \in Nat
    <2>1. Below(R, S, b) \in SUBSET S
        BY DEF Below
    <2>2. QED
        BY <2>1, FS_Subset, FS_CardinalityType
<1>3. /\ IsFiniteSet(Below(R, S, a))
      /\ Cardinality(Below(R, S, a)) <= Cardinality(Below(R, S, b))
      /\ Cardinality(Below(R, S, b)) = Cardinality(Below(R, S, a)) => Below(R, S, b) = Below(R, S, a)
    BY <1>1, <1>2, FS_Subset
<1>4. Cardinality(Below(R, S, a)) \in Nat
    BY <1>3, FS_CardinalityType
<1>5. QED
    BY <1>1, <1>2, <1>3, <1>4

LEMMA RanksType ==
    ASSUME NEW S, IsFiniteSet(S), NEW R, Orders(R, S), NEW a \in S
    PROVE  Cardinality(Below(R, S, a)) \in 0..(Cardinality(S) - 1)
<1>1. Below(R, S, a) \in SUBSET S /\ Below(R, S, a) # S
    BY DEF Orders, Below
<1>2. /\ IsFiniteSet(Below(R, S, a)) /\ Cardinality(Below(R, S, a)) <= Cardinality(S)
      /\ Cardinality(S) = Cardinality(Below(R, S, a)) => S = Below(R, S, a)
    BY <1>1, FS_Subset
<1>3. Cardinality(S) \in Nat /\ Cardinality(Below(R, S, a)) \in Nat
    BY <1>2, FS_CardinalityType
<1>4. QED
    BY <1>1, <1>2, <1>3

\* Every rank is some element's: there are as many ranks as elements, and no two share one.
LEMMA RanksExist ==
    ASSUME NEW S, IsFiniteSet(S), NEW R, Orders(R, S), NEW n \in 1..Cardinality(S)
    PROVE  \E e \in S : Cardinality(Below(R, S, e)) = n - 1
<1> DEFINE T == 0..(Cardinality(S) - 1)
           rank == [e \in S |-> Cardinality(Below(R, S, e))]
<1>1. Cardinality(S) \in Nat
    BY FS_CardinalityType
<1>2. IsFiniteSet(T) /\ Cardinality(T) = Cardinality(S)
    <2> DEFINE k == Cardinality(S) - 1
    <2>1. k \in Int /\ k >= -1
        BY <1>1
    <2> HIDE DEF k
    <2>2. IsFiniteSet(0..k) /\ Cardinality(0..k) = k + 1
        BY <2>1, FS_Interval
    <2>3. QED
        BY <1>1, <2>2 DEF k
<1>3. rank \in [S -> T]
    BY RanksType
<1>4. ASSUME NEW a \in S, NEW b \in S, a # b PROVE rank[a] # rank[b]
    <2>1. <<a, b>> \in R \/ <<b, a>> \in R
        BY <1>4 DEF Orders
    <2>2. Cardinality(Below(R, S, a)) \in T /\ Cardinality(Below(R, S, b)) \in T
        BY RanksType
    <2>3. Cardinality(Below(R, S, a)) < Cardinality(Below(R, S, b))
          \/ Cardinality(Below(R, S, b)) < Cardinality(Below(R, S, a))
        BY <2>1, RanksAscend
    <2>4. QED
        BY <1>1, <2>2, <2>3
<1> HIDE DEF T, rank
<1>5. rank \in Injection(S, T)
    BY <1>3, <1>4, Zenon DEF Injection, IsInjective
<1>6. rank \in Surjection(S, T)
    BY <1>2, <1>5, FS_Injection
<1>7. n - 1 \in T
    BY <1>1 DEF T
<1>8. PICK e \in S : rank[e] = n - 1
    BY <1>6, <1>7 DEF Surjection
<1>9. QED
    BY <1>8 DEF rank

LEMMA RanksOrder ==
    ASSUME NEW S, IsFiniteSet(S), NEW R, Orders(R, S), 
           NEW list \in [1..Cardinality(S) -> S],
           \A n \in 1..Cardinality(S) : Cardinality(Below(R, S, list[n])) = n - 1
    PROVE  InOrder(list, R, S)
<1>1. Cardinality(S) \in Nat
    BY FS_CardinalityType
<1>3. ASSUME NEW m \in 1..Cardinality(S), NEW n \in 1..Cardinality(S), m < n
      PROVE  <<list[m], list[n]>> \in R
    <2>1. list[m] # list[n]
        BY <1>1, <1>3
    <2>2. <<list[n], list[m]>> \notin R
        <3>1. ASSUME <<list[n], list[m]>> \in R PROVE FALSE
            <4>1. Cardinality(Below(R, S, list[n])) < Cardinality(Below(R, S, list[m]))
                BY <3>1, RanksAscend
            <4>2. QED
                BY <1>1, <1>3, <4>1
        <3>2. QED
            BY <3>1
    <2>3. QED
        BY <2>1, <2>2 DEF Orders
<1>4. ASSUME NEW e \in S PROVE \E n \in 1..Cardinality(S) : list[n] = e
    <2> DEFINE n == Cardinality(Below(R, S, e)) + 1
    <2>1. Cardinality(Below(R, S, e)) \in 0..(Cardinality(S) - 1)
        BY RanksType
    <2>2. n \in 1..Cardinality(S) /\ n - 1 = Cardinality(Below(R, S, e))
        BY <1>1, <2>1
    <2> HIDE DEF n
    <2>3. list[n] \in S /\ Cardinality(Below(R, S, list[n])) = Cardinality(Below(R, S, e))
        BY <2>2
    <2>4. ASSUME list[n] # e PROVE FALSE
        <3>1. <<list[n], e>> \in R \/ <<e, list[n]>> \in R
            BY <2>3, <2>4 DEF Orders
        <3>2. Cardinality(Below(R, S, list[n])) < Cardinality(Below(R, S, e))
              \/ Cardinality(Below(R, S, e)) < Cardinality(Below(R, S, list[n]))
            BY <2>3, <3>1, RanksAscend
        <3>3. QED
            BY <1>1, <2>1, <2>3, <3>2
    <2>5. QED
        BY <2>2, <2>4
<1>5. QED
    BY <1>3, <1>4 DEF InOrder

\* Ascending lists a finite set of numbers in order.
LEMMA AscendingIs ==
    ASSUME NEW S \in SUBSET Int, IsFiniteSet(S)
    PROVE  /\ InOrder(Ascending(S), {p \in S \X S : p[1] < p[2]}, S)
           /\ \A n \in 1..Cardinality(S) : Cardinality({f \in S : f < Ascending(S)[n]}) = n - 1
<1> DEFINE R == {p \in S \X S : p[1] < p[2]}
           list == Ascending(S)
<1>1. \A a, b \in S : <<a, b>> \in R <=> a < b
    OBVIOUS
<1>2. Orders(R, S)
    <2> HIDE DEF R
    <2>1. QED
        BY <1>1 DEF Orders
<1>3. \A e \in S : Below(R, S, e) = {f \in S : f < e}
    <2> HIDE DEF R
    <2>1. QED
        BY <1>1 DEF Below
<1>4. list = [n \in 1..Cardinality(S) |-> CHOOSE e \in S : Cardinality({f \in S : f < e}) = n - 1]
    BY DEF Ascending, Sorted
<1> HIDE DEF R, list
<1>5. ASSUME NEW n \in 1..Cardinality(S)
      PROVE  list[n] \in S /\ Cardinality(Below(R, S, list[n])) = n - 1
    <2>1. \E e \in S : Cardinality({f \in S : f < e}) = n - 1
        <3>1. PICK e \in S : Cardinality(Below(R, S, e)) = n - 1
            BY <1>2, RanksExist
        <3>2. QED
            BY <1>3, <3>1
    <2>2. list[n] = CHOOSE e \in S : Cardinality({f \in S : f < e}) = n - 1
        BY <1>4
    <2>3. list[n] \in S /\ Cardinality({f \in S : f < list[n]}) = n - 1
        BY <2>1, <2>2
    <2>4. QED
        BY <1>3, <2>3
<1>6. list \in [1..Cardinality(S) -> S]
    BY <1>4, <1>5
<1>7. InOrder(list, R, S)
    BY <1>2, <1>5, <1>6, RanksOrder
<1>8. \A n \in 1..Cardinality(S) : Cardinality({f \in S : f < list[n]}) = n - 1
    BY <1>3, <1>5
<1>9. QED
    BY <1>7, <1>8 DEF R, list

\* A number above all the others comes last.
LEMMA AscendingAppend ==
    ASSUME NEW S \in SUBSET Int, IsFiniteSet(S), NEW k \in Int, \A m \in S : m < k
    PROVE  /\ Cardinality(S) \in Nat /\ Cardinality(S \cup {k}) = Cardinality(S) + 1
           /\ \A n \in 1..Cardinality(S) : Ascending(S \cup {k})[n] = Ascending(S)[n]
           /\ Ascending(S \cup {k})[Cardinality(S) + 1] = k
<1> DEFINE S2 == S \cup {k}
           R2 == {p \in S2 \X S2 : p[1] < p[2]}
           c == Cardinality(S)
           s == Ascending(S)
           s2 == Ascending(S2)
<1>1. c \in Nat /\ IsFiniteSet(S2) /\ Cardinality(S2) = c + 1
    <2>1. k \notin S
        OBVIOUS
    <2>2. QED
        BY <2>1, FS_AddElement, FS_CardinalityType
<1>2. /\ s \in [1..c -> S]
      /\ \A n \in 1..c : Cardinality({f \in S : f < s[n]}) = n - 1
    BY AscendingIs DEF InOrder
<1>3. /\ s2 \in [1..(c + 1) -> S2]
      /\ \A m, n \in 1..(c + 1) : m < n => <<s2[m], s2[n]>> \in R2
      /\ \A e \in S2 : \E n \in 1..(c + 1) : s2[n] = e
      /\ \A n \in 1..(c + 1) : Cardinality({f \in S2 : f < s2[n]}) = n - 1
    <2>1. S2 \in SUBSET Int
        OBVIOUS
    <2> HIDE DEF S2, s2, c
    <2>2. QED
        BY <1>1, <2>1, AscendingIs DEF InOrder, s2
<1>4. \A a, b \in S2 : <<a, b>> \in R2 <=> a < b
    OBVIOUS
<1>5. Orders(R2, S2) /\ \A e \in S2 : Below(R2, S2, e) = {f \in S2 : f < e}
    <2>1. S2 \in SUBSET Int
        OBVIOUS
    <2> HIDE DEF R2, S2
    <2>2. Orders(R2, S2)
        BY <1>4, <2>1 DEF Orders
    <2>3. \A e \in S2 : Below(R2, S2, e) = {f \in S2 : f < e}
        BY <1>4 DEF Below
    <2>4. QED
        BY <2>2, <2>3
<1> HIDE DEF R2
<1>6. ASSUME NEW n \in 1..c PROVE s2[n] = s[n]
    <2>1. s[n] \in S /\ s[n] < k /\ s[n] \in S2
        BY <1>2
    <2>2. {f \in S2 : f < s[n]} = {f \in S : f < s[n]}
        <3> HIDE DEF s
        <3>0. s[n] \in Int
            BY <2>1
        <3>1. s[n] \in Int /\ ~(k < s[n])
            BY <2>1, <3>0
        <3>2. QED
            BY <3>1
    <2>3. n \in 1..(c + 1)
        BY <1>1
    <2>4. s2[n] \in S2 /\ Cardinality({f \in S2 : f < s2[n]}) = n - 1
        BY <1>3, <2>3
    <2> HIDE DEF S2, s2, s, c
    <2>5. Cardinality(Below(R2, S2, s[n])) = n - 1 /\ Cardinality(Below(R2, S2, s2[n])) = n - 1
        BY <1>2, <1>5, <2>1, <2>2, <2>4
    <2>6. ASSUME s2[n] # s[n] PROVE FALSE
        <3>1. <<s2[n], s[n]>> \in R2 \/ <<s[n], s2[n]>> \in R2
            BY <1>5, <2>1, <2>4, <2>6 DEF Orders
        <3>2. \/ Cardinality(Below(R2, S2, s2[n])) < Cardinality(Below(R2, S2, s[n]))
              \/ Cardinality(Below(R2, S2, s[n])) < Cardinality(Below(R2, S2, s2[n]))
            BY <1>1, <1>5, <2>1, <2>4, <3>1, RanksAscend
        <3>3. QED
            BY <2>5, <3>2
    <2>7. QED
        BY <2>6
<1>7. s2[c + 1] = k
    <2>1. PICK n \in 1..(c + 1) : s2[n] = k
        BY <1>3
    <2>2. c + 1 \in 1..(c + 1)
        BY <1>1
    <2>3. ASSUME n < c + 1 PROVE FALSE
        <3>1. <<s2[n], s2[c + 1]>> \in R2 /\ s2[c + 1] \in S2
            BY <1>3, <2>2, <2>3
        <3>2. k < s2[c + 1]
            BY <1>4, <2>1, <3>1
        <3>3. \A e \in S2 : e \in Int /\ (e < k \/ e = k)
            OBVIOUS
        <3> HIDE DEF S2, s2, c
        <3>4. QED
            BY <3>1, <3>2, <3>3
    <2>4. n = c + 1
        BY <1>1, <2>3
    <2>5. QED
        BY <2>1, <2>4
<1>8. QED
    BY <1>1, <1>6, <1>7
----
LEMMA WidthsAre ==
    ASSUME NEW tf \in Timeframes
    PROVE  Widths[tf] \in Nat \ {0}
<1>1. Widths \in Seq(Nat \ {0})
    BY ReplayAssumption
<1>2. QED
    BY <1>1, ElementOfSeq DEF Timeframes

LEMMA BucketForType ==
    ASSUME NEW tf \in Timeframes, NEW ts \in Nat
    PROVE  BucketFor(tf, ts) \in Nat
<1>1. Widths[tf] \in Nat \ {0}
    BY WidthsAre
<1>2. ts \div Widths[tf] \in Nat
    BY <1>1
<1>3. QED
    BY <1>1, <1>2 DEF BucketFor

LEMMA TickTimes ==
    ASSUME NEW t \in Tick
    PROVE  t.ts \in Nat /\ (t.kind = "index" => t \in IndexTick) /\ (t.kind = "option" => t \in OptionTick)
BY ReplayAssumption DEF Tick, IndexTick, OptionTick

\* The places of a bucket's ticks, in order, and the candle made of them.
PlacesIn(tf, start, ticks) == {n \in 1..Len(ticks) : InTime(tf, start, ticks, n)}

LEMMA PlacesAre ==
    ASSUME NEW tf, NEW start, NEW ticks, Len(ticks) \in Nat
    PROVE  /\ PlacesIn(tf, start, ticks) \in SUBSET Int /\ IsFiniteSet(PlacesIn(tf, start, ticks))
           /\ Cardinality(PlacesIn(tf, start, ticks)) \in Nat
<1>1. PlacesIn(tf, start, ticks) \in SUBSET (1..Len(ticks)) /\ IsFiniteSet(1..Len(ticks))
    BY FS_Interval DEF PlacesIn
<1>2. IsFiniteSet(PlacesIn(tf, start, ticks))
    BY <1>1, FS_Subset
<1>3. QED
    BY <1>1, <1>2, FS_CardinalityType

LEMMA CandleOfIs ==
    ASSUME NEW tf \in Timeframes, NEW start \in Nat \cup {-1}, NEW ticks \in Seq(Tick)
    PROVE  /\ CandleOf(tf, start, ticks) =
                  [tf |-> tf, openTs |-> start,
                   ticks |-> [n \in 1..Cardinality(PlacesIn(tf, start, ticks)) |->
                                 ticks[Ascending(PlacesIn(tf, start, ticks))[n]].price]]
           /\ CandleOf(tf, start, ticks) \in Bucket
<1> DEFINE S == PlacesIn(tf, start, ticks)
           places == Ascending(S)
           prices == [n \in 1..Cardinality(S) |-> ticks[places[n]].price]
<1>1. S \in SUBSET Int /\ IsFiniteSet(S) /\ Cardinality(S) \in Nat
    BY PlacesAre, LenProperties
<1>2. places \in [1..Cardinality(S) -> S]
    BY <1>1, AscendingIs DEF InOrder
<1>3. Len(places) = Cardinality(S)
    <2> HIDE DEF S, places
    <2>1. QED
        BY <1>1, <1>2, LenProperties
<1>4. CandleOf(tf, start, ticks) = [tf |-> tf, openTs |-> start, ticks |-> prices]
    <2>1. CandleOf(tf, start, ticks) =
              [tf |-> tf, openTs |-> start, ticks |-> [n \in 1..Len(places) |-> ticks[places[n]].price]]
        BY DEF CandleOf, PlacesIn
    <2>2. QED
        BY <1>3, <2>1
<1>5. ASSUME NEW n \in 1..Cardinality(S) PROVE ticks[places[n]].price \in Prices
    <2>1. places[n] \in S
        BY <1>2
    <2>2. places[n] \in 1..Len(ticks) /\ ticks[places[n]].kind = "index"
        BY <2>1 DEF PlacesIn, InTime
    <2>3. ticks[places[n]] \in Tick
        BY <2>2, ElementOfSeq
    <2>4. QED
        BY <2>2, <2>3 DEF Tick, IndexTick, OptionTick
<1> HIDE DEF S, places
<1>6. prices \in Seq(Prices)
    <2>1. prices \in [1..Cardinality(S) -> Prices]
        BY <1>5
    <2> HIDE DEF prices
    <2>2. QED
        BY <1>1, <2>1, SeqDef
<1>7. QED
    BY <1>4, <1>6 DEF Bucket, S, places, prices

\* The candles of a sequence of ticks are finitely many.
LEMMA CandlesAre ==
    ASSUME NEW tf \in Timeframes, NEW ticks \in Seq(Tick)
    PROVE  /\ CandlesOf(tf, ticks) \in SUBSET Bucket
           /\ IsFiniteSet(CandlesOf(tf, ticks))
           /\ \A c \in CandlesOf(tf, ticks) : c.tf = tf /\ c = CandleOf(tf, c.openTs, ticks)
<1> DEFINE Candle(n) == CandleOf(tf, BucketFor(tf, ticks[n].ts), ticks)
           all == {Candle(n) : n \in 1..Len(ticks)}
           f == [n \in 1..Len(ticks) |-> Candle(n)]
<1>1. ASSUME NEW n \in 1..Len(ticks)
      PROVE  /\ Candle(n) \in Bucket /\ Candle(n).tf = tf
             /\ Candle(n) = CandleOf(tf, Candle(n).openTs, ticks)
    <2>1. ticks[n] \in Tick
        BY ElementOfSeq
    <2>2. BucketFor(tf, ticks[n].ts) \in Nat
        BY <2>1, TickTimes, BucketForType
    <2>3. QED
        BY <2>2, CandleOfIs
<1>2. IsFiniteSet(all)
    <2>1. Len(ticks) \in Nat
        BY LenProperties
    <2>2. IsFiniteSet(1..Len(ticks))
        BY <2>1, FS_Interval
    <2>3. f \in Surjection(1..Len(ticks), all)
        BY DEF Surjection
    <2> HIDE DEF f, all
    <2>4. QED
        BY <2>2, <2>3, FS_Surjection
<1>3. CandlesOf(tf, ticks) \in SUBSET all
    BY DEF CandlesOf
<1>4. \A c \in all : c \in Bucket /\ c.tf = tf /\ c = CandleOf(tf, c.openTs, ticks)
    BY <1>1
<1>5. IsFiniteSet(CandlesOf(tf, ticks))
    <2> HIDE DEF all
    <2>1. QED
        BY <1>2, <1>3, FS_Subset
<1>6. QED
    BY <1>3, <1>4, <1>5
----
LEMMA StoredAre ==
    ASSUME NEW ticks \in Seq(Tick)
    PROVE  LET stored == UNION {CandlesOf(tf, ticks) : tf \in Timeframes}
           IN  /\ stored \in SUBSET Bucket /\ IsFiniteSet(stored)
               /\ \A c, d \in stored : c.tf = d.tf /\ c.openTs = d.openTs => c = d
<1> DEFINE sets == {CandlesOf(tf, ticks) : tf \in Timeframes}
           f == [tf \in Timeframes |-> CandlesOf(tf, ticks)]
<1>1. IsFiniteSet(Timeframes)
    <2>1. Len(Widths) \in Nat
        BY ReplayAssumption, LenProperties
    <2>2. QED
        BY <2>1, FS_Interval DEF Timeframes
<1>2. IsFiniteSet(sets)
    <2>1. f \in Surjection(Timeframes, sets)
        BY DEF Surjection
    <2> HIDE DEF f, sets
    <2>2. QED
        BY <1>1, <2>1, FS_Surjection
<1>3. \A set \in sets : IsFiniteSet(set)
    BY CandlesAre
<1>4. IsFiniteSet(UNION sets)
    <2> HIDE DEF sets
    <2>1. QED
        BY <1>2, <1>3, FS_UNION
<1>5. ASSUME NEW c \in UNION sets
      PROVE  c \in Bucket /\ c.tf \in Timeframes /\ c = CandleOf(c.tf, c.openTs, ticks)
    <2>1. PICK tf \in Timeframes : c \in CandlesOf(tf, ticks)
        OBVIOUS
    <2>2. QED
        BY <2>1, CandlesAre
<1>6. QED
    BY <1>4, <1>5

LEMMA CloseTsType ==
    ASSUME NEW c \in Bucket
    PROVE  CloseTs(c) \in Nat /\ CloseTs(c) = c.openTs + Widths[c.tf] /\ Widths[c.tf] \in Nat \ {0}
BY WidthsAre DEF Bucket, CloseTs

\* The ids of the candle table: the candles in the order of their end.
LEMMA ById ==
    ASSUME NEW S \in SUBSET Bucket, IsFiniteSet(S),
           \A c, d \in S : c.tf = d.tf /\ c.openTs = d.openTs => c = d
    PROVE  InOrder(Sorted(S, Earlier), {p \in S \X S : Earlier(p[1], p[2])}, S)
<1> DEFINE R == {p \in S \X S : Earlier(p[1], p[2])}
           list == Sorted(S, Earlier)
<1>1. \A a, b \in S : <<a, b>> \in R <=> Earlier(a, b)
    OBVIOUS
<1>2. Orders(R, S)
    <2>1. \A c \in S : /\ c.tf \in Nat /\ c.openTs \in Int /\ CloseTs(c) \in Nat
                       /\ CloseTs(c) = c.openTs + Widths[c.tf] /\ Widths[c.tf] \in Nat
        BY CloseTsType DEF Bucket, Timeframes
    <2>2. \A a \in S : ~Earlier(a, a)
        BY <2>1 DEF Earlier
    <2>3. \A a, b, c \in S : Earlier(a, b) /\ Earlier(b, c) => Earlier(a, c)
        BY <2>1 DEF Earlier
    <2>4. \A a, b \in S : a # b => Earlier(a, b) \/ Earlier(b, a)
        <3>1. ASSUME NEW a \in S, NEW b \in S, ~Earlier(a, b), ~Earlier(b, a) PROVE a = b
            <4>1. CloseTs(a) = CloseTs(b) /\ a.tf = b.tf
                BY <2>1, <3>1 DEF Earlier
            <4>2. a.openTs = b.openTs
                BY <2>1, <4>1
            <4>3. QED
                BY <4>1, <4>2
        <3>2. QED
            BY <3>1
    <2> HIDE DEF R
    <2>5. QED
        BY <1>1, <2>2, <2>3, <2>4, Zenon DEF Orders
<1>3. \A e \in S : Below(R, S, e) = {f \in S : Earlier(f, e)}
    <2> HIDE DEF R
    <2>1. QED
        BY <1>1 DEF Below
<1>4. list = [n \in 1..Cardinality(S) |-> CHOOSE e \in S : Cardinality({f \in S : Earlier(f, e)}) = n - 1]
    BY DEF Sorted
<1> HIDE DEF R, list
<1>5. ASSUME NEW n \in 1..Cardinality(S)
      PROVE  list[n] \in S /\ Cardinality(Below(R, S, list[n])) = n - 1
    <2>1. PICK e \in S : Cardinality(Below(R, S, e)) = n - 1
        BY <1>2, RanksExist
    <2>2. \E d \in S : Cardinality({f \in S : Earlier(f, d)}) = n - 1
        BY <1>3, <2>1
    <2>3. list[n] = CHOOSE d \in S : Cardinality({f \in S : Earlier(f, d)}) = n - 1
        BY <1>4
    <2>4. list[n] \in S /\ Cardinality({f \in S : Earlier(f, list[n])}) = n - 1
        BY <2>2, <2>3
    <2>5. QED
        BY <1>3, <2>4
<1>6. list \in [1..Cardinality(S) -> S]
    BY <1>4, <1>5
<1>7. InOrder(list, R, S)
    BY <1>2, <1>5, <1>6, RanksOrder
<1>8. QED
    BY <1>7 DEF R, list

\* The sort of the events: no two of them have the same key.
LEMMA SortedEvents ==
    ASSUME NEW S \in SUBSET Event, IsFiniteSet(S),
           \A e, f \in S : e.kind = f.kind /\ e.seq = f.seq => e = f
    PROVE  InOrder(Sorted(S, Before), {p \in S \X S : Before(p[1], p[2])}, S)
<1> DEFINE R == {p \in S \X S : Before(p[1], p[2])}
           list == Sorted(S, Before)
<1>1. \A a, b \in S : <<a, b>> \in R <=> Before(a, b)
    OBVIOUS
<1>2. Orders(R, S)
    <2>1. \A e \in S : /\ e.ts \in Int /\ e.seq \in Nat /\ KindRank[e.kind] \in Nat
        BY DEF Event, KindRank
    <2>2. \A a \in S : ~Before(a, a)
        BY <2>1 DEF Before
    <2>3. \A a, b, c \in S : Before(a, b) /\ Before(b, c) => Before(a, c)
        BY <2>1 DEF Before
    <2>4. \A a, b \in S : a # b => Before(a, b) \/ Before(b, a)
        <3>1. ASSUME NEW a \in S, NEW b \in S, ~Before(a, b), ~Before(b, a) PROVE a = b
            <4>1. a.seq = b.seq /\ KindRank[a.kind] = KindRank[b.kind]
                BY <2>1, <3>1 DEF Before
            <4>2. a.kind = b.kind
                BY <4>1 DEF KindRank, Event
            <4>3. QED
                BY <4>1, <4>2
        <3>2. QED
            BY <3>1
    <2> HIDE DEF R
    <2>5. QED
        BY <1>1, <2>2, <2>3, <2>4, Zenon DEF Orders
<1>3. \A e \in S : Below(R, S, e) = {f \in S : Before(f, e)}
    <2> HIDE DEF R
    <2>1. QED
        BY <1>1 DEF Below
<1>4. list = [n \in 1..Cardinality(S) |-> CHOOSE e \in S : Cardinality({f \in S : Before(f, e)}) = n - 1]
    BY DEF Sorted
<1> HIDE DEF R, list
<1>5. ASSUME NEW n \in 1..Cardinality(S)
      PROVE  list[n] \in S /\ Cardinality(Below(R, S, list[n])) = n - 1
    <2>1. PICK e \in S : Cardinality(Below(R, S, e)) = n - 1
        BY <1>2, RanksExist
    <2>2. \E d \in S : Cardinality({f \in S : Before(f, d)}) = n - 1
        BY <1>3, <2>1
    <2>3. list[n] = CHOOSE d \in S : Cardinality({f \in S : Before(f, d)}) = n - 1
        BY <1>4
    <2>4. list[n] \in S /\ Cardinality({f \in S : Before(f, list[n])}) = n - 1
        BY <2>2, <2>3
    <2>5. QED
        BY <1>3, <2>4
<1>6. list \in [1..Cardinality(S) -> S]
    BY <1>4, <1>5
<1>7. InOrder(list, R, S)
    BY <1>2, <1>5, <1>6, RanksOrder
<1>8. QED
    BY <1>7 DEF R, list
----
LEMMA TickEventType ==
    ASSUME NEW t \in Tick, NEW n \in Nat
    PROVE  TickEvent(t, n) \in Event /\ TickEvent(t, n).kind # "candle"
<1>1. t.ts \in Nat
    BY TickTimes
<1>2. CASE t \in IndexTick
    BY <1>1, <1>2 DEF TickEvent, Event, IndexTick
<1>3. CASE t \in OptionTick
    BY <1>1, <1>3 DEF TickEvent, Event, OptionTick
<1>4. QED
    BY <1>2, <1>3 DEF Tick

LEMMA CandleEventType ==
    ASSUME NEW c \in Bucket, NEW n \in Nat
    PROVE  CandleEvent(c, n) \in Event /\ CandleEvent(c, n).kind = "candle"
BY CloseTsType DEF CandleEvent, Event

\* Two rows of one table have two ids.
LEMMA RowIdsDiffer ==
    ASSUME wal \in Seq(Tick), NEW n \in 1..Len(wal)
    PROVE  /\ RowId(n) \in Nat
           /\ \A m \in 1..Len(wal) : wal[m].kind = wal[n].kind /\ RowId(m) = RowId(n) => m = n
<1> DEFINE Rows(k) == {m \in 1..k : wal[m].kind = wal[k].kind}
<1>1. ASSUME NEW k \in 1..Len(wal)
      PROVE  IsFiniteSet(Rows(k)) /\ Cardinality(Rows(k)) \in Nat
    <2>1. k \in Int /\ Rows(k) \in SUBSET (1..k)
        OBVIOUS
    <2>2. IsFiniteSet(1..k)
        BY <2>1, FS_Interval
    <2>3. QED
        BY <2>1, <2>2, FS_Subset, FS_CardinalityType
<1>2. ASSUME NEW j \in 1..Len(wal), NEW k \in 1..Len(wal), j < k, wal[j].kind = wal[k].kind
      PROVE  Cardinality(Rows(j)) < Cardinality(Rows(k))
    <2>1. Rows(j) \in SUBSET Rows(k) /\ k \in Rows(k) /\ k \notin Rows(j)
        BY <1>2
    <2>2. Rows(j) # Rows(k)
        BY <2>1
    <2> HIDE DEF Rows
    <2>3. /\ Cardinality(Rows(j)) <= Cardinality(Rows(k))
          /\ Cardinality(Rows(k)) = Cardinality(Rows(j)) => Rows(k) = Rows(j)
        BY <1>1, <2>1, FS_Subset
    <2>4. QED
        BY <1>1, <2>2, <2>3
<1>3. \A k : RowId(k) = Cardinality(Rows(k))
    BY DEF RowId
<1> HIDE DEF Rows
<1>4. ASSUME NEW m \in 1..Len(wal), wal[m].kind = wal[n].kind, RowId(m) = RowId(n), m # n PROVE FALSE
    <2>1. m < n \/ n < m
        BY <1>4
    <2>2. QED
        BY <1>1, <1>2, <1>3, <1>4, <2>1
<1>5. QED
    BY <1>1, <1>3, <1>4

LEMMA WalEventsAre ==
    ASSUME wal \in Seq(Tick)
    PROVE  /\ WalEvents \in Seq(Event) /\ Len(WalEvents) = Len(wal)
           /\ \A n \in 1..Len(wal) : WalEvents[n].ts = wal[n].ts
<1>1. Len(wal) \in Nat /\ \A n \in 1..Len(wal) : wal[n] \in Tick
    BY ElementOfSeq, LenProperties
<1>2. WalEvents = [n \in 1..Len(wal) |-> TickEvent(wal[n], n)]
    BY DEF WalEvents
<1>3. \A n \in 1..Len(wal) : TickEvent(wal[n], n) \in Event /\ TickEvent(wal[n], n).ts = wal[n].ts
    <2>1. \A n \in 1..Len(wal) : TickEvent(wal[n], n) \in Event
        BY <1>1, TickEventType
    <2>2. QED
        BY <2>1 DEF TickEvent
<1>4. WalEvents \in [1..Len(wal) -> Event]
    BY <1>2, <1>3
<1>5. QED
    BY <1>1, <1>2, <1>3, <1>4, SeqDef, LenProperties

LEMMA PgEventsAre ==
    ASSUME wal \in Seq(Tick)
    PROVE  /\ PgEvents \in Seq(Event)
           /\ \A m, n \in 1..Len(PgEvents) : m < n => PgEvents[m].ts <= PgEvents[n].ts
<1> DEFINE stored == UNION {CandlesOf(tf, wal) : tf \in Timeframes}
           byId == Sorted(stored, Earlier)
           ticks == {TickEvent(wal[n], RowId(n)) : n \in 1..Len(wal)}
           candles == {CandleEvent(byId[n], n) : n \in 1..Len(byId)}
           all == ticks \cup candles
           tickAt == [n \in 1..Len(wal) |-> TickEvent(wal[n], RowId(n))]
           candleAt == [n \in 1..Len(byId) |-> CandleEvent(byId[n], n)]
<1>1. PgEvents = Sorted(all, Before)
    BY DEF PgEvents
<1>2. Len(wal) \in Nat /\ \A n \in 1..Len(wal) : wal[n] \in Tick /\ RowId(n) \in Nat
    BY ElementOfSeq, LenProperties, RowIdsDiffer
<1>3. /\ stored \in SUBSET Bucket /\ IsFiniteSet(stored)
      /\ \A c, d \in stored : c.tf = d.tf /\ c.openTs = d.openTs => c = d
    BY StoredAre
<1> HIDE DEF stored
<1>4. byId \in [1..Cardinality(stored) -> stored]
    BY <1>3, ById DEF InOrder
<1>5. Len(byId) \in Nat /\ \A n \in 1..Len(byId) : byId[n] \in Bucket
    <2>1. Cardinality(stored) \in Nat
        BY <1>3, FS_CardinalityType
    <2> HIDE DEF byId
    <2>2. Len(byId) = Cardinality(stored)
        BY <1>4, <2>1, LenProperties
    <2>3. QED
        BY <1>3, <1>4, <2>1, <2>2
<1> HIDE DEF byId
<1>6. ticks \in SUBSET Event /\ (\A e \in ticks : e.kind # "candle") /\ IsFiniteSet(ticks)
    <2>1. \A n \in 1..Len(wal) :
              TickEvent(wal[n], RowId(n)) \in Event /\ TickEvent(wal[n], RowId(n)).kind # "candle"
        BY <1>2, TickEventType
    <2>2. IsFiniteSet(1..Len(wal))
        BY <1>2, FS_Interval
    <2>3. tickAt \in Surjection(1..Len(wal), ticks)
        BY DEF Surjection
    <2>4. IsFiniteSet(ticks)
        <3> HIDE DEF tickAt, ticks
        <3>1. QED
            BY <2>2, <2>3, FS_Surjection
    <2>5. QED
        BY <2>1, <2>4
<1>7. candles \in SUBSET Event /\ (\A e \in candles : e.kind = "candle") /\ IsFiniteSet(candles)
    <2>1. \A n \in 1..Len(byId) :
              CandleEvent(byId[n], n) \in Event /\ CandleEvent(byId[n], n).kind = "candle"
        BY <1>5, CandleEventType
    <2>2. IsFiniteSet(1..Len(byId))
        BY <1>5, FS_Interval
    <2>3. candleAt \in Surjection(1..Len(byId), candles)
        BY DEF Surjection
    <2>4. IsFiniteSet(candles)
        <3> HIDE DEF candleAt, candles
        <3>1. QED
            BY <2>2, <2>3, FS_Surjection
    <2>5. QED
        BY <2>1, <2>4
<1>8. ASSUME NEW e \in all, NEW f \in all, e.kind = f.kind, e.seq = f.seq PROVE e = f
    <2>1. CASE e \in ticks /\ f \in ticks
        <3>1. PICK m \in 1..Len(wal) : e = TickEvent(wal[m], RowId(m))
            BY <2>1
        <3>2. PICK n \in 1..Len(wal) : f = TickEvent(wal[n], RowId(n))
            BY <2>1
        <3>3. wal[m].kind = wal[n].kind /\ RowId(m) = RowId(n)
            BY <1>8, <3>1, <3>2 DEF TickEvent
        <3>4. m = n
            BY <3>3, RowIdsDiffer
        <3>5. QED
            BY <3>1, <3>2, <3>4
    <2>2. CASE e \in candles /\ f \in candles
        BY <1>8, <2>2 DEF CandleEvent
    <2>3. QED
        BY <1>6, <1>7, <1>8, <2>1, <2>2
<1>9. all \in SUBSET Event /\ IsFiniteSet(all)
    <2> HIDE DEF ticks, candles
    <2>1. QED
        BY <1>6, <1>7, FS_Union
<1> HIDE DEF all
<1>10. InOrder(PgEvents, {p \in all \X all : Before(p[1], p[2])}, all)
    BY <1>1, <1>8, <1>9, SortedEvents
<1>11. Cardinality(all) \in Nat /\ PgEvents \in [1..Cardinality(all) -> all]
    BY <1>9, <1>10, FS_CardinalityType DEF InOrder
<1>12. PgEvents \in Seq(Event) /\ Len(PgEvents) = Cardinality(all)
    BY <1>9, <1>11, SeqDef, LenProperties
<1>13. ASSUME NEW m \in 1..Len(PgEvents), NEW n \in 1..Len(PgEvents), m < n
       PROVE  PgEvents[m].ts <= PgEvents[n].ts
    <2>1. PgEvents[m] \in Event /\ PgEvents[n] \in Event /\ Before(PgEvents[m], PgEvents[n])
        BY <1>9, <1>10, <1>11, <1>12, <1>13 DEF InOrder
    <2>2. PgEvents[m].ts \in Int /\ PgEvents[n].ts \in Int
        BY <2>1 DEF Event
    <2>3. QED
        BY <2>1, <2>2 DEF Before
<1>14. QED
    BY <1>12, <1>13
----
\* The buckets closed together: one of each timeframe, in the order of the timeframes.
LEMMA ClosedIs ==
    ASSUME agg \in [Timeframes -> Bucket], NEW T \in SUBSET Timeframes
    PROVE  /\ InOrder(Ascending(T), {p \in T \X T : p[1] < p[2]}, T)
           /\ Cardinality(T) \in Nat /\ Len(Closed(T)) = Cardinality(T)
           /\ Closed(T) \in Seq(Bucket)
           /\ \A n \in 1..Cardinality(T) : Closed(T)[n] = agg[Ascending(T)[n]]
<1>1. T \in SUBSET Int /\ IsFiniteSet(T)
    <2>1. Len(Widths) \in Nat
        BY ReplayAssumption, LenProperties
    <2>2. T \in SUBSET (1..Len(Widths)) /\ IsFiniteSet(1..Len(Widths))
        BY <2>1, FS_Interval DEF Timeframes
    <2>3. IsFiniteSet(T)
        BY <2>2, FS_Subset
    <2>4. QED
        BY <2>1, <2>2, <2>3
<1>2. InOrder(Ascending(T), {p \in T \X T : p[1] < p[2]}, T)
    BY <1>1, AscendingIs
<1>3. Cardinality(T) \in Nat /\ Ascending(T) \in [1..Cardinality(T) -> T]
    BY <1>1, <1>2, FS_CardinalityType DEF InOrder
<1>4. Len(Ascending(T)) = Cardinality(T)
    BY <1>3, LenProperties
<1>5. Closed(T) = [n \in 1..Cardinality(T) |-> agg[Ascending(T)[n]]]
    BY <1>4 DEF Closed
<1>6. Closed(T) \in [1..Cardinality(T) -> Bucket]
    BY <1>3, <1>5
<1>7. Closed(T) \in Seq(Bucket) /\ Len(Closed(T)) = Cardinality(T)
    BY <1>3, <1>6, SeqDef, LenProperties
<1>8. QED
    BY <1>2, <1>3, <1>5, <1>7

LEMMA OnCandlesType ==
    ASSUME NEW cs \in Seq(Bucket)
    PROVE  OnCandles(cs) \in Seq(Signal)
<1>1. Len(cs) \in Nat /\ \A n \in 1..Len(cs) : cs[n] \in Bucket
    BY LenProperties, ElementOfSeq
<1>2. ASSUME NEW n \in 1..Len(cs)
      PROVE  [on |-> "future", ts |-> CloseTs(cs[n]), about |-> cs[n].ticks] \in Signal
    <2>1. CloseTs(cs[n]) \in Nat /\ cs[n].ticks \in Seq(Prices)
        BY <1>1, CloseTsType DEF Bucket
    <2>2. cs[n].ticks \in Seq(Prices \cup {0})
        BY <2>1, SeqDef
    <2>3. QED
        BY <2>1, <2>2 DEF Signal, Instruments
<1>3. OnCandles(cs) \in [1..Len(cs) -> Signal]
    BY <1>2 DEF OnCandles
<1>4. QED
    BY <1>1, <1>3, SeqDef

LEMMA EventParts ==
    ASSUME NEW e \in Event
    PROVE  /\ e.ts \in Nat /\ e.seq \in Nat /\ e.kind \in {"index", "option", "candle"}
           /\ e.kind = "index" => e.tick \in IndexTick /\ e.tick.ts = e.ts
           /\ e.kind = "option" => e.tick \in OptionTick /\ e.tick.ts = e.ts
           /\ e.kind = "candle" => e.candle \in Bucket /\ CloseTs(e.candle) = e.ts
BY DEF Event

LEMMA SignalsOnType ==
    ASSUME agg \in [Timeframes -> Bucket], spot \in [ts : Nat, price : Prices \cup {0}], NEW e \in Event
    PROVE  SignalsOn(e) \in Seq(Signal)
<1>1. CASE e.kind = "index"
    <2>1. ClosedByTick(e.tick) \in Seq(Bucket)
        BY ClosedIs DEF ClosedByTick
    <2>2. SignalsOn(e) = OnCandles(ClosedByTick(e.tick))
        BY <1>1 DEF SignalsOn
    <2>3. QED
        BY <2>1, <2>2, OnCandlesType
<1>2. CASE e.kind = "option"
    <2>1. e.tick.ts \in Nat
        BY <1>2, EventParts
    <2>2. [on |-> "option", ts |-> e.tick.ts, about |-> <<spot.price>>] \in Signal
        <3>1. <<spot.price>> \in Seq(Prices \cup {0})
            OBVIOUS
        <3>2. QED
            BY <2>1, <3>1 DEF Signal, Instruments
    <2>3. OnGreeks(e.tick) \in Seq(Signal)
        BY <2>2 DEF OnGreeks
    <2>4. SignalsOn(e) = IF Priced(e.tick) THEN OnGreeks(e.tick) ELSE <<>>
        BY <1>2 DEF SignalsOn
    <2>5. QED
        BY <2>3, <2>4
<1>3. CASE e.kind = "candle"
    <2>1. <<e.candle>> \in Seq(Bucket)
        BY <1>3, EventParts
    <2>2. SignalsOn(e) = OnCandles(<<e.candle>>)
        BY <1>3 DEF SignalsOn
    <2>3. QED
        BY <2>1, <2>2, OnCandlesType
<1>4. QED
    BY <1>1, <1>2, <1>3, EventParts

LEMMA FedType ==
    ASSUME agg \in [Timeframes -> Bucket], NEW tf \in Timeframes, NEW t \in IndexTick,
           agg[tf].tf = tf, agg[tf].openTs = -1 <=> agg[tf] = NoBucket(tf)
    PROVE  /\ BucketFor(tf, t.ts) \in Nat
           /\ Fed(tf, t) \in Bucket /\ Fed(tf, t).tf = tf /\ Fed(tf, t).openTs # -1
<1>1. BucketFor(tf, t.ts) \in Nat /\ t.price \in Prices
    BY BucketForType, ReplayAssumption DEF IndexTick
<1>2. agg[tf] \in Bucket /\ agg[tf].openTs \in Nat \cup {-1} /\ agg[tf].ticks \in Seq(Prices)
    BY DEF Bucket
<1>3. <<t.price>> \in Seq(Prices) /\ Append(agg[tf].ticks, t.price) \in Seq(Prices)
    BY <1>1, <1>2, AppendProperties
<1>4. CASE BucketFor(tf, t.ts) > agg[tf].openTs
    <2>1. Fed(tf, t) = [tf |-> tf, openTs |-> BucketFor(tf, t.ts), ticks |-> <<t.price>>]
        BY <1>4 DEF Fed
    <2>2. QED
        BY <1>1, <1>3, <2>1 DEF Bucket
<1>5. CASE ~(BucketFor(tf, t.ts) > agg[tf].openTs)
    <2>1. Fed(tf, t) = [agg[tf] EXCEPT !.ticks =
              IF BucketFor(tf, t.ts) = agg[tf].openTs THEN Append(@, t.price) ELSE @]
        BY <1>5 DEF Fed
    <2>2. agg[tf].openTs # -1
        BY <1>1, <1>2, <1>5
    <2>3. QED
        BY <1>1, <1>2, <1>3, <2>1, <2>2 DEF Bucket
<1>6. QED
    BY <1>1, <1>4, <1>5

LEMMA StreamsType ==
    ASSUME wal \in Seq(Tick), source \in {"wal", "pg", "merged"}
    PROVE  Streams \in Seq(Seq(Event))
<1>1. WalEvents \in Seq(Event) /\ PgEvents \in Seq(Event)
    BY WalEventsAre, PgEventsAre
<1>2. QED
    BY <1>1 DEF Streams
----
LEMMA ReplayInitTypes == ReplayInit => ReplayTypeOK
<1> SUFFICES ASSUME ReplayInit PROVE ReplayTypeOK
    OBVIOUS
<1>1. wal \in Seq(Tick)
    <2>1. PICK n \in 0..MaxTicks : wal \in [1..n -> Tick]
        BY DEF ReplayInit, SeqOf
    <2>2. n \in Nat
        BY <2>1, ReplayAssumption
    <2>3. QED
        BY <2>1, <2>2, SeqDef
<1>2. \A tf \in Timeframes : NoBucket(tf) \in Bucket /\ NoBucket(tf).tf = tf /\ NoBucket(tf).openTs = -1
    BY DEF NoBucket, Bucket
<1>3. agg \in [Timeframes -> Bucket] /\ \A tf \in Timeframes : agg[tf] = NoBucket(tf)
    BY <1>2 DEF ReplayInit
<1>4. spot \in [ts : Nat, price : Prices \cup {0}] /\ last \in [Instruments -> Nat \cup {-1}]
    BY DEF ReplayInit, NoSpot
<1>5. QED
    BY <1>1, <1>2, <1>3, <1>4 DEF ReplayInit, ReplayTypeOK

\* The first of a stream's events, and what remains of it.
LEMMA HeadOfStream ==
    ASSUME ReplayTypeOK, NEW s \in DOMAIN rest, rest[s] # <<>>
    PROVE  /\ Head(rest[s]) \in Event /\ Head(rest[s]) = rest[s][1]
           /\ Tail(rest[s]) \in Seq(Event) /\ Len(Tail(rest[s])) = Len(rest[s]) - 1
           /\ Len(rest[s]) \in Nat \ {0}
           /\ \A n \in 1..Len(Tail(rest[s])) : Tail(rest[s])[n] = rest[s][n + 1]
<1>1. rest[s] \in Seq(Event)
    BY ElementOfSeq, LenProperties DEF ReplayTypeOK
<1>2. QED
    BY <1>1, HeadTailProperties, EmptySeq, LenProperties, ElementOfSeq

LEMMA TakeTypes ==
    ASSUME ReplayTypeOK, NEW s \in DOMAIN rest, NEW kind, Take(s, kind)
    PROVE  /\ rest' \in Seq(Seq(Event)) /\ lastTs' \in Nat /\ due' \in Seq(Signal)
           /\ Head(rest[s]) \in Event /\ Head(rest[s]).kind = kind /\ rest[s] # <<>>
<1>1. rest[s] # <<>> /\ Head(rest[s]).kind = kind
    BY DEF Take, Heads
<1>2. Head(rest[s]) \in Event /\ Tail(rest[s]) \in Seq(Event)
    BY <1>1, HeadOfStream
<1>3. rest' \in Seq(Seq(Event))
    <2>1. rest \in Seq(Seq(Event)) /\ rest' = [rest EXCEPT ![s] = Tail(rest[s])]
        BY DEF ReplayTypeOK, Take
    <2>2. s \in 1..Len(rest)
        BY <2>1, LenProperties
    <2>3. QED
        BY <1>2, <2>1, <2>2, ExceptSeq
<1>4. lastTs' \in Nat
    BY <1>2, EventParts DEF Take
<1>5. due' \in Seq(Signal)
    BY <1>2, SignalsOnType DEF ReplayTypeOK, Take
<1>6. QED
    BY <1>1, <1>2, <1>3, <1>4, <1>5

LEMMA NextReplayTypes == ReplayTypeOK /\ [ReplayNext]_replayVars => ReplayTypeOK'
<1> SUFFICES ASSUME ReplayTypeOK, [ReplayNext]_replayVars PROVE ReplayTypeOK'
    OBVIOUS
<1>1. CASE StartReplay
    <2>1. rest' \in Seq(Seq(Event))
        <3>1. source \in {"wal", "pg", "merged"} /\ wal \in Seq(Tick)
            BY ReplayAssumption DEF ReplayTypeOK
        <3>2. QED
            BY <1>1, <3>1, StreamsType DEF StartReplay
    <2>2. \A tf \in Timeframes : NoBucket(tf) \in Bucket /\ NoBucket(tf).tf = tf /\ NoBucket(tf).openTs = -1
        BY DEF NoBucket, Bucket
    <2>3. agg' = [tf \in Timeframes |-> NoBucket(tf)] /\ spot' = NoSpot /\ last' = [i \in Instruments |-> -1]
          /\ lastTs' = -1
        BY <1>1 DEF StartReplay, Fresh
    <2>4. /\ spot' \in [ts : Nat, price : Prices \cup {0}] /\ last' \in [Instruments -> Nat \cup {-1}]
          /\ lastTs' \in Nat \cup {-1}
        BY <2>3 DEF NoSpot
    <2>5. agg' \in [Timeframes -> Bucket] /\ \A tf \in Timeframes : agg'[tf] = NoBucket(tf)
        BY <2>2, <2>3
    <2>6. /\ \A tf \in Timeframes : agg'[tf].tf = tf /\ (agg'[tf].openTs = -1 <=> agg'[tf] = NoBucket(tf))
        BY <2>2, <2>5
    <2>7. /\ phase' = "loop" /\ due' = <<>> /\ out' = <<>> /\ eaten' = <<>> /\ built' = <<>> /\ priced' = {}
          /\ UNCHANGED <<source, wal, file, runs>>
        BY <1>1 DEF StartReplay, inputs
    <2>8. QED
        BY <2>1, <2>4, <2>5, <2>6, <2>7 DEF ReplayTypeOK
<1>2. ASSUME NEW s \in DOMAIN rest, OnIndexTick(s) PROVE ReplayTypeOK'
    <2> DEFINE t == Head(rest[s]).tick
    <2>1. /\ rest' \in Seq(Seq(Event)) /\ lastTs' \in Nat /\ due' \in Seq(Signal)
          /\ Head(rest[s]) \in Event /\ Head(rest[s]).kind = "index"
        BY <1>2, TakeTypes DEF OnIndexTick
    <2>2. t \in IndexTick
        BY <2>1, EventParts
    <2>3. /\ spot' = [ts |-> t.ts, price |-> t.price] /\ agg' = [tf \in Timeframes |-> Fed(tf, t)]
          /\ built' = built \o ClosedByTick(t) /\ eaten' = Append(eaten, t) /\ priced' = priced
          /\ UNCHANGED <<source, wal, phase, last, file, out, runs>>
        BY <1>2 DEF OnIndexTick, Take, inputs
    <2> HIDE DEF t
    <2>4. /\ agg' \in [Timeframes -> Bucket]
          /\ \A tf \in Timeframes : agg'[tf].tf = tf /\ (agg'[tf].openTs = -1 <=> agg'[tf] = NoBucket(tf))
        <3>1. ASSUME NEW tf \in Timeframes
              PROVE  /\ Fed(tf, t) \in Bucket /\ Fed(tf, t).tf = tf
                     /\ Fed(tf, t).openTs # -1 /\ Fed(tf, t) # NoBucket(tf)
            <4>1. Fed(tf, t) \in Bucket /\ Fed(tf, t).tf = tf /\ Fed(tf, t).openTs # -1
                BY <2>2, FedType DEF ReplayTypeOK
            <4>2. QED
                BY <4>1 DEF NoBucket
        <3>2. QED
            BY <2>3, <3>1
    <2>5. built' \in Seq(Bucket)
        <3>1. ClosedByTick(t) \in Seq(Bucket)
            BY ClosedIs DEF ClosedByTick, ReplayTypeOK
        <3>2. QED
            BY <2>3, <3>1, ConcatProperties DEF ReplayTypeOK
    <2>6. eaten' \in Seq(IndexTick)
        BY <2>2, <2>3, AppendProperties DEF ReplayTypeOK
    <2>7. spot' \in [ts : Nat, price : Prices \cup {0}]
        BY <2>2, <2>3, ReplayAssumption DEF IndexTick
    <2>8. QED
        BY <2>1, <2>3, <2>4, <2>5, <2>6, <2>7 DEF ReplayTypeOK
<1>3. ASSUME NEW s \in DOMAIN rest, OnOptionTick(s) PROVE ReplayTypeOK'
    <2> DEFINE t == Head(rest[s]).tick
    <2>1. /\ rest' \in Seq(Seq(Event)) /\ lastTs' \in Nat /\ due' \in Seq(Signal)
          /\ Head(rest[s]) \in Event /\ Head(rest[s]).kind = "option"
        BY <1>3, TakeTypes DEF OnOptionTick
    <2>2. t.ts \in Nat
        BY <2>1, EventParts
    <2>3. /\ priced' = IF Priced(t) THEN priced \cup {[ts |-> t.ts, spotTs |-> spot.ts]} ELSE priced
          /\ UNCHANGED <<source, wal, phase, agg, spot, last, file, out, eaten, built, runs>>
        BY <1>3 DEF OnOptionTick, Take, inputs
    <2> HIDE DEF t
    <2>4. priced' \subseteq [ts : Nat, spotTs : Nat]
        <3>1. spot.ts \in Nat /\ priced \subseteq [ts : Nat, spotTs : Nat]
            BY DEF ReplayTypeOK
        <3>2. QED
            BY <2>2, <2>3, <3>1
    <2>5. QED
        BY <2>1, <2>3, <2>4 DEF ReplayTypeOK
<1>4. ASSUME NEW s \in DOMAIN rest, OnCandle(s) PROVE ReplayTypeOK'
    <2>1. rest' \in Seq(Seq(Event)) /\ lastTs' \in Nat /\ due' \in Seq(Signal)
        BY <1>4, TakeTypes DEF OnCandle
    <2>2. UNCHANGED <<source, wal, phase, agg, spot, last, file, out, eaten, built, priced, runs>>
        BY <1>4 DEF OnCandle, Take, inputs, history
    <2>3. QED
        BY <2>1, <2>2 DEF ReplayTypeOK
<1>5. CASE HandleSignal
    <2>1. due \in Seq(Signal) /\ due # <<>>
        BY <1>5 DEF HandleSignal, ReplayTypeOK
    <2>2. Head(due) \in Signal /\ Tail(due) \in Seq(Signal)
        BY <2>1, HeadTailProperties
    <2>3. /\ due' = Tail(due)
          /\ UNCHANGED <<source, wal, phase, rest, agg, spot, lastTs, eaten, built, priced, runs>>
        BY <1>5 DEF HandleSignal, inputs, history
    <2>4. CASE UNCHANGED <<last, file, out>>
        BY <2>2, <2>3, <2>4 DEF ReplayTypeOK
    <2>5. CASE /\ last' = [last EXCEPT ![Head(due).on] = Head(due).ts]
               /\ file' = Append(file, Head(due)) /\ out' = Append(out, Head(due))
        <3>1. last' \in [Instruments -> Nat \cup {-1}]
            BY <2>2, <2>5 DEF ReplayTypeOK, Signal
        <3>2. file' \in Seq(Signal) /\ out' \in Seq(Signal)
            BY <2>2, <2>5, AppendProperties DEF ReplayTypeOK
        <3>3. QED
            BY <2>2, <2>3, <3>1, <3>2 DEF ReplayTypeOK
    <2>6. QED
        BY <1>5, <2>4, <2>5 DEF HandleSignal
<1>6. CASE CloseBuckets
    <2>1. /\ phase' = "end" /\ due' = OnCandles(ClosedAtEnd) /\ built' = built \o ClosedAtEnd
          /\ agg' = [tf \in Timeframes |-> IF EndsBy(tf) THEN NoBucket(tf) ELSE agg[tf]]
          /\ UNCHANGED <<source, wal, rest, spot, last, lastTs, file, out, eaten, priced, runs>>
        BY <1>6 DEF CloseBuckets, inputs
    <2>2. ClosedAtEnd \in Seq(Bucket)
        BY ClosedIs DEF ClosedAtEnd, ReplayTypeOK
    <2>3. due' \in Seq(Signal) /\ built' \in Seq(Bucket)
        BY <2>1, <2>2, OnCandlesType, ConcatProperties DEF ReplayTypeOK
    <2>4. \A tf \in Timeframes : NoBucket(tf) \in Bucket /\ NoBucket(tf).tf = tf /\ NoBucket(tf).openTs = -1
        BY DEF NoBucket, Bucket
    <2>5. /\ agg' \in [Timeframes -> Bucket]
          /\ \A tf \in Timeframes : agg'[tf].tf = tf /\ (agg'[tf].openTs = -1 <=> agg'[tf] = NoBucket(tf))
        <3>1. /\ agg \in [Timeframes -> Bucket]
              /\ \A tf \in Timeframes : agg[tf].tf = tf /\ (agg[tf].openTs = -1 <=> agg[tf] = NoBucket(tf))
            BY DEF ReplayTypeOK
        <3>2. QED
            BY <2>1, <2>4, <3>1
    <2>6. QED
        BY <2>1, <2>3, <2>5 DEF ReplayTypeOK
<1>7. ASSUME NEW done \in BOOLEAN, Over(done) PROVE ReplayTypeOK'
    <2>1. [wrote |-> out, done |-> done, file |-> file]
              \in [wrote : Seq(Signal), done : BOOLEAN, file : Seq(Signal)]
        BY DEF ReplayTypeOK
    <2>2. runs' \in Seq([wrote : Seq(Signal), done : BOOLEAN, file : Seq(Signal)])
        <3> DEFINE R == [wrote : Seq(Signal), done : BOOLEAN, file : Seq(Signal)]
        <3>1. runs \in Seq(R) /\ runs' = Append(runs, [wrote |-> out, done |-> done, file |-> file])
            BY <1>7 DEF ReplayTypeOK, Over
        <3> HIDE DEF R
        <3>2. runs' \in Seq(R)
            BY <2>1, <3>1, AppendProperties DEF R
        <3>3. QED
            BY <3>2 DEF R
    <2>3. /\ phase' = "stopped" /\ due' = <<>>
          /\ UNCHANGED <<source, wal, rest, agg, spot, last, lastTs, file, out, eaten, built, priced>>
        BY <1>7 DEF Over, inputs, engine, history
    <2>4. QED
        BY <2>2, <2>3 DEF ReplayTypeOK
<1>8. CASE UNCHANGED replayVars
    BY <1>8 DEF ReplayTypeOK, replayVars, inputs, engine, history
<1>9. QED
    BY <1>1, <1>2, <1>3, <1>4, <1>5, <1>6, <1>7, <1>8 DEF ReplayNext, Finish, KillRun

\* Every variable keeps its type.
THEOREM ReplayTypesHold == ReplaySpec => []ReplayTypeOK
BY ReplayInitTypes, NextReplayTypes, PTL DEF ReplaySpec
----
(***************************************************************************)
(* Once the buckets have been closed, what is left is later than the last  *)
(* event.                                                                  *)
(***************************************************************************)
Ended == phase = "end" \/ (phase = "stopped" /\ runs # <<>> /\ Last(runs).done)

EndInv == Ended => \A tf \in Timeframes : agg[tf] # NoBucket(tf) => lastTs < agg[tf].openTs

LEMMA NextEnd == ReplayTypeOK /\ EndInv /\ [ReplayNext]_replayVars => EndInv'
<1> SUFFICES ASSUME ReplayTypeOK, EndInv, [ReplayNext]_replayVars PROVE EndInv'
    OBVIOUS
<1>1. CASE CloseBuckets
    <2>1. UNCHANGED lastTs /\ agg' = [tf \in Timeframes |-> IF EndsBy(tf) THEN NoBucket(tf) ELSE agg[tf]]
        BY <1>1 DEF CloseBuckets
    <2>2. ASSUME NEW tf \in Timeframes, agg'[tf] # NoBucket(tf) PROVE lastTs < agg[tf].openTs
        <3>1. ~EndsBy(tf) /\ agg[tf] # NoBucket(tf)
            BY <2>1, <2>2
        <3>2. agg[tf].openTs \in Nat /\ agg[tf].tf = tf /\ lastTs \in Int /\ Widths[tf] \in Nat
            BY <3>1, WidthsAre DEF ReplayTypeOK, Bucket
        <3>3. ~(lastTs + Widths[tf] >= agg[tf].openTs + Widths[tf])
            BY <3>1, <3>2 DEF EndsBy, CloseTs
        <3>4. QED
            BY <3>2, <3>3
    <2>3. \A tf \in Timeframes : agg'[tf] = NoBucket(tf) \/ agg'[tf] = agg[tf]
        BY <2>1
    <2>4. QED
        BY <2>1, <2>2, <2>3 DEF EndInv, NoBucket
<1>2. CASE Finish
    <2>1. phase = "end" /\ UNCHANGED <<agg, lastTs>>
        BY <1>2 DEF Finish, Over, engine
    <2>2. QED
        BY <2>1 DEF EndInv, Ended, NoBucket
<1>3. CASE KillRun
    <2>1. runs' # <<>> /\ ~Last(runs').done /\ phase' = "stopped"
        <3> DEFINE R == [wrote : Seq(Signal), done : BOOLEAN, file : Seq(Signal)]
                   new == [wrote |-> out, done |-> FALSE, file |-> file]
        <3>1. runs \in Seq(R) /\ runs' = Append(runs, new) /\ phase' = "stopped"
            BY <1>3 DEF ReplayTypeOK, KillRun, Over
        <3>2. new \in R
            BY DEF ReplayTypeOK
        <3>3. ~new.done
            OBVIOUS
        <3> HIDE DEF R, new
        <3>4. runs' \in Seq(R) /\ Len(runs') = Len(runs) + 1 /\ runs'[Len(runs) + 1] = new /\ runs' # <<>>
            BY <3>1, <3>2, AppendProperties
        <3>5. Last(runs') = new
            BY <3>4 DEF Last
        <3>6. QED
            BY <3>1, <3>3, <3>4, <3>5
    <2>2. QED
        BY <2>1 DEF EndInv, Ended
<1>4. CASE StartReplay
    BY <1>4 DEF StartReplay, EndInv, Ended
<1>5. CASE HandleSignal
    BY <1>5 DEF HandleSignal, EndInv, Ended, NoBucket
<1>6. ASSUME NEW s \in DOMAIN rest, NEW kind, Take(s, kind) PROVE EndInv'
    BY <1>6 DEF Take, EndInv, Ended
<1>7. CASE UNCHANGED replayVars
    BY <1>7 DEF replayVars, engine, EndInv, Ended, NoBucket
<1>8. QED
    BY <1>1, <1>2, <1>3, <1>4, <1>5, <1>6, <1>7 DEF ReplayNext, OnIndexTick, OnOptionTick, OnCandle

(***************************************************************************)
(* A run that completes leaves only buckets later than its last event.     *)
(***************************************************************************)
THEOREM EndsLeaveLateBuckets == ReplaySpec => []OnlyALateEndLeavesABucket
<1>1. ReplayInit => EndInv
    BY DEF ReplayInit, EndInv, Ended
<1>2. EndInv => OnlyALateEndLeavesABucket
    BY DEF EndInv, Ended, OnlyALateEndLeavesABucket
<1>3. QED
    BY <1>1, <1>2, NextEnd, ReplayTypesHold, PTL DEF ReplaySpec
----
(***************************************************************************)
(* When the log is in the order of time so is every stream, and the merge  *)
(* goes on from the last event: what is still to come is not before it,    *)
(* and the spot known is not after it.                                     *)
(***************************************************************************)
InTimeOrder == \A n \in 2..Len(wal) : wal[n - 1].ts <= wal[n].ts

Ascends(events) == \A m, n \in 1..Len(events) : m < n => events[m].ts <= events[n].ts

FutureInv ==
    InTimeOrder =>
        /\ \A s \in DOMAIN rest : Ascends(rest[s]) /\ \A n \in 1..Len(rest[s]) : lastTs <= rest[s][n].ts
        /\ spot = NoSpot \/ spot.ts <= lastTs
        /\ \A p \in priced : p.spotTs <= p.ts

\* From one tick to the next is from any tick to any later one.
LEMMA LogAscends ==
    ASSUME wal \in Seq(Tick), InTimeOrder
    PROVE  \A m, n \in 1..Len(wal) : m < n => wal[m].ts <= wal[n].ts
<1>1. Len(wal) \in Nat /\ \A n \in 1..Len(wal) : wal[n].ts \in Nat
    BY ElementOfSeq, LenProperties, TickTimes
<1>2. ASSUME NEW m \in 1..Len(wal) PROVE \A n \in 1..Len(wal) : m < n => wal[m].ts <= wal[n].ts
    <2> DEFINE Bad == {n \in 1..Len(wal) : m < n /\ ~(wal[m].ts <= wal[n].ts)}
    <2>1. ASSUME Bad # {} PROVE FALSE
        <3>1. Bad \in SUBSET Nat
            OBVIOUS
        <3>2. PICK n \in Bad : \A k \in Bad : n <= k
            <4> HIDE DEF Bad
            <4>1. QED
                BY <2>1, <3>1, Least
        <3>3. n \in 2..Len(wal) /\ n - 1 \in 1..Len(wal) /\ m < n
            BY <1>1, <3>2
        <3>4. wal[n - 1].ts <= wal[n].ts
            BY <3>3 DEF InTimeOrder
        <3>5. n - 1 \notin Bad
            BY <3>1, <3>2
        <3>6. wal[m].ts <= wal[n - 1].ts
            BY <1>1, <3>3, <3>5
        <3>7. QED
            BY <1>1, <3>2, <3>3, <3>4, <3>6
    <2>2. QED
        BY <2>1
<1>3. QED
    BY <1>2

LEMMA StreamsAscend ==
    ASSUME wal \in Seq(Tick), InTimeOrder, source \in {"wal", "pg", "merged"}
    PROVE  \A s \in DOMAIN Streams : Ascends(Streams[s])
<1>1. Ascends(WalEvents)
    <2>1. Len(WalEvents) = Len(wal) /\ \A n \in 1..Len(wal) : WalEvents[n].ts = wal[n].ts
        BY WalEventsAre
    <2>2. QED
        BY <2>1, LogAscends DEF Ascends
<1>2. Ascends(PgEvents)
    BY PgEventsAre DEF Ascends
<1>3. QED
    BY <1>1, <1>2 DEF Streams

\* The event taken is not before the last one, and not after what remains.
LEMMA TakeAscends ==
    ASSUME ReplayTypeOK, FutureInv, InTimeOrder, NEW s \in DOMAIN rest, NEW kind, Take(s, kind)
    PROVE  /\ lastTs <= lastTs' /\ lastTs' = Head(rest[s]).ts
           /\ \A r \in DOMAIN rest' :
                  Ascends(rest'[r]) /\ \A n \in 1..Len(rest'[r]) : lastTs' <= rest'[r][n].ts
<1>1. rest[s] # <<>> /\ Head(rest[s]) \in Event /\ lastTs' = Head(rest[s]).ts
    BY TakeTypes DEF Take
<1>2. /\ rest \in Seq(Seq(Event)) /\ rest' = [rest EXCEPT ![s] = Tail(@)]
    BY DEF Take, ReplayTypeOK
<1>3. \A r \in DOMAIN rest : \A n \in 1..Len(rest[r]) : rest[r][n] \in Event /\ rest[r][n].ts \in Nat
    <2>1. \A r \in DOMAIN rest : rest[r] \in Seq(Event)
        BY <1>2, ElementOfSeq, LenProperties
    <2>2. QED
        BY <2>1, ElementOfSeq, EventParts
<1>4. /\ Head(rest[s]) = rest[s][1] /\ Len(Tail(rest[s])) = Len(rest[s]) - 1 /\ Len(rest[s]) \in Nat \ {0}
      /\ \A n \in 1..Len(Tail(rest[s])) : Tail(rest[s])[n] = rest[s][n + 1]
    BY <1>1, HeadOfStream
<1>5. \A r \in DOMAIN rest : Ascends(rest[r]) /\ \A n \in 1..Len(rest[r]) : lastTs <= rest[r][n].ts
    BY DEF FutureInv
<1>6. lastTs <= lastTs'
    BY <1>1, <1>4, <1>5
<1>7. /\ Ascends(Tail(rest[s]))
      /\ \A n \in 1..Len(Tail(rest[s])) : lastTs' <= Tail(rest[s])[n].ts
    <2>1. Ascends(rest[s])
        BY <1>5
    <2>2. QED
        BY <1>1, <1>4, <2>1 DEF Ascends
<1>8. ASSUME NEW r \in DOMAIN rest, r # s, NEW n \in 1..Len(rest[r]) PROVE lastTs' <= rest[r][n].ts
    <2>1. rest[r] # <<>> /\ Head(rest[r]) = rest[r][1] /\ Len(rest[r]) \in Nat \ {0}
        <3>1. rest[r] # <<>>
            BY <1>8, EmptySeq
        <3>2. QED
            BY <3>1, HeadOfStream
    <2>2. Before(Head(rest[s]), Head(rest[r])) \/ ~Before(Head(rest[r]), Head(rest[s]))
        BY <1>8, <2>1 DEF Take, Heads
    <2>3. Head(rest[s]).ts \in Nat /\ Head(rest[r]).ts \in Nat
        BY <1>3, <1>4, <2>1
    <2>4. Head(rest[s]).ts <= Head(rest[r]).ts
        BY <2>2, <2>3 DEF Before
    <2>5. rest[r][1].ts <= rest[r][n].ts
        <3>1. CASE n = 1
            BY <1>3, <2>1, <3>1
        <3>2. CASE n # 1
            BY <1>5, <2>1, <3>2 DEF Ascends
        <3>3. QED
            BY <3>1, <3>2
    <2>6. QED
        BY <1>1, <1>3, <2>1, <2>3, <2>4, <2>5
<1>9. ASSUME NEW r \in DOMAIN rest'
      PROVE  Ascends(rest'[r]) /\ \A n \in 1..Len(rest'[r]) : lastTs' <= rest'[r][n].ts
    <2>1. CASE r = s
        <3>1. rest'[r] = Tail(rest[s])
            BY <1>2, <2>1
        <3>2. QED
            BY <1>7, <3>1
    <2>2. CASE r # s
        <3>1. rest'[r] = rest[r] /\ r \in DOMAIN rest
            BY <1>2, <2>2
        <3>2. QED
            BY <1>5, <1>8, <2>2, <3>1
    <2>3. QED
        BY <2>1, <2>2
<1>10. QED
    BY <1>1, <1>6, <1>9

LEMMA NextFuture == ReplayTypeOK /\ FutureInv /\ [ReplayNext]_replayVars => FutureInv'
<1> SUFFICES ASSUME ReplayTypeOK, FutureInv, [ReplayNext]_replayVars, InTimeOrder' PROVE FutureInv'
    BY DEF FutureInv
<1>1. wal' = wal
    BY DEF ReplayNext, replayVars, inputs, StartReplay, HandleSignal, CloseBuckets, Finish, KillRun, Over,
           OnIndexTick, OnOptionTick, OnCandle, Take
<1>2. InTimeOrder
    BY <1>1 DEF InTimeOrder
<1>3. CASE StartReplay
    <2>1. source \in {"wal", "pg", "merged"} /\ wal \in Seq(Tick)
        BY ReplayAssumption DEF ReplayTypeOK
    <2>2. rest' = Streams /\ spot' = NoSpot /\ priced' = {} /\ lastTs' = -1
        BY <1>3 DEF StartReplay, Fresh
    <2>3. \A s \in DOMAIN rest' : Ascends(rest'[s])
        BY <1>2, <2>1, <2>2, StreamsAscend
    <2>4. rest' \in Seq(Seq(Event))
        BY <2>1, <2>2, StreamsType
    <2>5. ASSUME NEW s \in DOMAIN rest', NEW n \in 1..Len(rest'[s]) PROVE lastTs' <= rest'[s][n].ts
        <3>1. rest'[s] \in Seq(Event)
            BY <2>4, ElementOfSeq, LenProperties
        <3>2. rest'[s][n].ts \in Nat
            BY <3>1, ElementOfSeq, EventParts
        <3>3. QED
            BY <2>2, <3>2
    <2>6. NoSpot' = NoSpot
        BY DEF NoSpot
    <2>7. QED
        BY <2>2, <2>3, <2>5, <2>6 DEF FutureInv, Ascends
<1>4. ASSUME NEW s \in DOMAIN rest, NEW kind, Take(s, kind),
             \/ spot' = spot /\ priced' = priced
             \/ spot'.ts = lastTs' /\ priced' = priced
             \/ spot' = spot /\ priced' = IF Priced(Head(rest[s]).tick)
                                         THEN priced \cup {[ts |-> lastTs', spotTs |-> spot.ts]} ELSE priced
      PROVE  FutureInv'
    <2>1. /\ lastTs <= lastTs'
          /\ \A r \in DOMAIN rest' :
                 Ascends(rest'[r]) /\ \A n \in 1..Len(rest'[r]) : lastTs' <= rest'[r][n].ts
        BY <1>2, <1>4, TakeAscends
    <2>2. lastTs \in Int /\ lastTs' \in Int /\ spot.ts \in Nat
        BY <1>4, TakeTypes DEF ReplayTypeOK
    <2>3. (spot = NoSpot \/ spot.ts <= lastTs) /\ \A p \in priced : p.spotTs <= p.ts
        BY <1>2 DEF FutureInv
    <2>4. spot' = NoSpot \/ spot'.ts <= lastTs'
        BY <1>4, <2>1, <2>2, <2>3
    <2>5. Priced(Head(rest[s]).tick) => spot.ts <= lastTs'
        <3>1. spot.price > 0 => spot # NoSpot
            BY DEF NoSpot
        <3>2. QED
            BY <2>1, <2>2, <2>3, <3>1 DEF Priced
    <2>6. \A p \in priced' : p.spotTs <= p.ts
        BY <1>4, <2>3, <2>5
    <2>7. NoSpot' = NoSpot
        BY DEF NoSpot
    <2>8. QED
        BY <2>1, <2>4, <2>6, <2>7 DEF FutureInv, Ascends
<1>5. ASSUME NEW s \in DOMAIN rest, OnIndexTick(s) PROVE FutureInv'
    <2>1. Head(rest[s]) \in Event /\ Head(rest[s]).kind = "index"
        BY <1>5, TakeTypes DEF OnIndexTick
    <2>2. spot'.ts = lastTs' /\ priced' = priced
        BY <1>5, <2>1, EventParts DEF OnIndexTick, Take
    <2>3. QED
        BY <1>4, <1>5, <2>2 DEF OnIndexTick
<1>6. ASSUME NEW s \in DOMAIN rest, OnOptionTick(s) PROVE FutureInv'
    <2>1. Head(rest[s]) \in Event /\ Head(rest[s]).kind = "option"
        BY <1>6, TakeTypes DEF OnOptionTick
    <2>2. Head(rest[s]).tick.ts = lastTs'
        BY <1>6, <2>1, EventParts DEF OnOptionTick, Take
    <2>3. QED
        BY <1>4, <1>6, <2>2 DEF OnOptionTick
<1>7. ASSUME NEW s \in DOMAIN rest, OnCandle(s) PROVE FutureInv'
    BY <1>4, <1>7 DEF OnCandle, history
<1>8. CASE UNCHANGED <<rest, spot, lastTs, priced>>
    <2>1. NoSpot' = NoSpot
        BY DEF NoSpot
    <2>2. QED
        BY <1>2, <1>8, <2>1 DEF FutureInv, Ascends
<1>9. QED
    BY <1>3, <1>5, <1>6, <1>7, <1>8
       DEF ReplayNext, replayVars, engine, history, HandleSignal, CloseBuckets, Finish, KillRun, Over

(***************************************************************************)
(* With a log in the order of time no option is priced with a later spot,  *)
(* whatever sources are merged.                                            *)
(***************************************************************************)
THEOREM MergeKeepsTime == ReplaySpec => []GreeksSeeNoFuture
<1>1. ReplayInit => FutureInv
    BY DEF ReplayInit, FutureInv
<1>2. FutureInv => GreeksSeeNoFuture
    BY DEF FutureInv, InTimeOrder, GreeksSeeNoFuture
<1>3. QED
    BY <1>1, <1>2, NextFuture, ReplayTypesHold, PTL DEF ReplaySpec
----
(***************************************************************************)
(* The candles after one more tick.                                        *)
(***************************************************************************)
LEMMA IndexTicks ==
    ASSUME NEW ticks \in Seq(IndexTick)
    PROVE  /\ ticks \in Seq(Tick) /\ Len(ticks) \in Nat
           /\ \A n \in 1..Len(ticks) : ticks[n] \in IndexTick /\ ticks[n].kind = "index" /\ ticks[n].ts \in Nat
<1>1. Len(ticks) \in Nat /\ ticks \in [1..Len(ticks) -> IndexTick]
    BY LenProperties
<1>2. ticks \in [1..Len(ticks) -> Tick]
    BY <1>1 DEF Tick
<1>3. ticks \in Seq(Tick)
    BY <1>1, <1>2, SeqDef
<1>4. \A t \in IndexTick : t.kind = "index" /\ t.ts \in Nat
    BY ReplayAssumption DEF IndexTick
<1>5. QED
    BY <1>1, <1>3, <1>4

\* In time: of the bucket, and after none of a later one.
LEMMA InTimeIs ==
    ASSUME NEW tf \in Timeframes, NEW st \in Nat, NEW ticks \in Seq(IndexTick), NEW n \in 1..Len(ticks)
    PROVE  InTime(tf, st, ticks, n) <=>
              /\ BucketFor(tf, ticks[n].ts) = st
              /\ \A m \in 1..(n - 1) : BucketFor(tf, ticks[m].ts) <= st
<1>1. Len(ticks) \in Nat /\ \A m \in 1..Len(ticks) : ticks[m].kind = "index"
    BY IndexTicks
<1>2. \A m \in 1..(n - 1) : m \in 1..Len(ticks)
    BY <1>1
<1>3. QED
    BY <1>1, <1>2 DEF InTime

LEMMA Members ==
    ASSUME NEW tf \in Timeframes, NEW ticks \in Seq(IndexTick), NEW c
    PROVE  c \in CandlesOf(tf, ticks) <=>
              \E n \in 1..Len(ticks) :
                  /\ InTime(tf, BucketFor(tf, ticks[n].ts), ticks, n)
                  /\ c = CandleOf(tf, BucketFor(tf, ticks[n].ts), ticks)
<1>1. ticks \in Seq(Tick) /\ Len(ticks) \in Nat /\ \A n \in 1..Len(ticks) : ticks[n].ts \in Nat
    BY IndexTicks
<1>2. ASSUME NEW st \in Nat
      PROVE  CandleOf(tf, st, ticks).ticks # <<>> <=> PlacesIn(tf, st, ticks) # {}
    <2>1. IsFiniteSet(PlacesIn(tf, st, ticks)) /\ Cardinality(PlacesIn(tf, st, ticks)) \in Nat
        BY <1>1, PlacesAre
    <2>2. Cardinality(PlacesIn(tf, st, ticks)) = 0 <=> PlacesIn(tf, st, ticks) = {}
        BY <2>1, FS_EmptySet
    <2>3. Len(CandleOf(tf, st, ticks).ticks) = Cardinality(PlacesIn(tf, st, ticks))
          /\ CandleOf(tf, st, ticks).ticks \in Seq(Prices)
        <3> DEFINE prices == [n \in 1..Cardinality(PlacesIn(tf, st, ticks)) |->
                                 ticks[Ascending(PlacesIn(tf, st, ticks))[n]].price]
        <3>1. CandleOf(tf, st, ticks) \in Bucket
            BY <1>1, CandleOfIs
        <3>2. CandleOf(tf, st, ticks) = [tf |-> tf, openTs |-> st, ticks |-> prices]
            BY <1>1, CandleOfIs
        <3>3. DOMAIN prices = 1..Cardinality(PlacesIn(tf, st, ticks))
            OBVIOUS
        <3> HIDE DEF prices
        <3>4. CandleOf(tf, st, ticks).ticks = prices /\ prices \in Seq(Prices)
            BY <3>1, <3>2 DEF Bucket
        <3>5. QED
            BY <2>1, <3>3, <3>4, LenProperties
    <2>4. QED
        BY <2>1, <2>2, <2>3, EmptySeq
<1>3. ASSUME c \in CandlesOf(tf, ticks)
      PROVE  \E n \in 1..Len(ticks) :
                 /\ InTime(tf, BucketFor(tf, ticks[n].ts), ticks, n)
                 /\ c = CandleOf(tf, BucketFor(tf, ticks[n].ts), ticks)
    <2>1. PICK m \in 1..Len(ticks) : c = CandleOf(tf, BucketFor(tf, ticks[m].ts), ticks) /\ c.ticks # <<>>
        BY <1>3 DEF CandlesOf
    <2> DEFINE st == BucketFor(tf, ticks[m].ts)
    <2>2. st \in Nat
        BY <1>1, BucketForType
    <2>3. PICK n \in PlacesIn(tf, st, ticks) : TRUE
        BY <1>2, <2>1, <2>2
    <2>4. n \in 1..Len(ticks) /\ InTime(tf, st, ticks, n)
        BY <2>3 DEF PlacesIn
    <2>5. BucketFor(tf, ticks[n].ts) = st
        BY <2>4 DEF InTime
    <2>6. QED
        BY <2>1, <2>4, <2>5
<1>4. ASSUME NEW n \in 1..Len(ticks), InTime(tf, BucketFor(tf, ticks[n].ts), ticks, n),
             c = CandleOf(tf, BucketFor(tf, ticks[n].ts), ticks)
      PROVE  c \in CandlesOf(tf, ticks)
    <2>1. BucketFor(tf, ticks[n].ts) \in Nat
        BY <1>1, BucketForType
    <2>2. n \in PlacesIn(tf, BucketFor(tf, ticks[n].ts), ticks)
        BY <1>4 DEF PlacesIn
    <2>3. c.ticks # <<>>
        BY <1>2, <1>4, <2>1, <2>2
    <2>4. QED
        BY <1>4, <2>3 DEF CandlesOf
<1>5. QED
    BY <1>3, <1>4

\* more is ticks and one more.
Longer(ticks, t, more) == more = Append(ticks, t)

\* One more tick leaves the others where they are, and adds its price if it is in time.
LEMMA OneMoreTick ==
    ASSUME NEW tf \in Timeframes, NEW st \in Nat, NEW ticks \in Seq(IndexTick), NEW t \in IndexTick,
           NEW more, Longer(ticks, t, more)
    PROVE  /\ more \in Seq(IndexTick) /\ Len(ticks) \in Nat /\ Len(more) = Len(ticks) + 1
           /\ more[Len(ticks) + 1] = t /\ \A n \in 1..Len(ticks) : more[n] = ticks[n]
           /\ \A n \in 1..Len(ticks) : InTime(tf, st, more, n) <=> InTime(tf, st, ticks, n)
           /\ InTime(tf, st, more, Len(ticks) + 1) <=>
                 /\ BucketFor(tf, t.ts) = st
                 /\ \A n \in 1..Len(ticks) : BucketFor(tf, ticks[n].ts) <= st
           /\ IF InTime(tf, st, more, Len(ticks) + 1)
              THEN CandleOf(tf, st, more) =
                      [tf |-> tf, openTs |-> st, ticks |-> Append(CandleOf(tf, st, ticks).ticks, t.price)]
              ELSE CandleOf(tf, st, more) = CandleOf(tf, st, ticks)
<1> DEFINE k == Len(ticks) + 1
           S == PlacesIn(tf, st, ticks)
           S2 == PlacesIn(tf, st, more)
<1>1. more \in Seq(IndexTick) /\ Len(ticks) \in Nat /\ Len(more) = k
      /\ more[k] = t /\ \A n \in 1..Len(ticks) : more[n] = ticks[n]
    BY AppendProperties, LenProperties DEF Longer
<1>2. ASSUME NEW n \in 1..Len(ticks) PROVE InTime(tf, st, more, n) <=> InTime(tf, st, ticks, n)
    <2>1. n \in 1..Len(more) /\ \A m \in 1..(n - 1) : m \in 1..Len(ticks)
        BY <1>1
    <2>2. InTime(tf, st, more, n) <=>
              /\ BucketFor(tf, more[n].ts) = st
              /\ \A m \in 1..(n - 1) : BucketFor(tf, more[m].ts) <= st
        BY <1>1, <2>1, InTimeIs
    <2>3. InTime(tf, st, ticks, n) <=>
              /\ BucketFor(tf, ticks[n].ts) = st
              /\ \A m \in 1..(n - 1) : BucketFor(tf, ticks[m].ts) <= st
        BY InTimeIs
    <2>4. \A m \in 1..(n - 1) : more[m] = ticks[m]
        BY <1>1, <2>1
    <2>5. more[n] = ticks[n]
        BY <1>1
    <2>6. QED
        BY <2>2, <2>3, <2>4, <2>5
<1>3. InTime(tf, st, more, k) <=>
          /\ BucketFor(tf, t.ts) = st
          /\ \A n \in 1..Len(ticks) : BucketFor(tf, ticks[n].ts) <= st
    <2>1. k \in 1..Len(more) /\ k - 1 = Len(ticks)
        BY <1>1
    <2>2. InTime(tf, st, more, k) <=>
              /\ BucketFor(tf, more[k].ts) = st
              /\ \A m \in 1..(k - 1) : BucketFor(tf, more[m].ts) <= st
        <3> HIDE DEF k
        <3>1. QED
            BY <1>1, <2>1, InTimeIs
    <2>3. QED
        BY <1>1, <2>1, <2>2
<1>4. ticks \in Seq(Tick) /\ more \in Seq(Tick)
    BY <1>1, IndexTicks
<1>5. /\ CandleOf(tf, st, ticks) =
             [tf |-> tf, openTs |-> st, ticks |-> [n \in 1..Cardinality(S) |-> ticks[Ascending(S)[n]].price]]
      /\ CandleOf(tf, st, more) =
             [tf |-> tf, openTs |-> st, ticks |-> [n \in 1..Cardinality(S2) |-> more[Ascending(S2)[n]].price]]
    BY <1>4, CandleOfIs
<1>6. /\ S \in SUBSET (1..Len(ticks)) /\ IsFiniteSet(S) /\ Cardinality(S) \in Nat
      /\ Ascending(S) \in [1..Cardinality(S) -> S]
    <2>1. S \in SUBSET Int /\ IsFiniteSet(S) /\ Cardinality(S) \in Nat
        BY <1>1, PlacesAre
    <2>2. S \in SUBSET (1..Len(ticks))
        BY DEF PlacesIn
    <2> HIDE DEF S
    <2>3. QED
        BY <2>1, <2>2, AscendingIs DEF InOrder
<1>7. ASSUME NEW n \in 1..Cardinality(S)
      PROVE  Ascending(S)[n] \in 1..Len(ticks) /\ more[Ascending(S)[n]] = ticks[Ascending(S)[n]]
    <2> HIDE DEF S
    <2>1. Ascending(S)[n] \in 1..Len(ticks)
        BY <1>6
    <2>2. QED
        BY <1>1, <2>1
<1>8. CASE ~InTime(tf, st, more, k)
    <2>1. S2 = S
        <3>1. \A n : n \in 1..Len(more) <=> n \in 1..Len(ticks) \/ n = k
            BY <1>1
        <3>2. QED
            BY <1>2, <1>8, <3>1 DEF PlacesIn
    <2> HIDE DEF S, S2
    <2>2. CandleOf(tf, st, more) = CandleOf(tf, st, ticks)
        BY <1>5, <1>7, <2>1
    <2>3. QED
        BY <1>1, <1>2, <1>3, <1>8, <2>2
<1>9. CASE InTime(tf, st, more, k)
    <2>1. S2 = S \cup {k}
        <3>1. \A n : n \in 1..Len(more) <=> n \in 1..Len(ticks) \/ n = k
            BY <1>1
        <3>2. QED
            BY <1>2, <1>9, <3>1 DEF PlacesIn
    <2>2. S \in SUBSET Int /\ k \in Int /\ \A m \in S : m < k
        BY <1>1, <1>6
    <2> DEFINE c == Cardinality(S)
               prices == CandleOf(tf, st, ticks).ticks
               prices2 == CandleOf(tf, st, more).ticks
    <2> HIDE DEF S, S2, k
    <2>3. /\ c \in Nat /\ Cardinality(S2) = c + 1 /\ Ascending(S2)[c + 1] = k
          /\ \A n \in 1..c : Ascending(S2)[n] = Ascending(S)[n]
        BY <1>6, <2>1, <2>2, AscendingAppend
    <2>4. prices = [n \in 1..c |-> ticks[Ascending(S)[n]].price] /\ prices \in Seq(Prices)
        <3>1. CandleOf(tf, st, ticks) \in Bucket
            BY <1>4, CandleOfIs
        <3>2. prices \in Seq(Prices)
            BY <3>1 DEF Bucket
        <3>3. QED
            BY <1>5, <3>2
    <2>5. prices2 = [n \in 1..(c + 1) |-> more[Ascending(S2)[n]].price] /\ prices2 \in Seq(Prices)
        <3>1. CandleOf(tf, st, more) \in Bucket
            BY <1>4, CandleOfIs
        <3>2. prices2 \in Seq(Prices)
            BY <3>1 DEF Bucket
        <3> DEFINE F == [n \in 1..Cardinality(S2) |-> more[Ascending(S2)[n]].price]
        <3>3. CandleOf(tf, st, more) = [tf |-> tf, openTs |-> st, ticks |-> F]
            BY <1>5
        <3>4. F = [n \in 1..(c + 1) |-> more[Ascending(S2)[n]].price]
            BY <2>3
        <3> HIDE DEF F
        <3>5. prices2 = F
            BY <3>3
        <3>6. QED
            BY <3>2, <3>4, <3>5
    <2>6. \A n \in 1..c : prices2[n] = prices[n]
        BY <1>7, <2>3, <2>4, <2>5
    <2>7. prices2[c + 1] = t.price
        BY <1>1, <2>3, <2>5
    <2>8. prices2 = Append(prices, t.price)
        <3>1. Len(prices) = c /\ Len(prices2) = c + 1
            BY <2>3, <2>4, <2>5, LenProperties
        <3>2. t.price \in Prices
            BY DEF IndexTick
        <3> HIDE DEF prices, prices2, c
        <3>3. /\ Append(prices, t.price) \in Seq(Prices) /\ Len(Append(prices, t.price)) = c + 1
              /\ Append(prices, t.price)[c + 1] = t.price
              /\ \A n \in 1..c : Append(prices, t.price)[n] = prices[n]
            <4>1. prices \in Seq(Prices)
                BY <2>4
            <4>2. QED
                BY <3>1, <3>2, <4>1, AppendProperties
        <3>4. \A n \in 1..(c + 1) : prices2[n] = Append(prices, t.price)[n]
            BY <2>3, <2>6, <2>7, <3>3
        <3>5. QED
            BY <2>5, <3>1, <3>3, <3>4, SeqEqual
    <2>9. CandleOf(tf, st, more) = [tf |-> tf, openTs |-> st, ticks |-> prices2]
        <3> DEFINE F == [n \in 1..Cardinality(S2) |-> more[Ascending(S2)[n]].price]
        <3>1. CandleOf(tf, st, more) = [tf |-> tf, openTs |-> st, ticks |-> F]
            BY <1>5
        <3> HIDE DEF F
        <3>2. QED
            BY <3>1
    <2>10. QED
        BY <1>1, <1>2, <1>3, <1>9, <2>8, <2>9 DEF k
<1>10. QED
    BY <1>8, <1>9
----
(***************************************************************************)
(* A bucket in progress is the candle of the ticks so far, none of them of *)
(* a later bucket; while the loop goes on there is one from the first tick *)
(* on.  What was dispatched is what BuiltCandlesAreExact says.             *)
(***************************************************************************)
Dispatched(tf) == {c \in ToSet(built) : c.tf = tf}

Behind(tf) ==
    IF agg[tf] = NoBucket(tf) THEN CandlesOf(tf, eaten)
    ELSE {c \in CandlesOf(tf, eaten) : c.openTs < agg[tf].openTs}

Ordered(tf, cs) ==
    \A m, n \in 1..Len(cs) : (m < n /\ cs[m].tf = tf /\ cs[n].tf = tf) => cs[m].openTs < cs[n].openTs

Filled(tf) ==
    /\ agg[tf] # NoBucket(tf) =>
          /\ agg[tf] \in CandlesOf(tf, eaten)
          /\ \A n \in 1..Len(eaten) : BucketFor(tf, eaten[n].ts) <= agg[tf].openTs
    /\ (phase = "loop" /\ agg[tf] = NoBucket(tf)) => eaten = <<>>

ExactInv == \A tf \in Timeframes : Filled(tf) /\ Dispatched(tf) = Behind(tf) /\ Ordered(tf, built)

\* What is known of the candles of the ticks so far, and of the bucket in progress.
LEMMA CandleFacts ==
    ASSUME ReplayTypeOK, NEW tf \in Timeframes, Filled(tf)
    PROVE  /\ \A c \in CandlesOf(tf, eaten) :
                  /\ c.tf = tf /\ c.openTs \in Nat
                  /\ agg[tf] # NoBucket(tf) =>
                        c.openTs <= agg[tf].openTs /\ (c.openTs = agg[tf].openTs => c = agg[tf])
           /\ agg[tf] # NoBucket(tf) =>
                  agg[tf].openTs \in Nat /\ agg[tf] = CandleOf(tf, agg[tf].openTs, eaten)
<1>1. eaten \in Seq(IndexTick) /\ eaten \in Seq(Tick) /\ \A n \in 1..Len(eaten) : eaten[n].ts \in Nat
    BY IndexTicks DEF ReplayTypeOK
<1>2. ASSUME NEW c \in CandlesOf(tf, eaten)
      PROVE  /\ c.tf = tf /\ c.openTs \in Nat /\ c = CandleOf(tf, c.openTs, eaten)
             /\ \E n \in 1..Len(eaten) : c.openTs = BucketFor(tf, eaten[n].ts)
    <2>1. PICK n \in 1..Len(eaten) : c = CandleOf(tf, BucketFor(tf, eaten[n].ts), eaten)
        BY <1>1, Members
    <2>2. BucketFor(tf, eaten[n].ts) \in Nat
        BY <1>1, BucketForType
    <2>3. c.openTs = BucketFor(tf, eaten[n].ts) /\ c.tf = tf
        BY <2>1 DEF CandleOf
    <2>4. QED
        BY <2>1, <2>2, <2>3
<1>3. agg[tf] # NoBucket(tf) =>
          agg[tf].openTs \in Nat /\ agg[tf] = CandleOf(tf, agg[tf].openTs, eaten)
    BY <1>2 DEF Filled
<1>4. QED
    BY <1>2, <1>3 DEF Filled

(***************************************************************************)
(* The aggregator takes the next tick: its bucket is again the candle of   *)
(* the ticks, and the candles behind it are those of before, and the       *)
(* bucket it had if the tick rolled it over.                               *)
(***************************************************************************)
LEMMA FedIs ==
    ASSUME ReplayTypeOK, phase = "loop", NEW tf \in Timeframes, Filled(tf), NEW t \in IndexTick,
           NEW more, Longer(eaten, t, more)
    PROVE  /\ Fed(tf, t) \in CandlesOf(tf, more)
           /\ \A n \in 1..Len(more) : BucketFor(tf, more[n].ts) <= Fed(tf, t).openTs
           /\ {c \in CandlesOf(tf, more) : c.openTs < Fed(tf, t).openTs} =
                 Behind(tf) \cup (IF Rolls(tf, t) THEN {agg[tf]} ELSE {})
<1> DEFINE a == agg[tf]
           a2 == Fed(tf, t)
           start == BucketFor(tf, t.ts)
           k == Len(eaten) + 1
<1>1. /\ eaten \in Seq(IndexTick) /\ eaten \in Seq(Tick) /\ Len(eaten) \in Nat
      /\ \A n \in 1..Len(eaten) : eaten[n].ts \in Nat /\ BucketFor(tf, eaten[n].ts) \in Nat
    BY IndexTicks, BucketForType DEF ReplayTypeOK
<1>2. start \in Nat /\ a2 \in Bucket /\ a2.tf = tf /\ t.price \in Prices
    BY FedType DEF ReplayTypeOK, IndexTick
<1>3. /\ a \in Bucket /\ a.tf = tf /\ (a.openTs = -1 <=> a = NoBucket(tf)) /\ a.openTs \in Nat \cup {-1}
      /\ a # NoBucket(tf) => a.openTs \in Nat /\ a = CandleOf(tf, a.openTs, eaten)
      /\ a = NoBucket(tf) => eaten = <<>>
      /\ a # NoBucket(tf) =>
            a \in CandlesOf(tf, eaten) /\ \A n \in 1..Len(eaten) : BucketFor(tf, eaten[n].ts) <= a.openTs
    BY CandleFacts DEF ReplayTypeOK, Bucket, Filled
<1>4. more \in Seq(IndexTick) /\ Len(more) = k /\ more[k] = t /\ \A n \in 1..Len(eaten) : more[n] = eaten[n]
    BY <1>1, <1>2, OneMoreTick
<1>5. \A n : n \in 1..Len(more) <=> n \in 1..Len(eaten) \/ n = k
    BY <1>1, <1>4
<1>6. ASSUME NEW st \in Nat
      PROVE  /\ InTime(tf, st, more, k) <=>
                    start = st /\ \A n \in 1..Len(eaten) : BucketFor(tf, eaten[n].ts) <= st
             /\ \A n \in 1..Len(eaten) : InTime(tf, st, more, n) <=> InTime(tf, st, eaten, n)
             /\ IF InTime(tf, st, more, k)
                THEN CandleOf(tf, st, more) =
                        [tf |-> tf, openTs |-> st, ticks |-> Append(CandleOf(tf, st, eaten).ticks, t.price)]
                ELSE CandleOf(tf, st, more) = CandleOf(tf, st, eaten)
    <2>1. eaten \in Seq(IndexTick)
        BY <1>1
    <2>2. /\ InTime(tf, st, more, Len(eaten) + 1) <=>
                 /\ BucketFor(tf, t.ts) = st
                 /\ \A n \in 1..Len(eaten) : BucketFor(tf, eaten[n].ts) <= st
          /\ \A n \in 1..Len(eaten) : InTime(tf, st, more, n) <=> InTime(tf, st, eaten, n)
          /\ IF InTime(tf, st, more, Len(eaten) + 1)
             THEN CandleOf(tf, st, more) =
                     [tf |-> tf, openTs |-> st, ticks |-> Append(CandleOf(tf, st, eaten).ticks, t.price)]
             ELSE CandleOf(tf, st, more) = CandleOf(tf, st, eaten)
        BY <2>1, OneMoreTick, Zenon
    <2>3. QED
        BY <2>2, Zenon
<1>7. /\ start > a.openTs => a2 = [tf |-> tf, openTs |-> start, ticks |-> <<t.price>>]
      /\ start = a.openTs => a2 = [tf |-> tf, openTs |-> a.openTs, ticks |-> Append(a.ticks, t.price)]
      /\ start < a.openTs => a2 = a
    <2>1. start > a.openTs => a2 = [tf |-> tf, openTs |-> start, ticks |-> <<t.price>>]
        BY DEF Fed
    <2>2. ~(start > a.openTs) => a2 = [a EXCEPT !.ticks = IF start = a.openTs THEN Append(@, t.price) ELSE @]
        BY DEF Fed
    <2>3. a = [tf |-> a.tf, openTs |-> a.openTs, ticks |-> a.ticks]
        BY <1>3 DEF Bucket
    <2> HIDE DEF a, a2, start
    <2>4. start = a.openTs => a2 = [tf |-> tf, openTs |-> a.openTs, ticks |-> Append(a.ticks, t.price)]
        BY <1>2, <1>3, <2>2, <2>3
    <2>5. start < a.openTs => a2 = a
        BY <1>2, <1>3, <2>2, <2>3
    <2>6. QED
        BY <2>1, <2>4, <2>5
<1> HIDE DEF a, a2, start, k
<1>8. a2.openTs \in Nat /\ (a2.openTs = start \/ a2.openTs = a.openTs) /\ start <= a2.openTs /\ a.openTs <= a2.openTs
    BY <1>2, <1>3, <1>7
<1>9. \A n \in 1..Len(more) : BucketFor(tf, more[n].ts) <= a2.openTs
    <2>1. BucketFor(tf, more[k].ts) <= a2.openTs
        BY <1>4, <1>8 DEF start
    <2>2. ASSUME NEW n \in 1..Len(eaten) PROVE BucketFor(tf, more[n].ts) <= a2.openTs
        <3>1. a # NoBucket(tf)
            <4>1. eaten # <<>>
                BY <1>1, <2>2, EmptySeq
            <4>2. QED
                BY <1>3, <4>1
        <3>2. BucketFor(tf, eaten[n].ts) <= a.openTs /\ BucketFor(tf, eaten[n].ts) \in Nat
            BY <1>1, <1>3, <3>1
        <3>3. QED
            BY <1>3, <1>4, <1>8, <3>2
    <2>3. QED
        BY <1>5, <2>1, <2>2
<1>10. ASSUME start >= a.openTs PROVE InTime(tf, start, more, k)
    <2>1. ASSUME NEW n \in 1..Len(eaten) PROVE BucketFor(tf, eaten[n].ts) <= start
        <3>1. eaten # <<>>
            BY <1>1, <2>1, EmptySeq
        <3>2. BucketFor(tf, eaten[n].ts) <= a.openTs /\ BucketFor(tf, eaten[n].ts) \in Nat
            BY <1>1, <1>3, <3>1
        <3>3. QED
            BY <1>2, <1>3, <1>10, <3>2
    <2>2. QED
        BY <1>2, <1>6, <2>1
<1>11. a2 \in CandlesOf(tf, more)
    <2>1. CASE start > a.openTs
        <3>1. InTime(tf, start, more, k)
            BY <1>2, <1>3, <1>10, <2>1
        <3>2. CandleOf(tf, start, eaten).ticks = <<>>
            <4>1. PlacesIn(tf, start, eaten) = {}
                <5>1. ASSUME NEW n \in PlacesIn(tf, start, eaten) PROVE FALSE
                    <6>1. n \in 1..Len(eaten) /\ BucketFor(tf, eaten[n].ts) = start
                        BY <5>1 DEF PlacesIn, InTime
                    <6>2. eaten # <<>>
                        BY <1>1, <6>1, EmptySeq
                    <6>3. QED
                        BY <1>2, <1>3, <2>1, <6>1, <6>2
                <5>2. QED
                    BY <5>1
            <4>2. Cardinality(PlacesIn(tf, start, eaten)) = 0
                BY <4>1, FS_EmptySet
            <4>3. CandleOf(tf, start, eaten) =
                      [tf |-> tf, openTs |-> start,
                       ticks |-> [n \in 1..Cardinality(PlacesIn(tf, start, eaten)) |->
                                     eaten[Ascending(PlacesIn(tf, start, eaten))[n]].price]]
                BY <1>1, <1>2, CandleOfIs
            <4>4. CandleOf(tf, start, eaten).ticks \in Seq(Prices)
                  /\ DOMAIN CandleOf(tf, start, eaten).ticks = 1..0
                <5>1. CandleOf(tf, start, eaten) \in Bucket
                    BY <1>1, <1>2, CandleOfIs
                <5>2. QED
                    BY <4>2, <4>3, <5>1 DEF Bucket
            <4>5. Len(CandleOf(tf, start, eaten).ticks) = 0
                <5>1. Len(CandleOf(tf, start, eaten).ticks) \in Nat
                      /\ 1..Len(CandleOf(tf, start, eaten).ticks) = 1..0
                    BY <4>4, LenProperties
                <5> DEFINE l == Len(CandleOf(tf, start, eaten).ticks)
                <5> HIDE DEF l
                <5>2. l \in Nat /\ (1 \in 1..l => 1 \in 1..0)
                    BY <5>1 DEF l
                <5>3. l = 0
                    BY <5>2
                <5>4. QED
                    BY <5>3 DEF l
            <4>6. QED
                BY <4>4, <4>5, EmptySeq
        <3>3. a2 = CandleOf(tf, start, more)
            <4>1. CandleOf(tf, start, more) =
                      [tf |-> tf, openTs |-> start, ticks |-> Append(CandleOf(tf, start, eaten).ticks, t.price)]
                BY <1>2, <1>6, <3>1
            <4>2. Append(<<>>, t.price) = <<t.price>>
                OBVIOUS
            <4>3. QED
                BY <1>7, <2>1, <3>2, <4>1, <4>2
        <3>4. QED
            BY <1>4, <1>5, <3>1, <3>3, Members DEF start
    <2>2. CASE start = a.openTs
        <3>1. InTime(tf, start, more, k)
            BY <1>2, <1>10, <2>2
        <3>2. a = CandleOf(tf, start, eaten)
            BY <1>2, <1>3, <2>2
        <3>3. a2 = CandleOf(tf, start, more)
            BY <1>2, <1>6, <1>7, <2>2, <3>1, <3>2
        <3>4. QED
            BY <1>4, <1>5, <3>1, <3>3, Members DEF start
    <2>3. CASE start < a.openTs
        <3>1. a \in CandlesOf(tf, eaten) /\ a2 = a /\ a.openTs \in Nat
            BY <1>2, <1>3, <1>7, <2>3
        <3>2. PICK n \in 1..Len(eaten) :
                  /\ InTime(tf, BucketFor(tf, eaten[n].ts), eaten, n)
                  /\ a = CandleOf(tf, BucketFor(tf, eaten[n].ts), eaten)
            BY <1>1, <3>1, Members
        <3>3. a.openTs = BucketFor(tf, eaten[n].ts)
            BY <3>2 DEF CandleOf
        <3>4. ~InTime(tf, a.openTs, more, k)
            BY <1>2, <1>6, <2>3, <3>1
        <3>5. CandleOf(tf, a.openTs, more) = a /\ InTime(tf, a.openTs, more, n)
            BY <1>6, <3>1, <3>2, <3>3, <3>4
        <3>6. n \in 1..Len(more) /\ more[n] = eaten[n] /\ more \in Seq(IndexTick)
            BY <1>4, <1>5
        <3>7. InTime(tf, BucketFor(tf, more[n].ts), more, n) /\ a = CandleOf(tf, BucketFor(tf, more[n].ts), more)
            BY <3>3, <3>5, <3>6
        <3>8. QED
            BY <3>1, <3>6, <3>7, Members
    <2>4. QED
        BY <1>2, <1>3, <2>1, <2>2, <2>3
\* Behind the bucket there is only what was before the tick.
<1>12. ASSUME NEW st \in Nat, st < a2.openTs
       PROVE  ~InTime(tf, st, more, k) /\ CandleOf(tf, st, more) = CandleOf(tf, st, eaten)
    <2>1. ~InTime(tf, st, more, k)
        <3>1. ASSUME InTime(tf, st, more, k) PROVE FALSE
            <4>1. start = st /\ \A n \in 1..Len(eaten) : BucketFor(tf, eaten[n].ts) <= st
                BY <1>6, <3>1
            <4>2. a2.openTs = a.openTs /\ start < a.openTs
                BY <1>2, <1>3, <1>8, <1>12, <4>1
            <4>3. a # NoBucket(tf) /\ a \in CandlesOf(tf, eaten)
                BY <1>2, <1>3, <4>2
            <4>4. PICK n \in 1..Len(eaten) : a = CandleOf(tf, BucketFor(tf, eaten[n].ts), eaten)
                BY <1>1, <4>3, Members
            <4>5. a.openTs = BucketFor(tf, eaten[n].ts)
                BY <4>4 DEF CandleOf
            <4>6. QED
                BY <1>2, <1>3, <4>1, <4>2, <4>5
        <3>2. QED
            BY <3>1
    <2>2. QED
        BY <1>6, <2>1
<1>13. {c \in CandlesOf(tf, more) : c.openTs < a2.openTs} = {c \in CandlesOf(tf, eaten) : c.openTs < a2.openTs}
    <2>1. ASSUME NEW c \in CandlesOf(tf, more), c.openTs < a2.openTs PROVE c \in CandlesOf(tf, eaten)
        <3>1. PICK n \in 1..Len(more) :
                  /\ InTime(tf, BucketFor(tf, more[n].ts), more, n)
                  /\ c = CandleOf(tf, BucketFor(tf, more[n].ts), more)
            <4>1. more \in Seq(IndexTick)
                BY <1>4
            <4>2. QED
                BY <2>1, <4>1, Members, Zenon
        <3> DEFINE st == BucketFor(tf, more[n].ts)
        <3>2. st \in Nat /\ c.openTs = st
            <4>1. more[n].ts \in Nat
                BY <1>4, IndexTicks
            <4>2. st \in Nat
                BY <4>1, BucketForType
            <4>3. c = CandleOf(tf, st, more)
                BY <3>1
            <4>4. c.openTs = st
                BY <4>3 DEF CandleOf
            <4>5. QED
                BY <4>2, <4>4
        <3> HIDE DEF st
        <3>3. ~InTime(tf, st, more, k) /\ CandleOf(tf, st, more) = CandleOf(tf, st, eaten)
            BY <1>12, <2>1, <3>2
        <3>4. n \in 1..Len(eaten) /\ more[n] = eaten[n]
            BY <1>4, <1>5, <3>1, <3>3 DEF st
        <3>5. InTime(tf, st, eaten, n)
            BY <1>6, <3>1, <3>2, <3>4 DEF st
        <3>6. QED
            BY <1>1, <3>1, <3>3, <3>4, <3>5, Members DEF st
    <2>2. ASSUME NEW c \in CandlesOf(tf, eaten), c.openTs < a2.openTs PROVE c \in CandlesOf(tf, more)
        <3>1. PICK n \in 1..Len(eaten) :
                  /\ InTime(tf, BucketFor(tf, eaten[n].ts), eaten, n)
                  /\ c = CandleOf(tf, BucketFor(tf, eaten[n].ts), eaten)
            BY <1>1, <2>2, Members
        <3> DEFINE st == BucketFor(tf, eaten[n].ts)
        <3>2. st \in Nat /\ c.openTs = st
            BY <1>1, <3>1 DEF CandleOf
        <3>3. n \in 1..Len(more) /\ more[n] = eaten[n]
            BY <1>4, <1>5
        <3> HIDE DEF st
        <3>4. CandleOf(tf, st, more) = CandleOf(tf, st, eaten)
            BY <1>12, <2>2, <3>2
        <3>5. InTime(tf, st, more, n)
            BY <1>6, <3>1, <3>2 DEF st
        <3>6. QED
            BY <1>4, <3>1, <3>3, <3>4, <3>5, Members DEF st
    <2>3. QED
        BY <2>1, <2>2
<1>14. \A c \in CandlesOf(tf, eaten) :
           /\ c.openTs \in Nat
           /\ a # NoBucket(tf) => c.openTs <= a.openTs /\ (c.openTs = a.openTs => c = a)
    BY CandleFacts DEF a
<1>15. Rolls(tf, t) <=> a # NoBucket(tf) /\ start > a.openTs
    BY <1>3 DEF Rolls, a, start
<1>16. Behind(tf) = IF a = NoBucket(tf) THEN CandlesOf(tf, eaten)
                   ELSE {c \in CandlesOf(tf, eaten) : c.openTs < a.openTs}
    BY DEF Behind, a
<1>17. {c \in CandlesOf(tf, eaten) : c.openTs < a2.openTs} =
           Behind(tf) \cup (IF Rolls(tf, t) THEN {a} ELSE {})
    <2>1. CASE a = NoBucket(tf)
        <3>1. CandlesOf(tf, eaten) = {}
            <4>1. Len(eaten) = 0
                BY <1>3, <2>1, EmptySeq
            <4>2. QED
                BY <4>1 DEF CandlesOf
        <3>2. QED
            BY <1>15, <1>16, <2>1, <3>1
    <2>2. CASE Rolls(tf, t)
        <3>1. a2.openTs = start /\ start > a.openTs /\ a \in CandlesOf(tf, eaten) /\ a # NoBucket(tf)
            BY <1>3, <1>7, <1>15, <2>2
        <3>2. \A c \in CandlesOf(tf, eaten) : c.openTs < a2.openTs
            BY <1>2, <1>3, <1>14, <3>1
        <3>3. \A c \in CandlesOf(tf, eaten) : c.openTs < a.openTs \/ c = a
            BY <1>3, <1>14, <3>1
        <3>4. QED
            BY <1>16, <2>2, <3>1, <3>2, <3>3
    <2>3. CASE a # NoBucket(tf) /\ ~Rolls(tf, t)
        <3>1. a2.openTs = a.openTs
            BY <1>2, <1>3, <1>7, <1>15, <2>3
        <3>2. QED
            BY <1>16, <2>3, <3>1
    <2>4. QED
        BY <2>1, <2>2, <2>3
<1>18. QED
    BY <1>9, <1>11, <1>13, <1>17 DEF a, a2

\* Closing some buckets in progress dispatches them, each after those before it.
LEMMA ClosedSet ==
    ASSUME ReplayTypeOK, ExactInv, NEW T \in SUBSET Timeframes, \A u \in T : agg[u] # NoBucket(u),
           NEW tf \in Timeframes, NEW after, after = built \o Closed(T)
    PROVE  /\ {c \in ToSet(after) : c.tf = tf} = Behind(tf) \cup (IF tf \in T THEN {agg[tf]} ELSE {})
           /\ Ordered(tf, after)
<1> DEFINE b == Len(built)
           k == Cardinality(T)
           order == Ascending(T)
<1>1. /\ order \in [1..k -> T] /\ k \in Nat /\ Len(Closed(T)) = k /\ Closed(T) \in Seq(Bucket)
      /\ \A m, n \in 1..k : m < n => <<order[m], order[n]>> \in {p \in T \X T : p[1] < p[2]}
      /\ \A u \in T : \E n \in 1..k : order[n] = u
      /\ \A n \in 1..k : Closed(T)[n] = agg[order[n]]
    BY ClosedIs DEF ReplayTypeOK, InOrder
<1>2. built \in Seq(Bucket) /\ b \in Nat /\ T \in SUBSET Nat
    BY LenProperties DEF ReplayTypeOK, Timeframes
<1> HIDE DEF k, order, b
<1>3. \A m, n \in 1..k : m < n => order[m] < order[n]
    BY <1>1
<1>4. \A n \in 1..k : order[n] \in T /\ Closed(T)[n].tf = order[n] /\ Closed(T)[n] = agg[order[n]]
    BY <1>1 DEF ReplayTypeOK
<1>5. /\ after \in Seq(Bucket) /\ Len(after) = b + k
      /\ \A n \in 1..b : after[n] = built[n]
      /\ \A n \in 1..k : after[b + n] = Closed(T)[n]
    <2>1. /\ built \o Closed(T) \in Seq(Bucket) /\ Len(built \o Closed(T)) = b + k
          /\ \A n \in 1..(b + k) : (built \o Closed(T))[n] = IF n <= b THEN built[n] ELSE Closed(T)[n - b]
        <3> DEFINE x == Closed(T)
        <3>1. x \in Seq(Bucket) /\ Len(x) = k
            BY <1>1
        <3> HIDE DEF x
        <3>2. /\ built \o x \in Seq(Bucket) /\ Len(built \o x) = Len(built) + Len(x)
              /\ \A n \in 1..(Len(built) + Len(x)) :
                     (built \o x)[n] = IF n <= Len(built) THEN built[n] ELSE x[n - Len(built)]
            BY <1>2, <3>1, ConcatProperties
        <3>3. QED
            BY <3>1, <3>2 DEF b, x
    <2>2. \A n \in 1..b : n \in 1..(b + k) /\ n <= b
        BY <1>1, <1>2
    <2>3. \A n \in 1..k : b + n \in 1..(b + k) /\ ~(b + n <= b) /\ (b + n) - b = n
        BY <1>1, <1>2
    <2>4. QED
        BY <2>1, <2>2, <2>3
<1>6. \A n : n \in 1..(b + k) <=> n \in 1..b \/ (n - b \in 1..k /\ n \in Int)
    BY <1>1, <1>2
<1>7. {c \in ToSet(built) : c.tf = tf} = Behind(tf) /\ Ordered(tf, built)
    BY DEF ExactInv, Dispatched
<1>8. DOMAIN built = 1..b /\ DOMAIN after = 1..(b + k)
    BY <1>2, <1>5, LenProperties DEF b
<1>9. ASSUME NEW c, c.tf = tf
      PROVE  c \in ToSet(after) <=> c \in Behind(tf) \/ (tf \in T /\ c = agg[tf])
    <2>1. ASSUME c \in ToSet(after) PROVE c \in Behind(tf) \/ (tf \in T /\ c = agg[tf])
        <3>1. PICK n \in 1..(b + k) : c = after[n]
            BY <1>8, <2>1 DEF ToSet
        <3>2. CASE n \in 1..b
            <4>1. c \in ToSet(built)
                BY <1>5, <1>8, <3>1, <3>2 DEF ToSet
            <4>2. QED
                BY <1>7, <1>9, <4>1
        <3>3. CASE n - b \in 1..k
            <4>1. c = Closed(T)[n - b]
                <5>1. b + (n - b) = n
                    BY <1>2, <3>1
                <5>2. QED
                    BY <1>5, <3>1, <3>3, <5>1
            <4>2. QED
                BY <1>4, <1>9, <3>3, <4>1
        <3>4. QED
            BY <1>6, <3>2, <3>3
    <2>2. ASSUME c \in Behind(tf) PROVE c \in ToSet(after)
        <3>1. c \in ToSet(built)
            BY <1>7, <2>2
        <3>2. PICK n \in 1..b : c = built[n]
            BY <1>8, <3>1 DEF ToSet
        <3>3. n \in 1..(b + k) /\ c = after[n]
            BY <1>5, <1>6, <3>2
        <3>4. QED
            BY <1>8, <3>3 DEF ToSet
    <2>3. ASSUME tf \in T, c = agg[tf] PROVE c \in ToSet(after)
        <3>1. PICK n \in 1..k : order[n] = tf
            BY <1>1, <2>3
        <3>2. b + n \in 1..(b + k) /\ c = after[b + n]
            BY <1>1, <1>2, <1>4, <1>5, <2>3, <3>1
        <3>3. QED
            BY <1>8, <3>2 DEF ToSet
    <2>4. QED
        BY <2>1, <2>2, <2>3
<1>10. /\ \A c \in Behind(tf) : c.tf = tf /\ c.openTs \in Nat
       /\ agg[tf] # NoBucket(tf) => \A c \in Behind(tf) : c.openTs < agg[tf].openTs
       /\ agg[tf].tf = tf
    BY CandleFacts DEF ExactInv, Behind, ReplayTypeOK
<1>11. {c \in ToSet(after) : c.tf = tf} = Behind(tf) \cup (IF tf \in T THEN {agg[tf]} ELSE {})
    BY <1>9, <1>10
<1>12. ASSUME NEW m \in 1..Len(after), NEW n \in 1..Len(after), m < n, after[m].tf = tf, after[n].tf = tf
       PROVE  after[m].openTs < after[n].openTs
    <2>1. CASE n \in 1..b
        <3>1. m \in 1..b
            BY <1>2, <1>12, <2>1
        <3>2. QED
            BY <1>5, <1>7, <1>12, <2>1, <3>1 DEF Ordered, b
    <2>2. CASE n - b \in 1..k
        <3>1. after[n] = Closed(T)[n - b]
            <4>1. b + (n - b) = n
                BY <1>2, <1>12
            <4>2. QED
                BY <1>5, <2>2, <4>1
        <3>2. order[n - b] = tf /\ tf \in T /\ after[n] = agg[tf]
            BY <1>4, <1>12, <2>2, <3>1
        <3>3. CASE m \in 1..b
            <4>1. after[m] \in Behind(tf)
                BY <1>5, <1>7, <1>8, <1>12, <3>3 DEF ToSet
            <4>2. QED
                BY <1>10, <3>2, <4>1
        <3>4. CASE m - b \in 1..k
            <4>1. after[m] = Closed(T)[m - b]
                <5>1. b + (m - b) = m
                    BY <1>2, <1>12
                <5>2. QED
                    BY <1>5, <3>4, <5>1
            <4>2. order[m - b] = tf
                BY <1>4, <1>12, <3>4, <4>1
            <4>3. order[m - b] < order[n - b]
                <5>1. m - b < n - b
                    BY <1>2, <1>12
                <5>2. QED
                    BY <1>3, <2>2, <3>4, <5>1
            <4>4. QED
                BY <1>2, <3>2, <4>2, <4>3
        <3>5. QED
            BY <1>5, <1>6, <3>3, <3>4
    <2>3. QED
        BY <1>5, <1>6, <2>1, <2>2
<1>13. QED
    BY <1>11, <1>12 DEF Ordered

LEMMA NextExact == ReplayTypeOK /\ ExactInv /\ [ReplayNext]_replayVars => ExactInv'
<1> SUFFICES ASSUME ReplayTypeOK, ExactInv, [ReplayNext]_replayVars, NEW tf \in Timeframes
             PROVE  Filled(tf)' /\ Dispatched(tf)' = Behind(tf)' /\ Ordered(tf, built)'
    BY DEF ExactInv
<1>1. NoBucket(tf)' = NoBucket(tf) /\ \A ticks : CandlesOf(tf, ticks)' = CandlesOf(tf, ticks)
    BY DEF NoBucket, CandlesOf
<1>2. Filled(tf) /\ Dispatched(tf) = Behind(tf) /\ Ordered(tf, built)
    BY DEF ExactInv
<1>3. CASE StartReplay
    <2>1. eaten' = <<>> /\ built' = <<>> /\ agg'[tf] = NoBucket(tf)
        BY <1>3 DEF StartReplay, Fresh
    <2>2. CandlesOf(tf, eaten') = {} /\ Dispatched(tf)' = {}
        BY <2>1 DEF CandlesOf, Dispatched, ToSet
    <2>3. QED
        BY <1>1, <2>1, <2>2 DEF Filled, Behind, Ordered
<1>4. ASSUME NEW s \in DOMAIN rest, OnIndexTick(s)
      PROVE  Filled(tf)' /\ Dispatched(tf)' = Behind(tf)' /\ Ordered(tf, built)'
    <2> DEFINE t == Head(rest[s]).tick
               T == {u \in Timeframes : Rolls(u, t)}
    <2>1. t \in IndexTick
        BY <1>4, TakeTypes, EventParts DEF OnIndexTick
    <2>2. /\ phase = "loop" /\ eaten' = Append(eaten, t) /\ built' = built \o ClosedByTick(t)
          /\ agg'[tf] = Fed(tf, t)
        BY <1>4 DEF OnIndexTick, Take
    <2> HIDE DEF t
    <2>3. Longer(eaten, t, eaten') /\ ClosedByTick(t) = Closed(T)
        BY <2>2 DEF Longer, ClosedByTick
    <2>4. /\ Fed(tf, t) \in CandlesOf(tf, eaten')
          /\ \A n \in 1..Len(eaten') : BucketFor(tf, eaten'[n].ts) <= Fed(tf, t).openTs
          /\ {c \in CandlesOf(tf, eaten') : c.openTs < Fed(tf, t).openTs} =
                 Behind(tf) \cup (IF Rolls(tf, t) THEN {agg[tf]} ELSE {})
        BY <1>2, <2>1, <2>2, <2>3, FedIs
    <2>5. /\ {c \in ToSet(built') : c.tf = tf} = Behind(tf) \cup (IF tf \in T THEN {agg[tf]} ELSE {})
          /\ Ordered(tf, built')
        <3>1. \A u \in T : agg[u] # NoBucket(u)
            BY DEF Rolls, NoBucket
        <3>2. T \in SUBSET Timeframes
            OBVIOUS
        <3>3. built' = built \o Closed(T)
            BY <2>2, <2>3
        <3> HIDE DEF T
        <3>4. QED
            BY <3>1, <3>2, <3>3, ClosedSet
    <2>6. Fed(tf, t) # NoBucket(tf)
        BY <2>1, FedType DEF ReplayTypeOK, NoBucket
    <2>7. Behind(tf)' = {c \in CandlesOf(tf, eaten') : c.openTs < Fed(tf, t).openTs}
        BY <1>1, <2>2, <2>6 DEF Behind
    <2>8. Filled(tf)'
        BY <1>1, <2>2, <2>4, <2>6 DEF Filled, BucketFor
    <2>9. QED
        BY <2>4, <2>5, <2>7, <2>8 DEF Dispatched, Ordered
<1>5. CASE CloseBuckets
    <2> DEFINE T == {u \in Timeframes : EndsBy(u)}
    <2>1. /\ eaten' = eaten /\ built' = built \o Closed(T) /\ phase' = "end"
          /\ agg'[tf] = IF EndsBy(tf) THEN NoBucket(tf) ELSE agg[tf]
        BY <1>5 DEF CloseBuckets, ClosedAtEnd
    <2>2. \A u \in T : agg[u] # NoBucket(u)
        BY DEF EndsBy, NoBucket
    <2>3. /\ {c \in ToSet(built') : c.tf = tf} = Behind(tf) \cup (IF tf \in T THEN {agg[tf]} ELSE {})
          /\ Ordered(tf, built')
        <3>1. T \in SUBSET Timeframes
            OBVIOUS
        <3> HIDE DEF T
        <3>2. QED
            BY <2>1, <2>2, <3>1, ClosedSet
    <2>4. CASE EndsBy(tf)
        <3>1. agg[tf] # NoBucket(tf) /\ agg[tf] \in CandlesOf(tf, eaten)
            BY <1>2, <2>2, <2>4 DEF Filled
        <3>2. \A c \in CandlesOf(tf, eaten) : c.openTs < agg[tf].openTs \/ c = agg[tf]
            <4>1. \A c \in CandlesOf(tf, eaten) :
                      c.openTs \in Nat /\ c.openTs <= agg[tf].openTs /\ (c.openTs = agg[tf].openTs => c = agg[tf])
                BY <1>2, <3>1, CandleFacts
            <4>2. agg[tf].openTs \in Nat
                BY <1>2, <3>1, CandleFacts
            <4>3. QED
                BY <4>1, <4>2
        <3>3. Behind(tf) \cup {agg[tf]} = CandlesOf(tf, eaten)
            BY <3>1, <3>2 DEF Behind
        <3>4. Behind(tf)' = CandlesOf(tf, eaten)
            BY <1>1, <2>1, <2>4 DEF Behind
        <3>5. Filled(tf)'
            BY <1>1, <2>1, <2>4 DEF Filled
        <3>6. QED
            BY <2>3, <2>4, <3>3, <3>4, <3>5 DEF Dispatched, Ordered
    <2>5. CASE ~EndsBy(tf)
        <3>1. Behind(tf)' = Behind(tf)
            BY <1>1, <2>1, <2>5 DEF Behind
        <3>2. Filled(tf)'
            BY <1>1, <1>2, <2>1, <2>5 DEF Filled, BucketFor
        <3>3. QED
            BY <2>3, <2>5, <3>1, <3>2 DEF Dispatched, Ordered
    <2>6. QED
        BY <2>4, <2>5
<1>6. CASE UNCHANGED <<agg, eaten, built>> /\ (phase' = phase \/ phase' = "stopped")
    <2>1. Behind(tf)' = Behind(tf) /\ Dispatched(tf)' = Dispatched(tf)
        BY <1>1, <1>6 DEF Behind, Dispatched
    <2>2. Filled(tf)'
        BY <1>1, <1>2, <1>6 DEF Filled, BucketFor
    <2>3. QED
        BY <1>2, <1>6, <2>1, <2>2 DEF Ordered
<1>7. QED
    BY <1>3, <1>4, <1>5, <1>6
       DEF ReplayNext, replayVars, engine, history, HandleSignal, Finish, KillRun, Over, OnOptionTick, OnCandle, Take

(***************************************************************************)
(* A run dispatches once and in order exactly the candles of the ticks it  *)
(* has read, for any timeframes, ticks and sources.                        *)
(***************************************************************************)
THEOREM BuiltAreExact == ReplaySpec => []BuiltCandlesAreExact
<1>1. ReplayInit => ExactInv
    <2>1. ReplayInit => \A tf \in Timeframes : CandlesOf(tf, eaten) = {} /\ Dispatched(tf) = {}
        BY DEF ReplayInit, CandlesOf, Dispatched, ToSet
    <2>2. ASSUME ReplayInit, NEW tf \in Timeframes
          PROVE  Filled(tf) /\ Dispatched(tf) = Behind(tf) /\ Ordered(tf, built)
        <3>1. agg[tf] = NoBucket(tf) /\ eaten = <<>> /\ built = <<>>
            BY <2>2 DEF ReplayInit
        <3>2. QED
            BY <2>1, <2>2, <3>1 DEF Filled, Behind, Ordered
    <2>3. QED
        BY <2>2 DEF ExactInv
<1>2. ExactInv => BuiltCandlesAreExact
    BY DEF ExactInv, Dispatched, Behind, Ordered, BuiltCandlesAreExact
<1>3. QED
    BY <1>1, <1>2, NextExact, ReplayTypesHold, PTL DEF ReplaySpec
----
(***************************************************************************)
(* Two runs of the same inputs.  What the run under way does next depends  *)
(* on the variables of Now and on no other.  After says what that is, for  *)
(* any values of these, so that runs of different times can be compared;   *)
(* the lemmas up to RunSteps show that the actions do as it says.          *)
(***************************************************************************)
RunState ==
    [phase : {"loop", "end"}, rest : Seq(Seq(Event)), due : Seq(Signal),
     agg : [Timeframes -> Bucket], spot : [ts : Nat, price : Prices \cup {0}],
     last : [Instruments -> Nat \cup {-1}], lastTs : Nat \cup {-1}, out : Seq(Signal)]

Now ==
    [phase |-> phase, rest |-> rest, due |-> due, agg |-> agg, spot |-> spot,
     last |-> last, lastTs |-> lastTs, out |-> out]

Opening ==
    [phase |-> "loop", rest |-> Streams, due |-> <<>>, agg |-> [tf \in Timeframes |-> NoBucket(tf)],
     spot |-> NoSpot, last |-> [i \in Instruments |-> -1], lastTs |-> -1, out |-> <<>>]

Complete(x) == x.phase = "end" /\ x.due = <<>>

\* The operators of the model, of a run's state.
FirstOf(x, s) ==
    /\ s \in DOMAIN x.rest /\ x.rest[s] # <<>>
    /\ \A r \in DOMAIN x.rest \ {s} :
          x.rest[r] # <<>> => \/ Before(Head(x.rest[s]), Head(x.rest[r]))
                              \/ s < r /\ ~Before(Head(x.rest[r]), Head(x.rest[s]))

ClosedOf(x, tfs) ==
    LET order == Ascending(tfs)
    IN  [n \in 1..Len(order) |-> x.agg[order[n]]]

RolledOf(x, t) ==
    {tf \in Timeframes : x.agg[tf].openTs >= 0 /\ BucketFor(tf, t.ts) > x.agg[tf].openTs}

EndedOf(x) ==
    {tf \in Timeframes : x.agg[tf].openTs >= 0 /\ x.lastTs + Widths[tf] >= CloseTs(x.agg[tf])}

FedOf(x, tf, t) ==
    LET start == BucketFor(tf, t.ts)
    IN  IF start > x.agg[tf].openTs
        THEN [tf |-> tf, openTs |-> start, ticks |-> <<t.price>>]
        ELSE [x.agg[tf] EXCEPT !.ticks = IF start = x.agg[tf].openTs THEN Append(@, t.price) ELSE @]

SignalsOf(x, e) ==
    CASE e.kind = "index" -> OnCandles(ClosedOf(x, RolledOf(x, e.tick)))
      [] e.kind = "option" ->
            IF x.spot.price > 0 /\ x.spot.price - Strike \in -AtmRange..AtmRange
            THEN <<[on |-> "option", ts |-> e.tick.ts, about |-> <<x.spot.price>>]>> ELSE <<>>
      [] e.kind = "candle" -> OnCandles(<<e.candle>>)

Taken(x, s) ==
    LET e == Head(x.rest[s])
    IN  [phase |-> x.phase, rest |-> [x.rest EXCEPT ![s] = Tail(@)], due |-> SignalsOf(x, e),
         agg |-> IF e.kind = "index" THEN [tf \in Timeframes |-> FedOf(x, tf, e.tick)] ELSE x.agg,
         spot |-> IF e.kind = "index" THEN [ts |-> e.tick.ts, price |-> e.tick.price] ELSE x.spot,
         last |-> x.last, lastTs |-> e.ts, out |-> x.out]

Handled(x) ==
    LET s == Head(x.due)
        kept == ~Suppressed(x.last, s)
    IN  [phase |-> x.phase, rest |-> x.rest, due |-> Tail(x.due), agg |-> x.agg, spot |-> x.spot,
         last |-> IF kept THEN [x.last EXCEPT ![s.on] = s.ts] ELSE x.last, lastTs |-> x.lastTs,
         out |-> IF kept THEN Append(x.out, s) ELSE x.out]

Ending(x) ==
    [phase |-> "end", rest |-> x.rest, due |-> OnCandles(ClosedOf(x, EndedOf(x))),
     agg |-> [tf \in Timeframes |-> IF tf \in EndedOf(x) THEN NoBucket(tf) ELSE x.agg[tf]],
     spot |-> x.spot, last |-> x.last, lastTs |-> x.lastTs, out |-> x.out]

After(x) ==
    IF x.due # <<>> THEN Handled(x)
    ELSE IF \E s : FirstOf(x, s) THEN Taken(x, CHOOSE s : FirstOf(x, s)) ELSE Ending(x)

\* A run from its opening on, step by step, as far as its nth state.
Trace(n, T) ==
    /\ n \in Nat \ {0} /\ T \in [1..n -> RunState]
    /\ T[1] = Opening
    /\ \A k \in 1..(n - 1) : ~Complete(T[k]) /\ T[k + 1] = After(T[k])

Begins(s, t) == Len(s) <= Len(t) /\ \A k \in 1..Len(s) : s[k] = t[k]

\* The run under way, and every run on record, have come by such steps.
AgreeInv ==
    /\ phase # "stopped" => \E n, T : Trace(n, T) /\ T[n] = Now
    /\ \A m \in 1..Len(runs) :
          \E n, T : /\ Trace(n, T) /\ T[n].out = runs[m].wrote
                    /\ runs[m].done => Complete(T[n])
----
\* Two traces have the same states as far as both go.
LEMMA TracesAgree ==
    ASSUME NEW a, NEW S, NEW b, NEW T, Trace(a, S), Trace(b, T)
    PROVE  \A k \in Nat : k \in 1..a /\ k \in 1..b => S[k] = T[k]
<1> DEFINE Bad == {k \in Nat : k \in 1..a /\ k \in 1..b /\ S[k] # T[k]}
<1>1. a \in Nat \ {0} /\ b \in Nat \ {0} /\ S[1] = T[1]
    BY DEF Trace
<1> SUFFICES ASSUME Bad # {} PROVE FALSE
    OBVIOUS
<1>2. PICK k \in Bad : \A m \in Bad : k <= m
    BY Least
<1>3. /\ k - 1 \in 1..(a - 1) /\ k - 1 \in 1..(b - 1) /\ k - 1 \in Nat /\ k - 1 + 1 = k
      /\ k - 1 \in 1..a /\ k - 1 \in 1..b
    BY <1>1
<1>4. S[k - 1] = T[k - 1]
    BY <1>2, <1>3
<1>5. S[k - 1 + 1] = After(S[k - 1]) /\ T[k - 1 + 1] = After(T[k - 1])
    BY <1>3 DEF Trace
<1>6. S[k] = T[k]
    BY <1>3, <1>4, <1>5
<1>7. QED
    BY <1>6

\* A step writes nothing, or one more signal.
LEMMA OutGrows ==
    ASSUME NEW x \in RunState
    PROVE  Begins(x.out, After(x).out)
<1>1. x.out \in Seq(Signal) /\ x.due \in Seq(Signal)
    BY DEF RunState
<1>2. CASE After(x).out = x.out
    BY <1>1, <1>2, LenProperties DEF Begins
<1>3. CASE x.due # <<>> /\ After(x).out # x.out
    <2>1. After(x).out = Append(x.out, Head(x.due))
        BY <1>3 DEF After, Handled, RunState
    <2>2. Head(x.due) \in Signal
        BY <1>1, <1>3, HeadTailProperties
    <2>3. QED
        BY <1>1, <2>1, <2>2, AppendProperties, LenProperties DEF Begins
<1>4. CASE x.due = <<>>
    <2>1. After(x).out = x.out
        BY <1>4 DEF After, Taken, Ending, RunState
    <2>2. QED
        BY <1>2, <2>1
<1>5. QED
    BY <1>2, <1>3, <1>4

LEMMA BeginsOn ==
    ASSUME NEW s \in Seq(Signal), NEW t \in Seq(Signal), NEW u \in Seq(Signal), Begins(s, t), Begins(t, u)
    PROVE  Begins(s, u)
BY LenProperties DEF Begins

\* What a run has written at one state is the beginning of what it has at a later one.
LEMMA TraceGrows ==
    ASSUME NEW b, NEW T, Trace(b, T), NEW k \in 1..b
    PROVE  Begins(T[k].out, T[b].out)
<1> DEFINE Bad == {l \in Nat : l \in k..b /\ ~Begins(T[k].out, T[l].out)}
<1>1. b \in Nat \ {0} /\ \A l \in 1..b : T[l] \in RunState /\ T[l].out \in Seq(Signal)
    <2>1. b \in Nat \ {0} /\ \A l \in 1..b : T[l] \in RunState
        BY DEF Trace
    <2>2. QED
        BY <2>1 DEF RunState
<1> SUFFICES ASSUME Bad # {} PROVE FALSE
    BY <1>1
<1>2. PICK l \in Bad : \A m \in Bad : l <= m
    BY Least
<1>3. l # k
    BY <1>1, <1>2, LenProperties DEF Begins
<1>4. /\ l - 1 \in k..b /\ l - 1 \in 1..(b - 1) /\ l - 1 \in 1..b /\ l - 1 + 1 = l
      /\ l - 1 \in Nat /\ l \in 1..b
    BY <1>1, <1>2, <1>3
<1>5. Begins(T[k].out, T[l - 1].out)
    BY <1>2, <1>4
<1>6. T[l - 1 + 1] = After(T[l - 1])
    BY <1>4 DEF Trace
<1>7. Begins(T[l - 1].out, T[l].out)
    BY <1>1, <1>4, <1>6, OutGrows
<1>8. Begins(T[k].out, T[l].out)
    <2>1. T[k].out \in Seq(Signal) /\ T[l - 1].out \in Seq(Signal) /\ T[l].out \in Seq(Signal)
        BY <1>1, <1>4
    <2>2. QED
        BY <1>5, <1>7, <2>1, BeginsOn
<1>9. QED
    BY <1>2, <1>8

LEMMA AgreeInvAgrees == ReplayTypeOK /\ AgreeInv => RunsAgree
<1> SUFFICES ASSUME ReplayTypeOK, AgreeInv, NEW m \in 1..Len(runs), NEW n \in 1..Len(runs), runs[n].done
             PROVE  IsPrefix(runs[m].wrote, runs[n].wrote)
    BY DEF RunsAgree
<1>1. PICK a, S : Trace(a, S) /\ S[a].out = runs[m].wrote
    BY DEF AgreeInv
<1>2. PICK b, T : Trace(b, T) /\ T[b].out = runs[n].wrote /\ Complete(T[b])
    BY DEF AgreeInv
<1>3. a \in Nat \ {0} /\ b \in Nat \ {0}
    BY <1>1, <1>2 DEF Trace
<1>4. a <= b
    <2> SUFFICES ASSUME b < a PROVE FALSE
        BY <1>3
    <2>1. b \in 1..(a - 1) /\ b \in 1..a /\ b \in 1..b
        BY <1>3
    <2>2. S[b] = T[b]
        BY <1>1, <1>2, <1>3, <2>1, TracesAgree
    <2>3. ~Complete(S[b])
        BY <1>1, <2>1 DEF Trace
    <2>4. QED
        BY <1>2, <2>2, <2>3
<1>5. S[a] = T[a] /\ a \in 1..b
    BY <1>1, <1>2, <1>3, <1>4, TracesAgree
<1>6. Begins(runs[m].wrote, runs[n].wrote)
    BY <1>1, <1>2, <1>5, TraceGrows
<1>7. runs[m].wrote \in Seq(Signal) /\ runs[n].wrote \in Seq(Signal)
    <2> DEFINE R == [wrote : Seq(Signal), done : BOOLEAN, file : Seq(Signal)]
    <2>1. runs \in Seq(R)
        BY DEF ReplayTypeOK
    <2>2. runs[m] \in R /\ runs[n] \in R
        <3> HIDE DEF R
        <3>1. QED
            BY <2>1, ElementOfSeq
    <2>3. QED
        BY <2>2
<1>8. QED
    <2> DEFINE s == runs[m].wrote
               t == runs[n].wrote
    <2>1. Begins(s, t) /\ s \in Seq(Signal) /\ t \in Seq(Signal)
        BY <1>6, <1>7
    <2> HIDE DEF s, t
    <2>2. Len(s) \in Nat /\ Len(t) \in Nat /\ s = [k \in 1..Len(s) |-> s[k]]
        BY <2>1, LenProperties
    <2>3. SubSeq(s, 1, Len(s)) = [k \in 1..Len(s) |-> s[k]] /\ SubSeq(t, 1, Len(s)) = [k \in 1..Len(s) |-> t[k]]
        BY <2>1, <2>2 DEF Begins
    <2>4. IsPrefix(s, t)
        BY <2>1, <2>2, <2>3 DEF IsPrefix, Begins
    <2>5. QED
        BY <2>4 DEF s, t
----
\* The operators of a run's state are those of the model.
LEMMA OfNow ==
    /\ \A s \in DOMAIN rest : FirstOf(Now, s) <=> Heads(s)
    /\ \A s : FirstOf(Now, s) => s \in DOMAIN rest
    /\ \A e : SignalsOf(Now, e) = SignalsOn(e)
    /\ \A tf, t : FedOf(Now, tf, t) = Fed(tf, t)
    /\ ClosedOf(Now, EndedOf(Now)) = ClosedAtEnd
    /\ \A tf \in Timeframes : tf \in EndedOf(Now) <=> EndsBy(tf)
<1>1. /\ \A s \in DOMAIN rest : FirstOf(Now, s) <=> Heads(s)
      /\ \A s : FirstOf(Now, s) => s \in DOMAIN rest
    BY DEF FirstOf, Heads, Now
<1>2. \A t : RolledOf(Now, t) = {tf \in Timeframes : Rolls(tf, t)}
    BY DEF RolledOf, Rolls, Now
<1>3. EndedOf(Now) = {tf \in Timeframes : EndsBy(tf)}
    BY DEF EndedOf, EndsBy, Now
<1>4. \A tfs : ClosedOf(Now, tfs) = Closed(tfs)
    BY DEF ClosedOf, Closed, Now
<1>5. \A tf, t : FedOf(Now, tf, t) = Fed(tf, t)
    BY DEF FedOf, Fed, Now
<1>6. ASSUME NEW e PROVE SignalsOf(Now, e) = SignalsOn(e)
    <2>1. ClosedOf(Now, RolledOf(Now, e.tick)) = ClosedByTick(e.tick)
        BY <1>2, <1>4 DEF ClosedByTick
    <2>2. Now.spot = spot
        BY DEF Now
    <2>3. QED
        BY <2>1, <2>2 DEF SignalsOf, SignalsOn, Priced, OnGreeks
<1>7. ClosedOf(Now, EndedOf(Now)) = ClosedAtEnd
    BY <1>3, <1>4 DEF ClosedAtEnd
<1>8. \A tf \in Timeframes : tf \in EndedOf(Now) <=> EndsBy(tf)
    BY <1>3
<1>9. QED
    BY <1>1, <1>5, <1>6, <1>7, <1>8

LEMMA NowType ==
    ASSUME ReplayTypeOK, phase # "stopped"
    PROVE  Now \in RunState
BY DEF ReplayTypeOK, Now, RunState

\* At most one stream comes first.
LEMMA OneHead ==
    ASSUME ReplayTypeOK, NEW s \in DOMAIN rest, NEW r \in DOMAIN rest, Heads(s), Heads(r)
    PROVE  s = r
<1> SUFFICES ASSUME s # r PROVE FALSE
    OBVIOUS
<1>1. s \in Int /\ r \in Int
    <2>1. rest \in Seq(Seq(Event))
        BY DEF ReplayTypeOK
    <2>2. QED
        BY <2>1, LenProperties
<1> DEFINE d == Head(rest[s])
           e == Head(rest[r])
<1>2. /\ Before(d, e) \/ (s < r /\ ~Before(e, d))
      /\ Before(e, d) \/ (r < s /\ ~Before(d, e))
    BY DEF Heads
<1>3. d \in Event /\ e \in Event
    BY HeadOfStream DEF Heads
<1> HIDE DEF d, e
<1>4. ~(Before(d, e) /\ Before(e, d))
    <2>1. /\ d.ts \in Nat /\ d.seq \in Nat /\ d.kind \in {"index", "option", "candle"}
          /\ e.ts \in Nat /\ e.seq \in Nat /\ e.kind \in {"index", "option", "candle"}
        BY <1>3, EventParts
    <2>2. KindRank[d.kind] \in Int /\ KindRank[e.kind] \in Int
        BY <2>1 DEF KindRank
    <2>3. QED
        BY <2>1, <2>2 DEF Before
<1>5. QED
    BY <1>1, <1>2, <1>4

\* An event is taken by one of three actions, all as After says.
LEMMA TakingStep ==
    ASSUME ReplayTypeOK, NEW s \in DOMAIN rest, OnIndexTick(s) \/ OnOptionTick(s) \/ OnCandle(s)
    PROVE  ~Complete(Now) /\ Now' = After(Now)
<1> DEFINE e == Head(rest[s])
<1>1. PICK kind \in {"index", "option", "candle"} :
            /\ Take(s, kind)
            /\ kind = "index" <=> OnIndexTick(s)
    <2>1. OnIndexTick(s) => Take(s, "index")
        BY DEF OnIndexTick
    <2>2. OnOptionTick(s) => Take(s, "option") /\ ~OnIndexTick(s)
        BY DEF OnOptionTick, OnIndexTick, Take
    <2>3. OnCandle(s) => Take(s, "candle") /\ ~OnIndexTick(s)
        BY DEF OnCandle, OnIndexTick, Take
    <2>4. QED
        BY <2>1, <2>2, <2>3
<1>2. /\ phase = "loop" /\ phase' = phase /\ due = <<>> /\ Heads(s) /\ e.kind = kind
      /\ rest' = [rest EXCEPT ![s] = Tail(@)] /\ lastTs' = e.ts /\ due' = SignalsOn(e)
      /\ last' = last /\ out' = out
    BY <1>1 DEF Take
<1>3. /\ agg' = IF kind = "index" THEN [tf \in Timeframes |-> Fed(tf, e.tick)] ELSE agg
      /\ spot' = IF kind = "index" THEN [ts |-> e.tick.ts, price |-> e.tick.price] ELSE spot
    <2>1. CASE kind = "index"
        BY <1>1, <2>1 DEF OnIndexTick
    <2>2. CASE kind # "index"
        BY <1>1, <2>2 DEF OnOptionTick, OnCandle
    <2>3. QED
        BY <2>1, <2>2
<1>4. (CHOOSE r : FirstOf(Now, r)) = s /\ \E r : FirstOf(Now, r)
    <2>1. FirstOf(Now, s)
        BY <1>2, OfNow
    <2>2. \A r : FirstOf(Now, r) => r = s
        BY <1>2, OfNow, OneHead
    <2>3. QED
        BY <2>1, <2>2
<1>5. /\ Now.phase = phase /\ Now.rest = rest /\ Now.due = due /\ Now.agg = agg /\ Now.spot = spot
      /\ Now.last = last /\ Now.lastTs = lastTs /\ Now.out = out
    BY DEF Now
<1>6. ~Complete(Now)
    BY <1>2, <1>5 DEF Complete
<1>7. After(Now) = Taken(Now, s)
    BY <1>2, <1>4, <1>5, Zenon DEF After
<1>8. Taken(Now, s) = [phase |-> phase, rest |-> [rest EXCEPT ![s] = Tail(@)], due |-> SignalsOn(e),
          agg |-> IF kind = "index" THEN [tf \in Timeframes |-> Fed(tf, e.tick)] ELSE agg,
          spot |-> IF kind = "index" THEN [ts |-> e.tick.ts, price |-> e.tick.price] ELSE spot,
          last |-> last, lastTs |-> e.ts, out |-> out]
    BY <1>2, <1>5, OfNow DEF Taken
<1>9. Now' = [phase |-> phase', rest |-> rest', due |-> due', agg |-> agg', spot |-> spot',
              last |-> last', lastTs |-> lastTs', out |-> out']
    BY DEF Now
<1> HIDE DEF e
<1>10. QED
    BY <1>2, <1>3, <1>6, <1>7, <1>8, <1>9

LEMMA HandlingStep ==
    ASSUME HandleSignal
    PROVE  phase # "stopped" /\ ~Complete(Now) /\ Now' = After(Now)
<1> DEFINE s == Head(due)
<1>1. /\ phase # "stopped" /\ phase' = phase /\ due # <<>> /\ due' = Tail(due)
      /\ rest' = rest /\ agg' = agg /\ spot' = spot /\ lastTs' = lastTs
      /\ IF Suppressed(last, s) THEN last' = last /\ out' = out
         ELSE last' = [last EXCEPT ![s.on] = s.ts] /\ out' = Append(out, s)
    BY DEF HandleSignal
<1>2. ~Complete(Now) /\ After(Now) = Handled(Now)
    BY <1>1 DEF Complete, After, Now
<1>3. Handled(Now) = [phase |-> phase, rest |-> rest, due |-> Tail(due), agg |-> agg, spot |-> spot,
                      last |-> IF ~Suppressed(last, s) THEN [last EXCEPT ![s.on] = s.ts] ELSE last,
                      lastTs |-> lastTs, out |-> IF ~Suppressed(last, s) THEN Append(out, s) ELSE out]
    BY DEF Handled, Now
<1>4. Now' = [phase |-> phase', rest |-> rest', due |-> due', agg |-> agg', spot |-> spot',
              last |-> last', lastTs |-> lastTs', out |-> out']
    BY DEF Now
<1> HIDE DEF s
<1>5. QED
    BY <1>1, <1>2, <1>3, <1>4

LEMMA EndingStep ==
    ASSUME CloseBuckets
    PROVE  phase # "stopped" /\ ~Complete(Now) /\ Now' = After(Now)
<1>1. /\ phase = "loop" /\ phase' = "end" /\ due = <<>> /\ \A s \in DOMAIN rest : rest[s] = <<>>
      /\ due' = OnCandles(ClosedAtEnd)
      /\ agg' = [tf \in Timeframes |-> IF EndsBy(tf) THEN NoBucket(tf) ELSE agg[tf]]
      /\ rest' = rest /\ spot' = spot /\ last' = last /\ lastTs' = lastTs /\ out' = out
    BY DEF CloseBuckets
<1>2. ~ \E s : FirstOf(Now, s)
    BY <1>1 DEF FirstOf, Now
<1>3. ~Complete(Now) /\ After(Now) = Ending(Now)
    BY <1>1, <1>2 DEF Complete, After, Now
<1>4. Ending(Now) = [phase |-> "end", rest |-> rest, due |-> OnCandles(ClosedAtEnd),
                     agg |-> [tf \in Timeframes |-> IF EndsBy(tf) THEN NoBucket(tf) ELSE agg[tf]],
                     spot |-> spot, last |-> last, lastTs |-> lastTs, out |-> out]
    <2>1. Ending(Now) = [phase |-> "end", rest |-> rest, due |-> OnCandles(ClosedOf(Now, EndedOf(Now))),
                         agg |-> [tf \in Timeframes |-> IF tf \in EndedOf(Now) THEN NoBucket(tf) ELSE agg[tf]],
                         spot |-> spot, last |-> last, lastTs |-> lastTs, out |-> out]
        BY DEF Ending, Now
    <2>2. QED
        BY <2>1, OfNow
<1>5. Now' = [phase |-> phase', rest |-> rest', due |-> due', agg |-> agg', spot |-> spot',
              last |-> last', lastTs |-> lastTs', out |-> out']
    BY DEF Now
<1>6. QED
    BY <1>1, <1>3, <1>4, <1>5

\* Every step but the start and the end of a run leaves it be or takes it on.
LEMMA RunSteps ==
    ASSUME ReplayTypeOK, [ReplayNext]_replayVars
    PROVE  \/ StartReplay
           \/ Finish \/ KillRun
           \/ /\ runs' = runs /\ source' = source /\ wal' = wal
              /\ phase' = "stopped" <=> phase = "stopped"
              /\ Now' = Now \/ (~Complete(Now) /\ Now' = After(Now))
<1>1. CASE HandleSignal
    <2>1. runs' = runs /\ source' = source /\ wal' = wal /\ phase' = phase
        BY <1>1 DEF HandleSignal, inputs
    <2>2. QED
        BY <1>1, <2>1, HandlingStep
<1>2. CASE CloseBuckets
    <2>1. runs' = runs /\ source' = source /\ wal' = wal /\ phase' = "end"
        BY <1>2 DEF CloseBuckets, inputs
    <2>2. QED
        BY <1>2, <2>1, EndingStep
<1>3. ASSUME NEW s \in DOMAIN rest, OnIndexTick(s) \/ OnOptionTick(s) \/ OnCandle(s)
      PROVE  /\ runs' = runs /\ source' = source /\ wal' = wal /\ phase' = phase
             /\ ~Complete(Now) /\ Now' = After(Now)
    <2>1. runs' = runs /\ source' = source /\ wal' = wal /\ phase' = phase
        BY <1>3 DEF OnIndexTick, OnOptionTick, OnCandle, Take, inputs
    <2>2. QED
        BY <1>3, <2>1, TakingStep
<1>4. CASE UNCHANGED replayVars
    BY <1>4 DEF replayVars, inputs, engine, Now
<1>5. QED
    BY <1>1, <1>2, <1>3, <1>4 DEF ReplayNext

\* The inputs of a replay, and so its opening and its traces, stay as they are.
LEMMA SameTraces ==
    ASSUME source' = source, wal' = wal
    PROVE  Streams' = Streams /\ \A n, T : Trace(n, T)' <=> Trace(n, T)
<1>1. Streams' = Streams
    BY DEF Streams, WalEvents, PgEvents, RowId
<1>2. Opening' = Opening
    BY <1>1 DEF Opening
<1>3. QED
    BY <1>1, <1>2 DEF Trace

LEMMA TraceOn ==
    ASSUME NEW n, NEW T, Trace(n, T), NEW x \in RunState, ~Complete(T[n]), x = After(T[n])
    PROVE  \E m, S : Trace(m, S) /\ S[m] = x
<1> DEFINE S == [k \in 1..(n + 1) |-> IF k = n + 1 THEN x ELSE T[k]]
<1>1. n \in Nat \ {0} /\ T \in [1..n -> RunState] /\ T[1] = Opening
      /\ \A k \in 1..(n - 1) : ~Complete(T[k]) /\ T[k + 1] = After(T[k])
    BY DEF Trace
<1>2. /\ S \in [1..(n + 1) -> RunState] /\ S[n + 1] = x
      /\ \A k \in 1..n : S[k] = T[k]
    BY <1>1
<1> HIDE DEF S
<1>3. ASSUME NEW k \in 1..n PROVE ~Complete(S[k]) /\ S[k + 1] = After(S[k])
    <2>1. CASE k = n
        BY <1>1, <1>2, <2>1
    <2>2. CASE k # n
        <3>1. k \in 1..(n - 1) /\ k + 1 \in 1..n
            BY <1>1, <2>2
        <3>2. QED
            BY <1>1, <1>2, <3>1
    <2>3. QED
        BY <2>1, <2>2
<1>4. n + 1 - 1 = n /\ n + 1 \in Nat \ {0} /\ 1 \in 1..n
    BY <1>1
<1>5. Trace(n + 1, S)
    BY <1>1, <1>2, <1>3, <1>4 DEF Trace
<1>6. QED
    BY <1>2, <1>5

LEMMA InitAgree == ReplayInit => AgreeInv
<1> SUFFICES ASSUME ReplayInit PROVE AgreeInv
    OBVIOUS
<1>1. phase = "stopped" /\ runs = <<>> /\ Len(runs) = 0
    BY DEF ReplayInit
<1>2. QED
    BY <1>1 DEF AgreeInv

LEMMA NextAgree == ReplayTypeOK /\ AgreeInv /\ [ReplayNext]_replayVars => AgreeInv'
<1> SUFFICES ASSUME ReplayTypeOK, AgreeInv, [ReplayNext]_replayVars PROVE AgreeInv'
    OBVIOUS
<1> DEFINE Recorded(w, d) == \E n, T : Trace(n, T) /\ T[n].out = w /\ (d => Complete(T[n]))
<1>1. ReplayTypeOK'
    BY NextReplayTypes
<1>2. /\ phase # "stopped" => \E n, T : Trace(n, T) /\ T[n] = Now
      /\ \A m \in 1..Len(runs) : Recorded(runs[m].wrote, runs[m].done)
    BY DEF AgreeInv
<1>3. ASSUME source' = source, wal' = wal,
             phase' # "stopped" => \E n, T : Trace(n, T) /\ T[n] = Now',
             \A m \in 1..Len(runs') : Recorded(runs'[m].wrote, runs'[m].done)
      PROVE  AgreeInv'
    <2>1. \A n, T : Trace(n, T)' <=> Trace(n, T)
        BY <1>3, SameTraces
    <2>2. QED
        BY <1>3, <2>1 DEF AgreeInv
<1>4. CASE StartReplay
    <2>1. /\ phase' = "loop" /\ rest' = Streams /\ due' = <<>> /\ out' = <<>> /\ runs' = runs
          /\ agg' = [tf \in Timeframes |-> NoBucket(tf)] /\ spot' = NoSpot /\ lastTs' = -1
          /\ last' = [i \in Instruments |-> -1] /\ source' = source /\ wal' = wal
        BY <1>4 DEF StartReplay, Fresh, inputs
    <2>2. Now' = Opening
        BY <2>1 DEF Now, Opening
    <2>3. Now' \in RunState
        BY <1>1, <2>1 DEF ReplayTypeOK, Now, RunState
    <2>4. Trace(1, <<Now'>>)
        BY <2>2, <2>3 DEF Trace
    <2>5. \E n, T : Trace(n, T) /\ T[n] = Now'
        <3> DEFINE T == <<Now'>>
        <3>1. T[1] = Now'
            OBVIOUS
        <3>2. QED
            BY <2>4, <3>1
    <2> HIDE DEF Recorded
    <2>6. QED
        BY <1>2, <1>3, <2>1, <2>5
<1>5. CASE Finish \/ KillRun
    <2>1. PICK done \in BOOLEAN : Over(done) /\ phase # "stopped" /\ (done => Complete(Now))
        <3>1. Now.phase = phase /\ Now.due = due
            BY DEF Now
        <3>2. QED
            BY <1>5, <3>1 DEF Finish, KillRun, Complete
    <2>2. /\ phase' = "stopped" /\ source' = source /\ wal' = wal
          /\ runs' = Append(runs, [wrote |-> out, done |-> done, file |-> file])
        BY <2>1 DEF Over, inputs
    <2>3. Recorded(out, done)
        <3>1. PICK n, T : Trace(n, T) /\ T[n] = Now
            BY <1>2, <2>1
        <3>2. T[n].out = out
            BY <3>1 DEF Now
        <3>3. QED
            BY <2>1, <3>1, <3>2
    <2> HIDE DEF Recorded
    <2>4. \A m \in 1..Len(runs') : Recorded(runs'[m].wrote, runs'[m].done)
        <3> DEFINE R == [wrote : Seq(Signal), done : BOOLEAN, file : Seq(Signal)]
                   r == [wrote |-> out, done |-> done, file |-> file]
        <3>1. runs \in Seq(R) /\ runs' \in Seq(R) /\ r.wrote = out /\ r.done = done /\ r \in R
            BY <1>1, <2>1 DEF ReplayTypeOK
        <3> HIDE DEF R, r
        <3>2. /\ Len(runs) \in Nat /\ Len(runs') = Len(runs) + 1 /\ runs'[Len(runs) + 1] = r
              /\ \A m \in 1..Len(runs) : runs'[m] = runs[m]
            BY <2>2, <3>1, AppendProperties, LenProperties DEF r
        <3> SUFFICES ASSUME NEW m \in 1..Len(runs') PROVE Recorded(runs'[m].wrote, runs'[m].done)
            OBVIOUS
        <3>3. CASE m = Len(runs) + 1
            BY <2>3, <3>1, <3>2, <3>3
        <3>4. CASE m # Len(runs) + 1
            <4>1. m \in 1..Len(runs)
                BY <3>2, <3>4
            <4>2. QED
                BY <1>2, <3>2, <4>1
        <3>5. QED
            BY <3>3, <3>4
    <2>5. QED
        BY <1>3, <2>2, <2>4
<1>6. CASE /\ runs' = runs /\ source' = source /\ wal' = wal
           /\ phase' = "stopped" <=> phase = "stopped"
           /\ Now' = Now \/ (~Complete(Now) /\ Now' = After(Now))
    <2>1. ASSUME phase' # "stopped" PROVE \E n, T : Trace(n, T) /\ T[n] = Now'
        <3>1. PICK n, T : Trace(n, T) /\ T[n] = Now
            BY <1>2, <1>6, <2>1
        <3>2. Now' \in RunState
            BY <1>1, <2>1 DEF ReplayTypeOK, Now, RunState
        <3>3. CASE Now' = Now
            BY <3>1, <3>3
        <3>4. CASE ~Complete(Now) /\ Now' = After(Now)
            BY <3>1, <3>2, <3>4, TraceOn
        <3>5. QED
            BY <1>6, <3>3, <3>4
    <2> HIDE DEF Recorded
    <2>2. QED
        BY <1>2, <1>3, <1>6, <2>1
<1>7. QED
    BY <1>4, <1>5, <1>6, RunSteps

(***************************************************************************)
(* Two runs of the same inputs write the same, whatever the sources and    *)
(* however often a run is killed: what one wrote is the beginning of what  *)
(* a completed one wrote (engine.py run, _handle_signal).                  *)
(***************************************************************************)
THEOREM RunsAlwaysAgree == ReplaySpec => []RunsAgree
BY ReplayInitTypes, NextReplayTypes, InitAgree, NextAgree, AgreeInvAgrees, PTL DEF ReplaySpec
====
