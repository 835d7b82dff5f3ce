---- MODULE EntryRules ----
(***************************************************************************)
(* The scalper's rules, functions of one look at the market: the triggers  *)
(* and their agreement, the levels, the contract to buy, the exit and its  *)
(* levels, the regime without a model.                                     *)
(*                                                                         *)
(* A market is a record of what the rules read: spot (0 when unknown); oi, *)
(* open interest by side and strike; quotes, by side and strike, each with *)
(* its ltp (0 when there is none), whether its delta is in the configured  *)
(* window, and whether its spread is too wide; book, per side the tight    *)
(* spread, the imbalance beyond the threshold and the momentum of the      *)
(* at-the-money option (-1, 0, 1); price and oiMove, the signs of the      *)
(* moves of the at-the-money call; colours, of the one-minute candles;     *)
(* choppy, whether their volatility is high; trend, the sign of the move.  *)
(***************************************************************************)
EXTENDS Integers, Sequences, FiniteSets, FiniteSetsExt

CONSTANTS
    Strikes,                \* the strikes of the chain
    MinAgreement,           \* triggers that must agree
    RunThreshold,           \* candles of one colour that make momentum
    MinConfidence,          \* of the regime, for an entry
    MaxLoss, MinStop,       \* the rupee cap per unit held, the least stop buffer
    Hysteresis, MinAge,     \* guards of the soft exits
    TimeStop                \* how long a position is kept

ASSUME RulesAssumption ==
    /\ IsFiniteSet(Strikes) /\ Strikes # {} /\ Strikes \subseteq Nat \ {0}
    /\ MinAgreement \in Nat \ {0} /\ RunThreshold \in Nat \ {0} /\ MinConfidence \in Nat
    /\ MaxLoss \in Nat /\ MinStop \in Nat /\ Hysteresis \in Nat /\ MinAge \in Nat
    /\ TimeStop \in Nat

Sides == {"CE", "PE"}

None == "none"

Biases == {"long", "short", "neutral"}

Flipped(side) == CASE side = "CE" -> "PE" [] side = "PE" -> "CE" [] side = None -> None

FlippedBias(bias) ==
    CASE bias = "long" -> "short" [] bias = "short" -> "long" [] bias = "neutral" -> "neutral"
----
\* classify_buildup and buildup_signal: the side follows the price, if open interest moves too.
Buildup(price, oiMove) ==
    CASE price = 0 \/ oiMove = 0 -> None
      [] price > 0 /\ oiMove # 0 -> "CE"
      [] price < 0 /\ oiMove # 0 -> "PE"

\* microstructure_signal, the same for a call's book and a put's.
Micro(book) ==
    CASE book.tight /\ book.imbalance > 0 /\ book.momentum > 0 -> "CE"
      [] book.tight /\ book.imbalance < 0 /\ book.momentum < 0 -> "PE"
      [] OTHER -> None

\* candle_run: the signed length of the run of one colour at the end.
CandleRun(colours) ==
    IF colours = <<>> THEN 0
    ELSE LET n == Len(colours)
             before == {m \in 1..n : colours[m] # colours[n]}
         IN  colours[n] * (n - Max(before \cup {0}))

\* momentum_signal.
Momentum(colours) ==
    CASE CandleRun(colours) >= RunThreshold -> "CE"
      [] CandleRun(colours) <= -RunThreshold -> "PE"
      [] OTHER -> None

\* get_oi_walls and compute_levels: the strike of the largest open interest, 0 if there is none.
PrimaryWall(oi) ==
    LET walls == {s \in Strikes : oi[s] > 0 /\ \A r \in Strikes : oi[r] <= oi[s]}
    IN  IF walls = {} THEN 0 ELSE Min(walls)

\* detect_migration: the strikes that lost a fifth of their open interest since the last look.
Breaking(prev, curr) == {s \in Strikes : prev[s] > 0 /\ 5 * (curr[s] - prev[s]) <= -prev[s]}

\* level_break_signal.
LevelBreak(spot, prev, curr) ==
    LET resistance == PrimaryWall(curr["CE"])
        support == PrimaryWall(curr["PE"])
    IN  CASE /\ resistance > 0 /\ spot > resistance
             /\ resistance \in Breaking(prev["CE"], curr["CE"]) -> "CE"
          [] /\ support > 0 /\ spot < support
             /\ support \in Breaking(prev["PE"], curr["PE"]) -> "PE"
          [] OTHER -> None

\* The triggers of one evaluation, in the order _try_entry collects them.
Triggers(m, prev) ==
    <<Micro(m.book["CE"]), Micro(m.book["PE"]), Buildup(m.price, m.oiMove),
      Momentum(m.colours), LevelBreak(m.spot, prev, m.oi)>>

Votes(sigs, side) == Cardinality({n \in 1..Len(sigs) : sigs[n] = side})

\* Mutant of Opposes: a regime that leans long is not held against a put.
OpposesCalls(bias, side) == side = "CE" /\ bias = "short"

Opposes(bias, side) == (side = "CE" /\ bias = "short") \/ (side = "PE" /\ bias = "long")

\* combine_signals: enough triggers agree, and the regime does not lean against them; calls first.
Combine(sigs, bias) ==
    CASE Votes(sigs, "CE") >= MinAgreement /\ ~Opposes(bias, "CE") -> "CE"
      [] /\ ~(Votes(sigs, "CE") >= MinAgreement /\ ~Opposes(bias, "CE"))
         /\ Votes(sigs, "PE") >= MinAgreement /\ ~Opposes(bias, "PE") -> "PE"
      [] OTHER -> None

\* schema.allow_entry.
AllowEntry(d, side) ==
    /\ d.confidence >= MinConfidence
    /\ d.regime # "volatile"
    /\ ~Opposes(d.bias, side)
----
Distance(s, spot) == IF s < spot THEN spot - s ELSE s - spot

\* The strike of a set nearest the spot, the lower of two equally near.
Nearest(strikes, spot) ==
    Min({s \in strikes : \A r \in strikes : Distance(s, spot) <= Distance(r, spot)})

\* pick_instrument: the nearest strike that qualifies, else the at-the-money one if it can be bought.
Pick(m, side) ==
    LET Buyable(s) == m.quotes[side][s].ltp > 0 /\ ~m.quotes[side][s].wide
        fitting == {s \in Strikes : Buyable(s) /\ m.quotes[side][s].fits}
        atm == Nearest(Strikes, m.spot)
    IN  CASE fitting # {} -> Nearest(fitting, m.spot)
          [] fitting = {} /\ Buyable(atm) -> atm
          [] OTHER -> 0

\* build_exit_levels: the stop and the target of a position, from the quote it was entered at.
StopBuffer == Max({MinStop, MaxLoss})

StopAt(quoted) == Max({0, quoted - StopBuffer})

TargetAt(quoted) == quoted + (3 * StopBuffer + 1) \div 2

(***************************************************************************)
(* evaluate: the rupee cap, the stop, the time stop and the target at any  *)
(* time; the regime and a wall other than the one of the entry only on a   *)
(* position of some age that is losing.                                    *)
(***************************************************************************)
HardExit(pos, ltp, now) ==
    \/ pos.entry - ltp >= MaxLoss
    \/ ltp <= StopAt(pos.quoted)
    \/ now >= pos.at + TimeStop
    \/ ltp >= TargetAt(pos.quoted)

WallBreak(pos, spot, oi) ==
    LET support == PrimaryWall(oi["PE"])
        resistance == PrimaryWall(oi["CE"])
    IN  \/ /\ pos.side = "CE" /\ support > 0 /\ spot > 0
           /\ spot < support - Hysteresis /\ support # pos.support
        \/ /\ pos.side = "PE" /\ resistance > 0 /\ spot > 0
           /\ spot > resistance + Hysteresis /\ resistance # pos.resistance

SoftExit(pos, ltp, now, bias, spot, oi) ==
    /\ now - pos.at >= MinAge /\ ltp < pos.entry
    /\ Opposes(bias, pos.side) \/ WallBreak(pos, spot, oi)

\* fallback.classify: the regime from the candles alone.
CandleFlips(colours) ==
    LET marked == SelectSeq(colours, LAMBDA c : c # 0)
    IN  Cardinality({n \in 2..Len(marked) : marked[n] # marked[n - 1]})

Fallback(m) ==
    LET flips == CandleFlips(m.colours)
        n == Len(m.colours)
        regime == CASE m.choppy -> "volatile"
                    [] ~m.choppy /\ flips >= Max({2, n \div 3}) -> "ranging"
                    [] OTHER -> "trending"
        bias == CASE regime = "volatile" \/ flips > n \div 4 \/ m.trend = 0 -> "neutral"
                  [] OTHER -> IF m.trend > 0 THEN "long" ELSE "short"
        confidence == CASE regime = "trending" /\ flips = 0 -> 70
                        [] regime = "trending" /\ flips > 0 -> 55
                        [] regime = "volatile" -> 30
                        [] regime = "ranging" -> 40
    IN  IF n = 0 THEN [regime |-> "ranging", bias |-> "neutral", confidence |-> 20]
        ELSE [regime |-> regime, bias |-> bias, confidence |-> confidence]
====
