---- MODULE MCRegime ----
(***************************************************************************)
(* Instance for model checking: two strikes, and three looks at the        *)
(* market.  In Rise the resistance at 10 has been crossed and, after a     *)
(* Fall, unwinds, and both books, the price and the candles agree; in Fall *)
(* the support has, the put's book is too wide to vote and the candles'    *)
(* volatility is high; Blind is Rise without a spot.                       *)
(***************************************************************************)
EXTENDS RegimeGate

Level(ce, pe) == [s \in Sides |-> [k \in Strikes |-> IF k = 10 THEN IF s = "CE" THEN ce ELSE pe ELSE 1]]

Quotes(ce, pe) ==
    [s \in Sides |-> [k \in Strikes |->
        [ltp |-> IF s = "CE" THEN ce ELSE pe, fits |-> k = 10, wide |-> FALSE]]]

Book(tight, imbalance, momentum) ==
    [tight |-> tight, imbalance |-> imbalance, momentum |-> momentum]

Rise == [spot |-> 11, oi |-> Level(8, 10), quotes |-> Quotes(9, 2),
         book |-> [s \in Sides |-> Book(TRUE, 1, 1)],
         price |-> 1, oiMove |-> -1, colours |-> <<1, 1>>, choppy |-> FALSE, trend |-> 1]

Fall == [spot |-> 9, oi |-> Level(10, 7), quotes |-> Quotes(2, 9),
         book |-> [s \in Sides |-> Book(s = "CE", -1, -1)],
         price |-> -1, oiMove |-> 1, colours |-> <<-1, -1>>, choppy |-> TRUE, trend |-> -1]

Blind == [Rise EXCEPT !.spot = 0]

MCMarkets == {Rise, Fall, Blind}

OneMarket == {Rise}

MCAnswers == {[regime |-> "trending", bias |-> "short", confidence |-> 60]}
====
