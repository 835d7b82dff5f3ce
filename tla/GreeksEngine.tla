---- MODULE GreeksEngine ----
(***************************************************************************)
(* The greeks process (greeks.py) beside the writers of the live store.    *)
(* An option message is computed with the spot that is in Redis when it is *)
(* handled; an index message recomputes the chain with the spot it carries *)
(* if that is far enough from the spot of the message before.  One thread  *)
(* takes the messages in the order of the bus.                             *)
(***************************************************************************)
EXTENDS LiveStore

CONSTANTS
    Strike,     \* of the contract
    AtmRange,   \* atm_range in strike steps, here in points
    Trigger     \* greeks_spot_trigger_points

ASSUME EngineAssumption == Strike \in Nat /\ AtmRange \in Nat /\ Trigger \in Nat

VARIABLES
    lastSpot,      \* _last_spot
    greeks,        \* the number of the index tick behind the cached greeks, 0 if none
    jumps          \* history: the index ticks that must reach the greeks

engine == <<lastSpot, greeks>>
greeksVars == <<store, writers, bus, engine, jumps>>

Distance(a, b) == IF a < b THEN b - a ELSE a - b

InAtmRange(price) == Distance(Strike, price) <= AtmRange

\* Mutant: a move of exactly the trigger is too small.
MovedFurther(before, price) == before = 0 \/ Distance(before, price) > Trigger

\* A move that _on_index_tick must not pass over.  The first tick always counts.
Moved(before, price) == before = 0 \/ Distance(before, price) >= Trigger

GreeksInit ==
    /\ StoreInit
    /\ lastSpot = 0 /\ greeks = 0
    /\ jumps = {}

Take(kind) ==
    /\ bus # <<>> /\ Head(bus).kind = kind
    /\ bus' = Tail(bus)
    /\ UNCHANGED <<store, writers>>

\* _on_option_tick and _compute_and_publish: the contract alone, with the spot
\* of Redis.  No other thread writes greeks, so that the handler is one step.
\* The read of the spot may raise, set_greeks too: both are only logged.
OnOptionTick ==
    /\ Take("option")
    /\ \/ greeks' = IF spot # NoSpot /\ InAtmRange(spot.price) THEN spot.n ELSE greeks
       \/ UNCHANGED greeks
    /\ UNCHANGED <<lastSpot, jumps>>

\* _recompute_chain: every contract of the chain in range.  The scan, get_chain
\* or set_greeks may raise, which _dispatch or _compute_and_publish logs.
Recompute(s) ==
    \/ /\ greeks' = IF chain # NONE /\ InAtmRange(s.price) THEN s.n ELSE greeks
       /\ UNCHANGED jumps
    \/ /\ jumps' = jumps \ {s.n}
       /\ UNCHANGED greeks

\* _on_index_tick: the spot is remembered before the chain is recomputed, so that
\* a recomputation that raised is not made up for by the next message.
OnIndexTick ==
    /\ Take("index")
    /\ LET s == Head(bus).spot IN
       /\ lastSpot' = s.price
       /\ \/ Moved(lastSpot, s.price) /\ Recompute(s)
          \/ ~Moved(lastSpot, s.price) /\ UNCHANGED <<greeks, jumps>>

\* An index tick that moved the spot by the trigger, to where a contract of the
\* chain is in range.  Its recomputation, if it raises, strikes it out again.
Jumps ==
    /\ jumps' = IF /\ spot' # spot /\ chain # NONE
                   /\ spot.n = 0 \/ Distance(spot.price, spot'.price) >= Trigger
                   /\ Distance(Strike, spot'.price) <= AtmRange
                THEN jumps \cup {spot'.n} ELSE jumps
    /\ UNCHANGED engine

WriterNext == StoreNext /\ Jumps

EngineNext == OnOptionTick \/ OnIndexTick

GreeksNext == WriterNext \/ EngineNext

\* What is begun goes on, the poller comes round every three seconds and the
\* broker answers it again and again.  No quote and no index tick is promised.
GreeksSpec ==
    /\ GreeksInit /\ [][GreeksNext]_greeksVars
    /\ WF_greeksVars(EngineNext)
    /\ \A t \in Thread :
         WF_greeksVars((Read(t) \/ SetLatest(t) \/ SetChain(t) \/ Publish(t)) /\ Jumps)
    /\ WF_greeksVars(PollOk /\ Jumps)

-----------------------------------------------------------------------------

GreeksTypeOK ==
    /\ StoreTypeOK
    /\ lastSpot \in {0} \cup Spots
    /\ greeks \in 0..MaxIndexTicks
    /\ jumps \subseteq 0..MaxIndexTicks

\* When the engine has caught up, the cached greeks are not older than any index
\* tick that moved the spot by the trigger into the contract's range and whose
\* recomputation did not raise (greeks.py:364-416), although option messages
\* overtake index messages with the spot they read in Redis, and a recomputation
\* may then go back to an older spot.  A jump whose recomputation raised is passed
\* over for good: the spot is remembered first (greeks.py:375).
NoJumpMissed ==
    bus = <<>> /\ pc["ws"] # "index" => \A n \in jumps : greeks >= n

====
