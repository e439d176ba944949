------------------------------- MODULE Oracle --------------------------------
(***************************************************************************)
(* OracleSimple.sol: the time-weighted average price of one pool, taken    *)
(* from the pool's price accumulators.  o is the oracle's state.           *)
(***************************************************************************)
EXTENDS Pair

CONSTANT Period   \* PERIOD

ASSUME PeriodAssumption == Period \in Nat \ {0}

(* currentCumulativePrices: the pool's accumulators brought to now. *)
CurrentCumulative(p, now) == Accrued(p, now)

(* The constructor: averages are zero until the first update. *)
DeployAllowed(p) == Funded(p.r)
Deployed(p) == [cum |-> p.cum, last |-> p.last, avg |-> [s \in Sides |-> 0]]

(* Both differences of timestamps are checked subtractions. *)
UpdateOracleAllowed(o, p, now) ==
    /\ Stamp(now) >= p.last
    /\ Stamp(now) >= o.last
    /\ Stamp(now) - o.last >= Period

UpdatedOracle(o, p, now) ==
    LET cum == CurrentCumulative(p, now)
    IN  [cum |-> cum, last |-> Stamp(now),
         avg |-> [s \in Sides |-> (cum[s] - o.cum[s]) \div (Stamp(now) - o.last)]]

(* setPrice: anyone, any averages. *)
PriceSet(o, avg) == [o EXCEPT !.avg = avg]

(* consult *)
consult(o, s, n) == (o.avg[s] * n) \div Q

=============================================================================
