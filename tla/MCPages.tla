------------------------------ MODULE MCPages ------------------------------
(* Swaps: the token C is traded for ether, whose token is W, over pairs    *)
(* with the bases A, B and E: directly, or with two, three or four hops,   *)
(* the last of which is one too many; {C, D} is not common.  The large     *)
(* pools are close to balance, where the best route depends on rounding;   *)
(* the small ones favour small amounts.  Then the pair of W and A is empty *)
(* and the direct pair is poor in C.  Removals: C is in a pool with W and  *)
(* in one with D.                                                          *)
EXTENDS Site

MCPairs == <<{"W", "C"}, {"W", "A"}, {"A", "C"}, {"A", "B"}, {"B", "C"}, {"B", "E"}, {"E", "C"}, {"C", "D"}>>
MCBases == {"W", "A", "B", "E"}

Pool(t, x, u, y) == t :> x @@ u :> y

Others == <<Pool("A", 6, "B", 16), Pool("B", 8, "C", 16), Pool("B", 4, "E", 16), Pool("E", 8, "C", 16),
            Pool("C", 9, "D", 9)>>
MCWorlds ==
    <<<<Pool("W", 200, "C", 190), Pool("W", 190, "A", 200), Pool("A", 190, "C", 200)>> \o Others,
      <<Pool("W", 200, "C", 150), Pool("W", 0, "A", 0), Pool("A", 190, "C", 200)>> \o Others>>

MCBalance == "ETH" :> 15 @@ "C" :> 15

MCPools == {"W", "C"} :> [supply |-> 10, reserve |-> Pool("W", 30, "C", 40)]
        @@ {"C", "D"} :> [supply |-> 10, reserve |-> Pool("D", 30, "C", 40)]
MCOpened == {[A |-> "ETH", B |-> "C"]}
MCApproved == {{}, {{"W", "C"}}}
MCTrades == {[pair |-> {"W", "C"}, token |-> "W", size |-> 8]}
=============================================================================
