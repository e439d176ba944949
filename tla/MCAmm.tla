-------------------------------- MODULE MCAmm --------------------------------
(* An instance of Amm: pools "a" and "b" hold tokens "x" and "y" in two    *)
(* factories, pool "c" holds "y" and "z" in the first; "x" is WETH.        *)
EXTENDS Amm, TLC

MCPools == {"a", "b", "c"}
MCRouterPools == {"a", "c"}
MCTokensOf == [p \in MCPools |-> IF p = "c" THEN 0 :> "y" @@ 1 :> "z" ELSE 0 :> "x" @@ 1 :> "y"]

(* A pool after a first mint, with the fee off or on at the time. *)
AfterMint(x, y, on) ==
    LET r == 0 :> x @@ 1 :> y
        s == Sqrt(x * y)
    IN  [EmptyPool EXCEPT !.r = r, !.b = r, !.supply = s, !.kLast = IF on THEN x * y ELSE 0,
                          !.lp = [@ EXCEPT !["zero"] = MinLiquidity, !["user"] = s - MinLiquidity]]

MCInitPools ==
    {"a" :> AfterMint(20, 20, TRUE) @@ "b" :> AfterMint(10, 30, TRUE) @@ "c" :> EmptyPool,
     "a" :> AfterMint(18, 12, TRUE) @@ "b" :> EmptyPool @@ "c" :> AfterMint(12, 16, FALSE)}

MCPaths == {<<"x", "y">>, <<"y", "x">>, <<"x", "y", "z">>, <<"z", "y", "x">>, <<"x", "y", "x">>}
MCAverages == {[s \in Sides |-> 1]}

=============================================================================
