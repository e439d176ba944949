-------------------------------- MODULE Site --------------------------------
(* The interface with one of two of its pages open, the one for swaps or   *)
(* the one for taking liquidity out.  Each has its own store and promises. *)
EXTENDS SwapPage

CONSTANTS Pools, Selectable, Opened, Approved, Liquidity, Trades, Percents, Shares, Tolerance,
          MaxTrades, MaxTasks, MaxSelects

VARIABLES path, pool, liquidity, allowedPair, nonce, othersTrades, selected, selects, seenPair, burn,
          timer, modal, signature, tasks, asked, removed

removalVars == <<pool, liquidity, allowedPair, nonce, othersTrades, selected, selects, seenPair, burn,
                 timer, modal, signature, tasks, asked, removed>>

Removal == INSTANCE RemovePage WITH
    Currencies <- Selectable, Typed <- Shares, Slippage <- Tolerance, MaxMoves <- MaxTrades,
    allowed <- allowedPair, moves <- othersTrades, seen <- seenPair, form <- burn

-----------------------------------------------------------------------------
SiteInit ==
    /\ Init /\ Removal!Init
    /\ path \in {"/swap", "/remove"}
    /\ path = "/swap" => \A p \in DOMAIN Pools : ~allowedPair[p]
    /\ path = "/remove" => ~allowed /\ ~expert

SiteNext ==
    /\ UNCHANGED path
    /\ \/ path = "/swap" /\ Next /\ UNCHANGED removalVars
       \/ path = "/remove" /\ Removal!Next /\ UNCHANGED vars

SiteSpec == SiteInit /\ [][SiteNext]_<<path, vars, removalVars>>

(* What was confirmed is what a removal burns and, within the tolerance,   *)
(* what it gives: see RemovePage.                                          *)
RemovedAsShown == Removal!RemovedAsShown

(* No removal is sent with a permit for another amount or another pair:    *)
(* see RemovePage.                                                         *)
PermitFits == Removal!PermitFits
=============================================================================
