----------------------------- MODULE MCLaunchPad -----------------------------
(* The offers the runs explore, with the token deployed by the factory.    *)
EXTENDS LaunchPad

CONSTANTS t, usd, new  \* the tokens

AnOffer(saleToken, paymentToken, price, totalAmount, startTime, maxPurchase) ==
    [saleToken |-> saleToken, paymentToken |-> paymentToken, price |-> price,
     totalAmount |-> totalAmount, startTime |-> startTime, endTime |-> startTime + 1,
     minPurchase |-> 1, maxPurchase |-> maxPurchase]

(* Sales that share their tokens in every way: a token of one is the      *)
(* money of another, and a token is sold for itself.                      *)
MCSharedOffers == {AnOffer(t, usd, 5, 3, 0, 3), AnOffer(usd, new, 3, 2, 1, 2),
                   AnOffer(new, new, 1, 2, 0, 2), AnOffer(new, usd, 3, 2, 1, 1)}

=============================================================================
