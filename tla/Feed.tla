-------------------------------- MODULE Feed ---------------------------------
(***************************************************************************)
(* What a follower of a chain promises: it reports transactions of the     *)
(* wanted kinds that are on chain, each once and in the order of the       *)
(* chain.  It may pass some over; when it may not is for its own module to *)
(* say.                                                                    *)
(***************************************************************************)
EXTENDS Naturals, Sequences

CONSTANT Kinds  \* what a slot of the chain may hold

VARIABLES chain, wanted, records

vars == <<chain, wanted, records>>

Init == chain = <<>> /\ records = <<>> /\ wanted \subseteq Kinds

Grow ==
    /\ \E k \in Kinds : chain' = Append(chain, k)
    /\ UNCHANGED <<wanted, records>>

Report(s) ==
    /\ chain[s] \in wanted
    /\ \A i \in DOMAIN records : records[i] < s
    /\ records' = Append(records, s)
    /\ UNCHANGED <<chain, wanted>>

Next == Grow \/ \E s \in DOMAIN chain : Report(s)

Spec == Init /\ [][Next]_vars

=============================================================================
