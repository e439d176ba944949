-------------------------------- MODULE MCGov --------------------------------
(* Instances of the DAO: two holders; a vote of two blocks; parameters that *)
(* anyone may move between a strict and a lax quorum.                       *)
EXTENDS Gov

MCStrict == [votingDelay |-> 1, votingPeriod |-> 1, proposalThreshold |-> 1, quorum |-> 2]
MCLax    == [votingDelay |-> 0, votingPeriod |-> 1, proposalThreshold |-> 1, quorum |-> 1]
MCFixed   == {}
MCChoices == {MCStrict, MCLax}

=============================================================================
