------------------------------ MODULE DaoProofs ------------------------------
(***************************************************************************)
(* What holds of the token, of the votes counted with it and of the        *)
(* treasury they decide about, for any holders, supply and number of       *)
(* blocks; that the three together implement the abstract assembly; and    *)
(* that the search the votes are read with returns the weight in force.    *)
(*                                                                         *)
(* The invariants of the runs are not inductive: that the weights of the   *)
(* block now ending add up to the supply follows from what the newest      *)
(* checkpoints say, which Newest adds; that the treasury balances, from    *)
(* every execution having paid what its proposal says and only once,       *)
(* which DaoInv adds.                                                      *)
(***************************************************************************)
EXTENDS Gov, CheckpointSearch, LedgerLemmas, TLAPS

(* From block h on the array says w, and it says nothing of a later block. *)
Newest(c, h, w) ==
    /\ IsHistory(c)
    /\ \A i \in DOMAIN c : c[i].fromBlock <= h
    /\ CurrentVotes(c) = w
    /\ \A b \in Nat : h <= b => VotesAt(c, b) = w

TokenInv ==
    /\ height \in Nat \ {0}
    /\ balanceOf \in [Users -> Nat]
    /\ totalSupply \in Nat
    /\ checkpoints \in [Users -> Seq(Checkpoint)]
    /\ \A u \in Users : Newest(checkpoints[u], height, balanceOf[u])
    /\ Newest(totalSupplyCheckpoints, height, totalSupply)
    /\ SumOf(balanceOf) = totalSupply
    /\ PastVotesConserved

(* An empty array says nothing. *)
LEMMA NewestEmpty ==
  ASSUME NEW h \in Nat
  PROVE  Newest(<<>>, h, 0)
<1>1. IsHistory(<<>>)
  BY DEF IsHistory
<1>2. \A b \in Nat : VotesAt(<<>>, b) = 0
  BY <1>1, BeforeFirst
<1> QED
  BY <1>1, <1>2 DEF Newest, CurrentVotes

(* A write makes its weight the newest and leaves earlier blocks alone. *)
LEMMA NewestWrite ==
  ASSUME NEW c, NEW h \in Nat, NEW v, Newest(c, h, v), NEW w \in Nat
  PROVE  /\ Newest(WriteCheckpoint(c, h, w), h, w)
         /\ \A b \in Nat : b < h => VotesAt(WriteCheckpoint(c, h, w), b) = VotesAt(c, b)
         /\ WriteCheckpoint(c, h, w) \in Seq(Checkpoint)
<1>1. IsHistory(c) /\ \A i \in DOMAIN c : c[i].fromBlock <= h
  BY DEF Newest
<1>2. IsHistory(WriteCheckpoint(c, h, w))
  BY <1>1, WriteLookup
<1> QED
  BY <1>1, <1>2, WriteLookup DEF Newest, IsHistory

(* The next block sees the same newest checkpoint. *)
LEMMA NewestLater ==
  ASSUME NEW c, NEW h \in Nat, NEW w, Newest(c, h, w)
  PROVE  Newest(c, h + 1, w)
<1>1. \A i \in DOMAIN c : c[i].fromBlock \in Nat
  BY HistoryFacts DEF Newest
<1>2. \A i \in DOMAIN c : c[i].fromBlock <= h + 1
  BY <1>1 DEF Newest
<1>3. \A b \in Nat : h + 1 <= b => VotesAt(c, b) = w
  BY DEF Newest
<1> QED
  BY <1>2, <1>3 DEF Newest

(* The constructor's state. *)
LEMMA TokenInitInv == TokenInit => TokenInv
<1> SUFFICES ASSUME TokenInit PROVE TokenInv
  OBVIOUS
<1> USE UsersAssumption, BoundsAssumption
<1> DEFINE first == WriteCheckpoint(<<>>, 1, InitialSupply)
           zero  == [u \in Users |-> 0]
<1>1. Newest(<<>>, 1, 0)
  BY NewestEmpty
<1>2. /\ Newest(first, 1, InitialSupply) /\ first \in Seq(Checkpoint)
      /\ \A b \in Nat : b < 1 => VotesAt(first, b) = VotesAt(<<>>, b)
  BY <1>1, NewestWrite
<1>3. IsHistory(<<>>)
  BY DEF IsHistory
<1>4. VotesAt(<<>>, 0) = 0
  BY <1>3, BeforeFirst
<1>5. VotesAt(first, 0) = 0
  BY <1>2, <1>4
<1> HIDE DEF first
<1>6. /\ height = 1 /\ totalSupply = InitialSupply
      /\ totalSupplyCheckpoints = first
      /\ balanceOf = [u \in Users |-> IF u = Owner THEN InitialSupply ELSE 0]
      /\ checkpoints =
           [u \in Users |-> IF u = Owner /\ InitialSupply > 0 THEN first ELSE <<>>]
  BY DEF TokenInit, first
<1>7. balanceOf \in [Users -> Nat]
  BY <1>6
<1>8. checkpoints \in [Users -> Seq(Checkpoint)]
  BY <1>2, <1>6
<1>9. ASSUME NEW u \in Users
      PROVE  /\ Newest(checkpoints[u], 1, balanceOf[u])
             /\ VotesAt(checkpoints[u], 0) = 0
  <2>1. CASE u = Owner /\ InitialSupply > 0
    BY <1>2, <1>5, <1>6, <2>1
  <2>2. CASE ~(u = Owner /\ InitialSupply > 0)
    BY <1>1, <1>4, <1>6, <2>2
  <2> QED
    BY <2>1, <2>2
<1>10. SumOf(balanceOf) = totalSupply
  <2>1. zero \in [Users -> Nat]
    OBVIOUS
  <2>2. SumOf(zero) = 0
    BY <2>1, SumZero
  <2>3. SumOf([zero EXCEPT ![Owner] = InitialSupply]) = SumOf(zero) - zero[Owner] + InitialSupply
    BY <2>1, SumPut
  <2>4. [zero EXCEPT ![Owner] = InitialSupply] = balanceOf
    BY <1>6
  <2>5. zero[Owner] = 0
    OBVIOUS
  <2> HIDE DEF zero
  <2> QED
    BY <1>6, <2>2, <2>3, <2>4, <2>5
<1>11. PastVotesConserved
  <2>1. [u \in Users |-> VotesAt(checkpoints[u], 0)] = zero
    BY <1>9
  <2>2. SumOf(zero) = 0
    <3>1. zero \in [Users -> Nat]
      OBVIOUS
    <3> QED
      BY <3>1, SumZero
  <2>3. \A b \in 0..(height - 1) : b = 0
    BY <1>6
  <2> QED
    BY <1>5, <1>6, <2>1, <2>2, <2>3
    DEF PastVotesConserved, getPastVotes, getPastTotalSupply
<1> QED
  BY <1>2, <1>6, <1>7, <1>8, <1>9, <1>10, <1>11 DEF TokenInv

(* What a transaction must do to the arrays for the past to stay as it is. *)
PastSame ==
    \A b \in Nat : b < height =>
        /\ \A u \in Users : VotesAt(checkpoints'[u], b) = VotesAt(checkpoints[u], b)
        /\ VotesAt(totalSupplyCheckpoints', b) = VotesAt(totalSupplyCheckpoints, b)

LEMMA PastSameConserves ==
  ASSUME TokenInv, PastSame, height' = height
  PROVE  PastVotesConserved'
<1> SUFFICES ASSUME NEW b \in 0..(height - 1)
             PROVE  SumOf([u \in Users |-> VotesAt(checkpoints'[u], b)])
                      = VotesAt(totalSupplyCheckpoints', b)
  BY DEF PastVotesConserved, getPastVotes, getPastTotalSupply
<1>1. b \in Nat /\ b < height
  BY DEF TokenInv
<1>2. [u \in Users |-> VotesAt(checkpoints'[u], b)] = [u \in Users |-> VotesAt(checkpoints[u], b)]
  BY <1>1 DEF PastSame
<1>3. SumOf([u \in Users |-> VotesAt(checkpoints[u], b)]) = VotesAt(totalSupplyCheckpoints, b)
  BY DEF TokenInv, PastVotesConserved, getPastVotes, getPastTotalSupply
<1> QED
  BY <1>1, <1>2, <1>3 DEF PastSame

(* mint keeps the invariant and the past. *)
LEMMA MintStep ==
  ASSUME TokenInv, NEW to \in Users, NEW value \in Nat, Mint(to, value)
  PROVE  TokenInv' /\ PastSame
<1> DEFINE nb == balanceOf[to] + value
           ns == totalSupply + value
<1>1. /\ height \in Nat /\ height' = height
      /\ balanceOf \in [Users -> Nat] /\ totalSupply \in Nat
      /\ checkpoints \in [Users -> Seq(Checkpoint)]
      /\ \A u \in Users : Newest(checkpoints[u], height, balanceOf[u])
      /\ Newest(totalSupplyCheckpoints, height, totalSupply)
      /\ SumOf(balanceOf) = totalSupply
  BY DEF TokenInv, Mint
<1>2. nb \in Nat /\ ns \in Nat /\ getVotes(to) + value = nb
  BY <1>1 DEF Newest, getVotes
<1>3. /\ balanceOf' = [balanceOf EXCEPT ![to] = nb]
      /\ totalSupply' = ns
      /\ totalSupplyCheckpoints' = WriteCheckpoint(totalSupplyCheckpoints, height, ns)
      /\ value > 0 => checkpoints' = [checkpoints EXCEPT ![to] = WriteCheckpoint(checkpoints[to], height, nb)]
      /\ ~(value > 0) => checkpoints' = checkpoints
  BY <1>2 DEF Mint
<1>4. /\ Newest(totalSupplyCheckpoints', height, ns)
      /\ \A b \in Nat : b < height =>
           VotesAt(totalSupplyCheckpoints', b) = VotesAt(totalSupplyCheckpoints, b)
  BY <1>1, <1>2, <1>3, NewestWrite
<1>5. SumOf(balanceOf') = ns
  <2>1. SumOf(balanceOf') = SumOf(balanceOf) - balanceOf[to] + nb
    <3> HIDE DEF nb
    <3>1. IsFiniteSet(Users) /\ balanceOf \in [Users -> Nat] /\ nb \in Nat
      BY <1>1, <1>2, UsersAssumption
    <3>2. SumOf([balanceOf EXCEPT ![to] = nb]) = SumOf(balanceOf) - balanceOf[to] + nb
      BY <3>1, SumPut
    <3> QED
      BY <1>3, <3>2
  <2>2. balanceOf[to] \in Nat
    BY <1>1
  <2> QED
    BY <1>1, <2>1, <2>2
<1>6. ASSUME NEW u \in Users
      PROVE  /\ Newest(checkpoints'[u], height, balanceOf'[u])
             /\ \A b \in Nat : b < height => VotesAt(checkpoints'[u], b) = VotesAt(checkpoints[u], b)
             /\ checkpoints'[u] \in Seq(Checkpoint)
  <2>1. CASE u = to /\ value > 0
    <3>1. checkpoints'[u] = WriteCheckpoint(checkpoints[to], height, nb) /\ balanceOf'[u] = nb
      BY <1>1, <1>3, <2>1
    <3> HIDE DEF nb
    <3>2. Newest(checkpoints[to], height, balanceOf[to])
      BY <1>1
    <3>3. /\ Newest(WriteCheckpoint(checkpoints[to], height, nb), height, nb)
          /\ \A b \in Nat : b < height =>
               VotesAt(WriteCheckpoint(checkpoints[to], height, nb), b) = VotesAt(checkpoints[to], b)
          /\ WriteCheckpoint(checkpoints[to], height, nb) \in Seq(Checkpoint)
      BY <1>1, <1>2, <3>2, NewestWrite
    <3> QED
      BY <2>1, <3>1, <3>3
  <2>2. CASE u # to \/ ~(value > 0)
    <3>1. checkpoints'[u] = checkpoints[u]
      BY <1>1, <1>3, <2>2
    <3>2. balanceOf'[u] = balanceOf[u]
      BY <1>1, <1>3, <2>2
    <3> QED
      BY <1>1, <3>1, <3>2
  <2> QED
    BY <2>1, <2>2
<1>7. checkpoints' \in [Users -> Seq(Checkpoint)]
  BY <1>1, <1>3, <1>6
<1>8. PastSame
  BY <1>4, <1>6 DEF PastSame
<1>9. PastVotesConserved'
  BY <1>1, <1>8, PastSameConserves
<1>10. balanceOf' \in [Users -> Nat]
  BY <1>1, <1>2, <1>3
<1> QED
  BY <1>1, <1>2, <1>3, <1>4, <1>5, <1>6, <1>7, <1>8, <1>9, <1>10 DEF TokenInv

(* transfer keeps the invariant and the past. *)
LEMMA TransferStep ==
  ASSUME TokenInv, NEW from \in Users, NEW to \in Users, NEW value \in Nat,
         Transfer(from, to, value)
  PROVE  TokenInv' /\ PastSame
<1> DEFINE nf == balanceOf[from] - value
           nt == balanceOf[to] + value
<1>1. /\ height \in Nat /\ height' = height /\ from # to
      /\ balanceOf \in [Users -> Nat] /\ totalSupply \in Nat /\ totalSupply' = totalSupply
      /\ checkpoints \in [Users -> Seq(Checkpoint)]
      /\ totalSupplyCheckpoints' = totalSupplyCheckpoints
      /\ \A u \in Users : Newest(checkpoints[u], height, balanceOf[u])
      /\ Newest(totalSupplyCheckpoints, height, totalSupply)
      /\ SumOf(balanceOf) = totalSupply
      /\ value <= balanceOf[from]
  BY DEF TokenInv, Transfer
<1>2. /\ nf \in Nat /\ nt \in Nat
      /\ getVotes(from) - value = nf /\ getVotes(to) + value = nt
  BY <1>1 DEF Newest, getVotes
<1>3. /\ balanceOf' = [balanceOf EXCEPT ![from] = nf, ![to] = nt]
      /\ checkpoints' = [checkpoints EXCEPT ![from] = WriteCheckpoint(checkpoints[from], height, nf),
                                            ![to]   = WriteCheckpoint(checkpoints[to], height, nt)]
  BY <1>1, <1>2 DEF Transfer
<1>4. SumOf(balanceOf') = totalSupply
  <2>1. /\ IsFiniteSet(Users) /\ balanceOf' \in [Users -> Nat]
        /\ balanceOf'[from] = nf /\ balanceOf'[to] = nt
        /\ \A u \in Users : u # from /\ u # to => balanceOf'[u] = balanceOf[u]
    BY <1>1, <1>2, <1>3, UsersAssumption
  <2>2. balanceOf'[from] + balanceOf'[to] = balanceOf[from] + balanceOf[to]
    BY <1>1, <2>1
  <2>3. SumOf(balanceOf') = SumOf(balanceOf)
    <3> HIDE DEF nf, nt
    <3>1. balanceOf \in [Users -> Nat] /\ from # to
      BY <1>1
    <3> QED
      BY <2>1, <2>2, <3>1, SumMove
  <2> QED
    BY <1>1, <2>3
<1>5. ASSUME NEW u \in Users
      PROVE  /\ Newest(checkpoints'[u], height, balanceOf'[u])
             /\ \A b \in Nat : b < height => VotesAt(checkpoints'[u], b) = VotesAt(checkpoints[u], b)
             /\ checkpoints'[u] \in Seq(Checkpoint)
  <2>1. CASE u = from
    <3>1. checkpoints'[u] = WriteCheckpoint(checkpoints[from], height, nf) /\ balanceOf'[u] = nf
      BY <1>1, <1>3, <2>1
    <3> HIDE DEF nf, nt
    <3>2. Newest(checkpoints[from], height, balanceOf[from])
      BY <1>1
    <3>3. /\ Newest(WriteCheckpoint(checkpoints[from], height, nf), height, nf)
          /\ \A b \in Nat : b < height =>
               VotesAt(WriteCheckpoint(checkpoints[from], height, nf), b) = VotesAt(checkpoints[from], b)
          /\ WriteCheckpoint(checkpoints[from], height, nf) \in Seq(Checkpoint)
      BY <1>1, <1>2, <3>2, NewestWrite
    <3> QED
      BY <2>1, <3>1, <3>3
  <2>2. CASE u = to
    <3>1. checkpoints'[u] = WriteCheckpoint(checkpoints[to], height, nt) /\ balanceOf'[u] = nt
      BY <1>1, <1>3, <2>2
    <3> HIDE DEF nf, nt
    <3>2. Newest(checkpoints[to], height, balanceOf[to])
      BY <1>1
    <3>3. /\ Newest(WriteCheckpoint(checkpoints[to], height, nt), height, nt)
          /\ \A b \in Nat : b < height =>
               VotesAt(WriteCheckpoint(checkpoints[to], height, nt), b) = VotesAt(checkpoints[to], b)
          /\ WriteCheckpoint(checkpoints[to], height, nt) \in Seq(Checkpoint)
      BY <1>1, <1>2, <3>2, NewestWrite
    <3> QED
      BY <2>2, <3>1, <3>3
  <2>3. CASE u # from /\ u # to
    <3>1. checkpoints'[u] = checkpoints[u] /\ balanceOf'[u] = balanceOf[u]
      BY <1>1, <1>3, <2>3
    <3> QED
      BY <1>1, <3>1
  <2> QED
    BY <2>1, <2>2, <2>3
<1>6. checkpoints' \in [Users -> Seq(Checkpoint)]
  BY <1>1, <1>3, <1>5
<1>7. PastSame
  BY <1>1, <1>5 DEF PastSame
<1>8. PastVotesConserved'
  BY <1>1, <1>7, PastSameConserves
<1>9. balanceOf' \in [Users -> Nat]
  BY <1>1, <1>2, <1>3
<1>10. height' \in Nat \ {0}
  BY <1>1 DEF TokenInv
<1> QED
  BY <1>1, <1>4, <1>5, <1>6, <1>7, <1>8, <1>9, <1>10 DEF TokenInv

(* A new block turns the newest weights into past ones. *)
LEMMA AdvanceStep ==
  ASSUME TokenInv, AdvanceBlock
  PROVE  TokenInv' /\ PastSame
<1>1. /\ height \in Nat \ {0} /\ height' = height + 1
      /\ UNCHANGED <<balanceOf, totalSupply, checkpoints, totalSupplyCheckpoints>>
      /\ balanceOf \in [Users -> Nat]
      /\ \A u \in Users : Newest(checkpoints[u], height, balanceOf[u])
      /\ Newest(totalSupplyCheckpoints, height, totalSupply)
      /\ SumOf(balanceOf) = totalSupply
  BY DEF TokenInv, AdvanceBlock
<1>2. /\ \A u \in Users : Newest(checkpoints'[u], height', balanceOf'[u])
      /\ Newest(totalSupplyCheckpoints', height', totalSupply')
  BY <1>1, NewestLater
<1>3. PastVotesConserved'
  <2> SUFFICES ASSUME NEW b \in 0..height
               PROVE  SumOf([u \in Users |-> VotesAt(checkpoints[u], b)])
                        = VotesAt(totalSupplyCheckpoints, b)
    BY <1>1 DEF PastVotesConserved, getPastVotes, getPastTotalSupply
  <2>1. CASE b = height
    <3>1. \A u \in Users : VotesAt(checkpoints[u], height) = balanceOf[u]
      BY <1>1 DEF Newest
    <3>2. [u \in Users |-> VotesAt(checkpoints[u], height)] = balanceOf
      BY <1>1, <3>1
    <3>3. VotesAt(totalSupplyCheckpoints, height) = totalSupply
      BY <1>1 DEF Newest
    <3> QED
      BY <1>1, <2>1, <3>2, <3>3
  <2>2. CASE b # height
    <3>1. b \in 0..(height - 1)
      BY <1>1, <2>2
    <3> QED
      BY <3>1 DEF TokenInv, PastVotesConserved, getPastVotes, getPastTotalSupply
  <2> QED
    BY <2>1, <2>2
<1>4. PastSame
  BY <1>1 DEF PastSame
<1> QED
  BY <1>1, <1>2, <1>3, <1>4 DEF TokenInv

(* Every step of the token keeps the invariant and the past. *)
LEMMA TokenStep ==
  ASSUME TokenInv, [TokenNext]_tokenVars
  PROVE  TokenInv' /\ PastSame
<1>1. CASE \E to \in Users, value \in 0..MaxSupply : Mint(to, value)
  BY <1>1, MintStep, BoundsAssumption
<1>2. CASE \E from, to \in Users, value \in 1..MaxSupply : Transfer(from, to, value)
  BY <1>2, TransferStep, BoundsAssumption
<1>3. CASE AdvanceBlock
  BY <1>3, AdvanceStep
<1>4. CASE UNCHANGED tokenVars
  <2>1. UNCHANGED <<height, balanceOf, totalSupply, checkpoints, totalSupplyCheckpoints>>
    BY <1>4 DEF tokenVars
  <2> QED
    BY <2>1 DEF TokenInv, PastSame, PastVotesConserved, getPastVotes, getPastTotalSupply
<1> QED
  BY <1>1, <1>2, <1>3, <1>4 DEF TokenNext

(* The invariant gives what the runs check. *)
LEMMA TokenInvImplies == TokenInv => TokenTypeOK /\ VotesTrackBalances /\ PastVotesConserved
BY DEF TokenInv, TokenTypeOK, VotesTrackBalances, Newest, getVotes

(* Votes are tokens at every moment, and in every past block the weights   *)
(* of all holders add up to the supply of that block.                      *)
THEOREM TokenIsConserved ==
  TokenSpec => [](TokenTypeOK /\ VotesTrackBalances /\ PastVotesConserved)
<1>1. TokenInv /\ [TokenNext]_tokenVars => TokenInv'
  BY TokenStep
<1> QED
  BY <1>1, TokenInitInv, TokenInvImplies, PTL DEF TokenSpec

(* Nothing minted or transferred later changes what a past block's weights *)
(* and supply were.                                                        *)
THEOREM PastVotesNeverChange == TokenSpec => PastVotesFixed
<1>1. TokenInv /\ [TokenNext]_tokenVars
        => [\A b \in 0..(height - 1) :
              /\ \A u \in Users : getPastVotes(u, b)' = getPastVotes(u, b)
              /\ getPastTotalSupply(b)' = getPastTotalSupply(b)]_tokenVars
  <2> SUFFICES ASSUME TokenInv, [TokenNext]_tokenVars, NEW b \in 0..(height - 1)
               PROVE  /\ \A u \in Users : getPastVotes(u, b)' = getPastVotes(u, b)
                      /\ getPastTotalSupply(b)' = getPastTotalSupply(b)
    OBVIOUS
  <2>1. PastSame /\ b \in Nat /\ b < height
    BY TokenStep DEF TokenInv
  <2> QED
    BY <2>1 DEF PastSame, getPastVotes, getPastTotalSupply
<1>2. TokenInv /\ [TokenNext]_tokenVars => TokenInv'
  BY TokenStep
<1> QED
  BY <1>1, <1>2, TokenInitInv, PTL DEF TokenSpec, PastVotesFixed

-----------------------------------------------------------------------------
(***************************************************************************)
(* The votes of Gov.  A tally is the sum of weights in a block that is     *)
(* over, and such weights never change (PastSame), so every step of the    *)
(* token carries the tallies over; only castVote adds to one, and it adds  *)
(* the weight of a voter that had none in it.                              *)
(***************************************************************************)

(* Weights, with the token's state as arguments. *)
WeightsAt(ck, p, side) ==
    [u \in Users |-> IF p.ballot[u] \in side THEN VotesAt(ck[u], p.startBlock) ELSE 0]

SoundTally(ck, h, p) ==
    /\ \A u \in Users : p.ballot[u] # "none" => p.startBlock < h
    /\ p.forVotes     = SumOf(WeightsAt(ck, p, {"for"}))
    /\ p.againstVotes = SumOf(WeightsAt(ck, p, {"against"}))

GovInv ==
    /\ TokenInv
    /\ proposals \in Seq(Proposal)
    /\ params \in Params
    /\ \A i \in DOMAIN proposals : SoundTally(checkpoints, height, proposals[i])

(* The weights are naturals. *)
LEMMA WeightsType ==
  ASSUME TokenInv, NEW p \in Proposal, NEW side
  PROVE  WeightsAt(checkpoints, p, side) \in [Users -> Nat]
<1>1. p.startBlock \in Nat
  BY DEF Proposal
<1>2. \A u \in Users : IsHistory(checkpoints[u])
  BY DEF TokenInv, Newest
<1>3. \A u \in Users : VotesAt(checkpoints[u], p.startBlock) \in Nat
  BY <1>1, <1>2, VotesAtNat
<1> QED
  BY <1>3 DEF WeightsAt

(* A step of the token carries a tally over. *)
LEMMA TallyCarried ==
  ASSUME TokenInv, TokenInv', PastSame, height <= height', NEW p \in Proposal,
         SoundTally(checkpoints, height, p)
  PROVE  SoundTally(checkpoints', height', p)
<1>1. p.startBlock \in Nat /\ height \in Nat /\ height' \in Nat
  BY DEF Proposal, TokenInv
<1>2. ASSUME NEW side, "none" \notin side
      PROVE  WeightsAt(checkpoints', p, side) = WeightsAt(checkpoints, p, side)
  <2>1. ASSUME NEW u \in Users, p.ballot[u] \in side
        PROVE  VotesAt(checkpoints'[u], p.startBlock) = VotesAt(checkpoints[u], p.startBlock)
    BY <1>1, <1>2, <2>1 DEF SoundTally, PastSame
  <2> QED
    BY <2>1 DEF WeightsAt
<1>3. \A u \in Users : p.ballot[u] # "none" => p.startBlock < height'
  BY <1>1 DEF SoundTally
<1> QED
  BY <1>2, <1>3 DEF SoundTally

(* A new proposal has no votes. *)
LEMMA NewProposalSound ==
  ASSUME GovInv, NEW amount \in Nat
  PROVE  /\ NewProposal(amount) \in Proposal
         /\ SoundTally(checkpoints, height, NewProposal(amount))
<1> DEFINE p == NewProposal(amount)
<1>1. height \in Nat /\ params.votingDelay \in Nat /\ params.votingPeriod \in Nat
  BY DEF GovInv, TokenInv, Params
<1>2. p \in Proposal
  BY <1>1 DEF NewProposal, Proposal, Ballots
<1>3. /\ \A u \in Users : p.ballot[u] = "none"
      /\ p.forVotes = 0 /\ p.againstVotes = 0
  BY DEF NewProposal
<1> HIDE DEF p
<1>4. ASSUME NEW side, "none" \notin side
      PROVE  SumOf(WeightsAt(checkpoints, p, side)) = 0
  <2>1. WeightsAt(checkpoints, p, side) \in [Users -> Nat]
    BY <1>2, WeightsType DEF GovInv
  <2>2. \A u \in Users : WeightsAt(checkpoints, p, side)[u] = 0
    BY <1>3, <1>4 DEF WeightsAt
  <2> QED
    BY <2>1, <2>2, SumZero, UsersAssumption
<1> QED
  BY <1>2, <1>3, <1>4 DEF SoundTally, p

(* Adding a first ballot adds its weight to one side. *)
LEMMA TalliedSound ==
  ASSUME GovInv, NEW p \in Proposal, SoundTally(checkpoints, height, p),
         NEW voter \in Users, p.ballot[voter] = "none", p.startBlock < height,
         NEW support \in BOOLEAN
  PROVE  LET q == Tallied(p, voter, support, VotesAt(checkpoints[voter], p.startBlock))
         IN  q \in Proposal /\ SoundTally(checkpoints, height, q)
<1> DEFINE w == VotesAt(checkpoints[voter], p.startBlock)
           q == Tallied(p, voter, support, w)
           F(x) == WeightsAt(checkpoints, x, {"for"})
           A(x) == WeightsAt(checkpoints, x, {"against"})
<1>1. w \in Nat
  <2>1. IsHistory(checkpoints[voter]) /\ p.startBlock \in Nat
    BY DEF GovInv, TokenInv, Newest, Proposal
  <2> QED
    BY <2>1, VotesAtNat
<1>2. /\ p.forVotes \in Nat /\ p.againstVotes \in Nat /\ p.ballot \in [Users -> Ballots]
      /\ p.state \in {"Pending", "Active", "Defeated", "Executed"}
  BY DEF Proposal
<1> HIDE DEF w
<1>3. q \in Proposal
  <2> DEFINE fv == IF support THEN p.forVotes + w ELSE p.forVotes
             av == IF support THEN p.againstVotes ELSE p.againstVotes + w
             st == IF p.state = "Pending" THEN "Active" ELSE p.state
             bl == [p.ballot EXCEPT ![voter] = IF support THEN "for" ELSE "against"]
  <2>1. fv \in Nat /\ av \in Nat /\ st \in {"Pending", "Active", "Defeated", "Executed"}
    BY <1>1, <1>2
  <2>2. bl \in [Users -> Ballots]
    BY <1>2 DEF Ballots
  <2>5. q = [p EXCEPT !.ballot = bl, !.forVotes = fv, !.againstVotes = av, !.state = st]
    BY DEF Tallied
  <2>6. p = [amount |-> p.amount, startBlock |-> p.startBlock, endBlock |-> p.endBlock,
             forVotes |-> p.forVotes, againstVotes |-> p.againstVotes,
             state |-> p.state, ballot |-> p.ballot]
    BY DEF Proposal
  <2>3. q = [amount |-> p.amount, startBlock |-> p.startBlock, endBlock |-> p.endBlock,
             forVotes |-> fv, againstVotes |-> av, state |-> st, ballot |-> bl]
    <3> HIDE DEF fv, av, st, bl, q
    <3> QED
      BY <2>5, <2>6
  <2>4. p.amount \in Nat /\ p.startBlock \in Nat /\ p.endBlock \in Nat
    BY DEF Proposal
  <2> HIDE DEF fv, av, st, bl, q
  <2> QED
    BY <2>1, <2>2, <2>3, <2>4 DEF Proposal
<1>4. /\ q.startBlock = p.startBlock
      /\ q.ballot = [p.ballot EXCEPT ![voter] = IF support THEN "for" ELSE "against"]
      /\ q.forVotes = IF support THEN p.forVotes + w ELSE p.forVotes
      /\ q.againstVotes = IF support THEN p.againstVotes ELSE p.againstVotes + w
  BY DEF Tallied, Proposal
<1>5. /\ q.ballot[voter] = IF support THEN "for" ELSE "against"
      /\ \A u \in Users : u # voter => q.ballot[u] = p.ballot[u]
  BY <1>2, <1>4
<1> HIDE DEF q
<1>6. /\ F(p) \in [Users -> Nat] /\ F(q) \in [Users -> Nat]
      /\ A(p) \in [Users -> Nat] /\ A(q) \in [Users -> Nat]
  BY <1>3, WeightsType DEF GovInv
<1>7. /\ \A u \in Users : u # voter => F(q)[u] = F(p)[u]
      /\ \A u \in Users : u # voter => A(q)[u] = A(p)[u]
  BY <1>4, <1>5 DEF WeightsAt
<1>8. /\ F(p)[voter] = 0 /\ A(p)[voter] = 0
      /\ F(q)[voter] = IF support THEN w ELSE 0
      /\ A(q)[voter] = IF support THEN 0 ELSE w
  BY <1>4, <1>5 DEF WeightsAt, w
<1> HIDE DEF F, A
<1>9. /\ SumOf(F(q)) = SumOf(F(p)) - F(p)[voter] + F(q)[voter]
      /\ SumOf(A(q)) = SumOf(A(p)) - A(p)[voter] + A(q)[voter]
  BY <1>6, <1>7, SumUpdate, UsersAssumption
<1>10. p.forVotes = SumOf(F(p)) /\ p.againstVotes = SumOf(A(p))
  BY DEF SoundTally, F, A
<1>11. q.forVotes = SumOf(F(q)) /\ q.againstVotes = SumOf(A(q))
  BY <1>1, <1>2, <1>4, <1>8, <1>9, <1>10
<1>12. \A u \in Users : q.ballot[u] # "none" => q.startBlock < height
  BY <1>4, <1>5 DEF SoundTally
<1> QED
  BY <1>3, <1>11, <1>12 DEF SoundTally, F, A, q, w

LEMMA InitGovInv == Init => GovInv
<1> SUFFICES ASSUME Init PROVE GovInv
  OBVIOUS
<1>1. TokenInv
  BY TokenInitInv DEF Init
<1>2. proposals = <<>> /\ params \in Params
  BY GovAssumption DEF Init
<1> QED
  BY <1>1, <1>2 DEF GovInv

(* What every step does to the token: a step of its own, or nothing. *)
LEMMA NextToken ==
  ASSUME GovInv, [Next]_vars
  PROVE  /\ TokenInv' /\ PastSame /\ height <= height'
         /\ [TokenNext]_tokenVars
<1>1. [TokenNext]_tokenVars
  BY DEF Next, vars, GovStep, propose, castVote, executeDefeated, executePassed,
         setVotingParameters
<1>2. TokenInv' /\ PastSame
  BY <1>1, TokenStep DEF GovInv
<1>3. height \in Nat /\ (height' = height \/ height' = height + 1)
  BY <1>1 DEF TokenNext, tokenVars, Mint, Transfer, AdvanceBlock, GovInv, TokenInv
<1> QED
  BY <1>1, <1>2, <1>3

LEMMA NextGovInv ==
  ASSUME GovInv, [Next]_vars
  PROVE  GovInv'
<1>1. /\ proposals \in Seq(Proposal) /\ params \in Params
      /\ \A i \in DOMAIN proposals : proposals[i] \in Proposal
      /\ \A i \in DOMAIN proposals : SoundTally(checkpoints, height, proposals[i])
      /\ TokenInv
  BY DEF GovInv
<1>2. TokenInv' /\ PastSame /\ height <= height'
  BY NextToken
<1>3. ASSUME proposals' = proposals, params' \in Params
      PROVE  GovInv'
  <2>1. \A i \in DOMAIN proposals : SoundTally(checkpoints', height', proposals[i])
    BY <1>1, <1>2, TallyCarried
  <2> QED
    BY <1>1, <1>2, <1>3, <2>1 DEF GovInv
<1>4. ASSUME NEW u \in Users, NEW amount \in Amounts, propose(u, amount)
      PROVE  GovInv'
  <2> DEFINE p == NewProposal(amount)
  <2>1. p \in Proposal /\ SoundTally(checkpoints, height, p)
    BY NewProposalSound, GovAssumption
  <2>2. /\ proposals' = Append(proposals, p)
        /\ checkpoints' = checkpoints /\ height' = height /\ params' = params
    BY <1>4 DEF propose, tokenVars
  <2> HIDE DEF p
  <2>3. proposals' \in Seq(Proposal)
    BY <1>1, <2>1, <2>2
  <2>4. ASSUME NEW i \in DOMAIN proposals'
        PROVE  SoundTally(checkpoints, height, proposals'[i])
    <3>1. CASE i \in DOMAIN proposals
      <4>1. proposals'[i] = proposals[i]
        BY <1>1, <2>1, <2>2, <3>1
      <4> QED
        BY <1>1, <3>1, <4>1
    <3>2. CASE i \notin DOMAIN proposals
      <4>1. proposals'[i] = p
        BY <1>1, <2>1, <2>2, <3>2
      <4> QED
        BY <2>1, <4>1
    <3> QED
      BY <3>1, <3>2
  <2> QED
    BY <1>1, <1>2, <2>2, <2>3, <2>4 DEF GovInv
<1>5. ASSUME NEW id \in DOMAIN proposals, NEW q, q \in Proposal,
             SoundTally(checkpoints, height, q),
             proposals' = [proposals EXCEPT ![id] = q],
             UNCHANGED tokenVars, params' = params
      PROVE  GovInv'
  <2>1. checkpoints' = checkpoints /\ height' = height
    BY <1>5 DEF tokenVars
  <2>2. /\ DOMAIN proposals' = DOMAIN proposals
        /\ \A i \in DOMAIN proposals : proposals'[i] = IF i = id THEN q ELSE proposals[i]
    BY <1>5
  <2>3. proposals' \in Seq(Proposal)
    BY <1>1, <1>5
  <2>4. \A i \in DOMAIN proposals' : SoundTally(checkpoints, height, proposals'[i])
    BY <1>1, <1>5, <2>2
  <2> QED
    BY <1>1, <1>2, <1>5, <2>1, <2>3, <2>4 DEF GovInv
<1>6. ASSUME NEW id \in DOMAIN proposals, NEW u \in Users, NEW s \in BOOLEAN, castVote(id, u, s)
      PROVE  GovInv'
  <2> DEFINE p == proposals[id]
             q == Tallied(p, u, s, VotesAt(checkpoints[u], p.startBlock))
  <2>1. p \in Proposal /\ p.ballot[u] = "none" /\ p.startBlock < height
    BY <1>1, <1>6 DEF castVote, CanVote, PastBlock
  <2>2. q \in Proposal /\ SoundTally(checkpoints, height, q)
    <3> HIDE DEF p
    <3>1. SoundTally(checkpoints, height, p)
      BY <1>1 DEF p
    <3> QED
      BY <2>1, <3>1, TalliedSound
  <2>3. /\ proposals' = [proposals EXCEPT ![id] = q]
        /\ UNCHANGED tokenVars /\ params' = params
    BY <1>6 DEF castVote, getPastVotes
  <2> HIDE DEF q
  <2> QED
    BY <1>5, <2>2, <2>3
<1>7. ASSUME NEW id \in DOMAIN proposals, executeDefeated(id) \/ executePassed(id)
      PROVE  GovInv'
  <2> DEFINE p == proposals[id]
  <2>1. PICK st \in {"Defeated", "Executed"} :
          proposals' = [proposals EXCEPT ![id] = [p EXCEPT !.state = st]]
    BY <1>7 DEF executeDefeated, executePassed
  <2>2. UNCHANGED tokenVars /\ params' = params
    BY <1>7 DEF executeDefeated, executePassed
  <2> DEFINE q == [p EXCEPT !.state = st]
  <2>3. p \in Proposal /\ SoundTally(checkpoints, height, p)
    BY <1>1
  <2> HIDE DEF p
  <2>4. /\ q \in Proposal
        /\ q.ballot = p.ballot /\ q.startBlock = p.startBlock
        /\ q.forVotes = p.forVotes /\ q.againstVotes = p.againstVotes
    BY <2>3 DEF Proposal
  <2>5. proposals' = [proposals EXCEPT ![id] = q]
    BY <2>1 DEF p
  <2> HIDE DEF q
  <2>6. SoundTally(checkpoints, height, q)
    BY <2>3, <2>4 DEF SoundTally, WeightsAt
  <2> QED
    BY <1>5, <2>2, <2>4, <2>5, <2>6
<1>8. CASE GovStep
  <2>1. ASSUME NEW new \in ParamChoices, setVotingParameters(new)
        PROVE  GovInv'
    BY <1>3, <2>1, GovAssumption DEF setVotingParameters
  <2> QED
    BY <1>4, <1>6, <1>7, <1>8, <2>1 DEF GovStep
<1>9. CASE (TokenNext \/ BankStep(Officers) \/ UNCHANGED vars) /\ UNCHANGED govVars
  BY <1>1, <1>3, <1>9 DEF govVars
<1> QED
  BY <1>8, <1>9 DEF Next, vars

(* Every tally is the sum of the voters' weights in the start block, and   *)
(* all that was cast on a proposal was backed by the supply of that block: *)
(* no token votes twice, whatever is transferred or minted and whatever    *)
(* parameters are set.                                                     *)
THEOREM VotesAreBacked == Spec => [](TallyMatchesBallots /\ VotesBackedBySupply)
<1>1. GovInv => TallyMatchesBallots
  BY DEF GovInv, SoundTally, TallyMatchesBallots, WeightsAt, Weights, getPastVotes
<1>2. GovInv => VotesBackedBySupply
  <2> SUFFICES ASSUME GovInv, NEW i \in DOMAIN proposals, proposals[i].startBlock < height
               PROVE  proposals[i].forVotes + proposals[i].againstVotes
                        <= VotesAt(totalSupplyCheckpoints, proposals[i].startBlock)
    BY DEF VotesBackedBySupply, PastBlock, getPastTotalSupply
  <2> DEFINE p == proposals[i]
             F == WeightsAt(checkpoints, p, {"for"})
             A == WeightsAt(checkpoints, p, {"against"})
             H == [u \in Users |-> VotesAt(checkpoints[u], p.startBlock)]
  <2>1. p \in Proposal /\ p.startBlock \in Nat /\ height \in Nat
    <3>1. proposals[i] \in Proposal
      BY DEF GovInv
    <3> QED
      BY <3>1 DEF GovInv, TokenInv, Proposal
  <2>2. F \in [Users -> Nat] /\ A \in [Users -> Nat]
    BY <2>1, WeightsType DEF GovInv
  <2>3. \A u \in Users : VotesAt(checkpoints[u], p.startBlock) \in Nat
    BY <2>1, VotesAtNat DEF GovInv, TokenInv, Newest
  <2>4. H \in [Users -> Nat]
    BY <2>3
  <2>5. \A u \in Users : F[u] <= H[u] /\ A[u] <= H[u] /\ (F[u] = 0 \/ A[u] = 0)
    BY <2>3 DEF WeightsAt
  <2>6. SumOf(H) = VotesAt(totalSupplyCheckpoints, p.startBlock)
    <3>1. p.startBlock \in 0..(height - 1)
      BY <2>1
    <3> QED
      BY <3>1 DEF GovInv, TokenInv, PastVotesConserved, getPastVotes, getPastTotalSupply
  <2>7. p.forVotes = SumOf(F) /\ p.againstVotes = SumOf(A)
    BY DEF GovInv, SoundTally
  <2> HIDE DEF p, F, A, H
  <2>8. SumOf(F) + SumOf(A) <= SumOf(H)
    BY <2>2, <2>4, <2>5, SumDisjoint, UsersAssumption
  <2> QED
    BY <2>6, <2>7, <2>8 DEF p
<1>3. GovInv /\ [Next]_vars => GovInv'
  BY NextGovInv
<1> QED
  BY <1>1, <1>2, <1>3, InitGovInv, PTL DEF Spec

-----------------------------------------------------------------------------
(***************************************************************************)
(* The decisions of Gov and the books of the treasury.  A proposal is paid *)
(* when it is marked Executed, in one step, and what is decided is out of  *)
(* reach of every later vote, since its end is over (Settled).             *)
(***************************************************************************)

Settled(h, p) ==
    /\ p.startBlock <= p.endBlock
    /\ p.state # "Pending" => p.forVotes + p.againstVotes > 0
    /\ p.state \in {"Executed", "Defeated"} => h > p.endBlock

DaoInv ==
    /\ GovInv
    /\ BankTypeOK
    /\ \A i \in DOMAIN proposals : Settled(height, proposals[i])
    /\ TreasuryBalances

(* What a proposal paid out, and all proposals of a log. *)
Paid(p) == IF p.state = "Executed" THEN p.amount ELSE 0
PaidBy(ps) == SumOf([i \in DOMAIN ps |-> Paid(ps[i])])

LEMMA PaidFacts ==
  ASSUME NEW ps \in Seq(Proposal)
  PROVE  /\ IsFiniteSet(DOMAIN ps)
         /\ [i \in DOMAIN ps |-> Paid(ps[i])] \in [DOMAIN ps -> Nat]
         /\ PaidBy(ps) \in Nat
<1>1. DOMAIN ps = 1..Len(ps) /\ Len(ps) \in Nat
  OBVIOUS
<1>2. IsFiniteSet(DOMAIN ps)
  BY <1>1, FS_Interval
<1>3. ASSUME NEW i \in DOMAIN ps
      PROVE  Paid(ps[i]) \in Nat
  <2>1. ps[i] \in Proposal
    OBVIOUS
  <2> QED
    BY <2>1 DEF Paid, Proposal
<1>4. [i \in DOMAIN ps |-> Paid(ps[i])] \in [DOMAIN ps -> Nat]
  BY <1>3
<1> QED
  BY <1>2, <1>4, SumFinite DEF PaidBy

(* A new proposal has paid nothing. *)
LEMMA PaidAppend ==
  ASSUME NEW ps \in Seq(Proposal), NEW q \in Proposal
  PROVE  PaidBy(Append(ps, q)) = PaidBy(ps) + Paid(q)
<1> DEFINE n == Len(ps) + 1
           D == DOMAIN ps
           rs == Append(ps, q)
           f == [i \in D |-> Paid(ps[i])]
           h == [i \in DOMAIN rs |-> Paid(rs[i])]
<1>1. /\ D = 1..Len(ps) /\ Len(ps) \in Nat /\ DOMAIN rs = 1..n
      /\ rs[n] = q /\ \A i \in D : rs[i] = ps[i]
      /\ rs \in Seq(Proposal)
  OBVIOUS
<1> DEFINE E == DOMAIN rs
<1>2. n \in E \ D /\ E = D \cup {n}
  BY <1>1
<1>3. IsFiniteSet(D) /\ f \in [D -> Nat] /\ h \in [E -> Nat]
  <2> HIDE DEF rs
  <2> QED
    BY <1>1, PaidFacts
<1>4. h[n] = Paid(q) /\ \A i \in D : h[i] = f[i]
  BY <1>1, <1>2
<1> HIDE DEF h, f, D, E, n
<1>5. SumOf(h) = SumOf(f) + h[n]
  BY <1>2, <1>3, <1>4, SumExtend
<1> QED
  BY <1>4, <1>5 DEF PaidBy, h, f, D

(* One proposal changed. *)
LEMMA PaidExcept ==
  ASSUME NEW ps \in Seq(Proposal), NEW q \in Proposal, NEW k \in DOMAIN ps
  PROVE  PaidBy([ps EXCEPT ![k] = q]) = PaidBy(ps) - Paid(ps[k]) + Paid(q)
<1> DEFINE D == DOMAIN ps
           rs == [ps EXCEPT ![k] = q]
           f == [i \in D |-> Paid(ps[i])]
           h == [i \in DOMAIN rs |-> Paid(rs[i])]
<1>1. /\ DOMAIN rs = D /\ rs \in Seq(Proposal)
      /\ \A i \in D : rs[i] = IF i = k THEN q ELSE ps[i]
  OBVIOUS
<1>2. IsFiniteSet(D) /\ f \in [D -> Nat] /\ h \in [D -> Nat]
  <2> HIDE DEF rs
  <2> QED
    BY <1>1, PaidFacts
<1>3. f[k] = Paid(ps[k]) /\ h[k] = Paid(q) /\ \A i \in D : i # k => h[i] = f[i]
  BY <1>1
<1> HIDE DEF h, f
<1>4. SumOf(h) = SumOf(f) - f[k] + h[k]
  <2>1. k \in D
    OBVIOUS
  <2> HIDE DEF D
  <2> QED
    BY <1>2, <1>3, <2>1, SumUpdate
<1> QED
  BY <1>3, <1>4 DEF PaidBy, h, f

LEMMA BooksOfPaid == TreasuryBalances <=> bankBalance + direct + PaidBy(proposals) = deposited
BY DEF TreasuryBalances, PaidOut, PaidBy, Paid

(* What an account does at the bank itself leaves its books balanced. *)
Balanced ==
    \E paid, taken \in Nat :
        /\ bankBalance' = bankBalance + paid - taken
        /\ deposited' = deposited + paid
        /\ direct' = direct + taken

LEMMA BankStepBooks ==
  ASSUME BankTypeOK, BankStep(Officers)
  PROVE  /\ BankTypeOK'
         /\ Balanced
         /\ bankBalance' < bankBalance => Officers \cap roles["admin"] # {}
         /\ bankBalance' >= bankBalance \/ roles' = roles
<1> USE AccountsAssumption, MaxDepositsAssumption, GovAssumption
<1>1. /\ bankBalance \in Nat /\ deposited \in Nat /\ direct \in Nat
      /\ roles \in [RoleNames -> SUBSET Accounts]
  BY DEF BankTypeOK
<1>2. ASSUME NEW v \in 1..MaxDeposits, Deposit(v)
      PROVE  /\ bankBalance' = bankBalance + v /\ deposited' = deposited + v
             /\ v \in Nat /\ direct' = direct /\ roles' = roles
  BY <1>2 DEF Deposit
<1>3. ASSUME NEW v \in 1..MaxDeposits, NEW c \in Officers, WithdrawDirect(c, v)
      PROVE  /\ bankBalance' = bankBalance - v /\ direct' = direct + v
             /\ v \in Nat /\ v <= bankBalance /\ deposited' = deposited /\ roles' = roles
             /\ c \in roles["admin"]
  BY <1>1, <1>3 DEF WithdrawDirect, Withdraw, MayWithdraw
<1>4. ASSUME NEW r \in [RoleNames -> SUBSET Accounts], roles' = r,
             UNCHANGED <<bankBalance, deposited, direct>>
      PROVE  BankTypeOK' /\ bankBalance' = bankBalance /\ direct' = direct
               /\ deposited' = deposited
  BY <1>1, <1>4 DEF BankTypeOK
<1>5. ASSUME NEW c \in Officers, NEW a \in Accounts, NEW r \in RoleNames,
             GrantRole(c, r, a) \/ RevokeRole(c, r, a)
      PROVE  roles' \in [RoleNames -> SUBSET Accounts]
               /\ UNCHANGED <<bankBalance, deposited, direct>>
  BY <1>1, <1>5 DEF GrantRole, RevokeRole
<1>6. ASSUME NEW c \in Officers, NEW r \in RoleNames, RenounceRole(c, r)
      PROVE  roles' \in [RoleNames -> SUBSET Accounts]
               /\ UNCHANGED <<bankBalance, deposited, direct>>
  BY <1>1, <1>6 DEF RenounceRole
<1>7. ASSUME NEW c \in Officers, NEW a \in Accounts, transferSuperAdmin(c, a)
      PROVE  roles' \in [RoleNames -> SUBSET Accounts]
               /\ UNCHANGED <<bankBalance, deposited, direct>>
  <2>1. c \in Accounts
    OBVIOUS
  <2> QED
    BY <1>1, <1>7, <2>1 DEF transferSuperAdmin, RoleNames
<1>8. ASSUME NEW c \in Officers, NEW a \in Accounts, addAdmin(c, a) \/ removeAdmin(c, a)
      PROVE  roles' \in [RoleNames -> SUBSET Accounts]
               /\ UNCHANGED <<bankBalance, deposited, direct>>
  <2>1. "admin" \in RoleNames
    BY DEF RoleNames
  <2> QED
    BY <1>5, <1>8, <2>1 DEF addAdmin, removeAdmin
<1>9. CASE \E v \in 1..MaxDeposits : Deposit(v)
  <2>1. PICK v \in 1..MaxDeposits : Deposit(v)
    BY <1>9
  <2>2. /\ bankBalance' = bankBalance + v - 0
        /\ deposited' = deposited + v
        /\ direct' = direct + 0
    BY <1>1, <1>2, <2>1
  <2> QED
    BY <1>1, <1>2, <2>1, <2>2 DEF BankTypeOK, Balanced
<1>10. CASE \E v \in 1..MaxDeposits, c \in Officers : WithdrawDirect(c, v)
  <2>1. PICK v \in 1..MaxDeposits, c \in Officers : WithdrawDirect(c, v)
    BY <1>10
  <2>2. /\ bankBalance' = bankBalance + 0 - v
        /\ deposited' = deposited + 0
        /\ direct' = direct + v
    BY <1>1, <1>3, <2>1
  <2> QED
    BY <1>1, <1>3, <2>1, <2>2 DEF BankTypeOK, Balanced
<1>11. CASE roles' \in [RoleNames -> SUBSET Accounts]
              /\ UNCHANGED <<bankBalance, deposited, direct>>
  <2>1. /\ bankBalance' = bankBalance + 0 - 0
        /\ deposited' = deposited + 0
        /\ direct' = direct + 0
    BY <1>1, <1>11
  <2> QED
    BY <1>1, <1>11, <2>1 DEF BankTypeOK, Balanced
<1> QED
  BY <1>5, <1>6, <1>7, <1>8, <1>9, <1>10, <1>11 DEF BankStep

(* What the steps of Gov do to one proposal, named for the proofs below.   *)
(* q is what becomes of proposal id.                                       *)
LEMMA VoteShape ==
  ASSUME DaoInv, NEW id \in DOMAIN proposals, NEW u \in Users, NEW s \in BOOLEAN,
         castVote(id, u, s)
  PROVE  \E q \in Proposal, w \in Nat :
           /\ proposals' = [proposals EXCEPT ![id] = q]
           /\ height <= proposals[id].endBlock /\ w > 0
           /\ q.startBlock = proposals[id].startBlock
           /\ q.endBlock = proposals[id].endBlock /\ q.amount = proposals[id].amount
           /\ q.forVotes + q.againstVotes = proposals[id].forVotes + proposals[id].againstVotes + w
           /\ q.state = IF proposals[id].state = "Pending" THEN "Active" ELSE proposals[id].state
<1> DEFINE p == proposals[id]
           w == VotesAt(checkpoints[u], p.startBlock)
           q == Tallied(p, u, s, w)
<1>1. /\ p \in Proposal /\ SoundTally(checkpoints, height, p)
      /\ p.ballot[u] = "none" /\ p.startBlock < height /\ height <= p.endBlock /\ w > 0
  BY DEF DaoInv, GovInv, castVote, CanVote, PastBlock, getPastVotes
<1>2. proposals' = [proposals EXCEPT ![id] = q]
  BY DEF castVote, getPastVotes
<1> HIDE DEF p
<1>3. q \in Proposal
  BY <1>1, TalliedSound DEF DaoInv
<1>4. w \in Nat
  <2>1. p.startBlock \in Nat
    BY <1>1 DEF Proposal
  <2> QED
    BY <2>1, VotesAtNat DEF DaoInv, GovInv, TokenInv, Newest
<1> HIDE DEF w
<1>5. /\ p.forVotes \in Nat /\ p.againstVotes \in Nat
      /\ q.startBlock = p.startBlock /\ q.endBlock = p.endBlock /\ q.amount = p.amount
      /\ q.forVotes = IF s THEN p.forVotes + w ELSE p.forVotes
      /\ q.againstVotes = IF s THEN p.againstVotes ELSE p.againstVotes + w
      /\ q.state = IF p.state = "Pending" THEN "Active" ELSE p.state
  BY <1>1 DEF Tallied, Proposal
<1>6. q.forVotes + q.againstVotes = p.forVotes + p.againstVotes + w
  BY <1>4, <1>5
<1> HIDE DEF q
<1> QED
  BY <1>1, <1>2, <1>3, <1>4, <1>5, <1>6 DEF p

LEMMA ExecuteShape ==
  ASSUME DaoInv, NEW id \in DOMAIN proposals, executeDefeated(id) \/ executePassed(id)
  PROVE  \E st \in {"Defeated", "Executed"}, q \in Proposal :
           /\ q = [proposals[id] EXCEPT !.state = st]
           /\ proposals' = [proposals EXCEPT ![id] = q]
           /\ q.amount = proposals[id].amount /\ q.state = st
           /\ q.startBlock = proposals[id].startBlock /\ q.endBlock = proposals[id].endBlock
           /\ q.forVotes = proposals[id].forVotes /\ q.againstVotes = proposals[id].againstVotes
           /\ st = "Executed" <=> executePassed(id)
<1> DEFINE p == proposals[id]
<1>1. PICK st \in {"Defeated", "Executed"} :
        /\ proposals' = [proposals EXCEPT ![id] = [p EXCEPT !.state = st]]
        /\ st = "Executed" <=> executePassed(id)
  <2>1. ~(executeDefeated(id) /\ executePassed(id))
    BY DEF executeDefeated, executePassed
  <2>2. CASE executeDefeated(id)
    BY <2>1, <2>2 DEF executeDefeated
  <2>3. CASE executePassed(id)
    BY <2>3 DEF executePassed
  <2> QED
    BY <2>2, <2>3
<1>2. p \in Proposal
  BY DEF DaoInv, GovInv
<1> DEFINE q == [p EXCEPT !.state = st]
<1>3. proposals' = [proposals EXCEPT ![id] = q]
  BY <1>1
<1> HIDE DEF p
<1>4. /\ q \in Proposal /\ q.amount = p.amount /\ q.state = st
      /\ q.startBlock = p.startBlock /\ q.endBlock = p.endBlock
      /\ q.forVotes = p.forVotes /\ q.againstVotes = p.againstVotes
  BY <1>2 DEF Proposal
<1>5. q = [proposals[id] EXCEPT !.state = st]
  BY DEF p
<1> HIDE DEF q
<1> QED
  BY <1>1, <1>3, <1>4, <1>5 DEF p

LEMMA InitDaoInv == Init => DaoInv
<1> SUFFICES ASSUME Init PROVE DaoInv
  OBVIOUS
<1>1. GovInv
  BY InitGovInv
<1>2. BankTypeOK
  BY AccountsAssumption, GovAssumption DEF Init, BankTypeOK, RoleNames
<1>3. proposals = <<>> /\ bankBalance = 0 /\ direct = 0 /\ deposited = 0
  BY DEF Init
<1>4. PaidBy(proposals) = 0
  <2>1. /\ IsFiniteSet(DOMAIN proposals)
        /\ [i \in DOMAIN proposals |-> Paid(proposals[i])] \in [DOMAIN proposals -> Nat]
    BY <1>1, PaidFacts DEF GovInv
  <2>2. \A i \in DOMAIN proposals : [j \in DOMAIN proposals |-> Paid(proposals[j])][i] = 0
    BY <1>3
  <2> QED
    BY <2>1, <2>2, SumZero DEF PaidBy
<1>5. TreasuryBalances
  BY <1>3, <1>4, BooksOfPaid
<1>6. \A i \in DOMAIN proposals : Settled(height, proposals[i])
  BY <1>3
<1> QED
  BY <1>1, <1>2, <1>5, <1>6 DEF DaoInv

(* What is settled stays so as time passes. *)
LEMMA SettledLater ==
  ASSUME NEW p \in Proposal, NEW h \in Nat, NEW k \in Nat, h <= k, Settled(h, p)
  PROVE  Settled(k, p)
<1>1. p.endBlock \in Nat
  BY DEF Proposal
<1> QED
  BY <1>1 DEF Settled

LEMMA NextDaoInv ==
  ASSUME DaoInv, [Next]_vars
  PROVE  DaoInv'
<1>1. /\ proposals \in Seq(Proposal) /\ height \in Nat
      /\ bankBalance \in Nat /\ deposited \in Nat /\ direct \in Nat
      /\ \A i \in DOMAIN proposals : proposals[i] \in Proposal /\ Settled(height, proposals[i])
      /\ PaidBy(proposals) \in Nat
      /\ bankBalance + direct + PaidBy(proposals) = deposited
  BY PaidFacts, BooksOfPaid DEF DaoInv, GovInv, TokenInv, BankTypeOK
<1>2. GovInv' /\ height <= height'
  BY NextGovInv, NextToken DEF DaoInv
<1>3. height' \in Nat
  BY <1>2 DEF GovInv, TokenInv
<1>4. TreasuryBalances' <=> bankBalance' + direct' + PaidBy(proposals') = deposited'
  BY DEF TreasuryBalances, PaidOut, PaidBy, Paid
<1>5. ASSUME proposals' = proposals, BankTypeOK',
             Balanced
      PROVE  DaoInv'
  <2>1. \A i \in DOMAIN proposals : Settled(height', proposals[i])
    BY <1>1, <1>2, <1>3, SettledLater
  <2>4. PaidBy(proposals') = PaidBy(proposals)
    BY <1>5
  <2>5. bankBalance' + direct' + PaidBy(proposals) = deposited'
    <3>1. PICK paid, taken \in Nat :
             /\ bankBalance' = bankBalance + paid - taken
             /\ deposited' = deposited + paid
             /\ direct' = direct + taken
      BY <1>5 DEF Balanced
    <3> QED
      BY <1>1, <3>1
  <2>3. TreasuryBalances'
    BY <1>4, <2>4, <2>5
  <2> QED
    BY <1>2, <1>5, <2>1, <2>3 DEF DaoInv
<1>6. ASSUME UNCHANGED bankVars
      PROVE  /\ BankTypeOK' /\ Balanced
             /\ UNCHANGED <<bankBalance, deposited, direct>>
  <2>1. BankTypeOK' /\ UNCHANGED <<bankBalance, deposited, direct>>
    BY <1>6 DEF DaoInv, BankTypeOK, bankVars
  <2>2. /\ bankBalance' = bankBalance + 0 - 0
        /\ deposited' = deposited + 0
        /\ direct' = direct + 0
    BY <1>1, <2>1
  <2> QED
    BY <2>1, <2>2 DEF Balanced
<1>7. ASSUME NEW u \in Users, NEW amount \in Amounts, propose(u, amount)
      PROVE  DaoInv'
  <2> DEFINE q == NewProposal(amount)
  <2>1. /\ proposals' = Append(proposals, q) /\ height' = height
        /\ UNCHANGED bankVars
    BY <1>7 DEF propose, tokenVars
  <2>2. q \in Proposal
    BY NewProposalSound, GovAssumption DEF DaoInv
  <2>3. Settled(height, q) /\ Paid(q) = 0
    <3>1. height \in Nat /\ params.votingDelay \in Nat /\ params.votingPeriod \in Nat
      BY DEF DaoInv, GovInv, TokenInv, Params
    <3> QED
      BY <3>1 DEF Settled, Paid, NewProposal
  <2> HIDE DEF q
  <2>4. \A i \in DOMAIN proposals' : Settled(height', proposals'[i])
    <3> SUFFICES ASSUME NEW i \in DOMAIN proposals'
                 PROVE  Settled(height, proposals'[i])
      BY <2>1
    <3>1. CASE i \in DOMAIN proposals
      <4>1. proposals'[i] = proposals[i]
        BY <1>1, <2>1, <2>2, <3>1
      <4> QED
        BY <1>1, <3>1, <4>1
    <3>2. CASE i \notin DOMAIN proposals
      <4>1. proposals'[i] = q
        BY <1>1, <2>1, <2>2, <3>2
      <4> QED
        BY <2>3, <4>1
    <3> QED
      BY <3>1, <3>2
  <2>5. PaidBy(proposals') = PaidBy(proposals)
    BY <1>1, <2>1, <2>2, <2>3, PaidAppend
  <2> QED
    BY <1>1, <1>2, <1>4, <1>6, <2>1, <2>4, <2>5 DEF DaoInv
<1>8. ASSUME NEW id \in DOMAIN proposals, NEW q \in Proposal,
             proposals' = [proposals EXCEPT ![id] = q],
             Settled(height, q), height' = height, BankTypeOK',
             bankBalance' + direct' - Paid(proposals[id]) + Paid(q) = bankBalance + direct,
             deposited' = deposited
      PROVE  DaoInv'
  <2>1. \A i \in DOMAIN proposals' : Settled(height', proposals'[i])
    BY <1>1, <1>8
  <2>2. PaidBy(proposals') = PaidBy(proposals) - Paid(proposals[id]) + Paid(q)
    BY <1>1, <1>8, PaidExcept
  <2>3. /\ bankBalance' \in Nat /\ direct' \in Nat
        /\ Paid(q) \in Nat /\ Paid(proposals[id]) \in Nat
    BY <1>1, <1>8 DEF BankTypeOK, Paid, Proposal
  <2>4. TreasuryBalances'
    BY <1>1, <1>4, <1>8, <2>2, <2>3
  <2> QED
    BY <1>2, <1>8, <2>1, <2>4 DEF DaoInv
<1>9. ASSUME NEW id \in DOMAIN proposals, NEW u \in Users, NEW s \in BOOLEAN, castVote(id, u, s)
      PROVE  DaoInv'
  <2>1. PICK q \in Proposal, w \in Nat :
           /\ proposals' = [proposals EXCEPT ![id] = q]
           /\ height <= proposals[id].endBlock /\ w > 0
           /\ q.startBlock = proposals[id].startBlock
           /\ q.endBlock = proposals[id].endBlock /\ q.amount = proposals[id].amount
           /\ q.forVotes + q.againstVotes
                = proposals[id].forVotes + proposals[id].againstVotes + w
           /\ q.state = IF proposals[id].state = "Pending" THEN "Active" ELSE proposals[id].state
    BY <1>9, VoteShape
  <2>2. height' = height /\ UNCHANGED bankVars
    BY <1>9 DEF castVote, tokenVars
  <2>3. proposals[id] \in Proposal /\ Settled(height, proposals[id])
    BY <1>1
  <2>6. /\ proposals[id].endBlock \in Nat
        /\ proposals[id].forVotes \in Nat /\ proposals[id].againstVotes \in Nat
    BY <2>3 DEF Proposal
  <2>4. /\ proposals[id].state \notin {"Executed", "Defeated"}
        /\ proposals[id].forVotes + proposals[id].againstVotes \in Nat
    BY <1>1, <2>1, <2>3, <2>6 DEF Settled
  <2>5. Settled(height, q) /\ Paid(q) = 0 /\ Paid(proposals[id]) = 0
    BY <2>1, <2>3, <2>4 DEF Settled, Paid
  <2>7. bankBalance' + direct' - Paid(proposals[id]) + Paid(q) = bankBalance + direct
    BY <1>1, <1>6, <2>2, <2>5
  <2> QED
    BY <1>6, <1>8, <2>1, <2>2, <2>5, <2>7
<1>10. ASSUME NEW id \in DOMAIN proposals, executeDefeated(id) \/ executePassed(id)
       PROVE  DaoInv'
  <2>1. PICK st \in {"Defeated", "Executed"}, q \in Proposal :
           /\ q = [proposals[id] EXCEPT !.state = st]
           /\ proposals' = [proposals EXCEPT ![id] = q]
           /\ q.amount = proposals[id].amount /\ q.state = st
           /\ q.startBlock = proposals[id].startBlock /\ q.endBlock = proposals[id].endBlock
           /\ q.forVotes = proposals[id].forVotes /\ q.againstVotes = proposals[id].againstVotes
           /\ st = "Executed" <=> executePassed(id)
    BY <1>10, ExecuteShape
  <2>2. proposals[id].state = "Active" /\ height > proposals[id].endBlock
    BY <1>1, <1>10 DEF executeDefeated, executePassed, Executable, Proposal
  <2>3. Settled(height, proposals[id]) /\ Paid(proposals[id]) = 0
    BY <1>1, <2>2 DEF Paid
  <2>4. CASE executePassed(id)
    <3>1. /\ proposals[id].forVotes > proposals[id].againstVotes
          /\ bankBalance' = bankBalance - proposals[id].amount
          /\ bankBalance >= proposals[id].amount
          /\ height' = height /\ UNCHANGED <<roles, deposited, direct>>
      BY <2>4 DEF executePassed, Passed, Withdraw, MayWithdraw, tokenVars
    <3>2. Settled(height, q) /\ Paid(q) = proposals[id].amount
      BY <2>1, <2>2, <2>3, <2>4, <3>1 DEF Settled, Paid
    <3>3. proposals[id].amount \in Nat
      BY <1>1 DEF Proposal
    <3>4. BankTypeOK'
      BY <1>1, <3>1, <3>3 DEF DaoInv, BankTypeOK
    <3>5. bankBalance' + direct' - Paid(proposals[id]) + Paid(q) = bankBalance + direct
      BY <1>1, <2>3, <3>1, <3>2, <3>3
    <3> QED
      BY <1>8, <2>1, <3>1, <3>2, <3>4, <3>5
  <2>5. CASE executeDefeated(id)
    <3>1. height' = height /\ UNCHANGED bankVars
      BY <2>5 DEF executeDefeated, tokenVars
    <3>2. st = "Defeated"
      BY <2>1, <2>5 DEF executeDefeated, executePassed
    <3>3. Settled(height, q) /\ Paid(q) = 0
      BY <2>1, <2>2, <2>3, <3>2 DEF Settled, Paid
    <3>4. bankBalance' + direct' - Paid(proposals[id]) + Paid(q) = bankBalance + direct
      BY <1>1, <1>6, <2>3, <3>1, <3>3
    <3> QED
      BY <1>6, <1>8, <2>1, <3>1, <3>3, <3>4
  <2> QED
    BY <1>10, <2>4, <2>5
<1>11. CASE GovStep
  <2>1. ASSUME NEW new \in ParamChoices, setVotingParameters(new)
        PROVE  DaoInv'
    BY <1>5, <1>6, <2>1 DEF setVotingParameters
  <2> QED
    BY <1>7, <1>9, <1>10, <1>11, <2>1 DEF GovStep
<1>12. CASE (TokenNext \/ UNCHANGED vars) /\ UNCHANGED <<bankVars, govVars>>
  <2>1. proposals' = proposals /\ UNCHANGED bankVars
    BY <1>12 DEF govVars
  <2> QED
    BY <1>5, <1>6, <2>1
<1>13. CASE BankStep(Officers) /\ UNCHANGED <<tokenVars, govVars>>
  <2>1. proposals' = proposals
    BY <1>13 DEF govVars
  <2> QED
    BY <1>5, <1>13, <2>1, BankStepBooks DEF DaoInv
<1> QED
  BY <1>11, <1>12, <1>13 DEF Next, vars

LEMMA DaoInvariant == Spec => []DaoInv
<1>1. DaoInv /\ [Next]_vars => DaoInv'
  BY NextDaoInv
<1> QED
  BY <1>1, InitDaoInv, PTL DEF Spec

(* What was paid in is in the treasury, or an admin took it out, or one    *)
(* execution of a proposal paid it.                                        *)
THEOREM TreasuryIsSafe == Spec => []TreasuryBalances
<1>1. DaoInv => TreasuryBalances
  BY DEF DaoInv
<1> QED
  BY <1>1, DaoInvariant, PTL

-----------------------------------------------------------------------------
(***************************************************************************)
(* What a step may do to a proposal, and to the money.                     *)
(***************************************************************************)

SameTerms(p, q) ==
    /\ q.amount = p.amount /\ q.startBlock = p.startBlock /\ q.endBlock = p.endBlock

SameVotes(p, q) == q.forVotes = p.forVotes /\ q.againstVotes = p.againstVotes

(* A proposal is left alone, or voted on before its end is over, or        *)
(* decided by the votes it has.                                            *)
LEMMA ProposalStep ==
  ASSUME DaoInv, [Next]_vars, NEW i \in DOMAIN proposals
  PROVE  LET p == proposals[i]
             q == proposals'[i]
         IN  \/ q = p
             \/ height <= p.endBlock /\ p.state \notin {"Executed", "Defeated"}
             \/ /\ Executable(p) /\ SameTerms(p, q) /\ SameVotes(p, q)
                /\ \/ Passed(p) /\ q.state = "Executed"
                   \/ ~Passed(p) /\ q.state = "Defeated"
<1>1. /\ proposals \in Seq(Proposal) /\ height \in Nat
      /\ proposals[i] \in Proposal /\ Settled(height, proposals[i])
  BY DEF DaoInv, GovInv, TokenInv
<1>2. CASE proposals' = proposals
  BY <1>2
<1>3. ASSUME NEW u \in Users, NEW amount \in Amounts, propose(u, amount)
      PROVE  proposals'[i] = proposals[i]
  <2>1. PICK q : proposals' = Append(proposals, q)
    BY <1>3 DEF propose
  <2> QED
    BY <1>1, <2>1
<1>4. ASSUME NEW id \in DOMAIN proposals, NEW q \in Proposal,
             proposals' = [proposals EXCEPT ![id] = q]
      PROVE  proposals'[i] = IF i = id THEN q ELSE proposals[i]
  BY <1>1, <1>4
<1>5. ASSUME NEW id \in DOMAIN proposals, NEW u \in Users, NEW s \in BOOLEAN, castVote(id, u, s)
      PROVE  \/ proposals'[i] = proposals[i]
             \/ /\ height <= proposals[i].endBlock
                /\ proposals[i].state \notin {"Executed", "Defeated"}
  <2>1. \E q \in Proposal : /\ proposals' = [proposals EXCEPT ![id] = q]
                            /\ height <= proposals[id].endBlock
    BY <1>5, VoteShape
  <2>2. CASE i = id
    <3>1. proposals[i].endBlock \in Nat
      BY <1>1 DEF Proposal
    <3> QED
      BY <1>1, <2>1, <2>2, <3>1 DEF Settled
  <2>3. CASE i # id
    BY <1>4, <2>1, <2>3
  <2> QED
    BY <2>2, <2>3
<1>6. ASSUME NEW id \in DOMAIN proposals, executeDefeated(id) \/ executePassed(id)
      PROVE  \/ proposals'[i] = proposals[i]
             \/ /\ Executable(proposals[i])
                /\ SameTerms(proposals[i], proposals'[i])
                /\ SameVotes(proposals[i], proposals'[i])
                /\ \/ Passed(proposals[i]) /\ proposals'[i].state = "Executed"
                   \/ ~Passed(proposals[i]) /\ proposals'[i].state = "Defeated"
  <2>1. PICK st \in {"Defeated", "Executed"}, q \in Proposal :
           /\ proposals' = [proposals EXCEPT ![id] = q]
           /\ q.amount = proposals[id].amount /\ q.state = st
           /\ q.startBlock = proposals[id].startBlock /\ q.endBlock = proposals[id].endBlock
           /\ q.forVotes = proposals[id].forVotes /\ q.againstVotes = proposals[id].againstVotes
           /\ st = "Executed" <=> executePassed(id)
    BY <1>6, ExecuteShape
  <2>2. /\ Executable(proposals[id])
        /\ executePassed(id) => Passed(proposals[id])
        /\ executeDefeated(id) => ~Passed(proposals[id])
    BY <1>6 DEF executeDefeated, executePassed
  <2>3. CASE i = id
    <3>1. proposals'[i] = q
      BY <1>4, <2>1, <2>3
    <3> QED
      BY <1>6, <2>1, <2>2, <2>3, <3>1 DEF SameTerms, SameVotes
  <2>4. CASE i # id
    BY <1>4, <2>1, <2>4
  <2> QED
    BY <2>3, <2>4
<1>7. CASE GovStep
  <2>1. ASSUME NEW new \in ParamChoices, setVotingParameters(new)
        PROVE  proposals' = proposals
    BY <2>1 DEF setVotingParameters
  <2> QED
    BY <1>2, <1>3, <1>5, <1>6, <1>7, <2>1 DEF GovStep
<1>8. CASE (TokenNext \/ BankStep(Officers) \/ UNCHANGED vars) /\ UNCHANGED govVars
  BY <1>2, <1>8 DEF govVars
<1> QED
  BY <1>7, <1>8 DEF Next, vars

(* Money leaves by a proposal's execution or by an officer's withdrawal.   *)
LEMMA SpendingStep ==
  ASSUME DaoInv, [Next]_vars, bankBalance' < bankBalance
  PROVE  \/ \E id \in DOMAIN proposals : executePassed(id)
         \/ Officers \cap roles["admin"] # {}
<1>1. bankBalance \in Nat
  BY DEF DaoInv, BankTypeOK
<1>2. CASE UNCHANGED bankVars
  BY <1>1, <1>2 DEF bankVars
<1>3. CASE GovStep
  BY <1>2, <1>3
  DEF GovStep, propose, castVote, executeDefeated, setVotingParameters
<1>4. CASE BankStep(Officers)
  BY <1>4, BankStepBooks DEF DaoInv
<1> QED
  BY <1>2, <1>3, <1>4 DEF Next, vars

LEMMA DaoTypes ==
  ASSUME DaoInv, NEW i \in DOMAIN proposals
  PROVE  /\ height \in Nat /\ bankBalance \in Nat
         /\ proposals[i].startBlock \in Nat /\ proposals[i].endBlock \in Nat
         /\ proposals[i].amount \in Nat
<1>1. proposals[i] \in Proposal /\ height \in Nat /\ bankBalance \in Nat
  BY DEF DaoInv, GovInv, TokenInv, BankTypeOK
<1> QED
  BY <1>1 DEF Proposal

(* A decision, once stored, stands; and whether a vote passed changes      *)
(* after its end by a change of the parameters only.                       *)
THEOREM DecisionsStand == Spec => DecisionStands
<1>1. DaoInv /\ [Next]_vars =>
        [\A i \in DOMAIN proposals :
           LET p == proposals[i]
           IN  /\ height > p.endBlock /\ params' = params => Passed(p)' = Passed(p)
               /\ p.state \in {"Executed", "Defeated"} => proposals'[i] = p]_vars
  <2> SUFFICES ASSUME DaoInv, [Next]_vars, NEW i \in DOMAIN proposals
               PROVE  /\ height > proposals[i].endBlock /\ params' = params
                           => Passed(proposals[i])' = Passed(proposals[i])
                      /\ proposals[i].state \in {"Executed", "Defeated"}
                           => proposals'[i] = proposals[i]
    OBVIOUS
  <2>1. height \in Nat /\ proposals[i].endBlock \in Nat
    BY DaoTypes
  <2>2. CASE proposals'[i] = proposals[i]
    BY <2>2 DEF Passed
  <2>3. CASE /\ height <= proposals[i].endBlock
             /\ proposals[i].state \notin {"Executed", "Defeated"}
    BY <2>1, <2>3
  <2>4. CASE Executable(proposals[i]) /\ SameVotes(proposals[i], proposals'[i])
    BY <2>4 DEF Executable, SameVotes, Passed
  <2> QED
    BY <2>2, <2>3, <2>4, ProposalStep
<1> QED
  BY <1>1, DaoInvariant, PTL DEF Spec, DecisionStands

(* With the super role gone and Gov the only admin, money leaves the       *)
(* treasury only by the execution of a proposal that succeeded.            *)
THEOREM ProposalsSpend == Spec => OnlyProposalsSpend
<1>1. DaoInv /\ [Next]_vars =>
        [/\ roles["super"] = {} /\ roles["admin"] = {GovContract}
         /\ bankBalance' < bankBalance
         => \E i \in DOMAIN proposals :
               /\ View(proposals[i]) = "Succeeded"
               /\ proposals'[i].state = "Executed"]_vars
  <2> SUFFICES ASSUME DaoInv, [Next]_vars, roles["admin"] = {GovContract},
                      bankBalance' < bankBalance
               PROVE  \E i \in DOMAIN proposals :
                        /\ View(proposals[i]) = "Succeeded"
                        /\ proposals'[i].state = "Executed"
    OBVIOUS
  <2>1. Officers \cap roles["admin"] = {}
    BY GovAssumption
  <2>2. PICK id \in DOMAIN proposals : executePassed(id)
    BY <2>1, SpendingStep
  <2>3. /\ proposals[id] \in Proposal /\ Settled(height, proposals[id])
        /\ proposals \in Seq(Proposal)
    BY DEF DaoInv, GovInv
  <2>4. /\ height \in Nat /\ proposals[id].startBlock \in Nat /\ proposals[id].endBlock \in Nat
    BY DaoTypes
  <2>5. View(proposals[id]) = "Succeeded"
    BY <2>2, <2>3, <2>4 DEF View, Settled, executePassed, Executable
  <2>6. proposals'[id].state = "Executed"
    BY <2>2, <2>3 DEF executePassed, Proposal
  <2> QED
    BY <2>5, <2>6
<1> QED
  BY <1>1, DaoInvariant, PTL DEF Spec, OnlyProposalsSpend

(* Time, votes and transfers of tokens do not expire a passed proposal.    *)
THEOREM PassedStaysExecutable == Spec => StaysExecutable
<1>1. DaoInv /\ [Next]_vars =>
        [\A i \in DOMAIN proposals :
           CanExecute(proposals[i]) =>
              \/ CanExecute(proposals[i])'
              \/ proposals'[i].state = "Executed"
              \/ bankBalance' < bankBalance
              \/ params' # params
              \/ GovContract \notin roles'["admin"]]_vars
  <2> SUFFICES ASSUME DaoInv, [Next]_vars, NEW i \in DOMAIN proposals,
                      CanExecute(proposals[i]), proposals'[i].state # "Executed",
                      ~(bankBalance' < bankBalance), params' = params,
                      GovContract \in roles'["admin"]
               PROVE  CanExecute(proposals[i])'
    OBVIOUS
  <2>1. /\ height \in Nat /\ proposals[i].endBlock \in Nat /\ proposals[i].amount \in Nat
        /\ bankBalance \in Nat
    BY DaoTypes
  <2>2. bankBalance' \in Nat /\ height' \in Nat /\ height <= height'
    BY NextDaoInv, NextToken DEF DaoInv, BankTypeOK, GovInv, TokenInv
  <2>3. /\ Executable(proposals[i]) /\ Passed(proposals[i])
        /\ proposals[i].amount > 0 /\ bankBalance >= proposals[i].amount
    BY DEF CanExecute, MayWithdraw
  <2>4. proposals'[i] = proposals[i]
    BY <2>1, <2>3, ProposalStep DEF Executable
  <2>5. Executable(proposals[i])'
    BY <2>1, <2>2, <2>3, <2>4 DEF Executable
  <2>6. Passed(proposals[i])'
    BY <2>3, <2>4 DEF Passed
  <2>7. bankBalance' >= proposals'[i].amount /\ proposals'[i].amount > 0
    BY <2>1, <2>2, <2>3, <2>4
  <2> QED
    BY <2>5, <2>6, <2>7 DEF CanExecute, MayWithdraw
<1> QED
  BY <1>1, DaoInvariant, PTL DEF Spec, StaysExecutable

-----------------------------------------------------------------------------
(***************************************************************************)
(* Gov implements the abstract assembly.  A weight of the snapshot is what *)
(* the member held when the start block ended (Newest), and no later step  *)
(* changes it (PastSame); a stored tally is the weight of the ballots      *)
(* (SoundTally), so that Passed is Carried.                                *)
(***************************************************************************)

(* MotionOf, with the chain and the token's state as arguments.            *)
StageAt(h, p) ==
    IF h <= p.startBlock THEN "proposed" ELSE IF h <= p.endBlock THEN "voting" ELSE "over"
WeightAt(h, ck, p) ==
    [u \in Users |-> IF p.startBlock < h THEN VotesAt(ck[u], p.startBlock) ELSE 0]
DecisionAt(p) ==
    IF p.state = "Executed" THEN "paid" ELSE IF p.state = "Defeated" THEN "refused" ELSE "open"
MotionAt(h, ck, p) ==
    [amount |-> p.amount, stage |-> StageAt(h, p), weight |-> WeightAt(h, ck, p),
     ballot |-> p.ballot, decision |-> DecisionAt(p)]
MotionsAt(h, ck, ps) == [i \in DOMAIN ps |-> MotionAt(h, ck, ps[i])]

LEMMA MotionShape ==
  /\ \A p : MotionOf(p) = MotionAt(height, checkpoints, p)
  /\ [i \in DOMAIN proposals |-> MotionOf(proposals[i])] = MotionsAt(height, checkpoints, proposals)
  /\ [i \in DOMAIN proposals |-> MotionOf(proposals[i])]'
       = MotionsAt(height', checkpoints', proposals')
BY DEF MotionOf, MotionAt, MotionsAt, StageAt, WeightAt, DecisionAt, getPastVotes, PastBlock

(* The instance sums as its importer does. *)
LEMMA HouseSum == \A f : House!SumOf(f) = SumOf(f)
BY DEF House!SumOf, House!Coins, House!CoinsOf, SumOf, Coins, CoinsOf, House!Cardinality, Cardinality

(* Once the vote has opened, the tallies are what the ballots cast.        *)
LEMMA CastIsTally ==
  ASSUME DaoInv, NEW i \in DOMAIN proposals, proposals[i].startBlock < height
  PROVE  /\ House!Cast(MotionAt(height, checkpoints, proposals[i]), "for") = proposals[i].forVotes
         /\ House!Cast(MotionAt(height, checkpoints, proposals[i]), "against")
              = proposals[i].againstVotes
<1> DEFINE p == proposals[i]
           m == MotionAt(height, checkpoints, p)
<1>1. SoundTally(checkpoints, height, p)
  BY DEF DaoInv, GovInv
<1>2. ASSUME NEW side
      PROVE  House!Cast(m, side) = SumOf(WeightsAt(checkpoints, p, {side}))
  <2>1. [u \in Users |-> IF m.ballot[u] = side THEN m.weight[u] ELSE 0]
          = WeightsAt(checkpoints, p, {side})
    BY DEF MotionAt, WeightAt, WeightsAt
  <2> HIDE DEF m
  <2> QED
    BY <2>1, HouseSum DEF House!Cast
<1> QED
  BY <1>1, <1>2 DEF SoundTally

(* What the motions say when nothing was minted or moved between blocks.   *)
LEMMA SameBlockMotions ==
  ASSUME DaoInv, [Next]_vars, height' = height, NEW p \in Proposal
  PROVE  MotionAt(height', checkpoints', p) = MotionAt(height, checkpoints, p)
<1>1. p.startBlock \in Nat /\ PastSame
  BY NextToken DEF DaoInv, Proposal
<1>2. WeightAt(height', checkpoints', p) = WeightAt(height, checkpoints, p)
  BY <1>1 DEF WeightAt, PastSame
<1> QED
  BY <1>2 DEF MotionAt

(* The next block opens votes with what the members hold now.              *)
LEMMA NextBlockMotions ==
  ASSUME DaoInv, AdvanceBlock, NEW i \in DOMAIN proposals
  PROVE  House!Later(MotionAt(height, checkpoints, proposals[i]),
                     MotionAt(height', checkpoints', proposals[i]))
<1> DEFINE p == proposals[i]
           m == MotionAt(height, checkpoints, p)
           n == MotionAt(height', checkpoints', p)
<1>1. /\ p.startBlock \in Nat /\ p.endBlock \in Nat /\ p.startBlock <= p.endBlock
      /\ height \in Nat
  BY DaoTypes DEF DaoInv, Settled
<1>2. height' = height + 1 /\ checkpoints' = checkpoints
  BY DEF AdvanceBlock
<1>3. /\ \A u \in Users : VotesAt(checkpoints[u], height) = balanceOf[u]
      /\ balanceOf \in [Users -> Nat]
  BY <1>1 DEF DaoInv, GovInv, TokenInv, Newest
<1>4. n.weight = IF m.stage = "proposed" /\ n.stage # "proposed" THEN balanceOf ELSE m.weight
  <2>1. CASE p.startBlock = height
    <3>1. WeightAt(height', checkpoints', p) = balanceOf
      BY <1>1, <1>2, <1>3, <2>1 DEF WeightAt
    <3> QED
      BY <1>1, <1>2, <2>1, <3>1 DEF MotionAt, StageAt
  <2>2. CASE p.startBlock # height
    <3>1. WeightAt(height', checkpoints', p) = WeightAt(height, checkpoints, p)
      BY <1>1, <1>2, <2>2 DEF WeightAt
    <3>2. StageAt(height, p) = "proposed" => StageAt(height', p) = "proposed"
      BY <1>1, <1>2, <2>2 DEF StageAt
    <3> QED
      BY <3>1, <3>2 DEF MotionAt
  <2> QED
    BY <2>1, <2>2
<1>5. m.stage = "proposed" \/ m.stage = n.stage \/ n.stage = "over"
  BY <1>1, <1>2 DEF MotionAt, StageAt
<1>6. n.amount = m.amount /\ n.ballot = m.ballot /\ n.decision = m.decision
  BY DEF MotionAt
<1> HIDE DEF m, n
<1>7. House!Later(m, n)
  BY <1>4, <1>5, <1>6 DEF House!Later
<1> QED
  BY <1>7 DEF m, n

MotionsNow == MotionsAt(height, checkpoints, proposals)

(* A step of this block that leaves the proposals alone leaves the motions. *)
LEMMA SameMotions ==
  ASSUME DaoInv, [Next]_vars, height' = height, proposals' = proposals
  PROVE  MotionsAt(height', checkpoints', proposals') = MotionsNow
<1>1. ASSUME NEW i \in DOMAIN proposals
      PROVE  MotionAt(height', checkpoints', proposals[i])
               = MotionAt(height, checkpoints, proposals[i])
  <2>1. proposals[i] \in Proposal
    BY DEF DaoInv, GovInv
  <2> QED
    BY <2>1, SameBlockMotions
<1> QED
  BY <1>1 DEF MotionsAt, MotionsNow

(* A step that replaces one proposal replaces one motion.                  *)
LEMMA OneMotion ==
  ASSUME DaoInv, [Next]_vars, height' = height, NEW id \in DOMAIN proposals,
         NEW q \in Proposal, proposals' = [proposals EXCEPT ![id] = q]
  PROVE  MotionsAt(height', checkpoints', proposals')
           = [MotionsNow EXCEPT ![id] = MotionAt(height, checkpoints, q)]
<1>1. proposals \in Seq(Proposal) /\ DOMAIN proposals' = DOMAIN proposals
  BY DEF DaoInv, GovInv
<1>2. ASSUME NEW i \in DOMAIN proposals
      PROVE  MotionAt(height', checkpoints', proposals'[i])
               = IF i = id THEN MotionAt(height, checkpoints, q)
                 ELSE MotionAt(height, checkpoints, proposals[i])
  <2>1. proposals[i] \in Proposal /\ proposals'[i] = IF i = id THEN q ELSE proposals[i]
    BY <1>1
  <2> QED
    BY <2>1, SameBlockMotions
<1> QED
  BY <1>1, <1>2 DEF MotionsAt, MotionsNow

(* Passed is decided by the ballots.                                       *)
LEMMA CarriedIsPassed ==
  ASSUME DaoInv, NEW i \in DOMAIN proposals, proposals[i].startBlock < height
  PROVE  House!Carried(MotionAt(height, checkpoints, proposals[i])) <=> Passed(proposals[i])
BY CastIsTally DEF House!Carried, Passed

(* mint and transfer move holdings and lose nothing.                       *)
LEMMA TradeStep ==
  ASSUME DaoInv, [Next]_vars, TokenNext, ~AdvanceBlock, UNCHANGED <<bankVars, govVars>>
  PROVE  House!Trade
<1>1. UNCHANGED <<bankBalance, direct, roles, proposals, params>>
  BY DEF bankVars, govVars
<1>2. /\ balanceOf' \in [Users -> Nat]
      /\ SumOf(balanceOf) = totalSupply /\ SumOf(balanceOf') = totalSupply'
      /\ totalSupply \in Nat
  BY NextToken DEF DaoInv, GovInv, TokenInv
<1>3. height' = height /\ totalSupply' >= totalSupply
  BY <1>2, BoundsAssumption DEF TokenNext, Mint, Transfer
<1>4. House!SumOf(balanceOf') >= House!SumOf(balanceOf)
  BY <1>2, <1>3, HouseSum
<1>5. MotionsAt(height', checkpoints', proposals') = MotionsNow
  BY <1>1, <1>3, SameMotions
<1>6. ControlOf' = ControlOf
  BY <1>1 DEF ControlOf
<1> QED
  BY <1>1, <1>2, <1>4, <1>5, <1>6, MotionShape DEF House!Trade, MotionsNow

(* The chain moving on is time passing for the motions.                    *)
LEMMA TickStep ==
  ASSUME DaoInv, AdvanceBlock, UNCHANGED <<bankVars, govVars>>
  PROVE  House!Tick
<1>1. /\ UNCHANGED <<bankBalance, direct, roles, proposals, params>>
      /\ UNCHANGED balanceOf
  BY DEF bankVars, govVars, AdvanceBlock
<1>2. ControlOf' = ControlOf
  BY <1>1 DEF ControlOf
<1> DEFINE M == MotionsNow
           N == MotionsAt(height', checkpoints', proposals')
<1>3. /\ DOMAIN N = DOMAIN M
      /\ \A i \in DOMAIN M : House!Later(M[i], N[i])
  <2>1. DOMAIN M = DOMAIN proposals /\ DOMAIN N = DOMAIN proposals
    BY <1>1 DEF MotionsAt, MotionsNow
  <2>2. ASSUME NEW i \in DOMAIN proposals
        PROVE  /\ M[i] = MotionAt(height, checkpoints, proposals[i])
               /\ N[i] = MotionAt(height', checkpoints', proposals[i])
    BY <1>1 DEF MotionsAt, MotionsNow
  <2> HIDE DEF M, N
  <2> QED
    BY <2>1, <2>2, NextBlockMotions
<1> QED
  BY <1>1, <1>2, <1>3, MotionShape DEF House!Tick, MotionsNow

(* A step of the bank is a gift, a withdrawal past the votes, or a change  *)
(* of who controls it; the last two never once Gov is alone.               *)
LEMMA BankIsFunds ==
  ASSUME DaoInv, [Next]_vars, BankStep(Officers), UNCHANGED <<tokenVars, govVars>>
  PROVE  House!Next \/ UNCHANGED House!vars
<1>1. /\ UNCHANGED <<height, balanceOf, proposals, params>>
      /\ MotionsAt(height', checkpoints', proposals') = MotionsNow
  BY SameMotions DEF tokenVars, govVars
<1>2. /\ bankBalance \in Nat /\ bankBalance' \in Nat /\ direct \in Nat
      /\ roles \in [RoleNames -> SUBSET Accounts]
      /\ bankBalance' < bankBalance => Officers \cap roles["admin"] # {}
  BY BankStepBooks DEF DaoInv, BankTypeOK
<1>3. /\ bankBalance' = bankBalance \/ roles' = roles
      /\ bankBalance' < bankBalance => direct' = direct + (bankBalance - bankBalance')
      /\ ~(bankBalance' < bankBalance) => direct' = direct
  BY <1>2, MaxDepositsAssumption
  DEF BankStep, Deposit, WithdrawDirect, Withdraw, addAdmin, removeAdmin,
         GrantRole, RevokeRole, RenounceRole, transferSuperAdmin
<1>4. Officers \cap roles["admin"] # {} => ControlOf # "sole"
  BY GovAssumption DEF ControlOf
<1>5. ControlOf = "sole" => roles' = roles
  <2> SUFFICES ASSUME ControlOf = "sole" PROVE roles' = roles
    OBVIOUS
  <2>1. /\ roles["super"] = {} /\ roles["admin"] = {GovContract}
        /\ roles = [r \in RoleNames |-> roles[r]]
    BY <1>2 DEF ControlOf
  <2>2. ASSUME NEW c \in Officers, NEW r \in RoleNames, RenounceRole(c, r)
        PROVE  roles' = roles
    <3>1. c \notin roles[r]
      BY <2>1, GovAssumption DEF RoleNames
    <3>2. roles' = [roles EXCEPT ![r] = roles[r] \ {c}]
      BY <2>2 DEF RenounceRole
    <3> QED
      BY <2>1, <3>1, <3>2
  <2> QED
    BY <2>1, <2>2 DEF BankStep, Deposit, WithdrawDirect, Withdraw, addAdmin, removeAdmin,
                      GrantRole, RevokeRole, transferSuperAdmin
<1>6. ControlOf' \in {"out", "shared", "sole"} /\ (roles' = roles => ControlOf' = ControlOf)
  BY DEF ControlOf
<1>7. bankBalance' >= bankBalance => ~(bankBalance' < bankBalance)
  BY <1>2
<1>8. CASE bankBalance' > bankBalance
  <2>1. House!Receive
    BY <1>1, <1>2, <1>3, <1>6, <1>7, <1>8, MotionShape DEF House!Receive, MotionsNow
  <2> QED
    BY <2>1 DEF House!Next
<1>9. CASE bankBalance' < bankBalance
  <2>1. House!Take
    BY <1>1, <1>2, <1>3, <1>4, <1>6, <1>9, MotionShape DEF House!Take, MotionsNow
  <2> QED
    BY <2>1 DEF House!Next
<1>10. CASE bankBalance' = bankBalance /\ roles' # roles
  <2>1. House!HandOver
    BY <1>1, <1>2, <1>3, <1>5, <1>6, <1>7, <1>10, MotionShape DEF House!HandOver, MotionsNow
  <2> QED
    BY <2>1 DEF House!Next
<1>11. CASE bankBalance' = bankBalance /\ roles' = roles
  BY <1>1, <1>2, <1>3, <1>6, <1>7, <1>11, MotionShape DEF House!vars, MotionsNow
<1> QED
  BY <1>2, <1>8, <1>9, <1>10, <1>11

(* A motion is moved by a member that holds the threshold now.             *)
LEMMA MoveStep ==
  ASSUME DaoInv, [Next]_vars, NEW u \in Users, NEW amount \in Amounts, propose(u, amount)
  PROVE  House!Move(u, amount)
<1> DEFINE p == NewProposal(amount)
<1>1. /\ UNCHANGED <<height, balanceOf, checkpoints, bankBalance, direct, roles, params>>
      /\ proposals' = Append(proposals, p) /\ amount > 0
      /\ getVotes(u) >= params.proposalThreshold
  BY DEF propose, tokenVars, bankVars
<1>2. /\ proposals \in Seq(Proposal) /\ height \in Nat /\ params.votingDelay \in Nat
      /\ balanceOf[u] = getVotes(u)
  BY DEF DaoInv, GovInv, TokenInv, Params, Newest, getVotes
<1>3. MotionAt(height, checkpoints, p) = House!Motion(amount)
  <2>1. /\ p.amount = amount /\ p.startBlock >= height /\ p.state = "Pending"
        /\ p.ballot = [v \in Users |-> "none"]
    BY <1>2 DEF NewProposal
  <2>2. StageAt(height, p) = "proposed" /\ DecisionAt(p) = "open"
    BY <2>1 DEF StageAt, DecisionAt
  <2>3. WeightAt(height, checkpoints, p) = [v \in Users |-> 0]
    <3>1. ~(p.startBlock < height)
      <4>1. p.startBlock \in Nat
        BY <1>2 DEF NewProposal
      <4> QED
        BY <1>2, <2>1, <4>1
    <3> QED
      BY <3>1 DEF WeightAt
  <2> HIDE DEF p
  <2> QED
    BY <2>1, <2>2, <2>3 DEF MotionAt, House!Motion
<1>4. MotionsAt(height', checkpoints', proposals') = Append(MotionsNow, House!Motion(amount))
  <2> HIDE DEF p
  <2>1. /\ DOMAIN proposals = 1..Len(proposals) /\ Len(proposals) \in Nat
        /\ DOMAIN proposals' = 1..(Len(proposals) + 1)
        /\ \A i \in DOMAIN proposals : proposals'[i] = proposals[i]
        /\ proposals'[Len(proposals) + 1] = p
    BY <1>1, <1>2
  <2>2. /\ MotionsNow = [i \in 1..Len(proposals) |-> MotionAt(height, checkpoints, proposals[i])]
        /\ Len(MotionsNow) = Len(proposals)
    BY <2>1 DEF MotionsAt, MotionsNow
  <2>3. Append(MotionsNow, House!Motion(amount))
          = [i \in 1..(Len(proposals) + 1) |->
               IF i = Len(proposals) + 1 THEN House!Motion(amount)
               ELSE MotionAt(height, checkpoints, proposals[i])]
    BY <2>1, <2>2
  <2>4. ASSUME NEW i \in 1..(Len(proposals) + 1)
        PROVE  MotionAt(height, checkpoints, proposals'[i])
                 = IF i = Len(proposals) + 1 THEN House!Motion(amount)
                   ELSE MotionAt(height, checkpoints, proposals[i])
    BY <1>3, <2>1
  <2> QED
    BY <1>1, <2>1, <2>3, <2>4 DEF MotionsAt
<1>5. ControlOf' = ControlOf
  BY <1>1 DEF ControlOf
<1> QED
  BY <1>1, <1>2, <1>4, <1>5, MotionShape DEF House!Move, MotionsNow

(* A vote is a ballot, by a member with weight, while the motion is voted on. *)
LEMMA VoteStep ==
  ASSUME DaoInv, [Next]_vars, NEW id \in DOMAIN proposals, NEW u \in Users,
         NEW s \in BOOLEAN, castVote(id, u, s)
  PROVE  House!Vote(id, u, IF s THEN "for" ELSE "against")
<1> DEFINE p == proposals[id]
           w == VotesAt(checkpoints[u], p.startBlock)
           q == Tallied(p, u, s, w)
           side == IF s THEN "for" ELSE "against"
<1>1. /\ UNCHANGED <<height, balanceOf, bankBalance, direct, roles, params>>
      /\ proposals' = [proposals EXCEPT ![id] = q]
      /\ p.ballot[u] = "none" /\ p.startBlock < height /\ height <= p.endBlock /\ w > 0
  BY DEF castVote, CanVote, tokenVars, bankVars, getPastVotes, PastBlock
<1>2. p \in Proposal /\ SoundTally(checkpoints, height, p)
  BY DEF DaoInv, GovInv
<1>3. /\ p.startBlock \in Nat /\ p.endBlock \in Nat /\ height \in Nat
      /\ p.state \notin {"Executed", "Defeated"}
  BY <1>1, DaoTypes DEF DaoInv, Settled
<1>4. q \in Proposal
  BY <1>1, <1>2, TalliedSound DEF DaoInv
<1>5. /\ q.amount = p.amount /\ q.startBlock = p.startBlock /\ q.endBlock = p.endBlock
      /\ q.ballot = [p.ballot EXCEPT ![u] = side]
      /\ q.state \notin {"Executed", "Defeated"}
  BY <1>2, <1>3 DEF Tallied, Proposal
<1> HIDE DEF q, w, side
<1> DEFINE m == MotionAt(height, checkpoints, p)
<1>6. MotionAt(height, checkpoints, q) = [m EXCEPT !.ballot[u] = side]
  <2>1. /\ StageAt(height, q) = StageAt(height, p)
        /\ WeightAt(height, checkpoints, q) = WeightAt(height, checkpoints, p)
        /\ DecisionAt(q) = DecisionAt(p)
    BY <1>3, <1>5 DEF StageAt, WeightAt, DecisionAt
  <2> QED
    BY <1>5, <2>1 DEF MotionAt
<1>7. MotionsAt(height', checkpoints', proposals')
        = [MotionsNow EXCEPT ![id] = MotionAt(height, checkpoints, q)]
  BY <1>1, <1>4, OneMotion
<1>8. MotionsNow[id] = m
  BY DEF MotionsAt, MotionsNow
<1>9. m.stage = "voting" /\ m.ballot[u] = "none" /\ m.weight[u] > 0
  BY <1>1, <1>3 DEF MotionAt, StageAt, WeightAt, w
<1> HIDE DEF m
<1>10. MotionsAt(height', checkpoints', proposals') = [MotionsNow EXCEPT ![id].ballot[u] = side]
  BY <1>6, <1>7, <1>8
<1>11. ControlOf' = ControlOf
  BY <1>1 DEF ControlOf
<1> QED
  BY <1>1, <1>8, <1>9, <1>10, <1>11, MotionShape DEF House!Vote, MotionsNow, side

(* What execute finds and leaves of the motion, whatever it decides.       *)
LEMMA DecideMotion ==
  ASSUME DaoInv, [Next]_vars, NEW id \in DOMAIN proposals, Executable(proposals[id]),
         NEW st \in {"Defeated", "Executed"},
         height' = height, proposals' = [proposals EXCEPT ![id].state = st]
  PROVE  LET d == IF st = "Executed" THEN "paid" ELSE "refused"
         IN  /\ MotionsAt(height', checkpoints', proposals')
                  = [MotionsNow EXCEPT ![id].decision = d]
             /\ MotionsNow[id].stage = "over" /\ MotionsNow[id].decision = "open"
             /\ MotionsNow[id].amount = proposals[id].amount
             /\ House!Carried(MotionsNow[id]) <=> Passed(proposals[id])
             /\ House!Cast(MotionsNow[id], "for") + House!Cast(MotionsNow[id], "against") > 0
<1> DEFINE p == proposals[id]
           q == [p EXCEPT !.state = st]
           d == IF st = "Executed" THEN "paid" ELSE "refused"
           m == MotionAt(height, checkpoints, p)
<1>1. p \in Proposal /\ q \in Proposal /\ proposals \in Seq(Proposal)
  <2>1. p \in Proposal /\ proposals \in Seq(Proposal)
    BY DEF DaoInv, GovInv
  <2>2. q \in Proposal
    BY <2>1 DEF Proposal
  <2> QED
    BY <2>1, <2>2
<1>2. /\ p.startBlock \in Nat /\ p.endBlock \in Nat /\ height \in Nat
      /\ p.startBlock <= p.endBlock /\ height > p.endBlock
      /\ p.state = "Active" /\ p.forVotes + p.againstVotes > 0
  BY <1>1, DaoTypes DEF DaoInv, Settled, Executable, Proposal
<1>3. proposals' = [proposals EXCEPT ![id] = q]
  BY <1>1
<1>4. MotionsAt(height', checkpoints', proposals')
        = [MotionsNow EXCEPT ![id] = MotionAt(height, checkpoints, q)]
  <2> HIDE DEF q
  <2> QED
    BY <1>1, <1>3, OneMotion
<1>5. MotionAt(height, checkpoints, q) = [m EXCEPT !.decision = d]
  <2>1. /\ q.amount = p.amount /\ q.startBlock = p.startBlock /\ q.endBlock = p.endBlock
        /\ q.ballot = p.ballot /\ q.state = st
    BY <1>1 DEF Proposal
  <2>2. /\ StageAt(height, q) = StageAt(height, p)
        /\ WeightAt(height, checkpoints, q) = WeightAt(height, checkpoints, p)
        /\ DecisionAt(q) = d
    BY <2>1 DEF StageAt, WeightAt, DecisionAt
  <2> HIDE DEF q, d
  <2> QED
    BY <2>1, <2>2 DEF MotionAt
<1>6. MotionsNow[id] = m
  BY DEF MotionsAt, MotionsNow
<1>7. m.stage = "over" /\ m.decision = "open" /\ m.amount = p.amount
  BY <1>2 DEF MotionAt, StageAt, DecisionAt
<1>8. p.startBlock < height
  BY <1>2
<1>9. /\ House!Carried(m) <=> Passed(p)
      /\ House!Cast(m, "for") = p.forVotes /\ House!Cast(m, "against") = p.againstVotes
  BY <1>8, CarriedIsPassed, CastIsTally
<1> HIDE DEF m, q, d
<1>10. [MotionsNow EXCEPT ![id].decision = d] = [MotionsNow EXCEPT ![id] = [m EXCEPT !.decision = d]]
  BY <1>6
<1> QED
  BY <1>2, <1>4, <1>5, <1>6, <1>7, <1>9, <1>10 DEF d

(* execute decides a motion once, when its vote is over, by the ballots.   *)
LEMMA RefuseStep ==
  ASSUME DaoInv, [Next]_vars, NEW id \in DOMAIN proposals, executeDefeated(id)
  PROVE  House!Refuse(id)
<1>1. /\ UNCHANGED <<height, balanceOf, bankBalance, direct, roles, params>>
      /\ proposals' = [proposals EXCEPT ![id].state = "Defeated"]
      /\ Executable(proposals[id]) /\ ~Passed(proposals[id])
  BY DEF executeDefeated, tokenVars, bankVars
<1>2. /\ MotionsAt(height', checkpoints', proposals')
           = [MotionsNow EXCEPT ![id].decision = "refused"]
      /\ MotionsNow[id].stage = "over" /\ MotionsNow[id].decision = "open"
      /\ ~House!Carried(MotionsNow[id])
      /\ House!Cast(MotionsNow[id], "for") + House!Cast(MotionsNow[id], "against") > 0
  BY <1>1, DecideMotion
<1>3. ControlOf' = ControlOf
  BY <1>1 DEF ControlOf
<1> QED
  BY <1>1, <1>2, <1>3, MotionShape DEF House!Refuse, MotionsNow

LEMMA PayStep ==
  ASSUME DaoInv, [Next]_vars, NEW id \in DOMAIN proposals, executePassed(id)
  PROVE  House!Pay(id)
<1>1. /\ UNCHANGED <<height, balanceOf, direct, roles, params>>
      /\ proposals' = [proposals EXCEPT ![id].state = "Executed"]
      /\ Executable(proposals[id]) /\ Passed(proposals[id])
      /\ GovContract \in roles["admin"] /\ bankBalance >= proposals[id].amount
      /\ bankBalance' = bankBalance - proposals[id].amount
  BY DEF executePassed, tokenVars, Withdraw, MayWithdraw
<1>2. /\ MotionsAt(height', checkpoints', proposals')
           = [MotionsNow EXCEPT ![id].decision = "paid"]
      /\ MotionsNow[id].stage = "over" /\ MotionsNow[id].decision = "open"
      /\ MotionsNow[id].amount = proposals[id].amount
      /\ House!Carried(MotionsNow[id])
  BY <1>1, DecideMotion
<1>3. ControlOf' = ControlOf /\ ControlOf # "out"
  BY <1>1 DEF ControlOf
<1> QED
  BY <1>1, <1>2, <1>3, MotionShape DEF House!Pay, MotionsNow

(* The parameters are rules that anyone may amend.                         *)
LEMMA AmendStep ==
  ASSUME DaoInv, [Next]_vars, NEW new \in ParamChoices, setVotingParameters(new)
  PROVE  House!Amend
<1>1. /\ UNCHANGED <<height, balanceOf, bankBalance, direct, roles, proposals>>
      /\ params' \in Params
  BY GovAssumption DEF setVotingParameters, tokenVars, bankVars
<1>2. MotionsAt(height', checkpoints', proposals') = MotionsNow
  BY <1>1, SameMotions
<1>3. ControlOf' = ControlOf
  BY <1>1 DEF ControlOf
<1>4. [threshold |-> params'.proposalThreshold, quorum |-> params'.quorum] \in House!Rules
  BY <1>1 DEF Params, House!Rules
<1> QED
  BY <1>1, <1>2, <1>3, <1>4, MotionShape DEF House!Amend, MotionsNow

LEMMA HouseInit == Init => House!Init
<1> SUFFICES ASSUME Init PROVE House!Init
  OBVIOUS
<1>1. balanceOf \in [Users -> Nat]
  BY InitDaoInv DEF DaoInv, GovInv, TokenInv
<1>2. [threshold |-> params.proposalThreshold, quorum |-> params.quorum] \in House!Rules
  BY GovAssumption DEF Init, Params, House!Rules
<1>3. bankBalance = 0 /\ direct = 0 /\ [i \in DOMAIN proposals |-> MotionOf(proposals[i])] = <<>>
  BY DEF Init
<1>4. ControlOf \in {"out", "shared", "sole"}
  BY DEF ControlOf
<1> QED
  BY <1>1, <1>2, <1>3, <1>4 DEF House!Init

(* For any members, supply, accounts, delays and numbers of blocks and     *)
(* proposals, the three contracts together keep what the assembly promises.*)
THEOREM GovImplementsAssembly == Spec => ImplementsAssembly
<1>1. DaoInv /\ [Next]_vars => [House!Next]_House!vars
  <2> SUFFICES ASSUME DaoInv, [Next]_vars PROVE House!Next \/ UNCHANGED House!vars
    OBVIOUS
  <2>1. ASSUME NEW u \in Users, NEW amount \in Amounts, propose(u, amount)
        PROVE  House!Next
    BY <2>1, MoveStep DEF House!Next
  <2>2. ASSUME NEW id \in DOMAIN proposals
        PROVE  id \in DOMAIN [i \in DOMAIN proposals |-> MotionOf(proposals[i])]
    OBVIOUS
  <2>3. ASSUME NEW id \in DOMAIN proposals, NEW u \in Users, NEW s \in BOOLEAN, castVote(id, u, s)
        PROVE  House!Next
    <3>1. PICK side \in {"for", "against"} : House!Vote(id, u, side)
      BY <2>3, VoteStep
    <3> QED
      BY <2>2, <3>1 DEF House!Next
  <2>4. ASSUME NEW id \in DOMAIN proposals, executeDefeated(id)
        PROVE  House!Next
    BY <2>2, <2>4, RefuseStep DEF House!Next
  <2>5. ASSUME NEW id \in DOMAIN proposals, executePassed(id)
        PROVE  House!Next
    BY <2>2, <2>5, PayStep DEF House!Next
  <2>6. ASSUME NEW new \in ParamChoices, setVotingParameters(new)
        PROVE  House!Next
    BY <2>6, AmendStep DEF House!Next
  <2>7. CASE TokenNext /\ UNCHANGED <<bankVars, govVars>>
    <3>1. CASE AdvanceBlock
      BY <2>7, <3>1, TickStep DEF House!Next
    <3>2. CASE ~AdvanceBlock
      BY <2>7, <3>2, TradeStep DEF House!Next
    <3> QED
      BY <3>1, <3>2
  <2>8. CASE BankStep(Officers) /\ UNCHANGED <<tokenVars, govVars>>
    BY <2>8, BankIsFunds
  <2>9. CASE UNCHANGED vars
    <3>1. UNCHANGED <<height, proposals, balanceOf, bankBalance, direct, roles, params>>
      BY <2>9 DEF vars, tokenVars, bankVars, govVars
    <3>2. MotionsAt(height', checkpoints', proposals') = MotionsNow
      BY <3>1, SameMotions
    <3>3. ControlOf' = ControlOf
      BY <3>1 DEF ControlOf
    <3> QED
      BY <3>1, <3>2, <3>3, MotionShape DEF House!vars, MotionsNow
  <2> QED
    BY <2>1, <2>3, <2>4, <2>5, <2>6, <2>7, <2>8, <2>9 DEF Next, GovStep
<1> QED
  BY <1>1, HouseInit, DaoInvariant, PTL DEF Spec, ImplementsAssembly, House!Spec

-----------------------------------------------------------------------------
(* The search of the checkpoints. *)
SearchInv == SearchTypeOK /\ LoopInvariant /\ SearchCorrect

LEMMA InitSearchInv == SearchInit => SearchInv
<1> SUFFICES ASSUME SearchInit PROVE SearchInv
  OBVIOUS
<1>1. IsHistory(ckpts) /\ blockNumber \in Nat
  BY HistoriesAssumption, BlocksAssumption DEF SearchInit
<1> QED
  BY <1>1 DEF SearchInit, SearchInv, SearchTypeOK, LoopInvariant, SearchCorrect

LEMMA NextSearchInv == SearchInv /\ [SearchNext]_searchVars => SearchInv'
<1> SUFFICES ASSUME SearchInv, [SearchNext]_searchVars PROVE SearchInv'
  OBVIOUS
<1>1. /\ IsHistory(ckpts) /\ blockNumber \in Nat
      /\ DOMAIN ckpts = 1..Len(ckpts) /\ Len(ckpts) \in Nat
      /\ \A k \in DOMAIN ckpts : ckpts[k].fromBlock \in Nat /\ ckpts[k].votes \in Nat
      /\ ckpts = <<>> <=> Len(ckpts) = 0
      /\ lower \in Nat /\ upper \in Nat /\ result \in Nat
  BY HistoryFacts DEF SearchInv, SearchTypeOK
<1>2. CASE ReturnEmpty
  <2>1. VotesAt(ckpts, blockNumber) = 0
    BY <1>1, <1>2, BeforeFirst DEF ReturnEmpty
  <2> QED
    BY <1>1, <1>2, <2>1
    DEF ReturnEmpty, Return, SearchInv, SearchTypeOK, LoopInvariant, SearchCorrect
<1>3. CASE ReturnNewest
  <2>1. VotesAt(ckpts, blockNumber) = ckpts[Len(ckpts)].votes
    BY <1>1, <1>3, InForceUnique DEF ReturnNewest, Elem
  <2> QED
    BY <1>1, <1>3, <2>1
    DEF ReturnNewest, Return, Elem, SearchInv, SearchTypeOK, LoopInvariant, SearchCorrect
<1>4. CASE ReturnBeforeFirst
  <2>1. VotesAt(ckpts, blockNumber) = 0
    BY <1>1, <1>4, BeforeFirst DEF ReturnBeforeFirst, Elem
  <2> QED
    BY <1>1, <1>4, <2>1
    DEF ReturnBeforeFirst, Return, SearchInv, SearchTypeOK, LoopInvariant, SearchCorrect
<1>5. CASE EnterLoop
  BY <1>1, <1>5 DEF EnterLoop, Elem, SearchInv, SearchTypeOK, LoopInvariant, SearchCorrect
<1>6. ASSUME pc = "loop", upper > lower
      PROVE  /\ Center \in Nat /\ lower < Center /\ Center <= upper
             /\ upper < Len(ckpts) /\ Center + 1 \in DOMAIN ckpts
  BY <1>1, <1>6 DEF Center, SearchInv, LoopInvariant
<1>7. CASE IterateHit
  <2>1. /\ Center + 1 \in DOMAIN ckpts /\ Center \in Nat
        /\ ckpts[Center + 1].fromBlock = blockNumber
    BY <1>6, <1>7 DEF IterateHit, Elem
  <2>2. Center + 1 < Len(ckpts) => blockNumber < ckpts[Center + 1 + 1].fromBlock
    BY <1>1, <2>1 DEF IsHistory
  <2>3. VotesAt(ckpts, blockNumber) = ckpts[Center + 1].votes
    BY <1>1, <2>1, <2>2, InForceUnique
  <2> QED
    BY <1>1, <1>7, <2>1, <2>3
    DEF IterateHit, Return, Elem, SearchInv, SearchTypeOK, LoopInvariant, SearchCorrect
<1>8. CASE IterateUp
  BY <1>1, <1>6, <1>8
  DEF IterateUp, Elem, SearchInv, SearchTypeOK, LoopInvariant, SearchCorrect
<1>9. CASE IterateDown
  <2>1. /\ Center + 1 \in DOMAIN ckpts /\ Center \in Nat
        /\ lower < Center /\ Center <= upper /\ upper < Len(ckpts)
        /\ blockNumber < ckpts[Center + 1].fromBlock
        /\ upper' = Center - 1 /\ pc' = "loop" /\ lower' = lower
        /\ UNCHANGED <<ckpts, blockNumber, result>>
    BY <1>1, <1>6, <1>9 DEF IterateDown, Elem
  <2>2. upper' + 1 = Center /\ upper' \in Nat
    BY <1>1, <2>1
  <2>3. LoopInvariant'
    BY <1>1, <2>1, <2>2, <1>9 DEF IterateDown, LoopInvariant, Elem, SearchInv
  <2> QED
    BY <1>1, <2>1, <2>2, <2>3, <1>9
    DEF IterateDown, SearchInv, SearchTypeOK, SearchCorrect
<1>10. CASE ExitLoop
  <2>1. lower = upper /\ lower + 1 \in DOMAIN ckpts /\ Elem(lower).fromBlock <= blockNumber
    BY <1>1, <1>10 DEF ExitLoop, SearchInv, LoopInvariant
  <2>2. lower + 1 < Len(ckpts) => blockNumber < ckpts[lower + 1 + 1].fromBlock
    BY <1>1, <1>10, <2>1 DEF ExitLoop, SearchInv, LoopInvariant, Elem
  <2>3. VotesAt(ckpts, blockNumber) = ckpts[lower + 1].votes
    BY <1>1, <2>1, <2>2, InForceUnique DEF Elem
  <2> QED
    BY <1>1, <1>10, <2>1, <2>3
    DEF ExitLoop, Return, Elem, SearchInv, SearchTypeOK, LoopInvariant, SearchCorrect
<1>11. CASE UNCHANGED searchVars
  BY <1>11 DEF searchVars, SearchInv, SearchTypeOK, LoopInvariant, SearchCorrect, Elem
<1> QED
  BY <1>2, <1>3, <1>4, <1>5, <1>7, <1>8, <1>9, <1>10, <1>11 DEF SearchNext

(* For every array and every block, the search returns the weight in force *)
(* at the block.                                                           *)
THEOREM SearchIsCorrect == SearchSpec => [](SearchTypeOK /\ SearchCorrect)
<1>1. SearchInit => SearchInv
  BY InitSearchInv
<1>2. SearchInv /\ [SearchNext]_searchVars => SearchInv'
  BY NextSearchInv
<1>3. SearchInv => SearchTypeOK /\ SearchCorrect
  BY DEF SearchInv
<1> QED
  BY <1>1, <1>2, <1>3, PTL DEF SearchSpec

(* Every iteration at least halves the range between the bounds. *)
THEOREM LoopAlwaysHalves == SearchSpec => LoopHalves
<1>1. SearchInv /\ [SearchNext]_searchVars
        => [pc = "loop" /\ pc' = "loop" =>
              upper' - lower' <= (upper - lower) \div 2]_searchVars
  <2> SUFFICES ASSUME SearchInv, SearchNext, pc = "loop", pc' = "loop"
               PROVE  upper' - lower' <= (upper - lower) \div 2
    BY DEF searchVars
  <2>1. lower \in Nat /\ upper \in Nat
    BY DEF SearchInv, SearchTypeOK
  <2>2. CASE IterateUp
    BY <2>1, <2>2 DEF IterateUp, Center
  <2>3. CASE IterateDown
    BY <2>1, <2>3 DEF IterateDown, Center
  <2> QED
    BY <2>2, <2>3 DEF SearchNext, ReturnEmpty, ReturnNewest, ReturnBeforeFirst, EnterLoop,
                      IterateHit, ExitLoop, Return
<1> QED
  BY <1>1, InitSearchInv, NextSearchInv, PTL DEF SearchSpec, LoopHalves

=============================================================================
