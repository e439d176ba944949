--------------------------------- MODULE Gov ---------------------------------
(***************************************************************************)
(* Gov.sol, composed with the token it counts votes with and the treasury  *)
(* it pays from: proposals, votes weighted by the snapshot at startBlock,  *)
(* and the execution that withdraws from BankDAO.                          *)
(*                                                                         *)
(* A proposal keeps what the decisions depend on; description, reason,     *)
(* proposer and target decide nothing.  hasVoted and votes are one         *)
(* function, ballot.  execute sets Executed before it calls the bank, and  *)
(* makes no write after a call that succeeds; a failing one is reverted    *)
(* whole.  So a successful execution is one step, and what the paid        *)
(* account does meanwhile is a step after it.                              *)
(***************************************************************************)
EXTENDS VoteToken, BankDAO

CONSTANTS GovContract,   \* the account of Gov itself
          Officers,      \* the accounts that call the bank themselves
          ParamChoices,  \* the parameter settings explored
          InitialParams,
          Amounts,       \* the amounts proposed
          MaxProposals   \* bound on the proposals explored

Params == [votingDelay : Nat, votingPeriod : Nat, proposalThreshold : Nat, quorum : Nat]

ASSUME GovAssumption ==
    /\ GovContract \in Accounts /\ GovContract # Deployer
    /\ Officers \subseteq Accounts \ {GovContract}
    /\ InitialParams \in Params /\ ParamChoices \subseteq Params
    /\ Amounts \subseteq Nat /\ MaxProposals \in Nat

VARIABLES proposals,  \* proposal i is proposals[i]
          params      \* votingDelay, votingPeriod, proposalThreshold, quorum

govVars == <<proposals, params>>
vars == <<tokenVars, bankVars, govVars>>

Ballots == {"none", "for", "against"}

NewProposal(amount) ==
    [amount       |-> amount,
     startBlock   |-> height + params.votingDelay,
     endBlock     |-> height + params.votingDelay + params.votingPeriod,
     forVotes     |-> 0,
     againstVotes |-> 0,
     state        |-> "Pending",
     ballot       |-> [u \in Users |-> "none"]]

(* The deployment of DAOTest.setUp: Gov is the bank's admin, the deployer  *)
(* is an admin no more and remains the super admin.                        *)
Init ==
    /\ TokenInit
    /\ bankBalance = 0 /\ deposited = 0 /\ direct = 0
    /\ roles = [r \in RoleNames |-> IF r = "admin" THEN {GovContract} ELSE {Deployer}]
    /\ proposals = <<>>
    /\ params = InitialParams

(* The threshold is met with the votes of now, not of a snapshot. *)
propose(proposer, amount) ==
    /\ getVotes(proposer) >= params.proposalThreshold
    /\ amount > 0
    /\ Len(proposals) < MaxProposals
    /\ proposals' = Append(proposals, NewProposal(amount))
    /\ UNCHANGED <<tokenVars, bankVars, params>>

(* Mutant: the end of the vote is not checked. *)
CanVoteLate(id, voter) ==
    LET p == proposals[id]
    IN  /\ p.ballot[voter] = "none"
        /\ p.startBlock <= height
        /\ PastBlock(p.startBlock)
        /\ getPastVotes(voter, p.startBlock) > 0

(* What castVote requires.  getPastVotes requires a block that is over, so *)
(* no vote is possible in startBlock itself.                               *)
CanVote(id, voter) ==
    LET p == proposals[id]
    IN  /\ p.ballot[voter] = "none"
        /\ p.startBlock <= height /\ height <= p.endBlock
        /\ PastBlock(p.startBlock)
        /\ getPastVotes(voter, p.startBlock) > 0

Tallied(p, voter, support, weight) ==
    [p EXCEPT !.ballot       = [p.ballot EXCEPT ![voter] = IF support THEN "for" ELSE "against"],
              !.forVotes     = IF support THEN p.forVotes + weight ELSE p.forVotes,
              !.againstVotes = IF support THEN p.againstVotes ELSE p.againstVotes + weight,
              !.state        = IF p.state = "Pending" THEN "Active" ELSE p.state]

(* Mutant: the weight of now is counted, not that of the snapshot. *)
castVoteNow(id, voter, support) ==
    /\ CanVote(id, voter)
    /\ proposals' = [proposals EXCEPT ![id] =
         Tallied(@, voter, support, getVotes(voter))]
    /\ UNCHANGED <<tokenVars, bankVars, params>>

castVote(id, voter, support) ==
    LET p == proposals[id]
    IN  /\ CanVote(id, voter)
        /\ proposals' = [proposals EXCEPT ![id] =
             Tallied(p, voter, support, getPastVotes(voter, p.startBlock))]
        /\ UNCHANGED <<tokenVars, bankVars, params>>

Passed(p) == p.forVotes > p.againstVotes /\ p.forVotes >= params.quorum

(* Mutants: execution before the end of the vote, or only for a while.     *)
ExecutableEarly(p) == p.state \in {"Active", "Succeeded"}

ExecutableBriefly(p) ==
    /\ p.state \in {"Active", "Succeeded"}
    /\ height > p.endBlock /\ height <= p.endBlock + params.votingPeriod

(* execute: stored as Active (a first vote was cast), and voting over. *)
Executable(p) == p.state \in {"Active", "Succeeded"} /\ height > p.endBlock

executeDefeated(id) ==
    /\ Executable(proposals[id])
    /\ ~Passed(proposals[id])
    /\ proposals' = [proposals EXCEPT ![id].state = "Defeated"]
    /\ UNCHANGED <<tokenVars, bankVars, params>>

(* Mutant: the proposal stays Succeeded when it is paid. *)
executePassedUnmarked(id) ==
    /\ Executable(proposals[id])
    /\ Passed(proposals[id])
    /\ proposals' = [proposals EXCEPT ![id].state = "Succeeded"]
    /\ Withdraw(GovContract, proposals[id].amount)
    /\ UNCHANGED <<tokenVars, params, direct>>

executePassed(id) ==
    /\ Executable(proposals[id])
    /\ Passed(proposals[id])
    /\ proposals' = [proposals EXCEPT ![id].state = "Executed"]
    /\ Withdraw(GovContract, proposals[id].amount)
    /\ UNCHANGED <<tokenVars, params, direct>>

(* Anyone may call it. *)
setVotingParameters(new) ==
    /\ params' = new
    /\ UNCHANGED <<tokenVars, bankVars, proposals>>

GovStep ==
    \/ \E u \in Users, a \in Amounts : propose(u, a)
    \/ \E id \in DOMAIN proposals :
          \/ \E u \in Users, s \in BOOLEAN : castVote(id, u, s)
          \/ executeDefeated(id)
          \/ executePassed(id)
    \/ \E new \in ParamChoices : setVotingParameters(new)

(* Gov's code calls nothing of the bank but withdraw. *)
Next ==
    \/ GovStep
    \/ TokenNext /\ UNCHANGED <<bankVars, govVars>>
    \/ BankStep(Officers) /\ UNCHANGED <<tokenVars, govVars>>

Spec == Init /\ [][Next]_vars

(* getProposalState: the state the view reports. *)
View(p) ==
    IF p.state = "Executed" THEN "Executed"
    ELSE IF height < p.startBlock THEN "Pending"
    ELSE IF height <= p.endBlock THEN "Active"
    ELSE IF Passed(p) THEN "Succeeded"
    ELSE "Defeated"

-----------------------------------------------------------------------------

Proposal ==
    [amount : Nat, startBlock : Nat, endBlock : Nat, forVotes : Nat, againstVotes : Nat,
     state : {"Pending", "Active", "Defeated", "Executed"}, ballot : [Users -> Ballots]]

TypeOK ==
    /\ TokenTypeOK
    /\ BankTypeOK
    /\ proposals \in Seq(Proposal)
    /\ params \in Params

(* The weight a ballot brought in. *)
Weights(p, side) ==
    [u \in Users |-> IF p.ballot[u] \in side THEN getPastVotes(u, p.startBlock) ELSE 0]

(* The tallies stay the sum of the voters' snapshot weights, however       *)
(* tokens were moved before, during and after the vote.                    *)
TallyMatchesBallots ==
    \A i \in DOMAIN proposals :
        LET p == proposals[i]
        IN  /\ p.forVotes     = SumOf(Weights(p, {"for"}))
            /\ p.againstVotes = SumOf(Weights(p, {"against"}))

(* No token votes twice: all that was cast on a proposal was backed by the *)
(* supply there was in its start block.                                    *)
VotesBackedBySupply ==
    \A i \in DOMAIN proposals :
        LET p == proposals[i]
        IN  PastBlock(p.startBlock) =>
              p.forVotes + p.againstVotes <= getPastTotalSupply(p.startBlock)

(* The treasury's books: what was paid in is there, or an admin took it,   *)
(* or an executed proposal paid it out, once.                              *)
PaidOut == SumOf([i \in DOMAIN proposals |->
                    IF proposals[i].state = "Executed" THEN proposals[i].amount ELSE 0])

TreasuryBalances == bankBalance + direct + PaidOut = deposited

(* Whether a vote passed can change after its end only by a change of the  *)
(* parameters, and a decision once stored stands.                          *)
DecisionStands ==
    [][\A i \in DOMAIN proposals :
          LET p == proposals[i]
          IN  /\ height > p.endBlock /\ params' = params => Passed(p)' = Passed(p)
              /\ p.state \in {"Executed", "Defeated"} => proposals'[i] = p]_vars

(* While the deployer's super role is gone and Gov is the only admin, only *)
(* executed proposals move money.                                          *)
OnlyProposalsSpend ==
    [][/\ roles["super"] = {} /\ roles["admin"] = {GovContract}
       /\ bankBalance' < bankBalance
       => \E i \in DOMAIN proposals :
             /\ View(proposals[i]) = "Succeeded"
             /\ proposals'[i].state = "Executed"]_vars

(* A passed proposal the bank can pay stays executable until it is         *)
(* executed, the money goes elsewhere, the parameters change or Gov loses  *)
(* its role: time and later transfers of tokens do not expire it.          *)
CanExecute(p) ==
    Executable(p) /\ Passed(p) /\ MayWithdraw(GovContract, p.amount)

StaysExecutable ==
    [][\A i \in DOMAIN proposals :
          CanExecute(proposals[i]) =>
              \/ CanExecute(proposals[i])'
              \/ proposals'[i].state = "Executed"
              \/ bankBalance' < bankBalance
              \/ params' # params
              \/ GovContract \notin roles'["admin"]]_vars

(* The DAO as its members see it.  A proposal is a motion whose vote opens *)
(* when its startBlock is over, its weights those of the snapshot.         *)
MotionOf(p) ==
    [amount   |-> p.amount,
     stage    |-> IF height <= p.startBlock THEN "proposed"
                  ELSE IF height <= p.endBlock THEN "voting" ELSE "over",
     weight   |-> [u \in Users |-> IF PastBlock(p.startBlock)
                                   THEN getPastVotes(u, p.startBlock) ELSE 0],
     ballot   |-> p.ballot,
     decision |-> IF p.state = "Executed" THEN "paid"
                  ELSE IF p.state = "Defeated" THEN "refused" ELSE "open"]

ControlOf ==
    IF GovContract \notin roles["admin"] THEN "out"
    ELSE IF roles["super"] = {} /\ roles["admin"] = {GovContract} THEN "sole" ELSE "shared"

(* Gov, its token and its treasury implement the abstract assembly: the    *)
(* checkpoints, the snapshot block, the running tallies and the order of   *)
(* transactions within a block never make a member's vote weigh other than *)
(* what it held when the vote opened, count twice or late, or a motion pay *)
(* twice or against the ballots; no money leaves unaccounted for; and once *)
(* Gov alone controls the bank, it does so for ever.                       *)
House == INSTANCE Assembly WITH
    Members  <- Users,
    holdings <- balanceOf,
    funds    <- bankBalance,
    taken    <- direct,
    control  <- ControlOf,
    rules    <- [threshold |-> params.proposalThreshold, quorum |-> params.quorum],
    motions  <- [i \in DOMAIN proposals |-> MotionOf(proposals[i])]
ImplementsAssembly == House!Spec

=============================================================================
