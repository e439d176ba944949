------------------------------ MODULE Assembly -------------------------------
(***************************************************************************)
(* What a DAO promises its members, with no block, checkpoint, snapshot or *)
(* tally in sight: whoever holds enough may move that a sum be paid; when  *)
(* the vote on a motion opens, every member's weight is what it holds at   *)
(* that moment and stays so; each member votes once, while the vote is     *)
(* open; a motion is decided after its vote, once, by the weights of the   *)
(* ballots that were cast; and where nobody else has a hand on the funds,  *)
(* they only ever pay for motions that carried.                            *)
(***************************************************************************)
EXTENDS Sums, Sequences

CONSTANTS Members,
          Amounts   \* the sums members may ask for

VARIABLES holdings,  \* what every member holds
          funds,     \* what the DAO holds
          taken,     \* what other hands took, in all
          control,   \* its hand on the funds: "out", "shared" or "sole"
          rules,     \* threshold to move, quorum to carry
          motions

vars == <<holdings, funds, taken, control, rules, motions>>

Rules == [threshold : Nat, quorum : Nat]

Motion(amount) ==
    [amount   |-> amount,
     stage    |-> "proposed",
     weight   |-> [u \in Members |-> 0],
     ballot   |-> [u \in Members |-> "none"],
     decision |-> "open"]

(* The weight that was cast for a side. *)
Cast(m, side) == SumOf([u \in Members |-> IF m.ballot[u] = side THEN m.weight[u] ELSE 0])

Carried(m) == Cast(m, "for") > Cast(m, "against") /\ Cast(m, "for") >= rules.quorum

Init ==
    /\ holdings \in [Members -> Nat] /\ rules \in Rules
    /\ funds = 0 /\ taken = 0 /\ control \in {"out", "shared", "sole"}
    /\ motions = <<>>

(* Members give to each other and are given more; nothing is lost. *)
Trade ==
    /\ UNCHANGED <<funds, taken, control, rules, motions>>
    /\ holdings' \in [Members -> Nat] /\ SumOf(holdings') >= SumOf(holdings)

(* The funds grow by gifts. Other hands, if there are any, may take from   *)
(* them, and what they take is counted.                                    *)
Receive ==
    /\ UNCHANGED <<holdings, taken, control, rules, motions>>
    /\ funds' \in Nat /\ funds' > funds

Take ==
    /\ UNCHANGED <<holdings, control, rules, motions>>
    /\ control # "sole" /\ funds' \in Nat /\ funds' < funds
    /\ taken' = taken + (funds - funds')

(* Once the DAO alone has the funds in its hand, it has them for ever. *)
HandOver ==
    /\ UNCHANGED <<holdings, funds, taken, rules, motions>>
    /\ control # "sole" /\ control' \in {"out", "shared", "sole"}

Amend ==
    /\ UNCHANGED <<holdings, funds, taken, control, motions>>
    /\ rules' \in Rules

Move(u, amount) ==
    /\ amount > 0 /\ holdings[u] >= rules.threshold
    /\ motions' = Append(motions, Motion(amount))
    /\ UNCHANGED <<holdings, funds, taken, control, rules>>

(* Time takes a motion from proposed to voting to over; the weights are    *)
(* taken when it leaves proposed, and never again.                         *)
Later(p, q) ==
    /\ q.amount = p.amount /\ q.ballot = p.ballot /\ q.decision = p.decision
    /\ p.stage = "proposed" \/ p.stage = q.stage \/ q.stage = "over"
    /\ q.weight = IF p.stage = "proposed" /\ q.stage # "proposed" THEN holdings ELSE p.weight

Tick ==
    /\ UNCHANGED <<holdings, funds, taken, control, rules>>
    /\ DOMAIN motions' = DOMAIN motions
    /\ \A i \in DOMAIN motions : Later(motions[i], motions'[i])

Vote(i, u, side) ==
    /\ motions[i].stage = "voting"
    /\ motions[i].ballot[u] = "none" /\ motions[i].weight[u] > 0
    /\ motions' = [motions EXCEPT ![i].ballot[u] = side]
    /\ UNCHANGED <<holdings, funds, taken, control, rules>>

(* A motion nobody voted on is never decided. *)
Refuse(i) ==
    /\ motions[i].stage = "over" /\ motions[i].decision = "open"
    /\ ~Carried(motions[i])
    /\ Cast(motions[i], "for") + Cast(motions[i], "against") > 0
    /\ motions' = [motions EXCEPT ![i].decision = "refused"]
    /\ UNCHANGED <<holdings, funds, taken, control, rules>>

Pay(i) ==
    /\ motions[i].stage = "over" /\ motions[i].decision = "open"
    /\ Carried(motions[i])
    /\ control # "out" /\ funds >= motions[i].amount
    /\ funds' = funds - motions[i].amount
    /\ motions' = [motions EXCEPT ![i].decision = "paid"]
    /\ UNCHANGED <<holdings, taken, control, rules>>

Next ==
    \/ Trade \/ Tick \/ Receive \/ Take \/ HandOver \/ Amend
    \/ \E u \in Members, a \in Amounts : Move(u, a)
    \/ \E i \in DOMAIN motions :
          \/ \E u \in Members, side \in {"for", "against"} : Vote(i, u, side)
          \/ Refuse(i) \/ Pay(i)

Spec == Init /\ [][Next]_vars

=============================================================================
