------------------------------- MODULE BankDAO -------------------------------
(***************************************************************************)
(* BankDAO.sol: the treasury, and who may take from it.  Two roles of the  *)
(* access-control library: "admin" withdraws, "super" (DEFAULT_ADMIN_ROLE) *)
(* hands out both.                                                         *)
(*                                                                         *)
(* withdraw pays by a call that runs the payee's code.  It is guarded      *)
(* against re-entry and makes no write after the call, and a failing call  *)
(* reverts it whole, so a withdrawal that succeeds is one step and what    *)
(* the payee does during the call are steps after it.                      *)
(***************************************************************************)
EXTENDS Integers, FiniteSets

CONSTANTS Accounts,    \* the accounts roles are given to
          Deployer,    \* initialAdmin
          MaxDeposits  \* bound on the ether ever paid in

ASSUME AccountsAssumption == Deployer \in Accounts
ASSUME MaxDepositsAssumption == MaxDeposits \in Nat

VARIABLES bankBalance,  \* address(this).balance
          roles,        \* who holds each role
          deposited,    \* history: all that was paid in
          direct        \* history: all that admins withdrew themselves

bankVars == <<bankBalance, roles, deposited, direct>>

RoleNames == {"admin", "super"}

(* receive and deposit: a plain transfer may be of nothing, deposit not. *)
Deposit(value) ==
    /\ value > 0
    /\ deposited + value <= MaxDeposits
    /\ bankBalance' = bankBalance + value
    /\ deposited' = deposited + value
    /\ UNCHANGED <<roles, direct>>

(* Mutant: the role is not asked for. *)
MayWithdrawAnyone(caller, amount) == amount > 0 /\ bankBalance >= amount

(* What withdraw requires of its caller and of the balance, and does. *)
MayWithdraw(caller, amount) ==
    caller \in roles["admin"] /\ amount > 0 /\ bankBalance >= amount

Withdraw(caller, amount) ==
    /\ MayWithdraw(caller, amount)
    /\ bankBalance' = bankBalance - amount
    /\ UNCHANGED <<roles, deposited>>

(* An admin's own withdrawal, as opposed to one a proposal makes. *)
WithdrawDirect(caller, amount) ==
    /\ Withdraw(caller, amount)
    /\ direct' = direct + amount

(* The library's entry points grantRole, revokeRole and renounceRole. *)
GrantRole(caller, role, account) ==
    /\ caller \in roles["super"]
    /\ roles' = [roles EXCEPT ![role] = @ \cup {account}]
    /\ UNCHANGED <<bankBalance, deposited, direct>>

RevokeRole(caller, role, account) ==
    /\ caller \in roles["super"]
    /\ roles' = [roles EXCEPT ![role] = @ \ {account}]
    /\ UNCHANGED <<bankBalance, deposited, direct>>

RenounceRole(caller, role) ==
    /\ roles' = [roles EXCEPT ![role] = @ \ {caller}]
    /\ UNCHANGED <<bankBalance, deposited, direct>>

addAdmin(caller, newAdmin) == GrantRole(caller, "admin", newAdmin)
removeAdmin(caller, admin) == RevokeRole(caller, "admin", admin)

(* Grants to the new super admin, then revokes from the caller, then makes *)
(* the new one an admin, in that order.                                    *)
transferSuperAdmin(caller, new) ==
    /\ caller \in roles["super"]
    /\ roles' = [roles EXCEPT !["super"] = (@ \cup {new}) \ {caller},
                              !["admin"] = @ \cup {new}]
    /\ UNCHANGED <<bankBalance, deposited, direct>>

(* What the accounts in callers may do on their own. *)
BankStep(callers) ==
    \/ \E v \in 1..MaxDeposits : Deposit(v) \/ \E c \in callers : WithdrawDirect(c, v)
    \/ \E c \in callers, a \in Accounts :
          \/ addAdmin(c, a) \/ removeAdmin(c, a) \/ transferSuperAdmin(c, a)
          \/ \E r \in RoleNames : GrantRole(c, r, a) \/ RevokeRole(c, r, a)
    \/ \E c \in callers, r \in RoleNames : RenounceRole(c, r)

-----------------------------------------------------------------------------

BankTypeOK ==
    /\ bankBalance \in Nat /\ deposited \in Nat /\ direct \in Nat
    /\ roles \in [RoleNames -> SUBSET Accounts]

=============================================================================
