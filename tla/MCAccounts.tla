------------------------------ MODULE MCAccounts ------------------------------
(***************************************************************************)
(* Instances of Accounts for TLC.                                          *)
(***************************************************************************)
EXTENDS Accounts, TLC

MCUsers == 1..3
MCPair == 1..2
MCFounder == {1}

\* Every invitation is for the user registered last.
MCInviteeOf == [i \in Invitations |-> CHOOSE u \in Users : \A v \in Users : v <= u]

Activation == {{"disable"}, {"enable"}}

SlotSymmetry == Permutations(Slots) \cup Permutations(Invitations)
=============================================================================
