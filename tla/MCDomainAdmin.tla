----------------------------- MODULE MCDomainAdmin -----------------------------
(***************************************************************************)
(* An instance of DomainAdmin for TLC.                                     *)
(***************************************************************************)
EXTENDS DomainAdmin, TLC

MCUsers == 1..2
NoInvitee == [i \in Invitations |-> 1]

Activation == {{"disable"}, {"enable"}}
Disablement == {{"disable"}}
Changes == Activation \cup {{"demote"}, {"promote"}, {"disable", "demote"}}

\* The requests that meet in one behaviour: those on an owner, on roles and
\* grants, on operators.  All of them at once are more than TLC can enumerate.
Mixes == [owners    |-> {"create_domain", "transfer", "delete_domain", "update", "put_config"},
          roles     |-> {"add_admin", "remove_admin", "create_address", "delete_address",
                         "create_grant", "delete_grant", "update"},
          operators |-> {"update"}]

BodiesOf == [owners |-> Activation, roles |-> Disablement, operators |-> Changes]

MCOperations == UNION {Mixes[m] : m \in DOMAIN Mixes}

VARIABLE mix

Made(q) ==
    \/ q.op = "none"
    \/ q.op \in Mixes[mix] /\ (q.op = "update" => q.body \in BodiesOf[mix])

MixedInit == DomainInit /\ mix \in DOMAIN Mixes

MixedNext ==
    /\ DomainNext
    /\ \A r \in Slots : Made(request'[r])
    /\ UNCHANGED mix

MixedSpec == MixedInit /\ [][MixedNext]_<<domainVars, mix>>

SlotSymmetry == Permutations(Slots)
=============================================================================
