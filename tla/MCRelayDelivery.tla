--------------------------- MODULE MCRelayDelivery ---------------------------
(***************************************************************************)
(* Instances of RelayDelivery for TLC.                                     *)
(***************************************************************************)
EXTENDS RelayDelivery

MCUserOf == [c \in Credentials |-> CHOOSE u \in Users : TRUE]
MCCredentialOf == [s \in Submissions |-> CHOOSE c \in Credentials : TRUE]

\* Every credential is authorized on every domain and no manager acts: the
\* policy a management session has set up, left alone while submissions race.
SteadyInit ==
    /\ RelayInit
    /\ status = [d \in Domains |-> "approved"]
    /\ registered = {}
    /\ grants = Users \X Domains \X AddressForms
    /\ scopes = Credentials \X Domains \X AddressForms
    /\ token = [c \in Credentials |-> "live"]
    /\ active = Users
    /\ configured = Domains
    /\ granting = {}
    /\ clearing = {}
    /\ overtaken = {}

SteadyNext == RelayNext /\ UNCHANGED policyVars
SteadySpec == SteadyInit /\ [][SteadyNext]_vars
FairSteadySpec == SteadySpec /\ Fairness
=============================================================================
