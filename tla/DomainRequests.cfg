\* Two requests at a time on a domain, on roles in it, on the operators who may own it.
CONSTANTS
    Users <- MCUsers
    Founders <- MCUsers
    Invitations = {}
    InviteeOf <- NoInvitee
    Sessions = {n1}
    Domains = {d1}
    Bodies <- Changes
    Slots = {r1, r2}
    Operations <- MCOperations
SYMMETRY SlotSymmetry
SPECIFICATION MixedSpec
INVARIANTS DomainTypeOK OperatorRemains NoLockCycle
PROPERTIES ImplementsRules OnlyOwnerTransfers OnlyActiveUsersGain
