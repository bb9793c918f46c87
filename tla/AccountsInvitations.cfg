\* Invitations of one user accepted, replaced, revoked, purged and disabled.
CONSTANTS
    Users <- MCUsers
    Founders <- MCFounder
    Invitations = {i1, i2}
    InviteeOf <- MCInviteeOf
    Sessions = {n1}
    Domains = {}
    Bodies <- Activation
    Slots = {r1, r2}
    Operations = {"create", "accept", "reissue", "revoke", "update", "login", "operator"}
SYMMETRY SlotSymmetry
SPECIFICATION AccountsSpec
INVARIANTS OneInvitation
PROPERTIES ImplementsRules
