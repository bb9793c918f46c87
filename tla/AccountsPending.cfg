\* A pending user whose invitation expires, or whose account is disabled.
CONSTANTS
    Users <- MCPair
    Founders <- MCFounder
    Invitations = {i1, i2}
    InviteeOf <- MCInviteeOf
    Sessions = {n1}
    Domains = {}
    Bodies <- Activation
    Slots = {r1, r2}
    Operations = {"create", "accept", "reissue", "revoke", "update"}
SYMMETRY SlotSymmetry
SPECIFICATION AccountsSpec
INVARIANTS PendingCanBeInvited
