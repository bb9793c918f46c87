\* Names that resolve to public, mixed and repeated records, and change them.
CONSTANTS
    a1 = a1
    a2 = a2
    private = private
    name = name
    Addresses = {a1, a2, private}
    Public = {a1, a2}
    Names = {name}
    Endpoints <- ModelEndpoints
    Answers <- ModelAnswers
SPECIFICATION FairUpstreamSpec
INVARIANTS UpstreamTypeOK OnlyPublicDialled PasswordOverTLS NoSocketIsLeft
PROPERTIES ConnectEnds
