\* Two submissions racing for one permit under a policy left alone.
CONSTANTS
    Users = {u1}
    Credentials = {c1}
    UserOf <- MCUserOf
    Domains = {d1}
    AddressForms = {"*"}
    Submissions = {s1, s2}
    CredentialOf <- MCCredentialOf
    MaxRecipients = 1
    MaxData = 1
    NoDomain = NoDomain
SPECIFICATION SteadySpec
INVARIANTS TypeOK KnownAcceptanceIsReported OnlyPendingIsSent PermitsAccounted
PROPERTIES VerdictsAreFinal
