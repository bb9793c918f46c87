\* Every failure of one submission with up to three recipients, under fairness.
CONSTANTS
    Users = {u1}
    Credentials = {c1}
    UserOf <- MCUserOf
    Domains = {d1}
    AddressForms = {"*"}
    Submissions = {s1}
    CredentialOf <- MCCredentialOf
    MaxRecipients = 3
    MaxData = 1
    NoDomain = NoDomain
SPECIFICATION FairSteadySpec
INVARIANTS AllRecipientsBeforeData TemporaryRefusalIsRetryable
PROPERTIES DataEnds PendingIsResolved
