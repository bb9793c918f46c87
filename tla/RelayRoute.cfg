\* The domain name is deleted and registered again during a submission.
CONSTANTS
    Users = {u1}
    Credentials = {c1}
    UserOf <- MCUserOf
    Domains = {d1, d2}
    AddressForms = {"*"}
    Submissions = {s1}
    CredentialOf <- MCCredentialOf
    MaxRecipients = 1
    MaxData = 1
    NoDomain = NoDomain
SPECIFICATION Spec
PROPERTIES RouteIsAuthorized
