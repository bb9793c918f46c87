\* Two registrations of the name, both forms of address.
CONSTANTS
    Users = {u1}
    Credentials = {c1}
    UserOf <- MCUserOf
    Domains = {d1, d2}
    AddressForms = {"*", "exact"}
SPECIFICATION PolicySpec
INVARIANTS PolicyTypeOK OneRoute StrayGrantsWereOvertaken
PROPERTIES RevocationIsFinal
