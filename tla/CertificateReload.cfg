\* Two valid pairs, one of another host, files replaced while they are read, clock and restarts.
CONSTANTS
    c1 = c1
    c2 = c2
    c3 = c3
    Certs = {c1, c2, c3}
    NotBefore <- Begins
    NotAfter <- Ends
    Named = {c1, c2}
    Odd = {c3}
    Absent = Absent
    None = None
    Sessions = {s1}
    MaxTime = 3
SPECIFICATION FairCertSpec
INVARIANTS CertTypeOK ActiveIsOnePair SessionsBeganValid
PROPERTIES PairIsActivated
