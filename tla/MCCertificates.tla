----------------------------- MODULE MCCertificates -----------------------------
\* Validity of the certificates that the runs of Certificates use.
EXTENDS Certificates, TLC

CONSTANTS c1, c2, c3

\* c1 ends first, c2 begins later, c3 has another host's name.
Begins == c1 :> 0 @@ c2 :> 1 @@ c3 :> 0
Ends == c1 :> 2 @@ c2 :> 4 @@ c3 :> 4
=============================================================================
