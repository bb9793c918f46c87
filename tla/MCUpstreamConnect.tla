---------------------------- MODULE MCUpstreamConnect ----------------------------
\* Endpoints and answers for the run of UpstreamConnect.
EXTENDS UpstreamConnect

CONSTANTS a1, a2, private, name

Row(host, security, auth, username, password) ==
    [host |-> host, port |-> 25, security |-> security, auth |-> auth,
     username |-> username, password |-> password]

\* Rows that one request leaves, a literal address of each kind, and what two
\* concurrent requests leave: credentials beside auth = "none".
ModelEndpoints ==
    {Row(name, security, "password", TRUE, TRUE) : security \in {"tls", "starttls"}}
      \cup {Row(host, "none", "none", FALSE, FALSE) : host \in {name, a1, private}}
      \cup {Row(name, "starttls", "none", renamed, TRUE) : renamed \in BOOLEAN}

ModelAnswers ==
    {<<>>, <<a1>>, <<a1, a2>>, <<a2, a1, a2>>, <<a1, private>>, <<private>>}
=============================================================================
