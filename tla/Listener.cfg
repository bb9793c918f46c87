\* More connections than the cap at both listeners, and the stop signal; one client talks on.
CONSTANTS
    Connections = {c1, c2, c3, c4}
    Implicit = {c1, c4}
    Chatty = {c2}
    MaxConnections = 2
SPECIFICATION FairListenerSpec
INVARIANTS ListenerTypeOK SlotsAccounted
PROPERTIES StopEnds
CHECK_DEADLOCK FALSE
