--------------------------- MODULE MCSenderPolicy ---------------------------
(***************************************************************************)
(* An instance of SenderPolicy for TLC.                                    *)
(***************************************************************************)
EXTENDS SenderPolicy

MCUserOf == [c \in Credentials |-> CHOOSE u \in Users : TRUE]
=============================================================================
