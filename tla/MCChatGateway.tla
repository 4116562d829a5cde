--------------------------- MODULE MCChatGateway ---------------------------
(* An instance of ChatGateway for TLC: two requests and two providers.     *)
EXTENDS ChatGateway

CONSTANTS u

\* Both requests are of one user.
OneOwner == [r \in Req |-> u]
=============================================================================
