----------------------------- MODULE MC_JtagUser -----------------------------
(* Model values for the clients of the XVC 1.0 servers. *)
EXTENDS JtagUser

CONSTANTS a, b

MCClients == {a, b}

(* A len of -1 read off the socket as a 4-byte int. *)
MCNegativeLens == {-1}
=============================================================================
