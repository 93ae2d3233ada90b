-------------------------- MODULE MCStateBroadcast --------------------------
(* Instance of StateBroadcast: all the sockets are those of one user.      *)
EXTENDS StateBroadcast

CONSTANT user
MCUserOf == [s \in Sockets |-> user]
=============================================================================
