---------------------------- MODULE MCSocketClient ----------------------------
(***************************************************************************)
(* One life of the client and two changes of the network, in any order;    *)
(* the header gives up after two attempts.                                 *)
(***************************************************************************)
EXTENDS SocketClient

==============================================================================
