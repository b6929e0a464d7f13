------------------------------ MODULE MCTunnel ------------------------------
(* A small instance of Tunnel: queues of one packet, two connections.      *)
EXTENDS Tunnel
=============================================================================
