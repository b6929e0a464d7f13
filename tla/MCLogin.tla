------------------------------ MODULE MCLogin ------------------------------
(* A small instance of Login: a few attempts, two processes of the browser. *)
EXTENDS Login
=============================================================================
