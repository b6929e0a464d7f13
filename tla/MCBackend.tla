----------------------------- MODULE MCBackend -----------------------------
(* Small instances of Backend.  MCHostOf: session s1 is of the gateway h1,  *)
(* any other session of h2 (of h1 in an instance with one gateway).         *)
EXTENDS Backend

CONSTANTS h1, s1

MCHostOf ==
  [s \in Session |-> IF s = s1 \/ Host = {h1} THEN h1
                               ELSE CHOOSE h \in Host : h # h1]
=============================================================================
