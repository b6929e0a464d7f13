------------------------------ MODULE MCRouter ------------------------------
(* An instance of Router with one name of each kind: without a dot, under a *)
(* suffix as it should be written, under one that pac has to tidy, and      *)
(* under neither; and answers of up to two addresses.                       *)
EXTENDS Router, SequencesExt

CONSTANTS tidy, messy, inTidy, inMessy

MCUnder  == {<<inTidy, tidy>>, <<inMessy, messy>>}
MCAnswer == SeqOf(Addr, 2)
=============================================================================
