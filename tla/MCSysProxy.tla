----------------------------- MODULE MCSysProxy -----------------------------
(* An instance of SysProxy with two user settings and none at all.         *)
EXTENDS SysProxy
=============================================================================
