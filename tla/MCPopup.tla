------------------------------ MODULE MCPopup ------------------------------
(* An instance of Popup with a few fades at the same time.                 *)
EXTENDS Popup
=============================================================================
