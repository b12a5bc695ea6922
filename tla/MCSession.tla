----------------------------- MODULE MCSession -----------------------------
(* Instances of Session for TLC. *)
EXTENDS Session

MCCodes == {0, 1, 42}
=============================================================================
