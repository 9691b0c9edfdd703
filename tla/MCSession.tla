----------------------------- MODULE MCSession -----------------------------
(* Session.tla on small instances. *)
EXTENDS Session

MCIds == {1, 2}
OneId == {1}
=============================================================================
