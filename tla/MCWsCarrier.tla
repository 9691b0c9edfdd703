---------------------------- MODULE MCWsCarrier ----------------------------
(* WsCarrier.tla on small instances. *)
EXTENDS WsCarrier

OneId == {1}
=============================================================================
