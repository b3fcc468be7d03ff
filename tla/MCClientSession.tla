--------------------------- MODULE MCClientSession ---------------------------
(* ClientSession has finite constants; its instances are in the configurations. *)
EXTENDS ClientSession
=============================================================================
