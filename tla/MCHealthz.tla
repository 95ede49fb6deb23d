----------------------------- MODULE MCHealthz -----------------------------
(* Healthz for TLC, with the delays of MCProbe.                            *)
EXTENDS Healthz, MCProbe
=============================================================================
