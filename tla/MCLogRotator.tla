---------------------------- MODULE MCLogRotator ----------------------------
(***************************************************************************)
(* LogRotator for TLC: a few lines, so that a file can be rotated twice in *)
(* a second and in different ones while earlier files are compressed.      *)
(***************************************************************************)
EXTENDS LogRotator
=============================================================================
