----------------------------- MODULE MCToolCall -----------------------------
(***************************************************************************)
(* ToolCall for TLC.  One tool of each kind the code tells apart: a read,  *)
(* a read that may be empty and takes several requests, a write, the write *)
(* whose errors are read for more words, a tool not offered and describe.  *)
(***************************************************************************)
EXTENDS ToolCall

OneOfEachKind == {"get", "list", "update", "walk", "create", "describe"}
MostOffered == Primitives \ {"create"}
=============================================================================
