---------------------------- MODULE MCHotReload ----------------------------
EXTENDS HotReload
===========================================================================
