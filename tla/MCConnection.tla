---------------------------- MODULE MCConnection ----------------------------
(* Three contexts: the one that is served and up to two earlier ones whose *)
(* timers are still queued.                                                *)
EXTENDS Connection
=============================================================================
