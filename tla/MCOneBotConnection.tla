------------------------- MODULE MCOneBotConnection -------------------------
(* OneBotConnection for TLC.                                                 *)
EXTENDS OneBotConnection

CONSTANTS send, recall
=============================================================================
