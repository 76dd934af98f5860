----------------------- MODULE MCPtopLinkQueueTracker -----------------------
(* Small instance of PtopLinkQueueTracker for TLC. *)
EXTENDS PtopLinkQueueTracker
=============================================================================
