--------------------------- MODULE MCAnchorEvents ---------------------------
(* The Anchor and an indexer of its events. *)
EXTENDS AnchorEvents
=============================================================================
