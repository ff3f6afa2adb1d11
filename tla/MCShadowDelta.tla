--------------------------- MODULE MCShadowDelta ----------------------------
(* An instance of ShadowDelta for TLC.                                       *)
EXTENDS ShadowDeltaProperties, TLC

=============================================================================
