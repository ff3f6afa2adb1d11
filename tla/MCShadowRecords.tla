-------------------------- MODULE MCShadowRecords --------------------------
(* Instances of ShadowRecords for TLC. *)
EXTENDS ShadowRecordsProperties, TLC

=============================================================================
