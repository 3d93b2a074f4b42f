------------------------- MODULE MCComplianceScans -------------------------
(* Instances of ComplianceScans for TLC. *)
EXTENDS ComplianceScans

=============================================================================
