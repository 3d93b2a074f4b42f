--------------------------- MODULE MCHostReports ---------------------------
(* Instances of HostReports for TLC.  They need no more than its constants. *)
EXTENDS HostReports

=============================================================================
