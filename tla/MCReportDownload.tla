--------------------------- MODULE MCReportDownload ---------------------------
(* ReportDownload for TLC: a request, and two replicas with a worker each. *)
EXTENDS ReportDownload

CONSTANTS r1, n1, n2, s1
=============================================================================
