---------------------------- MODULE MCReportJobs ----------------------------
(* Two requests for a report in one process, whose workbooks share a stripe. *)
EXTENDS ReportJobs

CONSTANTS process, stripe

MCProcessOf == [c \in Calls |-> process]
MCStripeOf == [d \in Digests |-> stripe]
=============================================================================
