---------------------------- MODULE MCReportJobs ----------------------------
(* Small instances of ReportJobs for TLC.                                  *)
EXTENDS ReportJobs, TLC

WorkerSymmetry == Permutations(Workers)
=============================================================================
