----------------------------- MODULE MCJobsPage -----------------------------
(***************************************************************************)
(* Instances of JobsPage for TLC.                                        *)
(***************************************************************************)
EXTENDS JobsPage

CONSTANTS all, f1

MCFilters == {all, f1}
MCAll == all

\* What happens together.
MCSetups == {{"filter", "dashboard"}, {"page", "rows"}, {"dashboard", "flush"},
             {"filter", "fail"}, {"page", "fail"}}
=============================================================================
