-------------------------- MODULE MC_AnalyzeDialog --------------------------
(* AnalyzeDialog on a small instance: one provider of a file that changes. *)
EXTENDS AnalyzeDialog

CONSTANTS cloud, listedHost, otherHost

Says(host, local, key) == [p \in Providers |-> [host |-> host, local |-> local, key |-> key]]

\* Remote and allowed; moved to a host that is not listed.
MCConfigs == {Says(listedHost, FALSE, TRUE), Says(otherHost, FALSE, TRUE)}
=============================================================================
