--------------------------- MODULE MCStoreClients ---------------------------
(* Instance of StoreClients for TLC.  One key and two incidents: the second  *)
(* can only be created after the first was closed.  Two jobs: an incident    *)
(* can have two open jobs, or each incident one.                             *)
EXTENDS StoreClients

MCIncidentIds == 1..2
MCJobIds == 1..2
MCEventTimes == {0}

=============================================================================
