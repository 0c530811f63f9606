------------------------------- MODULE MCAlerts -------------------------------
(* Alerts for TLC: everybody is a model value of the .cfg files.             *)
EXTENDS Alerts

MCNotices == {ForSupervisor(e) : e \in Episodes} \cup {ForManagers(e) : e \in Overdue}
=============================================================================
