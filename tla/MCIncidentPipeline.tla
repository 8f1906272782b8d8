-------------------------- MODULE MCIncidentPipeline --------------------------
(***************************************************************************)
(* A kernel fault, an application timeout and a link failure on two hosts, *)
(* seen at once or a tick late; changes with distinct descriptions, and    *)
(* two of which one describes itself with the words of the other.          *)
(***************************************************************************)
EXTENDS IncidentPipeline

Fault   == [source |-> "kernel", text |-> {"fault", "timeout"}]
Timeout == [source |-> "application", text |-> {"timeout"}]
Link    == [source |-> "infra", text |-> {"link down"}]

MCEvents ==
  {[template |-> Fault, host |-> "h1", severity |-> "critical", lag |-> 0],
   [template |-> Timeout, host |-> "h1", severity |-> "error", lag |-> 1],
   [template |-> Timeout, host |-> "h2", severity |-> "warning", lag |-> 0],
   [template |-> Link, host |-> "h2", severity |-> "info", lag |-> 0]}

Change(type, description, source, time, host) ==
  [type |-> type, description |-> description, source |-> source,
   time |-> time, host |-> host, service |-> "db"]

Driver == Change("kernel_update", {"kernel", "driver"}, "cmdb", 2, "h1")
Older  == Change("config_change", {"driver"}, Unset, 1, "h1")
Undo   == Change("rollback", {"rollback"}, "infra", 2, "h2")

MCChangeLists == {<<>>, <<Driver>>, <<Older, Undo>>, <<Driver, Older>>}
===============================================================================
