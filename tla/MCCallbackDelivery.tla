-------------------------- MODULE MCCallbackDelivery --------------------------
(***************************************************************************)
(* Small instances of CallbackDelivery: the first execution crawled once,  *)
(* any other three times.                                                  *)
(***************************************************************************)
EXTENDS CallbackDelivery

CONSTANTS e1, NetFaults, HostFaults

MCScrapeAttempts == [e \in Executions |-> IF e = e1 THEN 1 ELSE 3]

MCFaults == [e \in Executions |-> IF e = e1 THEN NetFaults ELSE HostFaults]

=============================================================================
