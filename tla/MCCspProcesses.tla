--------------------------- MODULE MCCspProcesses ---------------------------
(* CspProcesses for TLC. *)
EXTENDS CspProcesses

CONSTANTS p1, p2, p3, c1

ThreeTasks == {p1, p2, p3}
OneChannel == {c1}
Queues == Channel \X {"senders", "receivers"}
CapacityTwo == [ch \in Channel |-> 2]
MCValue == Values
=============================================================================
