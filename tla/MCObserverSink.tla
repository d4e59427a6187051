--------------------------- MODULE MCObserverSink ---------------------------
(***************************************************************************)
(* Instances of ObserverSink for TLC.                                      *)
(***************************************************************************)
EXTENDS ObserverSink

\* More events than a batch holds come with a fault or a stop, not with both.
Scenarios == Len(sent) > BatchSize => faults = 0 \/ ~cancelled
=============================================================================
