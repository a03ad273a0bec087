--------------------------- MODULE MCDeviceSession ---------------------------
(***************************************************************************)
(* Two transactions and the fast tick of the collector.                    *)
(***************************************************************************)
EXTENDS DeviceSession, TLC

CONSTANTS change, save, tick

\* The numbers of JobPriority.
PriorityOf == change :> 0 @@ save :> 0 @@ tick :> 2

=============================================================================
