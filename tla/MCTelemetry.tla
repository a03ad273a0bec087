----------------------------- MODULE MCTelemetry -----------------------------
(***************************************************************************)
(* An uplink and a port for a powered device.  Counters hold 0..20, so     *)
(* that the last tenth of the range is 18..20 and the first 0..2.  Two of  *)
(* the nine count, so that one may wrap while the other stands high.       *)
(***************************************************************************)
EXTENDS Telemetry

CONSTANTS access, uplink, mac

\* A port with a link whose counter is about to wrap.
Found == [status |-> "connected", speed |-> 1000, duplex |-> "a-full", vlan |-> "1",
          poe |-> "on", learned |-> {mac},
          errors |-> [c \in Counters |-> IF c = "rcv_err" THEN 19 ELSE 0]]

FirstStates == {Found}

\* One command fails, or all of them do.
OneOrAll == {{}, Sections} \cup {{s} : s \in Sections}

=============================================================================
