----------------------------- MODULE MCLabAssurance -----------------------------
(***************************************************************************)
(* The primary switch, a second one behind it, and an access point that    *)
(* announces itself to both, under two addresses; a gateway, an endpoint   *)
(* and a routing neighbour that both switches have.  Some ports are not    *)
(* reported as switchports, some of these are not configured either.       *)
(***************************************************************************)
EXTENDS LabAssurance

CONSTANTS p1, p2, i1, i2, core, edge, ap, nas, router, ospf, a1, a2

LabelOfId == [i \in {Primary, i1, i2} |-> i]
RoleOfName == core :> "SWITCH" @@ edge :> "SWITCH" @@ ap :> "ACCESS_POINT"

Trunk(vlan) == [mode |-> "TRUNK", native |-> vlan]

\* What a switch shows that has neither neighbours nor addresses.
Quiet(name) ==
  [Blank EXCEPT !.version = name,
     !.config = [hostname |-> name, gateway |-> None, features |-> {"aaa"},
                 ports |-> p1 :> Trunk(1)],
     !.status = p1 :> [link |-> "connected", vlan |-> "trunk"]
                @@ p2 :> [link |-> "connected", vlan |-> "number"]]

Announce(port, name, remote, address) ==
  [port |-> port, name |-> name, remote |-> remote, address |-> address]

Core == [Quiet(core) EXCEPT
           !.cdp = <<Announce(p1, edge, p2, a1), Announce(p1, edge, p1, a1)>>,
           !.lldp = <<Announce(p2, ap, None, a1)>>,
           !.config.gateway = router, !.arp = {router}, !.macs[p2] = {router, nas},
           !.counters = {p2}, !.routing = {ospf}]
Edge == [Quiet(edge) EXCEPT
           !.cdp = <<Announce(p2, core, p1, a1)>>, !.lldp = <<Announce(p1, ap, None, a2)>>,
           !.switchport = p2 :> Trunk(2), !.route = router,
           !.etherchannel = {[port |-> p1, channel |-> "Po1", bundled |-> FALSE]}]

Lab(c, e) == core :> [shown |-> c, unsupported |-> {}]
             @@ edge :> [shown |-> e, unsupported |-> {"routing"}]

\* The cable runs between different ports, or between ports of the same name;
\* it is gone, and the second switch is reached by routing alone.
Labs ==
  {Lab(Core, Edge),
   Lab([Core EXCEPT !.cdp = <<Announce(p1, edge, p1, a1)>>],
       [Edge EXCEPT !.cdp = <<Announce(p1, core, p1, a1)>>,
                    !.lldp = <<Announce(p2, ap, None, a2)>>]),
   [Lab([Core EXCEPT !.cdp = <<>>, !.lldp = <<>>],
        [Edge EXCEPT !.cdp = <<>>, !.routing = {ospf},
                     !.config.features = {"dhcp-snooping"}])
    EXCEPT ![edge].unsupported = {}]}

Registries == {<<>>, <<i1>>}

=============================================================================
