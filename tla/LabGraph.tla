------------------------------- MODULE LabGraph -------------------------------
(***************************************************************************)
(* What backend/app/lab_assurance.py concludes from the observations of    *)
(* one refresh: evidence, capabilities, the graph, findings, failure       *)
(* scenarios and paths.                                                    *)
(*                                                                         *)
(* An observation has, for every command, how its collection ended and     *)
(* what it printed.  Addresses, names and rates are model values or        *)
(* members of small sets; the opaque identifiers are tuples.  Logical      *)
(* networks, the loss of PoE and the findings about power, rates, drops,   *)
(* spanning tree, web management, guards of access ports and allowed VLANs *)
(* are left out.                                                           *)
(***************************************************************************)
EXTENDS Naturals, FiniteSets, Sequences

CONSTANTS
  Primary,   \* the identifier of the switch SwitchOps is connected to
  Ids,       \* identifiers of configured devices
  Ports,     \* interface names, the same on every device
  Names,     \* what a device may call itself
  LabelOf,   \* LabelOf[i]: the label the operator gave a device
  RoleOf,    \* RoleOf[n]: what a name announces to be
  Hosts,     \* what else the switches may learn: endpoints
  Gateways,  \* addresses of default gateways, and what is learned of them
  Peers,     \* routing neighbours
  Addresses, \* what neighbours announce of their address and chassis
  None       \* no name, no port, no gateway

ASSUME LabGraphAssumption ==
  /\ Primary \notin Ids
  /\ None \notin Names \cup Ports \cup Gateways
  /\ DOMAIN LabelOf = Ids \cup {Primary}
  /\ DOMAIN RoleOf = Names
  /\ \A n \in Names : RoleOf[n] \in {"SWITCH", "ROUTER", "ACCESS_POINT", "UNKNOWN"}

\* The commands the conclusions rest on.
Commands == {"version", "config", "status", "switchport", "counters", "macs", "arp",
             "route", "cdp", "lldp", "etherchannel", "routing"}

Failed == {"authorization_failed", "command_failed", "transport_failed", "parser_failed"}
CommandStates == Failed \cup {"observed", "empty", "unavailable", "unsupported"}

\* classify_command_output, with the order of its tests.
Classified(shows) ==
  CASE "refused"   \in shows -> "authorization_failed"
    [] "refused"   \notin shows /\ "no such command" \in shows -> "unavailable"
    [] shows \cap {"refused", "no such command"} = {} /\ "failure" \in shows
         -> "command_failed"
    [] shows \cap {"refused", "no such command", "failure"} = {}
         /\ "not supported" \in shows -> "unsupported"
    [] OTHER -> IF "rows" \in shows THEN "observed" ELSE "empty"

\* What is made of a command that showed nothing usable.
Blank ==
  [version      |-> None,
   config       |-> [hostname |-> None, gateway |-> None, features |-> {},
                     ports |-> [p \in {} |-> [mode |-> None, native |-> None]]],
   status       |-> [p \in {} |-> [link |-> "connected", vlan |-> "trunk"]],
   switchport   |-> [p \in {} |-> [mode |-> "ACCESS", native |-> 1]],
   counters     |-> {},
   macs         |-> [p \in Ports |-> {}],
   arp          |-> {},
   route        |-> None,
   cdp          |-> <<>>,
   lldp         |-> <<>>,
   etherchannel |-> {},
   routing      |-> {}]

\* What CDP or LLDP lists: the own port, and what the neighbour announces - its
\* name, its port, and its address and chassis as one.
Heard == [port : Ports, name : Names, remote : Ports \cup {None}, address : Addresses]

\* The tables of what is shown that paths are found in are finite.
Tabular(shown) ==
  /\ IsFiniteSet(DOMAIN shown.status)
  /\ IsFiniteSet(shown.routing)
  /\ \A c \in {"cdp", "lldp"} : shown[c] \in Seq(Heard)

\* _safe_parse: only what was observed is parsed.
Part(o, command) ==
  IF o.ended[command] = "observed" THEN o.shown[command] ELSE Blank[command]

-----------------------------------------------------------------------------
(* Evidence and capabilities *)

Evidence(o) ==
  {[device |-> o.device, command |-> c, kind |-> o.ended[c],
    confirmed |-> o.ended[c] \in {"observed", "empty", "unsupported"},
    current   |-> o.ended[c] \notin Failed] : c \in Commands}

\* A capability and the command that shows it; each has a line of configuration.
CapabilityCommands == {"cdp", "lldp", "etherchannel", "routing"}

\* Mutant of CapabilityState: what could not be collected is not supported.
CapabilityStateOfFailure(o, c) ==
  LET configured == c \in Part(o, "config").features
  IN CASE o.ended[c] \in {"unsupported", "unavailable"} \cup Failed /\ ~configured
            -> "UNSUPPORTED"
       [] o.ended[c] = "observed" \/ configured -> "SUPPORTED"
       [] OTHER -> "UNKNOWN"

CapabilityState(o, c) ==
  LET configured == c \in Part(o, "config").features
  IN CASE o.ended[c] = "unsupported" /\ ~configured -> "UNSUPPORTED"
       [] o.ended[c] = "observed" \/ configured     -> "SUPPORTED"
       [] OTHER -> "UNKNOWN"

Capabilities(o) ==
  {[device |-> o.device, name |-> c, state |-> CapabilityState(o, c)] :
     c \in CapabilityCommands}
  \cup {[device |-> o.device, name |-> f,
         state  |-> IF f \in Part(o, "config").features THEN "SUPPORTED" ELSE "UNKNOWN"] :
          f \in {"dhcp-snooping", "dai", "aaa"}}

CollectionState(o) ==
  CASE \A c \in Commands : o.ended[c] \in Failed -> "FAILED"
    [] (\E c \in Commands : o.ended[c] \in Failed)
       /\ (\E c \in Commands : o.ended[c] \notin Failed) -> "PARTIAL"
    [] OTHER -> "CURRENT"

-----------------------------------------------------------------------------
(* Devices and interfaces *)

\* How a device is called: by its configuration, its version or its operator.
NameOf(o) ==
  CASE Part(o, "config").hostname # None -> Part(o, "config").hostname
    [] Part(o, "config").hostname = None /\ Part(o, "version") # None -> Part(o, "version")
    [] OTHER -> LabelOf[o.device]

\* The device that carries a name; of several the last one observed.
Named(os, name) ==
  LET at == {i \in DOMAIN os : NameOf(os[i]) = name}
  IN IF at = {} THEN None ELSE os[CHOOSE i \in at : \A j \in at : j <= i].device

\* The mode of a port as the switch reports it; or else as it is configured, if
\* that is a mode; or else as the VLAN column of its status shows it.
Mode(o, p) ==
  LET reported   == Part(o, "switchport")
      configured == Part(o, "config").ports
  IN CASE p \in DOMAIN reported -> reported[p].mode
       [] p \in DOMAIN configured \ DOMAIN reported /\ configured[p].mode # None ->
            IF configured[p].mode \in {"ACCESS", "TRUNK", "ROUTED"} THEN configured[p].mode
            ELSE "UNKNOWN"
       [] OTHER ->
            CASE Part(o, "status")[p].vlan = "trunk"  -> "TRUNK"
              [] Part(o, "status")[p].vlan = "number" -> "ACCESS"
              [] OTHER -> "UNKNOWN"

\* The native VLAN of a trunk, as reported or else as configured.
Native(o, p) ==
  LET reported   == Part(o, "switchport")
      configured == Part(o, "config").ports
  IN CASE Mode(o, p) # "TRUNK" -> None
       [] Mode(o, p) = "TRUNK" /\ p \in DOMAIN reported /\ reported[p].native # None ->
            reported[p].native
       [] OTHER -> IF p \in DOMAIN configured THEN configured[p].native ELSE None

Interfaces(os) ==
  UNION {{[device |-> os[i].device, port |-> p,
           up     |-> Part(os[i], "status")[p].link = "connected",
           admin  |-> Part(os[i], "status")[p].link # "disabled",
           mode   |-> Mode(os[i], p),
           native |-> Native(os[i], p),
           learned |-> Part(os[i], "macs")[p],
           errors |-> p \in Part(os[i], "counters")] :
            p \in DOMAIN Part(os[i], "status")} : i \in DOMAIN os}

-----------------------------------------------------------------------------
(* Edges *)

\* What a device says of its neighbours: of the entries for a port and a name
\* the first, and CDP comes before LLDP.
Announced(o) ==
  LET heard == Part(o, "cdp") \o Part(o, "lldp")
  IN {heard[k] : k \in {n \in DOMAIN heard :
        \A m \in 1..n - 1 : heard[m].port # heard[n].port \/ heard[m].name # heard[n].name}}

\* Only the exact name of an observed device is that device; what is merely
\* announced is identified by its name, its address and its chassis.
Target(os, h) ==
  IF Named(os, h.name) # None THEN <<"device", Named(os, h.name)>>
  ELSE <<"discovered", <<h.name, h.address>>>>

Pending(os) ==
  UNION {{[source |-> <<"device", os[i].device>>, target |-> Target(os, h),
           local |-> h.port, remote |-> h.remote, order |-> i] :
            h \in Announced(os[i])} : i \in DOMAIN os}

Reciprocal(os, e) ==
  \E x \in Pending(os) : /\ x.source = e.target /\ x.target = e.source
                         /\ e.remote # None => x.local = e.remote

\* The key of an edge: both ends, and the ports in the order of the speaker.
SameKey(x, y) ==
  {x.source, x.target} = {y.source, y.target} /\ x.local = y.local /\ x.remote = y.remote

Physical(os) ==
  {[kind |-> "PHYSICAL", from |-> e.source, to |-> e.target, via |-> e.local,
    back |-> e.remote, state |-> "PROVEN",
    confidence |-> IF Reciprocal(os, e) THEN "CONFIRMED" ELSE "HIGH"] :
     e \in {x \in Pending(os) : ~ \E y \in Pending(os) : SameKey(x, y) /\ y.order < x.order}}

\* Addresses learned on a port are one attachment behind it, never a cable.
Attachments(os) ==
  {[kind |-> "L2_MEMBERSHIP", from |-> <<"device", i.device>>,
    to |-> <<"endpoint", <<i.device, i.port>>>>, via |-> i.port, back |-> None,
    state |-> "INFERRED", confidence |-> "HIGH"] :
     i \in {x \in Interfaces(os) : x.learned # {} /\ x.mode # "TRUNK"}}

\* The port of a gateway takes its ARP entry and its address in the table.
GatewayPort(o, g) ==
  LET at == {p \in Ports : g \in Part(o, "macs")[p]}
  IN IF g \in Part(o, "arp") /\ at # {} THEN CHOOSE p \in at : TRUE ELSE None

GatewayEdge(o, g) ==
  [kind |-> "L3_GATEWAY", from |-> <<"device", o.device>>,
   to |-> <<"gateway", <<o.device, g>>>>, via |-> GatewayPort(o, g), back |-> None,
   state      |-> IF GatewayPort(o, g) # None THEN "INFERRED" ELSE "UNKNOWN",
   confidence |-> IF GatewayPort(o, g) # None THEN "HIGH" ELSE "UNKNOWN"]

\* The configured gateway, or else the next hop of the default route.
GatewayOf(o) ==
  IF Part(o, "config").gateway # None THEN Part(o, "config").gateway ELSE Part(o, "route")

GatewayEdges(os) ==
  {GatewayEdge(os[i], GatewayOf(os[i])) : i \in {x \in DOMAIN os : GatewayOf(os[x]) # None}}

\* Members of a bundle; their ends are interfaces, not devices.
Memberships(os) ==
  UNION {{[kind |-> "PORT_CHANNEL_MEMBER", from |-> <<"port", <<os[i].device, m.port>>>>,
           to |-> <<"port", <<os[i].device, m.channel>>>>, via |-> None, back |-> None,
           state |-> "PROVEN", confidence |-> "CONFIRMED"] :
            m \in {x \in Part(os[i], "etherchannel") :
                     x.port \in DOMAIN Part(os[i], "status")}} : i \in DOMAIN os}

Adjacencies(os) ==
  UNION {{[kind |-> "ROUTING_ADJACENCY", from |-> <<"device", os[i].device>>,
           to |-> <<"peer", r>>, via |-> None, back |-> None,
           state |-> "PROVEN", confidence |-> "HIGH"] :
            r \in Part(os[i], "routing")} : i \in DOMAIN os}

Edges(os) ==
  Physical(os) \cup Attachments(os) \cup GatewayEdges(os) \cup Memberships(os)
  \cup Adjacencies(os)

Nodes(os) ==
  {[id |-> <<"device", os[i].device>>, role |-> "SWITCH",
    collection |-> CollectionState(os[i])] : i \in DOMAIN os}
  \cup {[id |-> e.to, collection |-> "NOT_COLLECTED",
         role |-> CASE Head(e.to) = "discovered" -> RoleOf[e.to[2][1]]
                    [] Head(e.to) = "endpoint"   -> "ENDPOINT"
                    [] Head(e.to) = "gateway"    -> "GATEWAY"
                    [] OTHER                     -> "ROUTER"] :
          e \in {x \in Edges(os) : Head(x.to) \in {"discovered", "endpoint", "gateway", "peer"}}}

-----------------------------------------------------------------------------
(* Failure scenarios *)

\* The search of _reachable: the edges it uses, and what it finds in n rounds.
Carries(e) == e.kind \notin {"PORT_CHANNEL_MEMBER", "EXPECTED"}

Neighbours(S, edges) ==
  {e.to : e \in {x \in edges : x.from \in S}} \cup {e.from : e \in {x \in edges : x.to \in S}}

Within(start, edges) ==
  LET near[n \in 0..Cardinality(edges)] ==
        IF n = 0 THEN {start}
        ELSE LET nearer == near[n - 1] IN nearer \cup Neighbours(nearer, edges)
  IN near

Reachable(start, edges) == Within(start, edges)[Cardinality(edges)]

\* The graph of one refresh; its root is the primary switch.
Graph(os) ==
  [root |-> <<"device", os[1].device>>, nodes |-> Nodes(os), edges |-> Edges(os),
   interfaces |-> Interfaces(os)]

IdsOf(g) == {n.id : n \in g.nodes}

\* The loss of a cable or of an adjacency.
EdgeLoss(g, e) == IdsOf(g) \ Reachable(g.root, {x \in g.edges : Carries(x)} \ {e})

\* The loss of a device: all edges at it are gone.
DeviceLoss(g, d) ==
  (IdsOf(g) \ Reachable(g.root, {x \in g.edges : Carries(x) /\ d \notin {x.from, x.to}}))
  \ {d}

\* The loss of an interface: what was inferred behind it.
InterfaceLoss(g, i) ==
  {e.to : e \in {x \in g.edges : /\ x.kind \in {"L2_MEMBERSHIP", "L3_GATEWAY"}
                                 /\ x.from = <<"device", i.device>> /\ x.via = i.port}}

LossConfidence(g, n) ==
  LET at == {e.confidence : e \in {x \in g.edges : n.id \in {x.from, x.to}}}
  IN CASE n.collection \in {"CURRENT", "PARTIAL"} -> "HIGH"
       [] n.collection \notin {"CURRENT", "PARTIAL"} /\ (at = {} \/ "UNKNOWN" \in at)
            -> "UNKNOWN"
       [] OTHER -> IF "HIGH" \in at THEN "HIGH" ELSE "CONFIRMED"

InterfaceFailures(g) ==
  {[of |-> <<"interface", <<i.device, i.port>>>>, affected |-> InterfaceLoss(g, i),
    confidence |-> "HIGH"] : i \in {x \in g.interfaces : InterfaceLoss(g, x) # {}}}

EdgeFailures(g) ==
  {[of |-> e, affected |-> EdgeLoss(g, e), confidence |-> e.confidence] :
     e \in {x \in g.edges : x.kind \in {"PHYSICAL", "ROUTING_ADJACENCY"}}}

DeviceFailures(g) ==
  {[of |-> n.id, affected |-> DeviceLoss(g, n.id), confidence |-> LossConfidence(g, n)] :
     n \in {x \in g.nodes : /\ x.id # g.root
                            /\ x.role \in {"SWITCH", "ROUTER", "GATEWAY", "ACCESS_POINT"}}}

MemberFailures(g) ==
  {[of |-> e, affected |-> {e.from}, confidence |-> "CONFIRMED"] :
     e \in {x \in g.edges : x.kind = "PORT_CHANNEL_MEMBER"}}

-----------------------------------------------------------------------------
(* Paths *)

\* The search of _paths follows every edge but that of a bundle, both ways.
Linking(g) == {e \in g.edges : e.kind # "PORT_CHANNEL_MEMBER"}

\* Mutant of Hops: an edge is followed only from the device that announces it.
HopsForward(g) == {[from |-> e.from, to |-> e.to, over |-> e] : e \in Linking(g)}

Hops(g) ==
  {[from |-> e.from, to |-> e.to, over |-> e] : e \in Linking(g)}
  \cup {[from |-> e.to, to |-> e.from, over |-> e] : e \in Linking(g)}

\* A round of the search: what is next to a node that was found is found too, by
\* one of the hops that lead to it.  The code keeps the hop by which it found a
\* node and follows them back in the end; here the whole way is kept.
Further(g, ways) ==
  LET hops   == {h \in Hops(g) : h.from \in DOMAIN ways /\ h.to \notin DOMAIN ways}
      Hop(x) == CHOOSE h \in hops : h.to = x
  IN [x \in DOMAIN ways \cup {h.to : h \in hops} |->
        IF x \in DOMAIN ways THEN ways[x]
        ELSE [nodes |-> ways[Hop(x).from].nodes \cup {x},
              edges |-> ways[Hop(x).from].edges \cup {Hop(x).over}]]

\* The ways from the root that are found until the target is.
Search(g, target) ==
  LET found[n \in 0..Cardinality(Linking(g))] ==
        IF n = 0 THEN [x \in {g.root} |-> [nodes |-> {x}, edges |-> {}]]
        ELSE LET ways == found[n - 1]
             IN IF target \in DOMAIN ways THEN ways ELSE Further(g, ways)
  IN found[Cardinality(Linking(g))]

Weakness(state) == CASE state = "PROVEN" -> 0 [] state = "INFERRED" -> 1 [] OTHER -> 4

\* A path is as good as its weakest hop.
Weakest(states) == CHOOSE s \in states : \A r \in states : Weakness(r) <= Weakness(s)

Path(g, t) ==
  LET ways == Search(g, t)
  IN IF t \in DOMAIN ways
     THEN [to |-> t, nodes |-> ways[t].nodes, edges |-> ways[t].edges,
           state |-> Weakest({e.state : e \in ways[t].edges})]
     ELSE [to |-> t, nodes |-> {}, edges |-> {}, state |-> "UNKNOWN"]

Paths(g) == {Path(g, t) : t \in IdsOf(g) \ {g.root}}

-----------------------------------------------------------------------------
(* Findings *)

Cables(g, d) == {e \in g.edges : e.kind = "PHYSICAL" /\ d \in {e.from, e.to}}

UplinkFindings(g) ==
  {[about |-> IF Cables(g, n.id) = {} THEN "uplink-unknown" ELSE "single-uplink",
    at |-> {n.id}] :
     n \in {x \in g.nodes : /\ x.collection \in {"CURRENT", "PARTIAL"}
                            /\ Cardinality(Cables(g, x.id)) <= 1}}

PortFindings(g) ==
  {[about |-> "unused-port", at |-> {<<i.device, i.port>>}] :
     i \in {x \in g.interfaces : x.admin /\ ~x.up}}
  \cup {[about |-> "errors", at |-> {<<i.device, i.port>>}] :
          i \in {x \in g.interfaces : x.errors}}

\* Absence is a finding only where the whole configuration was read.
ProtectionFindings(o) ==
  IF o.ended["config"] # "observed" THEN {}
  ELSE {[about |-> f, at |-> {<<"device", o.device>>}] :
          f \in {"dhcp-snooping", "dai", "aaa"} \ Part(o, "config").features}

BundleFindings(o) ==
  {[about |-> "unbundled", at |-> {<<o.device, m.port>>}] :
     m \in {x \in Part(o, "etherchannel") : ~x.bundled}}

\* The two interfaces of a link that both its ends announce.
Ends(g, e) ==
  {i \in g.interfaces : \/ <<"device", i.device>> = e.from /\ i.port = e.via
                        \/ <<"device", i.device>> = e.to /\ i.port = e.back}

Differ(kind, l, r) ==
  CASE kind = "mode-mismatch"   -> l.mode # r.mode /\ "UNKNOWN" \notin {l.mode, r.mode}
    [] kind = "native-mismatch" -> /\ l.mode = "TRUNK" /\ r.mode = "TRUNK"
                                   /\ None \notin {l.native, r.native}
                                   /\ l.native # r.native

MismatchFindings(g) ==
  {[about |-> c[1], at |-> {<<i.device, i.port>> : i \in Ends(g, c[2])}] :
     c \in {x \in {"mode-mismatch", "native-mismatch"} \X g.edges :
              /\ x[2].kind = "PHYSICAL" /\ x[2].confidence = "CONFIRMED" /\ x[2].back # None
              /\ \E l, r \in Ends(g, x[2]) : l.device # r.device /\ Differ(x[1], l, r)}}

Findings(os, g) ==
  UplinkFindings(g) \cup PortFindings(g) \cup MismatchFindings(g)
  \cup UNION {ProtectionFindings(os[i]) \cup BundleFindings(os[i]) : i \in DOMAIN os}

-----------------------------------------------------------------------------
\* build_lab_assurance_state: what is concluded as a whole.
Overall(os) ==
  LET states == {CollectionState(os[i]) : i \in DOMAIN os}
  IN CASE os = <<>> -> "NOT_COLLECTED"
       [] os # <<>> /\ states = {"FAILED"} -> "FAILED"
       [] os # <<>> /\ states = {"CURRENT"} -> "CURRENT"
       [] OTHER -> "PARTIAL"

=============================================================================
