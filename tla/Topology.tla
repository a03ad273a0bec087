------------------------------- MODULE Topology -------------------------------
(***************************************************************************)
(* What backend/app/topology.py makes of one reading of the switch, with   *)
(* the confidence rules of discovery_evidence.py and the correlation of    *)
(* this PC in discovery.py.                                                *)
(*                                                                         *)
(* A reading has one column per IOS command.  Neighbours and addresses are *)
(* model values; an interface description is one of four kinds of text.    *)
(***************************************************************************)
EXTENDS Naturals, FiniteSets

CONSTANTS
  Ports,      \* the interfaces of the switch
  Names,      \* what a neighbour may call itself over CDP or LLDP
  Macs,       \* hardware addresses the switch may learn
  VendorOf,   \* VendorOf[m]: the registered owner of the prefix of m, or None
  MakerOf,    \* MakerOf[n]: the maker that neighbour n names, or None
  ThisPc,     \* the address of the adapter of this PC, or None
  Randomised, \* addresses that are software-assigned
  None        \* no neighbour, no vendor, no adapter

ASSUME TopologyAssumption ==
  /\ None \notin Ports \cup Names \cup Macs
  /\ DOMAIN VendorOf = Macs /\ DOMAIN MakerOf = Names
  /\ ThisPc \in Macs \cup {None}
  /\ \A m \in Randomised : VendorOf[m] = None

Statuses == {"connected", "notconnect", "disabled", ""}
Descriptions == {"", "spare", "uplink", "desk"}

\* The columns of a reading.
Columns ==
  [interfaces : [Ports -> [status : Statuses, description : Descriptions,
                           trunk : BOOLEAN]],
   macTable   : [Ports -> SUBSET Macs],
   neighbors  : [Ports -> Names \cup {None}],
   lldp       : [Ports -> Names \cup {None}],
   arp        : SUBSET Macs]

Oper(status) ==
  CASE status = "connected" -> "up" [] status = "" -> "unknown" [] OTHER -> "down"
Up(t, p) == Oper(t.interfaces[p].status) = "up"

-----------------------------------------------------------------------------
(* Confidence *)

ExistenceOf(facts) ==
  CASE facts \cap {"LOCAL_HOST_MAC", "CDP_NEIGHBOR", "LLDP_NEIGHBOR"} # {} -> "confirmed"
    [] {"INTERFACE_LINK", "MAC_LEARNED"} \subseteq facts -> "high"
    [] "INTERFACE_LINK" \in facts -> "medium"
    [] facts # {}                 -> "low"
    [] OTHER                      -> "unknown"

Lower(confidence) ==
  CASE confidence = "confirmed" -> "high"
    [] confidence = "high"      -> "medium"
    [] confidence = "medium"    -> "low"
    [] OTHER                    -> "unknown"

Identified(facts) ==
  CASE "LOCAL_HOST_MAC" \in facts -> "confirmed"
    [] facts \cap {"CDP_NEIGHBOR", "LLDP_NEIGHBOR"} # {} -> "high"
    [] {"OUI_VENDOR", "ARP_ENTRY", "MAC_LEARNED"} \subseteq facts -> "medium"
    [] "OUI_VENDOR" \in facts     -> "low"
    [] OTHER                      -> "unknown"

IdentityOf(facts, conflict) ==
  IF conflict THEN Lower(Identified(facts)) ELSE Identified(facts)

-----------------------------------------------------------------------------
(* This PC *)

\* correlate_local_endpoint: the port of this PC, if one connected access
\* port has learned its address and no other.
LocalPort(t) ==
  LET seen == {p \in Ports : ThisPc \in t.macTable[p]}
  IN IF \E p \in Ports : /\ seen = {p} /\ ThisPc \notin Randomised
                         /\ Up(t, p) /\ ~t.interfaces[p].trunk
                         /\ t.macTable[p] = {ThisPc}
     THEN CHOOSE p \in Ports : seen = {p}
     ELSE None

-----------------------------------------------------------------------------
(* One port *)

\* Who is announced, CDP before LLDP.
Announced(t, p) ==
  IF t.neighbors[p] # None THEN t.neighbors[p] ELSE t.lldp[p]

Only(S) == CHOOSE x \in S : TRUE
Single(t, p) == Cardinality(t.macTable[p]) = 1

\* The stable identity that the evidence of a port amounts to.
EntityOf(t, p) ==
  CASE Announced(t, p) # None -> <<"neighbor", Announced(t, p)>>
    [] Announced(t, p) = None /\ LocalPort(t) = p -> <<"local-host">>
    [] Announced(t, p) = None /\ LocalPort(t) # p /\ Single(t, p)
         -> <<"mac", Only(t.macTable[p])>>
    [] OTHER -> <<"port-presence", p>>

\* One address of several cannot be attributed to the endpoint.
Attributable(t, p) == Single(t, p)

\* The facts that speak for the endpoint of a port whose link is up.
FactsOf(t, p) ==
  {"INTERFACE_LINK"}
  \cup (IF Attributable(t, p)
        THEN LET m == Only(t.macTable[p])
             IN {"MAC_LEARNED"}
                \cup (IF VendorOf[m] # None THEN {"OUI_VENDOR"} ELSE {})
                \cup (IF m \in t.arp THEN {"ARP_ENTRY"} ELSE {})
        ELSE {})
  \cup (CASE t.neighbors[p] # None -> {"CDP_NEIGHBOR"}
          [] t.neighbors[p] = None /\ t.lldp[p] # None -> {"LLDP_NEIGHBOR"}
          [] Announced(t, p) = None /\ LocalPort(t) = p -> {"LOCAL_HOST_MAC"}
          [] OTHER -> {})

\* The maker named by the neighbour against the owner of the address.
Conflict(t, p) ==
  /\ Announced(t, p) # None /\ Attributable(t, p)
  /\ LET owner == VendorOf[Only(t.macTable[p])]
         maker == MakerOf[Announced(t, p)]
     IN owner # None /\ maker # None /\ owner # maker

\* Where the name of an endpoint comes from.
SourceOf(t, p) ==
  CASE t.neighbors[p] # None -> "cdp"
    [] t.neighbors[p] = None /\ t.lldp[p] # None -> "lldp"
    [] Announced(t, p) = None /\ LocalPort(t) = p -> "local-host"
    [] Announced(t, p) = None /\ LocalPort(t) # p /\ "OUI_VENDOR" \in FactsOf(t, p)
         -> "mac-oui"
    [] OTHER -> "none"

\* The one endpoint of a port whose link is up.
Endpoint(t, p) ==
  [entity    |-> EntityOf(t, p),
   port      |-> p,
   source    |-> SourceOf(t, p),
   existence |-> ExistenceOf(FactsOf(t, p)),
   identity  |-> IdentityOf(FactsOf(t, p), Conflict(t, p)),
   conflict  |-> Conflict(t, p),
   relation  |-> IF Announced(t, p) # None THEN "direct-neighbour"
                 ELSE "attached-endpoint",
   link      |-> IF Announced(t, p) # None THEN "direct" ELSE "observed-on-port",
   linked    |-> IF FactsOf(t, p) = {"INTERFACE_LINK"} /\ t.macTable[p] = {}
                 THEN "medium" ELSE "high",
   behind    |-> Cardinality(t.macTable[p])]

\* build_topology: the endpoints of the ports whose link is up.
BuildTopology(t) == {Endpoint(t, p) : p \in {q \in Ports : Up(t, q)}}

=============================================================================
