------------------------------ MODULE MCDiscovery ------------------------------
(***************************************************************************)
(* Two ports, an access point that announces itself with a client behind   *)
(* it, a laptop that only sends frames, and this PC.                       *)
(***************************************************************************)
EXTENDS Discovery

CONSTANTS ap, laptop, client, pc, acme

VendorOfMac == laptop :> acme @@ client :> None @@ pc :> acme
MakerOfName == ap :> acme

On(status, macs, cdp) ==
  [status |-> status, description |-> "desk", trunk |-> FALSE,
   macs |-> macs, cdp |-> cdp, lldp |-> None, arp |-> TRUE]

Unplugged == On("notconnect", {}, ap)

EmptyAtFirst == {Unplugged}

\* A port with what is left of the access point; the access point with a client
\* behind it; the laptop; this PC.
PortSituations ==
  {Unplugged, On("connected", {client}, ap), On("connected", {laptop}, None),
   On("connected", {pc}, None)}

=============================================================================
