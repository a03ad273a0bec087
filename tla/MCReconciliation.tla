---------------------------- MODULE MCReconciliation ----------------------------
(***************************************************************************)
(* Two ports.  The first is documented as the uplink of the access point.  *)
(***************************************************************************)
EXTENDS Reconciliation

CONSTANTS p1, p2, ap, gw, laptop, acme

VendorOfMac == laptop :> acme
MakerOfName == ap :> acme @@ gw :> None

On(status, macs, cdp) ==
  [status |-> status, description |-> "desk", trunk |-> FALSE, macs |-> macs, cdp |-> cdp, lldp |-> None]

\* Nothing; either of two neighbours; a laptop that announces nothing.
PortSituations ==
  {On("notconnect", {}, None), On("connected", {}, ap), On("connected", {}, gw),
   On("connected", {laptop}, None)}

PortOrder == <<p1, p2>>
DocumentedOn == p1 :> "the access point" @@ p2 :> None
Recordable == {"the gateway"}
AkinNames == {<<ap, "the access point">>, <<gw, "the gateway">>}

=============================================================================
