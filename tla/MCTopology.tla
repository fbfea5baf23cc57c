---------------------------- MODULE MCTopology ----------------------------
(* Two ECUs: e1 has a switch s1 between its port P1 and its interface i1,  *)
(* the interface i2 of e2 is wired to its port P2, and P1 to P2.           *)
EXTENDS Topology

MCEcus         == <<"e1", "e2">>
MCInterfacesOf == "e1" :> <<"i1">> @@ "e2" :> <<"i2">>
MCDocOf ==
  "P1" :> "p1" @@ "P2" :> "p2" @@ "a1" :> "s1" @@ "b1" :> "s1" @@ "i1" :> "k1" @@ "i2" :> "k2"
MCEcuOf == "p1" :> "e1" @@ "s1" :> "e1" @@ "k1" :> "e1" @@ "p2" :> "e2" @@ "k2" :> "e2"
MCInternal == "e1" :> << <<"P1", "a1">>, <<"b1", "i1">> >> @@ "e2" :> << <<"P2", "i2">> >>
MCExternal == << <<"P1", "P2">> >>
MCOffered ==
  "p1" :> {{"master"}, {"slave"}} @@ "p2" :> {{"slave"}}
  @@ "s1" :> {{"a1", "b1"}, {"b1"}}
  @@ "k1" :> {{}, {"vlan", "tx"}, {"vlan", "rx", "v6"}}
  @@ "k2" :> {{"vlan", "rx", "v6"}, {"vlan", "tx", "v6"}}
===========================================================================
