------------------------------ MODULE MCRules ------------------------------
(***************************************************************************)
(* The documents of RuleDocuments, for model checking, and what the docs   *)
(* say of accepted documents and the code does not see to: for each such   *)
(* claim an accepted document that breaks it.                              *)
(***************************************************************************)
EXTENDS RuleDocuments


-----------------------------------------------------------------------------
(* Signals: some value is no state of a group, two values have one label.  *)

Encoded(type, entries) ==
  [type |-> "uint8", bits |-> 3, factor |-> 1, lower |-> {}, upper |-> {}, initial |-> {},
   encoding |-> [type |-> type, items |-> entries]]

ASSUME StatesMayBeMissing ==
  ~OneStateActive(Encoded("bitfield_text_table",
     <<[name |-> "B", mask |-> {1, 2}, states |-> <<Entry("x", 2, 2), Entry("y", 6, 6)>>]>>))

ASSUME LabelsMayRepeat == ~LabelsDiffer(Encoded("text_table", <<Entry("x", 0, 0), Entry("x", 6, 6)>>))

\* A signal group of the static PDU lies on the selector.
ASSUME SelectorMayBeWritten ==
  ~SelectorUntouched(
     [name |-> "x", length |-> 2, selector |-> Placed({3}, 1), mux |-> << >>,
      static |-> {Standard("s", 2, << >>, <<[at |-> {1}, members |-> <<Placed({2}, 2)>>]>>)}])

\* A rule with its ports left open drops and mirrors a frame at every port.
ASSUME ActionsMayMeet ==
  ~OneActionPerPort(
     [ports |-> <<SwitchPortOf("p", 1, << >>)>>, vlans |-> <<[id |-> 1, ports |-> <<"p">>]>>,
      rules |-> <<RuleOf(1, {}, {}, {}, <<Act("drop", << >>), Act("mirror", << >>)>>)>>])

\* Two interfaces of one name at an ECU port: the second one is not appended.
ASSUME PathsMayStop ==
  LET on(c) == Part("interface", c, "i", Plain({Phy("phy", 100)}))
      to(c) == <<End("ecu_port", Unsaid, "P"), End("interface", c, "i")>>
  IN ~PathsCollectAll(
        {Part("ecu_port", "e", "P", Config({}, 100, {}, {}, << >>, << >>)), on("c"), on("d")},
        <<to("c"), to("d")>>)

\* A socket with the address of a compute node is associated with none.
ASSUME SocketsMayBeLoose ==
  ~SocketsAssociated(
     [name |-> "c", others |-> 0, vports |-> {"i"},
      ifaces |-> <<[name |-> "i", mac |-> {"m0"}, features |-> {}, streams |-> {}, routes |-> << >>,
                    vis |-> <<Vi("v", 2, <<2>>)>>, nodes |-> <<NodeOf("m1", Vi("n", 1, <<4>>))>>,
                    containers |-> <<[vlan |-> 2, sockets |-> <<SocketOn(4, TRUE)>>]>>]>>])

-----------------------------------------------------------------------------
(* Services: a group with an element that is written out, two elements of  *)
(* one identifier.                                                         *)

Offering(events, fields, groups) ==
  [services |-> <<[name |-> "s", id |-> 1, major |-> 1, methods |-> << >>,
                   events |-> events, fields |-> fields, groups |-> groups]>>,
   timings |-> {}, sd |-> {"sd"}, deployments |-> {}, apps |-> {}, bound |-> {}]

ASSUME GroupsMayBorrow ==
  ~GroupsAreOwn(Offering(<<Element("event", "y", 2, {}, {})>>, << >>,
                         <<[name |-> "h", entries |-> <<[by |-> "element", element |-> Inline]>>]>>))

ASSUME IdentifiersMayRepeat ==
  ~IdentifiersDiffer(Offering(<<Element("event", "x", 1, {}, {})>>, <<Element("field", "w", 1, {}, {})>>, << >>))

-----------------------------------------------------------------------------

\* What F puts on a multicast socket goes back to the bus by E, whose forwarder
\* has a key of its own.
ASSUME LoopsMayCrossEthernet ==
  ~ForwardingEndsOverEthernet(
     [pdus    |-> {[name |-> ref, length |-> 4, contained |-> {}] : ref \in {"p", "k"}},
      frames  |-> <<FrameOf("x", "b1", 1)>>,
      sockets |-> <<SocketOf("E", "s1", {"m"}), SocketOf("F", "s1", {"m"})>>,
      ifaces  |-> <<CanOf("E", "b1", 1), CanOf("F", "b1", 1)>>,
      fwds    |-> <<PduForwarder("E", "s1", "p", <<ToCan("b1", 1)>>).item,
                    CanForwarder("F", "b1", "x", <<ToEth("s1", {})>>).item>>])

=============================================================================
