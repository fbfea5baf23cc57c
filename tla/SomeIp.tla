------------------------------- MODULE SomeIp -------------------------------
(***************************************************************************)
(* SOME/IP: service interfaces, what is deployed and consumed of them, and *)
(* the datatypes of their parameters.                                      *)
(*                                                                         *)
(* An element of a service is an event, a field or a method:               *)
(*   [kind, name, ids, notifies, e2e, timing]                              *)
(* with the identifiers it has, whether it notifies, and sets of at most   *)
(* one end-to-end pair <<profile, data id>> and one timing profile.        *)
(* A service: [name, id, major, events, fields, methods, groups], a group  *)
(* being [name, entries] with the names of elements or, written out in     *)
(* place, elements: [by, name] or [by, element].                           *)
(***************************************************************************)
EXTENDS Binary, Integers, Sequences, FiniteSets, SequencesExt

Notifiable(s) == s.events \o s.fields

Elements(s) == Notifiable(s) \o s.methods

-----------------------------------------------------------------------------
(* One service.                                                            *)

\* resolve_eventgroup_event_refs: of several elements with a name, the last.
LastPlace(places) == {k \in places : \A l \in places : l <= k}

NamedPlace(s, name) == LastPlace({k \in DOMAIN Notifiable(s) : Notifiable(s)[k].name = name})

WithName(s, name) == {Notifiable(s)[k] : k \in NamedPlace(s, name)}

\* A name that is not found stays a name, which is not an event.
EntryElement(s, entry) == IF entry.by = "name" THEN WithName(s, entry.name) ELSE {entry.element}

GroupElements(s, g) == UNION {EntryElement(s, entry) : entry \in ToSet(g.entries)}

GroupsResolve(s) == \A g \in ToSet(s.groups) : \A entry \in ToSet(g.entries) : EntryElement(s, entry) # {}

\* The errors 135, 136 and 137 (a field without any identifier, a group with
\* an element of another service, two elements with one identifier) are made
\* but not raised: they refuse nothing.
ServiceAccepted(s) == GroupsResolve(s)

-----------------------------------------------------------------------------
(* All services, with timings, a set of <<kind, profile>>, and the timing  *)
(* profiles of service discovery: [services, timings, sd].                 *)

Protected(s) ==
  LET es == s.fields \o s.events
  IN FlattenSeq([k \in DOMAIN es |-> IF es[k].e2e = {} THEN << >> ELSE <<es[k]>>])

E2eElements(n) == FlattenSeq([k \in DOMAIN n.services |-> Protected(n.services[k])])

\* Mutant: only the elements of one service are compared.
E2eUniquePerService(n) ==
  \A s \in ToSet(n.services) :
    IsInjective([k \in DOMAIN Protected(s) |-> Protected(s)[k].e2e])

E2eUnique(n) == IsInjective([k \in DOMAIN E2eElements(n) |-> E2eElements(n)[k].e2e])

TimingsExist(n) ==
  \A s \in ToSet(n.services) : \A e \in ToSet(Elements(s)) : \A t \in e.timing : <<e.kind, t>> \in n.timings

ConfigAccepted(n) == (\A s \in ToSet(n.services) : ServiceAccepted(s)) /\ E2eUnique(n) /\ TimingsExist(n)

-----------------------------------------------------------------------------
(* Deployments on the sockets: [role, service, major, sd, groups], the     *)
(* groups being those a consumer asks for; and the references of apps.     *)

\* services_by_key: of several services with one key, the last.
DeployedPlace(n, d) ==
  LastPlace({k \in DOMAIN n.services : n.services[k].id = d.service /\ n.services[k].major = d.major})

Deployed(n, d) == {n.services[k] : k \in DeployedPlace(n, d)}

\* bind.  What a provider says it provides is not compared.
DeploymentBinds(n, d) ==
  /\ Deployed(n, d) # {}
  /\ d.sd \in n.sd
  /\ d.role = "consumer" =>
       \A s \in Deployed(n, d) : d.groups \subseteq {g.name : g \in ToSet(s.groups)}

\* A multicast provider on a UDP socket sends to the addresses of its socket.
MulticastSent(d) == d.role = "provider" => d.multicast \subseteq d.tx

\* Apps name services, controllers name apps.
AppRefsKnown(n) ==
  /\ \A a \in n.apps : a.refs \subseteq {<<s.name, s.major>> : s \in ToSet(n.services)}
  /\ n.bound \subseteq {a.name : a \in n.apps}

SomeIpAccepted(n) ==
  /\ ConfigAccepted(n)
  /\ \A d \in n.deployments : DeploymentBinds(n, d) /\ MulticastSent(d)
  /\ AppRefsKnown(n)

-----------------------------------------------------------------------------
(* Datatypes.                                                              *)

\* BASE_TYPE_RANGES.
BaseRange(t) == IF t.signed THEN (-Pow2[t.bits - 1])..(Pow2[t.bits - 1] - 1) ELSE 0..(Pow2[t.bits] - 1)

\* The base type of an enumeration and the values of its entries, in order.
EnumAccepted(t, values) == IsInjective(values) /\ ToSet(values) \subseteq BaseRange(t)

-----------------------------------------------------------------------------
(* Properties.                                                             *)

\* The notifiers of all services, by service and place.
NotifierPlaces(n) == UNION {{<<k, i>> : i \in DOMAIN Notifiable(n.services[k])} : k \in DOMAIN n.services}

NotifierAt(n, p) == Notifiable(n.services[p[1]])[p[2]]

\* The entries of the event groups that a consumer asks for by name.
EntriesNamed(s, names) ==
  UNION {{entry \in ToSet(g.entries) : entry.by = "name"} : g \in {g \in ToSet(s.groups) : g.name \in names}}

\* Where the notifiers are that a consumer hears.
Heard(n, d) ==
  UNION {UNION {{<<k, i>> : i \in NamedPlace(n.services[k], entry.name)} :
                  entry \in EntriesNamed(n.services[k], d.groups)} : k \in DeployedPlace(n, d)}

\* In an accepted network a consumer gets what it asks for and can tell it from
\* all else.  Its service has every group it names, and for every name in them
\* there is a notifier.  What it hears is timed by a profile of its own kind,
\* and its end-to-end pair is that of no other notifier of any service, not
\* even of one with the same name, identifier and pair.  Notifiers written out
\* in a group are the exception: none of the checks sees them.
SubscriptionsWork(n) ==
  SomeIpAccepted(n) =>
    \A d \in n.deployments : d.role = "consumer" =>
      /\ \E k \in DeployedPlace(n, d) :
           /\ d.groups \subseteq {g.name : g \in ToSet(n.services[k].groups)}
           /\ \A entry \in EntriesNamed(n.services[k], d.groups) :
                \E p \in Heard(n, d) : NotifierAt(n, p).name = entry.name
      /\ \A p \in Heard(n, d) :
           /\ p \in NotifierPlaces(n)
           /\ \A t \in NotifierAt(n, p).timing : <<NotifierAt(n, p).kind, t>> \in n.timings
           /\ \A q \in NotifierPlaces(n) : NotifierAt(n, p).e2e \cap NotifierAt(n, q).e2e # {} => p = q

\* "eventgroups' elements are in events/fields of service": an element that is
\* written out in a group need not be.
GroupsAreOwn(n) ==
  SomeIpAccepted(n) =>
    \A s \in ToSet(n.services) : \A g \in ToSet(s.groups) : GroupElements(s, g) \subseteq ToSet(Notifiable(s))

\* "all identifiers in service are unique": two elements may have one.
IdentifiersDiffer(n) ==
  SomeIpAccepted(n) =>
    \A s \in ToSet(n.services) : \A i, j \in DOMAIN Elements(s) :
      i # j => Elements(s)[i].ids \cap Elements(s)[j].ids = {}

\* The values of an accepted enumeration are sent as different patterns of its
\* base type, although two numbers may have one pattern.
Sent(t, v) == v % Pow2[t.bits]

EnumsReadBack(t, values) == EnumAccepted(t, values) => IsInjective([k \in DOMAIN values |-> Sent(t, values[k])])

=============================================================================
