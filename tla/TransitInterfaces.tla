-------------------------- MODULE TransitInterfaces --------------------------
(***************************************************************************)
(* The interfaces the exporter attaches to: TransitInterfaceNames of        *)
(* internal/config/interfaces.go, as main calls it once at start-up, while  *)
(* interfaces come and go.  Configured names are looked up one by one;      *)
(* without any, the interfaces are listed once and then inspected one by    *)
(* one through sysfs.                                                       *)
(***************************************************************************)
EXTENDS Integers, Sequences, FiniteSets, SequencesExt

CONSTANTS Devices,    \* device names, as numbers in the order of sort.Strings
          kind,       \* kind[d]: "wireguard", "ethernet", "loopback" or "other"
          Ignored,    \* names that match defaultIgnorePatterns
          Lists,      \* values of cfg.Interfaces; 0 is the empty name
          MaxChanges  \* bound on the number of changes to the interfaces

ASSUME InterfacesAssumption ==
  /\ Devices \subseteq Nat \ {0} /\ IsFiniteSet(Devices) /\ Ignored \subseteq Devices
  /\ Lists \subseteq Seq(Devices \union {0})
  /\ MaxChanges \in Nat

VARIABLES up,         \* devices that are up
          present,    \* devices that exist
          interfaces, \* cfg.Interfaces
          pc,         \* how far main has come
          todo,       \* what is left of the list or the names, in their order
          out,        \* names collected so far
          changes,    \* number of changes so far
          ever,       \* history: devices that were eligible at some time
          always      \* history: devices that were eligible all the time

system == <<up, present, changes, ever, always>>
search == <<pc, todo, out>>
transitVars == <<system, interfaces, search>>

-----------------------------------------------------------------------------

ShouldIgnore(d) == d \in Ignored

isWireguard(d) == d \in present /\ kind[d] = "wireguard"

isEthernet(d) == d \in present /\ kind[d] = "ethernet"

\* What the discovery looks for, at one moment.
Eligible(u, p) ==
  {d \in u \intersect p : kind[d] \in {"wireguard", "ethernet"} /\ ~ShouldIgnore(d)}

TransitInit ==
  /\ present \in SUBSET Devices /\ up \in SUBSET present
  /\ interfaces \in Lists
  /\ pc = "start" /\ todo = <<>> /\ out = <<>> /\ changes = 0
  /\ ever = Eligible(up, present) /\ always = Eligible(up, present)

\* An operator or a network manager changes one device.
Change ==
  /\ changes < MaxChanges /\ changes' = changes + 1
  /\ \E d \in Devices :
       \/ d \in up /\ up' = up \ {d} /\ UNCHANGED present
       \/ d \in present \ up /\ up' = up \union {d} /\ UNCHANGED present
       \/ d \in present /\ present' = present \ {d} /\ up' = up \ {d}
       \/ d \notin present /\ present' = present \union {d} /\ UNCHANGED up
  /\ ever' = ever \union Eligible(up', present')
  /\ always' = always \intersect Eligible(up', present')
  /\ UNCHANGED <<interfaces, search>>

Goes(p, t, o) == pc' = p /\ todo' = t /\ out' = o

\* len(c.Interfaces) > 0 decides; net.Interfaces returns names and flags of
\* one moment, in the kernel's order, of which those of the loopback and of
\* devices that are down are passed over.
TransitInterfaceNames ==
  /\ pc = "start"
  /\ IF interfaces # <<>>
     THEN pc' = "resolve" /\ todo' = interfaces
     ELSE pc' = "discover" /\ todo' \in SetToSeqs({d \in up : kind[d] # "loopback"})
  /\ UNCHANGED <<system, interfaces, out>>

\* net.Interfaces fails and ends main.
ListFails ==
  /\ pc = "start" /\ interfaces = <<>>
  /\ Goes("failed", <<>>, <<>>)
  /\ UNCHANGED <<system, interfaces>>

\* Mutant: a configured interface that is not up is passed over.
SkipIfDown(d) == Goes("resolve", Tail(todo), out)

\* An error for an interface that does not exist or is not up ends main.
FailIfDown(d) == Goes("failed", <<>>, <<>>)

\* Mutant: a name that is configured twice is attached twice.
NotSeen(d) == TRUE

New(d) == d \notin ToSet(out)

\* resolveInterfaceNames, one name.
ResolveName ==
  LET d == Head(todo)
  IN  /\ pc = "resolve" /\ todo # <<>>
      /\ \/ (d = 0 \/ ~New(d)) /\ Goes("resolve", Tail(todo), out)
         \/ d # 0 /\ New(d) /\ d \notin up /\ FailIfDown(d)
         \/ d # 0 /\ New(d) /\ d \in up /\ Goes("resolve", Tail(todo), Append(out, d))
      /\ UNCHANGED <<system, interfaces>>

\* Mutant: the first device of another kind ends the search.
OtherKindEnds == Goes("discover", <<>>, out)

OtherKind == Goes("discover", Tail(todo), out)

\* DiscoverTransitInterfaces, one interface of the list.
DiscoverOne ==
  LET d == Head(todo)
  IN  /\ pc = "discover" /\ todo # <<>>
      /\ IF ~ShouldIgnore(d) /\ (isWireguard(d) \/ isEthernet(d))
         THEN Goes("discover", Tail(todo), Append(out, d)) ELSE OtherKind
      /\ UNCHANGED <<system, interfaces>>

\* Mutant: an empty list is no error.
EmptyIsFine == FALSE

NothingFound == out = <<>>

\* sort.Strings: what is in order among the rearrangements of the names.
Rearranged(s) == {[i \in DOMAIN s |-> s[p[i]]] : p \in SetToSeqs(DOMAIN s)}
Sorted(s) == {t \in Rearranged(s) : \A i, j \in DOMAIN t : i <= j => t[i] <= t[j]}

\* Both end with an error if nothing was found, and sort what was.  AttachAll
\* then attaches one filter per name and fails for a device that has gone
\* (what it does is the subject of TcAttach).
AttachAll ==
  /\ pc \in {"resolve", "discover"} /\ todo = <<>>
  /\ IF NothingFound \/ \E d \in ToSet(out) : d \notin present
     THEN Goes("failed", <<>>, <<>>)
     ELSE \E names \in Sorted(out) : Goes("running", <<>>, names)
  /\ UNCHANGED <<system, interfaces>>

TransitNext ==
  \/ Change
  \/ TransitInterfaceNames \/ ListFails \/ ResolveName \/ DiscoverOne \/ AttachAll

TransitSpec == TransitInit /\ [][TransitNext]_transitVars

-----------------------------------------------------------------------------

\* Every variable has its type.
TransitTypeOK ==
  /\ present \subseteq Devices /\ up \subseteq present /\ changes \in 0..MaxChanges
  /\ pc \in {"start", "resolve", "discover", "failed", "running"}
  /\ interfaces \in Lists /\ out \in Seq(Devices)

Distinct(s) == \A i, j \in DOMAIN s : i # j => s[i] # s[j]

\* No device carries two filters of one instance, which would count every
\* packet twice and the second time as a retransmit, however often its name
\* is configured.
OneFilterPerDevice == Distinct(out)

\* An exporter that runs on configured interfaces runs on all of them, and on
\* no other: a name that cannot be resolved is an error and no gap.
AllConfiguredAttached ==
  pc = "running" /\ interfaces # <<>> => ToSet(out) = ToSet(interfaces) \ {0}

\* The discovery attaches to every device that was eligible all the time and
\* to none that never was, whatever came and went while it was looking; with
\* no device at all the exporter does not run.
DiscoveryIsComplete ==
  pc = "running" /\ interfaces = <<>> =>
    /\ out # <<>>
    /\ always \subseteq ToSet(out) /\ ToSet(out) \subseteq ever

-----------------------------------------------------------------------------
(* What the proofs need besides *)

\* What was eligible all the time is so now, and what is so now was at some time.
HistoryInv == always \subseteq Eligible(up, present) /\ Eligible(up, present) \subseteq ever

\* While names are looked up, what is attached or left is what was configured.
ResolveInv ==
  pc = "resolve" =>
    /\ interfaces # <<>> /\ todo \in Seq(Devices \union {0})
    /\ ToSet(interfaces) \ {0} = ToSet(out) \union (ToSet(todo) \ {0})

\* While devices are inspected, none is in both lists, the devices that have
\* been eligible all the time are in one of them, and what is there or will be
\* added was eligible when the devices were listed.
DiscoverInv ==
  pc = "discover" =>
    /\ interfaces = <<>> /\ todo \in Seq(Devices) /\ Distinct(todo)
    /\ ToSet(out) \intersect ToSet(todo) = {}
    /\ always \subseteq ToSet(out) \union ToSet(todo)
    /\ ToSet(out) \subseteq ever
    /\ \A d \in ToSet(todo) :
         kind[d] \in {"wireguard", "ethernet"} /\ ~ShouldIgnore(d) => d \in ever

SearchInv ==
  /\ TransitTypeOK /\ HistoryInv /\ (pc = "start" => out = <<>>)
  /\ OneFilterPerDevice
  /\ ResolveInv /\ DiscoverInv
  /\ AllConfiguredAttached /\ DiscoveryIsComplete
=============================================================================
