------------------------------- MODULE TcAttach -------------------------------
(***************************************************************************)
(* The life of the exporter's clsact filters: internal/tcattach/attach.go   *)
(* with the parts of main.go and internal/bpf/load.go that call it.  An     *)
(* instance removes what an earlier one left behind, attaches one filter    *)
(* per interface, and removes them when a signal ends it.  It may also be   *)
(* killed, or end in log.Fatalf, which runs no deferred call, between any   *)
(* two netlink requests.                                                    *)
(*                                                                         *)
(* The kernel keeps a filter until somebody deletes it by its handle or the *)
(* interface goes.  An interface that comes back under its name is another  *)
(* device, with another index and no filters.  Other programs may add       *)
(* filters of their own at any time.                                        *)
(* detachStaleTCXLinks has no action: nothing attaches TCX links            *)
(* (attachTCXEgress is never called), and closing the descriptor that the   *)
(* iterator returns detaches no link that another process holds.            *)
(***************************************************************************)
EXTENDS Integers, FiniteSets

CONSTANTS Instances, \* processes that may be started
          tagOf,     \* bytecode tag of the program an instance loads
          NIfaces,   \* interfaces, in the order of ifaceNames
          Handles,   \* filter handles, counted from filterHandleBase
          Foreign,   \* filters of other programs on each interface
          Rivals,    \* instances of one version may run at the same time
          MaxEvents, \* bound on what happens to the interfaces meanwhile
          MaxStarts, \* bound on the number of starts
          MaxFaults  \* bound on the number of failing netlink requests

Ifaces == 1..NIfaces
NoHandle == 0
Others == 0 \* owner of a filter that the exporter did not add

ASSUME AttachAssumption ==
  /\ NIfaces \in Nat \ {0} /\ MaxEvents \in Nat
  /\ MaxStarts \in Nat /\ MaxFaults \in Nat
  /\ Handles \subseteq Nat \ {NoHandle}
  /\ Rivals \in BOOLEAN

OtherTag == "other" \* bytecode tag of a program that is none of the exporter's
Tags == {tagOf[p] : p \in Instances} \union {OtherTag}
          \union UNION {{f.tag : f \in Foreign[i]} : i \in Ifaces}

Filter == [handle : Handles, owner : Nat, named : BOOLEAN, tag : Tags]

\* A foreign filter may share the exporter's name, or its tag, but not both.
ASSUME ForeignAssumption ==
  /\ \A p \in Instances : tagOf[p] # OtherTag
  /\ \A i \in Ifaces : \A f \in Foreign[i] :
       /\ f \in Filter /\ f.owner = Others
       /\ \A p \in Instances : ~(f.named /\ f.tag = tagOf[p])
       /\ \A g \in Foreign[i] : f.handle = g.handle => f = g

VARIABLES proc,    \* state of each instance
          filters, \* egress filters of each interface
          foreign, \* those among them that other programs added
          index,   \* index of the device that bears each interface's name
          events,  \* number of changes to the interfaces so far
          starts,  \* number of starts so far
          faults   \* number of failed netlink requests so far

others == <<foreign, index, events>>
vars == <<proc, filters, others, starts, faults>>

\* run numbers the starts; todo holds what CleanupEgress has still to delete;
\* clsact is the handle field of each clsactFilter and ifaceIdx its index;
\* idx is the index that the request in hand is about; slips counts the failed
\* requests of the cleanup, then those of the closing; how it last ended.
Fresh == [pc |-> "off", run |-> 0, iface |-> 1, todo |-> {}, handle |-> NoHandle, idx |-> 0,
          clsact |-> [i \in Ifaces |-> NoHandle], ifaceIdx |-> [i \in Ifaces |-> 0], slips |-> 0, how |-> "new"]

Init ==
  /\ filters = [i \in Ifaces |-> Foreign[i]] /\ foreign = filters
  /\ index = [i \in Ifaces |-> 1]
  /\ events = 0
  /\ proc = [p \in Instances |-> Fresh]
  /\ starts = 0
  /\ faults = 0

Used(i) == {f.handle : f \in filters[i]}
Without(i, h) == [filters EXCEPT ![i] = {f \in @ : f.handle # h}]

\* The device that r's request is about still bears the name.
SameDevice(r) == r.idx = index[r.iface]

Becomes(p, r) == proc' = [proc EXCEPT ![p] = r]
Fault == faults < MaxFaults /\ faults' = faults + 1

-----------------------------------------------------------------------------

\* bpf.Load has succeeded; up to then the instance touches no filter.  An
\* instance of another version may be running, as in an upgrade by hand.
Start(p) ==
  /\ proc[p].pc = "off"
  /\ starts < MaxStarts
  /\ Rivals \/ \A q \in Instances : tagOf[q] = tagOf[p] => proc[q].pc = "off"
  /\ starts' = starts + 1
  /\ Becomes(p, [Fresh EXCEPT !.pc = "list", !.run = starts + 1])
  /\ UNCHANGED <<filters, others, faults>>

(* CleanupEgress on every interface *)

\* Mutant: only the first interface is cleaned up.
NextCleanupNone(r) == [r EXCEPT !.pc = "pick", !.iface = 1, !.todo = {}]

NextCleanup(r) ==
  IF r.iface < NIfaces THEN [r EXCEPT !.pc = "list", !.iface = @ + 1, !.todo = {}]
  ELSE [r EXCEPT !.pc = "pick", !.iface = 1, !.todo = {}]

\* Mutant: the name alone identifies a leftover.
IsStaleByName(p, f) == f.named

IsStale(p, f) == f.named /\ f.tag = tagOf[p]

CleanupList(p) ==
  /\ proc[p].pc = "list"
  /\ LET stale == {f.handle : f \in {g \in filters[proc[p].iface] : IsStale(p, g)}}
     IN  Becomes(p, IF stale = {} THEN NextCleanup(proc[p])
                    ELSE [proc[p] EXCEPT !.pc = "delete", !.todo = stale,
                                         !.idx = index[proc[p].iface]])
  /\ UNCHANGED <<filters, others, starts, faults>>

\* A filter that has gone in the meantime is an error, which ends the cleanup
\* of this interface; main logs it and goes on.
CleanupDelete(p) ==
  LET r == proc[p]
  IN  /\ r.pc = "delete"
      /\ \E h \in r.todo :
           IF SameDevice(r) /\ h \in Used(r.iface)
           THEN /\ filters' = Without(r.iface, h)
                /\ Becomes(p, IF r.todo = {h} THEN NextCleanup(r)
                              ELSE [r EXCEPT !.todo = @ \ {h}])
           ELSE /\ Becomes(p, NextCleanup([r EXCEPT !.slips = @ + 1]))
                /\ UNCHANGED filters
      /\ UNCHANGED <<others, starts, faults>>

CleanupFault(p) ==
  /\ proc[p].pc \in {"list", "delete"}
  /\ Fault
  /\ Becomes(p, NextCleanup([proc[p] EXCEPT !.slips = @ + 1]))
  /\ UNCHANGED <<filters, others, starts>>

(* AttachAll *)

\* AttachAll closes what it has attached and main ends in log.Fatalf.
AttachFails(r) == [r EXCEPT !.pc = "rollback", !.iface = 1, !.handle = NoHandle, !.slips = 0]

nextFilterHandle(p) ==
  LET r == proc[p]
      free == Handles \ Used(r.iface)
  IN  /\ r.pc = "pick"
      /\ Becomes(p, IF free = {} THEN AttachFails(r)
                    ELSE [r EXCEPT !.pc = "add", !.idx = index[r.iface],
                                   !.handle = CHOOSE h \in free : \A g \in free : h <= g])
      /\ UNCHANGED <<filters, others, starts, faults>>

\* FilterAdd is exclusive: it refuses a handle that was taken meanwhile, and
\* it fails when the device has gone.
FilterAdd(p) ==
  LET r == proc[p]
  IN  /\ r.pc = "add"
      /\ IF ~SameDevice(r) \/ r.handle \in Used(r.iface)
         THEN Becomes(p, AttachFails(r)) /\ UNCHANGED filters
         ELSE /\ filters' = [filters EXCEPT ![r.iface] = @ \union
                   {[handle |-> r.handle, owner |-> r.run, named |-> TRUE, tag |-> tagOf[p]]}]
              /\ Becomes(p, [r EXCEPT
                   !.clsact[r.iface] = r.handle, !.ifaceIdx[r.iface] = r.idx, !.handle = NoHandle,
                   !.pc = IF r.iface < NIfaces THEN "pick" ELSE "run",
                   !.iface = IF r.iface < NIfaces THEN @ + 1 ELSE 1])
      /\ UNCHANGED <<others, starts, faults>>

AttachFault(p) ==
  /\ proc[p].pc \in {"pick", "add"}
  /\ Fault
  /\ Becomes(p, AttachFails(proc[p]))
  /\ UNCHANGED <<filters, others, starts>>

(* the end *)

\* SIGINT or SIGTERM: main returns and its deferred calls run.
Terminate(p) ==
  /\ proc[p].pc = "run"
  /\ Becomes(p, [proc[p] EXCEPT !.pc = "close", !.slips = 0])
  /\ UNCHANGED <<filters, others, starts, faults>>

\* First every Attachment is closed, then coll.Close closes the same
\* clsactFilters as links once more.
NextClose(r) ==
  IF r.iface < NIfaces THEN [r EXCEPT !.iface = @ + 1]
  ELSE IF r.pc = "close" THEN [r EXCEPT !.pc = "closeLinks", !.iface = 1]
  ELSE [r EXCEPT !.pc = "off", !.how = IF r.pc = "rollback" THEN "failed" ELSE "stopped"]

Closing == {"rollback", "close", "closeLinks"}

\* Mutant: the interface is looked up by its name.
LinkByName(r) == TRUE

\* The device on which the filter was added is still there.
LinkByIndex(r) == r.ifaceIdx[r.iface] = index[r.iface]

\* Mutant: a closed filter keeps its handle.
HandleKept(r) == r

HandleCleared(r) == [r EXCEPT !.clsact[r.iface] = NoHandle]

\* clsactFilter.Close: nothing to do after a successful Close; the filter is
\* found by its handle; if it is not found the error is ignored.
CloseFilter(p) ==
  LET r == proc[p]
      h == r.clsact[r.iface]
  IN  /\ r.pc \in Closing
      /\ IF h # NoHandle /\ LinkByIndex(r) /\ h \in Used(r.iface)
         THEN /\ filters' = Without(r.iface, h)
              /\ Becomes(p, NextClose(HandleCleared(r)))
         ELSE Becomes(p, NextClose(r)) /\ UNCHANGED filters
      /\ UNCHANGED <<others, starts, faults>>

\* Mutant: the handle is forgotten before the filter is deleted.
CloseForgets(r) == [r EXCEPT !.slips = @ + 1, !.clsact[r.iface] = NoHandle]

CloseErrs(r) == [r EXCEPT !.slips = @ + 1]

CloseFault(p) ==
  /\ proc[p].pc \in Closing
  /\ proc[p].clsact[proc[p].iface] # NoHandle
  /\ Fault
  /\ Becomes(p, NextClose(CloseErrs(proc[p])))
  /\ UNCHANGED <<filters, others, starts>>

\* SIGKILL, a panic, or log.Fatalf after a failed NewRingbufReader or
\* ListenAndServe: the filters stay.
Die(p) ==
  /\ proc[p].pc # "off"
  /\ Becomes(p, [proc[p] EXCEPT !.pc = "off", !.how = "died"])
  /\ UNCHANGED <<filters, others, starts, faults>>

(* the interfaces *)

\* The interface is taken down and comes back as a new device.
Recreate(i) ==
  /\ events < MaxEvents /\ events' = events + 1
  /\ index' = [index EXCEPT ![i] = @ + 1]
  /\ filters' = [filters EXCEPT ![i] = {}]
  /\ foreign' = [foreign EXCEPT ![i] = {}]
  /\ UNCHANGED <<proc, starts, faults>>

\* Another program adds a filter under the exporter's name, at a free handle.
ForeignAdd(i, h) ==
  LET f == [handle |-> h, owner |-> Others, named |-> TRUE, tag |-> OtherTag]
  IN  /\ events < MaxEvents /\ events' = events + 1
      /\ h \in Handles \ Used(i)
      /\ filters' = [filters EXCEPT ![i] = @ \union {f}]
      /\ foreign' = [foreign EXCEPT ![i] = @ \union {f}]
      /\ UNCHANGED <<proc, index, starts, faults>>

Next ==
  \/ \E i \in Ifaces : Recreate(i) \/ \E h \in Handles : ForeignAdd(i, h)
  \/ \E p \in Instances :
       \/ Start(p)
       \/ CleanupList(p) \/ CleanupDelete(p) \/ CleanupFault(p)
       \/ nextFilterHandle(p) \/ FilterAdd(p) \/ AttachFault(p)
       \/ Terminate(p) \/ CloseFilter(p) \/ CloseFault(p) \/ Die(p)

Spec == Init /\ [][Next]_vars

-----------------------------------------------------------------------------

Phases == {"off", "list", "delete", "pick", "add", "run", "rollback", "close", "closeLinks"}

Process ==
  [pc : Phases, run : Nat, iface : Ifaces, todo : SUBSET Handles,
   handle : Handles \union {NoHandle}, idx : Nat, clsact : [Ifaces -> Handles \union {NoHandle}],
   ifaceIdx : [Ifaces -> Nat], slips : Nat, how : {"new", "failed", "stopped", "died"}]

\* Every variable has its type and no two filters of an interface share a
\* handle.
TypeOK ==
  /\ starts \in Nat /\ faults \in Nat /\ events \in Nat
  /\ index \in [Ifaces -> Nat]
  /\ filters \in [Ifaces -> SUBSET Filter] /\ foreign \in [Ifaces -> SUBSET Filter]
  /\ proc \in [Instances -> Process]
  /\ \A p \in Instances : proc[p].pc = "add" => proc[p].handle \in Handles
  /\ \A i \in Ifaces : \A f, g \in filters[i] : f.handle = g.handle => f = g

\* Whatever crashes, failed starts and failed requests came before, an
\* instance whose own cleanup met no error runs with exactly one filter of
\* its program on every interface, the one it added: no packet is counted by
\* a leftover of an earlier run.  On an interface that was created anew since
\* there is none: nothing attaches again.
OneFilterWhileRunning ==
  \A p \in Instances :
    proc[p].pc = "run" /\ proc[p].slips = 0 =>
      \A i \in Ifaces :
        {f \in filters[i] : IsStale(p, f)}
          = IF proc[p].ifaceIdx[i] # index[i] THEN {}
            ELSE {[handle |-> proc[p].clsact[i], owner |-> proc[p].run, named |-> TRUE, tag |-> tagOf[p]]}

\* An instance that ends by a signal leaves no filter behind even if one
\* request fails while it closes them, because every filter is closed twice;
\* a start that fails leaves none if no request of its rollback fails.
NothingLeftBehind ==
  \A p \in Instances :
    /\ proc[p].pc = "off"
    /\ \/ proc[p].how = "stopped" /\ proc[p].slips <= 1
       \/ proc[p].how = "failed" /\ proc[p].slips = 0
    => \A i \in Ifaces : \A f \in filters[i] : f.owner # proc[p].run

\* No cleanup, rollback or shutdown ever deletes a filter that the exporter
\* did not add: not one with its name or its tag, not one that has taken the
\* handle of a filter closed before, and not one on a new device of the name.
ForeignUntouched == \A i \in Ifaces : foreign[i] \subseteq filters[i]

\* Crashes and upgrades do not pile up filters: on an interface there is at
\* most one of each version, and one more for every request that failed.
LeftoversBounded ==
  \A i \in Ifaces : \A t \in {tagOf[p] : p \in Instances} :
    Cardinality({f \in filters[i] : f.owner # Others /\ f.tag = t}) <= 1 + faults

\* internal/tcattach/attach.go:286-288: CleanupEgress removes programs "that
\* were left behind by a previous exporter instance that crashed or was
\* SIGKILLed".  A running instance keeps its filters.
RunningKeepsFilters ==
  \A p \in Instances :
    proc[p].pc = "run" => \A i \in Ifaces : \E f \in filters[i] : f.owner = proc[p].run

-----------------------------------------------------------------------------
(* Why these hold: the inductive invariants of TcAttachProofs *)

Active(p) == proc[p].pc # "off"

\* The filter that p added on interface i, if the device is still the same.
Own(p, i) == [handle |-> proc[p].clsact[i], owner |-> proc[p].run, named |-> TRUE, tag |-> tagOf[p]]
Holds(p, i) == proc[p].clsact[i] # NoHandle /\ proc[p].ifaceIdx[i] = index[i]

Stale(p, i) == {f \in filters[i] : IsStale(p, f)}
Left(i, t) == {f \in filters[i] : f.owner # Others /\ f.tag = t}
Owned(p, i) == {f \in filters[i] : f.owner = proc[p].run}

\* Every start has a number of its own, which the filters it adds bear.
RunInv ==
  /\ \A p \in Instances :
       /\ proc[p].run <= starts
       /\ Active(p) \/ proc[p].how # "new" => proc[p].run # Others
  /\ \A p, q \in Instances : proc[p].run = proc[q].run /\ proc[p].run # Others => p = q
  /\ \A i \in Ifaces : \A f \in filters[i] :
       f.owner <= starts /\ (f.owner # Others => f.named)

\* No filter of another program looks like a leftover.
ForeignInv ==
  \A i \in Ifaces : \A f \in foreign[i] :
    f.owner = Others /\ \A p \in Instances : ~IsStale(p, f)

\* An index is never one that is still to come; an instance knows every filter
\* it has added, and has closed those it has passed in a round of closing
\* without an error.
HandleOf(p) ==
  LET r == proc[p]
  IN  /\ \A i \in Ifaces : r.ifaceIdx[i] <= index[i]
      /\ r.pc \in {"delete", "add"} => r.idx <= index[r.iface]
      /\ r.pc \in {"list", "delete"} => \A i \in Ifaces : r.clsact[i] = NoHandle
      /\ r.pc \in {"pick", "add"} => \A i \in r.iface..NIfaces : r.clsact[i] = NoHandle
      /\ r.pc = "run" => r.iface = 1
      /\ Active(p) => \A i \in Ifaces : \A f \in Owned(p, i) :
                        Holds(p, i) /\ f.handle = r.clsact[i]

ClosedOf(p) ==
  LET r == proc[p]
  IN  /\ r.pc \in {"rollback", "close"} /\ r.slips = 0 =>
           \A i \in Ifaces : i < r.iface => Owned(p, i) = {}
      /\ r.pc = "closeLinks" /\ r.slips <= 1 =>
           \A i \in Ifaces : i < r.iface \/ r.slips = 0 => Owned(p, i) = {}
      /\ r.pc = "off" /\ (\/ r.how = "stopped" /\ r.slips <= 1
                          \/ r.how = "failed" /\ r.slips = 0) =>
           \A i \in Ifaces : Owned(p, i) = {}

HandleInv == \A p \in Instances : HandleOf(p)
ClosedInv == \A p \in Instances : ClosedOf(p)

\* Where instances of one version do not overlap, the filter of an instance
\* stays until it closes it, what it found to be stale until it deletes it, and
\* what is not its own for good.
SoleOf(p) ==
  Active(p) =>
    /\ \A i \in Ifaces : Holds(p, i) => Own(p, i) \in filters[i]
    /\ proc[p].pc = "delete" /\ SameDevice(proc[p]) =>
         proc[p].todo = {f.handle : f \in Stale(p, proc[p].iface)}
    /\ proc[p].pc = "delete" /\ ~SameDevice(proc[p]) => Stale(p, proc[p].iface) = {}

SoleInv ==
  /\ ForeignUntouched
  /\ \A p, q \in Instances : Active(p) /\ Active(q) /\ tagOf[p] = tagOf[q] => p = q
  /\ \A p \in Instances : SoleOf(p)

\* p has cleaned interface i up and added nothing to it since.
Cleaned(p, i) ==
  \/ proc[p].pc \in {"list", "delete"} /\ i < proc[p].iface
  \/ proc[p].pc \in {"pick", "add"} /\ i >= proc[p].iface

\* p has added its filter to interface i.
Attached(p, i) == proc[p].pc = "run" \/ (proc[p].pc \in {"pick", "add"} /\ i < proc[p].iface)

\* A cleanup without an error leaves nothing stale, an attachment one filter.
CleanOf(p) ==
  proc[p].slips = 0 =>
    \A i \in Ifaces :
      /\ Cleaned(p, i) => Stale(p, i) = {}
      /\ Attached(p, i) => Stale(p, i) = IF proc[p].ifaceIdx[i] # index[i] THEN {} ELSE {Own(p, i)}

\* Only a fault lets a leftover survive a cleanup.
CountOf(p) ==
  \A i \in Ifaces :
    /\ IsFiniteSet(Left(i, tagOf[p]))
    /\ Cardinality(Left(i, tagOf[p])) <= 1 + faults
    /\ Cleaned(p, i) => Cardinality(Left(i, tagOf[p])) <= faults

CleanInv == \A p \in Instances : CleanOf(p)
CountInv == \A p \in Instances : CountOf(p)

AttachInv == RunInv /\ ForeignInv /\ HandleInv /\ ClosedInv
SoleAttachInv == SoleInv /\ CleanInv /\ CountInv
=============================================================================
