---------------------------- MODULE TcAttachProofs ----------------------------
(***************************************************************************)
(* Theorems about TcAttach, for any instances and versions, any number of  *)
(* interfaces, handles, starts, faults and events, and any filters of      *)
(* other programs; and about TransitInterfaces, which finds the devices to *)
(* attach to, for any devices, patterns, lists of names and changes.       *)
(***************************************************************************)
EXTENDS TcAttach, TransitInterfaces, FiniteSetTheorems, WellFoundedInduction, TLAPS

-----------------------------------------------------------------------------
(* What each step does to the record of its instance *)

LEMMA IfacesType == Ifaces \subseteq Nat /\ 1 \in Ifaces /\ NIfaces \in Ifaces /\ NIfaces \in Nat
BY AttachAssumption DEF Ifaces

LEMMA FreshType ==
  /\ Fresh \in Process
  /\ Fresh.pc = "off" /\ Fresh.run = 0 /\ Fresh.iface = 1 /\ Fresh.slips = 0 /\ Fresh.how = "new"
  /\ \A i \in Ifaces : Fresh.clsact[i] = NoHandle /\ Fresh.ifaceIdx[i] = 0
<1> DEFINE cl == [i \in Ifaces |-> NoHandle]
           ix == [i \in Ifaces |-> 0]
<1>1. cl \in [Ifaces -> Handles \union {NoHandle}] /\ ix \in [Ifaces -> Nat]  OBVIOUS
<1>2. \A i \in Ifaces : cl[i] = NoHandle /\ ix[i] = 0  OBVIOUS
<1>3. Fresh = [pc |-> "off", run |-> 0, iface |-> 1, todo |-> {}, handle |-> NoHandle, idx |-> 0,
               clsact |-> cl, ifaceIdx |-> ix, slips |-> 0, how |-> "new"]
  BY DEF Fresh
<1> HIDE DEF cl, ix
<1>4. "off" \in Phases  BY DEF Phases
<1>5. Fresh \in Process  BY <1>1, <1>3, <1>4, IfacesType DEF Process
<1>6. Fresh.pc = "off"  BY <1>3
<1>7. Fresh.run = 0  BY <1>3
<1>8. Fresh.iface = 1  BY <1>3
<1>9. Fresh.slips = 0  BY <1>3
<1>10. Fresh.how = "new"  BY <1>3
<1>11. Fresh.clsact = cl /\ Fresh.ifaceIdx = ix  BY <1>3
<1> QED  BY <1>2, <1>5, <1>6, <1>7, <1>8, <1>9, <1>10, <1>11

\* What an instance knows of its filters, and the number it runs under.
Same(r, q) == q.run = r.run /\ q.clsact = r.clsact /\ q.ifaceIdx = r.ifaceIdx /\ q.how = r.how

\* The cleanup of one interface is over.
CleanedUp(r, q) ==
  /\ q \in Process /\ Same(r, q)
  /\ \/ r.iface < NIfaces /\ q.pc = "list" /\ q.iface = r.iface + 1
     \/ r.iface = NIfaces /\ q.pc = "pick" /\ q.iface = 1

LEMMA NextCleanupType ==
  ASSUME NEW r \in Process
  PROVE  CleanedUp(r, NextCleanup(r)) /\ NextCleanup(r).slips = r.slips
<1> USE IfacesType
<1>0. r.iface \in Ifaces /\ "list" \in Phases /\ "pick" \in Phases /\ {} \in SUBSET Handles
  BY DEF Process, Phases
<1>1. CASE r.iface < NIfaces
  <2>1. NextCleanup(r) = [r EXCEPT !.pc = "list", !.iface = r.iface + 1, !.todo = {}]
    BY <1>1 DEF NextCleanup
  <2>2. r.iface + 1 \in Ifaces  BY <1>0, <1>1 DEF Ifaces
  <2>3. NextCleanup(r) \in Process  BY <1>0, <2>1, <2>2 DEF Process
  <2> QED  BY <1>1, <2>1, <2>3 DEF Process, CleanedUp, Same
<1>2. CASE ~(r.iface < NIfaces)
  <2>1. NextCleanup(r) = [r EXCEPT !.pc = "pick", !.iface = 1, !.todo = {}]
    BY <1>2 DEF NextCleanup
  <2>2. r.iface = NIfaces  BY <1>0, <1>2 DEF Ifaces
  <2>3. NextCleanup(r) \in Process  BY <1>0, <2>1 DEF Process
  <2> QED  BY <2>1, <2>2, <2>3 DEF Process, CleanedUp, Same
<1> QED  BY <1>1, <1>2

LEMMA SlipType ==
  ASSUME NEW r \in Process
  PROVE  LET r1 == [r EXCEPT !.slips = @ + 1]
         IN  /\ r1 \in Process /\ Same(r, r1) /\ r1.pc = r.pc /\ r1.iface = r.iface
             /\ r1.slips = r.slips + 1 /\ r1.slips # 0
BY DEF Process, Same

\* The attachment has failed and what was attached is closed.
RolledBack(r, q) == q \in Process /\ Same(r, q) /\ q.pc = "rollback" /\ q.iface = 1

LEMMA AttachFailsType ==
  ASSUME NEW r \in Process
  PROVE  RolledBack(r, AttachFails(r)) /\ AttachFails(r).slips = 0
<1> DEFINE r1 == [r EXCEPT !.slips = 0]
           r2 == [r1 EXCEPT !.handle = NoHandle]
<1>1. AttachFails(r) = [r2 EXCEPT !.pc = "rollback", !.iface = 1]
  BY DEF AttachFails, Process
<1>2. r1 \in Process /\ Same(r, r1) /\ r1.slips = 0  BY DEF Process, Same
<1> HIDE DEF r1
<1>3. r2 \in Process /\ Same(r, r2) /\ r2.slips = 0  BY <1>2 DEF Process, Same
<1> HIDE DEF r2
<1>4. "rollback" \in Phases  BY DEF Phases
<1> QED  BY <1>1, <1>3, <1>4, IfacesType DEF Process, RolledBack, Same

\* One interface of a round of closing is done.
ClosedOne(r, q) ==
  /\ q \in Process /\ q.run = r.run /\ q.clsact = r.clsact /\ q.ifaceIdx = r.ifaceIdx
  /\ q.slips = r.slips
  /\ \/ r.iface < NIfaces /\ q.pc = r.pc /\ q.iface = r.iface + 1 /\ q.how = r.how
     \/ r.iface = NIfaces /\ r.pc = "close" /\ q.pc = "closeLinks" /\ q.iface = 1 /\ q.how = r.how
     \/ /\ r.iface = NIfaces /\ r.pc # "close" /\ q.pc = "off"
        /\ q.how = IF r.pc = "rollback" THEN "failed" ELSE "stopped"

LEMMA NextCloseType ==
  ASSUME NEW r \in Process
  PROVE  ClosedOne(r, NextClose(r))
<1> USE IfacesType
<1>0. r.iface \in Ifaces /\ "closeLinks" \in Phases /\ "off" \in Phases
  BY DEF Process, Phases
<1>1. CASE r.iface < NIfaces
  <2>1. NextClose(r) = [r EXCEPT !.iface = r.iface + 1]  BY <1>1 DEF NextClose
  <2>2. r.iface + 1 \in Ifaces  BY <1>0, <1>1 DEF Ifaces
  <2> QED  BY <1>1, <2>1, <2>2 DEF Process, ClosedOne
<1>2. CASE ~(r.iface < NIfaces) /\ r.pc = "close"
  <2>1. NextClose(r) = [r EXCEPT !.pc = "closeLinks", !.iface = 1]  BY <1>2 DEF NextClose
  <2>2. r.iface = NIfaces  BY <1>0, <1>2 DEF Ifaces
  <2> QED  BY <1>0, <1>2, <2>1, <2>2 DEF Process, ClosedOne
<1>3. CASE ~(r.iface < NIfaces) /\ r.pc # "close"
  <2> DEFINE end == IF r.pc = "rollback" THEN "failed" ELSE "stopped"
  <2>1. NextClose(r) = [r EXCEPT !.pc = "off", !.how = end]  BY <1>3 DEF NextClose
  <2>2. r.iface = NIfaces  BY <1>0, <1>3 DEF Ifaces
  <2>3. end \in {"new", "failed", "stopped", "died"}  OBVIOUS
  <2>4. /\ NextClose(r) \in Process
        /\ NextClose(r).pc = "off" /\ NextClose(r).how = end
    <3> HIDE DEF end
    <3> QED  BY <1>0, <2>1, <2>3 DEF Process
  <2> QED  BY <1>3, <2>1, <2>2, <2>4 DEF Process, ClosedOne
<1> QED  BY <1>1, <1>2, <1>3

LEMMA HandleClearedType ==
  ASSUME NEW r \in Process
  PROVE  LET q == HandleCleared(r)
         IN  /\ q \in Process /\ q.run = r.run /\ q.ifaceIdx = r.ifaceIdx /\ q.how = r.how
             /\ q.slips = r.slips /\ q.pc = r.pc /\ q.iface = r.iface
             /\ \A i \in Ifaces : q.clsact[i] = IF i = r.iface THEN NoHandle ELSE r.clsact[i]
BY DEF HandleCleared, Process

-----------------------------------------------------------------------------
(* The effect of each action *)

\* A step of p leaves the records of the other instances alone.
Alone(p) == proc' = [proc EXCEPT ![p] = proc'[p]]

Quiet == filters' = filters /\ foreign' = foreign /\ index' = index /\ events' = events

\* The filter with handle h on interface i is deleted.
Deletes(i, h) ==
  /\ filters' = [filters EXCEPT ![i] = {f \in filters[i] : f.handle # h}]
  /\ foreign' = foreign /\ index' = index /\ events' = events

LEMMA StartEffect ==
  ASSUME TypeOK, NEW p \in Instances, Start(p)
  PROVE  /\ Alone(p) /\ Quiet /\ faults' = faults /\ starts' = starts + 1
         /\ proc'[p] \in Process /\ proc'[p].pc = "list" /\ proc'[p].run = starts + 1
         /\ proc'[p].iface = 1 /\ proc'[p].slips = 0 /\ proc'[p].how = "new"
         /\ \A i \in Ifaces : proc'[p].clsact[i] = NoHandle /\ proc'[p].ifaceIdx[i] = 0
<1> DEFINE q == [Fresh EXCEPT !.pc = "list", !.run = starts + 1]
<1>1. proc' = [proc EXCEPT ![p] = q]  BY DEF Start, Becomes
<1>2. proc'[p] = q /\ Alone(p)  BY <1>1 DEF TypeOK, Alone
<1>3. "list" \in Phases /\ starts + 1 \in Nat  BY DEF TypeOK, Phases
<1>4. /\ q \in Process /\ q.pc = "list" /\ q.run = starts + 1 /\ q.iface = Fresh.iface
      /\ q.slips = Fresh.slips /\ q.how = Fresh.how
      /\ q.clsact = Fresh.clsact /\ q.ifaceIdx = Fresh.ifaceIdx
  BY <1>3, FreshType DEF Process
<1> HIDE DEF q
<1> QED  BY <1>2, <1>4, FreshType DEF Start, Quiet, others

LEMMA CleanupListEffect ==
  ASSUME TypeOK, NEW p \in Instances, CleanupList(p)
  PROVE  /\ Alone(p) /\ Quiet /\ faults' = faults /\ starts' = starts
         /\ \/ /\ Stale(p, proc[p].iface) = {}
               /\ CleanedUp(proc[p], proc'[p]) /\ proc'[p].slips = proc[p].slips
            \/ /\ proc'[p] \in Process /\ Same(proc[p], proc'[p]) /\ proc'[p].slips = proc[p].slips
               /\ proc'[p].pc = "delete" /\ proc'[p].iface = proc[p].iface
               /\ proc'[p].todo = {f.handle : f \in Stale(p, proc[p].iface)}
               /\ proc'[p].idx = index[proc[p].iface]
<1> DEFINE r == proc[p]
           stale == {f.handle : f \in Stale(p, r.iface)}
           q == IF stale = {} THEN NextCleanup(r)
                ELSE [r EXCEPT !.pc = "delete", !.todo = stale, !.idx = index[r.iface]]
<1>0. r \in Process /\ r.iface \in Ifaces  BY DEF TypeOK, Process
<1>1. proc' = [proc EXCEPT ![p] = q]  BY DEF CleanupList, Becomes, Stale
<1>2. proc'[p] = q /\ Alone(p)  BY <1>1 DEF TypeOK, Alone
<1>3. CASE stale = {}
  <2>1. Stale(p, r.iface) = {}  BY <1>3
  <2> QED  BY <1>0, <1>2, <1>3, <2>1, NextCleanupType DEF CleanupList, Quiet, others
<1>4. CASE stale # {}
  <2>1. "delete" \in Phases /\ index[r.iface] \in Nat  BY <1>0 DEF TypeOK, Phases
  <2>2. stale \in SUBSET Handles  BY <1>0 DEF TypeOK, Filter, Stale
  <2>3. proc'[p] = [r EXCEPT !.pc = "delete", !.todo = stale, !.idx = index[r.iface]]
    BY <1>2, <1>4
  <2> HIDE DEF stale, q
  <2>4. /\ proc'[p] \in Process /\ Same(r, proc'[p]) /\ proc'[p].slips = r.slips
        /\ proc'[p].pc = "delete" /\ proc'[p].iface = r.iface
        /\ proc'[p].todo = stale /\ proc'[p].idx = index[r.iface]
    BY <1>0, <2>1, <2>2, <2>3 DEF Process, Same
  <2> QED  BY <1>2, <2>4 DEF CleanupList, Quiet, others, stale
<1> QED  BY <1>3, <1>4

LEMMA CleanupDeleteEffect ==
  ASSUME TypeOK, NEW p \in Instances, CleanupDelete(p)
  PROVE  LET r == proc[p]
             q == proc'[p]
         IN  /\ Alone(p) /\ faults' = faults /\ starts' = starts
             /\ \/ \E h \in r.todo :
                     /\ SameDevice(r) /\ h \in Used(r.iface) /\ Deletes(r.iface, h)
                     /\ q.slips = r.slips
                     /\ \/ r.todo = {h} /\ CleanedUp(r, q)
                        \/ /\ r.todo # {h} /\ q \in Process /\ Same(r, q)
                           /\ q.pc = "delete" /\ q.iface = r.iface /\ q.idx = r.idx
                           /\ q.todo = r.todo \ {h}
                \/ /\ Quiet /\ CleanedUp(r, q) /\ q.slips # 0
                   /\ ~SameDevice(r) \/ \E h \in r.todo : h \notin Used(r.iface)
<1> DEFINE r == proc[p]
           q == proc'[p]
<1>0. r \in Process /\ r.iface \in Ifaces /\ r.todo \in SUBSET Handles  BY DEF TypeOK, Process
<1>1. PICK h \in r.todo :
        IF SameDevice(r) /\ h \in Used(r.iface)
        THEN /\ filters' = Without(r.iface, h)
             /\ Becomes(p, IF r.todo = {h} THEN NextCleanup(r)
                           ELSE [r EXCEPT !.todo = r.todo \ {h}])
        ELSE /\ Becomes(p, NextCleanup([r EXCEPT !.slips = r.slips + 1]))
             /\ UNCHANGED filters
  BY DEF CleanupDelete
<1>2. foreign' = foreign /\ index' = index /\ events' = events /\ faults' = faults /\ starts' = starts
  BY DEF CleanupDelete, others
<1>3. CASE SameDevice(r) /\ h \in Used(r.iface)
  <2>1. Deletes(r.iface, h)  BY <1>1, <1>2, <1>3 DEF Without, Deletes
  <2>2. CASE r.todo = {h}
    <3>1. proc' = [proc EXCEPT ![p] = NextCleanup(r)]  BY <1>1, <1>3, <2>2 DEF Becomes
    <3>2. q = NextCleanup(r) /\ Alone(p)  BY <3>1 DEF TypeOK, Alone
    <3>3. CleanedUp(r, q) /\ q.slips = r.slips  BY <1>0, <3>2, NextCleanupType
    <3> QED  BY <1>2, <1>3, <2>1, <2>2, <3>2, <3>3
  <2>3. CASE r.todo # {h}
    <3> DEFINE rest == r.todo \ {h}
    <3>1. proc' = [proc EXCEPT ![p] = [r EXCEPT !.todo = rest]]  BY <1>1, <1>3, <2>3 DEF Becomes
    <3>2. q = [r EXCEPT !.todo = rest] /\ Alone(p)  BY <3>1 DEF TypeOK, Alone
    <3>3. rest \in SUBSET Handles /\ r.pc = "delete"  BY <1>0 DEF CleanupDelete
    <3> HIDE DEF rest
    <3>4. /\ q \in Process /\ Same(r, q) /\ q.slips = r.slips
          /\ q.pc = "delete" /\ q.iface = r.iface /\ q.idx = r.idx /\ q.todo = rest
      BY <1>0, <3>2, <3>3 DEF Process, Same
    <3> QED  BY <1>2, <1>3, <2>1, <2>3, <3>2, <3>4 DEF rest
  <2> QED  BY <2>2, <2>3
<1>4. CASE ~(SameDevice(r) /\ h \in Used(r.iface))
  <2> DEFINE r1 == [r EXCEPT !.slips = @ + 1]
  <2>1. proc' = [proc EXCEPT ![p] = NextCleanup(r1)] /\ filters' = filters
    BY <1>1, <1>4 DEF Becomes
  <2>2. q = NextCleanup(r1) /\ Alone(p)  BY <2>1 DEF TypeOK, Alone
  <2>3. r1 \in Process /\ Same(r, r1) /\ r1.iface = r.iface /\ r1.slips # 0  BY <1>0, SlipType
  <2> HIDE DEF r1
  <2>4. CleanedUp(r1, q) /\ q.slips = r1.slips  BY <2>2, <2>3, NextCleanupType
  <2>5. CleanedUp(r, q) /\ q.slips # 0  BY <2>3, <2>4 DEF CleanedUp, Same
  <2> QED  BY <1>2, <1>4, <2>1, <2>2, <2>5 DEF Quiet
<1> QED  BY <1>3, <1>4

LEMMA CleanupFaultEffect ==
  ASSUME TypeOK, NEW p \in Instances, CleanupFault(p)
  PROVE  /\ Alone(p) /\ Quiet /\ faults' = faults + 1 /\ starts' = starts
         /\ CleanedUp(proc[p], proc'[p]) /\ proc'[p].slips # 0
<1> DEFINE r == proc[p]
           q == proc'[p]
           r1 == [r EXCEPT !.slips = @ + 1]
<1>0. r \in Process  BY DEF TypeOK
<1>1. proc' = [proc EXCEPT ![p] = NextCleanup(r1)]
  BY DEF CleanupFault, Becomes
<1>2. q = NextCleanup(r1) /\ Alone(p)  BY <1>1 DEF TypeOK, Alone
<1>3. r1 \in Process /\ Same(r, r1) /\ r1.iface = r.iface /\ r1.slips # 0  BY <1>0, SlipType
<1> HIDE DEF r1
<1>4. CleanedUp(r1, q) /\ q.slips = r1.slips  BY <1>2, <1>3, NextCleanupType
<1>5. CleanedUp(r, q) /\ q.slips # 0  BY <1>3, <1>4 DEF CleanedUp, Same
<1> QED  BY <1>2, <1>5 DEF CleanupFault, Fault, Quiet, others

LEMMA LeastHandle ==
  ASSUME NEW S \in SUBSET Nat, S # {}
  PROVE  \E h \in S : \A g \in S : h <= g
<1> DEFINE R == OpToRel(<, Nat)
<1>1. PICK h \in S : \A g \in S : ~(<<g, h>> \in R)
  <2>1. IsWellFoundedOn(R, Nat)  BY NatLessThanWellFounded
  <2> HIDE DEF R
  <2> QED  BY <2>1, WFMin
<1>2. \A g \in S : g < h => <<g, h>> \in R  BY DEF OpToRel
<1> HIDE DEF R
<1>3. \A g \in S : ~(g < h)  BY <1>1, <1>2
<1> QED  BY <1>3

LEMMA PickEffect ==
  ASSUME TypeOK, NEW p \in Instances, nextFilterHandle(p)
  PROVE  LET r == proc[p]
             q == proc'[p]
         IN  /\ Alone(p) /\ Quiet /\ faults' = faults /\ starts' = starts
             /\ \/ RolledBack(r, q) /\ q.slips = 0
                \/ /\ q \in Process /\ Same(r, q) /\ q.slips = r.slips /\ q.pc = "add"
                   /\ q.iface = r.iface /\ q.idx = index[r.iface] /\ q.handle \in Handles
<1> DEFINE r == proc[p]
           q == proc'[p]
           free == Handles \ Used(r.iface)
           low == CHOOSE h \in free : \A g \in free : h <= g
<1>0. r \in Process /\ r.iface \in Ifaces  BY DEF TypeOK, Process
<1>1. proc' = [proc EXCEPT ![p] =
                 IF free = {} THEN AttachFails(r)
                 ELSE [r EXCEPT !.pc = "add", !.idx = index[r.iface], !.handle = low]]
  BY DEF nextFilterHandle, Becomes
<1>2. CASE free = {}
  <2>1. q = AttachFails(r) /\ Alone(p)  BY <1>1, <1>2 DEF TypeOK, Alone
  <2> QED  BY <1>0, <2>1, AttachFailsType DEF nextFilterHandle, Quiet, others
<1>3. CASE free # {}
  <2>1. q = [r EXCEPT !.pc = "add", !.idx = index[r.iface], !.handle = low] /\ Alone(p)
    BY <1>1, <1>3 DEF TypeOK, Alone
  <2>2. low \in Handles
    <3>1. free \subseteq Nat  BY AttachAssumption
    <3>2. \E h \in free : \A g \in free : h <= g  BY <1>3, <3>1, LeastHandle
    <3> QED  BY <3>2
  <2>3. "add" \in Phases /\ index[r.iface] \in Nat  BY <1>0 DEF TypeOK, Phases
  <2> HIDE DEF low
  <2>4. /\ q \in Process /\ Same(r, q) /\ q.slips = r.slips /\ q.pc = "add"
        /\ q.iface = r.iface /\ q.idx = index[r.iface] /\ q.handle \in Handles
    BY <1>0, <2>1, <2>2, <2>3 DEF Process, Same
  <2> QED  BY <2>1, <2>4 DEF nextFilterHandle, Quiet, others
<1> QED  BY <1>2, <1>3

\* The filter that FilterAdd adds.
Added(p) == [handle |-> proc[p].handle, owner |-> proc[p].run, named |-> TRUE, tag |-> tagOf[p]]

LEMMA FilterAddEffect ==
  ASSUME TypeOK, NEW p \in Instances, FilterAdd(p)
  PROVE  LET r == proc[p]
             q == proc'[p]
         IN  /\ Alone(p) /\ faults' = faults /\ starts' = starts
             /\ \/ Quiet /\ RolledBack(r, q) /\ q.slips = 0
                \/ /\ r.idx = index[r.iface] /\ r.handle \in Handles /\ r.handle \notin Used(r.iface)
                   /\ filters' = [filters EXCEPT ![r.iface] = filters[r.iface] \union {Added(p)}]
                   /\ foreign' = foreign /\ index' = index /\ events' = events
                   /\ q \in Process /\ q.run = r.run /\ q.how = r.how /\ q.slips = r.slips
                   /\ \A i \in Ifaces :
                        /\ q.clsact[i] = IF i = r.iface THEN r.handle ELSE r.clsact[i]
                        /\ q.ifaceIdx[i] = IF i = r.iface THEN r.idx ELSE r.ifaceIdx[i]
                   /\ \/ r.iface < NIfaces /\ q.pc = "pick" /\ q.iface = r.iface + 1
                      \/ r.iface = NIfaces /\ q.pc = "run" /\ q.iface = 1
<1> DEFINE r == proc[p]
           q == proc'[p]
           next == IF r.iface < NIfaces THEN "pick" ELSE "run"
           to == IF r.iface < NIfaces THEN r.iface + 1 ELSE 1
<1>0. r \in Process /\ r.iface \in Ifaces /\ r.handle \in Handles /\ r.idx \in Nat /\ r.pc = "add"
  BY DEF TypeOK, Process, FilterAdd
<1>1. CASE ~SameDevice(r) \/ r.handle \in Used(r.iface)
  <2>1. proc' = [proc EXCEPT ![p] = AttachFails(r)] /\ filters' = filters
    BY <1>1 DEF FilterAdd, Becomes
  <2>2. q = AttachFails(r) /\ Alone(p)  BY <2>1 DEF TypeOK, Alone
  <2> QED  BY <1>0, <2>1, <2>2, AttachFailsType DEF FilterAdd, Quiet, others
<1>2. CASE SameDevice(r) /\ r.handle \notin Used(r.iface)
  <2> DEFINE n == [r EXCEPT !.clsact[r.iface] = r.handle, !.ifaceIdx[r.iface] = r.idx,
                            !.handle = NoHandle, !.pc = next, !.iface = to]
  <2>1. proc' = [proc EXCEPT ![p] = n]  BY <1>2 DEF FilterAdd, Becomes
  <2>2. filters' = [filters EXCEPT ![r.iface] = filters[r.iface] \union {Added(p)}]
    BY <1>2 DEF FilterAdd, Added
  <2>3. q = n /\ Alone(p)  BY <2>1 DEF TypeOK, Alone
  <2>4. next \in Phases /\ to \in Ifaces
    BY <1>0, IfacesType DEF Phases, Ifaces
  <2>5. /\ \/ r.iface < NIfaces /\ next = "pick" /\ to = r.iface + 1
           \/ r.iface = NIfaces /\ next = "run" /\ to = 1
    BY <1>0, IfacesType DEF Ifaces
  <2> HIDE DEF next, to
  <2> DEFINE cl == [r.clsact EXCEPT ![r.iface] = r.handle]
             ix == [r.ifaceIdx EXCEPT ![r.iface] = r.idx]
             r1 == [r EXCEPT !.handle = NoHandle]
  <2>6. cl \in [Ifaces -> Handles \union {NoHandle}] /\ ix \in [Ifaces -> Nat]
    BY <1>0 DEF Process
  <2>7. \A i \in Ifaces : /\ cl[i] = IF i = r.iface THEN r.handle ELSE r.clsact[i]
                          /\ ix[i] = IF i = r.iface THEN r.idx ELSE r.ifaceIdx[i]
    BY <1>0 DEF Process
  <2>8. n = [r1 EXCEPT !.clsact = cl, !.ifaceIdx = ix, !.pc = next, !.iface = to]
    BY <1>0 DEF Process
  <2>9. r1 \in Process /\ r1.run = r.run /\ r1.how = r.how /\ r1.slips = r.slips
    BY <1>0 DEF Process
  <2> HIDE DEF n, cl, ix, r1
  <2>10. /\ n \in Process /\ n.run = r.run /\ n.how = r.how /\ n.slips = r.slips
         /\ n.clsact = cl /\ n.ifaceIdx = ix /\ n.pc = next /\ n.iface = to
    BY <2>4, <2>6, <2>8, <2>9 DEF Process
  <2>11. r.idx = index[r.iface]  BY <1>2 DEF SameDevice
  <2>12. /\ foreign' = foreign /\ index' = index /\ events' = events
         /\ faults' = faults /\ starts' = starts
    BY DEF FilterAdd, others
  <2> QED  BY <1>0, <1>2, <2>2, <2>3, <2>5, <2>7, <2>10, <2>11, <2>12
<1> QED  BY <1>1, <1>2

LEMMA AttachFaultEffect ==
  ASSUME TypeOK, NEW p \in Instances, AttachFault(p)
  PROVE  /\ Alone(p) /\ Quiet /\ faults' = faults + 1 /\ starts' = starts
         /\ RolledBack(proc[p], proc'[p]) /\ proc'[p].slips = 0
<1>0. proc[p] \in Process  BY DEF TypeOK
<1>1. proc' = [proc EXCEPT ![p] = AttachFails(proc[p])]  BY DEF AttachFault, Becomes
<1>2. proc'[p] = AttachFails(proc[p]) /\ Alone(p)  BY <1>1 DEF TypeOK, Alone
<1> QED  BY <1>0, <1>2, AttachFailsType DEF AttachFault, Fault, Quiet, others

LEMMA TerminateEffect ==
  ASSUME TypeOK, NEW p \in Instances, Terminate(p)
  PROVE  /\ Alone(p) /\ Quiet /\ faults' = faults /\ starts' = starts
         /\ proc'[p] \in Process /\ Same(proc[p], proc'[p]) /\ proc'[p].pc = "close"
         /\ proc'[p].iface = proc[p].iface /\ proc'[p].slips = 0
<1> DEFINE r == proc[p]
<1>0. r \in Process /\ "close" \in Phases  BY DEF TypeOK, Phases
<1>1. proc' = [proc EXCEPT ![p] = [r EXCEPT !.pc = "close", !.slips = 0]]
  BY DEF Terminate, Becomes
<1>2. proc'[p] = [r EXCEPT !.pc = "close", !.slips = 0] /\ Alone(p)
  BY <1>1 DEF TypeOK, Alone
<1> DEFINE r1 == [r EXCEPT !.slips = 0]
<1>3. proc'[p] = [r1 EXCEPT !.pc = "close"]  BY <1>0, <1>2 DEF Process
<1>4. r1 \in Process /\ Same(r, r1) /\ r1.slips = 0 /\ r1.iface = r.iface
  BY <1>0 DEF Process, Same
<1> HIDE DEF r1
<1>5. /\ proc'[p] \in Process /\ Same(r, proc'[p]) /\ proc'[p].pc = "close"
      /\ proc'[p].iface = r.iface /\ proc'[p].slips = 0
  BY <1>0, <1>3, <1>4 DEF Process, Same
<1> QED  BY <1>2, <1>5 DEF Terminate, Quiet, others

\* The filter that r names is closed, or there is none; the handle of a closed
\* filter is cleared.
LEMMA CloseFilterEffect ==
  ASSUME TypeOK, NEW p \in Instances, CloseFilter(p)
  PROVE  LET r == proc[p]
             q == proc'[p]
             h == r.clsact[r.iface]
         IN  /\ Alone(p) /\ faults' = faults /\ starts' = starts
             /\ \/ /\ Holds(p, r.iface) /\ h \in Used(r.iface) /\ Deletes(r.iface, h)
                   /\ \E r1 \in Process :
                        /\ ClosedOne(r1, q)
                        /\ r1.run = r.run /\ r1.ifaceIdx = r.ifaceIdx /\ r1.how = r.how
                        /\ r1.slips = r.slips /\ r1.pc = r.pc /\ r1.iface = r.iface
                        /\ \A i \in Ifaces :
                             r1.clsact[i] = IF i = r.iface THEN NoHandle ELSE r.clsact[i]
                \/ /\ ~(Holds(p, r.iface) /\ h \in Used(r.iface))
                   /\ Quiet /\ ClosedOne(r, q)
<1> DEFINE r == proc[p]
           q == proc'[p]
           h == r.clsact[r.iface]
<1>0. r \in Process  BY DEF TypeOK
<1>1. CASE h # NoHandle /\ LinkByIndex(r) /\ h \in Used(r.iface)
  <2> DEFINE r1 == HandleCleared(r)
  <2>1. proc' = [proc EXCEPT ![p] = NextClose(r1)] /\ filters' = Without(r.iface, h)
    BY <1>1 DEF CloseFilter, Becomes
  <2>2. q = NextClose(r1) /\ Alone(p)  BY <2>1 DEF TypeOK, Alone
  <2>3. Deletes(r.iface, h) /\ Holds(p, r.iface)
    BY <1>1, <2>1 DEF CloseFilter, others, Without, Deletes, Holds, LinkByIndex
  <2>4. /\ r1 \in Process /\ r1.run = r.run /\ r1.ifaceIdx = r.ifaceIdx /\ r1.how = r.how
        /\ r1.slips = r.slips /\ r1.pc = r.pc /\ r1.iface = r.iface
        /\ \A i \in Ifaces : r1.clsact[i] = IF i = r.iface THEN NoHandle ELSE r.clsact[i]
    BY <1>0, HandleClearedType
  <2> HIDE DEF r1
  <2>5. ClosedOne(r1, q)  BY <2>2, <2>4, NextCloseType
  <2> QED  BY <1>1, <2>2, <2>3, <2>4, <2>5 DEF CloseFilter
<1>2. CASE ~(h # NoHandle /\ LinkByIndex(r) /\ h \in Used(r.iface))
  <2>1. proc' = [proc EXCEPT ![p] = NextClose(r)] /\ filters' = filters
    BY <1>2 DEF CloseFilter, Becomes
  <2>2. q = NextClose(r) /\ Alone(p)  BY <2>1 DEF TypeOK, Alone
  <2> QED  BY <1>0, <1>2, <2>1, <2>2, NextCloseType
           DEF CloseFilter, Quiet, others, Holds, LinkByIndex
<1> QED  BY <1>1, <1>2

LEMMA CloseFaultEffect ==
  ASSUME TypeOK, NEW p \in Instances, CloseFault(p)
  PROVE  /\ Alone(p) /\ Quiet /\ faults' = faults + 1 /\ starts' = starts
         /\ \E r1 \in Process :
              /\ ClosedOne(r1, proc'[p]) /\ Same(proc[p], r1) /\ r1.pc = proc[p].pc
              /\ r1.iface = proc[p].iface /\ r1.slips = proc[p].slips + 1
<1> DEFINE r == proc[p]
           r1 == [r EXCEPT !.slips = @ + 1]
<1>0. r \in Process  BY DEF TypeOK
<1>1. proc' = [proc EXCEPT ![p] = NextClose(r1)]  BY DEF CloseFault, Becomes, CloseErrs
<1>2. proc'[p] = NextClose(r1) /\ Alone(p)  BY <1>1 DEF TypeOK, Alone
<1>3. /\ r1 \in Process /\ Same(r, r1) /\ r1.pc = r.pc /\ r1.iface = r.iface
      /\ r1.slips = r.slips + 1
  BY <1>0, SlipType
<1> HIDE DEF r1
<1>4. ClosedOne(r1, proc'[p])  BY <1>2, <1>3, NextCloseType
<1> QED  BY <1>2, <1>3, <1>4 DEF CloseFault, Fault, Quiet, others

LEMMA DieEffect ==
  ASSUME TypeOK, NEW p \in Instances, Die(p)
  PROVE  /\ Alone(p) /\ Quiet /\ faults' = faults /\ starts' = starts
         /\ proc'[p] \in Process /\ proc'[p].pc = "off" /\ proc'[p].how = "died"
         /\ proc'[p].run = proc[p].run /\ proc'[p].ifaceIdx = proc[p].ifaceIdx
<1> DEFINE r == proc[p]
<1>0. r \in Process /\ "off" \in Phases  BY DEF TypeOK, Phases
<1>1. proc' = [proc EXCEPT ![p] = [r EXCEPT !.pc = "off", !.how = "died"]]
  BY DEF Die, Becomes
<1>2. proc'[p] = [r EXCEPT !.pc = "off", !.how = "died"] /\ Alone(p)
  BY <1>1 DEF TypeOK, Alone
<1> QED  BY <1>0, <1>2 DEF Process, Die, Quiet, others

-----------------------------------------------------------------------------
(* Steps, by who takes them *)

Act(p) ==
  \/ Start(p)
  \/ CleanupList(p) \/ CleanupDelete(p) \/ CleanupFault(p)
  \/ nextFilterHandle(p) \/ FilterAdd(p) \/ AttachFault(p)
  \/ Terminate(p) \/ CloseFilter(p) \/ CloseFault(p) \/ Die(p)

Event(i) == Recreate(i) \/ \E h \in Handles : ForeignAdd(i, h)

\* What a step of p does to the filters of interface i: nothing, its own filter
\* added, or one deleted that it found stale or holds.
Deleted(i, h) == {f \in filters[i] : f.handle # h}

\* A function on the interfaces.
IsTable(t) == t = [i \in Ifaces |-> t[i]]

LEMMA TableUpdate ==
  ASSUME NEW t, IsTable(t), NEW j \in Ifaces, NEW v
  PROVE  /\ IsTable([t EXCEPT ![j] = v])
         /\ \A i \in Ifaces : [t EXCEPT ![j] = v][i] = IF i = j THEN v ELSE t[i]
<1>1. DOMAIN t = Ifaces  BY DEF IsTable
<1> QED  BY <1>1 DEF IsTable

LEMMA Tables ==
  ASSUME TypeOK
  PROVE  IsTable(filters) /\ IsTable(foreign) /\ IsTable(index)
BY DEF TypeOK, IsTable

LEMMA ActOnFilters ==
  ASSUME TypeOK, NEW p \in Instances, Act(p), NEW i \in Ifaces
  PROVE  /\ Alone(p) /\ proc'[p] \in Process
         /\ foreign' = foreign /\ index' = index /\ events' = events
         /\ IsTable(filters')
         /\ \/ filters'[i] = filters[i]
            \/ /\ FilterAdd(p) /\ i = proc[p].iface /\ Active(p)
               /\ proc[p].handle \in Handles /\ proc[p].handle \notin Used(i)
               /\ filters'[i] = filters[i] \union {Added(p)}
            \/ \E h \in Handles :
                 /\ CleanupDelete(p) /\ i = proc[p].iface /\ Active(p)
                 /\ proc[p].pc = "delete" /\ SameDevice(proc[p]) /\ h \in proc[p].todo
                 /\ filters'[i] = Deleted(i, h)
            \/ /\ CloseFilter(p) /\ Active(p) /\ Holds(p, i) /\ i = proc[p].iface
               /\ filters'[i] = Deleted(i, proc[p].clsact[i])
<1> DEFINE r == proc[p]
<1>0. r \in Process /\ IsTable(filters) /\ r.todo \subseteq Handles /\ r.iface \in Ifaces
  BY Tables DEF TypeOK, Process
<1>1. CASE Start(p)  BY <1>0, <1>1, StartEffect DEF Quiet
<1>2. CASE CleanupList(p)  BY <1>0, <1>2, CleanupListEffect DEF Quiet, CleanedUp
<1>3. CASE CleanupDelete(p)
  <2>1. Alone(p) /\ proc'[p] \in Process  BY <1>3, CleanupDeleteEffect DEF CleanedUp
  <2>2. \/ Quiet
        \/ \E h \in r.todo : SameDevice(r) /\ Deletes(r.iface, h)
    BY <1>3, CleanupDeleteEffect
  <2>3. CASE Quiet  BY <1>0, <2>1, <2>3 DEF Quiet
  <2>4. ASSUME NEW h \in r.todo, SameDevice(r), Deletes(r.iface, h)
        PROVE  /\ foreign' = foreign /\ index' = index /\ events' = events
               /\ IsTable(filters')
               /\ filters'[i] = IF i = r.iface THEN Deleted(i, h) ELSE filters[i]
    <3>1. filters' = [filters EXCEPT ![r.iface] = Deleted(r.iface, h)]
      BY <2>4 DEF Deletes, Deleted
    <3>2. IsTable(filters')  BY <1>0, <3>1, TableUpdate
    <3>3. filters'[i] = IF i = r.iface THEN Deleted(r.iface, h) ELSE filters[i]
      BY <1>0, <3>1, TableUpdate
    <3> QED  BY <2>4, <3>2, <3>3 DEF Deletes
  <2>5. r.pc = "delete" /\ Active(p)  BY <1>3 DEF CleanupDelete, Active
  <2> QED  BY <1>0, <1>3, <2>1, <2>2, <2>3, <2>4, <2>5
<1>4. CASE CleanupFault(p)  BY <1>0, <1>4, CleanupFaultEffect DEF Quiet, CleanedUp
<1>5. CASE nextFilterHandle(p)  BY <1>0, <1>5, PickEffect DEF Quiet, RolledBack
<1>6. CASE FilterAdd(p)
  <2>1. Alone(p) /\ proc'[p] \in Process  BY <1>6, FilterAddEffect DEF RolledBack
  <2>2. CASE Quiet  BY <1>0, <2>1, <2>2 DEF Quiet
  <2>3. CASE ~Quiet
    <3>1. /\ r.handle \in Handles /\ r.handle \notin Used(r.iface)
          /\ filters' = [filters EXCEPT ![r.iface] = filters[r.iface] \union {Added(p)}]
          /\ foreign' = foreign /\ index' = index /\ events' = events
      BY <1>6, <2>3, FilterAddEffect
    <3>2. Active(p)  BY <1>6 DEF FilterAdd, Active
    <3>3. IsTable(filters')  BY <1>0, <3>1, TableUpdate
    <3>4. filters'[i] = IF i = r.iface THEN filters[i] \union {Added(p)} ELSE filters[i]
      BY <1>0, <3>1, TableUpdate
    <3>5. CASE i = r.iface  BY <1>6, <2>1, <3>1, <3>2, <3>3, <3>4, <3>5, Zenon
    <3>6. CASE i # r.iface  BY <2>1, <3>1, <3>3, <3>4, <3>6, Zenon
    <3> QED  BY <3>5, <3>6, Zenon
  <2> QED  BY <2>2, <2>3
<1>7. CASE AttachFault(p)  BY <1>0, <1>7, AttachFaultEffect DEF Quiet, RolledBack
<1>8. CASE Terminate(p)  BY <1>0, <1>8, TerminateEffect DEF Quiet
<1>9. CASE CloseFilter(p)
  <2>1. Alone(p) /\ proc'[p] \in Process  BY <1>9, CloseFilterEffect DEF ClosedOne
  <2>2. CASE Quiet  BY <1>0, <2>1, <2>2 DEF Quiet
  <2>3. CASE ~Quiet
    <3>1. Holds(p, r.iface) /\ Deletes(r.iface, r.clsact[r.iface])
      BY <1>9, <2>3, CloseFilterEffect
    <3>2. Active(p)  BY <1>9 DEF CloseFilter, Active, Closing
    <3>3. filters'[i] = IF i = r.iface THEN Deleted(i, r.clsact[r.iface]) ELSE filters[i]
      <4>1. filters' = [filters EXCEPT ![r.iface] = Deleted(r.iface, r.clsact[r.iface])]
        BY <3>1 DEF Deletes, Deleted
      <4> QED  BY <1>0, <4>1, TableUpdate
    <3>4. /\ foreign' = foreign /\ index' = index /\ events' = events
          /\ IsTable(filters')
      BY <1>0, <3>1, TableUpdate DEF Deletes
    <3> QED  BY <1>9, <2>1, <3>1, <3>2, <3>3, <3>4
  <2> QED  BY <2>2, <2>3
<1>10. CASE CloseFault(p)  BY <1>0, <1>10, CloseFaultEffect DEF Quiet, ClosedOne
<1>11. CASE Die(p)  BY <1>0, <1>11, DieEffect DEF Quiet
<1> QED
  BY <1>1, <1>2, <1>3, <1>4, <1>5, <1>6, <1>7, <1>8, <1>9, <1>10, <1>11 DEF Act

\* What happens to the interfaces touches no record.
LEMMA EventEffect ==
  ASSUME TypeOK, NEW j \in Ifaces, Event(j), NEW i \in Ifaces
  PROVE  /\ proc' = proc /\ starts' = starts /\ faults' = faults
         /\ IsTable(filters') /\ IsTable(foreign') /\ IsTable(index')
         /\ events' = events + 1
         /\ \/ filters'[i] = filters[i] /\ foreign'[i] = foreign[i] /\ index'[i] = index[i]
            \/ filters'[i] = {} /\ foreign'[i] = {} /\ index'[i] = index[i] + 1
            \/ \E h \in Handles \ Used(i) :
                 LET f == [handle |-> h, owner |-> Others, named |-> TRUE, tag |-> OtherTag]
                 IN  /\ filters'[i] = filters[i] \union {f}
                     /\ foreign'[i] = foreign[i] \union {f} /\ index'[i] = index[i]
<1>0. IsTable(filters) /\ IsTable(foreign) /\ IsTable(index)  BY Tables
<1>1. CASE Recreate(j)
  <2>1. /\ proc' = proc /\ starts' = starts /\ faults' = faults /\ events' = events + 1
        /\ filters' = [filters EXCEPT ![j] = {}] /\ foreign' = [foreign EXCEPT ![j] = {}]
        /\ index' = [index EXCEPT ![j] = index[j] + 1]
    BY <1>1 DEF Recreate
  <2>2. IsTable(filters') /\ IsTable(foreign') /\ IsTable(index')
    <3>1. IsTable(filters')  BY <1>0, <2>1, TableUpdate
    <3>2. IsTable(foreign')  BY <1>0, <2>1, TableUpdate
    <3>3. IsTable(index')  BY <1>0, <2>1, TableUpdate
    <3> QED  BY <3>1, <3>2, <3>3
  <2>3. filters'[i] = IF i = j THEN {} ELSE filters[i]  BY <1>0, <2>1, TableUpdate
  <2>4. foreign'[i] = IF i = j THEN {} ELSE foreign[i]  BY <1>0, <2>1, TableUpdate
  <2>5. index'[i] = IF i = j THEN index[j] + 1 ELSE index[i]  BY <1>0, <2>1, TableUpdate
  <2> QED  BY <2>1, <2>2, <2>3, <2>4, <2>5
<1>2. ASSUME NEW h \in Handles, ForeignAdd(j, h)
      PROVE  /\ proc' = proc /\ starts' = starts /\ faults' = faults
             /\ IsTable(filters') /\ IsTable(foreign') /\ IsTable(index')
             /\ events' = events + 1
             /\ \/ filters'[i] = filters[i] /\ foreign'[i] = foreign[i] /\ index'[i] = index[i]
                \/ \E g \in Handles \ Used(i) :
                     LET f == [handle |-> g, owner |-> Others, named |-> TRUE, tag |-> OtherTag]
                     IN  /\ filters'[i] = filters[i] \union {f}
                         /\ foreign'[i] = foreign[i] \union {f} /\ index'[i] = index[i]
  <2> DEFINE f == [handle |-> h, owner |-> Others, named |-> TRUE, tag |-> OtherTag]
  <2>1. /\ proc' = proc /\ starts' = starts /\ faults' = faults /\ index' = index
        /\ events' = events + 1 /\ h \in Handles \ Used(j)
        /\ filters' = [filters EXCEPT ![j] = filters[j] \union {f}]
        /\ foreign' = [foreign EXCEPT ![j] = foreign[j] \union {f}]
    BY <1>2 DEF ForeignAdd
  <2> HIDE DEF f
  <2>2. /\ IsTable(filters') /\ IsTable(foreign') /\ IsTable(index')
        /\ filters'[i] = IF i = j THEN filters[i] \union {f} ELSE filters[i]
        /\ foreign'[i] = IF i = j THEN foreign[i] \union {f} ELSE foreign[i]
    <3>1. filters'[i] = IF i = j THEN filters[j] \union {f} ELSE filters[i]
      BY <1>0, <2>1, TableUpdate
    <3>2. foreign'[i] = IF i = j THEN foreign[j] \union {f} ELSE foreign[i]
      BY <1>0, <2>1, TableUpdate
    <3>3. IsTable(filters')  BY <1>0, <2>1, TableUpdate
    <3>4. IsTable(foreign')  BY <1>0, <2>1, TableUpdate
    <3> QED  BY <1>0, <2>1, <3>1, <3>2, <3>3, <3>4
  <2> QED  BY <2>1, <2>2 DEF f
<1> QED  BY <1>1, <1>2 DEF Event

LEMMA StepCases ==
  ASSUME [Next]_vars
  PROVE  UNCHANGED vars \/ (\E i \in Ifaces : Event(i)) \/ \E p \in Instances : Act(p)
BY DEF Next, Event, Act

LEMMA ActCounters ==
  ASSUME TypeOK, NEW p \in Instances, Act(p)
  PROVE  /\ starts' = starts \/ (Start(p) /\ starts' = starts + 1)
         /\ faults' = faults \/ faults' = faults + 1
         /\ proc'[p].pc = "add" => proc'[p].handle \in Handles
         /\ proc'[p].run = proc[p].run \/ (Start(p) /\ proc'[p].run = starts + 1)
<1>1. CASE Start(p)  BY <1>1, StartEffect
<1>2. CASE CleanupList(p)  BY <1>2, CleanupListEffect DEF CleanedUp, Same
<1>3. CASE CleanupDelete(p)  BY <1>3, CleanupDeleteEffect DEF CleanedUp, Same
<1>4. CASE CleanupFault(p)  BY <1>4, CleanupFaultEffect DEF CleanedUp, Same
<1>5. CASE nextFilterHandle(p)  BY <1>5, PickEffect DEF RolledBack, Same
<1>6. CASE FilterAdd(p)  BY <1>6, FilterAddEffect DEF RolledBack, Same
<1>7. CASE AttachFault(p)  BY <1>7, AttachFaultEffect DEF RolledBack, Same
<1>8. CASE Terminate(p)  BY <1>8, TerminateEffect DEF Same
<1>9. CASE CloseFilter(p)  BY <1>9, CloseFilterEffect DEF ClosedOne, CloseFilter, Closing
<1>10. CASE CloseFault(p)
  BY <1>10, CloseFaultEffect DEF ClosedOne, Same, CloseFault, Closing
<1>11. CASE Die(p)  BY <1>11, DieEffect
<1> QED
  BY <1>1, <1>2, <1>3, <1>4, <1>5, <1>6, <1>7, <1>8, <1>9, <1>10, <1>11 DEF Act

LEMMA AddedType ==
  ASSUME TypeOK, NEW p \in Instances, proc[p].handle \in Handles
  PROVE  /\ Added(p) \in Filter /\ Added(p).handle = proc[p].handle
         /\ Added(p).owner = proc[p].run /\ Added(p).named /\ Added(p).tag = tagOf[p]
<1>1. proc[p].run \in Nat /\ tagOf[p] \in Tags  BY DEF TypeOK, Process, Tags
<1> QED  BY <1>1 DEF Added, Filter

LEMMA ForeignType ==
  ASSUME NEW h \in Handles
  PROVE  LET f == [handle |-> h, owner |-> Others, named |-> TRUE, tag |-> OtherTag]
         IN  f \in Filter /\ f.handle = h /\ f.owner = Others /\ f.named /\ f.tag = OtherTag
BY DEF Filter, Others, Tags

LEMMA InitType == Init => TypeOK
<1> SUFFICES ASSUME Init PROVE TypeOK  OBVIOUS
<1>1. filters \in [Ifaces -> SUBSET Filter] /\ foreign \in [Ifaces -> SUBSET Filter]
  BY ForeignAssumption DEF Init
<1>2. \A p \in Instances : proc[p] = Fresh  BY DEF Init
<1>3. proc \in [Instances -> Process]  BY FreshType DEF Init
<1>4. \A p \in Instances : proc[p].pc # "add"  BY <1>2, FreshType
<1>5. \A i \in Ifaces : \A f, g \in filters[i] : f.handle = g.handle => f = g
  BY ForeignAssumption DEF Init
<1> QED  BY <1>1, <1>3, <1>4, <1>5 DEF Init, TypeOK

LEMMA TypeStep == TypeOK /\ [Next]_vars => TypeOK'
<1> SUFFICES ASSUME TypeOK, [Next]_vars PROVE TypeOK'  OBVIOUS
<1>1. CASE UNCHANGED vars  BY <1>1 DEF vars, others, TypeOK
<1>2. ASSUME NEW j \in Ifaces, Event(j) PROVE TypeOK'
  <2>1. /\ proc' = proc /\ starts' = starts /\ faults' = faults /\ events' = events + 1
        /\ IsTable(filters') /\ IsTable(foreign') /\ IsTable(index')
    BY <1>2, EventEffect
  <2>2. ASSUME NEW i \in Ifaces
        PROVE  /\ filters'[i] \subseteq Filter /\ foreign'[i] \subseteq Filter /\ index'[i] \in Nat
               /\ \A f, g \in filters'[i] : f.handle = g.handle => f = g
    <3>1. /\ filters[i] \subseteq Filter /\ foreign[i] \subseteq Filter /\ index[i] \in Nat
          /\ \A f, g \in filters[i] : f.handle = g.handle => f = g
      BY DEF TypeOK
    <3>2. CASE filters'[i] = filters[i] /\ foreign'[i] = foreign[i] /\ index'[i] = index[i]
      BY <3>1, <3>2
    <3>3. CASE filters'[i] = {} /\ foreign'[i] = {} /\ index'[i] = index[i] + 1
      BY <3>1, <3>3
    <3>4. ASSUME NEW h \in Handles \ Used(i), NEW f, f.handle = h, f \in Filter,
                 filters'[i] = filters[i] \union {f}, foreign'[i] = foreign[i] \union {f},
                 index'[i] = index[i]
          PROVE  /\ filters'[i] \subseteq Filter /\ foreign'[i] \subseteq Filter /\ index'[i] \in Nat
                 /\ \A a, b \in filters'[i] : a.handle = b.handle => a = b
      <4>1. \A g \in filters[i] : g.handle # h  BY <3>4 DEF Used
      <4> QED  BY <3>1, <3>4, <4>1
    <3>5. ASSUME NEW h \in Handles \ Used(i),
                 LET f == [handle |-> h, owner |-> Others, named |-> TRUE, tag |-> OtherTag]
                 IN  /\ filters'[i] = filters[i] \union {f}
                     /\ foreign'[i] = foreign[i] \union {f} /\ index'[i] = index[i]
          PROVE  /\ filters'[i] \subseteq Filter /\ foreign'[i] \subseteq Filter /\ index'[i] \in Nat
                 /\ \A a, b \in filters'[i] : a.handle = b.handle => a = b
      <4> DEFINE f == [handle |-> h, owner |-> Others, named |-> TRUE, tag |-> OtherTag]
      <4>1. f \in Filter /\ f.handle = h  BY ForeignType
      <4>2. /\ filters'[i] = filters[i] \union {f} /\ foreign'[i] = foreign[i] \union {f}
            /\ index'[i] = index[i]
        BY <3>5
      <4> HIDE DEF f
      <4> QED  BY <3>4, <4>1, <4>2
    <3> QED  BY <1>2, <3>2, <3>3, <3>5, EventEffect
  <2> QED  BY <2>1, <2>2 DEF TypeOK, IsTable
<1>3. ASSUME NEW p \in Instances, Act(p) PROVE TypeOK'
  <2>1. starts' \in Nat /\ faults' \in Nat  BY <1>3, ActCounters DEF TypeOK
  <2>2. /\ Alone(p) /\ proc'[p] \in Process /\ foreign' = foreign /\ index' = index
        /\ events' = events /\ IsTable(filters')
    BY <1>3, ActOnFilters, IfacesType
  <2>3. proc' \in [Instances -> Process]  BY <2>2 DEF TypeOK, Alone
  <2>4. \A x \in Instances : proc'[x].pc = "add" => proc'[x].handle \in Handles
    <3>1. \A x \in Instances : x # p => proc'[x] = proc[x]  BY <2>2 DEF TypeOK, Alone
    <3> QED  BY <1>3, <3>1, ActCounters DEF TypeOK
  <2>5. ASSUME NEW i \in Ifaces
        PROVE  /\ filters'[i] \subseteq Filter
               /\ \A f, g \in filters'[i] : f.handle = g.handle => f = g
    <3>1. /\ filters[i] \subseteq Filter
          /\ \A f, g \in filters[i] : f.handle = g.handle => f = g
      BY DEF TypeOK
    <3>2. CASE filters'[i] = filters[i]  BY <3>1, <3>2
    <3>3. CASE /\ proc[p].handle \in Handles /\ proc[p].handle \notin Used(i)
               /\ filters'[i] = filters[i] \union {Added(p)}
      <4>1. \A g \in filters[i] : g.handle # proc[p].handle  BY <3>3 DEF Used
      <4>2. Added(p) \in Filter /\ Added(p).handle = proc[p].handle  BY <3>3, AddedType
      <4> QED  BY <3>1, <3>3, <4>1, <4>2
    <3>4. ASSUME NEW h, filters'[i] = Deleted(i, h)
          PROVE  /\ filters'[i] \subseteq Filter
                 /\ \A f, g \in filters'[i] : f.handle = g.handle => f = g
      BY <3>1, <3>4 DEF Deleted
    <3> QED  BY <1>3, <3>2, <3>3, <3>4, ActOnFilters
  <2>6. filters' \in [Ifaces -> SUBSET Filter]  BY <2>2, <2>5 DEF IsTable
  <2> QED  BY <2>1, <2>2, <2>3, <2>4, <2>5, <2>6 DEF TypeOK
<1> QED  BY <1>1, <1>2, <1>3, StepCases

\* The type invariant of every reachable state, whatever the instances do at
\* the same time: a step writes a well-formed record, and FilterAdd refuses a
\* handle that is taken (attach.go, CleanupEgress to clsactFilter.Close).
THEOREM AttachTypeCorrect == Spec => []TypeOK
<1>1. TypeOK /\ [Next]_vars => TypeOK'  BY TypeStep
<1> QED  BY <1>1, InitType, PTL DEF Spec

-----------------------------------------------------------------------------
(* Runs, and the filters they add *)

LEMMA Bystander ==
  ASSUME TypeOK, NEW p \in Instances, Act(p), NEW x \in Instances, x # p
  PROVE  proc'[x] = proc[x]
<1>1. Alone(p)  BY ActOnFilters, IfacesType
<1> QED  BY <1>1 DEF Alone, TypeOK

\* Only Start gives an instance another number.
LEMMA ActRun ==
  ASSUME TypeOK, NEW p \in Instances, Act(p)
  PROVE  \/ /\ Start(p) /\ starts' = starts + 1
            /\ proc'[p].run = starts + 1 /\ filters' = filters
         \/ Active(p) /\ starts' = starts /\ proc'[p].run = proc[p].run
<1>1. CASE Start(p)  BY <1>1, StartEffect DEF Quiet
<1>2. CASE ~Start(p)
  <2>1. Active(p)
    BY <1>2 DEF Act, Active, CleanupList, CleanupDelete, CleanupFault, nextFilterHandle, FilterAdd,
                AttachFault, Terminate, CloseFilter, CloseFault, Die, Closing
  <2> QED  BY <1>2, <2>1, ActCounters
<1> QED  BY <1>1, <1>2

\* A filter that a step of p leaves on an interface was there before, or is
\* the one that p adds.
LEMMA ActFilters ==
  ASSUME TypeOK, NEW p \in Instances, Act(p), NEW i \in Ifaces, NEW f \in filters'[i]
  PROVE  f \in filters[i] \/ (FilterAdd(p) /\ i = proc[p].iface /\ f = Added(p) /\ proc[p].handle \in Handles)
BY ActOnFilters DEF Deleted

LEMMA EventFilters ==
  ASSUME TypeOK, NEW j \in Ifaces, Event(j), NEW i \in Ifaces, NEW f \in filters'[i]
  PROVE  f \in filters[i] \/ (f.owner = Others /\ f.named /\ f.tag = OtherTag)
<1>1. \/ filters'[i] = filters[i] \/ filters'[i] = {}
      \/ \E h \in Handles :
           filters'[i] = filters[i] \union {[handle |-> h, owner |-> Others, named |-> TRUE, tag |-> OtherTag]}
  BY EventEffect
<1> QED  BY <1>1

LEMMA RunStep == TypeOK /\ RunInv /\ [Next]_vars => RunInv'
<1> SUFFICES ASSUME TypeOK, RunInv, [Next]_vars PROVE RunInv'  OBVIOUS
<1>0. starts \in Nat /\ Others = 0  BY DEF TypeOK, Others
<1>1. CASE UNCHANGED vars  BY <1>1 DEF vars, others, RunInv, Active
<1>2. ASSUME NEW j \in Ifaces, Event(j) PROVE RunInv'
  <2>1. proc' = proc /\ starts' = starts  BY <1>2, EventEffect
  <2>2. \A i \in Ifaces : \A f \in filters'[i] : f.owner <= starts /\ (f.owner # Others => f.named)
    BY <1>0, <1>2, EventFilters DEF RunInv
  <2> QED  BY <2>1, <2>2 DEF RunInv, Active
<1>3. ASSUME NEW p \in Instances, Act(p) PROVE RunInv'
  <2>1. \A x \in Instances : x # p => proc'[x] = proc[x]  BY <1>3, Bystander
  <2>2. \A x \in Instances : proc[x].run \in Nat /\ proc[x].run <= starts
    BY DEF RunInv, TypeOK, Process
  <2>3. CASE /\ Start(p) /\ starts' = starts + 1
             /\ proc'[p].run = starts + 1 /\ filters' = filters
    <3>1. \A x \in Instances : /\ proc'[x].run <= starts'
                               /\ (Active(x) \/ proc[x].how # "new")' => proc'[x].run # Others
      BY <1>0, <2>1, <2>2, <2>3 DEF RunInv, Active
    <3>2. \A x, y \in Instances :
            proc'[x].run = proc'[y].run /\ proc'[x].run # Others => x = y
      BY <1>0, <2>1, <2>2, <2>3 DEF RunInv
    <3>3. \A i \in Ifaces : \A f \in filters'[i] : f.owner <= starts' /\ (f.owner # Others => f.named)
      <4>1. \A i \in Ifaces : \A f \in filters[i] : f.owner \in Nat
        BY DEF TypeOK, Filter
      <4> QED  BY <1>0, <2>3, <4>1 DEF RunInv
    <3> QED  BY <3>1, <3>2, <3>3 DEF RunInv
  <2>4. CASE Active(p) /\ starts' = starts /\ proc'[p].run = proc[p].run
    <3>1. \A x \in Instances : proc'[x].run = proc[x].run  BY <2>1, <2>4
    <3>2. \A x \in Instances : (Active(x) \/ proc[x].how # "new")' => proc'[x].run # Others
      BY <2>1, <2>4 DEF RunInv, Active
    <3>3. \A i \in Ifaces : \A f \in filters'[i] : f.owner <= starts /\ (f.owner # Others => f.named)
      BY <1>3, <2>2, ActFilters, AddedType DEF RunInv
    <3> QED  BY <2>2, <2>4, <3>1, <3>2, <3>3 DEF RunInv
  <2> QED  BY <1>3, <2>3, <2>4, ActRun
<1> QED  BY <1>1, <1>2, <1>3, StepCases

LEMMA ForeignStep == TypeOK /\ ForeignInv /\ [Next]_vars => ForeignInv'
<1> SUFFICES ASSUME TypeOK, ForeignInv, [Next]_vars PROVE ForeignInv'  OBVIOUS
<1>1. CASE UNCHANGED vars  BY <1>1 DEF vars, others, ForeignInv, IsStale
<1>2. ASSUME NEW j \in Ifaces, Event(j) PROVE ForeignInv'
  <2>1. \A i \in Ifaces : \A f \in foreign'[i] :
          f \in foreign[i] \/ (f.owner = Others /\ f.named /\ f.tag = OtherTag)
    <3> SUFFICES ASSUME NEW i \in Ifaces, NEW f \in foreign'[i]
                 PROVE  f \in foreign[i] \/ (f.owner = Others /\ f.named /\ f.tag = OtherTag)
      OBVIOUS
    <3>1. \/ foreign'[i] = foreign[i] \/ foreign'[i] = {}
          \/ \E h \in Handles :
               foreign'[i] = foreign[i] \union {[handle |-> h, owner |-> Others, named |-> TRUE, tag |-> OtherTag]}
      BY <1>2, EventEffect
    <3> QED  BY <3>1
  <2> QED  BY <2>1, ForeignAssumption DEF ForeignInv, IsStale
<1>3. ASSUME NEW p \in Instances, Act(p) PROVE ForeignInv'
  <2>1. foreign' = foreign  BY <1>3, ActOnFilters, IfacesType
  <2> QED  BY <2>1 DEF ForeignInv, IsStale
<1> QED  BY <1>1, <1>2, <1>3, StepCases

-----------------------------------------------------------------------------
(* What an instance knows of its own filters *)

\* Nobody adds a filter under the number of another instance.
LEMMA BystanderOwned ==
  ASSUME TypeOK, RunInv, NEW p \in Instances, Act(p), NEW x \in Instances, x # p,
         NEW i \in Ifaces
  PROVE  Owned(x, i)' \subseteq Owned(x, i)
<1>1. proc'[x] = proc[x]  BY Bystander
<1> SUFFICES ASSUME NEW f \in filters'[i], f.owner = proc[x].run, f \notin filters[i]
             PROVE  FALSE
  BY <1>1 DEF Owned
<1>2. FilterAdd(p) /\ f = Added(p) /\ proc[p].handle \in Handles  BY ActFilters
<1>3. f.owner = proc[p].run /\ Active(p)  BY <1>2, AddedType DEF FilterAdd, Active
<1> QED  BY <1>3 DEF RunInv

\* What happens to the interfaces adds no filter under anybody's number, and an
\* index changes only together with all the filters.
LEMMA EventOwned ==
  ASSUME TypeOK, NEW j \in Ifaces, Event(j), NEW x \in Instances, NEW i \in Ifaces
  PROVE  /\ index[i] <= index'[i]
         /\ \A f \in Owned(x, i)' : proc[x].run # Others => f \in Owned(x, i) /\ index'[i] = index[i]
<1>0. index[i] \in Nat  BY DEF TypeOK
<1>1. proc' = proc  BY EventEffect
<1>2. CASE filters'[i] = filters[i] /\ foreign'[i] = foreign[i] /\ index'[i] = index[i]
  BY <1>0, <1>1, <1>2 DEF Owned
<1>3. CASE filters'[i] = {} /\ foreign'[i] = {} /\ index'[i] = index[i] + 1
  BY <1>0, <1>1, <1>3 DEF Owned
<1>4. ASSUME NEW h \in Handles,
             filters'[i] = filters[i] \union {[handle |-> h, owner |-> Others, named |-> TRUE, tag |-> OtherTag]},
             index'[i] = index[i]
      PROVE  /\ index[i] <= index'[i]
             /\ \A f \in Owned(x, i)' : proc[x].run # Others => f \in Owned(x, i) /\ index'[i] = index[i]
  BY <1>0, <1>1, <1>4 DEF Owned
<1> QED  BY <1>2, <1>3, <1>4, EventEffect

LEMMA HandleEvent ==
  ASSUME TypeOK, RunInv, NEW x \in Instances, HandleOf(x), NEW j \in Ifaces, Event(j)
  PROVE  HandleOf(x)'
<1> DEFINE r == proc[x]
<1>0. r \in Process /\ r.iface \in Ifaces /\ r.idx \in Nat  BY DEF TypeOK, Process
<1>1. proc' = proc  BY EventEffect
<1>2. \A i \in Ifaces : /\ index[i] \in Nat /\ index'[i] \in Nat /\ r.ifaceIdx[i] \in Nat
                        /\ index[i] <= index'[i]
  <2>1. index' \in [Ifaces -> Nat]
    <3>1. TypeOK'  BY TypeStep DEF Event, Next
    <3> QED  BY <3>1 DEF TypeOK
  <2> QED  BY <2>1, EventOwned DEF TypeOK, Process
<1>3. Active(x) => \A i \in Ifaces : \A f \in Owned(x, i)' : f \in Owned(x, i) /\ index'[i] = index[i]
  BY EventOwned DEF RunInv
<1> QED  BY <1>0, <1>1, <1>2, <1>3 DEF HandleOf, Active, Holds

LEMMA ClosedEvent ==
  ASSUME TypeOK, RunInv, NEW x \in Instances, ClosedOf(x), NEW j \in Ifaces, Event(j)
  PROVE  ClosedOf(x)'
<1>1. proc' = proc  BY EventEffect
<1>2. proc[x].run # Others => \A i \in Ifaces : Owned(x, i)' \subseteq Owned(x, i)
  BY EventOwned
<1>3. Active(x) \/ proc[x].how # "new" => proc[x].run # Others  BY DEF RunInv
<1>4. \A i \in Ifaces : proc[x].run # Others /\ Owned(x, i) = {} => Owned(x, i)' = {}
  BY <1>2
<1> QED  BY <1>1, <1>3, <1>4 DEF ClosedOf, Active

LEMMA HandleBystander ==
  ASSUME TypeOK, RunInv, NEW p \in Instances, Act(p), NEW x \in Instances, x # p,
         HandleOf(x), ClosedOf(x)
  PROVE  HandleOf(x)' /\ ClosedOf(x)'
<1>1. proc'[x] = proc[x]  BY Bystander
<1>2. index' = index  BY ActOnFilters, IfacesType
<1>3. \A i \in Ifaces : Owned(x, i)' \subseteq Owned(x, i)  BY BystanderOwned
<1>4. HandleOf(x)'  BY <1>1, <1>2, <1>3 DEF HandleOf, Active, Holds
<1>5. \A i \in Ifaces : Owned(x, i) = {} => Owned(x, i)' = {}  BY <1>3
<1>6. ClosedOf(x)'  BY <1>1, <1>5 DEF ClosedOf
<1> QED  BY <1>4, <1>6

\* A step of p that adds nothing leaves p no filter it had not before.
LEMMA OwnShrinks ==
  ASSUME TypeOK, NEW p \in Instances, Act(p), ~FilterAdd(p), proc'[p].run = proc[p].run,
         NEW i \in Ifaces
  PROVE  Owned(p, i)' \subseteq Owned(p, i)
BY ActFilters DEF Owned

\* What holds of p's filters goes on to hold while p's record of them stays.
LEMMA HandlesKept ==
  ASSUME TypeOK, NEW p \in Instances, Active(p), HandleOf(p), Act(p), ~FilterAdd(p),
         proc'[p].run = proc[p].run, proc'[p].clsact = proc[p].clsact,
         proc'[p].ifaceIdx = proc[p].ifaceIdx
  PROVE  /\ \A i \in Ifaces : proc'[p].ifaceIdx[i] <= index'[i]
         /\ \A i \in Ifaces : \A f \in Owned(p, i)' : Holds(p, i)' /\ f.handle = proc'[p].clsact[i]
<1>1. index' = index  BY ActOnFilters, IfacesType
<1>2. \A i \in Ifaces : Owned(p, i)' \subseteq Owned(p, i)  BY OwnShrinks
<1> QED  BY <1>1, <1>2 DEF HandleOf, Holds

\* What an instance has to know while it cleans up, and as it begins to attach.
LEMMA HandlesOfCleanup ==
  ASSUME NEW p \in Instances, NIfaces \in Nat, proc'[p].iface \in 1..NIfaces,
         proc'[p].pc \in {"list", "delete", "pick"},
         proc'[p].pc = "delete" => proc'[p].idx <= index'[proc'[p].iface],
         \A i \in Ifaces : proc'[p].clsact[i] = NoHandle,
         \A i \in Ifaces : proc'[p].ifaceIdx[i] <= index'[i],
         \A i \in Ifaces : \A f \in Owned(p, i)' : Holds(p, i)' /\ f.handle = proc'[p].clsact[i]
  PROVE  HandleOf(p)'
  BY DEF HandleOf, Ifaces

\* When p has closed an interface, no filter of it is left there.
LEMMA CloseFilterOwned ==
  ASSUME TypeOK, NEW p \in Instances, HandleOf(p), CloseFilter(p),
         NEW i \in Ifaces, i = proc[p].iface
  PROVE  Owned(p, i)' = {}
<1> DEFINE r == proc[p]
           h == r.clsact[i]
<1>0. i \in Ifaces /\ Active(p)  BY DEF TypeOK, Process, CloseFilter, Closing, Active
<1>1. \A f \in Owned(p, i) : Holds(p, i) /\ f.handle = h  BY <1>0 DEF HandleOf
<1>2. proc'[p].run = r.run  BY CloseFilterEffect DEF ClosedOne
<1>3. CASE Deletes(i, h)
  <2>1. filters'[i] = {f \in filters[i] : f.handle # h}  BY <1>0, <1>3 DEF Deletes, TypeOK
  <2> QED  BY <1>1, <1>2, <2>1 DEF Owned
<1>4. CASE ~(Holds(p, i) /\ h \in Used(i)) /\ Quiet
  <2>1. filters' = filters  BY <1>4 DEF Quiet
  <2>2. Owned(p, i) = {}  BY <1>1, <1>4 DEF Owned, Used
  <2> QED  BY <1>2, <2>1, <2>2 DEF Owned
<1> QED  BY <1>3, <1>4, CloseFilterEffect

LEMMA HandleAct ==
  ASSUME TypeOK, RunInv, NEW p \in Instances, Act(p), HandleOf(p)
  PROVE  HandleOf(p)'
<1> DEFINE r == proc[p]
           q == proc'[p]
<1>0. /\ r \in Process /\ r.iface \in Ifaces /\ r.idx \in Nat /\ q \in Process /\ index' = index
      /\ q.iface \in Ifaces /\ Ifaces = 1..NIfaces /\ NIfaces \in Nat
      /\ \A i \in Ifaces : index[i] \in Nat
  BY ActOnFilters, IfacesType DEF TypeOK, Process, Ifaces
<1>1. CASE Start(p)
  <2>1. \A i \in Ifaces : Owned(p, i)' = {}
    <3>1. \A i \in Ifaces : \A f \in filters[i] : f.owner \in Nat /\ f.owner <= starts
      BY DEF RunInv, TypeOK, Filter
    <3>2. filters' = filters /\ q.run = starts + 1 /\ starts \in Nat
      BY <1>1, StartEffect DEF Quiet, TypeOK
    <3> QED  BY <3>1, <3>2 DEF Owned
  <2>2. q.pc = "list" /\ \A i \in Ifaces : q.clsact[i] = NoHandle /\ q.ifaceIdx[i] = 0
    BY <1>1, StartEffect
  <2> QED  BY <1>0, <2>1, <2>2 DEF HandleOf
<1>2. CASE CleanupList(p)
  <2>1. r.pc = "list" /\ Active(p)  BY <1>2 DEF CleanupList, Active
  <2>2. Same(r, q) /\ (q.pc \in {"list", "pick"} \/ (q.pc = "delete" /\ q.idx = index[q.iface]))
    BY <1>2, CleanupListEffect DEF CleanedUp
  <2>3. ~FilterAdd(p)  BY <2>1 DEF FilterAdd
  <2>4. \A i \in Ifaces : q.clsact[i] = NoHandle  BY <2>1, <2>2 DEF HandleOf, Same
  <2>5. /\ \A i \in Ifaces : q.ifaceIdx[i] <= index'[i]
        /\ \A i \in Ifaces : \A f \in Owned(p, i)' : Holds(p, i)' /\ f.handle = q.clsact[i]
    BY <2>1, <2>2, <2>3, HandlesKept DEF Same
  <2>6. /\ q.pc \in {"list", "delete", "pick"}
        /\ q.pc = "delete" => q.idx <= index'[q.iface]
    BY <1>0, <2>1, <2>2 DEF HandleOf
  <2> QED  BY <1>0, <2>4, <2>5, <2>6, HandlesOfCleanup
<1>3. CASE CleanupDelete(p)
  <2>1. r.pc = "delete" /\ Active(p)  BY <1>3 DEF CleanupDelete, Active
  <2>2. /\ Same(r, q)
        /\ q.pc \in {"list", "pick"} \/ (q.pc = "delete" /\ q.idx = r.idx /\ q.iface = r.iface)
    BY <1>3, CleanupDeleteEffect DEF CleanedUp
  <2>3. ~FilterAdd(p)  BY <2>1 DEF FilterAdd
  <2>4. \A i \in Ifaces : q.clsact[i] = NoHandle  BY <2>1, <2>2 DEF HandleOf, Same
  <2>5. /\ \A i \in Ifaces : q.ifaceIdx[i] <= index'[i]
        /\ \A i \in Ifaces : \A f \in Owned(p, i)' : Holds(p, i)' /\ f.handle = q.clsact[i]
    BY <2>1, <2>2, <2>3, HandlesKept DEF Same
  <2>6. /\ q.pc \in {"list", "delete", "pick"}
        /\ q.pc = "delete" => q.idx <= index'[q.iface]
    BY <1>0, <2>1, <2>2 DEF HandleOf
  <2> QED  BY <1>0, <2>4, <2>5, <2>6, HandlesOfCleanup
<1>4. CASE CleanupFault(p)
  <2>1. r.pc \in {"list", "delete"} /\ Active(p)  BY <1>4 DEF CleanupFault, Active
  <2>2. Same(r, q) /\ q.pc \in {"list", "pick"}  BY <1>4, CleanupFaultEffect DEF CleanedUp
  <2>3. ~FilterAdd(p)  BY <2>1 DEF FilterAdd
  <2>4. \A i \in Ifaces : q.clsact[i] = NoHandle  BY <2>1, <2>2 DEF HandleOf, Same
  <2>5. /\ \A i \in Ifaces : q.ifaceIdx[i] <= index'[i]
        /\ \A i \in Ifaces : \A f \in Owned(p, i)' : Holds(p, i)' /\ f.handle = q.clsact[i]
    BY <2>1, <2>2, <2>3, HandlesKept DEF Same
  <2>6. /\ q.pc \in {"list", "delete", "pick"}
        /\ q.pc = "delete" => q.idx <= index'[q.iface]
    BY <1>0, <2>1, <2>2 DEF HandleOf
  <2> QED  BY <1>0, <2>4, <2>5, <2>6, HandlesOfCleanup
<1>5. CASE nextFilterHandle(p)
  <2>1. r.pc = "pick" /\ Active(p)  BY <1>5 DEF nextFilterHandle, Active
  <2>2. /\ Same(r, q)
        /\ q.pc = "rollback" \/ (q.pc = "add" /\ q.idx = index[q.iface] /\ q.iface = r.iface)
    BY <1>5, PickEffect DEF RolledBack
  <2>3. ~FilterAdd(p)  BY <2>1 DEF FilterAdd
  <2> QED  BY <1>0, <2>1, <2>2, <2>3, HandlesKept DEF HandleOf, Same
<1>6. CASE FilterAdd(p)
  <2>0. r.pc = "add" /\ Active(p)  BY <1>6 DEF FilterAdd, Active
  <2>1. CASE Quiet /\ RolledBack(r, q)
    <3>1. \A i \in Ifaces : Owned(p, i)' = Owned(p, i)
      BY <2>1 DEF Quiet, RolledBack, Same, Owned
    <3> QED  BY <1>0, <2>0, <2>1, <3>1 DEF HandleOf, RolledBack, Same, Holds
  <2>2. CASE ~(Quiet /\ RolledBack(r, q))
    <3>1. /\ r.idx = index[r.iface] /\ r.handle \in Handles /\ q.run = r.run
          /\ \/ r.iface < NIfaces /\ q.pc = "pick" /\ q.iface = r.iface + 1
             \/ r.iface = NIfaces /\ q.pc = "run" /\ q.iface = 1
      BY <1>6, <2>2, FilterAddEffect
    <3>2. \A i \in Ifaces : /\ q.clsact[i] = IF i = r.iface THEN r.handle ELSE r.clsact[i]
                            /\ q.ifaceIdx[i] = IF i = r.iface THEN r.idx ELSE r.ifaceIdx[i]
      BY <1>6, <2>2, FilterAddEffect
    <3>3. r.clsact[r.iface] = NoHandle /\ r.handle # NoHandle
      <4>1. r.iface \in r.iface..NIfaces  BY <1>0
      <4>2. r.clsact[r.iface] = NoHandle  BY <2>0, <4>1 DEF HandleOf
      <4> QED  BY <3>1, <4>2, AttachAssumption
    <3>4. ASSUME NEW i \in Ifaces, NEW f \in Owned(p, i)'
          PROVE  Holds(p, i)' /\ f.handle = q.clsact[i]
      <4>1. f \in filters'[i] /\ f.owner = r.run  BY <3>1 DEF Owned
      <4>2. CASE f \in filters[i]
        <5>1. Holds(p, i) /\ f.handle = r.clsact[i]  BY <2>0, <4>1, <4>2 DEF HandleOf, Owned
        <5>2. i # r.iface  BY <3>3, <5>1 DEF Holds
        <5> QED  BY <1>0, <3>2, <5>1, <5>2 DEF Holds
      <4>3. CASE f \notin filters[i]
        <5>1. i = r.iface /\ f.handle = r.handle  BY <1>6, <4>1, <4>3, ActFilters, AddedType
        <5> QED  BY <1>0, <3>1, <3>2, <3>3, <5>1 DEF Holds
      <4> QED  BY <4>2, <4>3
    <3>5. \A i \in Ifaces : q.ifaceIdx[i] <= index[i]  BY <1>0, <3>1, <3>2 DEF HandleOf
    <3>6. q.pc = "pick" => \A i \in q.iface..NIfaces : q.clsact[i] = NoHandle
      <4>1. \A i \in r.iface + 1..NIfaces : i \in Ifaces /\ i # r.iface /\ i \in r.iface..NIfaces
        BY <1>0
      <4> QED  BY <2>0, <3>1, <3>2, <4>1 DEF HandleOf
    <3> QED  BY <1>0, <3>1, <3>4, <3>5, <3>6 DEF HandleOf
  <2> QED  BY <2>1, <2>2
<1>7. CASE AttachFault(p)
  <2>1. r.pc \in {"pick", "add"} /\ Active(p)  BY <1>7 DEF AttachFault, Active
  <2>2. Same(r, q) /\ q.pc = "rollback" /\ Quiet  BY <1>7, AttachFaultEffect DEF RolledBack
  <2>3. \A i \in Ifaces : Owned(p, i)' = Owned(p, i)
    BY <2>2 DEF Quiet, Same, Owned
  <2> QED  BY <1>0, <2>1, <2>2, <2>3 DEF HandleOf, Same, Holds
<1>8. CASE Terminate(p)
  <2>1. r.pc = "run" /\ Active(p)  BY <1>8 DEF Terminate, Active
  <2>2. Same(r, q) /\ q.pc = "close"  BY <1>8, TerminateEffect
  <2>3. ~FilterAdd(p)  BY <2>1 DEF FilterAdd
  <2> QED  BY <1>0, <2>1, <2>2, <2>3, HandlesKept DEF HandleOf, Same
<1>9. CASE CloseFilter(p)
  <2>0. Active(p) /\ ~FilterAdd(p) /\ r.pc \in Closing
    BY <1>9 DEF CloseFilter, FilterAdd, Active, Closing
  <2>1. /\ q.run = r.run /\ q.ifaceIdx = r.ifaceIdx /\ q.pc \in Closing \union {"off"}
        /\ \A i \in Ifaces : i # r.iface => q.clsact[i] = r.clsact[i]
    BY <1>9, <2>0, CloseFilterEffect DEF ClosedOne, Closing
  <2>2. ASSUME NEW i \in Ifaces, NEW f \in Owned(p, i)'
        PROVE  Holds(p, i)' /\ f.handle = q.clsact[i]
    <3>1. i # r.iface  BY <1>9, CloseFilterOwned
    <3>2. f \in Owned(p, i)  BY <2>0, <2>1, OwnShrinks
    <3> QED  BY <1>0, <2>0, <2>1, <3>1, <3>2 DEF HandleOf, Holds
  <2>3. \A i \in Ifaces : q.ifaceIdx[i] <= index[i]  BY <2>1 DEF HandleOf
  <2> QED  BY <1>0, <2>1, <2>2, <2>3 DEF HandleOf, Closing
<1>10. CASE CloseFault(p)
  <2>1. Active(p) /\ ~FilterAdd(p) /\ r.pc \in Closing
    BY <1>10 DEF CloseFault, FilterAdd, Active, Closing
  <2>2. /\ q.run = r.run /\ q.ifaceIdx = r.ifaceIdx /\ q.clsact = r.clsact
        /\ q.pc \in Closing \union {"off"}
    BY <1>10, <2>1, CloseFaultEffect DEF ClosedOne, Same, Closing
  <2> QED  BY <1>0, <2>1, <2>2, HandlesKept DEF HandleOf, Closing
<1>11. CASE Die(p)
  <2>1. q.pc = "off" /\ q.ifaceIdx = r.ifaceIdx  BY <1>11, DieEffect
  <2> QED  BY <1>0, <2>1 DEF HandleOf, Active
<1> QED
  BY <1>1, <1>2, <1>3, <1>4, <1>5, <1>6, <1>7, <1>8, <1>9, <1>10, <1>11 DEF Act

\* A round of closing: where interfaces before r.iface are done and this one is
\* done by the step, those before q.iface are, and all of them at its end.
LEMMA ClosedAct ==
  ASSUME TypeOK, RunInv, NEW p \in Instances, Act(p), HandleOf(p), ClosedOf(p)
  PROVE  ClosedOf(p)'
<1> DEFINE r == proc[p]
           q == proc'[p]
<1>0. /\ r \in Process /\ q \in Process /\ r.iface \in Ifaces /\ q.iface \in Ifaces
      /\ Ifaces = 1..NIfaces /\ NIfaces \in Nat /\ r.slips \in Nat /\ q.slips \in Nat
  BY ActOnFilters, IfacesType DEF TypeOK, Process, Ifaces
<1>1. CASE q.pc \notin {"rollback", "close", "closeLinks", "off"}
  BY <1>1 DEF ClosedOf
<1>2. CASE q.pc \in {"rollback", "close"} /\ q.iface = 1
  BY <1>0, <1>2 DEF ClosedOf
<1>3. CASE q.pc = "off" /\ q.how = "died"
  BY <1>3 DEF ClosedOf
<1>4. CASE CloseFilter(p)
  <2>1. r.pc \in Closing /\ ~FilterAdd(p)  BY <1>4 DEF CloseFilter, FilterAdd, Closing
  <2>2. /\ q.run = r.run /\ q.slips = r.slips
        /\ \/ r.iface < NIfaces /\ q.pc = r.pc /\ q.iface = r.iface + 1
           \/ r.iface = NIfaces /\ r.pc = "close" /\ q.pc = "closeLinks" /\ q.iface = 1
           \/ /\ r.iface = NIfaces /\ r.pc # "close" /\ q.pc = "off"
              /\ q.how = IF r.pc = "rollback" THEN "failed" ELSE "stopped"
    BY <1>4, CloseFilterEffect DEF ClosedOne
  <2>3. \A i \in Ifaces : Owned(p, i) = {} \/ i = r.iface => Owned(p, i)' = {}
    BY <1>4, <2>1, <2>2, CloseFilterOwned, OwnShrinks
  <2>4. CASE r.iface < NIfaces /\ q.pc = r.pc /\ q.iface = r.iface + 1
    <3>1. \A i \in Ifaces : i < q.iface => i < r.iface \/ i = r.iface  BY <1>0, <2>4
    <3> QED  BY <1>0, <2>1, <2>2, <2>3, <2>4, <3>1 DEF ClosedOf, Closing
  <2>5. CASE r.iface = NIfaces /\ r.pc = "close" /\ q.pc = "closeLinks" /\ q.iface = 1
    <3>1. \A i \in Ifaces : ~(i < 1) /\ (i < r.iface \/ i = r.iface)  BY <1>0, <2>5
    <3> QED  BY <2>2, <2>3, <2>5, <3>1 DEF ClosedOf
  <2>6. CASE /\ r.iface = NIfaces /\ r.pc # "close" /\ q.pc = "off"
             /\ q.how = IF r.pc = "rollback" THEN "failed" ELSE "stopped"
    <3>1. \A i \in Ifaces : i < r.iface \/ i = r.iface  BY <1>0, <2>6
    <3> QED  BY <2>1, <2>2, <2>3, <2>6, <3>1 DEF ClosedOf, Closing
  <2> QED  BY <2>2, <2>4, <2>5, <2>6
<1>5. CASE CloseFault(p)
  <2>1. r.pc \in Closing /\ ~FilterAdd(p)  BY <1>5 DEF CloseFault, FilterAdd, Closing
  <2>2. /\ q.run = r.run /\ q.slips = r.slips + 1
        /\ \/ r.iface < NIfaces /\ q.pc = r.pc /\ q.iface = r.iface + 1
           \/ r.iface = NIfaces /\ r.pc = "close" /\ q.pc = "closeLinks" /\ q.iface = 1
           \/ /\ r.iface = NIfaces /\ r.pc # "close" /\ q.pc = "off"
              /\ q.how = IF r.pc = "rollback" THEN "failed" ELSE "stopped"
    BY <1>5, CloseFaultEffect DEF ClosedOne, Same
  <2>3. \A i \in Ifaces : Owned(p, i) = {} => Owned(p, i)' = {}
    BY <2>1, <2>2, OwnShrinks
  <2>4. CASE r.pc = "closeLinks" /\ r.slips = 0
    BY <2>2, <2>3, <2>4 DEF ClosedOf
  <2>5. CASE r.pc = "closeLinks" /\ r.slips # 0
    <3>1. ~(q.slips <= 1) /\ q.slips # 0  BY <1>0, <2>2, <2>5
    <3> QED  BY <2>2, <2>5, <3>1 DEF ClosedOf
  <2>6. CASE r.pc # "closeLinks"
    <3>1. q.slips # 0 /\ \A i \in Ifaces : ~(i < 1)  BY <1>0, <2>2
    <3> QED  BY <2>1, <2>2, <2>6, <3>1 DEF ClosedOf, Closing
  <2> QED  BY <2>4, <2>5, <2>6
<1>6. CASE ~CloseFilter(p) /\ ~CloseFault(p)
  <2>1. CASE Start(p)  BY <1>1, <2>1, StartEffect
  <2>2. CASE CleanupList(p)  BY <1>1, <2>2, CleanupListEffect DEF CleanedUp
  <2>3. CASE CleanupDelete(p)  BY <1>1, <2>3, CleanupDeleteEffect DEF CleanedUp
  <2>4. CASE CleanupFault(p)  BY <1>1, <2>4, CleanupFaultEffect DEF CleanedUp
  <2>5. CASE nextFilterHandle(p)  BY <1>1, <1>2, <2>5, PickEffect DEF RolledBack
  <2>6. CASE FilterAdd(p)  BY <1>1, <1>2, <2>6, FilterAddEffect DEF RolledBack
  <2>7. CASE AttachFault(p)  BY <1>2, <2>7, AttachFaultEffect DEF RolledBack
  <2>8. CASE Terminate(p)
    <3>1. r.iface = 1  BY <2>8 DEF Terminate, HandleOf
    <3> QED  BY <1>2, <2>8, <3>1, TerminateEffect
  <2>9. CASE Die(p)  BY <1>3, <2>9, DieEffect
  <2> QED  BY <1>6, <2>1, <2>2, <2>3, <2>4, <2>5, <2>6, <2>7, <2>8, <2>9 DEF Act
<1> QED  BY <1>4, <1>5, <1>6

LEMMA AttachStep == TypeOK /\ AttachInv /\ [Next]_vars => AttachInv'
<1> SUFFICES ASSUME TypeOK, AttachInv, [Next]_vars PROVE AttachInv'  OBVIOUS
<1>1. RunInv' /\ ForeignInv'  BY RunStep, ForeignStep DEF AttachInv
<1>2. ASSUME NEW x \in Instances PROVE HandleOf(x)' /\ ClosedOf(x)'
  <2>0. RunInv /\ HandleOf(x) /\ ClosedOf(x)  BY DEF AttachInv, HandleInv, ClosedInv
  <2>1. CASE UNCHANGED vars
    BY <2>0, <2>1 DEF vars, others, HandleOf, ClosedOf, Owned, Holds, Active
  <2>2. ASSUME NEW j \in Ifaces, Event(j) PROVE HandleOf(x)' /\ ClosedOf(x)'
    BY <2>0, <2>2, HandleEvent, ClosedEvent
  <2>3. ASSUME NEW p \in Instances, Act(p) PROVE HandleOf(x)' /\ ClosedOf(x)'
    BY <2>0, <2>3, HandleBystander, HandleAct, ClosedAct
  <2> QED  BY <2>1, <2>2, <2>3, StepCases
<1>3. HandleInv' /\ ClosedInv'  BY <1>2 DEF HandleInv, ClosedInv
<1> QED  BY <1>1, <1>3 DEF AttachInv

LEMMA AttachInit == Init => AttachInv
<1> SUFFICES ASSUME Init PROVE AttachInv  OBVIOUS
<1>0. TypeOK  BY InitType
<1>1. /\ filters = [i \in Ifaces |-> Foreign[i]] /\ foreign = filters
      /\ \A i \in Ifaces : index[i] = 1 /\ filters[i] = Foreign[i] /\ foreign[i] = Foreign[i]
  BY DEF Init
<1>2. \A p \in Instances : /\ proc[p].pc = "off" /\ proc[p].run = 0 /\ proc[p].how = "new"
                           /\ \A i \in Ifaces : proc[p].ifaceIdx[i] = 0
  BY FreshType DEF Init
<1>3. starts = 0 /\ Others = 0  BY DEF Init, Others
<1>4. \A i \in Ifaces : \A f \in Foreign[i] :
        f.owner = Others /\ \A p \in Instances : ~IsStale(p, f)
  BY ForeignAssumption DEF IsStale
<1>5. RunInv  BY <1>1, <1>2, <1>3, <1>4 DEF RunInv, Active
<1>6. ForeignInv  BY <1>1, <1>4 DEF ForeignInv
<1>7. HandleInv  BY <1>1, <1>2 DEF HandleInv, HandleOf, Active
<1>8. ClosedInv  BY <1>2 DEF ClosedInv, ClosedOf
<1> QED  BY <1>5, <1>6, <1>7, <1>8 DEF AttachInv

\* What the records of the instances say of the filters, in every reachable
\* state and whether or not instances of one version overlap.
THEOREM AttachInvariant == Spec => []AttachInv
<1>1. TypeOK /\ AttachInv /\ [Next]_vars => AttachInv'  BY AttachStep
<1> QED  BY <1>1, AttachInit, AttachTypeCorrect, PTL DEF Spec

\* An instance that a signal ends leaves no filter behind though one request of
\* its two rounds of closing fails, and a start that fails leaves none if no
\* request of its rollback fails: main.go's deferred Close, coll.Close and
\* AttachAll's rollback, on any number of interfaces.
THEOREM ClosesWhatItOpened == Spec => []NothingLeftBehind
<1>1. AttachInv => NothingLeftBehind
  BY DEF AttachInv, ClosedInv, ClosedOf, Owned, NothingLeftBehind
<1> QED  BY <1>1, AttachInvariant, PTL

-----------------------------------------------------------------------------
(* Where instances of one version do not overlap *)

\* A filter that a step of p adds or deletes is one of p's program.
LEMMA ActStale ==
  ASSUME TypeOK, SoleInv, NEW p \in Instances, Act(p), NEW i \in Ifaces,
         NEW f, f \in filters[i] \/ f \in filters'[i], ~(f \in filters[i] /\ f \in filters'[i])
  PROVE  Active(p) /\ IsStale(p, f)
<1> DEFINE r == proc[p]
<1>0. SoleOf(p) /\ \A g \in filters[i] : f \in filters[i] /\ f.handle = g.handle => f = g
  BY DEF SoleInv, TypeOK
<1>1. CASE filters'[i] = filters[i]  BY <1>1
<1>2. CASE Active(p) /\ r.handle \in Handles /\ filters'[i] = filters[i] \union {Added(p)}
  BY <1>2, AddedType DEF IsStale
<1>3. ASSUME NEW h \in Handles, i = r.iface, Active(p), r.pc = "delete", SameDevice(r), h \in r.todo,
             filters'[i] = Deleted(i, h)
      PROVE  IsStale(p, f)
  <2>1. f \in filters[i] /\ f.handle = h  BY <1>3 DEF Deleted
  <2>2. r.todo = {g.handle : g \in Stale(p, i)}  BY <1>0, <1>3 DEF SoleOf
  <2>3. PICK g \in Stale(p, i) : h = g.handle  BY <1>3, <2>2
  <2> QED  BY <1>0, <2>1, <2>3 DEF Stale
<1>4. CASE Active(p) /\ Holds(p, i) /\ filters'[i] = Deleted(i, r.clsact[i])
  <2>1. f \in filters[i] /\ f.handle = r.clsact[i]  BY <1>4 DEF Deleted
  <2>2. Own(p, i) \in filters[i]  BY <1>0, <1>4 DEF SoleOf
  <2>3. Own(p, i).handle = r.clsact[i] /\ Own(p, i).named /\ Own(p, i).tag = tagOf[p]  BY DEF Own
  <2>4. f = Own(p, i)  BY <1>0, <2>1, <2>2, <2>3
  <2> QED  BY <1>4, <2>3, <2>4 DEF IsStale
<1> QED  BY <1>1, <1>2, <1>3, <1>4, ActOnFilters

\* To an instance of another version such a step changes nothing.
LEMMA BystanderStale ==
  ASSUME TypeOK, SoleInv, NEW p \in Instances, Act(p), NEW x \in Instances, Active(x), x # p,
         NEW i \in Ifaces
  PROVE  /\ Stale(x, i)' = Stale(x, i) /\ Left(i, tagOf[x])' = Left(i, tagOf[x])
         /\ Own(x, i) \in filters[i] => Own(x, i)' \in filters'[i]
<1>1. \A f : (f \in filters[i] \/ f \in filters'[i]) /\ f.tag = tagOf[x] =>
               f \in filters[i] /\ f \in filters'[i]
  BY ActStale DEF SoleInv, IsStale
<1>2. Own(x, i)' = Own(x, i) /\ Own(x, i).tag = tagOf[x]  BY Bystander DEF Own
<1>3. \A f : f \in Stale(x, i)' <=> f \in Stale(x, i)  BY <1>1 DEF Stale, IsStale
<1>4. \A f : f \in Left(i, tagOf[x])' <=> f \in Left(i, tagOf[x])  BY <1>1 DEF Left
<1> QED  BY <1>1, <1>2, <1>3, <1>4

LEMMA EventStale ==
  ASSUME TypeOK, NEW j \in Ifaces, Event(j), NEW i \in Ifaces
  PROVE  \/ /\ index'[i] = index[i] /\ filters[i] \subseteq filters'[i]
            /\ \A x \in Instances : /\ Stale(x, i)' = Stale(x, i)
                                    /\ Left(i, tagOf[x])' = Left(i, tagOf[x])
            /\ foreign[i] \subseteq filters[i] => foreign'[i] \subseteq filters'[i]
         \/ filters'[i] = {} /\ foreign'[i] = {} /\ index'[i] = index[i] + 1
<1>1. CASE filters'[i] = filters[i] /\ foreign'[i] = foreign[i] /\ index'[i] = index[i]
  BY <1>1 DEF Stale, IsStale, Left
<1>2. CASE filters'[i] = {} /\ foreign'[i] = {} /\ index'[i] = index[i] + 1
  BY <1>2
<1>3. ASSUME NEW f, f.owner = Others, f.tag = OtherTag, filters'[i] = filters[i] \union {f},
             foreign'[i] = foreign[i] \union {f}, index'[i] = index[i]
      PROVE  /\ index'[i] = index[i] /\ filters[i] \subseteq filters'[i]
             /\ \A x \in Instances : /\ Stale(x, i)' = Stale(x, i)
                                     /\ Left(i, tagOf[x])' = Left(i, tagOf[x])
             /\ foreign[i] \subseteq filters[i] => foreign'[i] \subseteq filters'[i]
  <2>1. \A x \in Instances : ~IsStale(x, f)  BY <1>3, ForeignAssumption DEF IsStale
  <2>2. \A x \in Instances : Stale(x, i)' = Stale(x, i)  BY <1>3, <2>1 DEF Stale, IsStale
  <2>3. \A x \in Instances : Left(i, tagOf[x])' = Left(i, tagOf[x])  BY <1>3 DEF Left
  <2> QED  BY <1>3, <2>2, <2>3
<1>4. ASSUME NEW h \in Handles,
             LET f == [handle |-> h, owner |-> Others, named |-> TRUE, tag |-> OtherTag]
             IN  /\ filters'[i] = filters[i] \union {f}
                 /\ foreign'[i] = foreign[i] \union {f} /\ index'[i] = index[i]
      PROVE  /\ index'[i] = index[i] /\ filters[i] \subseteq filters'[i]
             /\ \A x \in Instances : /\ Stale(x, i)' = Stale(x, i)
                                     /\ Left(i, tagOf[x])' = Left(i, tagOf[x])
             /\ foreign[i] \subseteq filters[i] => foreign'[i] \subseteq filters'[i]
  <2> DEFINE f == [handle |-> h, owner |-> Others, named |-> TRUE, tag |-> OtherTag]
  <2>1. f.owner = Others /\ f.tag = OtherTag  OBVIOUS
  <2>2. filters'[i] = filters[i] \union {f} /\ foreign'[i] = foreign[i] \union {f} /\ index'[i] = index[i]
    BY <1>4
  <2> HIDE DEF f
  <2> QED  BY <1>3, <2>1, <2>2
<1> QED  BY <1>1, <1>2, <1>4, EventEffect

\* An interface that comes back has an index that nobody knows yet.
LEMMA SoleEvent ==
  ASSUME TypeOK, NEW x \in Instances, HandleOf(x), SoleOf(x), CleanOf(x), NEW j \in Ifaces, Event(j)
  PROVE  SoleOf(x)' /\ CleanOf(x)'
<1> DEFINE r == proc[x]
<1>0. /\ proc' = proc /\ r.iface \in Ifaces /\ r.idx \in Nat
      /\ r.pc = "delete" => r.idx <= index[r.iface]
      /\ \A i \in Ifaces : r.ifaceIdx[i] \in Nat /\ index[i] \in Nat /\ r.ifaceIdx[i] <= index[i]
  BY EventEffect, IfacesType DEF TypeOK, Process, HandleOf
<1>1. \A i \in Ifaces : \/ /\ index'[i] = index[i] /\ filters[i] \subseteq filters'[i]
                           /\ Stale(x, i)' = Stale(x, i)
                        \/ /\ index'[i] = index[i] + 1 /\ Stale(x, i)' = {}
  <2>1. \A i \in Ifaces : filters'[i] = {} => Stale(x, i)' = {}  BY DEF Stale
  <2> QED  BY <2>1, EventStale
<1>2. \A i \in Ifaces : Own(x, i)' = Own(x, i)  BY <1>0 DEF Own
<1>3. SoleOf(x)'
  <2> SUFFICES ASSUME Active(x) PROVE SoleOf(x)'  BY <1>0 DEF SoleOf, Active
  <2>1. \A i \in Ifaces : Holds(x, i)' => Own(x, i)' \in filters'[i]
    BY <1>0, <1>1, <1>2 DEF SoleOf, Holds
  <2>2. r.pc = "delete" /\ r.idx = index'[r.iface] => r.todo = {f.handle : f \in Stale(x, r.iface)'}
    BY <1>0, <1>1 DEF SoleOf, SameDevice
  <2>3. r.pc = "delete" /\ r.idx # index'[r.iface] => Stale(x, r.iface)' = {}
    BY <1>0, <1>1 DEF SoleOf, SameDevice
  <2> QED  BY <1>0, <2>1, <2>2, <2>3 DEF SoleOf, SameDevice
<1>4. CleanOf(x)'
  <2> SUFFICES ASSUME NEW i \in Ifaces, r.slips = 0
               PROVE  /\ Cleaned(x, i) => Stale(x, i)' = {}
                      /\ Attached(x, i) => Stale(x, i)' = IF r.ifaceIdx[i] # index'[i] THEN {} ELSE {Own(x, i)}
    BY <1>0, <1>2 DEF CleanOf, Cleaned, Attached
  <2> QED  BY <1>0, <1>1 DEF CleanOf
<1> QED  BY <1>3, <1>4

LEMMA SoleBystander ==
  ASSUME TypeOK, SoleInv, NEW p \in Instances, Act(p), NEW x \in Instances, x # p, CleanOf(x)
  PROVE  SoleOf(x)' /\ CleanOf(x)'
<1> DEFINE r == proc[x]
<1>0. proc'[x] = r /\ index' = index /\ SoleOf(x) /\ r.iface \in Ifaces
  BY Bystander, ActOnFilters, IfacesType DEF SoleInv, TypeOK, Process
<1>1. CASE ~Active(x)
  BY <1>0, <1>1 DEF SoleOf, CleanOf, Active, Cleaned, Attached
<1>2. CASE Active(x)
  <2>1. \A i \in Ifaces : /\ Stale(x, i)' = Stale(x, i) /\ Own(x, i)' = Own(x, i)
                          /\ Own(x, i) \in filters[i] => Own(x, i)' \in filters'[i]
    BY <1>0, <1>2, BystanderStale DEF Own
  <2>2. \A i \in Ifaces : Holds(x, i)' = Holds(x, i) /\ Cleaned(x, i)' = Cleaned(x, i)
                          /\ Attached(x, i)' = Attached(x, i)
    BY <1>0 DEF Holds, Cleaned, Attached
  <2>3. SoleOf(x)'
    BY <1>0, <1>2, <2>1, <2>2 DEF SoleOf, SameDevice
  <2>4. CleanOf(x)'  BY <1>0, <2>1, <2>2 DEF CleanOf
  <2> QED  BY <2>3, <2>4
<1> QED  BY <1>1, <1>2

\* The filters stay and so does what p knows of its own.
LEMMA SoleQuiet ==
  ASSUME TypeOK, NEW p \in Instances, Active(p), SoleOf(p), Quiet, Same(proc[p], proc'[p]),
         proc'[p].pc # "delete"
  PROVE  /\ SoleOf(p)'
         /\ \A i \in Ifaces : Stale(p, i)' = Stale(p, i) /\ Own(p, i)' = Own(p, i)
<1>1. \A i \in Ifaces : Stale(p, i)' = Stale(p, i) /\ Own(p, i)' = Own(p, i)
  BY DEF Quiet, Stale, IsStale, Own, Same
<1>2. \A i \in Ifaces : Holds(p, i)' => Holds(p, i)  BY DEF Quiet, Same, Holds
<1>3. \A i \in Ifaces : Holds(p, i)' => Own(p, i)' \in filters'[i]
  BY <1>1, <1>2 DEF SoleOf, Quiet
<1> QED  BY <1>1, <1>3 DEF SoleOf

\* Where an interface has been cleaned up, one more is clean.
LEMMA OneMoreCleaned ==
  ASSUME NEW p \in Instances, proc[p] \in Process, proc[p].pc \in {"list", "delete"},
         CleanedUp(proc[p], proc'[p]), NEW i \in Ifaces
  PROVE  /\ Cleaned(p, i)' => Cleaned(p, i) \/ i = proc[p].iface
         /\ ~Attached(p, i)'
<1>0. proc[p].iface \in Ifaces /\ Ifaces = 1..NIfaces /\ NIfaces \in Nat
  BY IfacesType DEF Process, Ifaces
<1> QED  BY <1>0 DEF CleanedUp, Cleaned, Attached

LEMMA SoleCleanup ==
  ASSUME TypeOK, RunInv, NEW p \in Instances, CleanupList(p) \/ CleanupDelete(p) \/ CleanupFault(p),
         HandleOf(p), SoleOf(p), CleanOf(p)
  PROVE  SoleOf(p)' /\ CleanOf(p)'
<1> DEFINE r == proc[p]
           q == proc'[p]
<1>0. r \in Process /\ r.iface \in Ifaces /\ r.pc \in {"list", "delete"} /\ Active(p)
  BY DEF TypeOK, Process, CleanupList, CleanupDelete, CleanupFault, Active
<1>1. \A i \in Ifaces : r.clsact[i] = NoHandle  BY <1>0 DEF HandleOf
<1>2. CASE CleanupList(p)
  <2>1. Quiet  BY <1>2, CleanupListEffect
  <2>2. \A i \in Ifaces : Stale(p, i)' = Stale(p, i)  BY <2>1 DEF Quiet, Stale, IsStale
  <2>3. CASE Stale(p, r.iface) = {} /\ CleanedUp(r, q) /\ q.slips = r.slips
    <3>1. q.pc # "delete" /\ Same(r, q)  BY <2>3 DEF CleanedUp
    <3>2. SoleOf(p)'  BY <1>0, <2>1, <3>1, SoleQuiet
    <3>3. CleanOf(p)'  BY <1>0, <2>2, <2>3, OneMoreCleaned DEF CleanOf
    <3> QED  BY <3>2, <3>3
  <2>4. CASE /\ Same(r, q) /\ q.slips = r.slips /\ q.pc = "delete" /\ q.iface = r.iface
             /\ q.todo = {f.handle : f \in Stale(p, r.iface)} /\ q.idx = index[r.iface]
    <3>1. \A i \in Ifaces : ~Holds(p, i)'  BY <1>1, <2>4 DEF Holds, Same
    <3>2. q.idx = index'[q.iface]  BY <2>1, <2>4 DEF Quiet
    <3>3. SoleOf(p)'
      <4>1. \A i \in Ifaces : i = r.iface => q.todo = {f.handle : f \in Stale(p, i)'}  BY <2>2, <2>4
      <4> QED  BY <1>0, <2>4, <3>1, <3>2, <4>1 DEF SoleOf, SameDevice
    <3>4. \A i \in Ifaces : ~Attached(p, i)' /\ (Cleaned(p, i)' => Cleaned(p, i))
      BY <1>0, <2>4 DEF Attached, Cleaned
    <3>5. CleanOf(p)'  BY <2>2, <2>4, <3>4 DEF CleanOf
    <3> QED  BY <3>3, <3>5
  <2> QED  BY <1>2, <2>3, <2>4, CleanupListEffect
<1>3. CASE CleanupDelete(p)
  <2>0. r.pc = "delete"  BY <1>3 DEF CleanupDelete
  <2>1. ASSUME NEW h \in r.todo, SameDevice(r), Deletes(r.iface, h), q.slips = r.slips,
               \/ r.todo = {h} /\ CleanedUp(r, q)
               \/ /\ r.todo # {h} /\ Same(r, q) /\ q.pc = "delete" /\ q.iface = r.iface
                  /\ q.idx = r.idx /\ q.todo = r.todo \ {h}
        PROVE  SoleOf(p)' /\ CleanOf(p)'
    <3>1. /\ r.todo = {f.handle : f \in Stale(p, r.iface)} /\ index' = index
          /\ \A i \in Ifaces : filters'[i] = IF i = r.iface THEN {f \in filters[i] : f.handle # h}
                                             ELSE filters[i]
      BY <1>0, <2>0, <2>1 DEF SoleOf, Deletes, TypeOK
    <3>2. \A i \in Ifaces : \A f : f \in Stale(p, i)' <=> f \in Stale(p, i) /\ (i = r.iface => f.handle # h)
      <4> SUFFICES ASSUME NEW i \in Ifaces, NEW f
                   PROVE  f \in Stale(p, i)' <=> f \in Stale(p, i) /\ (i = r.iface => f.handle # h)
        OBVIOUS
      <4>1. f \in filters'[i] <=> f \in filters[i] /\ (i = r.iface => f.handle # h)  BY <3>1
      <4> QED  BY <4>1 DEF Stale, IsStale
    <3>3. \A i \in Ifaces : ~Holds(p, i)'  BY <1>1, <2>1 DEF Holds, Same, CleanedUp
    <3>4. \A i \in Ifaces : Stale(p, i) = {} => Stale(p, i)' = {}  BY <3>2
    <3>5. CASE r.todo = {h} /\ CleanedUp(r, q)
      <4>1. SoleOf(p)'  BY <3>3, <3>5 DEF SoleOf, CleanedUp
      <4>2. ASSUME NEW i \in Ifaces, i = r.iface PROVE Stale(p, i)' = {}
        BY <3>1, <3>2, <3>5, <4>2
      <4>3. CleanOf(p)'  BY <1>0, <2>1, <3>4, <3>5, <4>2, OneMoreCleaned DEF CleanOf
      <4> QED  BY <4>1, <4>3
    <3>6. CASE /\ Same(r, q) /\ q.pc = "delete" /\ q.iface = r.iface
               /\ q.idx = r.idx /\ q.todo = r.todo \ {h}
      <4>1. ASSUME NEW i \in Ifaces, i = r.iface PROVE q.todo = {f.handle : f \in Stale(p, i)'}
        BY <3>1, <3>2, <3>6, <4>1
      <4>2. q.idx = index'[q.iface]  BY <2>1, <3>1, <3>6 DEF SameDevice
      <4>3. SoleOf(p)'  BY <1>0, <3>3, <3>6, <4>1, <4>2 DEF SoleOf, SameDevice
      <4>4. \A i \in Ifaces : ~Attached(p, i)' /\ (Cleaned(p, i)' => Cleaned(p, i))
        BY <2>0, <3>6 DEF Attached, Cleaned
      <4>5. CleanOf(p)'  BY <2>1, <3>4, <4>4 DEF CleanOf
      <4> QED  BY <4>3, <4>5
    <3> QED  BY <2>1, <3>5, <3>6
  <2>2. CASE Quiet /\ CleanedUp(r, q) /\ q.slips # 0
    <3>1. SoleOf(p)'  BY <1>0, <2>2, SoleQuiet DEF CleanedUp
    <3> QED  BY <2>2, <3>1 DEF CleanOf
  <2> QED  BY <1>3, <2>1, <2>2, CleanupDeleteEffect
<1>4. CASE CleanupFault(p)
  <2>1. Quiet /\ CleanedUp(r, q) /\ q.slips # 0  BY <1>4, CleanupFaultEffect
  <2>2. SoleOf(p)'  BY <1>0, <2>1, SoleQuiet DEF CleanedUp
  <2> QED  BY <2>1, <2>2 DEF CleanOf
<1> QED  BY <1>2, <1>3, <1>4

\* A closing or ended instance is neither cleaning up nor attaching.
LEMMA PastAttaching ==
  ASSUME NEW p \in Instances, proc'[p].pc \notin {"list", "delete", "pick", "add", "run"}
  PROVE  CleanOf(p)'
BY DEF CleanOf, Cleaned, Attached

LEMMA SoleAdd ==
  ASSUME TypeOK, NEW p \in Instances, FilterAdd(p), HandleOf(p), SoleOf(p), CleanOf(p)
  PROVE  SoleOf(p)' /\ CleanOf(p)'
<1> DEFINE r == proc[p]
           q == proc'[p]
<1>0. /\ r \in Process /\ r.iface \in Ifaces /\ r.pc = "add" /\ Active(p)
      /\ Ifaces = 1..NIfaces /\ NIfaces \in Nat
  BY IfacesType DEF TypeOK, Process, FilterAdd, Active, Ifaces
<1>1. CASE Quiet /\ RolledBack(r, q)
  <2>1. q.pc = "rollback" /\ Same(r, q)  BY <1>1 DEF RolledBack
  <2> QED  BY <1>0, <1>1, <2>1, SoleQuiet, PastAttaching
<1>2. CASE ~(Quiet /\ RolledBack(r, q))
  <2>1. /\ r.idx = index[r.iface] /\ r.handle \in Handles /\ q.run = r.run /\ q.slips = r.slips
        /\ filters' = [filters EXCEPT ![r.iface] = filters[r.iface] \union {Added(p)}]
        /\ index' = index
        /\ \/ r.iface < NIfaces /\ q.pc = "pick" /\ q.iface = r.iface + 1
           \/ r.iface = NIfaces /\ q.pc = "run" /\ q.iface = 1
    BY <1>2, FilterAddEffect
  <2>2. \A i \in Ifaces : /\ q.clsact[i] = IF i = r.iface THEN r.handle ELSE r.clsact[i]
                          /\ q.ifaceIdx[i] = IF i = r.iface THEN r.idx ELSE r.ifaceIdx[i]
    BY <1>2, FilterAddEffect
  <2>3. \A i \in Ifaces : filters'[i] = IF i = r.iface THEN filters[i] \union {Added(p)} ELSE filters[i]
    BY <1>0, <2>1 DEF TypeOK
  <2>4. \A i \in Ifaces : Own(p, i)' = IF i = r.iface THEN Added(p) ELSE Own(p, i)
    BY <2>1, <2>2 DEF Own, Added
  <2>5. \A i \in Ifaces : i # r.iface => (Holds(p, i)' <=> Holds(p, i))
    BY <2>1, <2>2 DEF Holds
  <2>6. SoleOf(p)'
    <3>1. \A i \in Ifaces : Holds(p, i)' => Own(p, i)' \in filters'[i]
      BY <1>0, <2>3, <2>4, <2>5 DEF SoleOf
    <3> QED  BY <2>1, <3>1 DEF SoleOf
  <2>7. \A i \in Ifaces : /\ i # r.iface => Stale(p, i)' = Stale(p, i)
                          /\ i = r.iface /\ Stale(p, i) = {} => Stale(p, i)' = {Added(p)}
    <3> SUFFICES ASSUME NEW i \in Ifaces
                 PROVE  /\ i # r.iface => Stale(p, i)' = Stale(p, i)
                        /\ i = r.iface /\ Stale(p, i) = {} => Stale(p, i)' = {Added(p)}
      OBVIOUS
    <3>1. CASE i # r.iface  BY <2>3, <3>1 DEF Stale, IsStale
    <3>2. CASE i = r.iface
      <4>1. IsStale(p, Added(p))  BY <2>1, AddedType DEF IsStale
      <4>2. \A f : f \in Stale(p, i)' <=> f \in Stale(p, i) \/ f = Added(p)
        BY <2>3, <3>2, <4>1 DEF Stale, IsStale
      <4> QED  BY <3>2, <4>2
    <3> QED  BY <3>1, <3>2
  <2>8. ASSUME NEW i \in Ifaces, r.slips = 0
        PROVE  /\ Cleaned(p, i)' => Stale(p, i)' = {}
               /\ Attached(p, i)' => Stale(p, i)' = IF q.ifaceIdx[i] # index'[i] THEN {} ELSE {Own(p, i)'}
    <3>1. CASE i = r.iface
      <4>1. Cleaned(p, i) /\ ~Cleaned(p, i)'  BY <1>0, <2>1, <3>1 DEF Cleaned
      <4>2. Stale(p, i) = {}  BY <2>8, <4>1 DEF CleanOf
      <4>3. Stale(p, i)' = {Own(p, i)'} /\ q.ifaceIdx[i] = index'[i]
        BY <2>1, <2>2, <2>4, <2>7, <3>1, <4>2
      <4> QED  BY <4>1, <4>3
    <3>2. CASE i # r.iface
      <4>1. /\ Cleaned(p, i)' => Cleaned(p, i)
            /\ Attached(p, i)' => Attached(p, i)
        BY <1>0, <2>1, <3>2 DEF Cleaned, Attached
      <4>2. Stale(p, i)' = Stale(p, i) /\ Own(p, i)' = Own(p, i) /\ q.ifaceIdx[i] = r.ifaceIdx[i]
        BY <2>2, <2>4, <2>7, <3>2
      <4>3. /\ Cleaned(p, i) => Stale(p, i) = {}
            /\ Attached(p, i) => Stale(p, i) = IF r.ifaceIdx[i] # index[i] THEN {} ELSE {Own(p, i)}
        BY <2>8 DEF CleanOf
      <4> QED  BY <2>1, <4>1, <4>2, <4>3
    <3> QED  BY <3>1, <3>2
  <2>9. CleanOf(p)'  BY <2>1, <2>8 DEF CleanOf
  <2> QED  BY <2>6, <2>9
<1> QED  BY <1>1, <1>2

LEMMA SoleAct ==
  ASSUME TypeOK, RunInv, NEW p \in Instances, Act(p), HandleOf(p), SoleOf(p), CleanOf(p)
  PROVE  SoleOf(p)' /\ CleanOf(p)'
<1> DEFINE r == proc[p]
           q == proc'[p]
<1>0. r \in Process /\ r.iface \in Ifaces /\ Ifaces = 1..NIfaces  BY DEF TypeOK, Process, Ifaces
<1>1. CASE Start(p)
  <2>1. /\ q.pc = "list" /\ q.iface = 1 /\ \A i \in Ifaces : q.clsact[i] = NoHandle
    BY <1>1, StartEffect
  <2>2. \A i \in Ifaces : ~Holds(p, i)' /\ ~Cleaned(p, i)' /\ ~Attached(p, i)'
    BY <1>0, <2>1, IfacesType DEF Holds, Cleaned, Attached
  <2> QED  BY <2>1, <2>2 DEF SoleOf, CleanOf
<1>2. CASE CleanupList(p) \/ CleanupDelete(p) \/ CleanupFault(p)
  BY <1>2, SoleCleanup
<1>3. CASE nextFilterHandle(p)
  <2>1. Quiet /\ Same(r, q) /\ r.pc = "pick" /\ Active(p)
    BY <1>3, PickEffect DEF RolledBack, nextFilterHandle, Active
  <2>2. q.pc = "rollback" \/ (q.pc = "add" /\ q.iface = r.iface /\ q.slips = r.slips)
    BY <1>3, PickEffect DEF RolledBack
  <2>3. SoleOf(p)' /\ \A i \in Ifaces : Stale(p, i)' = Stale(p, i) /\ Own(p, i)' = Own(p, i)
    BY <2>1, <2>2, SoleQuiet
  <2>4. CASE q.pc = "rollback"  BY <2>3, <2>4, PastAttaching
  <2>5. CASE q.pc = "add" /\ q.iface = r.iface /\ q.slips = r.slips
    <3>1. \A i \in Ifaces : (Cleaned(p, i)' => Cleaned(p, i)) /\ (Attached(p, i)' => Attached(p, i))
      BY <2>1, <2>5 DEF Cleaned, Attached
    <3>2. index' = index /\ q.ifaceIdx = r.ifaceIdx  BY <2>1 DEF Quiet, Same
    <3> QED  BY <2>3, <2>5, <3>1, <3>2 DEF CleanOf
  <2> QED  BY <2>2, <2>4, <2>5
<1>4. CASE FilterAdd(p)  BY <1>4, SoleAdd
<1>5. CASE AttachFault(p)
  <2>1. Quiet /\ Same(r, q) /\ q.pc = "rollback" /\ Active(p)
    BY <1>5, AttachFaultEffect DEF RolledBack, AttachFault, Active
  <2> QED  BY <2>1, SoleQuiet, PastAttaching
<1>6. CASE Terminate(p)
  <2>1. Quiet /\ Same(r, q) /\ q.pc = "close" /\ Active(p)
    BY <1>6, TerminateEffect DEF Terminate, Active
  <2> QED  BY <2>1, SoleQuiet, PastAttaching
<1>7. CASE CloseFilter(p)
  <2>1. Active(p) /\ r.pc \in Closing  BY <1>7 DEF CloseFilter, Active, Closing
  <2>2. q.pc \in Closing \union {"off"} /\ q.run = r.run /\ q.ifaceIdx = r.ifaceIdx
    BY <1>7, <2>1, CloseFilterEffect DEF ClosedOne, Closing
  <2>3. CASE Quiet /\ ClosedOne(r, q)
    <3>1. \A i \in Ifaces : /\ Holds(p, i)' => Holds(p, i)
                            /\ Own(p, i)' = Own(p, i) /\ filters'[i] = filters[i]
      BY <2>3 DEF Quiet, ClosedOne, Holds, Own
    <3> QED  BY <2>1, <2>2, <3>1, PastAttaching DEF SoleOf, Closing
  <2>4. CASE Deletes(r.iface, r.clsact[r.iface]) /\
             \A i \in Ifaces : q.clsact[i] = IF i = r.iface THEN NoHandle ELSE r.clsact[i]
    <3>1. \A i \in Ifaces : i # r.iface => filters'[i] = filters[i]
      BY <1>0, <2>4 DEF Deletes, TypeOK
    <3>2. \A i \in Ifaces : Holds(p, i)' => i # r.iface /\ Holds(p, i) /\ Own(p, i)' = Own(p, i)
      BY <2>2, <2>4 DEF Holds, Own, Deletes
    <3> QED  BY <2>1, <2>2, <3>1, <3>2, PastAttaching DEF SoleOf, Closing
  <2>5. \/ Quiet /\ ClosedOne(r, q)
        \/ /\ Deletes(r.iface, r.clsact[r.iface])
           /\ \A i \in Ifaces : q.clsact[i] = IF i = r.iface THEN NoHandle ELSE r.clsact[i]
    BY <1>7, CloseFilterEffect DEF ClosedOne
  <2> QED  BY <2>3, <2>4, <2>5
<1>8. CASE CloseFault(p)
  <2>1. Active(p) /\ r.pc \in Closing /\ Quiet
    BY <1>8, CloseFaultEffect DEF CloseFault, Active, Closing
  <2>2. /\ q.pc \in Closing \union {"off"} /\ q.run = r.run
        /\ q.ifaceIdx = r.ifaceIdx /\ q.clsact = r.clsact
    BY <1>8, <2>1, CloseFaultEffect DEF ClosedOne, Closing, Same
  <2>3. \A i \in Ifaces : /\ Holds(p, i)' => Holds(p, i)
                          /\ Own(p, i)' = Own(p, i) /\ filters'[i] = filters[i]
    BY <2>1, <2>2 DEF Quiet, Holds, Own
  <2> QED  BY <2>1, <2>2, <2>3, PastAttaching DEF SoleOf, Closing
<1>9. CASE Die(p)
  BY <1>9, DieEffect, PastAttaching DEF SoleOf, Active
<1> QED  BY <1>1, <1>2, <1>3, <1>4, <1>5, <1>6, <1>7, <1>8, <1>9 DEF Act

LEMMA SoleStep ==
  ASSUME ~Rivals
  PROVE  TypeOK /\ AttachInv /\ SoleInv /\ CleanInv /\ [Next]_vars => SoleInv' /\ CleanInv'
<1> SUFFICES ASSUME TypeOK, AttachInv, SoleInv, CleanInv, [Next]_vars PROVE SoleInv' /\ CleanInv'
  OBVIOUS
<1>0. /\ RunInv /\ ForeignInv
      /\ \A x \in Instances : HandleOf(x) /\ SoleOf(x) /\ CleanOf(x)
  BY DEF AttachInv, HandleInv, SoleInv, CleanInv
<1>1. CASE UNCHANGED vars
  BY <1>1 DEF vars, others, SoleInv, ForeignUntouched, SoleOf, CleanInv, CleanOf, Active, Holds, Own,
              SameDevice, Stale, IsStale, Cleaned, Attached
<1>2. ASSUME NEW j \in Ifaces, Event(j) PROVE SoleInv' /\ CleanInv'
  <2>1. \A x \in Instances : SoleOf(x)' /\ CleanOf(x)'  BY <1>0, <1>2, SoleEvent
  <2>2. ForeignUntouched'  BY <1>2, EventStale DEF SoleInv, ForeignUntouched
  <2>3. proc' = proc  BY <1>2, EventEffect, IfacesType
  <2> QED  BY <2>1, <2>2, <2>3 DEF SoleInv, CleanInv, Active
<1>3. ASSUME NEW p \in Instances, Act(p) PROVE SoleInv' /\ CleanInv'
  <2>1. \A x \in Instances : SoleOf(x)' /\ CleanOf(x)'  BY <1>0, <1>3, SoleBystander, SoleAct
  <2>2. ForeignUntouched'
    <3> SUFFICES ASSUME NEW i \in Ifaces, NEW f \in foreign'[i] PROVE f \in filters'[i]
      BY DEF ForeignUntouched
    <3>1. f \in foreign[i]  BY <1>3, ActOnFilters
    <3>2. f \in filters[i] /\ ~IsStale(p, f)
      BY <1>0, <3>1 DEF SoleInv, ForeignUntouched, ForeignInv
    <3> QED  BY <1>3, <3>2, ActStale
  <2>3. \A x \in Instances : x # p => proc'[x] = proc[x]  BY <1>3, Bystander
  <2>4. ASSUME NEW x \in Instances, NEW y \in Instances, Active(x)', Active(y)', tagOf[x] = tagOf[y]
        PROVE  x = y
    <3>1. CASE Start(p)
      <4>1. \A z \in Instances : tagOf[z] = tagOf[p] => proc[z].pc = "off"  BY <3>1 DEF Start
      <4> QED  BY <2>3, <2>4, <4>1 DEF SoleInv, Active
    <3>2. CASE Active(p)  BY <2>3, <2>4, <3>2 DEF SoleInv, Active
    <3> QED  BY <1>3, <3>1, <3>2, ActRun
  <2> QED  BY <2>1, <2>2, <2>4 DEF SoleInv, CleanInv
<1> QED  BY <1>1, <1>2, <1>3, StepCases

\* What is left of p's program on an interface is stale to p.
LEMMA LeftIsStale ==
  ASSUME RunInv, NEW p \in Instances, NEW i \in Ifaces
  PROVE  Left(i, tagOf[p]) \subseteq Stale(p, i)
BY DEF RunInv, Left, Stale, IsStale

LEMMA CountEvent ==
  ASSUME TypeOK, NEW x \in Instances, CountOf(x), NEW j \in Ifaces, Event(j)
  PROVE  CountOf(x)'
<1> SUFFICES ASSUME NEW i \in Ifaces
             PROVE  /\ IsFiniteSet(Left(i, tagOf[x])')
                    /\ Cardinality(Left(i, tagOf[x])') <= 1 + faults'
                    /\ Cleaned(x, i)' => Cardinality(Left(i, tagOf[x])') <= faults'
  BY DEF CountOf
<1>0. proc' = proc /\ faults' = faults /\ faults \in Nat  BY EventEffect DEF TypeOK
<1>1. CASE Left(i, tagOf[x])' = Left(i, tagOf[x])
  BY <1>0, <1>1 DEF CountOf, Cleaned
<1>2. CASE filters'[i] = {}
  <2>1. Left(i, tagOf[x])' = {}  BY <1>2 DEF Left
  <2> HIDE DEF Left
  <2> QED  BY <1>0, <2>1, FS_EmptySet
<1> QED  BY <1>1, <1>2, EventStale

LEMMA CountBystander ==
  ASSUME TypeOK, SoleInv, NEW p \in Instances, Act(p), CountOf(p),
         NEW x \in Instances, CountOf(x), tagOf[x] # tagOf[p]
  PROVE  CountOf(x)'
<1> SUFFICES ASSUME NEW i \in Ifaces
             PROVE  /\ IsFiniteSet(Left(i, tagOf[x])')
                    /\ Cardinality(Left(i, tagOf[x])') <= 1 + faults'
                    /\ Cleaned(x, i)' => Cardinality(Left(i, tagOf[x])') <= faults'
  BY DEF CountOf
<1>0. /\ proc'[x] = proc[x] /\ faults \in Nat /\ faults' \in Nat /\ faults <= faults'
      /\ Cleaned(x, i)' => Cleaned(x, i)
  BY Bystander, ActCounters DEF TypeOK, Cleaned
<1>1. \A f : f \in Left(i, tagOf[x])' <=> f \in Left(i, tagOf[x])
  BY ActStale DEF Left, IsStale
<1>2. Left(i, tagOf[x])' = Left(i, tagOf[x])  BY <1>1
<1>3. Cardinality(Left(i, tagOf[x])) \in Nat  BY FS_CardinalityType DEF CountOf
<1> QED  BY <1>0, <1>2, <1>3 DEF CountOf

\* A step of p adds a filter only where it has cleaned up; a leftover survives
\* p's cleanup of an interface only if a request fails.
LEMMA CountAct ==
  ASSUME TypeOK, RunInv, SoleInv, NEW p \in Instances, Act(p), SoleOf(p), CountOf(p),
         NEW i \in Ifaces
  PROVE  /\ IsFiniteSet(Left(i, tagOf[p])')
         /\ Cardinality(Left(i, tagOf[p])') <= 1 + faults'
         /\ Cleaned(p, i)' => Cardinality(Left(i, tagOf[p])') <= faults'
<1> DEFINE r == proc[p]
           q == proc'[p]
           L == Left(i, tagOf[p])
           n == Cardinality(L)
<1>0. /\ r \in Process /\ r.iface \in Ifaces /\ faults \in Nat /\ faults' \in Nat /\ faults <= faults'
      /\ IsFiniteSet(L) /\ n \in Nat /\ n <= 1 + faults /\ (Cleaned(p, i) => n <= faults)
      /\ Ifaces = 1..NIfaces /\ NIfaces \in Nat
  <2>1. /\ r \in Process /\ r.iface \in Ifaces /\ faults \in Nat /\ faults' \in Nat /\ faults <= faults'
        /\ Ifaces = 1..NIfaces /\ NIfaces \in Nat
    <3>1. r \in Process /\ r.iface \in Ifaces /\ faults \in Nat  BY DEF TypeOK, Process
    <3>2. faults' = faults \/ faults' = faults + 1  BY ActCounters
    <3> QED  BY <3>1, <3>2, IfacesType DEF Ifaces
  <2>2. IsFiniteSet(L) /\ n <= 1 + faults /\ (Cleaned(p, i) => n <= faults)  BY DEF CountOf
  <2>3. n \in Nat
    <3> HIDE DEF L
    <3> QED  BY <2>2, FS_CardinalityType
  <2> QED  BY <2>1, <2>2, <2>3
<1>1. ASSUME Left(i, tagOf[p])' \subseteq Left(i, tagOf[p])
      PROVE  IsFiniteSet(Left(i, tagOf[p])') /\ Cardinality(Left(i, tagOf[p])') \in Nat
             /\ Cardinality(Left(i, tagOf[p])') <= n
  <2>1. \A S : S \subseteq L => IsFiniteSet(S) /\ Cardinality(S) \in Nat /\ Cardinality(S) <= n
    <3> HIDE DEF L
    <3> QED  BY <1>0, FS_Subset, FS_CardinalityType
  <2> QED  BY <1>1, <2>1
<1>2. ASSUME ~FilterAdd(p) \/ i # r.iface
      PROVE  Left(i, tagOf[p])' \subseteq Left(i, tagOf[p])
  BY <1>2, ActFilters DEF Left
<1>3. CASE (~FilterAdd(p) \/ i # r.iface) /\ (Cleaned(p, i)' => Cleaned(p, i))
  BY <1>0, <1>1, <1>2, <1>3
<1>4. CASE FilterAdd(p) /\ i = r.iface
  <2>1. Cleaned(p, i)  BY <1>0, <1>4 DEF Cleaned, FilterAdd
  <2>2. ~Cleaned(p, i)'
    BY <1>0, <1>4, FilterAddEffect DEF Cleaned, RolledBack
  <2>3. Left(i, tagOf[p])' \subseteq L \union {Added(p)}
    BY <1>4, ActFilters DEF Left
  <2>4. \A S : S \subseteq L \union {Added(p)} => IsFiniteSet(S) /\ Cardinality(S) <= n + 1
    <3> HIDE DEF L
    <3>1. /\ IsFiniteSet(L \union {Added(p)}) /\ Cardinality(L \union {Added(p)}) \in Nat
          /\ Cardinality(L \union {Added(p)}) <= n + 1
      <4>1. ASSUME NEW a
            PROVE  IsFiniteSet(L \union {a}) /\ Cardinality(L \union {a}) \in {n, n + 1}
        BY <1>0, FS_AddElement
      <4>2. IsFiniteSet(L \union {Added(p)}) /\ Cardinality(L \union {Added(p)}) \in {n, n + 1}
        BY <4>1, Zenon
      <4> HIDE DEF n
      <4> QED  BY <1>0, <4>2
    <3> QED  BY <1>0, <3>1, FS_Subset, FS_CardinalityType
  <2>5. IsFiniteSet(Left(i, tagOf[p])') /\ Cardinality(Left(i, tagOf[p])') <= n + 1
    BY <2>3, <2>4
  <2>6. Cardinality(Left(i, tagOf[p])') \in Nat  BY <2>5, FS_CardinalityType
  <2> QED  BY <1>0, <2>1, <2>2, <2>5, <2>6
<1>5. CASE ~FilterAdd(p) /\ Cleaned(p, i)' /\ ~Cleaned(p, i)
  <2>0. Left(i, tagOf[p])' \subseteq L  BY <1>2, <1>5
  <2>1. ASSUME Left(i, tagOf[p])' = {} PROVE Cardinality(Left(i, tagOf[p])') <= faults'
    <3> DEFINE M == Left(i, tagOf[p])'
    <3>1. M = {}  BY <2>1
    <3> HIDE DEF M
    <3>2. Cardinality(M) = 0  BY <3>1, FS_EmptySet
    <3> QED  BY <1>0, <3>2 DEF M
  <2>2. CASE CleanupFault(p)
    <3>1. faults' = faults + 1  BY <2>2, CleanupFaultEffect
    <3> QED  BY <1>0, <1>1, <2>0, <3>1
  <2>3. CASE CleanupList(p) \/ CleanupDelete(p)
    <3>1. r.pc \in {"list", "delete"} /\ Active(p)
      BY <2>3 DEF CleanupList, CleanupDelete, Active
    <3>2. i = r.iface /\ CleanedUp(r, q)
      <4>1. CASE CleanedUp(r, q)  BY <1>0, <1>5, <3>1, <4>1, OneMoreCleaned
      <4>2. CASE ~CleanedUp(r, q)
        <5>1. q.pc = "delete" /\ q.iface = r.iface
          BY <2>3, <4>2, CleanupListEffect, CleanupDeleteEffect
        <5> QED  BY <1>5, <3>1, <5>1 DEF Cleaned
      <4> QED  BY <4>1, <4>2
    <3>3. CASE Stale(p, i) = {}
      <4>1. Left(i, tagOf[p])' = {}  BY <2>0, <3>3, LeftIsStale
      <4> QED  BY <1>0, <1>1, <2>0, <2>1, <4>1
    <3>4. CASE CleanupDelete(p) /\ Stale(p, i) # {}
      <4>1. SameDevice(r) /\ r.todo = {f.handle : f \in Stale(p, i)} /\ r.pc = "delete"
        BY <3>1, <3>2, <3>4 DEF SoleOf, CleanupDelete
      <4>2. \A h \in r.todo : h \in Used(i)  BY <4>1 DEF Stale, Used
      <4>3. PICK h \in r.todo : Deletes(r.iface, h) /\ r.todo = {h}
        <5>1. q.pc # "delete"  BY <3>2 DEF CleanedUp
        <5> QED  BY <3>2, <3>4, <4>1, <4>2, <5>1, CleanupDeleteEffect
      <4>4. filters'[i] = {f \in filters[i] : f.handle # h}
        BY <3>2, <4>3 DEF Deletes, TypeOK
      <4>5. \A f \in Stale(p, i) : f.handle = h  BY <4>1, <4>3
      <4>6. \A f \in Left(i, tagOf[p])' : f \in filters'[i] /\ f \in Stale(p, i)
        BY <2>0, LeftIsStale DEF Left
      <4>7. Left(i, tagOf[p])' = {}  BY <4>4, <4>5, <4>6
      <4> QED  BY <1>0, <1>1, <2>0, <2>1, <4>7
    <3>5. CASE CleanupList(p) /\ Stale(p, i) # {}
      BY <3>2, <3>5, CleanupListEffect DEF CleanedUp
    <3> QED  BY <2>3, <3>3, <3>4, <3>5
  <2>4. CASE ~(CleanupFault(p) \/ CleanupList(p) \/ CleanupDelete(p))
    <3>1. CASE Start(p)
      <4>1. q.pc = "list" /\ q.iface = 1  BY <3>1, StartEffect
      <4> QED  BY <1>0, <1>5, <4>1 DEF Cleaned
    <3>2. CASE nextFilterHandle(p)
      <4>1. r.pc = "pick" /\ (q.pc = "rollback" \/ (q.pc = "add" /\ q.iface = r.iface))
        BY <3>2, PickEffect DEF nextFilterHandle, RolledBack
      <4> QED  BY <1>5, <4>1 DEF Cleaned
    <3>3. CASE ~(Start(p) \/ nextFilterHandle(p))
      <4>1. q.pc \in Closing \union {"off"}
        <5>1. CASE AttachFault(p)  BY <5>1, AttachFaultEffect DEF RolledBack, Closing
        <5>2. CASE Terminate(p)  BY <5>2, TerminateEffect DEF Closing
        <5>3. CASE CloseFilter(p)  BY <5>3, CloseFilterEffect DEF ClosedOne, CloseFilter, Closing
        <5>4. CASE CloseFault(p)  BY <5>4, CloseFaultEffect DEF ClosedOne, CloseFault, Closing
        <5>5. CASE Die(p)  BY <5>5, DieEffect
        <5> QED  BY <1>5, <2>4, <3>3, <5>1, <5>2, <5>3, <5>4, <5>5 DEF Act
      <4> QED  BY <1>5, <4>1 DEF Cleaned, Closing
    <3> QED  BY <3>1, <3>2, <3>3
  <2> QED  BY <2>2, <2>3, <2>4
<1>6. FilterAdd(p) /\ i # r.iface => (Cleaned(p, i)' => Cleaned(p, i))
  <2>1. FilterAdd(p) =>
          /\ r.pc = "add"
          /\ q.pc = "rollback" \/ (q.pc = "pick" /\ q.iface = r.iface + 1) \/ q.pc = "run"
    BY FilterAddEffect DEF RolledBack, FilterAdd
  <2> QED  BY <1>0, <2>1 DEF Cleaned
<1> QED  BY <1>3, <1>4, <1>5, <1>6

LEMMA CountStep ==
  TypeOK /\ RunInv /\ SoleInv /\ CountInv /\ [Next]_vars => CountInv'
<1> SUFFICES ASSUME TypeOK, RunInv, SoleInv, CountInv, [Next]_vars, NEW x \in Instances
             PROVE  CountOf(x)'
  BY DEF CountInv
<1>0. \A y \in Instances : SoleOf(y) /\ CountOf(y)  BY DEF SoleInv, CountInv
<1>1. CASE UNCHANGED vars  BY <1>0, <1>1 DEF vars, others, CountOf, Left, Cleaned
<1>2. ASSUME NEW j \in Ifaces, Event(j) PROVE CountOf(x)'  BY <1>0, <1>2, CountEvent
<1>3. ASSUME NEW p \in Instances, Act(p) PROVE CountOf(x)'
  <2>2. \A i \in Ifaces : /\ IsFiniteSet(Left(i, tagOf[p])')
                          /\ Cardinality(Left(i, tagOf[p])') <= 1 + faults'
                          /\ Cleaned(p, i)' => Cardinality(Left(i, tagOf[p])') <= faults'
    BY <1>0, <1>3, CountAct
  <2>3. CASE x = p  BY <2>2, <2>3 DEF CountOf
  <2>4. CASE tagOf[x] # tagOf[p]  BY <1>0, <1>3, <2>4, CountBystander
  <2>5. CASE x # p /\ tagOf[x] = tagOf[p]
    <3>1. proc'[x] = proc[x]  BY <1>3, <2>5, Bystander
    <3>2. \A i \in Ifaces : Cleaned(x, i)' => Active(x) /\ Cleaned(x, i)
      BY <3>1 DEF Cleaned, Active
    <3>3. \A i \in Ifaces : Active(x) => Left(i, tagOf[x])' = Left(i, tagOf[x])
      BY <1>3, <2>5, BystanderStale
    <3>4. \A i \in Ifaces : Cleaned(x, i)' => Cardinality(Left(i, tagOf[x])') <= faults
      BY <1>0, <3>2, <3>3 DEF CountOf
    <3>5. faults \in Nat /\ faults' \in Nat /\ faults <= faults'
      BY <1>3, ActCounters DEF TypeOK
    <3>6. \A i \in Ifaces : Cardinality(Left(i, tagOf[x])') \in Nat
      <4> SUFFICES ASSUME NEW i \in Ifaces PROVE Cardinality(Left(i, tagOf[x])') \in Nat  OBVIOUS
      <4>1. IsFiniteSet(Left(i, tagOf[x])')  BY <2>2, <2>5
      <4> QED  BY <4>1, FS_CardinalityType
    <3> QED  BY <2>2, <2>5, <3>4, <3>5, <3>6 DEF CountOf
  <2> QED  BY <2>3, <2>4, <2>5
<1> QED  BY <1>1, <1>2, <1>3, StepCases

LEMMA SoleInit == Init => SoleAttachInv
<1> SUFFICES ASSUME Init PROVE SoleAttachInv  OBVIOUS
<1>1. \A p \in Instances : proc[p].pc = "off"  BY FreshType DEF Init
<1>2. SoleInv  BY <1>1 DEF Init, SoleInv, SoleOf, Active, ForeignUntouched
<1>3. CleanInv  BY <1>1 DEF CleanInv, CleanOf, Cleaned, Attached
<1>4. CountInv
  <2> SUFFICES ASSUME NEW p \in Instances, NEW i \in Ifaces
               PROVE  /\ IsFiniteSet(Left(i, tagOf[p])) /\ Cardinality(Left(i, tagOf[p])) <= 1 + faults
                      /\ ~Cleaned(p, i)
    BY DEF CountInv, CountOf
  <2>1. Left(i, tagOf[p]) = {} /\ faults = 0  BY ForeignAssumption DEF Init, Left
  <2>2. ~Cleaned(p, i)  BY <1>1 DEF Cleaned
  <2> HIDE DEF Left, Init
  <2>3. IsFiniteSet(Left(i, tagOf[p])) /\ Cardinality(Left(i, tagOf[p])) = 0
    BY <2>1, FS_EmptySet
  <2> QED  BY <2>1, <2>2, <2>3
<1> QED  BY <1>2, <1>3, <1>4 DEF SoleAttachInv

\* Where instances of one version do not overlap: what such an instance found
\* stale and what it has added stays as it knows it, and every leftover beyond
\* the first of its version is paid for by a failed request.
THEOREM SoleInvariant ==
  ASSUME ~Rivals
  PROVE  Spec => []SoleAttachInv
<1>1. TypeOK /\ AttachInv /\ SoleAttachInv /\ [Next]_vars => SoleAttachInv'
  BY SoleStep, CountStep DEF SoleAttachInv, AttachInv
<1> QED  BY <1>1, SoleInit, AttachInvariant, AttachTypeCorrect, PTL DEF Spec

\* CleanupEgress (attach.go:289), the rollback of AttachAll and every Close
\* delete no filter that the exporter did not add, however often interfaces go
\* and come back and handles are used again.
THEOREM ForeignSurvive ==
  ASSUME ~Rivals
  PROVE  Spec => []ForeignUntouched
<1>1. SoleAttachInv => ForeignUntouched  BY DEF SoleAttachInv, SoleInv
<1> QED  BY <1>1, SoleInvariant, PTL

\* An instance whose cleanup met no error runs with one filter of its program
\* on every interface that is still the device it attached to, and none on the
\* others, whatever crashes came before (main.go, CleanupEgress then AttachAll).
THEOREM RunsWithOneFilter ==
  ASSUME ~Rivals
  PROVE  Spec => []OneFilterWhileRunning
<1>1. SoleAttachInv => OneFilterWhileRunning
  BY DEF SoleAttachInv, CleanInv, CleanOf, Attached, Stale, Own, OneFilterWhileRunning
<1> QED  BY <1>1, SoleInvariant, PTL

\* Crashes and upgrades, however many, leave at most one filter of a version on
\* an interface and one more for every request that failed: the next start of
\* that version deletes what the last one left.
THEOREM LeftoversStayBounded ==
  ASSUME ~Rivals
  PROVE  Spec => []LeftoversBounded
<1>1. SoleAttachInv => LeftoversBounded
  BY DEF SoleAttachInv, CountInv, CountOf, Left, LeftoversBounded
<1> QED  BY <1>1, SoleInvariant, PTL

-----------------------------------------------------------------------------
(* TransitInterfaces: the devices that AttachAll is given *)

\* What a loop over a list takes from it.
LEMMA HeadAndTail ==
  ASSUME NEW S, NEW s \in Seq(S), s # <<>>
  PROVE  /\ Head(s) \in S /\ Tail(s) \in Seq(S)
         /\ ToSet(s) = {Head(s)} \union ToSet(Tail(s))
         /\ Distinct(s) => Distinct(Tail(s)) /\ Head(s) \notin ToSet(Tail(s))
<1>1. /\ Len(s) \in Nat \ {0} /\ DOMAIN s = 1..Len(s) /\ Head(s) = s[1] /\ s[1] \in S
      /\ Tail(s) \in Seq(S) /\ DOMAIN Tail(s) = 1..Len(s) - 1
      /\ \A i \in 1..Len(s) - 1 : Tail(s)[i] = s[i + 1]
  OBVIOUS
<1>2. \A i \in 2..Len(s) : i - 1 \in 1..Len(s) - 1 /\ (i - 1) + 1 = i
  BY <1>1
<1>3. \A i \in 2..Len(s) : s[i] = Tail(s)[i - 1]
  BY <1>1, <1>2
<1>4. \A i \in 1..Len(s) : i = 1 \/ i \in 2..Len(s)
  BY <1>1
<1>5. \A i \in 1..Len(s) - 1 : i + 1 \in 1..Len(s) /\ i + 1 # 1
  BY <1>1
<1>6. ToSet(s) = {Head(s)} \union ToSet(Tail(s))
  <2>1. ASSUME NEW x \in ToSet(s) PROVE x = Head(s) \/ x \in ToSet(Tail(s))
    <3>1. PICK i \in 1..Len(s) : x = s[i]
      BY <1>1 DEF ToSet
    <3>2. CASE i \in 2..Len(s)
      BY <1>1, <1>2, <1>3, <3>1, <3>2 DEF ToSet
    <3> QED  BY <1>1, <1>4, <3>1, <3>2
  <2>2. ASSUME NEW x \in ToSet(Tail(s)) PROVE x \in ToSet(s)
    BY <2>2, <1>1, <1>5 DEF ToSet
  <2>3. Head(s) \in ToSet(s)
    BY <1>1 DEF ToSet
  <2> QED  BY <2>1, <2>2, <2>3
<1>7. ASSUME Distinct(s) PROVE Distinct(Tail(s)) /\ Head(s) \notin ToSet(Tail(s))
  <2>1. \A i, j \in 1..Len(s) : i # j => s[i] # s[j]
    BY <1>1, <1>7 DEF Distinct
  <2>2. \A i, j \in 1..Len(s) - 1 : i # j => i + 1 # j + 1
    BY <1>1
  <2>3. \A i, j \in 1..Len(s) - 1 : i # j => Tail(s)[i] # Tail(s)[j]
    BY <1>1, <1>5, <2>1, <2>2
  <2>4. \A i \in 1..Len(s) - 1 : Tail(s)[i] # s[1]
    BY <1>1, <1>5, <2>1
  <2> QED  BY <1>1, <2>3, <2>4 DEF Distinct, ToSet
<1> QED  BY <1>1, <1>6, <1>7

\* What append makes of a list of names.
LEMMA Appended ==
  ASSUME NEW S, NEW s \in Seq(S), NEW d \in S
  PROVE  /\ Append(s, d) \in Seq(S)
         /\ ToSet(Append(s, d)) = ToSet(s) \union {d}
         /\ Distinct(s) /\ d \notin ToSet(s) => Distinct(Append(s, d))
<1>1. /\ Len(s) \in Nat /\ DOMAIN s = 1..Len(s) /\ Append(s, d) \in Seq(S)
      /\ DOMAIN Append(s, d) = 1..Len(s) + 1
      /\ \A i \in 1..Len(s) : Append(s, d)[i] = s[i]
      /\ Append(s, d)[Len(s) + 1] = d
  OBVIOUS
<1>2. \A i \in 1..Len(s) + 1 : i \in 1..Len(s) \/ i = Len(s) + 1
  BY <1>1
<1>3. Len(s) + 1 \in 1..Len(s) + 1 /\ \A i \in 1..Len(s) : i \in 1..Len(s) + 1
  BY <1>1
<1>4. ToSet(Append(s, d)) = ToSet(s) \union {d}
  BY <1>1, <1>2, <1>3 DEF ToSet
<1>5. ASSUME Distinct(s), d \notin ToSet(s) PROVE Distinct(Append(s, d))
  BY <1>1, <1>2, <1>3, <1>5 DEF ToSet, Distinct
<1> QED  BY <1>1, <1>4, <1>5

\* A list of the elements of a finite set, in any order.
LEMMA Listed ==
  ASSUME NEW S, IsFiniteSet(S), NEW s \in SetToSeqs(S)
  PROVE  s \in Seq(S) /\ ToSet(s) = S /\ Distinct(s) /\ Len(s) = Cardinality(S)
<1> DEFINE n == Cardinality(S)
<1>1. n \in Nat
  BY FS_CardinalityType
<1>2. s \in [1..n -> S] /\ \A i, j \in 1..n : i # j => s[i] # s[j]
  BY DEF SetToSeqs
<1> HIDE DEF n
<1>3. s \in Seq(S) /\ Len(s) = n /\ DOMAIN s = 1..n /\ Distinct(s)
  BY <1>1, <1>2 DEF Distinct
<1>4. ToSet(s) \subseteq S
  BY <1>2, <1>3 DEF ToSet
<1>5. ASSUME NEW x \in S, x \notin ToSet(s) PROVE FALSE
  <2>1. s \in [1..n -> S \ {x}]
    BY <1>2, <1>3, <1>5 DEF ToSet
  <2>2. IsFiniteSet(S \ {x}) /\ Cardinality(S \ {x}) = n - 1
    BY FS_RemoveElement DEF n
  <2>3. IsFiniteSet(1..n) /\ Cardinality(1..n) = n
    BY <1>1, FS_Interval, SMT
  <2>4. Cardinality(S \ {x}) < Cardinality(1..n)
    BY <1>1, <2>2, <2>3
  <2>5. \E i, j \in 1..n : i # j /\ s[i] = s[j]
    BY <2>1, <2>2, <2>3, <2>4, FS_PigeonHole
  <2> QED  BY <1>2, <2>5
<1> QED  BY <1>3, <1>4, <1>5 DEF n

\* sort.Strings neither loses nor repeats a name.
LEMMA SortKeeps ==
  ASSUME NEW S, NEW s \in Seq(S), NEW t \in Sorted(s)
  PROVE  /\ t \in Seq(S) /\ ToSet(t) = ToSet(s) /\ Len(t) = Len(s)
         /\ Distinct(s) => Distinct(t)
<1> DEFINE n == Len(s)
<1>1. PICK p \in SetToSeqs(DOMAIN s) : t = [i \in DOMAIN s |-> s[p[i]]]
  BY DEF Sorted, Rearranged
<1>2. n \in Nat /\ DOMAIN s = 1..n /\ \A i \in 1..n : s[i] \in S
  OBVIOUS
<1> HIDE DEF n
<1>3. IsFiniteSet(1..n) /\ Cardinality(1..n) = n
  BY <1>2, FS_Interval, SMT
<1>4. p \in Seq(1..n) /\ ToSet(p) = 1..n /\ Distinct(p) /\ Len(p) = n
  BY <1>1, <1>2, <1>3, Listed
<1>5. DOMAIN p = 1..n /\ \A i \in 1..n : p[i] \in 1..n
  BY <1>2, <1>4
<1>6. DOMAIN t = 1..n /\ \A i \in 1..n : t[i] = s[p[i]] /\ t[i] \in S
  BY <1>1, <1>2, <1>5
<1>7. t \in Seq(S) /\ Len(t) = n
  <2>1. t = [i \in 1..n |-> t[i]]
    BY <1>1, <1>2, <1>6
  <2> QED  BY <1>2, <1>6, <2>1
<1>8. ToSet(t) = ToSet(s)
  BY <1>2, <1>4, <1>5, <1>6 DEF ToSet
<1>9. Distinct(s) => Distinct(t)
  BY <1>2, <1>4, <1>5, <1>6 DEF Distinct
<1> QED  BY <1>7, <1>8, <1>9 DEF n

LEMMA SearchInit == TransitInit => SearchInv
<1> SUFFICES ASSUME TransitInit PROVE SearchInv
  OBVIOUS
<1>1. TransitTypeOK
  <2>1. MaxChanges \in Nat /\ 0 \in 0..MaxChanges
    BY InterfacesAssumption
  <2> QED  BY <2>1 DEF TransitInit, TransitTypeOK
<1>2. HistoryInv
  BY DEF TransitInit, HistoryInv
<1>3. OneFilterPerDevice
  BY DEF TransitInit, OneFilterPerDevice, Distinct
<1> QED  BY <1>1, <1>2, <1>3
         DEF TransitInit, SearchInv, ResolveInv, DiscoverInv, AllConfiguredAttached, DiscoveryIsComplete

\* Whatever happens to the devices, always shrinks and ever grows.
LEMMA ChangeKeeps == SearchInv /\ Change => SearchInv'
<1> SUFFICES ASSUME SearchInv, Change PROVE SearchInv'
  OBVIOUS
<1>1. /\ interfaces' = interfaces /\ pc' = pc /\ todo' = todo /\ out' = out
      /\ changes < MaxChanges /\ changes' = changes + 1
      /\ ever' = ever \union Eligible(up', present')
      /\ always' = always \intersect Eligible(up', present')
  BY DEF Change, search
<1>2. present' \subseteq Devices /\ up' \subseteq present'
  BY DEF Change, SearchInv, TransitTypeOK
<1>3. TransitTypeOK'
  <2>1. MaxChanges \in Nat /\ changes \in 0..MaxChanges
    BY InterfacesAssumption DEF SearchInv, TransitTypeOK
  <2>2. changes' \in 0..MaxChanges
    BY <1>1, <2>1
  <2> QED  BY <1>1, <1>2, <2>2 DEF SearchInv, TransitTypeOK
<1>4. HistoryInv'
  BY <1>1 DEF HistoryInv
<1>5. OneFilterPerDevice'
  BY <1>1 DEF SearchInv, OneFilterPerDevice, Distinct
<1>6. ResolveInv'
  BY <1>1 DEF SearchInv, ResolveInv, ToSet
<1>7. DiscoverInv'
  <2> SUFFICES ASSUME pc = "discover" PROVE DiscoverInv'
    BY <1>1 DEF DiscoverInv
  <2>1. DiscoverInv
    BY DEF SearchInv
  <2>2. Distinct(todo)' /\ ToSet(out)' = ToSet(out) /\ ToSet(todo)' = ToSet(todo)
    BY <1>1, <2>1 DEF DiscoverInv, Distinct, ToSet
  <2>3. always' \subseteq always /\ ever \subseteq ever'
    BY <1>1
  <2> QED  BY <1>1, <2>1, <2>2, <2>3 DEF DiscoverInv, ShouldIgnore
<1>8. AllConfiguredAttached' /\ DiscoveryIsComplete'
  BY <1>1 DEF SearchInv, AllConfiguredAttached, DiscoveryIsComplete, ToSet
<1> QED  BY <1>1, <1>3, <1>4, <1>5, <1>6, <1>7, <1>8 DEF SearchInv

\* main leaves the devices alone: what a step of the search has to keep.
LEMMA SearchStep ==
  ASSUME SearchInv, UNCHANGED <<system, interfaces>>,
         pc' \in {"resolve", "discover", "failed", "running"},
         out' \in Seq(Devices), Distinct(out'),
         ResolveInv', DiscoverInv', AllConfiguredAttached', DiscoveryIsComplete'
  PROVE  SearchInv'
<1>1. /\ up' = up /\ present' = present /\ changes' = changes /\ ever' = ever /\ always' = always
      /\ interfaces' = interfaces
  BY DEF system
<1>2. TransitTypeOK' /\ HistoryInv'
  BY <1>1 DEF SearchInv, TransitTypeOK, HistoryInv, Eligible, ShouldIgnore
<1>3. OneFilterPerDevice'
  BY DEF OneFilterPerDevice, Distinct
<1> QED  BY <1>2, <1>3 DEF SearchInv

LEMMA NamesKeep == SearchInv /\ TransitInterfaceNames => SearchInv'
<1> SUFFICES ASSUME SearchInv, TransitInterfaceNames PROVE SearchInv'
  OBVIOUS
<1>1. /\ UNCHANGED <<system, interfaces>> /\ out = <<>> /\ out' = <<>> /\ pc = "start"
      /\ out' \in Seq(Devices) /\ Distinct(out') /\ ToSet(out) = {} /\ ToSet(out)' = {}
  BY DEF TransitInterfaceNames, SearchInv, Distinct, ToSet
<1>2. interfaces \in Seq(Devices \union {0})
  BY InterfacesAssumption DEF SearchInv, TransitTypeOK
<1>3. /\ up' = up /\ present' = present /\ ever' = ever /\ always' = always /\ interfaces' = interfaces
  BY <1>1 DEF system
<1>4. CASE interfaces # <<>>
  <2>1. pc' = "resolve" /\ todo' = interfaces
    BY <1>4 DEF TransitInterfaceNames
  <2>2. ResolveInv'
    BY <1>1, <1>2, <1>3, <1>4, <2>1 DEF ResolveInv, ToSet
  <2> QED  BY <1>1, <2>1, <2>2, SearchStep
           DEF DiscoverInv, AllConfiguredAttached, DiscoveryIsComplete
<1>5. CASE interfaces = <<>>
  <2> DEFINE listed == {d \in up : kind[d] # "loopback"}
  <2>1. pc' = "discover" /\ todo' \in SetToSeqs(listed)
    BY <1>5 DEF TransitInterfaceNames
  <2>2. listed \subseteq Devices /\ up \subseteq present
    BY DEF SearchInv, TransitTypeOK
  <2>3. IsFiniteSet(listed)
    BY <2>2, FS_Subset, InterfacesAssumption
  <2>4. todo' \in Seq(listed) /\ ToSet(todo') = listed /\ Distinct(todo')
    BY <2>1, <2>3, Listed
  <2>5. todo' \in Seq(Devices) /\ ToSet(todo)' = listed /\ Distinct(todo)'
    <3>1. \A T : listed \subseteq T => Seq(listed) \subseteq Seq(T)
      OBVIOUS
    <3> QED  BY <2>2, <2>4, <3>1 DEF ToSet, Distinct
  <2>6. always \subseteq Eligible(up, present) /\ Eligible(up, present) \subseteq ever
    BY DEF SearchInv, HistoryInv
  <2>7. Eligible(up, present) \subseteq listed
    BY DEF Eligible
  <2>8. \A d \in listed : kind[d] \in {"wireguard", "ethernet"} /\ ~ShouldIgnore(d) => d \in ever
    BY <2>2, <2>6 DEF Eligible
  <2>9. DiscoverInv'
    BY <1>1, <1>3, <1>5, <2>1, <2>5, <2>6, <2>7, <2>8 DEF DiscoverInv, ShouldIgnore
  <2> QED  BY <1>1, <2>1, <2>9, SearchStep
           DEF ResolveInv, AllConfiguredAttached, DiscoveryIsComplete
<1> QED  BY <1>4, <1>5

LEMMA ListFailsKeeps == SearchInv /\ ListFails => SearchInv'
<1> SUFFICES ASSUME SearchInv, ListFails PROVE SearchInv'
  OBVIOUS
<1>1. /\ pc' = "failed" /\ out' = <<>> /\ interfaces' = interfaces
      /\ up' = up /\ present' = present /\ changes' = changes /\ ever' = ever /\ always' = always
  BY DEF ListFails, Goes, system
<1>2. TransitTypeOK' /\ HistoryInv' /\ OneFilterPerDevice'
  BY <1>1 DEF SearchInv, TransitTypeOK, HistoryInv, Eligible, ShouldIgnore, OneFilterPerDevice, Distinct
<1> QED  BY <1>1, <1>2 DEF SearchInv, ResolveInv, DiscoverInv, AllConfiguredAttached, DiscoveryIsComplete

LEMMA ResolveKeeps == SearchInv /\ ResolveName => SearchInv'
<1> SUFFICES ASSUME SearchInv, ResolveName PROVE SearchInv'
  OBVIOUS
<1> DEFINE d == Head(todo)
<1>1. pc = "resolve" /\ todo # <<>> /\ UNCHANGED <<system, interfaces>>
  BY DEF ResolveName
<1>2. /\ todo \in Seq(Devices \union {0}) /\ interfaces # <<>>
      /\ ToSet(interfaces) \ {0} = ToSet(out) \union (ToSet(todo) \ {0})
      /\ out \in Seq(Devices) /\ Distinct(out) /\ 0 \notin Devices
      /\ up \subseteq Devices
  BY <1>1, InterfacesAssumption DEF SearchInv, ResolveInv, TransitTypeOK, OneFilterPerDevice
<1>3. /\ d \in Devices \union {0} /\ Tail(todo) \in Seq(Devices \union {0})
      /\ ToSet(todo) = {d} \union ToSet(Tail(todo))
  BY <1>1, <1>2, HeadAndTail
<1>4. interfaces' = interfaces
  BY <1>1
<1> HIDE DEF d
<1>5. CASE (d = 0 \/ ~New(d)) /\ Goes("resolve", Tail(todo), out)
  <2>1. pc' = "resolve" /\ todo' = Tail(todo) /\ out' = out
    BY <1>5 DEF Goes
  <2>2. d \in ToSet(out) \union {0}
    BY <1>5 DEF New
  <2>3. ResolveInv'
    <3>1. ToSet(out) \union (ToSet(Tail(todo)) \ {0}) = ToSet(out) \union (ToSet(todo) \ {0})
      BY <1>3, <2>2
    <3>2. ToSet(out)' = ToSet(out) /\ ToSet(todo)' = ToSet(Tail(todo))
          /\ ToSet(interfaces)' = ToSet(interfaces)
      BY <1>4, <2>1 DEF ToSet
    <3> QED  BY <1>2, <1>3, <1>4, <2>1, <3>1, <3>2 DEF ResolveInv
  <2> QED  BY <1>1, <1>2, <2>1, <2>3, SearchStep
           DEF DiscoverInv, AllConfiguredAttached, DiscoveryIsComplete
<1>6. CASE d # 0 /\ FailIfDown(d)
  <2>1. pc' = "failed" /\ out' = <<>> /\ out' \in Seq(Devices) /\ Distinct(out')
    BY <1>6 DEF FailIfDown, Goes, Distinct
  <2> QED  BY <1>1, <2>1, SearchStep
           DEF ResolveInv, DiscoverInv, AllConfiguredAttached, DiscoveryIsComplete
<1>7. CASE d # 0 /\ New(d) /\ d \in up /\ Goes("resolve", Tail(todo), Append(out, d))
  <2>1. pc' = "resolve" /\ todo' = Tail(todo) /\ out' = Append(out, d)
    BY <1>7 DEF Goes
  <2>2. d \in Devices /\ d \notin ToSet(out)
    BY <1>2, <1>7 DEF New
  <2>3. out' \in Seq(Devices) /\ ToSet(out') = ToSet(out) \union {d} /\ Distinct(out')
    BY <1>2, <2>1, <2>2, Appended
  <2>4. ResolveInv'
    <3>1. ToSet(out') \union (ToSet(todo') \ {0}) = ToSet(out) \union (ToSet(todo) \ {0})
      BY <1>3, <1>7, <2>1, <2>3
    <3>2. ToSet(out)' = ToSet(out') /\ ToSet(todo)' = ToSet(todo')
          /\ ToSet(interfaces)' = ToSet(interfaces)
      BY <1>4 DEF ToSet
    <3> QED  BY <1>2, <1>3, <1>4, <2>1, <3>1, <3>2 DEF ResolveInv
  <2> QED  BY <1>1, <2>1, <2>3, <2>4, SearchStep
           DEF DiscoverInv, AllConfiguredAttached, DiscoveryIsComplete
<1> QED  BY <1>5, <1>6, <1>7 DEF ResolveName, d

LEMMA DiscoverKeeps == SearchInv /\ DiscoverOne => SearchInv'
<1> SUFFICES ASSUME SearchInv, DiscoverOne PROVE SearchInv'
  OBVIOUS
<1> DEFINE d == Head(todo)
           chosen == ~ShouldIgnore(d) /\ (isWireguard(d) \/ isEthernet(d))
<1>1. pc = "discover" /\ todo # <<>> /\ UNCHANGED <<system, interfaces>>
  BY DEF DiscoverOne
<1>2. /\ todo \in Seq(Devices) /\ Distinct(todo) /\ interfaces = <<>>
      /\ ToSet(out) \intersect ToSet(todo) = {}
      /\ always \subseteq ToSet(out) \union ToSet(todo) /\ ToSet(out) \subseteq ever
      /\ \A e \in ToSet(todo) :
           kind[e] \in {"wireguard", "ethernet"} /\ ~ShouldIgnore(e) => e \in ever
      /\ out \in Seq(Devices) /\ Distinct(out) /\ always \subseteq Eligible(up, present)
  BY <1>1 DEF SearchInv, DiscoverInv, TransitTypeOK, OneFilterPerDevice, HistoryInv
<1>3. /\ d \in Devices /\ Tail(todo) \in Seq(Devices)
      /\ ToSet(todo) = {d} \union ToSet(Tail(todo))
      /\ Distinct(Tail(todo)) /\ d \notin ToSet(Tail(todo))
  BY <1>1, <1>2, HeadAndTail
<1>4. /\ interfaces' = interfaces /\ ever' = ever /\ always' = always
  BY <1>1 DEF system
<1>5. /\ pc' = "discover" /\ todo' = Tail(todo)
      /\ \/ chosen /\ out' = Append(out, d)
         \/ ~chosen /\ out' = out
  BY DEF DiscoverOne, OtherKind, Goes
<1>6. /\ chosen => kind[d] \in {"wireguard", "ethernet"} /\ ~ShouldIgnore(d)
      /\ d \in always => chosen
  BY <1>2 DEF isWireguard, isEthernet, Eligible
<1> HIDE DEF d, chosen
<1>7. ToSet(out)' = ToSet(out') /\ ToSet(todo)' = ToSet(Tail(todo))
      /\ Distinct(todo)'
  BY <1>3, <1>5 DEF ToSet, Distinct
<1>8. CASE chosen /\ out' = Append(out, d)
  <2>1. d \notin ToSet(out)
    BY <1>2, <1>3
  <2>2. out' \in Seq(Devices) /\ ToSet(out') = ToSet(out) \union {d} /\ Distinct(out')
    BY <1>2, <1>3, <1>8, <2>1, Appended
  <2>3. d \in ever
    BY <1>2, <1>3, <1>6, <1>8
  <2>4. DiscoverInv'
    BY <1>2, <1>3, <1>4, <1>5, <1>7, <2>1, <2>2, <2>3 DEF DiscoverInv, ShouldIgnore
  <2> QED  BY <1>1, <1>5, <2>2, <2>4, SearchStep
           DEF ResolveInv, AllConfiguredAttached, DiscoveryIsComplete
<1>9. CASE ~chosen /\ out' = out
  <2>1. DiscoverInv'
    BY <1>2, <1>3, <1>4, <1>5, <1>6, <1>7, <1>9 DEF DiscoverInv, ShouldIgnore
  <2> QED  BY <1>1, <1>2, <1>5, <1>9, <2>1, SearchStep
           DEF ResolveInv, AllConfiguredAttached, DiscoveryIsComplete
<1> QED  BY <1>5, <1>8, <1>9

LEMMA AttachKeeps == SearchInv /\ AttachAll => SearchInv'
<1> SUFFICES ASSUME SearchInv, AttachAll PROVE SearchInv'
  OBVIOUS
<1>1. /\ pc \in {"resolve", "discover"} /\ todo = <<>> /\ UNCHANGED <<system, interfaces>>
      /\ \/ Goes("failed", <<>>, <<>>)
         \/ ~NothingFound /\ \E names \in Sorted(out) : Goes("running", <<>>, names)
  BY DEF AttachAll
<1>2. out \in Seq(Devices) /\ Distinct(out)
  BY DEF SearchInv, TransitTypeOK, OneFilterPerDevice
<1>3. interfaces' = interfaces /\ ever' = ever /\ always' = always
  BY <1>1 DEF system
<1>4. CASE Goes("failed", <<>>, <<>>)
  <2>1. pc' = "failed" /\ out' = <<>> /\ out' \in Seq(Devices) /\ Distinct(out')
    BY <1>4 DEF Goes, Distinct
  <2> QED  BY <1>1, <2>1, SearchStep
           DEF ResolveInv, DiscoverInv, AllConfiguredAttached, DiscoveryIsComplete
<1>5. ASSUME ~NothingFound, NEW names \in Sorted(out), Goes("running", <<>>, names)
      PROVE  SearchInv'
  <2>1. pc' = "running" /\ out' = names /\ out # <<>>
    BY <1>5 DEF Goes, NothingFound
  <2>2. /\ names \in Seq(Devices) /\ ToSet(names) = ToSet(out) /\ Len(names) = Len(out)
        /\ Distinct(names)
    BY <1>2, SortKeeps
  <2>3. names # <<>>
    BY <1>2, <2>1, <2>2
  <2>4. ToSet(todo) = {}
    BY <1>1 DEF ToSet
  <2>5. /\ interfaces # <<>> => ToSet(out) = ToSet(interfaces) \ {0}
        /\ interfaces = <<>> => always \subseteq ToSet(out) /\ ToSet(out) \subseteq ever
    BY <1>1, <2>4 DEF SearchInv, ResolveInv, DiscoverInv
  <2>6. ToSet(out)' = ToSet(out) /\ ToSet(interfaces)' = ToSet(interfaces)
    BY <1>3, <2>1, <2>2 DEF ToSet
  <2>7. AllConfiguredAttached' /\ DiscoveryIsComplete'
    BY <1>3, <2>1, <2>3, <2>5, <2>6 DEF AllConfiguredAttached, DiscoveryIsComplete
  <2> QED  BY <1>1, <2>1, <2>2, <2>7, SearchStep DEF ResolveInv, DiscoverInv
<1> QED  BY <1>1, <1>4, <1>5

\* TransitInterfaceNames, whatever happens to the devices meanwhile: the
\* invariant above, for any devices, patterns and lists of names.
THEOREM SearchInvariant == TransitSpec => []SearchInv
<1>1. TransitInit => SearchInv
  BY SearchInit
<1>2. SearchInv /\ [TransitNext]_transitVars => SearchInv'
  <2> SUFFICES ASSUME SearchInv, [TransitNext]_transitVars PROVE SearchInv'
    OBVIOUS
  <2>1. CASE UNCHANGED transitVars
    <3>1. /\ up' = up /\ present' = present /\ changes' = changes /\ ever' = ever
          /\ always' = always /\ interfaces' = interfaces /\ pc' = pc /\ todo' = todo /\ out' = out
      BY <2>1 DEF transitVars, system, search
    <3>2. TransitTypeOK' /\ HistoryInv'
      BY <3>1 DEF SearchInv, TransitTypeOK, HistoryInv, Eligible, ShouldIgnore
    <3>3. OneFilterPerDevice' /\ AllConfiguredAttached' /\ DiscoveryIsComplete'
      BY <3>1 DEF SearchInv, OneFilterPerDevice, Distinct, AllConfiguredAttached,
         DiscoveryIsComplete, ToSet
    <3>4. ResolveInv'
      BY <3>1 DEF SearchInv, ResolveInv, ToSet
    <3>5. DiscoverInv'
      BY <3>1 DEF SearchInv, DiscoverInv, Distinct, ToSet, ShouldIgnore
    <3> QED  BY <3>1, <3>2, <3>3, <3>4, <3>5 DEF SearchInv
  <2> QED  BY <2>1, ChangeKeeps, NamesKeep, ListFailsKeeps, ResolveKeeps, DiscoverKeeps, AttachKeeps DEF TransitNext
<1> QED  BY <1>1, <1>2, PTL DEF TransitSpec

\* resolveInterfaceNames and DiscoverTransitInterfaces: no device is attached twice.
THEOREM NoDeviceTwice == TransitSpec => []OneFilterPerDevice
<1>1. SearchInv => OneFilterPerDevice  BY DEF SearchInv
<1> QED  BY <1>1, SearchInvariant, PTL

\* resolveInterfaceNames: a running exporter is attached to all configured
\* devices and to no other.
THEOREM ConfiguredAreAttached == TransitSpec => []AllConfiguredAttached
<1>1. SearchInv => AllConfiguredAttached  BY DEF SearchInv
<1> QED  BY <1>1, SearchInvariant, PTL

\* DiscoverTransitInterfaces: a running exporter is attached to every device
\* that was eligible throughout and to none that never was.
THEOREM DiscoveryMissesNone == TransitSpec => []DiscoveryIsComplete
<1>1. SearchInv => DiscoveryIsComplete  BY DEF SearchInv
<1> QED  BY <1>1, SearchInvariant, PTL
=============================================================================
