------------------------------ MODULE MCTcAttach ------------------------------
(* Two interfaces, two installed versions of the exporter, three handles of  *)
(* which other programs hold one on each interface: one under the exporter's *)
(* name, one with the bytecode of version b.                                 *)
EXTENDS TcAttach, TLC

MCTags == "a" :> "t1" @@ "b" :> "t2"
SameTags == "a" :> "t1" @@ "b" :> "t1"
MCForeign ==
  1 :> {[handle |-> 1, owner |-> 0, named |-> TRUE, tag |-> "t3"]} @@
  2 :> {[handle |-> 2, owner |-> 0, named |-> FALSE, tag |-> "t2"]}
=============================================================================
