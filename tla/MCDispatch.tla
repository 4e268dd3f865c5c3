----------------------------- MODULE MCDispatch -----------------------------
(* Small worlds for Dispatch. *)
EXTENDS Dispatch, TLC

MCLabels == <<"security", "data", "ci", "product">>

MCBody == [valid |-> TRUE, rest |-> "all", next |-> "one step", frozen |-> FALSE,
           scope |-> {"a"}, size |-> "S", ruling |-> Nothing, slices |-> <<>>, title |-> "t"]

Task(labels, parent, blockedBy, scope) ==
  [kind |-> "task", labels |-> labels, state |-> "open", parent |-> parent,
   blockedBy |-> blockedBy, body |-> [MCBody EXCEPT !.scope = scope]]

Bug(scope) == [Task({}, Nothing, {}, scope) EXCEPT !.kind = "bug"]

Container(next, slices) ==
  [kind |-> "container", labels |-> {}, state |-> "open", parent |-> Nothing, blockedBy |-> {},
   body |-> [MCBody EXCEPT !.next = next, !.slices = slices, !.scope = Nothing]]

SliceRow(title, scope) == [title |-> title, scope |-> scope]

\* Two children that may land together.
World1 ==
  (1 :> Container("", <<>>)) @@ (2 :> Task({"product"}, 1, {}, {"a"}))
    @@ (3 :> Task({}, 1, {}, {"b"}))

\* Nothing cut yet; a bug without a scope, and an item it blocks.
World2 ==
  (1 :> Container("nothing left", <<SliceRow("r", {"c"}), SliceRow("s", {"d"})>>))
    @@ (2 :> Bug(Nothing)) @@ (3 :> Task({"ci"}, Nothing, {2}, {"c"}))

\* Three tasks, of which the two most urgent overlap.
World3 ==
  (1 :> Task({"data"}, Nothing, {}, {"a"})) @@ (2 :> Task({"product"}, Nothing, {}, {"a", "b"}))
    @@ (3 :> Task({}, Nothing, {}, {"c"}))

MCWorlds == {World1, World2, World3}

\* A container under a container, with a row of its own: next proposes the cut
\* that cut refuses (EveryCutIsAccepted), for ever.
NestedWorld ==
  (1 :> Container("several steps", <<>>))
    @@ (2 :> [Container("several steps", <<SliceRow("r", {"c"})>>) EXCEPT !.parent = 1])
NestedWorlds == {NestedWorld}
=============================================================================
