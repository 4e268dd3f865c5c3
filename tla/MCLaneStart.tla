---------------------------- MODULE MCLaneStart ----------------------------
(***************************************************************************)
(* Two starts of one item, one after the other or at once, by two agents   *)
(* whose names begin alike and a third.                                    *)
(***************************************************************************)
EXTENDS LaneStart

CONSTANTS item1, i1, i2, i3, ada, abe, bob, p1, p2

MCKeys == {item1}
MCBranches == Prefixes \X Keys \X Slugs
MCPrefixOf == [w \in Claimants |-> IF w = bob THEN "bob" ELSE "a"]

MCCommands ==
  {[who |-> ada, key |-> item1, slug |-> NoSlug, scope |-> NoScope],
   [who |-> ada, key |-> item1, slug |-> "long", scope |-> {p1}],
   [who |-> abe, key |-> item1, slug |-> NoSlug, scope |-> {p1}],
   [who |-> bob, key |-> item1, slug |-> NoSlug, scope |-> NoScope]}

\* The second waits for the first, or neither waits.
MCOrders == {[r \in Runs |-> IF r = 2 THEN {1} ELSE {}], [r \in Runs |-> {}]}

Fit == [item1_ \in Keys |-> [open |-> TRUE, slug |-> "short", scope |-> {p1}]]
Clear == [p \in Places |-> Absent]

\* Odd items, places and branches meet one start, tried again when it has ended.
Again == command[1] = command[2] /\ after[2] = {1}

MCInit ==
  \/ Begin(Fit, Clear, {}, {})
  \/ \E items \in ItemsToBegin : Begin(items, Clear, {}, {}) /\ Again
  \/ \E p \in Places : \E s \in Strangers(p) :
       Begin(Fit, [Clear EXCEPT ![p] = s], {}, {}) /\ Again
  \/ \E b \in Branches : Begin(Fit, Clear, {b}, {}) /\ Again
  \/ \E c \in ClaimsToBegin :
       /\ c.id = i1 /\ c.who \in {ada, abe} /\ c.branch[1] = "a"
       /\ Begin(Fit, [Clear EXCEPT ![PlaceOf(c.branch)] = Worktree(c.branch)], {}, {c})

MCSpec == MCInit /\ [][Next]_vars
=============================================================================
