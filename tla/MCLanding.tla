----------------------------- MODULE MCLanding -----------------------------
(***************************************************************************)
(* Landing with one issue, its holder ada, and the coordinator bob.        *)
(***************************************************************************)
EXTENDS Landing, TLC

CONSTANTS R1, R2, R3, k1, id1, id2, ada, bob, feature, elsewhere

LandBy(who) == [kind |-> "land", who |-> who, override |-> who = bob, inside |-> FALSE]
ReleaseBy(who) == [kind |-> "release", who |-> who, override |-> FALSE, inside |-> TRUE]

\* bob lands twice; ada releases from inside her worktree.
MCCommandOf == R1 :> LandBy(bob) @@ R2 :> LandBy(bob) @@ R3 :> ReleaseBy(ada)

\* The second landing reruns the first; or the two overlap; or ada's release
\* overlaps one.  A run that waits for itself is not started.
MCOrders ==
  {R1 :> {} @@ R2 :> {R1} @@ R3 :> {R3},
   R1 :> {} @@ R2 :> {} @@ R3 :> {R3},
   R1 :> {} @@ R2 :> {R2} @@ R3 :> {}}

\* Two landings at once are tried with the pushed branch as the lane's upstream.
MCInit == Init /\ (after[R2] = {} => lane.upstream = "lane")

MCSpec == MCInit /\ [][Next]_vars

\* ada comes back to the issue on another branch.
ComeBack ==
  [kind |-> "claim", id |-> id2, key |-> k1, who |-> ada, branch |-> elsewhere,
   scope |-> {}, resource |-> NoResource, value |-> 0]
=============================================================================
