-------------------------- MODULE MCStateRefStore --------------------------
(***************************************************************************)
(* StateRefStore on small sets of commands, one operator per scenario.      *)
(* Every process works in a worktree of its own.                           *)
(***************************************************************************)
EXTENDS StateRefStore

CONSTANTS P1, P2, P3, P4, k1, k2, id1, id2, id3, main, p, q, r, port, item, other,
          open, edit, closed

MCClaimants == {"ada/builder", "bob/builder", "bob/coordinator"}
MCCoordinators == {"bob/coordinator"}
MCAgentOf == [c \in MCClaimants |-> IF c = "ada/builder" THEN "ada" ELSE "bob"]

ClaimCommand(key, id, who, resource, value) ==
  [kind |-> "claim", key |-> key, id |-> id, who |-> who, branch |-> main,
   scope |-> {p}, resource |-> resource, value |-> value]

RescopeCommand(key, who, add, drop) ==
  [kind |-> "rescope", key |-> key, who |-> who, add |-> add, drop |-> drop]

ReleaseCommand(key, who, override) ==
  [kind |-> "release", key |-> key, who |-> who, override |-> override]

WriteCommand(target, blob, whole) ==
  [kind |-> "write", item |-> target, blob |-> blob, whole |-> whole]

LandCommand(key, who) ==
  [kind |-> "land", key |-> key, who |-> who, override |-> FALSE, item |-> item,
   blob |-> closed, whole |-> FALSE]

Nobody == [kind |-> "none"]

ScenarioOf(command, after, crashing) ==
  [command |-> command, after |-> after, worktree |-> [x \in Processes |-> x],
   crashing |-> crashing]

\* Two claims of one issue, and a third that draws from the same resource.
Contention ==
  ScenarioOf(P1 :> ClaimCommand(k1, id1, "ada/builder", port, 0)
             @@ P2 :> ClaimCommand(k1, id2, "bob/builder", NoResource, 0)
             @@ P3 :> ClaimCommand(k2, id3, "bob/builder", port, 0)
             @@ P4 :> Nobody,
             P1 :> {} @@ P2 :> {} @@ P3 :> {} @@ P4 :> {}, {P2})

\* A claim, then its holder's rescope against a coordinator's release, and a
\* second claim of the freed issue and resource value.
Session ==
  ScenarioOf(P1 :> ClaimCommand(k1, id1, "ada/builder", port, 0)
             @@ P2 :> RescopeCommand(k1, "ada/builder", {q}, {})
             @@ P3 :> ReleaseCommand(k1, "bob/coordinator", TRUE)
             @@ P4 :> ClaimCommand(k1, id2, "bob/builder", port, 1),
             P1 :> {} @@ P2 :> {P1} @@ P3 :> {P1} @@ P4 :> {P3}, {P1, P3})

\* An item is written, then edited, landed and overwritten at once.
Items ==
  ScenarioOf(P1 :> WriteCommand(item, open, FALSE)
             @@ P2 :> ClaimCommand(k1, id1, "ada/builder", NoResource, 0)
             @@ P3 :> LandCommand(k1, "ada/builder")
             @@ P4 :> WriteCommand(item, edit, TRUE),
             P1 :> {} @@ P2 :> {P1} @@ P3 :> {P1, P2} @@ P4 :> {P1}, {P1, P4})

\* Two edits of one item, and a new item whose write checks all the others.
Edits ==
  ScenarioOf(P1 :> WriteCommand(item, open, FALSE)
             @@ P2 :> WriteCommand(item, edit, FALSE)
             @@ P3 :> WriteCommand(other, open, TRUE)
             @@ P4 :> Nobody,
             P1 :> {} @@ P2 :> {} @@ P3 :> {} @@ P4 :> {}, {})

\* An interrupted claim run again under the same claim id, and a release.
Replay ==
  ScenarioOf(P1 :> ClaimCommand(k1, id1, "ada/builder", port, 0)
             @@ P2 :> ClaimCommand(k1, id1, "ada/builder", port, 0)
             @@ P3 :> ReleaseCommand(k1, "ada/builder", FALSE)
             @@ P4 :> Nobody,
             P1 :> {} @@ P2 :> {P1} @@ P3 :> {P1} @@ P4 :> {}, {P1})

\* One claim, rescoped twice at once.
Rescopes ==
  ScenarioOf(P1 :> ClaimCommand(k1, id1, "ada/builder", NoResource, 0)
             @@ P2 :> RescopeCommand(k1, "ada/builder", {q}, {})
             @@ P3 :> RescopeCommand(k1, "ada/builder", {r}, {p})
             @@ P4 :> Nobody,
             P1 :> {} @@ P2 :> {P1} @@ P3 :> {P1} @@ P4 :> {}, {})

\* Two claims of one issue, and nothing else.
Duel ==
  [Contention EXCEPT !.command[P3] = Nobody]

StoreScenarios ==
  "contention" :> Contention @@ "session" :> Session @@ "items" :> Items
  @@ "edits" :> Edits @@ "replay" :> Replay @@ "rescopes" :> Rescopes
DuelScenarios == "duel" :> Duel
SessionScenarios == "session" :> Session
RescopeScenarios == "rescopes" :> Rescopes
=============================================================================
