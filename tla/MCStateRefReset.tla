-------------------------- MODULE MCStateRefReset --------------------------
(***************************************************************************)
(* StateRefReset on small sets of commands.  The worktrees here1 and here2  *)
(* belong to one repository, there to another clone.                       *)
(***************************************************************************)
EXTENDS StateRefReset

CONSTANTS P1, P2, P3, k1, k2, id1, id2, main, p, here1, here2, there

MCClaimants == {"ada/builder", "bob/builder"}
MCAgentOf == [c \in MCClaimants |-> IF c = "ada/builder" THEN "ada" ELSE "bob"]
MCRepositoryOf == here1 :> "here" @@ here2 :> "here" @@ there :> "there"

BootstrapCommand == [kind |-> "bootstrap"]
ResetCommand == [kind |-> "reset"]
ClaimCommand(key, id, who) ==
  [kind |-> "claim", key |-> key, id |-> id, who |-> who, branch |-> main, scope |-> {p},
   resource |-> NoResource, value |-> 0]

Commands(c1, c2, c3) == P1 :> c1 @@ P2 :> c2 @@ P3 :> c3

\* A first bootstrap while claims are tried, from worktrees of their own.
FirstBootstrap ==
  [command |-> Commands(BootstrapCommand, ClaimCommand(k1, id1, "ada/builder"),
                        ClaimCommand(k2, id2, "bob/builder")),
   after |-> Commands({}, {}, {}), worktree |-> Commands(here1, here2, there),
   crashing |-> {P2}, exists |-> FALSE, observers |-> {}]

\* Two bootstraps at once, and a claim.
TwoBootstraps ==
  [command |-> Commands(BootstrapCommand, BootstrapCommand,
                        ClaimCommand(k1, id1, "ada/builder")),
   after |-> Commands({}, {}, {}), worktree |-> Commands(here1, there, here2),
   crashing |-> {}, exists |-> FALSE, observers |-> {}]

\* A reset, a claim from the other clone, and a claim in the sibling worktree
\* once the reset is over.
ResetAndClaims ==
  [command |-> Commands(ResetCommand, ClaimCommand(k1, id1, "ada/builder"),
                        ClaimCommand(k1, id2, "bob/builder")),
   after |-> Commands({}, {}, {P1}), worktree |-> Commands(here1, there, here2),
   crashing |-> {P1}, exists |-> TRUE, observers |-> {here1, here2}]

\* The same, with the first claim in the sibling worktree too.
ResetAndSibling ==
  [ResetAndClaims EXCEPT !.worktree = Commands(here1, here2, here2),
                         !.after = Commands({}, {}, {P1, P2})]

ResetScenarios == "first" :> FirstBootstrap @@ "reset" :> ResetAndClaims
BootstrapScenarios == "bootstraps" :> TwoBootstraps
SiblingScenarios == "sibling" :> ResetAndSibling
=============================================================================
