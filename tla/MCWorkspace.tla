---------------------------- MODULE MCWorkspace ----------------------------
(***************************************************************************)
(* Workspaces on small instances.                                          *)
(***************************************************************************)
EXTENDS Workspace, TLC

CONSTANTS alpha, beta, runA, runB, regA, regB, regC, loginA, loginB, enable, disable

\* Two projects, and another record under alpha's key.
Alpha(live) == [key |-> alpha, directory |-> "a", session |-> "s", live |-> live]
Beta == [key |-> beta, directory |-> "b", session |-> "t", live |-> TRUE]
Again == [key |-> alpha, directory |-> "c", session |-> "u", live |-> FALSE]

MCJob ==
  runA :> [kind |-> "run", key |-> alpha] @@ runB :> [kind |-> "run", key |-> alpha]
  @@ regA :> [kind |-> "register", record |-> Alpha(FALSE)]
  @@ regB :> [kind |-> "register", record |-> Beta]
  @@ regC :> [kind |-> "register", record |-> Again]
  @@ loginA :> [kind |-> "login"] @@ loginB :> [kind |-> "login"]
  @@ enable :> [kind |-> "enable"] @@ disable :> [kind |-> "disable"]

MCTokens == ({runA, runB} \X {alpha}) \cup ({loginA, loginB} \X Keys)
MCKeyOf == [t \in MCTokens |-> t[2]]

Case(procs, records, ofAlpha, ofBeta, enabled, changes0, faults0) ==
  [procs |-> procs, mapping |-> records, native |-> (alpha :> ofAlpha @@ beta :> ofBeta),
   launcher |-> enabled, changes |-> changes0, faults |-> faults0]

\* Runs and a login of a stopped handoff; runs of a live one; registrations, a
\* launcher and the login it starts; two logins of two projects, one of them
\* live; a registration of the same key beside a run.
MCScenarios ==
  {Case({runA, runB, loginA}, <<Alpha(FALSE)>>, {}, {}, TRUE, 0, 1),
   Case({runA, runB}, <<Alpha(FALSE)>>, {}, {}, FALSE, 2, 1),
   Case({runA, runB}, <<Alpha(TRUE)>>, {"registered"}, {}, FALSE, 2, 1),
   Case({regA, regB, regC, enable, disable, loginA}, <<>>, {}, {"registered"}, FALSE, 0, 1),
   Case({loginA, loginB}, <<Alpha(FALSE), Beta>>, {}, {"registered"}, TRUE, 0, 1),
   Case({runA, regC}, <<Alpha(FALSE)>>, {}, {}, FALSE, 0, 0)}
=============================================================================
