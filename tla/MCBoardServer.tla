--------------------------- MODULE MCBoardServer ---------------------------
(***************************************************************************)
(* Board servers on small instances.                                       *)
(***************************************************************************)
EXTENDS BoardServer, TLC

CONSTANTS S1, S2, S3, t1, t2, t3

\* S3 is started on S1's port with --new-token.
MCPortOf == S1 :> 1 @@ S2 :> 2 @@ S3 :> 1

Kind(k1, k2, k3) == t1 :> k1 @@ t2 :> k2 @@ t3 :> k3

\* All the starts, without a request; a reload, a click, and another request or
\* command of one server.
MCScenarios ==
  {[servers |-> Servers, kinds |-> Kind("none", "none", "none")]}
  \cup {[servers |-> {S1}, kinds |-> Kind("reload", "click", k3)] :
          k3 \in {"page", "click", "rule"}}
=============================================================================
