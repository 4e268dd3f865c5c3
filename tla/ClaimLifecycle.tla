--------------------------- MODULE ClaimLifecycle ---------------------------
(***************************************************************************)
(* store.claim_lifecycle: the walk over the history of refs/aco/state that  *)
(* reads every claim's life back from the trailers of its commits, for the  *)
(* board's measurements.  A transition is one commit's intent kind and      *)
(* claim id, oldest first; dates are left out.                             *)
(***************************************************************************)
EXTENDS Naturals, Sequences, TLC

\* Mutant of ClaimShaped: the walk does not know landings.
ClaimShapedButLanding == {"claim", "rescope", "release"}

\* The transitions the walk reads; an item write or bootstrap commit is none.
ClaimShaped == {"claim", "rescope", "release", "landing"}

\* What the walk keeps: the claims it saw opened, those it saw closed, how
\* often each was rescoped, and how many commits it could make no sense of.
NothingRead == [claimed |-> {}, released |-> {}, rescopes |-> <<>>, unparsed |-> 0]

RecordClaim(walk, id) ==
  IF id \in walk.claimed
  THEN [walk EXCEPT !.unparsed = @ + 1]
  ELSE [walk EXCEPT !.claimed = @ \cup {id}, !.rescopes = (id :> 0) @@ @]

\* A release or rescope counts only on a claim that is open in the walk.
RecordReleaseOrRescope(walk, transition) ==
  LET id == transition.id IN
  IF id \notin walk.claimed \/ id \in walk.released
  THEN [walk EXCEPT !.unparsed = @ + 1]
  ELSE IF transition.kind = "rescope"
       THEN [walk EXCEPT !.rescopes[id] = @ + 1]
       ELSE [walk EXCEPT !.released = @ \cup {id}]

RecordTransition(walk, transition) ==
  CASE transition.kind \notin ClaimShaped -> walk
    [] transition.kind = "claim" -> RecordClaim(walk, transition.id)
    [] OTHER -> RecordReleaseOrRescope(walk, transition)

\* walk[n] is what has been read after the first n transitions.
Lifecycle(transitions) ==
  LET walk[n \in 0 .. Len(transitions)] ==
        IF n = 0 THEN NothingRead ELSE RecordTransition(walk[n - 1], transitions[n])
  IN  walk[Len(transitions)]
=============================================================================
