------------------------------- MODULE Ledger -------------------------------
(***************************************************************************)
(* What refs/aco/state promises its commands: every operation takes effect *)
(* at most once, in one atomic step, and only on a state that admits its   *)
(* intent.  StateRefStore, where the same operations travel through        *)
(* fetches, rejected pushes and lost responses, implements this module.    *)
(***************************************************************************)
EXTENDS ClaimLedger

CONSTANTS
  Operations,  \* operation ids: one per command invocation
  Intents      \* the intents an operation may carry

ASSUME IntentsAssumption == Intents \subseteq AnyIntent

VARIABLES
  state,    \* the claim state at the tip
  applied,  \* the operations that took effect
  history   \* every claim ever opened, as it was opened (history variable)

vars == <<state, applied, history>>

LiveIds(claims) == {c.id : c \in claims}

----------------------------------------------------------------------------
(* Actions.                                                                *)

Init ==
  /\ state = BootstrapState(1)
  /\ applied = {}
  /\ history = {}

\* An operation takes effect once.
Once(op) ==
  /\ op \notin applied
  /\ applied' = applied \cup {op}

\* The part every transition shares.
Transition(intent) ==
  /\ Admits(state, intent)
  /\ state' = CommittedState(state, intent)

Claim(intent) ==
  /\ intent.kind = "claim"
  /\ intent.id \notin state.consumed
  /\ Transition(intent)
  /\ history' = history \cup {OpenedClaim(state, intent)}

\* An interrupted claim run again lands a commit that changes nothing.
ReplayClaim(intent) ==
  /\ intent.kind = "claim"
  /\ intent.id \in state.consumed
  /\ Transition(intent)
  /\ UNCHANGED history

Rescope(intent) ==
  /\ intent.kind = "rescope"
  /\ Transition(intent)
  /\ UNCHANGED history

Release(intent) ==
  /\ intent.kind = "release"
  /\ Transition(intent)
  /\ UNCHANGED history

WriteItem(intent) ==
  /\ intent.kind = "write"
  /\ Transition(intent)
  /\ UNCHANGED history

Land(intent) ==
  /\ intent.kind = "landing"
  /\ Transition(intent)
  /\ UNCHANGED history

Next ==
  \E op \in Operations :
    /\ Once(op)
    /\ \E intent \in Intents :
         \/ Claim(intent)
         \/ ReplayClaim(intent)
         \/ Rescope(intent)
         \/ Release(intent)
         \/ WriteItem(intent)
         \/ Land(intent)

Spec == Init /\ [][Next]_vars

----------------------------------------------------------------------------
(* Properties.                                                             *)

\* Every variable holds a value of its type; the occupied numbers of a
\* resource stay finite, so the search for a free one ends.
TypeOK ==
  /\ state \in ClaimState
  /\ IsFiniteSet(state.occupied)
  /\ applied \subseteq Operations
  /\ history \subseteq ActiveClaim

\* An issue or lane branch has at most one live claim, and a claim id names
\* at most one: _live_claim_by_id takes the first match and relies on it.
ClaimExclusive ==
  \A c, d \in state.claims : c.key = d.key \/ c.id = d.id => c = d

\* Over the whole life of the ref no claim id is opened twice and no numbered
\* resource is handed out twice, released claims included.
NeverReused ==
  \A c, d \in history :
    c.id = d.id \/ (c.hold = d.hold /\ c.hold # NoHold) => c = d

\* The consumed ids and occupied numbers that the ref carries are exactly those
\* of the claims ever opened: no release, landing, rescope or replay forgets or
\* invents one, and both refusals of a reuse rest on them.
RecordsAreComplete ==
  /\ state.consumed = {c.id : c \in history}
  /\ state.occupied = {c.hold : c \in {d \in history : d.hold # NoHold}}

\* A live claim still carries the key, claimant, hold and opening commit it
\* was opened with, whatever was rescoped or replayed since.
LiveClaimsAreOpened ==
  \A c \in state.claims : \E d \in history : [c EXCEPT !.scope = d.scope] = d

\* The inductive invariant: each safety invariant above needs the records, and
\* the records need the types.
IInv ==
  /\ TypeOK
  /\ RecordsAreComplete
  /\ ClaimExclusive
  /\ NeverReused
  /\ LiveClaimsAreOpened

\* No step both ends a claim and opens one, and a claim that ends stays
\* ended: apply's insertion by key never displaces another's live claim.
NoDisplacement ==
  [][LiveIds(state.claims) \subseteq LiveIds(state'.claims)
     \/ LiveIds(state'.claims) \subseteq LiveIds(state.claims)]_vars
=============================================================================
