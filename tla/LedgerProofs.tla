---------------------------- MODULE LedgerProofs ----------------------------
(***************************************************************************)
(* Proofs about the atomic ledger, for any number of keys, ids, claimants,  *)
(* resources, items and operations: the inductive invariant of Ledger and   *)
(* what follows from it.                                                    *)
(***************************************************************************)
EXTENDS Ledger, ClaimLedgerProofs, FiniteSetTheorems, TLAPS

----------------------------------------------------------------------------
(* The inductive invariant.                                                *)

\* The claim a live claim was opened as has its key and its id.
LEMMA LiveClaimOpening ==
  ASSUME IInv, NEW c \in state.claims
  PROVE  /\ c.id \in state.consumed
         /\ \E d \in history : /\ [c EXCEPT !.scope = d.scope] = d
                               /\ d.id = c.id
                               /\ d.key = c.key
<1>1. c \in ActiveClaim
  BY DEF IInv, TypeOK, ClaimState
<1>2. PICK d \in history : [c EXCEPT !.scope = d.scope] = d
  BY DEF IInv, LiveClaimsAreOpened
<1>3. d.id = c.id /\ d.key = c.key
  BY <1>1, <1>2 DEF ActiveClaim
<1> QED
  BY <1>2, <1>3 DEF IInv, RecordsAreComplete

\* A transition finds the intent its kind names, and a state to apply it to.
LEMMA TransitionFacts ==
  ASSUME IInv, NEW i \in Intents, Transition(i), applied' \subseteq Operations
  PROVE  /\ i \in AnyIntent
         /\ state \in ClaimState /\ IsFiniteSet(state.occupied)
         /\ state' = CommittedState(state, i)
BY IntentsAssumption DEF IInv, TypeOK, Transition

\* A claim takes effect only where no live claim has its key or its id, so it
\* replaces none.
LEMMA ClaimIsFresh ==
  ASSUME IInv, NEW i \in Intents, Claim(i), applied' \subseteq Operations
  PROVE  /\ i \in ClaimIntent
         /\ \A c \in state.claims : c.key # i.key /\ c.id # i.id
         /\ ResolvedResource(state, i) \notin state.occupied
         /\ state' = [state EXCEPT
              !.tip = state.tip + 1,
              !.claims = state.claims \cup {OpenedClaim(state, i)},
              !.consumed = state.consumed \cup {i.id},
              !.occupied = state.occupied \cup ({ResolvedResource(state, i)} \ {NoHold})]
<1>1. Transition(i) /\ i.kind = "claim" /\ i.id \notin state.consumed
  BY DEF Claim
<1>2. i \in ClaimIntent /\ state \in ClaimState /\ IsFiniteSet(state.occupied)
  BY <1>1, TransitionFacts, IntentKinds
<1>3. ~IsReplay(state, i)
  BY <1>1 DEF IsReplay
<1>4. /\ BlockingClaims(state, i) = {}
      /\ ResolvedResource(state, i) \notin state.occupied
  BY <1>1, <1>3 DEF Transition, Admits, AdmitsClaim, AdmitsRescope, AdmitsRelease,
                    AdmitsItemWrite, AdmitsLanding
<1>5. \A c \in state.claims : c.id # i.id
  BY <1>1, LiveClaimOpening
<1>6. \A c \in state.claims : c.key # i.key
  BY <1>4, <1>5 DEF BlockingClaims
<1>7. PutClaim(state.claims, OpenedClaim(state, i))
        = state.claims \cup {OpenedClaim(state, i)}
  BY <1>2, <1>6, OpenedClaimType DEF PutClaim
<1> QED
  BY <1>1, <1>2, <1>3, <1>4, <1>5, <1>6, <1>7, TransitionFacts, CommittedClaim

\* A fresh claim keeps every part of the invariant, and ends no claim.
LEMMA ClaimKeepsInv ==
  ASSUME IInv, NEW i \in Intents, Claim(i), applied' \subseteq Operations
  PROVE  IInv'
<1> DEFINE new == OpenedClaim(state, i)
           hold == ResolvedResource(state, i)
<1>1. /\ i \in ClaimIntent
      /\ \A c \in state.claims : c.key # i.key /\ c.id # i.id
      /\ hold \notin state.occupied
      /\ state' = [state EXCEPT !.tip = state.tip + 1,
                     !.claims = state.claims \cup {new},
                     !.consumed = state.consumed \cup {i.id},
                     !.occupied = state.occupied \cup ({hold} \ {NoHold})]
  BY ClaimIsFresh
<1>2. /\ state \in ClaimState /\ IsFiniteSet(state.occupied)
      /\ applied' \subseteq Operations
      /\ history' = history \cup {new}
      /\ i.id \notin state.consumed
  BY TransitionFacts DEF Claim
<1>3. /\ new \in ActiveClaim
      /\ new.id = i.id /\ new.key = i.key /\ new.hold = hold
  BY <1>1, <1>2, OpenedClaimType
<1>4. hold \in ResourceHold \cup {NoHold}
  BY <1>1, <1>2, ResolvedResourceType
<1> HIDE DEF new, hold
<1>5. /\ state'.tip = state.tip + 1
      /\ state'.claims = state.claims \cup {new}
      /\ state'.consumed = state.consumed \cup {i.id}
      /\ state'.occupied = state.occupied \cup ({hold} \ {NoHold})
      /\ state'.items = state.items
  BY <1>1, <1>2 DEF ClaimState
<1>6. TypeOK'
  <2>1. state' \in ClaimState
    <3>1. state.tip + 1 \in Nat
      BY <1>2 DEF ClaimState
    <3>2. state.claims \cup {new} \in SUBSET ActiveClaim
      BY <1>2, <1>3 DEF ClaimState
    <3>3. state.consumed \cup {i.id} \in SUBSET ClaimIds
      BY <1>1, <1>2 DEF ClaimState, ClaimIntent
    <3>4. state.occupied \cup ({hold} \ {NoHold}) \in SUBSET ResourceHold
      BY <1>2, <1>4 DEF ClaimState
    <3> QED
      BY <1>1, <1>2, <3>1, <3>2, <3>3, <3>4 DEF ClaimState
  <2>2. IsFiniteSet(state'.occupied)
    <3>1. IsFiniteSet(state.occupied \cup {hold})
      BY <1>2, FS_AddElement
    <3> QED
      BY <3>1, <1>5, FS_Subset
  <2>3. history' \subseteq ActiveClaim
    BY <1>2, <1>3 DEF IInv, TypeOK
  <2> QED
    BY <1>2, <2>1, <2>2, <2>3 DEF TypeOK
<1>7. RecordsAreComplete'
  <2>1. state.consumed = {c.id : c \in history}
    BY DEF IInv, RecordsAreComplete
  <2>2. state.occupied = {c.hold : c \in {d \in history : d.hold # NoHold}}
    BY DEF IInv, RecordsAreComplete
  <2>3. state'.consumed = {c.id : c \in history'}
    BY <2>1, <1>2, <1>3, <1>5
  <2>4. state'.occupied = {c.hold : c \in {d \in history' : d.hold # NoHold}}
    BY <2>2, <1>2, <1>3, <1>5
  <2> QED
    BY <2>3, <2>4 DEF RecordsAreComplete
<1>8. ClaimExclusive'
  BY <1>1, <1>3, <1>5 DEF IInv, ClaimExclusive
<1>9. NeverReused'
  <2>1. \A d \in history : d.id # new.id
    BY <1>2, <1>3 DEF IInv, RecordsAreComplete
  <2>2. \A d \in history : d.hold = new.hold => new.hold = NoHold
    BY <1>1, <1>3 DEF IInv, RecordsAreComplete
  <2> QED
    BY <2>1, <2>2, <1>2 DEF IInv, NeverReused
<1>10. LiveClaimsAreOpened'
  <2>1. [new EXCEPT !.scope = new.scope] = new
    BY <1>3 DEF ActiveClaim
  <2> QED
    BY <2>1, <1>2, <1>5 DEF IInv, LiveClaimsAreOpened
<1> QED
  BY <1>6, <1>7, <1>8, <1>9, <1>10 DEF IInv

\* A step that opens no claim keeps the invariant when every live claim it
\* leaves is a live claim it found, up to scope, and no claim is there twice.
LEMMA QuietStepKeepsInv ==
  ASSUME IInv,
         state' \in ClaimState,
         state'.consumed = state.consumed,
         state'.occupied = state.occupied,
         applied' \subseteq Operations,
         history' = history,
         \A c \in state'.claims : \E o \in state.claims : [c EXCEPT !.scope = o.scope] = o,
         ClaimExclusive'
  PROVE  IInv'
<1>1. TypeOK'
  BY DEF IInv, TypeOK
<1>2. RecordsAreComplete'
  BY DEF IInv, RecordsAreComplete
<1>3. NeverReused'
  BY DEF IInv, NeverReused
<1>4. LiveClaimsAreOpened'
  <2> SUFFICES ASSUME NEW c \in state'.claims
               PROVE  \E d \in history' : [c EXCEPT !.scope = d.scope] = d
    BY DEF LiveClaimsAreOpened
  <2>1. PICK o \in state.claims : [c EXCEPT !.scope = o.scope] = o
    OBVIOUS
  <2>2. PICK d \in history : [o EXCEPT !.scope = d.scope] = d
    BY DEF IInv, LiveClaimsAreOpened
  <2>3. c \in ActiveClaim /\ o \in ActiveClaim /\ d \in ActiveClaim
    BY DEF IInv, TypeOK, ClaimState
  <2>4. [c EXCEPT !.scope = d.scope] = d
    BY <2>1, <2>2, <2>3 DEF ActiveClaim
  <2> QED
    BY <2>4
<1> QED
  BY <1>1, <1>2, <1>3, <1>4 DEF IInv

\* Ending claims, or leaving them all alone, keeps those that remain distinct.
LEMMA FewerClaimsKeepInv ==
  ASSUME IInv,
         state' \in ClaimState,
         state'.claims \subseteq state.claims,
         state'.consumed = state.consumed,
         state'.occupied = state.occupied,
         applied' \subseteq Operations,
         history' = history
  PROVE  IInv'
<1>1. \A c \in state'.claims : [c EXCEPT !.scope = c.scope] = c
  BY DEF ClaimState, ActiveClaim
<1>2. ClaimExclusive'
  BY DEF IInv, ClaimExclusive
<1> QED
  BY <1>1, <1>2, QuietStepKeepsInv

\* A repeated claim keeps the invariant and the live claims.
LEMMA ReplayClaimStep ==
  ASSUME IInv, NEW i \in Intents, ReplayClaim(i), applied' \subseteq Operations
  PROVE  state'.claims = state.claims /\ IInv'
<1>1. Transition(i) /\ i.kind = "claim" /\ i.id \in state.consumed /\ history' = history
  BY DEF ReplayClaim
<1>2. i \in ClaimIntent /\ state \in ClaimState /\ applied' \subseteq Operations
  BY <1>1, TransitionFacts, IntentKinds
<1>3. IsReplay(state, i)
  BY <1>1 DEF Transition, Admits, AdmitsClaim, AdmitsRescope, AdmitsRelease,
              AdmitsItemWrite, AdmitsLanding
<1>4. state' = [state EXCEPT !.tip = state.tip + 1]
  BY <1>1, <1>2, <1>3, TransitionFacts, CommittedReplay
<1> QED
  BY <1>1, <1>2, <1>4, FewerClaimsKeepInv DEF ClaimState

\* An item write keeps the invariant and the live claims.
LEMMA WriteItemStep ==
  ASSUME IInv, NEW i \in Intents, WriteItem(i), applied' \subseteq Operations
  PROVE  state'.claims = state.claims /\ IInv'
<1>1. Transition(i) /\ i.kind = "write" /\ history' = history
  BY DEF WriteItem
<1>2. i \in ItemWriteIntent /\ state \in ClaimState /\ applied' \subseteq Operations
  BY <1>1, TransitionFacts, IntentKinds
<1>3. state' = [state EXCEPT !.tip = state.tip + 1,
                  !.items = [state.items EXCEPT ![i.item] = i.blob]]
  BY <1>1, <1>2, TransitionFacts, CommittedItemWrite
<1>4. state' \in ClaimState
  <2>1. [state.items EXCEPT ![i.item] = i.blob] \in [ItemIds -> Blobs \cup {NoBlob}]
    BY <1>2 DEF ClaimState, ItemWriteIntent
  <2>2. state.tip + 1 \in Nat
    BY <1>2 DEF ClaimState
  <2> QED
    BY <1>2, <1>3, <2>1, <2>2 DEF ClaimState
<1>5. /\ state'.claims = state.claims
      /\ state'.consumed = state.consumed
      /\ state'.occupied = state.occupied
  BY <1>2, <1>3 DEF ClaimState
<1> QED
  BY <1>1, <1>2, <1>4, <1>5, FewerClaimsKeepInv

\* A release keeps the invariant and opens no claim.
LEMMA ReleaseStep ==
  ASSUME IInv, NEW i \in Intents, Release(i), applied' \subseteq Operations
  PROVE  state'.claims \subseteq state.claims /\ IInv'
<1>1. Transition(i) /\ i.kind = "release" /\ history' = history
  BY DEF Release
<1>2. i \in ReleaseIntent /\ state \in ClaimState /\ applied' \subseteq Operations
  BY <1>1, TransitionFacts, IntentKinds
<1>3. state' = [state EXCEPT !.tip = state.tip + 1, !.claims = DropClaim(state, i.id)]
  BY <1>1, <1>2, TransitionFacts, CommittedRelease
<1>4. DropClaim(state, i.id) \subseteq state.claims
  BY DEF DropClaim
<1>5. /\ state'.claims = DropClaim(state, i.id)
      /\ state'.consumed = state.consumed
      /\ state'.occupied = state.occupied
  BY <1>2, <1>3 DEF ClaimState
<1>6. state' \in ClaimState
  <2>1. state.tip + 1 \in Nat /\ DropClaim(state, i.id) \in SUBSET ActiveClaim
    BY <1>2, <1>4 DEF ClaimState
  <2> QED
    BY <1>2, <1>3, <2>1 DEF ClaimState
<1> QED
  BY <1>1, <1>2, <1>4, <1>5, <1>6, FewerClaimsKeepInv

\* A landing keeps the invariant and opens no claim.
LEMMA LandStep ==
  ASSUME IInv, NEW i \in Intents, Land(i), applied' \subseteq Operations
  PROVE  state'.claims \subseteq state.claims /\ IInv'
<1>1. Transition(i) /\ i.kind = "landing" /\ history' = history
  BY DEF Land
<1>2. i \in LandingIntent /\ state \in ClaimState /\ applied' \subseteq Operations
  BY <1>1, TransitionFacts, IntentKinds
<1>3. state' = [state EXCEPT !.tip = state.tip + 1, !.claims = DropClaim(state, i.id),
                  !.items = [state.items EXCEPT ![i.item] = i.blob]]
  BY <1>1, <1>2, TransitionFacts, CommittedLanding
<1>4. DropClaim(state, i.id) \subseteq state.claims
  BY DEF DropClaim
<1>5. /\ state'.claims = DropClaim(state, i.id)
      /\ state'.consumed = state.consumed
      /\ state'.occupied = state.occupied
  BY <1>2, <1>3 DEF ClaimState
<1>6. state' \in ClaimState
  <2>1. [state.items EXCEPT ![i.item] = i.blob] \in [ItemIds -> Blobs \cup {NoBlob}]
    BY <1>2 DEF ClaimState, LandingIntent
  <2>2. state.tip + 1 \in Nat /\ DropClaim(state, i.id) \in SUBSET ActiveClaim
    BY <1>2, <1>4 DEF ClaimState
  <2> QED
    BY <1>2, <1>3, <2>1, <2>2 DEF ClaimState
<1> QED
  BY <1>1, <1>2, <1>4, <1>5, <1>6, FewerClaimsKeepInv

\* A rescope changes the scope of the one claim it names and no other field.
LEMMA RescopeStep ==
  ASSUME IInv, NEW i \in Intents, Rescope(i), applied' \subseteq Operations
  PROVE  LiveIds(state'.claims) \subseteq LiveIds(state.claims) /\ IInv'
<1> DEFINE kept == {c \in state.claims : c.id # i.id}
           moved == {[c EXCEPT !.scope = i.scope] : c \in LiveClaimById(state, i.id)}
<1>1. Transition(i) /\ i.kind = "rescope" /\ history' = history
  BY DEF Rescope
<1>2. i \in RescopeIntent /\ state \in ClaimState /\ applied' \subseteq Operations
  BY <1>1, TransitionFacts, IntentKinds
<1>3. state' = [state EXCEPT !.tip = state.tip + 1, !.claims = kept \cup moved]
  BY <1>1, <1>2, TransitionFacts, CommittedRescope
<1>4. \A c \in kept : c \in state.claims /\ [c EXCEPT !.scope = c.scope] = c
  BY <1>2 DEF ClaimState, ActiveClaim
<1>5. \A c \in moved : \E o \in state.claims :
        /\ o.id = i.id
        /\ c = [o EXCEPT !.scope = i.scope]
        /\ c \in ActiveClaim
        /\ c.key = o.key
        /\ c.id = o.id
        /\ [c EXCEPT !.scope = o.scope] = o
  <2> SUFFICES ASSUME NEW o \in state.claims, o.id = i.id,
                      NEW c, c = [o EXCEPT !.scope = i.scope]
               PROVE  /\ c \in ActiveClaim /\ c.key = o.key /\ c.id = o.id
                      /\ [c EXCEPT !.scope = o.scope] = o
    BY DEF LiveClaimById
  <2>1. o \in ActiveClaim /\ i.scope \in SUBSET Paths
    BY <1>2 DEF ClaimState, RescopeIntent
  <2> QED
    BY <2>1 DEF ActiveClaim
<1> HIDE DEF moved
<1>6. kept \cup moved \in SUBSET ActiveClaim
  BY <1>2, <1>5 DEF ClaimState
<1>7. /\ state'.claims = kept \cup moved
      /\ state'.consumed = state.consumed
      /\ state'.occupied = state.occupied
  BY <1>2, <1>3 DEF ClaimState
<1>8. state' \in ClaimState
  <2>1. state.tip + 1 \in Nat
    BY <1>2 DEF ClaimState
  <2> QED
    BY <1>2, <1>3, <1>6, <2>1 DEF ClaimState
<1>9. \A c \in kept \cup moved : \E o \in state.claims : [c EXCEPT !.scope = o.scope] = o
  BY <1>4, <1>5
<1>10. ClaimExclusive'
  <2> SUFFICES ASSUME NEW c \in kept \cup moved, NEW d \in kept \cup moved,
                      c.key = d.key \/ c.id = d.id
               PROVE  c = d
    BY <1>7 DEF ClaimExclusive
  <2>1. \A a, b \in state.claims : a.key = b.key \/ a.id = b.id => a = b
    BY DEF IInv, ClaimExclusive
  <2>2. CASE c \in kept /\ d \in kept
    BY <2>1, <2>2
  <2>3. CASE c \in kept /\ d \in moved
    BY <2>1, <2>3, <1>5
  <2>4. CASE c \in moved /\ d \in kept
    BY <2>1, <2>4, <1>5
  <2>5. CASE c \in moved /\ d \in moved
    BY <2>1, <2>5, <1>5
  <2> QED
    BY <2>2, <2>3, <2>4, <2>5
<1>11. LiveIds(state'.claims) \subseteq LiveIds(state.claims)
  BY <1>5, <1>7 DEF LiveIds
<1> QED
  BY <1>1, <1>2, <1>7, <1>8, <1>9, <1>10, <1>11, QuietStepKeepsInv

----------------------------------------------------------------------------
(* The theorems.                                                           *)

\* The bootstrapped ref satisfies the invariant: nothing claimed, nothing
\* consumed.
LEMMA InitInv == Init => IInv
<1> SUFFICES ASSUME Init PROVE IInv
  OBVIOUS
<1>1. /\ state = [tip |-> 1, claims |-> {}, consumed |-> {}, occupied |-> {},
                  items |-> [x \in ItemIds |-> NoBlob]]
      /\ applied = {} /\ history = {}
  BY DEF Init, BootstrapState, EMPTY_STATE
<1>2. TypeOK
  BY <1>1, FS_EmptySet DEF TypeOK, ClaimState
<1>3. RecordsAreComplete
  BY <1>1 DEF RecordsAreComplete
<1>4. ClaimExclusive /\ NeverReused /\ LiveClaimsAreOpened
  BY <1>1 DEF ClaimExclusive, NeverReused, LiveClaimsAreOpened
<1> QED
  BY <1>2, <1>3, <1>4 DEF IInv

\* The invariant is inductive, and a step adds claims or ends claims but never
\* both.
LEMMA NextInv ==
  ASSUME IInv, [Next]_vars
  PROVE  /\ IInv'
         /\ \/ LiveIds(state.claims) \subseteq LiveIds(state'.claims)
            \/ LiveIds(state'.claims) \subseteq LiveIds(state.claims)
<1>1. CASE UNCHANGED vars
  BY <1>1 DEF vars, IInv, TypeOK, RecordsAreComplete, ClaimExclusive, NeverReused,
              LiveClaimsAreOpened
<1>2. CASE Next
  <2>1. applied' \subseteq Operations
    BY <1>2 DEF Next, Once, IInv, TypeOK
  <2> PICK i \in Intents : \/ Claim(i) \/ ReplayClaim(i) \/ Rescope(i)
                          \/ Release(i) \/ WriteItem(i) \/ Land(i)
    BY <1>2 DEF Next
  <2>2. CASE Claim(i)
    <3>1. state'.claims = state.claims \cup {OpenedClaim(state, i)}
      BY <2>1, <2>2, ClaimIsFresh DEF IInv, TypeOK, ClaimState
    <3> QED
      BY <2>1, <2>2, <3>1, ClaimKeepsInv DEF LiveIds
  <2>3. CASE ReplayClaim(i)
    BY <2>1, <2>3, ReplayClaimStep DEF LiveIds
  <2>4. CASE Rescope(i)
    BY <2>1, <2>4, RescopeStep
  <2>5. CASE Release(i)
    BY <2>1, <2>5, ReleaseStep DEF LiveIds
  <2>6. CASE WriteItem(i)
    BY <2>1, <2>6, WriteItemStep DEF LiveIds
  <2>7. CASE Land(i)
    BY <2>1, <2>7, LandStep DEF LiveIds
  <2> QED
    BY <2>2, <2>3, <2>4, <2>5, <2>6, <2>7
<1> QED
  BY <1>1, <1>2

\* The inductive invariant holds in every reachable state.
THEOREM Invariance == Spec => []IInv
<1>1. IInv /\ [Next]_vars => IInv'
  BY NextInv
<1> QED
  BY InitInv, <1>1, PTL DEF Spec

\* The state keeps its type and the occupied numbers stay finite.
THEOREM TypeCorrectness == Spec => []TypeOK
<1>1. IInv => TypeOK
  BY DEF IInv
<1> QED
  BY Invariance, <1>1, PTL

\* At most one live claim per issue or lane branch, and per claim id.
THEOREM Exclusion == Spec => []ClaimExclusive
<1>1. IInv => ClaimExclusive
  BY DEF IInv
<1> QED
  BY Invariance, <1>1, PTL

\* No claim id and no resource number is ever given out twice.
THEOREM NoReuse == Spec => []NeverReused
<1>1. IInv => NeverReused
  BY DEF IInv
<1> QED
  BY Invariance, <1>1, PTL

\* The records of consumed ids and occupied numbers match the claims opened.
THEOREM CompleteRecords == Spec => []RecordsAreComplete
<1>1. IInv => RecordsAreComplete
  BY DEF IInv
<1> QED
  BY Invariance, <1>1, PTL

\* A live claim keeps everything but its scope from its opening to its end.
THEOREM ClaimIdentity == Spec => []LiveClaimsAreOpened
<1>1. IInv => LiveClaimsAreOpened
  BY DEF IInv
<1> QED
  BY Invariance, <1>1, PTL

\* No transition displaces the live claim of another.
THEOREM Displacement == Spec => NoDisplacement
<1>1. IInv /\ [Next]_vars =>
        [\/ LiveIds(state.claims) \subseteq LiveIds(state'.claims)
         \/ LiveIds(state'.claims) \subseteq LiveIds(state.claims)]_vars
  BY NextInv
<1> QED
  BY Invariance, <1>1, PTL DEF Spec, NoDisplacement
=============================================================================
