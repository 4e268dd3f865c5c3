-------------------------- MODULE ClaimLedgerProofs --------------------------
(***************************************************************************)
(* What protocol.apply makes of a claim state, field by field, for any      *)
(* state and any intent.                                                    *)
(***************************************************************************)
EXTENDS ClaimLedger, FiniteSetTheorems, TLAPS

----------------------------------------------------------------------------
(* The search for a free resource number.                                  *)

\* Among the numbers up to one more than a finite set's size, one is free, and
\* among those a least one: _auto_resource_value always has an answer, it is
\* positive and it is not taken.
LEMMA LeastFreeNumber ==
  ASSUME NEW values \in SUBSET Nat, IsFiniteSet(values)
  PROVE  AutoResourceValue(values) \in Positive \ values
<1> DEFINE last == Cardinality(values) + 1
           free == (1 .. last) \ values
<1>1. last \in Nat
  BY FS_CardinalityType
<1>2. free # {}
  <2> SUFFICES ASSUME 1 .. last \subseteq values PROVE FALSE
    OBVIOUS
  <2>1. Cardinality(1 .. last) = last
    BY <1>1, FS_CardinalityType, FS_Interval
  <2>2. Cardinality(1 .. last) <= Cardinality(values)
    BY FS_Subset
  <2> QED
    BY <2>1, <2>2, FS_CardinalityType
<1>3. PICK n \in free : \A m \in free : ~ (<<m, n>> \in OpToRel(<, Nat))
  <2>1. free \subseteq Nat
    BY <1>1
  <2> HIDE DEF free
  <2> QED
    BY <2>1, <1>2, NatLessThanWellFounded, WFMin
<1>4. \A m \in free : n <= m
  <2> SUFFICES ASSUME NEW m \in free, m < n PROVE FALSE
    BY <1>1
  <2>1. <<m, n>> \in OpToRel(<, Nat)
    BY <1>1 DEF OpToRel
  <2> QED
    BY <2>1, <1>3
<1>5. /\ n \in 1 .. last
      /\ n \notin values
      /\ \A m \in 1 .. last : m \notin values => n <= m
  BY <1>4
<1>6. AutoResourceValue(values) \in 1 .. last /\ AutoResourceValue(values) \notin values
  <2> HIDE DEF last, free
  <2> QED
    BY <1>5 DEF AutoResourceValue, last
<1> QED
  BY <1>1, <1>6 DEF Positive

\* The numbers of one resource are finitely many when the holds are.
LEMMA OccupiedValuesFinite ==
  ASSUME NEW s \in ClaimState, IsFiniteSet(s.occupied), NEW name
  PROVE  OccupiedValues(s, name) \in SUBSET Nat /\ IsFiniteSet(OccupiedValues(s, name))
<1> DEFINE holds == {g \in s.occupied : g[1] = name}
           number == [h \in holds |-> h[2]]
<1>1. IsFiniteSet(holds)
  BY FS_Subset
<1>2. number \in Surjection(holds, OccupiedValues(s, name))
  BY DEF Surjection, OccupiedValues
<1>3. IsFiniteSet(OccupiedValues(s, name))
  BY <1>1, <1>2, FS_Surjection
<1>4. OccupiedValues(s, name) \subseteq Nat
  BY DEF OccupiedValues, ClaimState, ResourceHold, Positive
<1> QED
  BY <1>3, <1>4

\* A request for the next free number of a resource is granted a hold that no
\* claim was ever given, so apply refuses a claim for its resource only when
\* the command names the number.
THEOREM AutomaticHoldIsFree ==
  ASSUME NEW s \in ClaimState, IsFiniteSet(s.occupied), NEW i \in ClaimIntent,
         i.resource # NoResource, i.value = 0
  PROVE  ResolvedResource(s, i) \in ResourceHold \ s.occupied
<1> DEFINE number == AutoResourceValue(OccupiedValues(s, i.resource))
<1>1. number \in Positive \ OccupiedValues(s, i.resource)
  BY OccupiedValuesFinite, LeastFreeNumber
<1>2. ResolvedResource(s, i) = <<i.resource, number>>
  BY DEF ResolvedResource
<1>3. i.resource \in ResourceNames
  BY DEF ClaimIntent
<1>4. <<i.resource, number>> \notin s.occupied
  <2> HIDE DEF number
  <2> SUFFICES ASSUME <<i.resource, number>> \in s.occupied PROVE FALSE
    OBVIOUS
  <2> DEFINE hold == <<i.resource, number>>
  <2>1. hold \in {g \in s.occupied : g[1] = i.resource} /\ hold[2] = number
    OBVIOUS
  <2>2. number \in OccupiedValues(s, i.resource)
    BY <2>1 DEF OccupiedValues
  <2> QED
    BY <1>1, <2>2
<1> QED
  BY <1>1, <1>2, <1>3, <1>4 DEF ResourceHold

----------------------------------------------------------------------------
(* What an admitted intent makes of a state, field by field.               *)

\* The kind of an intent says which of the five intents it is.
LEMMA IntentKinds ==
  ASSUME NEW i \in AnyIntent
  PROVE  /\ i.kind = "claim"   => i \in ClaimIntent
         /\ i.kind = "rescope" => i \in RescopeIntent
         /\ i.kind = "release" => i \in ReleaseIntent
         /\ i.kind = "write"   => i \in ItemWriteIntent
         /\ i.kind = "landing" => i \in LandingIntent
BY DEF AnyIntent, ClaimIntent, RescopeIntent, ReleaseIntent, ItemWriteIntent, LandingIntent

\* A claim's resource request resolves to a hold or to none.
LEMMA ResolvedResourceType ==
  ASSUME NEW s \in ClaimState, IsFiniteSet(s.occupied), NEW i \in ClaimIntent
  PROVE  ResolvedResource(s, i) \in ResourceHold \cup {NoHold}
<1>1. CASE i.resource = NoResource
  BY <1>1 DEF ResolvedResource
<1>2. CASE i.resource # NoResource /\ i.value = 0
  BY <1>2, AutomaticHoldIsFree
<1>3. CASE i.resource # NoResource /\ i.value # 0
  BY <1>3 DEF ResolvedResource, ClaimIntent, ResourceHold, Positive
<1> QED
  BY <1>1, <1>2, <1>3

\* What a claim intent opens is a claim, with the key, id and resource it asked
\* for.
LEMMA OpenedClaimType ==
  ASSUME NEW s \in ClaimState, IsFiniteSet(s.occupied), NEW i \in ClaimIntent
  PROVE  /\ OpenedClaim(s, i) \in ActiveClaim
         /\ OpenedClaim(s, i).id = i.id
         /\ OpenedClaim(s, i).key = i.key
         /\ OpenedClaim(s, i).hold = ResolvedResource(s, i)
BY ResolvedResourceType DEF OpenedClaim, ActiveClaim, ClaimIntent, ClaimState

\* A fresh claim's commit: the claim in place of whatever its key held, its id
\* consumed, its number occupied.
LEMMA CommittedClaim ==
  ASSUME NEW s \in ClaimState, NEW i \in ClaimIntent, ~IsReplay(s, i)
  PROVE  CommittedState(s, i) =
           [s EXCEPT !.tip = s.tip + 1,
              !.claims = PutClaim(s.claims, OpenedClaim(s, i)),
              !.consumed = s.consumed \cup {i.id},
              !.occupied = s.occupied \cup ({ResolvedResource(s, i)} \ {NoHold})]
<1>1. Apply(s, i) = ApplyClaimIntent(s, i)
  BY DEF Apply, ClaimIntent
<1>2. Apply(s, i) =
        [s EXCEPT !.claims = PutClaim(s.claims, OpenedClaim(s, i)),
                  !.consumed = s.consumed \cup {i.id},
                  !.occupied = s.occupied \cup ({ResolvedResource(s, i)} \ {NoHold})]
  BY <1>1 DEF ApplyClaimIntent, ClaimState
<1> QED
  BY <1>2 DEF CommittedState, ClaimState

\* The claims and ids in use after a claim that is opened.
LEMMA CommittedFreshFields ==
  ASSUME NEW s \in ClaimState, NEW i \in ClaimIntent, ~IsReplay(s, i)
  PROVE  /\ CommittedState(s, i).claims = PutClaim(s.claims, OpenedClaim(s, i))
         /\ CommittedState(s, i).consumed = s.consumed \cup {i.id}
<1> DEFINE claims == PutClaim(s.claims, OpenedClaim(s, i))
           consumed == s.consumed \cup {i.id}
           occupied == s.occupied \cup ({ResolvedResource(s, i)} \ {NoHold})
<1>1. CommittedState(s, i) = [s EXCEPT !.tip = s.tip + 1, !.claims = claims,
                                       !.consumed = consumed, !.occupied = occupied]
  BY CommittedClaim
<1> HIDE DEF claims, consumed, occupied
<1>2. CommittedState(s, i).claims = claims /\ CommittedState(s, i).consumed = consumed
  BY <1>1 DEF ClaimState
<1> QED
  BY <1>2 DEF claims, consumed

\* The commit of an interrupted claim run again changes nothing but the tip.
LEMMA CommittedReplay ==
  ASSUME NEW s \in ClaimState, NEW i \in ClaimIntent, IsReplay(s, i)
  PROVE  CommittedState(s, i) = [s EXCEPT !.tip = s.tip + 1]
BY DEF CommittedState, Apply, ApplyClaimIntent, ClaimState, ClaimIntent

\* A rescope's commit changes scopes only.
LEMMA CommittedRescope ==
  ASSUME NEW s \in ClaimState, NEW i \in RescopeIntent
  PROVE  CommittedState(s, i) =
           [s EXCEPT !.tip = s.tip + 1,
              !.claims = {c \in s.claims : c.id # i.id}
                         \cup {[c EXCEPT !.scope = i.scope] : c \in LiveClaimById(s, i.id)}]
BY DEF CommittedState, Apply, ApplyRescopeIntent, ClaimState, RescopeIntent

\* A release's commit drops claims only.
LEMMA CommittedRelease ==
  ASSUME NEW s \in ClaimState, NEW i \in ReleaseIntent
  PROVE  CommittedState(s, i) =
           [s EXCEPT !.tip = s.tip + 1, !.claims = DropClaim(s, i.id)]
BY DEF CommittedState, Apply, ApplyReleaseIntent, ClaimState, ReleaseIntent

\* An item write's commit changes one item.
LEMMA CommittedItemWrite ==
  ASSUME NEW s \in ClaimState, NEW i \in ItemWriteIntent
  PROVE  CommittedState(s, i) =
           [s EXCEPT !.tip = s.tip + 1, !.items = [s.items EXCEPT ![i.item] = i.blob]]
BY DEF CommittedState, Apply, ApplyItemWriteIntent, ClaimState, ItemWriteIntent

\* A landing's commit drops the claim and changes its item, together.
LEMMA CommittedLanding ==
  ASSUME NEW s \in ClaimState, NEW i \in LandingIntent
  PROVE  CommittedState(s, i) =
           [s EXCEPT !.tip = s.tip + 1, !.claims = DropClaim(s, i.id),
              !.items = [s.items EXCEPT ![i.item] = i.blob]]
BY DEF CommittedState, Apply, ApplyLandingIntent, ClaimState, LandingIntent

\* Whatever is committed onto a state is a state, one higher, in which finitely
\* many numbers are occupied.
LEMMA CommittedType ==
  ASSUME NEW s \in ClaimState, IsFiniteSet(s.occupied), NEW i \in AnyIntent
  PROVE  /\ CommittedState(s, i) \in ClaimState
         /\ CommittedState(s, i).tip = s.tip + 1
         /\ IsFiniteSet(CommittedState(s, i).occupied)
<1>1. s.tip + 1 \in Nat /\ DropClaim(s, i.id) \in SUBSET ActiveClaim
  BY DEF ClaimState, DropClaim
<1>2. CASE i \in ClaimIntent /\ IsReplay(s, i)
  BY <1>1, <1>2, CommittedReplay DEF ClaimState
<1>3. CASE i \in ClaimIntent /\ ~IsReplay(s, i)
  <2> DEFINE hold == ResolvedResource(s, i)
             claims == PutClaim(s.claims, OpenedClaim(s, i))
             occupied == s.occupied \cup ({hold} \ {NoHold})
  <2>1. CommittedState(s, i) =
          [s EXCEPT !.tip = s.tip + 1, !.claims = claims,
                    !.consumed = s.consumed \cup {i.id}, !.occupied = occupied]
    BY <1>3, CommittedClaim
  <2>2. claims \in SUBSET ActiveClaim
    BY <1>3, OpenedClaimType DEF PutClaim, ClaimState
  <2>3. s.consumed \cup {i.id} \in SUBSET ClaimIds
    BY <1>3 DEF ClaimState, ClaimIntent
  <2>4. occupied \in SUBSET ResourceHold
    BY <1>3, ResolvedResourceType DEF ClaimState
  <2>5. IsFiniteSet(occupied)
    <3>1. IsFiniteSet(s.occupied \cup {hold}) /\ occupied \subseteq s.occupied \cup {hold}
      BY FS_AddElement
    <3> QED
      BY <3>1, FS_Subset
  <2> HIDE DEF hold, claims, occupied
  <2> QED
    BY <1>1, <2>1, <2>2, <2>3, <2>4, <2>5 DEF ClaimState
<1>4. CASE i \in RescopeIntent
  <2> DEFINE claims == {c \in s.claims : c.id # i.id}
                       \cup {[c EXCEPT !.scope = i.scope] : c \in LiveClaimById(s, i.id)}
  <2>1. CommittedState(s, i) = [s EXCEPT !.tip = s.tip + 1, !.claims = claims]
    BY <1>4, CommittedRescope
  <2>2. claims \in SUBSET ActiveClaim
    <3>1. s.claims \in SUBSET ActiveClaim /\ LiveClaimById(s, i.id) \in SUBSET ActiveClaim
      BY DEF ClaimState, LiveClaimById
    <3>2. \A c \in ActiveClaim : [c EXCEPT !.scope = i.scope] \in ActiveClaim
      BY <1>4 DEF RescopeIntent, ActiveClaim
    <3> QED
      BY <3>1, <3>2
  <2> HIDE DEF claims
  <2> QED
    BY <1>1, <2>1, <2>2 DEF ClaimState
<1>5. CASE i \in ReleaseIntent
  <2>1. CommittedState(s, i) = [s EXCEPT !.tip = s.tip + 1, !.claims = DropClaim(s, i.id)]
    BY <1>5, CommittedRelease
  <2> QED
    BY <1>1, <2>1 DEF ClaimState
<1>6. CASE i \in ItemWriteIntent
  <2>1. [s.items EXCEPT ![i.item] = i.blob] \in [ItemIds -> Blobs \cup {NoBlob}]
    BY <1>6 DEF ClaimState, ItemWriteIntent
  <2>2. CommittedState(s, i) =
          [s EXCEPT !.tip = s.tip + 1, !.items = [s.items EXCEPT ![i.item] = i.blob]]
    BY <1>6, CommittedItemWrite
  <2> QED
    BY <1>1, <2>1, <2>2 DEF ClaimState
<1>7. CASE i \in LandingIntent
  <2>1. [s.items EXCEPT ![i.item] = i.blob] \in [ItemIds -> Blobs \cup {NoBlob}]
    BY <1>7 DEF ClaimState, LandingIntent
  <2>2. CommittedState(s, i) =
          [s EXCEPT !.tip = s.tip + 1, !.claims = DropClaim(s, i.id),
             !.items = [s.items EXCEPT ![i.item] = i.blob]]
    BY <1>7, CommittedLanding
  <2> QED
    BY <1>1, <2>1, <2>2 DEF ClaimState
<1> QED
  BY <1>2, <1>3, <1>4, <1>5, <1>6, <1>7 DEF AnyIntent

\* Where the claims of a commit come from: its parent, with the id and the
\* opening commit they had, or the one claim that is opened by it.
LEMMA CommittedClaims ==
  ASSUME NEW s \in ClaimState, IsFiniteSet(s.occupied), NEW i \in AnyIntent, Admits(s, i),
         NEW c \in CommittedState(s, i).claims
  PROVE  \/ \E d \in s.claims : d.id = c.id /\ d.opened = c.opened
         \/ i.kind = "claim" /\ i.id \notin s.consumed /\ c = OpenedClaim(s, i)
<1>1. CASE i \in ClaimIntent /\ IsReplay(s, i)
  BY <1>1, CommittedReplay DEF ClaimState
<1>2. CASE i \in ClaimIntent /\ ~IsReplay(s, i)
  <2>1. i.kind = "claim" /\ i.id \notin s.consumed
    BY <1>2 DEF ClaimIntent, Admits, AdmitsClaim, AdmitsRescope, AdmitsRelease, AdmitsItemWrite,
                AdmitsLanding
  <2>2. CommittedState(s, i).claims = PutClaim(s.claims, OpenedClaim(s, i))
    BY <1>2, CommittedFreshFields
  <2>3. c \in s.claims \/ c = OpenedClaim(s, i)
    BY <2>2 DEF PutClaim
  <2> QED
    BY <2>1, <2>3
<1>3. CASE i \in RescopeIntent
  <2> DEFINE kept == {d \in s.claims : d.id # i.id}
             moved == {[d EXCEPT !.scope = i.scope] : d \in LiveClaimById(s, i.id)}
  <2>1. CommittedState(s, i) = [s EXCEPT !.tip = s.tip + 1, !.claims = kept \cup moved]
    BY <1>3, CommittedRescope
  <2> HIDE DEF kept, moved
  <2>2. c \in kept \cup moved
    BY <2>1 DEF ClaimState
  <2>3. \A d \in ActiveClaim : /\ [d EXCEPT !.scope = i.scope].id = d.id
                               /\ [d EXCEPT !.scope = i.scope].opened = d.opened
    BY DEF ActiveClaim
  <2>4. s.claims \subseteq ActiveClaim
    BY DEF ClaimState
  <2> QED
    BY <2>2, <2>3, <2>4 DEF kept, moved, LiveClaimById
<1>4. CASE i \in ReleaseIntent
  <2>1. CommittedState(s, i).claims = DropClaim(s, i.id)
    BY <1>4, CommittedRelease DEF ClaimState
  <2> QED
    BY <2>1 DEF DropClaim
<1>5. CASE i \in ItemWriteIntent
  BY <1>5, CommittedItemWrite DEF ClaimState
<1>6. CASE i \in LandingIntent
  <2> DEFINE claims == DropClaim(s, i.id)
             items == [s.items EXCEPT ![i.item] = i.blob]
  <2>1. CommittedState(s, i) = [s EXCEPT !.tip = s.tip + 1, !.claims = claims, !.items = items]
    BY <1>6, CommittedLanding
  <2> HIDE DEF claims, items
  <2>2. CommittedState(s, i).claims = claims
    BY <2>1 DEF ClaimState
  <2> QED
    BY <2>2 DEF claims, DropClaim
<1> QED
  BY <1>1, <1>2, <1>3, <1>4, <1>5, <1>6 DEF AnyIntent

\* A claim that is opened is among the claims of its commit, and the ids in use
\* are those of the parent and its own.
LEMMA CommittedOpening ==
  ASSUME NEW s \in ClaimState, IsFiniteSet(s.occupied), NEW i \in AnyIntent, Admits(s, i)
  PROVE  /\ s.consumed \subseteq CommittedState(s, i).consumed
         /\ i.kind = "claim" /\ i.id \notin s.consumed =>
              /\ OpenedClaim(s, i) \in CommittedState(s, i).claims
              /\ i.id \in CommittedState(s, i).consumed
<1>1. CASE i \in ClaimIntent /\ IsReplay(s, i)
  BY <1>1, CommittedReplay DEF ClaimState, IsReplay
<1>2. CASE i \in ClaimIntent /\ ~IsReplay(s, i)
  <2>1. /\ CommittedState(s, i).claims = PutClaim(s.claims, OpenedClaim(s, i))
        /\ CommittedState(s, i).consumed = s.consumed \cup {i.id}
    BY <1>2, CommittedFreshFields
  <2> QED
    BY <2>1 DEF PutClaim
<1>3. CASE i \in RescopeIntent
  <2> DEFINE claims == {c \in s.claims : c.id # i.id}
                       \cup {[c EXCEPT !.scope = i.scope] : c \in LiveClaimById(s, i.id)}
  <2>1. CommittedState(s, i) = [s EXCEPT !.tip = s.tip + 1, !.claims = claims]
    BY <1>3, CommittedRescope
  <2> HIDE DEF claims
  <2> QED
    BY <1>3, <2>1 DEF ClaimState, RescopeIntent
<1>4. CASE i \in ReleaseIntent
  <2> DEFINE claims == DropClaim(s, i.id)
  <2>1. CommittedState(s, i) = [s EXCEPT !.tip = s.tip + 1, !.claims = claims]
    BY <1>4, CommittedRelease
  <2> HIDE DEF claims
  <2> QED
    BY <1>4, <2>1 DEF ClaimState, ReleaseIntent
<1>5. CASE i \in ItemWriteIntent
  <2> DEFINE items == [s.items EXCEPT ![i.item] = i.blob]
  <2>1. CommittedState(s, i) = [s EXCEPT !.tip = s.tip + 1, !.items = items]
    BY <1>5, CommittedItemWrite
  <2> HIDE DEF items
  <2> QED
    BY <1>5, <2>1 DEF ClaimState, ItemWriteIntent
<1>6. CASE i \in LandingIntent
  <2> DEFINE claims == DropClaim(s, i.id)
             items == [s.items EXCEPT ![i.item] = i.blob]
  <2>1. CommittedState(s, i) = [s EXCEPT !.tip = s.tip + 1, !.claims = claims, !.items = items]
    BY <1>6, CommittedLanding
  <2> HIDE DEF claims, items
  <2> QED
    BY <1>6, <2>1 DEF ClaimState, LandingIntent
<1> QED
  BY <1>1, <1>2, <1>3, <1>4, <1>5, <1>6 DEF AnyIntent

IdsOf(state) == {c.id : c \in state.claims}

\* The live claim ids of a commit and the ids in use, by what was committed.
LEMMA CommittedIds ==
  ASSUME NEW s \in ClaimState, NEW i \in AnyIntent, Admits(s, i),
         \A c, d \in s.claims : c.key = d.key \/ c.id = d.id => c = d,
         NEW t, t = CommittedState(s, i)
  PROVE  /\ i.kind = "claim" /\ i.id \notin s.consumed =>
              t.consumed = s.consumed \cup {i.id} /\ IdsOf(t) = IdsOf(s) \cup {i.id}
         /\ (i.kind = "claim" /\ i.id \in s.consumed) \/ i.kind = "write" =>
              t.consumed = s.consumed /\ IdsOf(t) = IdsOf(s)
         /\ i.kind = "rescope" =>
              t.consumed = s.consumed /\ IdsOf(t) = IdsOf(s) /\ i.id \in IdsOf(s)
         /\ i.kind \in {"release", "landing"} =>
              t.consumed = s.consumed /\ IdsOf(t) = IdsOf(s) \ {i.id} /\ i.id \in IdsOf(s)
<1>1. CASE i \in ClaimIntent /\ IsReplay(s, i)
  <2>1. t.claims = s.claims /\ t.consumed = s.consumed
    BY <1>1, CommittedReplay DEF ClaimState
  <2> QED
    BY <1>1, <2>1 DEF ClaimIntent, IsReplay, IdsOf
<1>2. CASE i \in ClaimIntent /\ ~IsReplay(s, i)
  <2>1. i.kind = "claim" /\ i.id \notin s.consumed /\ BlockingClaims(s, i) = {}
    BY <1>2 DEF ClaimIntent, Admits, AdmitsClaim, AdmitsRescope, AdmitsRelease, AdmitsItemWrite,
                AdmitsLanding
  <2>2. /\ t.claims = PutClaim(s.claims, OpenedClaim(s, i))
        /\ t.consumed = s.consumed \cup {i.id}
    BY <1>2, CommittedFreshFields
  <2>3. OpenedClaim(s, i).id = i.id /\ OpenedClaim(s, i).key = i.key
    BY DEF OpenedClaim
  <2>4. ASSUME NEW c \in s.claims, c.key = i.key PROVE c.id = i.id
    BY <2>1, <2>4 DEF BlockingClaims
  <2>5. IdsOf(t) = IdsOf(s) \cup {i.id}
    BY <2>2, <2>3, <2>4 DEF IdsOf, PutClaim
  <2> QED
    BY <2>1, <2>2, <2>5
<1>3. CASE i \in RescopeIntent
  <2> DEFINE kept == {d \in s.claims : d.id # i.id}
             moved == {[d EXCEPT !.scope = i.scope] : d \in LiveClaimById(s, i.id)}
  <2>1. i.kind = "rescope" /\ i.id \in IdsOf(s)
    BY <1>3 DEF RescopeIntent, Admits, AdmitsClaim, AdmitsRescope, AdmitsRelease,
                AdmitsItemWrite, AdmitsLanding, LiveClaimById, IdsOf
  <2>2. t = [s EXCEPT !.tip = s.tip + 1, !.claims = kept \cup moved]
    BY <1>3, CommittedRescope
  <2>3. \A d \in s.claims : [d EXCEPT !.scope = i.scope].id = d.id
    BY DEF ClaimState, ActiveClaim
  <2>4. \A c \in kept \cup moved : \E d \in s.claims : c.id = d.id
    BY <2>3 DEF LiveClaimById
  <2>5. \A d \in s.claims : \E c \in kept \cup moved : c.id = d.id
    <3> SUFFICES ASSUME NEW d \in s.claims PROVE \E c \in kept \cup moved : c.id = d.id
      OBVIOUS
    <3>1. CASE d.id = i.id
      <4>1. [d EXCEPT !.scope = i.scope] \in moved
        BY <3>1 DEF LiveClaimById
      <4> QED
        BY <2>3, <4>1
    <3> QED
      BY <3>1
  <2> HIDE DEF kept, moved
  <2>6. t.claims = kept \cup moved /\ t.consumed = s.consumed
    BY <2>2 DEF ClaimState
  <2> QED
    BY <2>1, <2>4, <2>5, <2>6 DEF IdsOf
<1>4. ASSUME \E c \in LiveClaimById(s, i.id) : TRUE, t.claims = DropClaim(s, i.id)
      PROVE  IdsOf(t) = IdsOf(s) \ {i.id} /\ i.id \in IdsOf(s)
  BY <1>4 DEF LiveClaimById, DropClaim, IdsOf
<1>5. CASE i \in ReleaseIntent
  <2> DEFINE claims == DropClaim(s, i.id)
  <2>1. i.kind = "release" /\ \E c \in LiveClaimById(s, i.id) : TRUE
    BY <1>5 DEF ReleaseIntent, Admits, AdmitsClaim, AdmitsRescope, AdmitsRelease,
                AdmitsItemWrite, AdmitsLanding
  <2>2. t = [s EXCEPT !.tip = s.tip + 1, !.claims = claims]
    BY <1>5, CommittedRelease
  <2> HIDE DEF claims
  <2>3. t.claims = claims /\ t.consumed = s.consumed
    BY <2>2 DEF ClaimState
  <2> QED
    BY <1>4, <2>1, <2>3 DEF claims
<1>6. CASE i \in ItemWriteIntent
  <2> DEFINE items == [s.items EXCEPT ![i.item] = i.blob]
  <2>1. i.kind = "write" /\ t = [s EXCEPT !.tip = s.tip + 1, !.items = items]
    BY <1>6, CommittedItemWrite DEF ItemWriteIntent
  <2> HIDE DEF items
  <2>2. t.claims = s.claims /\ t.consumed = s.consumed
    BY <2>1 DEF ClaimState
  <2> QED
    BY <2>1, <2>2 DEF IdsOf
<1>7. CASE i \in LandingIntent
  <2> DEFINE claims == DropClaim(s, i.id)
             items == [s.items EXCEPT ![i.item] = i.blob]
  <2>1. i.kind = "landing" /\ \E c \in LiveClaimById(s, i.id) : TRUE
    BY <1>7 DEF LandingIntent, Admits, AdmitsClaim, AdmitsRescope, AdmitsRelease,
                AdmitsItemWrite, AdmitsLanding
  <2>2. t = [s EXCEPT !.tip = s.tip + 1, !.claims = claims, !.items = items]
    BY <1>7, CommittedLanding
  <2> HIDE DEF claims, items
  <2>3. t.claims = claims /\ t.consumed = s.consumed
    BY <2>2 DEF ClaimState
  <2> QED
    BY <1>4, <2>1, <2>3 DEF claims
<1> QED
  BY <1>1, <1>2, <1>3, <1>5, <1>6, <1>7 DEF AnyIntent
=============================================================================
