---------------------------- MODULE ClaimLedger ----------------------------
(***************************************************************************)
(* The claim state that refs/aco/state carries, and the one pure function  *)
(* that changes it: protocol.apply.  A state is what one commit of the ref *)
(* holds; an intent is what one command asks of it.  This module has no    *)
(* variables: Ledger applies intents atomically, StateRefStore through a   *)
(* fetch, commit and push loop.                                            *)
(***************************************************************************)
EXTENDS Naturals, FiniteSets

CONSTANTS
  Keys,           \* claim keys: one per issue number or lane branch
  ClaimIds,       \* claim ids, minted by the caller or given on the command line
  Claimants,      \* (agent, role) pairs
  Coordinators,   \* the claimants whose role is "coordinator"
  Branches,       \* branch names a claim records
  Paths,          \* scope entries
  ResourceNames,  \* named numbered resources, "port" for instance
  ItemIds,        \* work items under items/
  Blobs,          \* git blob ids of item contents
  NoResource,     \* an intent that names no resource
  NoHold,         \* a claim that holds no resource
  NoBlob,         \* an item that has no blob
  AnyStore,       \* an item write that did not check the rest of items/
  NoClaim         \* the absence of a claim

ASSUME ConstantsAssumption ==
  /\ Coordinators \subseteq Claimants
  /\ NoResource \notin ResourceNames
  /\ NoBlob \notin Blobs
  /\ AnyStore \notin [ItemIds -> Blobs \cup {NoBlob}]

Positive == Nat \ {0}

\* A resource hold: a name and one of its positive numbers.
ResourceHold == ResourceNames \X Positive

ASSUME NoHoldAssumption == NoHold \notin ResourceHold

\* One live claim.  A scope is a set of paths; base and whole_reason, which
\* no transition compares, are left out.
ActiveClaim ==
  [key : Keys, id : ClaimIds, who : Claimants, branch : Branches,
   scope : SUBSET Paths, hold : ResourceHold \cup {NoHold}, opened : Nat]

ASSUME NoClaimAssumption == NoClaim \notin ActiveClaim

\* The state at one commit.  tip stands for the commit id: the commit's
\* height in the ref's linear history, 0 for a ref that does not exist.
ClaimState ==
  [tip : Nat, claims : SUBSET ActiveClaim, consumed : SUBSET ClaimIds,
   occupied : SUBSET ResourceHold, items : [ItemIds -> Blobs \cup {NoBlob}]]

EMPTY_STATE ==
  [tip |-> 0, claims |-> {}, consumed |-> {}, occupied |-> {},
   items |-> [i \in ItemIds |-> NoBlob]]

\* What the bootstrap commit holds: schema.toml and nothing else.
BootstrapState(tip) == [EMPTY_STATE EXCEPT !.tip = tip]

----------------------------------------------------------------------------
(* The intents.  A claim that asks for a resource names its value, or asks *)
(* for the next free one with value 0.                                     *)

ClaimIntent ==
  [kind : {"claim"}, id : ClaimIds, key : Keys, who : Claimants, branch : Branches,
   scope : SUBSET Paths, resource : ResourceNames \cup {NoResource}, value : Nat]

RescopeIntent ==
  [kind : {"rescope"}, id : ClaimIds, who : Claimants, scope : SUBSET Paths]

ReleaseIntent ==
  [kind : {"release"}, id : ClaimIds, who : Claimants, override : BOOLEAN]

ItemWriteIntent ==
  [kind : {"write"}, item : ItemIds, expected : Blobs \cup {NoBlob}, blob : Blobs,
   store : {AnyStore} \cup [ItemIds -> Blobs \cup {NoBlob}]]

LandingIntent ==
  [kind : {"landing"}, id : ClaimIds, who : Claimants, override : BOOLEAN,
   item : ItemIds, expected : Blobs \cup {NoBlob}, blob : Blobs]

AnyIntent ==
  ClaimIntent \cup RescopeIntent \cup ReleaseIntent \cup ItemWriteIntent \cup LandingIntent

----------------------------------------------------------------------------
(* Which intents a state admits.                                           *)

LiveClaimById(state, id) == {c \in state.claims : c.id = id}

SameClaimant(claim, intent) == claim.who = intent.who

\* Mutant of BlockingClaims: a claimant's own claims do not block it.
BlockingClaimsOfOthers(state, intent) ==
  {c \in state.claims : c.id # intent.id /\ c.key = intent.key /\ ~SameClaimant(c, intent)}

\* Two claims conflict when they name the same issue or the same lane
\* branch; overlapping scopes never do.
BlockingClaims(state, intent) ==
  {c \in state.claims : c.id # intent.id /\ c.key = intent.key}

ClaimMatchesIntent(claim, intent) ==
  /\ claim.key = intent.key
  /\ SameClaimant(claim, intent)
  /\ claim.branch = intent.branch
  /\ claim.scope = intent.scope

\* The interrupted claim run again: same id, still live, same fields.
IsReplay(state, intent) ==
  /\ intent.id \in state.consumed
  /\ \E c \in LiveClaimById(state, intent.id) : ClaimMatchesIntent(c, intent)

\* Every value of a resource that was ever handed out.
OccupiedValues(state, name) == {h[2] : h \in {g \in state.occupied : g[1] = name}}

\* The least positive number outside a finite set of numbers.
AutoResourceValue(values) ==
  CHOOSE n \in 1 .. Cardinality(values) + 1 :
    /\ n \notin values
    /\ \A m \in 1 .. Cardinality(values) + 1 : m \notin values => n <= m

ResolvedResource(state, intent) ==
  IF intent.resource = NoResource THEN NoHold
  ELSE <<intent.resource,
         IF intent.value = 0
         THEN AutoResourceValue(OccupiedValues(state, intent.resource))
         ELSE intent.value>>

AuthorizeRelease(claim, intent) ==
  IF intent.override THEN intent.who \in Coordinators ELSE SameClaimant(claim, intent)

\* Mutant of AdmitsClaim: a consumed id may be claimed again.
AdmitsClaimReusingIds(state, intent) ==
  /\ intent.kind = "claim"
  /\ state.tip # 0
  /\ BlockingClaims(state, intent) = {}
  /\ ResolvedResource(state, intent) \notin state.occupied

\* Mutant of AdmitsClaim: a number a command names is not looked up.
AdmitsClaimReusingNumbers(state, intent) ==
  /\ intent.kind = "claim"
  /\ state.tip # 0
  /\ \/ IsReplay(state, intent)
     \/ /\ intent.id \notin state.consumed
        /\ BlockingClaims(state, intent) = {}

AdmitsClaim(state, intent) ==
  /\ intent.kind = "claim"
  /\ state.tip # 0
  /\ \/ IsReplay(state, intent)
     \/ /\ intent.id \notin state.consumed
        /\ BlockingClaims(state, intent) = {}
        /\ ResolvedResource(state, intent) \notin state.occupied

AdmitsRescope(state, intent) ==
  /\ intent.kind = "rescope"
  /\ \E c \in LiveClaimById(state, intent.id) : SameClaimant(c, intent)

AdmitsRelease(state, intent) ==
  /\ intent.kind = "release"
  /\ \E c \in LiveClaimById(state, intent.id) : AuthorizeRelease(c, intent)

\* Mutant of AdmitsItemWrite: the rest of items/ is not compared.
AdmitsItemWriteUnchecked(state, intent) ==
  /\ intent.kind = "write"
  /\ state.tip # 0
  /\ state.items[intent.item] = intent.expected

AdmitsItemWrite(state, intent) ==
  /\ intent.kind = "write"
  /\ state.tip # 0
  /\ state.items[intent.item] = intent.expected
  /\ intent.store # AnyStore => state.items = intent.store

AdmitsLanding(state, intent) ==
  /\ intent.kind = "landing"
  /\ state.tip # 0
  /\ \E c \in LiveClaimById(state, intent.id) : AuthorizeRelease(c, intent)
  /\ state.items[intent.item] = intent.expected

\* apply raises on an intent the state does not admit.
Admits(state, intent) ==
  \/ AdmitsClaim(state, intent)
  \/ AdmitsRescope(state, intent)
  \/ AdmitsRelease(state, intent)
  \/ AdmitsItemWrite(state, intent)
  \/ AdmitsLanding(state, intent)

----------------------------------------------------------------------------
(* What an admitted intent makes of the state.                             *)

\* The claim mapping has one entry per key: an insertion replaces whatever
\* the key held.
PutClaim(claims, claim) == {c \in claims : c.key # claim.key} \cup {claim}

\* Drops the claims an id names, through their keys.
DropClaim(state, id) ==
  {c \in state.claims : \A d \in LiveClaimById(state, id) : c.key # d.key}

OpenedClaim(state, intent) ==
  [key |-> intent.key, id |-> intent.id, who |-> intent.who, branch |-> intent.branch,
   scope |-> intent.scope, hold |-> ResolvedResource(state, intent), opened |-> state.tip]

ApplyClaimIntent(state, intent) ==
  IF IsReplay(state, intent) THEN state
  ELSE [state EXCEPT
          !.claims   = PutClaim(state.claims, OpenedClaim(state, intent)),
          !.consumed = @ \cup {intent.id},
          !.occupied = @ \cup ({ResolvedResource(state, intent)} \ {NoHold})]

\* Mutant of ApplyRescopeIntent: the rescoped claim counts from the rescope.
ApplyRescopeReopening(state, intent) ==
  [state EXCEPT
     !.claims = {c \in state.claims : c.id # intent.id}
                \cup {[c EXCEPT !.scope = intent.scope, !.opened = state.tip] :
                      c \in LiveClaimById(state, intent.id)}]

ApplyRescopeIntent(state, intent) ==
  [state EXCEPT
     !.claims = {c \in state.claims : c.id # intent.id}
                \cup {[c EXCEPT !.scope = intent.scope] : c \in LiveClaimById(state, intent.id)}]

\* Mutant of ApplyReleaseIntent: a release frees the number its claim held.
ApplyReleaseFreeingHold(state, intent) ==
  [state EXCEPT !.claims = DropClaim(state, intent.id),
                !.occupied = @ \ {c.hold : c \in LiveClaimById(state, intent.id)}]

ApplyReleaseIntent(state, intent) ==
  [state EXCEPT !.claims = DropClaim(state, intent.id)]

ApplyItemWriteIntent(state, intent) ==
  [state EXCEPT !.items = [@ EXCEPT ![intent.item] = intent.blob]]

ApplyLandingIntent(state, intent) ==
  [state EXCEPT !.claims = DropClaim(state, intent.id),
                !.items  = [@ EXCEPT ![intent.item] = intent.blob]]

Apply(state, intent) ==
  CASE intent.kind = "claim"   -> ApplyClaimIntent(state, intent)
    [] intent.kind = "rescope" -> ApplyRescopeIntent(state, intent)
    [] intent.kind = "release" -> ApplyReleaseIntent(state, intent)
    [] intent.kind = "landing" -> ApplyLandingIntent(state, intent)
    [] OTHER                   -> ApplyItemWriteIntent(state, intent)

\* The state the transition's own commit holds, one above the observed tip.
CommittedState(state, intent) ==
  [Apply(state, intent) EXCEPT !.tip = state.tip + 1]
=============================================================================
