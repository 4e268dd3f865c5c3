-------------------------- MODULE LaneStartProofs --------------------------
(***************************************************************************)
(* Proofs about aco start: it takes nothing over that it did not make, it   *)
(* prints a claim of its own session, and a start that nobody disturbs is  *)
(* never refused.                                                          *)
(***************************************************************************)
EXTENDS LaneStart, ClaimLedgerProofs

----------------------------------------------------------------------------
(* The inductive invariant.                                                *)

Labels ==
  {"item", "resolve", "dirty", "fetch", "add", "register", "checkout", "observe", "request",
   "read", "checks", "push"} \cup Ended

\* What may be at a worktree path.
Site ==
  {Absent, [kind |-> "directory"]}
  \cup [kind : {"linked"}, ours : BOOLEAN, branch : Branches, clean : BOOLEAN]
  \cup [kind : {"main", "inside"}, ours : {FALSE}, branch : Branches, clean : {TRUE}]

Item == [open : BOOLEAN, slug : Slugs \cup {NoSlug}, scope : Scopes \cup {NoScope, Malformed}]

Typed ==
  /\ state \in ClaimState /\ IsFiniteSet(state.occupied) /\ state.tip # 0
  /\ item \in [Keys -> Item]
  /\ place \in [Places -> Site] /\ found \in [Places -> Site]
  /\ branches \subseteq Branches
  /\ command \in [Runs -> Commands] /\ after \in Orders
  /\ pc \in [Runs -> Labels] /\ target \in [Runs -> Branches]
  /\ seen \in [Runs -> ClaimState] /\ asked \in [Runs -> SUBSET Paths]
  /\ reported \in [Runs -> ClaimIds \cup {NoId}]
  /\ opened \subseteq ActiveClaim

\* Every claim that is live was opened, no other has its key, and every id in use
\* is a claim's; what a start is about to claim has the scope it was given.
OpenedInv ==
  /\ \A c, d \in state.claims : c.key = d.key => c = d
  /\ state.claims \subseteq opened
  /\ \A id \in state.consumed : \E c \in opened : c.id = id
  /\ \A r \in Runs : pc[r] = "push" => command[r].scope \in {NoScope, asked[r]}
  /\ ReportsItsOwnClaim

\* The steps at which a start has found or made its worktree.
Standing == {"dirty", "observe", "request", "read", "checks", "push", "claimed", "resumed"}

\* What was there to begin with is there, clean, and a start stands on it only if it is
\* its lane; a worktree between its making and its checkout is its start's own.
SiteInv ==
  /\ \A p \in Places : found[p].kind # "absent" =>
       /\ place[p].kind # "absent" /\ (place[p] = found[p] \/ "edited" \in upsets)
       /\ \A b \in Branches : ThisLane(place[p], b) => ThisLane(found[p], b)
  /\ \A p \in Places : found[p].kind = "linked" => found[p].clean
  /\ \A r \in Runs : pc[r] = "checkout" =>
       /\ Here(r) = HalfMade(target[r])
       /\ found[PlaceOf(target[r])].kind = "absent"
       /\ \A q \in Runs \ {r} : pc[q] = "checkout" => PlaceOf(target[q]) # PlaceOf(target[r])
  /\ \A r \in Runs : pc[r] \in Standing =>
       \/ found[PlaceOf(target[r])].kind = "absent"
       \/ ThisLane(found[PlaceOf(target[r])], target[r])

IInv ==
  /\ Typed
  /\ OpenedInv
  /\ SiteInv

Underway(r) == pc[r] \notin Ended \cup {"item"}

\* A start under way has seen those it waits for end.
OrderInv == \A r \in Runs : Underway(r) => \A q \in after[r] : pc[q] \in Ended

\* Nothing was upset, and one session made every start so far.
Alone ==
  /\ upsets = {}
  /\ \A q, r \in Runs : pc[q] = "item" \/ pc[r] = "item" \/ command[q].who = command[r].who

\* A branch with the prefix of a start that began.
Begun(b) == \E q \in Runs : pc[q] # "item" /\ PrefixOf[command[q].who] = b[1]

\* Then branches and worktrees are in step, whichever start was killed where:
\* each path that was free is free, or holds the lane's worktree; each branch has
\* its worktree, or a start that is about to make it.
LanesMatch ==
  /\ \A r \in Runs : Underway(r) => target[r] = StartBranch(r)
  /\ \A p \in Places : found[p].kind = "absent" =>
       \/ place[p] = Absent
       \/ \E b \in branches : /\ PlaceOf(b) = p /\ Begun(b)
                              /\ \/ place[p] = Worktree(b)
                                 \/ /\ place[p] = HalfMade(b)
                                    /\ \E q \in Runs : pc[q] = "checkout" /\ target[q] = b
  /\ \A b \in branches :
       \/ place[PlaceOf(b)] \in {Worktree(b), HalfMade(b)}
       \/ \E q \in Runs : pc[q] = "register" /\ target[q] = b
       \/ \E p \in Places : found[p].kind = "linked" /\ found[p].ours /\ found[p].branch = b
  /\ \A r \in Runs : pc[r] = "register" =>
       /\ Here(r) = Absent /\ target[r] \in branches
       /\ \A q \in Runs \ {r} : pc[q] = "register" => target[q] # target[r]

\* What a start that nobody disturbs relies on.
OnItsWay(r) ==
  /\ pc[r] \in {"fetch", "add"} => Here(r) = Absent /\ target[r] \notin branches
  /\ pc[r] \in Standing \ Ended => Here(r) = Worktree(target[r])
  /\ pc[r] \in {"request", "read", "checks", "push"} => LiveClaimOn(state, command[r].key) = {}
  /\ pc[r] = "checks" => LiveClaimOn(seen[r], command[r].key) = {}
  /\ pc[r] # "refused"

LoneInv == OrderInv /\ (Alone => LanesMatch) /\ (\A r \in Runs : Undisturbed(r) => OnItsWay(r))

----------------------------------------------------------------------------
(* Types.                                                                  *)

RunStep(r) == StartStep(r) \/ Kill(r) \/ Fail(r)

\* The parts of a branch; a prefix and a place make one branch.
LEMMA BranchParts ==
  /\ \A b \in Branches : b[1] \in Prefixes /\ b[2] \in Keys /\ b[3] \in Slugs /\ PlaceOf(b) \in Places
  /\ \A b, c \in Branches : b[1] = c[1] /\ PlaceOf(b) = PlaceOf(c) => b = c
BY LaneAssumption DEF PlaceOf, Places

\* What a command line holds.
LEMMA CommandParts ==
  ASSUME NEW c \in Commands
  PROVE  /\ c.who \in Claimants /\ c.key \in Keys /\ c.slug \in Slugs \cup {NoSlug}
         /\ c.scope \in (SUBSET Paths) \cup {NoScope} /\ PrefixOf[c.who] \in Prefixes
<1>1. c \in [who : Claimants, key : Keys, slug : Slugs \cup {NoSlug},
             scope : (SUBSET Paths) \cup {NoScope}]
  BY LaneAssumption
<1>2. PrefixOf \in [Claimants -> Prefixes]
  BY LaneAssumption
<1> QED
  BY <1>1, <1>2

\* A lane's worktree, made or half made.
LEMMA WorktreeSites ==
  ASSUME NEW b \in Branches
  PROVE  /\ Worktree(b) \in Site /\ HalfMade(b) \in Site /\ Worktree(b) # HalfMade(b)
         /\ Worktree(b).kind = "linked" /\ HalfMade(b).kind = "linked"
         /\ Worktree(b).clean /\ ~HalfMade(b).clean
         /\ Worktree(b).branch = b /\ HalfMade(b).branch = b /\ ThisLane(Worktree(b), b)
BY DEF Worktree, HalfMade, Site, ThisLane

\* A free path holds nothing.
LEMMA AbsentSite ==
  /\ Absent.kind = "absent" /\ \A s \in Site : s.kind = "absent" => s = Absent
  /\ \A b \in Branches : Absent # Worktree(b) /\ Absent # HalfMade(b)
<1>1. Absent.kind = "absent"
  BY DEF Absent
<1>2. ASSUME NEW s \in Site, s.kind = "absent" PROVE s = Absent
  <2>1. CASE s \in {Absent, [kind |-> "directory"]}
    BY <1>2, <2>1
  <2>2. CASE s \notin {Absent, [kind |-> "directory"]}
    BY <1>2, <2>2 DEF Site
  <2> QED
    BY <2>1, <2>2
<1> QED
  BY <1>1, <1>2, WorktreeSites

\* A linked worktree that is edited is one still.
LEMMA EditedSite ==
  ASSUME NEW s \in Site, s.kind = "linked"
  PROVE  LET t == [s EXCEPT !.clean = FALSE]
         IN  t \in Site /\ t.kind = "linked" /\ ~t.clean
<1>1. CASE s \in {Absent, [kind |-> "directory"]}
  BY <1>1 DEF Absent
<1>2. CASE s \notin {Absent, [kind |-> "directory"]}
  <2>1. s \in [kind : {"linked"}, ours : BOOLEAN, branch : Branches, clean : BOOLEAN]
    BY <1>2 DEF Site
  <2> QED
    BY <2>1 DEF Site
<1> QED
  BY <1>1, <1>2

\* A clean worktree of the lane is the lane's worktree.
LEMMA LaneSite ==
  ASSUME NEW s \in Site, NEW b \in Branches, ThisLane(s, b), s.clean
  PROVE  s = Worktree(b)
<1>1. CASE s \in {Absent, [kind |-> "directory"]}
  BY <1>1 DEF Absent, ThisLane
<1>2. CASE s \notin {Absent, [kind |-> "directory"]}
  <2>1. s \in [kind : {"linked"}, ours : BOOLEAN, branch : Branches, clean : BOOLEAN]
    BY <1>2 DEF Site, ThisLane
  <2> QED
    BY <2>1 DEF ThisLane, Worktree
<1> QED
  BY <1>1, <1>2

\* The scopes of the state's claims and of the items.
LEMMA ResolvedScopeType ==
  ASSUME Typed, NEW r \in Runs
  PROVE  /\ ResolvedScope(r) # NoScope /\ SliceRulesPass(r) => ResolvedScope(r) \in SUBSET Paths
         /\ command[r].scope # NoScope => ResolvedScope(r) = command[r].scope
<1>1. command[r] \in Commands
  BY DEF Typed
<1>2. command[r].key \in Keys /\ command[r].scope \in (SUBSET Paths) \cup {NoScope}
  BY <1>1, CommandParts
<1>3. ItemScope(r) \in Scopes \cup {NoScope, Malformed}
  BY <1>2 DEF Typed, Item, ItemScope
<1>4. \A c \in LiveClaimOn(seen[r], command[r].key) : c.scope \in SUBSET Paths
  BY DEF Typed, LiveClaimOn, ClaimState, ActiveClaim
<1> QED
  BY <1>2, <1>3, <1>4 DEF ResolvedScope, SliceRulesPass, Scopes

\* What a start asks of the claim state is a claim's intent under a fresh id.
LEMMA RequestType ==
  ASSUME Typed, OpenedInv, NEW r \in Runs, NEW id \in MintedIds(r)
  PROVE  /\ Request(r, id) \in ClaimIntent /\ Request(r, id) \in AnyIntent
         /\ id \in ClaimIds /\ ~IsReplay(state, Request(r, id)) /\ id \notin state.consumed
         /\ OpenedClaim(state, Request(r, id)) =
              [key |-> command[r].key, id |-> id, who |-> command[r].who, branch |-> target[r],
               scope |-> asked[r], hold |-> NoHold, opened |-> state.tip]
<1>0. command[r] \in Commands /\ target[r] \in Branches /\ asked[r] \in SUBSET Paths
  BY DEF Typed
<1>1. command[r].who \in Claimants /\ command[r].key \in Keys
  BY <1>0, CommandParts
<1>2. Request(r, id) \in ClaimIntent /\ id \in ClaimIds
  BY <1>0, <1>1 DEF Request, ClaimIntent, MintedIds
<1>3. id \notin state.consumed
  BY DEF OpenedInv, MintedIds
<1>4. ~IsReplay(state, Request(r, id))
  BY <1>3 DEF IsReplay, Request
<1>5. ResolvedResource(state, Request(r, id)) = NoHold
  BY DEF ResolvedResource, Request
<1> QED
  BY <1>2, <1>3, <1>4, <1>5 DEF OpenedClaim, Request, AnyIntent

\* A step of a start moves that start alone, and starts no other.
LEMMA RunMoves ==
  ASSUME Typed, NEW r \in Runs, RunStep(r)
  PROVE  /\ UNCHANGED <<command, after, found, item, moves>>
         /\ pc[r] \notin Ended /\ pc' \in [Runs -> Labels] /\ pc'[r] # "item"
         /\ \A q \in Runs \ {r} : /\ pc'[q] = pc[q] /\ target'[q] = target[q] /\ seen'[q] = seen[q]
                                  /\ asked'[q] = asked[q] /\ reported'[q] = reported[q]
<1> USE DEF fixed, world, Go, At, Refused, Labels, Ended
<1>1. ASSUME NEW x \in Labels, pc' = [pc EXCEPT ![r] = x], x # "item"
      PROVE  pc' \in [Runs -> Labels] /\ pc'[r] # "item" /\ \A q \in Runs \ {r} : pc'[q] = pc[q]
  BY <1>1 DEF Typed
<1>2. \E x \in Labels \ {"item"} : pc' = [pc EXCEPT ![r] = x] /\ pc[r] \notin Ended
  <2>1. CASE ReadItem(r) \/ ResolveWorktree(r) \/ RefuseDirty(r) \/ FetchRemote(r)
    BY <2>1 DEF ReadItem, ResolveWorktree, RefuseDirty, FetchRemote
  <2>2. CASE AddBranch(r) \/ AddWorktree(r) \/ CheckOut(r)
    BY <2>2 DEF AddBranch, AddWorktree, CheckOut
  <2>3. CASE ObserveForStart(r)
    BY <2>3 DEF ObserveForStart
  <2>4. CASE BuildRequest(r) \/ ObserveClaims(r) \/ CheckTarget(r)
    BY <2>4 DEF BuildRequest, ObserveClaims, CheckTarget
  <2>5. CASE PushClaim(r)
    BY <2>5 DEF PushClaim
  <2>6. CASE Kill(r) \/ Fail(r)
    BY <2>6 DEF Kill, Fail
  <2> QED
    BY <2>1, <2>2, <2>3, <2>4, <2>5, <2>6 DEF RunStep, StartStep
<1>3. UNCHANGED <<command, after, found, item, moves>>
  BY DEF RunStep, StartStep, ReadItem, ResolveWorktree, RefuseDirty, FetchRemote, AddBranch,
     AddWorktree, CheckOut, ObserveForStart, BuildRequest, ObserveClaims, CheckTarget, PushClaim,
     Kill, Fail
<1>4. \A q \in Runs \ {r} : /\ target'[q] = target[q] /\ seen'[q] = seen[q]
                            /\ asked'[q] = asked[q] /\ reported'[q] = reported[q]
  <2>1. CASE ReadItem(r) \/ ResolveWorktree(r) \/ RefuseDirty(r) \/ FetchRemote(r)
    BY <2>1 DEF ReadItem, ResolveWorktree, RefuseDirty, FetchRemote, Typed
  <2>2. CASE AddBranch(r) \/ AddWorktree(r) \/ CheckOut(r)
    BY <2>2 DEF AddBranch, AddWorktree, CheckOut, Typed
  <2>3. CASE ObserveForStart(r)
    BY <2>3 DEF ObserveForStart, Typed
  <2>4. CASE BuildRequest(r) \/ ObserveClaims(r) \/ CheckTarget(r)
    BY <2>4 DEF BuildRequest, ObserveClaims, CheckTarget, Typed
  <2>5. CASE PushClaim(r)
    BY <2>5 DEF PushClaim, Typed
  <2>6. CASE Kill(r) \/ Fail(r)
    BY <2>6 DEF Kill, Fail, Typed
  <2> QED
    BY <2>1, <2>2, <2>3, <2>4, <2>5, <2>6 DEF RunStep, StartStep
<1> QED
  BY <1>1, <1>2, <1>3, <1>4

\* A step of a start keeps the types.
LEMMA RunTyped ==
  ASSUME Typed, OpenedInv, NEW r \in Runs, RunStep(r)
  PROVE  Typed'
<1> USE DEF world
<1>0. /\ UNCHANGED <<command, after, found, item>> /\ pc' \in [Runs -> Labels]
      /\ command[r] \in Commands /\ target[r] \in Branches
  BY RunMoves DEF Typed
<1>01. /\ PlaceOf(target[r]) \in Places /\ Worktree(target[r]) \in Site
       /\ HalfMade(target[r]) \in Site
  BY <1>0, BranchParts, WorktreeSites
<1>1. CASE ReadItem(r)
  <2>1. SlugFor(r) # NoSlug => StartBranch(r) \in Branches
    <3>1. command[r].key \in Keys /\ PrefixOf[command[r].who] \in Prefixes
      BY <1>0, CommandParts
    <3>2. SlugFor(r) \in Slugs \cup {NoSlug}
      BY <1>0, <3>1, CommandParts DEF SlugFor, Typed, Item
    <3> QED
      BY <3>1, <3>2, LaneAssumption DEF StartBranch
  <2>2. target' \in [Runs -> Branches]
    BY <1>1, <2>1 DEF ReadItem, Refused, Typed
  <2> QED
    BY <1>0, <1>1, <2>2 DEF ReadItem, Refused, Typed
<1>2. CASE ResolveWorktree(r) \/ RefuseDirty(r) \/ FetchRemote(r) \/ BuildRequest(r) \/ Fail(r)
  BY <1>0, <1>2 DEF ResolveWorktree, RefuseDirty, FetchRemote, BuildRequest, Fail, Refused, Typed
<1>3. CASE AddBranch(r)
  <2>1. branches' \subseteq Branches
    BY <1>0, <1>3 DEF AddBranch, Typed
  <2> QED
    BY <1>0, <1>3, <2>1 DEF AddBranch, Refused, Typed
<1>4. CASE AddWorktree(r) \/ CheckOut(r) \/ Kill(r)
  <2>1. place' \in [Places -> Site]
    BY <1>01, <1>4 DEF AddWorktree, CheckOut, Kill, Typed
  <2> QED
    BY <1>0, <1>4, <2>1 DEF AddWorktree, CheckOut, Kill, Refused, Typed
<1>5. CASE ObserveForStart(r)
  <2>1. reported' \in [Runs -> ClaimIds \cup {NoId}]
    <3>1. \A c \in state.claims : c.id \in ClaimIds
      BY DEF Typed, ClaimState, ActiveClaim
    <3> QED
      BY <1>5, <3>1 DEF ObserveForStart, LiveClaimOn, Refused, Typed
  <2> QED
    BY <1>0, <1>5, <2>1 DEF ObserveForStart, Refused, Typed
<1>6. CASE ObserveClaims(r) \/ CheckTarget(r)
  <2>1. seen' \in [Runs -> ClaimState] /\ asked' \in [Runs -> SUBSET Paths]
    BY <1>6, ResolvedScopeType DEF ObserveClaims, CheckTarget, Refused, Typed
  <2> QED
    BY <1>0, <1>6, <2>1 DEF ObserveClaims, CheckTarget, Refused, Typed
<1>7. CASE PushClaim(r)
  <2>1. PICK id \in MintedIds(r) :
          IF Admits(state, Request(r, id))
          THEN /\ state' = CommittedState(state, Request(r, id))
               /\ opened' = opened \cup {OpenedClaim(state, Request(r, id))}
               /\ \/ reported' = [reported EXCEPT ![r] = id]
                  \/ UNCHANGED reported
               /\ UNCHANGED <<target, seen, asked>>
          ELSE UNCHANGED <<state, opened, reported, target, seen, asked>>
    BY <1>7 DEF PushClaim, Refused
  <2>2. /\ Request(r, id) \in ClaimIntent /\ Request(r, id) \in AnyIntent /\ id \in ClaimIds
    BY RequestType
  <2>3. /\ CommittedState(state, Request(r, id)) \in ClaimState
        /\ IsFiniteSet(CommittedState(state, Request(r, id)).occupied)
        /\ CommittedState(state, Request(r, id)).tip # 0
    <3>1. state.tip \in Nat /\ state.tip + 1 # 0
      BY DEF Typed, ClaimState
    <3> QED
      BY <2>2, <3>1, CommittedType DEF Typed
  <2>4. OpenedClaim(state, Request(r, id)) \in ActiveClaim
    BY <2>2, OpenedClaimType DEF Typed
  <2>5. /\ state' \in ClaimState /\ IsFiniteSet(state'.occupied) /\ state'.tip # 0
        /\ opened' \subseteq ActiveClaim /\ UNCHANGED <<target, seen, asked>>
    BY <2>1, <2>3, <2>4 DEF Typed
  <2>6. reported' \in [Runs -> ClaimIds \cup {NoId}]
    BY <2>1, <2>2 DEF Typed
  <2> QED
    BY <1>0, <1>7, <2>5, <2>6 DEF PushClaim, Typed
<1> QED
  BY <1>1, <1>2, <1>3, <1>4, <1>5, <1>6, <1>7 DEF RunStep, StartStep

\* What a release of a live claim does to the claims.
LEMMA ReleaseTyped ==
  ASSUME Typed, NEW c \in state.claims, ReleaseClaim(c)
  PROVE  /\ state' \in ClaimState /\ IsFiniteSet(state'.occupied) /\ state'.tip # 0
         /\ state'.claims \subseteq state.claims /\ state'.consumed = state.consumed
<1> DEFINE i == [kind |-> "release", id |-> c.id, who |-> c.who, override |-> FALSE]
<1>1. i \in ReleaseIntent /\ i \in AnyIntent
  BY DEF Typed, ClaimState, ActiveClaim, ReleaseIntent, AnyIntent
<1>2. state' = CommittedState(state, i)
  BY DEF ReleaseClaim
<1> HIDE DEF i
<1>3. state' = [state EXCEPT !.tip = state.tip + 1, !.claims = DropClaim(state, i.id)]
  BY <1>1, <1>2, CommittedRelease DEF Typed
<1>4. state'.claims \subseteq state.claims /\ state'.consumed = state.consumed
  BY <1>3 DEF Typed, ClaimState, DropClaim
<1>5. state.tip \in Nat /\ state.tip + 1 # 0
  BY DEF Typed, ClaimState
<1> QED
  BY <1>1, <1>2, <1>4, <1>5, CommittedType DEF Typed

\* People move no start, and open no claim.
LEMMA PeopleMove ==
  ASSUME PeopleStep
  PROVE  UNCHANGED <<pc, target, seen, asked, reported, opened, command, after, faults>>
BY DEF PeopleStep, CloseItem, Retitle, Edit, RemoveLane, ReleaseClaim, Moves, run

\* People keep the types.
LEMMA PeopleTyped ==
  ASSUME Typed, PeopleStep
  PROVE  Typed'
<1>0. UNCHANGED <<pc, target, seen, asked, reported, opened, command, after>>
  BY PeopleMove
<1>1. ASSUME NEW k \in Keys, CloseItem(k) PROVE Typed'
  <2>1. item' \in [Keys -> Item]
    BY <1>1 DEF CloseItem, Typed, Item
  <2> QED
    BY <1>0, <1>1, <2>1 DEF CloseItem, Typed
<1>2. ASSUME NEW k \in Keys, NEW slug \in Slugs \cup {NoSlug}, Retitle(k, slug) PROVE Typed'
  <2>1. item' \in [Keys -> Item]
    BY <1>2 DEF Retitle, Typed, Item
  <2> QED
    BY <1>0, <1>2, <2>1 DEF Retitle, Typed
<1>3. ASSUME NEW p \in Places, Edit(p) PROVE Typed'
  <2>2. [place[p] EXCEPT !.clean = FALSE] \in Site
    BY <1>3, EditedSite DEF Edit, Typed
  <2>3. place' \in [Places -> Site]
    BY <1>3, <2>2 DEF Edit, Typed
  <2> QED
    BY <1>0, <1>3, <2>3 DEF Edit, Typed
<1>4. ASSUME NEW p \in Places, RemoveLane(p) PROVE Typed'
  <2>1. Absent \in Site
    BY DEF Site
  <2>2. place' \in [Places -> Site] /\ found' \in [Places -> Site] /\ branches' \subseteq Branches
    BY <1>4, <2>1 DEF RemoveLane, Typed
  <2> QED
    BY <1>0, <1>4, <2>2 DEF RemoveLane, Typed
<1>5. ASSUME NEW c \in state.claims, ReleaseClaim(c) PROVE Typed'
  BY <1>0, <1>5, ReleaseTyped DEF ReleaseClaim, Typed
<1> QED
  BY <1>1, <1>2, <1>3, <1>4, <1>5 DEF PeopleStep

----------------------------------------------------------------------------
(* What a start reports.                                                   *)

\* The step by which a start comes where it is.
LEMMA Arrivals ==
  ASSUME Typed, NEW r \in Runs, RunStep(r)
  PROVE  /\ pc'[r] = "resolve" => ReadItem(r)
         /\ pc'[r] \in {"fetch", "dirty"} => ResolveWorktree(r)
         /\ pc'[r] = "add" => FetchRemote(r)
         /\ pc'[r] = "register" => AddBranch(r)
         /\ pc'[r] = "checkout" => AddWorktree(r)
         /\ pc'[r] = "observe" => RefuseDirty(r) \/ CheckOut(r)
         /\ pc'[r] \in {"request", "resumed"} => ObserveForStart(r)
         /\ pc'[r] = "read" => BuildRequest(r)
         /\ pc'[r] = "checks" => ObserveClaims(r)
         /\ pc'[r] = "push" => CheckTarget(r)
         /\ pc'[r] = "claimed" => PushClaim(r)
<1>1. \A x : Go(r, x) => pc'[r] = x
  BY DEF Go, Typed
<1>2. Refused(r) => pc'[r] = "refused"
  BY <1>1 DEF Refused
<1>3. CASE ReadItem(r) \/ ResolveWorktree(r) \/ RefuseDirty(r) \/ FetchRemote(r)
  BY <1>1, <1>2, <1>3 DEF ReadItem, ResolveWorktree, RefuseDirty, FetchRemote
<1>4. CASE AddBranch(r) \/ AddWorktree(r) \/ CheckOut(r)
  BY <1>1, <1>2, <1>4 DEF AddBranch, AddWorktree, CheckOut
<1>5. CASE ObserveForStart(r)
  BY <1>1, <1>2, <1>5 DEF ObserveForStart
<1>6. CASE BuildRequest(r) \/ ObserveClaims(r) \/ CheckTarget(r)
  BY <1>1, <1>2, <1>6 DEF BuildRequest, ObserveClaims, CheckTarget
<1>7. CASE PushClaim(r)
  BY <1>1, <1>2, <1>7 DEF PushClaim
<1>8. CASE Kill(r) \/ Fail(r)
  BY <1>1, <1>2, <1>8 DEF Kill, Fail
<1> QED
  BY <1>3, <1>4, <1>5, <1>6, <1>7, <1>8 DEF RunStep, StartStep

\* Claims come to be opened by a push alone.
LEMMA OpenedByPush ==
  ASSUME Typed, NEW r \in Runs, RunStep(r), ~PushClaim(r)
  PROVE  UNCHANGED <<state, opened>>
<1> USE DEF world, Refused
<1>1. CASE ReadItem(r) \/ ResolveWorktree(r) \/ RefuseDirty(r) \/ FetchRemote(r)
  BY <1>1 DEF ReadItem, ResolveWorktree, RefuseDirty, FetchRemote
<1>2. CASE AddBranch(r) \/ AddWorktree(r) \/ CheckOut(r) \/ Kill(r) \/ Fail(r)
  BY <1>2 DEF AddBranch, AddWorktree, CheckOut, Kill, Fail
<1>3. CASE ObserveForStart(r) \/ BuildRequest(r) \/ ObserveClaims(r) \/ CheckTarget(r)
  BY <1>3 DEF ObserveForStart, BuildRequest, ObserveClaims, CheckTarget
<1> QED
  BY <1>1, <1>2, <1>3 DEF RunStep, StartStep

\* A push opens the claim it asked for, or changes nothing.
LEMMA Pushes ==
  ASSUME Typed, OpenedInv, NEW r \in Runs, PushClaim(r)
  PROVE  \E id \in MintedIds(r) :
           \/ /\ pc'[r] = "refused" /\ UNCHANGED <<state, opened>>
              /\ ~Admits(state, Request(r, id))
           \/ LET c == OpenedClaim(state, Request(r, id)) IN
              /\ c.id = id /\ c.who = command[r].who /\ c.key = command[r].key
              /\ c.branch = target[r] /\ c.scope = asked[r]
              /\ opened' = opened \cup {c} /\ state'.claims \subseteq state.claims \cup {c}
              /\ \A d \in state'.claims : d.key = c.key => d = c
              /\ state'.consumed = state.consumed \cup {id}
              /\ pc'[r] = "claimed" => reported'[r] = id
              /\ pc'[r] \in {"claimed", "killed"} /\ UNCHANGED target
<1>1. PICK id \in MintedIds(r) :
        IF Admits(state, Request(r, id))
        THEN /\ state' = CommittedState(state, Request(r, id))
             /\ opened' = opened \cup {OpenedClaim(state, Request(r, id))}
             /\ \/ Go(r, "claimed") /\ reported' = [reported EXCEPT ![r] = id]
                \/ Go(r, "killed")
             /\ UNCHANGED target
        ELSE Refused(r) /\ UNCHANGED state
  BY DEF PushClaim
<1>2. \A x : Go(r, x) => pc'[r] = x
  BY DEF Go, Typed
<1>3. CASE ~Admits(state, Request(r, id))
  BY <1>1, <1>2, <1>3 DEF Refused
<1>4. CASE Admits(state, Request(r, id))
  <2>1. /\ Request(r, id) \in ClaimIntent /\ ~IsReplay(state, Request(r, id))
        /\ OpenedClaim(state, Request(r, id)) =
             [key |-> command[r].key, id |-> id, who |-> command[r].who, branch |-> target[r],
              scope |-> asked[r], hold |-> NoHold, opened |-> state.tip]
    BY RequestType
  <2>2. /\ state'.claims = PutClaim(state.claims, OpenedClaim(state, Request(r, id)))
        /\ state'.consumed = state.consumed \cup {Request(r, id).id}
    BY <1>1, <1>4, <2>1, CommittedFreshFields DEF Typed
  <2>3. Request(r, id).id = id
    BY DEF Request
  <2>4. pc'[r] = "claimed" => reported'[r] = id
    BY <1>1, <1>2, <1>4 DEF Typed
  <2>5. pc'[r] \in {"claimed", "killed"} /\ UNCHANGED target
    BY <1>1, <1>2, <1>4
  <2>6. /\ state'.claims \subseteq state.claims \cup {OpenedClaim(state, Request(r, id))}
        /\ \A d \in state'.claims : d.key = OpenedClaim(state, Request(r, id)).key
                                    => d = OpenedClaim(state, Request(r, id))
    BY <2>2 DEF PutClaim
  <2> QED
    BY <1>1, <1>4, <2>1, <2>2, <2>3, <2>4, <2>5, <2>6
<1> QED
  BY <1>3, <1>4

\* The claim a start reported is one of its own.
ReportsOwn(r) ==
  Reported(r) =>
    \E c \in opened :
      /\ c.id = reported[r]
      /\ c.who = command[r].who /\ c.key = command[r].key /\ c.branch = target[r]
      /\ command[r].scope \in {NoScope, c.scope}

\* Every step keeps what is known of the claims.
LEMMA OpenedStep ==
  ASSUME Typed, OpenedInv, Next
  PROVE  OpenedInv'
<1>0. ReportsItsOwnClaim = \A r \in Runs : ReportsOwn(r)
  BY DEF ReportsItsOwnClaim, ReportsOwn
<1>1. ASSUME PeopleStep PROVE OpenedInv'
  <2>1. UNCHANGED <<pc, target, asked, reported, opened, command>>
    BY <1>1, PeopleMove
  <2>2. state'.claims \subseteq state.claims /\ state'.consumed = state.consumed
    BY <1>1, ReleaseTyped DEF PeopleStep, CloseItem, Retitle, Edit, RemoveLane
  <2> QED
    BY <2>1, <2>2 DEF OpenedInv, ReportsItsOwnClaim, Reported
<1>2. ASSUME NEW r \in Runs, RunStep(r) PROVE OpenedInv'
  <2>1. UNCHANGED command
    BY <1>2, RunMoves
  <2>2. opened \subseteq opened' /\ state'.claims \subseteq opened'
    BY <1>2, OpenedByPush, Pushes DEF OpenedInv
  <2>21. \A c, d \in state'.claims : c.key = d.key => c = d
    <3>1. CASE ~PushClaim(r)
      BY <1>2, <3>1, OpenedByPush DEF OpenedInv
    <3>2. CASE PushClaim(r)
      BY <1>2, <3>2, Pushes DEF OpenedInv
    <3> QED
      BY <3>1, <3>2
  <2>3. \A id \in state'.consumed : \E c \in opened' : c.id = id
    <3>1. CASE ~PushClaim(r)
      BY <1>2, <3>1, OpenedByPush DEF OpenedInv
    <3>2. CASE PushClaim(r)
      BY <1>2, <3>2, Pushes DEF OpenedInv
    <3> QED
      BY <3>1, <3>2
  <2>4. ASSUME NEW q \in Runs \ {r}
        PROVE  /\ pc'[q] = "push" => command'[q].scope \in {NoScope, asked'[q]}
               /\ ReportsOwn(q)'
    <3>1. pc'[q] = pc[q] /\ target'[q] = target[q] /\ asked'[q] = asked[q]
          /\ reported'[q] = reported[q] /\ command' = command
      BY <1>2, RunMoves
    <3>2. ReportsOwn(q) /\ (pc[q] = "push" => command[q].scope \in {NoScope, asked[q]})
      BY <1>0 DEF OpenedInv
    <3> QED
      BY <2>2, <3>1, <3>2 DEF ReportsOwn, Reported
  <2>5. ASSUME pc'[r] = "push" PROVE command'[r].scope \in {NoScope, asked'[r]}
    <3>1. CheckTarget(r)
      BY <1>2, <2>5, Arrivals
    <3>2. asked'[r] = ResolvedScope(r)
      BY <2>5, <3>1 DEF CheckTarget, Refused, Go, Typed
    <3> QED
      BY <2>1, <3>2, ResolvedScopeType
  <2>6. ReportsOwn(r)'
    <3>1. CASE pc'[r] = "resumed"
      <4>1. ObserveForStart(r)
        BY <1>2, <3>1, Arrivals
      <4>2. \A x : Go(r, x) => pc'[r] = x
        BY DEF Go, Typed
      <4>3. PICK c \in state.claims :
              /\ c.key = command[r].key /\ Resumable(r, c)
              /\ \E d \in state.claims : d.key = command[r].key /\ Resumable(r, d)
                                         /\ ScopeAgrees(r, d)
              /\ reported' = [reported EXCEPT ![r] = c.id] /\ UNCHANGED target
        BY <3>1, <4>1, <4>2 DEF ObserveForStart, LiveClaimOn, Refused
      <4>4. command[r].scope \in {NoScope, c.scope}
        BY <4>3 DEF OpenedInv, ScopeAgrees
      <4>5. c \in opened' /\ reported'[r] = c.id
        BY <2>2, <4>3 DEF OpenedInv, Typed
      <4> QED
        BY <2>1, <4>3, <4>4, <4>5 DEF ReportsOwn, Resumable
    <3>2. CASE pc'[r] = "claimed"
      <4>1. PushClaim(r)
        BY <1>2, <3>2, Arrivals
      <4>2. command[r].scope \in {NoScope, asked[r]}
        BY <4>1 DEF PushClaim, At, OpenedInv
      <4> QED
        BY <2>1, <3>2, <4>1, <4>2, Pushes DEF ReportsOwn
    <3> QED
      BY <3>1, <3>2 DEF ReportsOwn, Reported
  <2>7. \A q \in Runs : pc'[q] = "push" => command'[q].scope \in {NoScope, asked'[q]}
    BY <2>4, <2>5
  <2>8. ReportsItsOwnClaim'
    BY <2>4, <2>6 DEF ReportsItsOwnClaim, ReportsOwn
  <2> QED
    BY <2>2, <2>3, <2>7, <2>8, <2>21 DEF OpenedInv
<1> QED
  BY <1>1, <1>2 DEF Next, RunStep

----------------------------------------------------------------------------
(* What is at the paths.                                                   *)

\* A start writes at its own path alone, when that is free or its own half-made
\* worktree; and adds its own branch alone.
LEMMA PlaceMoves ==
  ASSUME Typed, NEW r \in Runs, RunStep(r)
  PROVE  /\ \/ UNCHANGED place
            \/ /\ pc[r] = "register" /\ Here(r).kind = "absent" /\ AddWorktree(r)
               /\ place' = [place EXCEPT ![PlaceOf(target[r])] = HalfMade(target[r])]
               /\ pc'[r] = "checkout" /\ UNCHANGED upsets
            \/ /\ (pc[r] = "register" /\ Here(r).kind = "absent") \/ pc[r] = "checkout"
               /\ place' = [place EXCEPT ![PlaceOf(target[r])] = Worktree(target[r])]
               /\ pc'[r] \in {"observe", "killed"} /\ UNCHANGED upsets
         /\ \/ UNCHANGED branches
            \/ AddBranch(r) /\ branches' = branches \cup {target[r]} /\ pc'[r] = "register"
         /\ upsets \subseteq upsets'
         /\ UNCHANGED target \/ ReadItem(r)
<1> USE DEF world, Refused
<1>0. \A x : Go(r, x) => pc'[r] = x
  BY DEF Go, Typed
<1>1. CASE ReadItem(r) \/ ResolveWorktree(r) \/ RefuseDirty(r) \/ FetchRemote(r)
  BY <1>1 DEF ReadItem, ResolveWorktree, RefuseDirty, FetchRemote
<1>2. CASE AddBranch(r)
  BY <1>0, <1>2 DEF AddBranch
<1>3. CASE AddWorktree(r)
  BY <1>0, <1>3 DEF AddWorktree, At
<1>4. CASE CheckOut(r)
  BY <1>0, <1>4 DEF CheckOut, At
<1>5. CASE ObserveForStart(r) \/ BuildRequest(r) \/ ObserveClaims(r) \/ CheckTarget(r)
  BY <1>5 DEF ObserveForStart, BuildRequest, ObserveClaims, CheckTarget
<1>6. CASE PushClaim(r)
  BY <1>6 DEF PushClaim
<1>7. CASE Kill(r)
  BY <1>0, <1>7 DEF Kill, At
<1>8. CASE Fail(r)
  BY <1>8 DEF Fail
<1> QED
  BY <1>1, <1>2, <1>3, <1>4, <1>5, <1>6, <1>7, <1>8 DEF RunStep, StartStep

\* A start stands where it stood, at the worktree it checked out, or at one that
\* it found to be its lane's.
LEMMA StandsFrom ==
  ASSUME Typed, NEW r \in Runs, RunStep(r), pc'[r] \in Standing
  PROVE  /\ UNCHANGED target
         /\ \/ pc[r] \in Standing
            \/ pc[r] = "checkout"
            \/ pc[r] = "resolve" /\ ThisLane(Here(r), target[r])
<1> USE DEF Refused, Standing, At
<1>0. \A x : Go(r, x) => pc'[r] = x
  BY DEF Go, Typed
<1>1. CASE pc'[r] = "dirty"
  BY <1>0, <1>1, Arrivals DEF ResolveWorktree, OwnLinkedWorktree, ThisLane
<1>2. CASE pc'[r] = "observe"
  BY <1>0, <1>2, Arrivals DEF RefuseDirty, CheckOut
<1>3. CASE pc'[r] \in {"request", "resumed"}
  BY <1>0, <1>3, Arrivals DEF ObserveForStart
<1>4. CASE pc'[r] \in {"read", "checks"}
  BY <1>0, <1>4, Arrivals DEF BuildRequest, ObserveClaims
<1>5. CASE pc'[r] = "push"
  BY <1>0, <1>5, Arrivals DEF CheckTarget
<1>6. CASE pc'[r] = "claimed"
  <2>1. PushClaim(r)
    BY <1>6, Arrivals
  <2> QED
    BY <1>0, <1>6, <2>1 DEF PushClaim
<1> QED
  BY <1>1, <1>2, <1>3, <1>4, <1>5, <1>6

\* A step of a start keeps what stands at the paths.
LEMMA SiteRunStep ==
  ASSUME Typed, SiteInv, NEW r \in Runs, RunStep(r)
  PROVE  SiteInv'
<1> DEFINE here == PlaceOf(target[r])
<1>0. /\ UNCHANGED found /\ upsets \subseteq upsets' /\ pc' \in [Runs -> Labels]
      /\ here \in Places /\ target[r] \in Branches
      /\ \A q \in Runs \ {r} : pc'[q] = pc[q] /\ target'[q] = target[q]
  BY RunMoves, PlaceMoves, BranchParts DEF Typed
<1>1. \/ UNCHANGED place
      \/ /\ found[here].kind = "absent"
         /\ \A q \in Runs \ {r} : pc[q] = "checkout" => PlaceOf(target[q]) # here
         /\ \E s : place' = [place EXCEPT ![here] = s]
  <2>1. ASSUME pc[r] = "register", Here(r).kind = "absent"
        PROVE  /\ found[here].kind = "absent"
               /\ \A q \in Runs \ {r} : pc[q] = "checkout" => PlaceOf(target[q]) # here
    <3>1. found[here].kind = "absent"
      BY <1>0, <2>1 DEF SiteInv, Here
    <3>2. ASSUME NEW q \in Runs \ {r}, pc[q] = "checkout", PlaceOf(target[q]) = here PROVE FALSE
      <4>1. place[here] = HalfMade(target[q]) /\ target[q] \in Branches
        BY <3>2 DEF SiteInv, Here, Typed
      <4> QED
        BY <2>1, <4>1, WorktreeSites DEF Here
    <3> QED
      BY <3>1, <3>2
  <2>2. ASSUME pc[r] = "checkout"
        PROVE  /\ found[here].kind = "absent"
               /\ \A q \in Runs \ {r} : pc[q] = "checkout" => PlaceOf(target[q]) # here
    BY <2>2 DEF SiteInv
  <2> QED
    BY <2>1, <2>2, PlaceMoves
<1>2. ASSUME NEW p \in Places, found[p].kind # "absent"
      PROVE  /\ place'[p].kind # "absent" /\ (place'[p] = found[p] \/ "edited" \in upsets')
             /\ \A b \in Branches : ThisLane(place'[p], b) => ThisLane(found[p], b)
  <2>1. place'[p] = place[p]
    BY <1>1, <1>2 DEF Typed
  <2> QED
    BY <1>0, <1>2, <2>1 DEF SiteInv
<1>3. ASSUME NEW q \in Runs, pc'[q] = "checkout"
      PROVE  /\ Here(q)' = HalfMade(target'[q])
             /\ found'[PlaceOf(target'[q])].kind = "absent"
             /\ \A u \in Runs \ {q} : pc'[u] = "checkout" => PlaceOf(target'[u]) # PlaceOf(target'[q])
  <2>1. CASE q = r
    <3>1. AddWorktree(r)
      BY <1>3, <2>1, Arrivals
    <3>2. /\ place' = [place EXCEPT ![here] = HalfMade(target[r])] /\ UNCHANGED target
          /\ pc[r] = "register" /\ Here(r).kind = "absent"
      BY <1>3, <2>1, <3>1, RunMoves DEF AddWorktree, At, Refused, Go, Typed
    <3>3. Here(r)' = HalfMade(target[r])
      BY <1>0, <3>2 DEF Here, Typed
    <3>4. found[here].kind = "absent"
      BY <1>0, <3>2 DEF SiteInv, Here
    <3>5. ASSUME NEW u \in Runs \ {r}, pc[u] = "checkout", PlaceOf(target[u]) = here PROVE FALSE
      <4>1. place[here] = HalfMade(target[u]) /\ target[u] \in Branches
        BY <3>5 DEF SiteInv, Here, Typed
      <4> QED
        BY <3>2, <4>1, WorktreeSites DEF Here
    <3> QED
      BY <1>0, <2>1, <3>2, <3>3, <3>4, <3>5
  <2>2. CASE q # r
    <3>1. pc[q] = "checkout" /\ target'[q] = target[q] /\ PlaceOf(target[q]) \in Places
      BY <1>0, <1>3, <2>2, BranchParts DEF Typed
    <3>2. Here(q)' = Here(q)
      BY <1>1, <2>2, <3>1 DEF Here, Typed
    <3>3. ASSUME NEW u \in Runs \ {q}, pc'[u] = "checkout", PlaceOf(target'[u]) = PlaceOf(target[q])
          PROVE  FALSE
      <4>1. CASE u = r
        <5>1. AddWorktree(r)
          BY <3>3, <4>1, Arrivals
        <5>2. UNCHANGED target /\ Here(r).kind = "absent"
          BY <3>3, <4>1, <5>1 DEF AddWorktree, Refused, Go, Typed
        <5>3. place[here] = HalfMade(target[q]) /\ target[q] \in Branches
          BY <3>1, <3>3, <4>1, <5>2 DEF SiteInv, Here, Typed
        <5> QED
          BY <5>2, <5>3, WorktreeSites DEF Here
      <4>2. CASE u # r
        BY <1>0, <3>1, <3>3, <4>2 DEF SiteInv
      <4> QED
        BY <4>1, <4>2
    <3> QED
      BY <1>0, <3>1, <3>2, <3>3 DEF SiteInv
  <2> QED
    BY <2>1, <2>2
<1>4. ASSUME NEW q \in Runs, pc'[q] \in Standing
      PROVE  \/ found'[PlaceOf(target'[q])].kind = "absent"
             \/ ThisLane(found'[PlaceOf(target'[q])], target'[q])
  <2>1. CASE q = r
    <3>1. UNCHANGED target /\ (pc[r] \in Standing \/ pc[r] = "checkout" \/ ThisLane(Here(r), target[r]))
      BY <1>4, <2>1, StandsFrom
    <3> QED
      BY <1>0, <2>1, <3>1 DEF SiteInv, Here
  <2>2. CASE q # r
    BY <1>0, <1>4, <2>2 DEF SiteInv
  <2> QED
    BY <2>1, <2>2
<1> QED
  BY <1>0, <1>2, <1>3, <1>4 DEF SiteInv

\* People keep it too.
LEMMA SitePeopleStep ==
  ASSUME Typed, SiteInv, PeopleStep
  PROVE  SiteInv'
<1>0. UNCHANGED <<pc, target>> /\ \A q \in Runs : PlaceOf(target[q]) \in Places
  BY PeopleMove, BranchParts DEF Typed
<1>1. ASSUME UNCHANGED <<place, found>>, upsets \subseteq upsets' PROVE SiteInv'
  BY <1>0, <1>1 DEF SiteInv, Here
<1>2. ASSUME NEW p \in Places, Edit(p) PROVE SiteInv'
  <2>1. /\ place' = [place EXCEPT ![p].clean = FALSE] /\ UNCHANGED found
        /\ upsets' = upsets \cup {"edited"} /\ place[p].kind = "linked" /\ place[p].clean
    BY <1>2 DEF Edit
  <2>2. place'[p].kind = "linked" /\ \A b \in Branches : ThisLane(place'[p], b) => ThisLane(place[p], b)
    BY <2>1, EditedSite DEF Typed, ThisLane
  <2>3. \A q \in Runs : pc[q] = "checkout" => PlaceOf(target[q]) # p
    BY <2>1, WorktreeSites DEF SiteInv, Here, Typed
  <2>4. \A q \in Runs : pc[q] = "checkout" => Here(q)' = Here(q)
    BY <1>0, <2>1, <2>3 DEF Here, Typed
  <2>5. \A u \in Places \ {p} : place'[u] = place[u]
    BY <2>1 DEF Typed
  <2> QED
    BY <1>0, <2>1, <2>2, <2>4, <2>5 DEF SiteInv
<1>3. ASSUME NEW p \in Places, RemoveLane(p) PROVE SiteInv'
  <2>1. /\ place' = [place EXCEPT ![p] = Absent] /\ found' = [found EXCEPT ![p] = Absent]
        /\ upsets \subseteq upsets' /\ place[p].kind = "linked" /\ place[p].clean
    BY <1>3 DEF RemoveLane
  <2>2. \A q \in Runs : pc[q] = "checkout" => PlaceOf(target[q]) # p
    BY <2>1, WorktreeSites DEF SiteInv, Here, Typed
  <2>3. \A q \in Runs : pc[q] = "checkout" => Here(q)' = Here(q)
    BY <1>0, <2>1, <2>2 DEF Here, Typed
  <2>4. \A u \in Places \ {p} : place'[u] = place[u] /\ found'[u] = found[u]
    BY <2>1 DEF Typed
  <2>5. found'[p].kind = "absent"
    BY <2>1, AbsentSite DEF Typed
  <2> QED
    BY <1>0, <2>1, <2>2, <2>3, <2>4, <2>5 DEF SiteInv
<1> QED
  BY <1>1, <1>2, <1>3 DEF PeopleStep, CloseItem, Retitle, ReleaseClaim

----------------------------------------------------------------------------
(* Branches and worktrees in step.                                         *)

\* While nothing is upset, items and what was found stay as they are, and a start
\* under git worktree add makes its worktree.
LEMMA NothingUpset ==
  ASSUME Typed, Next, upsets' = {}
  PROVE  /\ upsets = {} /\ UNCHANGED <<item, found, command, after>>
         /\ \A q \in Runs : pc'[q] = "item" => pc[q] = "item"
         /\ \/ \E r \in Runs : RunStep(r) /\ ~Fail(r)
            \/ \E c \in state.claims : ReleaseClaim(c)
            \/ \E p \in Places : /\ RemoveLane(p) /\ Quiet /\ found[p] = Absent
                                 /\ branches' = branches \ {place[p].branch}
<1>1. ASSUME NEW r \in Runs, RunStep(r)
      PROVE  /\ upsets = {} /\ UNCHANGED <<item, found, command, after>>
             /\ \A q \in Runs : pc'[q] = "item" => pc[q] = "item"
             /\ ~Fail(r)
  BY <1>1, RunMoves, PlaceMoves DEF Fail
<1>2. ASSUME PeopleStep
      PROVE  /\ upsets = {} /\ UNCHANGED <<item, found, command, after>>
             /\ \A q \in Runs : pc'[q] = "item" => pc[q] = "item"
             /\ \/ \E c \in state.claims : ReleaseClaim(c)
                \/ \E p \in Places : /\ RemoveLane(p) /\ Quiet /\ found[p] = Absent
                                     /\ branches' = branches \ {place[p].branch}
  <2>0. UNCHANGED <<pc, command, after>>
    BY <1>2, PeopleMove
  <2>1. ASSUME NEW c \in state.claims, ReleaseClaim(c) PROVE upsets = {} /\ UNCHANGED <<item, found>>
    BY <2>1 DEF ReleaseClaim
  <2>2. ASSUME NEW p \in Places, RemoveLane(p)
        PROVE  /\ upsets = {} /\ UNCHANGED <<item, found>> /\ Quiet /\ found[p] = Absent
               /\ branches' = branches \ {place[p].branch}
    <3>1. /\ branches' = branches \ {place[p].branch}
          /\ upsets' = upsets \cup (IF Quiet /\ found[p] = Absent THEN {} ELSE {"removed"})
      BY <2>2 DEF RemoveLane
    <3>2. Quiet /\ found[p] = Absent
      BY <3>1
    <3> QED
      BY <2>2, <3>1, <3>2 DEF RemoveLane, Typed
  <2>3. ASSUME NEW p \in Places, Edit(p) PROVE FALSE
    BY <2>3 DEF Edit
  <2>4. ASSUME NEW k \in Keys, CloseItem(k) \/ \E slug \in Slugs \cup {NoSlug} : Retitle(k, slug)
        PROVE  FALSE
    BY <2>4 DEF CloseItem, Retitle
  <2>5. \/ \E c \in state.claims : ReleaseClaim(c)
        \/ \E p \in Places : RemoveLane(p)
    BY <1>2, <2>3, <2>4 DEF PeopleStep
  <2> QED
    BY <2>0, <2>1, <2>2, <2>5
<1> QED
  BY <1>1, <1>2 DEF Next, RunStep

\* While nothing is upset, a start under git worktree add makes its worktree.
LEMMA MakesWorktree ==
  ASSUME Typed, NEW r \in Runs, RunStep(r), upsets' = {},
         pc[r] = "checkout" \/ (pc[r] = "register" /\ Here(r).kind = "absent")
  PROVE  /\ UNCHANGED target
         /\ \/ /\ place' = [place EXCEPT ![PlaceOf(target[r])] = HalfMade(target[r])]
               /\ pc[r] = "register" /\ pc'[r] = "checkout"
            \/ /\ place' = [place EXCEPT ![PlaceOf(target[r])] = Worktree(target[r])]
               /\ pc'[r] \in {"observe", "killed"}
<1>0. \A x : Go(r, x) => pc'[r] = x
  BY DEF Go, Typed
<1>1. pc[r] \notin {"item", "resolve", "dirty", "fetch", "add", "observe", "request", "read", "checks",
                    "push"}
  OBVIOUS
<1>2. AddWorktree(r) \/ CheckOut(r) \/ Kill(r)
  <2>1. ~Fail(r)
    BY DEF Fail
  <2> QED
    BY <1>1, <2>1 DEF RunStep, StartStep, At, ReadItem, ResolveWorktree, RefuseDirty, FetchRemote,
       AddBranch, ObserveForStart, BuildRequest, ObserveClaims, CheckTarget, PushClaim
<1>3. CASE AddWorktree(r)
  BY <1>0, <1>3 DEF AddWorktree, At
<1>4. CASE CheckOut(r)
  BY <1>0, <1>4 DEF CheckOut, At
<1>5. CASE Kill(r)
  BY <1>0, <1>5 DEF Kill, At
<1> QED
  BY <1>2, <1>3, <1>4, <1>5

\* Who is alone was alone before.
LEMMA AloneBefore ==
  ASSUME Typed, Next, Alone'
  PROVE  Alone
BY NothingUpset DEF Alone

\* A step of a start keeps branches and worktrees in step.
LEMMA LanesRunStep ==
  ASSUME Typed, SiteInv, LanesMatch, Alone, upsets' = {}, NEW r \in Runs, RunStep(r)
  PROVE  LanesMatch'
<1> DEFINE here == PlaceOf(target[r])
<1>0. /\ UNCHANGED <<found, item, command>> /\ here \in Places /\ target[r] \in Branches
      /\ pc[r] \notin Ended /\ pc'[r] # "item" /\ pc' \in [Runs -> Labels]
      /\ \A q \in Runs \ {r} : pc'[q] = pc[q] /\ target'[q] = target[q]
  BY RunMoves, BranchParts DEF Typed
<1>1. /\ pc[r] # "item" => UNCHANGED target
      /\ branches \subseteq branches'
      /\ \/ UNCHANGED branches
         \/ /\ AddBranch(r) /\ branches' = branches \cup {target[r]} /\ pc'[r] = "register"
  BY PlaceMoves DEF ReadItem, At
<1>2. \A q \in Runs : target[q] \in Branches /\ PlaceOf(target[q]) \in Places
  BY BranchParts DEF Typed
<1>3. \A b \in Branches : Begun(b) => Begun(b)'
  BY <1>0 DEF Begun
<1>4. Underway(r) => target[r] = StartBranch(r) /\ target[r][1] = PrefixOf[command[r].who]
  <2>1. <<PrefixOf[command[r].who], command[r].key, SlugFor(r)>>[1] = PrefixOf[command[r].who]
    OBVIOUS
  <2> QED
    BY <2>1 DEF LanesMatch, StartBranch
\* The branch it makes a worktree of is its own, and there.
<1>5. ASSUME pc[r] = "checkout" \/ (pc[r] = "register" /\ Here(r).kind = "absent")
      PROVE  /\ target[r] \in branches /\ Begun(target[r])' /\ found[here].kind = "absent"
             /\ UNCHANGED <<target, branches>>
             /\ pc[r] = "checkout" => place[here] = HalfMade(target[r])
             /\ \/ /\ place' = [place EXCEPT ![here] = HalfMade(target[r])]
                   /\ pc[r] = "register" /\ pc'[r] = "checkout"
                \/ /\ place' = [place EXCEPT ![here] = Worktree(target[r])]
                   /\ pc'[r] \in {"observe", "killed"}
  <2>1. /\ UNCHANGED target
        /\ \/ /\ place' = [place EXCEPT ![here] = HalfMade(target[r])]
              /\ pc[r] = "register" /\ pc'[r] = "checkout"
           \/ /\ place' = [place EXCEPT ![here] = Worktree(target[r])]
              /\ pc'[r] \in {"observe", "killed"}
    BY <1>5, MakesWorktree
  <2>2. UNCHANGED branches
    BY <1>1, <2>1
  <2>3. found[here].kind = "absent" /\ (pc[r] = "checkout" => place[here] = HalfMade(target[r]))
    BY <1>0, <1>5 DEF SiteInv, Here
  <2>4. target[r] \in branches
    <3>1. CASE pc[r] = "register"
      BY <3>1 DEF LanesMatch
    <3>2. CASE pc[r] = "checkout"
      <4>1. PICK b \in branches : place[here] = Worktree(b) \/ place[here] = HalfMade(b)
        BY <1>0, <2>3, <3>2, AbsentSite DEF LanesMatch
      <4>2. b \in Branches /\ place[here] = HalfMade(target[r])
        BY <2>3, <3>2 DEF Typed
      <4> QED
        BY <1>0, <4>1, <4>2, WorktreeSites
    <3> QED
      BY <1>5, <3>1, <3>2
  <2>5. Underway(r)
    BY <1>5 DEF Underway, Ended
  <2>6. Begun(target[r])'
    BY <1>0, <1>4, <2>1, <2>5 DEF Begun
  <2> QED
    BY <2>1, <2>2, <2>3, <2>4, <2>6
<1>6. \/ UNCHANGED place /\ pc[r] # "checkout" /\ ~(pc[r] = "register" /\ Here(r).kind = "absent")
      \/ pc[r] = "checkout" \/ (pc[r] = "register" /\ Here(r).kind = "absent")
  BY PlaceMoves
<1>7. ASSUME NEW q \in Runs, Underway(q)' PROVE target'[q] = StartBranch(q)'
  <2>1. StartBranch(q)' = StartBranch(q)
    BY <1>0 DEF StartBranch, SlugFor
  <2>2. CASE q # r
    BY <1>0, <1>7, <2>1, <2>2 DEF LanesMatch, Underway
  <2>3. CASE q = r /\ pc[r] # "item"
    BY <1>0, <1>1, <1>4, <2>1, <2>3 DEF Underway
  <2>4. CASE q = r /\ pc[r] = "item"
    <3>1. ReadItem(r) \/ Kill(r) \/ Fail(r)
      BY <2>4 DEF RunStep, StartStep, At, ResolveWorktree, RefuseDirty, FetchRemote, AddBranch,
         AddWorktree, CheckOut, ObserveForStart, BuildRequest, ObserveClaims, CheckTarget, PushClaim
    <3>2. \A x : Go(r, x) => pc'[r] = x
      BY DEF Go, Typed
    <3>3. target' = [target EXCEPT ![r] = StartBranch(r)]
      BY <1>7, <2>4, <3>1, <3>2 DEF ReadItem, Kill, Fail, Refused, Underway, Ended
    <3> QED
      BY <2>1, <2>4, <3>3 DEF Typed
  <2> QED
    BY <2>2, <2>3, <2>4
<1>8. ASSUME NEW p \in Places, found'[p].kind = "absent"
      PROVE  \/ place'[p] = Absent
             \/ \E b \in branches' : /\ PlaceOf(b) = p /\ Begun(b)'
                                     /\ \/ place'[p] = Worktree(b)
                                        \/ /\ place'[p] = HalfMade(b)
                                           /\ \E q \in Runs : pc'[q] = "checkout" /\ target'[q] = b
  <2>1. \/ place[p] = Absent
        \/ \E b \in branches : /\ PlaceOf(b) = p /\ Begun(b)
                               /\ \/ place[p] = Worktree(b)
                                  \/ /\ place[p] = HalfMade(b)
                                     /\ \E q \in Runs : pc[q] = "checkout" /\ target[q] = b
    BY <1>0, <1>8 DEF LanesMatch
  <2>2. CASE p = here /\ ~UNCHANGED place
    <3>1. pc[r] = "checkout" \/ (pc[r] = "register" /\ Here(r).kind = "absent")
      BY <1>6, <2>2
    <3>2. place'[p] = Worktree(target[r]) \/ (place'[p] = HalfMade(target[r]) /\ pc'[r] = "checkout")
      BY <1>5, <2>2, <3>1 DEF Typed
    <3>3. target[r] \in branches' /\ Begun(target[r])' /\ target'[r] = target[r]
      BY <1>5, <3>1
    <3> QED
      BY <2>2, <3>2, <3>3
  <2>3. CASE p # here \/ UNCHANGED place
    <3>1. place'[p] = place[p]
      BY <1>5, <1>6, <2>3 DEF Typed
    <3>2. ASSUME NEW b \in branches, place[p] = HalfMade(b), PlaceOf(b) = p,
                 NEW q \in Runs, pc[q] = "checkout", target[q] = b
          PROVE  pc'[q] = "checkout" /\ target'[q] = b
      <4>1. CASE q = r
        <5>1. place' = [place EXCEPT ![here] = Worktree(b)] /\ p = here
          BY <1>5, <3>2, <4>1
        <5>2. b \in Branches
          BY DEF Typed
        <5> QED
          BY <3>1, <3>2, <5>1, <5>2, WorktreeSites DEF Typed
      <4> QED
        BY <1>0, <3>2, <4>1
    <3>3. branches \subseteq Branches
      BY DEF Typed
    <3> QED
      BY <1>1, <1>3, <2>1, <3>1, <3>2, <3>3
  <2> QED
    BY <2>2, <2>3
<1>9. ASSUME NEW b \in branches'
      PROVE  \/ place'[PlaceOf(b)] \in {Worktree(b), HalfMade(b)}
             \/ \E q \in Runs : pc'[q] = "register" /\ target'[q] = b
             \/ \E p \in Places : found'[p].kind = "linked" /\ found'[p].ours /\ found'[p].branch = b
  <2>1. CASE b \notin branches
    BY <1>1, <2>1 DEF AddBranch, At
  <2>2. CASE b \in branches
    <3>0. b \in Branches /\ PlaceOf(b) \in Places
      BY <2>2, BranchParts DEF Typed
    <3>1. CASE place[PlaceOf(b)] \in {Worktree(b), HalfMade(b)}
      <4>1. CASE place'[PlaceOf(b)] = place[PlaceOf(b)]
        BY <3>1, <4>1
      <4>2. CASE place'[PlaceOf(b)] # place[PlaceOf(b)]
        <5>1. PlaceOf(b) = here /\ (pc[r] = "checkout" \/ (pc[r] = "register" /\ Here(r).kind = "absent"))
          BY <1>5, <1>6, <3>0, <4>2 DEF Typed
        <5>2. pc[r] = "checkout" /\ place[here] = HalfMade(target[r])
          BY <1>5, <3>0, <3>1, <5>1, WorktreeSites DEF Here
        <5>3. b = target[r]
          BY <1>0, <3>0, <3>1, <5>1, <5>2, WorktreeSites
        <5> QED
          BY <1>5, <3>0, <5>1, <5>2, <5>3 DEF Typed
      <4> QED
        BY <4>1, <4>2
    <3>2. ASSUME NEW q \in Runs, pc[q] = "register", target[q] = b
          PROVE  \/ place'[PlaceOf(b)] \in {Worktree(b), HalfMade(b)}
                 \/ \E u \in Runs : pc'[u] = "register" /\ target'[u] = b
      <4>1. CASE q # r
        BY <1>0, <3>2, <4>1
      <4>2. CASE q = r
        <5>1. Here(r).kind = "absent"
          BY <3>2, <4>2, AbsentSite DEF LanesMatch
        <5> QED
          BY <1>5, <3>0, <3>2, <4>2, <5>1 DEF Typed
      <4> QED
        BY <4>1, <4>2
    <3>3. CASE \E p \in Places : found[p].kind = "linked" /\ found[p].ours /\ found[p].branch = b
      BY <1>0, <3>3
    <3>4. \/ place[PlaceOf(b)] \in {Worktree(b), HalfMade(b)}
          \/ \E q \in Runs : pc[q] = "register" /\ target[q] = b
          \/ \E p \in Places : found[p].kind = "linked" /\ found[p].ours /\ found[p].branch = b
      BY <2>2 DEF LanesMatch
    <3> QED
      BY <3>1, <3>2, <3>3, <3>4
  <2> QED
    BY <2>1, <2>2
<1>10. ASSUME NEW q \in Runs, pc'[q] = "register"
       PROVE  /\ Here(q)' = Absent /\ target'[q] \in branches'
              /\ \A u \in Runs \ {q} : pc'[u] = "register" => target'[u] # target'[q]
  <2>1. CASE q = r
    <3>1. AddBranch(r)
      BY <1>10, <2>1, Arrivals
    <3>2. /\ Here(r).kind = "absent" /\ target[r] \notin branches /\ UNCHANGED <<target, place>>
          /\ branches' = branches \cup {target[r]}
      BY <1>10, <2>1, <3>1 DEF AddBranch, Refused, Go, Typed
    <3>3. Here(r)' = Absent
      BY <1>0, <3>2, AbsentSite DEF Here, Typed
    <3>4. \A u \in Runs \ {r} : pc[u] = "register" => target[u] # target[r]
      BY <3>2 DEF LanesMatch
    <3> QED
      BY <1>0, <2>1, <3>2, <3>3, <3>4
  <2>2. CASE q # r
    <3>1. /\ pc[q] = "register" /\ target'[q] = target[q] /\ place[PlaceOf(target[q])] = Absent
          /\ target[q] \in branches /\ \A u \in Runs \ {q} : pc[u] = "register" => target[u] # target[q]
      BY <1>0, <1>10, <2>2 DEF LanesMatch, Here
    <3>2. place'[PlaceOf(target[q])] = place[PlaceOf(target[q])]
      <4> SUFFICES ASSUME PlaceOf(target[q]) = here, ~UNCHANGED place PROVE FALSE
        BY <1>2, <1>5, <1>6 DEF Typed
      <4>1. CASE pc[r] = "checkout"
        BY <1>0, <1>5, <3>1, <4>1, AbsentSite
      <4>2. CASE pc[r] = "register"
        <5>1. Underway(q) /\ Underway(r)
          BY <3>1, <4>2 DEF Underway, Ended
        <5>2. command[q].who = command[r].who
          BY <3>1, <4>2 DEF Alone
        <5>3. target[q][1] = PrefixOf[command[q].who]
          <6>1. target[q] = StartBranch(q)
            BY <5>1 DEF LanesMatch
          <6> QED
            BY <6>1 DEF StartBranch
        <5>4. target[q] = target[r]
          BY <1>2, <1>4, <5>1, <5>2, <5>3, BranchParts
        <5> QED
          BY <2>2, <3>1, <4>2, <5>4
      <4> QED
        BY <1>6, <4>1, <4>2
    <3>3. ASSUME NEW u \in Runs \ {q}, pc'[u] = "register", target'[u] = target[q] PROVE FALSE
      <4>1. CASE u = r
        <5>1. AddBranch(r)
          BY <3>3, <4>1, Arrivals
        <5>2. target[r] \notin branches /\ UNCHANGED target
          BY <3>3, <4>1, <5>1 DEF AddBranch, Refused, Go, Typed
        <5> QED
          BY <3>1, <3>3, <4>1, <5>2
      <4>2. CASE u # r
        BY <1>0, <3>1, <3>3, <4>2
      <4> QED
        BY <4>1, <4>2
    <3> QED
      BY <1>1, <3>1, <3>2, <3>3 DEF Here
  <2> QED
    BY <2>1, <2>2
<1> QED
  BY <1>7, <1>8, <1>9, <1>10 DEF LanesMatch

\* So does what people do, while nothing is upset.
LEMMA LanesPeopleStep ==
  ASSUME Typed, SiteInv, LanesMatch, upsets' = {}, UNCHANGED <<item, found, pc, target, command>>,
         \/ \E c \in state.claims : ReleaseClaim(c)
         \/ \E p \in Places : /\ RemoveLane(p) /\ Quiet /\ found[p] = Absent
                              /\ branches' = branches \ {place[p].branch}
  PROVE  LanesMatch'
<1>1. \A q \in Runs : StartBranch(q)' = StartBranch(q)
  BY DEF StartBranch, SlugFor
<1>2. \A b \in Branches : Begun(b)' <=> Begun(b)
  BY DEF Begun
<1>3. branches \subseteq Branches /\ \A q \in Runs : PlaceOf(target[q]) \in Places
  BY BranchParts DEF Typed
<1>4. ASSUME NEW c \in state.claims, ReleaseClaim(c) PROVE LanesMatch'
  <2>1. UNCHANGED <<place, branches>>
    BY <1>4 DEF ReleaseClaim
  <2> QED
    BY <1>1, <1>2, <1>3, <2>1 DEF LanesMatch, Underway, Here
<1>5. ASSUME NEW p \in Places, RemoveLane(p), Quiet, found[p] = Absent,
             branches' = branches \ {place[p].branch}
      PROVE  LanesMatch'
  <2>0. \A q \in Runs : ~Underway(q) /\ pc[q] \notin {"register", "checkout"}
    BY <1>5 DEF Quiet, Underway, Ended
  <2>1. place' = [place EXCEPT ![p] = Absent] /\ place[p].kind = "linked" /\ place[p].clean
    BY <1>5 DEF RemoveLane
  <2>2. PICK b \in branches : PlaceOf(b) = p /\ place[p] = Worktree(b)
    BY <1>5, <2>0, <2>1, AbsentSite DEF LanesMatch
  <2>3. branches' = branches \ {b} /\ b \in Branches
    BY <1>3, <1>5, <2>2, WorktreeSites
  <2>4. ASSUME NEW u \in Places, found'[u].kind = "absent"
        PROVE  \/ place'[u] = Absent
               \/ \E c \in branches' : PlaceOf(c) = u /\ Begun(c)' /\ place'[u] = Worktree(c)
    <3>1. CASE u = p
      BY <2>1, <3>1 DEF Typed
    <3>2. CASE u # p
      <4>1. place'[u] = place[u]
        BY <2>1, <3>2 DEF Typed
      <4>2. \/ place[u] = Absent
            \/ \E c \in branches : PlaceOf(c) = u /\ Begun(c) /\ place[u] = Worktree(c)
        BY <2>0, <2>4 DEF LanesMatch
      <4> QED
        BY <1>2, <1>3, <2>2, <2>3, <3>2, <4>1, <4>2
    <3> QED
      BY <3>1, <3>2
  <2>5. ASSUME NEW c \in branches'
        PROVE  \/ place'[PlaceOf(c)] \in {Worktree(c), HalfMade(c)}
               \/ \E u \in Places : found'[u].kind = "linked" /\ found'[u].ours /\ found'[u].branch = c
    <3>1. c \in branches /\ c # b /\ c \in Branches /\ PlaceOf(c) \in Places
      BY <1>3, <2>3, BranchParts
    <3>2. CASE place[PlaceOf(c)] \in {Worktree(c), HalfMade(c)}
      <4>1. PlaceOf(c) # p
        BY <2>2, <2>3, <3>1, <3>2, WorktreeSites
      <4> QED
        BY <2>1, <3>1, <3>2, <4>1 DEF Typed
    <3>3. CASE place[PlaceOf(c)] \notin {Worktree(c), HalfMade(c)}
      BY <2>0, <3>1, <3>3 DEF LanesMatch
    <3> QED
      BY <3>2, <3>3
  <2> QED
    BY <2>0, <2>4, <2>5 DEF LanesMatch, Underway
<1> QED
  BY <1>4, <1>5

\* Every step keeps branches and worktrees in step, while nothing is upset and one
\* session is at work.
LEMMA LanesStep ==
  ASSUME Typed, SiteInv, Alone => LanesMatch, Next
  PROVE  (Alone => LanesMatch)'
<1> SUFFICES ASSUME Alone' PROVE LanesMatch'
  OBVIOUS
<1>1. Alone /\ upsets' = {}
  BY AloneBefore DEF Alone
<1>2. CASE \E r \in Runs : RunStep(r)
  BY <1>1, <1>2, LanesRunStep
<1>3. CASE ~\E r \in Runs : RunStep(r)
  <2>1. /\ UNCHANGED <<item, found, command>>
        /\ \/ \E c \in state.claims : ReleaseClaim(c)
           \/ \E p \in Places : /\ RemoveLane(p) /\ Quiet /\ found[p] = Absent
                                /\ branches' = branches \ {place[p].branch}
    BY <1>1, <1>3, NothingUpset
  <2>2. PeopleStep
    BY <1>3 DEF Next, RunStep
  <2>3. UNCHANGED <<pc, target>>
    BY <2>2, PeopleMove
  <2> QED
    BY <1>1, <2>1, <2>3, LanesPeopleStep
<1> QED
  BY <1>2, <1>3

----------------------------------------------------------------------------
(* A start that nobody disturbs.                                           *)

\* A start under way has seen those it waits for end.
LEMMA OrderStep ==
  ASSUME Typed, OrderInv, Next
  PROVE  OrderInv'
<1>0. UNCHANGED after /\ \A r \in Runs : after[r] \subseteq Runs
  BY RunMoves, PeopleMove, LaneAssumption DEF Next, RunStep, Typed
<1>1. ASSUME PeopleStep PROVE OrderInv'
  BY <1>1, PeopleMove DEF OrderInv, Underway
<1>2. ASSUME NEW r \in Runs, RunStep(r) PROVE OrderInv'
  <2>1. /\ pc[r] \notin Ended /\ pc' \in [Runs -> Labels]
        /\ \A q \in Runs \ {r} : pc'[q] = pc[q]
    BY <1>2, RunMoves
  <2>2. \A q \in Runs : pc[q] \in Ended => pc'[q] = pc[q]
    BY <2>1
  <2>3. ASSUME Underway(r)' PROVE \A q \in after[r] : pc[q] \in Ended
    <3>1. CASE pc[r] # "item"
      BY <2>1, <3>1 DEF OrderInv, Underway
    <3>2. CASE pc[r] = "item"
      <4>1. ReadItem(r) \/ Kill(r) \/ Fail(r)
        BY <1>2, <3>2 DEF RunStep, StartStep, At, ResolveWorktree, RefuseDirty, FetchRemote, AddBranch,
           AddWorktree, CheckOut, ObserveForStart, BuildRequest, ObserveClaims, CheckTarget, PushClaim
      <4>2. \A x : Go(r, x) => pc'[r] = x
        BY DEF Go, Typed
      <4>3. ReadItem(r)
        BY <2>3, <4>1, <4>2 DEF Kill, Fail, Refused, Underway, Ended
      <4> QED
        BY <4>3 DEF ReadItem
    <3> QED
      BY <3>1, <3>2
  <2> QED
    BY <1>0, <2>1, <2>2, <2>3 DEF OrderInv, Underway
<1> QED
  BY <1>1, <1>2 DEF Next, RunStep

\* A start that is undisturbed was so before, at the same branch and with the same
\* lines; nothing is upset, and one session is at work.
LEMMA UndisturbedBefore ==
  ASSUME Typed, OpenedInv, Next, NEW r \in Runs, Undisturbed(r)'
  PROVE  /\ Undisturbed(r) /\ Alone /\ Alone' /\ upsets' = {}
         /\ StartBranch(r)' = StartBranch(r) /\ UNCHANGED <<command, after, found, item>>
<1>1. upsets' = {}
  BY DEF Undisturbed
<1>2. /\ upsets = {} /\ UNCHANGED <<item, found, command, after>>
      /\ \A q \in Runs : pc'[q] = "item" => pc[q] = "item"
  BY <1>1, NothingUpset
<1>3. opened \subseteq opened'
  <2>1. ASSUME NEW q \in Runs, RunStep(q) PROVE opened \subseteq opened'
    BY <2>1, OpenedByPush, Pushes
  <2> QED
    BY <2>1, PeopleMove DEF Next, RunStep
<1>4. StartBranch(r)' = StartBranch(r) /\ SlugFor(r)' = SlugFor(r)
  BY <1>2 DEF StartBranch, SlugFor
<1>5. Undisturbed(r)
  <2>1. \A q \in Runs : pc[q] = "item" \/ command[q].who = command[r].who
    BY <1>2 DEF Undisturbed
  <2>2. ~Overlapped(r)
    BY <1>2 DEF Undisturbed, Overlapped
  <2>3. \A c \in opened : c.who = command[r].who /\ c.branch = StartBranch(r)
                          /\ command[r].scope \in {NoScope, c.scope}
    BY <1>2, <1>3, <1>4 DEF Undisturbed
  <2>4. \A p \in Places : found[p].kind # "absent" =>
          p = PlaceOf(StartBranch(r)) /\ ThisLane(found[p], StartBranch(r))
    BY <1>2, <1>4 DEF Undisturbed
  <2>5. /\ item[command[r].key].open
        /\ SlugFor(r) # NoSlug /\ PrefixOf[command[r].who] \notin UnsafePrefixes
        /\ item[command[r].key].scope # Malformed
        /\ IF command[r].scope = NoScope
           THEN item[command[r].key].scope # NoScope
           ELSE item[command[r].key].scope \in {NoScope, command[r].scope}
    BY <1>2, <1>4 DEF Undisturbed
  <2> QED
    BY <1>2, <2>1, <2>2, <2>3, <2>4, <2>5 DEF Undisturbed
<1>6. Alone /\ Alone'
  <2>1. \A q \in Runs : pc'[q] = "item" \/ command'[q].who = command'[r].who
    BY DEF Undisturbed
  <2>2. \A q \in Runs : pc[q] = "item" \/ command[q].who = command[r].who
    BY <1>5 DEF Undisturbed
  <2> QED
    BY <1>1, <1>2, <2>1, <2>2 DEF Alone
<1> QED
  BY <1>1, <1>2, <1>4, <1>5, <1>6

\* While a start that nobody disturbs is under way, every other waits or has ended.
LEMMA OthersRest ==
  ASSUME Typed, OrderInv, NEW r \in Runs, Undisturbed(r), Underway(r), NEW q \in Runs \ {r}
  PROVE  pc[q] \in Ended \/ (pc[q] = "item" /\ r \in after[q])
<1>1. q \in after[r] \/ r \in after[q]
  BY DEF Undisturbed, Overlapped
<1> QED
  BY <1>1 DEF OrderInv, Underway

\* What others do while it is under way leaves it on its way.
LEMMA OthersStep ==
  ASSUME Typed, OpenedInv, OrderInv, Next, NEW r \in Runs, Undisturbed(r)', OnItsWay(r), ~RunStep(r)
  PROVE  OnItsWay(r)'
<1>1. Undisturbed(r) /\ upsets' = {} /\ UNCHANGED <<command, item, found, after>>
  BY UndisturbedBefore
<1>2. UNCHANGED <<pc[r], target[r], seen[r]>>
  BY RunMoves, PeopleMove DEF Next, RunStep
<1>3. CASE ~Underway(r)
  BY <1>2, <1>3 DEF OnItsWay, Underway, Standing, Ended
<1>4. CASE Underway(r)
  <2>1. CASE \E q \in Runs : RunStep(q)
    <3>1. PICK q \in Runs \ {r} : RunStep(q)
      BY <2>1
    <3>2. pc[q] = "item" /\ r \in after[q]
      BY <1>1, <1>4, <3>1, OthersRest, RunMoves
    <3>3. ~ReadItem(q)
      BY <1>4, <3>2 DEF ReadItem, Underway
    <3>4. Kill(q)
      BY <1>1, <3>1, <3>2, <3>3, NothingUpset DEF RunStep, StartStep, At, ResolveWorktree, RefuseDirty,
         FetchRemote, AddBranch, AddWorktree, CheckOut, ObserveForStart, BuildRequest, ObserveClaims,
         CheckTarget, PushClaim, Fail
    <3>5. UNCHANGED <<place, branches, state>>
      BY <3>2, <3>4 DEF Kill, At
    <3> QED
      BY <1>1, <1>2, <3>5 DEF OnItsWay, Here, LiveClaimOn
  <2>2. CASE \E c \in state.claims : ReleaseClaim(c)
    <3>1. UNCHANGED <<place, branches>> /\ state'.claims \subseteq state.claims
      BY <2>2, ReleaseTyped DEF ReleaseClaim
    <3> QED
      BY <1>1, <1>2, <3>1 DEF OnItsWay, Here, LiveClaimOn
  <2>3. CASE Quiet
    BY <1>4, <2>3 DEF Quiet, Underway
  <2> QED
    BY <1>1, <2>1, <2>2, <2>3, NothingUpset
<1> QED
  BY <1>3, <1>4

\* It finds its path free, and its branch too, or its own lane's worktree, clean.
LEMMA FindsItsLane ==
  ASSUME Typed, SiteInv, OrderInv, LanesMatch, NEW r \in Runs, Undisturbed(r), pc[r] = "resolve"
  PROVE  \/ Here(r) = Absent /\ target[r] \notin branches
         \/ Here(r) = Worktree(target[r])
<1> DEFINE p == PlaceOf(target[r])
<1>0. /\ target[r] \in Branches /\ p \in Places /\ Underway(r)
      /\ \A b \in branches : b \in Branches
  BY BranchParts DEF Typed, Underway, Ended
<1>1. target[r] = StartBranch(r) /\ target[r][1] = PrefixOf[command[r].who]
  <2>1. target[r] = StartBranch(r)
    BY <1>0 DEF LanesMatch
  <2> QED
    BY <2>1 DEF StartBranch
<1>2. \A q \in Runs : pc[q] \notin {"register", "checkout"}
  BY <1>0, OthersRest DEF Ended
<1>3. CASE found[p].kind # "absent"
  <2>1. ThisLane(found[p], target[r]) /\ found[p].clean
    BY <1>0, <1>1, <1>3 DEF Undisturbed, SiteInv, ThisLane
  <2>2. place[p] = found[p]
    BY <1>0, <1>3 DEF SiteInv, Undisturbed
  <2>3. found[p] = Worktree(target[r])
    BY <1>0, <2>1, LaneSite DEF Typed
  <2> QED
    BY <2>2, <2>3 DEF Here
<1>4. CASE found[p].kind = "absent"
  <2>1. CASE place[p] = Absent
    <3>1. ASSUME target[r] \in branches PROVE FALSE
      <4>1. place[p] \notin {Worktree(target[r]), HalfMade(target[r])}
        BY <1>0, <2>1, AbsentSite
      <4>2. PICK u \in Places : found[u].kind = "linked" /\ found[u].ours /\ found[u].branch = target[r]
        BY <1>2, <3>1, <4>1 DEF LanesMatch
      <4>3. u = p
        BY <1>1, <4>2 DEF Undisturbed
      <4> QED
        BY <1>4, <4>2, <4>3
    <3> QED
      BY <2>1, <3>1 DEF Here
  <2>2. CASE place[p] # Absent
    <3>1. PICK b \in branches : PlaceOf(b) = p /\ Begun(b) /\ place[p] = Worktree(b)
      BY <1>0, <1>2, <1>4, <2>2 DEF LanesMatch
    <3>2. b[1] = PrefixOf[command[r].who]
      BY <3>1 DEF Begun, Undisturbed
    <3>3. b = target[r]
      BY <1>0, <1>1, <3>1, <3>2, BranchParts
    <3> QED
      BY <3>1, <3>3 DEF Here
  <2> QED
    BY <2>1, <2>2
<1> QED
  BY <1>3, <1>4

\* Its own step takes it further, and never to a refusal.
LEMMA OwnStep ==
  ASSUME Typed, OpenedInv, SiteInv, OrderInv, Alone => LanesMatch, Next,
         NEW r \in Runs, Undisturbed(r)', OnItsWay(r), RunStep(r)
  PROVE  OnItsWay(r)'
<1> DEFINE mine == LiveClaimOn(state, command[r].key)
<1>0. /\ Undisturbed(r) /\ LanesMatch /\ UNCHANGED <<command, item, found>> /\ upsets' = {}
      /\ target[r] \in Branches /\ PlaceOf(target[r]) \in Places /\ pc' \in [Runs -> Labels]
      /\ command[r] \in Commands /\ state.tip # 0
  BY UndisturbedBefore, RunMoves, BranchParts DEF Typed
<1>1. \A x : Go(r, x) => pc'[r] = x
  BY DEF Go, Typed
<1>2. Underway(r) => target[r] = StartBranch(r)
  BY <1>0 DEF LanesMatch
<1>3. /\ Worktree(target[r]).kind = "linked" /\ Worktree(target[r]).clean
      /\ ThisLane(Worktree(target[r]), target[r]) /\ Absent.kind = "absent"
  BY <1>0, WorktreeSites, AbsentSite
<1>4. ASSUME NEW c \in mine, Underway(r)
      PROVE  Resumable(r, c) /\ command[r].scope \in {NoScope, c.scope}
  <2>1. c \in opened
    BY DEF LiveClaimOn, OpenedInv
  <2> QED
    BY <1>0, <1>2, <1>4, <2>1 DEF Undisturbed, Resumable
<1>5. CASE ReadItem(r)
  <2>1. Go(r, "resolve")
    BY <1>0, <1>5 DEF ReadItem, Undisturbed
  <2> QED
    BY <1>1, <2>1 DEF OnItsWay, Standing
<1>6. CASE ResolveWorktree(r)
  <2>1. pc[r] = "resolve" /\ UNCHANGED <<place, branches, target>>
    BY <1>6 DEF ResolveWorktree, At, Refused, world
  <2>2. CASE Here(r) = Absent /\ target[r] \notin branches
    <3>1. pc'[r] = "fetch"
      BY <1>1, <1>3, <1>6, <2>2 DEF ResolveWorktree
    <3> QED
      BY <2>1, <2>2, <3>1 DEF OnItsWay, Standing, Here
  <2>3. CASE Here(r) = Worktree(target[r])
    <3>1. pc'[r] = "dirty"
      BY <1>1, <1>3, <1>6, <2>3 DEF ResolveWorktree, OwnLinkedWorktree, ThisLane
    <3> QED
      BY <2>1, <2>3, <3>1 DEF OnItsWay, Standing, Here
  <2> QED
    BY <1>0, <2>1, <2>2, <2>3, FindsItsLane
<1>7. CASE RefuseDirty(r)
  <2>1. Here(r) = Worktree(target[r]) /\ UNCHANGED <<place, target>>
    BY <1>7 DEF RefuseDirty, OnItsWay, At, Standing, Ended, Refused, world
  <2>2. pc'[r] = "observe"
    BY <1>1, <1>3, <1>7, <2>1 DEF RefuseDirty, CleanHere
  <2> QED
    BY <2>1, <2>2 DEF OnItsWay, Standing, Here
<1>8. CASE FetchRemote(r)
  <2>1. pc'[r] = "add" /\ UNCHANGED <<place, target, branches>>
    BY <1>1, <1>8 DEF FetchRemote, world
  <2>2. Here(r) = Absent /\ target[r] \notin branches
    BY <1>8 DEF FetchRemote, At, OnItsWay
  <2> QED
    BY <2>1, <2>2 DEF OnItsWay, Standing, Here
<1>9. CASE AddBranch(r)
  <2>1. Here(r) = Absent /\ target[r] \notin branches
    BY <1>9 DEF AddBranch, At, OnItsWay
  <2>2. pc'[r] = "register"
    BY <1>1, <1>3, <1>9, <2>1 DEF AddBranch
  <2> QED
    BY <2>2 DEF OnItsWay, Standing
<1>10. CASE AddWorktree(r)
  <2>1. Here(r) = Absent
    BY <1>0, <1>10 DEF AddWorktree, At, LanesMatch
  <2>2. pc'[r] = "checkout"
    BY <1>1, <1>3, <1>10, <2>1 DEF AddWorktree
  <2> QED
    BY <2>2 DEF OnItsWay, Standing
<1>11. CASE CheckOut(r)
  <2>1. /\ pc'[r] = "observe" /\ UNCHANGED target
        /\ place' = [place EXCEPT ![PlaceOf(target[r])] = Worktree(target[r])]
    BY <1>1, <1>11 DEF CheckOut
  <2>2. Here(r)' = Worktree(target[r])
    BY <1>0, <2>1 DEF Here, Typed
  <2> QED
    BY <2>1, <2>2 DEF OnItsWay, Standing
<1>12. CASE ObserveForStart(r)
  <2>0. pc[r] = "observe" /\ Underway(r)
    BY <1>12 DEF ObserveForStart, At, Underway, Ended
  <2>1. Here(r) = Worktree(target[r]) /\ UNCHANGED <<place, target, state>>
    BY <1>12, <2>0 DEF ObserveForStart, OnItsWay, Standing, Ended, Refused, world
  <2>2. {c \in mine : Resumable(r, c)} = mine
    BY <1>4, <2>0
  <2>3. CASE mine = {}
    <3>1. pc'[r] = "request"
      BY <1>0, <1>1, <1>3, <1>12, <2>1, <2>2, <2>3 DEF ObserveForStart
    <3> QED
      BY <1>0, <2>1, <2>3, <3>1 DEF OnItsWay, Standing, Here, LiveClaimOn
  <2>4. CASE mine # {}
    <3>1. \E c \in mine : ScopeAgrees(r, c)
      BY <1>4, <2>0, <2>4 DEF ScopeAgrees
    <3>2. pc'[r] = "resumed"
      BY <1>0, <1>1, <1>3, <1>12, <2>1, <2>2, <2>4, <3>1 DEF ObserveForStart
    <3> QED
      BY <3>2 DEF OnItsWay, Standing, Ended
  <2> QED
    BY <2>3, <2>4
<1>13. CASE BuildRequest(r)
  <2>1. /\ Here(r) = Worktree(target[r]) /\ mine = {} /\ UNCHANGED <<place, target, state>>
    BY <1>13 DEF BuildRequest, OnItsWay, At, Standing, Ended, Refused, world
  <2>2. pc'[r] = "read"
    BY <1>1, <1>3, <1>13, <2>1 DEF BuildRequest, CleanHere
  <2> QED
    BY <1>0, <2>1, <2>2 DEF OnItsWay, Standing, Here, LiveClaimOn
<1>14. CASE ObserveClaims(r)
  <2>1. /\ Here(r) = Worktree(target[r]) /\ mine = {} /\ UNCHANGED <<place, target, state>>
    BY <1>14 DEF ObserveClaims, OnItsWay, At, Standing, Ended, Refused, world
  <2>2. pc'[r] = "checks" /\ seen'[r] = state
    BY <1>0, <1>1, <1>3, <1>14, <2>1 DEF ObserveClaims, Typed
  <2> QED
    BY <1>0, <2>1, <2>2 DEF OnItsWay, Standing, Here, LiveClaimOn
<1>15. CASE CheckTarget(r)
  <2>1. /\ Here(r) = Worktree(target[r]) /\ mine = {} /\ LiveClaimOn(seen[r], command[r].key) = {}
        /\ UNCHANGED <<place, target, state>>
    BY <1>15 DEF CheckTarget, OnItsWay, At, Standing, Ended, Refused, world
  <2>2. ResolvedScope(r) = IF command[r].scope # NoScope THEN command[r].scope ELSE ItemScope(r)
    BY <2>1 DEF ResolvedScope
  <2>3. ResolvedScope(r) # NoScope /\ ~ScopeMismatch(r) /\ SliceRulesPass(r)
    BY <1>0, <2>2 DEF Undisturbed, ItemScope, ScopeMismatch, SliceRulesPass
  <2>4. pc'[r] = "push"
    BY <1>1, <1>15, <2>3 DEF CheckTarget
  <2> QED
    BY <1>0, <2>1, <2>4 DEF OnItsWay, Standing, Here, LiveClaimOn
<1>16. CASE PushClaim(r)
  <2>1. mine = {}
    BY <1>16 DEF PushClaim, At, OnItsWay
  <2>2. ASSUME NEW id \in MintedIds(r) PROVE Admits(state, Request(r, id))
    <3>1. BlockingClaims(state, Request(r, id)) = {}
      BY <2>1 DEF BlockingClaims, Request, LiveClaimOn
    <3>2. ResolvedResource(state, Request(r, id)) = NoHold /\ NoHold \notin state.occupied
      BY NoHoldAssumption DEF ResolvedResource, Request, Typed, ClaimState
    <3>3. Request(r, id).id \notin state.consumed /\ Request(r, id).kind = "claim"
      BY <2>2, RequestType DEF Request
    <3> QED
      BY <1>0, <3>1, <3>2, <3>3 DEF Admits, AdmitsClaim
  <2>3. pc'[r] \in {"claimed", "killed"}
    BY <1>16, <2>2, Pushes
  <2> QED
    BY <2>3 DEF OnItsWay, Standing, Ended
<1>17. CASE Kill(r)
  <2>1. pc'[r] = "killed"
    BY <1>1, <1>17 DEF Kill
  <2> QED
    BY <2>1 DEF OnItsWay, Standing
<1>18. CASE Fail(r)
  BY <1>0, <1>18 DEF Fail
<1> QED
  BY <1>5, <1>6, <1>7, <1>8, <1>9, <1>10, <1>11, <1>12, <1>13, <1>14, <1>15, <1>16, <1>17, <1>18
     DEF RunStep, StartStep

\* Every step keeps undisturbed starts on their way.
LEMMA LoneStep ==
  ASSUME Typed, OpenedInv, SiteInv, LoneInv, Next
  PROVE  LoneInv'
<1>1. OrderInv' /\ (Alone => LanesMatch)'
  BY OrderStep, LanesStep DEF LoneInv
<1>2. ASSUME NEW r \in Runs, Undisturbed(r)' PROVE OnItsWay(r)'
  <2>1. OnItsWay(r)
    BY <1>2, UndisturbedBefore DEF LoneInv
  <2> QED
    BY <1>2, <2>1, OthersStep, OwnStep DEF LoneInv
<1> QED
  BY <1>1, <1>2 DEF LoneInv

----------------------------------------------------------------------------
(* The theorems.                                                           *)

\* What begins the specification is well typed, and its claims are all that was opened.
LEMMA InitInvariant ==
  ASSUME Init
  PROVE  IInv /\ LoneInv
<1> PICK items \in ItemsToBegin, taken \in SUBSET Branches, claims \in SUBSET ClaimsToBegin,
         places \in {f \in [Places -> {Absent} \cup UNION {Strangers(p) : p \in Places}] :
                     \A p \in Places : f[p] \in {Absent} \cup Strangers(p)} :
      /\ \A c, d \in claims : c.key = d.key \/ c.id = d.id => c = d
      /\ Begin(items, places, taken, claims)
  BY DEF Init
<1>1. \A p \in Places : places[p] = Absent \/ places[p] \in Strangers(p)
  OBVIOUS
<1>2. \A p \in Places : Strangers(p) \subseteq Site
  <2> SUFFICES ASSUME NEW p \in Places, NEW s \in Strangers(p) PROVE s \in Site
    OBVIOUS
  <2>1. CASE s \in [kind : {"linked"}, ours : BOOLEAN, branch : {b \in Branches : b[2] = p[1]},
                    clean : {TRUE}]
    <3>1. s \in [kind : {"linked"}, ours : BOOLEAN, branch : Branches, clean : BOOLEAN]
      BY <2>1
    <3> QED
      BY <3>1 DEF Site
  <2> QED
    BY <2>1 DEF Strangers, Site
<1>3. \A p \in Places : \A s \in Strangers(p) : s.kind = "linked" => s.clean
  <2> SUFFICES ASSUME NEW p \in Places, NEW s \in Strangers(p), s.kind = "linked"
               PROVE  s.clean
    OBVIOUS
  <2>1. CASE s \in [kind : {"linked"}, ours : BOOLEAN, branch : {b \in Branches : b[2] = p[1]},
                    clean : {TRUE}]
    BY <2>1
  <2>2. CASE s \in [kind : {"main", "inside"}, ours : {FALSE}, branch : Branches, clean : {TRUE}]
    BY <2>2
  <2>3. CASE s = [kind |-> "directory"]
    BY <2>3
  <2> QED
    BY <2>1, <2>2, <2>3 DEF Strangers
<1>4. places \in [Places -> Site] /\ \A p \in Places : places[p].kind = "linked" => places[p].clean
  <2>1. \A p \in Places : places[p] \in Site
    BY <1>1, <1>2 DEF Site
  <2>2. Absent.kind # "linked"
    BY DEF Absent
  <2> QED
    BY <1>1, <1>3, <2>1, <2>2
<1>5. \A c \in claims : c \in ActiveClaim
  BY DEF ClaimsToBegin, ActiveClaim, Scopes
<1>6. state \in ClaimState /\ state.occupied = {} /\ state.tip = 1 /\ state.claims = claims
      /\ state.consumed = {c.id : c \in claims}
  <2>1. \A c \in claims : c.id \in ClaimIds
    BY DEF ClaimsToBegin
  <2> QED
    BY <1>5, <2>1 DEF Begin, BootstrapState, EMPTY_STATE, ClaimState
<1>7. \A p \in Places : places[p].kind = "linked" => places[p].branch \in Branches
  <2> SUFFICES ASSUME NEW s \in Site, s.kind = "linked" PROVE s.branch \in Branches
    BY <1>4
  <2>1. CASE s \in {Absent, [kind |-> "directory"]}
    BY <2>1 DEF Absent
  <2>2. CASE s \notin {Absent, [kind |-> "directory"]}
    BY <2>2 DEF Site
  <2> QED
    BY <2>1, <2>2
<1>8. branches = taken \cup {places[p].branch : p \in {q \in Places :
                              places[q].kind = "linked" /\ places[q].ours}}
  BY DEF Begin
<1>9. Typed
  <2>1. IsFiniteSet(state.occupied)
    BY <1>6, FS_EmptySet
  <2>2. branches \subseteq Branches
    BY <1>7, <1>8
  <2>3. item \in [Keys -> Item] /\ place \in [Places -> Site] /\ found \in [Places -> Site]
    BY <1>4 DEF Begin, ItemsToBegin, Item
  <2>4. pc \in [Runs -> Labels] /\ target \in [Runs -> Branches]
    BY LaneAssumption DEF Begin, Labels
  <2>5. EMPTY_STATE \in ClaimState
    BY DEF EMPTY_STATE, ClaimState
  <2>6. seen \in [Runs -> ClaimState] /\ asked \in [Runs -> SUBSET Paths]
        /\ reported \in [Runs -> ClaimIds \cup {NoId}]
    BY <2>5 DEF Begin
  <2>7. opened \subseteq ActiveClaim /\ command \in [Runs -> Commands] /\ after \in Orders
    BY <1>5 DEF Begin
  <2>8. state.tip # 0
    BY <1>6
  <2> QED
    BY <1>6, <2>1, <2>2, <2>3, <2>4, <2>6, <2>7, <2>8 DEF Typed
<1>10. \A r \in Runs : pc[r] = "item"
  BY DEF Begin
<1>11. OpenedInv
  BY <1>6, <1>10 DEF Begin, OpenedInv, ReportsItsOwnClaim, Reported
<1>12. place = places /\ found = places
  BY DEF Begin
<1>13. SiteInv
  BY <1>4, <1>10, <1>12 DEF SiteInv, Standing
<1>14. Alone => LanesMatch
  <2> SUFFICES ASSUME Alone PROVE LanesMatch
    OBVIOUS
  <2>1. taken = {}
    BY DEF Begin, Alone
  <2>2. \A b \in branches : \E p \in Places :
          found[p].kind = "linked" /\ found[p].ours /\ found[p].branch = b
    BY <1>8, <1>12, <2>1
  <2>3. \A p \in Places : found[p].kind = "absent" => place[p] = Absent
    BY <1>4, <1>12, AbsentSite
  <2> QED
    BY <1>10, <2>2, <2>3 DEF LanesMatch, Underway
<1>15. OrderInv /\ \A r \in Runs : OnItsWay(r)
  BY <1>10 DEF OrderInv, Underway, OnItsWay, Standing
<1> QED
  BY <1>9, <1>11, <1>13, <1>14, <1>15 DEF IInv, LoneInv

\* A step that changes nothing keeps what holds.
LEMMA RestInvariant ==
  ASSUME IInv, LoneInv, UNCHANGED vars
  PROVE  IInv' /\ LoneInv'
<1> USE DEF vars, world, run, fixed
<1>1. Typed'
  BY DEF IInv, Typed
<1>2. OpenedInv'
  BY DEF IInv, OpenedInv, ReportsItsOwnClaim, Reported
<1>3. SiteInv'
  BY DEF IInv, SiteInv, Here, ThisLane
<1>4. OrderInv'
  BY DEF LoneInv, OrderInv, Underway
<1>5. (Alone => LanesMatch)'
  BY DEF LoneInv, Alone, LanesMatch, Underway, StartBranch, SlugFor, Begun, Here
<1>6. \A r \in Runs : (Undisturbed(r) => OnItsWay(r))'
  BY DEF LoneInv, Undisturbed, OnItsWay, Overlapped, StartBranch, SlugFor, ThisLane, Here,
         LiveClaimOn
<1> QED
  BY <1>1, <1>2, <1>3, <1>4, <1>5, <1>6 DEF IInv, LoneInv

\* Types, what was opened, what stands at the paths, and what a lone start relies on,
\* in every reachable state.
THEOREM LaneStartInvariant == Spec => [](IInv /\ LoneInv)
<1>1. Init => IInv /\ LoneInv
  BY InitInvariant
<1>2. IInv /\ LoneInv /\ [Next]_vars => IInv' /\ LoneInv'
  <2>1. ASSUME IInv, LoneInv, Next PROVE IInv' /\ LoneInv'
    <3>1. Typed /\ OpenedInv /\ SiteInv
      BY <2>1 DEF IInv
    <3>2. CASE \E r \in Runs : RunStep(r)
      <4> PICK r \in Runs : RunStep(r)
        BY <3>2
      <4>1. Typed' /\ SiteInv'
        BY <3>1, RunTyped, SiteRunStep
      <4> QED
        BY <2>1, <3>1, <4>1, OpenedStep, LoneStep DEF IInv
    <3>3. CASE PeopleStep
      <4>1. Typed' /\ SiteInv'
        BY <3>1, <3>3, PeopleTyped, SitePeopleStep
      <4> QED
        BY <2>1, <3>1, <4>1, OpenedStep, LoneStep DEF IInv
    <3> QED
      BY <2>1, <3>2, <3>3 DEF Next, RunStep
  <2> QED
    BY <2>1, RestInvariant
<1> QED
  BY <1>1, <1>2, PTL DEF Spec

\* Whatever was at a worktree path before and is not the start's own lane stays as it
\* was, whatever starts, people and kills do, and no start claims anything there.
THEOREM LaneStartLeavesStrangers == Spec => []StrangersStand
<1>1. IInv => StrangersStand
  BY DEF IInv, SiteInv, StrangersStand, Reported, Standing
<1> QED
  BY <1>1, LaneStartInvariant, PTL

\* The id a start prints is that of a claim its own session opened, for its item, on
\* the branch it printed and in the scope it was given.
THEOREM LaneStartReportsItsOwnClaim == Spec => []ReportsItsOwnClaim
<1>1. IInv => ReportsItsOwnClaim
  BY DEF IInv, OpenedInv
<1> QED
  BY <1>1, LaneStartInvariant, PTL

\* A start in whose way nobody stood is never refused, wherever earlier starts of its
\* session were killed outside git's own work.
THEOREM UndisturbedLaneStartSucceeds == Spec => []UndisturbedStartSucceeds
<1>1. LoneInv => UndisturbedStartSucceeds
  BY DEF LoneInv, OnItsWay, UndisturbedStartSucceeds
<1> QED
  BY <1>1, LaneStartInvariant, PTL
=============================================================================
