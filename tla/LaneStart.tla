----------------------------- MODULE LaneStart -----------------------------
(***************************************************************************)
(* aco start: one command that builds or resumes an item's worktree and    *)
(* claims the item in it.  Its reads and writes are those of separate git  *)
(* and GitHub calls, so people, other starts and a kill come in between.   *)
(* The claim itself takes effect in one step, as Ledger has it.            *)
(*                                                                         *)
(* A worktree's path holds the item and the slug, its branch the agent's   *)
(* prefix too: two agents may compute one path and two branches, or, with  *)
(* one first word, the same path and branch.                               *)
(***************************************************************************)
EXTENDS ClaimLedger

CONSTANTS
  Runs,        \* invocations of aco start
  Commands,    \* command lines: who runs it, the item, a slug and a scope or neither
  Orders,      \* which runs each run waits for, the orders that are tried
  Slugs, Prefixes,
  PrefixOf,    \* the first word of each claimant's agent name, lowercased
  UnsafePrefixes, \* those git refuses in a branch name
  NoSlug,      \* a title nothing usable survives of; a command without --slug
  NoId,        \* no claim reported
  NoScope,     \* an item without scope; a command without --scope
  Malformed,   \* the scope of an item whose block does not parse
  MaxMoves,    \* bound: what people do meanwhile
  MaxFaults    \* bound: kills and failed calls

ASSUME LaneAssumption ==
  /\ Branches = Prefixes \X Keys \X Slugs
  /\ PrefixOf \in [Claimants -> Prefixes] /\ UnsafePrefixes \subseteq Prefixes
  /\ Orders \subseteq [Runs -> SUBSET Runs]
  /\ Commands \subseteq [who : Claimants, key : Keys, slug : Slugs \cup {NoSlug},
                         scope : (SUBSET Paths) \cup {NoScope}]
  /\ Branches # {} /\ NoSlug \notin Slugs /\ NoId \notin ClaimIds
  /\ \A paths \in SUBSET Paths : paths \notin {NoScope, Malformed}

VARIABLES
  state,     \* the claim state
  item,      \* each item: open, the slug of its title, its scope
  place,     \* what is at each worktree path
  branches,  \* the local branches
  command, after,  \* what each run is, chosen once
  pc, target,      \* where each run is; the branch it computed
  seen,      \* the claim state each run read last
  asked,     \* the scope each run is about to claim
  reported,  \* the id each run printed as CLAIMED, NoId before
  opened,    \* every claim ever opened (history)
  found,     \* what was at each path to begin with (history)
  upsets,    \* what happened that may make a start refuse (history)
  moves, faults

world == <<state, item, place, branches>>
run == <<pc, target, seen, asked, reported, opened>>
fixed == <<command, after, found>>
vars == <<world, run, fixed, upsets, moves, faults>>

Places == Keys \X Slugs
PlaceOf(branch) == <<branch[2], branch[3]>>

Worktree(b) == [kind |-> "linked", ours |-> TRUE, branch |-> b, clean |-> TRUE]
HalfMade(b) == [kind |-> "linked", ours |-> TRUE, branch |-> b, clean |-> FALSE]
Absent == [kind |-> "absent"]

Ended == {"claimed", "resumed", "refused", "killed"}

Go(r, to) == pc' = [pc EXCEPT ![r] = to]
At(r, at) == pc[r] = at
Refused(r) == Go(r, "refused") /\ UNCHANGED <<target, seen, asked, reported, opened>>

----------------------------------------------------------------------------
(* The item, and the names computed from it.                               *)

SlugFor(r) == IF command[r].slug = NoSlug THEN item[command[r].key].slug ELSE command[r].slug

StartBranch(r) == <<PrefixOf[command[r].who], command[r].key, SlugFor(r)>>

ReadItem(r) ==
  /\ At(r, "item")
  /\ \A q \in after[r] : pc[q] \in Ended
  /\ IF /\ item[command[r].key].open
        /\ SlugFor(r) # NoSlug
        /\ PrefixOf[command[r].who] \notin UnsafePrefixes
     THEN /\ target' = [target EXCEPT ![r] = StartBranch(r)]
          /\ Go(r, "resolve")
          /\ UNCHANGED <<seen, asked, reported, opened>>
     ELSE Refused(r)
  /\ UNCHANGED <<world, fixed, upsets, moves, faults>>

----------------------------------------------------------------------------
(* The worktree: resumed when it is this lane's, made when there is        *)
(* nothing, refused otherwise.                                             *)

Here(r) == place[PlaceOf(target[r])]

\* Mutant of OwnLinkedWorktree: the common git directory is not compared.
AnyLinkedWorktree(what) == what.kind = "linked"

\* A checkout's own root, no main checkout, and of this repository.
OwnLinkedWorktree(what) == what.kind = "linked" /\ what.ours

ResolveWorktree(r) ==
  /\ At(r, "resolve")
  /\ IF Here(r).kind = "absent" /\ target[r] \notin branches
     THEN Go(r, "fetch") /\ UNCHANGED <<target, seen, asked, reported, opened>>
     ELSE IF Here(r).kind \in {"linked", "main", "inside"}
             /\ OwnLinkedWorktree(Here(r)) /\ Here(r).branch = target[r]
     THEN Go(r, "dirty") /\ UNCHANGED <<target, seen, asked, reported, opened>>
     ELSE Refused(r)
  /\ UNCHANGED <<world, fixed, upsets, moves, faults>>

CleanHere(r) == Here(r).kind = "linked" /\ Here(r).clean

RefuseDirty(r) ==
  /\ At(r, "dirty")
  /\ IF CleanHere(r)
     THEN Go(r, "observe") /\ UNCHANGED <<target, seen, asked, reported, opened>>
     ELSE Refused(r)
  /\ UNCHANGED <<world, fixed, upsets, moves, faults>>

FetchRemote(r) ==
  /\ At(r, "fetch") /\ Go(r, "add")
  /\ UNCHANGED <<world, target, seen, asked, reported, opened, fixed, upsets, moves, faults>>

\* git worktree add -b makes the branch, then the worktree, then checks it out.
AddBranch(r) ==
  /\ At(r, "add")
  /\ IF Here(r).kind = "absent" /\ target[r] \notin branches
     THEN /\ Go(r, "register")
          /\ branches' = branches \cup {target[r]}
          /\ UNCHANGED <<target, seen, asked, reported, opened>>
     ELSE Refused(r) /\ UNCHANGED branches
  /\ UNCHANGED <<state, item, place, fixed, upsets, moves, faults>>

AddWorktree(r) ==
  /\ At(r, "register")
  /\ IF Here(r).kind = "absent"
     THEN /\ Go(r, "checkout")
          /\ place' = [place EXCEPT ![PlaceOf(target[r])] = HalfMade(target[r])]
          /\ UNCHANGED <<target, seen, asked, reported, opened>>
     ELSE Refused(r) /\ UNCHANGED place
  /\ UNCHANGED <<state, item, branches, fixed, upsets, moves, faults>>

CheckOut(r) ==
  /\ At(r, "checkout") /\ Go(r, "observe")
  /\ place' = [place EXCEPT ![PlaceOf(target[r])] = Worktree(target[r])]
  /\ UNCHANGED <<state, item, branches, target, seen, asked, reported, opened>>
  /\ UNCHANGED <<fixed, upsets, moves, faults>>

----------------------------------------------------------------------------
(* The claim: resumed when this session holds it on this branch, otherwise *)
(* acquired by the ordinary claim, which reads everything again.           *)

LiveClaimOn(s, key) == {c \in s.claims : c.key = key}

\* Mutant of Resumable: any claim on the branch is resumed.
ResumableByAnyone(r, claim) == claim.branch = target[r]

Resumable(r, claim) == claim.branch = target[r] /\ claim.who = command[r].who

ScopeAgrees(r, claim) == command[r].scope \in {NoScope, claim.scope}

\* One fetch of the ref; a live claim of this session ends the start here.
ObserveForStart(r) ==
  /\ At(r, "observe")
  /\ LET mine == {c \in LiveClaimOn(state, command[r].key) : Resumable(r, c)} IN
     IF state.tip = 0 \/ Here(r).kind = "absent" THEN Refused(r)
     ELSE IF mine = {}
     THEN Go(r, "request") /\ UNCHANGED <<target, seen, asked, reported, opened>>
     ELSE IF \E c \in mine : ScopeAgrees(r, c)
     THEN /\ Go(r, "resumed")
          /\ \E c \in mine : reported' = [reported EXCEPT ![r] = c.id]
          /\ UNCHANGED <<target, seen, asked, opened>>
     ELSE Refused(r)
  /\ UNCHANGED <<world, fixed, upsets, moves, faults>>

\* The checkout is validated again: linked, on its branch, without an edit.
BuildRequest(r) ==
  /\ At(r, "request")
  /\ IF CleanHere(r)
     THEN Go(r, "read") /\ UNCHANGED <<target, seen, asked, reported, opened>>
     ELSE Refused(r)
  /\ UNCHANGED <<world, fixed, upsets, moves, faults>>

\* A second fetch, before the board is read.
ObserveClaims(r) ==
  /\ At(r, "read")
  /\ IF state.tip # 0 /\ Here(r).kind # "absent"
     THEN /\ Go(r, "checks")
          /\ seen' = [seen EXCEPT ![r] = state]
          /\ UNCHANGED <<target, asked, reported, opened>>
     ELSE Refused(r)
  /\ UNCHANGED <<world, fixed, upsets, moves, faults>>

\* What the item's body says now.
ItemScope(r) == item[command[r].key].scope

\* The scope to claim: the command's, the live claim's, or the item's own.
ResolvedScope(r) ==
  IF command[r].scope # NoScope THEN command[r].scope
  ELSE IF LiveClaimOn(seen[r], command[r].key) # {}
  THEN (CHOOSE c \in LiveClaimOn(seen[r], command[r].key) : TRUE).scope
  ELSE ItemScope(r)

\* An open item's own scope and the requested one must agree.
ScopeMismatch(r) ==
  ItemScope(r) \notin {NoScope, Malformed, ResolvedScope(r)}

\* The item is open, and its body parses, whatever scope the command gives.
SliceRulesPass(r) ==
  item[command[r].key].open /\ ItemScope(r) # Malformed

CheckTarget(r) ==
  /\ At(r, "checks")
  /\ IF /\ ResolvedScope(r) # NoScope
        /\ ~ScopeMismatch(r)
        /\ SliceRulesPass(r)
     THEN /\ asked' = [asked EXCEPT ![r] = ResolvedScope(r)]
          /\ Go(r, "push")
          /\ UNCHANGED <<target, seen, reported, opened>>
     ELSE Refused(r)
  /\ UNCHANGED <<world, fixed, upsets, moves, faults>>

\* Mutant of MintedIds: the id is derived from the item.
DerivedIds(r) == {CHOOSE id \in ClaimIds : TRUE}

MintedIds(r) == ClaimIds \ {c.id : c \in opened}

Request(r, id) ==
  [kind |-> "claim", id |-> id, key |-> command[r].key, who |-> command[r].who,
   branch |-> target[r], scope |-> asked[r], resource |-> NoResource, value |-> 0]

\* The transition; the answer to a push that landed may still be lost to a kill.
PushClaim(r) ==
  /\ At(r, "push")
  /\ \E id \in MintedIds(r) :
       IF Admits(state, Request(r, id))
       THEN /\ state' = CommittedState(state, Request(r, id))
            /\ opened' = opened \cup {OpenedClaim(state, Request(r, id))}
            /\ \/ /\ Go(r, "claimed")
                  /\ reported' = [reported EXCEPT ![r] = id]
                  /\ UNCHANGED faults
               \/ /\ Go(r, "killed")
                  /\ faults < MaxFaults /\ faults' = faults + 1
                  /\ UNCHANGED reported
            /\ UNCHANGED <<target, seen, asked>>
       ELSE Refused(r) /\ UNCHANGED <<state, faults>>
  /\ UNCHANGED <<item, place, branches, fixed, upsets, moves>>

StartStep(r) ==
  \/ ReadItem(r) \/ ResolveWorktree(r) \/ RefuseDirty(r) \/ FetchRemote(r)
  \/ AddBranch(r) \/ AddWorktree(r) \/ CheckOut(r)
  \/ ObserveForStart(r) \/ BuildRequest(r) \/ ObserveClaims(r) \/ CheckTarget(r)
  \/ PushClaim(r)

----------------------------------------------------------------------------
(* What comes in between: kills, failed calls, and people.                 *)

\* git outlives a killed aco, or stops with it half way.
Kill(r) ==
  /\ pc[r] \notin Ended /\ faults < MaxFaults
  /\ faults' = faults + 1
  /\ Go(r, "killed")
  /\ IF At(r, "register") \/ At(r, "checkout")
     THEN \/ /\ Here(r).kind = "absent" \/ At(r, "checkout")
             /\ place' = [place EXCEPT ![PlaceOf(target[r])] = Worktree(target[r])]
             /\ UNCHANGED upsets
          \/ upsets' = upsets \cup {"cut off"} /\ UNCHANGED place
     ELSE UNCHANGED <<place, upsets>>
  /\ UNCHANGED <<state, item, branches, target, seen, asked, reported, opened, fixed, moves>>

\* A git or GitHub call fails, or a dispatch rule of the board refuses.
Fail(r) ==
  /\ pc[r] \notin Ended /\ faults < MaxFaults
  /\ faults' = faults + 1
  /\ Refused(r)
  /\ upsets' = upsets \cup {"failed"}
  /\ UNCHANGED <<world, fixed, moves>>

Moves ==
  /\ moves < MaxMoves /\ moves' = moves + 1
  /\ UNCHANGED <<run, command, after, faults>>

CloseItem(k) ==
  /\ Moves /\ item[k].open
  /\ item' = [item EXCEPT ![k].open = FALSE]
  /\ upsets' = upsets \cup {"closed"}
  /\ UNCHANGED <<state, place, branches, found>>

Retitle(k, slug) ==
  /\ Moves /\ item[k].slug # slug
  /\ item' = [item EXCEPT ![k].slug = slug]
  /\ upsets' = upsets \cup {"retitled"}
  /\ UNCHANGED <<state, place, branches, found>>

\* A file of a worktree is edited; a commit makes it clean again.
Edit(p) ==
  /\ Moves /\ place[p].kind = "linked" /\ place[p].clean
  /\ place' = [place EXCEPT ![p].clean = FALSE]
  /\ upsets' = upsets \cup {"edited"}
  /\ UNCHANGED <<state, item, branches, found>>

\* The holder, or a coordinator, ends a claim.
ReleaseClaim(c) ==
  /\ Moves
  /\ state' = CommittedState(state, [kind |-> "release", id |-> c.id, who |-> c.who,
                                     override |-> FALSE])
  /\ UNCHANGED <<item, place, branches, found, upsets>>

Quiet == \A r \in Runs : pc[r] \in Ended \cup {"item"}

\* A landed lane's clean worktree is removed; deleting its branch may fail.
RemoveLane(p) ==
  /\ Moves
  /\ place[p].kind = "linked" /\ place[p].ours /\ place[p].clean
  /\ place' = [place EXCEPT ![p] = Absent]
  /\ found' = [found EXCEPT ![p] = Absent]
  /\ \/ /\ branches' = branches \ {place[p].branch}
        /\ upsets' = upsets \cup (IF Quiet /\ found[p] = Absent THEN {} ELSE {"removed"})
     \/ UNCHANGED branches /\ upsets' = upsets \cup {"branch kept"}
  /\ UNCHANGED <<state, item>>

PeopleStep ==
  \/ \E k \in Keys : CloseItem(k) \/ \E slug \in Slugs \cup {NoSlug} : Retitle(k, slug)
  \/ \E p \in Places : Edit(p) \/ RemoveLane(p)
  \/ \E c \in state.claims : ReleaseClaim(c)

----------------------------------------------------------------------------
(* The specification.  To begin with paths may hold something else,        *)
(* branches may be taken, and claims may be live.                          *)

Scopes == (SUBSET Paths) \ {{}}

ItemsToBegin ==
  [Keys -> [open : BOOLEAN, slug : Slugs \cup {NoSlug},
            scope : Scopes \cup {NoScope, Malformed}]]

Strangers(p) ==
  [kind : {"linked"}, ours : BOOLEAN, branch : {b \in Branches : b[2] = p[1]}, clean : {TRUE}]
  \cup [kind : {"main", "inside"}, ours : {FALSE}, branch : Branches, clean : {TRUE}]
  \cup {[kind |-> "directory"]}

ClaimsToBegin ==
  {[key |-> k, id |-> id, who |-> w, branch |-> b, scope |-> s, hold |-> NoHold, opened |-> 1] :
     k \in Keys, id \in ClaimIds, w \in Claimants, b \in Branches, s \in Scopes}

Begin(items, places, taken, claims) ==
  /\ item = items
  /\ place = places /\ found = places
  /\ branches = taken \cup {places[p].branch : p \in {q \in Places :
                               places[q].kind = "linked" /\ places[q].ours}}
  /\ state = [BootstrapState(1) EXCEPT !.claims = claims, !.consumed = {c.id : c \in claims}]
  /\ opened = claims
  /\ command \in [Runs -> Commands] /\ after \in Orders
  /\ pc = [r \in Runs |-> "item"]
  /\ target = [r \in Runs |-> CHOOSE b \in Branches : TRUE]
  /\ seen = [r \in Runs |-> EMPTY_STATE]
  /\ asked = [r \in Runs |-> {}]
  /\ reported = [r \in Runs |-> NoId]
  /\ upsets = (IF taken = {} THEN {} ELSE {"branch kept"}) /\ moves = 0 /\ faults = 0

Init ==
  \E items \in ItemsToBegin, taken \in SUBSET Branches, claims \in SUBSET ClaimsToBegin,
     places \in {f \in [Places -> {Absent} \cup UNION {Strangers(p) : p \in Places}] :
                 \A p \in Places : f[p] \in {Absent} \cup Strangers(p)} :
    /\ \A c, d \in claims : c.key = d.key \/ c.id = d.id => c = d
    /\ Begin(items, places, taken, claims)

Next ==
  \/ \E r \in Runs : StartStep(r) \/ Kill(r) \/ Fail(r)
  \/ PeopleStep

Spec == Init /\ [][Next]_vars

----------------------------------------------------------------------------
(* Properties.                                                             *)

Reported(r) == pc[r] \in {"claimed", "resumed"}

\* A start that prints CLAIMED names a claim of its own session, for its item,
\* on the branch it printed and with the scope it was given, however a kill,
\* another agent with the same first word, or a release came in between: a
\* live claim of someone else is never silently resumed.
ReportsItsOwnClaim ==
  \A r \in Runs : Reported(r) =>
    \E c \in opened :
      /\ c.id = reported[r]
      /\ c.who = command[r].who /\ c.key = command[r].key /\ c.branch = target[r]
      /\ command[r].scope \in {NoScope, c.scope}

ThisLane(what, branch) == what.kind = "linked" /\ what.ours /\ what.branch = branch

\* What a start did not make and that is not its lane it leaves as it was, and
\* claims nothing there: a directory, a main checkout, another repository's
\* worktree, this repository's worktree on another branch.
StrangersStand ==
  /\ \A p \in Places :
       found[p].kind # "absent" /\ place[p] # found[p] => "edited" \in upsets
  /\ \A r \in Runs : Reported(r) =>
       LET what == found[PlaceOf(target[r])] IN
       what.kind = "absent" \/ ThisLane(what, target[r])

Overlapped(r) ==
  \E q \in Runs \ {r} : q \notin after[r] /\ r \notin after[q]

\* Nothing a person or another session did stands in this start's way.
Undisturbed(r) ==
  /\ upsets = {} /\ ~Overlapped(r)
  /\ \A q \in Runs : pc[q] = "item" \/ command[q].who = command[r].who
  /\ item[command[r].key].open
  /\ SlugFor(r) # NoSlug /\ PrefixOf[command[r].who] \notin UnsafePrefixes
  /\ item[command[r].key].scope # Malformed
  /\ IF command[r].scope = NoScope
     THEN item[command[r].key].scope # NoScope
     ELSE item[command[r].key].scope \in {NoScope, command[r].scope}
  /\ \A p \in Places : found[p].kind # "absent" =>
       p = PlaceOf(StartBranch(r)) /\ ThisLane(found[p], StartBranch(r))
  /\ \A c \in opened : c.who = command[r].who /\ c.branch = StartBranch(r)
                        /\ command[r].scope \in {NoScope, c.scope}

\* A start that nobody disturbs is never refused: not after an earlier start of
\* the same session was killed at any instant outside git's own work, not after
\* the claim it opened was released, and not when its worktree was removed.
UndisturbedStartSucceeds ==
  \A r \in Runs : pc[r] = "refused" => ~Undisturbed(r)
=============================================================================
