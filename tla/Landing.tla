------------------------------ MODULE Landing ------------------------------
(***************************************************************************)
(* Landing a pull request on GitHub: aco land, and the release --merged it  *)
(* delegates to, as runs that may fail at every external call and be        *)
(* started again, beside the claim's holder, who goes on working in the     *)
(* lane's worktree.  The claim state takes each intent in one step, as      *)
(* Ledger has it and StateRefStore implements it.                          *)
(*                                                                         *)
(* The lane's commits are numbered; a branch holds those up to its tip, 0   *)
(* for a branch that is absent.                                            *)
(***************************************************************************)
EXTENDS ClaimLedger

CONSTANTS
  Runs,           \* command invocations
  CommandOf,      \* the command line of each run: its kind, "land" or "release",
                  \* who runs it, override, and whether inside the lane's worktree
  Orders,         \* the orders of the runs that are tried: each gives the runs
                  \* whose end a run waits for
  Subject,        \* the issue or lane that the pull request lands
  SubjectIsIssue, \* whether Subject is an issue
  Lane,           \* the pull request's head branch
  FirstId,        \* the claim the lane was opened with
  SecondClaim,    \* the claim intent its holder may come back with, or NoClaim
  NoTrailer,      \* a merge commit that names no work item
  MaxCommits      \* bound: commits on the lane

ASSUME LandingAssumption ==
  /\ CommandOf \in [Runs -> [kind : {"land", "release"}, who : Claimants,
                             override : BOOLEAN, inside : BOOLEAN]]
  /\ Orders \subseteq [Runs -> SUBSET Runs]
  /\ Subject \in Keys /\ Lane \in Branches /\ FirstId \in ClaimIds
  /\ SubjectIsIssue \in BOOLEAN
  /\ SecondClaim = NoClaim \/ SecondClaim \in ClaimIntent
  /\ IsFiniteSet(Runs) /\ MaxCommits \in Positive
  /\ \E w \in Claimants : w \notin Coordinators

VARIABLES
  state,     \* the claim state
  outcome,   \* how each claim ended, as its release commit records it
  pull,      \* the pull request: its head, the head that was merged (0 for none),
             \* the work item its merge commit names, and the run that merged it
  issue,     \* the issue: whether it is open, and its landing comments
  lane,      \* the lane branch in the clone, on GitHub and as last fetched; its worktree
  trunk,     \* what the clone's origin/main holds of the lane
  pc,        \* where each run is
  head,      \* the head each run read as ready
  selected,  \* the claim each run is about to release
  troubled,  \* the runs that met a fault
  looked,    \* whether the holder's claim has passed its checks and not yet committed
  after      \* the order of the runs, chosen once

vars == <<state, outcome, pull, issue, lane, trunk, pc, head, selected, troubled, looked,
          after>>
forge == <<pull, issue>>
clone == <<lane, trunk>>
ledger == <<state, outcome>>

Nobody == "nobody"

Ended == {"done", "refused", "incomplete", "crashed"}

\* The preflight and the merge; a failure there is a refusal, a later one of
\* land an incomplete follow-up.
BeforeMerge == {"landing", "readiness", "item", "claims", "merge"}

Steps == BeforeMerge \cup
  {"branch", "forward", "route", "resolve", "verify", "comment", "post", "close",
   "release", "report", "merged", "dirty", "remove", "delete"}

FailureOf(r) ==
  IF CommandOf[r].kind = "land" /\ pc[r] \notin BeforeMerge THEN "incomplete" ELSE "refused"

Step(r, from, to) == pc[r] = from /\ pc' = [pc EXCEPT ![r] = to]

\* A step whose effect is done; its answer may be lost.
Effect(r, from, to) ==
  \/ Step(r, from, to) /\ UNCHANGED troubled
  \/ Step(r, from, FailureOf(r)) /\ troubled' = troubled \cup {r}

\* git fetch, which does not prune.
Fetched ==
  /\ trunk' = pull.merged
  /\ lane' = [lane EXCEPT !.tracking = IF lane.remote = 0 THEN @ ELSE lane.remote]

----------------------------------------------------------------------------
(* land: the preflight reads, the merge pinned to the head that was read,   *)
(* the deletion of the branch, the fast-forward of the main checkout.       *)

\* A pull request found merged is a rerun: it skips preflight and merge.
ReadLanding(r) ==
  /\ \A q \in after[r] : pc[q] \in Ended
  /\ Step(r, "landing", IF pull.merged # 0 THEN "branch" ELSE "readiness")
  /\ UNCHANGED <<ledger, forge, clone, head, selected, troubled>>

\* Open, mergeable and green, read with the head sha.
ReadReadiness(r) ==
  /\ \/ /\ pull.merged = 0
        /\ Step(r, "readiness", "item")
        /\ head' = [head EXCEPT ![r] = pull.head]
     \/ Step(r, "readiness", "refused") /\ UNCHANGED head
  /\ UNCHANGED <<ledger, forge, clone, selected, troubled>>

\* The named work item is open.
ReadItem(r) ==
  /\ Step(r, "item", IF SubjectIsIssue /\ ~issue.open THEN "refused" ELSE "claims")
  /\ UNCHANGED <<ledger, forge, clone, head, selected, troubled>>

LiveClaims == {c \in state.claims : c.key = Subject}

MayRelease(r, claim) == CommandOf[r].override \/ claim.who = CommandOf[r].who

\* The head branch holds the claim and this session may release it; parent
\* and closing rules, or an unclean checkout, may refuse all the same.
PeekClaims(r) ==
  /\ \/ /\ \E c \in LiveClaims : c.branch = Lane /\ MayRelease(r, c)
        /\ Step(r, "claims", "merge")
     \/ Step(r, "claims", "refused")
  /\ UNCHANGED <<ledger, forge, clone, head, selected, troubled>>

\* Mutant of Merge: the head is read again at the merge.
MergeUnpinned(r) ==
  /\ IF pull.merged = 0
     THEN /\ Effect(r, "merge", "branch")
          /\ pull' = [pull EXCEPT !.merged = pull.head, !.trailer = Subject, !.by = r]
     ELSE Step(r, "merge", "refused") /\ UNCHANGED <<pull, troubled>>
  /\ UNCHANGED <<ledger, issue, clone, head, selected>>

Merge(r) ==
  /\ IF pull.merged = 0 /\ pull.head = head[r]
     THEN /\ Effect(r, "merge", "branch")
          /\ pull' = [pull EXCEPT !.merged = pull.head, !.trailer = Subject, !.by = r]
     ELSE Step(r, "merge", "refused") /\ UNCHANGED <<pull, troubled>>
  /\ UNCHANGED <<ledger, issue, clone, head, selected>>

\* Deleting an absent branch counts as done.
DeleteBranch(r) ==
  /\ Effect(r, "branch", "forward")
  /\ lane' = [lane EXCEPT !.remote = 0]
  /\ UNCHANGED <<ledger, forge, trunk, head, selected>>

FastForward(r) ==
  /\ Step(r, "forward", "route")
  /\ Fetched
  /\ UNCHANGED <<ledger, forge, head, selected, troubled>>

\* The item the release is for: the one this run's preflight verified, or on a
\* rerun the one the merge commit names.
RouteRelease(r) ==
  /\ Step(r, "route",
          IF head[r] # 0 \/ pull.trailer = Subject THEN "resolve" ELSE "incomplete")
  /\ UNCHANGED <<ledger, forge, clone, head, selected, troubled>>

----------------------------------------------------------------------------
(* release --merged: resolve the claim, verify the landing, close the       *)
(* issue, release, clean up the worktree.                                  *)

\* The issue's or lane's live claim, whatever branch an issue's claim is on.
ResolveClaim(r) ==
  /\ \A q \in after[r] : pc[q] \in Ended
  /\ \/ \E c \in LiveClaims :
          /\ MayRelease(r, c)
          /\ selected' = [selected EXCEPT ![r] = c]
          /\ Step(r, "resolve", "verify")
     \/ /\ \A c \in LiveClaims : ~MayRelease(r, c)
        /\ Step(r, "resolve", FailureOf(r))
        /\ UNCHANGED selected
  /\ UNCHANGED <<ledger, forge, clone, head, troubled>>

\* Mutant of VerifyMerged: the merge commit's trailer is not read.
VerifyMergedOnly(r) ==
  /\ Step(r, "verify", IF pull.merged = 0 THEN FailureOf(r)
                       ELSE IF SubjectIsIssue /\ issue.open THEN "comment" ELSE "release")
  /\ Fetched
  /\ UNCHANGED <<ledger, forge, head, selected, troubled>>

\* Mutant of VerifyMerged: an issue that is closed already is a refusal.
VerifyMergedOfOpenIssue(r) ==
  /\ Step(r, "verify",
          IF \/ pull.merged = 0 \/ pull.trailer # Subject
             \/ SubjectIsIssue /\ ~issue.open
          THEN FailureOf(r) ELSE IF SubjectIsIssue THEN "comment" ELSE "release")
  /\ Fetched
  /\ UNCHANGED <<ledger, forge, head, selected, troubled>>

\* The merge commit on the trunk is what authorises the release.
VerifyMerged(r) ==
  /\ Step(r, "verify",
          IF pull.merged = 0 \/ pull.trailer # Subject THEN FailureOf(r)
          ELSE IF SubjectIsIssue /\ issue.open THEN "comment" ELSE "release")
  /\ Fetched
  /\ UNCHANGED <<ledger, forge, head, selected, troubled>>

LookForComment(r) ==
  /\ Step(r, "comment", IF issue.comments = 0 THEN "post" ELSE "close")
  /\ UNCHANGED <<ledger, forge, clone, head, selected, troubled>>

PostComment(r) ==
  /\ Effect(r, "post", "close")
  /\ issue' = [issue EXCEPT !.comments = @ + 1]
  /\ UNCHANGED <<ledger, pull, clone, head, selected>>

CloseIssue(r) ==
  /\ Effect(r, "close", "release")
  /\ issue' = [issue EXCEPT !.open = FALSE]
  /\ UNCHANGED <<ledger, pull, clone, head, selected>>

ReleaseIntentOf(r) ==
  [kind |-> "release", id |-> selected[r].id, who |-> CommandOf[r].who,
   override |-> CommandOf[r].override]

\* commit_transition, after which the board is read for the report.
CommitRelease(r) ==
  /\ pc[r] = "release"
  /\ IF Admits(state, ReleaseIntentOf(r))
     THEN /\ Effect(r, "release", "report")
          /\ state' = CommittedState(state, ReleaseIntentOf(r))
          /\ outcome' = [outcome EXCEPT ![selected[r].id] = "merged"]
     ELSE Step(r, "release", FailureOf(r)) /\ UNCHANGED <<ledger, troubled>>
  /\ UNCHANGED <<forge, clone, head, selected>>

\* A forge that cannot be read is a hint, and the run goes on.  The worktree is
\* kept if there is none on the claim's branch, or the run is inside it.
ReportLanding(r) ==
  /\ Step(r, "report",
          IF \/ CommandOf[r].inside
             \/ selected[r].branch # Lane
             \/ lane.worktree = "none"
          THEN "done" ELSE "merged")
  /\ UNCHANGED <<ledger, forge, clone, head, selected, troubled>>

CheckMerged(r) ==
  /\ Step(r, "merged", IF lane.local <= pull.merged THEN "dirty" ELSE "done")
  /\ Fetched
  /\ UNCHANGED <<ledger, forge, head, selected, troubled>>

CheckClean(r) ==
  /\ Step(r, "dirty", IF lane.worktree = "clean" THEN "remove" ELSE "done")
  /\ UNCHANGED <<ledger, forge, clone, head, selected, troubled>>

\* git worktree remove refuses a dirty or missing worktree; the cleanup then
\* keeps both, and the release stands.
RemoveWorktree(r) ==
  /\ IF lane.worktree = "clean"
     THEN /\ Step(r, "remove", "delete")
          /\ lane' = [lane EXCEPT !.worktree = "none"]
     ELSE Step(r, "remove", "done") /\ UNCHANGED lane
  /\ UNCHANGED <<ledger, forge, trunk, head, selected, troubled>>

\* Mutant of DeleteLocalBranch: git branch -D.
DeleteLocalBranchForced(r) ==
  /\ Step(r, "delete", "done")
  /\ lane' = [lane EXCEPT !.local = 0]
  /\ UNCHANGED <<ledger, forge, trunk, head, selected, troubled>>

\* git branch -d refuses a branch that its upstream does not contain.
DeleteLocalBranch(r) ==
  /\ Step(r, "delete", "done")
  /\ lane' = [lane EXCEPT !.local =
       IF @ <= (IF lane.upstream = "lane" THEN lane.tracking ELSE trunk) THEN 0 ELSE @]
  /\ UNCHANGED <<ledger, forge, trunk, head, selected, troubled>>

\* A call fails without an effect, or the run is killed.
Fail(r) ==
  /\ pc[r] \in Steps
  /\ \/ /\ pc[r] \notin {"report", "merged", "dirty", "remove", "delete"}
        /\ Step(r, pc[r], FailureOf(r))
     \/ Step(r, pc[r], "crashed")
  /\ troubled' = troubled \cup {r}
  /\ UNCHANGED <<ledger, forge, clone, head, selected>>

----------------------------------------------------------------------------
(* The holder and GitHub.                                                  *)

\* The holder edits and commits in the worktree, and pushes; an open pull
\* request follows its branch.
Edit ==
  /\ lane.worktree = "clean"
  /\ lane.local < MaxCommits
  /\ lane' = [lane EXCEPT !.worktree = "dirty"]
  /\ UNCHANGED <<ledger, forge, trunk, pc, head, selected, troubled>>

Commit ==
  /\ lane.worktree = "dirty"
  /\ lane' = [lane EXCEPT !.worktree = "clean", !.local = @ + 1, !.made = @ + 1]
  /\ UNCHANGED <<ledger, forge, trunk, pc, head, selected, troubled>>

PushLane ==
  /\ lane.local # 0
  /\ lane.local # lane.remote
  /\ lane' = [lane EXCEPT !.remote = lane.local, !.tracking = lane.local,
                          !.pushed = lane.local]
  /\ pull' = [pull EXCEPT !.head = IF pull.merged = 0 THEN lane.local ELSE @]
  /\ UNCHANGED <<ledger, issue, trunk, pc, head, selected, troubled>>

\* The holder gives the claim up, and may claim the subject again elsewhere.
Abandon ==
  /\ SecondClaim # NoClaim
  /\ \E c \in LiveClaims :
       LET release == [kind |-> "release", id |-> c.id, who |-> c.who, override |-> FALSE] IN
       /\ c.id = FirstId
       /\ state' = CommittedState(state, release)
       /\ outcome' = [outcome EXCEPT ![c.id] = "abandoned"]
  /\ UNCHANGED <<forge, clone, pc, head, selected, troubled>>

\* The forge says that the issue is open, and the claim's id is a fresh one.
LookToClaim ==
  /\ SecondClaim # NoClaim
  /\ ~looked
  /\ issue.open
  /\ SecondClaim.id \notin state.consumed
  /\ looked' = TRUE
  /\ UNCHANGED <<ledger, forge, clone, pc, head, selected, troubled>>

\* The transition is judged on the claim state alone, and ends the command.
ClaimAgain ==
  /\ looked
  /\ looked' = FALSE
  /\ state' = IF Admits(state, SecondClaim) THEN CommittedState(state, SecondClaim) ELSE state
  /\ UNCHANGED <<outcome, forge, clone, pc, head, selected, troubled>>

\* Somebody merges on the web page, with or without the trailer.
MergeByHand ==
  /\ pull.merged = 0
  /\ \E trailer \in {Subject, NoTrailer} :
       pull' = [pull EXCEPT !.merged = pull.head, !.trailer = trailer]
  /\ UNCHANGED <<ledger, issue, clone, pc, head, selected, troubled>>

\* GitHub closes the issue for the closing reference, if it does, at its time.
AutoClose ==
  /\ SubjectIsIssue
  /\ pull.merged # 0
  /\ issue.open
  /\ issue' = [issue EXCEPT !.open = FALSE]
  /\ UNCHANGED <<ledger, pull, clone, pc, head, selected, troubled>>

----------------------------------------------------------------------------
(* The specification.                                                      *)

FirstClaim ==
  [kind |-> "claim", id |-> FirstId, key |-> Subject,
   who |-> CHOOSE w \in Claimants : w \notin Coordinators, branch |-> Lane,
   scope |-> {}, resource |-> NoResource, value |-> 0]

\* git worktree add made the trunk the lane's upstream; git push -u the lane.
Init ==
  /\ state = CommittedState(BootstrapState(1), FirstClaim)
  /\ outcome = [id \in ClaimIds |-> "none"]
  /\ pull = [head |-> 1, merged |-> 0, trailer |-> NoTrailer, by |-> Nobody]
  /\ issue = [open |-> TRUE, comments |-> 0]
  /\ \E upstream \in {"trunk", "lane"} :
       lane = [local |-> 1, remote |-> 1, tracking |-> 1, made |-> 1, pushed |-> 1,
               worktree |-> "clean", upstream |-> upstream]
  /\ trunk = 0
  /\ pc = [r \in Runs |-> IF CommandOf[r].kind = "land" THEN "landing" ELSE "resolve"]
  /\ head = [r \in Runs |-> 0]
  /\ selected = [r \in Runs |-> NoClaim]
  /\ troubled = {}
  /\ looked = FALSE
  /\ after \in Orders

LandStep(r) ==
  \/ ReadLanding(r) \/ ReadReadiness(r) \/ ReadItem(r) \/ PeekClaims(r)
  \/ Merge(r) \/ DeleteBranch(r) \/ FastForward(r) \/ RouteRelease(r)

ReleaseStep(r) ==
  \/ ResolveClaim(r) \/ VerifyMerged(r)
  \/ LookForComment(r) \/ PostComment(r) \/ CloseIssue(r)
  \/ CommitRelease(r) \/ ReportLanding(r)

CleanupStep(r) ==
  \/ CheckMerged(r) \/ CheckClean(r) \/ RemoveWorktree(r) \/ DeleteLocalBranch(r)

HolderStep == Edit \/ Commit \/ PushLane \/ Abandon

Next ==
  /\ \/ /\ \/ \E r \in Runs : LandStep(r) \/ ReleaseStep(r) \/ CleanupStep(r) \/ Fail(r)
           \/ HolderStep
           \/ MergeByHand
           \/ AutoClose
        /\ UNCHANGED looked
     \/ LookToClaim
     \/ ClaimAgain
  /\ UNCHANGED after

Spec == Init /\ [][Next]_vars

----------------------------------------------------------------------------
(* Properties.                                                             *)

\* Every variable holds a value of its type; a run posts one comment at most.
TypeOK ==
  /\ state \in ClaimState
  /\ outcome \in [ClaimIds -> {"none", "abandoned", "merged"}]
  /\ pull \in [head : 1 .. MaxCommits, merged : 0 .. MaxCommits,
               trailer : {Subject, NoTrailer}, by : Runs \cup {Nobody}]
  /\ issue \in [open : BOOLEAN, comments : 0 .. Cardinality(Runs)]
  /\ lane \in [local : 0 .. MaxCommits, remote : 0 .. MaxCommits, tracking : 0 .. MaxCommits,
               made : 1 .. MaxCommits, pushed : 1 .. MaxCommits,
               worktree : {"clean", "dirty", "none"}, upstream : {"trunk", "lane"}]
  /\ trunk \in 0 .. MaxCommits
  /\ pc \in [Runs -> Steps \cup Ended]
  /\ selected \in [Runs -> ActiveClaim \cup {NoClaim}]
  /\ troubled \subseteq Runs
  /\ looked \in BOOLEAN

\* What land merges is the very head whose checks it read, however the branch
\* moved in between.
MergedHeadWasChecked ==
  pull.by # Nobody => pull.merged = head[pull.by]

\* A claim that is recorded as merged was landed: its issue is closed, and the
\* trunk holds a merge commit that names it, whoever merged, whichever run got
\* how far.
MergedReleaseIsLanded ==
  \A id \in ClaimIds : outcome[id] = "merged" =>
    /\ pull.merged # 0
    /\ pull.trailer = Subject
    /\ SubjectIsIssue => ~issue.open

Started == {r \in Runs : r \notin after[r]}

Sequential == \A r, q \in Started : r = q \/ r \in after[q] \/ q \in after[r]

\* Runs that follow one another, each picking up where a fault left the one
\* before, post the landing comment once.
CommentedOnce == Sequential => issue.comments <= 1

\* However often the follow-up of a merge is run again, it does no more than the
\* merge justifies, and no part of it twice.
FollowUpIsSound == TypeOK /\ MergedReleaseIsLanded /\ CommentedOnce

\* No commit that exists in this clone alone is ever lost, although the holder
\* commits while a run removes the worktree and deletes the branch.
UnpushedWorkSurvives ==
  lane.made > lane.pushed /\ lane.made > pull.merged => lane.local = lane.made

Undisturbed ==
  /\ pull.trailer = Subject
  /\ \A id \in ClaimIds : outcome[id] # "abandoned"

\* A land that got past the merge without a fault of its own leaves nothing to
\* do: the issue is closed and the lane's claim released, by it or by another
\* run.  A claim its holder was about to take again may come after that.
FaultlessLandCompletes ==
  \A r \in Runs \ troubled :
    /\ CommandOf[r].kind = "land"
    /\ pc[r] \in {"done", "incomplete"}
    /\ Undisturbed
    => (\A c \in LiveClaims : c.id # FirstId) /\ (SubjectIsIssue => ~issue.open)

\* A land that follows one that a fault stopped, and meets no fault itself,
\* resumes and ends: it does not report an incomplete follow-up again.
RerunResumes ==
  \A r \in Runs \ troubled :
    Sequential /\ Undisturbed => ~(CommandOf[r].kind = "land" /\ pc[r] = "incomplete")

\* A release for a pull request ends the claim on that pull request's branch
\* and no other.
LandingEndsItsBranchClaim ==
  [][\A c \in state.claims :
       outcome[c.id] # "merged" /\ outcome'[c.id] = "merged" => c.branch = Lane]_vars

\* A closed issue is not claimed, not even by a claim that found it open.
ClosedIssueIsNotClaimed ==
  [][~issue.open => LiveClaims' \subseteq LiveClaims]_vars
=============================================================================
