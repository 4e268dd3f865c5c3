--------------------------- MODULE LandingProofs ---------------------------
(***************************************************************************)
(* Proofs about landing on GitHub: what land merges was checked, a follow-up *)
(* does what the merge justifies and no part of it twice, no commit is lost *)
(* by the cleanup, and a landing without a fault leaves nothing to do.     *)
(***************************************************************************)
EXTENDS Landing, ClaimLedgerProofs

----------------------------------------------------------------------------
(* The inductive invariant.                                                *)

Pull == [head : Nat, merged : Nat, trailer : {Subject, NoTrailer}, by : Runs \cup {Nobody}]

LaneRecord ==
  [local : Nat, remote : Nat, tracking : Nat, made : Nat, pushed : Nat,
   worktree : {"clean", "dirty", "none"}, upstream : {"trunk", "lane"}]

\* The types without their bounds, which LaneInv and CommentInv give.
Typed ==
  /\ state \in ClaimState /\ IsFiniteSet(state.occupied)
  /\ outcome \in [ClaimIds -> {"none", "abandoned", "merged"}]
  /\ pull \in Pull
  /\ issue \in [open : BOOLEAN, comments : Nat]
  /\ lane \in LaneRecord
  /\ trunk \in Nat
  /\ pc \in [Runs -> Steps \cup Ended]
  /\ head \in [Runs -> Nat]
  /\ selected \in [Runs -> ActiveClaim \cup {NoClaim}]
  /\ troubled \subseteq Runs
  /\ looked \in BOOLEAN /\ (looked => SecondClaim # NoClaim)
  /\ after \in Orders

\* Where the lane's commits are: a worktree stands on the last one, what was
\* pushed was made, and a branch is deleted only when something else holds it.
LaneInv ==
  /\ 1 <= lane.pushed /\ lane.pushed <= lane.made /\ lane.made <= MaxCommits
  /\ lane.remote <= lane.pushed /\ lane.tracking <= lane.pushed
  /\ 1 <= pull.head /\ pull.head <= lane.pushed
  /\ pull.merged <= lane.pushed /\ trunk <= pull.merged
  /\ lane.local \in {0, lane.made}
  /\ lane.worktree # "none" => lane.local = lane.made
  /\ lane.worktree = "dirty" => lane.made < MaxCommits
  /\ lane.local = 0 => lane.made <= lane.pushed \/ lane.made <= pull.merged
  /\ \A r \in Runs : pc[r] = "delete" => lane.worktree = "none"

Verified == {"comment", "post", "close", "release"}

Following == {"branch", "forward", "route", "resolve", "verify"} \cup Verified
             \cup {"report", "merged", "dirty", "remove", "delete", "done", "incomplete"}

\* What a run has found out holds still when it acts on it.
RunInv ==
  /\ \A r \in Runs :
       /\ CommandOf[r].kind = "land" /\ pc[r] \in Following => pull.merged # 0
       /\ pc[r] \in {"branch", "forward", "route"} => pull.merged # 0
       /\ pc[r] \in Verified => pull.merged # 0 /\ pull.trailer = Subject
       /\ pc[r] = "release" => (SubjectIsIssue => ~issue.open)
       /\ pc[r] \in {"verify"} \cup Verified => selected[r] \in ActiveClaim
  /\ pull.merged = 0 => pull.by = Nobody
  /\ MergedHeadWasChecked
  /\ MergedReleaseIsLanded

Waiting == {"landing", "resolve"}

\* The runs that may have posted the landing comment.
Posted == {r \in Runs : pc[r] \in {"close", "release", "report", "merged", "dirty", "remove",
                                   "delete"} \cup Ended}

\* A run under way has seen the runs it waits for end; a run that found no
\* comment finds none when it posts.
CommentInv ==
  /\ \A r \in Runs : pc[r] \notin Waiting \cup Ended => \A q \in after[r] : pc[q] \in Ended
  /\ issue.comments <= Cardinality(Posted)
  /\ Sequential => /\ issue.comments <= 1
                   /\ \A r \in Runs : pc[r] = "post" => issue.comments = 0

IInv ==
  /\ Typed
  /\ LaneInv
  /\ RunInv
  /\ CommentInv

Holder == FirstClaim.who

Live(id) == id \in IdsOf(state)

\* The first claim is live until it ends, once; the claim its holder is about to
\* take has another id.
ClaimInv ==
  /\ \A c, d \in state.claims : c.key = d.key \/ c.id = d.id => c = d
  /\ FirstId \in state.consumed /\ \A c \in state.claims : c.id \in state.consumed
  /\ Live(FirstId) <=> outcome[FirstId] = "none"
  /\ \A c \in state.claims :
       c.id = FirstId => c.key = Subject /\ c.who = Holder /\ c.branch = Lane
  /\ looked => SecondClaim.id \notin state.consumed

\* Every landing is one its session may finish: the holder's, or a
\* coordinator's with --override.
LandersMayRelease ==
  \A r \in Runs : CommandOf[r].kind = "land" =>
    IF CommandOf[r].override THEN CommandOf[r].who \in Coordinators
    ELSE CommandOf[r].who = Holder

\* The first claim's release says that the subject is landed; RunInv has the rest.
Finished == outcome[FirstId] = "merged"

Reporting == {"report", "merged", "dirty", "remove", "delete", "done"}

\* A landing acts on the first claim, unless it was abandoned or has landed, and
\* ends with nothing left to do.
FinishInv ==
  /\ outcome[FirstId] # "abandoned" =>
       \A r \in Runs :
         /\ pc[r] \in {"verify"} \cup Verified => selected[r].id = FirstId \/ Finished
         /\ pc[r] \in Reporting => Finished
  /\ outcome[FirstId] # "abandoned" /\ pull.trailer = Subject =>
       \A r \in Runs \ troubled :
         CommandOf[r].kind = "land" /\ pc[r] = "incomplete" => Finished

----------------------------------------------------------------------------
(* Types.                                                                  *)

RunStep(r) ==
  (LandStep(r) \/ ReleaseStep(r) \/ CleanupStep(r) \/ Fail(r)) /\ UNCHANGED <<after, looked>>

People ==
  /\ \/ (HolderStep \/ MergeByHand \/ AutoClose) /\ UNCHANGED looked
     \/ LookToClaim
     \/ ClaimAgain
  /\ UNCHANGED after

\* The constants a run's type and its claim's rest on.
LEMMA Constants ==
  /\ FirstClaim \in ClaimIntent /\ FirstClaim.who \notin Coordinators
  /\ FirstClaim.id = FirstId /\ FirstClaim.key = Subject /\ FirstClaim.branch = Lane
  /\ MaxCommits \in Nat /\ 1 <= MaxCommits
<1>1. (CHOOSE w \in Claimants : w \notin Coordinators) \in Claimants \ Coordinators
  BY LandingAssumption
<1> QED
  BY <1>1, LandingAssumption DEF FirstClaim, ClaimIntent, Positive

\* The state a landing starts from: the ref's bootstrap and the lane's claim.
LEMMA InitState ==
  ASSUME NEW s, s = CommittedState(BootstrapState(1), FirstClaim)
  PROVE  /\ s \in ClaimState /\ IsFiniteSet(s.occupied) /\ s.tip # 0
         /\ s.consumed = {FirstId}
         /\ \E c \in ActiveClaim : /\ s.claims = {c} /\ c.id = FirstId /\ c.key = Subject
                                   /\ c.who = FirstClaim.who /\ c.branch = Lane
<1> DEFINE b == BootstrapState(1)
           c == OpenedClaim(b, FirstClaim)
<1>1. b \in ClaimState /\ b.tip = 1 /\ b.claims = {} /\ b.consumed = {} /\ b.occupied = {}
  BY DEF BootstrapState, EMPTY_STATE, ClaimState
<1>2. IsFiniteSet(b.occupied)
  BY <1>1, FS_EmptySet
<1>3. ~IsReplay(b, FirstClaim)
  BY <1>1 DEF IsReplay
<1>4. FirstClaim \in AnyIntent
  BY Constants DEF AnyIntent
<1>0. s = CommittedState(b, FirstClaim)
  OBVIOUS
<1> HIDE DEF b
<1>5. s \in ClaimState /\ s.tip = b.tip + 1 /\ IsFiniteSet(s.occupied)
  BY <1>0, <1>1, <1>2, <1>4, CommittedType
<1>6. s.claims = PutClaim(b.claims, c) /\ s.consumed = b.consumed \cup {FirstClaim.id}
  BY <1>0, <1>1, <1>3, Constants, CommittedFreshFields
<1>7. c \in ActiveClaim /\ c.id = FirstId /\ c.key = Subject
  BY <1>1, <1>2, Constants, OpenedClaimType
<1>8. c.who = FirstClaim.who /\ c.branch = Lane
  BY Constants DEF OpenedClaim
<1>9. s.claims = {c}
  BY <1>1, <1>6 DEF PutClaim
<1> QED
  BY <1>1, <1>5, <1>6, <1>7, <1>8, <1>9, Constants

\* The initial values have their types.
LEMMA InitTyped == Init => Typed
<1> SUFFICES ASSUME Init PROVE Typed
  OBVIOUS
<1>1. state \in ClaimState /\ IsFiniteSet(state.occupied)
  BY InitState DEF Init
<1>2. pc \in [Runs -> Steps \cup Ended]
  BY DEF Init, Steps, BeforeMerge
<1>3. pull \in Pull /\ issue \in [open : BOOLEAN, comments : Nat] /\ lane \in LaneRecord
  BY DEF Init, Pull, LaneRecord
<1> QED
  BY <1>1, <1>2, <1>3 DEF Init, Typed

\* A step of a run moves that run alone.
LEMMA RunMoves ==
  ASSUME Typed, NEW r \in Runs, RunStep(r)
  PROVE  /\ pc[r] \in Steps /\ pc' \in [Runs -> Steps \cup Ended] /\ pc'[r] \in Steps \cup Ended
         /\ \A q \in Runs \ {r} : pc'[q] = pc[q]
<1>1. FailureOf(r) \in Ended
  BY DEF FailureOf, Ended
<1>2. ASSUME NEW x \in Steps \cup Ended, pc' = [pc EXCEPT ![r] = x], pc[r] \in Steps
      PROVE  /\ pc[r] \in Steps /\ pc' \in [Runs -> Steps \cup Ended]
             /\ pc'[r] \in Steps \cup Ended /\ \A q \in Runs \ {r} : pc'[q] = pc[q]
  BY <1>2 DEF Typed
<1>3. ASSUME NEW from \in Steps, NEW x \in Steps \cup Ended, Step(r, from, x)
      PROVE  pc' = [pc EXCEPT ![r] = x] /\ pc[r] \in Steps
  BY <1>3 DEF Step
<1> SUFFICES \E from \in Steps, x \in Steps \cup Ended : Step(r, from, x)
  BY <1>2, <1>3
<1>4. CASE LandStep(r)
  <2>1. CASE ReadLanding(r)
    BY <2>1 DEF ReadLanding, Steps, BeforeMerge
  <2>2. CASE ReadReadiness(r) \/ PeekClaims(r)
    BY <2>2 DEF ReadReadiness, PeekClaims, Steps, BeforeMerge, Ended
  <2>3. CASE ReadItem(r) \/ RouteRelease(r)
    BY <2>3 DEF ReadItem, RouteRelease, Steps, BeforeMerge, Ended
  <2>4. CASE Merge(r)
    BY <1>1, <2>4 DEF Merge, Effect, Steps, BeforeMerge, Ended
  <2>5. CASE DeleteBranch(r) \/ FastForward(r)
    BY <1>1, <2>5 DEF DeleteBranch, FastForward, Effect, Steps
  <2> QED
    BY <1>4, <2>1, <2>2, <2>3, <2>4, <2>5 DEF LandStep
<1>5. CASE ReleaseStep(r)
  <2>1. CASE ResolveClaim(r) \/ VerifyMerged(r)
    BY <1>1, <2>1 DEF ResolveClaim, VerifyMerged, Steps
  <2>2. CASE LookForComment(r) \/ PostComment(r) \/ CloseIssue(r)
    BY <1>1, <2>2 DEF LookForComment, PostComment, CloseIssue, Effect, Steps
  <2>3. CASE CommitRelease(r)
    BY <1>1, <2>3 DEF CommitRelease, Effect, Steps
  <2>4. CASE ReportLanding(r)
    BY <2>4 DEF ReportLanding, Steps, Ended
  <2> QED
    BY <1>5, <2>1, <2>2, <2>3, <2>4 DEF ReleaseStep
<1>6. CASE CleanupStep(r)
  BY <1>6 DEF CleanupStep, CheckMerged, CheckClean, RemoveWorktree, DeleteLocalBranch, Steps, Ended
<1>7. CASE Fail(r)
  BY <1>1, <1>7 DEF Fail, Ended
<1> QED
  BY <1>4, <1>5, <1>6, <1>7 DEF RunStep

\* What a run asks of the claim state is an intent.
LEMMA RunIntents ==
  ASSUME Typed, NEW r \in Runs, selected[r] \in ActiveClaim
  PROVE  ReleaseIntentOf(r) \in ReleaseIntent \cap AnyIntent /\ selected[r].id \in ClaimIds
BY LandingAssumption DEF ReleaseIntentOf, ReleaseIntent, AnyIntent, ActiveClaim

\* A step of a run keeps the types.
LEMMA RunTyped ==
  ASSUME Typed, RunInv, NEW r \in Runs, RunStep(r)
  PROVE  Typed'
<1>0. pc' \in [Runs -> Steps \cup Ended] /\ after' = after /\ looked' = looked
  BY RunMoves DEF RunStep
<1>1. ASSUME UNCHANGED <<ledger, forge, clone, head>>, troubled' \subseteq Runs,
             selected' \in [Runs -> ActiveClaim \cup {NoClaim}]
      PROVE  Typed'
  BY <1>0, <1>1 DEF Typed, ledger, forge, clone
<1>2. ASSUME Fetched, UNCHANGED <<ledger, forge, head, selected, troubled>>
      PROVE  Typed'
  <2>1. lane.remote \in Nat /\ lane.tracking \in Nat /\ pull.merged \in Nat
    BY DEF Typed, LaneRecord, Pull
  <2>2. PICK n \in Nat : lane' = [lane EXCEPT !.tracking = n]
    BY <1>2, <2>1 DEF Fetched
  <2>3. lane' \in LaneRecord
    BY <2>2 DEF Typed, LaneRecord
  <2> QED
    BY <1>0, <1>2, <2>1, <2>3 DEF Fetched, Typed, ledger, forge
<1>3. ASSUME lane' \in LaneRecord, UNCHANGED <<ledger, forge, trunk, head, selected>>,
             troubled' \subseteq Runs
      PROVE  Typed'
  BY <1>0, <1>3 DEF Typed, ledger, forge
<1>4. Typed => troubled \subseteq Runs /\ troubled \cup {r} \subseteq Runs
               /\ selected \in [Runs -> ActiveClaim \cup {NoClaim}]
  BY DEF Typed
<1>5. CASE ReadLanding(r) \/ ReadItem(r) \/ PeekClaims(r) \/ RouteRelease(r)
  BY <1>1, <1>4, <1>5 DEF ReadLanding, ReadItem, PeekClaims, RouteRelease
<1>6. CASE ReadReadiness(r)
  <2>1. pull.head \in Nat
    BY DEF Typed, Pull
  <2>2. head' \in [Runs -> Nat]
    BY <1>6, <2>1 DEF ReadReadiness, Typed
  <2>3. UNCHANGED <<ledger, forge, clone, selected, troubled>>
    BY <1>6 DEF ReadReadiness
  <2> QED
    BY <1>0, <2>2, <2>3 DEF Typed, ledger, forge, clone
<1>7. CASE Merge(r)
  <2>1. troubled' \subseteq Runs
    BY <1>4, <1>7 DEF Merge, Effect
  <2>2. pull' \in Pull
    <3>1. pull' = pull \/ pull' = [pull EXCEPT !.merged = pull.head, !.trailer = Subject, !.by = r]
      BY <1>7 DEF Merge
    <3>2. pull \in Pull /\ pull.head \in Nat /\ r \in Runs \cup {Nobody}
          /\ Subject \in {Subject, NoTrailer}
      BY DEF Typed, Pull
    <3>3. [pull EXCEPT !.merged = pull.head, !.trailer = Subject, !.by = r] \in Pull
      BY <3>2 DEF Pull
    <3> QED
      BY <3>1, <3>2, <3>3
  <2> QED
    BY <1>0, <1>7, <2>1, <2>2 DEF Merge, Typed, ledger, clone
<1>8. CASE DeleteBranch(r)
  <2>1. troubled' \subseteq Runs /\ lane' \in LaneRecord
    BY <1>4, <1>8 DEF DeleteBranch, Effect, Typed, LaneRecord
  <2> QED
    BY <1>3, <1>8, <2>1 DEF DeleteBranch
<1>9. CASE FastForward(r) \/ VerifyMerged(r) \/ CheckMerged(r)
  BY <1>2, <1>9 DEF FastForward, VerifyMerged, CheckMerged
<1>10. CASE ResolveClaim(r)
  <2>1. selected' \in [Runs -> ActiveClaim \cup {NoClaim}]
    BY <1>10 DEF ResolveClaim, LiveClaims, Typed, ClaimState
  <2> QED
    BY <1>1, <1>4, <1>10, <2>1 DEF ResolveClaim
<1>11. CASE LookForComment(r) \/ ReportLanding(r) \/ CheckClean(r)
  BY <1>1, <1>4, <1>11 DEF LookForComment, ReportLanding, CheckClean
<1>12. CASE PostComment(r) \/ CloseIssue(r)
  <2>1. troubled' \subseteq Runs
    BY <1>4, <1>12 DEF PostComment, CloseIssue, Effect
  <2>2. issue' \in [open : BOOLEAN, comments : Nat]
    <3>1. issue.comments + 1 \in Nat
      BY DEF Typed
    <3>2. issue' = [issue EXCEPT !.comments = issue.comments + 1]
          \/ issue' = [issue EXCEPT !.open = FALSE]
      BY <1>12 DEF PostComment, CloseIssue, Typed
    <3> QED
      BY <3>1, <3>2 DEF Typed
  <2> QED
    BY <1>0, <1>12, <2>1, <2>2 DEF PostComment, CloseIssue, Typed, ledger, clone
<1>13. CASE CommitRelease(r)
  <2>1. selected[r] \in ActiveClaim
    BY <1>13 DEF CommitRelease, RunInv, Verified
  <2>2. ReleaseIntentOf(r) \in AnyIntent /\ selected[r].id \in ClaimIds
    BY <2>1, RunIntents
  <2>3. CommittedState(state, ReleaseIntentOf(r)) \in ClaimState
        /\ IsFiniteSet(CommittedState(state, ReleaseIntentOf(r)).occupied)
    BY <2>2, CommittedType DEF Typed
  <2>4. troubled' \subseteq Runs
    BY <1>4, <1>13 DEF CommitRelease, Effect
  <2>5. outcome' \in [ClaimIds -> {"none", "abandoned", "merged"}]
    BY <1>13, <2>2 DEF CommitRelease, Typed, ledger
  <2>6. state' \in ClaimState /\ IsFiniteSet(state'.occupied)
    BY <1>13, <2>3 DEF CommitRelease, Typed, ledger
  <2> QED
    BY <1>0, <1>13, <2>4, <2>5, <2>6 DEF CommitRelease, Typed, forge, clone
<1>14. CASE RemoveWorktree(r)
  <2>1. lane' \in LaneRecord
    BY <1>14 DEF RemoveWorktree, Typed, LaneRecord
  <2> QED
    BY <1>3, <1>4, <1>14, <2>1 DEF RemoveWorktree
<1>15. CASE DeleteLocalBranch(r)
  <2>1. lane.local \in Nat
    BY DEF Typed, LaneRecord
  <2>2. PICK n \in Nat : lane' = [lane EXCEPT !.local = n]
    BY <1>15, <2>1 DEF DeleteLocalBranch
  <2>3. lane' \in LaneRecord
    BY <2>2 DEF Typed, LaneRecord
  <2> QED
    BY <1>3, <1>4, <1>15, <2>3 DEF DeleteLocalBranch
<1>16. CASE Fail(r)
  BY <1>1, <1>4, <1>16 DEF Fail
<1> QED
  BY <1>5, <1>6, <1>7, <1>8, <1>9, <1>10, <1>11, <1>12, <1>13, <1>14, <1>15, <1>16
  DEF RunStep, LandStep, ReleaseStep, CleanupStep

\* So do the holder and GitHub.
LEMMA PeopleTyped ==
  ASSUME Typed, People
  PROVE  Typed'
<1>0. UNCHANGED <<pc, head, selected, troubled, after>>
  BY DEF People, HolderStep, Edit, Commit, PushLane, Abandon, LookToClaim, ClaimAgain,
     MergeByHand, AutoClose
<1>01. looked' \in BOOLEAN /\ (looked' => SecondClaim # NoClaim)
  <2>1. CASE looked' = looked
    BY <2>1 DEF Typed
  <2>2. CASE LookToClaim
    BY <2>2 DEF LookToClaim
  <2>3. CASE ClaimAgain
    BY <2>3 DEF ClaimAgain
  <2> QED
    BY <2>1, <2>2, <2>3 DEF People
<1>1. CASE Edit \/ Commit \/ PushLane
  <2>1. lane' \in LaneRecord
    <3>1. lane.local \in Nat /\ lane.local + 1 \in Nat /\ lane.made + 1 \in Nat
      BY DEF Typed, LaneRecord
    <3>2. CASE Edit
      BY <3>2 DEF Edit, Typed, LaneRecord
    <3>3. CASE Commit
      <4>1. lane' = [lane EXCEPT !.worktree = "clean", !.local = lane.local + 1,
                                 !.made = lane.made + 1]
        BY <3>3 DEF Commit, Typed, LaneRecord
      <4> QED
        BY <3>1, <4>1 DEF Typed, LaneRecord
    <3>4. CASE PushLane
      BY <3>1, <3>4 DEF PushLane, Typed, LaneRecord
    <3> QED
      BY <1>1, <3>2, <3>3, <3>4
  <2>2. pull' \in Pull
    <3>1. lane.local \in Nat /\ pull.head \in Nat
      BY DEF Typed, LaneRecord, Pull
    <3>2. CASE pull' = pull
      BY <3>2 DEF Typed
    <3>3. CASE \E n \in Nat : pull' = [pull EXCEPT !.head = n]
      BY <3>3 DEF Typed, Pull
    <3> QED
      BY <1>1, <3>1, <3>2, <3>3 DEF Edit, Commit, PushLane, forge
  <2> QED
    BY <1>0, <1>01, <1>1, <2>1, <2>2 DEF Edit, Commit, PushLane, Typed, ledger, forge
<1>2. CASE Abandon
  <2>1. PICK c \in LiveClaims :
          /\ state' = CommittedState(state, [kind |-> "release", id |-> c.id, who |-> c.who,
                                             override |-> FALSE])
          /\ outcome' = [outcome EXCEPT ![c.id] = "abandoned"]
    BY <1>2 DEF Abandon
  <2> DEFINE i == [kind |-> "release", id |-> c.id, who |-> c.who, override |-> FALSE]
  <2>2. c \in ActiveClaim
    BY DEF LiveClaims, Typed, ClaimState
  <2>3. i \in AnyIntent
    BY <2>2 DEF AnyIntent, ReleaseIntent, ActiveClaim
  <2>4. state' = CommittedState(state, i)
    BY <2>1
  <2> HIDE DEF i
  <2>5. state' \in ClaimState /\ IsFiniteSet(state'.occupied)
    BY <2>3, <2>4, CommittedType DEF Typed
  <2>6. outcome' \in [ClaimIds -> {"none", "abandoned", "merged"}]
    BY <2>1, <2>2 DEF Typed, ActiveClaim
  <2> QED
    BY <1>0, <1>01, <1>2, <2>5, <2>6 DEF Abandon, Typed, forge, clone
<1>3. CASE ClaimAgain
  <2>1. SecondClaim \in AnyIntent
    BY <1>3, LandingAssumption DEF ClaimAgain, Typed, AnyIntent
  <2>2. CommittedState(state, SecondClaim) \in ClaimState
        /\ IsFiniteSet(CommittedState(state, SecondClaim).occupied)
    BY <2>1, CommittedType DEF Typed
  <2>3. state' \in ClaimState /\ IsFiniteSet(state'.occupied)
    BY <1>3, <2>2 DEF Typed, ClaimAgain
  <2> QED
    BY <1>0, <1>01, <1>3, <2>3 DEF ClaimAgain, Typed, forge, clone
<1>4. CASE MergeByHand
  <2>1. pull' \in Pull
    BY <1>4 DEF MergeByHand, Typed, Pull
  <2> QED
    BY <1>0, <1>01, <1>4, <2>1 DEF MergeByHand, Typed, ledger, clone
<1>5. CASE AutoClose
  <2>1. issue' \in [open : BOOLEAN, comments : Nat]
    BY <1>5 DEF AutoClose, Typed
  <2> QED
    BY <1>0, <1>01, <1>5, <2>1 DEF AutoClose, Typed, ledger, clone
<1>6. CASE LookToClaim
  BY <1>0, <1>01, <1>6 DEF LookToClaim, Typed, ledger, forge, clone
<1> QED
  BY <1>1, <1>2, <1>3, <1>4, <1>5, <1>6 DEF People, HolderStep

----------------------------------------------------------------------------
(* What each step keeps.                                                   *)

\* A run comes to delete the branch only by removing the worktree.
LEMMA DeletesAfterRemoval ==
  ASSUME Typed, NEW r \in Runs, RunStep(r), ~RemoveWorktree(r), NEW q \in Runs,
         pc'[q] = "delete"
  PROVE  pc[q] = "delete"
<1> SUFFICES ASSUME q = r PROVE pc[r] = "delete"
  BY RunMoves
<1>1. FailureOf(r) \in {"refused", "incomplete"}
  BY DEF FailureOf
<1>2. CASE LandStep(r)
  BY <1>1, <1>2 DEF LandStep, ReadLanding, ReadReadiness, ReadItem, PeekClaims, Merge, DeleteBranch,
     FastForward, RouteRelease, Effect, Step, Typed
<1>3. CASE ReleaseStep(r)
  BY <1>1, <1>3 DEF ReleaseStep, ResolveClaim, VerifyMerged, LookForComment, PostComment, CloseIssue,
     CommitRelease, ReportLanding, Effect, Step, Typed
<1>4. CASE CleanupStep(r)
  BY <1>4 DEF CleanupStep, CheckMerged, CheckClean, DeleteLocalBranch, Step, Typed
<1>5. CASE Fail(r)
  BY <1>1, <1>5 DEF Fail, Step, Typed
<1> QED
  BY <1>2, <1>3, <1>4, <1>5 DEF RunStep

\* No commit is lost: a run deletes the branch on what it last fetched, and the
\* holder commits in a worktree that stands.
LEMMA LaneStep ==
  ASSUME Typed, LaneInv, Next
  PROVE  LaneInv'
<1> USE DEF LaneRecord, Pull
<1>0. /\ lane.local \in Nat /\ lane.remote \in Nat /\ lane.tracking \in Nat /\ lane.made \in Nat
      /\ lane.pushed \in Nat /\ pull.head \in Nat /\ pull.merged \in Nat /\ trunk \in Nat
      /\ MaxCommits \in Nat
  BY Constants DEF Typed
<1>1. ASSUME NEW r \in Runs, RunStep(r) PROVE LaneInv'
  <2>1. CASE lane' = lane /\ pull' = pull /\ trunk' = trunk /\ ~RemoveWorktree(r)
    BY <1>1, <2>1, DeletesAfterRemoval DEF LaneInv
  <2>2. CASE Merge(r) /\ pull' # pull
    <3>1. lane' = lane /\ trunk' = trunk /\ pull'.merged = pull.head /\ pull'.head = pull.head
          /\ pull.merged = 0
      BY <2>2 DEF Merge, clone, Typed
    <3>2. \A q \in Runs : pc'[q] = "delete" => pc[q] = "delete"
      <4>1. ~RemoveWorktree(r)
        BY <2>2, <3>1 DEF RemoveWorktree, forge
      <4> QED
        BY <1>1, <4>1, DeletesAfterRemoval
    <3> QED
      BY <1>0, <3>1, <3>2 DEF LaneInv
  <2>3. CASE DeleteBranch(r)
    <3>1. lane' = [lane EXCEPT !.remote = 0] /\ pull' = pull /\ trunk' = trunk
      BY <2>3 DEF DeleteBranch, forge
    <3>2. ~RemoveWorktree(r)
      BY <2>3 DEF DeleteBranch, RemoveWorktree, Effect, Step
    <3> QED
      BY <1>0, <1>1, <3>1, <3>2, DeletesAfterRemoval DEF LaneInv, Typed
  <2>4. CASE Fetched /\ pull' = pull /\ ~RemoveWorktree(r)
    <3>1. /\ lane'.tracking \in {lane.tracking, lane.remote} /\ lane'.local = lane.local
          /\ lane'.remote = lane.remote /\ lane'.made = lane.made /\ lane'.pushed = lane.pushed
          /\ lane'.worktree = lane.worktree /\ trunk' = pull.merged
      BY <2>4 DEF Fetched, Typed
    <3> QED
      BY <1>0, <1>1, <2>4, <3>1, DeletesAfterRemoval DEF LaneInv
  <2>5. CASE RemoveWorktree(r)
    <3>1. pull' = pull /\ trunk' = trunk
      BY <2>5 DEF RemoveWorktree, forge
    <3>2. CASE lane.worktree = "clean"
      <4>1. lane' = [lane EXCEPT !.worktree = "none"]
        BY <2>5, <3>2 DEF RemoveWorktree
      <4> QED
        BY <1>0, <3>1, <3>2, <4>1 DEF LaneInv, Typed
    <3>3. CASE lane.worktree # "clean"
      <4>1. lane' = lane /\ pc' = [pc EXCEPT ![r] = "done"]
        BY <2>5, <3>3 DEF RemoveWorktree, Step
      <4>2. \A q \in Runs : pc'[q] = "delete" => pc[q] = "delete"
        BY <4>1 DEF Typed
      <4> QED
        BY <1>0, <3>1, <4>1, <4>2 DEF LaneInv
    <3> QED
      BY <3>2, <3>3
  <2>6. CASE DeleteLocalBranch(r)
    <3>1. pull' = pull /\ trunk' = trunk /\ pc[r] = "delete"
      BY <2>6 DEF DeleteLocalBranch, forge, Step
    <3>2. lane.worktree = "none"
      BY <3>1 DEF LaneInv
    <3>3. \/ lane' = lane
          \/ /\ lane' = [lane EXCEPT !.local = 0]
             /\ lane.local <= lane.tracking \/ lane.local <= trunk
      BY <2>6 DEF DeleteLocalBranch, Typed
    <3>4. ~RemoveWorktree(r)
      BY <3>1 DEF RemoveWorktree, Step
    <3>5. CASE lane' = lane
      BY <1>0, <1>1, <3>1, <3>4, <3>5, DeletesAfterRemoval DEF LaneInv
    <3>6. CASE lane' = [lane EXCEPT !.local = 0]
               /\ (lane.local <= lane.tracking \/ lane.local <= trunk)
      <4>1. /\ lane'.local = 0 /\ lane'.remote = lane.remote /\ lane'.tracking = lane.tracking
            /\ lane'.made = lane.made /\ lane'.pushed = lane.pushed /\ lane'.worktree = "none"
        BY <3>2, <3>6 DEF Typed
      <4>2. lane.made <= lane.pushed \/ lane.made <= pull.merged
        BY <1>0, <3>6 DEF LaneInv
      <4> QED
        BY <1>0, <3>1, <4>1, <4>2 DEF LaneInv
    <3> QED
      BY <3>3, <3>5, <3>6
  <2>7. CASE LandStep(r)
    BY <2>1, <2>2, <2>3, <2>4, <2>7 DEF LandStep, ReadLanding, ReadReadiness, ReadItem, PeekClaims,
       Merge, FastForward, RouteRelease, RemoveWorktree, Step, forge, clone, Effect
  <2>8. CASE ReleaseStep(r)
    BY <2>1, <2>4, <2>8 DEF ReleaseStep, ResolveClaim, VerifyMerged, LookForComment, PostComment,
       CloseIssue, CommitRelease, ReportLanding, RemoveWorktree, Step, forge, clone, Effect
  <2>9. CASE CleanupStep(r)
    BY <2>1, <2>4, <2>5, <2>6, <2>9 DEF CleanupStep, CheckMerged, CheckClean, RemoveWorktree, Step,
       forge, clone
  <2>10. CASE Fail(r)
    BY <2>1, <2>5, <2>10 DEF Fail, forge, clone
  <2> QED
    BY <1>1, <2>7, <2>8, <2>9, <2>10 DEF RunStep
<1>2. ASSUME People PROVE LaneInv'
  <2>0. pc' = pc
    BY <1>2 DEF People, HolderStep, Edit, Commit, PushLane, Abandon, LookToClaim, ClaimAgain,
       MergeByHand, AutoClose
  <2>1. CASE Edit
    BY <1>0, <2>0, <2>1 DEF Edit, LaneInv, forge, Typed
  <2>2. CASE Commit
    <3>1. /\ lane'.local = lane.local + 1 /\ lane'.made = lane.made + 1
          /\ lane'.remote = lane.remote /\ lane'.tracking = lane.tracking
          /\ lane'.pushed = lane.pushed /\ lane'.worktree = "clean" /\ lane.worktree = "dirty"
          /\ pull' = pull /\ trunk' = trunk
      BY <2>2 DEF Commit, forge, Typed
    <3> QED
      BY <1>0, <2>0, <3>1 DEF LaneInv
  <2>3. CASE PushLane
    <3>1. /\ lane'.remote = lane.local /\ lane'.tracking = lane.local /\ lane'.pushed = lane.local
          /\ lane'.local = lane.local /\ lane'.made = lane.made /\ lane'.worktree = lane.worktree
          /\ lane.local # 0 /\ pull'.merged = pull.merged /\ trunk' = trunk
          /\ pull'.head \in {pull.head, lane.local}
      BY <2>3 DEF PushLane, Typed
    <3> QED
      BY <1>0, <2>0, <3>1 DEF LaneInv
  <2>4. CASE Abandon \/ LookToClaim \/ ClaimAgain \/ AutoClose
    BY <2>0, <2>4 DEF Abandon, LookToClaim, ClaimAgain, AutoClose, LaneInv,
       ledger, forge, clone
  <2>5. CASE MergeByHand
    <3>1. pull'.merged = pull.head /\ pull'.head = pull.head /\ pull.merged = 0
          /\ lane' = lane /\ trunk' = trunk
      BY <2>5 DEF MergeByHand, clone, Typed
    <3> QED
      BY <1>0, <2>0, <3>1 DEF LaneInv
  <2> QED
    BY <1>2, <2>1, <2>2, <2>3, <2>4, <2>5 DEF People, HolderStep
<1> QED
  BY <1>1, <1>2 DEF Next, RunStep, People

\* A pull request is merged once, and an issue is not opened again.
LEMMA Settled ==
  ASSUME Typed, Next
  PROVE  /\ pull.merged # 0 => /\ pull'.merged = pull.merged /\ pull'.trailer = pull.trailer
                               /\ pull'.by = pull.by /\ head' = head
         /\ ~issue.open => ~issue'.open
<1>1. ASSUME NEW r \in Runs, RunStep(r)
      PROVE  /\ pull' = pull \/ pull.merged = 0
             /\ head' = head \/ pull.merged = 0
             /\ ~issue.open => ~issue'.open
  <2>1. CASE LandStep(r)
    BY <2>1 DEF LandStep, ReadLanding, ReadReadiness, ReadItem, PeekClaims, Merge, DeleteBranch,
       FastForward, RouteRelease, forge
  <2>2. CASE ReleaseStep(r)
    BY <2>2 DEF ReleaseStep, ResolveClaim, VerifyMerged, LookForComment, PostComment, CloseIssue,
       CommitRelease, ReportLanding, forge, Typed
  <2>3. CASE CleanupStep(r) \/ Fail(r)
    BY <2>3 DEF CleanupStep, CheckMerged, CheckClean, RemoveWorktree, DeleteLocalBranch, Fail, forge
  <2> QED
    BY <1>1, <2>1, <2>2, <2>3 DEF RunStep
<1>2. ASSUME People
      PROVE  /\ pull.merged # 0 => /\ pull'.merged = pull.merged /\ pull'.trailer = pull.trailer
                                   /\ pull'.by = pull.by
             /\ head' = head
             /\ ~issue.open => ~issue'.open
  <2>1. CASE PushLane
    BY <2>1 DEF PushLane, Typed, Pull
  <2>2. CASE ~PushLane
    BY <1>2, <2>2 DEF People, HolderStep, Edit, Commit, Abandon, LookToClaim, ClaimAgain,
       MergeByHand, AutoClose, forge
  <2> QED
    BY <2>1, <2>2
<1> QED
  BY <1>1, <1>2 DEF Next, RunStep, People

\* A run's knowledge is its own.
LEMMA RunFrame ==
  ASSUME Typed, NEW r \in Runs, RunStep(r), NEW q \in Runs \ {r}
  PROVE  pc'[q] = pc[q] /\ selected'[q] = selected[q] /\ (q \in troubled' <=> q \in troubled)
<1>1. CASE LandStep(r)
  BY <1>1, RunMoves DEF LandStep, ReadLanding, ReadReadiness, ReadItem, PeekClaims, Merge,
     DeleteBranch, FastForward, RouteRelease, Effect
<1>2. CASE ReleaseStep(r)
  BY <1>2, RunMoves DEF ReleaseStep, ResolveClaim, VerifyMerged, LookForComment, PostComment,
     CloseIssue, CommitRelease, ReportLanding, Effect, Typed
<1>3. CASE CleanupStep(r) \/ Fail(r)
  BY <1>3, RunMoves DEF CleanupStep, CheckMerged, CheckClean, RemoveWorktree, DeleteLocalBranch, Fail
<1> QED
  BY <1>1, <1>2, <1>3 DEF RunStep

RunKnows(r) ==
  /\ CommandOf[r].kind = "land" /\ pc[r] \in Following => pull.merged # 0
  /\ pc[r] \in {"branch", "forward", "route"} => pull.merged # 0
  /\ pc[r] \in Verified => pull.merged # 0 /\ pull.trailer = Subject
  /\ pc[r] = "release" => (SubjectIsIssue => ~issue.open)
  /\ pc[r] \in {"verify"} \cup Verified => selected[r] \in ActiveClaim

\* A run of land goes on once it is merged, one of release when it has looked.
LEMMA RunLearns ==
  ASSUME Typed, LaneInv, NEW r \in Runs, RunKnows(r), RunStep(r)
  PROVE  RunKnows(r)'
<1> USE DEF Following, Verified
<1>0. pull.merged # 0 => /\ pull'.merged # 0 /\ pull'.trailer = pull.trailer
  BY Settled DEF Next, RunStep
<1>00. ~issue.open => ~issue'.open
  BY Settled DEF Next, RunStep
<1>1. ASSUME pc'[r] \in {"refused", "crashed", "landing", "readiness", "item", "claims", "merge"}
      PROVE  RunKnows(r)'
  BY <1>1 DEF RunKnows
<1>2. \/ FailureOf(r) = "refused"
      \/ /\ FailureOf(r) = "incomplete" /\ CommandOf[r].kind = "land"
         /\ pc[r] \notin BeforeMerge
  <2>1. CASE CommandOf[r].kind = "land" /\ pc[r] \notin BeforeMerge
    BY <2>1 DEF FailureOf
  <2>2. CASE ~(CommandOf[r].kind = "land" /\ pc[r] \notin BeforeMerge)
    BY <2>2 DEF FailureOf
  <2> QED
    BY <2>1, <2>2
<1>3. ASSUME pc'[r] = FailureOf(r), pc[r] \in Following \/ pc[r] \in BeforeMerge
      PROVE  RunKnows(r)'
  BY <1>0, <1>1, <1>2, <1>3 DEF RunKnows, BeforeMerge
<1>4. CASE LandStep(r)
  <2>1. CASE ReadLanding(r) \/ ReadReadiness(r) \/ ReadItem(r) \/ PeekClaims(r)
    <3>1. pc'[r] \in {"readiness", "item", "claims", "merge", "refused"}
          \/ (pc'[r] = "branch" /\ pull.merged # 0)
      <4>1. CASE ReadLanding(r)
        BY <4>1 DEF ReadLanding, Step, Typed
      <4>2. CASE ReadReadiness(r) \/ ReadItem(r) \/ PeekClaims(r)
        BY <4>2 DEF ReadReadiness, ReadItem, PeekClaims, Step, Typed
      <4> QED
        BY <2>1, <4>1, <4>2
    <3> QED
      BY <1>0, <1>1, <3>1 DEF RunKnows
  <2>2. CASE Merge(r)
    <3>1. pull.head # 0
      BY DEF LaneInv, Typed, Pull
    <3>2. \/ pc'[r] = "refused"
          \/ pc'[r] = "branch" /\ pull'.merged # 0
          \/ pc'[r] = FailureOf(r) /\ pc[r] = "merge"
      <4>1. CASE pull.merged = 0 /\ pull.head = head[r]
        <5>1. pull' = [pull EXCEPT !.merged = pull.head, !.trailer = Subject, !.by = r]
              /\ Effect(r, "merge", "branch")
          BY <2>2, <4>1 DEF Merge
        <5>2. pull'.merged = pull.head
          BY <5>1 DEF Typed, Pull
        <5> QED
          BY <3>1, <5>1, <5>2 DEF Effect, Step, Typed
      <4>2. CASE ~(pull.merged = 0 /\ pull.head = head[r])
        BY <2>2, <4>2 DEF Merge, Step, Typed
      <4> QED
        BY <4>1, <4>2
    <3> QED
      BY <1>1, <1>3, <3>2 DEF RunKnows, BeforeMerge
  <2>3. CASE DeleteBranch(r)
    <3>1. pc[r] = "branch" /\ pc'[r] \in {"forward", FailureOf(r)}
      BY <2>3 DEF DeleteBranch, Effect, Step, Typed
    <3> QED
      BY <1>0, <1>3, <3>1 DEF RunKnows
  <2>4. CASE FastForward(r)
    <3>1. pc[r] = "forward" /\ pc'[r] = "route"
      BY <2>4 DEF FastForward, Step, Typed
    <3> QED
      BY <1>0, <3>1 DEF RunKnows
  <2>5. CASE RouteRelease(r)
    <3>1. pc[r] = "route" /\ pc'[r] \in {"resolve", "incomplete"}
      BY <2>5 DEF RouteRelease, Step, Typed
    <3> QED
      BY <1>0, <3>1 DEF RunKnows
  <2> QED
    BY <1>4, <2>1, <2>2, <2>3, <2>4, <2>5 DEF LandStep
<1>5. CASE ReleaseStep(r)
  <2>1. CASE ResolveClaim(r)
    <3>1. pc[r] = "resolve"
          /\ (pc'[r] = FailureOf(r) \/ (pc'[r] = "verify" /\ selected'[r] \in ActiveClaim))
      <4>1. pc[r] = "resolve"
        BY <2>1 DEF ResolveClaim, Step
      <4>2. CASE Step(r, "resolve", FailureOf(r))
        BY <4>1, <4>2 DEF Step, Typed
      <4>3. CASE ~Step(r, "resolve", FailureOf(r))
        <5>1. PICK c \in LiveClaims :
                selected' = [selected EXCEPT ![r] = c] /\ Step(r, "resolve", "verify")
          BY <2>1, <4>3 DEF ResolveClaim
        <5>2. c \in ActiveClaim
          BY DEF LiveClaims, Typed, ClaimState
        <5> QED
          BY <4>1, <5>1, <5>2 DEF Step, Typed
      <4> QED
        BY <4>2, <4>3
    <3> QED
      BY <1>0, <1>3, <3>1 DEF RunKnows
  <2>2. CASE VerifyMerged(r)
    <3>1. /\ pc[r] = "verify" /\ selected' = selected
          /\ \/ pc'[r] = FailureOf(r)
             \/ /\ pull.merged # 0 /\ pull.trailer = Subject
                /\ \/ pc'[r] = "comment"
                   \/ pc'[r] = "release" /\ (SubjectIsIssue => ~issue.open)
      BY <2>2 DEF VerifyMerged, Step, Typed
    <3> QED
      BY <1>0, <1>00, <1>3, <3>1 DEF RunKnows
  <2>3. CASE LookForComment(r) \/ PostComment(r)
    <3>1. /\ pc[r] \in {"comment", "post"} /\ selected' = selected
          /\ pc'[r] \in {"post", "close", FailureOf(r)}
      BY <2>3 DEF LookForComment, PostComment, Effect, Step, Typed
    <3> QED
      BY <1>0, <1>3, <3>1 DEF RunKnows
  <2>4. CASE CloseIssue(r)
    <3>1. /\ pc[r] = "close" /\ selected' = selected /\ ~issue'.open
          /\ pc'[r] \in {"release", FailureOf(r)}
      BY <2>4 DEF CloseIssue, Effect, Step, Typed
    <3> QED
      BY <1>0, <1>3, <3>1 DEF RunKnows
  <2>5. CASE CommitRelease(r)
    <3>1. pc[r] = "release" /\ pc'[r] \in {"report", FailureOf(r)}
      BY <2>5 DEF CommitRelease, Effect, Step, Typed
    <3> QED
      BY <1>0, <1>3, <3>1 DEF RunKnows
  <2>6. CASE ReportLanding(r)
    <3>1. pc[r] = "report" /\ pc'[r] \in {"done", "merged"}
      BY <2>6 DEF ReportLanding, Step, Typed
    <3> QED
      BY <1>0, <3>1 DEF RunKnows
  <2> QED
    BY <1>5, <2>1, <2>2, <2>3, <2>4, <2>5, <2>6 DEF ReleaseStep
<1>6. CASE CleanupStep(r)
  <2>1. /\ pc[r] \in {"merged", "dirty", "remove", "delete"}
        /\ pc'[r] \in {"dirty", "remove", "delete", "done"}
    BY <1>6 DEF CleanupStep, CheckMerged, CheckClean, RemoveWorktree, DeleteLocalBranch, Step, Typed
  <2> QED
    BY <1>0, <2>1 DEF RunKnows
<1>7. CASE Fail(r)
  <2>1. pc[r] \in Steps /\ pc'[r] \in {FailureOf(r), "crashed"}
    BY <1>7 DEF Fail, Step, Typed
  <2>2. pc[r] \in Following \/ pc[r] \in BeforeMerge
    BY <2>1 DEF Steps
  <2> QED
    BY <1>1, <1>3, <2>1, <2>2
<1> QED
  BY <1>4, <1>5, <1>6, <1>7 DEF RunStep

\* What the runs know holds on, and what was merged or recorded is justified.
LEMMA RunInvStep ==
  ASSUME Typed, LaneInv, RunInv, Next
  PROVE  RunInv'
<1>0. /\ pull.merged # 0 => /\ pull'.merged = pull.merged /\ pull'.trailer = pull.trailer
                            /\ pull'.by = pull.by /\ head' = head
      /\ ~issue.open => ~issue'.open
  BY Settled
<1>1. \A r \in Runs : RunKnows(r)
  BY DEF RunInv, RunKnows
<1>2. \A r \in Runs : RunKnows(r)'
  <2>1. ASSUME NEW r \in Runs, pc'[r] = pc[r], selected'[r] = selected[r] PROVE RunKnows(r)'
    BY <1>0, <1>1, <2>1 DEF RunKnows
  <2>2. ASSUME NEW q \in Runs, RunStep(q) PROVE \A r \in Runs : RunKnows(r)'
    <3>1. RunKnows(q)'
      BY <1>1, <2>2, RunLearns
    <3>2. \A r \in Runs \ {q} : RunKnows(r)'
      BY <2>1, <2>2, RunFrame
    <3> QED
      BY <3>1, <3>2
  <2>3. ASSUME People PROVE \A r \in Runs : RunKnows(r)'
    <3>1. pc' = pc /\ selected' = selected
      BY <2>3 DEF People, HolderStep, Edit, Commit, PushLane, Abandon, LookToClaim, ClaimAgain,
         MergeByHand, AutoClose
    <3> QED
      BY <2>1, <3>1
  <2> QED
    BY <2>2, <2>3 DEF Next, RunStep, People
<1>3. (pull'.merged = 0 => pull'.by = Nobody) /\ MergedHeadWasChecked'
  <2>1. CASE pull.merged # 0
    BY <1>0, <2>1 DEF RunInv, MergedHeadWasChecked
  <2>2. CASE pull.merged = 0
    <3>1. pull.by = Nobody
      BY <2>2 DEF RunInv
    <3>2. CASE \E r \in Runs : Merge(r) /\ pull' # pull
      <4>1. PICK r \in Runs : Merge(r) /\ pull' # pull
        BY <3>2
      <4>2. pull'.merged = pull.head /\ pull.head = head[r] /\ pull'.by = r /\ head' = head
            /\ pull.head # 0
        <5>1. pull.head = head[r] /\ head' = head
              /\ pull' = [pull EXCEPT !.merged = pull.head, !.trailer = Subject, !.by = r]
          BY <4>1 DEF Merge
        <5> QED
          BY <5>1 DEF LaneInv, Typed, Pull
      <4> QED
        BY <4>2 DEF MergedHeadWasChecked
    <3>3. CASE ~\E r \in Runs : Merge(r) /\ pull' # pull
      <4>1. pull'.by = Nobody
        <5>1. ASSUME NEW r \in Runs, RunStep(r) PROVE pull' = pull
          <6>1. CASE LandStep(r)
            BY <3>3, <6>1 DEF LandStep, ReadLanding, ReadReadiness, ReadItem, PeekClaims,
               DeleteBranch, FastForward, RouteRelease, forge
          <6>2. CASE ReleaseStep(r)
            BY <6>2 DEF ReleaseStep, ResolveClaim, VerifyMerged, LookForComment, PostComment,
               CloseIssue, CommitRelease, ReportLanding, forge
          <6>3. CASE CleanupStep(r) \/ Fail(r)
            BY <6>3 DEF CleanupStep, CheckMerged, CheckClean, RemoveWorktree, DeleteLocalBranch,
               Fail, forge
          <6> QED
            BY <5>1, <6>1, <6>2, <6>3 DEF RunStep
        <5>2. ASSUME People PROVE pull'.by = pull.by
          BY <5>2 DEF People, HolderStep, Edit, Commit, PushLane, Abandon, LookToClaim, ClaimAgain,
             MergeByHand, AutoClose, forge, Typed, Pull
        <5> QED
          BY <3>1, <5>1, <5>2 DEF Next, RunStep, People
      <4> QED
        BY <4>1 DEF MergedHeadWasChecked
    <3> QED
      BY <3>2, <3>3
  <2> QED
    BY <2>1, <2>2
<1>4. MergedReleaseIsLanded'
  <2>1. ASSUME NEW id \in ClaimIds, outcome'[id] = "merged"
        PROVE  pull'.merged # 0 /\ pull'.trailer = Subject /\ (SubjectIsIssue => ~issue'.open)
    <3>1. CASE outcome[id] = "merged"
      BY <1>0, <3>1 DEF RunInv, MergedReleaseIsLanded
    <3>2. CASE outcome[id] # "merged"
      <4>1. ~People
        BY <2>1, <3>2 DEF People, HolderStep, Edit, Commit, PushLane, Abandon, LookToClaim, ClaimAgain,
           MergeByHand, AutoClose, ledger, Typed
      <4>2. PICK r \in Runs : RunStep(r)
        BY <4>1 DEF Next, RunStep, People
      <4>3. CommitRelease(r)
        <5>1. ~LandStep(r)
          BY <2>1, <3>2 DEF LandStep, ReadLanding, ReadReadiness, ReadItem, PeekClaims, Merge,
             DeleteBranch, FastForward, RouteRelease, ledger
        <5>2. ~CleanupStep(r) /\ ~Fail(r)
          BY <2>1, <3>2 DEF CleanupStep, CheckMerged, CheckClean, RemoveWorktree,
             DeleteLocalBranch, Fail, ledger
        <5> QED
          BY <2>1, <3>2, <4>2, <5>1, <5>2 DEF RunStep, ReleaseStep, ResolveClaim, VerifyMerged,
             LookForComment, PostComment, CloseIssue, ReportLanding, ledger
      <4>4. pc[r] = "release"
        BY <4>3 DEF CommitRelease
      <4> QED
        BY <1>0, <1>1, <4>4 DEF RunKnows, Verified
    <3> QED
      BY <3>1, <3>2
  <2> QED
    BY <2>1 DEF MergedReleaseIsLanded
<1> QED
  BY <1>2, <1>3, <1>4 DEF RunInv, RunKnows

\* Every run that has posted is counted.
LEMMA PostedGrows ==
  ASSUME Posted \subseteq Posted'
  PROVE  /\ Cardinality(Posted) \in Nat /\ Cardinality(Posted') \in Nat
         /\ Cardinality(Posted) <= Cardinality(Posted')
         /\ \A r \in Posted' \ Posted : Cardinality(Posted) + 1 <= Cardinality(Posted')
<1>1. IsFiniteSet(Runs) /\ Posted \subseteq Runs /\ Posted' \subseteq Runs
  BY LandingAssumption DEF Posted
<1>2. IsFiniteSet(Posted) /\ IsFiniteSet(Posted')
  BY <1>1, FS_Subset
<1>3. Cardinality(Posted) \in Nat /\ Cardinality(Posted') \in Nat
      /\ Cardinality(Posted) <= Cardinality(Posted')
  BY <1>2, FS_Subset, FS_CardinalityType
<1>4. ASSUME NEW r \in Posted' \ Posted
      PROVE  Cardinality(Posted) + 1 <= Cardinality(Posted')
  <2>1. Posted \cup {r} \subseteq Posted'
    OBVIOUS
  <2>2. Cardinality(Posted \cup {r}) = Cardinality(Posted) + 1
    BY <1>2, <1>4, FS_AddElement
  <2> QED
    BY <1>2, <2>1, <2>2, FS_Subset
<1> QED
  BY <1>3, <1>4

\* Runs that follow one another are not under way together.
LEMMA OneUnderWay ==
  ASSUME Typed, CommentInv, Sequential, NEW r \in Runs, NEW q \in Runs, r # q,
         pc[r] \notin Waiting \cup Ended, pc[q] \notin Waiting \cup Ended
  PROVE  FALSE
<1>1. r \in Started /\ q \in Started
  BY DEF Started, CommentInv
<1> QED
  BY <1>1 DEF Sequential, CommentInv

\* Where a run's step goes: it starts when those it waits for have ended, posts
\* when there is no comment, and is counted from then on.
LEMMA RunOrder ==
  ASSUME Typed, NEW r \in Runs, RunStep(r)
  PROVE  /\ pc[r] \in Waiting /\ pc'[r] \notin Waiting \cup Ended =>
              \A q \in after[r] : pc[q] \in Ended
         /\ pc'[r] = "post" => issue.comments = 0
         /\ issue'.comments = issue.comments
            \/ (pc[r] = "post" /\ pc'[r] # "post" /\ r \in Posted'
                /\ issue'.comments = issue.comments + 1)
         /\ r \in Posted => r \in Posted'
<1>1. FailureOf(r) \in Ended
  BY DEF FailureOf, Ended
<1>2. ASSUME issue'.comments = issue.comments, pc'[r] \in Ended
      PROVE  /\ issue'.comments = issue.comments /\ pc'[r] \in Ended /\ pc'[r] # "post"
             /\ r \in Posted'
  BY <1>2 DEF Ended, Posted
<1>3. CASE LandStep(r)
  <2>1. issue' = issue
    BY <1>3 DEF LandStep, ReadLanding, ReadReadiness, ReadItem, PeekClaims, Merge, DeleteBranch,
       FastForward, RouteRelease, forge
  <2>2. pc[r] \in BeforeMerge \cup {"branch", "forward", "route"}
    BY <1>3 DEF LandStep, ReadLanding, ReadReadiness, ReadItem, PeekClaims, Merge, DeleteBranch,
       FastForward, RouteRelease, Effect, Step, BeforeMerge
  <2>3. r \notin Posted
    BY <2>2 DEF Posted, BeforeMerge, Ended
  <2>4. pc'[r] # "post"
    <3>1. CASE ReadLanding(r)
      BY <3>1 DEF ReadLanding, Step, Typed
    <3>2. CASE ReadReadiness(r) \/ ReadItem(r) \/ PeekClaims(r) \/ FastForward(r) \/ RouteRelease(r)
      BY <3>2 DEF ReadReadiness, ReadItem, PeekClaims, FastForward, RouteRelease, Step, Typed
    <3>3. CASE Merge(r) \/ DeleteBranch(r)
      BY <1>1, <3>3 DEF Merge, DeleteBranch, Effect, Step, Typed, Ended
    <3> QED
      BY <1>3, <3>1, <3>2, <3>3 DEF LandStep
  <2>5. pc[r] \in Waiting => \A q \in after[r] : pc[q] \in Ended
    BY <1>3 DEF LandStep, ReadLanding, ReadReadiness, ReadItem, PeekClaims, Merge, DeleteBranch,
       FastForward, RouteRelease, Effect, Step, Waiting
  <2> QED
    BY <2>1, <2>3, <2>4, <2>5
<1>4. CASE ReleaseStep(r)
  <2>1. CASE ResolveClaim(r) \/ VerifyMerged(r)
    <3>1. issue' = issue /\ pc[r] \in {"resolve", "verify"}
          /\ pc'[r] \in {"verify", "comment", "release", FailureOf(r)}
      BY <2>1 DEF ResolveClaim, VerifyMerged, Step, Typed, forge
    <3>2. pc[r] = "resolve" => \A q \in after[r] : pc[q] \in Ended
      BY <2>1 DEF ResolveClaim, VerifyMerged, Step
    <3> QED
      BY <1>1, <3>1, <3>2 DEF Waiting, Posted, Ended
  <2>2. CASE LookForComment(r)
    <3>1. issue' = issue /\ pc[r] = "comment"
          /\ ((pc'[r] = "post" /\ issue.comments = 0) \/ pc'[r] = "close")
      BY <2>2 DEF LookForComment, Step, Typed, forge
    <3> QED
      BY <3>1 DEF Waiting, Posted, Ended
  <2>3. CASE PostComment(r)
    <3>1. issue'.comments = issue.comments + 1 /\ pc[r] = "post" /\ pc'[r] \in {"close", FailureOf(r)}
      BY <2>3 DEF PostComment, Effect, Step, Typed
    <3> QED
      BY <1>1, <3>1 DEF Waiting, Posted, Ended
  <2>4. CASE CloseIssue(r)
    <3>1. issue'.comments = issue.comments /\ pc[r] = "close" /\ pc'[r] \in {"release", FailureOf(r)}
      BY <2>4 DEF CloseIssue, Effect, Step, Typed
    <3> QED
      BY <1>1, <3>1 DEF Waiting, Posted, Ended
  <2>5. CASE CommitRelease(r) \/ ReportLanding(r)
    <3>1. issue' = issue /\ pc[r] \in {"release", "report"}
          /\ pc'[r] \in {"report", "merged", "done", FailureOf(r)}
      BY <2>5 DEF CommitRelease, ReportLanding, Effect, Step, Typed, forge
    <3> QED
      BY <1>1, <3>1 DEF Waiting, Posted, Ended
  <2> QED
    BY <1>4, <2>1, <2>2, <2>3, <2>4, <2>5 DEF ReleaseStep
<1>5. CASE CleanupStep(r)
  <2>1. /\ issue' = issue /\ pc[r] \in {"merged", "dirty", "remove", "delete"}
        /\ pc'[r] \in {"dirty", "remove", "delete", "done"}
    BY <1>5 DEF CleanupStep, CheckMerged, CheckClean, RemoveWorktree, DeleteLocalBranch, Step,
       Typed, forge
  <2> QED
    BY <2>1 DEF Waiting, Posted, Ended
<1>6. CASE Fail(r)
  <2>1. issue' = issue /\ pc'[r] \in {"crashed", FailureOf(r)}
    BY <1>6 DEF Fail, Step, Typed, forge
  <2> QED
    BY <1>1, <1>2, <2>1 DEF Ended
<1> QED
  BY <1>3, <1>4, <1>5, <1>6 DEF RunStep

\* A run that saw no comment posts before another looks.
LEMMA CommentStep ==
  ASSUME Typed, CommentInv, Next
  PROVE  CommentInv'
<1>0. after' = after /\ (Sequential' <=> Sequential) /\ issue.comments \in Nat
      /\ \A r \in Runs : after[r] \subseteq Runs
  BY LandingAssumption DEF Next, Sequential, Started, Typed
<1>1. ASSUME People PROVE CommentInv'
  <2>1. pc' = pc /\ issue'.comments = issue.comments
    BY <1>1 DEF People, HolderStep, Edit, Commit, PushLane, Abandon, LookToClaim, ClaimAgain,
       MergeByHand, AutoClose, forge, Typed
  <2>2. Posted' = Posted
    BY <2>1 DEF Posted
  <2> QED
    BY <1>0, <2>1, <2>2 DEF CommentInv
<1>2. ASSUME NEW r \in Runs, RunStep(r) PROVE CommentInv'
  <2>1. /\ pc[r] \in Steps
        /\ \A q \in Runs \ {r} : pc'[q] = pc[q]
    BY <1>2, RunMoves
  <2>2. Steps \cap Ended = {}
    BY DEF Steps, BeforeMerge, Ended
  <2>3. \A q \in Runs : pc[q] \in Ended => pc'[q] \in Ended
    BY <2>1, <2>2
  <2>4. ASSUME NEW q \in Runs, pc'[q] \notin Waiting \cup Ended
        PROVE  \A p \in after[q] : pc'[p] \in Ended
    <3>1. \A p \in after[q] : pc[p] \in Ended
      <4>1. CASE q # r
        BY <2>1, <2>4, <4>1 DEF CommentInv
      <4>2. CASE q = r /\ pc[r] \in Waiting
        BY <1>2, <2>4, <4>2, RunOrder
      <4>3. CASE q = r /\ pc[r] \notin Waiting
        BY <2>1, <2>2, <4>3 DEF CommentInv
      <4> QED
        BY <4>1, <4>2, <4>3
    <3> QED
      BY <1>0, <2>3, <3>1
  <2>5. Posted \subseteq Posted'
    <3>1. \A q \in Runs \ {r} : q \in Posted => q \in Posted'
      BY <2>1 DEF Posted
    <3> QED
      BY <1>2, <3>1, RunOrder DEF Posted
  <2>6. issue'.comments <= Cardinality(Posted')
    <3>1. issue.comments <= Cardinality(Posted)
      BY DEF CommentInv
    <3>2. CASE issue'.comments = issue.comments
      BY <1>0, <2>5, <3>1, <3>2, PostedGrows
    <3>3. CASE pc[r] = "post" /\ r \in Posted' /\ issue'.comments = issue.comments + 1
      <4>1. r \in Posted' \ Posted
        BY <3>3 DEF Posted, Ended
      <4> QED
        BY <1>0, <2>5, <3>1, <3>3, <4>1, PostedGrows
    <3> QED
      BY <1>2, <3>2, <3>3, RunOrder
  <2>7. ASSUME Sequential
        PROVE  issue'.comments <= 1 /\ \A q \in Runs : pc'[q] = "post" => issue'.comments = 0
    <3>1. issue.comments <= 1 /\ \A q \in Runs : pc[q] = "post" => issue.comments = 0
      BY <2>7 DEF CommentInv
    <3>2. CASE issue'.comments = issue.comments
      <4>1. ASSUME NEW q \in Runs, pc'[q] = "post" PROVE issue.comments = 0
        BY <1>2, <2>1, <3>1, <4>1, RunOrder
      <4> QED
        BY <3>1, <3>2, <4>1
    <3>3. CASE /\ pc[r] = "post" /\ pc'[r] # "post" /\ issue'.comments = issue.comments + 1
      <4>1. issue'.comments = 1
        BY <3>1, <3>3
      <4>2. ASSUME NEW q \in Runs, pc'[q] = "post" PROVE FALSE
        <5>1. q # r /\ pc[q] = "post"
          BY <2>1, <3>3, <4>2
        <5> QED
          BY <2>7, <3>3, <5>1, OneUnderWay DEF Waiting, Ended
      <4> QED
        BY <4>1, <4>2
    <3> QED
      BY <1>2, <3>2, <3>3, RunOrder
  <2> QED
    BY <1>0, <2>4, <2>6, <2>7 DEF CommentInv
<1> QED
  BY <1>1, <1>2 DEF Next, RunStep, People

----------------------------------------------------------------------------
(* The claims of the landing.                                              *)

\* What a release leaves live.
LEMMA ReleasedClaims ==
  ASSUME NEW s \in ClaimState, \A c, d \in s.claims : c.key = d.key \/ c.id = d.id => c = d,
         NEW i \in ReleaseIntent, NEW t, t = CommittedState(s, i)
  PROVE  t.claims = {c \in s.claims : c.id # i.id} /\ t.consumed = s.consumed
<1> DEFINE claims == DropClaim(s, i.id)
<1>1. t = [s EXCEPT !.tip = s.tip + 1, !.claims = claims]
  BY CommittedRelease
<1>2. claims = {c \in s.claims : c.id # i.id}
  BY DEF DropClaim, LiveClaimById
<1> HIDE DEF claims
<1>3. t.claims = claims /\ t.consumed = s.consumed
  BY <1>1 DEF ClaimState
<1> QED
  BY <1>2, <1>3

\* What a claim under a fresh id adds.
LEMMA ClaimedAgain ==
  ASSUME NEW s \in ClaimState, NEW i \in ClaimIntent, Admits(s, i), i.id \notin s.consumed,
         \A c \in s.claims : c.id \in s.consumed, NEW t, t = CommittedState(s, i)
  PROVE  /\ t.consumed = s.consumed \cup {i.id}
         /\ \A c \in s.claims : c.key # i.key /\ c.id # i.id
         /\ \E d : d.id = i.id /\ d.key = i.key /\ t.claims = s.claims \cup {d}
<1>1. ~IsReplay(s, i)
  BY DEF IsReplay
<1>2. BlockingClaims(s, i) = {}
  BY <1>1 DEF ClaimIntent, Admits, AdmitsClaim, AdmitsRescope, AdmitsRelease, AdmitsItemWrite,
     AdmitsLanding
<1>3. \A c \in s.claims : c.key # i.key /\ c.id # i.id
  BY <1>2 DEF BlockingClaims
<1> DEFINE d == OpenedClaim(s, i)
<1>4. t.claims = PutClaim(s.claims, d) /\ t.consumed = s.consumed \cup {i.id}
  BY <1>1, CommittedFreshFields
<1>5. d.id = i.id /\ d.key = i.key
  BY DEF OpenedClaim
<1> HIDE DEF d
<1>6. t.claims = s.claims \cup {d}
  BY <1>3, <1>4, <1>5 DEF PutClaim
<1> QED
  BY <1>3, <1>4, <1>5, <1>6

\* Only a release command, or the holder, changes the claim state.
LEMMA LedgerSteps ==
  ASSUME Next
  PROVE  \/ UNCHANGED <<ledger, looked>>
         \/ (\E r \in Runs : CommitRelease(r)) /\ UNCHANGED looked
         \/ Abandon /\ UNCHANGED looked
         \/ LookToClaim
         \/ ClaimAgain
<1>1. ASSUME NEW r \in Runs, LandStep(r) PROVE UNCHANGED ledger
  BY <1>1 DEF LandStep, ReadLanding, ReadReadiness, ReadItem, PeekClaims, Merge,
     DeleteBranch, FastForward, RouteRelease, ledger
<1>2. ASSUME NEW r \in Runs, ReleaseStep(r), ~CommitRelease(r) PROVE UNCHANGED ledger
  BY <1>2 DEF ReleaseStep, ResolveClaim, VerifyMerged, LookForComment, PostComment,
     CloseIssue, ReportLanding, ledger
<1>3. ASSUME NEW r \in Runs, CleanupStep(r) \/ Fail(r) PROVE UNCHANGED ledger
  BY <1>3 DEF CleanupStep, CheckMerged, CheckClean, RemoveWorktree, DeleteLocalBranch, Fail, ledger
<1>4. ASSUME Edit \/ Commit \/ PushLane \/ MergeByHand \/ AutoClose PROVE UNCHANGED ledger
  BY <1>4 DEF Edit, Commit, PushLane, MergeByHand, AutoClose, ledger
<1> QED
  BY <1>1, <1>2, <1>3, <1>4 DEF Next, HolderStep

\* The first claim ends once, and as it ended it stays.
LEMMA ClaimStep ==
  ASSUME Typed, RunInv, ClaimInv, Next
  PROVE  /\ ClaimInv'
         /\ outcome[FirstId] = "abandoned" => outcome'[FirstId] = "abandoned"
         /\ Finished => Finished'
<1> DEFINE Kept == /\ ClaimInv'
                   /\ outcome[FirstId] # "none" => outcome'[FirstId] = outcome[FirstId]
<1> SUFFICES Kept
  BY DEF Finished
<1>0. FirstId \in ClaimIds /\ state \in ClaimState
  BY LandingAssumption DEF Typed
<1>01. ASSUME NEW i \in ReleaseIntent, state' = CommittedState(state, i), Live(i.id),
              NEW how \in {"abandoned", "merged"}, outcome' = [outcome EXCEPT ![i.id] = how],
              UNCHANGED looked
       PROVE  Kept
  <2>1. state'.claims = {c \in state.claims : c.id # i.id} /\ state'.consumed = state.consumed
    BY <1>0, <1>01, ReleasedClaims DEF ClaimInv
  <2>2. CASE i.id = FirstId
    <3>1. ~Live(FirstId)' /\ outcome[FirstId] = "none" /\ outcome'[FirstId] = how
      BY <1>0, <1>01, <2>1, <2>2 DEF Live, IdsOf, ClaimInv, Typed
    <3> QED
      BY <1>01, <2>1, <3>1 DEF ClaimInv
  <2>3. CASE i.id # FirstId
    <3>1. (Live(FirstId)' <=> Live(FirstId)) /\ outcome'[FirstId] = outcome[FirstId]
      BY <1>0, <1>01, <2>1, <2>3 DEF Live, IdsOf, Typed
    <3> QED
      BY <1>01, <2>1, <3>1 DEF ClaimInv
  <2> QED
    BY <2>2, <2>3
<1>1. CASE UNCHANGED <<ledger, looked>>
  BY <1>1 DEF ledger, ClaimInv, Live, IdsOf
<1>2. CASE (\E r \in Runs : CommitRelease(r)) /\ UNCHANGED looked
  <2>1. PICK r \in Runs : CommitRelease(r)
    BY <1>2
  <2>2. selected[r] \in ActiveClaim
    BY <2>1 DEF CommitRelease, RunInv, Verified
  <2> DEFINE i == ReleaseIntentOf(r)
  <2>3. i \in ReleaseIntent /\ i.id = selected[r].id
    BY <2>2, RunIntents DEF ReleaseIntentOf
  <2>4. CASE Admits(state, i)
    <3>1. Live(i.id)
      BY <2>3, <2>4 DEF Admits, AdmitsClaim, AdmitsRescope, AdmitsRelease, AdmitsItemWrite,
         AdmitsLanding, ReleaseIntent, LiveClaimById, Live, IdsOf
    <3>2. state' = CommittedState(state, i) /\ outcome' = [outcome EXCEPT ![i.id] = "merged"]
      BY <2>1, <2>3, <2>4 DEF CommitRelease
    <3> HIDE DEF i
    <3> QED
      BY <1>01, <1>2, <2>3, <3>1, <3>2
  <2>5. CASE ~Admits(state, i)
    <3>1. UNCHANGED ledger
      BY <2>1, <2>5 DEF CommitRelease
    <3> QED
      BY <1>1, <1>2, <3>1
  <2> QED
    BY <2>4, <2>5
<1>3. CASE Abandon /\ UNCHANGED looked
  <2>1. PICK c \in LiveClaims :
          /\ state' = CommittedState(state, [kind |-> "release", id |-> c.id, who |-> c.who,
                                             override |-> FALSE])
          /\ outcome' = [outcome EXCEPT ![c.id] = "abandoned"]
    BY <1>3 DEF Abandon
  <2> DEFINE i == [kind |-> "release", id |-> c.id, who |-> c.who, override |-> FALSE]
  <2>2. c \in ActiveClaim /\ c \in state.claims
    BY DEF LiveClaims, Typed, ClaimState
  <2>3. i \in ReleaseIntent /\ i.id = c.id
    BY <2>2 DEF ReleaseIntent, ActiveClaim
  <2>4. state' = CommittedState(state, i) /\ outcome' = [outcome EXCEPT ![i.id] = "abandoned"]
    BY <2>1
  <2>5. Live(i.id)
    BY <2>2, <2>3 DEF Live, IdsOf
  <2> HIDE DEF i
  <2> QED
    BY <1>01, <1>3, <2>3, <2>4, <2>5
<1>4. CASE LookToClaim
  BY <1>4 DEF LookToClaim, ledger, ClaimInv, Live, IdsOf
<1>5. CASE ClaimAgain
  <2>1. SecondClaim \in ClaimIntent /\ SecondClaim.id \notin state.consumed
    BY <1>5, LandingAssumption DEF ClaimAgain, Typed, ClaimInv
  <2>2. ~looked' /\ outcome' = outcome
    BY <1>5 DEF ClaimAgain
  <2>3. CASE ~Admits(state, SecondClaim)
    <3>1. state' = state
      BY <1>5, <2>3 DEF ClaimAgain
    <3> QED
      BY <2>2, <3>1 DEF ClaimInv, Live, IdsOf
  <2>4. CASE Admits(state, SecondClaim)
    <3>1. state' = CommittedState(state, SecondClaim)
      BY <1>5, <2>4 DEF ClaimAgain
    <3>2. PICK d : d.id = SecondClaim.id /\ d.key = SecondClaim.key
                   /\ state'.claims = state.claims \cup {d}
      BY <1>0, <2>1, <2>4, <3>1, ClaimedAgain DEF ClaimInv
    <3>3. state'.consumed = state.consumed \cup {SecondClaim.id}
          /\ \A c \in state.claims : c.key # d.key /\ c.id # d.id
      BY <1>0, <2>1, <2>4, <3>1, <3>2, ClaimedAgain DEF ClaimInv
    <3>4. SecondClaim.id # FirstId
      BY <2>1 DEF ClaimInv
    <3>5. Live(FirstId)' <=> Live(FirstId)
      BY <3>2, <3>4 DEF Live, IdsOf
    <3> QED
      BY <2>2, <3>2, <3>3, <3>4, <3>5 DEF ClaimInv
  <2> QED
    BY <2>3, <2>4
<1> QED
  BY <1>1, <1>2, <1>3, <1>4, <1>5, LedgerSteps

\* Unless it was abandoned, the first claim is live and its holder's, or landed.
LEMMA FirstClaimEnds ==
  ASSUME ClaimInv, Typed, outcome[FirstId] # "abandoned"
  PROVE  Finished \/ \E c \in LiveClaims : c.id = FirstId /\ c.who = Holder
<1>1. FirstId \in ClaimIds
  BY LandingAssumption
<1>2. Finished \/ Live(FirstId)
  BY <1>1 DEF ClaimInv, Typed, Finished
<1> QED
  BY <1>2 DEF ClaimInv, LiveClaims, Live, IdsOf

Finishing(r) ==
  /\ outcome[FirstId] # "abandoned" =>
       /\ pc[r] \in {"verify"} \cup Verified => selected[r].id = FirstId \/ Finished
       /\ pc[r] \in Reporting => Finished
  /\ outcome[FirstId] # "abandoned" /\ pull.trailer = Subject
     /\ r \notin troubled /\ CommandOf[r].kind = "land" /\ pc[r] = "incomplete" => Finished

\* A step of a run brings it nearer to the end of the landing: what refuses it
\* short of that end is a fault or an abandoned claim.
LEMMA RunFinishes ==
  ASSUME LandersMayRelease, Typed, LaneInv, RunInv, ClaimInv,
         NEW r \in Runs, Finishing(r), RunStep(r),
         outcome'[FirstId] # "abandoned", outcome[FirstId] # "abandoned"
  PROVE  Finishing(r)'
<1> USE DEF Verified, Reporting
<1>0. Next /\ (Finished => Finished')
  <2>1. Next
    BY DEF Next, RunStep
  <2> QED
    BY <2>1, ClaimStep
<1>1. ASSUME pc'[r] \notin {"verify", "incomplete"} \cup Verified \cup Reporting
      PROVE  Finishing(r)'
  BY <1>1 DEF Finishing
<1>2. ASSUME pc'[r] = FailureOf(r),
             CommandOf[r].kind = "land" /\ pc[r] \notin BeforeMerge =>
               r \in troubled' \/ pull'.trailer # Subject \/ Finished'
      PROVE  Finishing(r)'
  <2>1. CASE CommandOf[r].kind = "land" /\ pc[r] \notin BeforeMerge
    BY <1>2, <2>1 DEF FailureOf, Finishing
  <2>2. CASE ~(CommandOf[r].kind = "land" /\ pc[r] \notin BeforeMerge)
    BY <1>1, <1>2, <2>2 DEF FailureOf
  <2> QED
    BY <2>1, <2>2
<1>3. CASE LandStep(r)
  <2>1. CASE ReadLanding(r)
    BY <1>1, <2>1 DEF ReadLanding, Step, Typed
  <2>2. CASE ReadReadiness(r) \/ ReadItem(r) \/ PeekClaims(r) \/ FastForward(r)
    <3>1. pc'[r] \in {"item", "refused", "claims", "merge", "route"}
      BY <2>2 DEF ReadReadiness, ReadItem, PeekClaims, FastForward, Step, Typed
    <3> QED
      BY <1>1, <3>1
  <2>3. CASE Merge(r)
    <3>1. pc'[r] \in {"branch", "refused"} \/ (pc[r] = "merge" /\ pc'[r] = FailureOf(r))
      BY <2>3 DEF Merge, Effect, Step, Typed
    <3> QED
      BY <1>1, <1>2, <3>1 DEF BeforeMerge
  <2>4. CASE DeleteBranch(r)
    <3>1. pc'[r] = "forward" \/ (pc'[r] = FailureOf(r) /\ r \in troubled')
      BY <2>4 DEF DeleteBranch, Effect, Step, Typed
    <3> QED
      BY <1>1, <1>2, <3>1
  <2>5. CASE RouteRelease(r)
    <3>1. /\ pc'[r] = "resolve" \/ (pc'[r] = "incomplete" /\ pull.trailer # Subject)
          /\ pull' = pull
      BY <2>5 DEF RouteRelease, Step, Typed, forge
    <3> QED
      BY <1>1, <3>1 DEF Finishing
  <2> QED
    BY <1>3, <2>1, <2>2, <2>3, <2>4, <2>5 DEF LandStep
<1>4. CASE ReleaseStep(r)
  <2>1. CASE ResolveClaim(r)
    <3>1. CASE \E c \in LiveClaims :
                 MayRelease(r, c) /\ selected' = [selected EXCEPT ![r] = c] /\ Step(r, "resolve", "verify")
      <4>1. pc'[r] = "verify" /\ selected'[r] \in LiveClaims
        BY <3>1 DEF Step, Typed
      <4>2. CASE Finished
        BY <1>0, <4>1, <4>2 DEF Finishing
      <4>3. CASE ~Finished
        <5>1. \E c \in LiveClaims : c.id = FirstId
          BY <4>3, FirstClaimEnds
        <5>2. \A c, d \in LiveClaims : c = d
          BY DEF LiveClaims, ClaimInv
        <5> QED
          BY <4>1, <5>1, <5>2 DEF Finishing
      <4> QED
        BY <4>2, <4>3
    <3>2. CASE (\A c \in LiveClaims : ~MayRelease(r, c)) /\ Step(r, "resolve", FailureOf(r))
      <4>1. pc'[r] = FailureOf(r)
        BY <3>2 DEF Step, Typed
      <4>2. CommandOf[r].kind = "land" => Finished
        BY <3>2, FirstClaimEnds DEF MayRelease, LandersMayRelease
      <4> QED
        BY <1>0, <1>2, <4>1, <4>2
    <3> QED
      BY <2>1, <3>1, <3>2 DEF ResolveClaim
  <2>2. CASE VerifyMerged(r)
    <3>1. /\ pc[r] = "verify" /\ selected' = selected /\ pull' = pull
          /\ \/ pc'[r] \in {"comment", "release"}
             \/ pc'[r] = FailureOf(r) /\ (pull.merged = 0 \/ pull.trailer # Subject)
      BY <2>2 DEF VerifyMerged, Step, Typed, forge
    <3>2. CommandOf[r].kind = "land" => pull.merged # 0
      BY <3>1 DEF RunInv, Following
    <3> QED
      BY <1>0, <1>2, <3>1, <3>2 DEF Finishing
  <2>3. CASE LookForComment(r)
    <3>1. pc[r] = "comment" /\ pc'[r] \in {"post", "close"} /\ selected' = selected
      BY <2>3 DEF LookForComment, Step, Typed
    <3> QED
      BY <1>0, <3>1 DEF Finishing
  <2>4. CASE PostComment(r) \/ CloseIssue(r)
    <3>1. /\ pc[r] \in {"post", "close"} /\ selected' = selected
          /\ pc'[r] \in {"close", "release"} \/ (pc'[r] = FailureOf(r) /\ r \in troubled')
      BY <2>4 DEF PostComment, CloseIssue, Effect, Step, Typed
    <3> QED
      BY <1>0, <1>2, <3>1 DEF Finishing
  <2>5. CASE CommitRelease(r)
    <3> DEFINE i == ReleaseIntentOf(r)
    <3>1. /\ pc[r] = "release" /\ selected[r] \in ActiveClaim
          /\ selected[r].id = FirstId \/ Finished
      BY <2>5 DEF CommitRelease, RunInv, Finishing
    <3>2. i \in ReleaseIntent /\ i.id = selected[r].id /\ i.kind = "release"
          /\ i.who = CommandOf[r].who /\ i.override = CommandOf[r].override
      BY <3>1, RunIntents DEF ReleaseIntentOf
    <3>3. CASE Admits(state, i)
      <4>1. pc'[r] = "report" \/ pc'[r] = FailureOf(r)
        BY <2>5, <3>3 DEF CommitRelease, Effect, Step, Typed
      <4>2. Finished'
        <5>1. outcome' = [outcome EXCEPT ![selected[r].id] = "merged"] /\ FirstId \in ClaimIds
          BY <2>5, <3>3, LandingAssumption DEF CommitRelease
        <5> QED
          BY <1>0, <3>1, <5>1 DEF Finished, Typed
      <4> QED
        BY <1>2, <4>1, <4>2 DEF Finishing
    <3>4. CASE ~Admits(state, i)
      <4>1. pc'[r] = FailureOf(r)
        BY <2>5, <3>4 DEF CommitRelease, Step, Typed
      <4>2. ASSUME CommandOf[r].kind = "land" PROVE Finished
        <5> SUFFICES ASSUME selected[r].id = FirstId, NEW c \in LiveClaims, c.id = FirstId,
                            c.who = Holder
                     PROVE  FALSE
          BY <3>1, FirstClaimEnds
        <5>1. c \in LiveClaimById(state, i.id)
          BY <3>2 DEF LiveClaimById, LiveClaims
        <5>2. AuthorizeRelease(c, i)
          BY <3>2, <4>2 DEF AuthorizeRelease, SameClaimant, LandersMayRelease
        <5> QED
          BY <3>2, <3>4, <5>1, <5>2 DEF Admits, AdmitsRelease
      <4> QED
        BY <1>0, <1>2, <4>1, <4>2
    <3> QED
      BY <3>3, <3>4
  <2>6. CASE ReportLanding(r)
    <3>1. pc[r] = "report" /\ pc'[r] \in {"done", "merged"}
      BY <2>6 DEF ReportLanding, Step, Typed
    <3> QED
      BY <1>0, <3>1 DEF Finishing
  <2> QED
    BY <1>4, <2>1, <2>2, <2>3, <2>4, <2>5, <2>6 DEF ReleaseStep
<1>5. CASE CleanupStep(r)
  <2>1. /\ pc[r] \in {"merged", "dirty", "remove", "delete"}
        /\ pc'[r] \in {"dirty", "remove", "delete", "done"}
    BY <1>5 DEF CleanupStep, CheckMerged, CheckClean, RemoveWorktree, DeleteLocalBranch, Step, Typed
  <2> QED
    BY <1>0, <2>1 DEF Finishing
<1>6. CASE Fail(r)
  <2>1. pc'[r] \in {FailureOf(r), "crashed"} /\ r \in troubled'
    BY <1>6 DEF Fail, Step, Typed
  <2> QED
    BY <1>1, <1>2, <2>1
<1> QED
  BY <1>3, <1>4, <1>5, <1>6 DEF RunStep

\* Every run that is through, or that stopped without a fault, finds the landing
\* finished.
LEMMA FinishStep ==
  ASSUME LandersMayRelease, Typed, LaneInv, RunInv, ClaimInv, FinishInv, Next
  PROVE  FinishInv'
<1>1. \A r \in Runs : Finishing(r)
  BY DEF FinishInv, Finishing
<1> SUFFICES ASSUME outcome'[FirstId] # "abandoned" PROVE \A r \in Runs : Finishing(r)'
  <2>1. CASE outcome'[FirstId] = "abandoned"
    BY <2>1 DEF FinishInv
  <2>2. CASE outcome'[FirstId] # "abandoned"
    BY <2>2 DEF FinishInv, Finishing
  <2> QED
    BY <2>1, <2>2
<1>2. outcome[FirstId] # "abandoned" /\ (Finished => Finished')
  BY ClaimStep
<1>3. ASSUME NEW r \in Runs, pc'[r] = pc[r], selected'[r] = selected[r],
             r \in troubled' <=> r \in troubled
      PROVE  Finishing(r)'
  <2>1. CommandOf[r].kind = "land" /\ pc[r] = "incomplete" => pull'.trailer = pull.trailer
    BY Settled DEF RunInv, Following
  <2> QED
    BY <1>1, <1>2, <1>3, <2>1 DEF Finishing
<1>4. ASSUME NEW q \in Runs, RunStep(q) PROVE \A r \in Runs : Finishing(r)'
  <2>1. Finishing(q)'
    BY <1>1, <1>2, <1>4, RunFinishes
  <2>2. \A r \in Runs \ {q} : Finishing(r)'
    BY <1>3, <1>4, RunFrame
  <2> QED
    BY <2>1, <2>2
<1>5. ASSUME People PROVE \A r \in Runs : Finishing(r)'
  <2>1. UNCHANGED <<pc, selected, troubled>>
    BY <1>5 DEF People, HolderStep, Edit, Commit, PushLane, Abandon, LookToClaim, ClaimAgain,
       MergeByHand, AutoClose
  <2> QED
    BY <1>3, <2>1
<1> QED
  BY <1>4, <1>5 DEF Next, RunStep, People

----------------------------------------------------------------------------
(* The theorems.                                                           *)

\* A landing starts with the lane's claim live and nothing merged.
LEMMA InitInvariant ==
  ASSUME Init
  PROVE  IInv /\ ClaimInv /\ FinishInv
<1>0. Typed
  BY InitTyped
<1>1. /\ pull = [head |-> 1, merged |-> 0, trailer |-> NoTrailer, by |-> Nobody]
      /\ issue.comments = 0 /\ trunk = 0 /\ troubled = {}
      /\ lane.local = 1 /\ lane.remote = 1 /\ lane.tracking = 1 /\ lane.made = 1
      /\ lane.pushed = 1 /\ lane.worktree = "clean"
      /\ outcome = [id \in ClaimIds |-> "none"]
      /\ \A r \in Runs : pc[r] \in Waiting
  BY DEF Init, Waiting
<1>2. LaneInv
  BY <1>1, Constants DEF LaneInv, Waiting
<1>3. RunInv
  <2>1. \A r \in Runs : CommandOf[r].kind = "land" => pc[r] \notin Following
    BY DEF Init, Following, Verified
  <2> QED
    BY <1>1, <2>1 DEF RunInv, MergedHeadWasChecked, MergedReleaseIsLanded, Verified, Waiting
<1>4. CommentInv
  <2>1. Posted = {}
    BY <1>1 DEF Posted, Waiting, Ended
  <2>2. Cardinality(Posted) = 0
    BY <2>1, FS_EmptySet
  <2> QED
    BY <1>1, <2>2 DEF CommentInv, Waiting
<1>5. ClaimInv
  <2>1. state.consumed = {FirstId}
    BY InitState DEF Init
  <2>2. PICK c \in ActiveClaim : /\ state.claims = {c} /\ c.id = FirstId /\ c.key = Subject
                                 /\ c.who = Holder /\ c.branch = Lane
    BY InitState DEF Init, Holder
  <2>3. outcome[FirstId] = "none"
    BY <1>1, LandingAssumption
  <2>4. Live(FirstId)
    BY <2>2 DEF Live, IdsOf
  <2> QED
    BY <2>1, <2>2, <2>3, <2>4 DEF ClaimInv, Init
<1>6. FinishInv
  BY <1>1 DEF FinishInv, Waiting, Verified, Reporting
<1> QED
  BY <1>0, <1>2, <1>3, <1>4, <1>5, <1>6 DEF IInv

\* A step of anyone keeps the invariant.
LEMMA InvariantStep ==
  ASSUME IInv, [Next]_vars
  PROVE  IInv'
<1>1. CASE Next
  <2>1. Typed'
    BY <1>1, RunTyped, PeopleTyped DEF IInv, Next, RunStep, People
  <2> QED
    BY <1>1, <2>1, LaneStep, RunInvStep, CommentStep DEF IInv
<1>2. CASE UNCHANGED vars
  <2>1. /\ UNCHANGED <<state, outcome, pull, issue, lane, trunk>>
        /\ UNCHANGED <<pc, head, selected, troubled, looked, after>>
    BY <1>2 DEF vars
  <2>2. Typed' /\ LaneInv'
    BY <2>1 DEF IInv, Typed, LaneInv
  <2>3. RunInv'
    BY <2>1 DEF IInv, RunInv, MergedHeadWasChecked, MergedReleaseIsLanded
  <2>4. CommentInv'
    BY <2>1 DEF IInv, CommentInv, Posted, Sequential, Started
  <2> QED
    BY <2>2, <2>3, <2>4 DEF IInv
<1> QED
  BY <1>1, <1>2

\* The inductive invariant: the types, where the lane's commits are, what each run
\* knows, and who has commented.
THEOREM LandingInvariant == Spec => []IInv
BY InitInvariant, InvariantStep, PTL DEF Spec

\* However often the follow-up of a merge is run again, it does no more than the
\* merge justifies, and no part of it twice.
THEOREM LandingFollowUpIsSound == Spec => []FollowUpIsSound
<1>1. IInv => FollowUpIsSound
  <2> SUFFICES ASSUME IInv PROVE FollowUpIsSound
    OBVIOUS
  <2>1. /\ lane.local \in 0 .. MaxCommits /\ lane.remote \in 0 .. MaxCommits
        /\ lane.tracking \in 0 .. MaxCommits /\ lane.made \in 1 .. MaxCommits
        /\ lane.pushed \in 1 .. MaxCommits /\ trunk \in 0 .. MaxCommits
        /\ pull.head \in 1 .. MaxCommits /\ pull.merged \in 0 .. MaxCommits
    BY Constants DEF IInv, Typed, LaneInv, LaneRecord, Pull
  <2>2. issue.comments \in 0 .. Cardinality(Runs)
    <3>1. IsFiniteSet(Runs) /\ Posted \subseteq Runs
      BY LandingAssumption DEF Posted
    <3>2. Cardinality(Posted) \in Nat /\ Cardinality(Runs) \in Nat
          /\ Cardinality(Posted) <= Cardinality(Runs)
      BY <3>1, FS_Subset, FS_CardinalityType
    <3>3. issue.comments \in Nat /\ issue.comments <= Cardinality(Posted)
      BY DEF IInv, Typed, CommentInv
    <3> QED
      BY <3>2, <3>3
  <2>3. lane \in [local : 0 .. MaxCommits, remote : 0 .. MaxCommits, tracking : 0 .. MaxCommits,
                  made : 1 .. MaxCommits, pushed : 1 .. MaxCommits,
                  worktree : {"clean", "dirty", "none"}, upstream : {"trunk", "lane"}]
    BY <2>1 DEF IInv, Typed, LaneRecord
  <2>4. pull \in [head : 1 .. MaxCommits, merged : 0 .. MaxCommits,
                  trailer : {Subject, NoTrailer}, by : Runs \cup {Nobody}]
    BY <2>1 DEF IInv, Typed, Pull
  <2>5. issue \in [open : BOOLEAN, comments : 0 .. Cardinality(Runs)]
    BY <2>2 DEF IInv, Typed
  <2>6. TypeOK
    BY <2>1, <2>3, <2>4, <2>5 DEF IInv, Typed, TypeOK
  <2>7. CommentedOnce /\ MergedReleaseIsLanded
    BY DEF IInv, RunInv, CommentInv, CommentedOnce
  <2> QED
    BY <2>6, <2>7 DEF FollowUpIsSound
<1> QED
  BY <1>1, LandingInvariant, PTL

\* What land merges is the very head whose checks it read, however the branch
\* moved in between.
THEOREM LandingMergesWhatItChecked == Spec => []MergedHeadWasChecked
<1>1. IInv => MergedHeadWasChecked
  BY DEF IInv, RunInv
<1> QED
  BY <1>1, LandingInvariant, PTL

\* No commit that exists in this clone alone is ever lost to a cleanup.
THEOREM LandingLosesNoCommit == Spec => []UnpushedWorkSurvives
<1>1. IInv => UnpushedWorkSurvives
  <2> SUFFICES ASSUME IInv, lane.made > lane.pushed, lane.made > pull.merged
               PROVE  lane.local = lane.made
    BY DEF UnpushedWorkSurvives
  <2>1. lane.made \in Nat /\ lane.pushed \in Nat /\ pull.merged \in Nat
    BY DEF IInv, Typed, LaneRecord, Pull
  <2> QED
    BY <2>1 DEF IInv, LaneInv
<1> QED
  BY <1>1, LandingInvariant, PTL

\* Where every landing is one its session may finish: a land that got past the
\* merge without a fault of its own leaves the issue closed and the lane's claim
\* released.
THEOREM LandingCompletes ==
  LandersMayRelease => (Spec => []FaultlessLandCompletes)
<1> SUFFICES ASSUME LandersMayRelease PROVE Spec => []FaultlessLandCompletes
  OBVIOUS
<1> DEFINE Inv == IInv /\ ClaimInv /\ FinishInv
<1>1. Init => Inv
  BY InitInvariant
<1>2. Inv /\ [Next]_vars => Inv'
  <2>1. ASSUME Inv, Next PROVE Inv'
    <3>1. IInv'
      BY <2>1, InvariantStep
    <3>2. Typed /\ LaneInv /\ RunInv
      BY <2>1 DEF IInv
    <3> QED
      BY <2>1, <3>1, <3>2, ClaimStep, FinishStep
  <2>2. ASSUME Inv, UNCHANGED vars PROVE Inv'
    <3>1. IInv'
      BY <2>2, InvariantStep
    <3>2. UNCHANGED <<state, outcome, pull, issue, pc, selected, troubled, looked>>
      BY <2>2 DEF vars
    <3>3. ClaimInv'
      BY <2>2, <3>2 DEF ClaimInv, Live, IdsOf
    <3>4. FinishInv'
      BY <2>2, <3>2 DEF FinishInv, Finished
    <3> QED
      BY <3>1, <3>3, <3>4
  <2> QED
    BY <2>1, <2>2
<1>3. Inv => FaultlessLandCompletes
  <2> SUFFICES ASSUME Inv, NEW r \in Runs \ troubled, CommandOf[r].kind = "land",
                      pc[r] \in {"done", "incomplete"}, Undisturbed
               PROVE  (\A c \in LiveClaims : c.id # FirstId) /\ (SubjectIsIssue => ~issue.open)
    BY DEF FaultlessLandCompletes
  <2>0. FirstId \in ClaimIds
    BY LandingAssumption
  <2>1. outcome[FirstId] # "abandoned" /\ pull.trailer = Subject
    BY <2>0 DEF Undisturbed
  <2>2. Finished
    BY <2>1 DEF FinishInv, Reporting
  <2>3. ~Live(FirstId)
    BY <2>2 DEF Finished, ClaimInv
  <2> QED
    BY <2>0, <2>2, <2>3 DEF Finished, IInv, RunInv, MergedReleaseIsLanded, LiveClaims, Live, IdsOf
<1> QED
  BY <1>1, <1>2, <1>3, PTL DEF Spec
=============================================================================
