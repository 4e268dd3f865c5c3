------------------------------- MODULE Board -------------------------------
(***************************************************************************)
(* The board: what aco makes of the open items, pull requests, trunk       *)
(* commits, claims and claim history it has read, and what next, claim,    *)
(* check and release --merged decide from it.  Operators only; Dispatch    *)
(* runs workers that go by them.                                           *)
(*                                                                         *)
(* A text is the record of what its patterns find in it: a body's fields   *)
(* and [[slice]] rows, a pull request's classification lines, closing      *)
(* references and "Part of" lines.  A scope is the set of files its paths  *)
(* cover, so two scopes overlap when they meet.  Times are numbers.        *)
(***************************************************************************)
EXTENDS Integers, FiniteSets, Sequences, SequencesExt, FiniteSetsExt

CONSTANTS
  Here,            \* this repository; a reference is <<repository, number>>
  PriorityLabels,  \* the configured labels, most urgent first
  RulingOldAfter,  \* landings after which a ruling is old
  Nothing          \* None

ASSUME BoardAssumption ==
  /\ PriorityLabels \in Seq(STRING)
  /\ RulingOldAfter \in Nat \ {0}

Local(number) == <<Here, number>>
LocalNumbers(references) == {r[2] : r \in {q \in references : q[1] = Here}}

\* The result of the first rung of a ladder whose condition holds.
FirstThat(ladder) == ladder[Min({i \in DOMAIN ladder : ladder[i][1]})][2]

----------------------------------------------------------------------------
(* The lines that classify a pull request or a trunk commit.               *)

Defect == [is |-> "defect"]
LandsItem(reference) == [is |-> "work item", item |-> reference]
LandsNoItem == [is |-> "no item"]

NoItemKinds == {"docs", "fix"}

\* The one Work-Item or No-Item line a pull request's body must carry; a value
\* that does not parse is Nothing.
ParsePullRequestClassification(body) ==
  IF Len(body.lines) # 1 THEN Defect
  ELSE LET line == body.lines[1] IN
       CASE line.kind = "work-item" /\ line.value # Nothing -> LandsItem(line.value)
         [] line.kind = "no-item" /\ line.value \in NoItemKinds -> LandsNoItem
         [] OTHER -> Defect

\* The items a landed commit's own trailers name: several may be landed at once.
TrunkCommitClassification(workItems, noItems) ==
  FirstThat(<<
    <<workItems # <<>> /\ noItems # <<>>, Defect>>,
    <<Len(noItems) > 1, Defect>>,
    <<Nothing \in ToSet(workItems), Defect>>,
    <<workItems # <<>>, [is |-> "work items", numbers |-> ToSet(workItems)]>>,
    <<ToSet(noItems) \cap NoItemKinds # {}, LandsNoItem>>,
    <<TRUE, [is |-> "unclassified"]>> >>)

Landed(commit) ==
  LET c == TrunkCommitClassification(commit.workItems, commit.noItems) IN
  IF c.is = "work items" THEN c.numbers ELSE {}

DeclaredWorkItems(pulls) ==
  LocalNumbers({c.item : c \in {d \in {ParsePullRequestClassification(p.body) : p \in pulls} :
                                  d.is = "work item"}})

\* Issues these pull requests close or say they land.
AssociatedIssues(pulls) ==
  LocalNumbers(UNION {p.body.closes \cup p.body.lands : p \in pulls})

\* Issues a "Part of" line marks and the rest of the text mentions again.
TouchedWithoutClosing(pulls) ==
  UNION {p.body.marked \cap p.body.mentioned : p \in pulls}

----------------------------------------------------------------------------
(* The Landings view: the trunk's trailers first, then the merged pull     *)
(* requests whose items no trailer names, oldest first.                    *)

Row(number, at, evidence) == [item |-> number, at |-> at, evidence |-> evidence]

TrunkRows(trunk) ==
  {LET at == Max({i \in DOMAIN trunk : n \in Landed(trunk[i])})
   IN  Row(n, trunk[at].at, "trunk") : n \in UNION {Landed(trunk[i]) : i \in DOMAIN trunk}}

MergedBefore(p, q) ==
  p.mergedAt < q.mergedAt \/ (p.mergedAt = q.mergedAt /\ p.number < q.number)

PullRequestRows(merged, already) ==
  LET first(n) ==
        CHOOSE p \in merged : /\ n \in AssociatedIssues({p})
                              /\ \A q \in merged \ {p} :
                                   n \in AssociatedIssues({q}) => MergedBefore(p, q)
  IN  {Row(n, first(n).mergedAt, first(n).number) : n \in AssociatedIssues(merged) \ already}

LandingRows(trunk, merged) ==
  LET rows == TrunkRows(trunk)
      newer(r, s) == r.at > s.at \/ (r.at = s.at /\ r.item < s.item)
  IN  SetToSortSeq(rows \cup PullRequestRows(merged, {r.item : r \in rows}), newer)

----------------------------------------------------------------------------
(* Dependencies.                                                           *)

OpenDependencyBlockers(dependencies) ==
  {d.reference : d \in {e \in dependencies : e.state = "open"}}

\* When the last of the local dependencies closed; a foreign one frees nothing.
DependencyFreedOn(dependencies) ==
  LET ours == {d \in dependencies : d.reference[1] = Here} IN
  IF ours = {} \/ \E d \in ours : d.state = "open"
  THEN Nothing ELSE Max({d.closedAt : d \in ours})

\* The items that landing one of their dependencies has freed.
FreedItemNumbers(dependencies, landed) ==
  {n \in DOMAIN dependencies :
     /\ DependencyFreedOn(dependencies[n]) # Nothing
     /\ OpenDependencyBlockers(dependencies[n]) = {}
     /\ landed \in {d.reference : d \in dependencies[n]}}

----------------------------------------------------------------------------
(* A body's contract.                                                      *)

\* A Next line is one step, several steps, a word for nothing left, or empty;
\* Nothing without one.
Says(next) == next \notin {"", Nothing}
SingleConcreteNext(next) == next \in {"one step", "nothing left"}
HasFurtherWork(next) == next \notin {"nothing left", "", Nothing}

\* now, next and done_when are all filled in, or none of them is.
ContractComplete(body) == body.valid /\ body.rest = "all" /\ Says(body.next)
Projectionless(body) == body.valid /\ body.rest = "none" /\ ~Says(body.next)

RulingOld(ruling, trunk) ==
  /\ ruling # Nothing
  /\ Cardinality({i \in DOMAIN trunk : trunk[i].at > ruling}) >= RulingOldAfter

----------------------------------------------------------------------------
(* Rank.                                                                   *)

\* Where the most urgent of the labels stands; after them all without one.
PriorityIndex(labels) ==
  Min({i \in 0..Len(PriorityLabels) :
         i = Len(PriorityLabels) \/ PriorityLabels[i + 1] \in labels})

CriticalSpan == Min({3, Len(PriorityLabels)})
Rank(category, order) == [category |-> category, order |-> order]

\* Critical label, bug, blocker, last child of its container, label, none.
PriorityBucket(labels, kind, unblocks, completes) ==
  LET index == PriorityIndex(labels) IN
  FirstThat(<<
    <<index < CriticalSpan, Rank(0, index)>>,
    <<kind = "bug", Rank(0, Len(PriorityLabels))>>,
    <<unblocks > 0, Rank(1, 0)>>,
    <<completes, Rank(2, 0)>>,
    <<TRUE, Rank(3 + index - CriticalSpan, 0)>> >>)

BoardScore(stage, unblocks, singleNext) ==
  20 * unblocks
    + (CASE stage = "in flight" -> 30 [] stage = "code landed" -> 20 [] OTHER -> -20)
    + (IF singleNext THEN 10 ELSE 0)

BoardRank(rank, score, parent, n) ==
  <<rank.category, -score, rank.order, IF parent # Nothing THEN parent ELSE n, n>>

Ahead(item, other) ==
  \E k \in DOMAIN item.rank :
    /\ item.rank[k] < other.rank[k]
    /\ \A j \in 1..(k - 1) : item.rank[j] = other.rank[j]

----------------------------------------------------------------------------
(* The claim history's measurements.                                       *)

Completed(events) == {e \in events : e.released # Nothing}

JoinedLaneEvent(event, sizes, landedAt) ==
  [event EXCEPT !.size = IF event.item \in DOMAIN sizes THEN sizes[event.item] ELSE Nothing,
                !.landed = IF event.item \in DOMAIN landedAt THEN landedAt[event.item]
                           ELSE Nothing]

Hours(event) == event.released - event.claimed

\* The claims of one item as one lane as long as all of them together.
SummedLaneEvent(claims) ==
  LET first == CHOOSE e \in claims : \A f \in claims : e.claimed <= f.claimed
  IN  [first EXCEPT !.released = first.claimed + MapThenSumSet(Hours, claims)]

\* Mutant of MeasurementFeed: every claim is a sample of its own.
EveryClaimFeeds(events) == events

MeasurementFeed(events) ==
  {SummedLaneEvent({e \in Completed(events) : e.item = n}) : n \in {e.item : e \in Completed(events)}}
    \cup (events \ Completed(events))

NearestRank(ordered, percent) ==
  LET rank == (percent * Len(ordered) + 99) \div 100
  IN  ordered[IF rank < 1 THEN 1 ELSE rank]

MedianTwice(ordered) ==
  LET n == Len(ordered) IN ordered[(n + 1) \div 2] + ordered[n \div 2 + 1]

SizeClassStats(size, lanes) ==
  LET shorter(a, b) == Hours(a) < Hours(b) \/ (Hours(a) = Hours(b) /\ a.claim < b.claim)
      sorted == SetToSortSeq(lanes, shorter)
      hours == [i \in DOMAIN sorted |-> Hours(sorted[i])]
  IN  [size |-> size, n |-> Len(hours), medianTwice |-> MedianTwice(hours),
       p80 |-> NearestRank(hours, 80), weak |-> Len(hours) < 3]

ClassesBySize(lanes) ==
  {SizeClassStats(s, {e \in lanes : e.size = s}) : s \in {e.size : e \in lanes} \ {Nothing}}

EstimateItem(size, classes) ==
  IF \E c \in classes : c.size = size THEN CHOOSE c \in classes : c.size = size ELSE Nothing

Measurements(events) ==
  LET feed == MeasurementFeed(events) IN
  [classes |-> ClassesBySize(Completed(feed)),
   unfinished |-> Cardinality(feed \ Completed(feed))]

----------------------------------------------------------------------------
(* One build of the board from what was read.                              *)

Blockers(in, n) ==
  OpenDependencyBlockers(IF n \in DOMAIN in.dependencies THEN in.dependencies[n] ELSE {})

Unblocks(in, n) ==
  Cardinality({i \in in.issues : Local(n) \in Blockers(in, i.number)})

Counted(issue) == issue.kind = "container" /\ issue.closed # Nothing /\ issue.total # Nothing

OpenChildren(in, n) ==
  IF n \in DOMAIN in.children
  THEN {c.number : c \in {d \in in.children[n] : d.state = "open"}} ELSE {}

\* A count that disagrees with the list of children refuses the board in the code;
\* a board that is read in one step has no such count.
ContainerProgress(in, issue) ==
  IF Counted(issue)
  THEN [closed |-> issue.closed, total |-> issue.total,
        openChildren |-> OpenChildren(in, issue.number)]
  ELSE Nothing

ChildContainer(in, n) ==
  LET containers == {i \in in.issues : Counted(i) /\ n \in OpenChildren(in, i.number)} IN
  IF containers = {} THEN Nothing ELSE (CHOOSE c \in containers : TRUE).number

CompletesContainer(in, n) ==
  \E i \in in.issues :
    /\ Counted(i) /\ i.number = ChildContainer(in, n)
    /\ i.closed >= 1 /\ OpenChildren(in, i.number) = {n}

ClaimOn(in, n) == {c \in in.claims : c.item = n}

BoardStage(in, n) ==
  LET inFlight ==
        \/ n \in AssociatedIssues(in.open) \cup TouchedWithoutClosing(in.open)
        \/ \E c \in ClaimOn(in, n) :
             in.listsOpenPulls => c.branch \in {p.head : p \in in.open}
      landed ==
        \/ n \in AssociatedIssues(in.merged) \cup TouchedWithoutClosing(in.merged)
        \/ \E i \in DOMAIN in.trunk : n \in Landed(in.trunk[i])
  IN  CASE inFlight -> "in flight" [] ~inFlight /\ landed -> "code landed" [] OTHER -> "text only"

ProjectionlessIdea(issue) == Projectionless(issue.body) /\ issue.idea

\* Why an item cannot be claimed now; Nothing when it can.
ActionableReason(in, issue) ==
  FirstThat(<<
    <<~issue.body.valid, "malformed">>,
    <<issue.kind = "container", "container">>,
    <<issue.body.frozen, "frozen">>,
    <<ClaimOn(in, issue.number) # {}, "claimed">>,
    <<Blockers(in, issue.number) # {}, "blocked">>,
    <<~ContractComplete(issue.body) /\ ~ProjectionlessIdea(issue), "incomplete">>,
    <<TRUE, Nothing>> >>)

SizesOf(in) ==
  LET open == {i.number : i \in in.issues} IN
  [n \in open \cup DOMAIN in.closedSizes |->
     IF n \in open THEN (CHOOSE i \in in.issues : i.number = n).body.size
     ELSE in.closedSizes[n]]

LandedAt(in) ==
  [n \in {r.item : r \in TrunkRows(in.trunk)} |->
     (CHOOSE r \in TrunkRows(in.trunk) : r.item = n).at]

JoinedEvents(in) ==
  LET sizes == SizesOf(in)
      landedAt == LandedAt(in)
  IN  {JoinedLaneEvent(e, sizes, landedAt) : e \in in.events}

BoardItem(in, issue, measured) ==
  LET n == issue.number
      stage == BoardStage(in, n)
      score == BoardScore(stage, Unblocks(in, n), SingleConcreteNext(issue.body.next))
      bucket ==
        PriorityBucket(issue.labels, issue.kind, Unblocks(in, n), CompletesContainer(in, n))
      reason == ActionableReason(in, issue)
  IN  [number |-> n, kind |-> issue.kind, body |-> issue.body, scope |-> issue.body.scope,
       rank |-> BoardRank(bucket, score, ChildContainer(in, n), n),
       container |-> ContainerProgress(in, issue),
       openBlockers |-> Blockers(in, n),
       freedOn |-> IF n \in DOMAIN in.dependencies
                   THEN DependencyFreedOn(in.dependencies[n]) ELSE Nothing,
       rulingOld |-> RulingOld(issue.body.ruling, in.trunk),
       projectionlessIdea |-> ProjectionlessIdea(issue),
       reason |-> reason, actionable |-> reason = Nothing,
       estimate |-> EstimateItem(issue.body.size, measured.classes)]

BuildBoard(in) ==
  LET measured == Measurements(JoinedEvents(in))
      items == SetToSortSeq({BoardItem(in, i, measured) : i \in in.issues}, Ahead)
      declared == DeclaredWorkItems(in.merged)
      recovered(item) == item.number \in declared
      actionable(item) == item.actionable
  IN  [items |-> items, readyNow |-> SelectSeq(items, actionable),
       recovery |-> SelectSeq(items, recovered),
       landings |-> LandingRows(in.trunk, in.merged), measurements |-> measured]

OnBoard(board, n) == {board.items[i] : i \in {j \in DOMAIN board.items : board.items[j].number = n}}

----------------------------------------------------------------------------
(* What next reads off the board.                                          *)

Work(item) == [does |-> "claim", item |-> item]
Cut(item) == [does |-> "cut", item |-> item, title |-> item.body.slices[1].title]
Close(item) == [does |-> "close", item |-> item]

ContainerNextAction(item) == IF item.body.slices # <<>> THEN Cut(item) ELSE Close(item)

\* Mutant of Qualifies: only containers with a row to cut.
QualifiesToCut(item) ==
  \/ item.actionable
  \/ item.kind = "container" /\ item.container.openChildren = {} /\ item.body.slices # <<>>

Qualifies(item) ==
  \/ item.actionable
  \/ /\ item.kind = "container" /\ item.container # Nothing
     /\ item.container.openChildren = {}
     /\ item.body.valid

\* Every row next can act on, in the board's order.
QualifyingActions(board) ==
  LET rows == SelectSeq(board.items, Qualifies) IN
  [i \in DOMAIN rows |->
     IF rows[i].actionable THEN Work(rows[i]) ELSE ContainerNextAction(rows[i])]

NextAction(board) ==
  IF QualifyingActions(board) = <<>> THEN Nothing ELSE QualifyingActions(board)[1]

ActionScope(action) ==
  CASE action.does = "claim" -> action.item.scope
    [] action.does = "cut" -> action.item.body.slices[1].scope
    [] OTHER -> {}

\* Further actions that fit beside the first one and the live claims: each
\* takes its scope out of what is left for those after it.
ParallelSet(board, claims, action) ==
  LET recovering == {r.number : r \in ToSet(board.recovery)}
      candidate(a) ==
        a.does # "close" /\ a.item.number \notin recovering \cup {action.item.number}
      place(set, a) ==
        CASE ActionScope(a) = Nothing -> [set EXCEPT !.unknown = @ \cup {a.item.number}]
          [] ActionScope(a) # Nothing /\ ActionScope(a) \cap set.occupied = {} ->
               [set EXCEPT !.placed = Append(@, a), !.occupied = @ \cup ActionScope(a)]
          [] OTHER -> set
      occupied == UNION {c.scope : c \in claims}
  IN  IF action = Nothing \/ ActionScope(action) = Nothing
      THEN [placed |-> <<>>, unknown |-> {}, occupied |-> {}]
      ELSE FoldLeft(place,
                    [placed |-> <<>>, unknown |-> {}, occupied |-> occupied \cup ActionScope(action)],
                    SelectSeq(QualifyingActions(board), candidate))

\* Containers with nothing left, then items that landed and are still open.
ZeroCostCloses(board) ==
  LET closable == {a.item.number : a \in {b \in ToSet(QualifyingActions(board)) : b.does = "close"}}
  IN  closable \cup {r.number : r \in ToSet(board.recovery)}

\* Mutant of ClosableContainerNumber: the rows still to cut are not looked at.
ClosableWithRows(parent, children) ==
  IF /\ parent.kind = "container" /\ \A c \in children : c.state # "open"
     /\ parent.body.valid
  THEN parent.number ELSE Nothing

\* The parent that release --merged and item close say can be closed now.
ClosableContainerNumber(parent, children) ==
  IF /\ parent.kind = "container"
     /\ \A c \in children : c.state # "open"
     /\ parent.body.valid /\ parent.body.slices = <<>>
  THEN parent.number ELSE Nothing

----------------------------------------------------------------------------
(* What claim and start refuse.                                            *)

Buildable(item) == item.actionable /\ (item.scope # Nothing \/ item.body.slices # <<>>)

HighestScoredActionable(board) ==
  LET buildable == SelectSeq(board.readyNow, Buildable) IN
  IF buildable = <<>> THEN Nothing ELSE buildable[1]

OutOfOrderCheck(board, n) ==
  LET highest == HighestScoredActionable(board) IN
  {[check |-> "out-of-order", by |-> highest.number] :
     item \in {i \in OnBoard(board, n) : highest # Nothing /\ Ahead(highest, i)}}

\* A malformed body is refused as such; nothing else in it is believed.
BodyContractChecks(item) ==
  CASE ~item.body.valid -> {[check |-> "body-contract"]}
    [] item.body.valid /\ ~ContractComplete(item.body) /\ ~item.projectionlessIdea ->
         {[check |-> "body-incomplete"]}
    [] OTHER -> {}

\* The errors of claim without --out-of-order; state is the item's own.
SliceRuleChecks(board, n, state) ==
  OutOfOrderCheck(board, n)
    \cup (IF state = "open" THEN {} ELSE {[check |-> state]})
    \cup UNION {BodyContractChecks(i) : i \in OnBoard(board, n)}
    \cup {[check |-> "container"] : i \in {j \in OnBoard(board, n) : j.kind = "container"}}
    \cup {[check |-> "blocked"] : i \in {j \in OnBoard(board, n) : j.openBlockers # {}}}

----------------------------------------------------------------------------
(* What check and land refuse of a pull request.                           *)

HasClaim(claims, pull, item) == \E c \in claims : c.item = item /\ c.branch = pull.head

\* What landing the item asks of its parent: whether the body may and must
\* close it, or why the item cannot land at all.
ParentRequirement(parent, children, n) ==
  LET remaining == {c \in children : c.state = "open" /\ c.number # n} IN
  CASE parent = Nothing -> [refuses |-> FALSE, permits |-> {}, requires |-> {}]
    [] /\ parent # Nothing
       /\ parent.repository # Here \/ parent.kind # "container" \/ ~parent.body.valid ->
         [refuses |-> TRUE]
    [] OTHER ->
         [refuses |-> remaining # {} /\ ~Says(parent.body.next),
          permits |-> IF remaining = {} THEN {Local(parent.number)} ELSE {},
          requires |-> IF remaining = {} /\ ~HasFurtherWork(parent.body.next)
                       THEN {Local(parent.number)} ELSE {}]

ClosesWhatItShould(closes, item, requirement) ==
  /\ item \in closes
  /\ requirement.requires \subseteq closes
  /\ closes \subseteq {item} \cup requirement.permits

ChecksOut(pull, claims, parent, children) ==
  LET c == ParsePullRequestClassification(pull.body) IN
  /\ pull.source = Here /\ pull.target = "default"
  /\ \/ /\ c.is = "no item"
        /\ HasClaim(claims, pull, Nothing) /\ pull.body.closes = {}
     \/ /\ c.is = "work item" /\ c.item[1] = Here
        /\ HasClaim(claims, pull, c.item[2])
        /\ LET requirement == ParentRequirement(parent, children, c.item[2]) IN
           ~requirement.refuses /\ ClosesWhatItShould(pull.body.closes, c.item, requirement)

=============================================================================
