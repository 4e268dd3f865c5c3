------------------------------ MODULE Dispatch ------------------------------
(***************************************************************************)
(* Workers who go by the board: each asks next what to do and does it with *)
(* the command next printed, which builds the board anew and may refuse.   *)
(* An item is claimed, its pull request opened, checked and merged, and    *)
(* the claim released; a container's next row is cut into a child; a       *)
(* container with nothing left is closed.  People meanwhile fill in the    *)
(* bodies of new children, write a container's Next line and reopen items. *)
(***************************************************************************)
EXTENDS Board

CONSTANTS
  Workers,
  Worlds,      \* the items to begin with: functions from numbers to items
  Spare,       \* numbers for the children cut creates
  MaxMishaps   \* bound: items reopened after they landed, and merge commits
               \* without a trailer

ASSUME DispatchAssumption ==
  /\ \A w \in Worlds : DOMAIN w \cap Spare = {}
  /\ MaxMishaps \in Nat

VARIABLES
  item,     \* the items that exist
  pull,     \* the pull requests, open and merged, by number
  trunk,    \* the first-parent commits of the default branch, oldest first
  claim,    \* the live claims, by the worker whose branch they are on
  event,    \* the claim history
  worker,   \* where each worker stands and what next told it
  reopens

vars == <<item, pull, trunk, claim, event, worker, reopens>>

Idle == [at |-> "idle"]
Now == Len(trunk)
OpenItems == {n \in DOMAIN item : item[n].state = "open"}
Bare == {i \in DOMAIN trunk : trunk[i].workItems = <<>>}
ChildrenOf(c) == {n \in DOMAIN item : item[n].parent = c}
ClosedChildren(c) == ChildrenOf(c) \ OpenItems

Blank(title) == [valid |-> TRUE, rest |-> "some", next |-> "", frozen |-> FALSE, scope |-> Nothing,
                 size |-> Nothing, ruling |-> Nothing, slices |-> <<>>, title |-> title]

----------------------------------------------------------------------------
(* What one command reads for its board.                                   *)

Issue(n) ==
  [number |-> n, kind |-> item[n].kind, labels |-> item[n].labels, idea |-> FALSE,
   body |-> item[n].body,
   closed |-> IF item[n].kind = "container" THEN Cardinality(ClosedChildren(n)) ELSE Nothing,
   total |-> IF item[n].kind = "container" THEN Cardinality(ChildrenOf(n)) ELSE Nothing]

Children(c) == {[number |-> n, state |-> item[n].state] : n \in ChildrenOf(c)}

Dependencies(n) ==
  {[reference |-> Local(m), state |-> item[m].state, closedAt |-> 0] : m \in item[n].blockedBy}

AsParent(c) == [repository |-> Here, number |-> c, kind |-> item[c].kind, body |-> item[c].body]
Parent(n) == IF item[n].parent = Nothing THEN Nothing ELSE AsParent(item[n].parent)

Claims == {claim[w] : w \in {v \in Workers : claim[v] # Nothing}}

InputsWith(claims) ==
  [issues |-> {Issue(n) : n \in OpenItems},
   open |-> {pull[p] : p \in {q \in DOMAIN pull : pull[q].mergedAt = Nothing}},
   merged |-> {pull[p] : p \in {q \in DOMAIN pull : pull[q].mergedAt # Nothing}},
   claims |-> claims, trunk |-> trunk, listsOpenPulls |-> TRUE,
   children |-> [c \in {n \in OpenItems : ChildrenOf(n) # {}} |-> Children(c)],
   dependencies |-> [n \in {m \in OpenItems : item[m].blockedBy # {}} |-> Dependencies(n)],
   events |-> event,
   closedSizes |-> [n \in DOMAIN item \ OpenItems |-> item[n].body.size]]

TheBoard == BuildBoard(InputsWith(Claims))

----------------------------------------------------------------------------
(* Workers.                                                                *)

Go(w, to) == worker' = [worker EXCEPT ![w] = to]
Stay == UNCHANGED <<item, pull, trunk, claim, event, reopens>>

\* aco next: the worker takes the first action.
Ask(w) ==
  LET action == NextAction(TheBoard) IN
  /\ worker[w] = Idle
  /\ action # Nothing
  /\ Go(w, [at |-> action.does, number |-> action.item.number,
            title |-> IF action.does = "cut" THEN action.title ELSE Nothing])
  /\ Stay

\* aco claim: the board is read again, and the claim made if nothing is against it.
Claim(w) ==
  LET n == worker[w].number
      id == Cardinality(event) + 1
  IN  /\ worker[w].at = "claim"
      /\ IF /\ SliceRuleChecks(TheBoard, n, item[n].state) = {}
            /\ \A c \in Claims : c.item # n
         THEN /\ claim' = [claim EXCEPT ![w] = [item |-> n, branch |-> id, id |-> id,
                             scope |-> IF item[n].body.scope = Nothing THEN {} ELSE item[n].body.scope]]
              /\ event' = event \cup {[claim |-> id, item |-> n, size |-> Nothing, claimed |-> Now,
                                       released |-> Nothing, landed |-> Nothing]}
              /\ Go(w, [at |-> "build", number |-> n])
         ELSE Go(w, Idle) /\ UNCHANGED <<claim, event>>
      /\ UNCHANGED <<item, pull, trunk, reopens>>

\* The body closes the item and, if the author thinks so, its parent.
Closing(n, parentToo) ==
  {Local(n)} \cup (IF parentToo /\ item[n].parent # Nothing THEN {Local(item[n].parent)} ELSE {})

OpenPull(w) ==
  LET n == worker[w].number
      number == Cardinality(DOMAIN pull) + 1
      marked == {item[n].parent} \ {Nothing}
  IN  /\ worker[w].at = "build"
      /\ \E parentToo \in BOOLEAN :
           pull' = [p \in DOMAIN pull \cup {number} |->
             IF p \in DOMAIN pull THEN pull[p]
             ELSE [number |-> number, head |-> claim[w].branch, source |-> Here,
                   target |-> "default", mergedAt |-> Nothing,
                   body |-> [lines |-> <<[kind |-> "work-item", value |-> Local(n)]>>,
                             closes |-> Closing(n, parentToo), lands |-> {},
                             marked |-> marked, mentioned |-> marked]]]
      /\ Go(w, [at |-> "check", number |-> n, pull |-> number])
      /\ UNCHANGED <<item, trunk, claim, event, reopens>>

\* aco check, as land runs it before merging; refused, the author closes the
\* parent after all, or leaves it open.
CheckPull(w) ==
  LET n == worker[w].number
      p == worker[w].pull
      parentToo == Cardinality(pull[p].body.closes) = 1
  IN  /\ worker[w].at = "check"
      /\ IF ChecksOut(pull[p], Claims, Parent(n),
                      IF item[n].parent = Nothing THEN {} ELSE Children(item[n].parent))
         THEN Go(w, [worker[w] EXCEPT !.at = "merge"]) /\ UNCHANGED pull
         ELSE pull' = [pull EXCEPT ![p].body.closes = Closing(n, parentToo)] /\ UNCHANGED worker
      /\ UNCHANGED <<item, trunk, claim, event, reopens>>

\* The merge closes what the body says; the commit carries the trailer or not.
Merge(w) ==
  LET n == worker[w].number
      p == worker[w].pull
      closed == LocalNumbers(pull[p].body.closes)
  IN  /\ worker[w].at = "merge"
      /\ pull' = [pull EXCEPT ![p].mergedAt = Now + 1]
      /\ item' = [m \in DOMAIN item |->
                    IF m \in closed THEN [item[m] EXCEPT !.state = "closed"] ELSE item[m]]
      /\ \E trailer \in {<<n>>} \cup (IF reopens + Cardinality(Bare) < MaxMishaps THEN {<<>>} ELSE {}) :
           trunk' = Append(trunk, [workItems |-> trailer, noItems |-> <<>>, at |-> Now + 1])
      /\ Go(w, [at |-> "release", number |-> n])
      /\ UNCHANGED <<claim, event, reopens>>

Release(w) ==
  /\ worker[w].at = "release"
  /\ event' = {IF e.claim = claim[w].id THEN [e EXCEPT !.released = Now] ELSE e : e \in event}
  /\ claim' = [claim EXCEPT ![w] = Nothing]
  /\ Go(w, Idle)
  /\ UNCHANGED <<item, pull, trunk, reopens>>

\* aco cut without --row: the first row, if it still bears the title.
CutAccepts(c, title) ==
  /\ c \in OpenItems /\ item[c].kind = "container" /\ item[c].parent = Nothing
  /\ item[c].body.valid
  /\ item[c].body.slices # <<>> /\ item[c].body.slices[1].title = title

CutRow(w) ==
  LET c == worker[w].number
      row == item[c].body.slices[1]
  IN  /\ worker[w].at = "cut"
      /\ IF CutAccepts(c, worker[w].title) /\ Spare \ DOMAIN item # {}
         THEN LET child == Min(Spare \ DOMAIN item) IN
              item' = [n \in DOMAIN item \cup {child} |->
                CASE n = c -> [item[c] EXCEPT !.body.slices = Tail(@)]
                  [] n = child -> [kind |-> "task", labels |-> {}, state |-> "open", parent |-> c,
                                   blockedBy |-> {},
                                   body |-> [Blank(row.title) EXCEPT !.scope = row.scope]]
                  [] OTHER -> item[n]]
         ELSE UNCHANGED item
      /\ Go(w, Idle)
      /\ UNCHANGED <<pull, trunk, claim, event, reopens>>

\* The container next says has nothing left is closed on GitHub.
CloseContainer(w) ==
  LET c == worker[w].number IN
  /\ worker[w].at = "close"
  /\ item' = IF ChildrenOf(c) \cap OpenItems = {} THEN [item EXCEPT ![c].state = "closed"] ELSE item
  /\ Go(w, Idle)
  /\ UNCHANGED <<pull, trunk, claim, event, reopens>>

----------------------------------------------------------------------------
(* People.                                                                 *)

Refine(n) ==
  /\ n \in OpenItems /\ item[n].kind # "container" /\ ~ContractComplete(item[n].body)
  /\ item' = [item EXCEPT ![n].body.rest = "all", ![n].body.next = "one step",
                          ![n].body.size = "M"]
  /\ UNCHANGED <<pull, trunk, claim, event, worker, reopens>>

WriteNext(c) ==
  /\ c \in OpenItems /\ item[c].kind = "container" /\ ~Says(item[c].body.next)
  /\ Cardinality(ChildrenOf(c) \cap OpenItems) > 1
  /\ item' = [item EXCEPT ![c].body.next = "several steps"]
  /\ UNCHANGED <<pull, trunk, claim, event, worker, reopens>>

\* An item that landed turns out not to be done.
Reopen(n) ==
  /\ reopens + Cardinality(Bare) < MaxMishaps /\ reopens' = reopens + 1
  /\ item[n].state = "closed" /\ item[n].kind # "container"
  /\ item' = [item EXCEPT ![n].state = "open"]
  /\ UNCHANGED <<pull, trunk, claim, event, worker>>

----------------------------------------------------------------------------
Init ==
  /\ item \in Worlds
  /\ pull = <<>> /\ trunk = <<>> /\ event = {}
  /\ claim = [w \in Workers |-> Nothing]
  /\ worker = [w \in Workers |-> Idle]
  /\ reopens = 0

WorkerStep(w) ==
  \/ Ask(w) \/ Claim(w) \/ OpenPull(w) \/ CheckPull(w) \/ Merge(w) \/ Release(w)
  \/ CutRow(w) \/ CloseContainer(w)

Next ==
  \/ \E w \in Workers : WorkerStep(w)
  \/ \E n \in DOMAIN item : Refine(n) \/ WriteNext(n) \/ Reopen(n)

Spec == Init /\ [][Next]_vars

CanStep(w) == worker[w] # Idle \/ NextAction(TheBoard) # Nothing
CanWrite ==
  \E n \in OpenItems :
    IF item[n].kind = "container"
    THEN ~Says(item[n].body.next) /\ Cardinality(ChildrenOf(n) \cap OpenItems) > 1
    ELSE ~ContractComplete(item[n].body)

\* Workers go on working, and bodies and Next lines get written in the end:
\* weak fairness, with what enables the steps written out.
FairSpec ==
  /\ Spec
  /\ \A w \in Workers : []<>~CanStep(w) \/ []<><<WorkerStep(w)>>_vars
  /\ []<>~CanWrite \/ []<><<\E n \in DOMAIN item : Refine(n) \/ WriteNext(n)>>_vars

----------------------------------------------------------------------------
(* Properties.                                                             *)

\* What next tells a worker to claim or to cut, the command itself accepts as
\* long as nothing has changed: next's order and claim's precedence check
\* (cli.py, _out_of_order_check) come from two readings of the board.
NextIsAccepted(board) ==
  LET action == NextAction(board) IN
  action # Nothing =>
    /\ action.does = "claim" =>
         SliceRuleChecks(board, action.item.number, item[action.item.number].state) = {}
    /\ action.does = "cut" => CutAccepts(action.item.number, action.title)

\* release --merged and item close call a container closable exactly when next
\* lists it so, though one reads the relation and the other the whole board.
ClosersAgree(board) ==
  \A c \in {n \in OpenItems : item[n].kind = "container"} :
    c \in ZeroCostCloses(board) <=> ClosableContainerNumber(AsParent(c), Children(c)) = c

\* What next lists as parallel can be worked on at the same time: no two of its
\* actions, nor one of them and a live claim, share a file; and nothing that
\* would fit is left out.
ParallelRunsTogether(board) ==
  LET action == NextAction(board)
      set == ParallelSet(board, Claims, action)
      taken == [i \in DOMAIN set.placed |-> ActionScope(set.placed[i])]
      shown == {set.placed[i].item.number : i \in DOMAIN set.placed} \cup set.unknown
      recovering == {r.number : r \in ToSet(board.recovery)}
  IN  action # Nothing /\ ActionScope(action) # Nothing =>
        /\ \A i \in DOMAIN taken :
             /\ taken[i] \cap ActionScope(action) = {}
             /\ \A c \in Claims : taken[i] \cap c.scope = {}
             /\ \A j \in DOMAIN taken \ {i} : taken[i] \cap taken[j] = {}
        /\ \A a \in ToSet(QualifyingActions(board)) :
             \/ a.does = "close" \/ a.item.number \in recovering \cup shown \cup {action.item.number}
             \/ ActionScope(a) \cap set.occupied # {}

\* What release --merged names as freed is exactly what the board now shows
\* without an open blocker, though the landed item is on the board no more.
FreedAgree(board) ==
  \A w \in {v \in Workers : worker[v].at = "release"} :
    LET n == worker[w].number IN
    FreedItemNumbers(InputsWith(Claims).dependencies, Local(n)) =
      {m \in OpenItems : /\ n \in item[m].blockedBy
                         /\ \A i \in OnBoard(board, m) : i.openBlockers = {}}

\* The commands that read the board agree with one another.
ReadersAgree ==
  LET board == TheBoard IN
  /\ NextIsAccepted(board) /\ ClosersAgree(board)
  /\ ParallelRunsTogether(board) /\ FreedAgree(board)

\* However often an item was claimed it is one sample of its size class, and
\* however often it landed it has one row in the Landings.
EachItemCountsOnce ==
  LET board == TheBoard
      measured == {e.item : e \in Completed(event)}
      landed == UNION {Landed(trunk[i]) : i \in DOMAIN trunk}
                  \cup {n \in DOMAIN item : \E p \in DOMAIN pull :
                         pull[p].mergedAt # Nothing /\ Local(n) \in pull[p].body.closes}
      rows == board.landings
  IN  /\ \A size \in {"S", "M"} :
           LET stats == {c \in board.measurements.classes : c.size = size}
               sized == {n \in measured : item[n].body.size = size}
           IN  IF sized = {} THEN stats = {} ELSE {c.n : c \in stats} = {Cardinality(sized)}
      /\ board.measurements.unfinished = Cardinality(Claims)
      /\ {rows[i].item : i \in DOMAIN rows} = landed /\ Len(rows) = Cardinality(landed)

\* Every item lands or is closed in the end, by workers who only ever do what
\* next tells them: no container is forgotten, and nothing next recommends
\* stands in the way of the rest for ever.
EveryItemLands == <>[](OpenItems = {})

----------------------------------------------------------------------------
(* What the documents say and the code does not do.                        *)

\* The parallel set's docstring promises items that "can run alongside right
\* now": once the first action is claimed, claim accepts each of them.  It does
\* not: an item that overlaps the first is still free and ranks before them.
ParallelCandidateIsAccepted ==
  LET board == TheBoard
      action == NextAction(board)
      first == [item |-> action.item.number, branch |-> 0, id |-> 0, scope |-> ActionScope(action)]
      then == BuildBoard(InputsWith(Claims \cup {first}))
      placed == ToSet(ParallelSet(board, Claims, action).placed)
  IN  action # Nothing /\ action.does = "claim" =>
        \A a \in placed :
          a.does = "claim" => SliceRuleChecks(then, a.item.number, "open") = {}

\* "check's last-child rule and next's cut_slice/close_container split both
\* read a Next line the same way": when check demands that the last child's
\* landing close the container, next would have offered to close it.  It would
\* have offered to cut its next row.
LastChildRuleReadsTheSplit ==
  \A n \in OpenItems :
    item[n].parent \in OpenItems =>
      LET c == item[n].parent
          requirement == ParentRequirement(AsParent(c), Children(c), n)
      IN  ~requirement.refuses /\ requirement.requires # {} => item[c].body.slices = <<>>

\* "cut without --row accepts every container a CutSliceAction names here": it
\* refuses one that is itself a child.
EveryCutIsAccepted ==
  \A a \in ToSet(QualifyingActions(TheBoard)) :
    a.does = "cut" => CutAccepts(a.item.number, a.title)

=============================================================================
