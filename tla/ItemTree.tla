------------------------------ MODULE ItemTree ------------------------------
(***************************************************************************)
(* Items and their containers, and the commands that write them: cut, item *)
(* new, item edit (whole, --size, --whole) and item close.  One of two     *)
(* stores holds the items:                                                 *)
(*                                                                         *)
(*   github     every read and write is a call of its own; a body is       *)
(*              replaced whatever it holds by now; a child is created      *)
(*              first and linked afterwards;                               *)
(*   state-ref  a command reads the whole store once and goes by that; a   *)
(*              write names the content it was composed over and is        *)
(*              refused when that has changed; a child carries its parent. *)
(*                                                                         *)
(* Any call may fail, take effect without an answer, or be the last before *)
(* the command is killed.                                                  *)
(***************************************************************************)
EXTENDS Naturals, FiniteSets, Sequences, SequencesExt, FiniteSetsExt

CONSTANTS
  Numbers,     \* item numbers
  Titles,      \* titles
  Alike,       \* pairs of titles that share enough words to be twins
  Scopes, Sizes,
  Runs,        \* invocations
  Plans,       \* what is tried: a store, the items in it, what each run is
               \* and which other runs it waits for
  NoItem, NoTitle, NoScope, NoSize,
  MaxFaults,   \* bound: kills, failed calls and lost answers
  MaxMoves     \* bound: what people do meanwhile

ASSUME TreeAssumption ==
  /\ Numbers \subseteq Nat \ {0} /\ NoItem \notin Numbers
  /\ Alike \subseteq Titles \X Titles
  /\ \A t \in Titles : <<t, t>> \in Alike
  /\ \A p \in Plans : /\ p.storage \in {"github", "state-ref"}
                      /\ DOMAIN p.command = Runs
                      /\ p.after \in [Runs -> SUBSET Runs]
  /\ MaxFaults \in Nat /\ MaxMoves \in Nat

VARIABLES
  storage,   \* which store the repository is pinned to
  item,      \* the items that exist
  claimed,   \* items with a live claim
  command, after,  \* what each run is, chosen once
  pc,
  seen,      \* the items each run read
  child,     \* the child each cut adopts or has created
  cutOff,    \* every row a cut removed, with its child (history)
  created,   \* every child a cut created, with its row's title (history)
  began,     \* the items to begin with (history)
  upset,     \* something that may make a second try refuse (history)
  met,       \* cuts of one container and title that ran at once (history)
  faults, moves

tree == <<item, claimed>>
run == <<pc, seen, child>>
fixed == <<storage, command, after, began>>
history == <<cutOff, created, upset, met>>
vars == <<tree, run, fixed, history, faults, moves>>

ItemRecord ==
  [kind : {"container", "task", "untyped"}, title : Titles,
   state : {"open", "closed", "long closed"},
   idea : BOOLEAN,                  \* carries the idea label
   parent : Numbers \cup {NoItem},  \* the relation, or record.parent
   prose : Numbers \cup {NoItem},   \* the "Parent:" line its body begins with
   rows : Seq([index : Nat, title : Titles, scope : Scopes \cup {NoScope}]),
   scope : Scopes \cup {NoScope}, size : Sizes \cup {NoSize},
   valid : BOOLEAN,                 \* its block parses
   writes : Nat]                    \* stands for its blob

Task(title) ==
  [kind |-> "task", title |-> title, state |-> "open", idea |-> FALSE,
   parent |-> NoItem, prose |-> NoItem, rows |-> <<>>, scope |-> NoScope,
   size |-> NoSize, valid |-> TRUE, writes |-> 0]

Container(title, rows) == [Task(title) EXCEPT !.kind = "container", !.rows = rows]

Open(items) == {n \in DOMAIN items : items[n].state = "open"}
WellFormed(items) == \A n \in DOMAIN items : items[n].valid

Ended == {"cut", "adopted", "created", "edited", "closed", "claimed",
          "refused", "partial", "stopped"}

At(r, kind, at) == command[r].kind = kind /\ pc[r] = at
Go(r, to) == pc' = [pc EXCEPT ![r] = to]
Refuse(r) == Go(r, "refused") /\ UNCHANGED child

\* What a read after the first returns: GitHub's items now, or the snapshot.
Later(r) == IF storage = "github" THEN item ELSE seen[r]

Put(n, record) == item' = [m \in DOMAIN item \cup {n} |-> IF m = n THEN record ELSE item[m]]

\* A call that is answered, that stops the run, or both stops it and takes effect.
Call(r, effect, unchanged, next, stopped) ==
  \/ effect /\ Go(r, next) /\ UNCHANGED faults
  \/ /\ faults < MaxFaults /\ faults' = faults + 1
     /\ effect \/ unchanged
     /\ Go(r, stopped)

----------------------------------------------------------------------------
(* The first read: every open issue, or the whole store.                   *)

Ready(r) == \A q \in after[r] : pc[q] \in Ended

SameCut(q, r) ==
  /\ command[q].kind = "cut" /\ command[r].kind = "cut"
  /\ command[q].on = command[r].on /\ command[q].title = command[r].title

RunningCuts(r) == {q \in Runs \ {r} : SameCut(q, r) /\ pc[q] \notin Ended \cup {"start"}}

Read(r) ==
  /\ command[r].kind # "claim"
  /\ pc[r] = IF command[r].kind = "close" THEN "read" ELSE "start"
  /\ Ready(r)
  /\ seen' = [seen EXCEPT ![r] = item]
  /\ Go(r, "check")
  /\ met' = (met \/ RunningCuts(r) # {})
  /\ UNCHANGED <<tree, child, fixed, cutOff, created, upset, faults, moves>>

----------------------------------------------------------------------------
(* aco cut, before any write.                                              *)

CutTarget(r) ==
  LET c == command[r].on IN
  /\ storage = "state-ref" => WellFormed(seen[r])
  /\ c \in Open(seen[r]) /\ seen[r][c].kind = "container"
  /\ Later(r)[c].parent = NoItem
  /\ seen[r][c].valid

Rows(r) == seen[r][command[r].on].rows
NoRow == [index |-> 0, title |-> NoTitle, scope |-> NoScope]

\* The row to cut: the one --row names, or the first; none without rows.
CutLink(r) ==
  IF command[r].row = 0
  THEN IF Rows(r) = <<>> THEN NoRow ELSE Rows(r)[1]
  ELSE LET named == {i \in DOMAIN Rows(r) : Rows(r)[i].index = command[r].row} IN
       IF named = {} THEN NoRow ELSE Rows(r)[CHOOSE i \in named : TRUE]

AdmitsRow(r) ==
  LET link == CutLink(r) IN
  /\ link = NoRow => command[r].row = 0
  /\ link # NoRow => command[r].title = link.title
  /\ link.scope = NoScope \/ command[r].scope = NoScope

CutRowScope(r) == IF CutLink(r).scope # NoScope THEN CutLink(r).scope ELSE command[r].scope

\* Mutant of LinkedAndTitled: children that were closed are not listed.
OpenAndTitled(r) ==
  {n \in DOMAIN Later(r) : /\ Later(r)[n].parent = command[r].on
                           /\ Later(r)[n].title = command[r].title
                           /\ Later(r)[n].state = "open"}

LinkedAndTitled(r) ==
  {n \in DOMAIN Later(r) : /\ Later(r)[n].parent = command[r].on
                           /\ Later(r)[n].title = command[r].title}

\* What a create without its link leaves behind, and nothing else should look like.
Orphans(r) ==
  {n \in Open(seen[r]) :
     /\ seen[r][n].title = command[r].title /\ n # command[r].on
     /\ seen[r][n].kind = "task" /\ ~seen[r][n].idea
     /\ seen[r][n].prose = command[r].on
     /\ Later(r)[n].parent = NoItem}

OpenLinked(r) == {n \in LinkedAndTitled(r) : Later(r)[n].state = "open"}

\* Mutant of AdoptableChildren: a child that is linked already is not looked for.
OrphansOnly(r) == Orphans(r)

AdoptableChildren(r) == OpenLinked(r) \cup Orphans(r)

AdoptChild(r) ==
  /\ At(r, "cut", "check")
  /\ CutTarget(r) /\ AdmitsRow(r)
  /\ Cardinality(AdoptableChildren(r)) = 1
  /\ \E n \in AdoptableChildren(r) :
       /\ child' = [child EXCEPT ![r] = n]
       /\ Go(r, IF n \in Orphans(r) /\ storage = "github" THEN "adopt" ELSE "row")
  /\ UNCHANGED <<tree, seen, fixed, history, faults, moves>>

NoChildToAdopt(r) == CutTarget(r) /\ AdmitsRow(r) /\ LinkedAndTitled(r) \cup Orphans(r) = {}

CheckCut(r) ==
  /\ At(r, "cut", "check")
  /\ IF NoChildToAdopt(r)
     THEN Go(r, IF command[r].notATwin THEN "create" ELSE "twin") /\ UNCHANGED child
     ELSE ~(/\ CutTarget(r) /\ AdmitsRow(r)
            /\ Cardinality(AdoptableChildren(r)) = 1) /\ Refuse(r)
  /\ UNCHANGED <<tree, seen, fixed, history, faults, moves>>

----------------------------------------------------------------------------
(* aco item new, before any write: a parent must be an open container on   *)
(* GitHub, and merely exist on the state ref.                              *)

AdmitsParent(r) ==
  LET p == command[r].on IN
  p = NoItem \/ IF storage = "github" THEN p \in Open(seen[r]) /\ seen[r][p].kind = "container"
                ELSE p \in DOMAIN seen[r] /\ seen[r][p].valid

CheckNew(r) ==
  /\ At(r, "new", "check")
  /\ IF AdmitsParent(r)
     THEN Go(r, IF command[r].notATwin THEN "create" ELSE "twin") /\ UNCHANGED child
     ELSE Refuse(r)
  /\ UNCHANGED <<tree, seen, fixed, history, faults, moves>>

----------------------------------------------------------------------------
(* The twin search, and the writes cut and item new share.                 *)

\* Open issues, and those closed lately; a malformed item counts as open.
TwinCandidates(r) ==
  Open(seen[r]) \cup {n \in DOMAIN seen[r] : storage = "state-ref" /\ ~seen[r][n].valid}
  \cup {n \in DOMAIN Later(r) : Later(r)[n].state = "closed"}

PossibleTwin(r) ==
  \E n \in TwinCandidates(r) \ {command[r].on} :
    <<command[r].title, Later(r)[n].title>> \in Alike

SearchTwin(r) ==
  /\ pc[r] = "twin"
  /\ IF PossibleTwin(r) THEN Refuse(r) ELSE Go(r, "create") /\ UNCHANGED child
  /\ UNCHANGED <<tree, seen, fixed, history, faults, moves>>

NewItem(r, parent) ==
  IF command[r].kind = "cut"
  THEN [Task(command[r].title) EXCEPT !.prose = command[r].on, !.scope = CutRowScope(r),
                                      !.parent = parent]
  ELSE [Task(command[r].title) EXCEPT !.kind = command[r].type, !.scope = command[r].scope,
                                      !.size = command[r].size, !.parent = parent]

NextNumber == Min(Numbers \ DOMAIN item)

Appear(r, record) ==
  /\ Put(NextNumber, record)
  /\ child' = [child EXCEPT ![r] = NextNumber]
  /\ created' = IF command[r].kind = "cut"
                THEN created \cup {[by |-> r, child |-> NextNumber, on |-> command[r].on,
                                    title |-> command[r].title, typed |-> record.kind = "task"]}
                ELSE created

AfterCreate(r) ==
  IF storage = "github" /\ command[r].on # NoItem THEN "link"
  ELSE IF command[r].kind = "cut" THEN "row" ELSE "created"

CreateIssue(r) ==
  /\ pc[r] = "create" /\ Numbers \ DOMAIN item # {}
  /\ Call(r, Appear(r, NewItem(r, IF storage = "github" THEN NoItem ELSE command[r].on)),
          UNCHANGED <<item, child, created>>, AfterCreate(r), "stopped")
  /\ UNCHANGED <<claimed, seen, fixed, cutOff, upset, met, moves>>

\* GitHub drops the type of an issue whose author may not set it.
CreateUntyped(r) ==
  /\ pc[r] = "create" /\ storage = "github" /\ Numbers \ DOMAIN item # {}
  /\ faults < MaxFaults /\ faults' = faults + 1
  /\ Appear(r, [NewItem(r, NoItem) EXCEPT !.kind = "untyped"])
  /\ Go(r, "partial")
  /\ upset' = TRUE
  /\ UNCHANGED <<claimed, seen, fixed, cutOff, met, moves>>

\* GitHub refuses a second parent.
Linked(r) ==
  /\ item[child[r]].parent = NoItem
  /\ Put(child[r], [item[child[r]] EXCEPT !.parent = command[r].on])

LinkChild(r) ==
  /\ pc[r] \in {"link", "adopt"}
  /\ IF item[child[r]].parent # NoItem
     THEN Go(r, IF pc[r] = "link" THEN "partial" ELSE "refused") /\ UNCHANGED <<item, faults>>
     ELSE Call(r, Linked(r), UNCHANGED item,
               IF command[r].kind = "cut" THEN "row" ELSE "created",
               IF pc[r] = "link" THEN "partial" ELSE "stopped")
  /\ UNCHANGED <<claimed, seen, child, fixed, history, moves>>

----------------------------------------------------------------------------
(* A body written back.  GitHub takes it whole; the state ref compares.    *)

Unwritten(r, n) == storage = "state-ref" => item[n].writes = seen[r][n].writes

WriteBack(r, n, record, next, stopped) ==
  IF Unwritten(r, n)
  THEN Call(r, Put(n, [record EXCEPT !.writes = IF storage = "github" THEN 0 ELSE @ + 1]),
            UNCHANGED item, next, stopped)
  ELSE Go(r, IF pc[r] = "row" THEN "partial" ELSE "refused") /\ UNCHANGED <<item, faults>>

\* Mutant of RowsLeft: the first row goes, whichever was cut.
AllButFirst(r) == Tail(Rows(r))

RowsLeft(r) == SelectSeq(Rows(r), LAMBDA row : row.index # CutLink(r).index)

CutOutcome(r) == IF \E made \in created : made.by = r THEN "cut" ELSE "adopted"

\* The container's body as it was read, without the row.  What it says beside
\* its rows is written back too; what the record says of the item is kept.
RemoveRow(r) ==
  /\ At(r, "cut", "row")
  /\ LET c == command[r].on IN
     IF CutLink(r) = NoRow
     THEN Go(r, CutOutcome(r)) /\ UNCHANGED <<item, cutOff, upset, faults>>
     ELSE /\ WriteBack(r, c, [item[c] EXCEPT !.rows = RowsLeft(r), !.size = seen[r][c].size],
                       CutOutcome(r), "partial")
          /\ cutOff' = IF item' = item THEN cutOff
                       ELSE cutOff \cup {[child |-> child[r], on |-> c]}
          /\ upset' = (upset \/ (item' # item /\ pc'[r] = "partial"))
  /\ UNCHANGED <<claimed, seen, child, fixed, created, met, moves>>

\* item edit --size and --whole: one key of the body that was read.
WriteSize(r) ==
  LET n == command[r].on IN
  \/ /\ At(r, "size", "check")
     /\ IF n \in DOMAIN seen[r] /\ seen[r][n].valid
        THEN Go(r, "write") /\ UNCHANGED child ELSE Refuse(r)
     /\ UNCHANGED <<tree, seen, fixed, history, faults, moves>>
  \/ /\ At(r, "size", "write")
     /\ WriteBack(r, n, [item[n] EXCEPT !.rows = Rows(r), !.size = command[r].size],
                  "edited", "stopped")
     /\ UNCHANGED <<claimed, seen, child, fixed, history, moves>>

\* The record a piped body may carry: it alone can mend a malformed item.
Mends(r, record) ==
  /\ record # NoItem
  /\ record.state = "open"
  /\ record.parent # NoItem =>
       record.parent \in DOMAIN seen[r] /\ seen[r][record.parent].valid

AdmitsEdit(r) ==
  LET n == command[r].on IN
  /\ storage = "state-ref"
  /\ n \in DOMAIN seen[r]
  /\ seen[r][n].valid \/ Mends(r, command[r].record)

\* Title from the piped record, if there is one; parent and state stay stored.
Merged(r) ==
  LET stored == item[command[r].on]
      piped  == command[r].record
      body   == [stored EXCEPT !.rows = command[r].rows, !.size = NoSize, !.prose = NoItem]
  IN IF piped = NoItem THEN body
     ELSE IF stored.valid THEN [body EXCEPT !.title = piped.title]
     ELSE [body EXCEPT !.valid = TRUE, !.title = piped.title, !.state = piped.state,
                       !.parent = piped.parent]

EditBody(r) ==
  \/ /\ At(r, "edit", "check")
     /\ IF AdmitsEdit(r) THEN Go(r, "write") /\ UNCHANGED child ELSE Refuse(r)
     /\ UNCHANGED <<tree, seen, fixed, history, faults, moves>>
  \/ /\ At(r, "edit", "write")
     /\ WriteBack(r, command[r].on, Merged(r), "edited", "stopped")
     /\ UNCHANGED <<claimed, seen, child, fixed, history, moves>>

----------------------------------------------------------------------------
(* aco item close: the claims first, then the items.                       *)

CheckClaims(r) ==
  /\ At(r, "close", "start") /\ Ready(r)
  /\ IF storage = "state-ref" /\ command[r].on \notin claimed
     THEN Go(r, "read") /\ UNCHANGED child ELSE Refuse(r)
  /\ UNCHANGED <<tree, seen, fixed, history, faults, moves>>

CloseItem(r) ==
  LET n == command[r].on IN
  \/ /\ At(r, "close", "check")
     /\ IF n \in Open(seen[r]) /\ WellFormed(seen[r])
        THEN Go(r, "write") /\ UNCHANGED child ELSE Refuse(r)
     /\ UNCHANGED <<tree, seen, fixed, history, faults, moves>>
  \/ /\ At(r, "close", "write")
     /\ WriteBack(r, n, [item[n] EXCEPT !.state = "closed"], "closed", "stopped")
     /\ UNCHANGED <<claimed, seen, child, fixed, history, moves>>

----------------------------------------------------------------------------
(* What comes in between.                                                  *)

Stop(r) ==
  /\ pc[r] \notin Ended \cup {"start"} /\ faults < MaxFaults
  /\ faults' = faults + 1
  /\ Go(r, "stopped")
  /\ UNCHANGED <<tree, seen, child, fixed, history, moves>>

Touched(n) == [item[n] EXCEPT !.writes = IF storage = "github" THEN 0 ELSE @ + 1]

\* A claim looks at the item, and lands in the ledger afterwards.
LookToClaim(r) ==
  /\ At(r, "claim", "start") /\ Ready(r)
  /\ IF command[r].on \in Open(item) THEN Go(r, "write") /\ UNCHANGED child ELSE Refuse(r)
  /\ UNCHANGED <<tree, seen, fixed, history, faults, moves>>

ClaimIt(r) ==
  /\ At(r, "claim", "write")
  /\ IF command[r].on \in claimed THEN Refuse(r) /\ UNCHANGED claimed
     ELSE claimed' = claimed \cup {command[r].on} /\ Go(r, "claimed") /\ UNCHANGED child
  /\ UNCHANGED <<item, seen, fixed, history, faults, moves>>

\* A task ends: its pull request was merged, or its claim released as merged.
Land(n) ==
  /\ moves < MaxMoves /\ moves' = moves + 1
  /\ n \in Open(item) /\ item[n].kind = "task" /\ item[n].valid
  /\ Put(n, [Touched(n) EXCEPT !.state = "closed"])
  /\ upset' = TRUE
  /\ UNCHANGED <<claimed, run, fixed, cutOff, created, met, faults>>

\* Somebody sets the type GitHub dropped.
SetType(n) ==
  /\ moves < MaxMoves /\ moves' = moves + 1
  /\ n \in Open(item) /\ item[n].kind = "untyped"
  /\ Put(n, [item[n] EXCEPT !.kind = "task"])
  /\ UNCHANGED <<claimed, run, fixed, history, faults>>

----------------------------------------------------------------------------
CommandStep(r) ==
  \/ Read(r)
  \/ AdoptChild(r) \/ CheckCut(r) \/ CheckNew(r) \/ SearchTwin(r)
  \/ CreateIssue(r) \/ CreateUntyped(r) \/ LinkChild(r) \/ RemoveRow(r)
  \/ WriteSize(r) \/ EditBody(r) \/ CheckClaims(r) \/ CloseItem(r)
  \/ LookToClaim(r) \/ ClaimIt(r)

Next ==
  \/ \E r \in Runs : CommandStep(r) \/ Stop(r)
  \/ \E n \in DOMAIN item : Land(n) \/ SetType(n)

Init ==
  \E p \in Plans :
    /\ storage = p.storage /\ item = p.items /\ began = p.items
    /\ command = p.command /\ after = p.after
    /\ claimed = {}
    /\ pc = [r \in Runs |-> "start"]
    /\ seen = [r \in Runs |-> <<>>]
    /\ child = [r \in Runs |-> NoItem]
    /\ cutOff = {} /\ created = {}
    /\ upset = FALSE /\ met = FALSE /\ faults = 0 /\ moves = 0

Spec == Init /\ [][Next]_vars

----------------------------------------------------------------------------
(* What the commands promise.                                              *)

\* On the state ref an item nobody cut, without parent, can still begin with
\* the line a cut writes: adopting it links nothing.
WrittenByHand(c) ==
  storage = "state-ref"
  /\ \E n \in DOMAIN began : began[n].parent = NoItem /\ began[n].prose = c

\* A row leaves its container only for a child that is linked to it, and cuts
\* of one row that do not run at once leave one linked child, whatever failed
\* and however often they were tried.  Children GitHub made without their type
\* are not counted: no cut adopts one before somebody sets its type, and by
\* then another cut may have made and linked a child of its own, which a third
\* overlooks once it is closed.
RowsBecomeChildren ==
  /\ \A cut \in cutOff : item[cut.child].parent = cut.on \/ WrittenByHand(cut.on)
  /\ ~met => \A one, two \in created :
       (/\ one.on = two.on /\ one.title = two.title /\ one.typed /\ two.typed
        /\ item[one.child].parent = one.on
        /\ item[two.child].parent = two.on) => one = two

\* The first tree asks for nothing but this cut.
Fits(r) ==
  LET c == command[r].on IN
  /\ command[r].kind = "cut"
  /\ c \in Open(began) /\ began[c].kind = "container" /\ began[c].parent = NoItem
  /\ WellFormed(began)
  /\ \E i \in DOMAIN began[c].rows :
       LET row == began[c].rows[i] IN
       /\ row.title = command[r].title /\ command[r].row \in {row.index} \cup (IF i = 1 THEN {0} ELSE {})
       /\ row.scope = NoScope \/ command[r].scope = NoScope
  /\ \A n \in DOMAIN began \ {c} : <<command[r].title, began[n].title>> \notin Alike

\* Run again on its own after tries that failed, a cut that fits is not
\* refused: it adopts what they left, or starts over.
RerunFinishes ==
  \A r \in Runs :
    (/\ Fits(r) /\ after[r] = Runs \ {r}
     /\ ~upset /\ ~met
     /\ \A q \in Runs : \/ command[q] = command[r] /\ pc[q] \notin {"cut", "adopted"}
                        \/ q = r \/ command[q].kind = "size")
    => pc[r] # "refused" /\ (pc[r] = "partial" => faults > 0)

CutOnly(r) ==
  LET c == command[r].on IN
  /\ \A n \in DOMAIN item \ {c} : item'[n] = item[n]
  /\ item'[c].title = item[c].title /\ item'[c].size = item[c].size
  /\ item'[c].rows = SelectSeq(item[c].rows, LAMBDA row : row.index # CutLink(r).index)

\* A cut's write to its container takes out its own row and leaves the other
\* rows, and everything the item holds by then, as they are.
CutTouchesItsRowOnly ==
  [][\A r \in Runs :
       (storage = "state-ref" /\ At(r, "cut", "row") /\ pc'[r] # "row" /\ item' # item)
       => CutOnly(r)]_vars

----------------------------------------------------------------------------
(* What the documents say and the program does not do: each fails in TLC.  *)

\* The printed recovery, "re-run the same cut -- it adopts the child".  It
\* fails when the row's removal took effect and its answer was lost.
PartialCutCanBeRerun ==
  \A q, r \in Runs :
    (/\ command[q] = command[r] /\ pc[q] = "partial" /\ after[r] = Runs \ {r}
     /\ ~met /\ moves = 0 /\ \A m \in created : item[m.child].kind = "task")
    => pc[r] # "refused"

\* A row never gets a second child.  It fails for two cuts at once.
NoSecondChild ==
  \A one, two \in created :
    (/\ one.on = two.on /\ one.title = two.title
     /\ item[one.child].parent = one.on
     /\ item[two.child].parent = two.on) => one = two

\* A cut never touches another row.  It fails on GitHub for two cuts at once.
OtherRowsStand ==
  [][\A r \in Runs :
       (At(r, "cut", "row") /\ pc'[r] # "row" /\ item' # item) => CutOnly(r)]_vars

\* No command leaves a closed item with a live claim.  It fails when the claim
\* lands between the two reads and the write of item close.
NoClosedItemClaimed ==
  \A r \in Runs : pc[r] = "closed" => command[r].on \notin claimed

\* A retry on the state ref reads the recorded parent alone.  It fails for an
\* item somebody wrote the line into: its row is gone and nothing is linked.
AdoptedChildIsLinked == \A cut \in cutOff : item[cut.child].parent = cut.on
=============================================================================
