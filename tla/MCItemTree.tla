----------------------------- MODULE MCItemTree -----------------------------
(***************************************************************************)
(* Three commands on a container of two rows: one cut tried three times,   *)
(* one after the other or at once, and cuts beside the other commands.     *)
(***************************************************************************)
EXTENDS ItemTree

CONSTANTS t1, t2, t3, s1, small, r1, r2, r3

MCAlike == {<<t, t>> : t \in Titles} \cup {<<t1, t3>>, <<t3, t1>>}

Row(i, title, scope) == [index |-> i, title |-> title, scope |-> scope]
Rows2 == <<Row(1, t1, NoScope), Row(2, t2, s1)>>

Plain == (1 :> Container(t2, Rows2))

\* What else a container can meet: another with the same row, a child of its
\* own, a look-alike, its own parent, a line written by hand, a malformed item.
MCTrees ==
  {Plain,
   (1 :> Container(t2, <<>>)),
   Plain @@ (2 :> Container(t2, <<Row(1, t1, NoScope)>>)),
   Plain @@ (2 :> [Task(t1) EXCEPT !.idea = TRUE]),
   Plain @@ (2 :> [Task(t3) EXCEPT !.state = "closed"]),
   Plain @@ (2 :> [Task(t3) EXCEPT !.state = "long closed"]),
   Plain @@ (2 :> [Task(t1) EXCEPT !.parent = 1, !.state = "closed"]),
   Plain @@ (2 :> [Task(t1) EXCEPT !.prose = 1]),
   Plain @@ (2 :> [Task(t3) EXCEPT !.valid = FALSE]),
   (1 :> [Container(t2, Rows2) EXCEPT !.parent = 2]) @@ (2 :> Container(t2, <<>>))}

Cut(row, title, scope, notATwin) ==
  [kind |-> "cut", on |-> 1, row |-> row, title |-> title, scope |-> scope,
   notATwin |-> notATwin]

CutFirst == Cut(0, t1, NoScope, FALSE)
CutElsewhere == [CutFirst EXCEPT !.on = 2]

New(parent) ==
  [kind |-> "new", on |-> parent, title |-> t1, scope |-> NoScope, size |-> small,
   notATwin |-> FALSE, type |-> "task"]

Size == [kind |-> "size", on |-> 1, size |-> small]
Edit == [kind |-> "edit", on |-> 2, rows |-> <<>>,
         record |-> [title |-> t3, parent |-> 1, state |-> "open"]]
Close == [kind |-> "close", on |-> 2]
Claim == [kind |-> "claim", on |-> 2]

InTurn == [r \in Runs |-> IF r = r1 THEN {} ELSE IF r = r2 THEN {r1} ELSE {r1, r2}]
AtOnce == [r \in Runs |-> {}]
ThenLast == [r \in Runs |-> IF r = r3 THEN {r1, r2} ELSE {}]

Lines(one, two, three) == (r1 :> one) @@ (r2 :> two) @@ (r3 :> three)

\* One command line, three times.
Tries == {CutFirst, Cut(1, t1, s1, FALSE), Cut(2, t2, NoScope, FALSE),
          Cut(2, t2, s1, FALSE), Cut(3, t2, NoScope, FALSE), Cut(0, t2, NoScope, TRUE),
          Cut(0, t1, NoScope, TRUE), New(1), New(NoItem)}

Plan(items, lines, order) ==
  {[storage |-> store, items |-> items, command |-> lines, after |-> order] :
     store \in {"github", "state-ref"}}

MCPlans ==
  UNION (
    {Plan(items, Lines(line, line, line), InTurn) : items \in MCTrees, line \in Tries}
    \cup {Plan(Plain, Lines(CutFirst, other, CutFirst), ThenLast) :
            other \in {CutFirst, Cut(2, t2, NoScope, FALSE), Size, New(1)}}
    \cup {Plan(items, Lines(CutFirst, other, CutFirst), ThenLast) :
            items \in {two \in MCTrees : 2 \in DOMAIN two},
            other \in {CutElsewhere, Edit, Close, Claim, New(2), [Size EXCEPT !.on = 2]}}
    \cup {Plan(items, Lines(Close, Claim, other), AtOnce) :
            items \in {two \in MCTrees : 2 \in DOMAIN two}, other \in {Edit, Claim}})
=============================================================================
