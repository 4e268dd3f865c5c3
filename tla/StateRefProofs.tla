--------------------------- MODULE StateRefProofs ---------------------------
(***************************************************************************)
(* Proofs about the state ref, for any number of commands in any scenario   *)
(* and whatever the bounds, in three parts.                                 *)
(*                                                                          *)
(*   1. The fetch, commit and push loop: lemmas about commits as sequences, *)
(*      the inductive invariant of StateRefStore, and what it says of the   *)
(*      history, of verdicts, of lineage stamps and of the tally.           *)
(*   2. The refinement: the loop implements the atomic ledger, and so what  *)
(*      the ledger promises holds of the state on the ref; no item write is *)
(*      lost, and every claim's opened commit is the tip before its own.    *)
(*   3. Bootstrap and reset beside any number of other commands.  The ref   *)
(*      may be deleted and created again, so that little of what part 1     *)
(*      says of ancestry holds: what is left is that a commit names its     *)
(*      whole history and that a push names the tip it was leased on.       *)
(***************************************************************************)
EXTENDS StateRefReset, ClaimLedgerProofs, FiniteSetTheorems, SequenceTheorems, TLAPS

-----------------------------------------------------------------------------
(* Part 1: the push loop.                                                *)

----------------------------------------------------------------------------
(* The inductive invariant.                                                *)

Ended(p) == pc[p] \in Terminal
Submitted(p) == tally[p].attempt # 0

\* Where a process is in its course, whatever it fetches for: building its
\* intent, handing it over, or in the attempts of the push loop.
Fetching(p) == pc[p] \in {"read", "lineage", "stamp"}
Building(p) ==
  pc[p] \in {"items", "observe"} \/ (Fetching(p) /\ purpose[p] \in {"items", "observe"})
Handing(p) == pc[p] = "transition" \/ (Fetching(p) /\ purpose[p] = "transition")
Searching(p) == pc[p] = "search" \/ (pc[p] \in {"lineage", "stamp"} /\ purpose[p] = "search")
Looping(p) ==
  pc[p] \in {"apply", "sent", "landed", "search"} \/ (Fetching(p) /\ purpose[p] = "search")

\* An intent is fixed before the first attempt and stays; every attempt but the
\* one under way has been counted.
CourseInv ==
  \A p \in Processes :
    /\ Building(p) => ~Submitted(p) /\ intent[p].kind = "none"
    /\ Handing(p) => ~Submitted(p) /\ intent[p].kind # "none"
    /\ Looping(p) => Submitted(p)
    /\ Submitted(p) => intent[p].kind # "none"
    /\ tally[p].moves + tally[p].stationary <= FailedAttempts(p)

\* Whatever anyone read, stamped or advertised is an ancestor of the ref.
AncestryInv ==
  /\ remote # NoRef
  /\ \A w \in Worktrees : IsPrefix(stamp[w], remote)
  /\ \A p \in Processes :
       /\ IsPrefix(fetched[p], remote)
       /\ IsPrefix(observed[p], remote)
       /\ Looping(p) => observed[p] # NoRef
       /\ Searching(p) => IsPrefix(observed[p], fetched[p])

\* Each commit of the ref is an operation's intent applied to its parent, which
\* admits it; a process still at work then is based on that very parent.
HistoryInv ==
  /\ remote[1] = [op |-> Root, state |-> BootstrapState(1)]
  /\ \A i \in 2 .. Len(remote) :
       /\ remote[i].op \in Processes
       /\ Submitted(remote[i].op)
       /\ Admits(remote[i - 1].state, intent[remote[i].op])
       /\ remote[i].state = CommittedState(remote[i - 1].state, intent[remote[i].op])
       /\ ~Ended(remote[i].op) => Len(observed[remote[i].op]) = i - 1
  /\ AppliedAtMostOnce

\* A push on its way is such a commit too, onto an ancestor of the ref that does
\* not have its operation; its lease is that ancestor, or the commit itself when
\* an earlier attempt has put it there.
PushOK(push) ==
  LET p == push.op
      base == Front(push.new)
  IN  /\ push.new = CommitOnto(p, base)
      /\ base \in Commit /\ base # NoRef /\ IsPrefix(base, remote)
      /\ Admits(StateAt(base), intent[p])
      /\ p \notin OperationsOn(base)
      /\ push.old \in {base, push.new} /\ IsPrefix(push.old, remote)
      /\ Submitted(p)
      /\ push.attempt <= tally[p].attempt
      /\ pc[p] = "apply" => push.attempt < tally[p].attempt
      /\ ~Ended(p) => Len(base) <= Len(observed[p])
      /\ Awaited(push) => push.new = pending[p]

WireInv == \A push \in wire : PushOK(push)

\* What a process waits for is its intent on the state it observed.
PendingInv ==
  \A p \in Processes :
    /\ pc[p] \in {"sent", "landed"} => pending[p] = CommitOnto(p, observed[p])
    /\ pc[p] = "landed" => IsPrefix(pending[p], remote)

IInv ==
  /\ TypeOK
  /\ CourseInv
  /\ AncestryInv
  /\ HistoryInv
  /\ WireInv
  /\ PendingInv
  /\ VerdictsAreFinal

\* All stationary failures, those before the last move of the tip included.
Stationary(p) == FailedAttempts(p) - tally[p].moves

ForeignOn(commit, p) == Cardinality(OperationsOn(commit) \ {Root, p})

\* A failure that is not counted yet has its cause already: a fault, or a tip
\* that is not the one the attempt was based on.
TallyInv ==
  \A p \in Processes :
    /\ Stationary(p) <= faults
    /\ tally[p].moves <= ForeignOn(remote, p)
    /\ Looping(p) => tally[p].moves <= ForeignOn(observed[p], p)
    /\ Searching(p) => Stationary(p) < faults \/ fetched[p] # observed[p]
    /\ pc[p] = "read" /\ purpose[p] = "search" => Stationary(p) < faults \/ remote # observed[p]

\* Two processes of a scenario share a worktree only one after the other.
SeparateWorktrees ==
  \A name \in DOMAIN Scenarios : \A p, q \in Processes :
    p # q /\ Scenarios[name].worktree[p] = Scenarios[name].worktree[q] =>
      p \in Scenarios[name].after[q] \/ q \in Scenarios[name].after[p]

\* Past its first read a process has outlasted those it waits for, and between
\* its read and its check nobody stamps its worktree.
LineageInv ==
  \A p \in Processes :
    /\ pc[p] # "read" /\ ~Ended(p) => \A q \in After[p] : Ended(q)
    /\ pc[p] = "lineage" => IsPrefix(stamp[WorktreeOf[p]], fetched[p])
    /\ pc[p] # "lineage_error"

----------------------------------------------------------------------------
(* Commits as sequences: an ancestor is a prefix.                          *)

\* A prefix, element by element.
LEMMA PrefixDef ==
  ASSUME NEW S, NEW s \in Seq(S), NEW t \in Seq(S)
  PROVE  IsPrefix(s, t) <=> Len(s) <= Len(t) /\ \A i \in 1 .. Len(s) : s[i] = t[i]
BY DEF IsPrefix

\* Ancestry is an order, with the absence of the ref below everything.
LEMMA PrefixOrder ==
  ASSUME NEW S, NEW s \in Seq(S), NEW t \in Seq(S), NEW u \in Seq(S)
  PROVE  /\ IsPrefix(<<>>, s)
         /\ IsPrefix(s, s)
         /\ IsPrefix(s, t) /\ IsPrefix(t, u) => IsPrefix(s, u)
         /\ IsPrefix(s, t) /\ IsPrefix(t, s) => s = t
<1>1. IsPrefix(<<>>, s)
  <2>1. \A z \in Seq(S) : Len(z) = 0 => IsPrefix(z, s)
    <3> SUFFICES ASSUME NEW z \in Seq(S), Len(z) = 0 PROVE IsPrefix(z, s)
      OBVIOUS
    <3>1. Len(s) \in Nat
      BY LenProperties
    <3>2. Len(z) <= Len(s) /\ \A i \in 1 .. Len(z) : z[i] = s[i]
      BY <3>1
    <3> QED
      BY <3>2, PrefixDef
  <2> QED
    BY <2>1, EmptySeq
<1>2. IsPrefix(s, s)
  BY PrefixDef
<1>3. IsPrefix(s, t) /\ IsPrefix(t, u) => IsPrefix(s, u)
  BY PrefixDef
<1>4. IsPrefix(s, t) /\ IsPrefix(t, s) => s = t
  BY PrefixDef, SeqEqual
<1> QED
  BY <1>1, <1>2, <1>3, <1>4

\* Two ancestors of one commit lie on one line.
LEMMA PrefixLine ==
  ASSUME NEW S, NEW s \in Seq(S), NEW t \in Seq(S), NEW u \in Seq(S),
         IsPrefix(s, u), IsPrefix(t, u)
  PROVE  /\ Len(s) <= Len(t) => IsPrefix(s, t)
         /\ Len(s) = Len(t) => s = t
<1>1. Len(s) <= Len(t) => IsPrefix(s, t)
  BY PrefixDef
<1>2. Len(s) = Len(t) => s = t
  BY PrefixDef, SeqEqual
<1> QED
  BY <1>1, <1>2

\* What is one commit longer: its parent, its last entry, its ancestors.
LEMMA OneMore ==
  ASSUME NEW S, NEW t \in Seq(S), NEW e \in S
  PROVE  /\ Append(t, e) \in Seq(S) /\ Append(t, e) # <<>>
         /\ Len(Append(t, e)) = Len(t) + 1
         /\ Last(Append(t, e)) = e
         /\ Front(Append(t, e)) = t
         /\ IsPrefix(t, Append(t, e))
         /\ \A s \in Seq(S) :
              IsPrefix(s, Append(t, e)) <=> IsPrefix(s, t) \/ s = Append(t, e)
<1> DEFINE a == Append(t, e)
<1>1. /\ a \in Seq(S) /\ a # <<>> /\ Len(a) = Len(t) + 1
      /\ \A i \in 1 .. Len(t) : a[i] = t[i]
      /\ a[Len(t) + 1] = e
  BY AppendProperties
<1> HIDE DEF a
<1>2. Last(a) = e
  BY <1>1 DEF Last
<1>3. Front(a) = t
  <2>1. Len(Front(a)) = Len(t) /\ Front(a) \in Seq(S)
    BY <1>1 DEF Front
  <2>2. \A i \in 1 .. Len(t) : Front(a)[i] = t[i]
    BY <1>1 DEF Front
  <2> QED
    BY <2>1, <2>2, SeqEqual
<1>4. IsPrefix(t, a)
  BY <1>1, PrefixDef
<1>5. ASSUME NEW s \in Seq(S), IsPrefix(s, a) PROVE IsPrefix(s, t) \/ s = a
  <2>1. Len(s) <= Len(a) /\ \A i \in 1 .. Len(s) : s[i] = a[i]
    BY <1>1, <1>5, PrefixDef
  <2>2. CASE Len(s) = Len(a)
    BY <1>1, <2>1, <2>2, SeqEqual
  <2>3. CASE Len(s) # Len(a)
    BY <1>1, <2>1, <2>3, PrefixDef
  <2> QED
    BY <2>2, <2>3
<1>6. ASSUME NEW s \in Seq(S), IsPrefix(s, t) \/ s = a PROVE IsPrefix(s, a)
  BY <1>1, <1>4, <1>6, PrefixOrder
<1> QED
  BY <1>1, <1>2, <1>3, <1>4, <1>5, <1>6 DEF a

\* A commit is a sequence of entries; the state it holds is one, at its height.
LEMMA CommitFacts ==
  ASSUME NEW c \in Commit
  PROVE  /\ c \in Seq(Entry) /\ Len(c) \in Nat /\ DOMAIN c = 1 .. Len(c)
         /\ c = NoRef <=> Len(c) = 0
         /\ \A i \in 1 .. Len(c) : /\ c[i] \in Entry
                                   /\ c[i].state \in ClaimState
                                   /\ c[i].state.tip = i
                                   /\ IsFiniteSet(c[i].state.occupied)
<1>1. c \in Seq(Entry) /\ Len(c) \in Nat /\ DOMAIN c = 1 .. Len(c)
  BY LenProperties DEF Commit
<1>2. c = NoRef <=> Len(c) = 0
  BY <1>1, EmptySeq DEF NoRef
<1>3. \A i \in 1 .. Len(c) : c[i] \in Entry
  BY <1>1, ElementOfSeq
<1>4. \A i \in 1 .. Len(c) : c[i].state.tip = i /\ IsFiniteSet(c[i].state.occupied)
  BY <1>1 DEF Commit
<1> QED
  BY <1>1, <1>2, <1>3, <1>4 DEF Entry

\* The state of a commit is that of its last entry.
LEMMA StateAtFacts ==
  ASSUME NEW c \in Commit
  PROVE  /\ StateAt(c) \in ClaimState
         /\ IsFiniteSet(StateAt(c).occupied)
         /\ StateAt(c).tip = Len(c)
         /\ c # NoRef => StateAt(c) = c[Len(c)].state
<1>1. CASE c = NoRef
  <2>1. StateAt(c) = EMPTY_STATE /\ Len(c) = 0
    BY <1>1, CommitFacts DEF StateAt
  <2> QED
    BY <1>1, <2>1, FS_EmptySet DEF EMPTY_STATE, ClaimState
<1>2. CASE c # NoRef
  <2>1. StateAt(c) = c[Len(c)].state /\ Len(c) \in 1 .. Len(c)
    BY <1>2, CommitFacts DEF StateAt, Last
  <2> QED
    BY <1>2, <2>1, CommitFacts
<1> QED
  BY <1>1, <1>2

\* A commit of an intent onto another is one, one entry longer.
LEMMA NewCommit ==
  ASSUME NEW c \in Commit, NEW op \in Processes, NEW i \in AnyIntent, NEW e,
         e = [op |-> op, state |-> CommittedState(StateAt(c), i)]
  PROVE  e \in Entry /\ Append(c, e) \in Commit
<1>1. /\ CommittedState(StateAt(c), i) \in ClaimState
      /\ CommittedState(StateAt(c), i).tip = Len(c) + 1
      /\ IsFiniteSet(CommittedState(StateAt(c), i).occupied)
  BY StateAtFacts, CommittedType
<1>2. e \in Entry
  BY <1>1 DEF Entry
<1>3. /\ Append(c, e) \in Seq(Entry)
      /\ Len(Append(c, e)) = Len(c) + 1
      /\ \A j \in 1 .. Len(c) : Append(c, e)[j] = c[j]
      /\ Append(c, e)[Len(c) + 1] = e
  BY <1>2, CommitFacts, AppendProperties
<1>4. \A j \in 1 .. Len(c) + 1 :
        Append(c, e)[j].state.tip = j /\ IsFiniteSet(Append(c, e)[j].state.occupied)
  BY <1>1, <1>3, CommitFacts
<1>5. DOMAIN Append(c, e) = 1 .. Len(c) + 1
  BY <1>3, CommitFacts, LenProperties
<1> QED
  BY <1>2, <1>3, <1>4, <1>5 DEF Commit

\* The operations on a commit are those on its parent and its own.
LEMMA OperationsOnMore ==
  ASSUME NEW c \in Seq(Entry), NEW e \in Entry
  PROVE  OperationsOn(Append(c, e)) = OperationsOn(c) \cup {e.op}
<1> DEFINE a == Append(c, e)
<1>1. /\ DOMAIN a = 1 .. Len(c) + 1 /\ DOMAIN c = 1 .. Len(c) /\ Len(c) \in Nat
      /\ \A i \in 1 .. Len(c) : a[i] = c[i]
      /\ a[Len(c) + 1] = e
  BY AppendProperties, LenProperties
<1> HIDE DEF a
<1> QED
  BY <1>1 DEF a, OperationsOn

\* A commit has every operation its ancestors have.
LEMMA OperationsOnAncestor ==
  ASSUME NEW c \in Seq(Entry), NEW d \in Seq(Entry), IsPrefix(c, d)
  PROVE  OperationsOn(c) \subseteq OperationsOn(d)
<1>1. /\ DOMAIN c = 1 .. Len(c) /\ DOMAIN d = 1 .. Len(d)
      /\ Len(c) \in Nat /\ Len(d) \in Nat /\ Len(c) <= Len(d)
      /\ \A i \in 1 .. Len(c) : c[i] = d[i]
  BY PrefixDef, LenProperties
<1> QED
  BY <1>1 DEF OperationsOn

\* Searching the commits since the one it had observed, a process overlooks no
\* operation, whichever way the ref went meanwhile.
LEMMA SearchOverlooksNothing ==
  ASSUME NEW c \in Seq(Entry), NEW d \in Seq(Entry)
  PROVE  OperationsOn(d) \subseteq OperationsOn(c) \cup OperationsSince(c, d)
<1>1. /\ DOMAIN c = 1 .. Len(c) /\ DOMAIN d = 1 .. Len(d)
      /\ Len(c) \in Nat /\ Len(d) \in Nat
  BY LenProperties
<1>2. ASSUME NEW i \in DOMAIN d, IsPrefix(SubSeq(d, 1, i), c)
      PROVE  d[i].op \in OperationsOn(c)
  <2> DEFINE b == SubSeq(d, 1, i)
  <2>1. b \in Seq(Entry) /\ Len(b) = i /\ b[i] = d[i] /\ IsPrefix(b, c)
    BY <1>1, <1>2
  <2> HIDE DEF b
  <2>2. i <= Len(c) /\ c[i] = b[i]
    BY <2>1, <1>1, PrefixDef
  <2> QED
    BY <1>1, <2>1, <2>2 DEF OperationsOn
<1> QED
  BY <1>2 DEF OperationsOn, OperationsSince

\* Between a commit and a descendant of it the search misses no operation
\* (_find_operation_id).
LEMMA OperationsSinceIsComplete ==
  ASSUME NEW c \in Seq(Entry), NEW d \in Seq(Entry), IsPrefix(c, d)
  PROVE  OperationsOn(d) = OperationsOn(c) \cup OperationsSince(c, d)
<1>1. OperationsSince(c, d) \subseteq OperationsOn(d)
  BY DEF OperationsSince, OperationsOn
<1> QED
  BY <1>1, SearchOverlooksNothing, OperationsOnAncestor

----------------------------------------------------------------------------
(* Types.                                                                  *)

\* The command of a process in the scenario that is played.
LEMMA CommandType ==
  ASSUME TypeOK, NEW p \in Processes
  PROVE  /\ CommandOf[p] \in Command
         /\ After[p] \subseteq Processes
         /\ WorktreeOf[p] \in Worktrees
BY StoreAssumption DEF TypeOK, CommandOf, After, WorktreeOf

\* The fields of a command line, kind by kind.
LEMMA CommandKinds ==
  ASSUME NEW c \in Command
  PROVE  /\ c.kind = "claim" => c \in ClaimIntent
         /\ c.kind = "rescope" => c.key \in Keys /\ c.who \in Claimants
                                  /\ c.add \in SUBSET Paths /\ c.drop \in SUBSET Paths
         /\ c.kind = "release" => c.key \in Keys /\ c.who \in Claimants /\ c.override \in BOOLEAN
         /\ c.kind = "write" => c.item \in ItemIds /\ c.blob \in Blobs /\ c.whole \in BOOLEAN
         /\ c.kind = "land" => /\ c.key \in Keys /\ c.who \in Claimants /\ c.override \in BOOLEAN
                               /\ c.item \in ItemIds /\ c.blob \in Blobs /\ c.whole = FALSE
BY DEF Command, ClaimIntent

\* A lookup by key gives a live claim or none.
LEMMA ClaimAtType ==
  ASSUME NEW s \in ClaimState, NEW key
  PROVE  /\ ClaimAt(s, key) \in ActiveClaim \cup {NoClaim}
         /\ ClaimAt(s, key) # NoClaim => ClaimAt(s, key) \in s.claims
BY DEF ClaimAt, ClaimState

\* The absence of the ref is a commit of the model.
LEMMA NoRefType == NoRef \in Commit
<1>1. <<>> \in Seq(Entry) /\ DOMAIN <<>> = {}
  OBVIOUS
<1> QED
  BY <1>1 DEF NoRef, Commit

\* A fetch only moves commits about.
LEMMA FetchStepType ==
  ASSUME TypeOK, UNCHANGED scenario, NEW p \in Processes, FetchStep(p)
  PROVE  TypeOK'
<1>1. CASE ReadTip(p)
  BY <1>1 DEF TypeOK, ReadTip, Goto, Labels
<1>2. CASE CheckLineage(p)
  BY <1>2, NoRefType DEF TypeOK, CheckLineage, Goto, Exit, Labels, Terminal, Purposes
<1>3. CASE WriteStamp(p)
  BY <1>3, CommandType DEF TypeOK, WriteStamp, Goto, Labels, Purposes
<1> QED
  BY <1>1, <1>2, <1>3 DEF FetchStep

\* A command step reads, refuses, reports a replay or builds an intent, which is
\* one, whatever else goes on around it.
LEMMA CommandStepBuilds ==
  ASSUME scenario \in DOMAIN Scenarios,
         fetched \in [Processes -> Commit],
         seen \in [Processes -> ClaimState],
         reported \in [Processes -> ActiveClaim \cup {NoClaim}],
         NEW p \in Processes, CommandStep(p)
  PROVE  /\ pc[p] \in {"items", "observe"}
         /\ UNCHANGED <<remote, stamp, wire, faults, tally>>
         /\ seen' \in [Processes -> ClaimState]
         /\ reported' \in [Processes -> ActiveClaim \cup {NoClaim}]
         /\ \/ (Exit(p, "refused") \/ Exit(p, "done")) /\ UNCHANGED <<intent, purpose>>
            \/ /\ Fetch(p, "observe")
               /\ UNCHANGED <<fetched, observed, pending, intent>>
            \/ \E built \in AnyIntent : Submit(p, built)
<1> DEFINE cmd == CommandOf[p]
           state == StateAt(fetched[p])
           Typed == /\ UNCHANGED <<remote, stamp, wire, faults, tally>>
                    /\ seen' \in [Processes -> ClaimState]
                    /\ reported' \in [Processes -> ActiveClaim \cup {NoClaim}]
           Built == \/ (Exit(p, "refused") \/ Exit(p, "done")) /\ UNCHANGED <<intent, purpose>>
                    \/ /\ Fetch(p, "observe")
                       /\ UNCHANGED <<fetched, observed, pending, intent>>
                    \/ \E built \in AnyIntent : Submit(p, built)
<1>1. cmd \in Command /\ state \in ClaimState
  BY StoreAssumption, StateAtFacts DEF CommandOf
<1>2. SelectedClaim(p) \in ActiveClaim \cup {NoClaim}
  BY <1>1, ClaimAtType DEF SelectedClaim
<1>3. ASSUME Refuse(p) PROVE Built /\ UNCHANGED reported
  BY <1>3 DEF Refuse
<1>4. ASSUME NEW built \in AnyIntent, Submit(p, built) PROVE Built /\ UNCHANGED reported
  BY <1>4 DEF Submit
<1> HIDE DEF state
<1>5. ASSUME ReadItems(p) PROVE Typed /\ Built
  <2> DEFINE blob == state.items[cmd.item]
             write == [kind |-> "write", item |-> cmd.item, expected |-> blob,
                       blob |-> cmd.blob,
                       store |-> IF cmd.whole THEN state.items ELSE AnyStore]
  <2>1. /\ seen' = [seen EXCEPT ![p] = state]
        /\ UNCHANGED <<remote, stamp, wire, faults, tally>>
    BY <1>5 DEF ReadItems, state
  <2>2. seen' \in [Processes -> ClaimState]
    BY <1>1, <2>1
  <2>3. CASE cmd.kind = "write" /\ Submit(p, write)
    <3>1. cmd.item \in ItemIds /\ cmd.blob \in Blobs
      BY <1>1, <2>3, CommandKinds
    <3>2. state.items \in [ItemIds -> Blobs \cup {NoBlob}]
      BY <1>1 DEF ClaimState
    <3>3. write \in AnyIntent
      BY <3>1, <3>2 DEF AnyIntent, ItemWriteIntent
    <3> HIDE DEF write, Built
    <3>4. Built /\ UNCHANGED reported
      BY <1>4, <2>3, <3>3
    <3> QED
      BY <2>1, <2>2, <3>4
  <2>4. CASE Fetch(p, "observe") /\ UNCHANGED <<fetched, observed, pending, intent, reported>>
    BY <2>1, <2>2, <2>4
  <2>5. CASE Refuse(p)
    BY <2>1, <2>2, <2>5, <1>3
  <2> QED
    BY <1>5, <2>3, <2>4, <2>5 DEF ReadItems, state
<1>6. ASSUME ObserveForClaim(p) PROVE Typed /\ Built
  <2>1. UNCHANGED <<remote, stamp, wire, faults, seen, tally>>
    BY <1>6 DEF ObserveForClaim
  <2>2. CASE Refuse(p)
    BY <2>1, <2>2, <1>3
  <2>3. CASE Submit(p, cmd)
    <3>1. cmd \in AnyIntent
      BY <1>1, <1>6, CommandKinds DEF ObserveForClaim, AnyIntent
    <3> HIDE DEF cmd, Built
    <3> QED
      BY <2>1, <2>3, <3>1, <1>4
  <2>4. CASE Exit(p, "done") /\ reported' = [reported EXCEPT ![p] = SelectedClaim(p)]
             /\ UNCHANGED <<intent, purpose>>
    BY <1>2, <2>1, <2>4
  <2> QED
    BY <1>6, <2>2, <2>3, <2>4 DEF ObserveForClaim
<1>7. ASSUME ObserveForRescope(p) PROVE Typed /\ Built
  <2> DEFINE live == SelectedClaim(p)
             built == [kind |-> "rescope", id |-> live.id, who |-> live.who,
                       scope |-> CombinedScope(live.scope, cmd)]
  <2>1. UNCHANGED <<remote, stamp, wire, faults, seen, tally>>
    BY <1>7 DEF ObserveForRescope
  <2>2. CASE Refuse(p)
    BY <2>1, <2>2, <1>3
  <2>3. CASE live # NoClaim /\ Submit(p, built)
    <3>1. live \in ActiveClaim /\ cmd.add \in SUBSET Paths
      BY <1>1, <1>2, <1>7, <2>3, CommandKinds DEF ObserveForRescope
    <3>2. built \in AnyIntent
      BY <3>1 DEF AnyIntent, RescopeIntent, ActiveClaim, CombinedScope
    <3> HIDE DEF built, Built
    <3> QED
      BY <2>1, <2>3, <3>2, <1>4
  <2> QED
    BY <1>7, <2>2, <2>3 DEF ObserveForRescope
<1>8. ASSUME ObserveForRelease(p) PROVE Typed /\ Built
  <2> DEFINE built == [kind |-> "release", id |-> SelectedClaim(p).id, who |-> cmd.who,
                       override |-> cmd.override]
  <2>1. UNCHANGED <<remote, stamp, wire, faults, seen, tally>>
    BY <1>8 DEF ObserveForRelease
  <2>2. CASE Refuse(p)
    BY <2>1, <2>2, <1>3
  <2>3. CASE MayRelease(p) /\ Submit(p, built)
    <3>1. /\ SelectedClaim(p) \in ActiveClaim
          /\ cmd.who \in Claimants /\ cmd.override \in BOOLEAN
      BY <1>1, <1>2, <1>8, <2>3, CommandKinds DEF ObserveForRelease, MayRelease
    <3>2. built \in AnyIntent
      BY <3>1 DEF AnyIntent, ReleaseIntent, ActiveClaim
    <3> HIDE DEF built, Built
    <3> QED
      BY <2>1, <2>3, <3>2, <1>4
  <2> QED
    BY <1>8, <2>2, <2>3 DEF ObserveForRelease
<1>9. ASSUME ObserveForLanding(p) PROVE Typed /\ Built
  <2> DEFINE built == [kind |-> "landing", id |-> SelectedClaim(p).id, who |-> cmd.who,
                       override |-> cmd.override, item |-> cmd.item,
                       expected |-> seen[p].items[cmd.item], blob |-> cmd.blob]
  <2>1. UNCHANGED <<remote, stamp, wire, faults, seen, tally>>
    BY <1>9 DEF ObserveForLanding
  <2>2. CASE Refuse(p)
    BY <2>1, <2>2, <1>3
  <2>3. CASE MayRelease(p) /\ Submit(p, built)
    <3>1. /\ SelectedClaim(p) \in ActiveClaim
          /\ cmd.who \in Claimants /\ cmd.override \in BOOLEAN
          /\ cmd.item \in ItemIds /\ cmd.blob \in Blobs
      BY <1>1, <1>2, <1>9, <2>3, CommandKinds DEF ObserveForLanding, MayRelease
    <3>2. seen[p].items[cmd.item] \in Blobs \cup {NoBlob}
      BY <3>1 DEF ClaimState
    <3>3. built \in AnyIntent
      BY <3>1, <3>2 DEF AnyIntent, LandingIntent, ActiveClaim
    <3> HIDE DEF built, Built
    <3> QED
      BY <2>1, <2>3, <3>3, <1>4
  <2> QED
    BY <1>9, <2>2, <2>3 DEF ObserveForLanding
<1>10. pc[p] \in {"items", "observe"}
  BY DEF CommandStep, ReadItems, ObserveForClaim, ObserveForRescope, ObserveForRelease,
         ObserveForLanding
<1> QED
  BY <1>5, <1>6, <1>7, <1>8, <1>9, <1>10 DEF CommandStep

\* Reading items and building an intent.
LEMMA CommandStepType ==
  ASSUME TypeOK, UNCHANGED scenario, NEW p \in Processes, CommandStep(p)
  PROVE  TypeOK'
<1>1. /\ UNCHANGED <<remote, stamp, wire, faults, tally>>
      /\ seen' \in [Processes -> ClaimState]
      /\ reported' \in [Processes -> ActiveClaim \cup {NoClaim}]
      /\ \/ (Exit(p, "refused") \/ Exit(p, "done")) /\ UNCHANGED <<intent, purpose>>
         \/ Fetch(p, "observe") /\ UNCHANGED <<fetched, observed, pending, intent>>
         \/ \E built \in AnyIntent : Submit(p, built)
  BY CommandStepBuilds DEF TypeOK
<1>2. CASE (Exit(p, "refused") \/ Exit(p, "done")) /\ UNCHANGED <<intent, purpose>>
  BY <1>1, <1>2, NoRefType DEF TypeOK, Exit, Goto, Labels, Terminal
<1>3. CASE Fetch(p, "observe") /\ UNCHANGED <<fetched, observed, pending, intent>>
  BY <1>1, <1>3 DEF TypeOK, Fetch, Goto, Labels, Purposes
<1>4. ASSUME NEW built \in AnyIntent, Submit(p, built) PROVE TypeOK'
  BY <1>1, <1>4 DEF TypeOK, Submit, Fetch, Goto, Labels, Purposes
<1> QED
  BY <1>1, <1>2, <1>3, <1>4

\* What a process commits onto what it observed.
LEMMA CommitOntoFacts ==
  ASSUME TypeOK, NEW p \in Processes, intent[p].kind # "none", NEW base \in Commit
  PROVE  /\ intent[p] \in AnyIntent
         /\ CommitOnto(p, base) =
              Append(base, [op |-> p, state |-> CommittedState(StateAt(base), intent[p])])
         /\ CommitOnto(p, base) \in Commit
         /\ [op |-> p, state |-> CommittedState(StateAt(base), intent[p])] \in Entry
<1>1. intent[p] \in AnyIntent
  BY DEF TypeOK
<1>2. intent[p].kind # "bootstrap"
  BY <1>1 DEF AnyIntent, ClaimIntent, RescopeIntent, ReleaseIntent, ItemWriteIntent, LandingIntent
<1> QED
  BY <1>1, <1>2, NewCommit DEF CommitOnto

\* What a command reports is a claim or none.
LEMMA ReportType ==
  ASSUME TypeOK, NEW p \in Processes, NEW s \in ClaimState, Report(p, s)
  PROVE  reported' \in [Processes -> ActiveClaim \cup {NoClaim}]
<1>1. ClaimAt(s, CommandOf[p].key) \in ActiveClaim \cup {NoClaim}
  BY ClaimAtType
<1> QED
  BY <1>1 DEF Report, TypeOK

\* The steps of the transition loop keep every variable's type.
LEMMA TransitionStepType ==
  ASSUME TypeOK, CourseInv, UNCHANGED scenario, NEW p \in Processes, TransitionStep(p)
  PROVE  TypeOK'
<1>1. CASE BeginTransition(p)
  <2>1. MaxAttempts \in Nat \ {0}
    BY StoreAssumption DEF Positive
  <2>2. [tally EXCEPT ![p].attempt = 1] \in [Processes -> Tally]
    BY <2>1 DEF TypeOK, Tally
  <2> QED
    BY <1>1, <2>2, NoRefType DEF TypeOK, BeginTransition, Exit, Goto, Labels, Terminal
<1>2. CASE Push(p)
  <2> DEFINE commit == CommitOnto(p, observed[p])
             push == [op |-> p, attempt |-> tally[p].attempt, old |-> remote, new |-> commit]
  <2>1. Submitted(p) /\ intent[p].kind # "none"
    BY <1>2 DEF CourseInv, Looping, Push
  <2>2. commit \in Commit
    BY <2>1, CommitOntoFacts DEF TypeOK
  <2>3. push \in PushInFlight
    BY <2>1, <2>2, StoreAssumption DEF TypeOK, PushInFlight, Submitted, Tally, Positive
  <2> HIDE DEF commit
  <2>4. /\ pending' = [pending EXCEPT ![p] = commit]
        /\ \/ wire' = wire \cup {push} /\ Goto(p, "sent") /\ UNCHANGED purpose
           \/ Fetch(p, "search") /\ UNCHANGED wire
        /\ UNCHANGED <<remote, stamp, faults, fetched, seen, observed, intent, tally, reported>>
    BY <1>2 DEF Push, commit
  <2> HIDE DEF push
  <2> QED
    BY <2>2, <2>3, <2>4 DEF TypeOK, Fetch, Goto, Labels, Purposes
<1>3. CASE RefuseIntent(p)
  BY <1>3, NoRefType DEF TypeOK, RefuseIntent, Exit, Goto, Labels, Terminal
<1>4. CASE FoundOwnOperation(p)
  <2>1. reported' \in [Processes -> ActiveClaim \cup {NoClaim}]
    BY <1>4, ReportType, StateAtFacts DEF FoundOwnOperation, TypeOK
  <2> QED
    BY <1>4, <2>1, NoRefType DEF TypeOK, FoundOwnOperation, Exit, Goto, Labels, Terminal
<1>5. CASE Retry(p)
  <2> DEFINE count == AdvanceTipRetry(observed[p], fetched[p], tally[p])
  <2>1. /\ tally[p] \in Tally
        /\ Submitted(p)
        /\ tally[p].moves + tally[p].stationary <= tally[p].attempt - 1
    BY <1>5 DEF TypeOK, CourseInv, Looping, Retry, FailedAttempts, Submitted
  <2>2. count \in Tally /\ count.attempt = tally[p].attempt
    <3>1. /\ tally[p].moves + 1 \in 0 .. MaxAttempts
          /\ tally[p].stationary + 1 \in 0 .. MaxAttempts
      BY <2>1, StoreAssumption DEF Tally, Positive, Submitted
    <3>2. \/ count = [tally[p] EXCEPT !.moves = @ + 1, !.stationary = 0]
          \/ count = [tally[p] EXCEPT !.stationary = @ + 1]
      BY DEF AdvanceTipRetry
    <3>3. 0 \in 0 .. MaxAttempts
      BY StoreAssumption DEF Positive
    <3> HIDE DEF count
    <3>4. CASE count = [tally[p] EXCEPT !.moves = @ + 1, !.stationary = 0]
      BY <2>1, <3>1, <3>3, <3>4 DEF Tally
    <3>5. CASE count = [tally[p] EXCEPT !.stationary = @ + 1]
      BY <2>1, <3>1, <3>5 DEF Tally
    <3> QED
      BY <3>2, <3>4, <3>5
  <2> HIDE DEF count
  <2>3. count.attempt < MaxAttempts => [count EXCEPT !.attempt = @ + 1] \in Tally
    BY <2>2, StoreAssumption DEF Tally, Positive
  <2>4. \/ /\ count.attempt < MaxAttempts
           /\ tally' = [tally EXCEPT ![p] = [count EXCEPT !.attempt = @ + 1]]
           /\ observed' = [observed EXCEPT ![p] = fetched[p]]
           /\ Goto(p, "apply")
           /\ UNCHANGED <<fetched, pending>>
        \/ /\ tally' = [tally EXCEPT ![p] = count]
           /\ Exit(p, "exhausted")
    BY <1>5 DEF Retry, count
  <2>5. UNCHANGED <<remote, stamp, wire, faults, purpose, seen, intent, reported>>
    BY <1>5 DEF Retry
  <2> QED
    BY <2>2, <2>3, <2>4, <2>5, NoRefType DEF TypeOK, Exit, Goto, Labels, Terminal
<1>6. CASE Landed(p)
  <2>1. reported' \in [Processes -> ActiveClaim \cup {NoClaim}]
    BY <1>6, ReportType, StateAtFacts DEF Landed, TypeOK
  <2> QED
    BY <1>6, <2>1, NoRefType, CommandType DEF TypeOK, Landed, Exit, Goto, Labels, Terminal
<1> QED
  BY <1>1, <1>2, <1>3, <1>4, <1>5, <1>6 DEF TransitionStep

\* The server's steps keep every variable's type.
LEMMA ServerStepType ==
  ASSUME TypeOK, UNCHANGED scenario, NEW push \in wire, ServerStep(push)
  PROVE  TypeOK'
<1> USE DEF TypeOK, Goto, Labels
<1>1. push \in PushInFlight
  OBVIOUS
<1>2. CASE AcceptPush(push)
  BY <1>1, <1>2 DEF AcceptPush, PushInFlight
<1>3. CASE AcceptLatePush(push)
  BY <1>1, <1>3 DEF AcceptLatePush, PushInFlight
<1>4. CASE RejectPush(push)
  BY <1>1, <1>4 DEF RejectPush, PushInFlight, Fetch, Purposes
<1> QED
  BY <1>2, <1>3, <1>4 DEF ServerStep

\* Faults keep every variable's type.
LEMMA FaultStepType ==
  ASSUME TypeOK, UNCHANGED scenario, FaultStep
  PROVE  TypeOK'
<1>1. ASSUME FaultOccurs PROVE faults' \in 0 .. MaxFaults
  BY <1>1, StoreAssumption DEF TypeOK, FaultOccurs
<1> USE DEF TypeOK, Goto, Labels
<1>2. CASE \E push \in wire : RefusePush(push)
  BY <1>1, <1>2 DEF RefusePush, PushInFlight, Fetch, Purposes
<1>3. CASE \E p \in Processes : LoseConnection(p)
  BY <1>1, <1>3 DEF LoseConnection, Fetch, Purposes
<1>4. CASE \E p \in Processes : Crash(p)
  BY <1>4, NoRefType DEF Crash, Exit, Terminal
<1> QED
  BY <1>2, <1>3, <1>4 DEF FaultStep

----------------------------------------------------------------------------
(* The course of a process.                                                *)

\* What the invariant says of one process rests on four of its variables.
LEMMA CourseFrame ==
  ASSUME TypeOK, CourseInv,
         NEW p,
         \A q \in Processes : q # p => /\ pc'[q] = pc[q]
                                       /\ purpose'[q] = purpose[q]
                                       /\ intent'[q] = intent[q]
                                       /\ tally'[q] = tally[q],
         p \in Processes =>
           /\ Building(p)' => ~Submitted(p)' /\ intent'[p].kind = "none"
           /\ Handing(p)' => ~Submitted(p)' /\ intent'[p].kind # "none"
           /\ Looping(p)' => Submitted(p)'
           /\ Submitted(p)' => intent'[p].kind # "none"
           /\ tally'[p].moves + tally'[p].stationary <= FailedAttempts(p)'
  PROVE  CourseInv'
BY DEF CourseInv, Building, Handing, Looping, Fetching, Submitted, FailedAttempts

\* A fetch keeps to the course of its command.
LEMMA FetchStepCourse ==
  ASSUME TypeOK, CourseInv, NEW p \in Processes, FetchStep(p)
  PROVE  CourseInv'
<1> USE DEF Building, Handing, Looping, Fetching, Submitted, FailedAttempts
<1>1. purpose[p] \in Purposes
  BY DEF TypeOK
<1>2. CASE ReadTip(p)
  BY <1>2 DEF TypeOK, CourseInv, ReadTip, Goto
<1>3. CASE CheckLineage(p)
  BY <1>1, <1>3 DEF TypeOK, CourseInv, CheckLineage, Goto, Exit, Purposes
<1>4. CASE WriteStamp(p)
  BY <1>1, <1>4 DEF TypeOK, CourseInv, WriteStamp, Goto, Purposes
<1> QED
  BY <1>2, <1>3, <1>4 DEF FetchStep

\* A command that builds its intent keeps to its course.
LEMMA CommandStepCourse ==
  ASSUME TypeOK, CourseInv, NEW p \in Processes, CommandStep(p)
  PROVE  CourseInv'
<1> USE DEF Building, Handing, Looping, Fetching, Submitted, FailedAttempts
<1>1. /\ pc[p] \in {"items", "observe"}
      /\ UNCHANGED tally
      /\ \/ Refuse(p)
         \/ Exit(p, "done") /\ UNCHANGED <<intent, purpose>>
         \/ Fetch(p, "observe") /\ UNCHANGED intent
         \/ \E built : Submit(p, built) /\ built.kind # "none"
  BY DEF CommandStep, ReadItems, ObserveForClaim, ObserveForRescope, ObserveForRelease,
         ObserveForLanding
<1>2. CASE Refuse(p) \/ (Exit(p, "done") /\ UNCHANGED <<intent, purpose>>)
  BY <1>1, <1>2 DEF TypeOK, CourseInv, Refuse, Exit, Goto
<1>3. CASE Fetch(p, "observe") /\ UNCHANGED intent
  BY <1>1, <1>3 DEF TypeOK, CourseInv, Fetch, Goto
<1>4. ASSUME NEW built, Submit(p, built), built.kind # "none" PROVE CourseInv'
  BY <1>1, <1>4 DEF TypeOK, CourseInv, Submit, Fetch, Goto
<1> QED
  BY <1>1, <1>2, <1>3, <1>4

\* The transition loop keeps to its course.
LEMMA TransitionStepCourse ==
  ASSUME TypeOK, CourseInv, NEW p \in Processes, TransitionStep(p)
  PROVE  CourseInv'
<1> USE DEF Building, Handing, Looping, Fetching, Submitted, FailedAttempts
<1>1. tally[p] \in Tally
  BY DEF TypeOK
<1>2. CASE BeginTransition(p)
  <2>1. /\ pc[p] = "transition" /\ UNCHANGED <<intent, purpose>>
        /\ \/ Goto(p, "refused") /\ UNCHANGED tally
           \/ Goto(p, "apply") /\ tally' = [tally EXCEPT ![p].attempt = 1]
    BY <1>2 DEF BeginTransition, Exit
  <2>2. CASE Goto(p, "refused") /\ UNCHANGED tally
    BY <2>1, <2>2 DEF TypeOK, CourseInv, Goto
  <2>3. CASE Goto(p, "apply") /\ tally' = [tally EXCEPT ![p].attempt = 1]
    <3>1. tally[p].moves + tally[p].stationary <= 0 /\ intent[p].kind # "none"
      BY <1>1, <2>1 DEF CourseInv, Tally
    <3>2. /\ tally'[p].attempt = 1 /\ tally'[p].moves = tally[p].moves
          /\ tally'[p].stationary = tally[p].stationary
          /\ \A q \in Processes \ {p} : tally'[q] = tally[q]
      BY <1>1, <2>3 DEF TypeOK, Tally
    <3> QED
      BY <2>1, <2>3, <3>1, <3>2 DEF TypeOK, CourseInv, Goto
  <2> QED
    BY <2>1, <2>2, <2>3
<1>3. CASE Push(p)
  <2>1. /\ pc[p] = "apply" /\ UNCHANGED <<tally, intent>>
        /\ (Goto(p, "sent") /\ UNCHANGED purpose) \/ Fetch(p, "search")
    BY <1>3 DEF Push
  <2>2. CASE Goto(p, "sent") /\ UNCHANGED purpose
    BY <2>1, <2>2 DEF TypeOK, CourseInv, Goto
  <2>3. CASE Fetch(p, "search")
    BY <2>1, <2>3 DEF TypeOK, CourseInv, Fetch, Goto
  <2> QED
    BY <2>1, <2>2, <2>3
<1>4. CASE RefuseIntent(p)
  BY <1>4 DEF TypeOK, CourseInv, RefuseIntent, Exit, Goto
<1>5. CASE FoundOwnOperation(p)
  BY <1>5 DEF TypeOK, CourseInv, FoundOwnOperation, Exit, Goto
<1>6. CASE Retry(p)
  <2> DEFINE count == AdvanceTipRetry(observed[p], fetched[p], tally[p])
  <2>1. /\ tally[p].attempt # 0
        /\ tally[p].moves + tally[p].stationary <= tally[p].attempt - 1
        /\ pc[p] = "search" /\ intent[p].kind # "none"
    BY <1>6 DEF CourseInv, Retry
  <2>2. /\ count \in [attempt : Nat, moves : Nat, stationary : Nat]
        /\ count.attempt = tally[p].attempt
        /\ count.moves + count.stationary <= tally[p].attempt
    <3>1. \/ count = [tally[p] EXCEPT !.moves = @ + 1, !.stationary = 0]
          \/ count = [tally[p] EXCEPT !.stationary = @ + 1]
      BY DEF AdvanceTipRetry
    <3> HIDE DEF count
    <3>2. CASE count = [tally[p] EXCEPT !.moves = @ + 1, !.stationary = 0]
      <4>1. /\ tally[p].attempt \in Nat /\ tally[p].moves \in Nat /\ tally[p].stationary \in Nat
            /\ tally[p].moves + 1 <= tally[p].attempt
        BY <1>1, <2>1, StoreAssumption DEF Tally, Positive
      <4>2. /\ count \in [attempt : Nat, moves : Nat, stationary : Nat]
            /\ count.attempt = tally[p].attempt
            /\ count.moves = tally[p].moves + 1 /\ count.stationary = 0
        <5>1. tally[p] \in [attempt : Nat, moves : Nat, stationary : Nat]
          BY <1>1, <4>1 DEF Tally
        <5>2. tally[p].moves + 1 \in Nat
          BY <4>1
        <5> QED
          BY <3>2, <5>1, <5>2
      <4> QED
        BY <4>1, <4>2
    <3>3. CASE count = [tally[p] EXCEPT !.stationary = @ + 1]
      BY <1>1, <2>1, <3>3 DEF Tally
    <3> QED
      BY <3>1, <3>2, <3>3
  <2> HIDE DEF count
  <2>3. /\ UNCHANGED <<purpose, intent>>
        /\ \/ /\ tally' = [tally EXCEPT ![p] = [count EXCEPT !.attempt = @ + 1]]
              /\ pc' = [pc EXCEPT ![p] = "apply"]
           \/ /\ tally' = [tally EXCEPT ![p] = count]
              /\ pc' = [pc EXCEPT ![p] = "exhausted"]
    BY <1>6 DEF Retry, count, Exit, Goto
  <2>4. \A q \in Processes : q # p => pc'[q] = pc[q] /\ tally'[q] = tally[q]
    BY <2>3 DEF TypeOK
  <2>5. CASE /\ tally' = [tally EXCEPT ![p] = [count EXCEPT !.attempt = @ + 1]]
             /\ pc' = [pc EXCEPT ![p] = "apply"]
    <3>1. /\ pc'[p] = "apply"
          /\ tally'[p].attempt = tally[p].attempt + 1
          /\ tally'[p].moves = count.moves /\ tally'[p].stationary = count.stationary
      BY <2>2, <2>5 DEF TypeOK
    <3> QED
      BY <1>1, <2>1, <2>2, <2>3, <2>4, <3>1, CourseFrame DEF Tally
  <2>6. CASE tally' = [tally EXCEPT ![p] = count] /\ pc' = [pc EXCEPT ![p] = "exhausted"]
    <3>1. pc'[p] = "exhausted" /\ tally'[p] = count
      BY <2>6 DEF TypeOK
    <3> QED
      BY <1>1, <2>1, <2>2, <2>3, <2>4, <3>1, CourseFrame DEF Tally
  <2> QED
    BY <2>3, <2>5, <2>6
<1>7. CASE Landed(p)
  BY <1>7 DEF TypeOK, CourseInv, Landed, Exit, Goto
<1> QED
  BY <1>2, <1>3, <1>4, <1>5, <1>6, <1>7 DEF TransitionStep

\* Faults and the server keep every process to its course.
LEMMA OtherStepCourse ==
  ASSUME TypeOK, CourseInv, (\E push \in wire : ServerStep(push)) \/ FaultStep
  PROVE  CourseInv'
<1> USE DEF TypeOK, CourseInv, Building, Handing, Looping, Fetching, Submitted, FailedAttempts,
            PushInFlight, Goto
<1>1. CASE \E push \in wire : ServerStep(push)
  BY <1>1 DEF ServerStep, AcceptPush, AcceptLatePush, RejectPush, Awaited, Fetch
<1>2. CASE \E push \in wire : RefusePush(push)
  BY <1>2 DEF RefusePush, Awaited, Fetch
<1>3. CASE \E p \in Processes : LoseConnection(p)
  BY <1>3 DEF LoseConnection, Fetch
<1>4. CASE \E p \in Processes : Crash(p)
  BY <1>4 DEF Crash, Exit, Terminal
<1> QED
  BY <1>1, <1>2, <1>3, <1>4 DEF FaultStep

----------------------------------------------------------------------------
(* What any step does to a process, in terms the invariants need.          *)

Still(q) ==
  /\ pc'[q] = pc[q] /\ purpose'[q] = purpose[q]
  /\ fetched'[q] = fetched[q] /\ observed'[q] = observed[q] /\ pending'[q] = pending[q]
  /\ intent'[q] = intent[q] /\ tally'[q] = tally[q]

\* An intent stays once submitted, attempts only grow, what a process reads is
\* the ref, and what it bases an attempt on is what it read.
Advances(q) ==
  /\ Ended(q) => pc'[q] = pc[q] /\ intent'[q] = intent[q] /\ tally'[q] = tally[q]
  /\ Submitted(q) => Submitted(q)' /\ intent'[q] = intent[q]
  /\ tally[q].attempt <= tally'[q].attempt
  /\ fetched'[q] \in {fetched[q], NoRef, remote}
  /\ observed'[q] \in {observed[q], NoRef, fetched[q]}
  /\ Looping(q)' => \/ Looping(q) /\ observed'[q] = observed[q]
                    \/ pc[q] = "transition" /\ observed'[q] = fetched[q] /\ fetched[q] # NoRef
                    \/ Retry(q) /\ observed'[q] = fetched[q]
  /\ Searching(q)' => /\ observed'[q] = observed[q]
                      /\ \/ Searching(q) /\ fetched'[q] = fetched[q]
                         \/ /\ pc[q] = "read" /\ purpose[q] = "search"
                            /\ fetched'[q] = remote

\* The labels whose meaning depends on the step that led there.
Arrives(q) ==
  /\ pc'[q] = "apply" => \/ pc[q] = "apply"
                         \/ ~Submitted(q)
                         \/ tally'[q].attempt > tally[q].attempt
  /\ pc'[q] = "sent" => Still(q) \/ Push(q)
  /\ pc'[q] = "landed" => \/ Still(q)
                          \/ \E push \in wire : push.op = q /\ AcceptPush(push)
  /\ pc'[q] = "done" => \/ pc[q] = "done"
                        \/ FoundOwnOperation(q) \/ Landed(q)
                        \/ intent'[q].kind = "none"
  /\ pc'[q] = "refused" => pc[q] = "refused" \/ ~Submitted(q) \/ RefuseIntent(q)

Onward(q) == Advances(q) /\ Arrives(q)

\* A process that does not move goes neither forward nor back.
LEMMA StillOnward ==
  ASSUME TypeOK, NEW q \in Processes, Still(q)
  PROVE  Onward(q)
<1>1. tally[q].attempt <= tally[q].attempt
  BY StoreAssumption DEF TypeOK, Tally, Positive
<1> QED
  BY <1>1 DEF Onward, Advances, Arrives, Still, Ended, Submitted, Looping, Searching, Fetching

\* The others stay where they are when a process takes a step of its own.
LEMMA OthersStill ==
  ASSUME TypeOK, NEW p \in Processes,
         FetchStep(p) \/ CommandStep(p) \/ TransitionStep(p) \/ LoseConnection(p) \/ Crash(p)
  PROVE  \A q \in Processes \ {p} : Still(q)
<1> USE DEF TypeOK, Still, Goto, Exit, Fetch
<1>1. CASE FetchStep(p)
  BY <1>1 DEF FetchStep, ReadTip, CheckLineage, WriteStamp
<1>2. CASE CommandStep(p)
  <2>1. /\ UNCHANGED tally
        /\ \/ Refuse(p)
           \/ Exit(p, "done") /\ UNCHANGED <<intent, purpose>>
           \/ Fetch(p, "observe") /\ UNCHANGED <<fetched, observed, pending, intent, reported>>
           \/ \E built : Submit(p, built)
    BY <1>2 DEF CommandStep, ReadItems, ObserveForClaim, ObserveForRescope, ObserveForRelease,
                ObserveForLanding
  <2>2. CASE Refuse(p) \/ (Exit(p, "done") /\ UNCHANGED <<intent, purpose>>)
    BY <2>1, <2>2 DEF Refuse
  <2>3. CASE Fetch(p, "observe") /\ UNCHANGED <<fetched, observed, pending, intent, reported>>
    BY <2>1, <2>3
  <2>4. ASSUME NEW built, Submit(p, built) PROVE \A q \in Processes \ {p} : Still(q)
    BY <2>1, <2>4 DEF Submit
  <2> QED
    BY <2>1, <2>2, <2>3, <2>4
<1>3. CASE TransitionStep(p)
  <2>1. CASE BeginTransition(p)
    BY <2>1 DEF BeginTransition
  <2>2. CASE Push(p)
    BY <2>2 DEF Push
  <2>3. CASE RefuseIntent(p)
    BY <2>3 DEF RefuseIntent
  <2>4. CASE FoundOwnOperation(p)
    BY <2>4 DEF FoundOwnOperation
  <2>5. CASE Retry(p)
    BY <2>5 DEF Retry
  <2>6. CASE Landed(p)
    BY <2>6 DEF Landed
  <2> QED
    BY <1>3, <2>1, <2>2, <2>3, <2>4, <2>5, <2>6 DEF TransitionStep
<1>4. CASE LoseConnection(p)
  BY <1>4 DEF LoseConnection
<1>5. CASE Crash(p)
  BY <1>5 DEF Crash
<1> QED
  BY <1>1, <1>2, <1>3, <1>4, <1>5

\* A fetch moves its own process only, and onward.
LEMMA FetchStepOnward ==
  ASSUME TypeOK, CourseInv, NEW p \in Processes, FetchStep(p)
  PROVE  Onward(p)
<1> USE DEF TypeOK, Onward, Advances, Arrives, Ended, Submitted, Looping, Searching, Fetching,
            Goto, Terminal
<1>1. purpose[p] \in Purposes /\ tally[p].attempt <= tally[p].attempt
  BY StoreAssumption DEF Tally, Positive
<1>2. CASE ReadTip(p)
  BY <1>1, <1>2 DEF ReadTip
<1>3. CASE CheckLineage(p)
  BY <1>1, <1>3 DEF CheckLineage, Exit, Purposes
<1>4. CASE WriteStamp(p)
  BY <1>1, <1>4 DEF WriteStamp, Purposes
<1> QED
  BY <1>2, <1>3, <1>4 DEF FetchStep

\* A command step moves its own process only, and onward.
LEMMA CommandStepOnward ==
  ASSUME TypeOK, CourseInv, NEW p \in Processes, CommandStep(p)
  PROVE  Onward(p)
<1> USE DEF TypeOK, Onward, Advances, Arrives, Ended, Submitted, Looping, Searching, Fetching,
            Goto, Terminal
<1>1. /\ pc[p] \in {"items", "observe"}
      /\ UNCHANGED tally
      /\ \/ Refuse(p)
         \/ Exit(p, "done") /\ UNCHANGED <<intent, purpose>>
         \/ Fetch(p, "observe") /\ UNCHANGED <<fetched, observed, pending, intent, reported>>
         \/ \E built : Submit(p, built)
  BY DEF CommandStep, ReadItems, ObserveForClaim, ObserveForRescope, ObserveForRelease,
         ObserveForLanding
<1>2. /\ tally[p].attempt <= tally[p].attempt
      /\ ~Submitted(p) /\ intent[p].kind = "none"
  BY <1>1, StoreAssumption DEF Tally, Positive, CourseInv, Building
<1>3. CASE Refuse(p) \/ (Exit(p, "done") /\ UNCHANGED <<intent, purpose>>)
  BY <1>1, <1>2, <1>3 DEF Refuse, Exit
<1>4. CASE Fetch(p, "observe") /\ UNCHANGED <<fetched, observed, pending, intent, reported>>
  BY <1>1, <1>2, <1>4 DEF Fetch
<1>5. ASSUME NEW built, Submit(p, built) PROVE Onward(p)
  BY <1>1, <1>2, <1>5 DEF Submit, Fetch
<1> QED
  BY <1>1, <1>3, <1>4, <1>5

\* A step of the loop moves its own process only, and onward.
LEMMA TransitionStepOnward ==
  ASSUME TypeOK, CourseInv, NEW p \in Processes, TransitionStep(p)
  PROVE  Onward(p)
<1> USE DEF TypeOK, Onward, Advances, Arrives, Ended, Submitted, Looping, Searching, Fetching,
            Goto, Terminal
<1>1. tally[p] \in Tally /\ tally[p].attempt \in Nat
  BY StoreAssumption DEF Tally, Positive
<1>2. CASE BeginTransition(p)
  <2>1. pc[p] = "transition" /\ ~Submitted(p)
    BY <1>2 DEF BeginTransition, CourseInv, Handing
  <2> QED
    BY <1>1, <1>2, <2>1 DEF BeginTransition, Exit, Tally
<1>3. CASE Push(p)
  BY <1>1, <1>3 DEF Push, Fetch
<1>4. CASE RefuseIntent(p)
  BY <1>1, <1>4 DEF RefuseIntent, Exit
<1>5. CASE FoundOwnOperation(p)
  BY <1>1, <1>5 DEF FoundOwnOperation, Exit
<1>6. CASE Retry(p)
  <2> DEFINE count == AdvanceTipRetry(observed[p], fetched[p], tally[p])
  <2>1. count.attempt = tally[p].attempt /\ DOMAIN count = DOMAIN tally[p]
    BY <1>1 DEF AdvanceTipRetry, Tally
  <2> HIDE DEF count
  <2>2. /\ pc[p] = "search" /\ UNCHANGED <<purpose, intent>>
        /\ \/ /\ tally' = [tally EXCEPT ![p] = [count EXCEPT !.attempt = @ + 1]]
              /\ observed' = [observed EXCEPT ![p] = fetched[p]]
              /\ UNCHANGED <<fetched, pending>>
              /\ Goto(p, "apply")
           \/ /\ tally' = [tally EXCEPT ![p] = count]
              /\ Exit(p, "exhausted")
    BY <1>6 DEF Retry, count
  <2>3. Submitted(p)
    BY <2>2 DEF CourseInv
  <2>4. tally'[p].attempt = tally[p].attempt \/
          (tally'[p].attempt = tally[p].attempt + 1 /\ Goto(p, "apply"))
    BY <1>1, <2>1, <2>2 DEF Tally
  <2>5. tally[p].attempt <= tally'[p].attempt /\ Submitted(p)'
    BY <1>1, <2>3, <2>4
  <2>6. pc'[p] = "apply" => tally'[p].attempt > tally[p].attempt
    BY <1>1, <2>1, <2>2 DEF Exit, Tally
  <2>7. CASE Goto(p, "apply") /\ UNCHANGED <<fetched, pending>>
             /\ observed' = [observed EXCEPT ![p] = fetched[p]]
    BY <1>6, <2>2, <2>5, <2>6, <2>7
  <2>8. CASE Exit(p, "exhausted")
    BY <1>6, <2>2, <2>5, <2>6, <2>8 DEF Exit
  <2> QED
    BY <2>2, <2>7, <2>8
<1>7. CASE Landed(p)
  BY <1>1, <1>7 DEF Landed, Exit
<1> QED
  BY <1>2, <1>3, <1>4, <1>5, <1>6, <1>7 DEF TransitionStep

\* A step of the server or of fate, and the pushes' own processes.
LEMMA OtherStepOnward ==
  ASSUME TypeOK, CourseInv, (\E push \in wire : ServerStep(push)) \/ FaultStep
  PROVE  \A q \in Processes : Onward(q)
<1> USE DEF TypeOK, Onward, Advances, Arrives, Ended, Submitted, Looping, Searching, Fetching,
            Goto, Terminal
<1>1. \A q \in Processes : tally[q].attempt <= tally[q].attempt
  BY StoreAssumption DEF Tally, Positive
<1>2. ASSUME NEW push \in wire, AcceptPush(push) PROVE \A q \in Processes : Onward(q)
  BY <1>1, <1>2 DEF AcceptPush, Awaited, PushInFlight, Still
<1>3. ASSUME NEW push \in wire, AcceptLatePush(push) PROVE \A q \in Processes : Onward(q)
  BY <1>1, <1>3 DEF AcceptLatePush, Still
<1>4. ASSUME NEW push \in wire, RejectPush(push) PROVE \A q \in Processes : Onward(q)
  BY <1>1, <1>4 DEF RejectPush, Awaited, PushInFlight, Fetch, Still
<1>5. ASSUME NEW push \in wire, RefusePush(push) PROVE \A q \in Processes : Onward(q)
  BY <1>1, <1>5 DEF RefusePush, Awaited, PushInFlight, Fetch, Still
<1>6. ASSUME NEW p \in Processes, LoseConnection(p) PROVE \A q \in Processes : Onward(q)
  BY <1>1, <1>6 DEF LoseConnection, Fetch, Still
<1>7. ASSUME NEW p \in Processes, Crash(p) PROVE \A q \in Processes : Onward(q)
  BY <1>1, <1>7 DEF Crash, Exit, Still
<1> QED
  BY <1>2, <1>3, <1>4, <1>5, <1>6, <1>7 DEF ServerStep, FaultStep

\* Every step, for every process.
LEMMA NextOnward ==
  ASSUME TypeOK, CourseInv, Next
  PROVE  \A q \in Processes : Onward(q)
<1>1. ASSUME NEW p \in Processes, FetchStep(p) \/ CommandStep(p) \/ TransitionStep(p)
      PROVE  \A q \in Processes : Onward(q)
  <2>1. Onward(p)
    BY <1>1, FetchStepOnward, CommandStepOnward, TransitionStepOnward
  <2> QED
    BY <1>1, <2>1, OthersStill, StillOnward
<1> QED
  BY <1>1, OtherStepOnward DEF Next

----------------------------------------------------------------------------
(* What any step does to the ref, the stamps and the wire.                 *)

\* Every step keeps every variable's type.
LEMMA NextType ==
  ASSUME TypeOK, CourseInv, Next
  PROVE  TypeOK' /\ CourseInv'
<1>1. TypeOK'
  BY FetchStepType, CommandStepType, TransitionStepType, ServerStepType, FaultStepType DEF Next
<1>2. CourseInv'
  BY FetchStepCourse, CommandStepCourse, TransitionStepCourse, OtherStepCourse DEF Next
<1> QED
  BY <1>1, <1>2

\* What is at work and has submitted is in its push loop.
LEMMA SubmittedLoops ==
  ASSUME TypeOK, CourseInv
  PROVE  \A q \in Processes : Submitted(q) /\ ~Ended(q) => Looping(q)
BY DEF TypeOK, CourseInv, Labels, Purposes, Ended, Building, Handing, Looping, Fetching

\* The ref moves only to the commit of a push that was leased on it.
LEMMA RemoteSteps ==
  ASSUME Next
  PROVE  \/ UNCHANGED remote
         \/ \E push \in wire : /\ push.old = remote /\ remote' = push.new
                               /\ AcceptPush(push) \/ AcceptLatePush(push)
<1>1. ASSUME NEW p \in Processes, FetchStep(p) PROVE UNCHANGED remote
  BY <1>1 DEF FetchStep, ReadTip, CheckLineage, WriteStamp
<1>2. ASSUME NEW p \in Processes, CommandStep(p) PROVE UNCHANGED remote
  BY <1>2 DEF CommandStep, ReadItems, ObserveForClaim, ObserveForRescope, ObserveForRelease,
              ObserveForLanding
<1>3. ASSUME NEW p \in Processes, TransitionStep(p) PROVE UNCHANGED remote
  BY <1>3 DEF TransitionStep, BeginTransition, Push, RefuseIntent, FoundOwnOperation, Retry, Landed
<1>4. ASSUME FaultStep PROVE UNCHANGED remote
  BY <1>4 DEF FaultStep, RefusePush, LoseConnection, Crash
<1>5. ASSUME NEW push \in wire, RejectPush(push) PROVE UNCHANGED remote
  BY <1>5 DEF RejectPush
<1> QED
  BY <1>1, <1>2, <1>3, <1>4, <1>5 DEF Next, ServerStep, AcceptPush, AcceptLatePush

\* A worktree is stamped with what one of its processes fetched or landed.
LEMMA StampSteps ==
  ASSUME Next
  PROVE  \/ UNCHANGED stamp
         \/ \E p \in Processes : WriteStamp(p) \/ Landed(p)
<1>1. ASSUME NEW p \in Processes, FetchStep(p) PROVE UNCHANGED stamp \/ WriteStamp(p)
  BY <1>1 DEF FetchStep, ReadTip, CheckLineage
<1>2. ASSUME NEW p \in Processes, CommandStep(p) PROVE UNCHANGED stamp
  BY <1>2 DEF CommandStep, ReadItems, ObserveForClaim, ObserveForRescope, ObserveForRelease,
              ObserveForLanding
<1>3. ASSUME NEW p \in Processes, TransitionStep(p) PROVE UNCHANGED stamp \/ Landed(p)
  BY <1>3 DEF TransitionStep, BeginTransition, Push, RefuseIntent, FoundOwnOperation, Retry
<1>4. ASSUME FaultStep PROVE UNCHANGED stamp
  BY <1>4 DEF FaultStep, RefusePush, LoseConnection, Crash
<1>5. ASSUME NEW push \in wire, ServerStep(push) PROVE UNCHANGED stamp
  BY <1>5 DEF ServerStep, AcceptPush, AcceptLatePush, RejectPush
<1> QED
  BY <1>1, <1>2, <1>3, <1>4, <1>5 DEF Next

\* The commit a push of p would carry now, and the push.
Fresh(p) == CommitOnto(p, observed[p])
FreshPush(p) == [op |-> p, attempt |-> tally[p].attempt, old |-> remote, new |-> Fresh(p)]

\* What can be on the wire after a step: what was, and the push just sent.
LEMMA WireSteps ==
  ASSUME Next
  PROVE  \/ wire' \subseteq wire
         \/ \E p \in Processes : /\ Push(p) /\ IsPrefix(remote, Fresh(p))
                                 /\ wire' = wire \cup {FreshPush(p)}
<1>1. ASSUME NEW p \in Processes, FetchStep(p) PROVE wire' \subseteq wire
  BY <1>1 DEF FetchStep, ReadTip, CheckLineage, WriteStamp
<1>2. ASSUME NEW p \in Processes, CommandStep(p) PROVE wire' \subseteq wire
  BY <1>2 DEF CommandStep, ReadItems, ObserveForClaim, ObserveForRescope, ObserveForRelease,
              ObserveForLanding
<1>3. ASSUME NEW p \in Processes, TransitionStep(p), ~Push(p) PROVE wire' \subseteq wire
  BY <1>3 DEF TransitionStep, BeginTransition, RefuseIntent, FoundOwnOperation, Retry, Landed
<1>4. ASSUME FaultStep PROVE wire' \subseteq wire
  BY <1>4 DEF FaultStep, RefusePush, LoseConnection, Crash
<1>5. ASSUME NEW push \in wire, ServerStep(push) PROVE wire' \subseteq wire
  BY <1>5 DEF ServerStep, AcceptPush, AcceptLatePush, RejectPush
<1>6. ASSUME NEW p \in Processes, Push(p)
      PROVE  \/ wire' \subseteq wire
             \/ IsPrefix(remote, Fresh(p)) /\ wire' = wire \cup {FreshPush(p)}
  BY <1>6 DEF Push, Fresh, FreshPush
<1> QED
  BY <1>1, <1>2, <1>3, <1>4, <1>5, <1>6 DEF Next

\* A push carries its operation's intent on its base.
LEMMA PushFacts ==
  ASSUME TypeOK, CourseInv, WireInv, NEW push \in wire,
         NEW base, base = Front(push.new)
  PROVE  /\ push.op \in Processes /\ PushOK(push)
         /\ push.new \in Commit /\ push.old \in Commit
         /\ base \in Commit /\ base # NoRef
         /\ push.new = CommitOnto(push.op, base)
         /\ Last(push.new) = [op |-> push.op,
                              state |-> CommittedState(StateAt(base), intent[push.op])]
         /\ push.new = Append(base, Last(push.new))
         /\ OperationsOn(push.new) = OperationsOn(base) \cup {push.op}
<1>1. push \in PushInFlight /\ PushOK(push) /\ Submitted(push.op)
  BY DEF TypeOK, WireInv, PushOK
<1>2. push.op \in Processes /\ push.new \in Commit /\ push.old \in Commit
  BY <1>1 DEF PushInFlight
<1>3. intent[push.op].kind # "none"
  BY <1>1, <1>2 DEF CourseInv
<1>4. base \in Commit /\ base # NoRef /\ push.new = CommitOnto(push.op, base)
  BY <1>1 DEF PushOK
<1> DEFINE e == [op |-> push.op, state |-> CommittedState(StateAt(base), intent[push.op])]
<1>5. push.new = Append(base, e) /\ e \in Entry
  BY <1>2, <1>3, <1>4, CommitOntoFacts
<1>6. e.op = push.op
  OBVIOUS
<1> HIDE DEF e
<1>7. Last(push.new) = e /\ OperationsOn(push.new) = OperationsOn(base) \cup {push.op}
  <2>1. base \in Seq(Entry)
    BY <1>4, CommitFacts
  <2>2. Last(Append(base, e)) = e
    BY <1>5, <2>1, OneMore
  <2>3. OperationsOn(Append(base, e)) = OperationsOn(base) \cup {e.op}
    BY <1>5, <2>1, OperationsOnMore
  <2> QED
    BY <1>5, <1>6, <2>2, <2>3
<1> QED
  BY <1>1, <1>2, <1>4, <1>5, <1>7 DEF e

\* The core of the store: what the server accepts is the ref as it is, or an
\* intent on the ref that the ref admits and has not had.
LEMMA AcceptedCommit ==
  ASSUME TypeOK, CourseInv, WireInv, NEW push \in wire, push.old = remote
  PROVE  /\ push.op \in Processes /\ push.new \in Commit
         /\ IsPrefix(remote, push.new)
         /\ \/ push.new = remote /\ push.op \in OperationsOn(remote)
            \/ /\ Front(push.new) = remote /\ remote # NoRef
               /\ push.new = Append(remote, Last(push.new))
               /\ Last(push.new) \in Entry
               /\ Last(push.new) = [op |-> push.op,
                                    state |-> CommittedState(StateAt(remote), intent[push.op])]
               /\ Admits(StateAt(remote), intent[push.op])
               /\ push.op \notin OperationsOn(remote)
               /\ Submitted(push.op)
<1> DEFINE base == Front(push.new)
<1> HIDE DEF base
<1>1. /\ push.op \in Processes /\ PushOK(push)
      /\ push.new \in Commit
      /\ base \in Commit /\ base # NoRef
      /\ Last(push.new) = [op |-> push.op,
                           state |-> CommittedState(StateAt(base), intent[push.op])]
      /\ push.new = Append(base, Last(push.new))
      /\ OperationsOn(push.new) = OperationsOn(base) \cup {push.op}
  BY PushFacts DEF base
<1>2. /\ push.old \in {base, push.new}
      /\ Admits(StateAt(base), intent[push.op]) /\ push.op \notin OperationsOn(base)
      /\ Submitted(push.op)
  BY <1>1 DEF PushOK, base
<1>3. CASE remote = push.new
  BY <1>1, <1>3, CommitFacts, PrefixOrder
<1>4. CASE remote = base
  <2>1. intent[push.op].kind # "none"
    BY <1>1, <1>2 DEF CourseInv
  <2>2. Last(push.new) \in Entry
    BY <1>1, <2>1, CommitOntoFacts
  <2>3. IsPrefix(remote, push.new)
    <3>1. base \in Seq(Entry)
      BY <1>1, CommitFacts
    <3>2. IsPrefix(base, Append(base, Last(push.new)))
      BY <2>2, <3>1, OneMore
    <3> QED
      BY <1>1, <1>4, <3>2
  <2> QED
    BY <1>1, <1>2, <1>4, <2>2, <2>3 DEF base
<1> QED
  BY <1>2, <1>3, <1>4

\* While nobody rewrites it, the ref only grows.
LEMMA RemoteGrows ==
  ASSUME TypeOK, CourseInv, AncestryInv, WireInv, Next
  PROVE  remote' \in Commit /\ IsPrefix(remote, remote') /\ remote' # NoRef
<1>1. CASE UNCHANGED remote
  BY <1>1, CommitFacts, PrefixOrder DEF TypeOK, AncestryInv
<1>2. ASSUME NEW push \in wire, push.old = remote, remote' = push.new
      PROVE  remote' \in Commit /\ IsPrefix(remote, remote') /\ remote' # NoRef
  <2>1. push.new \in Commit /\ IsPrefix(remote, push.new)
    BY <1>2, AcceptedCommit
  <2>2. remote \in Commit /\ Len(remote) # 0
    BY CommitFacts DEF TypeOK, AncestryInv
  <2>3. Len(remote) <= Len(push.new)
    BY <2>1, <2>2, CommitFacts, PrefixDef
  <2> QED
    BY <1>2, <2>1, <2>2, <2>3, CommitFacts
<1> QED
  BY <1>1, <1>2, RemoteSteps

----------------------------------------------------------------------------
(* The invariant is inductive.                                             *)

\* An operation in its push loop has not landed below what it observed; if it
\* has landed, it did so right on top of that, on a state that admitted it.
LEMMA LoopingFacts ==
  ASSUME TypeOK, CourseInv, AncestryInv, HistoryInv, NEW p \in Processes, Looping(p)
  PROVE  /\ p \notin OperationsOn(observed[p])
         /\ p \in OperationsOn(remote) =>
              /\ Admits(StateAt(observed[p]), intent[p])
              /\ Len(observed[p]) < Len(remote)
              /\ remote[Len(observed[p]) + 1].op = p
<1>1. /\ observed[p] \in Commit /\ remote \in Commit
      /\ IsPrefix(observed[p], remote) /\ observed[p] # NoRef
  BY DEF TypeOK, AncestryInv
<1>2. /\ observed[p] \in Seq(Entry) /\ remote \in Seq(Entry)
      /\ Len(observed[p]) \in Nat /\ Len(remote) \in Nat /\ Len(observed[p]) # 0
      /\ DOMAIN observed[p] = 1 .. Len(observed[p]) /\ DOMAIN remote = 1 .. Len(remote)
  BY <1>1, CommitFacts
<1>3. /\ Len(observed[p]) <= Len(remote)
      /\ \A i \in 1 .. Len(observed[p]) : observed[p][i] = remote[i]
  BY <1>1, <1>2, PrefixDef
<1>4. ~Ended(p) /\ Root # p
  BY StoreAssumption DEF Looping, Fetching, Ended, Terminal
<1>5. remote[1].op = Root
  BY DEF HistoryInv
<1>6. ASSUME NEW i \in 1 .. Len(remote), remote[i].op = p
      PROVE  /\ i = Len(observed[p]) + 1
             /\ Admits(StateAt(observed[p]), intent[p])
  <2>1. i \in 2 .. Len(remote)
    BY <1>2, <1>4, <1>5, <1>6
  <2>2. Len(observed[p]) = i - 1 /\ Admits(remote[i - 1].state, intent[p])
    BY <1>4, <1>6, <2>1 DEF HistoryInv
  <2>3. StateAt(observed[p]) = remote[i - 1].state
    <3>1. StateAt(observed[p]) = observed[p][Len(observed[p])].state
      BY <1>1, StateAtFacts
    <3>2. Len(observed[p]) \in 1 .. Len(observed[p])
      BY <1>2
    <3> QED
      BY <1>3, <2>2, <3>1, <3>2
  <2> QED
    BY <1>2, <2>1, <2>2, <2>3
<1>7. p \notin OperationsOn(observed[p])
  <2> SUFFICES ASSUME NEW i \in 1 .. Len(observed[p]), observed[p][i].op = p PROVE FALSE
    BY <1>2 DEF OperationsOn
  <2>1. i \in 1 .. Len(remote) /\ remote[i].op = p
    BY <1>2, <1>3
  <2> QED
    BY <1>2, <1>6, <2>1
<1>8. ASSUME p \in OperationsOn(remote)
      PROVE  /\ Admits(StateAt(observed[p]), intent[p])
             /\ Len(observed[p]) < Len(remote)
             /\ remote[Len(observed[p]) + 1].op = p
  <2>1. PICK i \in 1 .. Len(remote) : remote[i].op = p
    BY <1>2, <1>8 DEF OperationsOn
  <2> QED
    BY <1>2, <1>6, <2>1
<1> QED
  BY <1>7, <1>8

\* A search that comes back empty although the operation has landed has read
\* the ref before it landed, and found it where it was.
LEMMA EmptySearch ==
  ASSUME TypeOK, CourseInv, AncestryInv, HistoryInv, NEW p \in Processes,
         pc[p] = "search", p \notin OperationsSince(observed[p], fetched[p])
  PROVE  /\ IsPrefix(observed[p], fetched[p]) /\ fetched[p] # NoRef
         /\ p \in OperationsOn(remote) => fetched[p] = observed[p]
<1>1. Looping(p) /\ Searching(p)
  BY DEF Looping, Searching
<1>2. /\ observed[p] \in Commit /\ fetched[p] \in Commit /\ remote \in Commit
      /\ IsPrefix(observed[p], fetched[p]) /\ IsPrefix(fetched[p], remote)
      /\ observed[p] # NoRef
  BY <1>1 DEF TypeOK, AncestryInv
<1>3. /\ observed[p] \in Seq(Entry) /\ fetched[p] \in Seq(Entry) /\ remote \in Seq(Entry)
      /\ Len(observed[p]) \in Nat /\ Len(fetched[p]) \in Nat /\ Len(remote) \in Nat
      /\ Len(observed[p]) # 0
      /\ DOMAIN fetched[p] = 1 .. Len(fetched[p])
  BY <1>2, CommitFacts
<1>4. Len(observed[p]) <= Len(fetched[p])
      /\ \A i \in 1 .. Len(observed[p]) : observed[p][i] = fetched[p][i]
  BY <1>2, <1>3, PrefixDef
<1>5. /\ Len(fetched[p]) <= Len(remote)
      /\ \A i \in 1 .. Len(fetched[p]) : fetched[p][i] = remote[i]
  BY <1>2, <1>3, PrefixDef
<1>6. p \notin OperationsOn(fetched[p])
  BY <1>1, <1>2, <1>3, LoopingFacts, OperationsSinceIsComplete
<1>7. ASSUME p \in OperationsOn(remote) PROVE fetched[p] = observed[p]
  <2>1. Len(observed[p]) < Len(remote) /\ remote[Len(observed[p]) + 1].op = p
    BY <1>1, <1>7, LoopingFacts
  <2>2. ~(Len(observed[p]) + 1 <= Len(fetched[p]))
    <3> SUFFICES ASSUME Len(observed[p]) + 1 <= Len(fetched[p]) PROVE FALSE
      OBVIOUS
    <3>1. Len(observed[p]) + 1 \in 1 .. Len(fetched[p])
      BY <1>3
    <3>2. fetched[p][Len(observed[p]) + 1].op = p
      BY <1>5, <2>1, <3>1
    <3> QED
      BY <1>3, <1>6, <3>1, <3>2 DEF OperationsOn
  <2>3. Len(fetched[p]) = Len(observed[p])
    BY <1>3, <1>4, <2>2
  <2> QED
    BY <1>3, <1>4, <2>3, SeqEqual
<1>8. fetched[p] # NoRef
  BY <1>2, <1>3, <1>4, CommitFacts
<1> QED
  BY <1>2, <1>7, <1>8

\* Whatever was read of the ref stays an ancestor of it.
LEMMA AncestryStep ==
  ASSUME TypeOK, CourseInv, AncestryInv, HistoryInv, WireInv, PendingInv, Next
  PROVE  AncestryInv'
<1>1. /\ remote \in Commit /\ remote' \in Commit
      /\ IsPrefix(remote, remote') /\ remote' # NoRef
  BY RemoteGrows DEF TypeOK
<1>2. \A c \in Commit : IsPrefix(c, remote) => IsPrefix(c, remote')
  <2> SUFFICES ASSUME NEW c \in Commit, IsPrefix(c, remote) PROVE IsPrefix(c, remote')
    OBVIOUS
  <2>1. c \in Seq(Entry) /\ remote \in Seq(Entry) /\ remote' \in Seq(Entry)
    BY <1>1, CommitFacts
  <2> QED
    BY <1>1, <2>1, PrefixOrder
<1>3. IsPrefix(NoRef, remote) /\ IsPrefix(remote, remote)
  <2>1. remote \in Seq(Entry)
    BY <1>1, CommitFacts
  <2> QED
    BY <2>1, PrefixOrder DEF NoRef
<1>4. \A p \in Processes : Onward(p)
  BY NextOnward
<1>5. ASSUME NEW w \in Worktrees PROVE IsPrefix(stamp'[w], remote')
  <2>1. stamp[w] \in Commit /\ IsPrefix(stamp[w], remote)
    BY DEF TypeOK, AncestryInv
  <2>2. CASE UNCHANGED stamp
    BY <1>2, <2>1, <2>2
  <2>3. ASSUME NEW p \in Processes, WriteStamp(p) PROVE IsPrefix(stamp'[w], remote')
    <3>1. stamp'[w] \in {stamp[w], fetched[p]}
      BY <2>3 DEF WriteStamp, TypeOK
    <3>2. fetched[p] \in Commit /\ IsPrefix(fetched[p], remote)
      BY DEF TypeOK, AncestryInv
    <3> QED
      BY <1>2, <2>1, <3>1, <3>2
  <2>4. ASSUME NEW p \in Processes, Landed(p) PROVE IsPrefix(stamp'[w], remote')
    <3>1. stamp'[w] \in {stamp[w], pending[p]}
      BY <2>4 DEF Landed, TypeOK
    <3>2. pending[p] \in Commit /\ IsPrefix(pending[p], remote)
      BY <2>4 DEF TypeOK, PendingInv, Landed
    <3> QED
      BY <1>2, <2>1, <3>1, <3>2
  <2> QED
    BY <2>2, <2>3, <2>4, StampSteps
<1>6. ASSUME NEW p \in Processes
      PROVE  /\ IsPrefix(fetched'[p], remote')
             /\ IsPrefix(observed'[p], remote')
             /\ Looping(p)' => observed'[p] # NoRef
             /\ Searching(p)' => IsPrefix(observed'[p], fetched'[p])
  <2>1. /\ fetched[p] \in Commit /\ IsPrefix(fetched[p], remote)
        /\ observed[p] \in Commit /\ IsPrefix(observed[p], remote)
        /\ Looping(p) => observed[p] # NoRef
        /\ Searching(p) => IsPrefix(observed[p], fetched[p])
    BY DEF TypeOK, AncestryInv
  <2>2. IsPrefix(fetched'[p], remote')
    BY <1>1, <1>2, <1>3, <1>4, <2>1, NoRefType DEF Onward, Advances
  <2>3. IsPrefix(observed'[p], remote')
    BY <1>2, <1>3, <1>4, <2>1, NoRefType DEF Onward, Advances
  <2>4. ASSUME Looping(p)' PROVE observed'[p] # NoRef
    <3>1. CASE Retry(p) /\ observed'[p] = fetched[p]
      BY <3>1, EmptySearch DEF Retry
    <3> QED
      BY <1>4, <2>1, <2>4, <3>1 DEF Onward, Advances
  <2>5. ASSUME Searching(p)' PROVE IsPrefix(observed'[p], fetched'[p])
    BY <1>4, <2>1, <2>5 DEF Onward, Advances
  <2> QED
    BY <2>2, <2>3, <2>4, <2>5
<1> QED
  BY <1>1, <1>5, <1>6 DEF AncestryInv

\* A transition that has begun never begins again.
LEMMA SubmittedLoopsNext ==
  ASSUME TypeOK', CourseInv'
  PROVE  \A q \in Processes : Submitted(q)' /\ ~Ended(q)' => Looping(q)'
BY DEF TypeOK, CourseInv, Labels, Purposes, Ended, Building, Handing, Looping, Fetching

\* An operation already on the ref stays based on the commit below its own.
LEMMA BaseStays ==
  ASSUME TypeOK, CourseInv, AncestryInv, HistoryInv, Next,
         NEW p \in Processes, Submitted(p), ~Ended(p)'
  PROVE  /\ ~Ended(p) /\ Looping(p) /\ Looping(p)'
         /\ Len(observed[p]) <= Len(observed'[p])
         /\ p \in OperationsOn(remote) => observed'[p] = observed[p]
<1>1. Onward(p) /\ TypeOK' /\ CourseInv'
  BY NextOnward, NextType
<1>2. Submitted(p)' /\ ~Ended(p)
  BY <1>1 DEF Onward, Advances, Ended
<1>3. Looping(p) /\ Looping(p)'
  BY <1>1, <1>2, SubmittedLoops, SubmittedLoopsNext
<1>4. pc[p] # "transition"
  BY DEF CourseInv, Handing
<1>5. Len(observed[p]) \in Nat
  BY CommitFacts DEF TypeOK
<1>6. CASE observed'[p] = observed[p]
  BY <1>2, <1>3, <1>5, <1>6
<1>7. CASE Retry(p) /\ observed'[p] = fetched[p]
  <2>1. /\ IsPrefix(observed[p], fetched[p])
        /\ p \in OperationsOn(remote) => fetched[p] = observed[p]
    BY <1>7, EmptySearch DEF Retry
  <2>2. observed[p] \in Seq(Entry) /\ fetched[p] \in Seq(Entry)
    BY CommitFacts DEF TypeOK
  <2>3. Len(observed[p]) <= Len(fetched[p])
    BY <2>1, <2>2, PrefixDef
  <2> QED
    BY <1>2, <1>3, <1>7, <2>1, <2>3
<1> QED
  BY <1>1, <1>3, <1>4, <1>6, <1>7 DEF Onward, Advances

\* Every commit on the ref stays the application of its operation's intent.
LEMMA HistoryStep ==
  ASSUME TypeOK, CourseInv, AncestryInv, HistoryInv, WireInv, Next
  PROVE  HistoryInv'
<1>1. \A p \in Processes : Onward(p)
  BY NextOnward
<1>2. /\ remote \in Commit /\ remote # NoRef
      /\ Len(remote) \in Nat /\ Len(remote) # 0 /\ DOMAIN remote = 1 .. Len(remote)
      /\ remote \in Seq(Entry)
  BY CommitFacts DEF TypeOK, AncestryInv
<1>3. ASSUME NEW i \in 2 .. Len(remote), NEW p, p = remote[i].op
      PROVE  /\ p \in Processes
             /\ tally'[p].attempt # 0
             /\ Admits(remote[i - 1].state, intent'[p])
             /\ remote[i].state = CommittedState(remote[i - 1].state, intent'[p])
             /\ pc'[p] \notin Terminal => Len(observed'[p]) = i - 1
  <2>1. /\ p \in Processes /\ Submitted(p)
        /\ Admits(remote[i - 1].state, intent[p])
        /\ remote[i].state = CommittedState(remote[i - 1].state, intent[p])
        /\ ~Ended(p) => Len(observed[p]) = i - 1
    BY <1>3 DEF HistoryInv
  <2>2. p \in OperationsOn(remote)
    BY <1>2, <1>3 DEF OperationsOn
  <2>3. Submitted(p)' /\ intent'[p] = intent[p]
    BY <1>1, <2>1 DEF Onward, Advances
  <2>4. ~Ended(p)' => Len(observed'[p]) = i - 1
    BY <2>1, <2>2, BaseStays
  <2> QED
    BY <2>1, <2>3, <2>4 DEF Submitted, Ended
<1>4. CASE UNCHANGED remote
  BY <1>3, <1>4 DEF HistoryInv, AppliedAtMostOnce, Submitted, Ended
<1>5. ASSUME NEW push \in wire, push.old = remote, remote' = push.new, remote' # remote
      PROVE  HistoryInv'
  <2> DEFINE p == push.op
             e == Last(push.new)
             n == Len(remote) + 1
  <2>1. /\ p \in Processes /\ push.new = Append(remote, e) /\ e \in Entry
        /\ e = [op |-> p, state |-> CommittedState(StateAt(remote), intent[p])]
        /\ Admits(StateAt(remote), intent[p])
        /\ p \notin OperationsOn(remote)
        /\ Front(push.new) = remote
        /\ Submitted(p)
    BY <1>5, AcceptedCommit
  <2> HIDE DEF p, e
  <2>2. /\ Len(remote') = n /\ remote'[n] = e
        /\ \A i \in 1 .. Len(remote) : remote'[i] = remote[i]
        /\ DOMAIN remote' = 1 .. n
    <3>1. /\ Append(remote, e) \in Seq(Entry)
          /\ Len(Append(remote, e)) = n /\ Append(remote, e)[n] = e
          /\ \A i \in 1 .. Len(remote) : Append(remote, e)[i] = remote[i]
      BY <1>2, <2>1, AppendProperties
    <3>2. DOMAIN Append(remote, e) = 1 .. n
      BY <3>1, LenProperties
    <3> QED
      BY <1>5, <2>1, <3>1, <3>2
  <2>3. StateAt(remote) = remote[Len(remote)].state
    BY <1>2, StateAtFacts
  <2>4. Submitted(p)' /\ intent'[p] = intent[p]
    BY <1>1, <2>1 DEF Onward, Advances
  <2>5. ASSUME ~Ended(p)' PROVE Len(observed'[p]) = n - 1
    <3>1. Looping(p)' /\ ~Ended(p) /\ Len(observed[p]) <= Len(observed'[p])
      BY <2>1, <2>5, BaseStays
    <3>2. Len(remote) <= Len(observed[p])
      <4>1. PushOK(push)
        BY DEF WireInv
      <4> QED
        BY <2>1, <3>1, <4>1 DEF PushOK, p
    <3>3. observed'[p] \in Commit /\ observed[p] \in Commit
      BY <2>1, NextType DEF TypeOK
    <3>4. observed'[p] \in {observed[p], NoRef, fetched[p]} /\ observed'[p] # NoRef
      <4>1. Len(observed'[p]) # 0
        BY <1>2, <3>1, <3>2, <3>3, CommitFacts
      <4> QED
        BY <1>1, <2>1, <3>3, <4>1, CommitFacts DEF Onward, Advances
    <3>5. IsPrefix(observed'[p], remote)
      BY <2>1, <3>4 DEF AncestryInv
    <3>6. Len(observed'[p]) <= Len(remote)
      BY <1>2, <3>3, <3>5, CommitFacts, PrefixDef
    <3>7. Len(observed[p]) \in Nat /\ Len(observed'[p]) \in Nat
      BY <3>3, CommitFacts
    <3> QED
      BY <1>2, <3>1, <3>2, <3>6, <3>7
  <2>6. /\ remote'[n].op = p /\ remote'[n - 1] = remote[Len(remote)]
        /\ remote'[n].state = CommittedState(StateAt(remote), intent[p])
    BY <1>2, <2>1, <2>2
  <2>7. ASSUME NEW i \in 2 .. n
        PROVE  /\ remote'[i].op \in Processes
               /\ tally'[remote'[i].op].attempt # 0
               /\ Admits(remote'[i - 1].state, intent'[remote'[i].op])
               /\ remote'[i].state = CommittedState(remote'[i - 1].state, intent'[remote'[i].op])
               /\ pc'[remote'[i].op] \notin Terminal => Len(observed'[remote'[i].op]) = i - 1
    <3>1. CASE i = n
      BY <2>1, <2>3, <2>4, <2>5, <2>6, <3>1 DEF Submitted, Ended
    <3>2. CASE i # n
      <4>1. i \in 2 .. Len(remote) /\ i \in 1 .. Len(remote) /\ i - 1 \in 1 .. Len(remote)
        BY <1>2, <3>2
      <4>2. remote'[i] = remote[i] /\ remote'[i - 1] = remote[i - 1]
        BY <2>2, <4>1
      <4> QED
        BY <1>3, <4>1, <4>2
    <3> QED
      BY <3>1, <3>2
  <2>8. remote'[1] = [op |-> Root, state |-> BootstrapState(1)]
    BY <1>2, <2>2 DEF HistoryInv
  <2>9. AppliedAtMostOnce'
    <3>1. \A i \in 1 .. Len(remote) : remote[i].op # p
      BY <1>2, <2>1 DEF OperationsOn
    <3>2. \A i \in 1 .. n : i = n \/ i \in 1 .. Len(remote)
      BY <1>2
    <3>3. \A i, j \in 1 .. Len(remote) : remote[i].op = remote[j].op => i = j
      BY <1>2 DEF HistoryInv, AppliedAtMostOnce
    <3> QED
      BY <2>2, <2>6, <3>1, <3>2, <3>3 DEF AppliedAtMostOnce
  <2> QED
    BY <2>2, <2>7, <2>8, <2>9 DEF HistoryInv, Submitted, Ended
<1> QED
  BY <1>4, <1>5, RemoteSteps

\* An intent that was submitted is committed the same way after any step.
LEMMA SameCommit ==
  ASSUME NEW CONSTANT p, NEW CONSTANT base, intent'[p] = intent[p]
  PROVE  CommitOnto(p, base)' = CommitOnto(p, base)
BY DEF CommitOnto

\* Every push on the wire stays one that the server may accept.
LEMMA WireStep ==
  ASSUME TypeOK, CourseInv, AncestryInv, HistoryInv, WireInv, Next
  PROVE  WireInv'
<1>1. \A p \in Processes : Onward(p)
  BY NextOnward
<1>2. \A c \in Commit : IsPrefix(c, remote) => IsPrefix(c, remote')
  <2> SUFFICES ASSUME NEW c \in Commit, IsPrefix(c, remote) PROVE IsPrefix(c, remote')
    OBVIOUS
  <2>1. c \in Seq(Entry) /\ remote \in Seq(Entry) /\ remote' \in Seq(Entry)
    BY RemoteGrows, CommitFacts DEF TypeOK
  <2> QED
    BY <2>1, RemoteGrows, PrefixOrder
<1>3. ASSUME NEW CONSTANT push, push \in wire PROVE PushOK(push)'
  <2> DEFINE p == push.op
             base == Front(push.new)
  <2> HIDE DEF p, base
  <2>1. /\ p \in Processes /\ PushOK(push) /\ push.old \in Commit /\ push.attempt \in Nat
    <3>1. push \in PushInFlight /\ PushOK(push)
      BY <1>3 DEF TypeOK, WireInv
    <3> QED
      BY <3>1, StoreAssumption DEF p, PushInFlight, Positive
  <2>2. /\ push.new = CommitOnto(p, base)
        /\ base \in Commit /\ base # NoRef /\ IsPrefix(base, remote)
        /\ Admits(StateAt(base), intent[p])
        /\ p \notin OperationsOn(base)
        /\ push.old \in {base, push.new} /\ IsPrefix(push.old, remote)
        /\ Submitted(p)
        /\ push.attempt <= tally[p].attempt
        /\ pc[p] = "apply" => push.attempt < tally[p].attempt
        /\ ~Ended(p) => Len(base) <= Len(observed[p])
        /\ pc[p] = "sent" /\ tally[p].attempt = push.attempt => push.new = pending[p]
    BY <2>1 DEF PushOK, p, base, Awaited
  <2>3. /\ Submitted(p)' /\ intent'[p] = intent[p]
        /\ tally[p].attempt <= tally'[p].attempt
        /\ tally[p].attempt \in Nat /\ tally'[p].attempt \in Nat
    BY <1>1, <2>1, <2>2, NextType, StoreAssumption
    DEF Onward, Advances, TypeOK, Tally, Positive
  <2>4. push.new = CommitOnto(p, base)'
    BY <2>2, <2>3, SameCommit
  <2>5. push.attempt <= tally'[p].attempt
    BY <2>1, <2>2, <2>3
  <2>6. pc'[p] = "apply" => push.attempt < tally'[p].attempt
    BY <1>1, <2>1, <2>2, <2>3 DEF Onward, Arrives
  <2>7. ~Ended(p)' => Len(base) <= Len(observed'[p])
    <3>1. /\ Len(base) \in Nat /\ Len(observed[p]) \in Nat /\ Len(observed'[p]) \in Nat
      BY <2>1, <2>2, NextType, CommitFacts DEF TypeOK
    <3> QED
      BY <2>1, <2>2, <3>1, BaseStays
  <2>8. pc'[p] = "sent" /\ tally'[p].attempt = push.attempt => push.new = pending'[p]
    <3>1. CASE Still(p)
      BY <2>2, <3>1 DEF Still
    <3>2. CASE Push(p)
      BY <2>1, <2>2, <2>3, <3>2 DEF Push
    <3> QED
      BY <1>1, <2>1, <3>1, <3>2 DEF Onward, Arrives
  <2> QED
    BY <1>2, <2>1, <2>2, <2>3, <2>4, <2>5, <2>6, <2>7, <2>8 DEF PushOK, p, base, Awaited
<1>4. ASSUME NEW CONSTANT p, p \in Processes, Push(p), IsPrefix(remote, Fresh(p)),
             NEW CONSTANT push, push = FreshPush(p)
      PROVE  PushOK(push)'
  <2> DEFINE base == observed[p]
             e == [op |-> p, state |-> CommittedState(StateAt(base), intent[p])]
  <2>1. Looping(p) /\ Submitted(p) /\ intent[p].kind # "none" /\ ~Ended(p)
    BY <1>4 DEF Push, Looping, CourseInv, Ended, Terminal
  <2>2. /\ base \in Commit /\ IsPrefix(base, remote) /\ base # NoRef /\ base \in Seq(Entry)
        /\ remote \in Seq(Entry)
    BY <1>4, <2>1, CommitFacts DEF TypeOK, AncestryInv
  <2>3. Fresh(p) = Append(base, e) /\ e \in Entry
    BY <1>4, <2>1, <2>2, CommitOntoFacts DEF Fresh
  <2> HIDE DEF e
  <2>4. Front(Fresh(p)) = base
    BY <2>2, <2>3, OneMore
  <2>5. p \notin OperationsOn(base) /\ Admits(StateAt(base), intent[p])
    <3>1. intent[p].kind # "bootstrap"
      BY <1>4, <2>1 DEF TypeOK, AnyIntent, ClaimIntent, RescopeIntent, ReleaseIntent,
                        ItemWriteIntent, LandingIntent
    <3> QED
      BY <1>4, <2>1, <3>1, LoopingFacts DEF Push, Committable
  <2>6. remote \in {base, Fresh(p)} /\ IsPrefix(remote, remote)
    <3>1. IsPrefix(remote, base) \/ remote = Fresh(p)
      BY <1>4, <2>2, <2>3, OneMore
    <3> QED
      BY <2>2, <3>1, PrefixOrder
  <2>7. /\ UNCHANGED <<remote, intent, tally, observed>>
        /\ pc'[p] # "apply" /\ pending'[p] = Fresh(p)
    BY <1>4 DEF Push, Fresh, TypeOK, Goto, Fetch
  <2>8. CommitOnto(p, base)' = CommitOnto(p, base)
    BY <2>7 DEF CommitOnto
  <2>9. /\ push.op = p /\ push.attempt = tally[p].attempt
        /\ push.old = remote /\ push.new = Fresh(p)
    BY <1>4 DEF FreshPush
  <2>10. tally[p].attempt <= tally[p].attempt /\ Len(base) <= Len(base)
    <3>1. tally[p].attempt \in Nat /\ Len(base) \in Nat
      BY <1>4, <2>2, CommitFacts, StoreAssumption DEF TypeOK, Tally, Positive
    <3> QED
      BY <3>1
  <2> DEFINE fresh == Fresh(p)
  <2>11. /\ push.new = CommitOnto(p, base)' /\ Front(push.new) = base /\ base' = base
    BY <2>4, <2>7, <2>8, <2>9 DEF Fresh
  <2>12. /\ push.old \in {base, push.new} /\ IsPrefix(push.old, remote')
         /\ IsPrefix(base, remote')
    BY <2>2, <2>6, <2>7, <2>9
  <2>13. Submitted(p)' /\ intent'[p] = intent[p] /\ observed'[p] = base
    BY <2>1, <2>7 DEF Submitted
  <2> HIDE DEF base
  <2>14. push.attempt <= tally'[p].attempt /\ Len(base) <= Len(observed'[p])
    BY <2>7, <2>9, <2>10, <2>13
  <2>15. push.new = pending'[p]
    BY <2>7, <2>9
  <2>16. push.new = CommitOnto(p, Front(push.new))'
    BY <2>11, <2>13 DEF CommitOnto
  <2> QED
    BY <2>2, <2>5, <2>7, <2>9, <2>11, <2>12, <2>13, <2>14, <2>15, <2>16
    DEF PushOK, Awaited
<1>5. \A push \in wire' : PushOK(push)'
  BY <1>3, <1>4, WireSteps
<1> QED
  BY <1>5 DEF WireInv

\* What a process pushed last stays the commit it reports.
LEMMA PendingStep ==
  ASSUME TypeOK, CourseInv, AncestryInv, WireInv, PendingInv, Next
  PROVE  PendingInv'
<1> SUFFICES ASSUME NEW CONSTANT p, p \in Processes
             PROVE  /\ pc'[p] \in {"sent", "landed"} => pending'[p] = CommitOnto(p, observed[p])'
                    /\ pc'[p] = "landed" => IsPrefix(pending'[p], remote')
  BY DEF PendingInv
<1>1. Onward(p)
  BY NextOnward
<1>2. ASSUME Still(p), pc[p] \in {"sent", "landed"}
      PROVE  /\ pending'[p] = CommitOnto(p, observed[p])'
             /\ pc[p] = "landed" => IsPrefix(pending'[p], remote')
  <2>1. pending[p] = CommitOnto(p, observed[p])
    BY <1>2 DEF PendingInv
  <2>2. CommitOnto(p, observed[p])' = CommitOnto(p, observed[p])
    BY <1>2 DEF Still, CommitOnto
  <2>3. ASSUME pc[p] = "landed" PROVE IsPrefix(pending[p], remote')
    <3>1. /\ pending[p] \in Seq(Entry) /\ remote \in Seq(Entry) /\ remote' \in Seq(Entry)
          /\ IsPrefix(remote, remote')
      BY RemoteGrows, CommitFacts DEF TypeOK
    <3>2. IsPrefix(pending[p], remote)
      BY <2>3 DEF PendingInv
    <3> QED
      BY <3>1, <3>2, PrefixOrder
  <2> QED
    BY <1>2, <2>1, <2>2, <2>3 DEF Still
<1>3. CASE Push(p)
  <2>1. pending'[p] = CommitOnto(p, observed[p]) /\ UNCHANGED <<intent, observed>>
    BY <1>3 DEF Push, TypeOK
  <2>2. CommitOnto(p, observed[p])' = CommitOnto(p, observed[p])
    BY <2>1 DEF CommitOnto
  <2>3. pc'[p] # "landed"
    BY <1>3 DEF Push, TypeOK, Goto, Fetch
  <2> QED
    BY <2>1, <2>2, <2>3
<1>4. ASSUME NEW push \in wire, push.op = p, AcceptPush(push)
      PROVE  /\ pending'[p] = CommitOnto(p, observed[p])'
             /\ IsPrefix(pending'[p], remote')
  <2>1. /\ pc[p] = "sent" /\ Awaited(push) /\ remote' = push.new
        /\ UNCHANGED <<intent, observed, pending>>
    BY <1>4 DEF AcceptPush, Awaited
  <2>2. pending[p] = CommitOnto(p, observed[p]) /\ push.new = pending[p]
    BY <1>4, <2>1 DEF PendingInv, WireInv, PushOK
  <2>3. CommitOnto(p, observed[p])' = CommitOnto(p, observed[p])
    BY <2>1 DEF CommitOnto
  <2>4. pending[p] \in Seq(Entry)
    BY CommitFacts DEF TypeOK
  <2> QED
    BY <2>1, <2>2, <2>3, <2>4, PrefixOrder
<1>5. pc'[p] \in {"sent", "landed"} => \/ Still(p)
                                       \/ Push(p)
                                       \/ \E push \in wire : push.op = p /\ AcceptPush(push)
  BY <1>1 DEF Onward, Arrives
<1>6. Still(p) => pc'[p] = pc[p]
  BY DEF Still
<1> QED
  BY <1>2, <1>3, <1>4, <1>5, <1>6

\* A command that has not submitted anything is nowhere to be found.
LEMMA Unsubmitted ==
  ASSUME TypeOK, HistoryInv, WireInv, NEW p \in Processes, ~Submitted(p)
  PROVE  /\ p \notin OperationsOn(remote)
         /\ \A push \in wire : push.op # p
<1>1. /\ DOMAIN remote = 1 .. Len(remote) /\ Len(remote) \in Nat
  BY CommitFacts DEF TypeOK
<1>2. ASSUME NEW i \in DOMAIN remote, remote[i].op = p PROVE FALSE
  <2>1. CASE i = 1
    BY <1>2, <2>1, StoreAssumption DEF HistoryInv
  <2>2. CASE i # 1
    <3>1. i \in 2 .. Len(remote)
      BY <1>1, <2>2
    <3> QED
      BY <1>2, <3>1 DEF HistoryInv
  <2> QED
    BY <2>1, <2>2
<1>3. p \notin OperationsOn(remote)
  BY <1>2 DEF OperationsOn
<1>4. \A push \in wire : push.op # p
  BY DEF WireInv, PushOK
<1> QED
  BY <1>3, <1>4

\* A refused intent has not landed and cannot: had it, or could a push of it
\* still, the state it was refused on would have admitted it.
LEMMA RefusedIntent ==
  ASSUME TypeOK, CourseInv, AncestryInv, HistoryInv, WireInv,
         NEW p \in Processes, RefuseIntent(p)
  PROVE  /\ p \notin OperationsOn(remote)
         /\ \A push \in wire : push.op = p => push.old # remote
<1>1. Looping(p) /\ ~Ended(p) /\ ~Admits(StateAt(observed[p]), intent[p])
  BY DEF RefuseIntent, Looping, Committable, Ended, Terminal
<1>2. p \notin OperationsOn(remote)
  BY <1>1, LoopingFacts
<1>3. ASSUME NEW push \in wire, push.op = p, push.old = remote PROVE FALSE
  <2> DEFINE base == Front(push.new)
  <2> HIDE DEF base
  <2>1. /\ base \in Commit /\ p \in OperationsOn(push.new) /\ PushOK(push)
    BY <1>3, PushFacts DEF base
  <2>2. /\ Admits(StateAt(base), intent[p]) /\ push.old \in {base, push.new}
        /\ Len(base) <= Len(observed[p])
    BY <1>1, <1>3, <2>1 DEF PushOK, base
  <2>3. remote = base
    BY <1>2, <1>3, <2>1, <2>2
  <2>4. /\ observed[p] \in Seq(Entry) /\ remote \in Seq(Entry)
        /\ Len(observed[p]) \in Nat /\ Len(remote) \in Nat
        /\ IsPrefix(observed[p], remote)
    BY CommitFacts DEF TypeOK, AncestryInv
  <2>5. Len(observed[p]) = Len(remote)
    BY <2>2, <2>3, <2>4, PrefixDef
  <2>6. observed[p] = remote
    BY <2>4, <2>5, PrefixDef, SeqEqual
  <2> QED
    BY <1>1, <2>2, <2>3, <2>6
<1> QED
  BY <1>2, <1>3

\* A verdict that was given stays true.
LEMMA VerdictStep ==
  ASSUME TypeOK, CourseInv, AncestryInv, HistoryInv, WireInv, PendingInv, VerdictsAreFinal, Next
  PROVE  VerdictsAreFinal'
<1> SUFFICES ASSUME NEW CONSTANT p, p \in Processes
             PROVE  /\ pc'[p] = "done" /\ intent'[p].kind # "none" => p \in OperationsOn(remote')
                    /\ pc'[p] = "refused" =>
                         /\ p \notin OperationsOn(remote')
                         /\ \A push \in wire' : push.op = p => push.old # remote'
  BY DEF VerdictsAreFinal, OperationsOn
<1>1. Onward(p)
  BY NextOnward
<1>2. /\ remote \in Seq(Entry) /\ remote' \in Seq(Entry) /\ IsPrefix(remote, remote')
  BY RemoteGrows, CommitFacts DEF TypeOK
<1>3. OperationsOn(remote) \subseteq OperationsOn(remote')
  BY <1>2, OperationsOnAncestor
<1>4. ASSUME pc'[p] = "done", intent'[p].kind # "none" PROVE p \in OperationsOn(remote')
  <2>1. CASE pc[p] = "done"
    <3>1. intent'[p] = intent[p]
      BY <1>1, <2>1 DEF Onward, Advances, Ended, Terminal
    <3> QED
      BY <1>3, <1>4, <2>1, <3>1 DEF VerdictsAreFinal
  <2>2. CASE FoundOwnOperation(p)
    <3>1. /\ Searching(p) /\ p \in OperationsSince(observed[p], fetched[p])
      BY <2>2 DEF FoundOwnOperation, Searching
    <3>2. /\ observed[p] \in Seq(Entry) /\ fetched[p] \in Seq(Entry)
          /\ IsPrefix(observed[p], fetched[p]) /\ IsPrefix(fetched[p], remote)
      BY <3>1, CommitFacts DEF TypeOK, AncestryInv
    <3>3. p \in OperationsOn(fetched[p])
      BY <3>1, <3>2, OperationsSinceIsComplete
    <3>4. OperationsOn(fetched[p]) \subseteq OperationsOn(remote)
      BY <1>2, <3>2, OperationsOnAncestor
    <3> QED
      BY <1>3, <3>3, <3>4
  <2>3. CASE Landed(p)
    <3>1. /\ pending[p] = CommitOnto(p, observed[p]) /\ IsPrefix(pending[p], remote)
          /\ Looping(p)
      BY <2>3 DEF Landed, PendingInv, Looping
    <3>2. intent[p].kind # "none" /\ observed[p] \in Commit
      BY <3>1 DEF CourseInv, TypeOK
    <3> DEFINE e == [op |-> p, state |-> CommittedState(StateAt(observed[p]), intent[p])]
    <3>3. pending[p] = Append(observed[p], e) /\ e \in Entry /\ e.op = p
      BY <3>1, <3>2, CommitOntoFacts
    <3> HIDE DEF e
    <3>4. observed[p] \in Seq(Entry) /\ pending[p] \in Seq(Entry)
      BY <3>2, CommitFacts DEF TypeOK
    <3>5. p \in OperationsOn(pending[p])
      BY <3>3, <3>4, OperationsOnMore
    <3>6. OperationsOn(pending[p]) \subseteq OperationsOn(remote)
      BY <1>2, <3>1, <3>4, OperationsOnAncestor
    <3> QED
      BY <1>3, <3>5, <3>6
  <2> QED
    BY <1>1, <1>4, <2>1, <2>2, <2>3 DEF Onward, Arrives
<1>5. ASSUME pc'[p] = "refused"
      PROVE  /\ p \notin OperationsOn(remote')
             /\ \A push \in wire' : push.op = p => push.old # remote'
  <2>1. p \notin OperationsOn(remote) /\ \A push \in wire : push.op = p => push.old # remote
    BY <1>1, <1>5, Unsubmitted, RefusedIntent DEF Onward, Arrives, VerdictsAreFinal
  <2>2. p \notin OperationsOn(remote')
    <3>1. ASSUME NEW push \in wire, push.old = remote, remote' = push.new, remote' # remote
          PROVE  p \notin OperationsOn(remote')
      <4>1. /\ push.new = Append(remote, Last(push.new)) /\ Last(push.new) \in Entry
            /\ Last(push.new) = [op |-> push.op,
                                 state |-> CommittedState(StateAt(remote), intent[push.op])]
        BY <3>1, AcceptedCommit
      <4>2. Last(push.new).op = push.op
        BY <4>1
      <4>3. OperationsOn(Append(remote, Last(push.new)))
              = OperationsOn(remote) \cup {Last(push.new).op}
        BY <1>2, <4>1, OperationsOnMore
      <4>4. OperationsOn(remote') = OperationsOn(remote) \cup {push.op}
        BY <3>1, <4>1, <4>2, <4>3
      <4> QED
        BY <2>1, <3>1, <4>4
    <3> QED
      BY <2>1, <3>1, RemoteSteps
  <2>3. ASSUME NEW push \in wire', push.op = p PROVE push.old # remote'
    <3>1. push \in wire
      <4>1. ASSUME NEW q \in Processes, Push(q), push = FreshPush(q) PROVE FALSE
        BY <1>5, <2>3, <4>1 DEF FreshPush, Push, TypeOK, Goto, Fetch
      <4> QED
        BY <4>1, WireSteps
    <3>2. push.old \in Seq(Entry) /\ IsPrefix(push.old, remote)
      BY <3>1, CommitFacts, PushFacts DEF PushOK
    <3> QED
      BY <1>2, <2>1, <2>3, <3>1, <3>2, PrefixOrder
  <2> QED
    BY <2>2, <2>3
<1> QED
  BY <1>4, <1>5

\* The inductive invariant holds at the start.
LEMMA InitInv ==
  ASSUME Init
  PROVE  IInv
<1> DEFINE first == [op |-> Root, state |-> BootstrapState(1)]
<1>1. /\ BootstrapState(1) = [tip |-> 1, claims |-> {}, consumed |-> {}, occupied |-> {},
                              items |-> [i \in ItemIds |-> NoBlob]]
      /\ EMPTY_STATE \in ClaimState
  BY DEF BootstrapState, EMPTY_STATE, ClaimState
<1>2. first \in Entry /\ IsFiniteSet(first.state.occupied) /\ first.state.tip = 1
  <2>1. BootstrapState(1) \in ClaimState
    BY <1>1 DEF ClaimState
  <2>2. first \in Entry
    BY <2>1 DEF Entry
  <2>3. IsFiniteSet({})
    BY FS_EmptySet
  <2> QED
    BY <1>1, <2>2, <2>3
<1> HIDE DEF first
<1>3. /\ remote = <<first>> /\ remote \in Seq(Entry) /\ DOMAIN remote = {1}
      /\ Len(remote) = 1 /\ remote[1] = first
  BY <1>2 DEF Init, first
<1>4. remote \in Commit /\ remote # NoRef
  BY <1>2, <1>3 DEF Commit, NoRef
<1>5. TypeOK
  <2>1. 0 \in 0 .. MaxFaults /\ 0 \in 0 .. MaxAttempts
    BY StoreAssumption DEF Positive
  <2>2. tally \in [Processes -> Tally]
    BY <2>1 DEF Init, Tally
  <2>3. intent \in [Processes -> AnyIntent \cup {[kind |-> "none"]}]
    BY DEF Init
  <2>4. /\ purpose \in [Processes -> Purposes] /\ pc \in [Processes -> Labels]
    BY DEF Init, FirstRead, Purposes, Labels, Terminal
  <2> QED
    BY <1>1, <1>4, <2>1, <2>2, <2>3, <2>4, NoRefType DEF Init, TypeOK
<1>6. CourseInv
  BY DEF Init, CourseInv, Building, Handing, Looping, Fetching, Submitted, FailedAttempts,
         FirstRead
<1>7. AncestryInv
  <2>1. IsPrefix(NoRef, remote)
    BY <1>3, PrefixOrder DEF NoRef
  <2> QED
    BY <1>4, <2>1 DEF Init, AncestryInv, Looping, Searching, Fetching, FirstRead
<1>8. HistoryInv
  BY <1>3 DEF HistoryInv, AppliedAtMostOnce, first
<1>9. WireInv /\ PendingInv /\ VerdictsAreFinal
  BY DEF Init, WireInv, PendingInv, VerdictsAreFinal
<1> QED
  BY <1>5, <1>6, <1>7, <1>8, <1>9 DEF IInv

\* Every step keeps the inductive invariant.
LEMMA NextInv ==
  ASSUME IInv, [Next]_<<vars, scenario>>
  PROVE  IInv'
<1>1. CASE Next
  <2>1. /\ TypeOK /\ CourseInv /\ AncestryInv /\ HistoryInv /\ WireInv /\ PendingInv
        /\ VerdictsAreFinal
    BY DEF IInv
  <2>2. TypeOK' /\ CourseInv'
    BY <1>1, <2>1, NextType
  <2>3. AncestryInv' /\ HistoryInv' /\ WireInv'
    BY <1>1, <2>1, AncestryStep, HistoryStep, WireStep
  <2>4. PendingInv' /\ VerdictsAreFinal'
    BY <1>1, <2>1, PendingStep, VerdictStep
  <2> QED
    BY <2>2, <2>3, <2>4 DEF IInv
<1>2. CASE UNCHANGED <<vars, scenario>>
  <2> USE <1>2 DEF vars
  <2>1. TypeOK'
    BY DEF IInv, TypeOK
  <2>2. CourseInv'
    BY DEF IInv, CourseInv, Building, Handing, Looping, Fetching, Submitted, FailedAttempts
  <2>3. AncestryInv'
    BY DEF IInv, AncestryInv, Looping, Searching, Fetching
  <2>4. HistoryInv'
    BY DEF IInv, HistoryInv, Submitted, Ended, AppliedAtMostOnce
  <2>5. WireInv'
    BY DEF IInv, WireInv, PushOK, CommitOnto, Submitted, Ended, Awaited
  <2>6. PendingInv'
    BY DEF IInv, PendingInv, CommitOnto
  <2>7. VerdictsAreFinal'
    BY DEF IInv, VerdictsAreFinal
  <2> QED
    BY <2>1, <2>2, <2>3, <2>4, <2>5, <2>6, <2>7 DEF IInv
<1> QED
  BY <1>1, <1>2

\* The inductive invariant holds of every reachable state: types, ancestry, and
\* for every operation where on the ref, on the wire or in its loop it is.
THEOREM StoreInvariant == Spec => []IInv
BY InitInv, NextInv, PTL DEF Spec

\* Whatever the interleaving, faults and crashes, every variable of the store
\* keeps its type: what is on the ref, in a stamp or in a push is a commit.
THEOREM StoreTypeCorrect == Spec => []TypeOK
BY StoreInvariant, PTL DEF IInv

\* An operation is on the ref at most once, for any number of processes,
\* attempts, faults and late pushes.
THEOREM StoreAppliesAtMostOnce == Spec => []AppliedAtMostOnce
BY StoreInvariant, PTL DEF IInv, HistoryInv

\* A reported success is on the record; a reported refusal is not, and nothing
\* on the wire can put it there.
THEOREM StoreVerdictsAreFinal == Spec => []VerdictsAreFinal
BY StoreInvariant, PTL DEF IInv

----------------------------------------------------------------------------
(* The tally: who is to blame for a failed attempt.                        *)

\* A commit has finitely many operations.
LEMMA OperationsFinite ==
  ASSUME NEW c \in Commit
  PROVE  IsFiniteSet(OperationsOn(c))
<1> DEFINE f == [i \in 1 .. Len(c) |-> c[i].op]
<1>1. IsFiniteSet(1 .. Len(c)) /\ DOMAIN c = 1 .. Len(c)
  <2>1. Len(c) \in Nat /\ DOMAIN c = 1 .. Len(c)
    BY CommitFacts
  <2>2. IsFiniteSet(1 .. Len(c))
    BY <2>1, FS_Interval
  <2> QED
    BY <2>1, <2>2
<1>2. f \in Surjection(1 .. Len(c), OperationsOn(c))
  BY <1>1 DEF Surjection, OperationsOn
<1> QED
  BY <1>1, <1>2, FS_Surjection

\* A descendant has the foreign operations of its ancestor, and one more if it
\* has a foreign one the ancestor lacks.
LEMMA ForeignGrows ==
  ASSUME NEW c \in Commit, NEW d \in Commit, IsPrefix(c, d), NEW p
  PROVE  /\ ForeignOn(c, p) \in Nat /\ ForeignOn(d, p) \in Nat
         /\ ForeignOn(c, p) <= ForeignOn(d, p)
         /\ \A q \in OperationsOn(d) \ (OperationsOn(c) \cup {Root, p}) :
              ForeignOn(c, p) + 1 <= ForeignOn(d, p)
<1> DEFINE C == OperationsOn(c) \ {Root, p}
           D == OperationsOn(d) \ {Root, p}
<1>1. OperationsOn(c) \subseteq OperationsOn(d)
  BY CommitFacts, OperationsOnAncestor
<1>2. IsFiniteSet(OperationsOn(d))
  BY OperationsFinite
<1>3. IsFiniteSet(D)
  BY <1>2, FS_Subset
<1>4. C \subseteq D
  BY <1>1
<1>5. IsFiniteSet(C) /\ Cardinality(C) <= Cardinality(D) /\ (Cardinality(C) = Cardinality(D) => C = D)
  BY <1>3, <1>4, FS_Subset
<1>6. Cardinality(C) \in Nat /\ Cardinality(D) \in Nat
  BY <1>3, <1>5, FS_CardinalityType
<1>7. ASSUME NEW q \in OperationsOn(d) \ (OperationsOn(c) \cup {Root, p})
      PROVE  Cardinality(C) + 1 <= Cardinality(D)
  <2>1. C # D
    BY <1>7
  <2> HIDE DEF C, D
  <2> QED
    BY <1>5, <1>6, <2>1
<1> HIDE DEF C, D
<1> QED
  BY <1>5, <1>6, <1>7 DEF ForeignOn, C, D

\* Between what it observed and a later tip its search found empty, another
\* writer has committed.
LEMMA MoveHasCause ==
  ASSUME TypeOK, CourseInv, AncestryInv, HistoryInv, NEW p \in Processes,
         pc[p] = "search", p \notin OperationsSince(observed[p], fetched[p]),
         fetched[p] # observed[p]
  PROVE  ForeignOn(observed[p], p) + 1 <= ForeignOn(fetched[p], p)
<1> DEFINE n == Len(observed[p]) + 1
           q == fetched[p][n].op
<1>1. Looping(p) /\ Searching(p)
  BY DEF Looping, Searching
<1>2. /\ observed[p] \in Commit /\ fetched[p] \in Commit /\ remote \in Commit
      /\ IsPrefix(observed[p], fetched[p]) /\ IsPrefix(fetched[p], remote)
      /\ observed[p] # NoRef
  BY <1>1 DEF TypeOK, AncestryInv
<1>3. /\ observed[p] \in Seq(Entry) /\ fetched[p] \in Seq(Entry) /\ remote \in Seq(Entry)
      /\ Len(observed[p]) \in Nat /\ Len(fetched[p]) \in Nat /\ Len(remote) \in Nat
      /\ DOMAIN observed[p] = 1 .. Len(observed[p]) /\ DOMAIN fetched[p] = 1 .. Len(fetched[p])
      /\ DOMAIN remote = 1 .. Len(remote)
      /\ Len(observed[p]) # 0
  BY <1>2, CommitFacts
<1>4. /\ Len(observed[p]) <= Len(fetched[p])
      /\ \A i \in 1 .. Len(observed[p]) : observed[p][i] = fetched[p][i]
  BY <1>2, <1>3, PrefixDef
<1>5. /\ Len(fetched[p]) <= Len(remote)
      /\ \A i \in 1 .. Len(fetched[p]) : fetched[p][i] = remote[i]
  BY <1>2, <1>3, PrefixDef
<1>6. n \in 1 .. Len(fetched[p]) /\ n \in 2 .. Len(remote)
  <2>1. Len(observed[p]) # Len(fetched[p])
    BY <1>3, <1>4, SeqEqual
  <2> QED
    BY <1>3, <1>4, <1>5, <2>1
<1>7. q \in OperationsOn(fetched[p]) /\ q = remote[n].op
  BY <1>3, <1>5, <1>6 DEF OperationsOn
<1>8. q # Root
  BY <1>6, <1>7, StoreAssumption DEF HistoryInv
<1>9. q # p
  BY <1>1, <1>2, <1>3, <1>7, LoopingFacts, OperationsSinceIsComplete
<1>10. q \notin OperationsOn(observed[p])
  <2> SUFFICES ASSUME NEW i \in 1 .. Len(observed[p]), observed[p][i].op = q PROVE FALSE
    BY <1>3 DEF OperationsOn
  <2>1. i \in 1 .. Len(fetched[p]) /\ i \in 1 .. Len(remote) /\ n \in 1 .. Len(remote) /\ i # n
    BY <1>3, <1>4, <1>5, <1>6
  <2>2. remote[i].op = remote[n].op
    BY <1>4, <1>5, <1>7, <2>1
  <2> QED
    BY <1>3, <2>1, <2>2 DEF HistoryInv, AppliedAtMostOnce
<1> HIDE DEF n, q
<1> QED
  BY <1>2, <1>7, <1>8, <1>9, <1>10, ForeignGrows

\* What a step does to a tally, and how a process comes to search.
Counts(q) ==
  /\ \/ tally'[q] = tally[q] /\ (pc'[q] = "exhausted" => pc[q] = "exhausted")
     \/ Retry(q)
     \/ /\ ~Submitted(q) /\ pc'[q] # "exhausted"
        /\ tally'[q].attempt = 1 /\ tally'[q].moves = tally[q].moves
  /\ pc'[q] = "read" /\ purpose'[q] = "search" =>
       /\ observed'[q] = observed[q]
       /\ \/ Still(q)
          \/ Push(q) /\ ~IsPrefix(remote, Fresh(q))
          \/ \E push \in wire : push.op = q /\ Awaited(push) /\ RejectPush(push)
          \/ pc[q] = "sent" /\ FaultOccurs

\* How a step moves the tally of each process.
LEMMA NextCounts ==
  ASSUME TypeOK, CourseInv, Next
  PROVE  \A q \in Processes : Counts(q)
<1>1. \A q \in Processes : Still(q) => Counts(q)
  BY DEF Counts, Still
<1>2. ASSUME NEW p \in Processes, FetchStep(p) PROVE Counts(p)
  BY <1>2 DEF TypeOK, Counts, FetchStep, ReadTip, CheckLineage, WriteStamp, Goto, Exit, Labels,
              Terminal, Purposes
<1>3. ASSUME NEW p \in Processes, CommandStep(p) PROVE Counts(p)
  <2>1. /\ pc[p] \in {"items", "observe"}
        /\ UNCHANGED tally
        /\ \/ Refuse(p)
           \/ Exit(p, "done") /\ UNCHANGED <<intent, purpose>>
           \/ Fetch(p, "observe")
           \/ \E built : Submit(p, built)
    BY <1>3 DEF CommandStep, ReadItems, ObserveForClaim, ObserveForRescope, ObserveForRelease,
                ObserveForLanding
  <2>2. CASE Refuse(p) \/ (Exit(p, "done") /\ UNCHANGED <<intent, purpose>>)
    BY <2>1, <2>2 DEF TypeOK, Counts, Refuse, Exit, Goto
  <2>3. CASE Fetch(p, "observe")
    BY <2>1, <2>3 DEF TypeOK, Counts, Fetch, Goto
  <2>4. ASSUME NEW built, Submit(p, built) PROVE Counts(p)
    BY <2>1, <2>4 DEF TypeOK, Counts, Submit, Fetch, Goto
  <2> QED
    BY <2>1, <2>2, <2>3, <2>4
<1>4. ASSUME NEW p \in Processes, TransitionStep(p) PROVE Counts(p)
  <2>1. CASE BeginTransition(p)
    <3>1. ~Submitted(p) /\ tally[p] \in Tally
      BY <2>1 DEF BeginTransition, CourseInv, Handing, TypeOK
    <3> QED
      BY <2>1, <3>1 DEF TypeOK, Counts, BeginTransition, Exit, Goto, Tally, Submitted
  <2>2. CASE Push(p)
    BY <2>2 DEF TypeOK, Counts, Push, Fresh, Goto, Fetch
  <2>3. CASE RefuseIntent(p)
    BY <2>3 DEF TypeOK, Counts, RefuseIntent, Goto, Exit
  <2>4. CASE FoundOwnOperation(p)
    BY <2>4 DEF TypeOK, Counts, FoundOwnOperation, Goto, Exit
  <2>5. CASE Retry(p)
    BY <2>5 DEF TypeOK, Counts, Retry, Goto, Exit
  <2>6. CASE Landed(p)
    BY <2>6 DEF TypeOK, Counts, Landed, Goto, Exit
  <2> QED
    BY <1>4, <2>1, <2>2, <2>3, <2>4, <2>5, <2>6 DEF TransitionStep
<1>5. ASSUME NEW push \in wire, ServerStep(push), NEW q \in Processes PROVE Counts(q)
  BY <1>5 DEF TypeOK, Counts, PushInFlight, ServerStep, AcceptPush, AcceptLatePush, RejectPush,
              Still, Awaited, Fetch, Goto
<1>6. ASSUME FaultStep, NEW q \in Processes PROVE Counts(q)
  <2>1. CASE \E push \in wire : RefusePush(push)
    BY <2>1 DEF TypeOK, Counts, PushInFlight, RefusePush, Still, Awaited, Fetch, Goto
  <2>2. CASE \E p \in Processes : LoseConnection(p)
    BY <2>2 DEF TypeOK, Counts, LoseConnection, Still, Fetch, Goto
  <2>3. CASE \E p \in Processes : Crash(p)
    BY <2>3 DEF TypeOK, Counts, Crash, Still, Exit, Goto
  <2> QED
    BY <1>6, <2>1, <2>2, <2>3 DEF FaultStep
<1> QED
  BY <1>1, <1>2, <1>3, <1>4, <1>5, <1>6, OthersStill DEF Next

\* Faults are counted, unless the server may be stuck for ever.
LEMMA FaultSteps ==
  ASSUME TypeOK, Next
  PROVE  /\ faults \in Nat /\ faults' \in Nat /\ faults <= faults'
         /\ UNCHANGED faults \/ FaultOccurs
<1>1. faults \in Nat
  BY StoreAssumption DEF TypeOK
<1>2. UNCHANGED faults \/ FaultOccurs
  <2>1. ASSUME NEW p \in Processes, FetchStep(p) PROVE UNCHANGED faults
    BY <2>1 DEF FetchStep, ReadTip, CheckLineage, WriteStamp
  <2>2. ASSUME NEW p \in Processes, CommandStep(p) PROVE UNCHANGED faults
    BY <2>2 DEF CommandStep, ReadItems, ObserveForClaim, ObserveForRescope, ObserveForRelease,
                ObserveForLanding
  <2>3. ASSUME NEW p \in Processes, TransitionStep(p) PROVE UNCHANGED faults
    BY <2>3 DEF TransitionStep, BeginTransition, Push, RefuseIntent, FoundOwnOperation, Retry,
                Landed
  <2>4. ASSUME NEW push \in wire, ServerStep(push) PROVE UNCHANGED faults
    BY <2>4 DEF ServerStep, AcceptPush, AcceptLatePush, RejectPush
  <2>5. ASSUME FaultStep PROVE UNCHANGED faults \/ FaultOccurs
    BY <2>5 DEF FaultStep, RefusePush, LoseConnection, Crash
  <2> QED
    BY <2>1, <2>2, <2>3, <2>4, <2>5 DEF Next
<1> QED
  BY <1>1, <1>2 DEF FaultOccurs

\* The tallies are numbers.
LEMMA TallyNumbers ==
  ASSUME TypeOK, CourseInv, NEW p \in Processes
  PROVE  /\ tally[p].attempt \in Nat /\ tally[p].moves \in Nat /\ tally[p].stationary \in Nat
         /\ FailedAttempts(p) \in Nat
         /\ tally[p].moves + tally[p].stationary <= FailedAttempts(p)
         /\ ~Submitted(p) => tally[p].moves = 0 /\ FailedAttempts(p) = 0
<1>1. tally[p].attempt \in Nat /\ tally[p].moves \in Nat /\ tally[p].stationary \in Nat
  BY StoreAssumption DEF TypeOK, Tally, Positive
<1>2. tally[p].moves + tally[p].stationary <= FailedAttempts(p)
  BY DEF CourseInv
<1> QED
  BY <1>1, <1>2 DEF FailedAttempts, Submitted

\* The numbers of a counted failure.
LEMMA RetryNumbers ==
  ASSUME TypeOK, CourseInv, NEW p \in Processes, Retry(p)
  PROVE  /\ FailedAttempts(p)' = FailedAttempts(p) + 1
         /\ tally'[p].moves = tally[p].moves + (IF fetched[p] # observed[p] THEN 1 ELSE 0)
         /\ pc'[p] \in {"apply", "exhausted"}
         /\ Looping(p)' => observed'[p] = fetched[p]
<1> DEFINE count == AdvanceTipRetry(observed[p], fetched[p], tally[p])
<1>1. /\ tally[p].attempt \in Nat /\ tally[p].attempt # 0 /\ pc[p] = "search"
      /\ tally[p] \in [attempt : Nat, moves : Nat, stationary : Nat]
  BY TallyNumbers DEF TypeOK, Tally, Retry, CourseInv, Looping, Submitted
<1>2. /\ count.attempt = tally[p].attempt
      /\ count.moves = tally[p].moves + (IF fetched[p] # observed[p] THEN 1 ELSE 0)
      /\ DOMAIN count = {"attempt", "moves", "stationary"}
  BY <1>1 DEF AdvanceTipRetry
<1> HIDE DEF count
<1>3. \/ /\ tally' = [tally EXCEPT ![p] = [count EXCEPT !.attempt = @ + 1]]
         /\ observed' = [observed EXCEPT ![p] = fetched[p]]
         /\ pc' = [pc EXCEPT ![p] = "apply"]
      \/ /\ tally' = [tally EXCEPT ![p] = count]
         /\ pc' = [pc EXCEPT ![p] = "exhausted"]
  BY DEF Retry, count, Exit, Goto
<1>4. CASE /\ tally' = [tally EXCEPT ![p] = [count EXCEPT !.attempt = @ + 1]]
           /\ observed' = [observed EXCEPT ![p] = fetched[p]]
           /\ pc' = [pc EXCEPT ![p] = "apply"]
  <2>1. /\ tally'[p].attempt = tally[p].attempt + 1 /\ tally'[p].moves = count.moves
        /\ pc'[p] = "apply" /\ observed'[p] = fetched[p]
    BY <1>2, <1>4 DEF TypeOK
  <2> QED
    BY <1>1, <1>2, <2>1 DEF FailedAttempts
<1>5. CASE /\ tally' = [tally EXCEPT ![p] = count]
           /\ pc' = [pc EXCEPT ![p] = "exhausted"]
  <2>1. tally'[p] = count /\ pc'[p] = "exhausted"
    BY <1>5 DEF TypeOK
  <2> QED
    BY <1>1, <1>2, <2>1 DEF FailedAttempts, Looping, Fetching
<1> QED
  BY <1>3, <1>4, <1>5

\* A process that is turned away finds the ref elsewhere, or a fault did it.
LEMMA TurnedAway ==
  ASSUME TypeOK, CourseInv, AncestryInv, WireInv, PendingInv, Next, NEW p \in Processes,
         \/ Push(p) /\ ~IsPrefix(remote, Fresh(p))
         \/ \E push \in wire : push.op = p /\ Awaited(push) /\ RejectPush(push)
  PROVE  remote' = remote /\ remote # observed[p] /\ Looping(p)
<1>1. /\ observed[p] \in Commit /\ remote \in Commit /\ IsPrefix(observed[p], remote)
      /\ observed[p] \in Seq(Entry) /\ remote \in Seq(Entry)
  BY CommitFacts DEF TypeOK, AncestryInv
<1>2. Looping(p)
  BY DEF Push, Awaited, Looping
<1>3. intent[p].kind # "none"
  BY <1>2 DEF CourseInv
<1> DEFINE e == [op |-> p, state |-> CommittedState(StateAt(observed[p]), intent[p])]
<1>4. Fresh(p) = Append(observed[p], e) /\ e \in Entry
  BY <1>1, <1>3, CommitOntoFacts DEF Fresh
<1> HIDE DEF e
<1>5. /\ IsPrefix(observed[p], Fresh(p)) /\ Fresh(p) # observed[p] /\ Fresh(p) \in Seq(Entry)
      /\ Len(Fresh(p)) = Len(observed[p]) + 1 /\ Len(observed[p]) \in Nat
      /\ Front(Fresh(p)) = observed[p]
  <2>1. Len(observed[p]) \in Nat
    BY <1>1, CommitFacts
  <2> QED
    BY <1>1, <1>4, <2>1, OneMore
<1>6. ASSUME Push(p), ~IsPrefix(remote, Fresh(p)) PROVE remote' = remote /\ remote # observed[p]
  BY <1>5, <1>6 DEF Push
<1>7. ASSUME NEW push \in wire, push.op = p, Awaited(push), RejectPush(push)
      PROVE  remote' = remote /\ remote # observed[p]
  <2>1. push.new = Fresh(p)
    BY <1>7 DEF WireInv, PushOK, PendingInv, Awaited, Fresh
  <2>2. push.old \in {observed[p], Fresh(p)} /\ IsPrefix(push.old, remote)
    BY <1>5, <1>7, <2>1 DEF WireInv, PushOK
  <2>3. push.old # remote /\ remote' = remote
    BY <1>7 DEF RejectPush
  <2>4. ~(IsPrefix(Fresh(p), observed[p]))
    BY <1>1, <1>5, PrefixDef
  <2> QED
    BY <2>2, <2>3, <2>4
<1> QED
  BY <1>2, <1>6, <1>7

\* Every step keeps the account of failed attempts.
LEMMA TallyStep ==
  ASSUME ~StuckServer, TypeOK, CourseInv, AncestryInv, HistoryInv, WireInv, PendingInv, TallyInv,
         Next
  PROVE  TallyInv'
<1> SUFFICES ASSUME NEW CONSTANT p, p \in Processes
             PROVE  /\ Stationary(p)' <= faults'
                    /\ tally'[p].moves <= ForeignOn(remote', p)
                    /\ Looping(p)' => tally'[p].moves <= ForeignOn(observed'[p], p)
                    /\ Searching(p)' => Stationary(p)' < faults' \/ fetched'[p] # observed'[p]
                    /\ pc'[p] = "read" /\ purpose'[p] = "search" =>
                         Stationary(p)' < faults' \/ remote' # observed'[p]
  BY DEF TallyInv, ForeignOn, OperationsOn
<1>1. Onward(p) /\ Counts(p) /\ TypeOK' /\ CourseInv'
  BY NextOnward, NextCounts, NextType
<1>2. /\ tally[p].moves \in Nat /\ FailedAttempts(p) \in Nat /\ FailedAttempts(p)' \in Nat
      /\ tally[p].moves <= FailedAttempts(p)
      /\ ~Submitted(p) => tally[p].moves = 0 /\ FailedAttempts(p) = 0
  <2>1. FailedAttempts(p)' \in Nat
    BY <1>1, StoreAssumption DEF TypeOK, Tally, Positive, FailedAttempts
  <2> QED
    BY <2>1, TallyNumbers
<1>3. /\ faults \in Nat /\ faults' \in Nat /\ faults <= faults'
      /\ FaultOccurs => faults' = faults + 1
  BY FaultSteps DEF FaultOccurs
<1>4. /\ Stationary(p) <= faults
      /\ tally[p].moves <= ForeignOn(remote, p)
      /\ Looping(p) => tally[p].moves <= ForeignOn(observed[p], p)
      /\ Searching(p) => Stationary(p) < faults \/ fetched[p] # observed[p]
      /\ pc[p] = "read" /\ purpose[p] = "search" => Stationary(p) < faults \/ remote # observed[p]
  BY DEF TallyInv
<1>5. /\ remote \in Commit /\ remote' \in Commit /\ IsPrefix(remote, remote')
      /\ observed[p] \in Commit /\ fetched[p] \in Commit
      /\ IsPrefix(observed[p], remote) /\ IsPrefix(fetched[p], remote)
      /\ observed'[p] \in Commit /\ IsPrefix(observed'[p], remote')
  BY <1>1, RemoteGrows, AncestryStep DEF TypeOK, AncestryInv
<1>6. /\ ForeignOn(remote, p) \in Nat /\ ForeignOn(remote', p) \in Nat
      /\ ForeignOn(remote, p) <= ForeignOn(remote', p)
      /\ ForeignOn(observed[p], p) \in Nat /\ ForeignOn(fetched[p], p) \in Nat
      /\ ForeignOn(fetched[p], p) <= ForeignOn(remote, p)
      /\ ForeignOn(observed'[p], p) \in Nat
  BY <1>5, ForeignGrows
<1>7. CASE Retry(p)
  <2>1. /\ FailedAttempts(p)' = FailedAttempts(p) + 1
        /\ tally'[p].moves = tally[p].moves + (IF fetched[p] # observed[p] THEN 1 ELSE 0)
        /\ pc'[p] \in {"apply", "exhausted"}
        /\ Looping(p)' => observed'[p] = fetched[p]
    BY <1>7, RetryNumbers
  <2>2. /\ Looping(p) /\ Searching(p) /\ pc[p] = "search"
        /\ p \notin OperationsSince(observed[p], fetched[p])
    BY <1>7 DEF Retry, Looping, Searching
  <2>3. Stationary(p)' = FailedAttempts(p)' - tally'[p].moves
        /\ Stationary(p) = FailedAttempts(p) - tally[p].moves
    BY DEF Stationary, FailedAttempts
  <2>4. ~Searching(p)' /\ pc'[p] # "read"
    BY <2>1 DEF Searching
  <2>5. CASE fetched[p] # observed[p]
    <3>1. ForeignOn(observed[p], p) + 1 <= ForeignOn(fetched[p], p)
      BY <2>2, <2>5, MoveHasCause
    <3>2. tally'[p].moves = tally[p].moves + 1
      BY <2>1, <2>5
    <3>3. tally'[p].moves <= ForeignOn(fetched[p], p)
      BY <1>2, <1>4, <1>6, <2>2, <3>1, <3>2
    <3>4. tally'[p].moves <= ForeignOn(remote', p)
      BY <1>2, <1>6, <3>2, <3>3
    <3>5. Stationary(p)' = Stationary(p)
      BY <1>2, <2>1, <2>3, <3>2
    <3>6. Stationary(p)' <= faults'
      BY <1>2, <1>3, <1>4, <2>3, <3>5
    <3> QED
      BY <2>1, <2>4, <3>3, <3>4, <3>6
  <2>6. CASE fetched[p] = observed[p]
    <3>1. tally'[p].moves = tally[p].moves
      BY <1>2, <2>1, <2>6
    <3>2. Stationary(p)' = Stationary(p) + 1
      BY <1>2, <2>1, <2>3, <3>1
    <3>3. Stationary(p)' <= faults'
      BY <1>2, <1>3, <1>4, <2>2, <2>3, <2>6, <3>2
    <3>4. tally'[p].moves <= ForeignOn(remote', p)
      BY <1>2, <1>4, <1>6, <3>1
    <3>5. Looping(p)' => tally'[p].moves <= ForeignOn(observed'[p], p)
      BY <1>4, <2>1, <2>2, <2>6, <3>1
    <3> QED
      BY <2>4, <3>3, <3>4, <3>5
  <2> QED
    BY <2>5, <2>6
<1>8. CASE ~Retry(p)
  <2>1. /\ Stationary(p)' = FailedAttempts(p)' - tally'[p].moves
        /\ Stationary(p) = FailedAttempts(p) - tally[p].moves
    BY DEF Stationary, FailedAttempts
  <2>2. FailedAttempts(p)' = FailedAttempts(p) /\ tally'[p].moves = tally[p].moves
    <3>1. CASE tally'[p] = tally[p] /\ (pc'[p] = "exhausted" => pc[p] = "exhausted")
      <4>1. pc'[p] = "exhausted" <=> pc[p] = "exhausted"
        BY <1>1, <3>1 DEF Onward, Advances, Ended, Terminal
      <4> QED
        BY <3>1, <4>1 DEF FailedAttempts
    <3>2. CASE /\ ~Submitted(p) /\ pc'[p] # "exhausted"
               /\ tally'[p].attempt = 1 /\ tally'[p].moves = tally[p].moves
      <4>1. FailedAttempts(p)' = 0
        BY <3>2 DEF FailedAttempts
      <4> QED
        BY <1>2, <3>2, <4>1
    <3> QED
      BY <1>1, <1>8, <3>1, <3>2 DEF Counts
  <2>3. Stationary(p)' = Stationary(p) /\ Stationary(p) \in Nat
    BY <1>2, <2>1, <2>2
  <2>4. Stationary(p)' <= faults'
    BY <1>3, <1>4, <2>3
  <2>5. tally'[p].moves <= ForeignOn(remote', p)
    BY <1>2, <1>4, <1>6, <2>2
  <2>6. ASSUME Looping(p)' PROVE tally'[p].moves <= ForeignOn(observed'[p], p)
    <3>1. CASE Looping(p) /\ observed'[p] = observed[p]
      BY <1>4, <2>2, <3>1
    <3>2. CASE pc[p] = "transition"
      <4>1. ~Submitted(p)
        BY <3>2 DEF CourseInv, Handing
      <4> QED
        BY <1>2, <1>6, <2>2, <4>1
    <3> QED
      BY <1>1, <1>8, <2>6, <3>1, <3>2 DEF Onward, Advances
  <2>7. ASSUME Searching(p)' PROVE Stationary(p)' < faults' \/ fetched'[p] # observed'[p]
    <3>1. /\ observed'[p] = observed[p]
          /\ \/ Searching(p) /\ fetched'[p] = fetched[p]
             \/ pc[p] = "read" /\ purpose[p] = "search" /\ fetched'[p] = remote
      BY <1>1, <2>7 DEF Onward, Advances
    <3> QED
      BY <1>3, <1>4, <2>3, <3>1
  <2>8. ASSUME pc'[p] = "read", purpose'[p] = "search"
        PROVE  Stationary(p)' < faults' \/ remote' # observed'[p]
    <3>1. observed'[p] = observed[p]
      BY <1>1, <2>8 DEF Counts
    <3>2. CASE Still(p)
      <4>1. Stationary(p) < faults \/ remote # observed[p]
        BY <1>4, <2>8, <3>2 DEF Still
      <4>2. remote' = observed[p] => remote = observed[p]
        <5>1. remote \in Seq(Entry) /\ observed[p] \in Seq(Entry)
          BY <1>5, CommitFacts
        <5> QED
          BY <1>5, <5>1, PrefixOrder
      <4> QED
        BY <1>3, <2>3, <3>1, <4>1, <4>2
    <3>3. CASE \/ Push(p) /\ ~IsPrefix(remote, Fresh(p))
               \/ \E push \in wire : push.op = p /\ Awaited(push) /\ RejectPush(push)
      BY <3>1, <3>3, TurnedAway
    <3>4. CASE FaultOccurs
      BY <1>3, <1>4, <2>3, <3>4
    <3> QED
      BY <1>1, <2>8, <3>2, <3>3, <3>4 DEF Counts
  <2> QED
    BY <2>4, <2>5, <2>6, <2>7, <2>8
<1> QED
  BY <1>7, <1>8

\* At the start nothing has failed.
LEMMA TallyInit ==
  ASSUME Init
  PROVE  TallyInv
<1>1. remote \in Commit /\ NoRef \in Commit /\ IsPrefix(NoRef, remote)
  <2>1. TypeOK
    BY InitInv DEF IInv
  <2>2. remote \in Commit
    BY <2>1 DEF TypeOK
  <2> QED
    BY <2>2, NoRefType, CommitFacts, PrefixOrder DEF NoRef
<1>2. \A p \in Processes : ForeignOn(remote, p) \in Nat
  BY <1>1, ForeignGrows
<1>3. MaxFaults \in Nat
  BY StoreAssumption
<1> QED
  BY <1>2, <1>3 DEF Init, TallyInv, Stationary, FailedAttempts, Looping, Searching, Fetching,
                   FirstRead

\* The account of failed attempts gives each of them its cause.
LEMMA TallyMeaning ==
  ASSUME TypeOK, CourseInv, TallyInv
  PROVE  TallyHasCauses
<1> SUFFICES ASSUME NEW p \in Processes
             PROVE  /\ FailedAttempts(p) <= ForeignCommits(p) + faults
                    /\ tally[p].moves <= ForeignCommits(p)
                    /\ tally[p].stationary <= faults
  BY DEF TallyHasCauses
<1>1. /\ tally[p].moves \in Nat /\ tally[p].stationary \in Nat /\ FailedAttempts(p) \in Nat
      /\ tally[p].moves + tally[p].stationary <= FailedAttempts(p)
  BY TallyNumbers
<1>2. /\ FailedAttempts(p) - tally[p].moves <= faults
      /\ tally[p].moves <= ForeignCommits(p)
  BY DEF TallyInv, Stationary, ForeignOn, ForeignCommits
<1>3. ForeignCommits(p) \in Nat
  <2>1. IsFiniteSet(OperationsOn(remote) \ {Root, p})
    BY OperationsFinite, FS_Subset DEF TypeOK
  <2> QED
    BY <2>1, FS_CardinalityType DEF ForeignCommits
<1>4. faults \in Nat
  BY StoreAssumption DEF TypeOK
<1> QED
  BY <1>1, <1>2, <1>3, <1>4

\* When every fault is counted, a command gives up only over as many commits of
\* others and faults as it had failures, and reports no more of either than
\* there were; with the two theorems above, every verdict is true.
THEOREM StoreVerdictsAreTrue == ~StuckServer => (Spec => []VerdictsAreTrue)
<1> SUFFICES ASSUME ~StuckServer PROVE Spec => []VerdictsAreTrue
  OBVIOUS
<1>1. Init => IInv /\ TallyInv
  BY InitInv, TallyInit
<1>2. IInv /\ TallyInv /\ [Next]_<<vars, scenario>> => TallyInv'
  <2> SUFFICES ASSUME IInv, TallyInv, [Next]_<<vars, scenario>> PROVE TallyInv'
    OBVIOUS
  <2>1. CASE Next
    BY <2>1, TallyStep DEF IInv
  <2>2. CASE UNCHANGED <<vars, scenario>>
    BY <2>2 DEF vars, TallyInv, Stationary, FailedAttempts, Looping, Searching, Fetching
  <2> QED
    BY <2>1, <2>2
<1>3. IInv /\ TallyInv => VerdictsAreTrue
  BY TallyMeaning DEF IInv, HistoryInv, VerdictsAreTrue
<1> QED
  BY <1>1, <1>2, <1>3, NextInv, PTL DEF Spec

----------------------------------------------------------------------------
(* Lineage: while nobody rewrites the ref, no check of it fails.           *)

\* A process leaves its reading only by reading, and fails the check only there.
Reads(q) ==
  /\ pc'[q] # "read" /\ ~Ended(q)' => (pc[q] # "read" /\ ~Ended(q)) \/ ReadTip(q)
  /\ pc'[q] = "lineage" => (pc[q] = "lineage" /\ fetched'[q] = fetched[q]) \/ ReadTip(q)
  /\ pc'[q] = "lineage_error" => \/ pc[q] = "lineage_error"
                                 \/ /\ pc[q] = "lineage"
                                    /\ ~IsPrefix(stamp[WorktreeOf[q]], fetched[q])

\* How a step moves what each process has read.
LEMMA NextReads ==
  ASSUME TypeOK, Next
  PROVE  \A q \in Processes : Reads(q)
<1> USE DEF Ended, Terminal
<1>1. \A q \in Processes : Still(q) => Reads(q)
  BY DEF Reads, Still
<1>2. ASSUME NEW p \in Processes, FetchStep(p) PROVE Reads(p)
  BY <1>2 DEF TypeOK, Reads, FetchStep, ReadTip, CheckLineage, WriteStamp, Goto, Exit, Purposes
<1>3. ASSUME NEW p \in Processes, CommandStep(p) PROVE Reads(p)
  <2>1. /\ pc[p] \in {"items", "observe"}
        /\ \/ Refuse(p)
           \/ Exit(p, "done") /\ UNCHANGED <<intent, purpose>>
           \/ Fetch(p, "observe")
           \/ \E built : Submit(p, built)
    BY <1>3 DEF CommandStep, ReadItems, ObserveForClaim, ObserveForRescope, ObserveForRelease,
                ObserveForLanding
  <2> QED
    BY <2>1 DEF TypeOK, Reads, Refuse, Exit, Goto, Fetch, Submit
<1>4. ASSUME NEW p \in Processes, TransitionStep(p) PROVE Reads(p)
  BY <1>4 DEF TypeOK, Reads, TransitionStep, BeginTransition, Push, RefuseIntent,
              FoundOwnOperation, Retry, Landed, Goto, Exit, Fetch
<1>5. ASSUME NEW push \in wire, ServerStep(push), NEW q \in Processes PROVE Reads(q)
  BY <1>5 DEF TypeOK, Reads, PushInFlight, ServerStep, AcceptPush, AcceptLatePush, RejectPush,
              Awaited, Fetch, Goto
<1>6. ASSUME FaultStep, NEW q \in Processes PROVE Reads(q)
  BY <1>6 DEF TypeOK, Reads, FaultStep, RefusePush, LoseConnection, Crash, PushInFlight, Awaited,
              Fetch, Goto, Exit
<1> QED
  BY <1>1, <1>2, <1>3, <1>4, <1>5, <1>6, OthersStill DEF Next

\* Every step leaves each stamp an ancestor of what its worktree reads next.
LEMMA LineageStep ==
  ASSUME SeparateWorktrees, TypeOK, CourseInv, AncestryInv, LineageInv, Next
  PROVE  LineageInv'
<1> SUFFICES ASSUME NEW CONSTANT p, p \in Processes
             PROVE  /\ pc'[p] # "read" /\ ~Ended(p)' => \A q \in After'[p] : Ended(q)'
                    /\ pc'[p] = "lineage" => IsPrefix(stamp'[WorktreeOf'[p]], fetched'[p])
                    /\ pc'[p] # "lineage_error"
  BY DEF LineageInv
<1>1. /\ Reads(p) /\ \A q \in Processes : Onward(q)
      /\ After' = After /\ WorktreeOf' = WorktreeOf
      /\ After[p] \subseteq Processes /\ WorktreeOf[p] \in Worktrees
  BY NextReads, NextOnward, CommandType DEF Next, After, WorktreeOf
<1>2. ASSUME pc'[p] # "read", ~Ended(p)', NEW q \in After[p] PROVE Ended(q)'
  <2>1. Ended(q)
    BY <1>1, <1>2 DEF Reads, LineageInv, ReadTip, Ended
  <2> QED
    BY <1>1, <2>1 DEF Onward, Advances, Ended
<1>3. ASSUME pc'[p] = "lineage" PROVE IsPrefix(stamp'[WorktreeOf[p]], fetched'[p])
  <2>1. CASE ReadTip(p)
    <3>1. fetched'[p] = remote /\ UNCHANGED stamp
      BY <2>1 DEF ReadTip, TypeOK
    <3> QED
      BY <1>1, <3>1 DEF AncestryInv
  <2>2. CASE pc[p] = "lineage" /\ fetched'[p] = fetched[p]
    <3>1. IsPrefix(stamp[WorktreeOf[p]], fetched[p])
      BY <2>2 DEF LineageInv
    <3>2. ASSUME NEW q \in Processes, WriteStamp(q) \/ Landed(q)
          PROVE  stamp'[WorktreeOf[p]] = stamp[WorktreeOf[p]]
      <4>1. pc[q] \in {"stamp", "landed"} /\ q # p
        BY <2>2, <3>2 DEF WriteStamp, Landed
      <4>2. (\A r \in After[q] : Ended(r)) /\ (\A r \in After[p] : Ended(r))
        BY <2>2, <4>1 DEF LineageInv, Ended, Terminal
      <4>3. q \notin After[p] /\ p \notin After[q]
        BY <2>2, <4>1, <4>2 DEF Ended, Terminal
      <4>4. WorktreeOf[q] # WorktreeOf[p]
        BY <4>1, <4>3 DEF SeparateWorktrees, After, WorktreeOf, TypeOK
      <4>5. \E c : stamp' = [stamp EXCEPT ![WorktreeOf[q]] = c]
        BY <3>2 DEF WriteStamp, Landed
      <4> QED
        BY <1>1, <4>4, <4>5 DEF TypeOK
    <3>3. stamp'[WorktreeOf[p]] = stamp[WorktreeOf[p]]
      BY <3>2, StampSteps
    <3> QED
      BY <2>2, <3>1, <3>3
  <2> QED
    BY <1>1, <1>3, <2>1, <2>2 DEF Reads
<1>4. pc'[p] # "lineage_error"
  BY <1>1 DEF Reads, LineageInv
<1> QED
  BY <1>1, <1>2, <1>3, <1>4

\* While nobody rewrites the ref, processes that do not share a worktree at the
\* same time never take the work of the others for a rewrite of it.
THEOREM StoreRaisesNoFalseAlarm == SeparateWorktrees => (Spec => []NoFalseLineageAlarm)
<1> SUFFICES ASSUME SeparateWorktrees PROVE Spec => []NoFalseLineageAlarm
  OBVIOUS
<1>1. Init => IInv /\ LineageInv
  <2>1. Init => LineageInv
    BY DEF Init, LineageInv, Ended, Terminal
  <2> QED
    BY <2>1, InitInv
<1>2. IInv /\ LineageInv /\ [Next]_<<vars, scenario>> => LineageInv'
  <2> SUFFICES ASSUME IInv, LineageInv, [Next]_<<vars, scenario>> PROVE LineageInv'
    OBVIOUS
  <2>1. CASE Next
    BY <2>1, LineageStep DEF IInv
  <2>2. CASE UNCHANGED <<vars, scenario>>
    BY <2>2 DEF vars, LineageInv, Ended, After, WorktreeOf
  <2> QED
    BY <2>1, <2>2
<1>3. LineageInv => NoFalseLineageAlarm
  BY DEF LineageInv, NoFalseLineageAlarm
<1> QED
  BY <1>1, <1>2, <1>3, NextInv, PTL DEF Spec

-----------------------------------------------------------------------------
(* Part 2: the refinement.                                               *)

\* What is proved of the ledger, about the state of the ref.
Promise == INSTANCE LedgerProofs WITH
  state <- StateAt(remote),
  applied <- OperationsOn(remote) \ {Root},
  history <- OpenedOn(remote),
  Operations <- Processes,
  Intents <- IntentsOfCommands

----------------------------------------------------------------------------
(* Intents and what they were built from.                                  *)

\* An intent is one its command may build, and an item write expects what its
\* command read.
BuiltFrom(i, cmd, read) ==
  /\ i \in IntentsOf(cmd)
  /\ i.kind \in {"write", "landing"} => i.expected = read.items[i.item]
  /\ i.kind = "write" /\ cmd.whole => i.store = read.items
  /\ i.kind = "landing" => ~cmd.whole

IntentInv ==
  \A p \in Processes :
    intent[p].kind # "none" => BuiltFrom(intent[p], CommandOf[p], seen[p])

\* IntentsOf, kind by kind.
LEMMA IntentsOfKinds ==
  ASSUME NEW cmd
  PROVE  /\ cmd.kind = "claim" => IntentsOf(cmd) = {cmd}
         /\ cmd.kind = "rescope" =>
              IntentsOf(cmd) = {i \in RescopeIntent : AgentOf[i.who] = AgentOf[cmd.who]}
         /\ cmd.kind = "release" =>
              IntentsOf(cmd) =
                {i \in ReleaseIntent : i.who = cmd.who /\ i.override = cmd.override}
         /\ cmd.kind = "write" =>
              IntentsOf(cmd) =
                {i \in ItemWriteIntent : /\ i.item = cmd.item /\ i.blob = cmd.blob
                                        /\ ~cmd.whole => i.store = AnyStore}
         /\ cmd.kind = "land" =>
              IntentsOf(cmd) =
                {i \in LandingIntent : /\ i.item = cmd.item /\ i.blob = cmd.blob
                                      /\ i.who = cmd.who /\ i.override = cmd.override}
BY DEF IntentsOf

\* Whatever a command builds, apply knows the kind of it.
LEMMA IntentsOfType ==
  ASSUME NEW cmd \in Command
  PROVE  IntentsOf(cmd) \subseteq AnyIntent
<1>1. cmd.kind \in {"claim", "rescope", "release", "write", "land", "bootstrap", "reset", "none"}
  BY DEF Command, ClaimIntent
<1>2. CASE cmd.kind \in {"bootstrap", "reset", "none"}
  BY <1>2 DEF IntentsOf
<1>3. CASE cmd.kind = "claim"
  <2>1. IntentsOf(cmd) = {cmd} /\ cmd \in ClaimIntent
    BY <1>3, IntentsOfKinds, CommandKinds
  <2> QED
    BY <2>1 DEF AnyIntent
<1>4. CASE cmd.kind \in {"rescope", "release", "write", "land"}
  <2>1. \/ IntentsOf(cmd) \subseteq RescopeIntent
        \/ IntentsOf(cmd) \subseteq ReleaseIntent
        \/ IntentsOf(cmd) \subseteq ItemWriteIntent
        \/ IntentsOf(cmd) \subseteq LandingIntent
    BY <1>4, IntentsOfKinds
  <2> QED
    BY <2>1 DEF AnyIntent
<1> QED
  BY <1>1, <1>2, <1>3, <1>4

\* Whatever the commands of the scenarios build, apply knows the kind of it.
LEMMA IntentsOfCommandsType == IntentsOfCommands \subseteq AnyIntent
<1> SUFFICES ASSUME NEW name \in DOMAIN Scenarios, NEW p \in Processes
             PROVE  IntentsOf(Scenarios[name].command[p]) \subseteq AnyIntent
  BY DEF IntentsOfCommands
<1>1. Scenarios[name].command[p] \in Command
  BY StoreAssumption
<1> QED
  BY <1>1, IntentsOfType

\* Only a command that reads or observes builds an intent or takes a snapshot.
LEMMA IntentSteps ==
  ASSUME TypeOK, Next
  PROVE  \A q \in Processes :
           (intent'[q] = intent[q] /\ seen'[q] = seen[q]) \/ CommandStep(q)
<1>1. ASSUME NEW p \in Processes, FetchStep(p) PROVE UNCHANGED <<intent, seen>>
  BY <1>1 DEF FetchStep, ReadTip, CheckLineage, WriteStamp
<1>2. ASSUME NEW p \in Processes, CommandStep(p)
      PROVE  \A q \in Processes \ {p} : intent'[q] = intent[q] /\ seen'[q] = seen[q]
  <2>1. \/ UNCHANGED intent
        \/ \E built : Submit(p, built)
    BY <1>2 DEF CommandStep, ReadItems, ObserveForClaim, ObserveForRescope, ObserveForRelease,
                ObserveForLanding, Refuse
  <2>2. \/ UNCHANGED seen
        \/ \E state : seen' = [seen EXCEPT ![p] = state]
    BY <1>2 DEF CommandStep, ReadItems, ObserveForClaim, ObserveForRescope, ObserveForRelease,
                ObserveForLanding
  <2> QED
    BY <2>1, <2>2 DEF TypeOK, Submit
<1>3. ASSUME NEW p \in Processes, TransitionStep(p) PROVE UNCHANGED <<intent, seen>>
  BY <1>3 DEF TransitionStep, BeginTransition, Push, RefuseIntent, FoundOwnOperation, Retry, Landed
<1>4. ASSUME FaultStep PROVE UNCHANGED <<intent, seen>>
  BY <1>4 DEF FaultStep, RefusePush, LoseConnection, Crash
<1>5. ASSUME NEW push \in wire, ServerStep(push) PROVE UNCHANGED <<intent, seen>>
  BY <1>5 DEF ServerStep, AcceptPush, AcceptLatePush, RejectPush
<1> QED
  BY <1>1, <1>2, <1>3, <1>4, <1>5 DEF Next

\* What a command hands to commit_transition.
LEMMA BuiltIntent ==
  ASSUME TypeOK, CourseInv, NEW p \in Processes, CommandStep(p), intent'[p].kind # "none"
  PROVE  BuiltFrom(intent'[p], CommandOf[p], seen'[p])
<1> DEFINE cmd == CommandOf[p]
           state == StateAt(fetched[p])
           live == SelectedClaim(p)
<1>1. cmd \in Command /\ state \in ClaimState
  BY CommandType, StateAtFacts DEF TypeOK
<1>2. live \in ActiveClaim \cup {NoClaim}
  BY <1>1, ClaimAtType DEF SelectedClaim
<1>3. intent[p].kind = "none"
  BY DEF CommandStep, ReadItems, ObserveForClaim, ObserveForRescope, ObserveForRelease,
         ObserveForLanding, CourseInv, Building
<1>4. \A built : Submit(p, built) => intent'[p] = built
  BY DEF Submit, TypeOK
<1>5. Refuse(p) => intent'[p].kind = "none"
  BY <1>3 DEF Refuse
<1> HIDE DEF state, live, cmd
<1>6. CASE ReadItems(p)
  <2> DEFINE blob == state.items[cmd.item]
             built == [kind |-> "write", item |-> cmd.item, expected |-> blob,
                       blob |-> cmd.blob,
                       store |-> IF cmd.whole THEN state.items ELSE AnyStore]
  <2>1. cmd.kind = "write" /\ Submit(p, built) /\ seen'[p] = state
    BY <1>3, <1>5, <1>6 DEF ReadItems, state, cmd, TypeOK
  <2>2. cmd.item \in ItemIds /\ cmd.blob \in Blobs /\ cmd.whole \in BOOLEAN
    BY <1>1, <2>1, CommandKinds
  <2>3. state.items \in [ItemIds -> Blobs \cup {NoBlob}] /\ blob \in Blobs \cup {NoBlob}
    BY <1>1, <2>2 DEF ClaimState
  <2>4. built \in ItemWriteIntent
    BY <2>2, <2>3 DEF ItemWriteIntent
  <2>5. built \in IntentsOf(cmd)
    BY <2>1, <2>4, IntentsOfKinds
  <2>6. intent'[p] = built
    BY <1>4, <2>1
  <2>7. BuiltFrom(built, cmd, state)
    BY <2>2, <2>5 DEF BuiltFrom
  <2> HIDE DEF built
  <2> QED
    BY <2>1, <2>6, <2>7 DEF cmd
<1>7. CASE ObserveForClaim(p)
  <2>1. cmd.kind = "claim" /\ Submit(p, cmd)
    BY <1>3, <1>5, <1>7 DEF ObserveForClaim, cmd
  <2>2. intent'[p] = cmd
    BY <1>4, <2>1
  <2> QED
    BY <2>1, <2>2, IntentsOfKinds DEF BuiltFrom, cmd
<1>8. CASE ObserveForRescope(p)
  <2> DEFINE built == [kind |-> "rescope", id |-> live.id, who |-> live.who,
                       scope |-> CombinedScope(live.scope, cmd)]
  <2>1. /\ cmd.kind = "rescope" /\ Submit(p, built)
        /\ live # NoClaim /\ AgentOf[cmd.who] = AgentOf[live.who]
    BY <1>3, <1>5, <1>8 DEF ObserveForRescope, live, cmd
  <2>2. live \in ActiveClaim /\ cmd.add \in SUBSET Paths
    BY <1>1, <1>2, <2>1, CommandKinds
  <2>3. built \in RescopeIntent
    BY <2>2 DEF RescopeIntent, ActiveClaim, CombinedScope
  <2>4. built \in IntentsOf(cmd)
    BY <2>1, <2>3, IntentsOfKinds
  <2>5. intent'[p] = built
    BY <1>4, <2>1
  <2> QED
    BY <2>4, <2>5 DEF BuiltFrom, cmd
<1>9. CASE ObserveForRelease(p)
  <2> DEFINE built == [kind |-> "release", id |-> live.id, who |-> cmd.who,
                       override |-> cmd.override]
  <2>1. cmd.kind = "release" /\ Submit(p, built) /\ live # NoClaim
    BY <1>3, <1>5, <1>9 DEF ObserveForRelease, MayRelease, live, cmd
  <2>2. live \in ActiveClaim /\ cmd.who \in Claimants /\ cmd.override \in BOOLEAN
    BY <1>1, <1>2, <2>1, CommandKinds
  <2>3. built \in ReleaseIntent
    BY <2>2 DEF ReleaseIntent, ActiveClaim
  <2>4. built \in IntentsOf(cmd)
    BY <2>1, <2>3, IntentsOfKinds
  <2>5. intent'[p] = built
    BY <1>4, <2>1
  <2> QED
    BY <2>4, <2>5 DEF BuiltFrom, cmd
<1>10. CASE ObserveForLanding(p)
  <2> DEFINE built == [kind |-> "landing", id |-> live.id, who |-> cmd.who,
                       override |-> cmd.override, item |-> cmd.item,
                       expected |-> seen[p].items[cmd.item], blob |-> cmd.blob]
  <2>1. cmd.kind = "land" /\ Submit(p, built) /\ live # NoClaim /\ seen' = seen
    BY <1>3, <1>5, <1>10 DEF ObserveForLanding, MayRelease, live, cmd
  <2>2. /\ live \in ActiveClaim /\ cmd.who \in Claimants /\ cmd.override \in BOOLEAN
        /\ cmd.item \in ItemIds /\ cmd.blob \in Blobs /\ cmd.whole = FALSE
    BY <1>1, <1>2, <2>1, CommandKinds
  <2>3. seen[p].items[cmd.item] \in Blobs \cup {NoBlob}
    BY <2>2 DEF TypeOK, ClaimState
  <2>4. built \in LandingIntent
    BY <2>2, <2>3 DEF LandingIntent, ActiveClaim
  <2>5. built \in IntentsOf(cmd)
    BY <2>1, <2>4, IntentsOfKinds
  <2>6. intent'[p] = built
    BY <1>4, <2>1
  <2>7. BuiltFrom(built, cmd, seen[p])
    BY <2>2, <2>5 DEF BuiltFrom
  <2> HIDE DEF built
  <2> QED
    BY <2>1, <2>6, <2>7 DEF cmd
<1> QED
  BY <1>6, <1>7, <1>8, <1>9, <1>10 DEF CommandStep

\* An intent, once built, is never rebuilt or set against another snapshot.
LEMMA IntentStep ==
  ASSUME TypeOK, CourseInv, IntentInv, Next
  PROVE  IntentInv'
<1>1. CommandOf' = CommandOf
  BY DEF Next, CommandOf
<1> QED
  BY <1>1, IntentSteps, BuiltIntent DEF IntentInv

----------------------------------------------------------------------------
(* What the history on the ref says.                                       *)

\* The entry at each place of the history, its parent's state and the operation
\* that put it there.
LEMMA HistoryFacts ==
  ASSUME IInv, NEW i \in 2 .. Len(remote), NEW p, p = remote[i].op
  PROVE  /\ p \in Processes
         /\ intent[p] \in AnyIntent /\ intent[p].kind # "none"
         /\ remote[i - 1].state \in ClaimState /\ IsFiniteSet(remote[i - 1].state.occupied)
         /\ Admits(remote[i - 1].state, intent[p])
         /\ remote[i].state = CommittedState(remote[i - 1].state, intent[p])
<1>1. /\ Len(remote) \in Nat
      /\ \A j \in 1 .. Len(remote) : /\ remote[j].state \in ClaimState
                                     /\ IsFiniteSet(remote[j].state.occupied)
  BY CommitFacts DEF IInv, TypeOK
<1>2. /\ p \in Processes /\ Submitted(p)
      /\ Admits(remote[i - 1].state, intent[p])
      /\ remote[i].state = CommittedState(remote[i - 1].state, intent[p])
  BY DEF IInv, HistoryInv
<1>3. intent[p].kind # "none"
  BY <1>2 DEF IInv, CourseInv
<1>4. intent[p] \in AnyIntent
  BY <1>2, <1>3 DEF IInv, TypeOK
<1>5. i - 1 \in 1 .. Len(remote)
  BY <1>1
<1> QED
  BY <1>1, <1>2, <1>3, <1>4, <1>5

\* A commit of an item write found what its command read.
LEMMA WritesAreNotLost ==
  ASSUME IInv, IntentInv
  PROVE  NoLostItemWrite
<1> SUFFICES ASSUME NEW i \in 2 .. Len(remote), NEW p, p = remote[i].op,
                    intent[p].kind \in {"write", "landing"}
             PROVE  /\ remote[i - 1].state.items[intent[p].item]
                         = seen[p].items[intent[p].item]
                    /\ CommandOf[p].whole => remote[i - 1].state.items = seen[p].items
  BY DEF NoLostItemWrite
<1>1. /\ p \in Processes /\ intent[p] \in AnyIntent /\ intent[p].kind # "none"
      /\ Admits(remote[i - 1].state, intent[p])
  BY HistoryFacts
<1>2. /\ intent[p].expected = seen[p].items[intent[p].item]
      /\ intent[p].kind = "write" /\ CommandOf[p].whole => intent[p].store = seen[p].items
      /\ intent[p].kind = "landing" => ~CommandOf[p].whole
  BY <1>1 DEF IntentInv, BuiltFrom
<1>3. seen[p].items # AnyStore
  <2>1. seen[p].items \in [ItemIds -> Blobs \cup {NoBlob}]
    BY <1>1 DEF IInv, TypeOK, ClaimState
  <2> QED
    BY <2>1, ConstantsAssumption
<1>4. /\ remote[i - 1].state.items[intent[p].item] = intent[p].expected
      /\ intent[p].kind = "write" /\ intent[p].store # AnyStore =>
           remote[i - 1].state.items = intent[p].store
  BY <1>1 DEF Admits, AdmitsClaim, AdmitsRescope, AdmitsRelease, AdmitsItemWrite, AdmitsLanding
<1> QED
  BY <1>2, <1>3, <1>4

\* What is built stays what its command may build.
LEMMA IntentInvariant == Spec => []IntentInv
<1>1. Init => IntentInv
  BY DEF Init, IntentInv
<1>2. IInv /\ IntentInv /\ [Next]_<<vars, scenario>> => IntentInv'
  <2> SUFFICES ASSUME IInv, IntentInv, [Next]_<<vars, scenario>> PROVE IntentInv'
    OBVIOUS
  <2>1. CASE Next
    BY <2>1, IntentStep DEF IInv
  <2>2. CASE UNCHANGED <<vars, scenario>>
    BY <2>2 DEF vars, IntentInv, CommandOf
  <2> QED
    BY <2>1, <2>2
<1> QED
  BY <1>1, <1>2, StoreInvariant, PTL DEF Spec

\* No write to an item replaces content its command did not read, and a write
\* that checked all of items/ replaces nothing else, whatever lands in between.
THEOREM StoreLosesNoItemWrite == Spec => []NoLostItemWrite
BY StoreInvariant, IntentInvariant, WritesAreNotLost, PTL

\* The ids of live claims are in use at every commit.
IdsInv ==
  \A i \in 1 .. Len(remote) :
    \A c \in remote[i].state.claims : c.id \in remote[i].state.consumed

\* How the ref changes, if it does.
Landing(e, op) ==
  /\ remote' = Append(remote, e)
  /\ e \in Entry /\ op \in Processes
  /\ e = [op |-> op, state |-> CommittedState(StateAt(remote), intent[op])]
  /\ Admits(StateAt(remote), intent[op])
  /\ op \notin OperationsOn(remote)
  /\ intent[op] \in AnyIntent /\ intent[op].kind # "none"

\* Every step lands one commit on the ref or leaves it alone.
LEMMA RefSteps ==
  ASSUME IInv, Next
  PROVE  UNCHANGED remote \/ \E e, op : Landing(e, op)
<1>1. TypeOK /\ CourseInv /\ WireInv
  BY DEF IInv
<1> SUFFICES ASSUME NEW push \in wire, push.old = remote, remote' = push.new, remote' # remote
             PROVE  \E e, op : Landing(e, op)
  BY RemoteSteps
<1>2. /\ push.new = Append(remote, Last(push.new)) /\ Last(push.new) \in Entry
      /\ push.op \in Processes
      /\ Last(push.new) = [op |-> push.op,
                           state |-> CommittedState(StateAt(remote), intent[push.op])]
      /\ Admits(StateAt(remote), intent[push.op])
      /\ push.op \notin OperationsOn(remote) /\ Submitted(push.op)
  BY <1>1, AcceptedCommit
<1>3. intent[push.op].kind # "none" /\ intent[push.op] \in AnyIntent
  BY <1>1, <1>2 DEF CourseInv, TypeOK
<1>4. Landing(Last(push.new), push.op)
  BY <1>2, <1>3 DEF Landing
<1> QED
  BY <1>4

\* The ref before and after a landing, place by place.
LEMMA LandingFacts ==
  ASSUME IInv, NEW e, NEW op, Landing(e, op)
  PROVE  LET n == Len(remote) IN
         /\ n \in Nat \ {0} /\ Len(remote') = n + 1
         /\ \A i \in 1 .. n : remote'[i] = remote[i]
         /\ remote'[n + 1] = e /\ e.op = op
         /\ e.state = CommittedState(remote[n].state, intent[op])
         /\ Admits(remote[n].state, intent[op])
         /\ remote[n].state \in ClaimState /\ IsFiniteSet(remote[n].state.occupied)
         /\ remote[n].state.tip = n
         /\ StateAt(remote) = remote[n].state /\ StateAt(remote') = e.state
<1> DEFINE n == Len(remote)
<1>1. /\ remote \in Commit /\ remote # NoRef /\ n \in Nat /\ n # 0 /\ remote \in Seq(Entry)
  BY CommitFacts DEF IInv, TypeOK, AncestryInv
<1>2. /\ Append(remote, e) \in Seq(Entry) /\ Len(Append(remote, e)) = n + 1
      /\ Append(remote, e)[n + 1] = e
      /\ \A i \in 1 .. n : Append(remote, e)[i] = remote[i]
  BY <1>1, AppendProperties DEF Landing
<1>3. /\ Last(Append(remote, e)) = e /\ Append(remote, e) # <<>>
  BY <1>1, OneMore DEF Landing
<1>4. StateAt(remote) = remote[n].state /\ n \in 1 .. n
  BY <1>1, StateAtFacts
<1>5. StateAt(Append(remote, e)) = e.state
  BY <1>3 DEF StateAt, NoRef
<1>6. /\ remote[n].state \in ClaimState /\ IsFiniteSet(remote[n].state.occupied)
      /\ remote[n].state.tip = n
  BY <1>1, <1>4, CommitFacts
<1>7. /\ remote' = Append(remote, e) /\ e.op = op
      /\ e.state = CommittedState(StateAt(remote), intent[op])
      /\ Admits(StateAt(remote), intent[op])
  BY DEF Landing
<1>8. StateAt(remote') = e.state
  BY <1>5, <1>7
<1> HIDE DEF n
<1> QED
  BY <1>1, <1>2, <1>4, <1>6, <1>7, <1>8 DEF n

\* A claim that is opened carries its command's id and the tip it was opened on.
LEMMA OpenedClaimFields ==
  ASSUME NEW s, NEW i
  PROVE  OpenedClaim(s, i).id = i.id /\ OpenedClaim(s, i).opened = s.tip
BY DEF OpenedClaim

\* The ids of the live claims stay among the ids in use.
LEMMA IdsStep ==
  ASSUME IInv, IdsInv, Next
  PROVE  IdsInv'
<1>1. CASE UNCHANGED remote
  BY <1>1 DEF IdsInv
<1>2. ASSUME NEW e, NEW op, Landing(e, op) PROVE IdsInv'
  <2> DEFINE n == Len(remote)
             s == remote[n].state
  <2>1. /\ n \in Nat \ {0} /\ Len(remote') = n + 1
        /\ \A i \in 1 .. n : remote'[i] = remote[i]
        /\ remote'[n + 1] = e
        /\ e.state = CommittedState(s, intent[op]) /\ Admits(s, intent[op])
        /\ s \in ClaimState /\ IsFiniteSet(s.occupied)
    BY <1>2, LandingFacts
  <2>2. intent[op] \in AnyIntent
    BY <1>2 DEF Landing
  <2>3. \A c \in s.claims : c.id \in s.consumed
    BY <2>1 DEF IdsInv
  <2> HIDE DEF n, s
  <2>4. ASSUME NEW c \in e.state.claims PROVE c.id \in e.state.consumed
    <3>1. c \in CommittedState(s, intent[op]).claims
      BY <2>1, <2>4
    <3>2. \/ \E d \in s.claims : d.id = c.id
          \/ intent[op].kind = "claim" /\ intent[op].id \notin s.consumed
             /\ c = OpenedClaim(s, intent[op])
      BY <2>1, <2>2, <3>1, CommittedClaims
    <3>3. /\ s.consumed \subseteq CommittedState(s, intent[op]).consumed
          /\ intent[op].kind = "claim" /\ intent[op].id \notin s.consumed =>
               intent[op].id \in CommittedState(s, intent[op]).consumed
      BY <2>1, <2>2, CommittedOpening
    <3> QED
      BY <2>1, <2>3, <3>2, <3>3, OpenedClaimFields
  <2>5. \A i \in 1 .. n : \A c \in remote[i].state.claims : c.id \in remote[i].state.consumed
    BY DEF IdsInv, n
  <2>6. SUFFICES ASSUME NEW i \in 1 .. n + 1, NEW c \in remote'[i].state.claims
                 PROVE  c.id \in remote'[i].state.consumed
    BY <2>1 DEF IdsInv
  <2>7. i \in 1 .. n \/ i = n + 1
    BY <2>1
  <2> QED
    BY <2>1, <2>4, <2>5, <2>6, <2>7
<1> QED
  BY <1>1, <1>2, RefSteps

\* A commit keeps the opening of each claim, and a new claim's is the tip below it.
LEMMA OpenedStep ==
  ASSUME IInv, OpenedCommitPrecedesClaim, Next
  PROVE  OpenedCommitPrecedesClaim'
<1>1. CASE UNCHANGED remote
  BY <1>1 DEF OpenedCommitPrecedesClaim
<1>2. ASSUME NEW e, NEW op, Landing(e, op) PROVE OpenedCommitPrecedesClaim'
  <2> DEFINE n == Len(remote)
             s == remote[n].state
             Before(c, i) == /\ c.opened \in 1 .. i - 1
                             /\ c.id \notin remote[c.opened].state.consumed
                             /\ \E d \in remote[c.opened + 1].state.claims : d.id = c.id
  <2>1. /\ n \in Nat \ {0} /\ Len(remote') = n + 1
        /\ \A i \in 1 .. n : remote'[i] = remote[i]
        /\ remote'[n + 1] = e
        /\ e.state = CommittedState(s, intent[op]) /\ Admits(s, intent[op])
        /\ s \in ClaimState /\ IsFiniteSet(s.occupied) /\ s.tip = n
    BY <1>2, LandingFacts
  <2>2. intent[op] \in AnyIntent
    BY <1>2 DEF Landing
  <2>3. /\ remote \in Seq(Entry) /\ remote' \in Seq(Entry)
        /\ DOMAIN remote = 1 .. n /\ DOMAIN remote' = 1 .. n + 1
    <3>1. remote \in Seq(Entry)
      BY CommitFacts DEF IInv, TypeOK
    <3>2. remote' \in Seq(Entry)
      BY <1>2, <3>1, AppendProperties DEF Landing
    <3> QED
      BY <2>1, <3>1, <3>2
  <2>4. \A i \in 1 .. n : \A c \in remote[i].state.claims : Before(c, i)
    BY <2>3 DEF OpenedCommitPrecedesClaim
  <2> HIDE DEF n, s
  <2>5. ASSUME NEW i \in 1 .. n + 1, NEW c \in remote'[i].state.claims
        PROVE  /\ c.opened \in 1 .. i - 1
               /\ c.id \notin remote'[c.opened].state.consumed
               /\ \E d \in remote'[c.opened + 1].state.claims : d.id = c.id
    <3>1. CASE i \in 1 .. n
      <4>1. Before(c, i)
        BY <2>1, <2>4, <2>5, <3>1
      <4>2. c.opened \in 1 .. n /\ c.opened + 1 \in 1 .. n
        BY <2>1, <3>1, <4>1
      <4>3. remote'[c.opened] = remote[c.opened] /\ remote'[c.opened + 1] = remote[c.opened + 1]
        BY <2>1, <4>2
      <4> QED
        BY <4>1, <4>3
    <3>2. CASE i = n + 1
      <4>1. c \in CommittedState(s, intent[op]).claims
        BY <2>1, <2>5, <3>2
      <4>2. \/ \E d \in s.claims : d.id = c.id /\ d.opened = c.opened
            \/ intent[op].kind = "claim" /\ intent[op].id \notin s.consumed
               /\ c = OpenedClaim(s, intent[op])
        BY <2>1, <2>2, <4>1, CommittedClaims
      <4>3. CASE \E d \in s.claims : d.id = c.id /\ d.opened = c.opened
        <5>1. n \in 1 .. n
          BY <2>1
        <5>2. Before(c, n)
          BY <2>4, <4>3, <5>1 DEF s
        <5>3. c.opened \in 1 .. n /\ c.opened + 1 \in 1 .. n /\ c.opened \in 1 .. i - 1
          BY <2>1, <3>2, <5>2
        <5>4. remote'[c.opened] = remote[c.opened] /\ remote'[c.opened + 1] = remote[c.opened + 1]
          BY <2>1, <5>3
        <5> QED
          BY <5>2, <5>3, <5>4
      <4>4. CASE intent[op].kind = "claim" /\ intent[op].id \notin s.consumed
                 /\ c = OpenedClaim(s, intent[op])
        <5>1. c.id = intent[op].id /\ c.opened = n
          BY <2>1, <4>4, OpenedClaimFields
        <5>2. n \in 1 .. n /\ c.opened \in 1 .. i - 1
          BY <2>1, <3>2, <5>1
        <5>3. remote'[c.opened].state = s /\ remote'[c.opened + 1] = e
          BY <2>1, <5>1, <5>2 DEF s
        <5> QED
          BY <2>1, <4>1, <4>4, <5>1, <5>2, <5>3
      <4> QED
        BY <4>2, <4>3, <4>4
    <3> QED
      BY <2>1, <3>1, <3>2
  <2> QED
    BY <2>3, <2>5 DEF OpenedCommitPrecedesClaim
<1> QED
  BY <1>1, <1>2, RefSteps

\* The bootstrap commit has no claims.
LEMMA BootstrapHasNoClaims ==
  ASSUME Init
  PROVE  /\ Len(remote) = 1 /\ DOMAIN remote = {1}
         /\ remote[1].state = BootstrapState(1) /\ remote[1].op = Root
         /\ BootstrapState(1).claims = {} /\ BootstrapState(1).consumed = {}
<1> DEFINE root == [op |-> Root, state |-> BootstrapState(1)]
<1>1. remote = <<root>> /\ root.op = Root /\ root.state = BootstrapState(1)
  BY DEF Init
<1>2. BootstrapState(1).claims = {} /\ BootstrapState(1).consumed = {}
  BY DEF BootstrapState, EMPTY_STATE
<1> HIDE DEF root
<1>3. Len(remote) = 1 /\ DOMAIN remote = {1} /\ remote[1] = root
  BY <1>1
<1> QED
  BY <1>1, <1>2, <1>3

\* At every commit the ids of the live claims are in use.
LEMMA IdsInvariant == Spec => []IdsInv
<1>1. Init => IdsInv
  <2> SUFFICES ASSUME Init PROVE IdsInv
    OBVIOUS
  <2>1. Len(remote) = 1 /\ remote[1].state.claims = {}
    BY BootstrapHasNoClaims
  <2>2. \A i \in 1 .. Len(remote) : i = 1
    BY <2>1
  <2> QED
    BY <2>1, <2>2 DEF IdsInv
<1>2. IInv /\ IdsInv /\ [Next]_<<vars, scenario>> => IdsInv'
  BY IdsStep DEF vars, IdsInv
<1> QED
  BY <1>1, <1>2, StoreInvariant, PTL DEF Spec

\* A claim's opened commit is the tip before the commit that added it, however
\* many attempts the command took, and stays so as it is rescoped.
THEOREM StoreRecordsTheOpening == Spec => []OpenedCommitPrecedesClaim
<1>1. Init => OpenedCommitPrecedesClaim
  BY BootstrapHasNoClaims DEF OpenedCommitPrecedesClaim
<1>2. IInv /\ OpenedCommitPrecedesClaim /\ [Next]_<<vars, scenario>>
        => OpenedCommitPrecedesClaim'
  BY OpenedStep DEF vars, OpenedCommitPrecedesClaim
<1> QED
  BY <1>1, <1>2, StoreInvariant, PTL DEF Spec

----------------------------------------------------------------------------
(* The definitions that come with an instance of the ledger are those of    *)
(* this module: none of them reads a variable.                              *)

\* What looks up and compares claims.
LEMMA SameParts ==
  ASSUME NEW s, NEW i, NEW c
  PROVE  /\ Abstract!LiveClaimById(s, c) = LiveClaimById(s, c)
         /\ Promise!LiveClaimById(s, c) = LiveClaimById(s, c)
         /\ Abstract!SameClaimant(c, i) <=> SameClaimant(c, i)
         /\ Promise!SameClaimant(c, i) <=> SameClaimant(c, i)
         /\ Abstract!ClaimMatchesIntent(c, i) <=> ClaimMatchesIntent(c, i)
         /\ Promise!ClaimMatchesIntent(c, i) <=> ClaimMatchesIntent(c, i)
         /\ Abstract!AuthorizeRelease(c, i) <=> AuthorizeRelease(c, i)
         /\ Promise!AuthorizeRelease(c, i) <=> AuthorizeRelease(c, i)
         /\ Abstract!BlockingClaims(s, i) = BlockingClaims(s, i)
         /\ Promise!BlockingClaims(s, i) = BlockingClaims(s, i)
         /\ Abstract!PutClaim(s, c) = PutClaim(s, c)
         /\ Promise!PutClaim(s, c) = PutClaim(s, c)
<1>1. /\ Abstract!LiveClaimById(s, c) = LiveClaimById(s, c)
      /\ Promise!LiveClaimById(s, c) = LiveClaimById(s, c)
  BY DEF LiveClaimById, Abstract!LiveClaimById, Promise!LiveClaimById
<1>2. /\ Abstract!SameClaimant(c, i) <=> SameClaimant(c, i)
      /\ Promise!SameClaimant(c, i) <=> SameClaimant(c, i)
  BY DEF SameClaimant, Abstract!SameClaimant, Promise!SameClaimant
<1>3. /\ Abstract!ClaimMatchesIntent(c, i) <=> ClaimMatchesIntent(c, i)
      /\ Promise!ClaimMatchesIntent(c, i) <=> ClaimMatchesIntent(c, i)
  BY <1>2 DEF ClaimMatchesIntent, Abstract!ClaimMatchesIntent, Promise!ClaimMatchesIntent
<1>4. /\ Abstract!AuthorizeRelease(c, i) <=> AuthorizeRelease(c, i)
      /\ Promise!AuthorizeRelease(c, i) <=> AuthorizeRelease(c, i)
  BY <1>2 DEF AuthorizeRelease, Abstract!AuthorizeRelease, Promise!AuthorizeRelease
<1>5. /\ Abstract!BlockingClaims(s, i) = BlockingClaims(s, i)
      /\ Promise!BlockingClaims(s, i) = BlockingClaims(s, i)
  BY DEF BlockingClaims, Abstract!BlockingClaims, Promise!BlockingClaims
<1>6. /\ Abstract!PutClaim(s, c) = PutClaim(s, c)
      /\ Promise!PutClaim(s, c) = PutClaim(s, c)
  BY DEF PutClaim, Abstract!PutClaim, Promise!PutClaim
<1> QED
  BY <1>1, <1>2, <1>3, <1>4, <1>5, <1>6

\* Finite sets and their sizes.
LEMMA SameFinite ==
  ASSUME NEW S
  PROVE  /\ Abstract!Cardinality(S) = Cardinality(S)
         /\ Promise!Cardinality(S) = Cardinality(S)
         /\ Abstract!IsFiniteSet(S) <=> IsFiniteSet(S)
         /\ Promise!IsFiniteSet(S) <=> IsFiniteSet(S)
<1>1. Abstract!Cardinality(S) = Cardinality(S)
  BY DEF Cardinality, Abstract!Cardinality
<1>2. Promise!Cardinality(S) = Cardinality(S)
  BY DEF Cardinality, Promise!Cardinality
<1>3. /\ Abstract!IsFiniteSet(S) <=> IsFiniteSet(S)
      /\ Promise!IsFiniteSet(S) <=> IsFiniteSet(S)
  BY DEF IsFiniteSet, Abstract!IsFiniteSet, Promise!IsFiniteSet
<1> QED
  BY <1>1, <1>2, <1>3

\* The hold that a request resolves to.
LEMMA SameResource ==
  ASSUME NEW s, NEW i
  PROVE  /\ Abstract!ResolvedResource(s, i) = ResolvedResource(s, i)
         /\ Promise!ResolvedResource(s, i) = ResolvedResource(s, i)
<1>1. \A c : /\ Abstract!OccupiedValues(s, c) = OccupiedValues(s, c)
             /\ Promise!OccupiedValues(s, c) = OccupiedValues(s, c)
  BY DEF OccupiedValues, Abstract!OccupiedValues, Promise!OccupiedValues
<1>2. ASSUME NEW c
      PROVE  /\ Abstract!AutoResourceValue(c) = AutoResourceValue(c)
             /\ Promise!AutoResourceValue(c) = AutoResourceValue(c)
  <2>1. Abstract!AutoResourceValue(c) = AutoResourceValue(c)
    BY SameFinite DEF AutoResourceValue, Abstract!AutoResourceValue
  <2>2. Promise!AutoResourceValue(c) = AutoResourceValue(c)
    BY SameFinite DEF AutoResourceValue, Promise!AutoResourceValue
  <2> QED
    BY <2>1, <2>2
<1> QED
  BY <1>1, <1>2 DEF ResolvedResource, Abstract!ResolvedResource, Promise!ResolvedResource

\* The claim that an intent opens, and whether it is a replay.
LEMMA SameOpening ==
  ASSUME NEW s, NEW i
  PROVE  /\ Abstract!OpenedClaim(s, i) = OpenedClaim(s, i)
         /\ Promise!OpenedClaim(s, i) = OpenedClaim(s, i)
         /\ Abstract!IsReplay(s, i) <=> IsReplay(s, i)
         /\ Promise!IsReplay(s, i) <=> IsReplay(s, i)
<1>1. /\ Abstract!OpenedClaim(s, i) = OpenedClaim(s, i)
      /\ Promise!OpenedClaim(s, i) = OpenedClaim(s, i)
  BY SameResource DEF OpenedClaim, Abstract!OpenedClaim, Promise!OpenedClaim
<1>2. /\ Abstract!LiveClaimById(s, i.id) = LiveClaimById(s, i.id)
      /\ Promise!LiveClaimById(s, i.id) = LiveClaimById(s, i.id)
      /\ \A c : /\ Abstract!ClaimMatchesIntent(c, i) <=> ClaimMatchesIntent(c, i)
                /\ Promise!ClaimMatchesIntent(c, i) <=> ClaimMatchesIntent(c, i)
  BY SameParts
<1> QED
  BY <1>1, <1>2 DEF IsReplay, Abstract!IsReplay, Promise!IsReplay

\* Which intents a state admits.
LEMMA SameAdmits ==
  ASSUME NEW s, NEW i
  PROVE  /\ Abstract!Admits(s, i) <=> Admits(s, i)
         /\ Promise!Admits(s, i) <=> Admits(s, i)
<1>1. \A c : /\ Abstract!AuthorizeRelease(c, i) <=> AuthorizeRelease(c, i)
             /\ Promise!AuthorizeRelease(c, i) <=> AuthorizeRelease(c, i)
             /\ Abstract!SameClaimant(c, i) <=> SameClaimant(c, i)
             /\ Promise!SameClaimant(c, i) <=> SameClaimant(c, i)
  BY SameParts
<1>2. Abstract!Admits(s, i) <=> Admits(s, i)
  BY <1>1, SameParts, SameResource, SameOpening
     DEF Admits, AdmitsClaim, AdmitsRescope, AdmitsRelease, AdmitsItemWrite, AdmitsLanding,
         Abstract!Admits, Abstract!AdmitsClaim, Abstract!AdmitsRescope,
         Abstract!AdmitsRelease, Abstract!AdmitsItemWrite, Abstract!AdmitsLanding
<1>3. Promise!Admits(s, i) <=> Admits(s, i)
  BY <1>1, SameParts, SameResource, SameOpening
     DEF Admits, AdmitsClaim, AdmitsRescope, AdmitsRelease, AdmitsItemWrite, AdmitsLanding,
         Promise!Admits, Promise!AdmitsClaim, Promise!AdmitsRescope,
         Promise!AdmitsRelease, Promise!AdmitsItemWrite, Promise!AdmitsLanding
<1> QED
  BY <1>2, <1>3

\* What an intent makes of a state.
LEMMA SameCommitted ==
  ASSUME NEW s, NEW i
  PROVE  /\ Abstract!CommittedState(s, i) = CommittedState(s, i)
         /\ Promise!CommittedState(s, i) = CommittedState(s, i)
<1>1. /\ Abstract!DropClaim(s, i.id) = DropClaim(s, i.id)
      /\ Promise!DropClaim(s, i.id) = DropClaim(s, i.id)
  BY SameParts DEF DropClaim, Abstract!DropClaim, Promise!DropClaim
<1>2. /\ Abstract!ApplyClaimIntent(s, i) = ApplyClaimIntent(s, i)
      /\ Promise!ApplyClaimIntent(s, i) = ApplyClaimIntent(s, i)
  BY SameParts, SameResource, SameOpening
     DEF ApplyClaimIntent, Abstract!ApplyClaimIntent, Promise!ApplyClaimIntent
<1>3. /\ Abstract!ApplyRescopeIntent(s, i) = ApplyRescopeIntent(s, i)
      /\ Promise!ApplyRescopeIntent(s, i) = ApplyRescopeIntent(s, i)
  BY SameParts DEF ApplyRescopeIntent, Abstract!ApplyRescopeIntent, Promise!ApplyRescopeIntent
<1>4. /\ Abstract!ApplyReleaseIntent(s, i) = ApplyReleaseIntent(s, i)
      /\ Promise!ApplyReleaseIntent(s, i) = ApplyReleaseIntent(s, i)
  BY <1>1 DEF ApplyReleaseIntent, Abstract!ApplyReleaseIntent, Promise!ApplyReleaseIntent
<1>5. /\ Abstract!ApplyItemWriteIntent(s, i) = ApplyItemWriteIntent(s, i)
      /\ Promise!ApplyItemWriteIntent(s, i) = ApplyItemWriteIntent(s, i)
  BY DEF ApplyItemWriteIntent, Abstract!ApplyItemWriteIntent, Promise!ApplyItemWriteIntent
<1>6. /\ Abstract!ApplyLandingIntent(s, i) = ApplyLandingIntent(s, i)
      /\ Promise!ApplyLandingIntent(s, i) = ApplyLandingIntent(s, i)
  BY <1>1 DEF ApplyLandingIntent, Abstract!ApplyLandingIntent, Promise!ApplyLandingIntent
<1>7. Abstract!Apply(s, i) = Apply(s, i) /\ Promise!Apply(s, i) = Apply(s, i)
  BY <1>2, <1>3, <1>4, <1>5, <1>6 DEF Apply, Abstract!Apply, Promise!Apply
<1> QED
  BY <1>7 DEF CommittedState, Abstract!CommittedState, Promise!CommittedState

----------------------------------------------------------------------------
(* Each commit on the ref is one step of the ledger.                        *)

\* A built intent is one of those the scenarios' commands may build.
LEMMA SubmittedIntents ==
  ASSUME IInv, IntentInv, NEW p \in Processes, intent[p].kind # "none"
  PROVE  intent[p] \in IntentsOfCommands
<1>1. intent[p] \in IntentsOf(CommandOf[p])
  BY DEF IntentInv, BuiltFrom
<1>2. scenario \in DOMAIN Scenarios
  BY DEF IInv, TypeOK
<1> QED
  BY <1>1, <1>2 DEF IntentsOfCommands, CommandOf

\* The claims a landing opens.
Opening(s, i) ==
  IF i.kind = "claim" /\ i.id \notin s.consumed THEN {OpenedClaim(s, i)} ELSE {}

\* A landing adds the claim it opens to those ever opened on the ref.
LEMMA OpenedMore ==
  ASSUME IInv, IdsInv, NEW e, NEW op, Landing(e, op)
  PROVE  OpenedOn(remote') = OpenedOn(remote) \cup Opening(StateAt(remote), intent[op])
<1> DEFINE n == Len(remote)
           s == remote[n].state
           Opened(commit, i) == {c \in commit[i].state.claims :
                                   c.id \notin commit[i - 1].state.consumed}
<1>1. /\ n \in Nat \ {0} /\ Len(remote') = n + 1
      /\ \A i \in 1 .. n : remote'[i] = remote[i]
      /\ remote'[n + 1] = e
      /\ e.state = CommittedState(s, intent[op]) /\ Admits(s, intent[op])
      /\ s \in ClaimState /\ IsFiniteSet(s.occupied) /\ StateAt(remote) = s
  BY LandingFacts
<1>2. intent[op] \in AnyIntent
  BY DEF Landing
<1>3. n \in 1 .. n /\ \A c \in s.claims : c.id \in s.consumed
  BY <1>1 DEF IdsInv
<1>4. OpenedOn(remote) = UNION {Opened(remote, i) : i \in 2 .. n}
  BY DEF OpenedOn
<1>5. OpenedOn(remote') = UNION {Opened(remote', i) : i \in 2 .. n + 1}
  BY <1>1 DEF OpenedOn
<1>6. Opened(remote', n + 1) = Opening(s, intent[op])
  <2>1. remote'[n + 1].state.claims = CommittedState(s, intent[op]).claims
    BY <1>1
  <2>2. n + 1 - 1 = n /\ remote'[n].state.consumed = s.consumed
    BY <1>1, <1>3
  <2>3. ASSUME NEW c \in CommittedState(s, intent[op]).claims, c.id \notin s.consumed
        PROVE  c \in Opening(s, intent[op])
    <3>1. \/ \E d \in s.claims : d.id = c.id /\ d.opened = c.opened
          \/ intent[op].kind = "claim" /\ intent[op].id \notin s.consumed
             /\ c = OpenedClaim(s, intent[op])
      BY <1>1, <1>2, <2>3, CommittedClaims
    <3> QED
      BY <1>3, <2>3, <3>1 DEF Opening
  <2>4. ASSUME NEW c \in Opening(s, intent[op])
        PROVE  c \in CommittedState(s, intent[op]).claims /\ c.id \notin s.consumed
    <3>1. intent[op].kind = "claim" /\ intent[op].id \notin s.consumed
          /\ c = OpenedClaim(s, intent[op])
      BY <2>4 DEF Opening
    <3>2. OpenedClaim(s, intent[op]) \in CommittedState(s, intent[op]).claims
      BY <1>1, <1>2, <3>1, CommittedOpening
    <3> QED
      BY <3>1, <3>2, OpenedClaimFields
  <2>5. Opened(remote', n + 1) = {c \in CommittedState(s, intent[op]).claims :
                                   c.id \notin s.consumed}
    BY <2>1, <2>2
  <2> HIDE DEF s, n, Opened
  <2> QED
    BY <2>3, <2>4, <2>5
<1>7. \A i \in 2 .. n : Opened(remote', i) = Opened(remote, i)
  <2> SUFFICES ASSUME NEW i \in 2 .. n PROVE Opened(remote', i) = Opened(remote, i)
    OBVIOUS
  <2>1. i \in 1 .. n /\ i - 1 \in 1 .. n
    BY <1>1
  <2> QED
    BY <1>1, <2>1
<1>8. 2 .. n + 1 = (2 .. n) \cup {n + 1}
  BY <1>1
<1> HIDE DEF n, s, Opened
<1> QED
  BY <1>1, <1>4, <1>5, <1>6, <1>7, <1>8

\* What a landing does to the ledger: one operation that was not applied is, with
\* an intent the state admits.
Effect(op, i) ==
  /\ op \in Processes /\ i \in IntentsOfCommands
  /\ i.kind \in {"claim", "rescope", "release", "write", "landing"}
  /\ op \notin OperationsOn(remote) \ {Root}
  /\ OperationsOn(remote') \ {Root} = (OperationsOn(remote) \ {Root}) \cup {op}
  /\ Admits(StateAt(remote), i)
  /\ StateAt(remote') = CommittedState(StateAt(remote), i)
  /\ OpenedOn(remote') = OpenedOn(remote) \cup Opening(StateAt(remote), i)

\* A landing is one operation's effect on the ledger.
LEMMA LandingEffect ==
  ASSUME IInv, IntentInv, IdsInv, NEW e, NEW op, Landing(e, op)
  PROVE  Effect(op, intent[op])
<1>1. /\ op \in Processes /\ intent[op] \in AnyIntent /\ intent[op].kind # "none"
      /\ op \notin OperationsOn(remote) /\ remote' = Append(remote, e) /\ e.op = op
      /\ Admits(StateAt(remote), intent[op]) /\ e \in Entry
  BY DEF Landing
<1>2. remote \in Seq(Entry)
  BY CommitFacts DEF IInv, TypeOK
<1>3. OperationsOn(remote') = OperationsOn(remote) \cup {op}
  BY <1>1, <1>2, OperationsOnMore
<1>4. Root # op
  BY <1>1, StoreAssumption
<1>5. StateAt(remote') = CommittedState(StateAt(remote), intent[op])
  BY LandingFacts
<1>6. intent[op].kind \in {"claim", "rescope", "release", "write", "landing"}
  BY <1>1 DEF Admits, AdmitsClaim, AdmitsRescope, AdmitsRelease, AdmitsItemWrite, AdmitsLanding
<1>7. intent[op] \in IntentsOfCommands
  BY <1>1, SubmittedIntents
<1> QED
  BY <1>1, <1>3, <1>4, <1>5, <1>6, <1>7, OpenedMore DEF Effect

\* Every step has one operation's effect on the ledger or none.
LEMMA EffectSteps ==
  ASSUME IInv, IntentInv, IdsInv, [Next]_<<vars, scenario>>
  PROVE  UNCHANGED remote \/ \E op, i : Effect(op, i)
<1>1. CASE Next
  BY <1>1, RefSteps, LandingEffect
<1>2. CASE UNCHANGED <<vars, scenario>>
  BY <1>2 DEF vars
<1> QED
  BY <1>1, <1>2

\* Such an effect is a step of the ledger.
LEMMA EffectIsAbstractStep ==
  ASSUME NEW op, NEW i, Effect(op, i)
  PROVE  Abstract!Next
<1>1. Abstract!Once(op)
  BY DEF Effect, Abstract!Once
<1>2. Abstract!Transition(i)
  BY SameAdmits, SameCommitted DEF Effect, Abstract!Transition
<1>3. \/ Abstract!Claim(i) \/ Abstract!ReplayClaim(i) \/ Abstract!Rescope(i)
      \/ Abstract!Release(i) \/ Abstract!WriteItem(i) \/ Abstract!Land(i)
  BY <1>2, SameOpening
     DEF Effect, Opening, Abstract!Claim, Abstract!ReplayClaim, Abstract!Rescope,
         Abstract!Release, Abstract!WriteItem, Abstract!Land
<1>4. op \in Processes /\ i \in IntentsOfCommands
  BY DEF Effect
<1> QED
  BY <1>1, <1>3, <1>4 DEF Abstract!Next

\* The same, of the instance that comes with the ledger's theorems.
LEMMA EffectIsPromisedStep ==
  ASSUME NEW op, NEW i, Effect(op, i)
  PROVE  Promise!Next
<1>1. Promise!Once(op)
  BY DEF Effect, Promise!Once
<1>2. Promise!Transition(i)
  BY SameAdmits, SameCommitted DEF Effect, Promise!Transition
<1>3. \/ Promise!Claim(i) \/ Promise!ReplayClaim(i) \/ Promise!Rescope(i)
      \/ Promise!Release(i) \/ Promise!WriteItem(i) \/ Promise!Land(i)
  BY <1>2, SameOpening
     DEF Effect, Opening, Promise!Claim, Promise!ReplayClaim, Promise!Rescope,
         Promise!Release, Promise!WriteItem, Promise!Land
<1>4. op \in Processes /\ i \in IntentsOfCommands
  BY DEF Effect
<1> QED
  BY <1>1, <1>3, <1>4 DEF Promise!Next

\* A bootstrapped ref is the ledger's initial state.
LEMMA InitialRef ==
  ASSUME Init
  PROVE  Abstract!Init /\ Promise!Init
<1>1. /\ remote = <<[op |-> Root, state |-> BootstrapState(1)]>>
      /\ Len(remote) = 1 /\ DOMAIN remote = {1} /\ remote[1].op = Root
      /\ remote[1].state = BootstrapState(1)
  BY BootstrapHasNoClaims DEF Init
<1>2. remote # <<>> /\ Last(remote) = remote[1]
  BY <1>1 DEF Last
<1>3. StateAt(remote) = BootstrapState(1)
  BY <1>1, <1>2 DEF StateAt, NoRef
<1>4. OperationsOn(remote) \ {Root} = {}
  BY <1>1 DEF OperationsOn
<1>5. OpenedOn(remote) = {}
  <2>1. 2 .. Len(remote) = {}
    BY <1>1
  <2> QED
    BY <2>1 DEF OpenedOn
<1>6. BootstrapState(1) = Abstract!BootstrapState(1)
  BY DEF BootstrapState, EMPTY_STATE, Abstract!BootstrapState, Abstract!EMPTY_STATE
<1>7. BootstrapState(1) = Promise!BootstrapState(1)
  BY DEF BootstrapState, EMPTY_STATE, Promise!BootstrapState, Promise!EMPTY_STATE
<1> QED
  BY <1>3, <1>4, <1>5, <1>6, <1>7 DEF Abstract!Init, Promise!Init

\* The fetch, commit and push loop implements the ledger: through lost answers,
\* late pushes, retries, refusals and crashes every change of the ref is one
\* atomic step of it, and nothing else of what the processes do is seen there.
THEOREM StoreImplementsLedger == Spec => ImplementsLedger
<1>1. Init => Abstract!Init
  BY InitialRef
<1>2. IInv /\ IntentInv /\ IdsInv /\ [Next]_<<vars, scenario>>
        => [Abstract!Next]_(Abstract!vars)
  BY EffectSteps, EffectIsAbstractStep DEF Abstract!vars
<1> QED
  BY <1>1, <1>2, StoreInvariant, IntentInvariant, IdsInvariant, PTL
     DEF Spec, ImplementsLedger, Abstract!Spec

\* The ref behaves as the ledger that the theorems are about.
LEMMA StoreKeepsPromise == Spec => Promise!Spec
<1>1. Init => Promise!Init
  BY InitialRef
<1>2. IInv /\ IntentInv /\ IdsInv /\ [Next]_<<vars, scenario>>
        => [Promise!Next]_(Promise!vars)
  BY EffectSteps, EffectIsPromisedStep DEF Promise!vars
<1> QED
  BY <1>1, <1>2, StoreInvariant, IntentInvariant, IdsInvariant, PTL
     DEF Spec, Promise!Spec

\* The ledger's assumptions hold of the constants it is given here.
LEMMA PromiseAssumptions ==
  /\ IntentsOfCommands \subseteq Promise!AnyIntent
  /\ NoClaim \notin Promise!ActiveClaim
  /\ NoHold \notin Promise!ResourceHold
<1>1. Promise!AnyIntent = AnyIntent
  BY DEF AnyIntent, ClaimIntent, RescopeIntent, ReleaseIntent, ItemWriteIntent, LandingIntent,
         Promise!AnyIntent, Promise!ClaimIntent, Promise!RescopeIntent, Promise!ReleaseIntent,
         Promise!ItemWriteIntent, Promise!LandingIntent
<1>2. Promise!ResourceHold = ResourceHold
  BY DEF ResourceHold, Positive, Promise!ResourceHold, Promise!Positive
<1>3. Promise!ActiveClaim = ActiveClaim
  BY <1>2 DEF ActiveClaim, Promise!ActiveClaim
<1> QED
  BY <1>1, <1>2, <1>3, IntentsOfCommandsType, NoClaimAssumption, NoHoldAssumption

\* What is proved of the ledger holds of the ref: an issue or lane branch has at
\* most one live claim on it, no claim id or numbered resource is handed out
\* twice over its life, the ids and numbers it carries are those of every claim
\* ever opened, and a live claim is still the one that was opened.
THEOREM StoreKeepsLedgerInvariant == Spec => []Promise!IInv
<1>1. Promise!Spec => []Promise!IInv
  BY PromiseAssumptions, ConstantsAssumption, Promise!Invariance
<1> QED
  BY <1>1, StoreKeepsPromise, PTL

\* No change of the ref both ends a claim and opens one: an insertion by key never
\* pushes out another's live claim.
THEOREM StoreDisplacesNoClaim == Spec => Promise!NoDisplacement
<1>1. Promise!Spec => Promise!NoDisplacement
  BY PromiseAssumptions, ConstantsAssumption, Promise!Displacement
<1> QED
  BY <1>1, StoreKeepsPromise, PTL

\* An issue or lane branch has at most one live claim on the ref, and a claim id
\* names at most one, whatever the processes, the network and the server do.
OneClaimOnRef ==
  \A c, d \in StateAt(remote).claims : c.key = d.key \/ c.id = d.id => c = d

\* However many commands, attempts and faults, no commit holds two claims of one
\* issue, of one lane branch or of one id.
THEOREM StoreClaimsAreExclusive == Spec => []OneClaimOnRef
<1>1. Promise!IInv => OneClaimOnRef
  BY DEF Promise!IInv, Promise!ClaimExclusive, OneClaimOnRef
<1> QED
  BY <1>1, StoreKeepsLedgerInvariant, PTL

----------------------------------------------------------------------------
(* The history read back.  Lifecycle folds over the commits; what holds of   *)
(* its result is carried from one commit on the ref to the next.            *)

\* w is the walk over the first n transitions, step by step.
IsWalk(w, n, transitions) ==
  w = [k \in 0 .. n |-> IF k = 0 THEN NothingRead
                        ELSE RecordTransition(w[k - 1], transitions[k])]

\* A walk that exists is the one Lifecycle takes.
LEMMA LifecycleIsWalk ==
  ASSUME NEW ts, NEW n, n = Len(ts), \E w : IsWalk(w, n, ts)
  PROVE  \E w : IsWalk(w, n, ts) /\ Lifecycle(ts) = w[n]
<1> DEFINE walk == CHOOSE w : IsWalk(w, n, ts)
<1>1. IsWalk(walk, n, ts)
  OBVIOUS
<1>2. Lifecycle(ts) = walk[n]
  BY Zenon DEF Lifecycle, IsWalk
<1> QED
  BY <1>1, <1>2

Agree(ts, us, n) == \A k \in 1 .. n : us[k] = ts[k]

\* A walk goes on over one more transition.
LEMMA WalkExtends ==
  ASSUME NEW n \in Nat, NEW ts, NEW us, Agree(ts, us, n),
         NEW v, IsWalk(v, n, ts)
  PROVE  \E w : IsWalk(w, n + 1, us)
<1> DEFINE w == [k \in 0 .. n + 1 |-> IF k \in 0 .. n THEN v[k]
                                      ELSE RecordTransition(v[n], us[n + 1])]
<1>1. \A k \in 0 .. n : v[k] = IF k = 0 THEN NothingRead
                               ELSE RecordTransition(v[k - 1], ts[k])
  BY DEF IsWalk
<1>2. ASSUME NEW k \in 0 .. n + 1
      PROVE  w[k] = IF k = 0 THEN NothingRead ELSE RecordTransition(w[k - 1], us[k])
  <2>1. CASE k = 0
    BY <1>1, <2>1
  <2>2. CASE k \in 1 .. n
    <3>1. k \in 0 .. n /\ k - 1 \in 0 .. n /\ k - 1 \in 0 .. n + 1 /\ us[k] = ts[k] /\ k # 0
      BY <2>2 DEF Agree
    <3>2. w[k] = v[k] /\ w[k - 1] = v[k - 1]
      BY <3>1
    <3> HIDE DEF w
    <3> QED
      BY <1>1, <3>1, <3>2
  <2>3. CASE k = n + 1
    <3>1. k - 1 = n /\ n \in 0 .. n /\ n \in 0 .. n + 1 /\ k # 0 /\ k \notin 0 .. n
      BY <2>3
    <3> QED
      BY <2>3, <3>1
  <2> QED
    BY <2>1, <2>2, <2>3
<1>3. IsWalk(w, n + 1, us)
  <2>1. w = [k \in 0 .. n + 1 |-> w[k]]
    OBVIOUS
  <2> HIDE DEF w
  <2> QED
    BY <1>2, <2>1 DEF IsWalk
<1> QED
  BY <1>3

\* A walk over one more transition was a walk before it.
LEMMA WalkShortens ==
  ASSUME NEW n \in Nat, NEW ts, NEW us, Agree(ts, us, n),
         NEW w, IsWalk(w, n + 1, us)
  PROVE  \E v : IsWalk(v, n, ts) /\ w[n + 1] = RecordTransition(v[n], us[n + 1])
<1> DEFINE v == [k \in 0 .. n |-> w[k]]
<1>1. \A k \in 0 .. n + 1 : w[k] = IF k = 0 THEN NothingRead
                                   ELSE RecordTransition(w[k - 1], us[k])
  BY DEF IsWalk
<1>2. ASSUME NEW k \in 0 .. n
      PROVE  v[k] = IF k = 0 THEN NothingRead ELSE RecordTransition(v[k - 1], ts[k])
  <2>1. k \in 0 .. n + 1 /\ (k # 0 => k - 1 \in 0 .. n /\ us[k] = ts[k])
    BY DEF Agree
  <2>2. v[k] = w[k] /\ (k # 0 => v[k - 1] = w[k - 1])
    BY <2>1
  <2> HIDE DEF v
  <2> QED
    BY <1>1, <2>1, <2>2
<1>3. IsWalk(v, n, ts)
  <2> HIDE DEF IsWalk
  <2>1. v = [k \in 0 .. n |-> v[k]]
    OBVIOUS
  <2> HIDE DEF v
  <2> QED
    BY <1>2, <2>1 DEF IsWalk
<1>4. w[n + 1] = RecordTransition(v[n], us[n + 1])
  <2>1. n + 1 \in 0 .. n + 1 /\ n + 1 # 0 /\ n + 1 - 1 = n /\ n \in 0 .. n
    OBVIOUS
  <2>2. v[n] = w[n]
    BY <2>1
  <2> HIDE DEF v
  <2> QED
    BY <1>1, <2>1, <2>2
<1> QED
  BY <1>3, <1>4

\* What the walk has read of a history whose last commit holds s: the ids in use,
\* of which those that are not live were released, and unreadable commits.
Read(walk, s, unparsed) ==
  /\ walk = [claimed |-> s.consumed, released |-> walk.released,
             rescopes |-> walk.rescopes, unparsed |-> unparsed]
  /\ walk.released \subseteq s.consumed
  /\ s.consumed \ walk.released = IdsOf(s)

\* A claim that was open already can make nothing of the walk.
Unreadable(s, i) == i.kind = "claim" /\ i.id \in s.consumed

\* One more transition of the walk, when its intent was admitted.
LEMMA ReadOn ==
  ASSUME NEW s \in ClaimState, NEW i \in AnyIntent, Admits(s, i),
         \A c, d \in s.claims : c.key = d.key \/ c.id = d.id => c = d,
         NEW u \in Nat, NEW walk, Read(walk, s, u)
  PROVE  Read(RecordTransition(walk, i), CommittedState(s, i),
              IF Unreadable(s, i) THEN u + 1 ELSE u)
<1> DEFINE t == CommittedState(s, i)
           next == RecordTransition(walk, i)
<1>1. i.kind \in {"claim", "rescope", "release", "write", "landing"}
  BY DEF Admits, AdmitsClaim, AdmitsRescope, AdmitsRelease, AdmitsItemWrite, AdmitsLanding
<1>2. /\ i.kind = "claim" /\ i.id \notin s.consumed =>
           t.consumed = s.consumed \cup {i.id} /\ IdsOf(t) = IdsOf(s) \cup {i.id}
      /\ (i.kind = "claim" /\ i.id \in s.consumed) \/ i.kind = "write" =>
           t.consumed = s.consumed /\ IdsOf(t) = IdsOf(s)
      /\ i.kind = "rescope" =>
           t.consumed = s.consumed /\ IdsOf(t) = IdsOf(s) /\ i.id \in IdsOf(s)
      /\ i.kind \in {"release", "landing"} =>
           t.consumed = s.consumed /\ IdsOf(t) = IdsOf(s) \ {i.id} /\ i.id \in IdsOf(s)
  BY CommittedIds
<1>3. /\ walk = [claimed |-> s.consumed, released |-> walk.released,
                 rescopes |-> walk.rescopes, unparsed |-> u]
      /\ walk.released \subseteq s.consumed
      /\ s.consumed \ walk.released = IdsOf(s)
  BY DEF Read
<1>4. walk.claimed = s.consumed /\ walk.unparsed = u
  BY <1>3
<1> HIDE DEF t, next
<1>5. CASE i.kind = "claim" /\ i.id \notin s.consumed
  <2>1. next = [walk EXCEPT !.claimed = walk.claimed \cup {i.id},
                            !.rescopes = (i.id :> 0) @@ walk.rescopes]
    BY <1>4, <1>5 DEF next, RecordTransition, RecordClaim, ClaimShaped
  <2> DEFINE rescopes == (i.id :> 0) @@ walk.rescopes
  <2> HIDE DEF rescopes
  <2>2. next = [claimed |-> s.consumed \cup {i.id}, released |-> walk.released,
                rescopes |-> rescopes, unparsed |-> u]
    BY <1>3, <1>4, <2>1 DEF rescopes
  <2>3. t.consumed = s.consumed \cup {i.id} /\ IdsOf(t) = IdsOf(s) \cup {i.id}
    BY <1>2, <1>5 DEF t
  <2>4. /\ next.released = walk.released /\ next.rescopes = rescopes
        /\ walk.released \subseteq t.consumed /\ t.consumed \ walk.released = IdsOf(t)
    BY <1>3, <1>5, <2>2, <2>3
  <2>5. Read(next, t, u)
    BY <2>2, <2>3, <2>4 DEF Read
  <2> QED
    BY <1>5, <2>5 DEF Unreadable, t, next
<1>6. CASE i.kind = "claim" /\ i.id \in s.consumed
  <2>1. next = [walk EXCEPT !.unparsed = u + 1]
    BY <1>4, <1>6 DEF next, RecordTransition, RecordClaim, ClaimShaped
  <2>2. next = [claimed |-> s.consumed, released |-> walk.released,
                rescopes |-> walk.rescopes, unparsed |-> u + 1]
    BY <1>3, <2>1
  <2> QED
    BY <1>2, <1>3, <1>6, <2>2 DEF Read, Unreadable, t, next
<1>7. CASE i.kind = "write"
  <2>1. next = walk
    BY <1>7 DEF next, RecordTransition, ClaimShaped
  <2> QED
    BY <1>2, <1>3, <1>7, <2>1 DEF Read, Unreadable, t, next
<1>8. CASE i.kind \in {"rescope", "release", "landing"}
  <2>1. i.id \in s.consumed /\ i.id \notin walk.released
    BY <1>2, <1>3, <1>8
  <2>2. next = RecordReleaseOrRescope(walk, i)
    BY <1>8 DEF next, RecordTransition, ClaimShaped
  <2>3. CASE i.kind = "rescope"
    <3>1. next = [walk EXCEPT !.rescopes[i.id] = walk.rescopes[i.id] + 1]
      BY <1>4, <2>1, <2>2, <2>3 DEF RecordReleaseOrRescope
    <3> DEFINE rescopes == [walk.rescopes EXCEPT ![i.id] = walk.rescopes[i.id] + 1]
    <3>2. next = [walk EXCEPT !.rescopes = rescopes]
      BY <3>1
    <3> HIDE DEF rescopes
    <3>3. next = [claimed |-> s.consumed, released |-> walk.released,
                  rescopes |-> rescopes, unparsed |-> u]
      BY <1>3, <3>2
    <3> QED
      BY <1>2, <1>3, <2>3, <3>3 DEF Read, Unreadable, t, next
  <2>4. CASE i.kind \in {"release", "landing"}
    <3>1. next = [walk EXCEPT !.released = walk.released \cup {i.id}]
      BY <1>4, <2>1, <2>2, <2>4 DEF RecordReleaseOrRescope
    <3>2. next = [claimed |-> s.consumed, released |-> walk.released \cup {i.id},
                  rescopes |-> walk.rescopes, unparsed |-> u]
      <4>1. PICK r, q : /\ walk = [claimed |-> s.consumed, released |-> r, rescopes |-> q,
                                   unparsed |-> u]
                        /\ r = walk.released /\ q = walk.rescopes
        BY <1>3
      <4>2. next = [claimed |-> s.consumed, released |-> r \cup {i.id}, rescopes |-> q,
                    unparsed |-> u]
        BY <3>1, <4>1
      <4> QED
        BY <4>1, <4>2
    <3>3. t.consumed = s.consumed /\ IdsOf(t) = IdsOf(s) \ {i.id}
      BY <1>2, <2>4 DEF t
    <3>4. /\ next.released = walk.released \cup {i.id} /\ next.rescopes = walk.rescopes
          /\ next.released \subseteq t.consumed /\ t.consumed \ next.released = IdsOf(t)
      BY <1>3, <2>1, <3>2, <3>3
    <3>5. Read(next, t, u)
      BY <3>2, <3>3, <3>4 DEF Read
    <3> QED
      BY <2>4, <3>5 DEF Unreadable, t, next
  <2> QED
    BY <1>8, <2>3, <2>4
<1> QED
  BY <1>1, <1>5, <1>6, <1>7, <1>8

\* The intents that landed, oldest first, and those of them that claimed again.
LandedIntents == [i \in 1 .. Len(remote) - 1 |-> intent[remote[i + 1].op]]

RepeatedClaims ==
  {i \in DOMAIN LandedIntents : /\ LandedIntents[i].kind = "claim"
                                /\ LandedIntents[i].id \in remote[i].state.consumed}

WalkInv ==
  LET n == Len(remote) - 1 IN
  /\ IsFiniteSet(RepeatedClaims)
  /\ \E w : IsWalk(w, n, LandedIntents)
  /\ \A w : IsWalk(w, n, LandedIntents) =>
       Read(w[n], StateAt(remote), Cardinality(RepeatedClaims))

\* Of the bootstrap commit there is nothing to read.
LEMMA WalkInit == Init => WalkInv
<1> SUFFICES ASSUME Init PROVE WalkInv
  OBVIOUS
<1>1. /\ Len(remote) = 1 /\ remote[1].state = BootstrapState(1)
      /\ remote = <<[op |-> Root, state |-> BootstrapState(1)]>>
      /\ BootstrapState(1).claims = {} /\ BootstrapState(1).consumed = {}
  BY BootstrapHasNoClaims DEF Init
<1>2. StateAt(remote) = BootstrapState(1)
  <2>1. remote # <<>> /\ Last(remote) = remote[1]
    BY <1>1 DEF Last
  <2> QED
    BY <1>1, <2>1 DEF StateAt, NoRef
<1>3. Len(remote) - 1 = 0 /\ 1 .. Len(remote) - 1 = {}
  BY <1>1
<1>4. RepeatedClaims = {}
  BY <1>3 DEF RepeatedClaims, LandedIntents
<1>5. IsFiniteSet(RepeatedClaims) /\ Cardinality(RepeatedClaims) = 0
  BY <1>4, FS_EmptySet
<1>6. \E w : IsWalk(w, 0, LandedIntents)
  <2> DEFINE w == [k \in 0 .. 0 |-> NothingRead]
  <2>1. IsWalk(w, 0, LandedIntents)
    BY DEF IsWalk
  <2> QED
    BY <2>1
<1>7. ASSUME NEW w, IsWalk(w, 0, LandedIntents)
      PROVE  Read(w[0], BootstrapState(1), 0)
  <2>1. w[0] = NothingRead
    BY <1>7 DEF IsWalk
  <2>2. IdsOf(BootstrapState(1)) = {}
    BY <1>1 DEF IdsOf
  <2> DEFINE none == <<>>
  <2> HIDE DEF none
  <2>3. w[0] = [claimed |-> {}, released |-> {}, rescopes |-> none, unparsed |-> 0]
    BY <2>1 DEF NothingRead, none
  <2>4. w[0].released = {} /\ w[0].rescopes = none
    BY <2>3
  <2> QED
    BY <1>1, <2>2, <2>3, <2>4 DEF Read
<1> QED
  BY <1>2, <1>3, <1>5, <1>6, <1>7 DEF WalkInv

\* No step changes an intent that landed, and a step that moves the ref none.
LEMMA LandedStays ==
  ASSUME IInv, Next
  PROVE  /\ remote' # remote => UNCHANGED intent
         /\ \A i \in 1 .. Len(remote) - 1 : intent'[remote[i + 1].op] = intent[remote[i + 1].op]
<1>1. ASSUME NEW i \in 1 .. Len(remote) - 1
      PROVE  intent'[remote[i + 1].op] = intent[remote[i + 1].op]
  <2>1. i + 1 \in 2 .. Len(remote)
    BY CommitFacts DEF IInv, TypeOK
  <2>2. remote[i + 1].op \in Processes /\ Submitted(remote[i + 1].op)
    BY <2>1 DEF IInv, HistoryInv
  <2>3. ~CommandStep(remote[i + 1].op)
    BY <2>2 DEF IInv, CourseInv, Building, CommandStep, ReadItems, ObserveForClaim,
                ObserveForRescope, ObserveForRelease, ObserveForLanding
  <2> QED
    BY <2>2, <2>3, IntentSteps DEF IInv
<1>2. ASSUME remote' # remote PROVE UNCHANGED intent
  <2>1. ASSUME NEW p \in Processes, FetchStep(p) PROVE UNCHANGED remote
    BY <2>1 DEF FetchStep, ReadTip, CheckLineage, WriteStamp
  <2>2. ASSUME NEW p \in Processes, CommandStep(p) PROVE UNCHANGED remote
    BY <2>2 DEF CommandStep, ReadItems, ObserveForClaim, ObserveForRescope, ObserveForRelease,
                ObserveForLanding
  <2>3. ASSUME NEW p \in Processes, TransitionStep(p) PROVE UNCHANGED intent
    BY <2>3 DEF TransitionStep, BeginTransition, Push, RefuseIntent, FoundOwnOperation, Retry,
                Landed
  <2>4. ASSUME FaultStep PROVE UNCHANGED intent
    BY <2>4 DEF FaultStep, RefusePush, LoseConnection, Crash
  <2>5. ASSUME NEW push \in wire, ServerStep(push) PROVE UNCHANGED intent
    BY <2>5 DEF ServerStep, AcceptPush, AcceptLatePush, RejectPush
  <2> QED
    BY <1>2, <2>1, <2>2, <2>3, <2>4, <2>5 DEF Next
<1> QED
  BY <1>1, <1>2

\* A landing is read by the walk as what it did.
LEMMA WalkStep ==
  ASSUME IInv, IdsInv, OneClaimOnRef, WalkInv, Next
  PROVE  WalkInv'
<1>1. /\ remote' # remote => UNCHANGED intent
      /\ \A i \in 1 .. Len(remote) - 1 : intent'[remote[i + 1].op] = intent[remote[i + 1].op]
  BY LandedStays
<1>2. CASE UNCHANGED remote
  <2>1. LandedIntents' = LandedIntents
    BY <1>1, <1>2 DEF LandedIntents
  <2>2. RepeatedClaims' = RepeatedClaims
    BY <1>2, <2>1 DEF RepeatedClaims
  <2> QED
    BY <1>2, <2>1, <2>2 DEF WalkInv
<1>3. ASSUME NEW e, NEW op, Landing(e, op) PROVE WalkInv'
  <2> DEFINE n == Len(remote) - 1
             s == StateAt(remote)
             i == intent[op]
             u == Cardinality(RepeatedClaims)
             v == Cardinality(RepeatedClaims)'
             Told(w) == Read(w, s, u)
  <2>1. /\ Len(remote) \in Nat \ {0} /\ Len(remote') = Len(remote) + 1
        /\ \A k \in 1 .. Len(remote) : remote'[k] = remote[k]
        /\ remote'[Len(remote) + 1] = e /\ e.op = op /\ e.state = CommittedState(s, i)
        /\ s = remote[Len(remote)].state
        /\ Admits(s, i) /\ s \in ClaimState /\ StateAt(remote') = e.state
    BY <1>3, LandingFacts
  <2>2. i \in AnyIntent /\ op \in Processes
    BY <1>3 DEF Landing
  <2>3. n \in Nat /\ Len(remote') - 1 = n + 1
    BY <2>1
  <2>4. intent'[op] = i
    <3>1. remote' # remote
      BY <2>1
    <3> QED
      BY <1>1, <3>1
  <2>5. /\ DOMAIN LandedIntents = 1 .. n /\ DOMAIN LandedIntents' = 1 .. n + 1
        /\ \A k \in 1 .. n : LandedIntents'[k] = LandedIntents[k]
        /\ LandedIntents'[n + 1] = i
    <3>1. \A k \in 1 .. n : k + 1 \in 1 .. Len(remote) /\ k \in 1 .. n + 1
      BY <2>1
    <3>2. n + 1 = Len(remote) /\ n + 1 \in 1 .. n + 1 /\ n + 1 + 1 = Len(remote) + 1
      BY <2>1
    <3>3. LandedIntents' = [k \in 1 .. n + 1 |-> intent'[remote'[k + 1].op]]
      BY <2>3 DEF LandedIntents
    <3>4. LandedIntents = [k \in 1 .. n |-> intent[remote[k + 1].op]]
      BY DEF LandedIntents
    <3> HIDE DEF n, i
    <3>5. \A k \in 1 .. n : LandedIntents'[k] = LandedIntents[k]
      BY <1>1, <2>1, <3>1, <3>3, <3>4 DEF n
    <3> QED
      BY <2>1, <2>4, <3>2, <3>3, <3>4, <3>5
  <2> HIDE DEF n, s, i, u
  <2>6. RepeatedClaims' = IF Unreadable(s, i) THEN RepeatedClaims \cup {n + 1}
                          ELSE RepeatedClaims
    <3>1. \A k \in 1 .. n : remote'[k] = remote[k] /\ k \in 1 .. n + 1
      BY <2>1, <2>3 DEF n
    <3>2. remote'[n + 1].state = s
      BY <2>1 DEF n
    <3>3. 1 .. n + 1 = (1 .. n) \cup {n + 1}
      BY <2>3
    <3>4. RepeatedClaims' = {k \in 1 .. n + 1 : /\ LandedIntents'[k].kind = "claim"
                                              /\ LandedIntents'[k].id \in remote'[k].state.consumed}
      BY <2>5 DEF RepeatedClaims
    <3>5. RepeatedClaims = {k \in 1 .. n : /\ LandedIntents[k].kind = "claim"
                                           /\ LandedIntents[k].id \in remote[k].state.consumed}
      BY <2>5 DEF RepeatedClaims
    <3> QED
      BY <2>5, <3>1, <3>2, <3>3, <3>4, <3>5 DEF Unreadable
  <2>7. /\ IsFiniteSet(RepeatedClaims) /\ u \in Nat
        /\ n + 1 \notin RepeatedClaims
    <3>1. IsFiniteSet(RepeatedClaims)
      BY DEF WalkInv
    <3>2. n + 1 \notin 1 .. n /\ RepeatedClaims \subseteq 1 .. n
      BY <2>3, <2>5 DEF RepeatedClaims
    <3> QED
      BY <3>1, <3>2, FS_CardinalityType DEF u
  <2>8. IsFiniteSet(RepeatedClaims') /\ v = IF Unreadable(s, i) THEN u + 1 ELSE u
    BY <2>6, <2>7, FS_AddElement DEF u
  <2>9. (\E w : IsWalk(w, n, LandedIntents)) /\ \A w : IsWalk(w, n, LandedIntents) => Told(w[n])
    BY DEF WalkInv, n, s, u
  <2>10. /\ \E w : IsWalk(w, n + 1, LandedIntents')
         /\ \A w : IsWalk(w, n + 1, LandedIntents') =>
              \E x : /\ IsWalk(x, n, LandedIntents)
                     /\ w[n + 1] = RecordTransition(x[n], i)
    <3>1. /\ (\E w : IsWalk(w, n, LandedIntents)) => \E w : IsWalk(w, n + 1, LandedIntents')
          /\ \A w : IsWalk(w, n + 1, LandedIntents') =>
               \E x : /\ IsWalk(x, n, LandedIntents)
                      /\ w[n + 1] = RecordTransition(x[n], LandedIntents'[n + 1])
      <4> DEFINE ts == LandedIntents
                 us == LandedIntents'
      <4>1. Agree(ts, us, n)
        BY <2>5 DEF Agree
      <4> HIDE DEF ts, us
      <4>2. ASSUME NEW w, IsWalk(w, n, ts) PROVE \E x : IsWalk(x, n + 1, us)
        BY <2>3, <4>1, <4>2, WalkExtends
      <4>3. ASSUME NEW w, IsWalk(w, n + 1, us)
            PROVE  \E x : IsWalk(x, n, ts) /\ w[n + 1] = RecordTransition(x[n], us[n + 1])
        BY <2>3, <4>1, <4>3, WalkShortens
      <4> QED
        BY <4>2, <4>3 DEF ts, us
    <3> QED
      BY <2>5, <2>9, <3>1
  <2>11. ASSUME NEW w, IsWalk(w, n + 1, LandedIntents')
         PROVE  Read(w[n + 1], CommittedState(s, i), v)
    <3>1. PICK x : IsWalk(x, n, LandedIntents) /\ w[n + 1] = RecordTransition(x[n], i)
      BY <2>10, <2>11
    <3>2. Told(x[n])
      BY <2>9, <3>1
    <3>3. \A c, d \in s.claims : c.key = d.key \/ c.id = d.id => c = d
      BY DEF OneClaimOnRef, s
    <3>4. Read(RecordTransition(x[n], i), CommittedState(s, i),
               IF Unreadable(s, i) THEN u + 1 ELSE u)
      BY <2>1, <2>2, <2>7, <3>2, <3>3, ReadOn
    <3> QED
      BY <2>8, <3>1, <3>4
  <2> HIDE DEF v
  <2>12. StateAt(remote)' = CommittedState(s, i)
    BY <2>1
  <2> QED
    BY <2>3, <2>8, <2>10, <2>11, <2>12 DEF WalkInv, v
<1> QED
  BY <1>2, <1>3, RefSteps

\* Lifecycle is the walk over the intents that landed.
LEMMA HistoryReadsTrue ==
  ASSUME IInv, WalkInv
  PROVE  LifecycleMatchesState
<1> DEFINE n == Len(remote) - 1
<1>1. n \in Nat
  BY CommitFacts DEF IInv, TypeOK, AncestryInv
<1>2. DOMAIN LandedIntents = 1 .. n /\ Len(LandedIntents) = n
  <2>1. LandedIntents = [i \in 1 .. n |-> intent[remote[i + 1].op]]
    BY DEF LandedIntents
  <2> HIDE DEF n
  <2> QED
    BY <1>1, <2>1
<1>3. PICK w : IsWalk(w, n, LandedIntents) /\ Lifecycle(LandedIntents) = w[n]
  BY <1>2, LifecycleIsWalk DEF WalkInv
<1>4. Read(Lifecycle(LandedIntents), StateAt(remote), Cardinality(RepeatedClaims))
  BY <1>3 DEF WalkInv
<1>5. LifecycleMatchesState <=>
        /\ Lifecycle(LandedIntents).unparsed = Cardinality(RepeatedClaims)
        /\ Lifecycle(LandedIntents).claimed = StateAt(remote).consumed
        /\ Lifecycle(LandedIntents).claimed \ Lifecycle(LandedIntents).released
             = IdsOf(StateAt(remote))
  BY Zenon DEF LifecycleMatchesState, LandedIntents, RepeatedClaims, IdsOf
<1> QED
  BY <1>4, <1>5 DEF Read

\* The history on the ref is true of itself: every commit carries its own height
\* and finitely many numbers, a claim's opened commit is the tip before its own,
\* and a walk over the commits finds the claims that are live, those that ended
\* and nothing else, so what the board measures is what happened.
THEOREM StoreHistoryIsTrue == Spec => []HistoryIsTrue
<1>1. IInv /\ IdsInv /\ OneClaimOnRef /\ WalkInv /\ [Next]_<<vars, scenario>> => WalkInv'
  <2> SUFFICES ASSUME IInv, IdsInv, OneClaimOnRef, WalkInv, [Next]_<<vars, scenario>>
               PROVE  WalkInv'
    OBVIOUS
  <2>1. CASE UNCHANGED <<vars, scenario>>
    <3>1. UNCHANGED <<remote, intent>>
      BY <2>1 DEF vars
    <3>2. LandedIntents' = LandedIntents /\ RepeatedClaims' = RepeatedClaims
      BY <3>1 DEF LandedIntents, RepeatedClaims
    <3> QED
      BY <3>1, <3>2 DEF WalkInv
  <2> QED
    BY <2>1, WalkStep
<1>2. Spec => []WalkInv
  BY <1>1, WalkInit, StoreInvariant, IdsInvariant, StoreClaimsAreExclusive, PTL DEF Spec
<1>3. IInv /\ WalkInv /\ OpenedCommitPrecedesClaim => HistoryIsTrue
  BY HistoryReadsTrue DEF IInv, HistoryIsTrue
<1> QED
  BY <1>2, <1>3, StoreInvariant, StoreRecordsTheOpening, PTL

-----------------------------------------------------------------------------
(* Part 3: bootstrap and reset.                                          *)

----------------------------------------------------------------------------
(* The inductive invariant.                                                *)

NoIntent == [kind |-> "none"]
BootstrapIntent == [kind |-> "bootstrap"]

\* A process has made an attempt when it is in the push loop; what is peculiar
\* to bootstrap and reset happens in such commands only; a reset that is about
\* to delete has seen no live claim.
CourseOf(p) ==
  /\ ~Ended(p) => (Submitted(p) <=> Looping(p))
  /\ intent[p].kind = "bootstrap" =>
       Submitted(p) /\ CommandOf[p].kind \in {"bootstrap", "reset"}
  /\ ~Submitted(p) => observed[p] = NoRef \/ pc[p] \in {"delete", "reprobe", "clear"}
  /\ pc[p] \in ResetLabels => CommandOf[p].kind = "reset"
  /\ pc[p] = "bootstrap" \/ (Fetching(p) /\ purpose[p] = "bootstrap") =>
       CommandOf[p].kind \in {"bootstrap", "reset"}
  /\ pc[p] = "delete" => StateAt(observed[p]).claims = {}

ResetCourse == \A p \in Processes : CourseOf(p)

\* A deletion on its way is leased on a tip without live claims, a push on an
\* ancestor of what it carries; what a process waits for is its latest push.
ResetWire ==
  \A push \in wire :
    /\ push.new = NoRef => push.attempt = 0 /\ StateAt(push.old).claims = {}
    /\ push.new # NoRef => IsPrefix(push.old, push.new) /\ Submitted(push.op)
    /\ push.attempt <= tally[push.op].attempt
    /\ pc[push.op] = "apply" => push.attempt < tally[push.op].attempt
    /\ Awaited(push) => push.new = pending[push.op]

----------------------------------------------------------------------------
(* Types.                                                                  *)

\* The command of a process, without the rest of the store's type invariant.
LEMMA ResetCommandType ==
  ASSUME ResetTypeOK, NEW p \in Processes
  PROVE  /\ CommandOf[p] \in Command
         /\ After[p] \subseteq Processes
         /\ WorktreeOf[p] \in Worktrees
BY StoreAssumption DEF ResetTypeOK, CommandOf, After, WorktreeOf

\* The kinds of intent keep apart.
LEMMA IntentIsNoBootstrap ==
  ASSUME NEW i \in AnyIntent
  PROVE  i.kind \notin {"none", "bootstrap"}
BY DEF AnyIntent, ClaimIntent, RescopeIntent, ReleaseIntent, ItemWriteIntent, LandingIntent

\* The commit of a bootstrap is one.
LEMMA BootstrapCommit ==
  ASSUME NEW c \in Commit, NEW op \in Processes, NEW e,
         e = [op |-> op, state |-> BootstrapState(Len(c) + 1)]
  PROVE  e \in Entry /\ Append(c, e) \in Commit
<1>1. /\ BootstrapState(Len(c) + 1) \in ClaimState
      /\ BootstrapState(Len(c) + 1).tip = Len(c) + 1
      /\ IsFiniteSet(BootstrapState(Len(c) + 1).occupied)
  <2>1. Len(c) + 1 \in Nat
    BY CommitFacts
  <2>2. EMPTY_STATE \in ClaimState /\ EMPTY_STATE.occupied = {}
    BY DEF EMPTY_STATE, ClaimState
  <2> QED
    BY <2>1, <2>2, FS_EmptySet DEF BootstrapState, ClaimState
<1>2. e \in Entry
  BY <1>1 DEF Entry
<1>3. /\ Append(c, e) \in Seq(Entry)
      /\ Len(Append(c, e)) = Len(c) + 1
      /\ \A j \in 1 .. Len(c) : Append(c, e)[j] = c[j]
      /\ Append(c, e)[Len(c) + 1] = e
  BY <1>2, CommitFacts, AppendProperties
<1>4. \A j \in 1 .. Len(c) + 1 :
        Append(c, e)[j].state.tip = j /\ IsFiniteSet(Append(c, e)[j].state.occupied)
  BY <1>1, <1>3, CommitFacts
<1>5. DOMAIN Append(c, e) = 1 .. Len(c) + 1
  BY <1>3, CommitFacts, LenProperties
<1> QED
  BY <1>2, <1>3, <1>4, <1>5 DEF Commit

\* The commit a push carries is one entry more than what its process observed,
\* the entry of its operation.
LEMMA FreshCommit ==
  ASSUME ResetTypeOK, NEW p \in Processes, Committable(p)
  PROVE  \E e \in Entry : /\ e.op = p
                          /\ Fresh(p) = Append(observed[p], e)
                          /\ Fresh(p) \in Commit
<1>1. observed[p] \in Commit
  BY DEF ResetTypeOK
<1>2. CASE intent[p].kind = "bootstrap"
  <2> DEFINE e == [op |-> p, state |-> BootstrapState(Len(observed[p]) + 1)]
  <2>1. Fresh(p) = Append(observed[p], e) /\ e.op = p
    BY <1>2 DEF Fresh, CommitOnto
  <2>2. e \in Entry /\ Append(observed[p], e) \in Commit
    BY <1>1, BootstrapCommit
  <2> QED
    BY <2>1, <2>2
<1>3. CASE intent[p].kind # "bootstrap"
  <2>1. intent[p].kind # "none"
    BY <1>3 DEF Committable, Admits, AdmitsClaim, AdmitsRescope, AdmitsRelease,
                AdmitsItemWrite, AdmitsLanding
  <2>2. intent[p] \in AnyIntent
    BY <1>3, <2>1 DEF ResetTypeOK
  <2> DEFINE e == [op |-> p, state |-> CommittedState(StateAt(observed[p]), intent[p])]
  <2>3. Fresh(p) = Append(observed[p], e) /\ e.op = p
    BY <1>3 DEF Fresh, CommitOnto
  <2>4. e \in Entry /\ Append(observed[p], e) \in Commit
    BY <1>1, <2>2, NewCommit
  <2> QED
    BY <2>3, <2>4
<1> QED
  BY <1>2, <1>3

\* Whoever moves, whatever it reports is a claim or none.
LEMMA ResetReportType ==
  ASSUME ResetTypeOK, NEW p \in Processes, NEW s \in ClaimState, Report(p, s)
  PROVE  reported' \in [Processes -> ActiveClaim \cup {NoClaim}]
<1>1. ClaimAt(s, CommandOf[p].key) \in ActiveClaim \cup {NoClaim}
  BY ClaimAtType
<1> QED
  BY <1>1 DEF Report, ResetTypeOK

\* The labels a process can be sent to.
ResetPlaces == Labels \cup ResetLabels \cup {"bootstrap"}

\* The tally of a process that makes its first attempt.
LEMMA FirstAttemptType ==
  ASSUME tally \in [Processes -> [attempt : 0 .. MaxAttempts, moves : Nat, stationary : Nat]],
         NEW p \in Processes
  PROVE  [tally EXCEPT ![p].attempt = 1]
           \in [Processes -> [attempt : 0 .. MaxAttempts, moves : Nat, stationary : Nat]]
<1>1. 1 \in 0 .. MaxAttempts
  BY StoreAssumption DEF Positive
<1> QED
  BY <1>1

\* A process that is sent somewhere, or ends, has its variables typed.
LEMMA ResetGotoType ==
  ASSUME ResetTypeOK, NEW p \in Processes, NEW place
  PROVE  /\ place \in ResetPlaces /\ Goto(p, place) => pc' \in [Processes -> ResetPlaces]
         /\ place \in Terminal /\ Exit(p, place) =>
              /\ pc' \in [Processes -> ResetPlaces]
              /\ fetched' \in [Processes -> Commit]
              /\ observed' \in [Processes -> Commit]
              /\ pending' \in [Processes -> Commit]
<1>1. ASSUME place \in ResetPlaces, Goto(p, place) PROVE pc' \in [Processes -> ResetPlaces]
  BY <1>1 DEF ResetTypeOK, Goto, ResetPlaces
<1>2. place \in Terminal => place \in ResetPlaces
  BY DEF ResetPlaces, Labels
<1>3. ASSUME Exit(p, place)
      PROVE  /\ fetched' \in [Processes -> Commit]
             /\ observed' \in [Processes -> Commit]
             /\ pending' \in [Processes -> Commit]
  BY <1>3, NoRefType DEF ResetTypeOK, Exit
<1> QED
  BY <1>1, <1>2, <1>3 DEF Exit

\* What a tally is, without a bound on its causes.
ResetTally == [attempt : 0 .. MaxAttempts, moves : Nat, stationary : Nat]

\* Counting a failed attempt keeps the type of the tally, and the attempts.
LEMMA ResetCountType ==
  ASSUME NEW t \in ResetTally, NEW a, NEW b
  PROVE  /\ AdvanceTipRetry(a, b, t) \in ResetTally
         /\ AdvanceTipRetry(a, b, t).attempt = t.attempt
         /\ AdvanceTipRetry(a, b, t).attempt < MaxAttempts =>
              [AdvanceTipRetry(a, b, t) EXCEPT !.attempt = @ + 1] \in ResetTally
<1> DEFINE count == AdvanceTipRetry(a, b, t)
<1>1. \/ count = [t EXCEPT !.moves = @ + 1, !.stationary = 0]
      \/ count = [t EXCEPT !.stationary = @ + 1]
  BY DEF AdvanceTipRetry
<1> HIDE DEF count
<1>2. count \in ResetTally /\ count.attempt = t.attempt
  <2>1. CASE count = [t EXCEPT !.moves = @ + 1, !.stationary = 0]
    <3>1. t.moves + 1 \in Nat /\ 0 \in Nat
      BY DEF ResetTally
    <3> QED
      BY <2>1, <3>1 DEF ResetTally
  <2>2. CASE count = [t EXCEPT !.stationary = @ + 1]
    BY <2>2 DEF ResetTally
  <2> QED
    BY <1>1, <2>1, <2>2
<1>3. MaxAttempts \in Nat
  BY StoreAssumption DEF Positive
<1>4. count.attempt < MaxAttempts => [count EXCEPT !.attempt = @ + 1] \in ResetTally
  BY <1>2, <1>3 DEF ResetTally
<1> QED
  BY <1>2, <1>4 DEF count

\* The steps of the other commands keep the types.
LEMMA ResetNextType ==
  ASSUME ResetTypeOK, ResetCourse, Next, UNCHANGED toClear
  PROVE  ResetTypeOK'
<1> USE DEF ResetTypeOK, Goto, Labels, Purposes
<1>1. UNCHANGED scenario
  BY DEF Next
<1>2. ASSUME NEW p \in Processes, FetchStep(p) PROVE ResetTypeOK'
  <2>1. CASE ReadTip(p)
    BY <1>1, <2>1 DEF ReadTip
  <2>2. CASE CheckLineage(p)
    <3>1. purpose[p] \in ResetPlaces /\ "stamp" \in ResetPlaces /\ "lineage_error" \in Terminal
      BY DEF ResetPlaces, Terminal
    <3>2. /\ UNCHANGED <<remote, stamp, wire, faults, purpose, seen, intent, tally, reported>>
          /\ \/ /\ Goto(p, "stamp") \/ Goto(p, purpose[p])
                /\ UNCHANGED <<fetched, observed, pending>>
             \/ Exit(p, "lineage_error")
      BY <2>2 DEF CheckLineage
    <3>3. /\ pc' \in [Processes -> ResetPlaces]
          /\ fetched' \in [Processes -> Commit]
          /\ observed' \in [Processes -> Commit]
          /\ pending' \in [Processes -> Commit]
      BY <3>1, <3>2, ResetGotoType
    <3> QED
      BY <1>1, <3>2, <3>3 DEF ResetPlaces
  <2>3. CASE WriteStamp(p)
    BY <1>1, <2>3, ResetCommandType DEF WriteStamp
  <2> QED
    BY <1>2, <2>1, <2>2, <2>3 DEF FetchStep
<1>3. ASSUME NEW p \in Processes, CommandStep(p) PROVE ResetTypeOK'
  <2>1. /\ UNCHANGED <<remote, stamp, wire, faults, tally, toClear, scenario>>
        /\ seen' \in [Processes -> ClaimState]
        /\ reported' \in [Processes -> ActiveClaim \cup {NoClaim}]
        /\ \/ (Exit(p, "refused") \/ Exit(p, "done")) /\ UNCHANGED <<intent, purpose>>
           \/ Fetch(p, "observe") /\ UNCHANGED <<fetched, observed, pending, intent>>
           \/ \E built \in AnyIntent : Submit(p, built)
    BY <1>1, <1>3, CommandStepBuilds
  <2>2. CASE (Exit(p, "refused") \/ Exit(p, "done")) /\ UNCHANGED <<intent, purpose>>
    <3>1. /\ pc' \in [Processes -> ResetPlaces]
          /\ fetched' \in [Processes -> Commit]
          /\ observed' \in [Processes -> Commit]
          /\ pending' \in [Processes -> Commit]
      BY <2>2, ResetGotoType DEF Terminal
    <3> QED
      BY <2>1, <2>2, <3>1 DEF ResetPlaces
  <2>3. CASE Fetch(p, "observe") /\ UNCHANGED <<fetched, observed, pending, intent>>
    BY <2>1, <2>3 DEF Fetch
  <2>4. ASSUME NEW built \in AnyIntent, Submit(p, built) PROVE ResetTypeOK'
    BY <2>1, <2>4 DEF Submit, Fetch
  <2> QED
    BY <2>1, <2>2, <2>3, <2>4
<1>4. ASSUME NEW p \in Processes, TransitionStep(p) PROVE ResetTypeOK'
  <2>1. MaxAttempts \in Nat \ {0} /\ 1 \in 0 .. MaxAttempts
    BY StoreAssumption DEF Positive
  <2>2. CASE BeginTransition(p)
    <3>1. /\ UNCHANGED <<remote, stamp, wire, faults, purpose, seen, intent, reported>>
          /\ \/ Exit(p, "refused") /\ tally' = tally
             \/ /\ Goto(p, "apply")
                /\ observed' = [observed EXCEPT ![p] = fetched[p]]
                /\ tally' = [tally EXCEPT ![p].attempt = 1]
                /\ UNCHANGED <<fetched, pending>>
      BY <2>2 DEF BeginTransition
    <3>2. /\ pc' \in [Processes -> ResetPlaces]
          /\ fetched' \in [Processes -> Commit]
          /\ observed' \in [Processes -> Commit]
          /\ pending' \in [Processes -> Commit]
      BY <3>1, ResetGotoType DEF Terminal, ResetPlaces
    <3>3. tally' \in [Processes -> [attempt : 0 .. MaxAttempts, moves : Nat, stationary : Nat]]
      <4>1. tally' = tally \/ tally' = [tally EXCEPT ![p].attempt = 1]
        BY <3>1
      <4>2. [tally EXCEPT ![p].attempt = 1]
              \in [Processes -> [attempt : 0 .. MaxAttempts, moves : Nat, stationary : Nat]]
        BY FirstAttemptType
      <4> QED
        BY <4>1, <4>2
    <3> QED
      BY <1>1, <3>1, <3>2, <3>3 DEF ResetPlaces
  <2>3. CASE Push(p)
    <3>1. /\ Committable(p)
          /\ pending' = [pending EXCEPT ![p] = Fresh(p)]
          /\ \/ wire' = wire \cup {FreshPush(p)} /\ Goto(p, "sent") /\ UNCHANGED purpose
             \/ Fetch(p, "search") /\ UNCHANGED wire
          /\ UNCHANGED <<remote, stamp, faults, fetched, seen, observed, intent, tally, reported>>
      BY <2>3 DEF Push, Fresh, FreshPush
    <3>2. Fresh(p) \in Commit
      BY <3>1, FreshCommit
    <3>3. FreshPush(p) \in ResetPush
      BY <3>2 DEF FreshPush, ResetPush
    <3> QED
      BY <1>1, <3>1, <3>2, <3>3 DEF Fetch
  <2>4. CASE RefuseIntent(p)
    BY <1>1, <2>4, NoRefType DEF RefuseIntent, Exit, Terminal
  <2>5. CASE FoundOwnOperation(p)
    <3>1. reported' \in [Processes -> ActiveClaim \cup {NoClaim}]
      BY <2>5, ResetReportType, StateAtFacts DEF FoundOwnOperation
    <3> QED
      BY <1>1, <2>5, <3>1, NoRefType DEF FoundOwnOperation, Exit, Terminal
  <2>6. CASE Retry(p)
    <3> DEFINE count == AdvanceTipRetry(observed[p], fetched[p], tally[p])
    <3> HIDE DEF count
    <3>1. tally \in [Processes -> ResetTally]
      BY DEF ResetTally
    <3>2. /\ count \in ResetTally
          /\ count.attempt < MaxAttempts => [count EXCEPT !.attempt = @ + 1] \in ResetTally
      BY <3>1, ResetCountType DEF count
    <3>3. /\ \/ /\ count.attempt < MaxAttempts
                /\ tally' = [tally EXCEPT ![p] = [count EXCEPT !.attempt = @ + 1]]
                /\ observed' = [observed EXCEPT ![p] = fetched[p]]
                /\ Goto(p, "apply")
                /\ UNCHANGED <<fetched, pending>>
             \/ /\ tally' = [tally EXCEPT ![p] = count]
                /\ Exit(p, "exhausted")
          /\ UNCHANGED <<remote, stamp, wire, faults, purpose, seen, intent, reported>>
      BY <2>6 DEF Retry, count
    <3>4. tally' \in [Processes -> ResetTally]
      BY <3>1, <3>2, <3>3
    <3>5. /\ pc' \in [Processes -> ResetPlaces]
          /\ fetched' \in [Processes -> Commit]
          /\ observed' \in [Processes -> Commit]
          /\ pending' \in [Processes -> Commit]
      BY <3>3, ResetGotoType DEF ResetPlaces, Terminal
    <3> QED
      BY <1>1, <3>3, <3>4, <3>5 DEF ResetPlaces, ResetTally
  <2>7. CASE Landed(p)
    <3>1. reported' \in [Processes -> ActiveClaim \cup {NoClaim}]
      BY <2>7, ResetReportType, StateAtFacts DEF Landed
    <3> QED
      BY <1>1, <2>7, <3>1, NoRefType, ResetCommandType DEF Landed, Exit, Terminal
  <2> QED
    BY <1>4, <2>2, <2>3, <2>4, <2>5, <2>6, <2>7 DEF TransitionStep
<1>5. ASSUME NEW push \in wire, ServerStep(push) PROVE ResetTypeOK'
  <2>1. push \in ResetPush
    BY <1>5
  <2> QED
    BY <1>1, <1>5, <2>1 DEF ServerStep, AcceptPush, AcceptLatePush, RejectPush, ResetPush, Fetch
<1>6. ASSUME FaultOccurs PROVE faults' \in 0 .. MaxFaults
  BY <1>6, StoreAssumption DEF FaultOccurs
<1>7. ASSUME FaultStep PROVE ResetTypeOK'
  <2>1. CASE \E push \in wire : RefusePush(push)
    BY <1>1, <1>6, <2>1 DEF RefusePush, ResetPush, Fetch
  <2>2. CASE \E p \in Processes : LoseConnection(p)
    BY <1>1, <1>6, <2>2 DEF LoseConnection, Fetch
  <2>3. CASE \E p \in Processes : Crash(p)
    BY <1>1, <2>3, NoRefType DEF Crash, Exit, Terminal
  <2> QED
    BY <1>7, <2>1, <2>2, <2>3 DEF FaultStep
<1> QED
  BY <1>2, <1>3, <1>4, <1>5, <1>7 DEF Next

\* The steps of bootstrap and reset keep the types.
LEMMA ResetStepType ==
  ASSUME ResetTypeOK, UNCHANGED scenario, NEW p \in Processes, ResetStep(p)
  PROVE  ResetTypeOK'
<1> USE DEF ResetTypeOK, Goto, Labels, Purposes, ResetLabels
<1>1. CASE BeginBootstrap(p)
  <2>2. [tally EXCEPT ![p].attempt = 1]
          \in [Processes -> [attempt : 0 .. MaxAttempts, moves : Nat, stationary : Nat]]
    BY FirstAttemptType
  <2>3. /\ \/ Exit(p, "done") /\ UNCHANGED <<intent, tally>>
           \/ /\ intent' = [intent EXCEPT ![p] = BootstrapIntent]
              /\ tally' = [tally EXCEPT ![p].attempt = 1]
              /\ Goto(p, "apply")
              /\ UNCHANGED <<fetched, observed, pending>>
        /\ UNCHANGED <<remote, stamp, wire, faults, purpose, seen, reported, toClear>>
    BY <1>1 DEF BeginBootstrap, BootstrapIntent
  <2>4. /\ pc' \in [Processes -> ResetPlaces]
        /\ fetched' \in [Processes -> Commit]
        /\ observed' \in [Processes -> Commit]
        /\ pending' \in [Processes -> Commit]
    BY <2>3, ResetGotoType DEF ResetPlaces, Terminal
  <2>5. intent' \in [Processes -> AnyIntent \cup {[kind |-> "none"], [kind |-> "bootstrap"]}]
    BY <2>3 DEF BootstrapIntent
  <2> QED
    BY <2>2, <2>3, <2>4, <2>5 DEF ResetPlaces
<1>2. CASE PeekForReset(p)
  <2>1. /\ \/ /\ observed' = [observed EXCEPT ![p] = remote]
              /\ Goto(p, "clear") \/ Goto(p, "delete")
              /\ UNCHANGED <<fetched, pending>>
           \/ Exit(p, "refused")
        /\ UNCHANGED <<remote, stamp, wire, faults, purpose, seen, intent, tally, reported, toClear>>
    BY <1>2 DEF PeekForReset
  <2>2. /\ pc' \in [Processes -> ResetPlaces]
        /\ fetched' \in [Processes -> Commit]
        /\ observed' \in [Processes -> Commit]
        /\ pending' \in [Processes -> Commit]
    <3>1. CASE Exit(p, "refused")
      BY <3>1, ResetGotoType DEF Terminal
    <3>2. CASE /\ observed' = [observed EXCEPT ![p] = remote]
               /\ Goto(p, "clear") \/ Goto(p, "delete")
               /\ UNCHANGED <<fetched, pending>>
      <4>1. pc' \in [Processes -> ResetPlaces]
        BY <3>2, ResetGotoType DEF ResetPlaces
      <4> QED
        BY <3>2, <4>1
    <3> QED
      BY <2>1, <3>1, <3>2
  <2> QED
    BY <2>1, <2>2 DEF ResetPlaces
<1>3. CASE DeleteRemote(p)
  BY <1>3, NoRefType DEF DeleteRemote
<1>4. CASE DeleteUnheard(p)
  <2>1. faults' \in 0 .. MaxFaults
    BY <1>4, StoreAssumption DEF DeleteUnheard, FaultOccurs
  <2>2. [op |-> p, attempt |-> 0, old |-> observed[p], new |-> NoRef] \in ResetPush
    BY NoRefType, StoreAssumption DEF ResetPush, Positive
  <2>3. remote' \in Commit /\ wire' \subseteq ResetPush
    BY <1>4, <2>2, NoRefType DEF DeleteUnheard
  <2> QED
    BY <1>4, <2>1, <2>3 DEF DeleteUnheard
<1>5. CASE RepairAfterFailedDelete(p)
  <2>1. /\ \/ Goto(p, "clear") /\ UNCHANGED <<fetched, observed, pending>>
           \/ Exit(p, "refused")
        /\ UNCHANGED <<remote, stamp, wire, faults, purpose, seen, intent, tally, reported, toClear>>
    BY <1>5 DEF RepairAfterFailedDelete
  <2>2. /\ pc' \in [Processes -> ResetPlaces]
        /\ fetched' \in [Processes -> Commit]
        /\ observed' \in [Processes -> Commit]
        /\ pending' \in [Processes -> Commit]
    BY <2>1, ResetGotoType DEF ResetPlaces, Terminal
  <2> QED
    BY <2>1, <2>2 DEF ResetPlaces
<1>6. CASE ClearLineageStamps(p)
  BY <1>6, NoRefType DEF ClearLineageStamps
<1>7. CASE ClearStamp(p)
  <2>1. CASE Fetch(p, "bootstrap") /\ UNCHANGED <<stamp, toClear>>
    BY <1>7, <2>1 DEF ClearStamp, Fetch
  <2>2. ASSUME NEW w \in toClear[p],
               stamp' = [stamp EXCEPT ![w] = NoRef],
               toClear' = [toClear EXCEPT ![p] = @ \ {w}],
               UNCHANGED <<pc, purpose>>
        PROVE  ResetTypeOK'
    <3>1. toClear[p] \ {w} \in SUBSET Worktrees /\ w \in Worktrees
      OBVIOUS
    <3>2. toClear' \in [Processes -> SUBSET Worktrees]
      BY <2>2, <3>1
    <3>3. stamp' \in [Worktrees -> Commit]
      BY <2>2, <3>1, NoRefType
    <3> QED
      BY <1>7, <2>2, <3>2, <3>3 DEF ClearStamp
  <2> QED
    BY <1>7, <2>1, <2>2 DEF ClearStamp
<1> QED
  BY <1>1, <1>2, <1>3, <1>4, <1>5, <1>6, <1>7 DEF ResetStep

----------------------------------------------------------------------------
(* What any step does to a process, in terms the invariants need.          *)

\* An intent stays once submitted, attempts only grow; what a process fetched is
\* the ref as it was, what it observed is what it fetched or peeked at, and what
\* it pushed is a commit on what it observed.
ResetAdvances(q) ==
  /\ Ended(q) => pc'[q] = pc[q]
  /\ Submitted(q) => Submitted(q)' /\ intent'[q] = intent[q]
  /\ tally[q].attempt <= tally'[q].attempt
  /\ fetched'[q] \in {fetched[q], NoRef} \/ (ReadTip(q) /\ fetched'[q] = remote)
  /\ \/ observed'[q] \in {observed[q], NoRef, fetched[q]}
     \/ PeekForReset(q) /\ observed'[q] = remote
  /\ pending'[q] \in {pending[q], NoRef} \/ (Push(q) /\ pending'[q] = Fresh(q))
  /\ intent'[q].kind = "bootstrap" =>
       intent[q].kind = "bootstrap" \/ (pc[q] = "bootstrap" /\ fetched[q] = NoRef)

\* How a process comes to be where it is.
ResetArrives(q) ==
  /\ Looping(q)' =>
       \/ Looping(q) /\ observed'[q] = observed[q] /\ intent'[q] = intent[q]
       \/ /\ pc[q] = "transition" /\ observed'[q] = fetched[q] /\ fetched[q] # NoRef
          /\ intent'[q] = intent[q]
       \/ pc[q] = "bootstrap" /\ observed'[q] = observed[q] /\ intent'[q].kind = "bootstrap"
       \/ Retry(q) /\ observed'[q] = fetched[q] /\ intent'[q] = intent[q]
  /\ Searching(q)' => /\ observed'[q] = observed[q]
                      /\ (Searching(q) /\ fetched'[q] = fetched[q]) \/ ReadTip(q)
  /\ pc'[q] \in {"lineage", "stamp", "bootstrap"} =>
       \/ pc[q] \in {"lineage", "stamp", "bootstrap"} /\ fetched'[q] = fetched[q]
       \/ ReadTip(q)
  /\ pc'[q] = "apply" => pc[q] = "apply" \/ tally'[q].attempt > tally[q].attempt
  /\ pc'[q] = "sent" => Still(q) \/ (Push(q) /\ pending'[q] = Fresh(q))
  /\ pc'[q] = "landed" => Still(q) \/ \E push \in wire : push.op = q /\ AcceptPush(push)
  /\ pc'[q] = "delete" => \/ pc[q] = "delete" /\ observed'[q] = observed[q]
                          \/ /\ PeekForReset(q) /\ observed'[q] = remote
                             /\ StateAt(remote).claims = {}

ResetMoves(q) == ResetAdvances(q) /\ ResetArrives(q)

\* A process that does not move.
LEMMA ResetStill ==
  ASSUME ResetTypeOK, NEW q \in Processes, Still(q)
  PROVE  ResetMoves(q)
<1>1. tally[q].attempt <= tally[q].attempt
  BY StoreAssumption DEF ResetTypeOK, Positive
<1> QED
  BY <1>1 DEF ResetMoves, ResetAdvances, ResetArrives, Still, Ended, Submitted, Looping,
              Searching, Fetching

\* The others stay where they are when a process takes a step of its own.
LEMMA ResetOthersStill ==
  ASSUME ResetTypeOK, NEW p \in Processes,
         \/ FetchStep(p) \/ CommandStep(p) \/ TransitionStep(p) \/ LoseConnection(p) \/ Crash(p)
         \/ ResetStep(p)
  PROVE  \A q \in Processes \ {p} : Still(q)
<1> USE DEF ResetTypeOK, Still, Goto, Exit, Fetch
<1>1. CASE FetchStep(p)
  BY <1>1 DEF FetchStep, ReadTip, CheckLineage, WriteStamp
<1>2. CASE CommandStep(p)
  <2>1. /\ UNCHANGED tally
        /\ \/ (Exit(p, "refused") \/ Exit(p, "done")) /\ UNCHANGED <<intent, purpose>>
           \/ Fetch(p, "observe") /\ UNCHANGED <<fetched, observed, pending, intent>>
           \/ \E built \in AnyIntent : Submit(p, built)
    BY <1>2, CommandStepBuilds
  <2>2. CASE (Exit(p, "refused") \/ Exit(p, "done")) /\ UNCHANGED <<intent, purpose>>
    BY <2>1, <2>2
  <2>3. CASE Fetch(p, "observe") /\ UNCHANGED <<fetched, observed, pending, intent>>
    BY <2>1, <2>3
  <2>4. ASSUME NEW built, Submit(p, built) PROVE \A q \in Processes \ {p} : Still(q)
    BY <2>1, <2>4 DEF Submit
  <2> QED
    BY <2>1, <2>2, <2>3, <2>4
<1>3. CASE TransitionStep(p)
  <2>1. CASE BeginTransition(p)
    BY <2>1 DEF BeginTransition
  <2>2. CASE Push(p)
    BY <2>2 DEF Push
  <2>3. CASE RefuseIntent(p)
    BY <2>3 DEF RefuseIntent
  <2>4. CASE FoundOwnOperation(p)
    BY <2>4 DEF FoundOwnOperation
  <2>5. CASE Retry(p)
    BY <2>5 DEF Retry
  <2>6. CASE Landed(p)
    BY <2>6 DEF Landed
  <2> QED
    BY <1>3, <2>1, <2>2, <2>3, <2>4, <2>5, <2>6 DEF TransitionStep
<1>4. CASE LoseConnection(p)
  BY <1>4 DEF LoseConnection
<1>5. CASE Crash(p)
  BY <1>5 DEF Crash
<1>6. CASE ResetStep(p)
  BY <1>6 DEF ResetStep, BeginBootstrap, PeekForReset, DeleteRemote, DeleteUnheard,
              RepairAfterFailedDelete, ClearLineageStamps, ClearStamp
<1> QED
  BY <1>1, <1>2, <1>3, <1>4, <1>5, <1>6

\* A fetch.
LEMMA ResetFetchMoves ==
  ASSUME ResetTypeOK, ResetCourse, NEW p \in Processes, FetchStep(p)
  PROVE  ResetMoves(p)
<1> USE DEF ResetTypeOK, ResetMoves, ResetAdvances, ResetArrives, Ended, Submitted, Looping,
            Searching, Fetching, Goto, Terminal
<1>1. purpose[p] \in Purposes \cup {"bootstrap"} /\ tally[p].attempt <= tally[p].attempt
  BY StoreAssumption DEF Positive
<1>2. CASE ReadTip(p)
  BY <1>1, <1>2 DEF ReadTip
<1>3. CASE CheckLineage(p)
  BY <1>1, <1>3 DEF CheckLineage, Exit, Purposes
<1>4. CASE WriteStamp(p)
  BY <1>1, <1>4 DEF WriteStamp, Purposes
<1> QED
  BY <1>2, <1>3, <1>4 DEF FetchStep

\* A command step.
LEMMA ResetCommandMoves ==
  ASSUME ResetTypeOK, ResetCourse, NEW p \in Processes, CommandStep(p)
  PROVE  ResetMoves(p)
<1> USE DEF ResetTypeOK, ResetMoves, ResetAdvances, ResetArrives, Ended, Submitted, Looping,
            Searching, Fetching, Goto, Terminal
<1>1. /\ pc[p] \in {"items", "observe"}
      /\ UNCHANGED tally
      /\ \/ (Exit(p, "refused") \/ Exit(p, "done")) /\ UNCHANGED <<intent, purpose>>
         \/ Fetch(p, "observe") /\ UNCHANGED <<fetched, observed, pending, intent>>
         \/ \E built \in AnyIntent : Submit(p, built)
  BY CommandStepBuilds
<1>2. tally[p].attempt <= tally[p].attempt /\ ~Submitted(p)
  <2>1. tally[p].attempt <= tally[p].attempt
    BY StoreAssumption DEF Positive
  <2>2. ~Submitted(p)
    BY <1>1 DEF ResetCourse, CourseOf
  <2> QED
    BY <2>1, <2>2
<1>3. CASE (Exit(p, "refused") \/ Exit(p, "done")) /\ UNCHANGED <<intent, purpose>>
  BY <1>1, <1>2, <1>3 DEF Exit
<1>4. CASE Fetch(p, "observe") /\ UNCHANGED <<fetched, observed, pending, intent>>
  BY <1>1, <1>2, <1>4 DEF Fetch
<1>5. ASSUME NEW built \in AnyIntent, Submit(p, built) PROVE ResetMoves(p)
  BY <1>1, <1>2, <1>5, IntentIsNoBootstrap DEF Submit, Fetch
<1> QED
  BY <1>1, <1>3, <1>4, <1>5

\* A step of the loop.
LEMMA ResetTransitionMoves ==
  ASSUME ResetTypeOK, ResetCourse, NEW p \in Processes, TransitionStep(p)
  PROVE  ResetMoves(p)
<1> USE DEF ResetTypeOK, ResetMoves, ResetAdvances, ResetArrives, Ended, Submitted, Looping,
            Searching, Fetching, Goto, Terminal
<1>1. tally[p] \in ResetTally /\ tally[p].attempt \in Nat
  BY StoreAssumption DEF ResetTally, Positive
<1>2. CASE BeginTransition(p)
  <2>1. pc[p] = "transition" /\ tally[p].attempt = 0
    BY <1>2 DEF BeginTransition, ResetCourse, CourseOf
  <2> QED
    BY <1>1, <1>2, <2>1 DEF BeginTransition, Exit
<1>3. CASE Push(p)
  BY <1>1, <1>3 DEF Push, Fetch, Fresh
<1>4. CASE RefuseIntent(p)
  BY <1>1, <1>4 DEF RefuseIntent, Exit
<1>5. CASE FoundOwnOperation(p)
  BY <1>1, <1>5 DEF FoundOwnOperation, Exit
<1>6. CASE Retry(p)
  <2> DEFINE count == AdvanceTipRetry(observed[p], fetched[p], tally[p])
  <2> HIDE DEF count
  <2>1. count \in ResetTally /\ count.attempt = tally[p].attempt
    BY <1>1, ResetCountType DEF count
  <2>2. /\ pc[p] = "search" /\ UNCHANGED <<purpose, intent>>
        /\ \/ /\ tally' = [tally EXCEPT ![p] = [count EXCEPT !.attempt = @ + 1]]
              /\ observed' = [observed EXCEPT ![p] = fetched[p]]
              /\ UNCHANGED <<fetched, pending>>
              /\ Goto(p, "apply")
           \/ /\ tally' = [tally EXCEPT ![p] = count]
              /\ Exit(p, "exhausted")
    BY <1>6 DEF Retry, count
  <2>3. Submitted(p)
    BY <2>2 DEF ResetCourse, CourseOf
  <2>4. tally'[p].attempt = tally[p].attempt \/
          (tally'[p].attempt = tally[p].attempt + 1 /\ Goto(p, "apply"))
    BY <1>1, <2>1, <2>2 DEF ResetTally
  <2>5. tally[p].attempt <= tally'[p].attempt /\ Submitted(p)'
    BY <1>1, <2>3, <2>4
  <2>6. pc'[p] = "apply" => tally'[p].attempt > tally[p].attempt
    BY <1>1, <2>1, <2>2 DEF Exit, ResetTally
  <2>7. CASE Goto(p, "apply") /\ UNCHANGED <<fetched, pending>>
             /\ observed' = [observed EXCEPT ![p] = fetched[p]]
    BY <1>6, <2>2, <2>5, <2>6, <2>7
  <2>8. CASE Exit(p, "exhausted")
    BY <1>6, <2>2, <2>5, <2>6, <2>8 DEF Exit
  <2> QED
    BY <2>2, <2>7, <2>8
<1>7. CASE Landed(p)
  BY <1>1, <1>7 DEF Landed, Exit
<1> QED
  BY <1>2, <1>3, <1>4, <1>5, <1>6, <1>7 DEF TransitionStep

\* A step of bootstrap or reset.
LEMMA ResetStepMoves ==
  ASSUME ResetTypeOK, ResetCourse, NEW p \in Processes, ResetStep(p)
  PROVE  ResetMoves(p)
<1> USE DEF ResetTypeOK, ResetMoves, ResetAdvances, ResetArrives, Ended, Submitted, Looping,
            Searching, Fetching, Goto, Terminal
<1>1. tally[p] \in ResetTally /\ tally[p].attempt \in Nat
  BY StoreAssumption DEF ResetTally, Positive
<1>2. CASE BeginBootstrap(p)
  <2>1. pc[p] = "bootstrap" /\ tally[p].attempt = 0
    BY <1>2 DEF BeginBootstrap, ResetCourse, CourseOf
  <2> QED
    BY <1>1, <1>2, <2>1 DEF BeginBootstrap, Exit
<1>3. CASE PeekForReset(p)
  BY <1>1, <1>3 DEF PeekForReset, Exit
<1>4. CASE DeleteRemote(p)
  BY <1>1, <1>4 DEF DeleteRemote
<1>5. CASE DeleteUnheard(p)
  BY <1>1, <1>5 DEF DeleteUnheard
<1>6. CASE RepairAfterFailedDelete(p)
  BY <1>1, <1>6 DEF RepairAfterFailedDelete, Exit
<1>7. CASE ClearLineageStamps(p)
  BY <1>1, <1>7 DEF ClearLineageStamps
<1>8. CASE ClearStamp(p)
  BY <1>1, <1>8 DEF ClearStamp, Fetch
<1> QED
  BY <1>2, <1>3, <1>4, <1>5, <1>6, <1>7, <1>8 DEF ResetStep

\* A step of the server or of fate, and the pushes' own processes.
LEMMA ResetOtherMoves ==
  ASSUME ResetTypeOK, ResetCourse, (\E push \in wire : ServerStep(push)) \/ FaultStep
  PROVE  \A q \in Processes : ResetMoves(q)
<1> USE DEF ResetTypeOK, ResetMoves, ResetAdvances, ResetArrives, Ended, Submitted, Looping,
            Searching, Fetching, Goto, Terminal
<1>1. \A q \in Processes : tally[q].attempt <= tally[q].attempt
  BY StoreAssumption DEF Positive
<1>2. CASE \E push \in wire : ServerStep(push)
  <2>1. ASSUME NEW push \in wire, AcceptPush(push) PROVE \A q \in Processes : ResetMoves(q)
    <3>1. push.op \in Processes /\ pc[push.op] = "sent"
      BY <2>1 DEF AcceptPush, Awaited, ResetPush
    <3>2. \A q \in Processes \ {push.op} : Still(q)
      BY <2>1 DEF AcceptPush, Still
    <3>3. ResetMoves(push.op)
      BY <1>1, <2>1, <3>1 DEF AcceptPush
    <3> QED
      BY <3>2, <3>3, ResetStill
  <2>2. ASSUME NEW push \in wire, AcceptLatePush(push) PROVE \A q \in Processes : ResetMoves(q)
    <3>1. \A q \in Processes : Still(q)
      BY <2>2 DEF AcceptLatePush, Still
    <3> QED
      BY <3>1, ResetStill
  <2>3. ASSUME NEW push \in wire, RejectPush(push) PROVE \A q \in Processes : ResetMoves(q)
    BY <1>1, <2>3 DEF RejectPush, Awaited, Fetch, Still, ResetPush
  <2> QED
    BY <1>2, <2>1, <2>2, <2>3 DEF ServerStep
<1>3. CASE \E push \in wire : RefusePush(push)
  BY <1>1, <1>3 DEF RefusePush, Awaited, Fetch, Still, ResetPush
<1>4. CASE \E p \in Processes : LoseConnection(p)
  BY <1>1, <1>4 DEF LoseConnection, Fetch, Still
<1>5. CASE \E p \in Processes : Crash(p)
  BY <1>1, <1>5 DEF Crash, Exit, Still
<1> QED
  BY <1>2, <1>3, <1>4, <1>5 DEF FaultStep

\* Any step of any process.
LEMMA ResetNextMoves ==
  ASSUME ResetTypeOK, ResetCourse, ResetNext
  PROVE  \A q \in Processes : ResetMoves(q)
<1>1. ASSUME NEW p \in Processes,
             FetchStep(p) \/ CommandStep(p) \/ TransitionStep(p) \/ ResetStep(p)
      PROVE  \A q \in Processes : ResetMoves(q)
  <2>1. ResetMoves(p)
    BY <1>1, ResetFetchMoves, ResetCommandMoves, ResetTransitionMoves, ResetStepMoves
  <2> QED
    BY <1>1, <2>1, ResetOthersStill, ResetStill
<1> QED
  BY <1>1, ResetOtherMoves DEF ResetNext, Next

----------------------------------------------------------------------------
(* The course of a process.                                                *)

\* A process that does not move keeps to its course.
LEMMA CourseStill ==
  ASSUME NEW q \in Processes, CourseOf(q), Still(q), UNCHANGED scenario
  PROVE  CourseOf(q)'
BY DEF CourseOf, Still, Ended, Submitted, Looping, Fetching, CommandOf

\* A retry stays submitted.
LEMMA RetryStaysSubmitted ==
  ASSUME ResetTypeOK, NEW p \in Processes, Submitted(p), Retry(p)
  PROVE  Submitted(p)'
<1> DEFINE count == AdvanceTipRetry(observed[p], fetched[p], tally[p])
<1> HIDE DEF count
<1>1. tally[p] \in ResetTally /\ tally[p].attempt \in Nat
  BY StoreAssumption DEF ResetTypeOK, ResetTally, Positive
<1>2. count \in ResetTally /\ count.attempt = tally[p].attempt
  BY <1>1, ResetCountType DEF count
<1>3. \/ tally' = [tally EXCEPT ![p] = [count EXCEPT !.attempt = @ + 1]]
      \/ tally' = [tally EXCEPT ![p] = count]
  BY DEF Retry, count
<1>4. tally'[p].attempt \in {tally[p].attempt, tally[p].attempt + 1}
  BY <1>2, <1>3 DEF ResetTypeOK, ResetTally
<1> QED
  BY <1>1, <1>4 DEF Submitted

\* A process that moves keeps to its course.
LEMMA CourseStep ==
  ASSUME ResetTypeOK, NEW p \in Processes, CourseOf(p), UNCHANGED scenario,
         \/ FetchStep(p) \/ CommandStep(p) \/ TransitionStep(p) \/ LoseConnection(p) \/ Crash(p)
         \/ ResetStep(p)
  PROVE  CourseOf(p)'
<1> USE DEF ResetTypeOK, CourseOf, Ended, Submitted, Looping, Fetching, Goto, Exit, Fetch,
            Terminal, ResetLabels
<1>1. /\ CommandOf' = CommandOf
      /\ purpose[p] \in Purposes \cup {"bootstrap"}
  BY DEF CommandOf
<1>2. CASE FetchStep(p)
  <2>1. CASE ReadTip(p)
    BY <1>1, <2>1 DEF ReadTip
  <2>2. CASE CheckLineage(p)
    BY <1>1, <2>2 DEF CheckLineage, Purposes
  <2>3. CASE WriteStamp(p)
    BY <1>1, <2>3 DEF WriteStamp, Purposes
  <2> QED
    BY <1>2, <2>1, <2>2, <2>3 DEF FetchStep
<1>3. CASE CommandStep(p)
  <2>1. /\ pc[p] \in {"items", "observe"}
        /\ UNCHANGED tally
        /\ \/ (Exit(p, "refused") \/ Exit(p, "done")) /\ UNCHANGED <<intent, purpose>>
           \/ Fetch(p, "observe") /\ UNCHANGED <<fetched, observed, pending, intent>>
           \/ \E built \in AnyIntent : Submit(p, built)
    BY <1>3, CommandStepBuilds
  <2>2. CASE (Exit(p, "refused") \/ Exit(p, "done")) /\ UNCHANGED <<intent, purpose>>
    BY <1>1, <2>1, <2>2
  <2>3. CASE Fetch(p, "observe") /\ UNCHANGED <<fetched, observed, pending, intent>>
    BY <1>1, <2>1, <2>3
  <2>4. ASSUME NEW built \in AnyIntent, Submit(p, built) PROVE CourseOf(p)'
    BY <1>1, <2>1, <2>4, IntentIsNoBootstrap DEF Submit
  <2> QED
    BY <2>1, <2>2, <2>3, <2>4
<1>4. CASE TransitionStep(p)
  <2>1. CASE BeginTransition(p)
    BY <1>1, <2>1 DEF BeginTransition
  <2>2. CASE Push(p)
    BY <1>1, <2>2 DEF Push
  <2>3. CASE RefuseIntent(p)
    BY <1>1, <2>3 DEF RefuseIntent
  <2>4. CASE FoundOwnOperation(p)
    BY <1>1, <2>4 DEF FoundOwnOperation
  <2>5. CASE Retry(p)
    <3>1. Submitted(p)
      BY <2>5 DEF Retry
    <3>2. Submitted(p)'
      BY <2>5, <3>1, RetryStaysSubmitted
    <3>3. /\ pc[p] = "search" /\ UNCHANGED <<purpose, intent>>
          /\ \/ Goto(p, "apply") \/ Exit(p, "exhausted")
      BY <2>5 DEF Retry
    <3> QED
      BY <1>1, <3>2, <3>3
  <2>6. CASE Landed(p)
    BY <1>1, <2>6 DEF Landed
  <2> QED
    BY <1>4, <2>1, <2>2, <2>3, <2>4, <2>5, <2>6 DEF TransitionStep
<1>5. CASE LoseConnection(p)
  BY <1>1, <1>5 DEF LoseConnection
<1>6. CASE Crash(p)
  BY <1>1, <1>6 DEF Crash
<1>7. CASE ResetStep(p)
  <2>1. CASE BeginBootstrap(p)
    BY <1>1, <2>1 DEF BeginBootstrap
  <2>2. CASE PeekForReset(p)
    BY <1>1, <2>2 DEF PeekForReset
  <2>3. CASE DeleteRemote(p)
    BY <1>1, <2>3 DEF DeleteRemote
  <2>4. CASE DeleteUnheard(p)
    BY <1>1, <2>4 DEF DeleteUnheard
  <2>5. CASE RepairAfterFailedDelete(p)
    BY <1>1, <2>5 DEF RepairAfterFailedDelete
  <2>6. CASE ClearLineageStamps(p)
    BY <1>1, <2>6 DEF ClearLineageStamps
  <2>7. CASE ClearStamp(p)
    BY <1>1, <2>7 DEF ClearStamp
  <2> QED
    BY <1>7, <2>1, <2>2, <2>3, <2>4, <2>5, <2>6, <2>7 DEF ResetStep
<1> QED
  BY <1>2, <1>3, <1>4, <1>5, <1>6, <1>7

\* Every step of bootstrap, of reset or beside them keeps every process to its
\* course.
LEMMA ResetNextCourse ==
  ASSUME ResetTypeOK, ResetCourse, ResetNext
  PROVE  ResetCourse'
<1>1. /\ UNCHANGED scenario
      /\ \A q \in Processes : CourseOf(q)
  BY DEF ResetNext, Next, ResetCourse
<1>2. ASSUME NEW p \in Processes,
             \/ FetchStep(p) \/ CommandStep(p) \/ TransitionStep(p)
             \/ LoseConnection(p) \/ Crash(p) \/ ResetStep(p)
      PROVE  ResetCourse'
  <2>1. CourseOf(p)'
    BY <1>1, <1>2, CourseStep
  <2>2. \A q \in Processes \ {p} : Still(q)
    BY <1>2, ResetOthersStill
  <2> QED
    BY <1>1, <2>1, <2>2, CourseStill DEF ResetCourse
<1>3. ASSUME NEW push \in wire,
             AcceptPush(push) \/ AcceptLatePush(push) \/ RejectPush(push) \/ RefusePush(push)
      PROVE  ResetCourse'
  <2>1. /\ push.op \in Processes
        /\ \A q \in Processes \ {push.op} : Still(q)
        /\ \/ Still(push.op)
           \/ /\ pc[push.op] = "sent"
              /\ \/ pc'[push.op] = "landed" /\ UNCHANGED purpose
                 \/ pc'[push.op] = "read" /\ purpose'[push.op] = "search"
              /\ UNCHANGED <<intent, tally, observed>>
    <3>1. push.op \in Processes
      BY DEF ResetTypeOK, ResetPush
    <3>2. CASE AcceptPush(push)
      BY <3>1, <3>2 DEF AcceptPush, Awaited, Goto, Still, ResetTypeOK
    <3>3. CASE AcceptLatePush(push)
      BY <3>1, <3>3 DEF AcceptLatePush, Still
    <3>4. CASE RejectPush(push)
      BY <3>1, <3>4 DEF RejectPush, Awaited, Fetch, Goto, Still, ResetTypeOK
    <3>5. CASE RefusePush(push)
      BY <3>1, <3>5 DEF RefusePush, Awaited, Fetch, Goto, Still, ResetTypeOK
    <3> QED
      BY <1>3, <3>2, <3>3, <3>4, <3>5
  <2>2. CourseOf(push.op)'
    <3>1. CASE Still(push.op)
      BY <1>1, <2>1, <3>1, CourseStill
    <3>2. CASE ~Still(push.op)
      BY <1>1, <2>1, <3>2 DEF CourseOf, Ended, Submitted, Looping, Fetching, CommandOf, Terminal,
                              ResetLabels
    <3> QED
      BY <3>1, <3>2
  <2> QED
    BY <1>1, <2>1, <2>2, CourseStill DEF ResetCourse
<1> QED
  BY <1>2, <1>3 DEF ResetNext, Next, ServerStep, FaultStep

----------------------------------------------------------------------------
(* The ref, the wire and the stamps.                                       *)

\* The deletion a reset sends, leased on the tip it peeked at.
Deletion(p) == [op |-> p, attempt |-> 0, old |-> observed[p], new |-> NoRef]

\* The ref moves to the commit of a push that was leased on it, or is deleted by
\* a reset that peeked at it.
LEMMA ResetRemoteSteps ==
  ASSUME ResetNext
  PROVE  \/ UNCHANGED remote
         \/ \E push \in wire : /\ push.old = remote /\ remote' = push.new
                               /\ wire' = wire \ {push}
                               /\ AcceptPush(push) \/ AcceptLatePush(push)
         \/ \E p \in Processes : /\ pc[p] = "delete" /\ observed[p] = remote /\ remote' = NoRef
                                 /\ DeleteRemote(p) \/ DeleteUnheard(p)
                                 /\ UNCHANGED wire
<1>1. ASSUME NEW p \in Processes, ResetStep(p)
      PROVE  \/ UNCHANGED remote
             \/ /\ pc[p] = "delete" /\ observed[p] = remote /\ remote' = NoRef
                /\ DeleteRemote(p) \/ DeleteUnheard(p)
                /\ UNCHANGED wire
  BY <1>1 DEF ResetStep, BeginBootstrap, PeekForReset, DeleteRemote, DeleteUnheard,
              RepairAfterFailedDelete, ClearLineageStamps, ClearStamp
<1> QED
  BY <1>1, RemoteSteps DEF ResetNext, AcceptPush, AcceptLatePush

\* What can be on the wire after a step: what was, and the push or the deletion
\* just sent.
LEMMA ResetWireSteps ==
  ASSUME ResetNext
  PROVE  \/ wire' \subseteq wire
         \/ \E p \in Processes : /\ Push(p) /\ IsPrefix(remote, Fresh(p))
                                 /\ wire' = wire \cup {FreshPush(p)}
         \/ \E p \in Processes : /\ DeleteUnheard(p) /\ UNCHANGED remote
                                 /\ wire' = wire \cup {Deletion(p)}
<1>1. ASSUME NEW p \in Processes, ResetStep(p)
      PROVE  \/ wire' \subseteq wire
             \/ DeleteUnheard(p) /\ UNCHANGED remote /\ wire' = wire \cup {Deletion(p)}
  BY <1>1 DEF ResetStep, BeginBootstrap, PeekForReset, DeleteRemote, DeleteUnheard,
              RepairAfterFailedDelete, ClearLineageStamps, ClearStamp, Deletion
<1> QED
  BY <1>1, WireSteps DEF ResetNext

\* A worktree is stamped with what one of its processes fetched or landed, or
\* loses its stamp to a reset.
LEMMA ResetStampSteps ==
  ASSUME ResetNext
  PROVE  \/ UNCHANGED stamp
         \/ \E p \in Processes : WriteStamp(p) \/ Landed(p) \/ ClearStamp(p)
<1>1. ASSUME NEW p \in Processes, ResetStep(p) PROVE UNCHANGED stamp \/ ClearStamp(p)
  BY <1>1 DEF ResetStep, BeginBootstrap, PeekForReset, DeleteRemote, DeleteUnheard,
              RepairAfterFailedDelete, ClearLineageStamps
<1> QED
  BY <1>1, StampSteps DEF ResetNext

\* Every step keeps what is on the wire in order.
LEMMA ResetNextWire ==
  ASSUME ResetTypeOK, ResetCourse, ResetWire, ResetNext
  PROVE  ResetWire'
<1> SUFFICES ASSUME NEW CONSTANT push, push \in wire'
             PROVE  /\ push.new = NoRef => push.attempt = 0 /\ StateAt(push.old).claims = {}
                    /\ push.new # NoRef => IsPrefix(push.old, push.new) /\ Submitted(push.op)'
                    /\ push.attempt <= tally'[push.op].attempt
                    /\ pc'[push.op] = "apply" => push.attempt < tally'[push.op].attempt
                    /\ Awaited(push)' => push.new = pending'[push.op]
  BY DEF ResetWire
<1>1. \A q \in Processes : /\ ResetMoves(q)
                           /\ tally[q].attempt \in Nat /\ tally'[q].attempt \in Nat
  <2>1. ResetTypeOK'
    BY ResetNextType, ResetStepType DEF ResetNext
  <2> QED
    BY <2>1, ResetNextMoves, StoreAssumption DEF ResetTypeOK, Positive
<1>2. CASE push \in wire
  <2>1. push.op \in Processes /\ push.attempt \in Nat
    BY <1>2, StoreAssumption DEF ResetTypeOK, ResetPush, Positive
  <2>2. /\ push.new = NoRef => push.attempt = 0 /\ StateAt(push.old).claims = {}
        /\ push.new # NoRef => IsPrefix(push.old, push.new) /\ Submitted(push.op)
        /\ push.attempt <= tally[push.op].attempt
        /\ pc[push.op] = "apply" => push.attempt < tally[push.op].attempt
        /\ Awaited(push) => push.new = pending[push.op]
    BY <1>2 DEF ResetWire
  <2>3. Submitted(push.op) => Submitted(push.op)'
    BY <1>1, <2>1 DEF ResetMoves, ResetAdvances
  <2>4. push.attempt <= tally'[push.op].attempt
    BY <1>1, <2>1, <2>2 DEF ResetMoves, ResetAdvances
  <2>5. pc'[push.op] = "apply" => push.attempt < tally'[push.op].attempt
    BY <1>1, <2>1, <2>2 DEF ResetMoves, ResetAdvances, ResetArrives
  <2>6. ASSUME Awaited(push)' PROVE push.new = pending'[push.op]
    <3>1. pc'[push.op] = "sent" /\ tally'[push.op].attempt = push.attempt
      BY <2>6 DEF Awaited
    <3>2. CASE Still(push.op)
      BY <2>2, <3>1, <3>2 DEF Still, Awaited
    <3>3. CASE Push(push.op)
      <4>1. pc[push.op] = "apply" /\ tally'[push.op].attempt = tally[push.op].attempt
        BY <3>3 DEF Push
      <4> QED
        BY <1>1, <2>1, <2>2, <3>1, <4>1
    <3> QED
      BY <1>1, <2>1, <3>1, <3>2, <3>3 DEF ResetMoves, ResetArrives
  <2> QED
    BY <2>2, <2>3, <2>4, <2>5, <2>6
<1>3. ASSUME NEW p \in Processes, Push(p), IsPrefix(remote, Fresh(p)), push = FreshPush(p)
      PROVE  /\ push.new # NoRef /\ IsPrefix(push.old, push.new) /\ Submitted(push.op)'
             /\ push.attempt <= tally'[push.op].attempt
             /\ pc'[push.op] # "apply"
             /\ push.new = pending'[push.op]
  <2>1. push.op = p /\ push.attempt = tally[p].attempt /\ push.old = remote /\ push.new = Fresh(p)
    BY <1>3 DEF FreshPush
  <2>2. /\ Committable(p) /\ pc[p] = "apply" /\ UNCHANGED tally
        /\ pending' = [pending EXCEPT ![p] = Fresh(p)]
        /\ pc'[p] # "apply"
    BY <1>3 DEF Push, Fresh, Goto, Fetch, ResetTypeOK
  <2>3. Fresh(p) # NoRef
    <3>1. PICK e \in Entry : Fresh(p) = Append(observed[p], e)
      BY <2>2, FreshCommit
    <3>2. observed[p] \in Seq(Entry)
      BY CommitFacts DEF ResetTypeOK
    <3> QED
      BY <3>1, <3>2, OneMore DEF NoRef
  <2>4. Submitted(p)
    BY <2>2 DEF ResetCourse, CourseOf, Ended, Terminal, Looping
  <2> QED
    BY <1>1, <1>3, <2>1, <2>2, <2>3, <2>4 DEF ResetTypeOK, Submitted
<1>4. ASSUME NEW p \in Processes, DeleteUnheard(p), push = Deletion(p)
      PROVE  /\ push.new = NoRef /\ push.attempt = 0 /\ StateAt(push.old).claims = {}
             /\ push.attempt <= tally'[push.op].attempt
             /\ pc'[push.op] = "reprobe"
  <2>1. push.op = p /\ push.attempt = 0 /\ push.old = observed[p] /\ push.new = NoRef
    BY <1>4 DEF Deletion
  <2>2. pc[p] = "delete" /\ pc'[p] = "reprobe"
    BY <1>4 DEF DeleteUnheard, Goto, ResetTypeOK
  <2>3. StateAt(observed[p]).claims = {}
    BY <2>2 DEF ResetCourse, CourseOf
  <2> QED
    BY <1>1, <2>1, <2>2, <2>3
<1> QED
  BY <1>2, <1>3, <1>4, ResetWireSteps DEF Awaited

----------------------------------------------------------------------------
(* Reset loses nothing.                                                    *)

\* What the bootstrap made beforehand is a commit, of one entry.
LEMMA RootCommitFacts ==
  /\ RootCommit \in Commit /\ RootCommit # NoRef
  /\ DOMAIN RootCommit = {1} /\ RootCommit[1].op = Root
<1> DEFINE first == [op |-> Root, state |-> BootstrapState(1)]
<1>1. /\ BootstrapState(1) \in ClaimState /\ BootstrapState(1).tip = 1
      /\ BootstrapState(1).occupied = {}
  <2>1. EMPTY_STATE \in ClaimState /\ EMPTY_STATE.occupied = {}
    BY DEF EMPTY_STATE, ClaimState
  <2> QED
    BY <2>1 DEF BootstrapState, ClaimState
<1>2. /\ first \in Entry /\ IsFiniteSet(first.state.occupied) /\ first.state.tip = 1
      /\ first.op = Root
  BY <1>1, FS_EmptySet DEF Entry
<1> HIDE DEF first
<1>3. /\ <<first>> \in Seq(Entry) /\ DOMAIN <<first>> = {1}
      /\ <<first>>[1] = first /\ <<first>> # <<>>
  BY <1>2
<1>4. <<first>> \in Commit
  BY <1>2, <1>3 DEF Commit
<1> QED
  BY <1>2, <1>3, <1>4 DEF RootCommit, NoRef, first

ResetBase == ResetTypeOK /\ ResetCourse /\ ResetWire

\* The initial states have it.
LEMMA ResetBaseInit ==
  ASSUME ResetInit
  PROVE  ResetBase
<1>1. ResetTypeOK
  <2>1. 0 \in 0 .. MaxFaults /\ 0 \in 0 .. MaxAttempts
    BY StoreAssumption DEF Positive
  <2>2. tally \in [Processes -> [attempt : 0 .. MaxAttempts, moves : Nat, stationary : Nat]]
    BY <2>1 DEF ResetInit
  <2>3. intent \in [Processes -> AnyIntent \cup {[kind |-> "none"], [kind |-> "bootstrap"]}]
    BY DEF ResetInit
  <2>4. pc \in [Processes -> Labels \cup ResetLabels \cup {"bootstrap"}]
    BY DEF ResetInit, Labels, ResetLabels, Terminal
  <2>5. purpose \in [Processes -> Purposes \cup {"bootstrap"}]
    BY DEF ResetInit, Purposes, FirstRead
  <2>6. remote \in Commit /\ stamp \in [Worktrees -> Commit]
    BY NoRefType, RootCommitFacts DEF ResetInit
  <2>7. EMPTY_STATE \in ClaimState
    BY DEF EMPTY_STATE, ClaimState
  <2> QED
    BY <2>1, <2>2, <2>3, <2>4, <2>5, <2>6, <2>7, NoRefType DEF ResetInit, ResetTypeOK
<1>2. ResetCourse
  BY DEF ResetInit, ResetCourse, CourseOf, Ended, Terminal, Submitted, Looping, Fetching,
         FirstRead, ResetLabels
<1>3. ResetWire
  BY DEF ResetInit, ResetWire
<1> QED
  BY <1>1, <1>2, <1>3 DEF ResetBase

\* Every step keeps it.
LEMMA ResetBaseNext ==
  ASSUME ResetBase, [ResetNext]_<<resetVars, scenario>>
  PROVE  ResetBase'
<1>1. CASE ResetNext
  <2>1. ResetTypeOK'
    BY <1>1, ResetNextType, ResetStepType DEF ResetBase, ResetNext
  <2> QED
    BY <1>1, <2>1, ResetNextCourse, ResetNextWire DEF ResetBase
<1>2. CASE UNCHANGED <<resetVars, scenario>>
  <2> USE <1>2 DEF resetVars, vars
  <2>1. ResetTypeOK'
    BY DEF ResetBase, ResetTypeOK
  <2>2. ResetCourse'
    BY DEF ResetBase, ResetCourse, CourseOf, Ended, Submitted, Looping, Fetching, CommandOf
  <2>3. ResetWire'
    BY DEF ResetBase, ResetWire, Submitted, Awaited
  <2> QED
    BY <2>1, <2>2, <2>3 DEF ResetBase
<1> QED
  BY <1>1, <1>2

\* Every variable of a repository that is bootstrapped and reset keeps its type,
\* whatever commands run beside.
THEOREM ResetTypeCorrect == ResetSpec => []ResetTypeOK
<1>1. ResetBase => ResetTypeOK
  BY DEF ResetBase
<1> QED
  BY <1>1, ResetBaseInit, ResetBaseNext, PTL DEF ResetSpec

\* What one step does to the ref.
LEMMA ResetRemoteMoves ==
  ASSUME ResetBase, [ResetNext]_<<resetVars, scenario>>
  PROVE  /\ remote # NoRef /\ remote' = NoRef => StateAt(remote).claims = {}
         /\ remote # NoRef /\ remote' # NoRef => IsPrefix(remote, remote')
<1>1. CASE UNCHANGED remote
  <2>1. remote \in Seq(Entry)
    BY CommitFacts DEF ResetBase, ResetTypeOK
  <2> QED
    BY <1>1, <2>1, PrefixOrder
<1>2. ASSUME NEW push \in wire, push.old = remote, remote' = push.new
      PROVE  /\ remote' = NoRef => StateAt(remote).claims = {}
             /\ remote' # NoRef => IsPrefix(remote, remote')
  BY <1>2 DEF ResetBase, ResetWire
<1>3. ASSUME NEW p \in Processes, pc[p] = "delete", observed[p] = remote, remote' = NoRef
      PROVE  StateAt(remote).claims = {}
  BY <1>3 DEF ResetBase, ResetCourse, CourseOf
<1>4. CASE UNCHANGED <<resetVars, scenario>>
  BY <1>1, <1>4 DEF resetVars, vars
<1> QED
  BY <1>1, <1>2, <1>3, <1>4, ResetRemoteSteps

\* However many resets, bootstraps and other commands run together, and however
\* late a deletion or a push is processed: a reset deletes no ref with a live
\* claim, and the history of a ref is only ever extended or deleted.
THEOREM ResetLosesNoClaim == ResetSpec => ResetLosesNothing
<1>1. ResetBase /\ [ResetNext]_<<resetVars, scenario>> =>
        /\ [remote # NoRef /\ remote' = NoRef => StateAt(remote).claims = {}]_resetVars
        /\ [remote # NoRef /\ remote' # NoRef => IsPrefix(remote, remote')]_resetVars
  BY ResetRemoteMoves
<1> QED
  BY <1>1, ResetBaseInit, ResetBaseNext, PTL
  DEF ResetSpec, ResetLosesNothing, ResetSparesLiveClaims, RefOnlyAdvances

----------------------------------------------------------------------------
(* No operation is on any history twice.                                   *)

\* Every commit that is on the ref, in the hands of a process or on the wire; one
\* that was the ref once may be again.  A stamp is only compared with.
Known ==
  {remote}
  \cup {fetched[q] : q \in Processes} \cup {observed[q] : q \in Processes}
  \cup {pending[q] : q \in Processes}
  \cup {push.old : push \in wire} \cup {push.new : push \in wire}

\* A history that has no operation twice, and none that was not submitted.
Sound(c) ==
  /\ \A i, j \in DOMAIN c : c[i].op = c[j].op => i = j
  /\ \A q \in Processes : q \in OperationsOn(c) => Submitted(q)

\* What a process is about to commit on does not have its operation.
OperationsInv ==
  /\ \A c \in Known : Sound(c)
  /\ \A q \in Processes : Looping(q) => q \notin OperationsOn(observed[q])

\* Everything known is a commit.
LEMMA KnownType ==
  ASSUME ResetTypeOK
  PROVE  Known \subseteq Commit
BY DEF ResetTypeOK, ResetPush, Known

\* A step brings no commit into the world but the one it pushes.
LEMMA KnownSteps ==
  ASSUME ResetBase, ResetNext, NEW CONSTANT c, c \in Known'
  PROVE  c \in Known \cup {NoRef} \/ \E p \in Processes : Push(p) /\ c = Fresh(p)
<1> USE DEF Known
<1>1. \A q \in Processes : ResetMoves(q)
  BY ResetNextMoves DEF ResetBase
<1>2. ASSUME c = remote' PROVE c \in Known \cup {NoRef}
  BY <1>2, ResetRemoteSteps
<1>3. ASSUME NEW q \in Processes, c \in {fetched'[q], observed'[q]} PROVE c \in Known \cup {NoRef}
  BY <1>1, <1>3 DEF ResetMoves, ResetAdvances
<1>4. ASSUME NEW q \in Processes, c = pending'[q]
      PROVE  c \in Known \cup {NoRef} \/ (Push(q) /\ c = Fresh(q))
  BY <1>1, <1>4 DEF ResetMoves, ResetAdvances
<1>5. ASSUME NEW push \in wire', c \in {push.old, push.new}
      PROVE  c \in Known \cup {NoRef} \/ \E p \in Processes : Push(p) /\ c = Fresh(p)
  <2>1. CASE push \in wire
    BY <1>5, <2>1
  <2>2. ASSUME NEW p \in Processes, Push(p), push = FreshPush(p)
        PROVE  c \in Known \/ c = Fresh(p)
    BY <1>5, <2>2 DEF FreshPush
  <2>3. ASSUME NEW p \in Processes, push = Deletion(p) PROVE c \in Known \cup {NoRef}
    BY <1>5, <2>3 DEF Deletion
  <2> QED
    BY <1>5, <2>1, <2>2, <2>3, ResetWireSteps
<1> QED
  BY <1>2, <1>3, <1>4, <1>5

\* What a push adds: one entry at the end, of its own operation.
LEMMA FreshEntries ==
  ASSUME ResetTypeOK, NEW p \in Processes, Push(p)
  PROVE  /\ DOMAIN observed[p] = 1 .. Len(observed[p]) /\ Len(observed[p]) \in Nat
         /\ DOMAIN Fresh(p) = 1 .. Len(observed[p]) + 1
         /\ \A i \in 1 .. Len(observed[p]) : Fresh(p)[i] = observed[p][i]
         /\ Fresh(p)[Len(observed[p]) + 1].op = p
<1>1. observed[p] \in Seq(Entry)
  BY CommitFacts DEF ResetTypeOK
<1>2. PICK e \in Entry : e.op = p /\ Fresh(p) = Append(observed[p], e)
  BY FreshCommit DEF Push
<1> QED
  BY <1>1, <1>2, AppendProperties, LenProperties

\* Every step keeps it.
LEMMA OperationsStep ==
  ASSUME ResetBase, OperationsInv, ResetNext
  PROVE  OperationsInv'
<1>1. \A q \in Processes : ResetMoves(q) /\ CourseOf(q)
  BY ResetNextMoves DEF ResetBase, ResetCourse
<1>2. \A q \in Processes : Submitted(q) => Submitted(q)'
  BY <1>1 DEF ResetMoves, ResetAdvances
<1>3. ASSUME NEW CONSTANT c, c \in Known' PROVE Sound(c)'
  <2>1. CASE c \in Known
    BY <1>2, <2>1 DEF OperationsInv, Sound
  <2>2. CASE c = NoRef
    BY <2>2 DEF NoRef, Sound, OperationsOn
  <2>3. ASSUME NEW p \in Processes, Push(p), c = Fresh(p) PROVE Sound(c)'
    <3>1. Looping(p) /\ Submitted(p)
      BY <1>1, <2>3 DEF Push, CourseOf, Looping, Ended, Terminal
    <3>2. Sound(observed[p]) /\ p \notin OperationsOn(observed[p])
      BY <3>1 DEF OperationsInv, Known
    <3>3. /\ DOMAIN observed[p] = 1 .. Len(observed[p]) /\ Len(observed[p]) \in Nat
          /\ DOMAIN c = 1 .. Len(observed[p]) + 1
          /\ \A i \in 1 .. Len(observed[p]) : c[i] = observed[p][i]
          /\ c[Len(observed[p]) + 1].op = p
      BY <2>3, FreshEntries DEF ResetBase
    <3>4. \A i, j \in DOMAIN c : c[i].op = c[j].op => i = j
      <4>1. \A i \in DOMAIN observed[p] : observed[p][i].op # p
        BY <3>2 DEF OperationsOn
      <4>2. ASSUME NEW i \in DOMAIN c, NEW j \in DOMAIN c, c[i].op = c[j].op PROVE i = j
        <5>1. CASE i \in DOMAIN observed[p] /\ j \in DOMAIN observed[p]
          <6>1. c[i] = observed[p][i] /\ c[j] = observed[p][j]
            BY <3>3, <5>1
          <6> QED
            BY <3>2, <4>2, <5>1, <6>1 DEF Sound
        <5>2. CASE i \in DOMAIN observed[p] /\ j \notin DOMAIN observed[p]
          <6>1. c[i] = observed[p][i] /\ c[j].op = p
            BY <3>3, <5>2
          <6> QED
            BY <4>1, <4>2, <5>2, <6>1
        <5>3. CASE i \notin DOMAIN observed[p] /\ j \in DOMAIN observed[p]
          <6>1. c[j] = observed[p][j] /\ c[i].op = p
            BY <3>3, <5>3
          <6> QED
            BY <4>1, <4>2, <5>3, <6>1
        <5>4. CASE i \notin DOMAIN observed[p] /\ j \notin DOMAIN observed[p]
          BY <3>3, <5>4
        <5> QED
          BY <5>1, <5>2, <5>3, <5>4
      <4> QED
        BY <4>2
    <3>5. OperationsOn(c) \subseteq OperationsOn(observed[p]) \cup {p}
      BY <3>3 DEF OperationsOn
    <3>6. \A q \in Processes : q \in OperationsOn(c) => Submitted(q)
      BY <3>1, <3>2, <3>5 DEF Sound
    <3> QED
      BY <1>2, <3>4, <3>6 DEF Sound
  <2> QED
    BY <1>3, <2>1, <2>2, <2>3, KnownSteps
<1>4. ASSUME NEW q \in Processes, Looping(q)' PROVE q \notin OperationsOn(observed'[q])
  <2>1. CASE Looping(q) /\ observed'[q] = observed[q]
    BY <2>1 DEF OperationsInv
  <2>2. CASE pc[q] = "transition" /\ observed'[q] = fetched[q]
    <3>1. ~Submitted(q)
      BY <1>1, <2>2 DEF CourseOf, Ended, Terminal, Looping, Fetching
    <3> QED
      BY <2>2, <3>1 DEF OperationsInv, Known, Sound
  <2>3. CASE pc[q] = "bootstrap" /\ observed'[q] = observed[q]
    <3>1. observed[q] = NoRef
      BY <1>1, <2>3 DEF CourseOf, Ended, Terminal, Looping, Fetching
    <3> QED
      BY <2>3, <3>1 DEF NoRef, OperationsOn
  <2>4. CASE Retry(q) /\ observed'[q] = fetched[q]
    <3>1. Looping(q) /\ q \notin OperationsSince(observed[q], fetched[q])
      BY <2>4 DEF Retry, Looping
    <3>2. observed[q] \in Seq(Entry) /\ fetched[q] \in Seq(Entry)
      BY CommitFacts DEF ResetBase, ResetTypeOK
    <3> QED
      BY <2>4, <3>1, <3>2, SearchOverlooksNothing DEF OperationsInv
  <2> QED
    BY <1>1, <1>4, <2>1, <2>2, <2>3, <2>4 DEF ResetMoves, ResetArrives
<1>5. \A c \in Known' : Sound(c)'
  BY <1>3
<1> QED
  BY <1>4, <1>5 DEF OperationsInv

----------------------------------------------------------------------------
(* A ref that is never reset and bootstrapped once has one start.          *)

Lone == Running("reset") = {} /\ \A p, q \in Running("bootstrap") : p = q

Exists == Scenarios[scenario].exists

\* A history that starts with the commit of a bootstrap and has no other; the
\* commit made beforehand is on none unless the ref was there.
OneStart(c) ==
  /\ \A i \in DOMAIN c :
       c[i].op # Root => ((i = 1) <=> (intent[c[i].op].kind = "bootstrap"))
  /\ Root \in OperationsOn(c) => Exists

\* Where the ref was there, no bootstrap finds it absent.  Where it was not,
\* nobody has seen more of it than there is, and the one bootstrap alone is based
\* on its absence.
BirthOf(p) ==
  /\ intent[p].kind = "bootstrap" => ~Exists
  /\ Exists /\ pc[p] \in {"lineage", "stamp", "bootstrap"} => fetched[p] # NoRef
  /\ remote = NoRef => fetched[p] = NoRef /\ observed[p] = NoRef
  /\ Looping(p) => (intent[p].kind = "bootstrap" <=> observed[p] = NoRef)
  /\ Searching(p) /\ observed[p] # NoRef => fetched[p] # NoRef

BirthInv ==
  Lone =>
    /\ \A c \in Known : OneStart(c)
    /\ \A push \in wire : push.new # NoRef
    /\ Exists => remote # NoRef
    /\ \A p \in Processes : BirthOf(p)

\* Every step keeps it.
LEMMA BirthStep ==
  ASSUME ResetBase, OperationsInv, BirthInv, ResetNext
  PROVE  BirthInv'
<1>1. UNCHANGED scenario /\ (Lone' <=> Lone) /\ (Exists' <=> Exists)
  BY DEF ResetNext, Next, Lone, Exists, Running, CommandOf
<1> SUFFICES ASSUME Lone PROVE BirthInv'
  BY <1>1 DEF BirthInv
<1>2. /\ \A q \in Processes : ResetMoves(q) /\ CourseOf(q) /\ BirthOf(q)
      /\ \A q \in Processes : CommandOf[q].kind # "reset"
      /\ \A p, q \in Processes : CommandOf[p].kind = "bootstrap" /\ CommandOf[q].kind = "bootstrap"
                                   => p = q
      /\ \A c \in Known : OneStart(c) /\ Sound(c)
      /\ \A push \in wire : push.new # NoRef
      /\ Exists => remote # NoRef
      /\ Root \notin Processes
  BY ResetNextMoves, StoreAssumption
  DEF ResetBase, ResetCourse, BirthInv, OperationsInv, Lone, Running
<1>3. remote' = NoRef => remote = NoRef
  BY <1>2, ResetRemoteSteps DEF CourseOf, ResetLabels
<1>4. \A push \in wire' : push.new # NoRef
  <2>1. \A p \in Processes : ~DeleteUnheard(p)
    BY <1>2 DEF DeleteUnheard, CourseOf, ResetLabels
  <2>2. ASSUME NEW p \in Processes, Push(p) PROVE FreshPush(p).new # NoRef
    <3>1. Fresh(p) # NoRef
      BY <2>2, FreshEntries DEF ResetBase, NoRef
    <3> QED
      BY <3>1 DEF FreshPush
  <2> QED
    BY <1>2, <2>1, <2>2, ResetWireSteps
<1>5. ASSUME NEW CONSTANT c, c \in Known' PROVE OneStart(c)'
  <2>1. CASE c \in Known
    <3>1. c \in Seq(Entry) /\ \A i \in DOMAIN c : c[i] \in Entry
      BY <2>1, KnownType, CommitFacts DEF ResetBase
    <3>2. ASSUME NEW i \in DOMAIN c, c[i].op # Root
          PROVE  c[i].op \in Processes /\ intent'[c[i].op] = intent[c[i].op]
      <4>1. c[i].op \in Processes
        BY <3>1, <3>2 DEF Entry
      <4>2. Submitted(c[i].op)
        BY <1>2, <2>1, <4>1 DEF Sound, OperationsOn
      <4> QED
        BY <1>2, <4>1, <4>2 DEF ResetMoves, ResetAdvances
    <3> QED
      BY <1>1, <1>2, <2>1, <3>2 DEF OneStart
  <2>2. CASE c = NoRef
    BY <2>2 DEF NoRef, OneStart, OperationsOn
  <2>3. ASSUME NEW p \in Processes, Push(p), c = Fresh(p) PROVE OneStart(c)'
    <3>1. /\ Looping(p) /\ UNCHANGED intent
      BY <2>3 DEF Push, Looping
    <3>2. OneStart(observed[p]) /\ (intent[p].kind = "bootstrap" <=> observed[p] = NoRef)
      BY <1>2, <3>1 DEF BirthOf, Known
    <3>3. /\ DOMAIN observed[p] = 1 .. Len(observed[p]) /\ Len(observed[p]) \in Nat
          /\ DOMAIN c = 1 .. Len(observed[p]) + 1
          /\ \A i \in 1 .. Len(observed[p]) : c[i] = observed[p][i]
          /\ c[Len(observed[p]) + 1].op = p
      BY <2>3, FreshEntries DEF ResetBase
    <3>4. observed[p] = NoRef <=> Len(observed[p]) = 0
      BY CommitFacts DEF ResetBase, ResetTypeOK
    <3>5. ASSUME NEW i \in DOMAIN c, c[i].op # Root
          PROVE  (i = 1) <=> (intent[c[i].op].kind = "bootstrap")
      BY <3>2, <3>3, <3>4, <3>5 DEF OneStart
    <3>6. Root \in OperationsOn(c) => Exists
      BY <1>2, <3>2, <3>3 DEF OneStart, OperationsOn
    <3> QED
      BY <1>1, <3>1, <3>5, <3>6 DEF OneStart
  <2> QED
    BY <1>5, <2>1, <2>2, <2>3, KnownSteps
<1>6. ASSUME NEW q \in Processes PROVE BirthOf(q)'
  <2>1. intent'[q].kind = "bootstrap" => ~Exists
    BY <1>2 DEF ResetMoves, ResetAdvances, BirthOf
  <2>2. Exists /\ pc'[q] \in {"lineage", "stamp", "bootstrap"} => fetched'[q] # NoRef
    BY <1>2 DEF ResetMoves, ResetArrives, BirthOf, ReadTip, ResetBase, ResetTypeOK
  <2>3. remote' = NoRef => fetched'[q] = NoRef /\ observed'[q] = NoRef
    BY <1>2, <1>3 DEF ResetMoves, ResetAdvances, BirthOf
  <2>4. ASSUME Looping(q)' PROVE intent'[q].kind = "bootstrap" <=> observed'[q] = NoRef
    <3>1. CASE Looping(q) /\ observed'[q] = observed[q] /\ intent'[q] = intent[q]
      BY <1>2, <3>1 DEF BirthOf
    <3>2. CASE pc[q] = "transition" /\ observed'[q] = fetched[q] /\ fetched[q] # NoRef
               /\ intent'[q] = intent[q]
      <4>1. ~Submitted(q)
        BY <1>2, <3>2 DEF CourseOf, Ended, Terminal, Looping, Fetching
      <4> QED
        BY <1>2, <3>2, <4>1 DEF CourseOf
    <3>3. CASE pc[q] = "bootstrap" /\ observed'[q] = observed[q] /\ intent'[q].kind = "bootstrap"
      BY <1>2, <3>3 DEF CourseOf, Ended, Terminal, Looping, Fetching
    <3>4. CASE Retry(q) /\ observed'[q] = fetched[q] /\ intent'[q] = intent[q]
      <4>1. /\ pc[q] = "search" /\ q \notin OperationsSince(observed[q], fetched[q])
            /\ Looping(q) /\ Searching(q)
        BY <3>4 DEF Retry, Looping, Searching
      <4>2. CASE observed[q] # NoRef
        BY <1>2, <3>4, <4>1, <4>2 DEF BirthOf
      <4>3. CASE observed[q] = NoRef
        <5>1. intent[q].kind = "bootstrap" /\ ~Exists
          BY <1>2, <4>1, <4>3 DEF BirthOf
        <5>2. ASSUME fetched[q] # NoRef PROVE FALSE
          <6> DEFINE first == fetched[q][1].op
          <6>1. /\ fetched[q] \in Seq(Entry) /\ fetched[q][1] \in Entry
                /\ 1 \in DOMAIN fetched[q]
            BY <5>2, CommitFacts DEF ResetBase, ResetTypeOK
          <6>2. OneStart(fetched[q]) /\ first \in OperationsOn(fetched[q])
            BY <1>2, <6>1 DEF Known, OperationsOn
          <6>3. first \in Processes /\ intent[first].kind = "bootstrap"
            BY <5>1, <6>1, <6>2 DEF OneStart, Entry
          <6>4. first = q
            BY <1>2, <5>1, <6>3 DEF CourseOf
          <6>5. q \in OperationsOn(observed[q])
            BY <4>1, <6>1, <6>2, <6>4, SearchOverlooksNothing, CommitFacts
            DEF ResetBase, ResetTypeOK
          <6> QED
            BY <4>3, <6>5 DEF OperationsOn, NoRef
        <5> QED
          BY <3>4, <5>1, <5>2
      <4> QED
        BY <4>2, <4>3
    <3> QED
      BY <1>2, <2>4, <3>1, <3>2, <3>3, <3>4 DEF ResetMoves, ResetArrives
  <2>5. ASSUME Searching(q)', observed'[q] # NoRef PROVE fetched'[q] # NoRef
    BY <1>2, <2>5 DEF ResetMoves, ResetArrives, BirthOf, ReadTip, ResetBase, ResetTypeOK
  <2> QED
    BY <1>1, <2>1, <2>2, <2>3, <2>4, <2>5 DEF BirthOf
<1>7. \A c \in Known' : OneStart(c)'
  BY <1>5
<1> QED
  BY <1>1, <1>2, <1>3, <1>4, <1>6, <1>7 DEF BirthInv

\* The initial states have both.
LEMMA StartInit ==
  ASSUME ResetInit
  PROVE  OperationsInv /\ BirthInv
<1>1. \A c \in Known : c = NoRef \/ (c = RootCommit /\ Exists)
  BY DEF ResetInit, Known, Exists
<1>2. Sound(NoRef) /\ OneStart(NoRef)
  BY DEF Sound, OneStart, OperationsOn, NoRef
<1>3. Sound(RootCommit)
  BY RootCommitFacts, StoreAssumption DEF Sound, OperationsOn
<1>4. Exists => OneStart(RootCommit)
  BY RootCommitFacts DEF OneStart, OperationsOn
<1>5. Exists => remote # NoRef
  BY RootCommitFacts DEF ResetInit, Exists
<1>6. \A p \in Processes : ~Looping(p) /\ BirthOf(p)
  BY DEF ResetInit, BirthOf, Looping, Searching, Fetching, FirstRead
<1>7. wire = {}
  BY DEF ResetInit
<1> QED
  BY <1>1, <1>2, <1>3, <1>4, <1>5, <1>6, <1>7 DEF OperationsInv, BirthInv

\* The inductive invariant: what is known is sound, and starts as it should.
StartInv == ResetBase /\ OperationsInv /\ BirthInv

\* Every step keeps it, stuttering included.
LEMMA StartNext ==
  ASSUME StartInv, [ResetNext]_<<resetVars, scenario>>
  PROVE  StartInv'
<1>1. CASE ResetNext
  BY <1>1, ResetBaseNext, OperationsStep, BirthStep DEF StartInv
<1>2. CASE UNCHANGED <<resetVars, scenario>>
  <2> USE <1>2 DEF resetVars, vars
  <2>1. ResetBase'
    BY ResetBaseNext DEF StartInv
  <2>2. OperationsInv'
    BY DEF StartInv, OperationsInv, Known, Sound, Submitted, Looping, Fetching
  <2>3. BirthInv'
    BY DEF StartInv, BirthInv, Known, OneStart, BirthOf, Lone, Exists, Running, CommandOf, Looping,
           Searching, Fetching
  <2> QED
    BY <2>1, <2>2, <2>3 DEF StartInv
<1> QED
  BY <1>1, <1>2

\* Whatever is bootstrapped, reset and deleted in between, no operation is on the
\* ref twice; and where nothing is reset and one bootstrap runs, its commit, or
\* the one made beforehand, is the one start of the history: no other command
\* creates the ref, and no retry of the bootstrap adds a second empty tree.
THEOREM ResetHistoryHasOneStart == ResetSpec => []HistoryHasOneStart
<1>1. ASSUME StartInv PROVE HistoryHasOneStart
  <2>1. Sound(remote) /\ (Lone => OneStart(remote))
    BY <1>1 DEF StartInv, OperationsInv, BirthInv, Known
  <2>2. AppliedAtMostOnce
    BY <2>1 DEF Sound, AppliedAtMostOnce
  <2>3. LoneBootstrapCreatesRef
    BY <2>1 DEF OneStart, LoneBootstrapCreatesRef, Lone
  <2> QED
    BY <1>1, <2>2, <2>3 DEF StartInv, ResetBase, HistoryHasOneStart
<1>2. ResetInit => StartInv
  BY ResetBaseInit, StartInit DEF StartInv
<1> QED
  BY <1>1, <1>2, StartNext, PTL DEF ResetSpec

----------------------------------------------------------------------------
(* Reset leaves its repository able to fetch.                              *)

\* Beside the one reset of a scenario the commands in its repository run before
\* it or after it; those of the other repositories run when they like.
ResetApart ==
  \A name \in DOMAIN Scenarios : \A r, q \in Processes :
    LET s == Scenarios[name] IN
    s.command[r].kind = "reset" /\ q # r =>
      /\ s.command[q].kind # "reset"
      /\ RepositoryOf[s.worktree[q]] = RepositoryOf[s.worktree[r]] =>
           r \in s.after[q] \/ q \in s.after[r]

SameRepository(q, r) == RepositoryOf[WorktreeOf[q]] = RepositoryOf[WorktreeOf[r]]

NotStarted == {"read", "peek", "none", "crashed"}

\* Past its first read or peek a process has outlasted those it waits for.
WaitInv == \A q \in Processes : pc[q] \notin NotStarted => \A o \in After[q] : Ended(o)

\* A reset is past its deletion and its stamps, and has not failed.
Rebuilding(r) == pc[r] \notin ResetLabels \cup (Terminal \ {"done"})

\* A reset that goes on leaves no deletion behind; one that asks the server after
\* a failed deletion finds the ref absent only when that deletion is no longer
\* on its way.
DeletionOf(r) ==
  /\ pc[r] \in {"peek", "delete", "clear", "clearing"} \/ Rebuilding(r) =>
       \A push \in wire : push.new # NoRef
  /\ pc[r] = "delete" => remote # NoRef
  /\ pc[r] = "reprobe" =>
       \A push \in wire : push.new = NoRef => remote # NoRef /\ push = Deletion(r)

\* The stamps it has not deleted yet are those it still has on its list.
ClearingOf(r) ==
  pc[r] = "clearing" =>
    \A w \in Worktrees :
      RepositoryOf[w] = RepositoryOf[WorktreeOf[r]] => w \in toClear[r] \/ stamp[w] = NoRef

\* Whatever is stamped, read or landed in the repository is an ancestor of the
\* ref, and no stamp is ahead of what is checked against it.
RebuiltBy(r) ==
  /\ \A w \in Worktrees :
       RepositoryOf[w] = RepositoryOf[WorktreeOf[r]] => IsPrefix(stamp[w], remote)
  /\ \A q \in Processes : SameRepository(q, r) =>
       /\ pc[q] \in {"lineage", "stamp"} => IsPrefix(fetched[q], remote)
       /\ pc[q] = "lineage" => IsPrefix(stamp[WorktreeOf[q]], fetched[q])
       /\ pc[q] = "landed" => IsPrefix(pending[q], remote)

\* A later command fails its check only when the reset failed.
NoBreakAfter(r) ==
  \A q \in Processes :
    SameRepository(q, r) /\ r \in After[q] /\ pc[q] = "lineage_error" =>
      Ended(r) /\ pc[r] # "done"

ResetLineageInv ==
  /\ WaitInv
  /\ \A r \in Running("reset") :
       /\ DeletionOf(r)
       /\ ClearingOf(r)
       /\ Rebuilding(r) => RebuiltBy(r)
       /\ NoBreakAfter(r)

\* How a process comes to be where it reads and checks, and a reset to be where
\* it is.
ResetReads(q) ==
  /\ pc'[q] \notin NotStarted => pc[q] \notin NotStarted \/ ReadTip(q) \/ PeekForReset(q)
  /\ pc'[q] = "lineage" => (pc[q] = "lineage" /\ fetched'[q] = fetched[q]) \/ ReadTip(q)
  /\ pc'[q] = "stamp" => pc[q] \in {"lineage", "stamp"} /\ fetched'[q] = fetched[q]
  /\ pc'[q] = "lineage_error" => \/ pc[q] = "lineage_error"
                                 \/ /\ pc[q] = "lineage"
                                    /\ ~IsPrefix(stamp[WorktreeOf[q]], fetched[q])

ResetPhases(q) ==
  /\ pc'[q] = "peek" => pc[q] = "peek"
  /\ pc'[q] = "delete" => pc[q] = "delete" \/ (pc[q] = "peek" /\ remote # NoRef /\ UNCHANGED remote)
  /\ pc'[q] = "reprobe" => \/ pc[q] = "reprobe" /\ observed'[q] = observed[q]
                           \/ pc[q] = "delete" /\ DeleteRemote(q)
                           \/ pc[q] = "delete" /\ DeleteUnheard(q)
  /\ pc'[q] = "clear" => pc[q] \in {"peek", "delete", "clear"} \/ (pc[q] = "reprobe" /\ remote = NoRef)
  /\ pc'[q] = "clearing" => \/ pc[q] = "clear" /\ ClearLineageStamps(q)
                            \/ pc[q] = "clearing" /\ (toClear'[q] = toClear[q] \/ ClearStamp(q))
  /\ Rebuilding(q)' => Rebuilding(q) \/ (ClearStamp(q) /\ toClear[q] = {})

\* Whatever step is taken.
LEMMA ResetNextReads ==
  ASSUME ResetTypeOK, ResetCourse, ResetNext
  PROVE  \A q \in Processes : ResetReads(q) /\ ResetPhases(q)
<1> USE DEF ResetReads, ResetPhases, NotStarted, Rebuilding, Terminal, ResetLabels, Goto, Exit, Fetch
<1>1. ASSUME NEW q \in Processes, Still(q), toClear'[q] = toClear[q]
      PROVE  ResetReads(q) /\ ResetPhases(q)
  BY <1>1 DEF Still
<1>2. pc \in [Processes -> Labels \cup ResetLabels \cup {"bootstrap"}]
  BY DEF ResetTypeOK
<1>3. ASSUME NEW p \in Processes, FetchStep(p), UNCHANGED toClear PROVE ResetReads(p) /\ ResetPhases(p)
  <2>1. purpose[p] \in Purposes \cup {"bootstrap"}
    BY DEF ResetTypeOK
  <2> QED
    BY <1>2, <1>3, <2>1 DEF FetchStep, ReadTip, CheckLineage, WriteStamp, Purposes, ResetTypeOK
<1>4. ASSUME NEW p \in Processes, CommandStep(p), UNCHANGED toClear PROVE ResetReads(p) /\ ResetPhases(p)
  <2>1. /\ pc[p] \in {"items", "observe"}
        /\ \/ (Exit(p, "refused") \/ Exit(p, "done")) /\ UNCHANGED <<intent, purpose>>
           \/ Fetch(p, "observe") /\ UNCHANGED <<fetched, observed, pending, intent>>
           \/ \E built \in AnyIntent : Submit(p, built)
    BY <1>4, CommandStepBuilds DEF ResetTypeOK
  <2>2. pc[p] \in {"items", "observe"} /\ pc'[p] \in {"refused", "done", "read"}
    BY <1>2, <2>1 DEF Submit
  <2> QED
    BY <2>2
<1>5. ASSUME NEW p \in Processes, TransitionStep(p), UNCHANGED toClear PROVE ResetReads(p) /\ ResetPhases(p)
  <2>1. /\ pc[p] \in {"transition", "apply", "search", "landed"}
        /\ pc'[p] \in {"refused", "apply", "sent", "read", "done", "exhausted"}
    BY <1>2, <1>5 DEF TransitionStep, BeginTransition, Push, RefuseIntent, FoundOwnOperation, Retry,
                      Landed
  <2> QED
    BY <2>1
<1>6. ASSUME NEW p \in Processes, ResetStep(p) PROVE ResetReads(p) /\ ResetPhases(p)
  <2> USE <1>2
  <2>1. CASE BeginBootstrap(p)
    BY <2>1 DEF BeginBootstrap
  <2>2. CASE PeekForReset(p)
    BY <2>2 DEF PeekForReset
  <2>3. CASE DeleteRemote(p)
    BY <2>3 DEF DeleteRemote
  <2>4. CASE DeleteUnheard(p)
    BY <2>4 DEF DeleteUnheard
  <2>5. CASE RepairAfterFailedDelete(p)
    BY <2>5 DEF RepairAfterFailedDelete
  <2>6. CASE ClearLineageStamps(p)
    BY <2>6 DEF ClearLineageStamps
  <2>7. CASE ClearStamp(p)
    BY <2>7 DEF ClearStamp
  <2> QED
    BY <1>6, <2>1, <2>2, <2>3, <2>4, <2>5, <2>6, <2>7 DEF ResetStep
<1>7. ASSUME NEW p \in Processes, ResetStep(p) PROVE \A q \in Processes \ {p} : toClear'[q] = toClear[q]
  BY <1>7 DEF ResetTypeOK, ResetStep, BeginBootstrap, PeekForReset, DeleteRemote, DeleteUnheard,
              RepairAfterFailedDelete, ClearLineageStamps, ClearStamp
<1>8. ASSUME NEW p \in Processes, LoseConnection(p) \/ Crash(p), UNCHANGED toClear
      PROVE  ResetReads(p) /\ ResetPhases(p)
  BY <1>2, <1>8 DEF LoseConnection, Crash
<1>9. ASSUME NEW push \in wire,
             AcceptPush(push) \/ AcceptLatePush(push) \/ RejectPush(push) \/ RefusePush(push),
             UNCHANGED toClear, NEW q \in Processes
      PROVE  ResetReads(q) /\ ResetPhases(q)
  <2>1. pc'[q] = pc[q] \/ (pc[q] = "sent" /\ pc'[q] \in {"landed", "read"})
    BY <1>2, <1>9 DEF AcceptPush, AcceptLatePush, RejectPush, RefusePush, Awaited
  <2>2. UNCHANGED <<fetched, observed>>
    BY <1>9 DEF AcceptPush, AcceptLatePush, RejectPush, RefusePush
  <2> QED
    BY <1>9, <2>1, <2>2
<1>10. ASSUME NEW p \in Processes,
              \/ FetchStep(p) \/ CommandStep(p) \/ TransitionStep(p)
              \/ LoseConnection(p) \/ Crash(p)
              \/ ResetStep(p),
              UNCHANGED toClear \/ ResetStep(p)
       PROVE  \A q \in Processes : ResetReads(q) /\ ResetPhases(q)
  <2>1. \A q \in Processes \ {p} : Still(q) /\ toClear'[q] = toClear[q]
    BY <1>7, <1>10, ResetOthersStill
  <2>2. ResetReads(p) /\ ResetPhases(p)
    BY <1>3, <1>4, <1>5, <1>6, <1>8, <1>10
  <2> HIDE DEF ResetReads, ResetPhases
  <2> QED
    BY <1>1, <2>1, <2>2
<1> HIDE DEF ResetReads, ResetPhases
<1> QED
  BY <1>9, <1>10 DEF ResetNext, Next, ServerStep, FaultStep

\* What the lemmas below share: nobody else resets, nor works in the repository
\* while a reset is at work; the commands are those of the scenario throughout.
LEMMA ResetAlone ==
  ASSUME ResetApart, ResetBase, ResetLineageInv, NEW r \in Running("reset")
  PROVE  /\ r \in Processes /\ CommandOf[r].kind = "reset"
         /\ \A q \in Processes \ {r} : CommandOf[q].kind # "reset" /\ pc[q] \notin ResetLabels
         /\ \A q \in Processes \ {r} :
              SameRepository(q, r) => pc[r] \in NotStarted \/ Ended(q) \/ r \in After[q]
         /\ \A q \in Processes \ {r} :
              SameRepository(q, r) /\ ~Ended(r) /\ pc[r] \notin NotStarted =>
                pc[q] \in NotStarted \/ Ended(q)
<1>1. r \in Processes /\ CommandOf[r].kind = "reset" /\ scenario \in DOMAIN Scenarios
  BY DEF Running, ResetBase, ResetTypeOK
<1>2. ASSUME NEW q \in Processes \ {r}
      PROVE  /\ CommandOf[q].kind # "reset"
             /\ SameRepository(q, r) => r \in After[q] \/ q \in After[r]
  BY <1>1 DEF ResetApart, CommandOf, After, WorktreeOf, SameRepository
<1>3. ASSUME NEW q \in Processes \ {r} PROVE pc[q] \notin ResetLabels
  BY <1>2 DEF ResetBase, ResetCourse, CourseOf
<1>4. ASSUME NEW q \in Processes \ {r}, SameRepository(q, r)
      PROVE  /\ pc[r] \in NotStarted \/ Ended(q) \/ r \in After[q]
             /\ ~Ended(r) /\ pc[r] \notin NotStarted => pc[q] \in NotStarted \/ Ended(q)
  BY <1>1, <1>2, <1>4 DEF ResetLineageInv, WaitInv
<1> QED
  BY <1>1, <1>2, <1>3, <1>4

\* A process goes past its start only when those it waits for have ended.
LEMMA WaitStep ==
  ASSUME ResetBase, WaitInv, ResetNext
  PROVE  WaitInv'
<1>1. \A q \in Processes : ResetMoves(q) /\ ResetReads(q) /\ After[q] \subseteq Processes
  BY ResetNextMoves, ResetNextReads, ResetCommandType DEF ResetBase
<1>2. After' = After
  BY DEF ResetNext, Next, After
<1>3. ASSUME NEW CONSTANT q, q \in Processes, pc'[q] \notin NotStarted, NEW CONSTANT o, o \in After[q]
      PROVE  Ended(o)'
  <2>1. Ended(o)
    BY <1>1, <1>3 DEF ResetReads, WaitInv, ReadTip, PeekForReset, Ended
  <2> QED
    BY <1>1, <1>3, <2>1 DEF ResetMoves, ResetAdvances, Ended
<1> QED
  BY <1>2, <1>3 DEF WaitInv

\* The ref is deleted by the reset or by the deletion it left on its way.
LEMMA DeletionStep ==
  ASSUME ResetApart, ResetBase, ResetLineageInv, ResetNext, NEW r \in Running("reset")
  PROVE  DeletionOf(r)'
<1>1. /\ r \in Processes
      /\ \A q \in Processes \ {r} : pc[q] \notin ResetLabels
      /\ DeletionOf(r) /\ ResetPhases(r)
      /\ \A p \in Processes : Push(p) => FreshPush(p).new # NoRef
  <2>1. ASSUME NEW p \in Processes, Push(p) PROVE FreshPush(p).new # NoRef
    <3>1. Fresh(p) # NoRef
      BY <2>1, FreshEntries DEF ResetBase, NoRef
    <3> QED
      BY <3>1 DEF FreshPush
  <2> QED
    BY <2>1, ResetAlone, ResetNextReads DEF ResetBase, ResetLineageInv
<1>2. ASSUME NEW push \in wire', push.new = NoRef
      PROVE  \/ push \in wire
             \/ DeleteUnheard(r) /\ UNCHANGED remote /\ push = Deletion(r)
  BY <1>1, <1>2, ResetWireSteps DEF DeleteUnheard, ResetLabels
<1>3. ASSUME remote # NoRef, remote' = NoRef
      PROVE  \/ pc[r] = "delete"
             \/ \E push \in wire : push.new = NoRef /\ wire' = wire \ {push}
  BY <1>1, <1>3, ResetRemoteSteps DEF ResetLabels
<1>4. DeleteRemote(r) => UNCHANGED wire /\ pc[r] = "delete"
  BY DEF DeleteRemote
<1>5. DeleteUnheard(r) => pc'[r] = "reprobe" /\ pc[r] = "delete" /\ UNCHANGED observed
  BY <1>1 DEF DeleteUnheard, Goto, ResetBase, ResetTypeOK
<1>6. ASSUME pc'[r] \in {"peek", "delete", "clear", "clearing"} \/ Rebuilding(r)'
      PROVE  \A push \in wire' : push.new # NoRef
  <2>1. \/ pc[r] \in {"peek", "delete", "clear", "clearing"} \/ Rebuilding(r)
        \/ pc[r] = "reprobe" /\ remote = NoRef
    BY <1>1, <1>6 DEF ResetPhases, ClearLineageStamps, ClearStamp
  <2>2. \A push \in wire : push.new # NoRef
    BY <1>1, <2>1 DEF DeletionOf
  <2>3. ~DeleteUnheard(r)
    BY <1>5, <1>6 DEF Rebuilding, ResetLabels
  <2> QED
    BY <1>2, <2>2, <2>3
<1>7. ASSUME pc'[r] = "delete" PROVE remote' # NoRef
  <2>1. CASE pc[r] = "peek" /\ remote # NoRef /\ UNCHANGED remote
    BY <2>1
  <2>2. CASE pc[r] = "delete"
    <3>1. remote # NoRef /\ \A push \in wire : push.new # NoRef
      BY <1>1, <2>2 DEF DeletionOf
    <3>2. ~DeleteRemote(r) /\ ~DeleteUnheard(r)
      BY <1>1, <1>7 DEF DeleteRemote, DeleteUnheard, Goto, ResetBase, ResetTypeOK
    <3> QED
      BY <1>1, <3>1, <3>2, ResetRemoteSteps DEF ResetLabels
  <2> QED
    BY <1>1, <1>7, <2>1, <2>2 DEF ResetPhases
<1>8. ASSUME pc'[r] = "reprobe", NEW push \in wire', push.new = NoRef
      PROVE  remote' # NoRef /\ push = Deletion(r)'
  <2>1. CASE pc[r] = "reprobe" /\ observed'[r] = observed[r]
    <3>1. push \in wire /\ push = Deletion(r) /\ remote # NoRef
      BY <1>1, <1>2, <1>5, <1>8, <2>1 DEF DeletionOf
    <3>2. \A m \in wire : m.new = NoRef => m = push
      BY <1>1, <2>1, <3>1 DEF DeletionOf
    <3>3. remote' # NoRef
      BY <1>3, <1>8, <2>1, <3>1, <3>2
    <3> QED
      BY <2>1, <3>1, <3>3 DEF Deletion
  <2>2. CASE pc[r] = "delete" /\ DeleteRemote(r)
    BY <1>1, <1>4, <1>8, <2>2 DEF DeletionOf
  <2>3. CASE pc[r] = "delete" /\ DeleteUnheard(r)
    <3>1. remote # NoRef /\ push \notin wire
      BY <1>1, <1>8, <2>3 DEF DeletionOf
    <3> QED
      BY <1>2, <1>5, <1>8, <2>3, <3>1 DEF Deletion
  <2> QED
    BY <1>1, <1>8, <2>1, <2>2, <2>3 DEF ResetPhases
<1> QED
  BY <1>6, <1>7, <1>8 DEF DeletionOf

\* Nobody stamps a worktree of the repository while its stamps are deleted.
LEMMA ClearingStep ==
  ASSUME ResetApart, ResetBase, ResetLineageInv, ResetNext, NEW r \in Running("reset")
  PROVE  ClearingOf(r)'
<1>1. /\ r \in Processes
      /\ \A q \in Processes \ {r} : pc[q] \notin ResetLabels
      /\ ClearingOf(r) /\ ResetPhases(r)
      /\ WorktreeOf' = WorktreeOf
  BY ResetAlone, ResetNextReads DEF ResetBase, ResetLineageInv, ResetNext, Next, WorktreeOf
<1> SUFFICES ASSUME pc'[r] = "clearing", NEW CONSTANT w, w \in Worktrees,
                    RepositoryOf[w] = RepositoryOf[WorktreeOf[r]]
             PROVE  w \in toClear'[r] \/ stamp'[w] = NoRef
  BY <1>1 DEF ClearingOf
<1>2. CASE pc[r] = "clear" /\ ClearLineageStamps(r)
  BY <1>1, <1>2 DEF ClearLineageStamps, ResetBase, ResetTypeOK
<1>3. CASE pc[r] = "clearing" /\ (toClear'[r] = toClear[r] \/ ClearStamp(r))
  <2>1. w \in toClear[r] \/ stamp[w] = NoRef
    BY <1>1, <1>3 DEF ClearingOf
  <2>2. CASE ClearStamp(r)
    BY <1>1, <2>1, <2>2 DEF ClearStamp, ResetBase, ResetTypeOK, Fetch, Goto
  <2>3. CASE toClear'[r] = toClear[r] /\ ~ClearStamp(r)
    <3>1. ASSUME NEW q \in Processes, WriteStamp(q) \/ Landed(q) \/ ClearStamp(q)
          PROVE  stamp'[w] = stamp[w]
      <4>1. q # r /\ pc[q] \in {"stamp", "landed"}
        BY <1>1, <1>3, <2>3, <3>1 DEF WriteStamp, Landed, ClearStamp, ResetLabels
      <4>2. ~SameRepository(q, r)
        BY <1>3, <4>1, ResetAlone DEF Ended, Terminal, NotStarted
      <4>3. WorktreeOf[q] # w
        BY <4>2 DEF SameRepository
      <4>4. \E c : stamp' = [stamp EXCEPT ![WorktreeOf[q]] = c]
        BY <3>1, <4>1 DEF WriteStamp, Landed, ClearStamp
      <4> QED
        BY <4>3, <4>4 DEF ResetBase, ResetTypeOK
    <3>2. stamp'[w] = stamp[w]
      BY <3>1, ResetStampSteps
    <3> QED
      BY <2>1, <2>3, <3>2
  <2> QED
    BY <1>3, <2>2, <2>3
<1> QED
  BY <1>1, <1>2, <1>3 DEF ResetPhases

\* Behind the reset the ref only grows.
LEMMA RebuiltGrows ==
  ASSUME ResetApart, ResetBase, ResetLineageInv, ResetNext, NEW r \in Running("reset"), Rebuilding(r)
  PROVE  \A c \in Commit : IsPrefix(c, remote) => IsPrefix(c, remote')
<1>1. /\ r \in Processes
      /\ \A q \in Processes : pc[q] \notin ResetLabels
      /\ \A push \in wire : push.new # NoRef
      /\ remote \in Commit /\ remote' \in Commit
  <2>1. ResetTypeOK'
    BY ResetBaseNext DEF ResetBase
  <2> QED
    BY <2>1, ResetAlone DEF ResetLineageInv, DeletionOf, Rebuilding, ResetBase, ResetTypeOK
<1>2. remote # NoRef => remote' # NoRef
  BY <1>1, ResetRemoteSteps DEF ResetLabels
<1>3. IsPrefix(remote, remote')
  <2>1. CASE remote = NoRef
    BY <1>1, <2>1, CommitFacts, PrefixOrder DEF NoRef
  <2>2. CASE remote # NoRef
    BY <1>2, <2>2, ResetRemoteMoves
  <2> QED
    BY <2>1, <2>2
<1>4. \A c \in Commit : c \in Seq(Entry)
  BY CommitFacts
<1> QED
  BY <1>1, <1>3, <1>4, PrefixOrder

\* Whatever is stamped, read or landed behind the reset descends from what is
\* checked against it.
LEMMA RebuiltStep ==
  ASSUME ResetApart, SeparateWorktrees, ResetBase, ResetLineageInv, ResetNext,
         NEW r \in Running("reset"), Rebuilding(r)
  PROVE  RebuiltBy(r)'
<1>1. /\ r \in Processes /\ RebuiltBy(r) /\ WaitInv
      /\ \A q \in Processes : /\ pc[q] \notin ResetLabels
                              /\ ResetMoves(q) /\ ResetReads(q)
                              /\ WorktreeOf[q] \in Worktrees
                              /\ fetched[q] \in Commit /\ pending[q] \in Commit
      /\ stamp \in [Worktrees -> Commit]
  BY ResetAlone, ResetNextMoves, ResetNextReads, ResetCommandType
  DEF ResetLineageInv, ResetBase, ResetTypeOK, Rebuilding
<1>2. WorktreeOf' = WorktreeOf
  BY DEF ResetNext, Next, WorktreeOf
<1>3. \A c \in Commit : IsPrefix(c, remote) => IsPrefix(c, remote')
  BY RebuiltGrows
<1>4. IsPrefix(remote, remote')
  BY <1>3, CommitFacts, PrefixOrder DEF ResetBase, ResetTypeOK
<1>5. ASSUME NEW w \in Worktrees, stamp'[w] # stamp[w]
      PROVE  \E q \in Processes : /\ w = WorktreeOf[q]
                                  /\ \/ pc[q] = "stamp" /\ stamp'[w] = fetched[q]
                                     \/ pc[q] = "landed" /\ stamp'[w] = pending[q]
                                  /\ pc'[q] # "lineage"
  <2>1. PICK q \in Processes : WriteStamp(q) \/ Landed(q)
    BY <1>1, <1>5, ResetStampSteps DEF ClearStamp, ResetLabels
  <2>2. purpose[q] # "lineage"
    BY DEF ResetBase, ResetTypeOK, Purposes
  <2> QED
    BY <1>1, <1>5, <2>1, <2>2 DEF WriteStamp, Landed, Goto, Exit, ResetBase, ResetTypeOK
<1>6. ASSUME NEW w \in Worktrees, RepositoryOf[w] = RepositoryOf[WorktreeOf[r]]
      PROVE  IsPrefix(stamp'[w], remote')
  <2>1. CASE stamp'[w] = stamp[w]
    BY <1>1, <1>3, <1>6, <2>1 DEF RebuiltBy
  <2>2. CASE stamp'[w] # stamp[w]
    <3>1. PICK q \in Processes : /\ w = WorktreeOf[q]
                                 /\ \/ pc[q] = "stamp" /\ stamp'[w] = fetched[q]
                                    \/ pc[q] = "landed" /\ stamp'[w] = pending[q]
      BY <1>5, <2>2
    <3>2. SameRepository(q, r)
      BY <1>6, <3>1 DEF SameRepository
    <3> QED
      BY <1>1, <1>3, <3>1, <3>2 DEF RebuiltBy
  <2> QED
    BY <2>1, <2>2
<1>7. ASSUME NEW q \in Processes, SameRepository(q, r), pc'[q] \in {"lineage", "stamp"}
      PROVE  IsPrefix(fetched'[q], remote')
  <2>1. CASE ReadTip(q)
    BY <1>4, <2>1 DEF ReadTip, ResetBase, ResetTypeOK
  <2>2. CASE pc[q] \in {"lineage", "stamp"} /\ fetched'[q] = fetched[q]
    BY <1>1, <1>3, <1>7, <2>2 DEF RebuiltBy
  <2> QED
    BY <1>1, <1>7, <2>1, <2>2 DEF ResetReads
<1>8. ASSUME NEW q \in Processes, SameRepository(q, r), pc'[q] = "lineage"
      PROVE  IsPrefix(stamp'[WorktreeOf[q]], fetched'[q])
  <2>1. CASE ReadTip(q)
    <3>1. fetched'[q] = remote /\ UNCHANGED stamp
      BY <2>1 DEF ReadTip, ResetBase, ResetTypeOK
    <3> QED
      BY <1>1, <1>8, <3>1 DEF RebuiltBy, SameRepository
  <2>2. CASE pc[q] = "lineage" /\ fetched'[q] = fetched[q]
    <3>1. stamp'[WorktreeOf[q]] = stamp[WorktreeOf[q]]
      <4>1. SUFFICES ASSUME stamp'[WorktreeOf[q]] # stamp[WorktreeOf[q]] PROVE FALSE
        OBVIOUS
      <4>2. PICK o \in Processes : /\ WorktreeOf[o] = WorktreeOf[q]
                                   /\ pc[o] \in {"stamp", "landed"} /\ o # q
        BY <1>1, <1>5, <1>8, <4>1
      <4>3. o \in After[q] \/ q \in After[o]
        BY <4>2 DEF SeparateWorktrees, After, WorktreeOf, ResetBase, ResetTypeOK
      <4>4. Ended(o) \/ Ended(q)
        BY <1>1, <2>2, <4>2, <4>3 DEF WaitInv, NotStarted
      <4> QED
        BY <2>2, <4>2, <4>4 DEF Ended, Terminal
    <3> QED
      BY <1>1, <1>8, <2>2, <3>1 DEF RebuiltBy
  <2> QED
    BY <1>1, <1>8, <2>1, <2>2 DEF ResetReads
<1>9. ASSUME NEW q \in Processes, SameRepository(q, r), pc'[q] = "landed"
      PROVE  IsPrefix(pending'[q], remote')
  <2>1. CASE Still(q)
    BY <1>1, <1>3, <1>9, <2>1 DEF RebuiltBy, Still
  <2>2. ASSUME NEW push \in wire, push.op = q, AcceptPush(push)
        PROVE  IsPrefix(pending'[q], remote')
    <3>1. push.new = pending[q] /\ remote' = push.new /\ UNCHANGED pending
      BY <2>2 DEF AcceptPush, ResetBase, ResetWire
    <3>2. pending[q] \in Seq(Entry)
      BY <1>1, CommitFacts
    <3> QED
      BY <3>1, <3>2, PrefixOrder
  <2> QED
    BY <1>1, <1>9, <2>1, <2>2 DEF ResetMoves, ResetArrives
<1> QED
  BY <1>2, <1>6, <1>7, <1>8, <1>9 DEF RebuiltBy, SameRepository

\* When the last stamp is deleted nothing in the repository is stamped or read.
LEMMA ClearedStep ==
  ASSUME ResetApart, ResetBase, ResetLineageInv, ResetNext,
         NEW r \in Running("reset"), ClearStamp(r), toClear[r] = {}
  PROVE  RebuiltBy(r)'
<1>1. /\ r \in Processes /\ ClearingOf(r) /\ pc[r] = "clearing"
      /\ pc' = [pc EXCEPT ![r] = "read"]
      /\ UNCHANGED <<stamp, remote, fetched, pending>>
      /\ pc \in [Processes -> Labels \cup ResetLabels \cup {"bootstrap"}]
      /\ remote \in Seq(Entry)
  BY ResetAlone, CommitFacts DEF ResetLineageInv, ClearStamp, Fetch, Goto, ResetBase, ResetTypeOK
<1>2. WorktreeOf' = WorktreeOf
  BY DEF ResetNext, Next, WorktreeOf
<1>3. ASSUME NEW w \in Worktrees, RepositoryOf[w] = RepositoryOf[WorktreeOf[r]]
      PROVE  IsPrefix(stamp'[w], remote')
  <2>1. stamp[w] = NoRef
    BY <1>1, <1>3 DEF ClearingOf
  <2> QED
    BY <1>1, <2>1, PrefixOrder DEF NoRef
<1>4. ASSUME NEW q \in Processes, SameRepository(q, r)
      PROVE  pc'[q] \notin {"lineage", "stamp", "landed"}
  <2>1. CASE q = r
    BY <1>1, <2>1
  <2>2. CASE q # r
    <3>1. pc[q] \in NotStarted \/ Ended(q)
      BY <1>1, <1>4, <2>2, ResetAlone DEF Ended, Terminal, NotStarted
    <3> QED
      BY <1>1, <2>2, <3>1 DEF Ended, Terminal, NotStarted
  <2> QED
    BY <2>1, <2>2
<1> QED
  BY <1>2, <1>3, <1>4 DEF RebuiltBy, SameRepository

\* A later command that fails its check has outlasted a reset that failed.
LEMMA BreakStep ==
  ASSUME ResetApart, ResetBase, ResetLineageInv, ResetNext, NEW r \in Running("reset")
  PROVE  NoBreakAfter(r)'
<1>1. /\ r \in Processes /\ NoBreakAfter(r) /\ WaitInv
      /\ Rebuilding(r) => RebuiltBy(r)
      /\ \A q \in Processes : ResetMoves(q) /\ ResetReads(q)
      /\ WorktreeOf' = WorktreeOf /\ After' = After
  BY ResetAlone, ResetNextMoves, ResetNextReads
  DEF ResetLineageInv, ResetBase, ResetNext, Next, WorktreeOf, After
<1>2. ASSUME Ended(r), pc[r] # "done" PROVE Ended(r)' /\ pc'[r] # "done"
  BY <1>1, <1>2 DEF ResetMoves, ResetAdvances, Ended
<1>3. ASSUME NEW CONSTANT q, q \in Processes, SameRepository(q, r), r \in After[q],
             pc'[q] = "lineage_error"
      PROVE  Ended(r)' /\ pc'[r] # "done"
  <2>1. CASE pc[q] = "lineage_error"
    BY <1>1, <1>2, <1>3, <2>1 DEF NoBreakAfter
  <2>2. CASE pc[q] = "lineage" /\ ~IsPrefix(stamp[WorktreeOf[q]], fetched[q])
    <3>1. Ended(r)
      BY <1>1, <1>3, <2>2 DEF WaitInv, NotStarted
    <3>2. pc[r] # "done"
      BY <1>1, <1>3, <2>2 DEF Rebuilding, ResetLabels, RebuiltBy
    <3> QED
      BY <1>2, <3>1, <3>2
  <2> QED
    BY <1>1, <1>3, <2>1, <2>2 DEF ResetReads
<1> QED
  BY <1>1, <1>3 DEF NoBreakAfter, SameRepository

\* The initial states have the invariant.
LEMMA ResetLineageInit ==
  ASSUME ResetInit
  PROVE  ResetLineageInv
<1>1. WaitInv
  BY DEF ResetInit, WaitInv, NotStarted
<1>2. ASSUME NEW r \in Running("reset")
      PROVE  DeletionOf(r) /\ ClearingOf(r) /\ ~Rebuilding(r) /\ NoBreakAfter(r)
  <2>1. r \in Processes /\ pc[r] = "peek" /\ wire = {}
    BY DEF ResetInit, Running
  <2>2. \A q \in Processes : pc[q] # "lineage_error"
    BY DEF ResetInit
  <2> QED
    BY <2>1, <2>2 DEF DeletionOf, ClearingOf, Rebuilding, ResetLabels, NoBreakAfter
<1> QED
  BY <1>1, <1>2 DEF ResetLineageInv

\* Every step keeps it.
LEMMA ResetLineageNext ==
  ASSUME ResetApart, SeparateWorktrees, ResetBase, ResetLineageInv,
         [ResetNext]_<<resetVars, scenario>>
  PROVE  ResetLineageInv'
<1>1. CASE ResetNext
  <2>1. WaitInv'
    BY <1>1, WaitStep DEF ResetLineageInv
  <2>2. Running("reset")' = Running("reset")
    BY <1>1 DEF ResetNext, Next, Running, CommandOf
  <2>3. ASSUME NEW CONSTANT r, r \in Running("reset")
        PROVE  /\ DeletionOf(r)'
               /\ ClearingOf(r)'
               /\ Rebuilding(r)' => RebuiltBy(r)'
               /\ NoBreakAfter(r)'
    <3>1. Rebuilding(r)' => Rebuilding(r) \/ (ClearStamp(r) /\ toClear[r] = {})
      BY <1>1, <2>3, ResetNextReads DEF ResetPhases, ResetBase, Running
    <3> QED
      BY <1>1, <2>3, <3>1, DeletionStep, ClearingStep, RebuiltStep, ClearedStep, BreakStep
  <2> QED
    BY <2>1, <2>2, <2>3 DEF ResetLineageInv
<1>2. CASE UNCHANGED <<resetVars, scenario>>
  <2> USE <1>2 DEF resetVars, vars
  <2>1. WaitInv' /\ Running("reset")' = Running("reset")
    BY DEF ResetLineageInv, WaitInv, Ended, After, Running, CommandOf
  <2>2. ASSUME NEW CONSTANT r, r \in Running("reset")
        PROVE  /\ DeletionOf(r)'
               /\ ClearingOf(r)'
               /\ Rebuilding(r)' => RebuiltBy(r)'
               /\ NoBreakAfter(r)'
    BY <2>2 DEF ResetLineageInv, DeletionOf, ClearingOf, Rebuilding, RebuiltBy, NoBreakAfter,
                SameRepository, Deletion, Ended, After, WorktreeOf
  <2> QED
    BY <2>1, <2>2 DEF ResetLineageInv
<1> QED
  BY <1>1, <1>2

\* A reset that succeeds leaves every worktree of its repository able to fetch:
\* where nobody else resets, and the commands of the repository run before it or
\* after it and take turns in their worktrees, none that runs after it ever takes
\* the new ref for a rewrite of the old one, whatever the other repositories do
\* meanwhile and however late their pushes land.
THEOREM ResetBreaksNoLineage ==
  ResetApart /\ SeparateWorktrees => (ResetSpec => []NoLineageBreakAfterReset)
<1> SUFFICES ASSUME ResetApart, SeparateWorktrees PROVE ResetSpec => []NoLineageBreakAfterReset
  OBVIOUS
<1>1. ResetInit => ResetBase /\ ResetLineageInv
  BY ResetBaseInit, ResetLineageInit
<1>2. ResetBase /\ ResetLineageInv /\ [ResetNext]_<<resetVars, scenario>> => ResetLineageInv'
  BY ResetLineageNext
<1>3. ResetBase /\ ResetLineageInv => NoLineageBreakAfterReset
  <2> SUFFICES ASSUME ResetBase, ResetLineageInv,
                      NEW p \in Processes, pc[p] = "lineage_error",
                      NEW r \in After[p], CommandOf[r].kind = "reset", pc[r] = "done",
                      RepositoryOf[WorktreeOf[r]] = RepositoryOf[WorktreeOf[p]]
               PROVE  FALSE
    BY DEF NoLineageBreakAfterReset
  <2>1. r \in Running("reset")
    BY ResetCommandType DEF ResetBase, Running
  <2> QED
    BY <2>1 DEF ResetLineageInv, NoBreakAfter, SameRepository
<1> QED
  BY <1>1, <1>2, <1>3, ResetBaseNext, PTL DEF ResetSpec
=============================================================================
