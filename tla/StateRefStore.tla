--------------------------- MODULE StateRefStore ---------------------------
(***************************************************************************)
(* refs/aco/state as several aco processes work on it at once: each fetches *)
(* the ref into its worktree, builds its intent from what it read, and      *)
(* commits and pushes it, fetching and applying again after every push that *)
(* did not observably land (store.commit_transition).  The remote is a git  *)
(* server: a push is accepted when the ref still is where the client saw it. *)
(* Its answer may be lost, and a push the client gave up on may still land. *)
(*                                                                         *)
(* A commit is the sequence of entries of its history, so that a commit     *)
(* names its parent as a git commit id does, an ancestor is a prefix, and   *)
(* the empty sequence is the absence of the ref.                            *)
(***************************************************************************)
EXTENDS ClaimLedger, ClaimLifecycle, SequencesExt

CONSTANTS
  Processes,      \* command invocations; each mints one operation id
  Worktrees,      \* git worktrees the processes run in
  Scenarios,      \* the scenarios, by name; each a record of
                  \*   command: the command line of each process, of kind "none"
                  \*            for one that is not run
                  \*   after: the processes whose end each process waits for
                  \*   worktree: the worktree each process runs in
                  \*   crashing: the processes that may be killed or time out
  AgentOf,        \* the agent of each claimant
  LaneKeys,       \* the keys of lane branches; the others are issues
  ClosedBlobs,    \* the item contents whose record says state = closed
  MaxAttempts,    \* bound: pushes per process, 32 for a transition in the code and
                  \* 8 for a bootstrap
  MaxFaults,      \* bound: lost connections and refusals without a cause
  StuckServer     \* whether they may go on for ever, uncounted

Root == "root"    \* the operation of the commit bootstrap made beforehand

\* The command lines: a claim's is its intent; an item write checks the whole of
\* items/ or not, and a landing does not.
Command ==
  ClaimIntent
  \cup [kind : {"rescope"}, key : Keys, who : Claimants, add : SUBSET Paths, drop : SUBSET Paths]
  \cup [kind : {"release"}, key : Keys, who : Claimants, override : BOOLEAN]
  \cup [kind : {"write"}, item : ItemIds, blob : Blobs, whole : BOOLEAN]
  \cup [kind : {"land"}, key : Keys, who : Claimants, override : BOOLEAN, item : ItemIds,
        blob : Blobs, whole : {FALSE}]
  \cup [kind : {"bootstrap", "reset", "none"}]

ASSUME StoreAssumption ==
  /\ \A name \in DOMAIN Scenarios :
       LET s == Scenarios[name] IN
       /\ s.command \in [Processes -> Command]
       /\ s.after \in [Processes -> SUBSET Processes]
       /\ s.worktree \in [Processes -> Worktrees]
       /\ s.crashing \subseteq Processes
  /\ AgentOf \in [Claimants -> STRING]
  /\ LaneKeys \subseteq Keys
  /\ ClosedBlobs \subseteq Blobs
  /\ MaxAttempts \in Positive
  /\ MaxFaults \in Nat
  /\ StuckServer \in BOOLEAN
  /\ Root \notin Processes

VARIABLES
  scenario,  \* the scenario that is played, chosen once
  remote,    \* the commit refs/aco/state names on the server
  stamp,     \* the lineage stamp of each worktree
  wire,      \* the pushes the server has received and not processed
  faults,    \* how many faults of the network or server have occurred
  pc,        \* where each process is
  purpose,   \* what the fetch a process is in the middle of is for
  fetched,   \* the commit its latest fetch read
  seen,      \* the state its item snapshot was read from
  observed,  \* the commit its next transition attempt is based on
  intent,    \* the intent it built
  tally,     \* its attempts, tip moves and rejections since the last move
  pending,   \* the commit it pushed last
  reported   \* the claim its report looked up

vars == <<remote, stamp, wire, faults, pc, purpose, fetched, seen, observed,
          intent, tally, pending, reported>>

CommandOf == Scenarios[scenario].command
After == Scenarios[scenario].after
WorktreeOf == Scenarios[scenario].worktree
Crashing == Scenarios[scenario].crashing

NoRef == <<>>

Terminal == {"none", "done", "refused", "exhausted", "lineage_error", "crashed"}

\* The state a commit holds.
StateAt(commit) == IF commit = NoRef THEN EMPTY_STATE ELSE Last(commit).state

OperationsOn(commit) == {commit[i].op : i \in DOMAIN commit}

\* Mutant of OperationsSince: only the newest commit is read.
OperationAtTip(known, tip) == IF tip = NoRef THEN {} ELSE {Last(tip).op}

\* The operations in known..tip: reachable from tip, not from known.
OperationsSince(known, tip) ==
  {tip[i].op : i \in {j \in DOMAIN tip : ~IsPrefix(SubSeq(tip, 1, j), known)}}

ClaimAt(state, key) ==
  IF \E c \in state.claims : c.key = key
  THEN CHOOSE c \in state.claims : c.key = key
  ELSE NoClaim

----------------------------------------------------------------------------
(* Helpers: how a process moves.                                           *)

Goto(p, label) == pc' = [pc EXCEPT ![p] = label]

\* A process ends; its locals go with it.
Exit(p, how) ==
  /\ Goto(p, how)
  /\ fetched' = [fetched EXCEPT ![p] = NoRef]
  /\ observed' = [observed EXCEPT ![p] = NoRef]
  /\ pending' = [pending EXCEPT ![p] = NoRef]

\* Starts a fetch, after which the process continues at label next.
Fetch(p, next) ==
  /\ Goto(p, "read")
  /\ purpose' = [purpose EXCEPT ![p] = next]

\* A command prints the claim under its own key in the state it was handed.
Report(p, state) ==
  reported' = [reported EXCEPT ![p] =
    IF intent[p].kind \in {"claim", "rescope"} THEN ClaimAt(state, CommandOf[p].key)
    ELSE NoClaim]

----------------------------------------------------------------------------
(* fetch_state: probe and fetch the tip, check it against the stamp of the  *)
(* worktree, write the stamp.  Nothing serialises the three steps of two    *)
(* processes in one worktree.                                              *)

\* A session runs its commands one after the other.
ReadTip(p) ==
  /\ pc[p] = "read"
  /\ \A q \in After[p] : pc[q] \in Terminal
  /\ fetched' = [fetched EXCEPT ![p] = remote]
  /\ Goto(p, "lineage")
  /\ UNCHANGED <<remote, stamp, wire, faults, purpose, seen, observed, intent, tally,
                 pending, reported>>

\* Mutant of CheckLineage: the ancestor test with its arguments swapped.
CheckLineageBackwards(p) ==
  /\ pc[p] = "lineage"
  /\ IF IsPrefix(fetched[p], stamp[WorktreeOf[p]]) \/ stamp[WorktreeOf[p]] = NoRef
     THEN /\ Goto(p, IF fetched[p] = NoRef THEN purpose[p] ELSE "stamp")
          /\ UNCHANGED <<fetched, observed, pending>>
     ELSE Exit(p, "lineage_error")
  /\ UNCHANGED <<remote, stamp, wire, faults, purpose, seen, intent, tally, reported>>

\* A worktree without a stamp takes any tip for its first observation.
CheckLineage(p) ==
  LET mine == stamp[WorktreeOf[p]] IN
  /\ pc[p] = "lineage"
  /\ IF IsPrefix(mine, fetched[p])
     THEN /\ Goto(p, IF fetched[p] = NoRef THEN purpose[p] ELSE "stamp")
          /\ UNCHANGED <<fetched, observed, pending>>
     ELSE Exit(p, "lineage_error")
  /\ UNCHANGED <<remote, stamp, wire, faults, purpose, seen, intent, tally, reported>>

WriteStamp(p) ==
  /\ pc[p] = "stamp"
  /\ stamp' = [stamp EXCEPT ![WorktreeOf[p]] = fetched[p]]
  /\ Goto(p, purpose[p])
  /\ UNCHANGED <<remote, wire, faults, purpose, fetched, seen, observed, intent, tally,
                 pending, reported>>

----------------------------------------------------------------------------
(* The commands: what each builds its intent from.                         *)

\* The live claim a command names: a lookup by key.
SelectedClaim(p) == ClaimAt(StateAt(fetched[p]), CommandOf[p].key)

\* Hands the intent to commit_transition, which fetches for itself.
Submit(p, built) ==
  /\ intent' = [intent EXCEPT ![p] = built]
  /\ Fetch(p, "transition")
  /\ UNCHANGED <<fetched, observed, pending, reported>>

Refuse(p) ==
  /\ Exit(p, "refused")
  /\ UNCHANGED <<intent, purpose, reported>>

\* An item command reads items/ once; its write is composed over the blob it
\* read there.  Closing an item that is closed already is refused.
ReadItems(p) ==
  LET cmd == CommandOf[p]
      state == StateAt(fetched[p])
      blob == state.items[cmd.item]
      closesTwice == blob \in ClosedBlobs /\ cmd.blob \in ClosedBlobs
  IN
  /\ pc[p] = "items"
  /\ seen' = [seen EXCEPT ![p] = state]
  /\ \/ /\ cmd.kind = "write"
        /\ ~closesTwice
        /\ Submit(p, [kind |-> "write", item |-> cmd.item, expected |-> blob,
                      blob |-> cmd.blob,
                      store |-> IF cmd.whole THEN state.items ELSE AnyStore])
     \/ /\ cmd.kind = "land"
        /\ ~closesTwice
        /\ blob # NoBlob
        /\ Fetch(p, "observe")
        /\ UNCHANGED <<fetched, observed, pending, intent, reported>>
     \/ /\ closesTwice \/ (cmd.kind = "land" /\ blob = NoBlob)
        /\ Refuse(p)
  /\ UNCHANGED <<remote, stamp, wire, faults, tally>>

\* The claim an interrupted, identical claim command left behind.
MatchingStoreClaim(p) ==
  LET cmd == CommandOf[p]
      live == SelectedClaim(p)
  IN  /\ cmd.key \notin LaneKeys
      /\ live # NoClaim
      /\ live.id = cmd.id
      /\ ClaimMatchesIntent(live, cmd)

\* A replayed claim is reported without a commit.  A fresh one goes on,
\* unless a check of its target against the forge refuses it.
ObserveForClaim(p) ==
  /\ pc[p] = "observe"
  /\ CommandOf[p].kind = "claim"
  /\ \/ /\ StateAt(fetched[p]).tip = 0
        /\ Refuse(p)
     \/ /\ MatchingStoreClaim(p)
        /\ Exit(p, "done")
        /\ reported' = [reported EXCEPT ![p] = SelectedClaim(p)]
        /\ UNCHANGED <<intent, purpose>>
     \/ /\ StateAt(fetched[p]).tip # 0
        /\ ~MatchingStoreClaim(p)
        /\ Submit(p, CommandOf[p]) \/ (CommandOf[p].key \notin LaneKeys /\ Refuse(p))
  /\ UNCHANGED <<remote, stamp, wire, faults, seen, tally>>

\* Adds and drops combine with the scope read here into one absolute scope.
CombinedScope(scope, cmd) == (scope \ cmd.drop) \cup cmd.add

ObserveForRescope(p) ==
  LET cmd == CommandOf[p]
      live == SelectedClaim(p)
      combined == CombinedScope(live.scope, cmd)
      admitted == /\ live # NoClaim
                  /\ AgentOf[cmd.who] = AgentOf[live.who]
                  /\ cmd.drop \subseteq live.scope
                  /\ combined \notin {{}, live.scope}
  IN
  /\ pc[p] = "observe"
  /\ cmd.kind = "rescope"
  /\ IF admitted
     THEN Submit(p, [kind |-> "rescope", id |-> live.id, who |-> live.who,
                     scope |-> combined])
     ELSE Refuse(p)
  /\ UNCHANGED <<remote, stamp, wire, faults, seen, tally>>

\* The claim a release or landing ends; a coordinator's authority is left to
\* apply, any other claimant must be the holder.
MayRelease(p) ==
  LET cmd == CommandOf[p] IN
  /\ SelectedClaim(p) # NoClaim
  /\ ~cmd.override => SelectedClaim(p).who = cmd.who

ObserveForRelease(p) ==
  LET cmd == CommandOf[p] IN
  /\ pc[p] = "observe"
  /\ cmd.kind = "release"
  /\ IF MayRelease(p)
     THEN Submit(p, [kind |-> "release", id |-> SelectedClaim(p).id, who |-> cmd.who,
                     override |-> cmd.override])
     ELSE Refuse(p)
  /\ UNCHANGED <<remote, stamp, wire, faults, seen, tally>>

\* A landing joins the item snapshot to the claim of this later fetch.
ObserveForLanding(p) ==
  LET cmd == CommandOf[p] IN
  /\ pc[p] = "observe"
  /\ cmd.kind = "land"
  /\ IF MayRelease(p)
     THEN Submit(p, [kind |-> "landing", id |-> SelectedClaim(p).id, who |-> cmd.who,
                     override |-> cmd.override, item |-> cmd.item,
                     expected |-> seen[p].items[cmd.item], blob |-> cmd.blob])
     ELSE Refuse(p)
  /\ UNCHANGED <<remote, stamp, wire, faults, seen, tally>>

----------------------------------------------------------------------------
(* commit_transition: apply the intent to the observed state, push the      *)
(* commit, and after any push that did not observably land fetch again.     *)

BeginTransition(p) ==
  /\ pc[p] = "transition"
  /\ IF fetched[p] = NoRef
     THEN Exit(p, "refused") /\ UNCHANGED tally
     ELSE /\ Goto(p, "apply")
          /\ observed' = [observed EXCEPT ![p] = fetched[p]]
          /\ tally' = [tally EXCEPT ![p].attempt = 1]
          /\ UNCHANGED <<fetched, pending>>
  /\ UNCHANGED <<remote, stamp, wire, faults, purpose, seen, intent, reported>>

\* Mutant of CommitOnto: an attempt after the first commits the tree of the
\* attempt before it onto the refreshed tip.
CommitTreeOnto(p, parent) ==
  Append(parent,
         [op |-> p,
          state |-> IF pending[p] = NoRef THEN CommittedState(StateAt(parent), intent[p])
                    ELSE [Last(pending[p]).state EXCEPT !.tip = Len(parent) + 1]])

\* The commit of one attempt: the intent applied to the state of its parent.
\* A bootstrap (StateRefReset) commits the same empty tree whatever its parent.
CommitOnto(p, parent) ==
  Append(parent,
         [op |-> p,
          state |-> IF intent[p].kind = "bootstrap" THEN BootstrapState(Len(parent) + 1)
                    ELSE CommittedState(StateAt(parent), intent[p])])

Committable(p) ==
  intent[p].kind = "bootstrap" \/ Admits(StateAt(observed[p]), intent[p])

\* git push reads the advertised ref; only a fast-forward is sent.
Push(p) ==
  /\ pc[p] = "apply"
  /\ Committable(p)
  /\ LET commit == CommitOnto(p, observed[p]) IN
     /\ pending' = [pending EXCEPT ![p] = commit]
     /\ IF IsPrefix(remote, commit)
        THEN /\ wire' = wire \cup {[op |-> p, attempt |-> tally[p].attempt,
                                   old |-> remote, new |-> commit]}
             /\ Goto(p, "sent")
             /\ UNCHANGED purpose
        ELSE Fetch(p, "search") /\ UNCHANGED wire
  /\ UNCHANGED <<remote, stamp, faults, fetched, seen, observed, intent, tally, reported>>

\* apply raises: the command ends with the refusal.
RefuseIntent(p) ==
  /\ pc[p] = "apply"
  /\ ~Committable(p)
  /\ Exit(p, "refused")
  /\ UNCHANGED <<remote, stamp, wire, faults, purpose, seen, intent, tally, reported>>

\* The process still waits for the answer to this push.
Awaited(push) == pc[push.op] = "sent" /\ tally[push.op].attempt = push.attempt

FaultOccurs ==
  \/ faults < MaxFaults /\ faults' = faults + 1
  \/ StuckServer /\ UNCHANGED faults

\* The server moves the ref and the client hears of it.
AcceptPush(push) ==
  /\ push.old = remote
  /\ Awaited(push)
  /\ remote' = push.new
  /\ wire' = wire \ {push}
  /\ Goto(push.op, "landed")
  /\ UNCHANGED <<stamp, faults, purpose, fetched, seen, observed, intent, tally, pending,
                 reported>>

\* The server moves the ref after the client stopped listening.
AcceptLatePush(push) ==
  /\ push.old = remote
  /\ ~Awaited(push)
  /\ remote' = push.new
  /\ wire' = wire \ {push}
  /\ UNCHANGED <<stamp, faults, pc, purpose, fetched, seen, observed, intent, tally, pending,
                 reported>>

\* The ref moved between the advertisement and the update.
RejectPush(push) ==
  /\ push.old # remote
  /\ wire' = wire \ {push}
  /\ IF Awaited(push) THEN Fetch(push.op, "search") ELSE UNCHANGED <<pc, purpose>>
  /\ UNCHANGED <<remote, stamp, faults, fetched, seen, observed, intent, tally, pending,
                 reported>>

\* A stale lock on the server, or missing rights.
RefusePush(push) ==
  /\ Awaited(push)
  /\ FaultOccurs
  /\ wire' = wire \ {push}
  /\ Fetch(push.op, "search")
  /\ UNCHANGED <<remote, stamp, fetched, seen, observed, intent, tally, pending, reported>>

\* Mutant of LoseConnection: a lost answer is reported as a refusal.
LoseConnectionRefused(p) ==
  /\ pc[p] = "sent"
  /\ FaultOccurs
  /\ Exit(p, "refused")
  /\ UNCHANGED <<remote, stamp, wire, purpose, seen, intent, tally, reported>>

\* The connection breaks; the server may have the push all the same.
LoseConnection(p) ==
  /\ pc[p] = "sent"
  /\ FaultOccurs
  /\ Fetch(p, "search")
  /\ UNCHANGED <<remote, stamp, wire, fetched, seen, observed, intent, tally, pending,
                 reported>>

\* A rejected attempt found its own operation on the refreshed tip, or counts
\* what it found and goes on from there.
FoundOwnOperation(p) ==
  /\ pc[p] = "search"
  /\ p \in OperationsSince(observed[p], fetched[p])
  /\ Report(p, StateAt(fetched[p]))
  /\ Exit(p, "done")
  /\ UNCHANGED <<remote, stamp, wire, faults, purpose, seen, intent, tally>>

AdvanceTipRetry(previous, refreshed, count) ==
  IF refreshed # previous
  THEN [count EXCEPT !.moves = @ + 1, !.stationary = 0]
  ELSE [count EXCEPT !.stationary = @ + 1]

\* Mutant of Retry: attempts are not counted.
RetryUncounted(p) ==
  /\ pc[p] = "search"
  /\ p \notin OperationsSince(observed[p], fetched[p])
  /\ observed' = [observed EXCEPT ![p] = fetched[p]]
  /\ Goto(p, "apply")
  /\ UNCHANGED <<remote, stamp, wire, faults, purpose, fetched, seen, intent, tally, pending,
                 reported>>

Retry(p) ==
  /\ pc[p] = "search"
  /\ p \notin OperationsSince(observed[p], fetched[p])
  /\ LET count == AdvanceTipRetry(observed[p], fetched[p], tally[p]) IN
     IF count.attempt < MaxAttempts
     THEN /\ tally' = [tally EXCEPT ![p] = [count EXCEPT !.attempt = @ + 1]]
          /\ observed' = [observed EXCEPT ![p] = fetched[p]]
          /\ Goto(p, "apply")
          /\ UNCHANGED <<fetched, pending>>
     ELSE /\ tally' = [tally EXCEPT ![p] = count]
          /\ Exit(p, "exhausted")
  /\ UNCHANGED <<remote, stamp, wire, faults, purpose, seen, intent, reported>>

\* The push landed: the stamp moves to it, unchecked, and the command reports.
Landed(p) ==
  /\ pc[p] = "landed"
  /\ stamp' = [stamp EXCEPT ![WorktreeOf[p]] = pending[p]]
  /\ Report(p, StateAt(pending[p]))
  /\ Exit(p, "done")
  /\ UNCHANGED <<remote, wire, faults, purpose, seen, intent, tally>>

\* Killed, or a git command other than a push failed or ran past its time
\* limit: the command ends there, and a push it had sent keeps its own course.
Crash(p) ==
  /\ p \in Crashing
  /\ pc[p] \notin Terminal
  /\ Exit(p, "crashed")
  /\ UNCHANGED <<remote, stamp, wire, faults, purpose, seen, intent, tally, reported>>

----------------------------------------------------------------------------
(* The specification.                                                      *)

FirstRead(p) == IF CommandOf[p].kind \in {"write", "land"} THEN "items" ELSE "observe"

Init ==
  /\ scenario \in DOMAIN Scenarios
  /\ remote = <<[op |-> Root, state |-> BootstrapState(1)]>>
  /\ stamp = [w \in Worktrees |-> NoRef]
  /\ wire = {}
  /\ faults = 0
  /\ pc = [p \in Processes |-> IF CommandOf[p].kind = "none" THEN "none" ELSE "read"]
  /\ purpose = [p \in Processes |-> FirstRead(p)]
  /\ fetched = [p \in Processes |-> NoRef]
  /\ seen = [p \in Processes |-> EMPTY_STATE]
  /\ observed = [p \in Processes |-> NoRef]
  /\ intent = [p \in Processes |-> [kind |-> "none"]]
  /\ tally = [p \in Processes |-> [attempt |-> 0, moves |-> 0, stationary |-> 0]]
  /\ pending = [p \in Processes |-> NoRef]
  /\ reported = [p \in Processes |-> NoClaim]

FetchStep(p) == ReadTip(p) \/ CheckLineage(p) \/ WriteStamp(p)

CommandStep(p) ==
  \/ ReadItems(p)
  \/ ObserveForClaim(p)
  \/ ObserveForRescope(p)
  \/ ObserveForRelease(p)
  \/ ObserveForLanding(p)

TransitionStep(p) ==
  \/ BeginTransition(p)
  \/ Push(p)
  \/ RefuseIntent(p)
  \/ FoundOwnOperation(p)
  \/ Retry(p)
  \/ Landed(p)

ServerStep(push) == AcceptPush(push) \/ AcceptLatePush(push) \/ RejectPush(push)

FaultStep ==
  \/ \E push \in wire : RefusePush(push)
  \/ \E p \in Processes : LoseConnection(p) \/ Crash(p)

Next ==
  /\ \/ \E p \in Processes : FetchStep(p) \/ CommandStep(p) \/ TransitionStep(p)
     \/ \E push \in wire : ServerStep(push)
     \/ FaultStep
  /\ UNCHANGED scenario

Spec == Init /\ [][Next]_<<vars, scenario>>

\* Every git child is bounded by a timeout, so a process always takes its next
\* step; the push it waits for is answered or given up.  Nothing obliges the
\* server to process a push nobody waits for.
ProcessFairness ==
  \A p \in Processes :
    WF_vars(FetchStep(p) \/ CommandStep(p) \/ TransitionStep(p)
            \/ \E push \in wire : push.op = p /\ Awaited(push) /\ ServerStep(push))

FairSpec == Spec /\ ProcessFairness

----------------------------------------------------------------------------
(* Properties.                                                             *)

Entry == [op : Processes \cup {Root}, state : ClaimState]

\* A commit's state carries its own height and finitely many numbers in use.
Commit ==
  {c \in Seq(Entry) :
     \A i \in DOMAIN c : c[i].state.tip = i /\ IsFiniteSet(c[i].state.occupied)}

PushInFlight == [op : Processes, attempt : 1 .. MaxAttempts, old : Commit, new : Commit]

Labels == {"read", "lineage", "stamp", "items", "observe", "transition", "apply", "sent",
           "search", "landed"} \cup Terminal

Purposes == {"items", "observe", "transition", "search"}

Tally ==
  [attempt : 0 .. MaxAttempts, moves : 0 .. MaxAttempts, stationary : 0 .. MaxAttempts]

\* Every variable holds a value of its type.
TypeOK ==
  /\ scenario \in DOMAIN Scenarios
  /\ remote \in Commit
  /\ stamp \in [Worktrees -> Commit]
  /\ wire \subseteq PushInFlight
  /\ faults \in 0 .. MaxFaults
  /\ pc \in [Processes -> Labels]
  /\ purpose \in [Processes -> Purposes]
  /\ fetched \in [Processes -> Commit]
  /\ seen \in [Processes -> ClaimState]
  /\ observed \in [Processes -> Commit]
  /\ intent \in [Processes -> AnyIntent \cup {[kind |-> "none"]}]
  /\ tally \in [Processes -> Tally]
  /\ pending \in [Processes -> Commit]
  /\ reported \in [Processes -> ActiveClaim \cup {NoClaim}]

\* However often its push is sent, lost, retried or accepted late, an
\* operation is on the ref at most once: the search for its operation id and
\* the server's compare-and-swap leave no second commit.
AppliedAtMostOnce ==
  \A i, j \in DOMAIN remote : remote[i].op = remote[j].op => i = j

\* A command that reports success is on the record.  A command that reports a
\* refusal is not, and no push it left behind can put it there later.
VerdictsAreFinal ==
  \A p \in Processes :
    /\ pc[p] = "done" /\ intent[p].kind # "none" => p \in OperationsOn(remote)
    /\ pc[p] = "refused" =>
         /\ p \notin OperationsOn(remote)
         /\ \A push \in wire : push.op = p => push.old # remote

\* While nobody rewrites the ref, the lineage check never cries rewrite:
\* processes that do not share a worktree never leave a stamp that a later
\* fetch of theirs fails to descend from.
NoFalseLineageAlarm ==
  \A p \in Processes : pc[p] # "lineage_error"

\* A claim's opened commit is the tip that preceded the commit which added
\* it, however many attempts it took: its age counts from there.
OpenedCommitPrecedesClaim ==
  \A i \in DOMAIN remote : \A c \in remote[i].state.claims :
    /\ c.opened \in 1 .. i - 1
    /\ c.id \notin remote[c.opened].state.consumed
    /\ \E d \in remote[c.opened + 1].state.claims : d.id = c.id

\* No write to an item replaces content its command did not read, and a write
\* that checked all of items/ replaces nothing else either.
NoLostItemWrite ==
  \A i \in 2 .. Len(remote) :
    LET writer == intent[remote[i].op]
        read == seen[remote[i].op].items
        before == remote[i - 1].state.items
    IN writer.kind \in {"write", "landing"} =>
         /\ before[writer.item] = read[writer.item]
         /\ CommandOf[remote[i].op].whole => before = read

FailedAttempts(p) ==
  IF pc[p] = "exhausted" THEN tally[p].attempt
  ELSE IF tally[p].attempt = 0 THEN 0 ELSE tally[p].attempt - 1

ForeignCommits(p) == Cardinality(OperationsOn(remote) \ {Root, p})

\* Each failed attempt is paid for by another writer's commit or by a fault,
\* and the tally a command gives up with blames neither without cause.
TallyHasCauses ==
  \A p \in Processes :
    /\ FailedAttempts(p) <= ForeignCommits(p) + faults
    /\ tally[p].moves <= ForeignCommits(p)
    /\ tally[p].stationary <= faults

\* What a command reports is so and stays so: at most one commit of its
\* operation, a verdict that nothing on the wire can overturn, a tally that
\* blames those who were to blame (commit_transition, _exhausted).
VerdictsAreTrue == AppliedAtMostOnce /\ VerdictsAreFinal /\ TallyHasCauses

\* Reading the history back finds exactly the claims the state has: those
\* opened and not closed are live, and the commits it can make no sense of are
\* those of an interrupted claim that landed twice.
LifecycleMatchesState ==
  LET landed == [i \in 1 .. Len(remote) - 1 |-> intent[remote[i + 1].op]]
      walk == Lifecycle(landed)
      repeated == {i \in DOMAIN landed : /\ landed[i].kind = "claim"
                                        /\ landed[i].id \in remote[i].state.consumed}
      state == StateAt(remote)
  IN  /\ walk.unparsed = Cardinality(repeated)
      /\ walk.claimed = state.consumed
      /\ walk.claimed \ walk.released = {c.id : c \in state.claims}

\* Every commit on the ref, in a stamp or on the wire is one, and what it says of
\* the commits before it is true: the opening tips its claims carry, and the
\* claims a walk over the trailers finds (claim_lifecycle).
HistoryIsTrue == TypeOK /\ OpenedCommitPrecedesClaim /\ LifecycleMatchesState

\* A claim or rescope that landed names its own claim in its report.
LandedCommandNamesItsClaim ==
  \A p \in Processes :
    pc[p] = "done" /\ intent[p].kind \in {"claim", "rescope"} =>
      reported[p] # NoClaim /\ reported[p].id = intent[p].id

\* A rescope adds what it was told to add, drops what it was told to drop, and
\* leaves the rest of the claim's scope alone.
RescopeAddsAndDropsOnly ==
  \A i \in 2 .. Len(remote) :
    LET rescope == intent[remote[i].op]
        cmd == CommandOf[remote[i].op]
    IN rescope.kind = "rescope" =>
         \A before \in remote[i - 1].state.claims, after \in remote[i].state.claims :
           before.id = rescope.id /\ after.id = rescope.id =>
             after.scope = CombinedScope(before.scope, cmd)

\* Every command ends.
EveryCommandEnds == <>[](\A p \in Processes : pc[p] \in Terminal)

----------------------------------------------------------------------------
(* The store implements the atomic ledger: its state is the state of the    *)
(* ref, and the claims ever opened are those a commit of the ref added.     *)

IntentsOf(cmd) ==
  CASE cmd.kind = "claim" -> {cmd}
    [] cmd.kind = "rescope" -> {i \in RescopeIntent : AgentOf[i.who] = AgentOf[cmd.who]}
    [] cmd.kind = "release" ->
         {i \in ReleaseIntent : i.who = cmd.who /\ i.override = cmd.override}
    [] cmd.kind = "write" ->
         {i \in ItemWriteIntent : /\ i.item = cmd.item /\ i.blob = cmd.blob
                                 /\ ~cmd.whole => i.store = AnyStore}
    [] cmd.kind = "land" ->
         {i \in LandingIntent : /\ i.item = cmd.item /\ i.blob = cmd.blob
                               /\ i.who = cmd.who /\ i.override = cmd.override}
    [] OTHER -> {}

IntentsOfCommands ==
  UNION {IntentsOf(Scenarios[s].command[p]) : s \in DOMAIN Scenarios, p \in Processes}

OpenedOn(commit) ==
  UNION {{c \in commit[i].state.claims : c.id \notin commit[i - 1].state.consumed} :
         i \in 2 .. Len(commit)}

Abstract == INSTANCE Ledger WITH
  state <- StateAt(remote),
  applied <- OperationsOn(remote) \ {Root},
  history <- OpenedOn(remote),
  Operations <- Processes,
  Intents <- IntentsOfCommands

\* Every step of the store is an atomic transition of the ledger, or none:
\* each operation takes effect at most once, on a state that admits it.
ImplementsLedger == Abstract!Spec
=============================================================================
