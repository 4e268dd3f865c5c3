--------------------------- MODULE StateRefReset ---------------------------
(***************************************************************************)
(* The two commands that may find refs/aco/state absent: bootstrap, which   *)
(* creates it, and reset, which replaces it.  They share the remote, the    *)
(* stamps and the push loop with the transitions of StateRefStore.          *)
(***************************************************************************)
EXTENDS StateRefStore

\* A scenario also says whether the ref exists when it starts (exists), and
\* which worktrees have fetched it before (observers).
CONSTANT RepositoryOf  \* the repository (clone) each worktree is linked to

ASSUME ResetAssumption ==
  /\ DOMAIN RepositoryOf = Worktrees
  /\ \A name \in DOMAIN Scenarios :
       /\ Scenarios[name].exists \in BOOLEAN
       /\ Scenarios[name].observers \subseteq Worktrees

VARIABLE toClear  \* the worktrees whose stamp a reset has still to delete

resetVars == <<vars, toClear>>

----------------------------------------------------------------------------
(* bootstrap: a present ref is read, an absent one gets the empty tree.     *)

BeginBootstrap(p) ==
  /\ pc[p] = "bootstrap"
  /\ IF fetched[p] # NoRef
     THEN Exit(p, "done") /\ UNCHANGED <<intent, tally>>
     ELSE /\ intent' = [intent EXCEPT ![p] = [kind |-> "bootstrap"]]
          /\ tally' = [tally EXCEPT ![p].attempt = 1]
          /\ Goto(p, "apply")
          /\ UNCHANGED <<fetched, observed, pending>>
  /\ UNCHANGED <<remote, stamp, wire, faults, purpose, seen, reported, toClear>>

----------------------------------------------------------------------------
(* reset: peek, delete the ref under a lease on the tip it read, clear the  *)
(* stamps of this repository's worktrees, bootstrap.                        *)

\* The tip is read without a stamp; a live claim refuses the reset.
PeekForReset(p) ==
  /\ pc[p] = "peek"
  /\ \A q \in After[p] : pc[q] \in Terminal
  /\ IF StateAt(remote).claims = {}
     THEN /\ observed' = [observed EXCEPT ![p] = remote]
          /\ Goto(p, IF remote = NoRef THEN "clear" ELSE "delete")
          /\ UNCHANGED <<fetched, pending>>
     ELSE Exit(p, "refused")
  /\ UNCHANGED <<remote, stamp, wire, faults, purpose, seen, intent, tally, reported, toClear>>

\* Mutant of DeleteRemote: the deletion without the lease.
DeleteRemoteForced(p) ==
  /\ pc[p] = "delete"
  /\ remote' = NoRef
  /\ Goto(p, "clear")
  /\ UNCHANGED <<stamp, wire, faults, purpose, fetched, seen, observed, intent, tally, pending,
                 reported, toClear>>

\* push --force-with-lease deletes the ref if it still is at the tip peeked at.
DeleteRemote(p) ==
  /\ pc[p] = "delete"
  /\ IF remote = observed[p]
     THEN remote' = NoRef /\ Goto(p, "clear")
     ELSE UNCHANGED remote /\ Goto(p, "reprobe")
  /\ UNCHANGED <<stamp, wire, faults, purpose, fetched, seen, observed, intent, tally, pending,
                 reported, toClear>>

\* The deletion is lost, or its answer is, or it is on its way still.
DeleteUnheard(p) ==
  /\ pc[p] = "delete"
  /\ FaultOccurs
  /\ \/ remote = observed[p] /\ remote' = NoRef /\ UNCHANGED wire
     \/ UNCHANGED <<remote, wire>>
     \/ /\ UNCHANGED remote
        /\ wire' = wire \cup {[op |-> p, attempt |-> 0, old |-> observed[p], new |-> NoRef]}
  /\ Goto(p, "reprobe")
  /\ UNCHANGED <<stamp, purpose, fetched, seen, observed, intent, tally, pending, reported,
                 toClear>>

\* A failed deletion asks the server: an absent ref counts as deleted.
RepairAfterFailedDelete(p) ==
  /\ pc[p] = "reprobe"
  /\ IF remote = NoRef
     THEN Goto(p, "clear") /\ UNCHANGED <<fetched, observed, pending>>
     ELSE Exit(p, "refused")
  /\ UNCHANGED <<remote, stamp, wire, faults, purpose, seen, intent, tally, reported, toClear>>

\* Mutant of ClearLineageStamps: only the worktree reset runs in.
ClearOwnStamp(p) ==
  /\ pc[p] = "clear"
  /\ toClear' = [toClear EXCEPT ![p] = {WorktreeOf[p]}]
  /\ observed' = [observed EXCEPT ![p] = NoRef]
  /\ Goto(p, "clearing")
  /\ UNCHANGED <<remote, stamp, wire, faults, purpose, fetched, seen, intent, tally, pending,
                 reported>>

ClearLineageStamps(p) ==
  /\ pc[p] = "clear"
  /\ toClear' = [toClear EXCEPT ![p] =
       {w \in Worktrees : RepositoryOf[w] = RepositoryOf[WorktreeOf[p]]}]
  /\ observed' = [observed EXCEPT ![p] = NoRef]
  /\ Goto(p, "clearing")
  /\ UNCHANGED <<remote, stamp, wire, faults, purpose, fetched, seen, intent, tally, pending,
                 reported>>

\* One worktree after the other.
ClearStamp(p) ==
  /\ pc[p] = "clearing"
  /\ IF toClear[p] = {}
     THEN Fetch(p, "bootstrap") /\ UNCHANGED <<stamp, toClear>>
     ELSE \E w \in toClear[p] :
            /\ stamp' = [stamp EXCEPT ![w] = NoRef]
            /\ toClear' = [toClear EXCEPT ![p] = @ \ {w}]
            /\ UNCHANGED <<pc, purpose>>
  /\ UNCHANGED <<remote, wire, faults, fetched, seen, observed, intent, tally, pending,
                 reported>>

----------------------------------------------------------------------------
(* The specification.                                                      *)

RootCommit == <<[op |-> Root, state |-> BootstrapState(1)]>>

ResetInit ==
  /\ scenario \in DOMAIN Scenarios
  /\ remote = IF Scenarios[scenario].exists THEN RootCommit ELSE NoRef
  /\ stamp = [w \in Worktrees |-> 
       IF w \in Scenarios[scenario].observers THEN RootCommit ELSE NoRef]
  /\ wire = {}
  /\ faults = 0
  /\ pc = [p \in Processes |-> CASE CommandOf[p].kind = "reset" -> "peek"
                                [] CommandOf[p].kind = "none" -> "none"
                                [] OTHER -> "read"]
  /\ purpose = [p \in Processes |->
       IF CommandOf[p].kind = "bootstrap" THEN "bootstrap" ELSE FirstRead(p)]
  /\ fetched = [p \in Processes |-> NoRef]
  /\ seen = [p \in Processes |-> EMPTY_STATE]
  /\ observed = [p \in Processes |-> NoRef]
  /\ intent = [p \in Processes |-> [kind |-> "none"]]
  /\ tally = [p \in Processes |-> [attempt |-> 0, moves |-> 0, stationary |-> 0]]
  /\ pending = [p \in Processes |-> NoRef]
  /\ reported = [p \in Processes |-> NoClaim]
  /\ toClear = [p \in Processes |-> {}]

ResetStep(p) ==
  \/ BeginBootstrap(p)
  \/ PeekForReset(p)
  \/ DeleteRemote(p)
  \/ DeleteUnheard(p)
  \/ RepairAfterFailedDelete(p)
  \/ ClearLineageStamps(p)
  \/ ClearStamp(p)

ResetNext ==
  \/ Next /\ UNCHANGED toClear
  \/ (\E p \in Processes : ResetStep(p)) /\ UNCHANGED scenario

ResetSpec == ResetInit /\ [][ResetNext]_<<resetVars, scenario>>

----------------------------------------------------------------------------
(* Properties.                                                             *)

\* Where only a reset is.
ResetLabels == {"peek", "delete", "reprobe", "clear", "clearing"}

\* A push, or with attempt 0 the deletion of a reset.
ResetPush == [op : Processes, attempt : 0 .. MaxAttempts, old : Commit, new : Commit]

\* The type invariant, with the labels and intent of bootstrap and reset.
ResetTypeOK ==
  /\ scenario \in DOMAIN Scenarios
  /\ remote \in Commit
  /\ stamp \in [Worktrees -> Commit]
  /\ wire \subseteq ResetPush
  /\ faults \in 0 .. MaxFaults
  /\ pc \in [Processes -> Labels \cup ResetLabels \cup {"bootstrap"}]
  /\ purpose \in [Processes -> Purposes \cup {"bootstrap"}]
  /\ fetched \in [Processes -> Commit]
  /\ seen \in [Processes -> ClaimState]
  /\ observed \in [Processes -> Commit]
  /\ intent \in [Processes -> AnyIntent \cup {[kind |-> "none"], [kind |-> "bootstrap"]}]
  /\ tally \in [Processes -> [attempt : 0 .. MaxAttempts, moves : Nat, stationary : Nat]]
  /\ pending \in [Processes -> Commit]
  /\ reported \in [Processes -> ActiveClaim \cup {NoClaim}]
  /\ toClear \in [Processes -> SUBSET Worktrees]

\* Reset never deletes a ref that has a live claim, whatever landed between
\* its look at the claims and the deletion, or after the deletion was sent.
ResetSparesLiveClaims ==
  [][remote # NoRef /\ remote' = NoRef => StateAt(remote).claims = {}]_resetVars

\* The ref moves forward or is deleted; nothing else replaces its history.  A
\* bootstrap whose answer was lost may create a deleted ref again as it was, and
\* a command that had read further then moves it by several commits.
RefOnlyAdvances ==
  [][remote # NoRef /\ remote' # NoRef => IsPrefix(remote, remote')]_resetVars

\* A reset beside other commands loses no live claim and rewrites no history,
\* though its deletion may arrive late, at a ref that was created again.
ResetLosesNothing == ResetSparesLiveClaims /\ RefOnlyAdvances

\* A reset that ended leaves the worktrees of its repository able to fetch:
\* a command started there afterwards meets no lineage refusal.
NoLineageBreakAfterReset ==
  \A p \in Processes :
    pc[p] = "lineage_error" =>
      ~\E r \in After[p] :
         /\ CommandOf[r].kind = "reset"
         /\ pc[r] = "done"
         /\ RepositoryOf[WorktreeOf[r]] = RepositoryOf[WorktreeOf[p]]

Running(kind) == {p \in Processes : CommandOf[p].kind = kind}

\* A ref that is never reset and bootstrapped once is created by its bootstrap:
\* a claim that finds the ref absent, or finds it only on a later fetch, never
\* creates it, and the bootstrap's retries never write a second commit.
LoneBootstrapCreatesRef ==
  Running("reset") = {} /\ (\A p, q \in Running("bootstrap") : p = q) =>
    \A i \in DOMAIN remote :
      remote[i].op # Root => ((i = 1) <=> (intent[remote[i].op].kind = "bootstrap"))

\* The history of a ref that was not reset starts with its one bootstrap, and no
\* operation is on any history twice.
HistoryHasOneStart == ResetTypeOK /\ AppliedAtMostOnce /\ LoneBootstrapCreatesRef

\* Bootstrap writes the first commit of the ref and no other.
BootstrapWritesFirstCommitOnly ==
  \A i \in 2 .. Len(remote) : intent[remote[i].op].kind # "bootstrap"

\* Only a bootstrap creates the ref.
OnlyBootstrapCreatesRef ==
  [][remote = NoRef /\ remote' # NoRef =>
       Len(remote') = 1 /\ intent[Last(remote').op].kind = "bootstrap"]_resetVars
=============================================================================
