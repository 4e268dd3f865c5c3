----------------------------- MODULE Workspace -----------------------------
(***************************************************************************)
(* workspace.py: aco register, aco run, aco login and the hidden command    *)
(* desktop login starts, beside the consoles of module Console.            *)
(*                                                                         *)
(* Three file locks: the mapping's, the runtime directory's, and the login  *)
(* record's.  A killed process loses its locks and leaves everything else   *)
(* as it is.                                                               *)
(***************************************************************************)
EXTENDS Console, SequencesExt

CONSTANTS
  Procs,       \* the commands that may be started
  Job,         \* what each is: its kind, and its project's key or record
  Scenarios    \* which commands are started, on which mapping and processes, and
               \* the bounds on changes and faults

\* WorkspaceProject; a live one has the receipt of the process handed over.
Record == [key : Keys, directory : STRING, session : STRING, live : BOOLEAN]

Is(p, kinds) == Job[p].kind \in kinds

\* A handed-over process runs only where the record says so, and login enable
\* left its entry beside a mapping with a project.
Scenario(s) ==
  /\ s.procs \subseteq Procs /\ s.changes \in Nat /\ s.faults \in Nat /\ s.launcher \in BOOLEAN
  /\ s.mapping \in Seq(Record)
  /\ \A i, j \in DOMAIN s.mapping : i # j =>
       /\ s.mapping[i].key # s.mapping[j].key
       /\ s.mapping[i].directory # s.mapping[j].directory
       /\ s.mapping[i].session # s.mapping[j].session
  /\ s.launcher => s.mapping # <<>>
  /\ s.native \in [Keys -> SUBSET {"registered"}]
  /\ \A i \in DOMAIN s.mapping :
       "registered" \in s.native[s.mapping[i].key] => s.mapping[i].live
  /\ \A p \in s.procs : Is(p, {"register"}) =>
       ("registered" \in s.native[Job[p].record.key] => Job[p].record.live)

ASSUME WorkspaceAssumption ==
  /\ Nobody \notin Procs
  /\ \A p \in Procs :
       /\ Is(p, {"register", "run", "login", "enable", "disable"})
       /\ Is(p, {"register"}) => Job[p].record \in Record
       /\ Is(p, {"run"}) => Job[p].key \in Keys
  /\ Tokens = {t \in Procs \X Keys :
                  Is(t[1], {"login"}) \/ (Is(t[1], {"run"}) /\ Job[t[1]].key = t[2])}
  /\ \A t \in Tokens : KeyOf[t] = t[2]
  /\ \A s \in Scenarios : Scenario(s)

VARIABLES
  mapping,     \* workspace.toml: the projects' records, in their order
  launcher,    \* whether the desktop entry of login enable is there
  lock,        \* who holds the lock of the mapping, of the runtime, of the login record
  record,      \* login-attempt.json
  proc,        \* each command's label and locals
  faults,      \* bound: tmux commands that may still fail, processes that may still be killed
  interrupted  \* of each project: runs that ended between starting its provider
               \* and selecting the provider's window

workspace == <<mapping, launcher, lock, record, proc, faults, interrupted>>
vars == <<console, workspace>>

NoRecord == [attempt |-> Nobody, state |-> "none", outcomes |-> <<>>]

\* What an inspect returned.
NoTarget == [state |-> "absent", meta |-> "none", attempt |-> NoAttempt]

Idle == [pc |-> "idle", todo |-> <<>>, known |-> <<>>, stage |-> "first", verb |-> "none",
         seen |-> NoTarget, old |-> 0, new |-> 0, outcomes |-> <<>>]

At(p, label) == proc[p].pc = label
Project(p) == Head(proc[p].todo)
Key(p) == Project(p).key
Token(p) == <<p, Key(p)>>

InRun == {"look", "panes", "consume", "own", "create", "await", "window", "provider",
          "select", "discard", "open", "unqueue"}

Put(p, local) == proc' = [proc EXCEPT ![p] = local]
Goto(p, label) == Put(p, [proc[p] EXCEPT !.pc = label])

Free(which) == lock[which] = Nobody

----------------------------------------------------------------------------
(* aco register.                                                           *)

\* A live handoff is validated before the lock is taken.
ValidateLive(p) ==
  /\ At(p, "idle") /\ Is(p, {"register"})
  /\ Goto(p, IF Job[p].record.live /\ "registered" \notin native[Job[p].record.key]
             THEN "refused" ELSE "lock mapping")
  /\ UNCHANGED <<console, mapping, launcher, lock, record, faults, interrupted>>

LockMapping(p) ==
  /\ At(p, "lock mapping") /\ Free("mapping")
  /\ lock' = [lock EXCEPT !.mapping = p]
  /\ Put(p, [proc[p] EXCEPT !.pc = "write mapping", !.known = mapping])
  /\ UNCHANGED <<console, mapping, launcher, record, faults, interrupted>>

\* Mutant of AdmitsRegistration: a key may be registered anew.
AdmitsReplacement(known, r) ==
  \A i \in DOMAIN known : known[i].directory # r.directory /\ known[i].session # r.session

\* A key keeps its record; directories and conversations are single-use.
AdmitsRegistration(known, r) ==
  \A i \in DOMAIN known :
    known[i].key # r.key /\ known[i].directory # r.directory /\ known[i].session # r.session

Registered(known, r) ==
  IF \E i \in DOMAIN known : known[i].key = r.key
  THEN [i \in DOMAIN known |-> IF known[i].key = r.key THEN r ELSE known[i]]
  ELSE Append(known, r)

WriteMapping(p) ==
  /\ At(p, "write mapping")
  /\ LET r == Job[p].record
     IN  IF r \notin ToSet(proc[p].known) /\ AdmitsRegistration(proc[p].known, r)
         THEN mapping' = Registered(proc[p].known, r) /\ Goto(p, "registered")
         ELSE /\ Goto(p, IF r \in ToSet(proc[p].known) THEN "registered" ELSE "refused")
              /\ UNCHANGED mapping
  /\ lock' = [lock EXCEPT !.mapping = Nobody]
  /\ UNCHANGED <<console, launcher, record, faults, interrupted>>

----------------------------------------------------------------------------
(* aco login enable, aco login disable, and the start of a desktop login.   *)

\* The entry is written only beside a mapping that has a project.
EnableLogin(p) ==
  /\ At(p, "idle") /\ Is(p, {"enable"})
  /\ launcher' = (launcher \/ mapping # <<>>)
  /\ Goto(p, IF mapping = <<>> THEN "refused" ELSE "done")
  /\ UNCHANGED <<console, mapping, lock, record, faults, interrupted>>

DisableLogin(p) ==
  /\ At(p, "idle") /\ Is(p, {"disable"})
  /\ launcher' = FALSE
  /\ Goto(p, "done")
  /\ UNCHANGED <<console, mapping, lock, record, faults, interrupted>>

\* _run-at-login: the running record, under its lock.
BeginLogin(p) ==
  /\ At(p, "idle") /\ Is(p, {"login"})
  /\ launcher /\ Free("login")
  /\ lock' = [lock EXCEPT !.login = p]
  /\ record' = [attempt |-> p, state |-> "running", outcomes |-> <<>>]
  /\ Goto(p, "load")
  /\ UNCHANGED <<console, mapping, launcher, faults, interrupted>>

\* The outcomes, or "workspace failure" when there are none.
CompleteLogin(p) ==
  /\ At(p, "complete")
  /\ record' = [attempt |-> p, state |-> "completed", outcomes |-> proc[p].outcomes]
  /\ lock' = [lock EXCEPT !.login = Nobody]
  /\ Goto(p, "done")
  /\ UNCHANGED <<console, mapping, launcher, faults, interrupted>>

----------------------------------------------------------------------------
(* run_projects.                                                           *)

After(p) == IF Is(p, {"login"}) THEN "complete" ELSE "done"

\* The mapping is read before the runtime's lock is taken.
Selected(p) ==
  LET there == {i \in DOMAIN mapping : mapping[i].key = Job[p].key}
  IN  IF Is(p, {"login"}) THEN mapping
      ELSE IF there = {} THEN <<>> ELSE <<mapping[CHOOSE i \in there : TRUE]>>

LoadConfig(p) ==
  /\ \/ At(p, "idle") /\ Is(p, {"run"})
     \/ At(p, "load")
  /\ Put(p, [proc[p] EXCEPT !.todo = Selected(p),
        !.pc = IF Selected(p) # <<>> THEN "lock runtime"
               ELSE IF Is(p, {"login"}) THEN "complete" ELSE "refused"])
  /\ UNCHANGED <<console, mapping, launcher, lock, record, faults, interrupted>>

LockRuntime(p) ==
  /\ At(p, "lock runtime") /\ Free("runtime")
  /\ lock' = [lock EXCEPT !.runtime = p]
  /\ Goto(p, "look")
  /\ UNCHANGED <<console, mapping, launcher, record, faults, interrupted>>

\* One project is done: the next one, or the lock is released.
Ended(p, outcome) ==
  LET rest == Tail(proc[p].todo)
  IN  /\ Put(p, [Idle EXCEPT !.pc = IF rest = <<>> THEN After(p) ELSE "look",
                             !.todo = rest,
                             !.outcomes = Append(proc[p].outcomes, <<Key(p), outcome>>)])
      /\ lock' = IF rest = <<>> /\ lock.runtime = p THEN [lock EXCEPT !.runtime = Nobody] ELSE lock

Untouched == UNCHANGED <<mapping, launcher, record>>
Unfaulted == UNCHANGED <<faults, interrupted>>

GoOn(p, label) == Goto(p, label) /\ UNCHANGED lock

\* inspect, first half: whether the session is there, its metadata and attempt.
Look(p) ==
  /\ At(p, "look")
  /\ Put(p, [proc[p] EXCEPT !.pc = "panes", !.seen =
       IF Exists(Key(p))
       THEN [state |-> "there", meta |-> session[Key(p)].meta, attempt |-> session[Key(p)].attempt]
       ELSE NoTarget])
  /\ UNCHANGED <<console, lock>> /\ Untouched /\ Unfaulted

\* inspect, second half: the pane of the current window and the clients.
TargetState(p) ==
  IF proc[p].seen.state = "absent" THEN "absent"
  ELSE IF Pane(Key(p)) = "dead" THEN "exited"
  ELSE IF Attached(Key(p)) THEN "attached" ELSE "detached"

FailedAttempt(p) == proc[p].seen.attempt.state = "failed"
SeenAttempt(p) == proc[p].seen.attempt # NoAttempt

Decide(p, verb, label) ==
  /\ Put(p, [proc[p] EXCEPT !.pc = label, !.verb = verb,
                            !.seen = IF label = "consume" THEN @ ELSE NoTarget])
  /\ UNCHANGED lock

Launch(p, verb) ==
  Decide(p, verb, IF Project(p).live THEN "own"
                  ELSE IF verb = "started" THEN "create" ELSE "window")

\* _run_project, after its inspect.
DecideFirst(p, state) ==
  CASE state = "absent" -> Launch(p, "started")
    [] state # "absent" /\ proc[p].seen.meta # "own" -> Ended(p, "failed")
    [] OTHER ->
       CASE state = "attached" ->
              IF FailedAttempt(p) THEN Decide(p, "reused", "consume") ELSE Ended(p, "reused")
         [] state # "attached" /\ FailedAttempt(p) -> Decide(p, "failed", "consume")
         [] state = "exited" /\ ~FailedAttempt(p) -> Launch(p, "retried")
         [] OTHER ->
              IF SeenAttempt(p) THEN Ended(p, "pending")
              ELSE Put(p, [proc[p] EXCEPT !.pc = "look", !.stage = "attach",
                                          !.verb = "reattached"])
                   /\ UNCHANGED lock

\* _existing_viewer_outcome, and what follows it: open a viewer, or give up.
DecideLater(p, state) ==
  CASE state = "attached" ->
         IF FailedAttempt(p) THEN Decide(p, "reused", "consume") ELSE Ended(p, proc[p].verb)
    [] state # "attached" /\ FailedAttempt(p) -> Decide(p, "failed", "consume")
    [] state # "attached" /\ SeenAttempt(p) /\ ~FailedAttempt(p) -> Ended(p, "pending")
    [] OTHER -> IF proc[p].stage = "attach" THEN GoOn(p, "open") ELSE Ended(p, "failed")

Panes(p) ==
  /\ At(p, "panes")
  /\ LET state == TargetState(p)
     IN  IF proc[p].stage = "first" THEN DecideFirst(p, state) ELSE DecideLater(p, state)
  /\ UNCHANGED console /\ Untouched /\ Unfaulted

\* consume_viewer_failure.
Consume(p) ==
  /\ At(p, "consume")
  /\ SetAttempt(Key(p), proc[p].seen.attempt, NoAttempt)
  /\ Ended(p, proc[p].verb)
  /\ UNCHANGED <<viewer, native, changes>> /\ Untouched /\ Unfaulted

\* Mutant of CheckOwner: a live owner is not asked for.
CheckNoOwner(p) ==
  /\ At(p, "own")
  /\ GoOn(p, IF proc[p].verb = "started" THEN "create" ELSE "window")
  /\ UNCHANGED console /\ Untouched /\ Unfaulted

\* _launch_if_unowned, for a project registered live.
CheckOwner(p) ==
  /\ At(p, "own")
  /\ CASE Ownership(Key(p)) = "live" -> Ended(p, "external")
       [] Ownership(Key(p)) = "unknown" -> Ended(p, "unknown")
       [] OTHER -> GoOn(p, IF proc[p].verb = "started" THEN "create" ELSE "window")
  /\ UNCHANGED console /\ Untouched /\ Unfaulted

Create(p) ==
  /\ At(p, "create")
  /\ CreateSession(Key(p))
  /\ GoOn(p, "await")
  /\ UNCHANGED <<viewer, native, changes>> /\ Untouched /\ Unfaulted

\* wait-for returns once the setup shell has signalled.
Await(p) ==
  /\ At(p, "await") /\ session[Key(p)].meta = "own"
  /\ GoOn(p, "window")
  /\ UNCHANGED console /\ Untouched /\ Unfaulted

\* _start_fresh_window, its four commands.
ReadWindow(p) ==
  /\ At(p, "window")
  /\ Put(p, [proc[p] EXCEPT !.pc = "provider", !.old = session[Key(p)].current])
  /\ UNCHANGED <<console, lock>> /\ Untouched /\ Unfaulted

StartProvider(p) ==
  /\ At(p, "provider")
  /\ StartWindow(Key(p))
  /\ Put(p, [proc[p] EXCEPT !.pc = "select", !.new = NextWindow(Key(p))])
  /\ UNCHANGED <<lock, viewer, native, changes>> /\ Untouched /\ Unfaulted

SelectProvider(p) ==
  /\ At(p, "select")
  /\ SelectWindow(Key(p), proc[p].new)
  /\ GoOn(p, "discard")
  /\ UNCHANGED <<viewer, native, changes>> /\ Untouched /\ Unfaulted

DiscardWindow(p) ==
  /\ At(p, "discard")
  /\ KillWindow(Key(p), proc[p].old)
  /\ Put(p, [proc[p] EXCEPT !.pc = "look", !.stage = "attach"])
  /\ UNCHANGED <<lock, viewer, native, changes>> /\ Untouched /\ Unfaulted

OpenViewer(p) ==
  /\ At(p, "open")
  /\ Enqueue(Token(p))
  /\ Put(p, [proc[p] EXCEPT !.pc = "look", !.stage = "opened"])
  /\ UNCHANGED <<lock, native, changes>> /\ Untouched /\ Unfaulted

\* The control client failed, with the option set and perhaps the script running.
OpenViewerFails(p) ==
  /\ At(p, "open") /\ faults > 0
  /\ Enqueue(Token(p)) \/ EnqueueHalf(Token(p))
  /\ GoOn(p, "unqueue")
  /\ faults' = faults - 1
  /\ UNCHANGED <<native, changes, interrupted>> /\ Untouched

\* _clear_viewer_token_after_enqueue_failure.
ClearToken(p) ==
  /\ At(p, "unqueue")
  /\ SetAttempt(Key(p), Attempt("pending", Token(p)), NoAttempt)
  /\ Ended(p, "failed")
  /\ UNCHANGED <<viewer, native, changes>> /\ Untouched /\ Unfaulted

RunStep(p) ==
  \/ LoadConfig(p) \/ LockRuntime(p) \/ Look(p) \/ Panes(p) \/ Consume(p) \/ CheckOwner(p)
  \/ Create(p) \/ Await(p) \/ ReadWindow(p) \/ StartProvider(p) \/ SelectProvider(p)
  \/ DiscardWindow(p) \/ OpenViewer(p) \/ ClearToken(p)

----------------------------------------------------------------------------
(* Faults.                                                                 *)

Interrupts(p) ==
  interrupted' = IF At(p, "select") THEN [interrupted EXCEPT ![Key(p)] = @ + 1] ELSE interrupted

\* A tmux command fails or runs into its time limit: this project has failed.
CommandFails(p) ==
  /\ faults > 0
  /\ proc[p].pc \in InRun \ {"own"}
  /\ Ended(p, "failed")
  /\ faults' = faults - 1
  /\ Interrupts(p)
  /\ UNCHANGED console /\ Untouched

Kill(p) ==
  /\ faults > 0
  /\ proc[p].pc \in InRun \cup {"load", "lock mapping", "write mapping", "lock runtime", "complete"}
  /\ Goto(p, "killed")
  /\ lock' = [which \in DOMAIN lock |-> IF lock[which] = p THEN Nobody ELSE lock[which]]
  /\ faults' = faults - 1
  /\ Interrupts(p)
  /\ UNCHANGED console /\ Untouched

Working(p) == proc[p].pc \notin {"idle", "off", "done", "refused", "registered", "killed"}

\* The machine restarts: tmux, the consoles and every process are gone.
Reboot ==
  /\ changes.left > 0
  /\ changes' = [left |-> changes.left - 1, opened |-> [k \in Keys |-> 0]]
  /\ session' = [k \in Keys |-> NoSession]
  /\ viewer' = [t \in Tokens |-> IF viewer[t] = "none" THEN "none" ELSE "gone"]
  /\ native' = [k \in Keys |-> {}]
  /\ proc' = [p \in Procs |-> IF Working(p) THEN [proc[p] EXCEPT !.pc = "killed"] ELSE proc[p]]
  /\ lock' = [which \in DOMAIN lock |-> Nobody]
  /\ interrupted' = [k \in Keys |-> 0]
  /\ Untouched /\ UNCHANGED faults

----------------------------------------------------------------------------

Init ==
  /\ ConsoleInit
  /\ \E s \in Scenarios :
       /\ mapping = s.mapping
       /\ native = s.native
       /\ changes = [left |-> s.changes, opened |-> [k \in Keys |-> 0]]
       /\ faults = s.faults
       /\ launcher = s.launcher
       /\ proc = [p \in Procs |-> IF p \in s.procs THEN Idle ELSE [Idle EXCEPT !.pc = "off"]]
  /\ lock = [mapping |-> Nobody, runtime |-> Nobody, login |-> Nobody]
  /\ record = NoRecord
  /\ interrupted = [k \in Keys |-> 0]

ProcStep(p) ==
  \/ ValidateLive(p) \/ LockMapping(p) \/ WriteMapping(p)
  \/ EnableLogin(p) \/ DisableLogin(p) \/ BeginLogin(p) \/ CompleteLogin(p)
  \/ RunStep(p) \/ CommandFails(p) \/ OpenViewerFails(p) \/ Kill(p)

Next ==
  \/ \E p \in Procs : ProcStep(p)
  \/ ConsoleStep /\ UNCHANGED workspace
  \/ Reboot

\* Runs, shells and owner scripts go on.  Every behaviour ends (nothing is
\* repeated), so that fairness of all together is fairness of each.
Progress ==
  \/ \E p \in Procs : RunStep(p) \/ CompleteLogin(p)
  \/ ConsoleProgress /\ UNCHANGED workspace

Spec == Init /\ [][Next]_vars
FairSpec == Spec /\ WF_vars(Progress)

----------------------------------------------------------------------------
(* Properties.                                                             *)

TypeOK ==
  /\ ConsoleTypeOK
  /\ \A which \in DOMAIN lock : lock[which] \in Procs \cup {Nobody}
  /\ record.attempt \in Procs \cup {Nobody}
  /\ faults \in Nat /\ interrupted \in [Keys -> Nat]

\* A conversation has one provider process, unless somebody opened it by hand
\* or a run ended between new-window and select-window: not because two runs,
\* a run and a login, or a run and the process that was handed over meet.
SecondHeadHasCause ==
  \A k \in Keys :
    Cardinality(Heads(k)) + Conversing(k) <= 1 + interrupted[k] + changes.opened[k]

\* terminal.py calls the life cycle one-headed; a run that ends between the two
\* commands leaves a dead pane in front, and the next run starts a second head.
OneHead == \A k \in Keys : changes.opened[k] = 0 => Cardinality(Heads(k)) + Conversing(k) <= 1

\* The attempt on a session is where its own viewer is: viewers of earlier
\* launches, which may come late, and their clean-ups never change it.
AttemptTellsOfItsViewer ==
  \A k \in Keys : Exists(k) =>
    LET a == session[k].attempt
    IN  /\ a.state = "pending" =>
             \/ viewer[a.token] \in {"launched", "attached", "ended"}
             \/ At(a.token[1], "unqueue")
        /\ a.state = "accepted" => viewer[a.token] \in {"confirmed", "ended", "swept"}
        /\ a.state = "failed" => viewer[a.token] \in {"swept", "gone"}

\* What register reported stays in the mapping as reported, single-use in key,
\* directory and conversation; so the records a run read before it waited for
\* its lock are still those it would read when it has it.
RegistrationsStand ==
  /\ \A p \in Procs : At(p, "registered") => Job[p].record \in ToSet(mapping)
  /\ \A p \in Procs : Working(p) => ToSet(proc[p].todo) \subseteq ToSet(mapping)
  /\ \A i, j \in DOMAIN mapping : i # j =>
       /\ mapping[i].key # mapping[j].key
       /\ mapping[i].directory # mapping[j].directory
       /\ mapping[i].session # mapping[j].session

\* The login record is that of the login under way; a running record without one
\* is of a login that was killed; a completed one has the outcomes its login saw.
LoginRecordTellsTruth ==
  /\ \A p \in Procs : Is(p, {"login"}) /\ Working(p) =>
       record.attempt = p /\ record.state = "running"
  /\ record.state = "running" => Working(record.attempt) \/ At(record.attempt, "killed")
  /\ record.state = "completed" =>
       record.outcomes = proc[record.attempt].outcomes /\ record.outcomes # <<>>

\* What the two files say, of projects and of the login, is true whoever reads
\* them and whichever writer was killed.
FilesTellTruth == TypeOK /\ RegistrationsStand /\ LoginRecordTellsTruth

Busy ==
  \/ \E p \in Procs : Is(p, {"run", "login"}) /\ Working(p)
  \/ \E k \in Keys : Exists(k) /\ session[k].attempt.state = "pending"

\* Runs end, whatever fails and whoever holds the lock first, and an attempt that
\* is pending becomes a console or a failure: no later run reports "viewer
\* pending" for ever.
NothingWaitsForEver == Busy ~> ~Busy
=============================================================================
