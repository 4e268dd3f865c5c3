--------------------------- MODULE WorkspaceProofs ---------------------------
(***************************************************************************)
(* Proofs about workspaces: the mapping and the login record tell the       *)
(* truth, a conversation's second provider has one of two causes, and an    *)
(* attempt on a session tells of its viewer, however registrations, runs    *)
(* and logins meet, are killed, or the machine restarts.                   *)
(***************************************************************************)
EXTENDS Workspace, FiniteSetTheorems, SequenceTheorems, TLAPS

----------------------------------------------------------------------------
(* The inductive invariant.                                                *)

\* Windows are numbers, and one of them is the last.
Numbered == {W \in SUBSET Nat : W # {} => \E last \in W : \A w \in W : w <= last}

Layouts == UNION {[W -> {"setup", "head", "dead"}] : W \in Numbered}

Attempts ==
  [state : {"none", "pending", "accepted", "failed"}, token : Tokens \cup {Nobody}]

SessionRecord ==
  [meta : {"none", "own"}, windows : Layouts, current : Nat, attempt : Attempts]

Viewers == {"none", "launched", "attached", "confirmed", "ended", "swept", "gone"}

Natives == {"registered", "replaced", "byHand", "unreadable"}

\* What a run may report of a project, and what it may remember of itself.
RunStates ==
  {"none", "started", "retried", "reattached", "reused", "failed", "pending", "external",
   "unknown"}

Outcomes == Seq(Keys \X RunStates)

AtRest == {"idle", "off", "done", "refused", "registered", "killed"}

Labels ==
  InRun \cup {"load", "lock mapping", "write mapping", "lock runtime", "complete"} \cup AtRest

Seen == [state : {"there", "absent"}, meta : {"none", "own"}, attempt : Attempts]

Local ==
  [pc : Labels, todo : Seq(Record), known : Seq(Record),
   stage : {"first", "attach", "opened"}, verb : RunStates, seen : Seen,
   old : Nat, new : Nat, outcomes : Outcomes]

ConsoleTyped ==
  /\ session \in [Keys -> SessionRecord]
  /\ viewer \in [Tokens -> Viewers]
  /\ native \in [Keys -> SUBSET Natives]
  /\ changes \in [left : Nat, opened : [Keys -> Nat]]

FilesTyped ==
  /\ mapping \in Seq(Record)
  /\ launcher \in BOOLEAN
  /\ record \in [attempt : Procs \cup {Nobody}, state : {"none", "running", "completed"},
                 outcomes : Outcomes]

RunsTyped ==
  /\ lock \in [{"mapping", "runtime", "login"} -> Procs \cup {Nobody}]
  /\ proc \in [Procs -> Local]
  /\ faults \in Nat
  /\ interrupted \in [Keys -> Nat]

\* The types in full: TypeOK names the parts a reader cares for.
Typed == ConsoleTyped /\ FilesTyped /\ RunsTyped

\* Who works under a lock holds it, and nobody else does.
LockInv ==
  \A p \in Procs :
    /\ proc[p].pc \in InRun <=> lock.runtime = p
    /\ At(p, "write mapping") <=> lock.mapping = p
    /\ Is(p, {"login"}) /\ Working(p) <=> lock.login = p

\* What a command does suits what it is, and a run or login has something to do.
CourseInv ==
  \A p \in Procs :
    /\ proc[p].pc \in {"lock mapping", "write mapping", "registered"} => Is(p, {"register"})
    /\ proc[p].pc \in {"load", "complete"} => Is(p, {"login"})
    /\ proc[p].pc \in InRun \cup {"lock runtime"} =>
         Is(p, {"run", "login"}) /\ proc[p].todo # <<>>
    /\ proc[p].pc \in {"idle", "load", "lock runtime"} => proc[p].stage = "first"
    /\ Is(p, {"run"}) => \A i \in DOMAIN proc[p].todo : proc[p].todo[i].key = Job[p].key

\* The mapping only grows, by a writer that has just read it, and the launcher
\* stands beside a mapping with a project.
MappingInv ==
  /\ RegistrationsStand
  /\ \A p \in Procs : ToSet(proc[p].todo) \subseteq ToSet(mapping)
  /\ \A p \in Procs : At(p, "write mapping") => proc[p].known = mapping
  /\ mapping = <<>> => ~launcher /\ \A p \in Procs : ~At(p, "load")

RecordInv ==
  /\ LoginRecordTellsTruth
  /\ record.state # "none" => record.attempt \in Procs /\ Is(record.attempt, {"login"})
  /\ record.state = "completed" => At(record.attempt, "done")
  /\ \A p \in Procs : At(p, "complete") => proc[p].outcomes # <<>>

\* A handed-over process is registered live, by every record that may be read.
LiveInv ==
  /\ \A i \in DOMAIN mapping : "registered" \in native[mapping[i].key] => mapping[i].live
  /\ \A p \in Procs : Is(p, {"register"}) /\ ~At(p, "off") =>
       ("registered" \in native[Job[p].record.key] => Job[p].record.live)

Launching == {"create", "await", "window", "provider", "select", "discard"}

\* What a run has found out of the session it works on stays so.
SceneInv ==
  \A p \in Procs : proc[p].pc \in InRun =>
    LET k == Key(p)
        self == proc[p]
    IN  /\ self.pc \in (Launching \ {"create"}) \cup {"open", "unqueue"} => Exists(k)
        /\ self.pc \in {"look", "panes"} /\ self.stage # "first" => Exists(k)
        /\ self.pc = "panes" => (self.seen.state = "there" <=> Exists(k))
        /\ self.pc = "own" /\ self.verb # "started" => Exists(k) /\ Pane(k) # "head"
        /\ self.pc \in {"await", "window", "provider", "select"} => Pane(k) # "head"
        /\ self.pc \in {"provider", "select"} => self.old = session[k].current
        /\ self.pc \in {"select", "discard"} =>
             /\ self.new \in DOMAIN session[k].windows /\ self.old < self.new
             /\ \A w \in DOMAIN session[k].windows : w <= self.new
        /\ self.pc = "discard" => session[k].current = self.new

\* The window a head may be in without a cause: the one in front, or the one a
\* run is about to select.
Chosen(k, w) ==
  \/ w = session[k].current
  \/ \E p \in Procs : At(p, "select") /\ Key(p) = k /\ w = proc[p].new

HeadInv ==
  \A k \in Keys :
    /\ Exists(k) => session[k].current \in DOMAIN session[k].windows
    /\ \E w \in Nat : Chosen(k, w) /\ Cardinality(Heads(k) \ {w}) <= interrupted[k]
    /\ "byHand" \in native[k] => changes.opened[k] >= 1
    /\ "registered" \in native[k] =>
         Heads(k) = {} /\ \A p \in Procs : proc[p].pc \in Launching => Key(p) # k

IInv == Typed /\ LockInv /\ CourseInv /\ MappingInv /\ RecordInv /\ LiveInv /\ SceneInv /\ HeadInv

\* With one fault, the command whose terminal failed to start clears its attempt.
AttemptInv ==
  /\ faults <= 1
  /\ \A p \in Procs : At(p, "unqueue") => faults = 0
  /\ \A k \in Keys : Exists(k) =>
       LET a == session[k].attempt
       IN  /\ a.state # "none" => a.token \in Tokens /\ KeyOf[a.token] = k
           /\ a.state = "pending" =>
                \/ viewer[a.token] \in {"launched", "attached", "ended"}
                \/ At(a.token[1], "unqueue") /\ Key(a.token[1]) = k
           /\ a.state = "accepted" => viewer[a.token] \in {"confirmed", "ended", "swept"}
           /\ a.state = "failed" => viewer[a.token] \in {"swept", "gone"}

----------------------------------------------------------------------------
(* Layouts of windows.                                                     *)

\* Windows keep their numbers when one is added after the last, one is taken
\* off that is not the last, or one changes what it holds.
LEMMA LayoutFacts ==
  /\ \A f \in Layouts : DOMAIN f \in Numbered /\ f \in [DOMAIN f -> {"setup", "head", "dead"}]
  /\ \A W \in Numbered : [W -> {"setup", "head", "dead"}] \subseteq Layouts
<1>1. ASSUME NEW f \in Layouts
      PROVE  DOMAIN f \in Numbered /\ f \in [DOMAIN f -> {"setup", "head", "dead"}]
  <2>1. PICK W \in Numbered : f \in [W -> {"setup", "head", "dead"}]
    BY <1>1 DEF Layouts
  <2> QED
    BY <2>1
<1>2. ASSUME NEW W \in Numbered
      PROVE  [W -> {"setup", "head", "dead"}] \subseteq Layouts
  BY <1>2 DEF Layouts
<1> QED
  BY <1>1, <1>2

\* A set of window numbers is finite and its maximum is its last number.
LEMMA NumberedFacts ==
  ASSUME NEW W \in Numbered
  PROVE  /\ IsFiniteSet(W)
         /\ W # {} => Max(W) \in W /\ \A w \in W : w <= Max(W)
<1>1. CASE W = {}
  BY <1>1, FS_EmptySet
<1>2. ASSUME W # {} PROVE IsFiniteSet(W) /\ Max(W) \in W /\ \A w \in W : w <= Max(W)
  <2>1. PICK last \in W : \A w \in W : w <= last
    BY <1>2 DEF Numbered
  <2>2. W \subseteq Nat
    BY DEF Numbered
  <2>3. W \subseteq 0 .. last
    BY <2>1, <2>2
  <2>4. IsFiniteSet(0 .. last)
    BY <2>1, <2>2, FS_Interval
  <2>5. IsFiniteSet(W)
    BY <2>3, <2>4, FS_Subset
  <2>6. \E x \in W : \A y \in W : x >= y
    BY <2>1, <2>2
  <2>7. Max(W) \in W /\ \A y \in W : Max(W) >= y
    BY <2>6 DEF Max
  <2> QED
    BY <2>2, <2>5, <2>7
<1> QED
  BY <1>1, <1>2

----------------------------------------------------------------------------
(* What each command does to one session.                                  *)

\* Two sessions with the same windows; the window in front is the same too.
SameWindows(s, t) == s.windows = t.windows /\ s.current = t.current

\* Only the session of k may differ, and it stays one.
Rewritten(k) ==
  /\ session' \in [Keys -> SessionRecord]
  /\ \A j \in Keys : j # k => session'[j] = session[j]

\* Setting an attempt leaves the windows and the metadata alone.
LEMMA SetAttemptEffect ==
  ASSUME ConsoleTyped, NEW k \in Keys, NEW from, NEW to \in Attempts, SetAttempt(k, from, to)
  PROVE  /\ Rewritten(k)
         /\ SameWindows(session'[k], session[k]) /\ session'[k].meta = session[k].meta
         /\ session'[k].attempt =
              IF Exists(k) /\ session[k].attempt = from THEN to ELSE session[k].attempt
<1>1. CASE Exists(k)
  BY <1>1 DEF SetAttempt, Swap, ConsoleTyped, SessionRecord, Rewritten, SameWindows
<1>2. CASE ~Exists(k)
  BY <1>2 DEF SetAttempt, ConsoleTyped, Rewritten, SameWindows
<1> QED
  BY <1>1, <1>2

\* Putting a viewer's attempt on a session leaves the rest of it alone.
LEMMA EnqueueEffect ==
  ASSUME ConsoleTyped, NEW t \in Tokens, Enqueue(t) \/ EnqueueHalf(t)
  PROVE  /\ KeyOf[t] \in Keys /\ Rewritten(KeyOf[t])
         /\ SameWindows(session'[KeyOf[t]], session[KeyOf[t]])
         /\ session'[KeyOf[t]].meta = session[KeyOf[t]].meta
         /\ session'[KeyOf[t]].attempt = Attempt("pending", t)
         /\ viewer' \in [Tokens -> Viewers]
<1>1. KeyOf[t] \in Keys /\ Attempt("pending", t) \in Attempts
  BY ConsoleAssumption DEF Attempt, Attempts
<1>2. session' = [session EXCEPT ![KeyOf[t]].attempt = Attempt("pending", t)]
  BY DEF Enqueue, EnqueueHalf
<1>3. viewer' \in [Tokens -> Viewers]
  BY DEF Enqueue, EnqueueHalf, ConsoleTyped, Viewers
<1> QED
  BY <1>1, <1>2, <1>3 DEF ConsoleTyped, SessionRecord, Rewritten, SameWindows

\* A new session has its setup shell alone.
LEMMA CreateEffect ==
  ASSUME ConsoleTyped, NEW k \in Keys, CreateSession(k)
  PROVE  /\ Rewritten(k) /\ ~Exists(k) /\ session'[k] = NewSession
         /\ DOMAIN NewSession.windows = {0} /\ NewSession.windows[0] = "setup"
         /\ NewSession.current = 0 /\ NewSession.attempt = NoAttempt
<1>1. [w \in {0} |-> "setup"] \in Layouts
  <2>1. {0} \in Numbered
    BY DEF Numbered
  <2> QED
    BY <2>1, LayoutFacts
<1>2. NewSession \in SessionRecord
  BY <1>1 DEF NewSession, SessionRecord, NoAttempt, Attempts
<1> QED
  BY <1>2 DEF CreateSession, ConsoleTyped, Rewritten, NewSession

\* new-window adds a provider after the last window.
LEMMA StartEffect ==
  ASSUME ConsoleTyped, NEW k \in Keys, Exists(k), StartWindow(k)
  PROVE  LET before == session[k].windows
             after == session'[k].windows
         IN  /\ Rewritten(k) /\ NextWindow(k) \in Nat
             /\ \A w \in DOMAIN before : w \in Nat /\ w < NextWindow(k) /\ after[w] = before[w]
             /\ DOMAIN after = DOMAIN before \cup {NextWindow(k)}
             /\ after[NextWindow(k)] = "head"
             /\ session'[k].current = session[k].current
             /\ session'[k].meta = session[k].meta
             /\ session'[k].attempt = session[k].attempt
<1> DEFINE before == session[k].windows
           last == NextWindow(k)
           after == [w \in DOMAIN before \cup {last} |->
                       IF w \in DOMAIN before THEN before[w] ELSE "head"]
<1>1. before \in Layouts
  BY DEF ConsoleTyped, SessionRecord
<1>2. DOMAIN before \in Numbered /\ before \in [DOMAIN before -> {"setup", "head", "dead"}]
  BY <1>1, LayoutFacts
<1>3. Max(DOMAIN before) \in DOMAIN before /\ \A w \in DOMAIN before : w <= Max(DOMAIN before)
  BY <1>2, NumberedFacts DEF Exists
<1>4. DOMAIN before \subseteq Nat
  BY <1>2 DEF Numbered
<1>5. last \in Nat /\ \A w \in DOMAIN before : w < last
  BY <1>3, <1>4 DEF NextWindow
<1>6. DOMAIN before \cup {last} \in Numbered
  BY <1>4, <1>5 DEF Numbered
<1>7. after \in Layouts
  <2> HIDE DEF last
  <2>1. after \in [DOMAIN before \cup {last} -> {"setup", "head", "dead"}]
    BY <1>2
  <2> QED
    BY <1>6, <2>1, LayoutFacts
<1>8. session' = [session EXCEPT ![k].windows = after]
  BY DEF StartWindow
<1> HIDE DEF last
<1>9. session' \in [Keys -> SessionRecord] /\ session'[k].windows = after
      /\ session'[k].current = session[k].current /\ session'[k].meta = session[k].meta
      /\ session'[k].attempt = session[k].attempt
      /\ \A j \in Keys : j # k => session'[j] = session[j]
  <2> HIDE DEF before, after
  <2> QED
    BY <1>7, <1>8 DEF ConsoleTyped, SessionRecord
<1>10. /\ \A w \in DOMAIN before : w \in Nat /\ w < last /\ after[w] = before[w]
       /\ DOMAIN after = DOMAIN before \cup {last} /\ after[last] = "head"
  BY <1>4, <1>5
<1> QED
  BY <1>5, <1>9, <1>10 DEF Rewritten, last

\* select-window changes which window is in front.
LEMMA SelectEffect ==
  ASSUME ConsoleTyped, NEW k \in Keys, NEW w \in Nat, SelectWindow(k, w)
  PROVE  /\ Rewritten(k)
         /\ session'[k].windows = session[k].windows /\ session'[k].current = w
         /\ session'[k].meta = session[k].meta /\ session'[k].attempt = session[k].attempt
BY DEF SelectWindow, ConsoleTyped, SessionRecord, Rewritten

\* kill-window of a window that is not the last.
LEMMA KillWindowEffect ==
  ASSUME ConsoleTyped, NEW k \in Keys, NEW w, KillWindow(k, w),
         NEW last \in DOMAIN session[k].windows, w # last,
         \A v \in DOMAIN session[k].windows : v <= last
  PROVE  LET before == session[k].windows
             after == session'[k].windows
         IN  /\ Rewritten(k)
             /\ DOMAIN after = DOMAIN before \ {w}
             /\ \A v \in DOMAIN after : after[v] = before[v]
             /\ session'[k].current = session[k].current
             /\ session'[k].meta = session[k].meta
             /\ session'[k].attempt = session[k].attempt
<1> DEFINE before == session[k].windows
           after == [v \in DOMAIN before \ {w} |-> before[v]]
<1>1. DOMAIN before \in Numbered /\ before \in [DOMAIN before -> {"setup", "head", "dead"}]
  BY LayoutFacts DEF ConsoleTyped, SessionRecord
<1>2. DOMAIN before \ {w} \in Numbered
  BY <1>1 DEF Numbered
<1>3. after \in Layouts
  <2>1. after \in [DOMAIN before \ {w} -> {"setup", "head", "dead"}]
    BY <1>1
  <2> QED
    BY <1>2, <2>1, LayoutFacts
<1>4. session' = [session EXCEPT ![k].windows = after]
  BY DEF KillWindow
<1>5. session' \in [Keys -> SessionRecord] /\ session'[k].windows = after
      /\ session'[k].current = session[k].current /\ session'[k].meta = session[k].meta
      /\ session'[k].attempt = session[k].attempt
      /\ \A j \in Keys : j # k => session'[j] = session[j]
  <2> HIDE DEF before, after
  <2> QED
    BY <1>3, <1>4 DEF ConsoleTyped, SessionRecord
<1> QED
  BY <1>5 DEF Rewritten

\* A shell or a provider that ends leaves a dead pane.
LeavesDeadPane(k, w) == session' = [session EXCEPT ![k].windows[w] = "dead"]

\* Which keeps the windows and their numbers.
LEMMA DeadPaneEffect ==
  ASSUME ConsoleTyped, NEW k \in Keys, NEW w \in DOMAIN session[k].windows,
         LeavesDeadPane(k, w)
  PROVE  LET before == session[k].windows
             after == session'[k].windows
         IN  /\ Rewritten(k)
             /\ DOMAIN after = DOMAIN before
             /\ \A v \in DOMAIN before : after[v] = IF v = w THEN "dead" ELSE before[v]
             /\ session'[k].current = session[k].current
             /\ session'[k].meta = session[k].meta
             /\ session'[k].attempt = session[k].attempt
<1> DEFINE before == session[k].windows
           after == [before EXCEPT ![w] = "dead"]
<1>1. DOMAIN before \in Numbered /\ before \in [DOMAIN before -> {"setup", "head", "dead"}]
  BY LayoutFacts DEF ConsoleTyped, SessionRecord
<1>2. after \in [DOMAIN before -> {"setup", "head", "dead"}]
  BY <1>1
<1>3. after \in Layouts
  BY <1>1, <1>2, LayoutFacts
<1>4. session' = [session EXCEPT ![k].windows = after]
  BY DEF LeavesDeadPane
<1>5. session' \in [Keys -> SessionRecord] /\ session'[k].windows = after
      /\ session'[k].current = session[k].current /\ session'[k].meta = session[k].meta
      /\ session'[k].attempt = session[k].attempt
      /\ \A j \in Keys : j # k => session'[j] = session[j]
  <2> HIDE DEF before, after
  <2> QED
    BY ONLY ConsoleTyped, k \in Keys, <1>3, <1>4 DEF ConsoleTyped, SessionRecord
<1> QED
  BY <1>1, <1>5 DEF Rewritten

----------------------------------------------------------------------------
(* What each step does to one command.                                     *)

\* A run or a login under the runtime's lock works on a registered project.
LEMMA RunFacts ==
  ASSUME RunsTyped, CourseInv, NEW p \in Procs, proc[p].pc \in InRun
  PROVE  /\ Project(p) \in Record /\ Key(p) \in Keys
         /\ Token(p) \in Tokens /\ KeyOf[Token(p)] = Key(p)
         /\ Tail(proc[p].todo) \in Seq(Record)
         /\ \A i \in DOMAIN Tail(proc[p].todo) :
              i + 1 \in DOMAIN proc[p].todo /\ Tail(proc[p].todo)[i] = proc[p].todo[i + 1]
<1> DEFINE todo == proc[p].todo
<1>1. todo \in Seq(Record) /\ todo # <<>>
  BY DEF RunsTyped, Local, CourseInv
<1>2. Head(todo) = todo[1] /\ 1 \in DOMAIN todo /\ todo[1] \in Record
  BY <1>1
<1>3. /\ Tail(todo) \in Seq(Record)
      /\ \A i \in DOMAIN Tail(todo) : i + 1 \in DOMAIN todo /\ Tail(todo)[i] = todo[i + 1]
  BY <1>1
<1>4. Key(p) = todo[1].key /\ Key(p) \in Keys
  BY <1>2 DEF Key, Project, Record
<1>5. <<p, Key(p)>> \in Tokens
  <2>1. Is(p, {"run"}) \/ Is(p, {"login"})
    BY DEF CourseInv, Is
  <2>2. Is(p, {"run"}) => Job[p].key = Key(p)
    BY <1>2, <1>4 DEF CourseInv
  <2> QED
    BY <1>4, <2>1, <2>2, WorkspaceAssumption
<1>6. KeyOf[Token(p)] = Key(p)
  BY <1>5, WorkspaceAssumption DEF Token
<1> QED
  BY <1>2, <1>3, <1>4, <1>5, <1>6 DEF Project, Token

\* Only p's label and locals may differ.
Alone(p) ==
  /\ proc' \in [Procs -> Local]
  /\ \A q \in Procs : q # p => proc'[q] = proc[q]

\* A step of a run that goes on with its project.
Moved(p) ==
  /\ Alone(p) /\ lock' = lock
  /\ proc'[p].pc \in InRun
  /\ proc'[p].todo = proc[p].todo /\ proc'[p].outcomes = proc[p].outcomes

\* The last step of a run on its project.
Finished(p) ==
  LET rest == Tail(proc[p].todo)
  IN  /\ Alone(p)
      /\ proc'[p].todo = rest /\ proc'[p].outcomes # <<>>
      /\ rest # <<>> => proc'[p].pc = "look" /\ proc'[p].stage = "first" /\ lock' = lock
      /\ rest = <<>> =>
           proc'[p].pc = After(p) /\ lock' = [lock EXCEPT !.runtime = Nobody]

\* A run that ends its project takes the next, or gives the lock back.
LEMMA EndedEffect ==
  ASSUME RunsTyped, LockInv, CourseInv, NEW p \in Procs, proc[p].pc \in InRun,
         NEW outcome \in RunStates, Ended(p, outcome)
  PROVE  Finished(p)
<1> DEFINE rest == Tail(proc[p].todo)
           told == Append(proc[p].outcomes, <<Key(p), outcome>>)
           label == IF rest = <<>> THEN After(p) ELSE "look"
           local == [Idle EXCEPT !.pc = label, !.todo = rest, !.outcomes = told]
<1>1. rest \in Seq(Record) /\ Key(p) \in Keys
  BY RunFacts
<1>2. told \in Outcomes /\ told # <<>>
  <2>1. <<Key(p), outcome>> \in Keys \X RunStates
         /\ proc[p].outcomes \in Seq(Keys \X RunStates)
    BY <1>1 DEF RunsTyped, Local, Outcomes
  <2> HIDE DEF told
  <2>2. told = Append(proc[p].outcomes, <<Key(p), outcome>>)
    BY DEF told
  <2>3. told \in Seq(Keys \X RunStates) /\ Len(told) = Len(proc[p].outcomes) + 1
    BY <2>1, <2>2, AppendProperties
  <2>4. told # <<>>
    BY <2>1, <2>3, LenProperties, EmptySeq
  <2> QED
    BY <2>3, <2>4 DEF Outcomes
<1>3. local.pc = label /\ local.todo = rest /\ local.outcomes = told /\ local.stage = "first"
  BY DEF Idle
<1>4. local \in Local
  <2>1. label \in Labels
    BY DEF After, Labels, InRun, AtRest
  <2>2. NoTarget \in Seen
    BY DEF NoTarget, NoAttempt, Attempts, Seen
  <2>3. <<>> \in Seq(Record)
    OBVIOUS
  <2>4. Idle \in Local
    <3>1. "idle" \in Labels
      BY DEF Labels, AtRest
    <3>2. <<>> \in Outcomes
      BY DEF Outcomes
    <3> QED
      BY <2>2, <2>3, <3>1, <3>2 DEF Idle, Local, RunStates
  <2> HIDE DEF rest, told, label
  <2> QED
    BY ONLY <1>1, <1>2, <2>1, <2>4 DEF Local
<1>5. proc' = [proc EXCEPT ![p] = local]
  BY DEF Ended, Put
<1>6. lock.runtime = p
  BY DEF LockInv
<1>7. IF rest = <<>> THEN lock' = [lock EXCEPT !.runtime = Nobody] ELSE lock' = lock
  BY <1>6 DEF Ended
<1> HIDE DEF local
<1>8. proc'[p] = local /\ Alone(p)
  BY <1>4, <1>5 DEF RunsTyped, Alone
<1> QED
  BY <1>2, <1>3, <1>7, <1>8 DEF Finished

\* Where the inspect of a target sends its run.
Sent(p) ==
  LET label == proc'[p].pc
      verb == proc'[p].verb
      seen == proc[p].seen
  IN  \/ label = "consume"
      \/ /\ label = IF Project(p).live THEN "own" ELSE "create"
         /\ verb = "started" /\ seen.state = "absent"
      \/ /\ label = IF Project(p).live THEN "own" ELSE "window"
         /\ verb = "retried" /\ seen.state = "there" /\ Pane(Key(p)) = "dead"
      \/ label = "look" /\ proc'[p].stage = "attach" /\ seen.state = "there"
      \/ label = "open" /\ proc[p].stage = "attach"

\* A run that goes on with its project has new locals.
LEMMA MovedTo ==
  ASSUME RunsTyped, NEW p \in Procs, NEW local \in Local, Put(p, local), lock' = lock,
         local.pc \in InRun, local.todo = proc[p].todo, local.outcomes = proc[p].outcomes
  PROVE  Moved(p) /\ proc'[p] = local
BY DEF RunsTyped, Put, Moved, Alone

\* A run that goes on to a label keeps all its other locals.
LEMMA GoOnEffect ==
  ASSUME RunsTyped, NEW p \in Procs, NEW label \in InRun, GoOn(p, label)
  PROVE  Moved(p) /\ proc'[p] = [proc[p] EXCEPT !.pc = label] /\ proc'[p].pc = label
<1> DEFINE local == [proc[p] EXCEPT !.pc = label]
<1>1. label \in Labels
  BY DEF Labels
<1>2. /\ local \in Local /\ local.pc = label
      /\ local.todo = proc[p].todo /\ local.outcomes = proc[p].outcomes
  BY <1>1 DEF RunsTyped, Local
<1>3. Put(p, local) /\ lock' = lock
  BY DEF GoOn, Goto
<1> HIDE DEF local
<1>4. Moved(p) /\ proc'[p] = local
  BY <1>2, <1>3, MovedTo
<1> QED
  BY <1>2, <1>4 DEF local

\* The inspect of a target ends the run's work on its project or sends it on.
LEMMA PanesEffect ==
  ASSUME RunsTyped, LockInv, CourseInv, NEW p \in Procs, Panes(p)
  PROVE  /\ UNCHANGED <<console, mapping, launcher, record, faults, interrupted>>
         /\ Finished(p) \/ (Moved(p) /\ Sent(p))
<1> DEFINE state == TargetState(p)
           seen == proc[p].seen
<1>1. proc[p].pc = "panes" /\ proc[p].pc \in InRun
  BY DEF Panes, At, InRun
<1>2. proc[p] \in Local /\ seen \in Seen /\ proc[p].verb \in RunStates
      /\ proc[p].stage \in {"first", "attach", "opened"}
  BY DEF RunsTyped, Local
<1>3. seen.state \in {"there", "absent"} /\ NoTarget \in Seen
  BY <1>2 DEF Seen, NoTarget, NoAttempt, Attempts
<1>4. /\ state \in {"absent", "exited", "attached", "detached"}
      /\ state = "absent" <=> seen.state = "absent"
      /\ state = "exited" => seen.state = "there" /\ Pane(Key(p)) = "dead"
  BY <1>3 DEF TargetState
<1>5. ASSUME NEW outcome \in RunStates, Ended(p, outcome) PROVE Finished(p)
  BY <1>1, <1>5, EndedEffect
<1>6. ASSUME NEW verb \in RunStates, NEW label \in InRun, Decide(p, verb, label)
      PROVE  Moved(p) /\ proc'[p].pc = label /\ proc'[p].verb = verb
  <2> DEFINE local == [proc[p] EXCEPT !.pc = label, !.verb = verb,
                                      !.seen = IF label = "consume" THEN @ ELSE NoTarget]
  <2>1. label \in Labels
    BY DEF Labels
  <2>2. /\ local \in Local /\ local.pc = label /\ local.verb = verb
        /\ local.todo = proc[p].todo /\ local.outcomes = proc[p].outcomes
    BY <1>2, <1>3, <2>1 DEF Local
  <2>3. Put(p, local) /\ lock' = lock
    BY <1>6 DEF Decide
  <2> HIDE DEF local
  <2> QED
    BY <2>2, <2>3, MovedTo
<1>7. ASSUME NEW verb \in RunStates, Decide(p, verb, "consume") PROVE Moved(p) /\ Sent(p)
  BY <1>6, <1>7 DEF Sent, InRun
<1>8. ASSUME Launch(p, "started"), seen.state = "absent" PROVE Moved(p) /\ Sent(p)
  BY <1>6, <1>8 DEF Launch, Sent, InRun, RunStates
<1>9. ASSUME Launch(p, "retried"), state = "exited" PROVE Moved(p) /\ Sent(p)
  BY <1>4, <1>6, <1>9 DEF Launch, Sent, InRun, RunStates
<1>10. ASSUME Put(p, [proc[p] EXCEPT !.pc = "look", !.stage = "attach", !.verb = "reattached"]),
              lock' = lock, seen.state = "there"
       PROVE  Moved(p) /\ Sent(p)
  <2> DEFINE local == [proc[p] EXCEPT !.pc = "look", !.stage = "attach", !.verb = "reattached"]
  <2>1. "look" \in InRun /\ "look" \in Labels /\ "reattached" \in RunStates
    BY DEF InRun, Labels, RunStates
  <2>2. /\ local \in Local /\ local.pc = "look" /\ local.stage = "attach"
        /\ local.todo = proc[p].todo /\ local.outcomes = proc[p].outcomes
    BY <1>2, <2>1 DEF Local
  <2> HIDE DEF local
  <2>3. Moved(p) /\ proc'[p] = local
    BY <1>10, <2>1, <2>2, MovedTo DEF local
  <2> QED
    BY <1>10, <2>2, <2>3 DEF Sent
<1>11. ASSUME GoOn(p, "open"), proc[p].stage = "attach" PROVE Moved(p) /\ Sent(p)
  BY <1>11, GoOnEffect DEF Sent, InRun
<1>12. {"failed", "reused", "pending", proc[p].verb} \subseteq RunStates
  BY <1>2 DEF RunStates
<1>13. ASSUME proc[p].stage = "first" PROVE Finished(p) \/ (Moved(p) /\ Sent(p))
  <2>1. DecideFirst(p, state)
    BY <1>13 DEF Panes
  <2>2. CASE state = "absent"
    BY <1>4, <1>8, <2>1, <2>2 DEF DecideFirst
  <2>3. CASE state # "absent" /\ seen.meta # "own"
    BY <1>5, <1>12, <2>1, <2>3 DEF DecideFirst
  <2>4. CASE state # "absent" /\ seen.meta = "own"
    <3>1. CASE state = "attached"
      BY <1>5, <1>7, <1>12, <2>1, <2>4, <3>1 DEF DecideFirst
    <3>2. CASE state # "attached" /\ FailedAttempt(p)
      BY <1>7, <1>12, <2>1, <2>4, <3>2 DEF DecideFirst
    <3>3. CASE state = "exited" /\ ~FailedAttempt(p)
      BY <1>9, <2>1, <2>4, <3>3 DEF DecideFirst
    <3>4. CASE state \notin {"attached", "exited"} /\ ~FailedAttempt(p)
      BY <1>3, <1>4, <1>5, <1>10, <1>12, <2>1, <2>4, <3>4 DEF DecideFirst
    <3> QED
      BY <3>1, <3>2, <3>3, <3>4
  <2> QED
    BY <2>2, <2>3, <2>4
<1>14. ASSUME proc[p].stage # "first" PROVE Finished(p) \/ (Moved(p) /\ Sent(p))
  <2>1. DecideLater(p, state)
    BY <1>14 DEF Panes
  <2>2. CASE state = "attached"
    BY <1>5, <1>7, <1>12, <2>1, <2>2 DEF DecideLater
  <2>3. CASE state # "attached" /\ FailedAttempt(p)
    BY <1>7, <1>12, <2>1, <2>3 DEF DecideLater
  <2>4. CASE state # "attached" /\ ~FailedAttempt(p)
    BY <1>5, <1>11, <1>12, <2>1, <2>4 DEF DecideLater
  <2> QED
    BY <2>2, <2>3, <2>4
<1> QED
  BY <1>13, <1>14 DEF Panes, Untouched, Unfaulted

\* A step of a run that holds the runtime's lock.
InRunStep(p) ==
  \/ Look(p) \/ Panes(p) \/ Consume(p) \/ CheckOwner(p) \/ Create(p) \/ Await(p)
  \/ ReadWindow(p) \/ StartProvider(p) \/ SelectProvider(p) \/ DiscardWindow(p)
  \/ OpenViewer(p) \/ OpenViewerFails(p) \/ ClearToken(p) \/ CommandFails(p)

\* Such a step is taken under the lock.
LEMMA InRunSteps ==
  ASSUME NEW p \in Procs, InRunStep(p)
  PROVE  proc[p].pc \in InRun /\ UNCHANGED <<mapping, launcher, record>>
BY DEF InRunStep, Look, Panes, Consume, CheckOwner, Create, Await, ReadWindow, StartProvider,
       SelectProvider, DiscardWindow, OpenViewer, OpenViewerFails, ClearToken, CommandFails,
       At, InRun, Untouched

\* What the steps that write locals write.
LEMMA StepLocals ==
  ASSUME Typed, SceneInv, CourseInv, NEW p \in Procs
  PROVE  /\ Look(p) =>
              /\ Moved(p) /\ proc'[p].pc = "panes" /\ proc'[p].stage = proc[p].stage
              /\ proc'[p].seen.state = "there" <=> Exists(Key(p))
         /\ ReadWindow(p) =>
              Moved(p) /\ proc'[p].pc = "provider" /\ proc'[p].old = session[Key(p)].current
         /\ StartProvider(p) =>
              /\ Moved(p) /\ proc'[p].pc = "select" /\ proc'[p].old = proc[p].old
              /\ proc'[p].new = NextWindow(Key(p))
         /\ DiscardWindow(p) =>
              Moved(p) /\ proc'[p].pc = "look" /\ proc'[p].stage = "attach"
         /\ OpenViewer(p) =>
              Moved(p) /\ proc'[p].pc = "look" /\ proc'[p].stage = "opened"
<1> DEFINE k == Key(p)
<1>1. RunsTyped /\ ConsoleTyped /\ proc[p] \in Local
  BY DEF Typed, RunsTyped
<1>2. proc[p].pc \in InRun => k \in Keys /\ session[k] \in SessionRecord
  BY <1>1, RunFacts DEF ConsoleTyped
<1>3. {"panes", "provider", "select", "look"} \subseteq InRun /\ InRun \subseteq Labels
  BY DEF InRun, Labels
<1> HIDE DEF k
<1>4. ASSUME Look(p)
      PROVE  /\ Moved(p) /\ proc'[p].pc = "panes" /\ proc'[p].stage = proc[p].stage
             /\ proc'[p].seen.state = "there" <=> Exists(k)
  <2> DEFINE saw == IF Exists(k)
                    THEN [state |-> "there", meta |-> session[k].meta,
                          attempt |-> session[k].attempt]
                    ELSE NoTarget
             local == [proc[p] EXCEPT !.pc = "panes", !.seen = saw]
  <2>1. saw \in Seen /\ (saw.state = "there" <=> Exists(k))
    <3>1. proc[p].pc \in InRun
      BY <1>4 DEF Look, At, InRun
    <3>2. NoTarget \in Seen /\ NoTarget.state = "absent"
      BY DEF NoTarget, Seen, NoAttempt, Attempts
    <3>3. session[k].meta \in {"none", "own"} /\ session[k].attempt \in Attempts
      BY <1>2, <3>1 DEF SessionRecord
    <3> QED
      BY <3>2, <3>3 DEF Seen
  <2> HIDE DEF saw
  <2>2. /\ local \in Local /\ local.pc = "panes" /\ local.stage = proc[p].stage
        /\ local.seen = saw /\ local.todo = proc[p].todo /\ local.outcomes = proc[p].outcomes
    BY <1>1, <1>3, <2>1 DEF Local
  <2>3. Put(p, local) /\ lock' = lock
    BY <1>4 DEF Look, saw, k
  <2> HIDE DEF local
  <2>4. Moved(p) /\ proc'[p] = local
    BY <1>1, <1>3, <2>2, <2>3, MovedTo
  <2> QED
    BY <2>1, <2>2, <2>4
<1>5. ASSUME ReadWindow(p)
      PROVE  Moved(p) /\ proc'[p].pc = "provider" /\ proc'[p].old = session[k].current
  <2> DEFINE local == [proc[p] EXCEPT !.pc = "provider", !.old = session[k].current]
  <2>1. session[k].current \in Nat
    BY <1>2, <1>5 DEF ReadWindow, At, InRun, SessionRecord
  <2>2. /\ local \in Local /\ local.pc = "provider" /\ local.old = session[k].current
        /\ local.todo = proc[p].todo /\ local.outcomes = proc[p].outcomes
    BY <1>1, <1>3, <2>1 DEF Local
  <2>3. Put(p, local) /\ lock' = lock
    BY <1>5 DEF ReadWindow, k
  <2> HIDE DEF local
  <2> QED
    BY <1>1, <1>3, <2>2, <2>3, MovedTo
<1>6. ASSUME StartProvider(p)
      PROVE  /\ Moved(p) /\ proc'[p].pc = "select" /\ proc'[p].old = proc[p].old
             /\ proc'[p].new = NextWindow(k)
  <2> DEFINE local == [proc[p] EXCEPT !.pc = "select", !.new = NextWindow(k)]
  <2>1. proc[p].pc = "provider" /\ proc[p].pc \in InRun
    BY <1>6 DEF StartProvider, At, InRun
  <2>2. Exists(k)
    BY <2>1 DEF SceneInv, Launching, k
  <2>3. NextWindow(k) \in Nat
    BY <1>1, <1>2, <1>6, <2>1, <2>2, StartEffect DEF StartProvider, k
  <2>4. /\ local \in Local /\ local.pc = "select" /\ local.old = proc[p].old
        /\ local.new = NextWindow(k)
        /\ local.todo = proc[p].todo /\ local.outcomes = proc[p].outcomes
    BY <1>1, <1>3, <2>3 DEF Local
  <2>5. Put(p, local) /\ lock' = lock
    BY <1>6 DEF StartProvider, k
  <2> HIDE DEF local
  <2> QED
    BY <1>1, <1>3, <2>4, <2>5, MovedTo
<1>7. ASSUME NEW stage \in {"attach", "opened"}, lock' = lock,
             Put(p, [proc[p] EXCEPT !.pc = "look", !.stage = stage])
      PROVE  Moved(p) /\ proc'[p].pc = "look" /\ proc'[p].stage = stage
  <2> DEFINE local == [proc[p] EXCEPT !.pc = "look", !.stage = stage]
  <2>1. /\ local \in Local /\ local.pc = "look" /\ local.stage = stage
        /\ local.todo = proc[p].todo /\ local.outcomes = proc[p].outcomes
    BY <1>1, <1>3, <1>7 DEF Local
  <2>2. Put(p, local) /\ lock' = lock
    BY <1>7
  <2> HIDE DEF local
  <2> QED
    BY <1>1, <1>3, <2>1, <2>2, MovedTo
<1>8. DiscardWindow(p) => Moved(p) /\ proc'[p].pc = "look" /\ proc'[p].stage = "attach"
  BY <1>7 DEF DiscardWindow
<1>9. OpenViewer(p) => Moved(p) /\ proc'[p].pc = "look" /\ proc'[p].stage = "opened"
  BY <1>7 DEF OpenViewer
<1> QED
  BY <1>4, <1>5, <1>6, <1>8, <1>9 DEF k

\* Every other step of a run goes on to a label or ends the work on its project.
LEMMA StepLabels ==
  ASSUME Typed, LockInv, CourseInv, NEW p \in Procs
  PROVE  /\ Consume(p) \/ ClearToken(p) \/ CommandFails(p) => Finished(p)
         /\ CheckOwner(p) =>
              \/ Finished(p)
              \/ /\ Moved(p) /\ Ownership(Key(p)) = "absent"
                 /\ proc'[p].pc = IF proc[p].verb = "started" THEN "create" ELSE "window"
         /\ Create(p) => Moved(p) /\ proc'[p].pc = "await"
         /\ Await(p) => Moved(p) /\ proc'[p].pc = "window"
         /\ SelectProvider(p) =>
              Moved(p) /\ proc'[p].pc = "discard" /\ proc'[p].old = proc[p].old
              /\ proc'[p].new = proc[p].new
         /\ OpenViewerFails(p) => Moved(p) /\ proc'[p].pc = "unqueue"
<1>1. RunsTyped /\ proc[p] \in Local
  BY DEF Typed, RunsTyped
<1>2. {"create", "await", "window", "discard", "unqueue"} \subseteq InRun
  BY DEF InRun
<1>3. ASSUME NEW label \in InRun, GoOn(p, label)
      PROVE  Moved(p) /\ proc'[p].pc = label /\ proc'[p].old = proc[p].old
             /\ proc'[p].new = proc[p].new
  BY <1>1, <1>3, GoOnEffect DEF Local
<1>4. Consume(p) \/ ClearToken(p) \/ CommandFails(p) => Finished(p)
  <2>1. {"failed", proc[p].verb} \subseteq RunStates
    BY <1>1 DEF RunStates, Local
  <2>2. Consume(p) \/ ClearToken(p) \/ CommandFails(p) =>
          proc[p].pc \in InRun /\ \E outcome \in RunStates : Ended(p, outcome)
    BY <2>1 DEF Consume, ClearToken, CommandFails, At, InRun
  <2> QED
    BY <1>1, <2>2, EndedEffect
<1>5. CheckOwner(p) =>
        \/ Finished(p)
        \/ /\ Moved(p) /\ Ownership(Key(p)) = "absent"
           /\ proc'[p].pc = IF proc[p].verb = "started" THEN "create" ELSE "window"
  <2>1. Ownership(Key(p)) \in {"live", "unknown", "absent"}
    BY DEF Ownership
  <2>2. {"external", "unknown"} \subseteq RunStates
    BY DEF RunStates
  <2>3. CheckOwner(p) => proc[p].pc \in InRun
    BY DEF CheckOwner, At, InRun
  <2>4. CASE Ownership(Key(p)) = "absent"
    BY <1>2, <1>3, <2>4 DEF CheckOwner
  <2>5. CASE Ownership(Key(p)) # "absent"
    BY <1>1, <2>1, <2>2, <2>3, <2>5, EndedEffect DEF CheckOwner
  <2> QED
    BY <2>4, <2>5
<1>6. /\ Create(p) => GoOn(p, "await")
      /\ Await(p) => GoOn(p, "window")
      /\ SelectProvider(p) => GoOn(p, "discard")
      /\ OpenViewerFails(p) => GoOn(p, "unqueue")
  BY DEF Create, Await, SelectProvider, OpenViewerFails
<1> QED
  BY <1>2, <1>3, <1>4, <1>5, <1>6

\* A step under the runtime's lock goes on with its project or ends it.
LEMMA InRunEffect ==
  ASSUME Typed, LockInv, CourseInv, SceneInv, NEW p \in Procs, InRunStep(p)
  PROVE  Finished(p) \/ Moved(p)
<1>1. RunsTyped
  BY DEF Typed
<1> QED
  BY <1>1, StepLocals, StepLabels, PanesEffect DEF InRunStep

----------------------------------------------------------------------------
(* The types.                                                              *)

\* A run changes at most the session it works on.
LEMMA InRunConsole ==
  ASSUME Typed, CourseInv, SceneInv, NEW p \in Procs, InRunStep(p)
  PROVE  /\ ConsoleTyped' /\ Rewritten(Key(p))
         /\ native' = native /\ changes' = changes
<1> DEFINE k == Key(p)
<1>1. ConsoleTyped /\ RunsTyped /\ k \in Keys /\ Token(p) \in Tokens /\ KeyOf[Token(p)] = k
  BY InRunSteps, RunFacts DEF Typed
<1>2. NoAttempt \in Attempts
  BY DEF NoAttempt, Attempts
<1>3. SUFFICES Rewritten(k) /\ viewer' \in [Tokens -> Viewers]
               /\ native' = native /\ changes' = changes
  BY <1>1 DEF ConsoleTyped, Rewritten
<1> HIDE DEF k
<1>4. CASE Consume(p)
  BY <1>1, <1>2, <1>4, SetAttemptEffect DEF Consume, ConsoleTyped, k
<1>5. CASE ClearToken(p)
  BY <1>1, <1>2, <1>5, SetAttemptEffect DEF ClearToken, ConsoleTyped, k
<1>6. CASE Create(p)
  BY <1>1, <1>6, CreateEffect DEF Create, ConsoleTyped, k
<1>7. CASE StartProvider(p)
  <2>1. Exists(k)
    BY <1>7 DEF StartProvider, At, SceneInv, Launching, InRun, k
  <2>2. StartWindow(k)
    BY <1>7 DEF StartProvider, k
  <2>3. Rewritten(k)
    BY <1>1, <2>1, <2>2, StartEffect
  <2> QED
    BY <1>1, <1>7, <2>3 DEF StartProvider, ConsoleTyped
<1>8. CASE SelectProvider(p)
  <2>1. proc[p].new \in Nat
    BY <1>1 DEF RunsTyped, Local
  <2> QED
    BY <1>1, <1>8, <2>1, SelectEffect DEF SelectProvider, ConsoleTyped, k
<1>9. CASE DiscardWindow(p)
  <2>1. /\ proc[p].new \in DOMAIN session[k].windows /\ proc[p].old # proc[p].new
        /\ \A w \in DOMAIN session[k].windows : w <= proc[p].new
    <3>1. proc[p].old < proc[p].new /\ proc[p].old \in Nat /\ proc[p].new \in Nat
      BY <1>1, <1>9 DEF DiscardWindow, At, SceneInv, InRun, RunsTyped, Local
    <3> QED
      BY <1>9, <3>1 DEF DiscardWindow, At, SceneInv, InRun, k
  <2>2. KillWindow(k, proc[p].old)
    BY <1>9 DEF DiscardWindow, k
  <2>3. Rewritten(k)
    BY <1>1, <2>1, <2>2, KillWindowEffect
  <2> QED
    BY <1>1, <1>9, <2>3 DEF DiscardWindow, ConsoleTyped
<1>10. CASE OpenViewer(p) \/ OpenViewerFails(p)
  <2>1. Enqueue(Token(p)) \/ EnqueueHalf(Token(p))
    BY <1>10 DEF OpenViewer, OpenViewerFails
  <2>2. Rewritten(k) /\ viewer' \in [Tokens -> Viewers]
    BY <1>1, <2>1, EnqueueEffect
  <2> QED
    BY <1>10, <2>2 DEF OpenViewer, OpenViewerFails
<1>11. CASE Look(p) \/ Panes(p) \/ CheckOwner(p) \/ Await(p) \/ ReadWindow(p) \/ CommandFails(p)
  <2>1. UNCHANGED console
    BY <1>11 DEF Look, Panes, CheckOwner, Await, ReadWindow, CommandFails
  <2> QED
    BY <1>1, <2>1 DEF console, ConsoleTyped, Rewritten
<1> QED
  BY <1>4, <1>5, <1>6, <1>7, <1>8, <1>9, <1>10, <1>11 DEF InRunStep

\* The attempt of a token's session changes with its viewer.
LEMMA ViewerEffect ==
  ASSUME ConsoleTyped, NEW t \in Tokens, ViewerStep(t) \/ CloseViewer(t)
  PROVE  /\ KeyOf[t] \in Keys /\ Rewritten(KeyOf[t]) /\ viewer' \in [Tokens -> Viewers]
         /\ \A u \in Tokens : u # t => viewer'[u] = viewer[u]
         /\ native' = native /\ changes'.opened = changes.opened
         /\ changes' \in [left : Nat, opened : [Keys -> Nat]]
         /\ SameWindows(session'[KeyOf[t]], session[KeyOf[t]])
         /\ session'[KeyOf[t]].meta = session[KeyOf[t]].meta
<1> DEFINE k == KeyOf[t]
<1>1. k \in Keys
  BY ConsoleAssumption
<1>2. \A state \in {"accepted", "failed"} : Attempt(state, t) \in Attempts
  BY DEF Attempt, Attempts
<1>3. NoAttempt \in Attempts
  BY DEF NoAttempt, Attempts
<1>4. \E s \in Viewers : viewer' = [viewer EXCEPT ![t] = s]
  BY DEF ViewerStep, Attach, Confirm, ViewerFails, CloseViewer, SweepPending, SweepAccepted,
         Viewers
<1>5. viewer' \in [Tokens -> Viewers] /\ \A u \in Tokens : u # t => viewer'[u] = viewer[u]
  BY <1>4 DEF ConsoleTyped
<1>6. native' = native
  BY DEF ViewerStep, Attach, Confirm, ViewerFails, CloseViewer, SweepPending, SweepAccepted
<1>7. changes' \in [left : Nat, opened : [Keys -> Nat]] /\ changes'.opened = changes.opened
  <2>1. CASE CloseViewer(t)
    BY <2>1 DEF CloseViewer, ConsoleTyped
  <2>2. CASE ViewerStep(t)
    BY <2>2 DEF ViewerStep, Attach, Confirm, ViewerFails, SweepPending, SweepAccepted,
                ConsoleTyped
  <2> QED
    BY <2>1, <2>2
<1> HIDE DEF k
<1>8. Rewritten(k) /\ SameWindows(session'[k], session[k]) /\ session'[k].meta = session[k].meta
  <2>1. CASE session' = session
    BY <1>1, <2>1 DEF ConsoleTyped, Rewritten, SameWindows
  <2>2. CASE \E from : \E to \in Attempts : SetAttempt(k, from, to)
    BY <1>1, <2>2, SetAttemptEffect
  <2> QED
    BY <1>2, <1>3, <2>1, <2>2
    DEF ViewerStep, Attach, Confirm, ViewerFails, CloseViewer, SweepPending, SweepAccepted, k
<1> QED
  BY <1>1, <1>5, <1>6, <1>7, <1>8 DEF k

\* What people, providers and setup shells do to one project.
KeyStep(k) == SetUp(k) \/ SetupExits(k) \/ ProviderExits(k) \/ NativeExits(k) \/ NativeChanges(k)

\* They change its metadata, leave dead panes, or change the processes outside
\* tmux; nothing makes a process a handed-over one.
LEMMA KeyEffect ==
  ASSUME ConsoleTyped, NEW k \in Keys, KeyStep(k)
  PROVE  /\ Rewritten(k) /\ viewer' = viewer
         /\ DOMAIN session'[k].windows = DOMAIN session[k].windows
         /\ \A w \in DOMAIN session[k].windows :
              session'[k].windows[w] \in {session[k].windows[w], "dead"}
         /\ session'[k].current = session[k].current
         /\ session'[k].attempt = session[k].attempt
         /\ native' \in [Keys -> SUBSET Natives]
         /\ \A j \in Keys : "registered" \in native'[j] => "registered" \in native[j]
         /\ changes' \in [left : Nat, opened : [Keys -> Nat]]
         /\ \A j \in Keys : changes'.opened[j] >= changes.opened[j]
         /\ \A j \in Keys : "byHand" \in native'[j] =>
              "byHand" \in native[j] \/ changes'.opened[j] >= 1
<1>1. CASE SetUp(k)
  <2>1. session' = [session EXCEPT ![k].meta = "own"] /\ UNCHANGED <<viewer, native, changes>>
    BY <1>1 DEF SetUp
  <2> QED
    BY <2>1 DEF ConsoleTyped, Rewritten, SessionRecord
<1>2. CASE SetupExits(k) \/ ProviderExits(k)
  <2>1. \E w \in DOMAIN session[k].windows : LeavesDeadPane(k, w)
    BY <1>2 DEF SetupExits, ProviderExits, Heads, LeavesDeadPane
  <2>2. viewer' = viewer /\ native' = native
    BY <1>2 DEF SetupExits, ProviderExits
  <2>3. changes' \in [left : Nat, opened : [Keys -> Nat]] /\ changes'.opened = changes.opened
    BY <1>2 DEF SetupExits, ProviderExits, ConsoleTyped
  <2>4. \A j \in Keys : changes'.opened[j] >= changes.opened[j]
    BY <2>3 DEF ConsoleTyped
  <2>5. /\ Rewritten(k)
        /\ DOMAIN session'[k].windows = DOMAIN session[k].windows
        /\ \A w \in DOMAIN session[k].windows :
             session'[k].windows[w] \in {session[k].windows[w], "dead"}
        /\ session'[k].current = session[k].current
        /\ session'[k].attempt = session[k].attempt
    <3>1. PICK w \in DOMAIN session[k].windows : LeavesDeadPane(k, w)
      BY <2>1
    <3> QED
      BY <3>1, DeadPaneEffect
  <2> QED
    BY <2>2, <2>3, <2>4, <2>5 DEF ConsoleTyped
<1>3. CASE NativeExits(k)
  <2>1. PICK n \in native[k] : native' = [native EXCEPT ![k] = @ \ {n}]
    BY <1>3 DEF NativeExits
  <2>2. changes' = [changes EXCEPT !.left = @ - 1] /\ changes.left > 0
        /\ UNCHANGED <<session, viewer>>
    BY <1>3 DEF NativeExits
  <2> QED
    BY <2>1, <2>2 DEF ConsoleTyped, Rewritten
<1>4. CASE NativeChanges(k)
  <2>1. changes.left > 0 /\ UNCHANGED <<session, viewer>>
    BY <1>4 DEF NativeChanges
  <2>2. CASE /\ native' = [native EXCEPT ![k] = @ \cup {"byHand"}]
             /\ changes' = [changes EXCEPT !.left = @ - 1, !.opened[k] = @ + 1]
    <3>1. changes'.opened = [changes.opened EXCEPT ![k] = @ + 1] /\ changes'.left = changes.left - 1
          /\ changes' \in [left : Nat, opened : [Keys -> Nat]]
      <4>1. [changes EXCEPT !.left = @ - 1] = [left |-> changes.left - 1, opened |-> changes.opened]
        BY DEF ConsoleTyped
      <4>2. changes' = [left |-> changes.left - 1,
                        opened |-> [changes.opened EXCEPT ![k] = @ + 1]]
        BY <2>2, <4>1
      <4> QED
        BY <2>1, <4>2 DEF ConsoleTyped
    <3>2. \A j \in Keys : changes'.opened[j] >= changes.opened[j]
      BY <3>1 DEF ConsoleTyped
    <3>3. changes'.opened[k] >= 1
      BY <3>1 DEF ConsoleTyped
    <3> QED
      BY <2>1, <2>2, <3>1, <3>2, <3>3 DEF ConsoleTyped, Rewritten, Natives
  <2>3. CASE /\ native' = [native EXCEPT ![k] = (@ \ {"registered"}) \cup {"replaced"}]
             /\ changes' = [changes EXCEPT !.left = @ - 1]
    BY <2>1, <2>3 DEF ConsoleTyped, Rewritten, Natives
  <2>4. CASE /\ native' = [native EXCEPT ![k] = @ \cup {"unreadable"}]
             /\ changes' = [changes EXCEPT !.left = @ - 1]
    BY <2>1, <2>4 DEF ConsoleTyped, Rewritten, Natives
  <2> QED
    BY <1>4, <2>2, <2>3, <2>4 DEF NativeChanges
<1> QED
  BY <1>1, <1>2, <1>3, <1>4 DEF KeyStep

----------------------------------------------------------------------------
(* What registrations, logins and the start of a run do.                   *)

\* A command that goes to a label keeps its other locals.
LEMMA GotoEffect ==
  ASSUME RunsTyped, NEW p \in Procs, NEW label \in Labels, Goto(p, label)
  PROVE  /\ Alone(p) /\ proc'[p].pc = label
         /\ proc'[p].todo = proc[p].todo /\ proc'[p].outcomes = proc[p].outcomes
         /\ proc'[p].known = proc[p].known /\ proc'[p].stage = proc[p].stage
BY DEF RunsTyped, Local, Goto, Put, Alone

\* An admitted record is put behind the others.
LEMMA RegisteredFacts ==
  ASSUME NEW known \in Seq(Record), NEW r \in Record, AdmitsRegistration(known, r)
  PROVE  LET after == Registered(known, r)
         IN  /\ after \in Seq(Record) /\ after # <<>>
             /\ DOMAIN after = DOMAIN known \cup {Len(known) + 1} /\ after[Len(known) + 1] = r
             /\ \A i \in DOMAIN known : after[i] = known[i]
<1>1. ~ \E i \in DOMAIN known : known[i].key = r.key
  BY DEF AdmitsRegistration
<1>2. Registered(known, r) = Append(known, r)
  BY <1>1 DEF Registered
<1>3. /\ Append(known, r) \in Seq(Record)
      /\ Len(Append(known, r)) = Len(known) + 1
      /\ Append(known, r)[Len(known) + 1] = r
      /\ \A i \in 1 .. Len(known) : Append(known, r)[i] = known[i]
  BY AppendProperties
<1>4. Len(known) \in Nat /\ DOMAIN known = 1 .. Len(known)
  OBVIOUS
<1>5. DOMAIN Append(known, r) = 1 .. Len(known) + 1
  BY <1>3, <1>4
<1> HIDE DEF Registered
<1>6. Append(known, r) # <<>>
  BY <1>3, <1>4, LenProperties, EmptySeq
<1> QED
  BY <1>2, <1>3, <1>4, <1>5, <1>6

\* A login works off the whole mapping, a run the record of its key.
LEMMA SelectedFacts ==
  ASSUME NEW p \in Procs, mapping \in Seq(Record)
  PROVE  /\ Selected(p) \in Seq(Record)
         /\ \A i \in DOMAIN Selected(p) : \E j \in DOMAIN mapping : Selected(p)[i] = mapping[j]
         /\ Is(p, {"login"}) => Selected(p) = mapping
         /\ ~Is(p, {"login"}) => \A i \in DOMAIN Selected(p) : Selected(p)[i].key = Job[p].key
<1> DEFINE there == {i \in DOMAIN mapping : mapping[i].key = Job[p].key}
<1>1. CASE Is(p, {"login"})
  BY <1>1 DEF Selected
<1>2. CASE ~Is(p, {"login"}) /\ there = {}
  BY <1>2 DEF Selected
<1>3. CASE ~Is(p, {"login"}) /\ there # {}
  <2> DEFINE n == CHOOSE i \in there : TRUE
  <2>1. n \in there
    BY <1>3
  <2>2. Selected(p) = <<mapping[n]>>
    BY <1>3 DEF Selected
  <2> HIDE DEF n
  <2> QED
    BY <1>3, <2>1, <2>2
<1> QED
  BY <1>1, <1>2, <1>3

\* What a command that holds no project does.
FileStep(p) ==
  \/ ValidateLive(p) \/ LockMapping(p) \/ WriteMapping(p) \/ EnableLogin(p) \/ DisableLogin(p)
  \/ BeginLogin(p) \/ CompleteLogin(p) \/ LoadConfig(p) \/ LockRuntime(p)

\* It leaves the consoles alone.
Quiet(p) ==
  /\ Alone(p)
  /\ proc'[p].outcomes = proc[p].outcomes /\ proc'[p].stage = proc[p].stage
  /\ UNCHANGED <<console, faults, interrupted>>
  /\ proc[p].pc \notin InRun

Goes(p, labels) == Quiet(p) /\ proc'[p].pc \in labels /\ proc'[p].todo = proc[p].todo

\* Where it goes, what it is to do and what it knows.
LEMMA FileLocals ==
  ASSUME Typed, NEW p \in Procs
  PROVE  /\ ValidateLive(p) => Goes(p, {"refused", "lock mapping"})
         /\ LockMapping(p) => Goes(p, {"write mapping"}) /\ proc'[p].known = mapping
         /\ WriteMapping(p) => Goes(p, {"registered", "refused"})
         /\ EnableLogin(p) \/ DisableLogin(p) => Goes(p, {"refused", "done"})
         /\ BeginLogin(p) => Goes(p, {"load"})
         /\ CompleteLogin(p) => Goes(p, {"done"})
         /\ LockRuntime(p) => Goes(p, {"look"})
         /\ LoadConfig(p) =>
              /\ Quiet(p) /\ proc'[p].todo = Selected(p)
              /\ proc'[p].pc = IF Selected(p) # <<>> THEN "lock runtime"
                               ELSE IF Is(p, {"login"}) THEN "complete" ELSE "refused"
<1>1. RunsTyped /\ mapping \in Seq(Record) /\ proc[p] \in Local
  BY DEF Typed, FilesTyped, RunsTyped
<1>2. {"refused", "registered", "done", "load", "lock mapping", "write mapping", "lock runtime",
       "complete", "look"} \subseteq Labels
  BY DEF Labels, InRun, AtRest
<1>3. FileStep(p) => UNCHANGED <<console, faults, interrupted>> /\ proc[p].pc \notin InRun
  BY DEF FileStep, ValidateLive, LockMapping, WriteMapping, EnableLogin, DisableLogin,
         BeginLogin, CompleteLogin, LoadConfig, LockRuntime, At, InRun
<1>4. ASSUME FileStep(p), NEW labels \in SUBSET Labels, NEW label \in labels, Goto(p, label)
      PROVE  Goes(p, labels)
  BY <1>1, <1>3, <1>4, GotoEffect DEF Goes, Quiet
<1>5. ASSUME FileStep(p), NEW local \in Local, Put(p, local),
             local.outcomes = proc[p].outcomes, local.stage = proc[p].stage
      PROVE  Quiet(p) /\ proc'[p] = local
  BY <1>1, <1>3, <1>5 DEF Quiet, Put, Alone, RunsTyped
<1>6. ValidateLive(p) => Goes(p, {"refused", "lock mapping"})
  BY <1>2, <1>4 DEF FileStep, ValidateLive
<1>7. LockMapping(p) => Goes(p, {"write mapping"}) /\ proc'[p].known = mapping
  <2> DEFINE local == [proc[p] EXCEPT !.pc = "write mapping", !.known = mapping]
  <2>1. /\ local \in Local /\ local.pc = "write mapping" /\ local.known = mapping
        /\ local.todo = proc[p].todo /\ local.outcomes = proc[p].outcomes
        /\ local.stage = proc[p].stage
    BY <1>1, <1>2 DEF Local
  <2>2. LockMapping(p) => FileStep(p) /\ Put(p, local)
    BY DEF FileStep, LockMapping
  <2> HIDE DEF local
  <2> QED
    BY <1>5, <2>1, <2>2 DEF Goes
<1>8. WriteMapping(p) => Goes(p, {"registered", "refused"})
  <2>1. WriteMapping(p) => FileStep(p) /\ \E label \in {"registered", "refused"} : Goto(p, label)
    BY DEF FileStep, WriteMapping
  <2> QED
    BY <1>2, <1>4, <2>1
<1>9. EnableLogin(p) \/ DisableLogin(p) => Goes(p, {"refused", "done"})
  <2>1. EnableLogin(p) \/ DisableLogin(p) =>
          FileStep(p) /\ \E label \in {"refused", "done"} : Goto(p, label)
    BY DEF FileStep, EnableLogin, DisableLogin
  <2> QED
    BY <1>2, <1>4, <2>1
<1>10. /\ BeginLogin(p) => Goes(p, {"load"})
       /\ CompleteLogin(p) => Goes(p, {"done"})
       /\ LockRuntime(p) => Goes(p, {"look"})
  BY <1>2, <1>4 DEF FileStep, BeginLogin, CompleteLogin, LockRuntime
<1>11. LoadConfig(p) =>
         /\ Quiet(p) /\ proc'[p].todo = Selected(p)
         /\ proc'[p].pc = IF Selected(p) # <<>> THEN "lock runtime"
                          ELSE IF Is(p, {"login"}) THEN "complete" ELSE "refused"
  <2> DEFINE label == IF Selected(p) # <<>> THEN "lock runtime"
                      ELSE IF Is(p, {"login"}) THEN "complete" ELSE "refused"
             local == [proc[p] EXCEPT !.todo = Selected(p), !.pc = label]
  <2>1. Selected(p) \in Seq(Record) /\ label \in Labels
    BY <1>1, <1>2, SelectedFacts
  <2> HIDE DEF label
  <2>2. /\ local \in Local /\ local.pc = label /\ local.todo = Selected(p)
        /\ local.outcomes = proc[p].outcomes /\ local.stage = proc[p].stage
    BY <1>1, <2>1 DEF Local
  <2>3. LoadConfig(p) => FileStep(p) /\ Put(p, local)
    BY DEF FileStep, LoadConfig, label
  <2> HIDE DEF local
  <2> QED
    BY <1>5, <2>2, <2>3 DEF label
<1> QED
  BY <1>6, <1>7, <1>8, <1>9, <1>10, <1>11

\* A killed command loses its locks, and nothing else changes but the counts.
LEMMA KillEffect ==
  ASSUME Typed, NEW p \in Procs, Kill(p)
  PROVE  /\ Alone(p) /\ proc'[p] = [proc[p] EXCEPT !.pc = "killed"] /\ proc'[p].pc = "killed"
         /\ proc'[p].todo = proc[p].todo /\ proc'[p].outcomes = proc[p].outcomes
         /\ UNCHANGED <<console, mapping, launcher, record>>
         /\ lock' \in [{"mapping", "runtime", "login"} -> Procs \cup {Nobody}]
         /\ \A which \in {"mapping", "runtime", "login"} :
              lock'[which] = IF lock[which] = p THEN Nobody ELSE lock[which]
         /\ faults' = faults - 1 /\ faults' \in Nat
         /\ Working(p) /\ Interrupts(p)
<1>1. RunsTyped /\ proc[p] \in Local
  BY DEF Typed, RunsTyped
<1>2. "killed" \in Labels
  BY DEF Labels, AtRest
<1>3. Put(p, [proc[p] EXCEPT !.pc = "killed"])
  BY DEF Kill, Goto
<1>4. /\ Alone(p) /\ proc'[p] = [proc[p] EXCEPT !.pc = "killed"] /\ proc'[p].pc = "killed"
      /\ proc'[p].todo = proc[p].todo /\ proc'[p].outcomes = proc[p].outcomes
  BY <1>1, <1>2, <1>3 DEF RunsTyped, Local, Put, Alone
<1>5. /\ lock' = [which \in DOMAIN lock |-> IF lock[which] = p THEN Nobody ELSE lock[which]]
      /\ faults > 0 /\ faults' = faults - 1 /\ Interrupts(p)
      /\ UNCHANGED <<console, mapping, launcher, record>>
  BY DEF Kill, Untouched
<1>6. Working(p)
  BY DEF Kill, Working, InRun
<1> QED
  BY <1>1, <1>4, <1>5, <1>6 DEF RunsTyped

\* After a reboot no session, console, process or lock is left.
LEMMA RebootEffect ==
  ASSUME Typed, Reboot
  PROVE  /\ ConsoleTyped' /\ RunsTyped' /\ UNCHANGED <<mapping, launcher, record, faults>>
         /\ \A p \in Procs :
              /\ proc'[p].pc = IF Working(p) THEN "killed" ELSE proc[p].pc
              /\ proc'[p].todo = proc[p].todo /\ proc'[p].outcomes = proc[p].outcomes
              /\ proc'[p].stage = proc[p].stage
         /\ \A which \in {"mapping", "runtime", "login"} : lock'[which] = Nobody
         /\ \A k \in Keys : DOMAIN session'[k].windows = {} /\ native'[k] = {}
<1>1. NoSession \in SessionRecord /\ DOMAIN NoSession.windows = {}
  <2>1. {} \in Numbered
    BY DEF Numbered
  <2>2. [w \in {} |-> "dead"] \in Layouts
    BY <2>1, LayoutFacts
  <2> QED
    BY <2>2 DEF NoSession, SessionRecord, NoAttempt, Attempts
<1>2. session' \in [Keys -> SessionRecord] /\ \A k \in Keys : DOMAIN session'[k].windows = {}
  BY <1>1 DEF Reboot
<1>3. viewer' \in [Tokens -> Viewers]
  BY DEF Reboot, Viewers
<1>4. native' \in [Keys -> SUBSET Natives] /\ \A k \in Keys : native'[k] = {}
  BY DEF Reboot
<1>5. changes' \in [left : Nat, opened : [Keys -> Nat]]
  BY DEF Reboot, Typed, ConsoleTyped
<1>6. /\ proc' \in [Procs -> Local]
      /\ \A p \in Procs :
           /\ proc'[p].pc = IF Working(p) THEN "killed" ELSE proc[p].pc
           /\ proc'[p].todo = proc[p].todo /\ proc'[p].outcomes = proc[p].outcomes
           /\ proc'[p].stage = proc[p].stage
  <2>1. \A p \in Procs : proc'[p] = IF Working(p) THEN [proc[p] EXCEPT !.pc = "killed"] ELSE proc[p]
    BY DEF Reboot
  <2>2. "killed" \in Labels
    BY DEF Labels, AtRest
  <2>3. \A p \in Procs : proc[p] \in Local
    BY DEF Typed, RunsTyped
  <2>4. \A p \in Procs :
          /\ proc'[p] \in Local
          /\ proc'[p].pc = IF Working(p) THEN "killed" ELSE proc[p].pc
          /\ proc'[p].todo = proc[p].todo /\ proc'[p].outcomes = proc[p].outcomes
          /\ proc'[p].stage = proc[p].stage
    <3> TAKE p \in Procs
    <3>1. CASE Working(p)
      BY <2>1, <2>2, <2>3, <3>1 DEF Local
    <3>2. CASE ~Working(p)
      BY <2>1, <2>3, <3>2
    <3> QED
      BY <3>1, <3>2
  <2>5. proc' = [p \in Procs |-> proc'[p]]
    BY DEF Reboot
  <2> QED
    BY <2>4, <2>5
<1>7. /\ lock' \in [{"mapping", "runtime", "login"} -> Procs \cup {Nobody}]
      /\ \A which \in {"mapping", "runtime", "login"} : lock'[which] = Nobody
  BY DEF Reboot, Typed, RunsTyped
<1>8. interrupted' \in [Keys -> Nat] /\ UNCHANGED <<mapping, launcher, record, faults>>
  BY DEF Reboot, Untouched
<1> QED
  BY <1>2, <1>3, <1>4, <1>5, <1>6, <1>7, <1>8 DEF ConsoleTyped, RunsTyped, Typed

\* What a step is.
LEMMA StepKinds ==
  ASSUME Next
  PROVE  \/ \E p \in Procs : FileStep(p) \/ InRunStep(p) \/ Kill(p)
         \/ \E k \in Keys : KeyStep(k) /\ UNCHANGED workspace
         \/ \E t \in Tokens : (ViewerStep(t) \/ CloseViewer(t)) /\ UNCHANGED workspace
         \/ Reboot
BY DEF Next, ProcStep, RunStep, FileStep, InRunStep, ConsoleStep, KeyStep

\* The counts of faults and of interrupted runs.
LEMMA InRunFaults ==
  ASSUME Typed, CourseInv, NEW p \in Procs, InRunStep(p)
  PROVE  /\ faults' \in Nat /\ faults' <= faults
         /\ OpenViewerFails(p) => faults' = faults - 1 /\ faults' < faults
         /\ \/ interrupted' = interrupted
            \/ CommandFails(p) /\ Interrupts(p)
         /\ interrupted' \in [Keys -> Nat] /\ \A k \in Keys : interrupted'[k] >= interrupted[k]
<1>1. faults \in Nat /\ interrupted \in [Keys -> Nat] /\ Key(p) \in Keys
  BY InRunSteps, RunFacts DEF Typed, RunsTyped
<1>2. CASE OpenViewerFails(p)
  BY <1>1, <1>2 DEF OpenViewerFails
<1>3. CASE CommandFails(p)
  <2>1. faults' = faults - 1 /\ faults > 0 /\ Interrupts(p)
    BY <1>3 DEF CommandFails
  <2>2. interrupted' = interrupted \/ interrupted' = [interrupted EXCEPT ![Key(p)] = @ + 1]
    BY <2>1 DEF Interrupts
  <2>3. OpenViewerFails(p) => faults' < faults
    BY <1>1, <2>1
  <2> QED
    BY <1>1, <1>3, <2>1, <2>2, <2>3
<1>4. CASE ~OpenViewerFails(p) /\ ~CommandFails(p)
  <2>1. faults' = faults /\ interrupted' = interrupted
    BY <1>4 DEF InRunStep, Look, Panes, Consume, CheckOwner, Create, Await, ReadWindow,
       StartProvider, SelectProvider, DiscardWindow, OpenViewer, ClearToken, Unfaulted
  <2> QED
    BY <1>1, <1>4, <2>1
<1> QED
  BY <1>2, <1>3, <1>4

\* A run that is interrupted is counted on its project.
LEMMA InterruptsEffect ==
  ASSUME Typed, CourseInv, NEW p \in Procs, Interrupts(p)
  PROVE  /\ interrupted' \in [Keys -> Nat]
         /\ \A k \in Keys : interrupted'[k] >= interrupted[k]
         /\ At(p, "select") => interrupted'[Key(p)] = interrupted[Key(p)] + 1
<1>1. interrupted \in [Keys -> Nat] /\ RunsTyped
  BY DEF Typed, RunsTyped
<1>2. CASE At(p, "select")
  <2>1. Key(p) \in Keys
    BY <1>1, <1>2, RunFacts DEF At, InRun
  <2> QED
    BY <1>1, <1>2, <2>1 DEF Interrupts
<1>3. CASE ~At(p, "select")
  BY <1>1, <1>3 DEF Interrupts
<1> QED
  BY <1>2, <1>3

\* The types are kept by every step.
LEMMA TypedStep ==
  ASSUME Typed, LockInv, CourseInv, SceneInv, MappingInv, Next
  PROVE  Typed'
<1>1. ASSUME NEW p \in Procs, FileStep(p) PROVE Typed'
  <2>1. Alone(p) /\ UNCHANGED <<console, faults, interrupted>>
    BY <1>1, FileLocals DEF FileStep, Goes, Quiet
  <2>2. ConsoleTyped' /\ faults' \in Nat /\ interrupted' \in [Keys -> Nat]
    BY <2>1 DEF Typed, ConsoleTyped, RunsTyped, console
  <2>3. lock' \in [{"mapping", "runtime", "login"} -> Procs \cup {Nobody}]
    BY <1>1 DEF FileStep, ValidateLive, LockMapping, WriteMapping, EnableLogin, DisableLogin,
                BeginLogin, CompleteLogin, LoadConfig, LockRuntime, Typed, RunsTyped
  <2>4. mapping' \in Seq(Record)
    <3>1. CASE mapping' = mapping
      BY <3>1 DEF Typed, FilesTyped
    <3>2. CASE mapping' # mapping
      <4>1. WriteMapping(p)
        BY <1>1, <3>2 DEF FileStep, ValidateLive, LockMapping, EnableLogin, DisableLogin,
                          BeginLogin, CompleteLogin, LoadConfig, LockRuntime
      <4>2. /\ AdmitsRegistration(proc[p].known, Job[p].record)
            /\ mapping' = Registered(proc[p].known, Job[p].record)
        BY <3>2, <4>1 DEF WriteMapping
      <4>3. Job[p].record \in Record
        <5>1. Is(p, {"register"})
          BY <4>1 DEF WriteMapping, At, CourseInv
        <5> QED
          BY <5>1, WorkspaceAssumption
      <4>4. proc[p].known \in Seq(Record)
        BY DEF Typed, RunsTyped, Local
      <4> QED
        BY <4>2, <4>3, <4>4, RegisteredFacts
    <3> QED
      BY <3>1, <3>2
  <2>5. launcher' \in BOOLEAN
    BY <1>1 DEF FileStep, ValidateLive, LockMapping, WriteMapping, EnableLogin, DisableLogin,
                BeginLogin, CompleteLogin, LoadConfig, LockRuntime, Typed, FilesTyped
  <2>6. record' \in [attempt : Procs \cup {Nobody}, state : {"none", "running", "completed"},
                     outcomes : Outcomes]
    <3>1. CASE record' = record
      BY <3>1 DEF Typed, FilesTyped
    <3>2. CASE BeginLogin(p)
      BY <3>2 DEF BeginLogin, Outcomes
    <3>3. CASE CompleteLogin(p)
      BY <3>3 DEF CompleteLogin, Typed, RunsTyped, Local
    <3> QED
      BY <1>1, <3>1, <3>2, <3>3 DEF FileStep, ValidateLive, LockMapping, WriteMapping,
         EnableLogin, DisableLogin, LoadConfig, LockRuntime
  <2> QED
    BY <2>1, <2>2, <2>3, <2>4, <2>5, <2>6 DEF Typed, FilesTyped, RunsTyped, Alone
<1>2. ASSUME NEW p \in Procs, InRunStep(p) PROVE Typed'
  <2>1. ConsoleTyped'
    BY <1>2, InRunConsole
  <2>2. FilesTyped'
    BY <1>2, InRunSteps DEF Typed, FilesTyped
  <2>3. Alone(p)
    BY <1>2, InRunEffect DEF Finished, Moved
  <2>4. lock' \in [{"mapping", "runtime", "login"} -> Procs \cup {Nobody}]
    BY <1>2, InRunEffect DEF Finished, Moved, Typed, RunsTyped
  <2>5. faults' \in Nat /\ interrupted' \in [Keys -> Nat]
    BY <1>2, InRunFaults
  <2> QED
    BY <2>1, <2>2, <2>3, <2>4, <2>5 DEF Typed, RunsTyped, Alone
<1>3. ASSUME NEW p \in Procs, Kill(p) PROVE Typed'
  <2>1. interrupted' \in [Keys -> Nat]
    BY <1>3, KillEffect, InterruptsEffect
  <2>2. UNCHANGED <<session, viewer, native, changes, mapping, launcher, record>>
    BY <1>3, KillEffect DEF console
  <2>3. ConsoleTyped' /\ FilesTyped'
    BY <2>2 DEF Typed, ConsoleTyped, FilesTyped
  <2> QED
    BY <1>3, <2>1, <2>3, KillEffect DEF Typed, RunsTyped, Alone
<1>4. ASSUME UNCHANGED workspace, ConsoleTyped' PROVE Typed'
  BY <1>4 DEF workspace, Typed, FilesTyped, RunsTyped
<1>5. ASSUME NEW k \in Keys, KeyStep(k), UNCHANGED workspace PROVE Typed'
  <2>1. ConsoleTyped'
    BY <1>5, KeyEffect DEF Typed, ConsoleTyped, Rewritten
  <2> QED
    BY <1>4, <1>5, <2>1
<1>6. ASSUME NEW t \in Tokens, ViewerStep(t) \/ CloseViewer(t), UNCHANGED workspace PROVE Typed'
  <2>1. ConsoleTyped'
    BY <1>6, ViewerEffect DEF Typed, ConsoleTyped, Rewritten
  <2> QED
    BY <1>4, <1>6, <2>1
<1>7. CASE Reboot
  BY <1>7, RebootEffect DEF Typed, FilesTyped
<1> QED
  BY <1>1, <1>2, <1>3, <1>5, <1>6, <1>7, StepKinds

----------------------------------------------------------------------------
(* Locks, courses, the mapping and the record.                             *)

\* A command works, or is at rest.
LEMMA WorkingLabels ==
  ASSUME NEW p \in Procs
  PROVE  /\ Working(p) <=> proc[p].pc \notin AtRest
         /\ proc[p].pc \in InRun => Working(p)
BY DEF Working, AtRest, InRun

\* What a command's label says of the locks it holds.
Holds(p, label, locks) ==
  /\ label \in InRun <=> locks.runtime = p
  /\ label = "write mapping" <=> locks.mapping = p
  /\ Is(p, {"login"}) /\ label \notin AtRest <=> locks.login = p

OthersHold(p) ==
  \A q \in Procs : q # p =>
    /\ proc'[q] = proc[q]
    /\ lock'.runtime = q <=> lock.runtime = q
    /\ lock'.mapping = q <=> lock.mapping = q
    /\ lock'.login = q <=> lock.login = q

\* The other commands keep their locks, and p has those of its new label.
LEMMA LockMoves ==
  ASSUME LockInv, NEW p \in Procs, OthersHold(p), Holds(p, proc'[p].pc, lock')
  PROVE  LockInv'
<1>1. LockInv <=> \A q \in Procs : Holds(q, proc[q].pc, lock)
  BY DEF LockInv, Holds, At, Working, AtRest
<1>2. LockInv' <=> \A q \in Procs : Holds(q, proc'[q].pc, lock')
  BY DEF LockInv, Holds, At, Working, AtRest
<1>3. ASSUME NEW q \in Procs, q # p PROVE Holds(q, proc'[q].pc, lock')
  BY <1>1, <1>3 DEF Holds, OthersHold
<1> QED
  BY <1>2, <1>3

\* Each lock is its worker's.
LEMMA LockStep ==
  ASSUME Typed, LockInv, CourseInv, SceneInv, Typed', Next
  PROVE  LockInv'
<1>0. /\ Nobody \notin Procs
      /\ \A p \in Procs : Holds(p, proc[p].pc, lock)
  BY WorkspaceAssumption DEF LockInv, Holds, At, Working, AtRest
<1>1. ASSUME NEW p \in Procs, FileStep(p) PROVE LockInv'
  <2>1. /\ \A q \in Procs : q # p => proc'[q] = proc[q]
        /\ proc[p].pc \notin InRun /\ lock.runtime # p
    BY <1>1, FileLocals DEF FileStep, Goes, Quiet, Alone, LockInv
  <2>2. CASE ValidateLive(p)
    <3>1. /\ lock' = lock /\ proc'[p].pc \in {"refused", "lock mapping"}
          /\ proc[p].pc = "idle" /\ ~Is(p, {"login"})
      BY <2>2, FileLocals DEF Goes, ValidateLive, At, Is
    <3> QED
      <4>1. OthersHold(p)
        BY <1>0, <2>1, <3>1 DEF OthersHold
      <4>2. Holds(p, proc'[p].pc, lock')
        BY <1>0, <2>1, <3>1 DEF Holds, InRun, AtRest, Is
      <4> QED
        BY <4>1, <4>2, LockMoves
  <2>3. CASE LockMapping(p)
    <3>1. /\ lock' = [lock EXCEPT !.mapping = p] /\ lock.mapping = Nobody
          /\ proc'[p].pc = "write mapping" /\ proc[p].pc = "lock mapping"
      BY <2>3, FileLocals DEF Goes, LockMapping, At, Free
    <3>2. ~Is(p, {"login"})
      BY <3>1 DEF CourseInv, Is
    <3>3. lock'.mapping = p /\ lock'.runtime = lock.runtime /\ lock'.login = lock.login
      BY <3>1 DEF Typed, RunsTyped
    <3> QED
      <4>1. OthersHold(p)
        BY <1>0, <2>1, <3>1, <3>2, <3>3 DEF OthersHold
      <4>2. Holds(p, proc'[p].pc, lock')
        BY <1>0, <2>1, <3>1, <3>2, <3>3 DEF Holds, InRun, AtRest, Is
      <4> QED
        BY <4>1, <4>2, LockMoves
  <2>4. CASE WriteMapping(p)
    <3>1. /\ lock' = [lock EXCEPT !.mapping = Nobody]
          /\ proc'[p].pc \in {"registered", "refused"} /\ proc[p].pc = "write mapping"
      BY <2>4, FileLocals DEF Goes, WriteMapping, At
    <3>2. ~Is(p, {"login"}) /\ lock.mapping = p
      BY <3>1 DEF CourseInv, Is, LockInv, At
    <3>3. lock'.mapping = Nobody /\ lock'.runtime = lock.runtime /\ lock'.login = lock.login
      BY <3>1 DEF Typed, RunsTyped
    <3> QED
      <4>1. OthersHold(p)
        BY <1>0, <2>1, <3>1, <3>2, <3>3 DEF OthersHold
      <4>2. proc'[p].pc \notin InRun /\ proc'[p].pc \in AtRest /\ proc'[p].pc # "write mapping"
        BY <3>1 DEF InRun, AtRest
      <4>3. Holds(p, proc'[p].pc, lock')
        BY <1>0, <2>1, <3>1, <3>2, <3>3, <4>2 DEF Holds
      <4> QED
        BY <4>1, <4>3, LockMoves
  <2>5. CASE EnableLogin(p) \/ DisableLogin(p)
    <3>1. /\ lock' = lock /\ proc'[p].pc \in {"refused", "done"}
          /\ proc[p].pc = "idle" /\ ~Is(p, {"login"})
      BY <2>5, FileLocals DEF Goes, EnableLogin, DisableLogin, At, Is
    <3> QED
      <4>1. OthersHold(p)
        BY <1>0, <2>1, <3>1 DEF OthersHold
      <4>2. Holds(p, proc'[p].pc, lock')
        BY <1>0, <2>1, <3>1 DEF Holds, InRun, AtRest, Is
      <4> QED
        BY <4>1, <4>2, LockMoves
  <2>6. CASE BeginLogin(p)
    <3>1. /\ lock' = [lock EXCEPT !.login = p] /\ lock.login = Nobody
          /\ proc'[p].pc = "load" /\ proc[p].pc = "idle" /\ Is(p, {"login"})
      BY <2>6, FileLocals DEF Goes, BeginLogin, At, Free
    <3>2. lock'.mapping = lock.mapping /\ lock'.runtime = lock.runtime /\ lock'.login = p
      BY <3>1 DEF Typed, RunsTyped
    <3> QED
      <4>1. OthersHold(p)
        BY <1>0, <2>1, <3>1, <3>2 DEF OthersHold
      <4>2. proc'[p].pc \notin InRun /\ proc'[p].pc \notin AtRest /\ proc'[p].pc # "write mapping"
        BY <3>1 DEF InRun, AtRest
      <4>3. Holds(p, proc'[p].pc, lock')
        BY <1>0, <2>1, <3>1, <3>2, <4>2 DEF Holds
      <4> QED
        BY <4>1, <4>3, LockMoves
  <2>7. CASE CompleteLogin(p)
    <3>1. /\ lock' = [lock EXCEPT !.login = Nobody]
          /\ proc'[p].pc = "done" /\ proc[p].pc = "complete"
      BY <2>7, FileLocals DEF Goes, CompleteLogin, At
    <3>2. Is(p, {"login"}) /\ lock.login = p
      BY <3>1 DEF CourseInv, LockInv, At, Working
    <3>3. lock'.mapping = lock.mapping /\ lock'.runtime = lock.runtime /\ lock'.login = Nobody
      BY <3>1 DEF Typed, RunsTyped
    <3> QED
      <4>1. OthersHold(p)
        BY <1>0, <2>1, <3>1, <3>2, <3>3 DEF OthersHold
      <4>2. proc'[p].pc \notin InRun /\ proc'[p].pc \in AtRest /\ proc'[p].pc # "write mapping"
        BY <3>1 DEF InRun, AtRest
      <4>3. Holds(p, proc'[p].pc, lock')
        BY <1>0, <2>1, <3>1, <3>2, <3>3, <4>2 DEF Holds
      <4> QED
        BY <4>1, <4>3, LockMoves
  <2>8. CASE LoadConfig(p)
    <3>1. lock' = lock /\ ((proc[p].pc = "idle" /\ Is(p, {"run"})) \/ proc[p].pc = "load")
      BY <2>8 DEF LoadConfig, At
    <3>2. proc'[p].pc = IF Selected(p) # <<>> THEN "lock runtime"
                        ELSE IF Is(p, {"login"}) THEN "complete" ELSE "refused"
      BY <2>8, FileLocals
    <3>3. CASE Is(p, {"login"})
      <4>1. proc[p].pc = "load" /\ proc'[p].pc \in {"lock runtime", "complete"}
        BY <3>1, <3>2, <3>3 DEF Is
      <4> QED
        <5>1. OthersHold(p)
          BY <1>0, <2>1, <3>1, <3>3, <4>1 DEF OthersHold
        <5>2. Holds(p, proc'[p].pc, lock')
          BY <1>0, <2>1, <3>1, <3>3, <4>1 DEF Holds, InRun, AtRest, Is
        <5> QED
          BY <5>1, <5>2, LockMoves
    <3>4. CASE ~Is(p, {"login"})
      <4>1. proc[p].pc = "idle" /\ proc'[p].pc \in {"lock runtime", "refused"}
        BY <3>1, <3>2, <3>4 DEF CourseInv
      <4> QED
        <5>1. OthersHold(p)
          BY <1>0, <2>1, <3>1, <3>4, <4>1 DEF OthersHold
        <5>2. Holds(p, proc'[p].pc, lock')
          BY <1>0, <2>1, <3>1, <3>4, <4>1 DEF Holds, InRun, AtRest, Is
        <5> QED
          BY <5>1, <5>2, LockMoves
    <3> QED
      BY <3>3, <3>4
  <2>9. CASE LockRuntime(p)
    <3>1. /\ lock' = [lock EXCEPT !.runtime = p] /\ lock.runtime = Nobody
          /\ proc'[p].pc = "look" /\ proc[p].pc = "lock runtime"
      BY <2>9, FileLocals DEF Goes, LockRuntime, At, Free
    <3>2. lock'.mapping = lock.mapping /\ lock'.runtime = p /\ lock'.login = lock.login
      BY <3>1 DEF Typed, RunsTyped
    <3> QED
      <4>1. OthersHold(p)
        BY <1>0, <2>1, <3>1, <3>2 DEF OthersHold
      <4>2. /\ proc'[p].pc \in InRun /\ proc'[p].pc \notin AtRest
            /\ proc'[p].pc # "write mapping" /\ proc[p].pc \notin AtRest
        BY <3>1 DEF InRun, AtRest
      <4>3. Holds(p, proc'[p].pc, lock')
        BY <1>0, <2>1, <3>1, <3>2, <4>2 DEF Holds
      <4> QED
        BY <4>1, <4>3, LockMoves
  <2> QED
    BY <1>1, <2>2, <2>3, <2>4, <2>5, <2>6, <2>7, <2>8, <2>9 DEF FileStep
<1>2. ASSUME NEW p \in Procs, InRunStep(p) PROVE LockInv'
  <2>1. proc[p].pc \in InRun /\ lock.runtime = p /\ Alone(p)
    BY <1>2, InRunSteps, InRunEffect DEF LockInv, Finished, Moved
  <2>2. CASE Moved(p)
    <3>1. OthersHold(p)
      BY <1>0, <2>1, <2>2 DEF Moved, Alone, OthersHold
    <3>2. Holds(p, proc'[p].pc, lock')
      BY <1>0, <2>1, <2>2 DEF Moved, Alone, Holds, InRun, AtRest, Is
    <3> QED
      BY <3>1, <3>2, LockMoves
  <2>3. CASE Finished(p) /\ Tail(proc[p].todo) # <<>>
    <3>1. proc'[p].pc = "look" /\ lock' = lock
      BY <2>3 DEF Finished
    <3>2. OthersHold(p)
      BY <2>1, <3>1 DEF Alone, OthersHold
    <3>3. Holds(p, proc'[p].pc, lock')
      BY <1>0, <2>1, <3>1 DEF Holds, InRun, AtRest, Is
    <3> QED
      BY <3>2, <3>3, LockMoves
  <2>4. CASE Finished(p) /\ Tail(proc[p].todo) = <<>>
    <3>1. proc'[p].pc = After(p) /\ lock' = [lock EXCEPT !.runtime = Nobody]
      BY <2>4 DEF Finished
    <3>2. lock'.mapping = lock.mapping /\ lock'.runtime = Nobody /\ lock'.login = lock.login
      BY <3>1 DEF Typed, RunsTyped
    <3>3. CASE Is(p, {"login"})
      <4>1. OthersHold(p)
        BY <1>0, <2>1, <3>1, <3>2 DEF Alone, OthersHold
      <4>2. proc'[p].pc = "complete" /\ proc[p].pc # "write mapping"
        BY <2>1, <3>1, <3>3 DEF After, InRun
      <4>3. proc'[p].pc \notin InRun /\ proc'[p].pc \notin AtRest
        BY <4>2 DEF InRun, AtRest
      <4>4. proc[p].pc \notin AtRest
        BY <2>1 DEF InRun, AtRest
      <4>5. Holds(p, proc'[p].pc, lock')
        BY <1>0, <2>1, <3>2, <3>3, <4>2, <4>3, <4>4 DEF Holds
      <4> QED
        BY <4>1, <4>5, LockMoves
    <3>4. CASE ~Is(p, {"login"})
      <4>1. OthersHold(p)
        BY <1>0, <2>1, <3>1, <3>2 DEF Alone, OthersHold
      <4>2. /\ proc'[p].pc \notin InRun /\ proc'[p].pc \in AtRest
            /\ proc'[p].pc # "write mapping" /\ proc[p].pc # "write mapping"
        BY <2>1, <3>1, <3>4 DEF After, InRun, AtRest
      <4>3. Holds(p, proc'[p].pc, lock')
        BY <1>0, <2>1, <3>1, <3>2, <3>4, <4>2 DEF Holds
      <4> QED
        BY <4>1, <4>3, LockMoves
    <3> QED
      BY <3>3, <3>4
  <2> QED
    BY <1>2, <2>2, <2>3, <2>4, InRunEffect
<1>3. ASSUME NEW p \in Procs, Kill(p) PROVE LockInv'
  <2>1. /\ \A q \in Procs : q # p => proc'[q] = proc[q]
        /\ proc'[p].pc = "killed"
        /\ \A which \in {"mapping", "runtime", "login"} :
             lock'[which] = IF lock[which] = p THEN Nobody ELSE lock[which]
    BY <1>3, KillEffect DEF Alone
  <2>2. OthersHold(p)
    BY <1>0, <2>1 DEF OthersHold
  <2>3. lock'.runtime # p /\ lock'.mapping # p /\ lock'.login # p
    BY <1>0, <2>1
  <2>4. Holds(p, proc'[p].pc, lock')
    BY <2>1, <2>3 DEF Holds, InRun, AtRest
  <2> QED
    BY <2>2, <2>4, LockMoves
<1>4. ASSUME UNCHANGED workspace PROVE LockInv'
  BY <1>4 DEF workspace, LockInv, At, Working
<1>5. CASE Reboot
  <2>1. \A p \in Procs : proc'[p].pc = IF Working(p) THEN "killed" ELSE proc[p].pc
    BY <1>5, RebootEffect
  <2>2. \A p \in Procs : proc'[p].pc \in AtRest
    BY <2>1, WorkingLabels DEF AtRest
  <2>3. lock'.runtime = Nobody /\ lock'.mapping = Nobody /\ lock'.login = Nobody
    BY <1>5, RebootEffect
  <2>4. ASSUME NEW p \in Procs
        PROVE  /\ proc'[p].pc \notin InRun /\ proc'[p].pc # "write mapping"
               /\ proc'[p].pc \in {"idle", "off", "done", "refused", "registered", "killed"}
               /\ lock'.runtime # p /\ lock'.mapping # p /\ lock'.login # p
    BY <1>0, <2>2, <2>3 DEF AtRest, InRun
  <2> QED
    BY <2>4 DEF LockInv, At, Working
<1> QED
  BY <1>1, <1>2, <1>3, <1>4, <1>5, StepKinds

\* What a command's label says of what the command is and has to do.
Course(p, local) ==
  /\ local.pc \in {"lock mapping", "write mapping", "registered"} => Is(p, {"register"})
  /\ local.pc \in {"load", "complete"} => Is(p, {"login"})
  /\ local.pc \in InRun \cup {"lock runtime"} => Is(p, {"run", "login"}) /\ local.todo # <<>>
  /\ local.pc \in {"idle", "load", "lock runtime"} => local.stage = "first"
  /\ Is(p, {"run"}) => \A i \in DOMAIN local.todo : local.todo[i].key = Job[p].key

\* Each command does what it is for.
LEMMA CourseStep ==
  ASSUME Typed, LockInv, CourseInv, SceneInv, Next
  PROVE  CourseInv'
<1>1. /\ \A p \in Procs : Course(p, proc[p])
      /\ (\A p \in Procs : Course(p, proc'[p])) => CourseInv'
  BY DEF CourseInv, Course
<1>2. ASSUME NEW p \in Procs, \A q \in Procs : q # p => proc'[q] = proc[q], Course(p, proc'[p])
      PROVE  CourseInv'
  <2>1. ASSUME NEW q \in Procs PROVE Course(q, proc'[q])
    BY <1>1, <1>2
  <2> QED
    BY <1>1, <2>1
<1>3. RunsTyped /\ mapping \in Seq(Record)
  BY DEF Typed, FilesTyped
<1>4. ASSUME NEW p \in Procs, FileStep(p) PROVE CourseInv'
  <2>1. \A q \in Procs : q # p => proc'[q] = proc[q]
    BY <1>4, FileLocals DEF FileStep, Goes, Quiet, Alone
  <2>2. SUFFICES Course(p, proc'[p])
    BY <1>2, <2>1
  <2>3. CASE LoadConfig(p)
    <3>1. /\ proc'[p].todo = Selected(p)
          /\ proc'[p].pc = IF Selected(p) # <<>> THEN "lock runtime"
                           ELSE IF Is(p, {"login"}) THEN "complete" ELSE "refused"
      BY <2>3, FileLocals
    <3>2. Is(p, {"run"}) \/ Is(p, {"login"})
      BY <1>1, <2>3 DEF LoadConfig, At, Course
    <3>3. Is(p, {"run"}) => \A i \in DOMAIN Selected(p) : Selected(p)[i].key = Job[p].key
      <4>1. Is(p, {"run"}) => ~Is(p, {"login"})
        BY DEF Is
      <4> QED
        BY <1>3, <4>1, SelectedFacts
    <3>4. proc'[p].stage = "first"
      BY <1>1, <2>3, FileLocals DEF Quiet, LoadConfig, At, Course
    <3> QED
      BY <3>1, <3>2, <3>3, <3>4 DEF Course, InRun, Is
  <2>4. CASE LockRuntime(p)
    <3>1. proc'[p].todo = proc[p].todo /\ proc'[p].pc = "look" /\ proc[p].pc = "lock runtime"
      BY <2>4, FileLocals DEF Goes, LockRuntime, At
    <3> QED
      BY <1>1, <3>1 DEF Course, InRun
  <2>5. CASE ~LoadConfig(p) /\ ~LockRuntime(p)
    <3>1. proc'[p].todo = proc[p].todo /\ proc'[p].stage = proc[p].stage
      BY <1>4, <2>5, FileLocals DEF FileStep, Goes, Quiet
    <3>2. /\ ValidateLive(p) => Is(p, {"register"}) /\ proc'[p].pc \in {"refused", "lock mapping"}
          /\ LockMapping(p) => proc[p].pc = "lock mapping" /\ proc'[p].pc = "write mapping"
          /\ WriteMapping(p) =>
               proc[p].pc = "write mapping" /\ proc'[p].pc \in {"registered", "refused"}
          /\ EnableLogin(p) \/ DisableLogin(p) => proc'[p].pc \in {"refused", "done"}
          /\ BeginLogin(p) =>
               Is(p, {"login"}) /\ proc[p].pc = "idle" /\ proc'[p].pc = "load"
          /\ CompleteLogin(p) => proc'[p].pc = "done"
      BY FileLocals DEF Goes, ValidateLive, LockMapping, WriteMapping, BeginLogin, At
    <3>3. /\ proc'[p].pc \in {"lock mapping", "write mapping", "registered"} => Is(p, {"register"})
          /\ proc'[p].pc \in {"load", "complete"} => Is(p, {"login"})
          /\ proc'[p].pc = "load" => proc[p].pc = "idle"
          /\ proc'[p].pc \in {"refused", "lock mapping", "write mapping", "registered", "done",
                              "load"}
      BY <1>1, <1>4, <2>5, <3>2 DEF Course, FileStep
    <3> QED
      BY <1>1, <3>1, <3>3 DEF Course, InRun
  <2> QED
    BY <2>3, <2>4, <2>5
<1>5. ASSUME NEW p \in Procs, InRunStep(p) PROVE CourseInv'
  <2>1. Alone(p) /\ proc[p].pc \in InRun
    BY <1>5, InRunEffect, InRunSteps DEF Finished, Moved
  <2>2. SUFFICES Course(p, proc'[p])
    BY <1>2, <2>1 DEF Alone
  <2>3. Is(p, {"run", "login"})
    BY <1>1, <2>1 DEF Course
  <2>4. CASE Moved(p)
    <3>1. proc'[p].todo = proc[p].todo /\ proc'[p].pc \in InRun
      BY <2>4 DEF Moved
    <3>2. proc'[p].pc \notin {"lock mapping", "write mapping", "registered", "load", "complete",
                           "idle", "lock runtime"}
      BY <3>1 DEF InRun
    <3> QED
      BY <1>1, <2>1, <3>1, <3>2 DEF Course
  <2>5. CASE Finished(p)
    <3>1. /\ proc'[p].todo = Tail(proc[p].todo)
          /\ proc'[p].todo # <<>> => proc'[p].pc = "look"
          /\ proc'[p].todo = <<>> => proc'[p].pc = After(p)
      BY <2>5 DEF Finished
    <3>2. Is(p, {"run"}) => \A i \in DOMAIN proc'[p].todo : proc'[p].todo[i].key = Job[p].key
      <4>1. \A i \in DOMAIN Tail(proc[p].todo) :
              i + 1 \in DOMAIN proc[p].todo /\ Tail(proc[p].todo)[i] = proc[p].todo[i + 1]
        BY <1>3, <2>1, RunFacts
      <4>2. Is(p, {"run"}) => \A i \in DOMAIN proc[p].todo : proc[p].todo[i].key = Job[p].key
        BY <1>1 DEF Course
      <4> QED
        BY <3>1, <4>1, <4>2
    <3>3. CASE proc'[p].todo # <<>>
      BY <2>3, <3>1, <3>2, <3>3 DEF Course, InRun
    <3>4. CASE proc'[p].todo = <<>>
      BY <3>1, <3>2, <3>4 DEF Course, InRun, After
    <3> QED
      BY <3>3, <3>4
  <2> QED
    BY <1>5, <2>4, <2>5, InRunEffect
<1>6. ASSUME NEW p \in Procs, proc'[p].pc = IF Working(p) THEN "killed" ELSE proc[p].pc,
             proc'[p].todo = proc[p].todo,
             proc'[p].pc # "killed" => proc'[p].stage = proc[p].stage
      PROVE  Course(p, proc'[p])
  BY <1>1, <1>6 DEF Course, InRun
<1>7. ASSUME NEW p \in Procs, Kill(p) PROVE CourseInv'
  BY <1>2, <1>6, <1>7, KillEffect DEF Alone
<1>8. CASE UNCHANGED workspace
  BY <1>1, <1>8 DEF workspace
<1>9. CASE Reboot
  BY <1>1, <1>6, <1>9, RebootEffect
<1> QED
  BY <1>4, <1>5, <1>7, <1>8, <1>9, StepKinds

\* A command changes by its own step, or by a reboot.
LEMMA OwnSteps ==
  ASSUME Typed, LockInv, CourseInv, SceneInv, Next, NEW q \in Procs
  PROVE  proc'[q] = proc[q] \/ FileStep(q) \/ InRunStep(q) \/ Kill(q) \/ Reboot
<1>1. ASSUME NEW p \in Procs, FileStep(p) \/ InRunStep(p) \/ Kill(p), p # q
      PROVE  proc'[q] = proc[q]
  <2>1. FileStep(p) => Alone(p)
    BY FileLocals DEF FileStep, Goes, Quiet
  <2>2. InRunStep(p) => Alone(p)
    BY InRunEffect DEF Finished, Moved
  <2>3. Kill(p) => Alone(p)
    BY KillEffect
  <2> QED
    BY <1>1, <2>1, <2>2, <2>3 DEF Alone
<1>2. UNCHANGED workspace => proc'[q] = proc[q]
  BY DEF workspace
<1> QED
  BY <1>1, <1>2, StepKinds

Distinct(records) ==
  \A i, j \in DOMAIN records : i # j =>
    /\ records[i].key # records[j].key
    /\ records[i].directory # records[j].directory
    /\ records[i].session # records[j].session

\* The mapping changes by one more record, which a registration wrote that had
\* read the mapping as it is.
LEMMA MappingGrows ==
  ASSUME Typed, LockInv, CourseInv, SceneInv, MappingInv, Next
  PROVE  \/ mapping' = mapping
         \/ \E p \in Procs :
              /\ WriteMapping(p) /\ proc[p].known = mapping
              /\ Is(p, {"register"}) /\ Job[p].record \in Record
              /\ AdmitsRegistration(mapping, Job[p].record)
              /\ mapping' = Registered(mapping, Job[p].record)
<1>1. ASSUME NEW p \in Procs, WriteMapping(p), mapping' # mapping
      PROVE  /\ WriteMapping(p) /\ proc[p].known = mapping
             /\ Is(p, {"register"}) /\ Job[p].record \in Record
             /\ AdmitsRegistration(mapping, Job[p].record)
             /\ mapping' = Registered(mapping, Job[p].record)
  <2>1. Is(p, {"register"}) /\ proc[p].known = mapping
    BY <1>1 DEF WriteMapping, At, CourseInv, MappingInv
  <2> QED
    BY <1>1, <2>1, WorkspaceAssumption DEF WriteMapping
<1>2. ASSUME NEW p \in Procs, FileStep(p), ~WriteMapping(p) PROVE mapping' = mapping
  BY <1>2 DEF FileStep, ValidateLive, LockMapping, EnableLogin, DisableLogin, BeginLogin,
              CompleteLogin, LoadConfig, LockRuntime
<1>3. ASSUME NEW p \in Procs, InRunStep(p) \/ Kill(p) PROVE mapping' = mapping
  BY <1>3, InRunSteps, KillEffect
<1>4. UNCHANGED workspace \/ Reboot => mapping' = mapping
  BY RebootEffect DEF workspace
<1> QED
  BY <1>1, <1>2, <1>3, <1>4, StepKinds

\* No record is lost or changed, and no two records share what is single-use.
LEMMA MappingKeeps ==
  ASSUME Typed, LockInv, CourseInv, SceneInv, MappingInv, Next
  PROVE  /\ ToSet(mapping) \subseteq ToSet(mapping') /\ Distinct(mapping')
         /\ mapping # <<>> => mapping' # <<>>
<1>1. Distinct(mapping) /\ mapping \in Seq(Record)
  BY DEF MappingInv, RegistrationsStand, Distinct, Typed, FilesTyped
<1>2. ASSUME NEW r \in Record, AdmitsRegistration(mapping, r), mapping' = Registered(mapping, r)
      PROVE  /\ ToSet(mapping) \subseteq ToSet(mapping') /\ Distinct(mapping')
             /\ mapping # <<>> => mapping' # <<>>
  <2> DEFINE last == Len(mapping) + 1
  <2>1. /\ mapping' # <<>> /\ DOMAIN mapping' = DOMAIN mapping \cup {last}
        /\ mapping'[last] = r /\ \A i \in DOMAIN mapping : mapping'[i] = mapping[i]
    BY <1>1, <1>2, RegisteredFacts
  <2> HIDE DEF last
  <2>2. \A i \in DOMAIN mapping :
          /\ mapping[i].key # r.key /\ mapping[i].directory # r.directory
          /\ mapping[i].session # r.session
    BY <1>2 DEF AdmitsRegistration
  <2>3. Distinct(mapping')
    BY <1>1, <2>1, <2>2 DEF Distinct
  <2> QED
    BY <2>1, <2>3 DEF ToSet
<1> QED
  BY <1>1, <1>2, MappingGrows

\* Registrations stand, and what a command has to do stays registered.
LEMMA MappingStep ==
  ASSUME Typed, LockInv, CourseInv, SceneInv, MappingInv, Typed', Next
  PROVE  MappingInv'
<1>1. /\ ToSet(mapping) \subseteq ToSet(mapping') /\ Distinct(mapping')
      /\ mapping # <<>> => mapping' # <<>>
  BY MappingKeeps
<1>2. RunsTyped /\ mapping \in Seq(Record)
  BY DEF Typed, FilesTyped
<1>3. ASSUME NEW p \in Procs, proc'[p].pc = "registered"
      PROVE  Job[p].record \in ToSet(mapping')
  <2>1. CASE proc[p].pc = "registered"
    BY <1>1, <2>1 DEF MappingInv, RegistrationsStand, At
  <2>2. CASE proc[p].pc # "registered"
    <3>1. WriteMapping(p)
      <4>1. ~InRunStep(p)
        <5>1. InRunStep(p) => proc'[p].pc \in InRun \/ proc'[p].pc \in {"done", "complete", "look"}
          BY InRunEffect DEF Finished, Moved, After
        <5> QED
          BY <1>3, <5>1 DEF InRun
      <4>2. ~Kill(p) /\ ~Reboot
        BY <1>3, <2>2, KillEffect, RebootEffect
      <4>3. FileStep(p)
        BY <1>3, <2>2, <4>1, <4>2, OwnSteps
      <4> QED
        BY <1>3, <4>3, FileLocals DEF FileStep, Goes
    <3>2. proc[p].known = mapping /\ Is(p, {"register"})
      BY <3>1 DEF WriteMapping, At, MappingInv, CourseInv
    <3>3. CASE Job[p].record \in ToSet(mapping)
      BY <1>1, <3>3
    <3>4. CASE Job[p].record \notin ToSet(mapping) /\ AdmitsRegistration(mapping, Job[p].record)
      <4>1. mapping' = Registered(mapping, Job[p].record) /\ Job[p].record \in Record
        BY <3>1, <3>2, <3>4, WorkspaceAssumption DEF WriteMapping
      <4> DEFINE after == Registered(mapping, Job[p].record)
      <4>2. /\ DOMAIN after = DOMAIN mapping \cup {Len(mapping) + 1}
            /\ after[Len(mapping) + 1] = Job[p].record
        BY <1>2, <3>4, <4>1, RegisteredFacts
      <4> HIDE DEF after
      <4> QED
        BY <4>1, <4>2 DEF ToSet, after
    <3>5. CASE Job[p].record \notin ToSet(mapping) /\ ~AdmitsRegistration(mapping, Job[p].record)
      <4>1. Goto(p, "refused")
        BY <3>1, <3>2, <3>5 DEF WriteMapping
      <4>2. "refused" \in Labels
        BY DEF Labels, AtRest
      <4>3. proc'[p].pc = "refused"
        BY <1>2, <4>1, <4>2, GotoEffect
      <4> QED
        BY <1>3, <4>3
    <3> QED
      BY <3>3, <3>4, <3>5
  <2> QED
    BY <2>1, <2>2
<1>4. ASSUME NEW p \in Procs PROVE ToSet(proc'[p].todo) \subseteq ToSet(mapping')
  <2>1. ToSet(proc[p].todo) \subseteq ToSet(mapping)
    BY DEF MappingInv
  <2>2. CASE LoadConfig(p)
    <3>1. proc'[p].todo = Selected(p)
      BY <2>2, FileLocals
    <3>2. \A i \in DOMAIN Selected(p) : \E j \in DOMAIN mapping : Selected(p)[i] = mapping[j]
      BY <1>2, SelectedFacts
    <3> QED
      BY <1>1, <3>1, <3>2 DEF ToSet
  <2>3. CASE FileStep(p) /\ ~LoadConfig(p)
    <3>1. proc'[p].todo = proc[p].todo
      BY <2>3, FileLocals DEF FileStep, Goes
    <3> QED
      BY <1>1, <2>1, <3>1
  <2>4. CASE InRunStep(p)
    <3>1. proc'[p].todo = proc[p].todo \/ proc'[p].todo = Tail(proc[p].todo)
      BY <2>4, InRunEffect DEF Finished, Moved
    <3>2. \A i \in DOMAIN Tail(proc[p].todo) :
            i + 1 \in DOMAIN proc[p].todo /\ Tail(proc[p].todo)[i] = proc[p].todo[i + 1]
      BY <1>2, <2>4, InRunSteps, RunFacts
    <3>3. ToSet(Tail(proc[p].todo)) \subseteq ToSet(proc[p].todo)
      BY <3>2 DEF ToSet
    <3> QED
      BY <1>1, <2>1, <3>1, <3>3
  <2>5. CASE Kill(p) \/ Reboot \/ proc'[p] = proc[p]
    <3>1. proc'[p].todo = proc[p].todo
      BY <2>5, KillEffect, RebootEffect
    <3> QED
      BY <1>1, <2>1, <3>1
  <2> QED
    BY <2>2, <2>3, <2>4, <2>5, OwnSteps
<1>5. ASSUME NEW p \in Procs, proc'[p].pc = "write mapping" PROVE proc'[p].known = mapping'
  <2>1. CASE LockMapping(p)
    BY <2>1, FileLocals DEF LockMapping
  <2>2. CASE ~LockMapping(p)
    <3>1. ~FileStep(p)
      BY <1>5, <2>2, FileLocals DEF FileStep, Goes
    <3>2. ~InRunStep(p)
      <4>1. InRunStep(p) => proc'[p].pc \in InRun \/ proc'[p].pc \in {"done", "complete", "look"}
        BY InRunEffect DEF Finished, Moved, After
      <4> QED
        BY <1>5, <4>1 DEF InRun
    <3>3. ~Kill(p)
      BY <1>5, KillEffect
    <3>4. ~Reboot
      <4>1. Reboot => proc[p].pc = "write mapping"
        BY <1>5, RebootEffect
      <4>2. Reboot => ~Working(p)
        BY <1>5, RebootEffect
      <4> QED
        BY <4>1, <4>2 DEF Working
    <3>5. proc'[p] = proc[p]
      BY <3>1, <3>2, <3>3, <3>4, OwnSteps
    <3>6. proc[p].known = mapping /\ lock.mapping = p
      BY <1>5, <3>5 DEF MappingInv, LockInv, At
    <3>7. mapping' = mapping
      <4>1. ASSUME NEW q \in Procs, WriteMapping(q) PROVE FALSE
        <5>1. lock.mapping = q
          BY <4>1 DEF WriteMapping, LockInv, At
        <5> QED
          BY <3>1, <3>6, <4>1, <5>1 DEF FileStep
      <4> QED
        BY <4>1, MappingGrows
    <3> QED
      BY <3>5, <3>6, <3>7
  <2> QED
    BY <2>1, <2>2
<1>6. ASSUME mapping' = <<>> PROVE ~launcher' /\ \A p \in Procs : proc'[p].pc # "load"
  <2>1. mapping = <<>>
    BY <1>1, <1>6
  <2>2. ~launcher /\ \A p \in Procs : proc[p].pc # "load"
    BY <2>1 DEF MappingInv, At
  <2>3. ASSUME NEW p \in Procs, FileStep(p)
        PROVE  ~launcher' /\ (proc'[p].pc # "load")
    <3>1. ~BeginLogin(p)
      BY <2>2 DEF BeginLogin
    <3>2. proc'[p].pc # "load"
      BY <2>3, <3>1, FileLocals DEF FileStep, Goes
    <3>3. ~launcher'
      BY <2>1, <2>2, <2>3 DEF FileStep, ValidateLive, LockMapping, WriteMapping, EnableLogin,
           DisableLogin, BeginLogin, CompleteLogin, LoadConfig, LockRuntime
    <3> QED
      BY <3>2, <3>3
  <2>4. ~launcher'
    <3>1. ASSUME NEW p \in Procs, InRunStep(p) \/ Kill(p) PROVE launcher' = launcher
      BY <3>1, InRunSteps, KillEffect
    <3>2. UNCHANGED workspace \/ Reboot => launcher' = launcher
      BY RebootEffect DEF workspace
    <3> QED
      BY <2>2, <2>3, <3>1, <3>2, StepKinds
  <2>5. ASSUME NEW p \in Procs PROVE proc'[p].pc # "load"
    <3>1. InRunStep(p) => proc'[p].pc \in InRun \/ proc'[p].pc \in {"done", "complete", "look"}
      BY InRunEffect DEF Finished, Moved, After
    <3>2. InRunStep(p) => proc'[p].pc # "load"
      BY <3>1 DEF InRun
    <3>3. Kill(p) => proc'[p].pc # "load"
      BY KillEffect
    <3>4. Reboot => proc'[p].pc \in {"killed", proc[p].pc}
      BY RebootEffect
    <3> QED
      BY <2>2, <2>3, <3>2, <3>3, <3>4, OwnSteps
  <2> QED
    BY <2>4, <2>5
<1> QED
  BY <1>1, <1>3, <1>4, <1>5, <1>6 DEF MappingInv, RegistrationsStand, Distinct, At, Working

\* A login under way goes on or is killed, and completes with outcomes.
LEMMA LoginSteps ==
  ASSUME Typed, LockInv, CourseInv, SceneInv, MappingInv, Next,
         NEW q \in Procs, Is(q, {"login"}), ~BeginLogin(q), ~CompleteLogin(q)
  PROVE  \/ /\ proc'[q].pc = proc[q].pc /\ proc'[q].outcomes = proc[q].outcomes
         \/ /\ proc[q].pc \notin AtRest
            /\ proc'[q].pc \notin AtRest \cup {"complete"} \/ proc'[q].pc = "killed"
         \/ /\ proc[q].pc \notin AtRest
            /\ proc'[q].pc = "complete" /\ proc'[q].outcomes # <<>>
<1>1. Is(q, {"login"}) => ~Is(q, {"register"}) /\ ~Is(q, {"run"}) /\ ~Is(q, {"enable"})
                          /\ ~Is(q, {"disable"})
  BY DEF Is
<1>2. CASE FileStep(q)
  <2>1. LoadConfig(q) \/ LockRuntime(q)
    BY <1>1, <1>2 DEF FileStep, ValidateLive, LockMapping, WriteMapping, EnableLogin,
       DisableLogin, At, CourseInv
  <2>2. CASE LoadConfig(q)
    <3>1. proc[q].pc = "load"
      BY <1>1, <2>2 DEF LoadConfig, At
    <3>2. mapping # <<>> /\ mapping \in Seq(Record)
      BY <3>1 DEF MappingInv, At, Typed, FilesTyped
    <3>3. Selected(q) = mapping
      BY <3>2, SelectedFacts
    <3>4. proc'[q].pc = "lock runtime"
      BY <2>2, <3>2, <3>3, FileLocals
    <3> QED
      BY <3>1, <3>4 DEF AtRest
  <2>3. CASE LockRuntime(q)
    <3>1. proc[q].pc = "lock runtime" /\ proc'[q].pc = "look"
      BY <2>3, FileLocals DEF Goes, LockRuntime, At
    <3> QED
      BY <3>1 DEF AtRest
  <2> QED
    BY <2>1, <2>2, <2>3
<1>3. CASE InRunStep(q)
  <2>1. proc[q].pc \notin AtRest
    BY <1>3, InRunSteps, WorkingLabels
  <2>2. Moved(q) => proc'[q].pc \notin AtRest \cup {"complete"}
    BY DEF Moved, InRun, AtRest
  <2>3. Finished(q) =>
          proc'[q].pc = "look" \/ (proc'[q].pc = "complete" /\ proc'[q].outcomes # <<>>)
    BY DEF Finished, After
  <2> QED
    BY <1>3, <2>1, <2>2, <2>3, InRunEffect DEF AtRest
<1>4. CASE Kill(q)
  BY <1>4, KillEffect, WorkingLabels
<1>5. CASE Reboot
  BY <1>5, RebootEffect, WorkingLabels
<1> QED
  BY <1>2, <1>3, <1>4, <1>5, OwnSteps

\* The record changes at the begin and at the end of a login.
LEMMA RecordChanges ==
  ASSUME Typed, LockInv, CourseInv, SceneInv, Next,
         \A p \in Procs : ~BeginLogin(p) /\ ~CompleteLogin(p)
  PROVE  record' = record
<1>1. ASSUME NEW p \in Procs, FileStep(p) PROVE record' = record
  BY <1>1 DEF FileStep, ValidateLive, LockMapping, WriteMapping, EnableLogin, DisableLogin,
              LoadConfig, LockRuntime
<1>2. ASSUME NEW p \in Procs, InRunStep(p) \/ Kill(p) PROVE record' = record
  BY <1>2, InRunSteps, KillEffect
<1>3. UNCHANGED workspace \/ Reboot => record' = record
  BY RebootEffect DEF workspace
<1> QED
  BY <1>1, <1>2, <1>3, StepKinds

\* The login record tells the truth.
LEMMA RecordStep ==
  ASSUME Typed, LockInv, CourseInv, SceneInv, MappingInv, RecordInv, Next
  PROVE  RecordInv'
<1>1. \A p \in Procs : Working(p) <=> proc[p].pc \notin AtRest
  BY WorkingLabels
<1>2. \A p \in Procs : Working(p)' <=> proc'[p].pc \notin AtRest
  BY DEF Working, AtRest
<1>3. ASSUME NEW p \in Procs, BeginLogin(p) PROVE RecordInv'
  <2>1. /\ record'.attempt = p /\ record'.state = "running"
        /\ Is(p, {"login"}) /\ lock.login = Nobody
    BY <1>3 DEF BeginLogin, Free
  <2>2. proc'[p].pc = "load" /\ \A q \in Procs : q # p => proc'[q] = proc[q]
    BY <1>3, FileLocals DEF Goes, Quiet, Alone
  <2>3. ASSUME NEW q \in Procs, q # p PROVE ~(Is(q, {"login"}) /\ proc'[q].pc \notin AtRest)
    <3>1. lock.login # q
      BY <2>1, WorkspaceAssumption
    <3> QED
      BY <1>1, <2>2, <2>3, <3>1 DEF LockInv
  <2>4. ASSUME NEW q \in Procs, proc'[q].pc = "complete" PROVE proc'[q].outcomes # <<>>
    BY <2>2, <2>4 DEF RecordInv, At
  <2> QED
    BY <1>2, <2>1, <2>2, <2>3, <2>4 DEF RecordInv, LoginRecordTellsTruth, At, AtRest
<1>4. ASSUME NEW p \in Procs, CompleteLogin(p) PROVE RecordInv'
  <2>1. /\ record' = [attempt |-> p, state |-> "completed", outcomes |-> proc[p].outcomes]
        /\ proc[p].pc = "complete" /\ Is(p, {"login"})
    BY <1>4 DEF CompleteLogin, At, CourseInv
  <2>2. /\ proc'[p].pc = "done" /\ proc'[p].outcomes = proc[p].outcomes
        /\ \A q \in Procs : q # p => proc'[q] = proc[q]
    BY <1>4, FileLocals DEF Goes, Quiet, Alone
  <2>3. record.attempt = p /\ proc[p].outcomes # <<>>
    BY <1>1, <2>1 DEF RecordInv, LoginRecordTellsTruth, At, AtRest
  <2>4. ASSUME NEW q \in Procs PROVE ~(Is(q, {"login"}) /\ proc'[q].pc \notin AtRest)
    <3>1. CASE q = p
      BY <2>2, <3>1 DEF AtRest
    <3>2. CASE q # p
      BY <1>1, <2>2, <2>3, <3>2 DEF RecordInv, LoginRecordTellsTruth
    <3> QED
      BY <3>1, <3>2
  <2>5. ASSUME NEW q \in Procs, proc'[q].pc = "complete" PROVE proc'[q].outcomes # <<>>
    BY <2>2, <2>5 DEF RecordInv, At
  <2> QED
    BY <1>2, <2>1, <2>2, <2>3, <2>4, <2>5 DEF RecordInv, LoginRecordTellsTruth, At
<1>5. CASE \A p \in Procs : ~BeginLogin(p) /\ ~CompleteLogin(p)
  <2>1. record' = record
    BY <1>5, RecordChanges
  <2>2. ASSUME NEW q \in Procs, Is(q, {"login"})
        PROVE  \/ /\ proc'[q].pc = proc[q].pc /\ proc'[q].outcomes = proc[q].outcomes
               \/ /\ proc[q].pc \notin AtRest
                  /\ proc'[q].pc \notin AtRest \cup {"complete"} \/ proc'[q].pc = "killed"
               \/ /\ proc[q].pc \notin AtRest
                  /\ proc'[q].pc = "complete" /\ proc'[q].outcomes # <<>>
    BY <1>5, <2>2, LoginSteps
  <2>3. ASSUME NEW q \in Procs, Is(q, {"login"}), proc'[q].pc \notin AtRest
        PROVE  record.attempt = q /\ record.state = "running"
    <3>1. proc[q].pc \notin AtRest
      BY <2>2, <2>3
    <3> QED
      BY <1>1, <2>3, <3>1 DEF RecordInv, LoginRecordTellsTruth
  <2>4. ASSUME record.state = "running"
        PROVE  proc'[record.attempt].pc \notin AtRest \/ proc'[record.attempt].pc = "killed"
    <3>1. record.attempt \in Procs /\ Is(record.attempt, {"login"})
      BY <2>4 DEF RecordInv
    <3>2. proc[record.attempt].pc \notin AtRest \/ proc[record.attempt].pc = "killed"
      BY <1>1, <2>4, <3>1 DEF RecordInv, LoginRecordTellsTruth, At
    <3> QED
      BY <2>2, <3>1, <3>2 DEF AtRest
  <2>5. ASSUME record.state = "completed"
        PROVE  /\ record.outcomes = proc'[record.attempt].outcomes /\ record.outcomes # <<>>
               /\ proc'[record.attempt].pc = "done"
    <3>1. record.attempt \in Procs /\ Is(record.attempt, {"login"})
      BY <2>5 DEF RecordInv
    <3>2. /\ proc[record.attempt].pc = "done"
          /\ record.outcomes = proc[record.attempt].outcomes /\ record.outcomes # <<>>
      BY <2>5 DEF RecordInv, LoginRecordTellsTruth, At
    <3> QED
      BY <2>2, <3>1, <3>2 DEF AtRest
  <2>6. ASSUME NEW q \in Procs, proc'[q].pc = "complete" PROVE proc'[q].outcomes # <<>>
    <3>1. CASE Is(q, {"login"})
      <4>1. proc[q].pc = "complete" => proc[q].outcomes # <<>>
        BY DEF RecordInv, At
      <4> QED
        BY <2>2, <2>6, <3>1, <4>1
    <3>2. CASE ~Is(q, {"login"})
      BY <2>6, <3>2, CourseStep DEF CourseInv
    <3> QED
      BY <3>1, <3>2
  <2> QED
    BY <1>2, <2>1, <2>3, <2>4, <2>5, <2>6 DEF RecordInv, LoginRecordTellsTruth, At
<1> QED
  BY <1>3, <1>4, <1>5

\* Nothing becomes a process that was handed over.
LEMMA NobodyHandsOver ==
  ASSUME Typed, LockInv, CourseInv, SceneInv, Next, NEW k \in Keys, "registered" \in native'[k]
  PROVE  "registered" \in native[k]
<1>1. ASSUME NEW p \in Procs, FileStep(p) PROVE native' = native
  BY <1>1, FileLocals DEF FileStep, Goes, Quiet, console
<1>2. ASSUME NEW p \in Procs, InRunStep(p) \/ Kill(p) PROVE native' = native
  BY <1>2, InRunConsole, KillEffect DEF console
<1>3. ASSUME NEW j \in Keys, KeyStep(j) PROVE "registered" \in native[k]
  BY <1>3, KeyEffect DEF Typed
<1>4. ASSUME NEW t \in Tokens, ViewerStep(t) \/ CloseViewer(t) PROVE native' = native
  BY <1>4, ViewerEffect DEF Typed
<1>5. ~Reboot
  BY RebootEffect
<1> QED
  BY <1>1, <1>2, <1>3, <1>4, <1>5, StepKinds

\* Every record that may be read knows of its handed-over process.
LEMMA LiveStep ==
  ASSUME Typed, LockInv, CourseInv, SceneInv, MappingInv, LiveInv, Next
  PROVE  LiveInv'
<1>1. ASSUME NEW p \in Procs, Is(p, {"register"}), proc'[p].pc # "off",
             "registered" \in native'[Job[p].record.key]
      PROVE  Job[p].record.live
  <2>1. proc[p].pc # "off"
    <3>1. FileStep(p) \/ InRunStep(p) \/ Kill(p) => proc[p].pc # "off"
      BY DEF FileStep, ValidateLive, LockMapping, WriteMapping, EnableLogin, DisableLogin,
             BeginLogin, CompleteLogin, LoadConfig, LockRuntime, InRunStep, Look, Panes, Consume,
             CheckOwner, Create, Await, ReadWindow, StartProvider, SelectProvider,
             DiscardWindow, OpenViewer, OpenViewerFails, ClearToken, CommandFails, Kill, At,
             InRun
    <3>2. Reboot => proc[p].pc # "off"
      BY <1>1, RebootEffect DEF Working
    <3> QED
      BY <1>1, <3>1, <3>2, OwnSteps
  <2>2. Job[p].record \in Record
    BY <1>1, WorkspaceAssumption
  <2>3. Job[p].record.key \in Keys
    BY <2>2 DEF Record
  <2> QED
    BY <1>1, <2>1, <2>3, NobodyHandsOver DEF LiveInv, At
<1>2. ASSUME NEW i \in DOMAIN mapping, "registered" \in native'[mapping[i].key]
      PROVE  mapping[i].live
  <2>1. mapping[i] \in Record
    BY DEF Typed, FilesTyped
  <2>2. mapping[i].key \in Keys
    BY <2>1 DEF Record
  <2> QED
    BY <1>2, <2>2, NobodyHandsOver DEF LiveInv
<1>3. ASSUME NEW i \in DOMAIN mapping', "registered" \in native'[mapping'[i].key]
      PROVE  mapping'[i].live
  <2>1. CASE mapping' = mapping
    BY <1>2, <1>3, <2>1
  <2>2. ASSUME NEW p \in Procs, WriteMapping(p), Is(p, {"register"}), Job[p].record \in Record,
               AdmitsRegistration(mapping, Job[p].record),
               mapping' = Registered(mapping, Job[p].record)
        PROVE  mapping'[i].live
    <3> DEFINE r == Job[p].record
    <3>1. /\ DOMAIN mapping' = DOMAIN mapping \cup {Len(mapping) + 1}
          /\ mapping'[Len(mapping) + 1] = r
          /\ \A j \in DOMAIN mapping : mapping'[j] = mapping[j]
      <4>1. mapping \in Seq(Record)
        BY DEF Typed, FilesTyped
      <4> QED
        BY <2>2, <4>1, RegisteredFacts
    <3>2. proc'[p].pc # "off"
      BY <2>2, FileLocals DEF Goes
    <3> HIDE DEF r
    <3>3. "registered" \in native'[r.key] => r.live
      BY <1>1, <2>2, <3>2 DEF r
    <3> QED
      BY <1>2, <1>3, <3>1, <3>3
  <2> QED
    BY <2>1, <2>2, MappingGrows
<1> QED
  BY <1>1, <1>3 DEF LiveInv, At

----------------------------------------------------------------------------
(* The session a run works on.                                             *)

There(s) == DOMAIN s.windows # {}
InFront(s) == s.windows[s.current]

\* What a run knows of the session s it works on.
Scene(self, s) ==
  /\ self.pc \in (Launching \ {"create"}) \cup {"open", "unqueue"} => There(s)
  /\ self.pc \in {"look", "panes"} /\ self.stage # "first" => There(s)
  /\ self.pc = "panes" => (self.seen.state = "there" <=> There(s))
  /\ self.pc = "own" /\ self.verb # "started" => There(s) /\ InFront(s) # "head"
  /\ self.pc \in {"await", "window", "provider", "select"} => InFront(s) # "head"
  /\ self.pc \in {"provider", "select"} => self.old = s.current
  /\ self.pc \in {"select", "discard"} =>
       /\ self.new \in DOMAIN s.windows /\ self.old < self.new
       /\ \A w \in DOMAIN s.windows : w <= self.new
  /\ self.pc = "discard" => s.current = self.new

\* The same windows, but panes may have died.
Calm(s, t) ==
  /\ DOMAIN t.windows = DOMAIN s.windows /\ t.current = s.current
  /\ \A w \in DOMAIN s.windows : t.windows[w] \in {s.windows[w], "dead"}

\* A pane that dies changes nothing a run has to know.
LEMMA CalmScene ==
  ASSUME NEW self, NEW s, NEW t, Scene(self, s), Calm(s, t),
         There(s) => s.current \in DOMAIN s.windows
  PROVE  Scene(self, t)
<1>1. There(t) <=> There(s)
  BY DEF Calm, There
<1>2. There(s) /\ InFront(s) # "head" => InFront(t) # "head"
  BY DEF Calm, InFront
<1>3. t.current = s.current /\ DOMAIN t.windows = DOMAIN s.windows
  BY DEF Calm
<1>4. self.pc \in {"await", "window", "provider", "select"} => There(s)
  BY DEF Scene, Launching
<1> QED
  BY <1>1, <1>2, <1>3, <1>4 DEF Scene

\* A step of a run brings the session to where its next command expects it.
LEMMA OwnScene ==
  ASSUME Typed, LockInv, CourseInv, SceneInv, HeadInv, NEW p \in Procs, InRunStep(p),
         proc'[p].pc \in InRun
  PROVE  Scene(proc'[p], session'[Key(p)'])
<1> DEFINE k == Key(p)
<1>1. /\ ConsoleTyped /\ RunsTyped /\ k \in Keys /\ proc[p].pc \in InRun
      /\ Token(p) \in Tokens /\ KeyOf[Token(p)] = k
  BY InRunSteps, RunFacts DEF Typed
<1>2. Scene(proc[p], session[k])
  BY <1>1 DEF SceneInv, Scene, There, InFront, Exists, Pane
<1>3. There(session[k]) => session[k].current \in DOMAIN session[k].windows
  BY <1>1 DEF HeadInv, There, Exists
<1>4. CASE Finished(p)
  <2>1. proc'[p].pc = "look" /\ proc'[p].stage = "first"
    BY <1>4 DEF Finished, InRun, After
  <2> QED
    BY <2>1 DEF Scene, Launching
<1>5. CASE Moved(p) /\ ~Finished(p)
  <2>1. Key(p)' = k
    BY <1>5 DEF Moved, Key, Project
  <2> HIDE DEF k
  <2>2. SUFFICES Scene(proc'[p], session'[k])
    BY <2>1
  <2>3. session[k] = session'[k] => There(session'[k]) = There(session[k])
    OBVIOUS
  <2>4. CASE Look(p)
    <3>1. session' = session /\ proc[p].pc = "look"
      BY <2>4 DEF Look, console, At
    <3>2. /\ proc'[p].pc = "panes" /\ proc'[p].stage = proc[p].stage
          /\ proc'[p].seen.state = "there" <=> There(session[k])
      BY <2>4, StepLocals DEF There, Exists, k
    <3> QED
      BY <1>2, <3>1, <3>2 DEF Scene, Launching
  <2>5. CASE Panes(p)
    <3>1. session' = session /\ proc[p].pc = "panes"
      BY <2>5 DEF Panes, console, At
    <3>2. Sent(p)
      BY <1>1, <1>5, <2>5, PanesEffect
    <3>3. proc[p].seen.state = "there" <=> There(session[k])
      BY <1>2, <3>1 DEF Scene
    <3>4. proc[p].stage # "first" => There(session[k])
      BY <1>2, <3>1 DEF Scene
    <3>5. CASE proc'[p].pc \in {"consume", "create"}
      BY <3>5 DEF Scene, Launching
    <3>6. CASE proc'[p].pc \in {"look", "open"}
      <4>1. There(session[k])
        BY <3>2, <3>3, <3>4, <3>6 DEF Sent
      <4> QED
        BY <3>1, <3>6, <4>1 DEF Scene, Launching
    <3>7. CASE proc'[p].pc \in {"own", "window"}
      <4>1. \/ proc'[p].pc # "window" /\ proc'[p].verb = "started"
            \/ proc[p].seen.state = "there" /\ Pane(Key(p)) = "dead"
        BY <3>2, <3>7 DEF Sent
      <4>2. Pane(Key(p)) = InFront(session[k])
        BY DEF Pane, InFront, k
      <4> QED
        BY <3>1, <3>3, <3>7, <4>1, <4>2 DEF Scene, Launching
    <3> QED
      BY <3>2, <3>5, <3>6, <3>7 DEF Sent
  <2>6. CASE CheckOwner(p)
    <3>1. session' = session /\ proc[p].pc = "own"
      BY <2>6 DEF CheckOwner, console, At
    <3>2. proc'[p].pc = IF proc[p].verb = "started" THEN "create" ELSE "window"
      BY <1>1, <1>5, <2>6, StepLabels
    <3> QED
      BY <1>2, <3>1, <3>2 DEF Scene, Launching
  <2>7. CASE Create(p)
    <3>1. proc'[p].pc = "await"
      BY <2>7, StepLabels
    <3>2. session'[k] = NewSession
      BY <1>1, <2>7, CreateEffect DEF Create, k
    <3>3. There(NewSession) /\ InFront(NewSession) = "setup"
      BY DEF There, InFront, NewSession
    <3> QED
      BY <3>1, <3>2, <3>3 DEF Scene
  <2>8. CASE Await(p)
    <3>1. session' = session /\ proc[p].pc = "await" /\ proc'[p].pc = "window"
      BY <2>8, StepLabels DEF Await, console, At
    <3> QED
      BY <1>2, <3>1 DEF Scene, Launching
  <2>9. CASE ReadWindow(p)
    <3>1. /\ session' = session /\ proc[p].pc = "window" /\ proc'[p].pc = "provider"
          /\ proc'[p].old = session[k].current
      BY <2>9, StepLocals DEF ReadWindow, console, At, k
    <3> QED
      BY <1>2, <3>1 DEF Scene, Launching
  <2>10. CASE StartProvider(p)
    <3>1. /\ proc[p].pc = "provider" /\ proc'[p].pc = "select" /\ proc'[p].old = proc[p].old
          /\ proc'[p].new = NextWindow(k)
      BY <2>10, StepLocals DEF StartProvider, At, k
    <3>2. There(session[k]) /\ InFront(session[k]) # "head" /\ proc[p].old = session[k].current
      BY <1>2, <3>1 DEF Scene, Launching
    <3>3. /\ NextWindow(k) \in Nat
          /\ \A w \in DOMAIN session[k].windows :
               w \in Nat /\ w < NextWindow(k) /\ session'[k].windows[w] = session[k].windows[w]
          /\ DOMAIN session'[k].windows = DOMAIN session[k].windows \cup {NextWindow(k)}
          /\ session'[k].current = session[k].current
      BY <1>1, <2>10, <3>2, StartEffect DEF StartProvider, There, Exists, k
    <3>4. There(session'[k]) /\ InFront(session'[k]) # "head"
      BY <1>3, <3>2, <3>3 DEF There, InFront
    <3>5. /\ NextWindow(k) \in DOMAIN session'[k].windows
          /\ session'[k].current < NextWindow(k)
          /\ \A w \in DOMAIN session'[k].windows : w <= NextWindow(k)
      BY <1>3, <3>2, <3>3
    <3> QED
      BY <3>1, <3>2, <3>3, <3>4, <3>5 DEF Scene
  <2>11. CASE SelectProvider(p)
    <3>1. /\ proc[p].pc = "select" /\ proc'[p].pc = "discard" /\ proc'[p].old = proc[p].old
          /\ proc'[p].new = proc[p].new /\ proc[p].new \in Nat
      BY <1>1, <2>11, StepLabels DEF SelectProvider, At, RunsTyped, Local
    <3>2. session'[k].windows = session[k].windows /\ session'[k].current = proc[p].new
      BY <1>1, <2>11, <3>1, SelectEffect DEF SelectProvider, k
    <3> QED
      BY <1>2, <3>1, <3>2 DEF Scene, Launching, There
  <2>12. CASE DiscardWindow(p)
    <3>1. proc[p].pc = "discard" /\ proc'[p].pc = "look" /\ proc'[p].stage = "attach"
      BY <2>12, StepLocals DEF DiscardWindow, At
    <3>2. /\ proc[p].new \in DOMAIN session[k].windows /\ proc[p].old < proc[p].new
          /\ \A w \in DOMAIN session[k].windows : w <= proc[p].new
      BY <1>2, <3>1 DEF Scene
    <3>3. proc[p].old # proc[p].new
      BY <1>1, <3>2 DEF RunsTyped, Local
    <3>4. DOMAIN session'[k].windows = DOMAIN session[k].windows \ {proc[p].old}
      BY <1>1, <2>12, <3>2, <3>3, KillWindowEffect DEF DiscardWindow, k
    <3>5. There(session'[k])
      BY <3>2, <3>3, <3>4 DEF There
    <3> QED
      BY <3>1, <3>5 DEF Scene, Launching
  <2>13. CASE OpenViewer(p) \/ OpenViewerFails(p)
    <3>1. proc[p].pc = "open" /\ proc'[p].pc \in {"look", "unqueue"}
      BY <2>13, StepLocals, StepLabels DEF OpenViewer, OpenViewerFails, At
    <3>2. SameWindows(session'[k], session[k])
      BY <1>1, <2>13, EnqueueEffect DEF OpenViewer, OpenViewerFails, k
    <3>3. There(session'[k])
      BY <1>2, <3>1, <3>2 DEF Scene, SameWindows, There
    <3> QED
      BY <3>1, <3>3 DEF Scene, Launching
  <2> QED
    BY <1>5, <2>4, <2>5, <2>6, <2>7, <2>8, <2>9, <2>10, <2>11, <2>12, <2>13, StepLabels
    DEF InRunStep
<1> QED
  BY <1>4, <1>5, InRunEffect

\* What a run has found out stays so until its own next step.
LEMMA SceneStep ==
  ASSUME Typed, LockInv, CourseInv, SceneInv, HeadInv, Next
  PROVE  SceneInv'
<1>1. ASSUME NEW p \in Procs, proc[p].pc \in InRun PROVE Scene(proc[p], session[Key(p)])
  BY <1>1 DEF SceneInv, Scene, There, InFront, Exists, Pane
<1>2. SUFFICES ASSUME NEW p \in Procs, proc'[p].pc \in InRun
               PROVE  Scene(proc'[p], session'[Key(p)'])
  BY DEF SceneInv, Scene, There, InFront, Exists, Pane
<1>3. ConsoleTyped /\ RunsTyped
  BY DEF Typed
<1>4. CASE InRunStep(p)
  BY <1>2, <1>4, OwnScene
<1>5. CASE FileStep(p)
  <2>1. LockRuntime(p)
    BY <1>2, <1>5, FileLocals DEF FileStep, Goes, InRun
  <2>2. proc'[p].pc = "look" /\ proc'[p].stage = "first"
    BY <2>1, FileLocals DEF Goes, Quiet, LockRuntime, At, CourseInv
  <2> QED
    BY <2>2 DEF Scene, Launching
<1>6. ~Kill(p) /\ ~Reboot
  BY <1>2, KillEffect, RebootEffect DEF InRun, Working
<1>7. CASE proc'[p] = proc[p] /\ ~InRunStep(p) /\ ~FileStep(p)
  <2> DEFINE k == Key(p)
  <2>1. Key(p)' = k /\ proc[p].pc \in InRun /\ Scene(proc[p], session[k])
    BY <1>1, <1>2, <1>7 DEF Key, Project
  <2>2. k \in Keys
    BY <1>3, <2>1, RunFacts
  <2>3. There(session[k]) => session[k].current \in DOMAIN session[k].windows
    BY <2>2 DEF HeadInv, There, Exists
  <2> HIDE DEF k
  <2>4. Calm(session[k], session'[k])
    <3>1. CASE session' = session
      BY <3>1 DEF Calm
    <3>2. ASSUME NEW q \in Procs, FileStep(q) \/ Kill(q) PROVE session' = session
      BY <3>2, KillEffect, FileLocals DEF FileStep, Goes, Quiet, console
    <3>3. ASSUME NEW q \in Procs PROVE ~InRunStep(q)
      <4>1. CASE q = p
        BY <1>7, <4>1
      <4>2. CASE q # p
        BY <2>1, <4>2, InRunSteps DEF LockInv
      <4> QED
        BY <4>1, <4>2
    <3>4. ASSUME NEW j \in Keys, KeyStep(j) PROVE Calm(session[k], session'[k])
      <4>1. CASE j = k
        BY <1>3, <3>4, <4>1, KeyEffect DEF Calm
      <4>2. CASE j # k
        <5>1. session'[k] = session[k]
          BY <1>3, <2>2, <3>4, <4>2, KeyEffect DEF Rewritten
        <5> QED
          BY <5>1 DEF Calm
      <4> QED
        BY <4>1, <4>2
    <3>5. ASSUME NEW t \in Tokens, ViewerStep(t) \/ CloseViewer(t)
          PROVE  Calm(session[k], session'[k])
      <4>1. CASE KeyOf[t] = k
        BY <1>3, <3>5, <4>1, ViewerEffect DEF Calm, SameWindows
      <4>2. CASE KeyOf[t] # k
        <5>1. session'[k] = session[k]
          BY <1>3, <2>2, <3>5, <4>2, ViewerEffect DEF Rewritten
        <5> QED
          BY <5>1 DEF Calm
      <4> QED
        BY <4>1, <4>2
    <3> QED
      BY <1>6, <3>1, <3>2, <3>3, <3>4, <3>5, StepKinds
  <2> QED
    BY <1>7, <2>1, <2>3, <2>4, CalmScene
<1> QED
  BY <1>4, <1>5, <1>6, <1>7, OwnSteps

----------------------------------------------------------------------------
(* The heads of a session.                                                 *)

HeadsOf(s) == {w \in DOMAIN s.windows : s.windows[w] = "head"}

\* The heads are finitely many windows.
LEMMA HeadsFacts ==
  ASSUME NEW s \in SessionRecord
  PROVE  HeadsOf(s) \subseteq Nat /\ IsFiniteSet(HeadsOf(s))
<1>1. DOMAIN s.windows \in Numbered
  BY LayoutFacts DEF SessionRecord
<1>2. IsFiniteSet(DOMAIN s.windows) /\ DOMAIN s.windows \subseteq Nat
  BY <1>1, NumberedFacts DEF Numbered
<1>3. HeadsOf(s) \subseteq DOMAIN s.windows
  BY DEF HeadsOf
<1> QED
  BY <1>2, <1>3, FS_Subset

\* A part of a finite set is not larger.
LEMMA Fewer ==
  ASSUME NEW T, IsFiniteSet(T), NEW S \in SUBSET T
  PROVE  /\ IsFiniteSet(S)
         /\ Cardinality(S) \in Nat /\ Cardinality(T) \in Nat /\ Cardinality(S) <= Cardinality(T)
BY FS_Subset, FS_CardinalityType

\* What each step of a run does to the windows of its session.
LEMMA RunWindows ==
  ASSUME Typed, LockInv, CourseInv, SceneInv, HeadInv, NEW p \in Procs, InRunStep(p)
  PROVE  LET s == session[Key(p)]
             t == session'[Key(p)]
             new == proc'[p].new
         IN  /\ \/ Create(p) \/ StartProvider(p) \/ SelectProvider(p) \/ DiscardWindow(p)
                \/ Calm(s, t)
             /\ Create(p) => HeadsOf(t) = {} /\ t.current = 0 /\ 0 \in DOMAIN t.windows
             /\ StartProvider(p) =>
                  /\ proc[p].pc = "provider" /\ proc'[p].pc = "select" /\ new \in Nat
                  /\ HeadsOf(t) = HeadsOf(s) \cup {new} /\ new \notin HeadsOf(s)
                  /\ s.current \notin HeadsOf(s)
                  /\ t.current = s.current /\ t.current \in DOMAIN t.windows
             /\ SelectProvider(p) =>
                  /\ proc[p].pc = "select" /\ HeadsOf(t) = HeadsOf(s)
                  /\ s.current \notin HeadsOf(s)
                  /\ t.current = proc[p].new /\ t.current \in DOMAIN t.windows
             /\ DiscardWindow(p) =>
                  /\ proc[p].pc = "discard" /\ HeadsOf(t) \subseteq HeadsOf(s)
                  /\ t.current = s.current /\ t.current \in DOMAIN t.windows
<1> DEFINE k == Key(p)
           s == session[k]
           t == session'[k]
<1>1. /\ ConsoleTyped /\ RunsTyped /\ k \in Keys /\ proc[p].pc \in InRun
      /\ Token(p) \in Tokens /\ KeyOf[Token(p)] = k
  BY InRunSteps, RunFacts DEF Typed
<1>2. Scene(proc[p], s)
  BY <1>1 DEF SceneInv, Scene, There, InFront, Exists, Pane
<1>3. There(s) => s.current \in DOMAIN s.windows
  BY <1>1 DEF HeadInv, There, Exists
<1>4. Create(p) => HeadsOf(t) = {} /\ t.current = 0 /\ 0 \in DOMAIN t.windows
  <2>1. HeadsOf(NewSession) = {} /\ NewSession.current = 0 /\ 0 \in DOMAIN NewSession.windows
    BY DEF HeadsOf, NewSession
  <2>2. Create(p) => t = NewSession
    BY <1>1, CreateEffect DEF Create
  <2> QED
    BY <2>1, <2>2
<1>5. ASSUME StartProvider(p)
      PROVE  /\ proc[p].pc = "provider" /\ proc'[p].pc = "select" /\ proc'[p].new \in Nat
             /\ HeadsOf(t) = HeadsOf(s) \cup {proc'[p].new} /\ proc'[p].new \notin HeadsOf(s)
             /\ s.current \notin HeadsOf(s)
             /\ t.current = s.current /\ t.current \in DOMAIN t.windows
  <2>1. proc[p].pc = "provider" /\ proc'[p].pc = "select" /\ proc'[p].new = NextWindow(k)
    BY <1>5, StepLocals DEF StartProvider, At
  <2>2. There(s) /\ InFront(s) # "head"
    BY <1>2, <2>1 DEF Scene, Launching
  <2>3. /\ NextWindow(k) \in Nat
        /\ \A w \in DOMAIN s.windows :
             w \in Nat /\ w < NextWindow(k) /\ t.windows[w] = s.windows[w]
        /\ DOMAIN t.windows = DOMAIN s.windows \cup {NextWindow(k)}
        /\ t.windows[NextWindow(k)] = "head"
        /\ t.current = s.current
    <3>1. Exists(k) /\ StartWindow(k)
      BY <1>5, <2>2 DEF StartProvider, There, Exists
    <3> QED
      BY <1>1, <3>1, StartEffect
  <2> HIDE DEF k, s, t
  <2>4. NextWindow(k) \notin DOMAIN s.windows
    BY <2>3
  <2>5. HeadsOf(t) = HeadsOf(s) \cup {NextWindow(k)} /\ NextWindow(k) \notin HeadsOf(s)
    BY <2>3, <2>4 DEF HeadsOf
  <2>6. s.current \notin HeadsOf(s)
    BY <2>2 DEF HeadsOf, InFront
  <2> QED
    BY <1>3, <2>1, <2>2, <2>3, <2>5, <2>6
<1>6. ASSUME SelectProvider(p)
      PROVE  /\ proc[p].pc = "select" /\ HeadsOf(t) = HeadsOf(s)
             /\ s.current \notin HeadsOf(s)
             /\ t.current = proc[p].new /\ t.current \in DOMAIN t.windows
  <2>1. proc[p].pc = "select" /\ proc[p].new \in Nat
    BY <1>1, <1>6 DEF SelectProvider, At, RunsTyped, Local
  <2>2. t.windows = s.windows /\ t.current = proc[p].new
    BY <1>1, <1>6, <2>1, SelectEffect DEF SelectProvider
  <2>3. InFront(s) # "head" /\ proc[p].new \in DOMAIN s.windows
    BY <1>2, <2>1 DEF Scene
  <2> QED
    BY <2>1, <2>2, <2>3 DEF HeadsOf, InFront
<1>7. ASSUME DiscardWindow(p)
      PROVE  /\ proc[p].pc = "discard" /\ HeadsOf(t) \subseteq HeadsOf(s)
             /\ t.current = s.current /\ t.current \in DOMAIN t.windows
  <2>1. proc[p].pc = "discard" /\ KillWindow(k, proc[p].old)
    BY <1>7 DEF DiscardWindow, At
  <2>2. /\ proc[p].new \in DOMAIN s.windows /\ proc[p].old < proc[p].new
        /\ \A w \in DOMAIN s.windows : w <= proc[p].new
        /\ s.current = proc[p].new
    BY <1>2, <2>1 DEF Scene
  <2>3. proc[p].old # proc[p].new
    BY <1>1, <2>2 DEF RunsTyped, Local
  <2>4. /\ DOMAIN t.windows = DOMAIN s.windows \ {proc[p].old} /\ t.current = s.current
        /\ \A v \in DOMAIN t.windows : t.windows[v] = s.windows[v]
    BY <1>1, <2>1, <2>2, <2>3, KillWindowEffect
  <2> HIDE DEF k, s, t
  <2> QED
    BY <2>1, <2>2, <2>3, <2>4 DEF HeadsOf
<1>8. ASSUME ~(Create(p) \/ StartProvider(p) \/ SelectProvider(p) \/ DiscardWindow(p))
      PROVE  Calm(s, t)
  <2>1. CASE Consume(p) \/ ClearToken(p)
    <3>1. NoAttempt \in Attempts
      BY DEF NoAttempt, Attempts
    <3> QED
      BY <1>1, <2>1, <3>1, SetAttemptEffect DEF Consume, ClearToken, Calm, SameWindows
  <2>2. CASE OpenViewer(p) \/ OpenViewerFails(p)
    <3>1. Enqueue(Token(p)) \/ EnqueueHalf(Token(p))
      BY <2>2 DEF OpenViewer, OpenViewerFails
    <3> QED
      BY <1>1, <3>1, EnqueueEffect DEF Calm, SameWindows
  <2>3. CASE Look(p) \/ Panes(p) \/ CheckOwner(p) \/ Await(p) \/ ReadWindow(p) \/ CommandFails(p)
    <3>1. session' = session
      BY <2>3 DEF Look, Panes, CheckOwner, Await, ReadWindow, CommandFails, console
    <3> QED
      BY <3>1 DEF Calm
  <2> QED
    BY <1>8, <2>1, <2>2, <2>3 DEF InRunStep
<1> HIDE DEF k, s, t
<1> QED
  BY <1>4, <1>5, <1>6, <1>7, <1>8 DEF k, s, t

\* The windows chosen and the causes of the heads, of any sessions and commands.
Picked(k, w, sessions, locals) ==
  \/ w = sessions[k].current
  \/ \E p \in Procs :
       locals[p].pc = "select" /\ Head(locals[p].todo).key = k /\ w = locals[p].new

Caused(k, sessions, locals, counts) ==
  \E w \in Nat :
    /\ Picked(k, w, sessions, locals)
    /\ Cardinality(HeadsOf(sessions[k]) \ {w}) <= counts[k]

\* The invariant is about those of now.
LEMMA CausedNow ==
  ASSUME NEW k
  PROVE  /\ (\E w \in Nat : Chosen(k, w) /\ Cardinality(Heads(k) \ {w}) <= interrupted[k])
              <=> Caused(k, session, proc, interrupted)
         /\ (\E w \in Nat : Chosen(k, w) /\ Cardinality(Heads(k) \ {w}) <= interrupted[k])'
              <=> Caused(k, session', proc', interrupted')
BY DEF Chosen, Picked, Caused, Heads, HeadsOf, At, Key, Project

\* The session of k, and the counts, before and after a step.
Counted(k) ==
  /\ session[k] \in SessionRecord /\ session'[k] \in SessionRecord
  /\ interrupted[k] \in Nat /\ interrupted'[k] \in Nat /\ interrupted'[k] >= interrupted[k]

\* When windows only lose heads and the choice stays, what is left had its cause.
LEMMA CausedKept ==
  ASSUME NEW k, Counted(k), Caused(k, session, proc, interrupted),
         HeadsOf(session'[k]) \subseteq HeadsOf(session[k]),
         \A w \in Nat : Picked(k, w, session, proc) => Picked(k, w, session', proc')
  PROVE  Caused(k, session', proc', interrupted')
<1> DEFINE before == HeadsOf(session[k])
           after == HeadsOf(session'[k])
<1>1. PICK w \in Nat :
        Picked(k, w, session, proc) /\ Cardinality(before \ {w}) <= interrupted[k]
  BY DEF Caused
<1>2. IsFiniteSet(before \ {w})
  BY HeadsFacts, FS_RemoveElement DEF Counted
<1>3. after \ {w} \subseteq before \ {w}
  OBVIOUS
<1>4. /\ Cardinality(after \ {w}) <= Cardinality(before \ {w})
      /\ Cardinality(after \ {w}) \in Nat /\ Cardinality(before \ {w}) \in Nat
  BY <1>2, <1>3, Fewer
<1>5. Cardinality(after \ {w}) <= interrupted'[k]
  BY <1>1, <1>4 DEF Counted
<1> QED
  BY <1>1, <1>5 DEF Caused

\* A window v may be chosen anew: when the choice before was v or no head, or
\* when there is one interruption more.
LEMMA CausedBy ==
  ASSUME NEW k, Counted(k), Caused(k, session, proc, interrupted),
         NEW v \in Nat, Picked(k, v, session', proc'),
         HeadsOf(session'[k]) \ {v} \subseteq HeadsOf(session[k]),
         \/ \A w \in Nat : Picked(k, w, session, proc) => w = v \/ w \notin HeadsOf(session[k])
         \/ interrupted'[k] = interrupted[k] + 1
  PROVE  Caused(k, session', proc', interrupted')
<1> DEFINE before == HeadsOf(session[k])
           after == HeadsOf(session'[k])
<1>1. PICK w \in Nat :
        Picked(k, w, session, proc) /\ Cardinality(before \ {w}) <= interrupted[k]
  BY DEF Caused
<1>2. IsFiniteSet(before) /\ IsFiniteSet(before \ {w})
  BY HeadsFacts, FS_RemoveElement DEF Counted
<1>3. /\ Cardinality(before) \in Nat /\ Cardinality(before \ {w}) \in Nat
      /\ Cardinality(before) <= Cardinality(before \ {w}) + 1
  BY <1>2, FS_CardinalityType, FS_RemoveElement
<1>4. /\ Cardinality(after \ {v}) <= Cardinality(before)
      /\ Cardinality(after \ {v}) \in Nat
  BY <1>2, Fewer
<1>5. SUFFICES Cardinality(after \ {v}) <= interrupted'[k]
  BY DEF Caused
<1>6. CASE interrupted'[k] = interrupted[k] + 1
  BY <1>1, <1>3, <1>4, <1>6 DEF Counted
<1>7. CASE w \notin before
  <2>1. before \ {w} = before
    BY <1>7
  <2>2. Cardinality(before) <= interrupted[k]
    BY <1>1, <2>1
  <2> QED
    BY <1>3, <1>4, <2>2 DEF Counted
<1>8. CASE w = v
  <2>1. after \ {v} \subseteq before \ {w}
    BY <1>8
  <2>2. Cardinality(after \ {v}) <= Cardinality(before \ {w})
    BY <1>2, <2>1, Fewer
  <2> QED
    BY <1>1, <1>3, <1>4, <2>2 DEF Counted
<1> QED
  BY <1>1, <1>6, <1>7, <1>8

\* While a run works, the window chosen is in front, or is the one it will select.
LEMMA PickedInFront ==
  ASSUME LockInv, NEW p \in Procs, proc[p].pc \in InRun, NEW k, NEW w,
         Picked(k, w, session, proc)
  PROVE  w = session[k].current \/ (proc[p].pc = "select" /\ Key(p) = k /\ w = proc[p].new)
<1>1. ASSUME NEW q \in Procs, proc[q].pc = "select" PROVE q = p
  BY <1>1 DEF LockInv, InRun
<1> QED
  BY <1>1 DEF Picked, Key, Project

\* A run's step adds a head only where it chooses it.
LEMMA CausedRun ==
  ASSUME Typed, LockInv, CourseInv, SceneInv, HeadInv, Typed', NEW p \in Procs, InRunStep(p),
         NEW k \in Keys
  PROVE  Caused(k, session', proc', interrupted')
<1> DEFINE s == session[k]
           t == session'[k]
<1>1. Key(p) \in Keys /\ proc[p].pc \in InRun
  BY InRunSteps, RunFacts DEF Typed
<1>2. Caused(k, session, proc, interrupted)
  BY CausedNow DEF HeadInv
<1>3. Counted(k)
  BY InRunFaults DEF Typed, ConsoleTyped, RunsTyped, Counted
<1>4. s.current \in Nat /\ t.current \in Nat
  BY <1>3 DEF Counted, SessionRecord
<1>5. Picked(k, t.current, session', proc')
  BY DEF Picked
<1>6. CASE Key(p) # k
  <2>1. t = s
    BY <1>6, InRunConsole DEF Rewritten
  <2>2. \A w \in Nat : Picked(k, w, session, proc) => w = s.current
    BY <1>1, <1>6, PickedInFront
  <2>3. \A w \in Nat : Picked(k, w, session, proc) => Picked(k, w, session', proc')
    BY <1>5, <2>1, <2>2
  <2> QED
    BY <1>2, <1>3, <2>1, <2>3, CausedKept
<1>7. CASE Key(p) = k /\ StartProvider(p)
  <2> DEFINE v == proc'[p].new
  <2>1. /\ proc[p].pc = "provider" /\ proc'[p].pc = "select" /\ v \in Nat
        /\ HeadsOf(t) = HeadsOf(s) \cup {v} /\ s.current \notin HeadsOf(s)
    BY <1>7, RunWindows
  <2>2. Picked(k, v, session', proc')
    <3>1. Head(proc'[p].todo).key = k
      BY <1>7, StepLocals DEF Moved, Key, Project
    <3> QED
      BY <2>1, <3>1 DEF Picked
  <2>3. \A w \in Nat : Picked(k, w, session, proc) => w \notin HeadsOf(s)
    BY <1>1, <2>1, PickedInFront
  <2>4. HeadsOf(t) \ {v} \subseteq HeadsOf(s)
    BY <2>1
  <2> HIDE DEF v
  <2> QED
    BY <1>2, <1>3, <2>1, <2>2, <2>3, <2>4, CausedBy
<1>8. CASE Key(p) = k /\ SelectProvider(p)
  <2>1. /\ proc[p].pc = "select" /\ HeadsOf(t) = HeadsOf(s) /\ s.current \notin HeadsOf(s)
        /\ t.current = proc[p].new
    BY <1>8, RunWindows
  <2>2. \A w \in Nat : Picked(k, w, session, proc) => w = t.current \/ w \notin HeadsOf(s)
    BY <1>1, <2>1, PickedInFront
  <2>3. HeadsOf(t) \ {t.current} \subseteq HeadsOf(s)
    BY <2>1
  <2> QED
    BY <1>2, <1>3, <1>4, <1>5, <2>2, <2>3, CausedBy
<1>9. CASE Key(p) = k /\ CommandFails(p) /\ proc[p].pc = "select"
  <2>1. interrupted'[k] = interrupted[k] + 1
    BY <1>9, InterruptsEffect DEF CommandFails, At
  <2>2. t = s
    BY <1>9 DEF CommandFails, console
  <2>3. HeadsOf(t) \ {t.current} \subseteq HeadsOf(s)
    BY <2>2
  <2> QED
    BY <1>2, <1>3, <1>4, <1>5, <2>1, <2>3, CausedBy
<1>10. CASE Key(p) = k /\ Create(p)
  <2>1. HeadsOf(t) = {} /\ HeadsOf(t) \ {t.current} = {}
    BY <1>10, RunWindows
  <2>2. Cardinality(HeadsOf(t) \ {t.current}) = 0
    BY <2>1, FS_EmptySet
  <2>3. Cardinality(HeadsOf(t) \ {t.current}) <= interrupted'[k]
    BY <1>3, <2>2 DEF Counted
  <2> QED
    BY <1>4, <1>5, <2>3 DEF Caused
<1>11. CASE /\ Key(p) = k /\ ~StartProvider(p) /\ ~SelectProvider(p) /\ ~Create(p)
            /\ ~(CommandFails(p) /\ proc[p].pc = "select")
  <2>1. HeadsOf(t) \subseteq HeadsOf(s) /\ t.current = s.current
    <3>1. Calm(s, t) => HeadsOf(t) \subseteq HeadsOf(s) /\ t.current = s.current
      BY DEF Calm, HeadsOf
    <3> QED
      BY <1>11, <3>1, RunWindows
  <2>2. proc[p].pc # "select"
    BY <1>11 DEF InRunStep, Look, Panes, Consume, CheckOwner, Create, Await, ReadWindow,
       DiscardWindow, OpenViewer, OpenViewerFails, ClearToken, At
  <2>3. \A w \in Nat : Picked(k, w, session, proc) => w = s.current
    BY <1>1, <2>2, PickedInFront
  <2>4. \A w \in Nat : Picked(k, w, session, proc) => Picked(k, w, session', proc')
    BY <1>5, <2>1, <2>3
  <2> QED
    BY <1>2, <1>3, <2>1, <2>4, CausedKept
<1> QED
  BY <1>6, <1>7, <1>8, <1>9, <1>10, <1>11

\* Nobody launches a project whose handed-over process runs.
LEMMA LaunchStep ==
  ASSUME Typed, LockInv, CourseInv, SceneInv, MappingInv, LiveInv, HeadInv, Next,
         NEW k \in Keys, "registered" \in native'[k]
  PROVE  /\ HeadsOf(session'[k]) = {}
         /\ \A p \in Procs : proc'[p].pc \in Launching => Key(p)' # k
<1>1. /\ "registered" \in native[k] /\ HeadsOf(session[k]) = {}
      /\ \A p \in Procs : proc[p].pc \in Launching => Key(p) # k
  BY NobodyHandsOver DEF HeadInv, Heads, HeadsOf
<1>2. ConsoleTyped /\ RunsTyped
  BY DEF Typed
<1>3. ~Reboot
  BY <1>1, RebootEffect
<1>4. \A s, t : Calm(s, t) => HeadsOf(t) \subseteq HeadsOf(s)
  BY DEF Calm, HeadsOf
<1>5. ASSUME NEW p \in Procs, InRunStep(p)
      PROVE  /\ HeadsOf(session'[k]) \subseteq HeadsOf(session[k])
             /\ proc'[p].pc \in Launching => Key(p)' # k
  <2>1. Key(p) \in Keys /\ Project(p) \in Record /\ proc[p].pc \in InRun
        /\ proc[p].todo \in Seq(Record) /\ proc[p].todo # <<>>
    BY <1>2, <1>5, InRunSteps, RunFacts DEF RunsTyped, Local, CourseInv
  <2>2. CASE Key(p) # k
    <3>1. session'[k] = session[k]
      BY <1>5, <2>2, InRunConsole DEF Rewritten
    <3>2. Moved(p) => Key(p)' # k
      BY <2>2 DEF Moved, Key, Project
    <3>3. Finished(p) => proc'[p].pc \notin Launching
      BY DEF Finished, After, Launching
    <3> QED
      BY <1>5, <3>1, <3>2, <3>3, InRunEffect
  <2>3. CASE Key(p) = k
    <3>1. proc[p].pc \notin Launching
      BY <1>1, <2>3
    <3>2. ~StartProvider(p) /\ ~SelectProvider(p) /\ ~DiscardWindow(p) /\ ~Create(p)
          /\ ~Await(p) /\ ~ReadWindow(p)
      BY <3>1 DEF StartProvider, SelectProvider, DiscardWindow, Create, Await, ReadWindow, At,
                  Launching
    <3>3. HeadsOf(session'[k]) \subseteq HeadsOf(session[k])
      BY <1>4, <1>5, <2>3, <3>2, RunWindows
    <3>4. proc'[p].pc \notin Launching
      <4>1. CASE Panes(p)
        <5>1. Project(p).live
          <6>1. Project(p) \in ToSet(proc[p].todo)
            BY <2>1 DEF Project, ToSet
          <6>2. PICK i \in DOMAIN mapping : Project(p) = mapping[i]
            BY <6>1 DEF MappingInv, ToSet
          <6> QED
            BY <1>1, <2>3, <6>2 DEF LiveInv, Key
        <5>2. Sent(p) => proc'[p].pc \notin Launching
          BY <5>1 DEF Sent, Launching
        <5>3. Finished(p) => proc'[p].pc \notin Launching
          BY DEF Finished, After, Launching
        <5> QED
          BY <1>2, <4>1, <5>2, <5>3, PanesEffect
      <4>2. CASE CheckOwner(p)
        <5>1. Ownership(Key(p)) # "absent"
          BY <1>1, <2>3 DEF Ownership
        <5>2. Finished(p) => proc'[p].pc \notin Launching
          BY DEF Finished, After, Launching
        <5> QED
          BY <4>2, <5>1, <5>2, StepLabels
      <4>3. CASE Look(p) \/ Consume(p) \/ OpenViewer(p) \/ OpenViewerFails(p) \/ ClearToken(p)
                 \/ CommandFails(p)
        <5>1. Finished(p) => proc'[p].pc \notin Launching
          BY DEF Finished, After, Launching
        <5> QED
          BY <4>3, <5>1, StepLocals, StepLabels DEF Launching
      <4> QED
        BY <1>5, <3>2, <4>1, <4>2, <4>3 DEF InRunStep
    <3> QED
      BY <3>3, <3>4
  <2> QED
    BY <2>2, <2>3
<1>6. ASSUME NEW p \in Procs, proc'[p].pc \in Launching PROVE Key(p)' # k
  <2>1. CASE InRunStep(p)
    BY <1>5, <1>6, <2>1
  <2>2. ~FileStep(p)
    BY <1>6, FileLocals DEF FileStep, Goes, Launching
  <2>3. ~Kill(p)
    BY <1>6, KillEffect DEF Launching
  <2>4. CASE proc'[p] = proc[p]
    BY <1>1, <1>6, <2>4 DEF Key, Project
  <2> QED
    BY <1>3, <2>1, <2>2, <2>3, <2>4, OwnSteps
<1>7. HeadsOf(session'[k]) \subseteq HeadsOf(session[k])
  <2>1. ASSUME NEW p \in Procs, FileStep(p) \/ Kill(p) PROVE session' = session
    BY <2>1, KillEffect, FileLocals DEF FileStep, Goes, Quiet, console
  <2>2. ASSUME NEW j \in Keys, KeyStep(j) PROVE HeadsOf(session'[k]) \subseteq HeadsOf(session[k])
    <3>1. CASE j = k
      BY <1>2, <1>4, <2>2, <3>1, KeyEffect DEF Calm
    <3>2. CASE j # k
      BY <1>2, <2>2, <3>2, KeyEffect DEF Rewritten
    <3> QED
      BY <3>1, <3>2
  <2>3. ASSUME NEW t \in Tokens, ViewerStep(t) \/ CloseViewer(t)
        PROVE  HeadsOf(session'[k]) \subseteq HeadsOf(session[k])
    <3>1. CASE KeyOf[t] = k
      BY <1>2, <1>4, <2>3, <3>1, ViewerEffect DEF Calm, SameWindows
    <3>2. CASE KeyOf[t] # k
      BY <1>2, <2>3, <3>2, ViewerEffect DEF Rewritten
    <3> QED
      BY <3>1, <3>2
  <2> QED
    BY <1>3, <1>5, <2>1, <2>2, <2>3, StepKinds
<1> QED
  BY <1>1, <1>6, <1>7

\* A window of every session that is there is in front.
LEMMA FrontStep ==
  ASSUME Typed, LockInv, CourseInv, SceneInv, HeadInv, Next, NEW k \in Keys,
         There(session'[k])
  PROVE  session'[k].current \in DOMAIN session'[k].windows
<1>1. There(session[k]) => session[k].current \in DOMAIN session[k].windows
  BY DEF HeadInv, There, Exists
<1>2. ConsoleTyped
  BY DEF Typed
<1>3. ASSUME Calm(session[k], session'[k]) PROVE session'[k].current \in DOMAIN session'[k].windows
  BY <1>1, <1>3 DEF Calm, There
<1>4. ASSUME session'[k] = session[k] PROVE session'[k].current \in DOMAIN session'[k].windows
  BY <1>1, <1>4
<1>5. ASSUME NEW p \in Procs, InRunStep(p)
      PROVE  session'[k].current \in DOMAIN session'[k].windows
  <2>1. CASE Key(p) = k
    BY <1>3, <1>5, <2>1, RunWindows
  <2>2. CASE Key(p) # k
    BY <1>4, <1>5, <2>2, InRunConsole DEF Rewritten
  <2> QED
    BY <2>1, <2>2
<1>6. ASSUME NEW p \in Procs, FileStep(p) \/ Kill(p) PROVE session' = session
  BY <1>6, KillEffect, FileLocals DEF FileStep, Goes, Quiet, console
<1>7. ASSUME NEW j \in Keys, KeyStep(j)
      PROVE  session'[k].current \in DOMAIN session'[k].windows
  <2>1. CASE j = k
    BY <1>2, <1>3, <1>7, <2>1, KeyEffect DEF Calm
  <2>2. CASE j # k
    BY <1>2, <1>4, <1>7, <2>2, KeyEffect DEF Rewritten
  <2> QED
    BY <2>1, <2>2
<1>8. ASSUME NEW t \in Tokens, ViewerStep(t) \/ CloseViewer(t)
      PROVE  session'[k].current \in DOMAIN session'[k].windows
  <2>1. CASE KeyOf[t] = k
    BY <1>2, <1>3, <1>8, <2>1, ViewerEffect DEF Calm, SameWindows
  <2>2. CASE KeyOf[t] # k
    BY <1>2, <1>4, <1>8, <2>2, ViewerEffect DEF Rewritten
  <2> QED
    BY <2>1, <2>2
<1>9. ~Reboot
  BY RebootEffect DEF There
<1> QED
  BY <1>4, <1>5, <1>6, <1>7, <1>8, <1>9, StepKinds

\* Every second head keeps its cause, whatever the step.
LEMMA CausedStep ==
  ASSUME Typed, LockInv, CourseInv, SceneInv, HeadInv, Typed', Next, NEW k \in Keys
  PROVE  Caused(k, session', proc', interrupted')
<1>1. Caused(k, session, proc, interrupted)
  BY CausedNow DEF HeadInv
<1>2. /\ session[k] \in SessionRecord /\ session'[k] \in SessionRecord
      /\ interrupted[k] \in Nat /\ interrupted'[k] \in Nat
  BY DEF Typed, ConsoleTyped, RunsTyped
<1>3. session[k].current \in Nat /\ session'[k].current \in Nat
  BY <1>2 DEF SessionRecord
<1>4. ASSUME NEW p \in Procs, FileStep(p) PROVE Caused(k, session', proc', interrupted')
  <2>1. session' = session /\ interrupted' = interrupted
    BY <1>4, FileLocals DEF FileStep, Goes, Quiet, console
  <2>2. /\ proc[p].pc # "select"
        /\ \A q \in Procs : q # p => proc'[q] = proc[q]
    BY <1>4, FileLocals DEF FileStep, Goes, Quiet, InRun, Alone
  <2>3. \A w \in Nat : Picked(k, w, session, proc) => Picked(k, w, session', proc')
    BY <2>1, <2>2 DEF Picked
  <2>4. Counted(k)
    BY <1>2, <2>1 DEF Counted
  <2> QED
    BY <1>1, <2>1, <2>3, <2>4, CausedKept
<1>5. ASSUME NEW p \in Procs, Kill(p) PROVE Caused(k, session', proc', interrupted')
  <2>1. session' = session /\ \A q \in Procs : q # p => proc'[q] = proc[q]
    BY <1>5, KillEffect DEF console, Alone
  <2>2. Counted(k)
    BY <1>2, <1>5, KillEffect, InterruptsEffect DEF Counted
  <2>3. CASE proc[p].pc = "select" /\ Key(p) = k
    <3>1. interrupted'[k] = interrupted[k] + 1
      BY <1>5, <2>3, KillEffect, InterruptsEffect DEF At
    <3>2. Picked(k, session'[k].current, session', proc')
      BY DEF Picked
    <3>3. HeadsOf(session'[k]) \ {session'[k].current} \subseteq HeadsOf(session[k])
      BY <2>1
    <3> QED
      BY <1>1, <1>3, <2>2, <3>1, <3>2, <3>3, CausedBy
  <2>4. CASE ~(proc[p].pc = "select" /\ Key(p) = k)
    <3>1. \A w \in Nat : Picked(k, w, session, proc) => Picked(k, w, session', proc')
      BY <2>1, <2>4 DEF Picked, Key, Project
    <3> QED
      BY <1>1, <2>1, <2>2, <3>1, CausedKept
  <2> QED
    BY <2>3, <2>4
<1>6. ASSUME UNCHANGED workspace, Calm(session[k], session'[k])
      PROVE  Caused(k, session', proc', interrupted')
  <2>1. proc' = proc /\ interrupted' = interrupted
    BY <1>6 DEF workspace
  <2>2. HeadsOf(session'[k]) \subseteq HeadsOf(session[k])
        /\ session'[k].current = session[k].current
    BY <1>6 DEF Calm, HeadsOf
  <2>3. \A w \in Nat : Picked(k, w, session, proc) => Picked(k, w, session', proc')
    BY <2>1, <2>2 DEF Picked
  <2>4. Counted(k)
    BY <1>2, <2>1 DEF Counted
  <2> QED
    BY <1>1, <2>2, <2>3, <2>4, CausedKept
<1>7. ConsoleTyped
  BY DEF Typed
<1>8. ASSUME NEW j \in Keys, KeyStep(j) PROVE Calm(session[k], session'[k])
  <2>1. CASE j = k
    BY <1>7, <1>8, <2>1, KeyEffect DEF Calm
  <2>2. CASE j # k
    <3>1. session'[k] = session[k]
      BY <1>7, <1>8, <2>2, KeyEffect DEF Rewritten
    <3> QED
      BY <3>1 DEF Calm
  <2> QED
    BY <2>1, <2>2
<1>9. ASSUME NEW t \in Tokens, ViewerStep(t) \/ CloseViewer(t)
      PROVE  Calm(session[k], session'[k])
  <2>1. CASE KeyOf[t] = k
    BY <1>7, <1>9, <2>1, ViewerEffect DEF Calm, SameWindows
  <2>2. CASE KeyOf[t] # k
    <3>1. session'[k] = session[k]
      BY <1>7, <1>9, <2>2, ViewerEffect DEF Rewritten
    <3> QED
      BY <3>1 DEF Calm
  <2> QED
    BY <2>1, <2>2
<1>10. CASE Reboot
  <2>1. HeadsOf(session'[k]) = {}
    BY <1>10, RebootEffect DEF HeadsOf
  <2>2. Picked(k, session'[k].current, session', proc')
    BY DEF Picked
  <2>3. Cardinality(HeadsOf(session'[k]) \ {session'[k].current}) = 0
    <3>1. HeadsOf(session'[k]) \ {session'[k].current} = {}
      BY <2>1
    <3> QED
      BY <3>1, FS_EmptySet
  <2>4. Cardinality(HeadsOf(session'[k]) \ {session'[k].current}) <= interrupted'[k]
    BY <1>2, <2>3
  <2> QED
    BY <1>3, <2>2, <2>4 DEF Caused
<1> QED
  BY <1>4, <1>5, <1>6, <1>8, <1>9, <1>10, CausedRun, StepKinds

\* A conversation that was opened by hand is counted.
LEMMA ByHandStep ==
  ASSUME Typed, LockInv, CourseInv, SceneInv, HeadInv, Typed', Next,
         NEW k \in Keys, "byHand" \in native'[k]
  PROVE  changes'.opened[k] >= 1
<1>1. "byHand" \in native[k] => changes.opened[k] >= 1
  BY DEF HeadInv
<1>2. ASSUME native' = native, changes'.opened = changes.opened PROVE changes'.opened[k] >= 1
  BY <1>1, <1>2
<1>3. ASSUME NEW p \in Procs, FileStep(p) \/ Kill(p) \/ InRunStep(p)
      PROVE  native' = native /\ changes' = changes
  BY <1>3, KillEffect, InRunConsole, FileLocals DEF FileStep, Goes, Quiet, console
<1>4. ASSUME NEW j \in Keys, KeyStep(j) PROVE changes'.opened[k] >= 1
  <2>1. changes'.opened[k] >= changes.opened[k]
        /\ ("byHand" \in native[k] \/ changes'.opened[k] >= 1)
    BY <1>4, KeyEffect DEF Typed
  <2>2. changes'.opened[k] \in Nat /\ changes.opened[k] \in Nat
    BY DEF Typed, ConsoleTyped
  <2> QED
    BY <1>1, <2>1, <2>2
<1>5. ASSUME NEW t \in Tokens, ViewerStep(t) \/ CloseViewer(t)
      PROVE  native' = native /\ changes'.opened = changes.opened
  BY <1>5, ViewerEffect DEF Typed
<1>6. ~Reboot
  BY RebootEffect
<1> QED
  BY <1>2, <1>3, <1>4, <1>5, <1>6, StepKinds

\* Each head has its place or its cause.
LEMMA HeadStep ==
  ASSUME Typed, LockInv, CourseInv, SceneInv, MappingInv, LiveInv, HeadInv, Typed', Next
  PROVE  HeadInv'
<1>1. ASSUME NEW k \in Keys
      PROVE  (Exists(k) => session[k].current \in DOMAIN session[k].windows)'
  BY FrontStep DEF There, Exists
<1>2. ASSUME NEW k \in Keys
      PROVE  (\E w \in Nat : Chosen(k, w) /\ Cardinality(Heads(k) \ {w}) <= interrupted[k])'
  BY CausedStep, CausedNow
<1>3. ASSUME NEW k \in Keys PROVE ("byHand" \in native[k] => changes.opened[k] >= 1)'
  BY ByHandStep
<1>4. ASSUME NEW k \in Keys
      PROVE  ("registered" \in native[k] =>
                Heads(k) = {} /\ \A p \in Procs : proc[p].pc \in Launching => Key(p) # k)'
  BY LaunchStep DEF Heads, HeadsOf
<1> QED
  BY <1>1, <1>2, <1>3, <1>4 DEF HeadInv

----------------------------------------------------------------------------
(* Attempts and their viewers.                                             *)

\* What an attempt a on the session of k says of its viewer.
Told(k, a, views, locals) ==
  /\ a.state # "none" => a.token \in Tokens /\ KeyOf[a.token] = k
  /\ a.state = "pending" =>
       \/ views[a.token] \in {"launched", "attached", "ended"}
       \/ locals[a.token[1]].pc = "unqueue" /\ Head(locals[a.token[1]].todo).key = k
  /\ a.state = "accepted" => views[a.token] \in {"confirmed", "ended", "swept"}
  /\ a.state = "failed" => views[a.token] \in {"swept", "gone"}

\* The invariant, on the sessions that are there.
LEMMA ToldNow ==
  /\ AttemptInv => \A k \in Keys : There(session[k]) => Told(k, session[k].attempt, viewer, proc)
  /\ faults' <= 1 /\ (\A p \in Procs : proc'[p].pc = "unqueue" => faults' = 0)
     /\ (\A k \in Keys : There(session'[k]) => Told(k, session'[k].attempt, viewer', proc'))
     => AttemptInv'
BY DEF AttemptInv, Told, There, Exists, At, Key, Project

\* A viewer's own steps take its attempt along, and no other viewer's.
LEMMA ViewerTold ==
  ASSUME ConsoleTyped, NEW t \in Tokens, ViewerStep(t) \/ CloseViewer(t), NEW k \in Keys,
         There(session[k]), Told(k, session[k].attempt, viewer, proc)
  PROVE  Told(k, session'[k].attempt, viewer', proc)
<1> DEFINE a == session[k].attempt
           b == session'[k].attempt
<1>1. /\ KeyOf[t] \in Keys /\ \A u \in Tokens : u # t => viewer'[u] = viewer[u]
      /\ viewer \in [Tokens -> Viewers] /\ Exists(k)
      /\ \A j \in Keys : j # KeyOf[t] => session'[j] = session[j]
  BY ViewerEffect DEF ConsoleTyped, Rewritten, There, Exists
<1>2. a \in Attempts
  BY DEF ConsoleTyped, SessionRecord
<1>3. /\ {Attempt("accepted", t), Attempt("failed", t), NoAttempt} \subseteq Attempts
      /\ NoAttempt.state = "none"
      /\ \A x : Attempt(x, t).state = x /\ Attempt(x, t).token = t
  BY DEF Attempt, NoAttempt, Attempts
<1>4. \A x : a = Attempt(x, t) <=> a.state = x /\ a.token = t
  BY <1>2 DEF Attempt, Attempts
<1>5. CASE KeyOf[t] # k
  <2>1. b = a
    BY <1>1, <1>5
  <2>2. a.state # "none" => viewer'[a.token] = viewer[a.token]
    BY <1>1, <1>5 DEF Told
  <2> QED
    BY <2>1, <2>2 DEF Told
<1>6. CASE KeyOf[t] = k /\ a.token # t
  <2>1. b = a
    BY <1>1, <1>3, <1>4, <1>6, SetAttemptEffect
    DEF ViewerStep, CloseViewer, Attach, Confirm, ViewerFails, SweepPending, SweepAccepted
  <2>2. a.state # "none" => viewer'[a.token] = viewer[a.token]
    BY <1>1, <1>6 DEF Told
  <2> QED
    BY <2>1, <2>2 DEF Told
<1>7. CASE KeyOf[t] = k /\ a.token = t
  <2>1. \A x : a = Attempt(x, t) <=> a.state = x
    BY <1>4, <1>7
  <2>2. ASSUME NEW from, NEW to, SetAttempt(k, Attempt(from, t), to), to \in Attempts
        PROVE  b = IF a.state = from THEN to ELSE a
    BY <1>1, <2>1, <2>2, SetAttemptEffect
  <2> HIDE DEF a, b
  <2>3. CASE Attach(t)
    <3>1. viewer[t] = "launched" /\ viewer'[t] = "attached" /\ b = a
      BY <1>1, <2>3 DEF Attach, a, b
    <3> QED
      BY <1>7, <3>1 DEF Told, a, b
  <2>4. CASE Confirm(t)
    <3>1. viewer[t] = "attached" /\ viewer'[t] = "confirmed"
      BY <1>1, <2>4 DEF Confirm
    <3>2. b = IF a.state = "pending" THEN Attempt("accepted", t) ELSE a
      BY <1>3, <1>7, <2>2, <2>4 DEF Confirm
    <3>3. CASE a.state = "pending"
      BY <1>3, <1>7, <3>1, <3>2, <3>3 DEF Told, a, b
    <3>4. CASE a.state # "pending"
      BY <1>7, <3>1, <3>2, <3>4 DEF Told, a, b
    <3> QED
      BY <3>3, <3>4
  <2>5. CASE ViewerFails(t)
    <3>1. viewer[t] = "launched" /\ viewer'[t] = "ended" /\ b = a
      BY <1>1, <2>5 DEF ViewerFails, a, b
    <3> QED
      BY <1>7, <3>1 DEF Told, a, b
  <2>6. CASE CloseViewer(t)
    <3>1. viewer[t] = "confirmed" /\ viewer'[t] = "ended" /\ b = a
      BY <1>1, <2>6 DEF CloseViewer, a, b
    <3> QED
      BY <1>7, <3>1 DEF Told, a, b
  <2>7. CASE SweepPending(t)
    <3>1. viewer[t] = "ended" /\ viewer'[t] = "swept"
      BY <1>1, <2>7 DEF SweepPending
    <3>2. b = IF a.state = "pending" THEN Attempt("failed", t) ELSE a
      BY <1>3, <1>7, <2>2, <2>7 DEF SweepPending
    <3>3. CASE a.state = "pending"
      BY <1>3, <1>7, <3>1, <3>2, <3>3 DEF Told, a, b
    <3>4. CASE a.state # "pending"
      BY <1>7, <3>1, <3>2, <3>4 DEF Told, a, b
    <3> QED
      BY <3>3, <3>4
  <2>8. CASE SweepAccepted(t)
    <3>1. viewer[t] = "swept" /\ viewer'[t] = "gone"
      BY <1>1, <2>8 DEF SweepAccepted
    <3>2. b = IF a.state = "accepted" THEN NoAttempt ELSE a
      BY <1>3, <1>7, <2>2, <2>8 DEF SweepAccepted
    <3> QED
      BY <1>3, <1>7, <3>1, <3>2 DEF Told, a, b
  <2> QED
    BY <2>3, <2>4, <2>5, <2>6, <2>7, <2>8 DEF ViewerStep
<1> QED
  BY <1>5, <1>6, <1>7

\* Only opening a viewer, clearing its token, consuming a failure and creating
\* the session change an attempt, and only an opened viewer changes its place.
LEMMA RunAttempt ==
  ASSUME Typed, LockInv, CourseInv, SceneInv, NEW p \in Procs, InRunStep(p)
  PROVE  LET s == session[Key(p)]
             t == session'[Key(p)]
         IN  /\ \A u \in Tokens : u # Token(p) => viewer'[u] = viewer[u]
             /\ ~OpenViewer(p) /\ ~OpenViewerFails(p) => viewer' = viewer
             /\ \/ OpenViewer(p) \/ OpenViewerFails(p) \/ ClearToken(p) \/ Consume(p) \/ Create(p)
                \/ t.attempt = s.attempt /\ (There(t) => There(s))
<1> DEFINE k == Key(p)
           s == session[k]
           t == session'[k]
<1>1. /\ ConsoleTyped /\ RunsTyped /\ k \in Keys /\ proc[p].pc \in InRun
      /\ Token(p) \in Tokens /\ KeyOf[Token(p)] = k
  BY InRunSteps, RunFacts DEF Typed
<1>2. Scene(proc[p], s)
  BY <1>1 DEF SceneInv, Scene, There, InFront, Exists, Pane
<1>3. ~OpenViewer(p) /\ ~OpenViewerFails(p) => viewer' = viewer
  BY DEF InRunStep, Look, Panes, Consume, CheckOwner, Create, Await, ReadWindow, StartProvider,
         SelectProvider, DiscardWindow, ClearToken, CommandFails, console
<1>4. \A u \in Tokens : u # Token(p) => viewer'[u] = viewer[u]
  BY <1>1, <1>3 DEF OpenViewer, OpenViewerFails, Enqueue, EnqueueHalf, ConsoleTyped
<1>5. StartProvider(p) => t.attempt = s.attempt /\ (There(t) => There(s))
  <2>1. StartProvider(p) => proc[p].pc = "provider" /\ StartWindow(k)
    BY DEF StartProvider, At
  <2>2. StartProvider(p) => There(s) /\ Exists(k)
    BY <1>2, <2>1 DEF Scene, Launching, There, Exists
  <2> QED
    BY <1>1, <2>1, <2>2, StartEffect
<1>6. SelectProvider(p) => t.attempt = s.attempt /\ (There(t) => There(s))
  <2>1. proc[p].new \in Nat
    BY <1>1 DEF RunsTyped, Local
  <2> QED
    BY <1>1, <2>1, SelectEffect DEF SelectProvider, There
<1>7. DiscardWindow(p) => t.attempt = s.attempt /\ (There(t) => There(s))
  <2>1. DiscardWindow(p) => proc[p].pc = "discard" /\ KillWindow(k, proc[p].old)
    BY DEF DiscardWindow, At
  <2>2. DiscardWindow(p) =>
          /\ proc[p].new \in DOMAIN s.windows /\ proc[p].old < proc[p].new
          /\ \A w \in DOMAIN s.windows : w <= proc[p].new
    BY <1>2, <2>1 DEF Scene
  <2>3. proc[p].old < proc[p].new => proc[p].old # proc[p].new
    BY <1>1 DEF RunsTyped, Local
  <2>4. DiscardWindow(p) =>
          t.attempt = s.attempt /\ DOMAIN t.windows = DOMAIN s.windows \ {proc[p].old}
    BY <1>1, <2>1, <2>2, <2>3, KillWindowEffect
  <2> QED
    BY <2>4 DEF There
<1>8. Look(p) \/ Panes(p) \/ CheckOwner(p) \/ Await(p) \/ ReadWindow(p) \/ CommandFails(p) =>
        t = s
  BY DEF Look, Panes, CheckOwner, Await, ReadWindow, CommandFails, console
<1> HIDE DEF k, s, t
<1> QED
  BY <1>3, <1>4, <1>5, <1>6, <1>7, <1>8 DEF InRunStep, k, s, t

\* A run's steps leave no attempt that tells of another place than its viewer's.
LEMMA RunTold ==
  ASSUME Typed, LockInv, CourseInv, SceneInv, AttemptInv, NEW p \in Procs, InRunStep(p),
         NEW k \in Keys, There(session'[k])
  PROVE  Told(k, session'[k].attempt, viewer', proc')
<1> DEFINE a == session[k].attempt
           b == session'[k].attempt
<1>1. /\ ConsoleTyped /\ RunsTyped /\ Key(p) \in Keys /\ proc[p].pc \in InRun
      /\ Token(p) \in Tokens /\ KeyOf[Token(p)] = Key(p)
  BY InRunSteps, RunFacts DEF Typed
<1>2. \A q \in Procs : proc[q].pc = "unqueue" => q = p
  BY <1>1 DEF LockInv, InRun
<1>3. \A t \in Tokens : t \in Procs \X Keys /\ t = <<t[1], t[2]>> /\ KeyOf[t] = t[2]
  BY WorkspaceAssumption
<1>4. There(session[k]) => Told(k, a, viewer, proc)
  BY ToldNow
<1>5. ASSUME There(session[k]), a.state = "pending"
      PROVE  \/ viewer[a.token] \in {"launched", "attached", "ended"}
             \/ proc[p].pc = "unqueue" /\ Key(p) = k /\ a.token = Token(p)
  <2>1. a.token \in Tokens /\ KeyOf[a.token] = k
    BY <1>4, <1>5 DEF Told
  <2>2. a.token[1] \in Procs /\ a.token = <<a.token[1], k>>
    BY <1>3, <2>1
  <2> QED
    BY <1>2, <1>4, <1>5, <2>2 DEF Told, Key, Project, Token
<1>6. ASSUME There(session[k]), b = a, a.state # "none" => viewer'[a.token] = viewer[a.token],
             ~(proc[p].pc = "unqueue" /\ Key(p) = k)
      PROVE  Told(k, b, viewer', proc')
  BY <1>4, <1>5, <1>6 DEF Told
<1>7. CASE Key(p) # k
  <2>1. session'[k] = session[k]
    BY <1>7, InRunConsole DEF Rewritten
  <2>2. a.state # "none" => viewer'[a.token] = viewer[a.token]
    <3>1. a.state # "none" => a.token \in Tokens /\ a.token # Token(p)
      BY <1>1, <1>4, <1>7, <2>1 DEF Told
    <3> QED
      BY <3>1, RunAttempt
  <2> QED
    BY <1>6, <1>7, <2>1, <2>2
<1>8. NoAttempt.state = "none"
  BY DEF NoAttempt
<1>9. b.state = "none" => Told(k, b, viewer', proc')
  BY DEF Told
<1>10. CASE Key(p) = k /\ OpenViewer(p)
  <2>1. b = Attempt("pending", Token(p)) /\ viewer'[Token(p)] = "launched"
    BY <1>1, <1>10, EnqueueEffect DEF OpenViewer, Enqueue, ConsoleTyped
  <2> QED
    BY <1>1, <1>10, <2>1 DEF Told, Attempt
<1>11. CASE Key(p) = k /\ OpenViewerFails(p)
  <2>1. b = Attempt("pending", Token(p))
    BY <1>1, <1>11, EnqueueEffect DEF OpenViewerFails
  <2>2. proc'[p].pc = "unqueue" /\ Head(proc'[p].todo).key = k
    BY <1>11, StepLabels DEF Moved, Key, Project
  <2>3. Token(p)[1] = p
    BY DEF Token
  <2> QED
    BY <1>1, <1>11, <2>1, <2>2, <2>3 DEF Told, Attempt
<1>12. CASE Key(p) = k /\ ClearToken(p)
  <2>1. b = (IF Exists(k) /\ a = Attempt("pending", Token(p)) THEN NoAttempt ELSE a)
        /\ SameWindows(session'[k], session[k])
    <3>1. NoAttempt \in Attempts
      BY DEF NoAttempt, Attempts
    <3> QED
      BY <1>1, <1>12, <3>1, SetAttemptEffect DEF ClearToken
  <2>2. There(session[k]) /\ Exists(k)
    BY <2>1 DEF SameWindows, There, Exists
  <2>3. viewer' = viewer
    BY <1>12 DEF ClearToken
  <2>4. CASE a = Attempt("pending", Token(p))
    BY <1>8, <1>9, <2>1, <2>2, <2>4
  <2>5. CASE a # Attempt("pending", Token(p))
    <3>1. a \in Attempts
      BY DEF Typed, ConsoleTyped, SessionRecord
    <3>2. ~(a.state = "pending" /\ a.token = Token(p))
      BY <2>5, <3>1 DEF Attempt, Attempts
    <3> QED
      BY <1>4, <1>5, <2>1, <2>2, <2>3, <2>5, <3>2 DEF Told
  <2> QED
    BY <2>4, <2>5
<1>13. CASE Key(p) = k /\ Consume(p)
  <2>1. (b = NoAttempt \/ b = a) /\ SameWindows(session'[k], session[k])
    <3>1. NoAttempt \in Attempts
      BY DEF NoAttempt, Attempts
    <3> QED
      BY <1>1, <1>13, <3>1, SetAttemptEffect DEF Consume
  <2>2. There(session[k])
    BY <2>1 DEF SameWindows, There
  <2>3. viewer' = viewer /\ proc[p].pc # "unqueue"
    BY <1>13 DEF Consume, At
  <2> QED
    BY <1>6, <1>8, <1>9, <2>1, <2>2, <2>3
<1>14. CASE Key(p) = k /\ Create(p)
  <2>1. b = NoAttempt
    BY <1>1, <1>14, CreateEffect DEF Create
  <2> QED
    BY <1>8, <1>9, <2>1
<1>15. CASE /\ Key(p) = k /\ ~OpenViewer(p) /\ ~OpenViewerFails(p) /\ ~ClearToken(p)
            /\ ~Consume(p) /\ ~Create(p)
  <2>1. b = a /\ There(session[k]) /\ viewer' = viewer
    BY <1>15, RunAttempt
  <2>2. proc[p].pc # "unqueue"
    <3>1. CommandFails(p) => proc[p].pc # "unqueue"
      BY DEF CommandFails, AttemptInv, At
    <3> QED
      BY <1>15, <3>1 DEF InRunStep, Look, Panes, CheckOwner, Await, ReadWindow, StartProvider,
         SelectProvider, DiscardWindow, At
  <2> QED
    BY <1>6, <2>1, <2>2
<1> QED
  BY <1>7, <1>10, <1>11, <1>12, <1>13, <1>14, <1>15

\* The attempt on a session stays where its own viewer is.
LEMMA AttemptStep ==
  ASSUME Typed, LockInv, CourseInv, SceneInv, AttemptInv, Typed', Next
  PROVE  AttemptInv'
<1>1. ConsoleTyped /\ RunsTyped /\ faults \in Nat /\ faults <= 1
  BY DEF Typed, RunsTyped, AttemptInv
<1>2. ASSUME NEW k \in Keys, There(session[k])
      PROVE  Told(k, session[k].attempt, viewer, proc)
  BY <1>2, ToldNow
<1>3. ASSUME NEW p \in Procs, FileStep(p) PROVE AttemptInv'
  <2>1. UNCHANGED <<session, viewer, faults>>
    BY <1>3, FileLocals DEF FileStep, Goes, Quiet, console
  <2>2. /\ \A q \in Procs : q # p => proc'[q] = proc[q]
        /\ proc[p].pc # "unqueue" /\ proc'[p].pc # "unqueue"
    BY <1>3, FileLocals DEF FileStep, Goes, Quiet, Alone, InRun
  <2>3. ASSUME NEW k \in Keys, There(session'[k])
        PROVE  Told(k, session'[k].attempt, viewer', proc')
    <3>1. Told(k, session[k].attempt, viewer, proc)
      BY <1>2, <2>1, <2>3
    <3>2. \A t \in Tokens : t[1] \in Procs
      BY WorkspaceAssumption
    <3> QED
      BY <2>1, <2>2, <3>1, <3>2 DEF Told
  <2>4. \A q \in Procs : proc'[q].pc = "unqueue" => faults' = 0
    BY <2>1, <2>2 DEF AttemptInv, At
  <2> QED
    BY <1>1, <2>1, <2>3, <2>4, ToldNow
<1>4. ASSUME NEW p \in Procs, InRunStep(p) PROVE AttemptInv'
  <2>1. faults' \in Nat /\ faults' <= faults
    BY <1>4, InRunFaults
  <2>2. ASSUME NEW q \in Procs, proc'[q].pc = "unqueue" PROVE faults' = 0
    <3>1. CASE q # p
      <4>1. lock.runtime = p /\ proc'[q] = proc[q]
        <5>1. lock.runtime = p
          BY <1>4, InRunSteps DEF LockInv
        <5>2. Alone(p)
          BY <1>1, <1>4, InRunEffect DEF Finished, Moved
        <5> QED
          BY <3>1, <5>1, <5>2 DEF Alone
      <4> QED
        <5>1. proc[q].pc = "unqueue" /\ "unqueue" \in InRun
          BY <2>2, <4>1 DEF InRun
        <5>2. lock.runtime = q
          BY <5>1 DEF LockInv
        <5> QED
          BY <3>1, <4>1, <5>2
    <3>2. CASE q = p
      <4>1. Finished(p) => proc'[p].pc # "unqueue"
        BY DEF Finished, After
      <4>2. OpenViewerFails(p)
        <5>1. Panes(p) => proc'[p].pc # "unqueue"
          BY <1>1, <4>1, PanesEffect DEF Sent
        <5> QED
          BY <1>4, <2>2, <3>2, <4>1, <5>1, StepLocals, StepLabels DEF InRunStep
      <4>3. faults' < faults
        BY <1>4, <4>2, InRunFaults
      <4> QED
        BY <1>1, <2>1, <4>3
    <3> QED
      BY <3>1, <3>2
  <2>3. \A k \in Keys : There(session'[k]) => Told(k, session'[k].attempt, viewer', proc')
    BY <1>4, RunTold
  <2> QED
    BY <1>1, <2>1, <2>2, <2>3, ToldNow
<1>5. ASSUME NEW p \in Procs, Kill(p) PROVE AttemptInv'
  <2>1. /\ UNCHANGED <<session, viewer>> /\ faults' = faults - 1 /\ faults' \in Nat
        /\ proc'[p].pc = "killed"
        /\ \A q \in Procs : q # p => proc'[q] = proc[q]
    BY <1>5, KillEffect DEF console, Alone
  <2>2. faults = 1 /\ faults' = 0
    BY <1>1, <2>1
  <2>3. \A q \in Procs : proc[q].pc # "unqueue"
    BY <2>2 DEF AttemptInv, At
  <2>4. ASSUME NEW k \in Keys, There(session'[k])
        PROVE  Told(k, session'[k].attempt, viewer', proc')
    <3>1. Told(k, session[k].attempt, viewer, proc)
      BY <1>2, <2>1, <2>4
    <3>2. \A t \in Tokens : t[1] \in Procs
      BY WorkspaceAssumption
    <3> QED
      BY <2>1, <2>3, <3>1, <3>2 DEF Told
  <2> QED
    BY <2>2, <2>4, ToldNow
<1>6. ASSUME UNCHANGED workspace,
             \A k \in Keys : There(session'[k]) =>
               There(session[k]) /\ Told(k, session'[k].attempt, viewer', proc)
      PROVE  AttemptInv'
  <2>1. proc' = proc /\ faults' = faults
    BY <1>6 DEF workspace
  <2> QED
    BY <1>1, <1>6, <2>1, ToldNow DEF AttemptInv, At
<1>7. ASSUME NEW j \in Keys, KeyStep(j), UNCHANGED workspace PROVE AttemptInv'
  <2>1. ASSUME NEW k \in Keys, There(session'[k])
        PROVE  There(session[k]) /\ session'[k].attempt = session[k].attempt
    <3>1. CASE j = k
      BY <1>1, <1>7, <2>1, <3>1, KeyEffect DEF There
    <3>2. CASE j # k
      BY <1>1, <1>7, <2>1, <3>2, KeyEffect DEF Rewritten
    <3> QED
      BY <3>1, <3>2
  <2>2. viewer' = viewer
    BY <1>1, <1>7, KeyEffect
  <2> QED
    BY <1>2, <1>6, <1>7, <2>1, <2>2
<1>8. ASSUME NEW t \in Tokens, ViewerStep(t) \/ CloseViewer(t), UNCHANGED workspace
      PROVE  AttemptInv'
  <2>1. ASSUME NEW k \in Keys, There(session'[k]) PROVE There(session[k])
    <3>1. CASE KeyOf[t] = k
      BY <1>1, <1>8, <2>1, <3>1, ViewerEffect DEF There, SameWindows
    <3>2. CASE KeyOf[t] # k
      BY <1>1, <1>8, <2>1, <3>2, ViewerEffect DEF Rewritten
    <3> QED
      BY <3>1, <3>2
  <2> QED
    BY <1>1, <1>2, <1>6, <1>8, <2>1, ViewerTold
<1>9. CASE Reboot
  <2>1. \A k \in Keys : ~There(session'[k])
    BY <1>9, RebootEffect DEF There
  <2>2. \A p \in Procs : proc'[p].pc \in {"killed", proc[p].pc} /\ faults' = faults
    BY <1>9, RebootEffect
  <2>3. faults' = faults
    BY <1>9, RebootEffect
  <2>4. \A p \in Procs : proc'[p].pc = "unqueue" => faults' = 0
    BY <2>2 DEF AttemptInv, At
  <2> QED
    BY <1>1, <2>1, <2>3, <2>4, ToldNow
<1> QED
  BY <1>3, <1>4, <1>5, <1>7, <1>8, <1>9, StepKinds

----------------------------------------------------------------------------
(* The theorems.                                                           *)

\* The invariant holds at the start, for every scenario.
LEMMA InitInv ==
  ASSUME Init
  PROVE  IInv
<1>1. PICK s \in Scenarios :
        /\ mapping = s.mapping /\ native = s.native /\ faults = s.faults
        /\ changes = [left |-> s.changes, opened |-> [k \in Keys |-> 0]]
        /\ launcher = s.launcher
        /\ proc = [p \in Procs |-> IF p \in s.procs THEN Idle ELSE [Idle EXCEPT !.pc = "off"]]
  BY DEF Init
<1>2. Scenario(s) /\ Nobody \notin Procs
  BY WorkspaceAssumption
<1>3. /\ session = [k \in Keys |-> NoSession] /\ viewer = [t \in Tokens |-> "none"]
      /\ lock = [mapping |-> Nobody, runtime |-> Nobody, login |-> Nobody]
      /\ record = NoRecord /\ interrupted = [k \in Keys |-> 0]
  BY DEF Init, ConsoleInit
<1>4. /\ NoSession \in SessionRecord /\ DOMAIN NoSession.windows = {} /\ NoSession.current = 0
  <2>1. {} \in Numbered
    BY DEF Numbered
  <2>2. [w \in {} |-> "dead"] \in Layouts
    BY <2>1, LayoutFacts
  <2> QED
    BY <2>2 DEF NoSession, SessionRecord, NoAttempt, Attempts
<1>5. ASSUME NEW p \in Procs
      PROVE  /\ proc[p] \in Local /\ proc[p].todo = <<>> /\ proc[p].stage = "first"
             /\ proc[p].pc = IF p \in s.procs THEN "idle" ELSE "off"
  <2>1. Idle \in Local /\ Idle.todo = <<>> /\ Idle.stage = "first" /\ Idle.pc = "idle"
    <3>1. NoTarget \in Seen
      BY DEF NoTarget, NoAttempt, Attempts, Seen
    <3>2. <<>> \in Seq(Record) /\ <<>> \in Outcomes
      BY DEF Outcomes
    <3>3. "idle" \in Labels
      BY DEF Labels, AtRest
    <3> QED
      BY <3>1, <3>2, <3>3 DEF Idle, Local, RunStates
  <2>2. "off" \in Labels
    BY DEF Labels, AtRest
  <2>3. proc[p] = IF p \in s.procs THEN Idle ELSE [Idle EXCEPT !.pc = "off"]
    BY <1>1
  <2> QED
    BY <2>1, <2>2, <2>3 DEF Local
<1>6. \A p \in Procs : proc[p].pc \in {"idle", "off"}
  BY <1>5
<1>7. Typed
  <2>1. ConsoleTyped
    BY <1>1, <1>2, <1>3, <1>4 DEF ConsoleTyped, Viewers, Natives, Scenario
  <2>2. FilesTyped
    BY <1>1, <1>2, <1>3 DEF FilesTyped, Scenario, NoRecord, Outcomes
  <2>3. RunsTyped
    BY <1>1, <1>2, <1>3, <1>5 DEF RunsTyped, Scenario
  <2> QED
    BY <2>1, <2>2, <2>3 DEF Typed
<1>8. LockInv
  <2>1. lock.mapping = Nobody /\ lock.runtime = Nobody /\ lock.login = Nobody
    BY <1>3
  <2>2. ASSUME NEW p \in Procs
        PROVE  /\ proc[p].pc \notin InRun /\ ~At(p, "write mapping") /\ ~Working(p)
               /\ lock.runtime # p /\ lock.mapping # p /\ lock.login # p
    BY <1>2, <1>6, <2>1 DEF InRun, At, Working
  <2> QED
    BY <2>2 DEF LockInv
<1>9. CourseInv
  <2>1. ASSUME NEW p \in Procs
        PROVE  /\ proc[p].pc \in {"idle", "off"} /\ proc[p].pc \notin InRun
               /\ DOMAIN proc[p].todo = {} /\ proc[p].stage = "first"
    BY <1>5, <1>6 DEF InRun
  <2> QED
    BY <2>1 DEF CourseInv
<1>10. MappingInv
  <2>1. \A p \in Procs : ToSet(proc[p].todo) = {}
    BY <1>5 DEF ToSet
  <2>2. mapping = <<>> => ~launcher
    BY <1>1, <1>2 DEF Scenario
  <2>3. Distinct(mapping)
    BY <1>1, <1>2 DEF Scenario, Distinct
  <2>4. \A p \in Procs : ~At(p, "registered") /\ ~At(p, "write mapping") /\ ~At(p, "load")
    BY <1>6 DEF At
  <2> QED
    BY <2>1, <2>2, <2>3, <2>4 DEF MappingInv, RegistrationsStand, Distinct
<1>11. RecordInv
  BY <1>3, <1>6 DEF RecordInv, LoginRecordTellsTruth, NoRecord, Working, At
<1>12. LiveInv
  <2>1. \A i \in DOMAIN mapping : "registered" \in native[mapping[i].key] => mapping[i].live
    BY <1>1, <1>2 DEF Scenario
  <2>2. \A p \in Procs : ~At(p, "off") => p \in s.procs
    BY <1>5 DEF At
  <2> QED
    BY <1>1, <1>2, <2>1, <2>2 DEF LiveInv, Scenario
<1>13. SceneInv
  BY <1>6 DEF SceneInv, InRun
<1>14. HeadInv
  <2>1. ASSUME NEW k \in Keys
        PROVE  /\ ~Exists(k) /\ Heads(k) = {} /\ session[k].current = 0 /\ interrupted[k] = 0
               /\ "byHand" \notin native[k]
    BY <1>1, <1>2, <1>3, <1>4 DEF Exists, Heads, Scenario
  <2>2. ASSUME NEW k \in Keys
        PROVE  \E w \in Nat : Chosen(k, w) /\ Cardinality(Heads(k) \ {w}) <= interrupted[k]
    <3>1. Heads(k) \ {0} = {} /\ Chosen(k, 0)
      BY <2>1 DEF Chosen
    <3>2. Cardinality(Heads(k) \ {0}) <= interrupted[k]
      BY <2>1, <3>1, FS_EmptySet
    <3> QED
      BY <3>1, <3>2
  <2>3. \A p \in Procs : proc[p].pc \notin Launching
    BY <1>6 DEF Launching
  <2> QED
    BY <2>1, <2>2, <2>3 DEF HeadInv
<1> QED
  BY <1>7, <1>8, <1>9, <1>10, <1>11, <1>12, <1>13, <1>14 DEF IInv

\* A step that changes nothing keeps everything.
LEMMA StutterInv ==
  ASSUME UNCHANGED vars
  PROVE  (IInv => IInv') /\ (AttemptInv => AttemptInv')
<1>1. UNCHANGED <<session, viewer, native, changes, mapping, launcher, lock, record, proc, faults,
                  interrupted>>
  BY DEF vars, console, workspace
<1>2. Typed => Typed'
  BY <1>1 DEF Typed, ConsoleTyped, FilesTyped, RunsTyped
<1>3. (LockInv => LockInv') /\ (CourseInv => CourseInv')
  BY <1>1 DEF LockInv, CourseInv, At, Working
<1>4. (MappingInv => MappingInv') /\ (RecordInv => RecordInv') /\ (LiveInv => LiveInv')
  <2>1. MappingInv => MappingInv'
    <3>1. RegistrationsStand => RegistrationsStand'
      BY <1>1 DEF RegistrationsStand, At, Working
    <3> QED
      BY <1>1, <3>1 DEF MappingInv, At
  <2>2. RecordInv => RecordInv'
    BY <1>1 DEF RecordInv, LoginRecordTellsTruth, At, Working
  <2>3. LiveInv => LiveInv'
    BY <1>1 DEF LiveInv, At
  <2> QED
    BY <2>1, <2>2, <2>3
<1>5. SceneInv => SceneInv'
  BY <1>1 DEF SceneInv, Key, Project, Exists, Pane
<1>6. HeadInv => HeadInv'
  BY <1>1 DEF HeadInv, Chosen, Heads, Exists, Key, Project, At
<1>7. AttemptInv => AttemptInv'
  BY <1>1 DEF AttemptInv, Exists, Key, Project, At
<1> QED
  BY <1>2, <1>3, <1>4, <1>5, <1>6, <1>7 DEF IInv

\* Every state of a workspace has the invariant.
THEOREM WorkspaceInvariant == Spec => []IInv
<1>1. Init => IInv
  BY InitInv
<1>2. IInv /\ [Next]_vars => IInv'
  <2> SUFFICES ASSUME IInv, [Next]_vars PROVE IInv'
    OBVIOUS
  <2>1. CASE Next
    <3>1. Typed /\ LockInv /\ CourseInv /\ MappingInv /\ RecordInv /\ LiveInv /\ SceneInv
          /\ HeadInv
      BY DEF IInv
    <3>2. Typed'
      BY <2>1, <3>1, TypedStep
    <3>3. LockInv' /\ CourseInv' /\ MappingInv' /\ RecordInv' /\ LiveInv' /\ SceneInv' /\ HeadInv'
      BY <2>1, <3>1, <3>2, LockStep, CourseStep, MappingStep, RecordStep, LiveStep, SceneStep,
         HeadStep
    <3> QED
      BY <3>2, <3>3 DEF IInv
  <2>2. CASE UNCHANGED vars
    BY <2>2, StutterInv
  <2> QED
    BY <2>1, <2>2
<1> QED
  BY <1>1, <1>2, PTL DEF Spec

\* The mapping and the login record are true whoever reads them and whichever
\* writer was killed: WorkspaceStore and the login's record under their locks.
THEOREM FilesAreTrue == Spec => []FilesTellTruth
<1>1. IInv => FilesTellTruth
  <2> SUFFICES ASSUME IInv PROVE FilesTellTruth
    OBVIOUS
  <2>1. RegistrationsStand /\ LoginRecordTellsTruth
    BY DEF IInv, MappingInv, RecordInv
  <2>2. ConsoleTypeOK
    <3>1. ConsoleTyped /\ HeadInv
      BY DEF IInv, Typed
    <3>2. ASSUME NEW k \in Keys, Exists(k)
          PROVE  /\ session[k].meta \in {"none", "own"}
                 /\ session[k].current \in DOMAIN session[k].windows
                 /\ \A w \in DOMAIN session[k].windows :
                      session[k].windows[w] \in {"setup", "head", "dead"}
      <4>1. session[k] \in SessionRecord
        BY <3>1 DEF ConsoleTyped
      <4>2. session[k].windows \in [DOMAIN session[k].windows -> {"setup", "head", "dead"}]
        BY <4>1, LayoutFacts DEF SessionRecord
      <4> QED
        BY <3>1, <3>2, <4>1, <4>2 DEF HeadInv, SessionRecord
    <3> QED
      BY <3>1, <3>2 DEF ConsoleTyped, ConsoleTypeOK, Viewers, Natives
  <2>3. TypeOK
    BY <2>2 DEF IInv, Typed, FilesTyped, RunsTyped, TypeOK
  <2> QED
    BY <2>1, <2>3 DEF FilesTellTruth
<1> QED
  BY <1>1, WorkspaceInvariant, PTL

\* A conversation's second provider process was opened by hand, or a run ended
\* between starting its provider and selecting it: no meeting of runs, logins
\* and handed-over processes makes one.
THEOREM SecondHeadsHaveCauses == Spec => []SecondHeadHasCause
<1>1. IInv => SecondHeadHasCause
  <2> SUFFICES ASSUME IInv, NEW k \in Keys
               PROVE  Cardinality(Heads(k)) + Conversing(k) <=
                        1 + interrupted[k] + changes.opened[k]
    BY DEF SecondHeadHasCause
  <2>1. /\ HeadInv /\ session[k] \in SessionRecord /\ native[k] \subseteq Natives
        /\ interrupted[k] \in Nat /\ changes.opened[k] \in Nat
    BY DEF IInv, Typed, ConsoleTyped, RunsTyped
  <2>2. PICK w \in Nat : Cardinality(Heads(k) \ {w}) <= interrupted[k]
    BY <2>1 DEF HeadInv
  <2>3. /\ Cardinality(Heads(k)) \in Nat
        /\ Cardinality(Heads(k)) <= interrupted[k] + 1
    <3>1. IsFiniteSet(Heads(k))
      BY <2>1, HeadsFacts DEF Heads, HeadsOf
    <3>2. IsFiniteSet(Heads(k) \ {w})
      BY <3>1, FS_RemoveElement
    <3>3. Cardinality(Heads(k)) \in Nat /\ Cardinality(Heads(k) \ {w}) \in Nat
      BY <3>1, <3>2, FS_CardinalityType
    <3>4. Cardinality(Heads(k) \ {w}) = IF w \in Heads(k) THEN Cardinality(Heads(k)) - 1
                                                         ELSE Cardinality(Heads(k))
      BY <3>1, FS_RemoveElement
    <3>5. Cardinality(Heads(k)) <= Cardinality(Heads(k) \ {w}) + 1
      BY <3>3, <3>4
    <3> QED
      BY <2>1, <2>2, <3>3, <3>5
  <2>4. "byHand" \in native[k] => changes.opened[k] >= 1
    BY <2>1 DEF HeadInv
  <2>5. "registered" \in native[k] => Cardinality(Heads(k)) = 0
    BY <2>1, FS_EmptySet DEF HeadInv
  <2>6. /\ Cardinality({}) = 0 /\ Cardinality({"registered"}) = 1 /\ Cardinality({"byHand"}) = 1
        /\ Cardinality({"registered", "byHand"}) = 2
    <3>1. Cardinality({"registered"}) = 1 /\ Cardinality({"byHand"}) = 1
          /\ IsFiniteSet({"registered"})
      BY FS_Singleton
    <3>2. Cardinality({"registered"} \cup {"byHand"}) = Cardinality({"registered"}) + 1
      BY <3>1, FS_AddElement
    <3>3. {"registered"} \cup {"byHand"} = {"registered", "byHand"}
      OBVIOUS
    <3> QED
      BY <3>1, <3>2, <3>3, FS_EmptySet
  <2>7. CASE "registered" \in native[k] /\ "byHand" \in native[k]
    <3>1. native[k] \cap {"registered", "byHand"} = {"registered", "byHand"}
      BY <2>7
    <3>2. Conversing(k) = 2
      BY <2>6, <3>1 DEF Conversing
    <3> QED
      BY <2>1, <2>4, <2>5, <2>7, <3>2
  <2>8. CASE "registered" \in native[k] /\ "byHand" \notin native[k]
    <3>1. native[k] \cap {"registered", "byHand"} = {"registered"}
      BY <2>8
    <3>2. Conversing(k) = 1
      BY <2>6, <3>1 DEF Conversing
    <3> QED
      BY <2>1, <2>5, <2>8, <3>2
  <2>9. CASE "registered" \notin native[k] /\ "byHand" \in native[k]
    <3>1. native[k] \cap {"registered", "byHand"} = {"byHand"}
      BY <2>9
    <3>2. Conversing(k) = 1
      BY <2>6, <3>1 DEF Conversing
    <3> QED
      BY <2>1, <2>3, <2>4, <2>9, <3>2
  <2>10. CASE "registered" \notin native[k] /\ "byHand" \notin native[k]
    <3>1. native[k] \cap {"registered", "byHand"} = {}
      BY <2>10
    <3>2. Conversing(k) = 0
      BY <2>6, <3>1 DEF Conversing
    <3> QED
      BY <2>1, <2>3, <3>2
  <2> QED
    BY <2>7, <2>8, <2>9, <2>10
<1> QED
  BY <1>1, WorkspaceInvariant, PTL

\* Where one fault may happen, the attempt on a session is where its own viewer
\* is: those of earlier launches, which may come late, never change it.
THEOREM AttemptsTellOfTheirViewers ==
  ASSUME \A s \in Scenarios : s.faults <= 1
  PROVE  Spec => []AttemptTellsOfItsViewer
<1>1. Init => AttemptInv
  <2> SUFFICES ASSUME Init PROVE AttemptInv
    OBVIOUS
  <2>1. faults <= 1 /\ \A p \in Procs : proc[p].pc \in {"idle", "off"}
    BY DEF Init, Idle
  <2>2. \A k \in Keys : ~Exists(k)
    BY DEF Init, ConsoleInit, NoSession, Exists
  <2> QED
    BY <2>1, <2>2 DEF AttemptInv, At
<1>2. IInv /\ IInv' /\ AttemptInv /\ [Next]_vars => AttemptInv'
  <2>1. ASSUME IInv, IInv', AttemptInv, Next PROVE AttemptInv'
    BY <2>1, AttemptStep DEF IInv
  <2>2. ASSUME AttemptInv, UNCHANGED vars PROVE AttemptInv'
    BY <2>2, StutterInv
  <2> QED
    BY <2>1, <2>2
<1>3. AttemptInv => AttemptTellsOfItsViewer
  BY DEF AttemptInv, AttemptTellsOfItsViewer
<1> QED
  BY <1>1, <1>2, <1>3, WorkspaceInvariant, PTL DEF Spec

=============================================================================
