------------------------------ MODULE Console ------------------------------
(***************************************************************************)
(* terminal.py: the tmux session of each project, the consoles (viewers)    *)
(* that attach to it, and the provider processes aco did not start.         *)
(*                                                                         *)
(* A session's windows are numbered as tmux numbers them; a window holds    *)
(* the setup shell, a provider (a head), or a dead pane.  A viewer attempt  *)
(* is an option of the session: a state and the token of one open_viewer.   *)
(* Each tmux command is one step; tmux, the desktop's terminal and /proc    *)
(* are external.                                                           *)
(***************************************************************************)
EXTENDS Naturals, FiniteSets, FiniteSetsExt

CONSTANTS
  Keys,        \* the registered projects' keys
  Tokens,      \* one for each open_viewer
  KeyOf,       \* the project a token's viewer is for
  Nobody       \* no token, no holder of a lock

ASSUME ConsoleAssumption ==
  /\ KeyOf \in [Tokens -> Keys]
  /\ Nobody \notin Tokens

VARIABLES
  session,     \* of each project: its tmux session
  viewer,      \* of each token: where its viewer's owner script is
  native,      \* of each project: the provider processes outside tmux
  changes      \* bound: the changes people and machines may still make; and of
               \* each project, how often its conversation was opened by hand

console == <<session, viewer, native, changes>>

NoAttempt == [state |-> "none", token |-> Nobody]

Attempt(state, token) == [state |-> state, token |-> token]

\* A tmux session is there as long as it has a window.
NoSession ==
  [meta |-> "none", windows |-> [w \in {} |-> "dead"], current |-> 0, attempt |-> NoAttempt]

\* new-session: a setup shell, and no metadata until the shell has set it.
NewSession ==
  [meta |-> "none", windows |-> [w \in {0} |-> "setup"], current |-> 0, attempt |-> NoAttempt]

Exists(k) == DOMAIN session[k].windows # {}

Pane(k) == session[k].windows[session[k].current]

OnScreen == {"attached", "confirmed"}

Attached(k) == \E t \in Tokens : KeyOf[t] = k /\ viewer[t] \in OnScreen

Heads(k) == {w \in DOMAIN session[k].windows : session[k].windows[w] = "head"}

\* Mutant of Swap: the token is not compared.
SwapOfAnyToken(attempt, from, to) ==
  IF attempt.state = from.state
  THEN IF to.state = "none" THEN to ELSE [to EXCEPT !.token = attempt.token]
  ELSE attempt

\* if-shell -F on the attempt's option: the compare and the set are one command.
Swap(attempt, from, to) == IF attempt = from THEN to ELSE attempt

SetAttempt(k, from, to) ==
  session' = IF Exists(k)
             THEN [session EXCEPT ![k].attempt = Swap(@, from, to)]
             ELSE session

----------------------------------------------------------------------------
(* What a run does to a session.                                           *)

CreateSession(k) == ~Exists(k) /\ session' = [session EXCEPT ![k] = NewSession]

NextWindow(k) == 1 + Max(DOMAIN session[k].windows)

\* new-window -d: the provider runs, in a window that is not selected.
StartWindow(k) ==
  session' = [session EXCEPT ![k].windows =
    [w \in DOMAIN @ \cup {NextWindow(k)} |-> IF w \in DOMAIN @ THEN @[w] ELSE "head"]]

SelectWindow(k, w) == session' = [session EXCEPT ![k].current = w]

\* kill-window of the window that was current before.
KillWindow(k, w) ==
  session' = [session EXCEPT ![k].windows = [v \in DOMAIN @ \ {w} |-> @[v]]]

\* set-option and run-shell go through one control client: the option is set,
\* then the owner script starts.
Enqueue(t) ==
  LET k == KeyOf[t]
  IN  /\ session' = [session EXCEPT ![k].attempt = Attempt("pending", t)]
      /\ viewer' = [viewer EXCEPT ![t] = "launched"]

\* The option is set, and the script does not start.
EnqueueHalf(t) ==
  /\ session' = [session EXCEPT ![KeyOf[t]].attempt = Attempt("pending", t)]
  /\ UNCHANGED viewer

\* external_ownership: the registered process while it is the one the receipt
\* names, else every process that resumes the conversation, a head in tmux
\* included.
Ownership(k) ==
  IF "registered" \in native[k] THEN "live"
  ELSE IF "replaced" \in native[k] \/ "unreadable" \in native[k] THEN "unknown"
  ELSE LET matches == Cardinality(native[k]) + Cardinality(Heads(k))
       IN  CASE matches = 0 -> "absent" [] matches = 1 -> "live" [] OTHER -> "unknown"

----------------------------------------------------------------------------
(* The setup shell and the provider.                                       *)

\* The shell sets the metadata, then signals and exits.
SetUp(k) ==
  /\ Exists(k) /\ session[k].meta = "none"
  /\ session' = [session EXCEPT ![k].meta = "own"]
  /\ UNCHANGED <<viewer, native, changes>>

SetupExits(k) ==
  /\ Exists(k) /\ session[k].meta = "own"
  /\ \E w \in DOMAIN session[k].windows :
       /\ session[k].windows[w] = "setup"
       /\ session' = [session EXCEPT ![k].windows[w] = "dead"]
  /\ UNCHANGED <<viewer, native, changes>>

\* remain-on-exit keeps the pane of a provider that ended.
ProviderExits(k) ==
  /\ changes.left > 0
  /\ \E w \in Heads(k) : session' = [session EXCEPT ![k].windows[w] = "dead"]
  /\ changes' = [changes EXCEPT !.left = @ - 1]
  /\ UNCHANGED <<viewer, native>>

----------------------------------------------------------------------------
(* The owner script of a viewer: gnome-terminal --wait, then the two        *)
(* clean-ups.                                                              *)

Attach(t) ==
  /\ viewer[t] = "launched" /\ Exists(KeyOf[t])
  /\ viewer' = [viewer EXCEPT ![t] = "attached"]
  /\ UNCHANGED <<session, native, changes>>

\* The command that follows attach-session in the same client.
Confirm(t) ==
  /\ viewer[t] = "attached"
  /\ SetAttempt(KeyOf[t], Attempt("pending", t), Attempt("accepted", t))
  /\ viewer' = [viewer EXCEPT ![t] = "confirmed"]
  /\ UNCHANGED <<native, changes>>

\* No display, or no session to attach to.
ViewerFails(t) ==
  /\ viewer[t] = "launched"
  /\ viewer' = [viewer EXCEPT ![t] = "ended"]
  /\ UNCHANGED <<session, native, changes>>

CloseViewer(t) ==
  /\ changes.left > 0
  /\ viewer[t] = "confirmed"
  /\ viewer' = [viewer EXCEPT ![t] = "ended"]
  /\ changes' = [changes EXCEPT !.left = @ - 1]
  /\ UNCHANGED <<session, native>>

\* Mutant of SweepPending: the script ends without it.
SweepNothing(t) ==
  /\ viewer[t] = "ended"
  /\ viewer' = [viewer EXCEPT ![t] = "swept"]
  /\ UNCHANGED <<session, native, changes>>

\* pending_cleanup: a viewer that never attached has failed.
SweepPending(t) ==
  /\ viewer[t] = "ended"
  /\ SetAttempt(KeyOf[t], Attempt("pending", t), Attempt("failed", t))
  /\ viewer' = [viewer EXCEPT ![t] = "swept"]
  /\ UNCHANGED <<native, changes>>

\* accepted_cleanup: the console was closed.
SweepAccepted(t) ==
  /\ viewer[t] = "swept"
  /\ SetAttempt(KeyOf[t], Attempt("accepted", t), NoAttempt)
  /\ viewer' = [viewer EXCEPT ![t] = "gone"]
  /\ UNCHANGED <<native, changes>>

ViewerStep(t) ==
  Attach(t) \/ Confirm(t) \/ ViewerFails(t) \/ SweepPending(t) \/ SweepAccepted(t)

----------------------------------------------------------------------------
(* Provider processes outside tmux.                                        *)

Conversing(k) == Cardinality(native[k] \cap {"registered", "byHand"})

NativeExits(k) ==
  /\ changes.left > 0
  /\ \E n \in native[k] : native' = [native EXCEPT ![k] = @ \ {n}]
  /\ changes' = [changes EXCEPT !.left = @ - 1]
  /\ UNCHANGED <<session, viewer>>

\* Somebody resumes the conversation, or the process of the receipt executes
\* something else, or a provider's command line cannot be read.
NativeChanges(k) ==
  /\ changes.left > 0
  /\ \/ /\ native' = [native EXCEPT ![k] = @ \cup {"byHand"}]
        /\ changes' = [changes EXCEPT !.left = @ - 1, !.opened[k] = @ + 1]
     \/ /\ "registered" \in native[k]
        /\ native' = [native EXCEPT ![k] = (@ \ {"registered"}) \cup {"replaced"}]
        /\ changes' = [changes EXCEPT !.left = @ - 1]
     \/ /\ native' = [native EXCEPT ![k] = @ \cup {"unreadable"}]
        /\ changes' = [changes EXCEPT !.left = @ - 1]
  /\ UNCHANGED <<session, viewer>>

ConsoleStep ==
  \/ \E k \in Keys : SetUp(k) \/ SetupExits(k) \/ ProviderExits(k)
                     \/ NativeExits(k) \/ NativeChanges(k)
  \/ \E t \in Tokens : ViewerStep(t) \/ CloseViewer(t)

\* What goes on by itself.
ConsoleProgress ==
  \/ \E k \in Keys : SetUp(k) \/ SetupExits(k)
  \/ \E t \in Tokens : ViewerStep(t)

ConsoleInit ==
  /\ session = [k \in Keys |-> NoSession]
  /\ viewer = [t \in Tokens |-> "none"]

ConsoleTypeOK ==
  /\ \A k \in Keys : Exists(k) =>
       /\ session[k].meta \in {"none", "own"}
       /\ session[k].current \in DOMAIN session[k].windows
       /\ \A w \in DOMAIN session[k].windows : session[k].windows[w] \in {"setup", "head", "dead"}
  /\ viewer \in [Tokens -> {"none", "launched", "attached", "confirmed", "ended", "swept", "gone"}]
  /\ native \in [Keys -> SUBSET {"registered", "replaced", "byHand", "unreadable"}]
=============================================================================
