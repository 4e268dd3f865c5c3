---------------------------- MODULE BoardServer ----------------------------
(***************************************************************************)
(* aco board --serve: servers that start, each with a token read from or    *)
(* minted into one file and one held page behind a lock, and the requests   *)
(* their threads answer, beside aco rule and other writers.                *)
(*                                                                         *)
(* The store is one item's lines and the rest of items/, which may hold a   *)
(* malformed item.  version counts its changes; a page is the version it    *)
(* was built from.                                                         *)
(***************************************************************************)
EXTENDS Naturals, FiniteSets

CONSTANTS
  Servers,     \* board --serve processes
  PortOf,      \* the port of each
  NewToken,    \* the servers started with --new-token
  Threads,     \* requests, and aco rule commands
  Lines,       \* the item's expectation lines
  Storages,    \* the storage pins that are tried
  Nobody,      \* no thread, no server, no ruling
  Scenarios,   \* which servers are started and what each thread does, in each case tried
  MaxEdits     \* bound: changes that other writers make

Kinds == {"page", "reload", "click", "rule"}

ASSUME BoardServerAssumption ==
  /\ Nobody \notin Servers \cup Threads
  /\ IsFiniteSet(Threads)
  /\ NewToken \subseteq Servers
  /\ Storages \subseteq {"github", "state-ref"}
  /\ Scenarios \subseteq [servers : SUBSET Servers, kinds : [Threads -> Kinds \cup {"none"}]]
  /\ MaxEdits \in Nat

VARIABLES
  storage,     \* the pin, chosen once
  store,       \* who ruled each line, whether an item is malformed, the changes
               \* of the other writers, and all changes
  file,        \* the server whose token the token file holds
  up,          \* where each server is
  token,       \* the server whose token each server goes by
  cache,       \* of each server: the held page and whether it is stale
  lock,        \* of each server: the thread that holds the cache's lock
  pc,          \* where each thread is
  request,     \* what each thread does: kind, server, line
  read,        \* the store as each thread read it
  answer,      \* what each thread answered: a page with or without a refusal,
               \* or a ruling that is ruled or refused
  promised,    \* of each server: the version of answered clicks and held pages
  refusedAt,   \* of each server: the version that last refused a rebuild
  floor        \* promised and refusedAt when each thread's request arrived

vars == <<storage, store, file, up, token, cache, lock, pc, request, read, answer,
          promised, refusedAt, floor>>
start == <<file, up, token>>
page == <<cache, lock>>
ghost == <<promised, refusedAt, floor>>
thread == <<pc, request, read, answer>>

Larger(m, n) == IF m < n THEN n ELSE m

NoRequest == [kind |-> "none", server |-> Nobody, line |-> Nobody]

NoRulings == [line \in Lines |-> Nobody]

EmptyStore == [rulings |-> NoRulings, malformed |-> FALSE, edits |-> 0, version |-> 0]

NoAnswer == [kind |-> "none", version |-> 0, refused |-> FALSE]

Starting == {"build", "bind", "token", "link"}
Bound == {"token", "link", "serving"}
Working == {"lock", "build", "hold", "read", "write", "discard"}
Over == {"done", "failed"}

----------------------------------------------------------------------------
(* A server's start.                                                       *)

\* The first page; a store with a malformed item stops the server.
BuildFirst(s) ==
  /\ up[s] = "build"
  /\ IF store.malformed
     THEN up' = [up EXCEPT ![s] = "refused"] /\ UNCHANGED cache
     ELSE /\ up' = [up EXCEPT ![s] = "bind"]
          /\ cache' = [cache EXCEPT ![s].version = store.version]
  /\ UNCHANGED <<storage, store, file, token, lock, thread, ghost>>

\* The socket, before the token file is touched.
Bind(s) ==
  /\ up[s] = "bind"
  /\ up' = [up EXCEPT ![s] =
       IF \E q \in Servers : PortOf[q] = PortOf[s] /\ up[q] \in Bound
       THEN "refused" ELSE "token"]
  /\ UNCHANGED <<storage, store, file, token, page, thread, ghost>>

\* --new-token replaces the file by a rename; otherwise it is read, and only
\* if there is none, one is minted.
ResolveToken(s) ==
  /\ up[s] = "token"
  /\ IF s \in NewToken
     THEN /\ file' = s
          /\ token' = [token EXCEPT ![s] = s]
          /\ up' = [up EXCEPT ![s] = "serving"]
     ELSE IF file # Nobody
     THEN /\ token' = [token EXCEPT ![s] = file]
          /\ up' = [up EXCEPT ![s] = "serving"]
          /\ UNCHANGED file
     ELSE up' = [up EXCEPT ![s] = "link"] /\ UNCHANGED <<file, token>>
  /\ UNCHANGED <<storage, store, page, thread, ghost>>

\* Mutant of LinkToken: the mint renames over whatever is there.
RenameToken(s) ==
  /\ up[s] = "link"
  /\ file' = s
  /\ token' = [token EXCEPT ![s] = s]
  /\ up' = [up EXCEPT ![s] = "serving"]
  /\ UNCHANGED <<storage, store, page, thread, ghost>>

\* os.link publishes the minted token, or fails because another start did; the
\* loser reads the winner's.
LinkToken(s) ==
  /\ up[s] = "link"
  /\ file' = IF file = Nobody THEN s ELSE file
  /\ token' = [token EXCEPT ![s] = file']
  /\ up' = [up EXCEPT ![s] = "serving"]
  /\ UNCHANGED <<storage, store, page, thread, ghost>>

\* A server is killed with its threads, or fails to start.
Stop(s) ==
  /\ up[s] \in Starting \cup {"serving"}
  /\ up' = [up EXCEPT ![s] = "stopped"]
  /\ pc' = [t \in Threads |->
       IF request[t].server = s /\ pc[t] \notin Over THEN "failed" ELSE pc[t]]
  /\ UNCHANGED <<storage, store, file, token, page, request, read, answer, ghost>>

----------------------------------------------------------------------------
(* Requests.                                                               *)

\* A thread takes a request, or a command line rules a line of the item.
Arrive(t) ==
  /\ pc[t] = "idle"
  /\ \/ \E s \in Servers :
          /\ request[t].kind \in {"page", "reload"}
          /\ up[s] = "serving"
          /\ request' = [request EXCEPT ![t].server = s]
          /\ pc' = [pc EXCEPT ![t] = "lock"]
          /\ floor' = [floor EXCEPT ![t] =
               [promised |-> promised[s], refusedAt |-> refusedAt[s]]]
     \/ \E s \in Servers, line \in Lines :
          /\ request[t].kind = "click"
          /\ up[s] = "serving"
          /\ request' = [request EXCEPT ![t].server = s, ![t].line = line]
          /\ pc' = [pc EXCEPT ![t] = "read"]
          /\ UNCHANGED floor
     \/ \E line \in Lines :
          /\ request[t].kind = "rule"
          /\ request' = [request EXCEPT ![t].line = line]
          /\ pc' = [pc EXCEPT ![t] = "read"]
          /\ UNCHANGED floor
  /\ UNCHANGED <<storage, store, start, page, read, answer, promised, refusedAt>>

Serve(t, version, refused) ==
  /\ pc' = [pc EXCEPT ![t] = "done"]
  /\ answer' = [answer EXCEPT ![t] =
                  [kind |-> "page", version |-> version, refused |-> refused]]

\* held: the lock is taken; a page that is not stale is served as it is.
TakeLock(t) ==
  LET s == request[t].server IN
  /\ pc[t] = "lock"
  /\ lock[s] = Nobody
  /\ IF cache[s].stale \/ request[t].kind = "reload"
     THEN /\ lock' = [lock EXCEPT ![s] = t]
          /\ pc' = [pc EXCEPT ![t] = "build"]
          /\ UNCHANGED answer
     ELSE Serve(t, cache[s].version, FALSE) /\ UNCHANGED lock
  /\ UNCHANGED <<storage, store, start, cache, request, read, ghost>>

\* Mutant of BuildPage: the lock is kept by a rebuild that fails.
BuildPageHoldingLock(t) ==
  LET s == request[t].server IN
  /\ pc[t] = "build"
  /\ \/ /\ store.malformed
        /\ lock' = [lock EXCEPT ![s] = Nobody]
        /\ Serve(t, cache[s].version, TRUE)
        /\ refusedAt' = [refusedAt EXCEPT ![s] = store.version]
        /\ UNCHANGED read
     \/ /\ ~store.malformed
        /\ pc' = [pc EXCEPT ![t] = "hold"]
        /\ read' = [read EXCEPT ![t] = store]
        /\ UNCHANGED <<lock, answer, refusedAt>>
     \/ /\ pc' = [pc EXCEPT ![t] = "failed"]
        /\ UNCHANGED <<lock, read, answer, refusedAt>>
  /\ UNCHANGED <<storage, store, start, cache, request, promised, floor>>

\* The rebuild reads the store afresh; a malformed item refuses it and leaves
\* the last page held, any other failure ends the request.
BuildPage(t) ==
  LET s == request[t].server IN
  /\ pc[t] = "build"
  /\ \/ /\ store.malformed
        /\ lock' = [lock EXCEPT ![s] = Nobody]
        /\ Serve(t, cache[s].version, TRUE)
        /\ refusedAt' = [refusedAt EXCEPT ![s] = store.version]
        /\ UNCHANGED read
     \/ /\ ~store.malformed
        /\ pc' = [pc EXCEPT ![t] = "hold"]
        /\ read' = [read EXCEPT ![t] = store]
        /\ UNCHANGED <<lock, answer, refusedAt>>
     \/ /\ pc' = [pc EXCEPT ![t] = "failed"]
        /\ lock' = [lock EXCEPT ![s] = Nobody]
        /\ UNCHANGED <<read, answer, refusedAt>>
  /\ UNCHANGED <<storage, store, start, cache, request, promised, floor>>

\* The page is held and served; a reload redirects to it.
HoldPage(t) ==
  LET s == request[t].server IN
  /\ pc[t] = "hold"
  /\ cache' = [cache EXCEPT ![s] = [version |-> read[t].version, stale |-> FALSE]]
  /\ lock' = [lock EXCEPT ![s] = Nobody]
  /\ Serve(t, read[t].version, FALSE)
  /\ read' = [read EXCEPT ![t] = EmptyStore]
  /\ promised' = [promised EXCEPT ![s] = Larger(@, read[t].version)]
  /\ UNCHANGED <<storage, store, start, request, refusedAt, floor>>

----------------------------------------------------------------------------
(* rule_item, from a click or from the command line.                       *)

AfterRule(t) == IF request[t].kind = "click" THEN "discard" ELSE "done"

Ruling(t, refused, version) ==
  /\ pc' = [pc EXCEPT ![t] = AfterRule(t)]
  /\ answer' = [answer EXCEPT ![t] = [kind |-> "ruling", version |-> version, refused |-> refused]]
  /\ read' = [read EXCEPT ![t] = EmptyStore]

\* A click holds the whole store well-formed; a line that is ruled is refused.
ReadItem(t) ==
  /\ pc[t] = "read"
  /\ \/ /\ ~(request[t].kind = "click" /\ store.malformed)
        /\ store.rulings[request[t].line] = Nobody
        /\ pc' = [pc EXCEPT ![t] = "write"]
        /\ read' = [read EXCEPT ![t] = store]
        /\ UNCHANGED answer
     \/ Ruling(t, TRUE, store.version)
  /\ UNCHANGED <<storage, store, start, page, request, ghost>>

\* Mutant of Writable: no comparison.
WritableAlways(t) == TRUE

\* Mutant of Writable: only the item itself is compared.
WritableItem(t) == storage = "state-ref" => store.rulings = read[t].rulings

\* The state ref takes a click's write onto the very items/ it read, and aco
\* rule's onto the very item; GitHub takes any body.
Writable(t) ==
  storage = "state-ref" =>
    /\ store.rulings = read[t].rulings
    /\ request[t].kind = "click" => store.edits = read[t].edits

\* The new body is the body that was read with one line ruled; the answer to a
\* write that landed may be lost.
WriteItem(t) ==
  /\ pc[t] = "write"
  /\ \/ /\ Writable(t)
        /\ store' = [store EXCEPT !.rulings = [read[t].rulings EXCEPT ![request[t].line] = t],
                                  !.version = @ + 1]
        /\ \E refused \in BOOLEAN : Ruling(t, refused, store.version + 1)
     \/ Ruling(t, TRUE, store.version) /\ UNCHANGED store
  /\ UNCHANGED <<storage, start, page, request, ghost>>

\* Mutant of Discard: the page is marked without the lock.
DiscardUnlocked(t) ==
  LET s == request[t].server IN
  /\ pc[t] = "discard"
  /\ cache' = [cache EXCEPT ![s].stale = TRUE]
  /\ pc' = [pc EXCEPT ![t] = "done"]
  /\ promised' = [promised EXCEPT ![s] = Larger(@, answer[t].version)]
  /\ UNCHANGED <<storage, store, start, lock, request, read, answer, refusedAt, floor>>

\* Every click marks the held page stale, once its write has returned.
Discard(t) ==
  LET s == request[t].server IN
  /\ pc[t] = "discard"
  /\ lock[s] = Nobody
  /\ cache' = [cache EXCEPT ![s].stale = TRUE]
  /\ pc' = [pc EXCEPT ![t] = "done"]
  /\ promised' = [promised EXCEPT ![s] = Larger(@, answer[t].version)]
  /\ UNCHANGED <<storage, store, start, lock, request, read, answer, refusedAt, floor>>

----------------------------------------------------------------------------
(* Other writers of the store.                                             *)

\* Somebody changes another item of the state ref for better or worse, or
\* something else the page shows.
EditElsewhere ==
  /\ store.edits < MaxEdits
  /\ \E malformed \in {FALSE} \cup {storage = "state-ref"} :
       store' = [store EXCEPT !.malformed = malformed, !.edits = @ + 1, !.version = @ + 1]
  /\ UNCHANGED <<storage, start, page, thread, ghost>>

----------------------------------------------------------------------------
(* The specification.                                                      *)

StartWith(scenario) ==
  /\ up = [s \in Servers |-> IF s \in scenario.servers THEN "build" ELSE "off"]
  /\ request = [t \in Threads |-> [NoRequest EXCEPT !.kind = scenario.kinds[t]]]

Init ==
  /\ storage \in Storages
  /\ \E scenario \in Scenarios : StartWith(scenario)
  /\ store = EmptyStore
  /\ file = Nobody
  /\ token = [s \in Servers |-> Nobody]
  /\ cache = [s \in Servers |-> [version |-> 0, stale |-> FALSE]]
  /\ lock = [s \in Servers |-> Nobody]
  /\ pc = [t \in Threads |-> "idle"]
  /\ read = [t \in Threads |-> EmptyStore]
  /\ answer = [t \in Threads |-> NoAnswer]
  /\ promised = [s \in Servers |-> 0]
  /\ refusedAt = [s \in Servers |-> 0]
  /\ floor = [t \in Threads |-> [promised |-> 0, refusedAt |-> 0]]

StartStep(s) == BuildFirst(s) \/ Bind(s) \/ ResolveToken(s) \/ LinkToken(s)

ThreadStep(t) ==
  \/ TakeLock(t) \/ BuildPage(t) \/ HoldPage(t)
  \/ ReadItem(t) \/ WriteItem(t) \/ Discard(t)

Next ==
  \/ \E s \in Servers : StartStep(s) \/ Stop(s)
  \/ \E t \in Threads : Arrive(t) \/ ThreadStep(t)
  \/ EditElsewhere

Spec == Init /\ [][Next]_vars

FairSpec == Spec /\ \A t \in Threads : WF_vars(ThreadStep(t))

----------------------------------------------------------------------------
(* Properties.                                                             *)

\* The state keeps its type: in particular a serving server goes by the token
\* of some mint, and no more changes are counted than were made.
TypeOK ==
  /\ storage \in Storages
  /\ store.rulings \in [Lines -> Threads \cup {Nobody}]
  /\ store.malformed \in BOOLEAN
  /\ store.edits \in 0..MaxEdits
  /\ store.version \in 0..(MaxEdits + Cardinality(Threads))
  /\ file \in Servers \cup {Nobody}
  /\ up \in [Servers -> Starting \cup {"off", "serving", "refused", "stopped"}]
  /\ token \in [Servers -> Servers \cup {Nobody}]
  /\ \A s \in Servers : up[s] = "serving" => token[s] # Nobody
  /\ \A s \in Servers : cache[s].version \in 0..store.version /\ cache[s].stale \in BOOLEAN
  /\ lock \in [Servers -> Threads \cup {Nobody}]
  /\ \A t \in Threads : request[t].kind \in Kinds \cup {"none"}
  /\ \A t \in Threads : answer[t].version \in 0..store.version

Shown(t) == pc[t] = "done" /\ request[t].kind = "page" /\ ~answer[t].refused

\* A page without a refusal, asked for after a click was answered or a page was
\* rebuilt, shows at least what they saw: a rebuild under way while the ruling
\* is written is never held as fresh (_ServedBoardCache, BOARD-48).
ServedPageIsFresh ==
  \A t \in Threads : Shown(t) => answer[t].version >= floor[t].promised

\* On the state ref, a ruling that was answered as written stays on its line,
\* whatever other clicks and commands were doing with the item (rule_item).
NoRulingLost ==
  storage = "state-ref" =>
    \A t \in Threads :
      (pc[t] \in {"discard", "done"} /\ answer[t].kind = "ruling" /\ ~answer[t].refused)
        => store.rulings[request[t].line] = t

\* On the state ref, no click writes beside a malformed item, although the item
\* may go bad between the click's check and its write (hold_well_formed,
\* PIN-29).
ClickNotBesideMalformed ==
  [][\A t \in Threads :
       (pc[t] = "write" /\ pc'[t] = "discard" /\ store' # store) => ~store.malformed]_vars

\* A serving server goes by the token on disk, unless a --new-token start has
\* replaced it: racing first starts serve one token (_first_board_token,
\* BOARD-32, BOARD-33).
TokenOnDisk ==
  \A s \in Servers :
    up[s] = "serving" => token[s] = file \/ (file \in NewToken /\ token[s] # Nobody)

\* A start that is refused, for a busy port or a malformed store, has left the
\* token file alone (board_serve.start, BOARD-35).
RefusedStartMintsNothing ==
  \A s \in Servers : up[s] = "refused" => file # s

\* However starts and --new-token starts overlap, there is one token, that of a
\* server that came up.
OneTokenServed == TypeOK /\ TokenOnDisk /\ RefusedStartMintsNothing

\* Every request and ruling ends, so no failed rebuild keeps the lock
\* (_ServedBoardCache.held).
EveryRequestEnds ==
  \A t \in Threads : pc[t] \in Working ~> pc[t] \in Over

\* A page asked for after a rebuild was refused shows the refusal, unless it shows
\* a later state of the store (BOARD-51: a rebuild that is refused keeps the page
\* last built and shows its sentence beside the age).
RefusedRebuildShows ==
  \A t \in Threads : Shown(t) => answer[t].version >= floor[t].refusedAt

\* A line that is ruled keeps its ruling (specs/rule.spec.md, RULE-04).
RuledLinesStay ==
  [][\A line \in Lines :
       store.rulings[line] # Nobody => store'.rulings[line] = store.rulings[line]]_vars
=============================================================================
