-------------------------- MODULE BoardServerProofs --------------------------
(***************************************************************************)
(* Proofs about the board servers: one token however starts overlap, no     *)
(* stale page after a click, no ruling lost on the state ref, and no click  *)
(* that writes beside a malformed item.                                    *)
(***************************************************************************)
EXTENDS BoardServer, FiniteSetTheorems, TLAPS

----------------------------------------------------------------------------
(* The inductive invariant.                                                *)

StoreRecord ==
  [rulings : [Lines -> Threads \cup {Nobody}], malformed : BOOLEAN, edits : 0 .. MaxEdits,
   version : Nat]

Request ==
  [kind : Kinds \cup {"none"}, server : Servers \cup {Nobody}, line : Lines \cup {Nobody}]

Answer == [kind : {"none", "page", "ruling"}, version : Nat, refused : BOOLEAN]

\* The types in full: TypeOK names the parts a reader cares for.
Typed ==
  /\ storage \in Storages
  /\ store \in StoreRecord
  /\ file \in Servers \cup {Nobody}
  /\ up \in [Servers -> Starting \cup {"off", "serving", "refused", "stopped"}]
  /\ token \in [Servers -> Servers \cup {Nobody}]
  /\ cache \in [Servers -> [version : Nat, stale : BOOLEAN]]
  /\ lock \in [Servers -> Threads \cup {Nobody}]
  /\ pc \in [Threads -> {"idle"} \cup Working \cup Over]
  /\ request \in [Threads -> Request]
  /\ read \in [Threads -> StoreRecord]
  /\ answer \in [Threads -> Answer]
  /\ promised \in [Servers -> Nat]
  /\ refusedAt \in [Servers -> Nat]
  /\ floor \in [Threads -> [promised : Nat, refusedAt : Nat]]

\* What a thread does suits what it was asked.
CourseInv ==
  \A t \in Threads :
    /\ pc[t] \in {"lock", "build", "hold"} =>
         request[t].kind \in {"page", "reload"} /\ request[t].server \in Servers
    /\ pc[t] \in {"read", "write"} =>
         /\ request[t].kind \in {"click", "rule"} /\ request[t].line \in Lines
         /\ request[t].kind = "click" => request[t].server \in Servers
    /\ pc[t] = "discard" =>
         request[t].kind = "click" /\ request[t].server \in Servers /\ request[t].line \in Lines

\* Each change is another writer's edit or the one write of a thread that has
\* written.
Written == {t \in Threads : pc[t] \in {"discard"} \cup Over}

VersionInv ==
  /\ store.version <= store.edits + Cardinality(Written)
  /\ \A s \in Servers : cache[s].version <= store.version /\ promised[s] <= store.version
  /\ \A t \in Threads : answer[t].version <= store.version /\ read[t].version <= store.version

\* A server that serves goes by a token, and the file holds that of a server that
\* came up.
TokenInv ==
  /\ \A s \in Servers : up[s] = "serving" => token[s] # Nobody
  /\ \A s \in Servers : file = s => up[s] \in {"serving", "stopped"}
  /\ TokenOnDisk

\* A rebuild holds the lock, so no click is answered and no other page held
\* between its reading of the store and its holding of the page.
LockInv ==
  \A t \in Threads :
    /\ pc[t] \in {"build", "hold"} => lock[request[t].server] = t
    /\ pc[t] = "hold" => promised[request[t].server] <= read[t].version

\* A page that is not marked stale shows what was promised, and what a request
\* may expect is what was promised when it arrived.
PageInv ==
  /\ \A s \in Servers : ~cache[s].stale => promised[s] <= cache[s].version
  /\ \A t \in Threads : pc[t] \in {"lock", "build", "hold"} =>
       floor[t].promised <= promised[request[t].server]
  /\ ServedPageIsFresh

\* A thread about to write read the line unruled; what it read is the state the
\* store is in if nobody edited since.
RulingInv ==
  /\ storage # "state-ref" => ~store.malformed
  /\ \A t \in Threads : pc[t] = "write" =>
       /\ read[t].rulings[request[t].line] = Nobody
       /\ read[t].edits <= store.edits
       /\ read[t].edits = store.edits => read[t].malformed = store.malformed
       /\ request[t].kind = "click" => ~read[t].malformed
  /\ storage = "state-ref" =>
       \A t \in Threads :
         (pc[t] \in {"discard", "done"} /\ answer[t].kind = "ruling" /\ ~answer[t].refused)
           => request[t].line \in Lines /\ store.rulings[request[t].line] = t

IInv ==
  /\ Typed
  /\ CourseInv
  /\ VersionInv
  /\ TokenInv
  /\ LockInv
  /\ PageInv
  /\ RulingInv

----------------------------------------------------------------------------
(* Types.                                                                  *)

LEMMA LargerFacts ==
  ASSUME NEW m \in Nat, NEW n \in Nat
  PROVE  Larger(m, n) \in Nat /\ m <= Larger(m, n) /\ n <= Larger(m, n)
BY DEF Larger

\* The empty store and the requests of a scenario have their types.
LEMMA InitTyped == Init => Typed
<1> SUFFICES ASSUME Init PROVE Typed
  OBVIOUS
<1>1. EmptyStore \in StoreRecord /\ EmptyStore.version = 0
  BY BoardServerAssumption DEF EmptyStore, NoRulings, StoreRecord
<1>2. NoAnswer \in Answer
  BY DEF NoAnswer, Answer
<1>3. PICK scenario \in Scenarios : StartWith(scenario)
  BY DEF Init
<1>4. scenario.kinds \in [Threads -> Kinds \cup {"none"}]
  BY BoardServerAssumption
<1>5. request \in [Threads -> Request]
  BY <1>3, <1>4 DEF StartWith, NoRequest, Request
<1>6. up \in [Servers -> Starting \cup {"off", "serving", "refused", "stopped"}]
  BY <1>3 DEF StartWith, Starting
<1> QED
  BY <1>1, <1>2, <1>5, <1>6 DEF Init, Typed

\* A server's start keeps the types.
LEMMA StartTyped ==
  ASSUME Typed, NEW s \in Servers, StartStep(s) \/ Stop(s)
  PROVE  Typed'
<1>1. CASE BuildFirst(s)
  <2>1. cache' \in [Servers -> [version : Nat, stale : BOOLEAN]]
    <3>1. cache[s] \in [version : Nat, stale : BOOLEAN] /\ store.version \in Nat
      BY DEF Typed, StoreRecord
    <3>2. PICK c \in [version : Nat, stale : BOOLEAN] : cache' = [cache EXCEPT ![s] = c]
      <4>1. CASE store.malformed
        BY <1>1, <3>1, <4>1 DEF BuildFirst, Typed
      <4>2. CASE ~store.malformed
        <5> DEFINE c == [cache[s] EXCEPT !.version = store.version]
        <5>1. c \in [version : Nat, stale : BOOLEAN]
          BY <3>1
        <5>2. cache' = [cache EXCEPT ![s] = c]
          BY <1>1, <4>2 DEF BuildFirst, Typed
        <5> QED
          BY <5>1, <5>2
      <4> QED
        BY <4>1, <4>2
    <3> QED
      BY <3>2 DEF Typed
  <2> QED
    BY <1>1, <2>1 DEF BuildFirst, Typed, Starting, thread, ghost
<1>2. CASE Bind(s)
  BY <1>2 DEF Bind, Typed, Starting, thread, ghost, page
<1>3. CASE ResolveToken(s)
  BY <1>3 DEF ResolveToken, Typed, Starting, thread, ghost, page
<1>4. CASE LinkToken(s)
  BY <1>4 DEF LinkToken, Typed, thread, ghost, page
<1>5. CASE Stop(s)
  <2>1. up' \in [Servers -> Starting \cup {"off", "serving", "refused", "stopped"}]
    BY <1>5 DEF Stop, Typed
  <2>2. pc' \in [Threads -> {"idle"} \cup Working \cup Over]
    BY <1>5 DEF Stop, Typed, Over
  <2> QED
    BY <1>5, <2>1, <2>2 DEF Stop, Typed, ghost, page
<1> QED
  BY <1>1, <1>2, <1>3, <1>4, <1>5 DEF StartStep

\* A thread that takes a request knows its server, its line, or both.
LEMMA ArriveRequest ==
  ASSUME Typed, NEW t \in Threads, Arrive(t)
  PROVE  /\ request[t].kind \in Kinds /\ request'[t] \in Request
         /\ request'[t].kind = request[t].kind
         /\ \A u \in Threads \ {t} : pc'[u] = pc[u] /\ request'[u] = request[u]
         /\ request' = [u \in Threads |-> request'[u]]
         /\ request[t].kind \in {"page", "reload"} =>
              pc'[t] = "lock" /\ request'[t].server \in Servers
         /\ request[t].kind \in {"click", "rule"} =>
              pc'[t] = "read" /\ request'[t].line \in Lines
         /\ request[t].kind = "click" => request'[t].server \in Servers
<1>1. request[t] \in Request
  BY DEF Typed
<1>2. request' = [u \in Threads |-> request'[u]]
      /\ \A u \in Threads \ {t} : pc'[u] = pc[u] /\ request'[u] = request[u]
  BY DEF Arrive, Typed
<1>3. CASE request[t].kind \in {"page", "reload"}
  <2>1. PICK server \in Servers :
          pc' = [pc EXCEPT ![t] = "lock"] /\ request' = [request EXCEPT ![t].server = server]
    BY <1>3 DEF Arrive
  <2>2. pc'[t] = "lock" /\ request'[t] = [request[t] EXCEPT !.server = server]
    BY <2>1 DEF Typed
  <2> QED
    BY <1>1, <1>2, <1>3, <2>2 DEF Request, Kinds
<1>4. CASE request[t].kind = "click"
  <2>1. PICK server \in Servers, line \in Lines :
          /\ pc' = [pc EXCEPT ![t] = "read"]
          /\ request' = [request EXCEPT ![t].server = server, ![t].line = line]
    BY <1>4 DEF Arrive
  <2>2. pc'[t] = "read" /\ request'[t] = [request[t] EXCEPT !.server = server, !.line = line]
    BY <2>1 DEF Typed
  <2> QED
    BY <1>1, <1>2, <1>4, <2>2 DEF Request, Kinds
<1>5. CASE request[t].kind = "rule"
  <2>1. PICK line \in Lines :
          pc' = [pc EXCEPT ![t] = "read"] /\ request' = [request EXCEPT ![t].line = line]
    BY <1>5 DEF Arrive
  <2>2. pc'[t] = "read" /\ request'[t] = [request[t] EXCEPT !.line = line]
    BY <2>1 DEF Typed
  <2> QED
    BY <1>1, <1>2, <1>5, <2>2 DEF Request, Kinds
<1> QED
  BY <1>3, <1>4, <1>5 DEF Arrive

\* A thread's step keeps the types.
LEMMA ThreadTyped ==
  ASSUME Typed, CourseInv, NEW t \in Threads, Arrive(t) \/ ThreadStep(t)
  PROVE  Typed'
<1>1. CASE Arrive(t)
  <2>1. pc' \in [Threads -> {"idle"} \cup Working \cup Over]
    BY <1>1 DEF Arrive, Typed, Working
  <2>2. request' \in [Threads -> Request]
    BY <1>1, ArriveRequest DEF Typed
  <2>3. floor' \in [Threads -> [promised : Nat, refusedAt : Nat]]
    <3>1. PICK f \in [promised : Nat, refusedAt : Nat] : floor' = [floor EXCEPT ![t] = f]
      <4>1. \A s \in Servers :
              [promised |-> promised[s], refusedAt |-> refusedAt[s]]
                \in [promised : Nat, refusedAt : Nat]
        BY DEF Typed
      <4>2. floor = [floor EXCEPT ![t] = floor[t]] /\ floor[t] \in [promised : Nat, refusedAt : Nat]
        BY DEF Typed
      <4> QED
        BY <1>1, <4>1, <4>2 DEF Arrive
    <3> QED
      BY <3>1 DEF Typed
  <2>4. UNCHANGED <<storage, store, file, up, token, cache, lock, read, answer, promised,
                    refusedAt>>
    BY <1>1 DEF Arrive, start, page
  <2> QED
    BY <2>1, <2>2, <2>3, <2>4 DEF Typed
<1>2. CASE TakeLock(t)
  <2> DEFINE s == request[t].server
  <2>1. s \in Servers
    BY <1>2 DEF TakeLock, CourseInv
  <2>2. cache[s].version \in Nat
    BY <2>1 DEF Typed
  <2> DEFINE held == cache[s].stale \/ request[t].kind = "reload"
  <2>3. lock' \in [Servers -> Threads \cup {Nobody}]
    <3>1. lock' = lock \/ lock' = [lock EXCEPT ![s] = t]
      BY <1>2 DEF TakeLock
    <3> QED
      BY <3>1 DEF Typed
  <2>4. pc' \in [Threads -> {"idle"} \cup Working \cup Over]
    <3>1. pc' = [pc EXCEPT ![t] = "build"] \/ pc' = [pc EXCEPT ![t] = "done"]
      BY <1>2 DEF TakeLock, Serve
    <3> QED
      BY <3>1 DEF Typed, Working, Over
  <2>5. answer' \in [Threads -> Answer]
    <3>1. CASE held
      <4>1. answer' = answer
        BY <1>2, <3>1 DEF TakeLock
      <4> QED
        BY <4>1 DEF Typed
    <3>2. CASE ~held
      <4> DEFINE a == [kind |-> "page", version |-> cache[s].version, refused |-> FALSE]
      <4>1. a \in Answer
        BY <2>2 DEF Answer
      <4>2. answer' = [answer EXCEPT ![t] = a]
        BY <1>2, <3>2 DEF TakeLock, Serve
      <4> QED
        BY <4>1, <4>2 DEF Typed
    <3> QED
      BY <3>1, <3>2
  <2> QED
    BY <1>2, <2>3, <2>4, <2>5 DEF TakeLock, Typed, start, ghost
<1>3. CASE BuildPage(t)
  <2> DEFINE s == request[t].server
  <2>1. s \in Servers
    BY <1>3 DEF BuildPage, CourseInv
  <2>2. cache[s].version \in Nat /\ store \in StoreRecord /\ store.version \in Nat
    BY <2>1 DEF Typed, StoreRecord
  <2>3. lock' \in [Servers -> Threads \cup {Nobody}]
    BY <1>3 DEF BuildPage, Typed
  <2>4. pc' \in [Threads -> {"idle"} \cup Working \cup Over]
    BY <1>3 DEF BuildPage, Serve, Typed, Working, Over
  <2>5. answer' \in [Threads -> Answer]
    <3> DEFINE a == [kind |-> "page", version |-> cache[s].version, refused |-> TRUE]
    <3>1. a \in Answer
      BY <2>2 DEF Answer
    <3>2. answer' = answer \/ answer' = [answer EXCEPT ![t] = a]
      BY <1>3 DEF BuildPage, Serve
    <3> QED
      BY <3>1, <3>2 DEF Typed
  <2>6. read' \in [Threads -> StoreRecord]
    BY <1>3, <2>2 DEF BuildPage, Typed
  <2>7. refusedAt' \in [Servers -> Nat]
    BY <1>3, <2>2 DEF BuildPage, Typed
  <2> QED
    BY <1>3, <2>3, <2>4, <2>5, <2>6, <2>7 DEF BuildPage, Typed, start
<1>4. CASE HoldPage(t)
  <2> DEFINE s == request[t].server
  <2>1. s \in Servers /\ promised[s] \in Nat
    BY <1>4 DEF HoldPage, CourseInv, Typed
  <2>2. read[t].version \in Nat /\ EmptyStore \in StoreRecord
    BY BoardServerAssumption DEF Typed, StoreRecord, EmptyStore, NoRulings
  <2>3. cache' \in [Servers -> [version : Nat, stale : BOOLEAN]]
    BY <1>4, <2>2 DEF HoldPage, Typed
  <2>4. pc' \in [Threads -> {"idle"} \cup Working \cup Over]
    BY <1>4 DEF HoldPage, Serve, Typed, Over
  <2>5. answer' \in [Threads -> Answer]
    BY <1>4, <2>2 DEF HoldPage, Serve, Typed, Answer
  <2>6. promised' \in [Servers -> Nat]
    BY <1>4, <2>1, <2>2, LargerFacts DEF HoldPage, Typed
  <2>7. lock' \in [Servers -> Threads \cup {Nobody}] /\ read' \in [Threads -> StoreRecord]
    BY <1>4, <2>2 DEF HoldPage, Typed
  <2> QED
    BY <1>4, <2>3, <2>4, <2>5, <2>6, <2>7 DEF HoldPage, Typed, start
<1>5. ASSUME NEW refused \in BOOLEAN, NEW version \in Nat, Ruling(t, refused, version)
      PROVE  /\ pc' \in [Threads -> {"idle"} \cup Working \cup Over]
             /\ answer' \in [Threads -> Answer] /\ read' \in [Threads -> StoreRecord]
  <2>1. EmptyStore \in StoreRecord
    BY BoardServerAssumption DEF StoreRecord, EmptyStore, NoRulings
  <2>2. AfterRule(t) \in Working \cup Over
    BY DEF AfterRule, Working, Over
  <2>3. [kind |-> "ruling", version |-> version, refused |-> refused] \in Answer
    BY <1>5 DEF Answer
  <2> QED
    BY <1>5, <2>1, <2>2, <2>3 DEF Ruling, Typed
<1>6. CASE ReadItem(t)
  <2>1. store.version \in Nat
    BY DEF Typed, StoreRecord
  <2>2. /\ pc' \in [Threads -> {"idle"} \cup Working \cup Over]
        /\ answer' \in [Threads -> Answer] /\ read' \in [Threads -> StoreRecord]
    <3>1. CASE Ruling(t, TRUE, store.version)
      BY <1>5, <2>1, <3>1
    <3>2. CASE /\ pc' = [pc EXCEPT ![t] = "write"] /\ read' = [read EXCEPT ![t] = store]
               /\ UNCHANGED answer
      BY <3>2 DEF Typed, Working
    <3> QED
      BY <1>6, <3>1, <3>2 DEF ReadItem
  <2> QED
    BY <1>6, <2>2 DEF ReadItem, Typed, start, page, ghost
<1>7. CASE WriteItem(t)
  <2>1. store.version \in Nat /\ store.version + 1 \in Nat
    BY DEF Typed, StoreRecord
  <2>2. /\ pc' \in [Threads -> {"idle"} \cup Working \cup Over]
        /\ answer' \in [Threads -> Answer] /\ read' \in [Threads -> StoreRecord]
    BY <1>5, <1>7, <2>1 DEF WriteItem
  <2>3. store' \in StoreRecord
    <3> DEFINE rulings == [read[t].rulings EXCEPT ![request[t].line] = t]
    <3>1. rulings \in [Lines -> Threads \cup {Nobody}]
      BY DEF Typed, StoreRecord
    <3>2. store' = [store EXCEPT !.rulings = rulings, !.version = store.version + 1]
          \/ store' = store
      BY <1>7 DEF WriteItem
    <3> HIDE DEF rulings
    <3> QED
      BY <2>1, <3>1, <3>2 DEF Typed, StoreRecord
  <2> QED
    BY <1>7, <2>2, <2>3 DEF WriteItem, Typed, start, page, ghost
<1>8. CASE Discard(t)
  <2>1. request[t].server \in Servers /\ promised[request[t].server] \in Nat
        /\ answer[t].version \in Nat
    BY <1>8 DEF Discard, CourseInv, Typed, Answer
  <2>2. promised' \in [Servers -> Nat]
    BY <1>8, <2>1, LargerFacts DEF Discard, Typed
  <2>3. cache' \in [Servers -> [version : Nat, stale : BOOLEAN]]
    BY <1>8 DEF Discard, Typed
  <2>4. pc' \in [Threads -> {"idle"} \cup Working \cup Over]
    BY <1>8 DEF Discard, Typed, Over
  <2> QED
    BY <1>8, <2>2, <2>3, <2>4 DEF Discard, Typed, start
<1> QED
  BY <1>1, <1>2, <1>3, <1>4, <1>6, <1>7, <1>8 DEF ThreadStep

\* So do the other writers.
LEMMA EditTyped ==
  ASSUME Typed, EditElsewhere
  PROVE  Typed'
<1>1. store.edits \in 0 .. MaxEdits /\ store.version \in Nat /\ store.edits + 1 \in 0 .. MaxEdits
      /\ store.version + 1 \in Nat
  BY BoardServerAssumption DEF Typed, StoreRecord, EditElsewhere
<1>2. PICK malformed \in BOOLEAN :
        store' = [store EXCEPT !.malformed = malformed, !.edits = store.edits + 1,
                               !.version = store.version + 1]
  BY DEF EditElsewhere
<1>3. store' \in StoreRecord
  BY <1>1, <1>2 DEF Typed, StoreRecord
<1> QED
  BY <1>3 DEF EditElsewhere, Typed, start, page, thread, ghost

----------------------------------------------------------------------------
(* What each step keeps.                                                   *)

\* No thread has done anything, and nobody has changed the store.
LEMMA InitInvariant == Init => IInv
<1> SUFFICES ASSUME Init PROVE IInv
  OBVIOUS
<1>1. Typed
  BY InitTyped
<1>2. \A t \in Threads : pc[t] = "idle"
  BY DEF Init
<1>3. CourseInv
  BY <1>2 DEF CourseInv
<1>4. Written = {} /\ Cardinality(Written) = 0
  BY <1>2, FS_EmptySet DEF Written, Over
<1>5. VersionInv
  BY <1>4 DEF Init, VersionInv, EmptyStore, NoAnswer
<1>6. \A s \in Servers : up[s] \in {"build", "off"} /\ file # s
  <2>1. PICK scenario \in Scenarios : StartWith(scenario)
    BY DEF Init
  <2>2. Nobody \notin Servers
    BY BoardServerAssumption
  <2> QED
    BY <2>1, <2>2 DEF Init, StartWith
<1>7. TokenInv
  BY <1>6 DEF TokenInv, TokenOnDisk
<1>8. LockInv
  BY <1>2 DEF LockInv
<1>9. PageInv
  BY <1>2 DEF Init, PageInv, ServedPageIsFresh, Shown
<1>10. RulingInv
  BY <1>2 DEF Init, RulingInv, EmptyStore
<1> QED
  BY <1>1, <1>3, <1>5, <1>7, <1>8, <1>9, <1>10 DEF IInv

\* A thread moves along the steps of its request.
LEMMA CourseStep ==
  ASSUME Typed, CourseInv, Next
  PROVE  CourseInv'
<1>1. ASSUME NEW s \in Servers, StartStep(s) PROVE CourseInv'
  BY <1>1 DEF StartStep, BuildFirst, Bind, ResolveToken, LinkToken, CourseInv, thread
<1>2. ASSUME NEW s \in Servers, Stop(s) PROVE CourseInv'
  BY <1>2 DEF Stop, CourseInv
<1>3. ASSUME NEW t \in Threads, Arrive(t) PROVE CourseInv'
  BY <1>3, ArriveRequest DEF CourseInv, Kinds
<1>4. ASSUME NEW t \in Threads, TakeLock(t) \/ BuildPage(t) \/ HoldPage(t) \/ Discard(t)
      PROVE CourseInv'
  <2>1. request' = request
    BY <1>4 DEF TakeLock, BuildPage, HoldPage, Discard
  <2>2. \A u \in Threads \ {t} : pc'[u] = pc[u]
    BY <1>4 DEF TakeLock, BuildPage, HoldPage, Discard, Serve, Typed
  <2>3. \/ pc'[t] \in Over
        \/ pc[t] \in {"lock", "build"} /\ pc'[t] \in {"build", "hold"}
    BY <1>4 DEF TakeLock, BuildPage, HoldPage, Discard, Serve, Typed, Over
  <2> QED
    BY <2>1, <2>2, <2>3 DEF CourseInv, Over
<1>5. ASSUME NEW t \in Threads, ReadItem(t) \/ WriteItem(t) PROVE CourseInv'
  <2>1. request' = request /\ pc[t] \in {"read", "write"}
    BY <1>5 DEF ReadItem, WriteItem
  <2>2. \A u \in Threads \ {t} : pc'[u] = pc[u]
    BY <1>5 DEF ReadItem, WriteItem, Ruling, Typed
  <2>3. pc'[t] \in {"write", AfterRule(t)}
    BY <1>5 DEF ReadItem, WriteItem, Ruling, Typed
  <2> QED
    BY <2>1, <2>2, <2>3 DEF CourseInv, AfterRule
<1>6. ASSUME EditElsewhere PROVE CourseInv'
  BY <1>6 DEF EditElsewhere, CourseInv, thread
<1> QED
  BY <1>1, <1>2, <1>3, <1>4, <1>5, <1>6 DEF Next, ThreadStep

\* A thread that has written does not write again, so the written threads bound
\* the changes that are nobody else's.
LEMMA WrittenGrows ==
  ASSUME Written \subseteq Written'
  PROVE  /\ Cardinality(Written) \in Nat /\ Cardinality(Written') \in Nat
         /\ Cardinality(Written) <= Cardinality(Written')
         /\ \A t \in Written' \ Written : Cardinality(Written) + 1 <= Cardinality(Written')
<1>1. IsFiniteSet(Threads) /\ Written \subseteq Threads /\ Written' \subseteq Threads
  BY BoardServerAssumption DEF Written
<1>2. IsFiniteSet(Written) /\ IsFiniteSet(Written')
  BY <1>1, FS_Subset
<1>3. Cardinality(Written) \in Nat /\ Cardinality(Written') \in Nat
      /\ Cardinality(Written) <= Cardinality(Written')
  BY <1>2, FS_Subset, FS_CardinalityType
<1>4. ASSUME NEW t \in Written' \ Written
      PROVE  Cardinality(Written) + 1 <= Cardinality(Written')
  <2>1. Written \cup {t} \subseteq Written'
    OBVIOUS
  <2>2. Cardinality(Written \cup {t}) = Cardinality(Written) + 1
    BY <1>2, <1>4, FS_AddElement
  <2> QED
    BY <1>2, <2>1, <2>2, FS_Subset
<1> QED
  BY <1>3, <1>4

\* Versions only grow, and what is read, held or promised is a version that was.
LEMMA VersionStep ==
  ASSUME Typed, CourseInv, VersionInv, Next
  PROVE  VersionInv'
<1> USE DEF StoreRecord, Answer
<1>0. store.version \in Nat /\ store.edits \in Nat
  BY BoardServerAssumption DEF Typed
<1>1. ASSUME NEW s \in Servers, StartStep(s) PROVE VersionInv'
  <2>1. store' = store /\ promised' = promised /\ answer' = answer /\ read' = read
        /\ Written' = Written
    BY <1>1 DEF StartStep, BuildFirst, Bind, ResolveToken, LinkToken, thread, ghost, Written
  <2>2. \A q \in Servers : cache'[q].version <= store.version
    <3>1. CASE cache' = cache
      BY <3>1 DEF VersionInv
    <3>2. CASE cache' = [cache EXCEPT ![s].version = store.version]
      BY <1>0, <3>2 DEF VersionInv, Typed
    <3> QED
      BY <1>1, <3>1, <3>2 DEF StartStep, BuildFirst, Bind, ResolveToken, LinkToken, page
  <2> QED
    BY <2>1, <2>2 DEF VersionInv
<1>2. ASSUME store' = store, Written \subseteq Written',
             \A s \in Servers : cache'[s].version <= store.version /\ promised'[s] <= store.version,
             \A t \in Threads : answer'[t].version <= store.version /\ read'[t].version <= store.version
      PROVE  VersionInv'
  BY <1>0, <1>2, WrittenGrows DEF VersionInv
<1>3. ASSUME NEW s \in Servers, Stop(s) PROVE VersionInv'
  <2>1. Written \subseteq Written'
    BY <1>3 DEF Stop, Written, Over
  <2> QED
    BY <1>2, <1>3, <2>1 DEF Stop, VersionInv, page, ghost
<1>4. ASSUME NEW t \in Threads, Arrive(t) PROVE VersionInv'
  <2>1. Written \subseteq Written'
    BY <1>4, ArriveRequest DEF Arrive, Written, Over
  <2> QED
    BY <1>2, <1>4, <2>1 DEF Arrive, VersionInv, page
<1>5. ASSUME NEW t \in Threads, TakeLock(t) PROVE VersionInv'
  <2>1. Written \subseteq Written'
    BY <1>5 DEF TakeLock, Serve, Written, Over, Typed
  <2>2. request[t].server \in Servers
    BY <1>5 DEF TakeLock, CourseInv
  <2>3. \A u \in Threads : answer'[u].version <= store.version
    <3> DEFINE a == [kind |-> "page", version |-> cache[request[t].server].version,
                     refused |-> FALSE]
    <3>0. a.version = cache[request[t].server].version
      OBVIOUS
    <3>1. answer' = answer \/ answer' = [answer EXCEPT ![t] = a]
      BY <1>5 DEF TakeLock, Serve
    <3> HIDE DEF a
    <3>2. \A u \in Threads : answer'[u].version
                             \in {answer[u].version, cache[request[t].server].version}
      BY <3>0, <3>1 DEF Typed
    <3> QED
      BY <2>2, <3>2 DEF VersionInv
  <2> QED
    BY <1>2, <1>5, <2>1, <2>3 DEF TakeLock, VersionInv, ghost
<1>6. ASSUME NEW t \in Threads, BuildPage(t) PROVE VersionInv'
  <2>1. Written \subseteq Written'
    BY <1>6 DEF BuildPage, Serve, Written, Over, Typed
  <2>2. request[t].server \in Servers
    BY <1>6 DEF BuildPage, CourseInv
  <2>3. \A u \in Threads : answer'[u].version <= store.version
    <3> DEFINE a == [kind |-> "page", version |-> cache[request[t].server].version,
                     refused |-> TRUE]
    <3>0. a.version = cache[request[t].server].version
      OBVIOUS
    <3>1. answer' = answer \/ answer' = [answer EXCEPT ![t] = a]
      BY <1>6 DEF BuildPage, Serve
    <3> HIDE DEF a
    <3>2. \A u \in Threads : answer'[u].version
                             \in {answer[u].version, cache[request[t].server].version}
      BY <3>0, <3>1 DEF Typed
    <3> QED
      BY <2>2, <3>2 DEF VersionInv
  <2>4. \A u \in Threads : read'[u].version <= store.version
    <3>1. read' = read \/ read' = [read EXCEPT ![t] = store]
      BY <1>6 DEF BuildPage
    <3>2. \A u \in Threads : read'[u] \in {read[u], store}
      BY <3>1 DEF Typed
    <3> QED
      BY <1>0, <3>2 DEF VersionInv
  <2> QED
    BY <1>2, <1>6, <2>1, <2>3, <2>4 DEF BuildPage, VersionInv
<1>7. ASSUME NEW t \in Threads, HoldPage(t) PROVE VersionInv'
  <2>1. Written \subseteq Written'
    BY <1>7 DEF HoldPage, Serve, Written, Over, Typed
  <2>2. request[t].server \in Servers /\ read[t].version \in Nat /\ read[t].version <= store.version
    BY <1>7 DEF HoldPage, CourseInv, Typed, VersionInv
  <2>3. \A s \in Servers : cache'[s].version <= store.version
    BY <1>7, <2>2 DEF HoldPage, VersionInv, Typed
  <2>4. \A s \in Servers : promised'[s] <= store.version
    BY <1>7, <2>2 DEF HoldPage, VersionInv, Typed, Larger
  <2>5. \A u \in Threads : answer'[u].version <= store.version
    <3>1. answer' = [answer EXCEPT ![t] =
            [kind |-> "page", version |-> read[t].version, refused |-> FALSE]]
      BY <1>7 DEF HoldPage, Serve
    <3> QED
      BY <2>2, <3>1 DEF VersionInv, Typed
  <2>6. \A u \in Threads : read'[u].version <= store.version
    BY <1>0, <1>7 DEF HoldPage, VersionInv, Typed, EmptyStore
  <2> QED
    BY <1>2, <1>7, <2>1, <2>3, <2>4, <2>5, <2>6 DEF HoldPage
<1>8. ASSUME NEW t \in Threads, NEW refused, NEW version \in Nat, Ruling(t, refused, version),
             pc[t] \in {"read", "write"}
      PROVE  /\ Written \subseteq Written'
             /\ \A u \in Threads : answer'[u].version \in {version, answer[u].version}
             /\ \A u \in Threads : read'[u].version <= store.version
  <2>1. Written \subseteq Written'
    BY <1>8 DEF Ruling, Written, Over, Typed
  <2>2. answer' = [answer EXCEPT ![t] = [kind |-> "ruling", version |-> version, refused |-> refused]]
        /\ read' = [read EXCEPT ![t] = EmptyStore] /\ EmptyStore.version = 0
    BY <1>8 DEF Ruling, EmptyStore
  <2>3. \A u \in Threads : answer'[u].version \in {version, answer[u].version}
    BY <2>2 DEF Typed
  <2>4. \A u \in Threads : read'[u].version <= store.version
    BY <1>0, <2>2 DEF VersionInv, Typed
  <2> QED
    BY <2>1, <2>3, <2>4
<1>9. ASSUME NEW t \in Threads, ReadItem(t) PROVE VersionInv'
  <2>1. CASE Ruling(t, TRUE, store.version)
    <3>1. /\ Written \subseteq Written'
          /\ \A u \in Threads : answer'[u].version \in {store.version, answer[u].version}
          /\ \A u \in Threads : read'[u].version <= store.version
      BY <1>0, <1>8, <1>9, <2>1 DEF ReadItem
    <3>2. \A u \in Threads : answer'[u].version <= store.version
      BY <1>0, <3>1 DEF VersionInv
    <3> QED
      BY <1>2, <1>9, <2>1, <3>1, <3>2 DEF ReadItem, VersionInv, page, ghost
  <2>2. CASE pc' = [pc EXCEPT ![t] = "write"] /\ read' = [read EXCEPT ![t] = store] /\ answer' = answer
    <3>1. Written \subseteq Written'
      BY <1>9, <2>2 DEF ReadItem, Written, Over, Typed
    <3>2. \A u \in Threads : read'[u].version <= store.version
      BY <1>0, <2>2 DEF VersionInv, Typed
    <3> QED
      BY <1>2, <1>9, <2>2, <3>1, <3>2 DEF ReadItem, VersionInv, page, ghost
  <2> QED
    BY <1>9, <2>1, <2>2 DEF ReadItem
<1>10. ASSUME NEW t \in Threads, WriteItem(t) PROVE VersionInv'
  <2>1. CASE Ruling(t, TRUE, store.version) /\ store' = store
    <3>1. /\ Written \subseteq Written'
          /\ \A u \in Threads : answer'[u].version \in {store.version, answer[u].version}
          /\ \A u \in Threads : read'[u].version <= store.version
      BY <1>0, <1>8, <1>10, <2>1 DEF WriteItem
    <3>2. \A u \in Threads : answer'[u].version <= store.version
      BY <1>0, <3>1 DEF VersionInv
    <3> QED
      BY <1>2, <1>10, <2>1, <3>1, <3>2 DEF WriteItem, VersionInv, page, ghost
  <2>2. CASE store' # store
    <3>1. PICK refused \in BOOLEAN : Ruling(t, refused, store.version + 1)
      BY <1>10, <2>2 DEF WriteItem
    <3>2. store'.version = store.version + 1 /\ store'.edits = store.edits
      BY <1>10, <2>2 DEF WriteItem, Typed
    <3>3. t \in Written' \ Written
      BY <1>10, <3>1 DEF WriteItem, Ruling, AfterRule, Written, Over, Typed
    <3>4. /\ Written \subseteq Written'
          /\ \A u \in Threads : answer'[u].version \in {store.version + 1, answer[u].version}
          /\ \A u \in Threads : read'[u].version <= store.version
      BY <1>0, <1>8, <1>10, <3>1 DEF WriteItem
    <3>5. Cardinality(Written) \in Nat /\ Cardinality(Written') \in Nat
          /\ Cardinality(Written) + 1 <= Cardinality(Written')
      BY <3>3, <3>4, WrittenGrows
    <3>6. store'.version <= store'.edits + Cardinality(Written')
      BY <1>0, <3>2, <3>5 DEF VersionInv
    <3>7. \A u \in Threads : answer'[u].version <= store.version + 1 /\ read'[u].version <= store.version + 1
      <4>1. \A u \in Threads : answer[u].version <= store.version /\ answer[u].version \in Nat
        BY DEF VersionInv, Typed
      <4>2. read' \in [Threads -> StoreRecord]
        BY ThreadTyped, <1>10 DEF ThreadStep, Typed
      <4> QED
        BY <1>0, <3>4, <4>1, <4>2
    <3>8. \A s \in Servers : cache[s].version <= store.version + 1 /\ promised[s] <= store.version + 1
      BY <1>0 DEF VersionInv, Typed
    <3> QED
      BY <1>10, <3>2, <3>6, <3>7, <3>8 DEF VersionInv, WriteItem, page, ghost
  <2>3. CASE store' = store /\ ~Ruling(t, TRUE, store.version)
    <3>1. store'.version = store.version + 1
      BY <1>10, <2>3 DEF WriteItem, Typed
    <3> QED
      BY <1>0, <2>3, <3>1
  <2> QED
    BY <2>1, <2>2, <2>3
<1>11. ASSUME NEW t \in Threads, Discard(t) PROVE VersionInv'
  <2>1. Written \subseteq Written'
    BY <1>11 DEF Discard, Written, Over, Typed
  <2>2. \A s \in Servers : cache'[s].version <= store.version
    BY <1>11 DEF Discard, VersionInv, Typed
  <2>3. \A s \in Servers : promised'[s] <= store.version
    BY <1>11 DEF Discard, VersionInv, Typed, Larger
  <2> QED
    BY <1>2, <1>11, <2>1, <2>2, <2>3 DEF Discard, VersionInv
<1>12. ASSUME EditElsewhere PROVE VersionInv'
  <2>1. store'.version = store.version + 1 /\ store'.edits = store.edits + 1
    BY <1>12 DEF EditElsewhere, Typed
  <2>2. Written' = Written /\ Cardinality(Written) \in Nat
    BY <1>12, WrittenGrows DEF EditElsewhere, Written, thread
  <2>3. /\ \A s \in Servers : cache[s].version \in Nat /\ promised[s] \in Nat
        /\ \A t \in Threads : answer[t].version \in Nat /\ read[t].version \in Nat
    BY DEF Typed
  <2>4. page' = page /\ promised' = promised /\ answer' = answer /\ read' = read
    BY <1>12 DEF EditElsewhere, thread, ghost
  <2> QED
    BY <1>0, <2>1, <2>2, <2>3, <2>4 DEF VersionInv, page
<1> QED
  BY <1>1, <1>3, <1>4, <1>5, <1>6, <1>7, <1>9, <1>10, <1>11, <1>12 DEF Next, ThreadStep

\* A serving server keeps a token, and the token file is written only by a start
\* that then serves.
LEMMA TokenStep ==
  ASSUME Typed, TokenInv, Next
  PROVE  TokenInv'
<1> USE DEF TokenInv, TokenOnDisk
<1>0. Nobody \notin Servers /\ NewToken \subseteq Servers
  BY BoardServerAssumption
<1>1. ASSUME NEW s \in Servers, BuildFirst(s) \/ Bind(s) PROVE TokenInv'
  <2>1. PICK where \in {"refused", "bind", "token"} : up' = [up EXCEPT ![s] = where]
    BY <1>1 DEF BuildFirst, Bind
  <2>2. up[s] \in {"build", "bind"} /\ file' = file /\ token' = token
    BY <1>1 DEF BuildFirst, Bind
  <2> QED
    BY <2>1, <2>2 DEF Typed
<1>2. ASSUME NEW s \in Servers, ResolveToken(s) PROVE TokenInv'
  <2>1. CASE s \in NewToken
    <3>1. file' = s /\ token' = [token EXCEPT ![s] = s] /\ up' = [up EXCEPT ![s] = "serving"]
      BY <1>2, <2>1 DEF ResolveToken
    <3> QED
      BY <1>0, <2>1, <3>1 DEF Typed
  <2>2. CASE s \notin NewToken /\ file # Nobody
    <3>1. file' = file /\ token' = [token EXCEPT ![s] = file] /\ up' = [up EXCEPT ![s] = "serving"]
      BY <1>2, <2>2 DEF ResolveToken
    <3>2. file \in Servers /\ up[s] = "token"
      BY <1>2, <2>2 DEF ResolveToken, Typed
    <3> QED
      BY <1>0, <2>2, <3>1, <3>2 DEF Typed
  <2>3. CASE s \notin NewToken /\ file = Nobody
    <3>1. up' = [up EXCEPT ![s] = "link"] /\ file' = file /\ token' = token
      BY <1>2, <2>3 DEF ResolveToken
    <3> QED
      BY <1>0, <2>3, <3>1 DEF Typed
  <2> QED
    BY <2>1, <2>2, <2>3
<1>3. ASSUME NEW s \in Servers, LinkToken(s) PROVE TokenInv'
  <2>1. CASE file = Nobody
    BY <1>0, <1>3, <2>1 DEF LinkToken, Typed
  <2>2. CASE file # Nobody
    BY <1>0, <1>3, <2>2 DEF LinkToken, Typed
  <2> QED
    BY <2>1, <2>2
<1>4. ASSUME NEW s \in Servers, Stop(s) PROVE TokenInv'
  <2>1. up' = [up EXCEPT ![s] = "stopped"] /\ file' = file /\ token' = token
    BY <1>4 DEF Stop
  <2> QED
    BY <2>1 DEF Typed
<1>5. ASSUME NEW t \in Threads, Arrive(t) \/ ThreadStep(t) PROVE TokenInv'
  <2>1. start' = start
    BY <1>5 DEF ThreadStep, Arrive, TakeLock, BuildPage, HoldPage, ReadItem, WriteItem, Discard
  <2> QED
    BY <2>1 DEF start
<1>6. ASSUME EditElsewhere PROVE TokenInv'
  BY <1>6 DEF EditElsewhere, start
<1> QED
  BY <1>1, <1>2, <1>3, <1>4, <1>5, <1>6 DEF Next, StartStep

\* A thread's step leaves the other threads where they are.
LEMMA ThreadFrame ==
  ASSUME Typed, NEW t \in Threads, Arrive(t) \/ ThreadStep(t), NEW u \in Threads \ {t}
  PROVE  /\ pc'[u] = pc[u] /\ request'[u] = request[u] /\ read'[u] = read[u]
         /\ answer'[u] = answer[u] /\ floor'[u] = floor[u]
<1>1. CASE Arrive(t)
  BY <1>1, ArriveRequest DEF Arrive, Typed
<1>2. CASE TakeLock(t) \/ BuildPage(t)
  BY <1>2 DEF TakeLock, BuildPage, Serve, Typed, ghost
<1>3. CASE HoldPage(t) \/ Discard(t)
  BY <1>3 DEF HoldPage, Discard, Serve, Typed
<1>4. CASE ReadItem(t) \/ WriteItem(t)
  BY <1>4 DEF ReadItem, WriteItem, Ruling, Typed, ghost
<1> QED
  BY <1>1, <1>2, <1>3, <1>4 DEF ThreadStep

\* The lock of a rebuild under way is its thread's, and nothing is promised
\* meanwhile.
LEMMA LockStep ==
  ASSUME Typed, CourseInv, VersionInv, LockInv, Next
  PROVE  LockInv'
<1>0. Nobody \notin Threads
  BY BoardServerAssumption
<1>1. ASSUME NEW s \in Servers, StartStep(s) PROVE LockInv'
  <2>1. pc' = pc /\ request' = request /\ read' = read /\ lock' = lock /\ promised' = promised
    BY <1>1 DEF StartStep, BuildFirst, Bind, ResolveToken, LinkToken, thread, ghost, page
  <2> QED
    BY <2>1 DEF LockInv
<1>2. ASSUME NEW s \in Servers, Stop(s) PROVE LockInv'
  BY <1>2 DEF Stop, LockInv, page, ghost
<1>3. ASSUME NEW t \in Threads, Arrive(t) PROVE LockInv'
  <2>1. pc'[t] \notin {"build", "hold"} /\ lock' = lock /\ promised' = promised
    BY <1>3, ArriveRequest DEF Arrive, page, Kinds
  <2> QED
    BY <1>3, <2>1, ThreadFrame DEF LockInv
<1>4. ASSUME NEW t \in Threads, TakeLock(t) PROVE LockInv'
  <2> DEFINE s == request[t].server
  <2>1. s \in Servers /\ lock[s] = Nobody /\ request' = request /\ promised' = promised
    BY <1>4 DEF TakeLock, CourseInv, ghost
  <2>2. \/ lock' = lock /\ pc'[t] = "done"
        \/ lock' = [lock EXCEPT ![s] = t] /\ pc'[t] = "build"
    BY <1>4 DEF TakeLock, Serve, Typed
  <2>3. ASSUME NEW u \in Threads, u # t, pc[u] \in {"build", "hold"}
        PROVE  request[u].server # s
    BY <1>0, <2>1, <2>3 DEF LockInv
  <2> HIDE DEF s
  <2>4. ASSUME NEW u \in Threads, u # t
        PROVE  /\ pc'[u] \in {"build", "hold"} => lock'[request'[u].server] = u
               /\ pc'[u] = "hold" => promised'[request'[u].server] <= read'[u].version
    BY <1>4, <2>1, <2>2, <2>3, <2>4, ThreadFrame DEF LockInv, ThreadStep, Typed, CourseInv
  <2>5. pc'[t] = "build" => lock'[s] = t
    BY <2>1, <2>2 DEF Typed
  <2> QED
    BY <2>1, <2>2, <2>4, <2>5 DEF LockInv, s
<1>5. ASSUME NEW t \in Threads, pc[t] \in {"build", "hold"},
             NEW u \in Threads, u # t, pc[u] \in {"build", "hold"}
      PROVE  request[u].server # request[t].server
  BY <1>5 DEF LockInv
<1>6. ASSUME NEW t \in Threads, BuildPage(t) PROVE LockInv'
  <2> DEFINE s == request[t].server
  <2>1. s \in Servers /\ pc[t] = "build" /\ request' = request /\ promised' = promised
        /\ promised[s] <= store.version /\ lock[s] = t
    BY <1>6 DEF BuildPage, CourseInv, VersionInv, LockInv
  <2>2. \/ lock' = [lock EXCEPT ![s] = Nobody] /\ pc'[t] \in Over
        \/ lock' = lock /\ pc'[t] = "hold" /\ read'[t] = store
    BY <1>6 DEF BuildPage, Serve, Typed, Over
  <2>3. \A u \in Threads : u # t /\ pc[u] \in {"build", "hold"} => request[u].server # s
    BY <1>5, <2>1
  <2> HIDE DEF s
  <2>4. ASSUME NEW u \in Threads, u # t
        PROVE  /\ pc'[u] \in {"build", "hold"} => lock'[request'[u].server] = u
               /\ pc'[u] = "hold" => promised'[request'[u].server] <= read'[u].version
    BY <1>6, <2>1, <2>2, <2>3, <2>4, ThreadFrame DEF LockInv, ThreadStep, Typed, CourseInv
  <2>5. pc'[t] \in {"build", "hold"} => lock'[s] = t /\ promised'[s] <= read'[t].version
    BY <2>1, <2>2 DEF Over
  <2> QED
    BY <2>1, <2>4, <2>5 DEF LockInv, s
<1>7. ASSUME NEW t \in Threads, HoldPage(t) PROVE LockInv'
  <2> DEFINE s == request[t].server
  <2>1. pc[t] = "hold" /\ request' = request /\ pc'[t] = "done"
        /\ lock' = [lock EXCEPT ![s] = Nobody]
        /\ promised' = [promised EXCEPT ![s] = Larger(promised[s], read[t].version)]
    BY <1>7 DEF HoldPage, Serve, Typed
  <2>2. \A u \in Threads : u # t /\ pc[u] \in {"build", "hold"} => request[u].server # s
    BY <1>5, <2>1
  <2> HIDE DEF s
  <2>3. ASSUME NEW u \in Threads, u # t
        PROVE  /\ pc'[u] \in {"build", "hold"} => lock'[request'[u].server] = u
               /\ pc'[u] = "hold" => promised'[request'[u].server] <= read'[u].version
    BY <1>7, <2>1, <2>2, <2>3, ThreadFrame DEF LockInv, ThreadStep, Typed, CourseInv
  <2> QED
    BY <2>1, <2>3 DEF LockInv
<1>8. ASSUME NEW t \in Threads, ReadItem(t) \/ WriteItem(t) PROVE LockInv'
  <2>1. pc'[t] \notin {"build", "hold"} /\ lock' = lock /\ promised' = promised /\ request' = request
    BY <1>8 DEF ReadItem, WriteItem, Ruling, AfterRule, Typed, page, ghost
  <2> QED
    BY <1>8, <2>1, ThreadFrame DEF LockInv, ThreadStep
<1>9. ASSUME NEW t \in Threads, Discard(t) PROVE LockInv'
  <2> DEFINE s == request[t].server
  <2>1. lock[s] = Nobody /\ lock' = lock /\ request' = request /\ pc'[t] = "done"
        /\ promised' = [promised EXCEPT ![s] = Larger(promised[s], answer[t].version)]
    BY <1>9 DEF Discard, Typed
  <2>2. \A u \in Threads : pc[u] \in {"build", "hold"} => request[u].server # s
    BY <1>0, <2>1 DEF LockInv
  <2> HIDE DEF s
  <2>3. ASSUME NEW u \in Threads, u # t
        PROVE  /\ pc'[u] \in {"build", "hold"} => lock'[request'[u].server] = u
               /\ pc'[u] = "hold" => promised'[request'[u].server] <= read'[u].version
    BY <1>9, <2>1, <2>2, <2>3, ThreadFrame DEF LockInv, ThreadStep, Typed, CourseInv
  <2> QED
    BY <2>1, <2>3 DEF LockInv
<1>10. ASSUME EditElsewhere PROVE LockInv'
  BY <1>10 DEF EditElsewhere, LockInv, page, thread, ghost
<1> QED
  BY <1>1, <1>2, <1>3, <1>4, <1>6, <1>7, <1>8, <1>9, <1>10 DEF Next, ThreadStep

\* Nothing is promised that a page not marked stale does not show, and a request
\* is answered with what was promised when it arrived.
LEMMA PageStep ==
  ASSUME Typed, CourseInv, VersionInv, LockInv, PageInv, Next
  PROVE  PageInv'
<1> DEFINE
  Fresh(s) == ~cache[s].stale => promised[s] <= cache[s].version
  Owed(t) == /\ pc[t] \in {"lock", "build", "hold"} =>
                  floor[t].promised <= promised[request[t].server]
             /\ Shown(t) => answer[t].version >= floor[t].promised
<1>0. PageInv <=> (\A s \in Servers : Fresh(s)) /\ (\A t \in Threads : Owed(t))
  BY DEF PageInv, ServedPageIsFresh
<1>01. PageInv' <=> (\A s \in Servers : Fresh(s)') /\ (\A t \in Threads : Owed(t)')
  BY DEF PageInv, ServedPageIsFresh
<1> USE DEF StoreRecord, Answer
<1>1. ASSUME NEW s \in Servers, StartStep(s) PROVE PageInv'
  <2>1. thread' = thread /\ ghost' = ghost
    BY <1>1 DEF StartStep, BuildFirst, Bind, ResolveToken, LinkToken
  <2>2. \A t \in Threads : Owed(t)'
    BY <1>0, <2>1 DEF Shown, thread, ghost
  <2>3. \A q \in Servers : Fresh(q)'
    <3>1. CASE cache' = cache
      BY <1>0, <2>1, <3>1 DEF ghost
    <3>2. CASE cache' = [cache EXCEPT ![s].version = store.version]
      <4>1. cache'[s].version = store.version /\ \A q \in Servers \ {s} : cache'[q] = cache[q]
        BY <3>2 DEF Typed
      <4> QED
        BY <1>0, <2>1, <4>1 DEF VersionInv, ghost
    <3> QED
      BY <1>1, <3>1, <3>2 DEF StartStep, BuildFirst, Bind, ResolveToken, LinkToken, page
  <2> QED
    BY <1>01, <2>2, <2>3
<1>2. ASSUME NEW s \in Servers, Stop(s) PROVE PageInv'
  <2>1. \A t \in Threads : pc'[t] \in {pc[t], "failed"}
    BY <1>2 DEF Stop
  <2> QED
    BY <1>0, <1>01, <1>2, <2>1 DEF Stop, Shown, page, ghost
<1>3. ASSUME NEW t \in Threads, Arrive(t) \/ ThreadStep(t), Owed(t)',
             \A s \in Servers : promised[s] <= promised'[s] /\ Fresh(s)'
      PROVE  PageInv'
  <2>1. ASSUME NEW u \in Threads, u # t PROVE Owed(u)'
    <3>1. /\ pc'[u] = pc[u] /\ request'[u] = request[u] /\ answer'[u] = answer[u]
          /\ floor'[u] = floor[u] /\ floor[u].promised \in Nat
      BY <1>3, <2>1, ThreadFrame DEF Typed
    <3>2. pc[u] \in {"lock", "build", "hold"} =>
            /\ request[u].server \in Servers
            /\ promised[request[u].server] <= promised'[request[u].server]
            /\ promised[request[u].server] \in Nat /\ promised'[request[u].server] \in Nat
      <4>1. promised' \in [Servers -> Nat]
        BY <1>3, ThreadTyped DEF Typed
      <4> QED
        BY <1>3, <4>1 DEF CourseInv, Typed
    <3> QED
      BY <1>0, <3>1, <3>2 DEF Shown
  <2> QED
    BY <1>01, <1>3, <2>1
<1> DEFINE Same == promised' = promised /\ cache' = cache
<1>4. Same => \A s \in Servers : promised[s] <= promised'[s] /\ Fresh(s)'
  BY <1>0 DEF Typed
<1>5. ASSUME NEW t \in Threads, Arrive(t) PROVE PageInv'
  <2>1. Same
    BY <1>5 DEF Arrive, page
  <2>2. ~Shown(t)'
    BY <1>5, ArriveRequest DEF Shown, Kinds
  <2>3. CASE request[t].kind \in {"page", "reload"}
    <3>1. PICK s \in Servers :
            /\ request' = [request EXCEPT ![t].server = s]
            /\ floor' = [floor EXCEPT ![t] = [promised |-> promised[s], refusedAt |-> refusedAt[s]]]
      BY <1>5, <2>3 DEF Arrive
    <3>2. floor'[t].promised = promised[s] /\ promised[s] \in Nat
      BY <3>1 DEF Typed
    <3>3. request[t] \in Request /\ request'[t] = [request[t] EXCEPT !.server = s]
      BY <3>1 DEF Typed
    <3>4. request'[t].server = s
      BY <3>3 DEF Request
    <3> HIDE DEF Same
    <3>5. Owed(t)'
      BY <2>1, <2>2, <3>2, <3>4 DEF Same
    <3> QED
      BY <1>3, <1>4, <1>5, <2>1, <3>5
  <2>4. CASE request[t].kind \notin {"page", "reload"}
    <3>1. pc'[t] = "read"
      BY <1>5, <2>4, ArriveRequest DEF Kinds
    <3>2. Owed(t)'
      BY <2>2, <3>1
    <3> QED
      BY <1>3, <1>4, <1>5, <2>1, <3>2
  <2> QED
    BY <2>3, <2>4
<1>6. ASSUME NEW t \in Threads, TakeLock(t) PROVE PageInv'
  <2> DEFINE s == request[t].server
  <2>1. Same /\ floor' = floor /\ request' = request /\ s \in Servers
        /\ cache[s].version \in Nat /\ promised[s] \in Nat /\ floor[t].promised \in Nat
    BY <1>6 DEF TakeLock, ghost, CourseInv, Typed
  <2>2. pc[t] = "lock" /\ floor[t].promised <= promised[s]
    BY <1>0, <1>6 DEF TakeLock
  <2>3. \/ pc'[t] = "build"
        \/ pc'[t] = "done" /\ answer'[t].version = cache[s].version /\ ~cache[s].stale
    BY <1>6 DEF TakeLock, Serve, Typed
  <2>4. ~cache[s].stale => promised[s] <= cache[s].version
    BY <1>0, <2>1
  <2> HIDE DEF s
  <2>5. Owed(t)'
    BY <2>1, <2>2, <2>3, <2>4 DEF Shown, s
  <2> QED
    BY <1>3, <1>4, <1>6, <2>1, <2>5 DEF ThreadStep
<1>7. ASSUME NEW t \in Threads, BuildPage(t) PROVE PageInv'
  <2>1. Same /\ floor' = floor /\ request' = request
    BY <1>7 DEF BuildPage
  <2>2. \/ pc'[t] \in {"hold", "failed"}
        \/ pc'[t] = "done" /\ answer'[t].refused
    BY <1>7 DEF BuildPage, Serve, Typed
  <2>3. Owed(t)'
    BY <1>0, <1>7, <2>1, <2>2 DEF Shown, BuildPage
  <2> QED
    BY <1>3, <1>4, <1>7, <2>1, <2>3 DEF ThreadStep
<1>8. ASSUME NEW t \in Threads, HoldPage(t) PROVE PageInv'
  <2>0. PICK s \in Servers : s = request[t].server
    BY <1>8 DEF HoldPage, CourseInv
  <2>1. floor' = floor /\ s \in Servers /\ promised[s] \in Nat
        /\ read[t].version \in Nat /\ floor[t].promised \in Nat
    BY <1>8, <2>0 DEF HoldPage, CourseInv, Typed
  <2>2. floor[t].promised <= promised[s] /\ promised[s] <= read[t].version
    BY <1>0, <1>8, <2>0 DEF HoldPage, LockInv
  <2>3. pc'[t] = "done" /\ answer'[t].version = read[t].version
    BY <1>8 DEF HoldPage, Serve, Typed
  <2>4. promised'[s] = read[t].version /\ cache'[s].version = read[t].version
    <3>1. /\ cache' = [cache EXCEPT ![s] = [version |-> read[t].version, stale |-> FALSE]]
          /\ promised' = [promised EXCEPT ![s] = Larger(promised[s], read[t].version)]
      BY <1>8, <2>0 DEF HoldPage, Typed
    <3>2. Larger(promised[s], read[t].version) = read[t].version
      BY <2>1, <2>2 DEF Larger
    <3>3. cache'[s] = [version |-> read[t].version, stale |-> FALSE]
      BY <2>1, <3>1 DEF Typed
    <3>4. promised'[s] = read[t].version
      BY <2>1, <3>1, <3>2 DEF Typed
    <3> QED
      BY <3>3, <3>4
  <2>5. \A q \in Servers \ {s} : promised'[q] = promised[q] /\ cache'[q] = cache[q]
    BY <1>8, <2>0 DEF HoldPage, Typed
  <2>6. \A q \in Servers : promised[q] <= promised'[q] /\ Fresh(q)'
    <3>1. Fresh(s)' /\ promised[s] <= promised'[s]
      BY <2>1, <2>2, <2>4
    <3>2. ASSUME NEW q \in Servers \ {s} PROVE promised[q] <= promised'[q] /\ Fresh(q)'
      <4>1. promised[q] \in Nat /\ Fresh(q) /\ promised'[q] = promised[q] /\ cache'[q] = cache[q]
        BY <1>0, <2>5, <3>2 DEF Typed
      <4> QED
        BY <4>1
    <3> QED
      BY <3>1, <3>2
  <2>7. Owed(t)'
    BY <2>1, <2>2, <2>3 DEF Shown
  <2> QED
    BY <1>3, <1>8, <2>6, <2>7 DEF ThreadStep
<1>9. ASSUME NEW t \in Threads, ReadItem(t) \/ WriteItem(t) PROVE PageInv'
  <2>1. Same /\ pc[t] \in {"read", "write"} /\ request' = request
    BY <1>9 DEF ReadItem, WriteItem, page, ghost
  <2>2. pc'[t] \in {"write", "discard", "done"}
    BY <1>9 DEF ReadItem, WriteItem, Ruling, AfterRule, Typed
  <2>3. request'[t].kind # "page"
    BY <2>1 DEF CourseInv
  <2>4. Owed(t)'
    BY <2>2, <2>3 DEF Shown
  <2> QED
    BY <1>3, <1>4, <1>9, <2>1, <2>4 DEF ThreadStep
<1>10. ASSUME NEW t \in Threads, Discard(t) PROVE PageInv'
  <2>0. PICK s \in Servers : s = request[t].server
    BY <1>10 DEF Discard, CourseInv
  <2>1. s \in Servers /\ promised[s] \in Nat /\ answer[t].version \in Nat
        /\ request[t].kind = "click" /\ request' = request
    BY <1>10, <2>0 DEF Discard, CourseInv, Typed
  <2>2. cache'[s].stale /\ promised'[s] = Larger(promised[s], answer[t].version)
    BY <1>10, <2>0, <2>1 DEF Discard, Typed
  <2>3. \A q \in Servers \ {s} : promised'[q] = promised[q] /\ cache'[q] = cache[q]
    BY <1>10, <2>0 DEF Discard, Typed
  <2>4. \A q \in Servers : promised[q] <= promised'[q] /\ Fresh(q)'
    <3>1. Fresh(s)' /\ promised[s] <= promised'[s]
      BY <2>1, <2>2, LargerFacts
    <3>2. ASSUME NEW q \in Servers \ {s} PROVE promised[q] <= promised'[q] /\ Fresh(q)'
      <4>1. promised[q] \in Nat /\ Fresh(q) /\ promised'[q] = promised[q] /\ cache'[q] = cache[q]
        BY <1>0, <2>3, <3>2 DEF Typed
      <4> QED
        BY <4>1
    <3> QED
      BY <3>1, <3>2
  <2>5. Owed(t)'
    BY <1>10, <2>1 DEF Shown, Discard, Typed
  <2> QED
    BY <1>3, <1>10, <2>4, <2>5 DEF ThreadStep
<1>11. ASSUME EditElsewhere PROVE PageInv'
  BY <1>11 DEF EditElsewhere, PageInv, ServedPageIsFresh, Shown, page, thread, ghost
<1> QED
  BY <1>1, <1>2, <1>5, <1>6, <1>7, <1>8, <1>9, <1>10, <1>11 DEF Next, ThreadStep

\* A click or a command rules a line that nobody has ruled, of an item store that
\* nobody has changed, so no ruling is written over.
LEMMA RulingStep ==
  ASSUME Typed, CourseInv, RulingInv, Next
  PROVE  RulingInv'
<1> DEFINE
  Ready(t) == pc[t] = "write" =>
                /\ read[t].rulings[request[t].line] = Nobody
                /\ read[t].edits <= store.edits
                /\ read[t].edits = store.edits => read[t].malformed = store.malformed
                /\ request[t].kind = "click" => ~read[t].malformed
  Ruled(t) == pc[t] \in {"discard", "done"} /\ answer[t].kind = "ruling" /\ ~answer[t].refused
  Kept(t) == storage = "state-ref" /\ Ruled(t) =>
               request[t].line \in Lines /\ store.rulings[request[t].line] = t
  Sound == storage # "state-ref" => ~store.malformed
<1>0. RulingInv <=> Sound /\ \A t \in Threads : Ready(t) /\ Kept(t)
  BY DEF RulingInv
<1>01. RulingInv' <=> Sound' /\ \A t \in Threads : Ready(t)' /\ Kept(t)'
  BY DEF RulingInv
<1>02. Nobody \notin Threads /\ store.edits \in Nat /\ store.version \in Nat
       /\ store.rulings \in [Lines -> Threads \cup {Nobody}]
  BY BoardServerAssumption DEF Typed, StoreRecord
<1>1. ASSUME NEW s \in Servers, StartStep(s) PROVE RulingInv'
  <2>1. storage' = storage /\ store' = store /\ thread' = thread
    BY <1>1 DEF StartStep, BuildFirst, Bind, ResolveToken, LinkToken
  <2> QED
    BY <1>0, <1>01, <2>1 DEF thread
<1>2. ASSUME NEW s \in Servers, Stop(s) PROVE RulingInv'
  <2>1. \A t \in Threads : pc'[t] \in {pc[t], "failed"}
    BY <1>2 DEF Stop
  <2> QED
    BY <1>0, <1>01, <1>2, <2>1 DEF Stop
<1>3. ASSUME NEW t \in Threads, Arrive(t) \/ ThreadStep(t), storage' = storage,
             store' = store, Ready(t)', Kept(t)'
      PROVE  RulingInv'
  <2>1. ASSUME NEW u \in Threads, u # t PROVE Ready(u)' /\ Kept(u)'
    <3>1. /\ pc'[u] = pc[u] /\ request'[u] = request[u] /\ answer'[u] = answer[u]
          /\ read'[u] = read[u]
      BY <1>3, <2>1, ThreadFrame
    <3> QED
      BY <1>0, <1>3, <3>1
  <2> QED
    BY <1>0, <1>01, <1>3, <2>1
<1>4. ASSUME NEW t \in Threads, Arrive(t) PROVE RulingInv'
  <2>1. storage' = storage /\ store' = store /\ pc'[t] \in {"lock", "read"}
    BY <1>4, ArriveRequest DEF Arrive, Kinds
  <2> QED
    BY <1>3, <1>4, <2>1
<1>5. ASSUME NEW t \in Threads, TakeLock(t) \/ BuildPage(t) \/ HoldPage(t) PROVE RulingInv'
  <2>1. storage' = storage /\ store' = store
    BY <1>5 DEF TakeLock, BuildPage, HoldPage
  <2>2. \/ pc'[t] \in {"build", "hold", "failed"}
        \/ pc'[t] = "done" /\ answer'[t].kind = "page"
    BY <1>5 DEF TakeLock, BuildPage, HoldPage, Serve, Typed
  <2> QED
    BY <1>3, <1>5, <2>1, <2>2 DEF ThreadStep
<1>6. ASSUME NEW t \in Threads, ReadItem(t) PROVE RulingInv'
  <2>1. storage' = storage /\ store' = store /\ request' = request
    BY <1>6 DEF ReadItem, page, ghost
  <2>2. CASE Ruling(t, TRUE, store.version)
    <3>1. pc'[t] \in {"discard", "done"} /\ answer'[t].refused
      BY <2>2 DEF Ruling, AfterRule, Typed
    <3> QED
      BY <1>3, <1>6, <2>1, <3>1 DEF ThreadStep
  <2>3. CASE ~Ruling(t, TRUE, store.version)
    <3>1. pc'[t] = "write" /\ read'[t] = store /\ store.rulings[request[t].line] = Nobody
          /\ (request[t].kind = "click" => ~store.malformed)
      BY <1>6, <2>3 DEF ReadItem, Typed
    <3>2. Ready(t)' /\ Kept(t)'
      BY <1>02, <2>1, <3>1
    <3> QED
      BY <1>3, <1>6, <2>1, <3>2 DEF ThreadStep
  <2> QED
    BY <2>2, <2>3
<1>7. ASSUME NEW t \in Threads, WriteItem(t) PROVE RulingInv'
  <2>1. storage' = storage /\ request' = request /\ pc[t] = "write"
    BY <1>7 DEF WriteItem, page, ghost
  <2>2. CASE Ruling(t, TRUE, store.version) /\ store' = store
    <3>1. pc'[t] \in {"discard", "done"} /\ answer'[t].refused
      BY <2>2 DEF Ruling, AfterRule, Typed
    <3> QED
      BY <1>3, <1>7, <2>1, <2>2, <3>1 DEF ThreadStep
  <2>3. CASE ~(Ruling(t, TRUE, store.version) /\ store' = store)
    <3> DEFINE line == request[t].line
    <3>1. Writable(t) /\ \E refused \in BOOLEAN : Ruling(t, refused, store.version + 1)
      BY <1>7, <2>3 DEF WriteItem
    <3>2. /\ store'.rulings = [read[t].rulings EXCEPT ![line] = t]
          /\ store'.malformed = store.malformed /\ store'.edits = store.edits
      BY <1>7, <2>3 DEF WriteItem, Typed, StoreRecord
    <3>3. line \in Lines /\ read[t].rulings[line] = Nobody
          /\ read[t].rulings \in [Lines -> Threads \cup {Nobody}]
      BY <1>0, <2>1 DEF CourseInv, Typed, StoreRecord
    <3>4. pc'[t] \in {"discard", "done"}
      BY <3>1 DEF Ruling, AfterRule, Typed
    <3> HIDE DEF line
    <3>5. storage = "state-ref" => store.rulings = read[t].rulings
      BY <3>1 DEF Writable
    <3>6. Ready(t)' /\ Kept(t)'
      BY <2>1, <3>2, <3>3, <3>4 DEF line
    <3>7. ASSUME NEW u \in Threads, u # t PROVE Ready(u)' /\ Kept(u)'
      <4>0. ThreadStep(t) /\ u \in Threads \ {t}
        BY <1>7, <3>7 DEF ThreadStep
      <4>1. /\ pc'[u] = pc[u] /\ request'[u] = request[u] /\ answer'[u] = answer[u]
            /\ read'[u] = read[u]
        BY ONLY Typed, t \in Threads, <4>0, ThreadFrame
      <4>2. Ready(u)'
        BY <1>0, <3>2, <4>1
      <4>3. ASSUME storage = "state-ref", Ruled(u)
            PROVE  request[u].line \in Lines /\ store'.rulings[request[u].line] = u
        <5>1. request[u].line \in Lines /\ store.rulings[request[u].line] = u
          BY <1>0, <4>3
        <5>2. request[u].line # line
          BY <1>02, <3>3, <3>5, <4>3, <5>1
        <5> QED
          BY <3>2, <3>3, <3>5, <4>3, <5>1, <5>2
      <4> QED
        BY <2>1, <4>1, <4>2, <4>3
    <3> QED
      BY <1>0, <1>01, <2>1, <3>2, <3>6, <3>7
  <2> QED
    BY <2>2, <2>3
<1>8. ASSUME NEW t \in Threads, Discard(t) PROVE RulingInv'
  <2>1. storage' = storage /\ store' = store /\ request' = request /\ answer' = answer
        /\ pc[t] = "discard" /\ pc'[t] = "done"
    BY <1>8 DEF Discard, Typed
  <2>2. Ready(t)' /\ Kept(t)'
    BY <1>0, <2>1
  <2> QED
    BY <1>3, <1>8, <2>1, <2>2 DEF ThreadStep
<1>9. ASSUME EditElsewhere PROVE RulingInv'
  <2>1. storage' = storage /\ thread' = thread /\ store'.rulings = store.rulings
        /\ store'.edits = store.edits + 1 /\ (storage # "state-ref" => ~store'.malformed)
    BY <1>9 DEF EditElsewhere, Typed, StoreRecord
  <2>2. \A t \in Threads : read[t].edits \in Nat
    BY BoardServerAssumption DEF Typed, StoreRecord
  <2>3. \A t \in Threads : Ready(t)'
    BY <1>0, <1>02, <2>1, <2>2 DEF thread
  <2>4. \A t \in Threads : Kept(t)'
    BY <1>0, <2>1 DEF thread
  <2> QED
    BY <1>01, <2>1, <2>3, <2>4
<1> QED
  BY <1>1, <1>2, <1>4, <1>5, <1>6, <1>7, <1>8, <1>9 DEF Next, ThreadStep

----------------------------------------------------------------------------
(* The theorems.                                                           *)

\* The inductive invariant: a change is counted once, the token file names a
\* server that came up, a rebuild under way holds its server's lock, what a page
\* owes was promised, and a thread about to write knows the line unruled.
THEOREM BoardServerInvariant == Spec => []IInv
<1>1. Init => IInv
  BY InitInvariant
<1>2. IInv /\ [Next]_vars => IInv'
  <2> SUFFICES ASSUME IInv, [Next]_vars PROVE IInv'
    OBVIOUS
  <2>1. CASE Next
    <3>1. Typed'
      <4>1. CASE \E s \in Servers : StartStep(s) \/ Stop(s)
        BY <4>1, StartTyped DEF IInv
      <4>2. CASE \E t \in Threads : Arrive(t) \/ ThreadStep(t)
        BY <4>2, ThreadTyped DEF IInv
      <4>3. CASE EditElsewhere
        BY <4>3, EditTyped DEF IInv
      <4> QED
        BY <2>1, <4>1, <4>2, <4>3 DEF Next
    <3> QED
      BY <2>1, <3>1, CourseStep, VersionStep, TokenStep, LockStep, PageStep, RulingStep DEF IInv
  <2>2. CASE UNCHANGED vars
    <3>1. /\ storage' = storage /\ store' = store /\ file' = file /\ up' = up /\ token' = token
          /\ cache' = cache /\ lock' = lock /\ pc' = pc /\ request' = request /\ read' = read
          /\ answer' = answer /\ promised' = promised /\ refusedAt' = refusedAt /\ floor' = floor
      BY <2>2 DEF vars
    <3>2. Typed' /\ CourseInv'
      BY <3>1 DEF IInv, Typed, CourseInv
    <3>3. Written' = Written
      BY <3>1 DEF Written
    <3>4. VersionInv' /\ TokenInv' /\ LockInv'
      BY <3>1, <3>3 DEF IInv, VersionInv, TokenInv, TokenOnDisk, LockInv
    <3>5. PageInv' /\ RulingInv'
      BY <3>1 DEF IInv, PageInv, ServedPageIsFresh, Shown, RulingInv
    <3> QED
      BY <3>2, <3>4, <3>5 DEF IInv
  <2> QED
    BY <2>1, <2>2
<1> QED
  BY <1>1, <1>2, PTL DEF Spec

\* No more versions are counted than other writers' edits and one write of every
\* thread.
LEMMA TypesKept == IInv => TypeOK
<1> SUFFICES ASSUME IInv PROVE TypeOK
  OBVIOUS
<1>1. store.version \in 0 .. (MaxEdits + Cardinality(Threads))
  <2>1. IsFiniteSet(Threads) /\ Written \subseteq Threads
    BY BoardServerAssumption DEF Written
  <2>2. Cardinality(Written) <= Cardinality(Threads)
        /\ Cardinality(Written) \in Nat /\ Cardinality(Threads) \in Nat
    BY <2>1, FS_Subset, FS_CardinalityType
  <2>3. store.version \in Nat /\ store.edits \in 0 .. MaxEdits /\ MaxEdits \in Nat
        /\ store.version <= store.edits + Cardinality(Written)
    BY BoardServerAssumption DEF IInv, Typed, StoreRecord, VersionInv
  <2> QED
    BY <2>2, <2>3
<1>2. \A s \in Servers : cache[s].version \in 0 .. store.version /\ cache[s].stale \in BOOLEAN
  BY DEF IInv, Typed, StoreRecord, VersionInv
<1>3. \A t \in Threads : answer[t].version \in 0 .. store.version
  BY DEF IInv, Typed, StoreRecord, Answer, VersionInv
<1>4. \A t \in Threads : request[t].kind \in Kinds \cup {"none"}
  BY DEF IInv, Typed, Request
<1>5. \A s \in Servers : up[s] = "serving" => token[s] # Nobody
  BY DEF IInv, TokenInv
<1>6. /\ store.rulings \in [Lines -> Threads \cup {Nobody}] /\ store.malformed \in BOOLEAN
      /\ store.edits \in 0 .. MaxEdits
  BY DEF IInv, Typed, StoreRecord
<1> QED
  BY <1>1, <1>2, <1>3, <1>4, <1>5, <1>6 DEF TypeOK, IInv, Typed

\* However many servers start at once, with and without --new-token, each serves
\* the token on disk or that of a start a later --new-token replaced, and a start
\* that is refused has minted none.
THEOREM BoardServesOneToken == Spec => []OneTokenServed
<1>1. IInv => OneTokenServed
  BY TypesKept DEF IInv, TokenInv, OneTokenServed, RefusedStartMintsNothing
<1> QED
  BY <1>1, BoardServerInvariant, PTL

\* A page without a refusal shows every ruling answered, and every page held,
\* before it was asked for, however many requests and rebuilds overlap.
THEOREM BoardServesFreshPages == Spec => []ServedPageIsFresh
<1>1. IInv => ServedPageIsFresh
  BY DEF IInv, PageInv
<1> QED
  BY <1>1, BoardServerInvariant, PTL

\* A ruling that was answered as written on the state ref stays on its line.
THEOREM BoardLosesNoRuling == Spec => []NoRulingLost
<1>1. IInv => NoRulingLost
  BY DEF IInv, RulingInv, NoRulingLost
<1> QED
  BY <1>1, BoardServerInvariant, PTL

\* A click's write that lands finds the store without a malformed item: it is
\* taken onto the very store the click had found well-formed.
THEOREM BoardClicksBesideNoMalformedItem == Spec => ClickNotBesideMalformed
<1> DEFINE
  Move == \A t \in Threads :
            (pc[t] = "write" /\ pc'[t] = "discard" /\ store' # store) => ~store.malformed
<1>1. IInv /\ [Next]_vars => [Move]_vars
  <2> SUFFICES ASSUME IInv, Next, NEW t \in Threads,
                      pc[t] = "write", pc'[t] = "discard", store' # store
               PROVE  ~store.malformed
    BY DEF vars
  <2>1. Typed /\ CourseInv /\ RulingInv
    BY DEF IInv
  <2>2. \A s \in Servers : ~StartStep(s) /\ ~Stop(s)
    BY DEF StartStep, BuildFirst, Bind, ResolveToken, LinkToken, Stop
  <2>3. ~EditElsewhere
    BY DEF EditElsewhere, thread
  <2>4. PICK u \in Threads : Arrive(u) \/ ThreadStep(u)
    BY <2>2, <2>3 DEF Next
  <2>5. u = t
    BY <2>1, <2>4, ThreadFrame
  <2>6. WriteItem(t)
    BY <2>4, <2>5 DEF ThreadStep, Arrive, TakeLock, BuildPage, HoldPage, ReadItem, Discard
  <2>7. Writable(t) /\ \E refused \in BOOLEAN : Ruling(t, refused, store.version + 1)
    BY <2>6 DEF WriteItem
  <2>8. request[t].kind = "click"
    BY <2>1, <2>7 DEF Ruling, AfterRule, Typed
  <2>9. CASE storage = "state-ref"
    BY <2>1, <2>7, <2>8, <2>9 DEF Writable, RulingInv
  <2>10. CASE storage # "state-ref"
    BY <2>1, <2>10 DEF RulingInv
  <2> QED
    BY <2>9, <2>10
<1>2. [][Move]_vars => ClickNotBesideMalformed
  BY PTL DEF ClickNotBesideMalformed
<1> QED
  BY <1>1, <1>2, BoardServerInvariant, PTL DEF Spec
=============================================================================
