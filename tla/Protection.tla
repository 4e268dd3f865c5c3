----------------------------- MODULE Protection -----------------------------
(***************************************************************************)
(* aco protect (protect.py): the hook that judges one tool call, before it *)
(* writes, against the live claims, and aco rescope (cli.py), which finds  *)
(* its checkout the same way.  A path is the sequence of its names from    *)
(* the root of the file system.  While a call is judged, other sessions    *)
(* move the claims, switch branches and record another default branch.     *)
(***************************************************************************)
EXTENDS Naturals, Sequences, SequencesExt, FiniteSets

CONSTANTS
    Directories,    \* the real directories
    Links,          \* a function from each symbolic link to a real directory
    Roots,          \* the toplevels of the checkouts
    Repository,     \* the common directory of each
    MainCheckouts,  \* the roots that are no linked worktree
    Branches, NoBranch,
    Repositories,
    Agents, NoAgent,
    Scopes,         \* the scopes a claim may hold: sets of relative paths
    Calls,          \* the hook calls: a tool and the paths it names
    NoCheckout, NoPath,
    MaxMoves        \* bound: what other sessions do for each path of one call

Names == STRING
Paths == Seq(Names)

ASSUME ProtectionAssumption ==
    /\ Roots \subseteq Directories /\ MainCheckouts \subseteq Roots
    /\ Repository \in [Roots -> Repositories]
    /\ \A l \in DOMAIN Links : Links[l] \in Directories
    /\ NoBranch \notin Branches /\ NoAgent \notin Agents
    /\ Scopes \subseteq SUBSET Paths /\ NoPath \notin Paths /\ NoCheckout \notin Paths
    /\ \A c \in Calls : c.paths \in Seq([absolute : BOOLEAN, names : Paths])
    /\ MaxMoves \in Nat

\* A real directory lies in real directories, and no name on the way is ".."
\* or a link.
ASSUME DirectoriesAssumption ==
    \A d \in Directories :
        /\ d \in Paths /\ d \notin DOMAIN Links
        /\ d # <<>> => Front(d) \in Directories /\ Last(d) # ".."

Claim == [agent : Agents, branch : Branches, scope : Scopes]

VARIABLES
    branch,         \* what each checkout's HEAD names
    born,           \* the checkouts whose branch has a commit
    originHead,     \* the default branch each repository has recorded
    claims,         \* the live claims in each repository's state ref
    agent,          \* the session's identity, NoAgent when none resolves
    call, at, pc,   \* the call judged (its tool, and its payload paths: whether
                    \* absolute, and their names, ".." among them), the path it has come to, and where
    judging,        \* the checkout that path was found in
    cache,          \* the snapshots this call has fetched
    verdict,
    stood,          \* history: the claims each repository's ref has held
                    \* since the call began
    judged,         \* history: what each path was judged as: its names, the
                    \* checkout, its branch and the entry
    rescoped,       \* history: the path the last move added to a claim
    moves

world == <<branch, born, originHead, claims>>
vars == <<world, agent, call, at, pc, judging, cache, verdict, stood, judged, rescoped, moves>>

-----------------------------------------------------------------------------
(* Paths.                                                                  *)

Parent(path) == IF path = <<>> THEN path ELSE Front(path)

\* os.path.normpath: ".." takes the name before it away, links unresolved.
Climb(path, name) == IF name = ".." THEN Parent(path) ELSE Append(path, name)

Lexical(names) ==
    LET walk[i \in 0..Len(names)] == IF i = 0 THEN <<>> ELSE Climb(walk[i - 1], names[i])
    IN  walk[Len(names)]

\* Path.resolve: the same, following each link as it is met.
Enter(path, name) ==
    LET next == Climb(path, name) IN IF next \in DOMAIN Links THEN Links[next] ELSE next

Real(names) ==
    LET walk[i \in 0..Len(names)] == IF i = 0 THEN <<>> ELSE Enter(walk[i - 1], names[i])
    IN  walk[Len(names)]

IsDir(path) == Real(path) \in Directories

\* git -C directory rev-parse: the innermost checkout around it.
ResolvePathCheckout(directory) ==
    LET around == {r \in Roots : IsPrefix(r, Real(directory))}
    IN  IF ~IsDir(directory) \/ around = {} THEN NoCheckout
        ELSE CHOOSE r \in around : \A s \in around : Len(s) <= Len(r)

\* relative_scope_entry: the real path under the checkout's toplevel, nothing
\* when it lies elsewhere or is the toplevel itself.
RelativeScopeEntry(path, toplevel) ==
    LET real == Real(path.names)
    IN  IF IsStrictPrefix(toplevel, real)
        THEN SubSeq(real, Len(toplevel) + 1, Len(real)) ELSE NoPath

OrElse(a, b) == IF a # NoCheckout THEN a ELSE b

\* Mutant of CheckoutOf: the parent's checkout is asked first, always.
CheckoutOfParent(path) ==
    LET names == Lexical(path.names)
    IN  OrElse(ResolvePathCheckout(Parent(names)), ResolvePathCheckout(names))

\* The checkout that weighs a path: a directory that is a checkout's own root
\* is that checkout's, every other path is its parent's.
CheckoutOf(path) ==
    LET names == Lexical(path.names)
        self == ResolvePathCheckout(names)
    IN  IF IsDir(names) /\ self = names THEN self
        ELSE OrElse(ResolvePathCheckout(Parent(names)), self)

-----------------------------------------------------------------------------
(* Claims.                                                                 *)

\* Two scope entries meet when one is the other or lies under it.
Meet(left, right) == IsPrefix(left, right) \/ IsPrefix(right, left)
ScopesOverlap(left, right) == \E l \in left, r \in right : Meet(l, r)

OverlappingClaimExists(state, who, b, relative) ==
    \E c \in state : c.agent = who /\ c.branch = b /\ ScopesOverlap(c.scope, {relative})

SessionClaimExists(state, who, b) == \E c \in state : c.agent = who /\ c.branch = b

\* The sentence a miss is denied with, by tool.
MissDenial(tool, state, who, b) ==
    CASE tool = "bash" -> "pattern outside claim scope"
      [] tool = "apply_patch" /\ SessionClaimExists(state, who, b) -> "outside claim scope"
      [] OTHER -> "claim first"

-----------------------------------------------------------------------------
(* One call.                                                               *)

Payload == call.paths[at]
Deny(reason) == verdict' = reason /\ pc' = "done"

\* The next path, or the verdict once there is none.
Continue == IF at < Len(call.paths)
            THEN pc' = "path" /\ at' = at + 1 /\ UNCHANGED verdict
            ELSE pc' = "done" /\ verdict' = "allow" /\ UNCHANGED at

\* judge and its dispatch: what needs no path at all.
Judge ==
    /\ pc = "start"
    /\ LET writes == call.tool \in {"write", "apply_patch"}
       IN  CASE call.tool = "read" -> Deny("allow") /\ UNCHANGED at
             [] call.tool = "unknown" -> Deny("not in the hook tool table") /\ UNCHANGED at
             [] writes /\ call.paths = <<>> -> Deny("path required") /\ UNCHANGED at
             [] writes /\ call.paths # <<>> /\ agent = NoAgent ->
                    Deny("agent identity is required") /\ UNCHANGED at
             [] OTHER -> Continue
    /\ UNCHANGED <<world, agent, call, judging, cache, stood, judged, rescoped, moves>>

\* The path's checkout, and the denials that need nothing else.
ResolveCheckout ==
    /\ pc = "path"
    /\ LET root == CheckoutOf(Payload)
           bash == call.tool = "bash"
       IN  CASE ~Payload.absolute /\ bash -> Continue /\ UNCHANGED judging
             [] ~Payload.absolute /\ ~bash ->
                    Deny("relative payload path") /\ UNCHANGED <<at, judging>>
             [] Payload.absolute /\ root = NoCheckout /\ bash -> Continue /\ UNCHANGED judging
             [] Payload.absolute /\ root = NoCheckout /\ ~bash ->
                    Deny("not in a repository") /\ UNCHANGED <<at, judging>>
             [] Payload.absolute /\ root # NoCheckout /\ root \notin born ->
                    Deny("no commit on this branch") /\ UNCHANGED <<at, judging>>
             [] OTHER -> /\ judging' = [root |-> root, branch |-> branch[root]]
                         /\ pc' = "default" /\ UNCHANGED <<at, verdict>>
    /\ UNCHANGED <<world, agent, call, cache, stood, judged, rescoped, moves>>

\* The default branch, read after the checkout was, and the path's entry.
RefuseMain ==
    /\ pc = "default"
    /\ LET default == originHead[Repository[judging.root]]
       IN  CASE judging.root \in MainCheckouts -> Deny("not main")
             [] judging.root \notin MainCheckouts /\ default = NoBranch ->
                    Deny("default branch unknown")
             [] judging.root \notin MainCheckouts /\ default = judging.branch -> Deny("not main")
             [] OTHER -> IF RelativeScopeEntry(Payload, judging.root) = NoPath
                         THEN Deny("path required") ELSE pc' = "state" /\ UNCHANGED verdict
    /\ UNCHANGED <<world, agent, call, at, judging, cache, stood, judged, rescoped, moves>>

\* Mutant of CacheKey: a snapshot for each worktree.
CacheToplevel(root) == root

\* Snapshots are kept by the one fact all worktrees of a repository share.
CacheKey(root) == Repository[root]

\* The live snapshot, fetched at most once in a call for each repository.  The
\* fetch may fail, the ref be missing, or the storage pin not be trusted.
CachedClaimState ==
    /\ pc = "state"
    /\ \/ /\ CacheKey(judging.root) \notin DOMAIN cache
          /\ \E outcome \in {"fetched", "cannot reach refs/aco/state", "pin not tracked"} :
                IF outcome = "fetched"
                THEN /\ cache' = [k \in DOMAIN cache \cup {CacheKey(judging.root)} |->
                                     IF k \in DOMAIN cache THEN cache[k]
                                     ELSE claims[Repository[judging.root]]]
                     /\ pc' = "scope" /\ UNCHANGED verdict
                ELSE Deny(outcome) /\ UNCHANGED cache
       \/ /\ CacheKey(judging.root) \in DOMAIN cache
          /\ pc' = "scope" /\ UNCHANGED <<cache, verdict>>
    /\ UNCHANGED <<world, agent, call, at, judging, stood, judged, rescoped, moves>>

\* A Bash call resolves its identity only here, with a snapshot in hand.
ScopeDenial ==
    /\ pc = "scope"
    /\ LET state == cache[CacheKey(judging.root)]
           relative == RelativeScopeEntry(Payload, judging.root)
       IN  /\ judged' = Append(judged, [names |-> Payload.names, root |-> judging.root,
                                        branch |-> judging.branch, entry |-> relative])
           /\ IF agent = NoAgent THEN Deny("agent identity is required") /\ UNCHANGED at
              ELSE IF OverlappingClaimExists(state, agent, judging.branch, relative)
              THEN Continue
              ELSE Deny(MissDenial(call.tool, state, agent, judging.branch)) /\ UNCHANGED at
    /\ UNCHANGED <<world, agent, call, judging, cache, stood, rescoped, moves>>

-----------------------------------------------------------------------------
(* Meanwhile.                                                              *)

Move == moves < MaxMoves * Len(call.paths) /\ moves' = moves + 1 /\ pc # "done"
CallUnchanged == UNCHANGED <<agent, call, at, pc, judging, cache, verdict, judged>>

StoreHolds(repository, state) ==
    /\ claims' = [claims EXCEPT ![repository] = state]
    /\ stood' = [stood EXCEPT ![repository] = @ \cup {state}]

\* Another command of some session claims, rescopes or releases.
StoreMoves ==
    /\ Move
    /\ \E r \in Repositories, c \in Claim :
          StoreHolds(r, IF c \in claims[r] THEN claims[r] \ {c}
                        ELSE {d \in claims[r] : d.branch # c.branch} \cup {c})
    /\ rescoped' = NoPath
    /\ UNCHANGED <<branch, born, originHead>> /\ CallUnchanged

SwitchBranch ==
    /\ Move
    /\ \E r \in Roots \ MainCheckouts, b \in Branches :
          /\ \A s \in Roots : Repository[s] = Repository[r] => branch[s] # b
          /\ branch' = [branch EXCEPT ![r] = b] /\ born' = born \cup {r}
    /\ rescoped' = NoPath
    /\ UNCHANGED <<originHead, claims, stood>> /\ CallUnchanged

RecordOriginHead ==
    /\ Move
    /\ \E r \in Repositories, b \in Branches \cup {NoBranch} :
          b # originHead[r] /\ originHead' = [originHead EXCEPT ![r] = b]
    /\ rescoped' = NoPath
    /\ UNCHANGED <<branch, born, claims, stood>> /\ CallUnchanged

\* Mutant of RescopeCheckout: the path itself is asked, not its parent.
RescopeCheckoutOfPath(path) == ResolvePathCheckout(path.names)

\* aco rescope --add path, from anywhere: the checkout is the one around the
\* path's parent, and the claim the session's own on its branch.
RescopeCheckout(path) == ResolvePathCheckout(Parent(path.names))

RescopeAdmits(path, root) ==
    /\ path.absolute /\ root # NoCheckout
    /\ root \in born /\ root \notin MainCheckouts
    /\ originHead[Repository[root]] \notin {NoBranch, branch[root]}
    /\ RelativeScopeEntry(path, root) # NoPath

Rescope(path) ==
    /\ Move /\ agent # NoAgent
    /\ LET root == RescopeCheckout(path)
           entry == RelativeScopeEntry(path, root)
       IN  /\ RescopeAdmits(path, root)
           /\ \E c \in claims[Repository[root]] :
                 LET wider == [c EXCEPT !.scope = @ \cup {entry}]
                 IN  /\ c.agent = agent /\ c.branch = branch[root]
                     /\ entry \notin c.scope
                     /\ StoreHolds(Repository[root],
                                   (claims[Repository[root]] \ {c}) \cup {wider})
    /\ rescoped' = path
    /\ UNCHANGED <<branch, born, originHead>> /\ CallUnchanged

-----------------------------------------------------------------------------
Next == \/ Judge \/ ResolveCheckout \/ RefuseMain \/ CachedClaimState \/ ScopeDenial
        \/ StoreMoves \/ SwitchBranch \/ RecordOriginHead
        \/ \E i \in DOMAIN call.paths : Rescope(call.paths[i])

\* A call begins in any world.
CallBegins ==
    /\ branch \in [Roots -> Branches] /\ born \subseteq Roots
    /\ originHead \in [Repositories -> Branches \cup {NoBranch}]
    /\ claims \in [Repositories -> SUBSET [agent : Agents, branch : Branches, scope : SUBSET Paths]]
    /\ agent \in Agents \cup {NoAgent} /\ call \in Calls
    /\ at = 0 /\ pc = "start"
    /\ judging = NoCheckout /\ cache = <<>> /\ verdict = "none"
    /\ stood = [r \in Repositories |-> {claims[r]}]
    /\ judged = <<>> /\ rescoped = NoPath /\ moves = 0

CallSpec == CallBegins /\ [][Next]_vars

-----------------------------------------------------------------------------
(* Properties.                                                             *)

\* A patch is judged against one state of each repository: when the call is
\* allowed, some set of claims the ref really held during it meets every one
\* of its paths in that repository, whatever worktrees they lie in.  A claim
\* narrowed on one branch while another widened can let no patch through that
\* was never covered as a whole.
PatchFitsOneState ==
    verdict = "allow" =>
        \A r \in Repositories : \E state \in stood[r] :
            \A i \in DOMAIN judged :
                Repository[judged[i].root] = r =>
                OverlappingClaimExists(state, agent, judged[i].branch, judged[i].entry)

\* What a path is spelled like when its lexical reading leads where it leads,
\* its last name is no link, and a checkout's root is spelled by its real name.
PlainlySpelled(names) ==
    LET lexical == Lexical(names)
    IN  /\ Real(names) = Real(lexical)
        /\ Real(lexical) = Append(Real(Parent(lexical)), Last(lexical))
        /\ Real(lexical) \in Roots => Real(lexical) = lexical

\* The checkout an allowed path was judged by is the innermost one around
\* where the write really lands, through links, ".." and nested checkouts,
\* and the path is never that checkout's own root.
InnermostCheckoutJudges ==
    verdict = "allow" =>
        \A i \in DOMAIN judged :
            LET lands == judged[i].root \o judged[i].entry
            IN  /\ lands = Real(judged[i].names) /\ judged[i].entry # <<>>
                /\ PlainlySpelled(judged[i].names) =>
                       \A s \in Roots : IsPrefix(s, lands) => Len(s) <= Len(judged[i].root)

\* rescope and protect find the same checkout: what a session has just added
\* to its claim by its path it may write, unless the path is a checkout's own
\* root or climbs with ".." out of a link, which only protect reads lexically.
Allowed(path) ==
    LET root == CheckoutOf(path)
    IN  /\ RescopeAdmits(path, root)
        /\ OverlappingClaimExists(claims[Repository[root]], agent, branch[root],
                                  RelativeScopeEntry(path, root))

LexicallyRead(names) ==
    /\ Real(names) = Real(Lexical(names))
    /\ Real(Parent(names)) = Real(Parent(Lexical(names)))

RescopedPathIsWritable ==
    (/\ rescoped # NoPath /\ Real(rescoped.names) \notin Roots
     /\ LexicallyRead(rescoped.names)) => Allowed(rescoped)

\* An allowed path lies under an entry of a live claim's scope: the hook's
\* specification speaks of a live claim covering the path.  Does not hold: a
\* directory that merely holds a claimed path meets the claim as well.
AllowedPathIsCovered ==
    verdict = "allow" =>
        \A i \in DOMAIN judged : \E r \in Repositories : \E state \in stood[r] :
            \E c \in state : \E entry \in c.scope : IsPrefix(entry, judged[i].entry)

\* A nested checkout's own root is judged by that checkout, never by an outer
\* one.  Does not hold: a root named through a link is not recognised as one,
\* and the checkout around its parent judges it.
NestedRootIsItsOwn ==
    verdict = "allow" => \A i \in DOMAIN judged : Real(judged[i].names) \notin Roots
=============================================================================
