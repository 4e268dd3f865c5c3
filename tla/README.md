# agent-claim in TLA+

`aco` coordinates coding agents that work on one repository. Agents claim
issues, lanes and numbered resources; the claims live in one git ref,
`refs/aco/state`, of the canonical remote. This directory holds TLA+ modules of
the parts of `aco` whose correctness depends on interleavings, lost answers and
restarts, the TLC configurations that check them, and TLAPS proofs.

All paths below are relative to `src/src/agent_coordination/` unless they start
with `specs/`, `tests/` or `README`.

## 1. The system

There is no server of `aco`'s own. Every command is a process that reads the
ref, decides, commits and pushes; the git server's update of one ref is the
only thing that orders two commands. Around that core sit a board server, a
workspace runner that owns tmux sessions, a hook that judges file writes, and
the commands that act on GitHub.

| Component | Source | State it keeps | Operations |
|---|---|---|---|
| Claim ledger | `protocol.py` | live claims, consumed claim ids, occupied resource numbers, work items | `apply` of claim, rescope, release, item write, landing |
| State-ref store | `store.py` | the remote ref, a lineage stamp per worktree | `fetch_state`, `commit_transition`, `push_tree` |
| Bootstrap and reset | `store.py`, `cli.py` | the same | `bootstrap`, `peek_state_for_reset`, `delete_state_ref`, `clear_lineage_stamps` |
| Claim lifecycle | `store.py` | none (a walk over commits) | `claim_lifecycle` |
| Claim commands | `cli.py` | none | claim, rescope, release, release --landed |
| State-ref board | `state_board.py` | items in the ref | create, update, close, relate, land |
| Item commands | `cli.py`, `github.py`, `state_board.py` | items, parents and slice rows, on GitHub or in the ref | cut, item new, edit, close |
| GitHub landing | `cli.py`, `github.py`, `forge.py` | pull request, issue, branches on GitHub | land, release --merged |
| Workspace | `workspace.py`, `terminal.py`, `process.py`, `providers.py` | project mapping, runtime lock, tmux sessions and their metadata, login record | register, run, login recovery |
| Board server | `board_serve.py`, `cli.py`, `workspace.py` | the held page, the token file | GET page, POST ruling, token mint |
| Write protection | `protect.py`, `hook_input.py` | one claim state per repository and call | name the paths of a call, judge a write |
| Worktrees | `checkout.py`, `cli.py` | git worktrees and branches | start, cleanup |
| Board classification | `board.py`, `items.py`, `metrics.py`, `cli.py` | none (pure) | classify, order, next, check, measure |
| Board rendering, body grammar | `board_html.py`, `body.py` | none (pure) | render, parse, edit |

How they interact: every writing command goes through `commit_transition`,
whose only shared objects are the remote ref and the stamp file of the worktree
it runs in. The state-ref board writes its items through the same loop, so that
a landing ends a claim and closes an item in one commit. `land` and
`release --merged` combine GitHub calls with one such transition. The board
server and the protection hook only read the ref. The workspace runner is
independent of the ref; it serialises its own runs with a file lock.

### What is hard

* *A lost answer.* A push whose connection breaks may have landed, may land
  later, or may never land. The command fetches again and looks for its own
  operation id between the tip it pushed on and the tip it finds.
* *Re-application.* What the command decided was decided on an older state;
  `apply` judges it again on the refreshed one. Anything computed before the loop
  and not judged again is stale (a rescope's absolute scope, an item's new body).
* *Records that outlive claims.* A claim id and a resource number must stay
  used after the claim is gone, so the ref carries them for ever.
* *A ref that may vanish.* Reset deletes the ref other commands work on, and
  bootstrap creates it, possibly twice at once.
* *Stamps.* Each worktree remembers the last tip it saw, to detect a rewritten
  ref. A stamp that is wrong turns every later command there into a refusal.
* *A bounded loop.* It must end under permanent contention, and must say
  truthfully whether others were faster or the server kept refusing.
* *Several external writes in a row* (GitHub landing, tmux windows, worktree
  removal) with a crash between any two.

`PROJECT.json` lists these as hazards, each at its line, with the properties
that would catch it going wrong, or the reason none does yet.

### What makes each component correct

* Ledger: one live claim per issue or lane and per claim id; identities and
  resource numbers are single-use for ever; the records of both are exact.
* Store: the loop is an atomic ledger. An operation lands at most once, a
  reported success is on the ref, a reported refusal is not and never will be;
  no lost item write; no false rewrite alarm; every command ends and blames the
  right cause.
* Bootstrap and reset: only a bootstrap creates the ref; a reset never deletes a
  live claim and leaves its repository usable.
* Lifecycle: the walk reads back the claims the state has.
* Landing: only a head whose checks were read is merged; a claim ends as merged
  only when the trunk names its item and the item is closed; a rerun completes;
  no commit that exists in one clone alone is lost.
* Item commands: a row leaves its container only when a child stands for it;
  what a fault interrupted, the same command line finishes.
* Workspace: at most one provider process per conversation and one viewer;
  what a killed run leaves behind is recognised by the next; nothing stays pending.
* Board server: a page served after a ruling was answered shows that ruling; the
  token served is the one on disk.
* Protection: the files a call writes are the ones judged, each by the checkout
  that holds it, all of a patch against one state.
* Worktrees: a start takes no other claim's checkout and can be run again; a
  cleanup never deletes unlanded work.
* Board: its readers agree, and those who follow it finish.

## 2. Modules

| Module | Models | Variables | Depends on |
|---|---|---|---|
| `ClaimLedger` | `protocol.apply` as operators on states and intents | none | |
| `Ledger` | what the ref promises: each operation atomic and at most once | `state`, `applied`, `history` | `ClaimLedger` |
| `ClaimLedgerProofs` | what `apply` makes of a state, field by field | | `ClaimLedger` |
| `LedgerProofs` | theorems about `Ledger` | | `Ledger`, `ClaimLedgerProofs` |
| `ClaimLifecycle` | the walk over commit trailers | none | |
| `StateRefStore` | the loop over git, with the commands that feed it | `remote`, `wire`, `stamp`, and per process its label and locals | `ClaimLedger`, `ClaimLifecycle`; implements `Ledger` |
| `StateRefReset` | bootstrap and reset beside those commands | adds `toClear` | `StateRefStore` |
| `StateRefProofs` | theorems about the loop, that it implements `Ledger`, and about bootstrap and reset | | `StateRefReset`, `ClaimLedgerProofs`, `LedgerProofs` |
| `Landing` | land and `release --merged` against GitHub, with faults and reruns, and the worktree cleanup | the claim state, pull request, issue, lane, trunk, and per run its label and locals | `ClaimLedger` |
| `LandingProofs` | theorems about `Landing` | | `Landing`, `ClaimLedgerProofs` |
| `BoardServer` | servers that start over one token file, the held page, requests and rulings | the item and the store, the token file, per server its label, token, page and lock, per request its label and locals | |
| `BoardServerProofs` | theorems about `BoardServer` | | `BoardServer` |
| `Console` | the tmux session of each project, its windows, viewer attempts and their jobs | `session`, `viewer`, `native`, `changes` | |
| `Workspace` | register, run, login recovery and the launcher, under three file locks | adds the mapping, launcher, locks, login record, and per command its label and locals | `Console` |
| `WorkspaceProofs` | theorems about `Workspace` | | `Workspace` |
| `Protection` | the judgement of one call path by path, and the checkout rescope finds | branches, claims, the call, the cache, the verdict | |
| `ProtectionProofs` | theorems about `Protection` | | `Protection` |
| `PatchText` | the patch grammar, a line a step | the lines read, the parser's state | |
| `CommandText` | the walk over a command's words, a word a step | the words, the walker's fields | |
| `LaneStart` | start: worktree, branch and claim | claim state, items, what is at each path, branches, and per run its label and locals | `ClaimLedger` |
| `LaneStartProofs` | theorems about `LaneStart` | | `LaneStart`, `ClaimLedgerProofs` |
| `ItemTree` | cut, item new, edit and close on both storages | the items, live claims, and per run its label and what it read | |
| `Board` | what the board makes of what was read, and what its readers decide | none (operators) | |
| `Dispatch` | workers who do what next tells them, people who tend the items | items, pull requests, trunk, claims, claim history, workers | `Board` |
| `MC...` | small instances | | |

### ClaimLedger and Ledger

A `ClaimState` is what one commit of the ref holds: the live claims, the
consumed claim ids, the occupied resource numbers and the items. `tip`, the
commit id in the code, is the height of the commit in the ref's history; the
history is linear, so the height names the commit, and 0 stands for no ref.
`Admits` is the conjunction of the checks `apply` makes before it raises,
`Apply` what it returns, and `CommittedState` the state of the commit that
`_write_incremental_state_tree` makes of it. The claim mapping of the code is
keyed by issue or lane; here it is a set, and `PutClaim` and `DropClaim` work
through the key as the mapping does, so that an insertion *would* displace
another's claim if `apply` let it: `NoDisplacement` says it does not.
`base` and `whole_reason`, which no transition compares, are left out, and so
are TOML and tree encodings.

`Ledger` applies intents one at a time. `history` is a history variable: every
claim as it was opened. `applied` holds the operations that took effect.

### StateRefStore

One process is one command invocation and mints one operation id. Its label
`pc` follows the code:

| Label | Where the code is |
|---|---|
| `read`, `lineage`, `stamp` | the three steps of `fetch_state`; `purpose` is the caller it returns to |
| `items` | the item snapshot of a board command (`state_board.py`) |
| `observe` | the command's own checks and the intent it builds (`cli.py`) |
| `transition` | the first fetch of `commit_transition` |
| `apply` | `apply` on the observed state, then commit and push |
| `sent` | the push is under way |
| `search` | the fetch after a push that did not observably land: own operation, or count and retry |
| `landed` | the push answered: stamp and report |

A commit is the sequence of entries of its history, so it names its parent as a
commit id does and an ancestor is a prefix. `wire` holds the pushes the server
has received and not processed. `AcceptPush` and `AcceptLatePush` are the
server's update when the ref still is where the client saw it; `RejectPush`,
`RefusePush` and `LoseConnection` are the three ways a push does not
observably land: the ref moved, the server refused for another reason, the
answer was lost (and the push may still be on the wire). `Crash` ends a process
anywhere, which also stands for a git child that failed or ran into its time
limit.

The probe and the fetch of one `fetch_state` are one step. A probe that finds no ref
fetches nothing, and the step is the probe; otherwise it is the fetch: the state, the
lineage check and the stamp are of the tip that is fetched, whatever the probe saw,
and a ref deleted between the two makes the fetch fail, which is a `Crash`. The anchor
ref and the local copy of the state ref, which only keep objects from being collected,
are left out. Forge
checks of a claim's target are a nondeterministic refusal. Two commands in *one*
worktree are not serialised between fetch, check and stamp; the source accepts
that as issue #418, and every process of the runs has a worktree of its own.

### StateRefReset

Adds the two commands that may find the ref absent. A bootstrap that finds the
ref returns; one that does not commits the empty tree through the same
`push_tree` loop. A reset peeks at the claims without a stamp, deletes under a
lease on the tip it peeked at (the answer may be lost, the deletion may arrive
late), asks the server if that failed, deletes the stamps of its repository's
worktrees one after the other, and bootstraps. Writing the export bundle is a
step that can only fail, which `Crash` covers; the unreadable-schema branch and
`--no-export` are left out.

### ClaimLifecycle

The walk as a function of the number of `(kind, claim id)` transitions read. Trailer text and dates
are abstracted; `StateRefStore` feeds it the intents of the commits on the ref.

### Landing

One run is one `aco land` or `aco release --merged`. The claim state is
`ClaimLedger`'s and takes the release in one step, as `Ledger` has it and
`StateRefStore` implements it. The lane's commits are numbered, and a branch is
the number of its tip: the lane has one in the clone, one on GitHub and a
remote-tracking one, and the trunk holds the lane up to the merged head.

| Label | Where the code is |
|---|---|
| `landing` | `_cmd_land` reads the pull request: merged means a rerun |
| `readiness`, `item`, `claims` | the reads of `_land_preflight`, in its order |
| `merge`, `branch`, `forward`, `route` | the merge pinned to the head that was read, the branch deletion, the fast-forward, and the item the release is for |
| `resolve` | `_release_transition` reads the ref and resolves the claim |
| `verify`, `comment`, `post`, `close` | `_verify_merged_release` and `close_landed_item` |
| `release`, `report` | the transition and the board read after it |
| `merged`, `dirty`, `remove`, `delete` | `cleanup_landed_worktree` and its two git writes |

`Fail` is a call that fails without an effect, or a killed run; `Effect` adds
the answer that is lost after an effect. A failure before the merge is a refusal
and one after it land's `follow-up incomplete`; a failure in the cleanup keeps
what is left and the release stands. The holder edits, commits and pushes in the
lane's worktree at any time, may give the claim up and claim the issue on another
branch (`LookToClaim` is the forge's answer that the issue is open, `ClaimAgain`
the transition, and the issue may be closed and released in between); somebody may merge on the web page, with or without the trailer (a
squash merge, whose trunk commit never contains the lane's tip, is left out); GitHub
may close the issue for its closing reference. Green checks, mergeability,
parent and closing rules and an unclean main checkout are nondeterministic
refusals. GitHub and the holder are external and modelled as the code relies on
them. A pull request whose base is changed between preflight and merge is left
out: the merge does not pin it.

### BoardServer

The store is one item's lines, each with the ruling that stands on it, and the
rest of what a page shows, which may hold a malformed item; `version` counts its
changes, and a page is the version it was built from. The storage pin is chosen
in the initial state: the state ref compares before it writes (`Writable`, one
step here because `StateRefStore` shows that the loop is one), GitHub takes any
body.

| Label | Where the code is |
|---|---|
| `build`, `bind`, `token`, `link` (server) | `_board_server` builds the first page, `board_serve.start` binds, `board_token` reads or replaces the file, `_first_board_token` publishes a mint |
| `lock`, `build`, `hold` (request) | `_ServedBoardCache.held`: the lock, the read of the store, the page that is held |
| `read`, `write`, `discard` (ruling) | `rule_item`'s read, its write, and the click's `discard` |

`promised`, `refusedAt` and `floor` are history variables: what a server has shown
or refused, and what of that a request could know when it arrived. A request
that is refused for its path, token or length changes nothing and is left out,
as are the checks on the token file's mode and owner; a start that fails there,
or is killed, is `Stop`. The page's several reads of GitHub count as one: what
is shown is at least what the store held when the rebuild began, and that is all
the property compares.

### Console and Workspace

A session is a function from tmux's window numbers to what is in them: the setup
shell, a provider (a *head*), or a dead pane; `current` is the window in front. A
session without windows is one that is not there.
`attempt` is the session option that holds a viewer attempt, a state and the
token of one `open_viewer`; `Swap` is tmux's `if-shell -F`, a compare and a set in
one command. `viewer` follows one token through the desktop's terminal: launched,
attached, confirmed, ended, and the sweep that its job ends with. Both are
external, modelled from the commands `terminal.py` gives tmux.

| Label | Where the code is |
|---|---|
| `lock mapping`, `write mapping`, `registered` | `register`: the live handoff is validated before the lock, the admission under it |
| `load`, `lock runtime` | `run_projects`: the records are read before the lock and worked off (`todo`) under it |
| `look`, `panes`, `consume`, `own`, `create`, `await` | `_run_project` and the inspect of a target: absent, foreign, running, dead, or a setup shell; the check that no process outside tmux holds the conversation |
| `window`, `provider`, `select`, `discard` | `launch`: new-window, select-window, kill-window |
| `open`, `unqueue` | `open_viewer`: the attempt is put on the session before the terminal is started, and taken off if that fails |
| `BeginLogin`, `complete` | `run_login_recovery`: the running and the completed record, under a lock held between them |

`Kill` ends a command anywhere and frees its locks, `CommandFails` makes one tmux
command fail; a session vanishes only by a reboot, and sessions of other programs on the
private socket, provider command lines and environments are left out. The
launcher file is written in one step. `interrupted` and `changes.opened` count the
two causes a second head may have, and `SecondHeadHasCause` says there is no third.

### Protection, PatchText, CommandText

A path is the sequence of its names; `Directories` are real, `Links` point to one,
`Roots` are the checkouts. A judgement is the loop over the payload's paths: the
checkout that holds the path (`CheckoutOf`), its branch, the claim state from the
cache or the ref, and the verdict. Between two paths other sessions claim,
rescope, release, switch branches, move the default branch. `stood` is a history
variable, the claim states each repository has had during the call. `rescope`
finds a checkout from the same path (`RescopeCheckout`).

`protect` removes `..` from a path before it looks at the links (`Lexical`, which is
`os.path.normpath`), `rescope` and the entry in the claim follow each link as it is
met (`Real`, `Path.resolve`). `InnermostCheckoutJudges` says of every allowed path
that it really lies in the checkout it was judged by and is not its root; that no
checkout lies between, it says of a path that is `PlainlySpelled`: it leads where
its lexical reading leads, its last name is no link, and a checkout's root is
spelled by its real name. `RescopedPathIsWritable` speaks of a path that is
`LexicallyRead`, and of no checkout's own root. TLC finds a counterexample in the
run when a condition of `PlainlySpelled`, or that on the path's parent in
`LexicallyRead`, is taken away; a root behind a link is a finding
(`NestedRootIsItsOwn`).

`PatchText` reads a patch line by line, a line being its mark once trimmed and the
margin before it; every header names a file of its own. `CommandText` is given
the words and operators of a command, with the flag whether the shell would expand
one; the character scanner that produces them is not modelled. Its scripts carry
what each command writes by its own manual, and `RanList` follows a shell's
subshells and directories independently of the walker.

### LaneStart

`place` is what is at each worktree path: nothing, a file, another repository, a
worktree of this one with its branch. A start reads the item, computes branch and
path, resumes or creates the worktree, reads the claims, and either reports its
own claim or reads the item again in the worktree and claims. The claim takes
effect in one step, as `Ledger` has it. `upsets` records what failed
and what people did, so that `UndisturbedStartSucceeds` can say of a start nobody
disturbed that it succeeds. A start of an item whose block does not parse is
refused whatever scope it gives (`SliceRulesPass`). A branch switched by hand in
the middle of a start is left out, and so is the comparison of the base commit;
the width gate is a nondeterministic refusal. Two observations: a `git worktree
add` that is itself cut off leaves a branch or directory that every later start
refuses until somebody removes it; and a title changed between a start and its
rerun gives the rerun another branch, which is refused.

### ItemTree

Both storages are one module: `storage` is chosen in the initial state and the
steps differ where the code's stores do. On GitHub each read and write is a call of
its own, a body replaces whatever is there, and a child is created before it is
related; on the state ref a command reads the store once, a write compares what it
was composed over, and a child carries its parent. Several reads of one check (the
children, the parent, the orphans) are one step at the last of them. `cutOff`,
`created` and `met` are history variables. `RowsBecomeChildren` counts of the
children of one row those that were created with their type: one GitHub made without
it is not adopted before somebody sets the type, and when another cut has linked a
child of its own and that was closed by then, a third cut adopts the first. A write fails, takes effect without an
answer, or is the last before a kill. Two rows of one title: cutting the second
adopts the first one's child, as CUT-13 says. On the state ref `item new --parent`
accepts any existing item.

### Board and Dispatch

`Board` is `board.py` with the parts of `cli.py`, `items.py` and `metrics.py` that
decide from it: classification of pull requests and trunk commits, landings,
dependencies, contract and stage, rank, next's action, parallel set and closes,
claim's precedence checks, check's rules and the measurements. A text is the
record of what its patterns find in it, a scope the set of files it covers.

In `Dispatch` a worker asks `next` and does what it says with a command that
builds the board anew and may refuse: claim, open a pull request, check, merge,
release; cut a row; close a container. A pull request closes its item, and its
parent if the author thinks so; a refused check makes the author think again.
People complete the bodies of new children, write a `Next` line, reopen an item;
a merge commit may lack its trailer. A board is read in one step, although the
command's reads are several; the refusal of a summary that disagrees with the list
of children (`board.py:1368`) is therefore never met and left out, as are
state-ref landings, idle and age, ruling rows, container sums and stale views.
Closing a container is a person who looks once more before closing. A reopened
item whose lane is still merged stays under `recovery`, from where it is closed
again.

## 3. Runs

| Run | Checks | Expect | Distinct states |
|---|---|---|---|
| `Ledger` | exclusion, single use, exact records, claim identity, no displacement | pass | about 10,700 |
| `StateRefStore` | the loop implements `Ledger`; verdicts and tallies, recorded history and lifecycle, item writes, lineage | pass | about 603,000 |
| `StoreEnds` | every command ends (liveness) | pass | about 63,000 |
| `StateRefReset` | reset spares live claims, rewrites nothing and leaves stamps usable; a lone bootstrap creates the ref | pass | about 42,600 |
| `Landing` | merged heads were checked, merged releases are landed and commented once, no unpushed commit lost, a faultless land closes the issue and ends the lane's claim | pass | about 2,342,000 |
| `BoardServer` | pages as fresh as what was answered, no ruling lost and none written beside a malformed item on the state ref, one token, every request ends | pass | about 680,000 |
| `Workspace` | one provider per conversation but for two named causes, attempts and files that tell the truth, nothing pending for ever (liveness) | pass | about 269,000 |
| `Hook` | a call's text names what it writes; each path judged by its own checkout, a patch by one state; rescope and protect agree | pass | about 355,000 |
| `LaneStart` | nobody else's checkout or claim is taken, success names one's own claim, an undisturbed start succeeds | pass | about 1,290,000 |
| `ItemTree` | rows become children, an identical rerun finishes, a cut takes off its own row only (on the state ref) | pass | about 172,000 |
| `Dispatch` | the readers of the board agree, each item counts once, every item lands (liveness) | pass | about 58,000 |
| `RescopeRace` | a rescope adds and drops only what it names | violation | |

A property that is a conjunction of named ones (`VerdictsAreTrue`,
`HistoryIsTrue`, `HistoryHasOneStart`, `FollowUpIsSound`, `OneTokenServed`,
`FilesTellTruth`, `NamedPathsAreWritten`, `ReadersAgree`) states one matter; its
conjuncts carry the comments, and the type invariant of its module where that
is not proved.

**Bounds.** `Ledger`: two keys, two claim ids, a claimant and a coordinator, one
resource with an automatic and a named number, one item with two contents, five
operations. Five suffice for the longest chain the invariants need (claim,
rescope, release, claim again under an old id or number, replay); operations are
interchangeable, so symmetry on them is sound for these safety properties.

`StateRefStore`: six scenarios of three or four processes, chosen in the
initial state. *contention*: two claims of one issue and one that draws from the
same resource; *session*: claim, rescope against a coordinator's release,
second claim of the freed issue; *items*: write, claim, then a landing against a
whole-store write; *edits*: three item writes at once; *replay*: an interrupted
claim run again under its own id, and a release; *rescopes*: two rescopes at
once. `MaxAttempts` is 3 (32 in the code, 8 for a bootstrap): the first attempt,
one after a lost race and one after a fault, and one may still be exhausted.
`MaxFaults` is 1: one lost connection or causeless refusal in a run, at any
place, on top of every ordinary rejection. With two faults, or a fourth busy
process, nothing new can happen to one operation: each attempt sees either a
moved tip or a still one, both of which three attempts exercise in every order.
Commands that belong to one session run one after the other (`after`).

`StoreEnds`: two competing claims, faults uncounted (`StuckServer`), so the
server may refuse for ever.

`StateRefReset`: a first bootstrap beside two claims, and a reset beside a claim
from another clone followed by a claim in a sibling worktree.

`Landing`: an issue with its holder and a coordinator, two commits on the lane
(one that was checked and one that moves the head), two lands and a release from
inside the worktree, of which two start: a land and its rerun, two lands that
overlap, or a release that overlaps a land. Two runs suffice because every step
that can be disturbed relates one run to what a single other actor did since its
last read. The lane's upstream is the trunk (as `git worktree add` leaves it) or
the lane (`push -u`), which is what `git branch -d` compares with; two lands that
overlap are tried with the lane.

`BoardServer`: three starts at once, two on one port of which one brings
`--new-token`; and one server with a reload, a click and a third request that is
a page, a click or `aco rule`, on two lines of one item, beside two changes by
others, which suffice to make an item malformed and repair it. The freshness of a
page relates one rebuild, one ruling and one later page, and the loss of a ruling
two rulings. Both storage pins are tried.

`Workspace`: six scenarios of one or two projects: two runs and a login of a
stopped handoff; two runs of a stopped and of a live one while people open and
close windows; three registrations, two of one key, with the launcher and the login
it starts; two logins over two projects; a registration beside a run. One fault
(a kill or a failed tmux command) in a scenario. Every property relates two
commands of one project and one of tmux's jobs.

`Hook`: two worktrees of one repository, its main checkout, a worktree of another
repository nested in the first, links from one worktree into another, into the nested one from
inside and outside, and to a worktree's root; calls of up to two paths, and one
change by others before each. Patches of five lines over
every kind of line; commands of up to three list items of one or two stages, groups
and every command form the hook's specification lists. Longer texts repeat these:
the patch parser keeps one flag between lines and the walker one directory, one
stack of groups and two flags.

`LaneStart`: two starts of one item by agents whose names begin alike or not, one
after the other or at once, one move by people and one fault; every kind of
stranger at the path, every stray branch and odd item is met by a start and its
rerun.

`ItemTree`: a container of two rows, ten trees it may stand in, three runs: one
command line three times, or two cuts beside one other command; three faults and
two moves of other hands (three moves with four faults, four with five and two
with six were tried too, with the same answer). The third run is the one that must finish what two could not.

`Dispatch`: two workers on three worlds (a container with two children that may
land together; one of two rows beside a blocked task and a bug; three tasks that
partly overlap), two spare numbers for children, one mishap (a reopened item or a
merge without trailer).

**Deadlock.** `CHECK_DEADLOCK FALSE` everywhere: every command, call and text ends,
in `Dispatch` every item may have landed, and the system stops then.

**Fairness.** `StoreEnds`, `BoardServer`, `Workspace` and `Dispatch` need it. `ProcessFairness` is weak fairness of
each process's own step, including the server's answer to the push the process
is waiting for: every git child runs under a time limit (`process.run_captured`),
so a process that waits is answered or gives up. Nothing is assumed of a push
nobody waits for, nor that a push is ever accepted. In `BoardServer` each request
thread is weakly fair (`FairSpec`): the scheduler runs every thread, its git and
`gh` children are under the same time limits, and the lock is only ever waited for
by finitely many requests. Nothing is assumed of arrivals, starts or other
writers. In `Workspace`, `Progress` is every step of a run that was started, of
the setup shell and of a viewer's owner script, weakly fair together (behaviours
are finite, so that this is fairness of each): tmux commands run under a time limit,
the owner script is a job of the tmux server, and the terminal it waits for attaches
or ends. Nothing is assumed of people, of starts, or of consoles being closed. In `Dispatch` each worker goes
on working while `next` has something for somebody (`CanStep`), and bodies and
`Next` lines that stand in the way get written in the end; merging, reopening and
what the authors choose is not constrained. Its weak fairness is written out as
`[]<>~CanStep \/ []<><<step>>_vars`, since the action's `ENABLED` would build the
board a dozen times over in every state; `CanStep` and `CanWrite` are what enables
the steps.

**Mutants.** Every property of a passing run is paired with a plausible bug in a
mapped definition (`... Mutant of ...` in the modules) under which TLC finds it
violated.

## 4. Where the code and its documents part

`RescopeRace` is kept as a run: `_rescope_write` computes an absolute scope from what
it read first; the retry re-applies it and undoes a concurrent rescope
(`RescopeAddsAndDropsOnly`). The others were found the same way. Each is stated by
a property of the module named, which TLC refutes when it is added to the
configuration named; `PROJECT.json` quotes the sentence each contradicts.

| Property | Configuration | What happens |
|---|---|---|
| `LandedCommandNamesItsClaim` | `StateRefStore.cfg` | after a lost answer, `_rescope_write` (`cli.py:4656`) and `_claim_write` look their claim up by key in a later state: a `KeyError`, or another's claim |
| `BootstrapWritesFirstCommitOnly` | `StateRefReset.cfg`, `Scenarios <- BootstrapScenarios` | of two first bootstraps the loser commits the empty tree on top of the winner's ref |
| `OnlyBootstrapCreatesRef` | `StateRefReset.cfg` | a transition that fetched before a reset pushes after it and brings the deleted history back |
| `NoLineageBreakAfterReset` | `StateRefReset.cfg`, `Scenarios <- SiblingScenarios` | a fetch under way in a sibling worktree writes the old tip back as a stamp after the reset cleared it |
| `RerunResumes` | `Landing.cfg` | a land stopped after its release commit reached the ref cannot be resumed: each rerun finds the claim gone |
| `LandingEndsItsBranchClaim` | `Landing.cfg` | the landing ends a claim its holder has meanwhile taken on another branch |
| `ClosedIssueIsNotClaimed` | `Landing.cfg` | a claim that found the issue open lands after a landing closed the issue and released the lane's claim |
| `RefusedRebuildShows` | `BoardServer.cfg` | a reload of a malformed store redirects to the old page without a word |
| `RuledLinesStay` | `BoardServer.cfg` | on GitHub, of two rulings at once the second takes the first off its line |
| `OneHead` | `Workspace.cfg` | a run that ends between new-window and select-window leaves a dead pane in front, and the next run starts a second provider |
| `EmptyContextLineIsContext` | `Hook.cfg` | an empty context line is trimmed to nothing and the patch refused |
| `CdInPipelineChangesNothing` | `Hook.cfg` | `(cd a; rm x) \| cd b; rm f` judges `b/f` |
| `AllowedPathIsCovered` | `Hook.cfg` | a write that names the directory `src` passes under a claim of `src/a` |
| `NestedRootIsItsOwn` | `Hook.cfg` | a nested checkout's root that is named through a link is judged by the checkout around its parent |
| `PartialCutCanBeRerun` | `ItemTree.cfg` | when only the answer of the row removal is lost, the same cut is refused |
| `NoSecondChild` | `ItemTree.cfg` | two cuts of one row at once create two children |
| `OtherRowsStand` | `ItemTree.cfg` | on GitHub two cuts at once put each other's row back |
| `NoClosedItemClaimed` | `ItemTree.cfg` | an item claimed between close's check and its write is closed under its claim |
| `AdoptedChildIsLinked` | `ItemTree.cfg` | on the state ref cut adopts an item for a line in its text and relates it to nothing |
| `ParallelCandidateIsAccepted` | `Dispatch.cfg` | once the first action is claimed, claim refuses the parallel ones as out of order |
| `LastChildRuleReadsTheSplit` | `Dispatch.cfg` | check demands that the container be closed while next would cut its next row |
| `EveryCutIsAccepted` | `Dispatch.cfg`, `Worlds <- NestedWorlds` | next names a nested container for cutting, which cut refuses |

Smaller observations, without a property. The docstring near `store.py:643` says
a second genuine claim transition is impossible, while an interrupted claim that
is run again can land a second commit with `intent: claim`; the walk counts it as
unparsed, and `LifecycleMatchesState` accounts for it. `protocol.py:815` calls
`opened_commit` the commit a claim was first introduced at; the code records the
tip *before* it, which is what `OpenedCommitPrecedesClaim` states.
`release --merged` with an empty value goes by the newest trunk commit that names
the item, so an item that was reopened is released on the strength of its earlier
landing (`cli.py:5343`). The cleanup after a landing can remove a worktree that a
start has just resumed and claimed in. Under a second fault, while the token of a
failed launch is being taken off, a viewer attempt may stay pending.

## 5. What is proved

Every theorem is about its module's `Spec` (`ResetSpec` of `StateRefReset`,
`CallSpec` of `Protection`, the judgement of a call without the grammars), for every value of the constants that
the named assumptions allow: any number of commands, servers, requests, worktrees
or starts, and any bounds. `ClaimLedgerProofs` holds what all of them use: what
`protocol.apply` makes of a state, field by field (`Committed...`), and that a
free resource number exists (`AutomaticHoldIsFree`, by a pigeonhole argument).

| Module | Theorem | Says |
|---|---|---|
| `ClaimLedgerProofs` | `AutomaticHoldIsFree` | the next free number of a resource always exists and was never given out |
| `LedgerProofs` | `TypeCorrectness` | `[]TypeOK`, with the occupied numbers finite (the run leaves it to the proof) |
| | `Exclusion` | `[]ClaimExclusive` |
| | `NoReuse` | `[]NeverReused` |
| | `CompleteRecords` | `[]RecordsAreComplete` |
| | `ClaimIdentity` | `[]LiveClaimsAreOpened` |
| | `Displacement` | `NoDisplacement`, an action property |
| | `Invariance` | `[]IInv`, on which the others rest |
| `StateRefProofs` | `StoreTypeCorrect` | `[]TypeOK` |
| | `StoreAppliesAtMostOnce` | an operation is on the ref at most once |
| | `StoreVerdictsAreFinal` | what was reported as done is on the ref, what was reported as refused never will be |
| | `StoreVerdictsAreTrue` | `[]VerdictsAreTrue`: the above and the tally of a command that gives up, unless the server is stuck |
| | `StoreRaisesNoFalseAlarm` | `[]NoFalseLineageAlarm`, where no two commands share a worktree at once |
| | `StoreImplementsLedger` | `ImplementsLedger`: the loop implements `Ledger` |
| | `StoreKeepsLedgerInvariant`, `StoreClaimsAreExclusive`, `StoreDisplacesNoClaim` | what `LedgerProofs` proves, of the state on the ref |
| | `StoreLosesNoItemWrite` | `[]NoLostItemWrite` |
| | `StoreRecordsTheOpening`, `StoreHistoryIsTrue` | `[]HistoryIsTrue`: opening commits, and the walk over the history |
| | `ResetTypeCorrect` | `[]ResetTypeOK`, with bootstraps and resets |
| | `ResetLosesNoClaim` | `ResetLosesNothing`, an action property |
| | `ResetHistoryHasOneStart` | `[]HistoryHasOneStart` |
| | `ResetBreaksNoLineage` | `[]NoLineageBreakAfterReset`, under two conditions below |
| `BoardServerProofs` | `BoardServesOneToken` | `[]OneTokenServed` |
| | `BoardServesFreshPages` | `[]ServedPageIsFresh` |
| | `BoardLosesNoRuling` | `[]NoRulingLost` |
| | `BoardClicksBesideNoMalformedItem` | `ClickNotBesideMalformed`, an action property |
| | `BoardServerInvariant` | `[]IInv`, on which they rest |
| `LandingProofs` | `LandingMergesWhatItChecked` | `[]MergedHeadWasChecked` |
| | `LandingFollowUpIsSound` | `[]FollowUpIsSound` |
| | `LandingLosesNoCommit` | `[]UnpushedWorkSurvives` |
| | `LandingCompletes` | `[]FaultlessLandCompletes`, under a condition below |
| | `LandingInvariant` | `[]IInv`, on which they rest |
| `LaneStartProofs` | `LaneStartLeavesStrangers` | `[]StrangersStand` |
| | `LaneStartReportsItsOwnClaim` | `[]ReportsItsOwnClaim` |
| | `UndisturbedLaneStartSucceeds` | `[]UndisturbedStartSucceeds` |
| | `LaneStartInvariant` | `[](IInv /\ LoneInv)`, on which they rest |
| `WorkspaceProofs` | `FilesAreTrue` | `[]FilesTellTruth` |
| | `SecondHeadsHaveCauses` | `[]SecondHeadHasCause` |
| | `AttemptsTellOfTheirViewers` | `[]AttemptTellsOfItsViewer`, where at most one command fails or is killed |
| | `WorkspaceInvariant` | `[]IInv`, on which they rest |
| `ProtectionProofs` | `PatchIsJudgedByOneState` | `[]PatchFitsOneState` |
| | `AllowedPathsAreJudgedInside` | `[]InnermostCheckoutJudges` |
| | `RescopeAndProtectAgree` | `[]RescopedPathIsWritable` |

### Assumptions and conditions

The constants' assumptions (`ConstantsAssumption`, `StoreAssumption`,
`LandingAssumption`, ...) say that sentinels are not values of the type they stand
outside of, that commands and intents are well typed, that threads and runs are
finitely many, that somebody is no coordinator (the holder of a landing), and
that a branch is its three parts. TLC evaluates them in the runs.

These theorems have a condition, because the code does not do better without it:

* `StoreVerdictsAreTrue`: `~StuckServer`. The tally compares failures with counted
  faults; `StuckServer` is the instance whose faults go uncounted.
* `StoreRaisesNoFalseAlarm`: `SeparateWorktrees`. Two commands in one worktree can
  stamp between each other's fetch and check (issue #418, which the source accepts).
* `ResetBreaksNoLineage`: `SeparateWorktrees`, and `ResetApart` (a scenario has one
  reset, and each other command of its repository ends before it or starts after
  it; commands of other clones run when they like). A fetch under way in a sibling
  worktree puts the old tip back after the reset cleared it: the finding
  `NoLineageBreakAfterReset`, which TLC shows on `SiblingScenarios`. The run's own
  scenarios meet both conditions.
* `LandingCompletes`: `LandersMayRelease` (every landing is the holder's, or
  an overriding coordinator's; a land by anybody else ends incomplete once somebody
  else has merged, and rightly so). The run's instance meets it. What it says is of
  the claim the lane was opened with: a claim of its holder that passed its checks
  while the issue was open may still come after the landing (the finding
  `ClosedIssueIsNotClaimed`).
* `AttemptsTellOfTheirViewers`: at most one fault in a scenario, as in all of the
  run's. With two, the terminal may fail to start and then the command that takes
  the attempt off the session: the attempt stays pending and no viewer is coming.

`WorkspaceAssumption` says what a workspace is before the commands of a scenario: a
mapping of distinct projects, the launcher only beside a project, and a handed-over
process registered as live. Any number of commands, projects and windows follows.

`DirectoriesAssumption` of `Protection` is what a file system is: a real directory
lies in real directories, and no name on the way to it is a link or `..`. Its links
lead to any real directories, to checkouts' roots and to directories around them too. `CallBegins`
takes any branches, claims, identity and call.

`LaneStart` has an `Init` wider than its run's: any items, strangers, taken branches
and live claims together; the run's `MCInit` is a sample of it.

### The arguments

*Ledger.* `IInv` is the conjunction of the five state properties.
None of them is inductive alone. `NeverReused` speaks of claims long gone, while
`apply` checks an id and a number against what the ref carries, so it needs
`RecordsAreComplete`. `ClaimExclusive` for ids needs that a fresh id is not that
of a live claim: a live claim was opened (`LiveClaimsAreOpened`), so its id is
consumed (`RecordsAreComplete`). And all need `TypeOK`, whose finiteness of the
occupied numbers makes the search for a free one defined.

*Store.* A commit is a sequence, an ancestor a prefix. `AncestryInv`: whatever
anybody read, stamped or was shown is an ancestor of the ref. `HistoryInv`: each
commit is its operation's intent applied to its parent, which admits it, and an
operation that is on the ref while its process is at work was based on that very
parent. `WireInv`: the same of a push on its way, whose base is an ancestor without
the operation, and whose lease is that base, or its own commit when an earlier
attempt put it there. So an accepted push adds an operation that was not there, or
nothing; a search that does not find it between two tips may retry; and a refused
command has nothing on the wire that the server could still take. `CourseInv` ties
labels, intents and attempts. For the tally, `TallyInv` counts each failed attempt
against a fault or a foreign commit before the next is made.

*Refinement.* `Abstract` maps the ledger's state to that of the commit on the ref
and `applied` to the operations on it. Every step but an acceptance leaves the ref
and is a stutter; an acceptance is the ledger's step for the one operation it adds,
or a stutter when it adds none. `Promise` instantiates `LedgerProofs` under the same
mapping. `IntentInv` ties an item write to what its command read, and `apply`
compares that with its parent: no write is lost. The walk over the history is a
recursive function, about which an induction over sequences would be needed;
instead `WalkInv` says of the commits on the ref that a step-by-step walk over
them exists and reads what the state says, and is carried from one commit to the
next, since the walk over one more commit is one more step (`WalkExtends`,
`WalkShortens`).

*Reset.* `AncestryInv` does not hold once the ref may be deleted and created again:
what a command read need not be an ancestor of anything. `ResetBase` has the types,
where each process is, and what is on the wire (a push, or a deletion under its
reset's lease). That no history is rewritten follows because a push's commit extends
its lease by what its process committed, so that an accepted one, a late one
included, extends the ref or creates it. `OperationsInv` speaks of all commits
anybody knows, on the ref, stamped, read or under way: each names its whole history, none has an
operation twice, and what a process is about to commit on does not have its own.
`BirthInv` adds, where nothing is reset and one bootstrap runs, that all of them
start with that bootstrap or with the root. For `ResetBreaksNoLineage`,
`ResetLineageInv` follows the reset through its labels: no deletion of its own is on
its way when it goes on (`DeletionOf`), each stamp of its repository is cleared or still
on its list (`ClearingOf`), and from then on whatever is stamped or read there is an
ancestor of the ref (`RebuiltBy`), as nobody else may delete it again.

*Board server.* `LockInv`: a rebuild holds its server's lock, so between its read
of the store and the page nothing is promised that the page lacks. `PageInv`: a page
that is not marked stale shows what was promised. `VersionInv` counts each change as
an edit or the one write of a thread, which bounds the versions. `RulingInv`: a
thread about to write read its line unruled, and a store nobody edited since is as
malformed as it was then. `TokenInv`: the token on disk is of a server that came up.

*Landing.* `LaneInv` says where the lane's commits are, and that a branch is gone
only when its commits were pushed or merged; `RunInv` that what a run has found
out (the merge, its trailer, the closed issue) still holds when it acts on it;
`CommentInv` that a run that saw no comment finds none when runs follow one
another. `ClaimInv` and `FinishInv`, for `LandingCompletes`: the first claim ends
once, and as it ended it stays; a run acts on it unless it was given up or has
landed, and one that is past its release finds it landed.

*Start.* `SiteInv`: what was at a path is there still, edited at most, and a start
stands only on what it made or what is its lane. `OpenedInv`: live claims are
opened ones and ids are never minted twice. `LoneInv` is the argument for
`UndisturbedStartSucceeds`: while nothing was upset and one session made every start
so far, branches and worktrees are in step wherever one was killed
(`LanesMatch`: a free path is free or holds its lane's worktree, and a branch has
its worktree or a start that is about to make it), so that a start finds either
nothing at all or its own lane (`OnItsWay`).

*Workspace.* `LockInv` says who holds each of the three locks, `CourseInv` what each
label works on. `MappingInv`: a writer's copy of the mapping is the mapping, so
that it only grows and a record a run read before it had the lock is there still;
`RecordInv` the same of the login record. `SceneInv` is what a run has found out of
the session it works on (that it is there, that no provider is in front, which
window was in front) and holds at each of its tmux commands because the runtime
lock keeps other runs away and no person or viewer undoes it. `HeadInv` counts:
one window, the one in front or the one a run is about to select, may have a provider
without a cause, and each provider in another is one run that was interrupted;
`LiveInv` gives the process that was handed over its record, so that no run starts a
second one beside it. `AttemptInv` follows a token from the session to its viewer.

*Protection.* `CallInv`. `StatesStood`: a snapshot in the cache is a state its ref
held during the call. `JudgedBySnapshot`: each path that was let through overlaps a
claim of the snapshot kept for its repository, the same one for all worktrees of it; an
allowed call went through all of them. `JudgedInside` rests on what the two readings
of a path have in common, for any length and any links. That needs an induction along the
names, which is done by least counterexample: the positions up to which a statement
about the walk holds form a set of numbers, and the least number outside it
contradicts one step (`WalkExists`, `RealIsAWalk`, `LexicalIsAWalk`). The innermost
checkout is the longest of finitely many prefixes (`LongestExists`). A path that
`rescope` has just added is judged by the claim it widened, since both ask for the
checkout around one real directory.

TLC checked the parts of each inductive invariant on the runs' instances too, but
for sets of types that it cannot enumerate.

### Only model-checked

Liveness (`EveryCommandEnds`, `EveryRequestEnds`, `NothingWaitsForEver`,
`EveryItemLands`) needs fairness and `ENABLED`, out of the prover's reach. No theorem
is about `PatchText`, `CommandText`, `Board`, `Dispatch` and `ItemTree`:

* `NamedPathsAreWritten` compares two folds over the text of a command or patch, and
  `ReadersAgree` and `EachItemCountsOnce` compare operators of `Board` that fold over
  trees and rankings; for every input they would need the induction over data that
  the installed provers cannot do.
* `RowsBecomeChildren`, `RerunFinishes` and `CutTouchesItsRowOnly` could be proved;
  the invariant has to say of each run what every one of its reads may still rely on
  while two other runs and people work on the same items, and was not written. More
  faults and moves than the run's were tried instead (*Bounds*).

That `Landing`, `LaneStart` and `ItemTree` may take a claim or item transition as one
step rests on `StoreImplementsLedger` and is not a theorem itself.

## 6. Plan

1. *Proofs*: `RowsBecomeChildren` and `RerunFinishes` of `ItemTree`.
2. *Composition*: `LaneStart` and `Landing` over `StateRefStore` in place of the
   atomic claim state.

### Not modelled

HTML layout (`board_html.py`), the Markdown and TOML grammars (`body.py`, and the
record encodings of `protocol.py` and `store.py`), the character scanner of
`hook_input.py`, command-line parsing, `--json` envelopes and printed sentences:
pure functions of text without state. The unreadable-schema branch of reset.
State-ref landings on the board, idle and age, ruling rows, container sums.
