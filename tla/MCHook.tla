------------------------------- MODULE MCHook -------------------------------
(* aco protect on small worlds, and the two grammars of hook_input.py that   *)
(* name its paths, each on texts of its own: a behaviour is one of the three.*)
(* Two worktrees of one repository, /w and /v, its main checkout /m, and a   *)
(* worktree of another repository nested at /w/n.  Links lead from /w/l into  *)
(* /v, from /w/k and /k into /w/n, and from /u to /w.                        *)
EXTENDS Protection, PatchText, CommandText

CONSTANTS one, other, me, b1, b2, main

w == <<"w">>
v == <<"v">>
m == <<"m">>
n == <<"w", "n">>

MCDirectories == {<<>>, w, v, m, n, <<"v", "d">>, <<"v", "d", "e">>, n \o <<"d">>, <<"o">>}
MCLinks == <<"w", "l">> :> <<"v", "d">> @@ <<"w", "k">> :> n \o <<"d">>
           @@ <<"k">> :> n \o <<"d">> @@ <<"u">> :> w
MCRoots == {w, v, m, n}
MCMain == {m}
MCRepository == [r \in MCRoots |-> IF r = n THEN other ELSE one]
MCScopes == {{<<"a">>}, {<<"a">>, <<"n">>}, {<<"d", "a">>}}

P(names) == [absolute |-> TRUE, names |-> names]
Relative == [absolute |-> FALSE, names |-> <<"a">>]
Inside(root, names) == P(root \o names)

Common == {Inside(w, <<"a">>), Inside(v, <<"a">>), Inside(w, <<"l", "a">>), P(n), Inside(n, <<"a">>)}
Odd == {Inside(w, <<"l", "..", "a">>), Inside(v, <<"x", "..", "a">>), Inside(w, <<"l">>), Inside(v, <<"d">>), P(w),
        P(<<"o", "a">>), P(<<"q", "a">>), Inside(m, <<"a">>), Relative}

Linked == {Inside(w, <<"k">>), Inside(w, <<"k", "a">>), Inside(w, <<"k", "..", "a">>), P(<<"k", "a">>),
           P(<<"u", "n">>), P(<<"u", "a">>), P(<<"u", "n", "a">>),
           Inside(v, <<"x", "..", "..", "u", "a">>), Inside(w, <<"l", "e", "..">>)}

MCCalls ==
    {[tool |-> "apply_patch", paths |-> <<p, q>>] : p, q \in {Inside(w, <<"a">>), Inside(v, <<"a">>), Inside(n, <<"a">>)}}
    \cup {[tool |-> t, paths |-> <<p>>] : t \in {"write", "bash"}, p \in Common \cup Odd \cup Linked}
    \cup {[tool |-> "bash", paths |-> <<p, Inside(v, <<"a">>)>>] : p \in {Relative, P(<<"o", "a">>), Inside(w, <<"a">>)}}
    \cup {[tool |-> t, paths |-> <<>>] : t \in {"write", "read", "unknown", "bash"}}

Mine(b, scope) == [agent |-> me, branch |-> b, scope |-> scope]

\* The session holds a claim for /w and one for /v, or only one of them.
Held == {Mine(b1, {<<"a">>, <<"n">>}), Mine(b2, {<<"a">>})}

JudgeInit ==
    /\ branch = [r \in Roots |-> CASE r = w -> b1 [] r = v -> b2 [] r = n -> b1 [] OTHER -> main]
    /\ born \in {Roots, Roots \ {v}}
    /\ originHead = [r \in Repositories |-> main]
    /\ claims \in {[r \in Repositories |-> IF r = one THEN h ELSE g] :
                      h \in {Held, {Mine(b1, {<<"a">>})}}, g \in {{Mine(b1, {<<"a">>})}}}
    /\ agent \in {me, NoAgent}
    /\ call \in Calls /\ (Len(call.paths) > 1 => agent = me /\ born = Roots)
    /\ CallBegins

-----------------------------------------------------------------------------
(* The texts.                                                                *)

L(mark, g) == [mark |-> mark, margin |-> g]
MCLines ==
    {L(k, "none") : k \in Marks}
    \cup {L(k, "space") : k \in {"update", "move", "end", "blank"}} \cup {L("add", "tab")}

W(text) == Word(text, text = "$v")
Simple(texts, writes) ==
    [group |-> FALSE, words |-> [i \in DOMAIN texts |-> W(texts[i])],
     redirects |-> <<>>, writes |-> writes]
Redirected(texts, target, writes) ==
    [Simple(texts, writes) EXCEPT !.redirects = <<W(target)>>]
Group(list) == [group |-> TRUE, list |-> list]

MCFlags == {"-f", "-i", "-i.bak", "-e", "-l", "-t", "-s", "-"}
MCValueOptions == [c \in {"sed", "git restore"} |->
                      IF c = "sed" THEN {"-e", "-l"} ELSE {"-s"}]
MCAbsolute == {"/w", "/x"}
MCCwd == <<"/w">>

\* The forms of each command the specification of the hook lists, with what
\* each writes by its own manual.
Forms ==
    {Simple(<<"tee", "f">>, <<"f">>), Simple(<<"tee", "--", "-f", "$v">>, <<"-f">>),
     Simple(<<"mv", "f", "/x">>, <<"f", "/x">>), Simple(<<"cp", "f", "g">>, <<"g">>),
     Simple(<<"cp", "-t", "d", "f">>, <<"d">>), Simple(<<"cp", "f", "$v">>, <<>>),
     Simple(<<"rm", "-f", "f", "g">>, <<"f", "g">>), Simple(<<"rm", "--", "-f">>, <<"-f">>),
     Simple(<<"sed", "-i", "s", "f">>, <<"f">>), Simple(<<"sed", "-i", "-e", "s", "f">>, <<"f">>),
     Simple(<<"sed", "-i", "-l", "g", "-e", "s", "f">>, <<"f">>),
     Simple(<<"sed", "-i.bak", "f">>, <<"f">>), Simple(<<"sed", "s", "f">>, <<>>),
     Simple(<<"git", "checkout", "-f", "--", "f">>, <<"f">>),
     Simple(<<"git", "checkout", "g">>, <<>>),
     Simple(<<"git", "restore", "-s", "g", "--", "f">>, <<"f">>),
     Simple(<<"git", "add", "f">>, <<>>), Redirected(<<"cat">>, "f", <<"f">>),
     Redirected(<<"tee", "f">>, "/dev/null", <<"f">>)}

Basics == {Simple(<<"cd", "a">>, <<>>), Simple(<<"cd", "$v">>, <<>>), Simple(<<"rm", "f">>, <<"f">>)}
Pipelines(stages) == {<<s>> : s \in stages} \cup {<<s, t>> : s, t \in stages}
Lists(items) == {<<i>> : i \in items} \cup {<<i, j>> : i, j \in items}
Groups == {Group(list) : list \in Lists({<<s>> : s \in Basics})}
Last3 == {<<i, j, k>> : i, j \in Pipelines(Basics) \cup {<<g>> : g \in Groups}, k \in {<<s>> : s \in Basics}}

MCScripts ==
    Lists({<<s>> : s \in Forms \cup Basics}) \cup Last3
    \cup {<<p, <<s>>>> : p \in Pipelines(Groups \cup Basics), s \in Basics}

-----------------------------------------------------------------------------
NoCommand ==
    /\ script = <<>> /\ tokens = <<>> /\ index = 1 /\ atCommandStart = TRUE
    /\ pipelineHasPipe = FALSE /\ directoryStack = <<Cwd>> /\ pairs = <<>> /\ walking = FALSE

NoCall ==
    /\ branch = [r \in Roots |-> main] /\ born = {} /\ originHead = [r \in Repositories |-> main]
    /\ claims = [r \in Repositories |-> {}] /\ agent = NoAgent /\ call = NoPath
    /\ at = 0 /\ pc = "text" /\ judging = NoCheckout /\ cache = <<>> /\ verdict = "none"
    /\ stood = [r \in Repositories |-> {{}}] /\ judged = <<>> /\ rescoped = NoPath /\ moves = 0

NoText == lines = <<>> /\ parser = Fresh

Init ==
    \/ JudgeInit /\ NoText /\ NoCommand
    \/ NoCall /\ PatchInit /\ NoCommand
    \/ NoCall /\ NoText /\ CommandInit

ReadingText == pc = "text" /\ UNCHANGED vars

AllNext ==
    \/ pc # "text" /\ Next /\ UNCHANGED <<patchVars, commandVars>>
    \/ ReadingText /\ script = <<>> /\ ReadLine /\ UNCHANGED commandVars
    \/ ReadingText /\ CommandNext /\ UNCHANGED patchVars

Spec == Init /\ [][AllNext]_<<vars, patchVars, commandVars>>

\* Whichever of the two grammars a call's text is in, the paths it is judged by
\* are the files it writes (hook_input.py).
NamedPathsAreWritten == PatchNamesEveryFile /\ JudgedPathsAreWritten
=============================================================================
