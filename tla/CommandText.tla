----------------------------- MODULE CommandText -----------------------------
(***************************************************************************)
(* hook_command_paths (hook_input.py): the files a Bash command writes, as *)
(* far as its fixed list of write patterns can tell.  A command is here    *)
(* its tokens, as the scanner hands them over: words, with what they read  *)
(* and whether the shell would expand them first, and operators.  The      *)
(* operators that end a list item (; && || newline) are one, written ";".  *)
(***************************************************************************)
EXTENDS Naturals, Sequences, SequencesExt

CONSTANTS
    Scripts,        \* the commands: sequences of list items, see ShellItem
    Flags,          \* the word texts that begin with a dash, "--" apart
    ValueOptions,   \* those that take the next word as their value, by command
    AbsoluteTexts,  \* the word texts that are absolute paths
    Cwd             \* the payload's cwd: a path, or <<>> when it names none

ASSUME CommandAssumption ==
    /\ DOMAIN ValueOptions = {"sed", "git restore"}
    /\ \A c \in DOMAIN ValueOptions : ValueOptions[c] \subseteq Flags
    /\ "--" \notin Flags

VARIABLES
    script,       \* the command, and
    tokens,       \* what the scanner makes of it
    index, atCommandStart, pipelineHasPipe, directoryStack, pairs, walking

commandVars == <<script, tokens, index, atCommandStart, pipelineHasPipe,
                 directoryStack, pairs, walking>>

Word(text, expandable) == [text |-> text, operator |-> FALSE, expandable |-> expandable]
Operator(text) == [text |-> text, operator |-> TRUE, expandable |-> FALSE]

IsListSeparator(t) == t = Operator(";")
IsPipe(t) == t = Operator("|")
IsCommandSeparator(t) == IsListSeparator(t) \/ IsPipe(t)
IsGroupOpen(t) == t = Operator("(")
IsGroupClose(t) == t = Operator(")")
IsFlag(w) == w.text \in Flags \cup {"--"}

\* A path is the sequence of its names; a relative one stays as it is when the
\* directory is not known.
ResolvedOperandPath(directory, text) ==
    IF text \in AbsoluteTexts THEN <<text>> ELSE Append(directory, text)

Texts(words) == [i \in DOMAIN words |-> words[i].text]
Tail2(words) == SubSeq(words, 3, Len(words))

\* The words that are no options: those that are no flag, and all after "--".
EndOfOptions(words) ==
    LET marks == {i \in DOMAIN words : words[i].text = "--"}
    IN  IF marks = {} THEN Len(words) + 1 ELSE CHOOSE i \in marks : \A j \in marks : i <= j

Kept(words, keep) ==
    LET RECURSIVE From(_)
        From(i) == IF i > Len(words) THEN <<>>
                   ELSE (IF i \in keep THEN <<words[i]>> ELSE <<>>) \o From(i + 1)
    IN  From(1)

NonFlagArguments(words) ==
    Kept(words, {i \in DOMAIN words : i > EndOfOptions(words) \/ ~IsFlag(words[i])})

\* ... and not the value a flag takes.  A value is no option itself, and a "--"
\* in its place is no end of them.
SkipOptionValues(words, valueOptions) ==
    LET Step(acc, w) ==
            CASE acc.past -> [acc EXCEPT !.result = Append(@, w)]
              [] ~acc.past /\ acc.skip -> [acc EXCEPT !.skip = FALSE]
              [] ~acc.past /\ ~acc.skip /\ w.text = "--" -> [acc EXCEPT !.past = TRUE]
              [] ~acc.past /\ ~acc.skip /\ w.text # "--" /\ IsFlag(w) ->
                    [acc EXCEPT !.skip = w.text \in valueOptions]
              [] OTHER -> [acc EXCEPT !.result = Append(@, w)]
    IN  FoldLeft(Step, [result |-> <<>>, skip |-> FALSE, past |-> FALSE], words).result

NoMatch == [pattern |-> "none", operands |-> <<>>]
Match(pattern, operands) == [pattern |-> pattern, operands |-> operands]

MatchTee(words) == Match("tee", NonFlagArguments(Tail(words)))
MatchMove(words) == Match("mv", NonFlagArguments(Tail(words)))
MatchRemove(words) == Match("rm", NonFlagArguments(Tail(words)))

\* The value of cp's -t, wherever it stands.
CpTargetDirectory(arguments) ==
    LET marks == {i \in DOMAIN arguments : arguments[i].text = "-t" /\ i < Len(arguments)}
    IN  IF marks = {} THEN <<>>
        ELSE <<arguments[1 + CHOOSE i \in marks : \A j \in marks : i <= j]>>

MatchCopy(words) ==
    LET operands == NonFlagArguments(Tail(words))
    IN  IF CpTargetDirectory(Tail(words)) # <<>>
        THEN Match("cp", CpTargetDirectory(Tail(words)))
        ELSE IF operands = <<>> THEN NoMatch ELSE Match("cp", <<Last(operands)>>)

\* sed edits nothing without -i.  With a script option every operand is a
\* file; without one the first is the script, unless -i carries a suffix and
\* nothing else is left.
InPlaceFlags == {"-i", "-i.bak"}
ScriptOptions == {"-e"}

MatchSedInPlace(words) ==
    LET arguments == Tail(words)
        inPlace == SelectSeq(arguments, LAMBDA w : w.text \in InPlaceFlags)
        operands == SkipOptionValues(arguments, ValueOptions["sed"])
        hasScript == \E i \in DOMAIN arguments : arguments[i].text \in ScriptOptions
        allFiles == hasScript \/ (inPlace[1].text # "-i" /\ Len(operands) = 1)
        paths == IF allFiles THEN operands ELSE SubSeq(operands, 2, Len(operands))
    IN  IF inPlace = <<>> \/ paths = <<>> THEN NoMatch ELSE Match("sed -i", paths)

MatchGitCheckout(words) ==
    LET remainder == Tail2(words)
        ends == {i \in DOMAIN remainder : /\ remainder[i].text = "--"
                                          /\ \A j \in 1 .. i - 1 : remainder[j].text = "-f"}
    IN  IF ends = {} THEN NoMatch
        ELSE Match("git checkout --",
                   SubSeq(remainder, 1 + CHOOSE i \in ends : TRUE, Len(remainder)))

MatchGitRestore(words) ==
    Match("git restore", SkipOptionValues(Tail2(words), ValueOptions["git restore"]))

IsGit(words, command) == Len(words) > 1 /\ words[1].text = "git" /\ words[2].text = command

FirstCommandMatch(words) ==
    CASE words[1].text = "tee" -> MatchTee(words)
      [] words[1].text = "mv" -> MatchMove(words)
      [] words[1].text = "cp" -> MatchCopy(words)
      [] words[1].text = "rm" -> MatchRemove(words)
      [] words[1].text = "sed" -> MatchSedInPlace(words)
      [] IsGit(words, "checkout") -> MatchGitCheckout(words)
      [] IsGit(words, "restore") -> MatchGitRestore(words)
      [] OTHER -> NoMatch

\* A word the shell would expand is never judged.
JudgedPairs(pattern, words, directory) ==
    LET plain == SelectSeq(words, LAMBDA w : ~w.expandable)
    IN  [i \in DOMAIN plain |->
            [pattern |-> pattern, path |-> ResolvedOperandPath(directory, plain[i].text)]]

\* Nor is a redirect's target when it is no file.
JudgedRedirectPair(target, directory) ==
    IF target.text = "/dev/null" THEN <<>> ELSE JudgedPairs(">", <<target>>, directory)

\* Where a simple command's own words stop: at the first operator.
OperandSpanEnd(start) ==
    IF \E i \in start .. Len(tokens) : tokens[i].operator
    THEN CHOOSE i \in start .. Len(tokens) :
            tokens[i].operator /\ \A j \in start .. i - 1 : ~tokens[j].operator
    ELSE Len(tokens) + 1

\* Mutant of ListItemContainsPipe: a pipe is noticed only once passed, so the
\* first stage's cd moves the directory.
ListItemAlone(start) == FALSE

\* Whether a pipe stands before the current list item's own end.
ListItemContainsPipe(start) ==
    \E i \in start .. Len(tokens) :
        /\ IsPipe(tokens[i])
        /\ \A j \in start .. i - 1 : /\ ~IsListSeparator(tokens[j])
                                     /\ ~IsGroupOpen(tokens[j]) /\ ~IsGroupClose(tokens[j])

\* The directory a cd leaves, or why it cannot be told.
CdTarget(words) == NonFlagArguments(Tail(words))
CdResolved(words) == CdTarget(words) # <<>> /\ ~CdTarget(words)[1].expandable
CdDirectoryUpdate(directory, words) ==
    ResolvedOperandPath(directory, CdTarget(words)[1].text)

-----------------------------------------------------------------------------
Top == Len(directoryStack)

AtBoundary == LET t == tokens[index]
              IN  IsGroupOpen(t) \/ IsGroupClose(t) \/ IsCommandSeparator(t)

\* Past a group, list or pipe boundary: a group keeps a directory of its own.
AdvancePastBoundary ==
    /\ walking /\ index <= Len(tokens)
    /\ AtBoundary
    /\ LET t == tokens[index] IN
          /\ directoryStack' = CASE IsGroupOpen(t) -> Append(directoryStack, directoryStack[Top])
                                 [] IsGroupClose(t) /\ Top > 1 -> Front(directoryStack)
                                 [] OTHER -> directoryStack
          /\ pipelineHasPipe' = (pipelineHasPipe /\ IsPipe(t))
    /\ index' = index + 1 /\ atCommandStart' = TRUE
    /\ UNCHANGED <<script, tokens, pairs, walking>>

\* Past a simple command's words: a redirect names its target, and anything
\* else is passed over.
ConsumeRedirectOrSkip ==
    /\ walking /\ index <= Len(tokens) /\ ~AtBoundary /\ ~atCommandStart
    /\ LET isRedirect == /\ tokens[index] = Operator(">")
                         /\ index < Len(tokens) /\ ~tokens[index + 1].operator
       IN  /\ index' = index + (IF isRedirect THEN 2 ELSE 1)
           /\ pairs' = IF isRedirect
                       THEN pairs \o JudgedRedirectPair(tokens[index + 1], directoryStack[Top])
                       ELSE pairs
    /\ UNCHANGED <<script, tokens, atCommandStart, pipelineHasPipe, directoryStack, walking>>

\* A simple command: a cd moves the directory unless it stands in a pipeline,
\* and ends the walk when its target cannot be told.
ConsumeSimpleCommand ==
    /\ walking /\ index <= Len(tokens) /\ ~AtBoundary /\ atCommandStart
    /\ LET end == OperandSpanEnd(index)
           words == SubSeq(tokens, index, end - 1)
           piped == pipelineHasPipe \/ ListItemContainsPipe(index)
           isCd == words # <<>> /\ words[1].text = "cd"
           matched == IF words = <<>> THEN NoMatch ELSE FirstCommandMatch(words)
           here == directoryStack[Top]
       IN  /\ pipelineHasPipe' = piped
           /\ index' = end
           /\ walking' = (~isCd \/ piped \/ CdResolved(words))
           /\ directoryStack' = IF isCd /\ ~piped /\ CdResolved(words)
                                THEN [directoryStack EXCEPT ![Top] = CdDirectoryUpdate(here, words)]
                                ELSE directoryStack
           /\ pairs' = IF isCd THEN pairs
                       ELSE pairs \o JudgedPairs(matched.pattern, matched.operands, here)
    /\ atCommandStart' = FALSE
    /\ UNCHANGED <<script, tokens>>

\* hook_command_paths returns the pairs.
Return ==
    /\ walking /\ index > Len(tokens)
    /\ walking' = FALSE
    /\ UNCHANGED <<script, tokens, index, atCommandStart, pipelineHasPipe, directoryStack, pairs>>

-----------------------------------------------------------------------------
(***************************************************************************)
(* A command as the shell reads it: a list of items, an item a pipeline of *)
(* stages, a stage either a simple command, with the files it writes by    *)
(* its own manual, or a group holding a list.                              *)
(***************************************************************************)
Joined(parts, separator) ==
    FoldLeft(LAMBDA acc, p : IF acc = <<>> THEN p ELSE acc \o <<separator>> \o p, <<>>, parts)

RECURSIVE TokensOf(_)
StageTokens(s) ==
    IF s.group THEN <<Operator("(")>> \o TokensOf(s.list) \o <<Operator(")")>>
    ELSE s.words \o FoldLeft(LAMBDA acc, w : acc \o <<Operator(">"), w>>, <<>>, s.redirects)
TokensOf(list) ==
    Joined([i \in DOMAIN list |->
               Joined([j \in DOMAIN list[i] |-> StageTokens(list[i][j])], Operator("|"))],
           Operator(";"))

\* Where the shell stands: its directory, whether that can still be told, and
\* the files written from directories that can.
At(directory) == [directory |-> directory, lost |-> FALSE, writes |-> <<>>, everLost |-> FALSE]

Wrote(at, texts) ==
    IF at.lost THEN at
    ELSE [at EXCEPT !.writes = @ \o [i \in DOMAIN texts |->
                                        ResolvedOperandPath(at.directory, texts[i])]]

\* A subshell's cd is forgotten when it ends.
Left(outer, inner) == [inner EXCEPT !.directory = outer.directory, !.lost = outer.lost]

RanSimple(at, s) ==
    IF s.words[1].text # "cd" THEN Wrote(at, s.writes)
    ELSE IF Len(s.words) = 2 /\ s.words[2].text \notin Flags /\ ~s.words[2].expandable
         THEN [at EXCEPT !.directory = ResolvedOperandPath(@, s.words[2].text)]
         ELSE [at EXCEPT !.lost = TRUE, !.everLost = TRUE]

RECURSIVE RanList(_, _)
RanStage(at, s) == IF s.group THEN Left(at, RanList(at, s.list)) ELSE RanSimple(at, s)
RanList(at, list) ==
    FoldLeft(LAMBDA a, item :
                IF Len(item) = 1 THEN RanStage(a, item[1])
                ELSE FoldLeft(LAMBDA b, s : Left(b, RanStage(b, s)), a, item),
             at, list)

RECURSIVE GroupInPipeline(_)
GroupInPipeline(list) ==
    \E i \in DOMAIN list : \E j \in DOMAIN list[i] :
        list[i][j].group /\ (Len(list[i]) > 1 \/ GroupInPipeline(list[i][j].list))

CommandInit ==
    /\ script \in Scripts
    /\ tokens = TokensOf(script)
    /\ index = 1 /\ atCommandStart = TRUE /\ pipelineHasPipe = FALSE
    /\ directoryStack = <<Cwd>> /\ pairs = <<>> /\ walking = TRUE

CommandNext == \/ AdvancePastBoundary \/ ConsumeRedirectOrSkip
               \/ ConsumeSimpleCommand \/ Return

JudgedPaths == [i \in DOMAIN pairs |-> pairs[i].path]

Agrees ==
    LET ran == RanList(At(Cwd), script)
    IN  /\ IsPrefix(JudgedPaths, ran.writes)
        /\ ~ran.everLost => JudgedPaths = ran.writes

\* The paths judged are the paths the shell would write: each file in the
\* directory the shell stands in by then, through groups, pipelines and cds,
\* and none left out until a cd that cannot be told.  For commands in which
\* no group is a stage of a pipeline.
JudgedPathsAreWritten == ~walking /\ ~GroupInPipeline(script) => Agrees

\* The same of every command: the walker's docstring says a cd anywhere in a
\* pipeline never changes anything at all.  Does not hold: a pipeline is
\* looked for from the cd on, and a group's end forgets the one it stood in.
CdInPipelineChangesNothing == ~walking => Agrees
=============================================================================
