------------------------------ MODULE PatchText ------------------------------
(***************************************************************************)
(* hook_patch_paths (hook_input.py): the files a Codex apply_patch text    *)
(* touches.  The text arrives here a line at a time.  A line is its mark,  *)
(* what it reads as once trimmed, and its margin, the white space before   *)
(* it; the path a header names is stood for by the number of its line, so  *)
(* every header names a file of its own.                                   *)
(***************************************************************************)
EXTENDS Naturals, Sequences, FiniteSets

CONSTANTS Lines,      \* the kinds of line a patch is written from
          MaxLines    \* bound: lines of one text

FileHeaders == {"add", "delete", "update"}
Marks == FileHeaders \cup {"begin", "environment", "move", "end", "endOfFile",
                           "hunk", "plus", "minus", "text", "blank"}
Margins == {"none", "space", "tab"}

ASSUME PatchAssumption ==
    /\ Lines \subseteq [mark : Marks, margin : Margins]
    /\ MaxLines \in Nat

VARIABLES
    lines,    \* the text read so far
    parser    \* the local variables of hook_patch_paths

patchVars == <<lines, parser>>

\* "opening": before Begin Patch; "headed": just past it, where Environment
\* ID may stand; the others are the code's _PatchState; "refused": a line the
\* grammar does not admit was read, and the text names no path at all.
States == {"opening", "headed", "started", "addFile", "deleteFile",
           "updateFile", "ended", "refused"}

Fresh == [state |-> "opening", move |-> FALSE, paths |-> <<>>]

Refused(p) == [p EXCEPT !.state = "refused"]

In(p, state) == [p EXCEPT !.state = state, !.move = FALSE]

\* Only right after an Update File header may a Move to follow.
StateAfterFileHeader(p, mark) ==
    [p EXCEPT !.state = CASE mark = "add" -> "addFile"
                          [] mark = "delete" -> "deleteFile"
                          [] OTHER -> "updateFile",
              !.move = (mark = "update")]

FileHeaderOutcome(p, mark, path) ==
    StateAfterFileHeader([p EXCEPT !.paths = Append(@, path)], mark)

\* Outside an Update hunk a header is known after both ends are trimmed.
OutsideUpdateHunkLine(p, line, path) ==
    CASE line.mark = "end" -> In(p, "ended")
      [] line.mark \in FileHeaders -> FileHeaderOutcome(p, line.mark, path)
      [] p.state = "addFile" /\ line = [mark |-> "plus", margin |-> "none"] ->
            In(p, "addFile")
      [] OTHER -> Refused(p)

\* A hunk's content, told by its first character: the line was trimmed on the
\* right, so a line of white space only has none left.
HunkContent(line) ==
    \/ line.margin = "none" /\ line.mark \in {"hunk", "plus", "minus", "endOfFile"}
    \/ line.margin = "space" /\ line.mark # "blank"

\* Inside one only a header without a margin ends it.
UpdateHunkLine(p, line, path) ==
    CASE line = [mark |-> "end", margin |-> "none"] -> In(p, "ended")
      [] line.mark \in FileHeaders /\ line.margin = "none" ->
            FileHeaderOutcome(p, line.mark, path)
      [] p.move /\ line = [mark |-> "move", margin |-> "none"] ->
            In([p EXCEPT !.paths = Append(@, path)], "updateFile")
      [] HunkContent(line) -> In(p, "updateFile")
      [] OTHER -> Refused(p)

\* Begin Patch, then at most one Environment ID line, which is not trimmed.
PatchContentStart(p, line) ==
    IF line.mark = "begin" THEN In(p, "headed") ELSE Refused(p)

EnvironmentId(line) == line = [mark |-> "environment", margin |-> "none"]

Parsed(p, line, path) ==
    CASE p.state = "refused" -> p
      [] p.state = "opening" -> PatchContentStart(p, line)
      [] p.state = "headed" /\ EnvironmentId(line) -> In(p, "started")
      [] p.state = "ended" -> IF line.mark = "blank" THEN p ELSE Refused(p)
      [] p.state = "updateFile" -> UpdateHunkLine(p, line, path)
      [] OTHER -> OutsideUpdateHunkLine(p, line, path)

\* What hook_patch_paths returns for the text read so far.
PatchPaths(p) == IF p.state = "ended" THEN p.paths ELSE <<>>

-----------------------------------------------------------------------------
PatchInit == lines = <<>> /\ parser = Fresh

\* One more line of the text, and one more turn of the loop.  A text whose
\* loop has already returned goes on, one that never began a patch does not.
ReadLine ==
    /\ Len(lines) < MaxLines
    /\ Len(lines) > 0 => lines[1].mark = "begin"
    /\ \E line \in Lines :
          /\ lines' = Append(lines, line)
          /\ parser' = Parsed(parser, line, Len(lines) + 1)

-----------------------------------------------------------------------------
(***************************************************************************)
(* Codex's grammar, begin_patch environment_id? hunk+ end_patch, said of a *)
(* whole text: some of its lines are headers, and every other line is the  *)
(* content of the hunk whose header is the last one before it.             *)
(***************************************************************************)
LastBefore(headers, i) == CHOOSE h \in headers :
    h < i /\ \A g \in headers : g < i => g <= h

Owned(i, h) ==
    CASE lines[h].mark = "add" -> lines[i] = [mark |-> "plus", margin |-> "none"]
      [] lines[h].mark = "delete" -> FALSE
      [] lines[h].mark = "update" ->
            \/ i = h + 1 /\ lines[i] = [mark |-> "move", margin |-> "none"]
            \/ HunkContent(lines[i])
            \/ lines[i] = [mark |-> "blank", margin |-> "space"]

IsCut(first, last, headers) ==
    /\ first \in headers
    /\ \A h \in headers :
          (h > first /\ lines[LastBefore(headers, h)].mark = "update")
          => lines[h].margin = "none"
    /\ \A i \in (first .. last) \ headers :
          Owned(i, LastBefore(headers, i))

\* The hunks of a well-formed text: its header lines, or nothing of the kind.
Readings ==
    LET n == Len(lines)
        begun == n > 0 /\ lines[1].mark = "begin"
        first == IF n > 1 /\ EnvironmentId(lines[2]) THEN 3 ELSE 2
        Closes(e, headers) ==
            /\ lines[e].mark = "end"
            /\ lines[LastBefore(headers, e)].mark = "update"
               => lines[e].margin = "none"
            /\ \A i \in e + 1 .. n : lines[i].mark = "blank"
    IN  IF ~begun THEN {}
        ELSE {hs \in SUBSET {i \in first .. n : lines[i].mark \in FileHeaders} :
                \E e \in first .. n : /\ hs # {} /\ \A h \in hs : h < e
                                      /\ IsCut(first, e - 1, hs)
                                      /\ Closes(e, hs)}

\* The files a reading of the text touches: its headers, and the new name a
\* Move to right after an Update File header gives one.
Touched(headers) ==
    headers \cup {i \in 1 .. Len(lines) :
                     /\ i - 1 \in headers /\ lines[i - 1].mark = "update"
                     /\ lines[i] = [mark |-> "move", margin |-> "none"]}

InOrder(paths) == \A i \in 1 .. Len(paths) - 1 : paths[i] < paths[i + 1]

PathSet(paths) == {paths[i] : i \in DOMAIN paths}

BareContextLine == [mark |-> "blank", margin |-> "space"]

\* The patch a hook call is judged by is the patch Codex will apply: whenever
\* the parser returns paths they are every file the text touches, each once
\* and in its order, and it gives up (naming no path, which the caller
\* denies) on no well-formed text but one with a bare context line.
PatchNamesEveryFile ==
    /\ PatchPaths(parser) # <<>> =>
          /\ InOrder(PatchPaths(parser))
          /\ \E hs \in Readings : PathSet(PatchPaths(parser)) = Touched(hs)
    /\ \A hs \in Readings :
          (\A i \in DOMAIN lines : lines[i] # BareContextLine)
          => PathSet(PatchPaths(parser)) = Touched(hs)

\* Every well-formed text is parsed, one whose hunk has an empty context line
\* (a single space) among them: the comment on the hunk's content prefixes
\* lists a context line, which a leading space marks.  Does not hold: the
\* line is trimmed on the right before its first character is looked at.
EmptyContextLineIsContext ==
    Readings # {} => PatchPaths(parser) # <<>>
=============================================================================
