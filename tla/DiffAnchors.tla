---------------------------- MODULE DiffAnchors ----------------------------
(***************************************************************************)
(* From the diff git prints to the lines a review points at: the patch is  *)
(* read into files, hunks and numbered lines; committed secrets and lines  *)
(* of a coverage report are located on it; a decision is anchored to a     *)
(* hunk, shown with an excerpt and its coverage, and exported as a comment *)
(* on a line of the pull request.                                          *)
(*                                                                         *)
(* A diff is a sequence of parts (the range, the index, the working tree,  *)
(* untracked files), a part a sequence of sections.  A section compares    *)
(* the paths "old" and "new" ("null" for /dev/null) by a script of lines   *)
(* [op, text], op being "context", "add" or "delete".  Of a text only this *)
(* is kept: "dash" begins with "-- " or "++ ", "blank" is empty, "key" is  *)
(* a token, and a private key stands between "begin" and "end".  0 is no   *)
(* line number, "none" no path.                                            *)
(***************************************************************************)
EXTENDS Integers, Sequences, FiniteSets, SequencesExt, FiniteSetsExt

CONSTANTS
  Diffs,         \* the diffs considered
  Evidence,      \* what a decision may cite: [path, first, last, aggregate]
  Reports,       \* coverage reports: [fresh, lines], a set of [path, line, hit]
  Ignored,       \* paths the privacy rules keep out of a review
  Context,       \* lines of context git prints around a change (3)
  MaxExcerpt,    \* DEFAULT_HUNK_EXCERPT_MAX_LINES (14)
  MaxUncovered   \* MAX_UNCOVERED_LINES_PER_HUNK (50)

VARIABLES
  compared,  \* the diff taken
  daStage,
  files,     \* the structured diff
  secrets,   \* secret_findings
  measured,  \* the report and its intersection with the diff
  cited,     \* the evidence of the decision
  anchor, excerpt,
  comment    \* the comment suggested, whether the patch was at hand, and where it stands

daVars == <<compared, daStage, files, secrets, measured, cited, anchor, excerpt, comment>>

First(s, Test(_)) == SelectInSeq(s, Test)
MinOf(a, b) == IF a < b THEN a ELSE b
MaxOf(a, b) == IF a < b THEN b ELSE a

-----------------------------------------------------------------------------
(* The patch as git prints it *)

IsChange(line) == line.op # "context"
Changes(s) == {i \in DOMAIN s : IsChange(s[i])}
OldUpTo(s, i) == Cardinality({k \in 1..i : s[k].op # "add"})
NewUpTo(s, i) == Cardinality({k \in 1..i : s[k].op # "delete"})

\* Changes whose contexts touch share a hunk.
HunkOpens(s) == SetToSortSeq({i \in Changes(s) : \A j \in Changes(s) : j < i => i - j > 2 * Context + 1}, <)
HunkSpan(s, n) ==
  LET opens == HunkOpens(s)
      own == {i \in Changes(s) : i >= opens[n] /\ (n < Len(opens) => i < opens[n + 1])}
  IN MaxOf(1, opens[n] - Context)..MinOf(Len(s), Max(own) + Context)

\* A side without lines is numbered by the line before it.
SideStart(before, upto) == IF upto > before THEN before + 1 ELSE before
PrintedHeader(s, span) ==
  LET b == Min(span) - 1
      e == Max(span)
  IN <<SideStart(OldUpTo(s, b), OldUpTo(s, e)), OldUpTo(s, e) - OldUpTo(s, b),
       SideStart(NewUpTo(s, b), NewUpTo(s, e)), NewUpTo(s, e) - NewUpTo(s, b)>>

Token(tag, path) == [tag |-> tag, path |-> path, to |-> "none", op |-> "none", text |-> "none", at |-> <<>>]
BodyToken(line) == [Token("body", "none") EXCEPT !.op = line.op, !.text = line.text]

\* The marker of a missing newline follows the last line of a side.
PrintedLine(x, i) ==
  LET s == x.script
      last == \/ s[i].op # "add" /\ OldUpTo(s, i) = OldUpTo(s, Len(s))
              \/ s[i].op # "delete" /\ NewUpTo(s, i) = NewUpTo(s, Len(s))
  IN <<BodyToken(s[i])>> \o (IF x.nonl /\ last THEN <<Token("noNewline", "none")>> ELSE <<>>)

PrintedHunk(x, n) ==
  LET span == HunkSpan(x.script, n)
  IN <<[Token("hunk", "none") EXCEPT !.at = PrintedHeader(x.script, span)]>>
     \o FlattenSeq([k \in 1..Cardinality(span) |-> PrintedLine(x, Min(span) + k - 1)])

PrintedHunks(x) ==
  IF x.how = "binary" \/ Changes(x.script) = {} THEN <<>>
  ELSE <<Token("minus", x.old), Token("plus", x.new)>>
       \o FlattenSeq([n \in DOMAIN HunkOpens(x.script) |-> PrintedHunk(x, n)])

Printed(x) ==
  LET a == IF x.old = "null" THEN x.new ELSE x.old
      b == IF x.new = "null" THEN x.old ELSE x.new
  IN <<[Token("git", a) EXCEPT !.to = b]>>
     \o (IF x.old = "null" THEN <<Token("newFile", "none")>> ELSE <<>>)
     \o (IF x.new = "null" THEN <<Token("deletedFile", "none")>> ELSE <<>>)
     \o (IF x.how \in {"rename", "copy"}
         THEN <<Token(x.how \o "From", x.old), Token(x.how \o "To", x.new)>> ELSE <<>>)
     \o <<Token("other", "none")>> \o PrintedHunks(x)

\* git() trims the output of each part, and the parts are joined.
IsBlankContext(tok) == tok.tag = "body" /\ tok.op = "context" /\ tok.text = "blank"
Trimmed(toks) == SubSeq(toks, 1, SelectLastInSeq(toks, LAMBDA t : ~IsBlankContext(t)))
collectDiff(parts) ==
  FlattenSeq([n \in DOMAIN parts |-> Trimmed(FlattenSeq([k \in DOMAIN parts[n] |-> Printed(parts[n][k])]))])

\* A section is dropped if any path its header names is ignored.
SectionPaths(section) == UNION {{t.path, t.to} : t \in ToSet(section)} \ {"none", "null"}
filterIgnoredDiff(toks) ==
  LET starts == SetToSortSeq({i \in DOMAIN toks : toks[i].tag = "git"}, <)
      section(n) == SubSeq(toks, starts[n], IF n = Len(starts) THEN Len(toks) ELSE starts[n + 1] - 1)
  IN Trimmed(FlattenSeq(SelectSeq([n \in DOMAIN starts |-> section(n)],
                                  LAMBDA x : SectionPaths(x) \cap Ignored = {})))

\* A private key is replaced from its first line to its last, wherever that
\* stands, and to the end of the patch if there is none.
RedactToken(st, tok) ==
  IF st.inKey THEN [st EXCEPT !.inKey = tok.text # "end"]
  ELSE [out |-> Append(st.out, IF tok.text \in {"key", "begin"} THEN [tok EXCEPT !.text = "redacted"] ELSE tok),
        inKey |-> tok.text = "begin"]
redactSecrets(toks) == FoldLeft(RedactToken, [out |-> <<>>, inKey |-> FALSE], toks).out

-----------------------------------------------------------------------------
(* Reading a patch *)

NewFile(tok) ==
  [headerOld |-> tok.path, headerNew |-> tok.to, renameFrom |-> "none", renameTo |-> "none",
   minus |-> "none", plus |-> "none", isNew |-> FALSE, isDeleted |-> FALSE, renamed |-> FALSE, copied |-> FALSE,
   hunks |-> <<>>]

HeaderLine(acc, tok) ==
  CASE tok.tag = "minus" -> [acc EXCEPT !.minus = tok.path]
    [] tok.tag = "plus" -> [acc EXCEPT !.plus = tok.path]
    [] tok.tag = "newFile" -> [acc EXCEPT !.isNew = TRUE]
    [] tok.tag = "deletedFile" -> [acc EXCEPT !.isDeleted = TRUE]
    [] tok.tag = "renameFrom" -> [acc EXCEPT !.renamed = TRUE, !.renameFrom = tok.path]
    [] tok.tag = "copyFrom" -> [acc EXCEPT !.copied = TRUE, !.renameFrom = tok.path]
    [] tok.tag = "renameTo" -> [acc EXCEPT !.renamed = TRUE, !.renameTo = tok.path]
    [] tok.tag = "copyTo" -> [acc EXCEPT !.copied = TRUE, !.renameTo = tok.path]
    [] OTHER -> acc

FirstKnown(paths) == LET n == First(paths, LAMBDA p : p # "none") IN IF n = 0 THEN "none" ELSE paths[n]
FirstReal(paths) == LET n == First(paths, LAMBDA p : p \notin {"none", "null"}) IN IF n = 0 THEN "none" ELSE paths[n]
resolveNewPath(acc) == FirstKnown(<<acc.plus, acc.renameTo, acc.headerNew>>)
resolveOldPath(acc) == FirstKnown(<<acc.minus, acc.renameFrom, acc.headerOld>>)

buildFile(acc) ==
  LET new == resolveNewPath(acc)
      old == resolveOldPath(acc)
      isDelete == acc.isDeleted \/ acc.plus = "null"
      isAdd == acc.isNew \/ acc.minus = "null"
      isCopy == ~isAdd /\ ~isDelete /\ acc.copied
      isRename == /\ ~isAdd /\ ~isDelete /\ ~isCopy
                  /\ acc.renamed \/ ({old, new} \cap {"none", "null"} = {} /\ old # new)
      path == FirstReal(IF isDelete THEN <<old, new>> ELSE <<new, old>>)
      status == CASE isDelete -> "D" [] isAdd -> "A" [] isCopy -> "C" [] isRename -> "R" [] OTHER -> "modified"
      source == IF isRename /\ old \notin {new, "none", "null"} THEN old ELSE "none"
  IN IF path = "none" THEN <<>>
     ELSE <<[path |-> path, oldPath |-> source, status |-> status, hunks |-> acc.hunks]>>

Reader == [files |-> <<>>, acc |-> <<>>, hunk |-> <<>>, old |-> 0, new |-> 0]

closeHunk(st) ==
  IF st.hunk = <<>> THEN st ELSE [st EXCEPT !.acc[1].hunks = Append(@, st.hunk[1]), !.hunk = <<>>]
closeFile(st) ==
  LET closed == closeHunk(st)
  IN IF closed.acc = <<>> THEN closed ELSE [closed EXCEPT !.files = @ \o buildFile(closed.acc[1]), !.acc = <<>>]

makeLine(kind, text, old, new) == [kind |-> kind, text |-> text, old |-> old, new |-> new]
BodyLine(st, tok) ==
  LET old == IF tok.op = "add" THEN 0 ELSE st.old
      new == IF tok.op = "delete" THEN 0 ELSE st.new
  IN [st EXCEPT !.hunk[1].lines = Append(@, makeLine(tok.op, tok.text, old, new)),
                !.old = IF tok.op = "add" THEN @ ELSE @ + 1,
                !.new = IF tok.op = "delete" THEN @ ELSE @ + 1]

\* Outside a hunk a removed line of dashes would read as a path.
Outside(tok) ==
  IF tok.tag = "body" /\ tok.text = "dash" /\ IsChange(tok)
  THEN Token(IF tok.op = "delete" THEN "minus" ELSE "plus", "dash") ELSE tok

ReadLine(st, tok) ==
  CASE tok.tag = "git" -> [closeFile(st) EXCEPT !.acc = <<NewFile(tok)>>]
    [] tok.tag # "git" /\ st.acc = <<>> -> st
    [] tok.tag = "hunk" /\ st.acc # <<>> ->
         [closeHunk(st) EXCEPT !.hunk = <<[at |-> tok.at, lines |-> <<>>]>>, !.old = tok.at[1], !.new = tok.at[3]]
    [] tok.tag \notin {"git", "hunk"} /\ st.acc # <<>> /\ st.hunk = <<>> ->
         [st EXCEPT !.acc[1] = HeaderLine(@, Outside(tok))]
    [] tok.tag = "noNewline" /\ st.hunk # <<>> -> st
    [] tok.tag = "body" /\ st.hunk # <<>> -> BodyLine(st, tok)
    [] OTHER -> closeHunk(st)

parseStructuredDiff(toks) == closeFile(FoldLeft(ReadLine, Reader, toks)).files

formatHunkHeader(hunk) == hunk.at
HunkStart(hunk, side) == IF side = "old" THEN hunk.at[1] ELSE hunk.at[3]
HunkLength(hunk, side) == IF side = "old" THEN hunk.at[2] ELSE hunk.at[4]

\* Mutant: the line after the hunk counts as its last.
MutHunkOverlapsRange(hunk, side, first, last) ==
  LET start == HunkStart(hunk, side)
  IN start > 0 /\ start <= last /\ start + MaxOf(HunkLength(hunk, side), 1) >= first

hunkOverlapsRange(hunk, side, first, last) ==
  LET start == HunkStart(hunk, side)
  IN start > 0 /\ start <= last /\ start + MaxOf(HunkLength(hunk, side), 1) - 1 >= first

LineNo(line, side) == IF side = "old" THEN line.old ELSE line.new
IsChanged(line) == line.kind \in {"add", "delete"}

-----------------------------------------------------------------------------
(* Committed secrets: of each kind the first added line of a file *)

Added(hunk) == SelectSeq(hunk.lines, LAMBDA l : l.kind = "add")
BlockedKinds == {"key", "begin"}
SecretLine(file, kind) ==
  LET lines == SelectSeq(FlattenSeq([n \in DOMAIN file.hunks |-> Added(file.hunks[n])]), LAMBDA l : l.text = kind)
  IN IF lines = <<>> THEN 0 ELSE lines[1].new

collectSecretFindings(structured) ==
  {s \in {[path |-> f.path, kind |-> k, line |-> SecretLine(f, k)] : f \in ToSet(structured), k \in BlockedKinds} :
     s.line # 0}

-----------------------------------------------------------------------------
(* A coverage report on the patch *)

Instrumented(report, path) == {r.line : r \in {q \in report.lines : q.path = path}}
Covered(report, path) == {r.line : r \in {q \in report.lines : q.path = path /\ q.hit}}

HunkCoverage(report, path, hunk) ==
  LET measuredLines == {l.new : l \in ToSet(Added(hunk))} \cap Instrumented(report, path)
      uncovered == SetToSortSeq(measuredLines \ Covered(report, path), <)
  IN [at |-> formatHunkHeader(hunk), changed |-> Cardinality(measuredLines),
      covered |-> measuredLines \cap Covered(report, path),
      uncovered |-> SubSeq(uncovered, 1, MinOf(Len(uncovered), MaxUncovered)),
      truncated |-> Len(uncovered) > MaxUncovered]

\* A hunk and a file with no measured line have no entry.
intersectCoverageWithDiff(structured, report) ==
  LET hunksOf(f) == SelectSeq([n \in DOMAIN f.hunks |-> HunkCoverage(report, f.path, f.hunks[n])],
                              LAMBDA h : h.changed > 0)
  IN SelectSeq([n \in DOMAIN structured |-> [path |-> structured[n].path, hunks |-> hunksOf(structured[n])]],
               LAMBDA f : f.hunks # <<>>)

coverageHunkForAnchor(path, header) ==
  LET n == First(measured.files, LAMBDA f : f.path = path)
      hunks == IF n = 0 THEN <<>> ELSE measured.files[n].hunks
      same == SelectSeq(hunks, LAMBDA h : h.at = header)
  IN IF ~measured.report.fresh THEN <<>>
     ELSE IF header # <<>> THEN same
     ELSE IF Len(hunks) = 1 THEN hunks ELSE <<>>

gutterFor(line, coverage) ==
  CASE coverage = <<>> \/ line.kind \in {"delete", "elision"} -> "blank"
    [] line.kind = "add" /\ coverage # <<>> ->
         (IF line.new \in ToSet(coverage[1].uncovered) THEN "uncovered"
          ELSE IF line.new \in coverage[1].covered THEN "covered"
          ELSE IF coverage[1].truncated THEN "unknown" ELSE "no data")
    [] OTHER -> "no data"

-----------------------------------------------------------------------------
(* The anchor of a decision *)

NoAnchor == [path |-> "none", oldPath |-> "none", header |-> <<>>, first |-> 0, last |-> 0, side |-> "none"]

\* The last section that knows a path decides, as its source or as its file.
buildDiffIndex(path) ==
  LET n == SelectLastInSeq(files, LAMBDA f : path \in {f.path, f.oldPath})
  IN IF n = 0 THEN <<>>
     ELSE <<[file |-> files[n], side |-> IF files[n].oldPath = path \/ files[n].status = "D" THEN "old" ELSE "new"]>>

RangeEnd(first, last) == IF last >= first THEN last ELSE first
hunkForEvidence(f, e, side) ==
  IF e.first = 0 THEN <<>>
  ELSE SelectSeq(f.hunks, LAMBDA h : hunkOverlapsRange(h, side, e.first, RangeEnd(e.first, e.last)))
firstChangedHunk(f) == SelectSeq(f.hunks, LAMBDA h : \E l \in ToSet(h.lines) : IsChanged(l))

\* The lines a hunk changed on a side, 0 and 0 if none.
changedLineRange(hunk, side) ==
  LET wanted == IF side = "old" THEN "delete" ELSE "add"
      lines == {LineNo(l, side) : l \in {k \in ToSet(hunk.lines) : k.kind = wanted}} \ {0}
  IN IF lines = {} THEN <<0, 0>> ELSE <<Min(lines), Max(lines)>>

queueAnchorForEvidence(e) ==
  LET entry == buildDiffIndex(e.path)
      range == IF e.first = 0 THEN <<0, 0>> ELSE <<e.first, RangeEnd(e.first, e.last)>>
      side == entry[1].side
      f == entry[1].file
      path == IF side = "old" /\ f.oldPath # "none" THEN f.oldPath ELSE f.path
      own == hunkForEvidence(f, e, side)
      hunk == IF own # <<>> \/ e.first # 0 \/ e.aggregate THEN own ELSE firstChangedHunk(f)
      lines == IF e.first # 0 \/ hunk = <<>> THEN range ELSE changedLineRange(hunk[1], side)
  IN IF entry = <<>> THEN [NoAnchor EXCEPT !.path = e.path, !.first = range[1], !.last = range[2]]
     ELSE [path |-> path, oldPath |-> IF f.oldPath = path THEN "none" ELSE f.oldPath,
           header |-> IF hunk = <<>> THEN <<>> ELSE formatHunkHeader(hunk[1]),
           first |-> lines[1], last |-> lines[2], side |-> side]

-----------------------------------------------------------------------------
(* The excerpt *)

NoExcerpt == [path |-> "none", oldPath |-> "none", header |-> <<>>, lines |-> <<>>]

\* Sections that may be meant, the closest first.
candidateFiles(a) ==
  LET byNewPath == SelectSeq(files, LAMBDA f : f.path = a.path)
      byRenameSource == SelectSeq(files, LAMBDA f : f.oldPath = a.path)
      byOldPath == SelectSeq(files, LAMBDA f : a.oldPath # "none" /\ a.oldPath \in {f.path, f.oldPath})
  IN (IF a.side = "old" THEN byRenameSource \o byNewPath ELSE byNewPath \o byRenameSource) \o byOldPath

sideForAnchor(f, a) ==
  IF a.side # "none" THEN a.side
  ELSE IF f.status = "D" \/ (f.oldPath = a.path /\ f.path # a.path) THEN "old" ELSE "new"

selectHunk(f, a) ==
  LET side == sideForAnchor(f, a)
      end == RangeEnd(a.first, a.last)
      overlapping == SelectSeq(f.hunks, LAMBDA h : a.first # 0 /\ hunkOverlapsRange(h, side, a.first, end))
      byHeader == SelectSeq(f.hunks, LAMBDA h : a.header # <<>> /\ formatHunkHeader(h) = a.header)
  IN CASE overlapping # <<>> -> overlapping
       [] overlapping = <<>> /\ byHeader # <<>> -> byHeader
       [] OTHER -> IF a.first # 0 \/ a.header # <<>> THEN <<>> ELSE firstChangedHunk(f)

focusIndexForAnchor(hunk, a, side) ==
  LET anchored == First(hunk.lines, LAMBDA l : a.first # 0 /\ LineNo(l, side) \in a.first..RangeEnd(a.first, a.last))
      changed == First(hunk.lines, IsChanged)
  IN IF anchored # 0 THEN anchored ELSE IF changed # 0 THEN changed ELSE 1

\* The lines around the focus; two are kept for the marks of what is left out.
Elision == <<makeLine("elision", "plain", 0, 0)>>
structuredWindow(hunk, a, side) ==
  LET most == MaxOf(4, MaxExcerpt)
      room == MaxOf(1, most - 2)
      wanted == MaxOf(0, focusIndexForAnchor(hunk, a, side) - 1 - room \div 2)
      end == MinOf(Len(hunk.lines), wanted + room)
      start == MaxOf(0, end - room)
  IN IF Len(hunk.lines) <= most THEN hunk.lines
     ELSE (IF start > 0 THEN Elision ELSE <<>>) \o SubSeq(hunk.lines, start + 1, end)
          \o (IF end < Len(hunk.lines) THEN Elision ELSE <<>>)

\* Every line shown is redacted again, by itself.
formatDiffLine(line) == IF line.text \in BlockedKinds THEN [line EXCEPT !.text = "redacted"] ELSE line

resolveStructuredExcerpt(a) ==
  LET candidates == candidateFiles(a)
      n == First(candidates, LAMBDA f : selectHunk(f, a) # <<>>)
      f == candidates[n]
      hunk == selectHunk(f, a)[1]
      lines == structuredWindow(hunk, a, sideForAnchor(f, a))
      coverage == coverageHunkForAnchor(a.path, a.header)
  IN IF n = 0 THEN NoExcerpt
     ELSE [path |-> f.path, oldPath |-> f.oldPath, header |-> formatHunkHeader(hunk),
           lines |-> [k \in DOMAIN lines |-> [line |-> formatDiffLine(lines[k]), mark |-> gutterFor(lines[k], coverage)]]]

-----------------------------------------------------------------------------
(* The comment *)

NoComment == [path |-> "none", line |-> 0, start |-> 0, side |-> "none"]

\* The lines of a side in every section of a path.
DiffLines(path, side) ==
  {LineNo(l, side) : l \in UNION {ToSet(h.lines) : h \in UNION {ToSet(f.hunks) : f \in
      {g \in ToSet(files) : path \in {g.path, g.oldPath}}}}} \ {0}

\* c is a suggested comment [path, first, last, side]; without a patch its side
\* is taken as it is.
resolveAnchor(c, known) ==
  LET end == IF c.last = 0 THEN c.first ELSE c.last
      order == IF c.side = "old" THEN <<"old", "new">> ELSE <<"new", "old">>
      n == IF known THEN First(order, LAMBDA s : end \in DiffLines(c.path, s)) ELSE 1
      start == IF c.first # end /\ (known => c.first \in DiffLines(c.path, order[n])) THEN c.first ELSE 0
  IN IF n = 0 THEN NoComment ELSE [path |-> c.path, line |-> end, start |-> start, side |-> order[n]]

\* A comment drafted in the walkthrough carries the anchor, one drafted from
\* the evidence has no side.
SuggestedComments ==
  {[path |-> anchor.path, first |-> anchor.first, last |-> anchor.last, side |-> anchor.side],
   [path |-> cited.path, first |-> cited.first, last |-> cited.last, side |-> "none"]}

-----------------------------------------------------------------------------
NoReport == [fresh |-> FALSE, lines |-> {}]

Init ==
  /\ compared \in Diffs /\ daStage = "compared"
  /\ files = <<>> /\ secrets = {} /\ measured = [report |-> NoReport, files |-> <<>>]
  /\ cited = [path |-> "none", first |-> 0, last |-> 0, aggregate |-> FALSE]
  /\ anchor = NoAnchor /\ excerpt = NoExcerpt
  /\ comment = [suggested |-> NoAnchor, known |-> FALSE, at |-> NoComment]

\* The secrets are looked for in the patch as it was, the rest reads what was kept.
Collect(redact) ==
  /\ daStage = "compared" /\ daStage' = "collected"
  /\ LET patch == filterIgnoredDiff(collectDiff(compared))
     IN /\ secrets' = collectSecretFindings(parseStructuredDiff(patch))
        /\ files' = parseStructuredDiff(IF redact THEN redactSecrets(patch) ELSE patch)
  /\ UNCHANGED <<compared, measured, cited, anchor, excerpt, comment>>

MeasureCoverage(report) ==
  /\ daStage = "collected" /\ daStage' = "measured"
  /\ measured' = IF files = <<>> THEN [report |-> NoReport, files |-> <<>>]
                 ELSE [report |-> report, files |-> intersectCoverageWithDiff(files, report)]
  /\ UNCHANGED <<compared, files, secrets, cited, anchor, excerpt, comment>>

BuildQueueItem(e) ==
  /\ daStage = "measured" /\ daStage' = "queued"
  /\ cited' = e /\ anchor' = queueAnchorForEvidence(e)
  /\ UNCHANGED <<compared, files, secrets, measured, excerpt, comment>>

RenderItem ==
  /\ daStage = "queued" /\ daStage' = "rendered"
  /\ excerpt' = resolveStructuredExcerpt(anchor)
  /\ UNCHANGED <<compared, files, secrets, measured, cited, anchor, comment>>

\* A comment without a line stays in the body of the review.  The patch may have
\* been removed from the output directory by then.
DraftReview(c, known) ==
  /\ daStage = "rendered" /\ daStage' = "drafted"
  /\ comment' = [suggested |-> c, known |-> known,
                 at |-> IF c.path # "none" /\ c.first # 0 THEN resolveAnchor(c, known) ELSE NoComment]
  /\ UNCHANGED <<compared, files, secrets, measured, cited, anchor, excerpt>>

Next ==
  \/ \E redact \in BOOLEAN : Collect(redact)
  \/ \E report \in Reports : MeasureCoverage(report)
  \/ \E e \in Evidence : BuildQueueItem(e)
  \/ RenderItem
  \/ \E c \in SuggestedComments, known \in BOOLEAN : DraftReview(c, known)

Spec == Init /\ [][Next]_daVars

TypeOK ==
  /\ daStage \in {"compared", "collected", "measured", "queued", "rendered", "drafted"}
  /\ compared \in Diffs
  /\ \A f \in ToSet(files) : f.status \in {"A", "C", "D", "R", "modified"} /\ f.path \notin {"none", "null"}
  /\ anchor.side \in {"old", "new", "none"} /\ comment.at.side \in {"old", "new", "none"}

-----------------------------------------------------------------------------
(* What the coordinates promise, told from the comparison alone *)

Sections == SelectSeq(FlattenSeq(compared), LAMBDA x : {x.old, x.new} \cap Ignored = {})
PathOf(x) == IF x.new = "null" THEN x.old ELSE x.new
PrintedAt(x) == IF x.how = "binary" THEN {} ELSE UNION {HunkSpan(x.script, n) : n \in DOMAIN HunkOpens(x.script)}
Numbered(x, i) ==
  makeLine(x.script[i].op, x.script[i].text,
           IF x.script[i].op = "add" THEN 0 ELSE OldUpTo(x.script, i),
           IF x.script[i].op = "delete" THEN 0 ELSE NewUpTo(x.script, i))
NumberedLines(x) == {Numbered(x, i) : i \in PrintedAt(x)}
\* git() may trim a blank line of context from the end of a part.
FirmLines(x) == {l \in NumberedLines(x) : IsChanged(l) \/ l.text # "blank"}
ChangedLines(x) == {l \in NumberedLines(x) : IsChanged(l)}
Has(x, path) == path = x.new \/ (path = x.old /\ x.how # "copy")

\* No private key is printed, so redaction keeps every line of the patch.
Unfolded == \A x \in ToSet(Sections) : \A i \in PrintedAt(x) : x.script[i].text # "begin"
ShownText(text) == IF text \in BlockedKinds THEN {text, "redacted"} ELSE {text}
SameLine(l, m) == l.kind = m.kind /\ l.old = m.old /\ l.new = m.new /\ l.text \in ShownText(m.text)

\* Every section is one file under its paths, and its lines are numbered as the
\* two versions number them: every change is there once, and beside the changes
\* only lines git printed.
FilesAreTrue ==
  /\ Len(files) = Len(Sections)
  /\ \A n \in DOMAIN files :
       LET x == Sections[n]
           lines == FlattenSeq([k \in DOMAIN files[n].hunks |-> files[n].hunks[k].lines])
       IN /\ files[n].path = PathOf(x)
          /\ files[n].oldPath = IF x.how = "rename" THEN x.old ELSE "none"
          /\ \A l \in ToSet(lines) : \E m \in NumberedLines(x) : SameLine(l, m)
          /\ \A m \in ChangedLines(x) : \E l \in ToSet(lines) : SameLine(l, m)
          /\ Cardinality(ToSet(lines)) = Len(lines)

\* A secret is reported for a file exactly if the change adds one to it, and at
\* a line that holds it.
SecretsAreLocated ==
  \A x \in ToSet(Sections), k \in BlockedKinds :
    LET added == {l.new : l \in {m \in NumberedLines(x) : m.kind = "add" /\ m.text = k}}
    IN added # {} <=> \E s \in secrets : s.path = PathOf(x) /\ s.kind = k /\ s.line \in added

\* A hunk an item names changes a file of that path, and holds a line of the
\* item's range on its side.
AnchorIsTrue ==
  anchor.header # <<>> =>
    \E x \in ToSet(Sections) :
      /\ IF anchor.side = "old" THEN anchor.path = x.old ELSE anchor.path = x.new
      /\ \E n \in DOMAIN HunkOpens(x.script) :
           /\ PrintedHeader(x.script, HunkSpan(x.script, n)) = anchor.header
           /\ anchor.first # 0 => \E i \in HunkSpan(x.script, n) :
                LineNo(Numbered(x, i), anchor.side) \in anchor.first..anchor.last

Shown == [k \in DOMAIN excerpt.lines |-> excerpt.lines[k].line]
ShownSections == {x \in ToSet(Sections) : PathOf(x) = excerpt.path /\ \A l \in ToSet(Shown) :
                    l.kind = "elision" \/ \E m \in NumberedLines(x) : SameLine(l, m)}
LinesAt(path, side, LinesOf(_)) ==
  {LineNo(l, side) : l \in UNION {LinesOf(x) : x \in {y \in ToSet(Sections) : Has(y, path)}}} \ {0}

\* A path that one section leaves and another creates.
Reused(path) == Cardinality({n \in DOMAIN Sections : Has(Sections[n], path)}) > 1

\* An excerpt is short, is of the file of its item, and shows a line of the
\* item's range.
ExcerptIsTrue ==
  excerpt # NoExcerpt =>
    /\ Len(Shown) <= MaxOf(4, MaxExcerpt) /\ ShownSections # {}
    /\ ~Reused(anchor.oldPath) => \E x \in ShownSections : Has(x, anchor.path)
    /\ anchor.side # "none" /\ anchor.first \in LinesAt(anchor.path, anchor.side, FirmLines) =>
         \E l \in ToSet(Shown) : LineNo(l, anchor.side) \in anchor.first..anchor.last

\* A line is marked only as a current report says of it, and the report is not
\* silent about a line of the hunk the item names.
MarkIsTrue(m) ==
  LET report == measured.report
      at(hit) == \E r \in report.lines : r.path = excerpt.path /\ r.line = m.line.new /\ r.hit = hit
  IN /\ m.mark \in {"covered", "uncovered"} => report.fresh /\ m.line.kind = "add"
     /\ m.mark = "covered" => at(TRUE)
     /\ m.mark = "uncovered" => at(FALSE) /\ ~at(TRUE)
     /\ /\ m.mark = "no data" /\ m.line.kind = "add"
        /\ excerpt.header = anchor.header /\ ~Reused(anchor.path)
        => ~at(FALSE)
MarksAreTrue ==
  excerpt.path = anchor.path \/ ~Reused(anchor.path) => \A m \in ToSet(excerpt.lines) : MarkIsTrue(m)

\* A comment stands on a line of the patch of its path, on that side; it is left
\* to the body only if there is none; and one drafted for an item whose hunk
\* holds its last line stands on that line, on the item's side.
CommentIsTrue ==
  LET c == comment.suggested
      at == comment.at
      line == IF c.last = 0 THEN c.first ELSE c.last
  IN daStage = "drafted" /\ comment.known =>
       /\ at = NoComment => \A side \in {"old", "new"} : line \notin LinesAt(c.path, side, FirmLines)
       /\ at # NoComment => /\ at.path = c.path /\ at.line = line
                            /\ {at.line, at.start} \ {0} \subseteq LinesAt(c.path, at.side, NumberedLines)
       /\ c.side # "none" /\ line \in LinesAt(c.path, c.side, FirmLines) => at.side = c.side

\* Whatever points at a line of the change points at a line of it: what git
\* compared is what is numbered, secrets are reported where they stand, and
\* anchors, excerpts, marks and comments name lines of their file and side.
AnchorsAreTrue ==
  daStage # "compared" =>
    /\ SecretsAreLocated
    /\ Unfolded => FilesAreTrue /\ AnchorIsTrue /\ ExcerptIsTrue /\ MarksAreTrue /\ CommentIsTrue
=============================================================================
