----------------------------- MODULE MCAnchors -----------------------------
(***************************************************************************)
(* The part "anchors" of MCReview: one line of context, every script of up *)
(* to four lines and some longer ones, secrets among them, and changes     *)
(* whose sections share a path.                                            *)
(***************************************************************************)
EXTENDS Integers, Sequences, FiniteSets

VARIABLES compared, daStage, files, secrets, measured, cited, anchor, excerpt, comment

daVars == <<compared, daStage, files, secrets, measured, cited, anchor, excerpt, comment>>

DaLine(op, text) == [op |-> op, text |-> text]
DaOps == {"context", "add", "delete"}
DaPlain(ops) == [n \in DOMAIN ops |-> DaLine(ops[n], "plain")]
DaSection(old, new, how, script, nonl) == [old |-> old, new |-> new, how |-> how, script |-> script, nonl |-> nonl]
DaChange(path, script) == DaSection(path, path, "change", script, FALSE)
DaOne(x) == <<<<x>>>>

DaK == DaLine("context", "plain")
DaB == DaLine("context", "blank")
DaA == DaLine("add", "plain")
DaD == DaLine("delete", "plain")
DaShort == UNION {[1..n -> DaOps] : n \in 1..4}

\* Long hunks, two hunks, lines of dashes, blank ends and secrets.
DaLong ==
  {<<DaA, DaA, DaA, DaA, DaA, DaA>>, <<DaK, DaD, DaD, DaD, DaA, DaK>>, <<DaA, DaK, DaK, DaK, DaD, DaK, DaA>>,
   <<DaD, DaK, DaK, DaK, DaK, DaA, DaA>>, <<DaK, DaK, DaD, DaK, DaK, DaA, DaK, DaK, DaK, DaD>>,
   <<DaK, DaLine("delete", "dash"), DaLine("add", "dash"), DaK>>, <<DaD, DaB>>, <<DaB, DaA, DaB, DaB>>,
   <<DaA, DaLine("add", "key"), DaK, DaK, DaK, DaLine("add", "key")>>,
   <<DaLine("delete", "key"), DaLine("context", "key"), DaA>>,
   <<DaLine("add", "begin"), DaA, DaLine("add", "end"), DaA>>, <<DaD, DaLine("context", "begin"), DaK, DaK, DaA>>,
   <<DaLine("delete", "begin"), DaA, DaK, DaK, DaK, DaLine("add", "begin"), DaA>>}

DaTwo == {<<DaA, DaK, DaK, DaK, DaA>>, <<DaK, DaD, DaK>>, <<DaK, DaK, DaK, DaA>>}
DaTwoLines == {<<DaA, DaA>>, <<DaA, DaA, DaA, DaA, DaA>>}
DaDiffs ==
  {DaOne(DaChange("a", DaPlain(o))) : o \in DaShort}
  \cup {DaOne(DaChange("a", s)) : s \in DaLong}
  \cup {DaOne(DaSection("null", "a", "change", s, n)) : s \in DaTwoLines \cup {<<>>}, n \in BOOLEAN}
  \cup {DaOne(DaSection("a", "null", "change", s, TRUE)) : s \in {<<>>, <<DaD, DaD>>, <<DaD, DaD, DaD, DaD, DaD>>}}
  \cup {DaOne(DaSection("a", "b", how, s, FALSE)) : how \in {"rename", "copy"},
          s \in {<<DaK>>, <<DaK, DaD, DaK>>, <<DaA, DaK, DaK, DaK, DaD, DaA>>}}
  \cup {DaOne(DaSection("a", "a", "binary", <<>>, FALSE))}
  \* A file that is ignored, before, after and behind another.
  \cup {<<<<DaChange("a", s), DaChange("private", t)>>>> : s \in DaTwo, t \in DaTwo \cup {<<DaLine("add", "key")>>}}
  \cup {<<<<DaChange("private", <<DaA, DaLine("add", "begin")>>)>>, <<DaChange("a", t)>>>> : t \in DaTwo}
  \cup {<<<<DaSection("private", "a", "rename", <<DaK, DaA>>, FALSE)>>>>}
  \* Two files; one in range and working tree; a renamed path taken again; a file renamed twice.
  \cup {<<<<DaChange("a", s), DaChange("b", t)>>>> : s, t \in DaTwo}
  \cup {<<<<DaChange("a", s)>>, <<DaChange("a", t)>>>> : s, t \in DaTwo}
  \cup {<<<<DaSection("a", "b", "rename", s, FALSE)>>, <<DaSection("null", "a", "change", t, FALSE)>>>> :
          s \in DaTwo, t \in DaTwoLines}
  \cup {<<<<DaSection("b", "a", "rename", s, FALSE)>>, <<DaSection("a", "c", "rename", t, FALSE)>>>> :
          s, t \in DaTwo}

DaCite(path, first, last, aggregate) == [path |-> path, first |-> first, last |-> last, aggregate |-> aggregate]
DaEvidence ==
  {DaCite("a", f, l, FALSE) : f \in {1, 3, 5}, l \in {0, 4, 6}} \cup {DaCite("a", 0, 0, b) : b \in BOOLEAN}
  \cup {DaCite("b", f, f, FALSE) : f \in {0, 2, 4}}
DaHit(path, line, hit) == [path |-> path, line |-> line, hit |-> hit]
DaReports ==
  {[fresh |-> f, lines |-> {DaHit("a", 1, TRUE), DaHit("a", 1, FALSE), DaHit("a", 2, FALSE),
                                  DaHit("a", 3, FALSE), DaHit("a", 5, TRUE)}] :
     f \in BOOLEAN} \cup {[fresh |-> TRUE, lines |-> {DaHit("b", 2, TRUE), DaHit("a", 6, FALSE)}]}

Anchors == INSTANCE DiffAnchors WITH
  Diffs <- DaDiffs, Evidence <- DaEvidence, Reports <- DaReports, Ignored <- {"private"}, Context <- 1, MaxExcerpt <- 5, MaxUncovered <- 1

AnchorsIdle ==
  /\ compared = <<>> /\ daStage = "none" /\ files = <<>> /\ secrets = {} /\ measured = <<>> /\ cited = <<>>
  /\ anchor = <<>> /\ excerpt = <<>> /\ comment = <<>>
=============================================================================
