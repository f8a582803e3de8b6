--------------------------- MODULE MCConversation ---------------------------
(***************************************************************************)
(* Reading the conversation: instances of its parts, each over its own     *)
(* inputs, for MCInputs to compose.                                        *)
(***************************************************************************)
EXTENDS Integers, Sequences, SequencesExt

(***************************************************************************)
(* Commands: a wrapper, a skeleton of two halves (the launcher and what it *)
(* runs), and units after each half.  A unit is an option with its operand *)
(* or a positional; none of the first kind narrows what runs, each of those    *)
(* that select does, wherever it stands.                                   *)
(***************************************************************************)
VARIABLES wrapper, skeleton, pre, post

cmVars == <<wrapper, skeleton, pre, post>>

CmOptions ==
  {"--", "-C", "--config", "--registry", "--filter", "-F", "-w", "--reporter", "--verbose", "-t", "--grep",
   "--testPathPattern", "--project", "--onlyChanged", "-r", "--import", "--conditions", "--test",
   "--test-only", "--test-shard", "--test-name-pattern", "--test-reporter", "--prefix", "--dir",
   "--group", "--locked", "-k", "-m", "--lf", "--collect-only", "--maxfail", "--rootdir", "-q", "-count",
   "-run", "-short", "-list", "--jobs", "--lib", "-p", "--no-run", "--tests", "-x", "--dry-run", "--info",
   "-Dtest", "-pl", "-DskipTests", "-N", "-s", "--include", "--since", "--all", "--help"}
CmShape(w) ==
  CASE w \in {"tests/a.test.ts", "src/a"} -> {"jsTarget", "path"}
    [] w = "tests/*.test.ts" -> {"jsTarget", "glob", "broadGlob", "path"}
    [] w = "./a/*.test.ts" -> {"jsTarget", "glob", "path"}
    [] w \in {"test_a.py", "a.py::t"} -> {"testFile"}
    [] w = "./..." -> {"path", "goAll"}
    [] w = "./pkg" -> {"path"}
    [] w = ":app:test" -> {"taskPath"}
    [] OTHER -> {}

Cmd == INSTANCE CommandClassification WITH Options <- CmOptions, Shape <- CmShape

U(ws) == [i \in DOMAIN ws |-> Cmd!Word(ws[i])]
V(w, v) == <<Cmd!With(w, v)>>

Wrappers ==
  {<<>>, U(<<"rtk">>), U(<<"env">>) \o V("CI", "1"), U(<<"docker", "exec", "box">>)}

JsAfter == {U(<<"--verbose">>), V("--reporter", "dot"), U(<<"--config", "src/a">>), U(<<"--">>),
            U(<<"tests/*.test.ts">>)}
JsSelects == {U(<<"-t", "name">>), V("--grep", "x"), U(<<"tests/a.test.ts">>), U(<<"--testPathPattern", "x">>),
              V("--project", "x"), U(<<"--onlyChanged">>), V("--dir", "src/a")}
ManagerBefore == {U(<<"-C", ".">>), U(<<"--registry", "url">>), V("--reporter", "dot")}
ManagerSelects == {U(<<"--filter", "web">>), V("-F", "web"), U(<<"-C", "packages/a">>)}

Skeleton(first, second, before, preSelects, after, postSelects) ==
  [first |-> first, second |-> second, before |-> before, preSelects |-> preSelects,
   after |-> after, postSelects |-> postSelects]

Skeletons ==
  {Skeleton(U(<<m>>), s, ManagerBefore, ManagerSelects, JsAfter, JsSelects) :
     m \in {"pnpm", "yarn"}, s \in {U(<<"test">>), U(<<"run", "--verbose", "test:ci">>), U(<<"exec", "--", "vitest">>)}}
  \cup {Skeleton(U(<<"npm">>), U(<<"run", "test">>), ManagerBefore, ManagerSelects \cup {U(<<"-w", "web">>)},
                 JsAfter \ {U(<<"--">>)}, JsSelects \cup {U(<<"--prefix", "packages/a">>)}),
        Skeleton(U(<<"yarn">>), U(<<"workspaces", "foreach", "--all", "run", "test">>), {}, {}, JsAfter, JsSelects),
        Skeleton(U(<<"yarn", "workspaces", "foreach">>), U(<<"run", "test">>), {U(<<"--all">>)},
                 {U(<<"--include", "web">>), V("--since", "main")}, {}, {}),
        Skeleton(U(<<"node">>), U(<<"--test">>), {U(<<"-r", "src/a">>), V("--conditions", "x")},
                 {U(<<"--test-only">>), V("--test-shard", "1/2"), U(<<"--test-name-pattern", "x">>)},
                 {U(<<"--test-reporter", "spec">>), U(<<"--">>), U(<<"tests/*.test.ts">>)},
                 {U(<<"tests/a.test.ts">>), U(<<"./a/*.test.ts">>)}),
        Skeleton(U(<<"uv", "run">>), U(<<"python", "-m", "pytest">>), {U(<<"--locked">>), U(<<"--group", "dev">>)}, {},
                 {U(<<"-q">>), V("--maxfail", "1"), U(<<"--rootdir", "test_a.py">>)},
                 {U(<<"-k", "x">>), U(<<"-m", "slow">>), U(<<"test_a.py">>), U(<<"--lf">>), U(<<"--collect-only">>)}),
        Skeleton(U(<<"go", "test">>), <<>>, {}, {}, {U(<<"./...">>), U(<<"-count", "1">>)},
                 {U(<<"./pkg">>), U(<<"-run", "X">>), U(<<"-short">>), U(<<"-list", "X">>)}),
        Skeleton(U(<<"cargo">>), U(<<"test">>), {}, {}, {U(<<"--jobs", "4">>), V("--jobs", "4")},
                 {U(<<"name">>), U(<<"--lib">>), U(<<"-p", "crate">>), U(<<"--no-run">>)}),
        Skeleton(U(<<"gradle">>), U(<<"test">>), {U(<<"--info">>)}, {U(<<"-x", "test">>)}, {U(<<"clean">>)},
                 {U(<<"--tests", "X">>), U(<<":app:test">>), U(<<"--dry-run">>), U(<<"--help">>)}),
        Skeleton(U(<<"mvn">>), U(<<"test">>), {U(<<"-N">>)}, {U(<<"-DskipTests">>), V("-Dtest", "X")},
                 {U(<<"clean">>)}, {U(<<"-pl", "m">>)}),
        Skeleton(U(<<"python", "-m", "unittest">>), U(<<"discover">>), {}, {}, {U(<<"-q">>), U(<<"-s", ".">>)},
                 {U(<<"-k", "X">>)})}

Line(p, q) ==
  wrapper \o skeleton.first \o FlattenSeq(p) \o skeleton.second \o FlattenSeq(q)
KindOf(p, q) == Cmd!Classify(Line(p, q), {})

CommandsInit ==
  /\ wrapper \in Wrappers /\ skeleton \in Skeletons
  /\ pre = <<>> /\ post = <<>>

CommandsIdle == wrapper = "idle" /\ skeleton = "idle" /\ pre = "idle" /\ post = "idle"

AddBefore == Len(pre) < 1 /\ (\E u \in skeleton.before : pre' = Append(pre, u)) /\ UNCHANGED <<wrapper, skeleton, post>>
AddAfter == Len(post) < (IF wrapper = <<>> THEN 2 ELSE 1) /\ (\E u \in skeleton.after : post' = Append(post, u)) /\ UNCHANGED <<wrapper, skeleton, pre>>
CommandsNext == AddBefore \/ AddAfter

\* src/core/command-classify.ts:319-320: "a clearly narrowed run being FOCUSED": wherever
\* a selector stands among the other options of a whole-suite run, with or without a
\* wrapper, the run is no longer a broad one, which alone could suppress a test gap.
NarrowedRunIsFocused ==
  /\ KindOf(pre, post) = "broad"
  /\ \A i \in 0..Len(pre), u \in skeleton.preSelects :
       KindOf(InsertAt(pre, i + 1, u), post) # "broad"
  /\ \A i \in 0..Len(post), u \in skeleton.postSelects :
       KindOf(pre, InsertAt(post, i + 1, u)) # "broad"

-----------------------------------------------------------------------------
(***************************************************************************)
(* Sessions: one that is being written, two of the same store, one of the  *)
(* other store without timestamps and one of another repository.           *)
(***************************************************************************)
VARIABLES lines, clock, headAt, dirty, found

diVars == <<lines, clock, headAt, dirty, found>>

DiLine(op, f, c, t) == [op |-> op, file |-> f, call |-> c, ts |-> t]
DiHistories(s) ==
  CASE s = "x2" -> {<<DiLine("edit", "f", 0, 1), DiLine("edit", "g", 0, 2)>>}
    [] s = "x1" -> {[i \in 1..4 |-> DiLine("mention", "f", 0, 0)],
                    <<DiLine("call", "f", 1, 0), DiLine("failed", "none", 1, 0)>>,
                    <<DiLine("edit", "f", 0, 0), DiLine("edit", "g", 0, 0)>>}
    [] s = "c2" -> {<<DiLine("mention", "f", 0, 1)>>,
                    <<DiLine("call", "f", 1, 1), DiLine("passed", "none", 1, 2)>>}
    [] s = "c3" -> {<<DiLine("edit", "f", 0, 1), DiLine("read", "g", 0, 1)>>}
    [] OTHER -> {<<>>}
DiPath(s) == CASE s = "c1" -> 1 [] s = "c2" -> 2 [] s = "c3" -> 3 [] s = "x1" -> 4 [] s = "x2" -> 5

Discovery == INSTANCE SessionDiscovery WITH
  Claude <- {"c1", "c2", "c3"}, Codex <- <<"x1", "x2">>, Foreign <- {"x2"}, Untimed <- {"x1"},
  PathRank <- DiPath, Files <- {"f", "g"}, Histories <- DiHistories, Growing <- {"c1"},
  MaxLines <- 4, MaxClock <- 5, FileLimit <- 3, TotalLimit <- 6, ProbeLimit <- 2

DiscoveryIdle == lines = "idle" /\ clock = 0 /\ headAt = 0 /\ dirty = FALSE /\ found = "idle"

-----------------------------------------------------------------------------
(***************************************************************************)
(* Segments: up to three leaves, or a leaf and a group of two.             *)
(***************************************************************************)
VARIABLES command, works, opens, sgKept, exitStatus, ran, observed

sgVars == <<command, works, opens, sgKept, exitStatus, ran, observed>>

SgLeaf(n, r) == [name |-> n, parts |-> <<>>, ops |-> <<>>, redirected |-> r]
SgChain(parts, ops) == [parts |-> parts, ops |-> ops]
SgOps == {"&&", "||", "|", ";", "&", "newline"}
SgLeaves == {SgLeaf(n, FALSE) : n \in {"t1", "t2", "e"}}
SgDistinct(c) == \A i, j \in DOMAIN c.parts : i # j => c.parts[i].name # c.parts[j].name
SgPairs(parts, ops) == {c \in {SgChain(<<p, q>>, <<o>>) : p, q \in parts, o \in ops} : SgDistinct(c)}
SgGroups ==
  {[name |-> "group", parts |-> c.parts, ops |-> c.ops, redirected |-> r] :
     c \in SgPairs(SgLeaves, {"&&", "||", ";", "newline"}), r \in BOOLEAN}
SgCommands ==
  {SgChain(<<p>>, <<>>) : p \in SgGroups \cup {SgLeaf("t1", r) : r \in BOOLEAN}}
  \cup SgPairs(SgLeaves, SgOps)
  \cup {SgChain(<<p, SgLeaf("nothing", FALSE)>>, <<o>>) : p \in SgLeaves, o \in {";", "&", "newline"}}
  \cup {c \in {SgChain(<<p, q, r>>, <<o, u>>) : p, q, r \in SgLeaves, o, u \in SgOps} : SgDistinct(c)}
  \cup {SgChain(<<g, SgLeaf("e", FALSE)>>, <<o>>) : g \in SgGroups, o \in {";", "&&", "|", "newline"}}
  \cup {SgChain(<<SgLeaf("e", FALSE), g>>, <<o>>) : g \in SgGroups, o \in {";", "||", "|", "newline"}}

Segments == INSTANCE CommandSegments WITH
  Validations <- {"t1", "t2"}, Others <- {"e"}, Commands <- SgCommands, status <- exitStatus, kept <- sgKept

SegmentsIdle ==
  /\ command = "idle" /\ works = {} /\ opens = FALSE /\ sgKept = 0
  /\ exitStatus = "idle" /\ ran = {} /\ observed = {}

-----------------------------------------------------------------------------
(***************************************************************************)
(* Brief: a goal, two corrections of it and a claim of the agent, said in  *)
(* any order; four of five events are analysed, three in one call.         *)
(***************************************************************************)
VARIABLES brStage, events, partial, brief

brVars == <<brStage, events, partial, brief>>

BrSay(a, t, m) == [actor |-> a, text |-> t, marks |-> m]

Brief == INSTANCE ConversationBrief WITH
  Utterances <- {BrSay("user", "goal", {"constraint"}), BrSay("user", "fix", {"correction"}),
                 BrSay("user", "redo", {"correction"}), BrSay("assistant", "did", {"claim"})},
  MaxEvents <- 5, MaxSelected <- 4, UserBudget <- 3, UserHead <- 1, ChunkSize <- 3, MaxItems <- 2,
  AnswerTexts <- {"fix"}, stage <- brStage

BriefIdle == brStage = "idle" /\ events = <<>> /\ partial = "idle" /\ brief = "idle"
=============================================================================
