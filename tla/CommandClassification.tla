----------------------- MODULE CommandClassification -----------------------
(***************************************************************************)
(* What a recorded command is evidence of: a broad test run, a focused     *)
(* one, another local validation, or nothing.  A broad passing run is what *)
(* suppresses the test-gap risk of an area.                                *)
(*                                                                         *)
(* A command is a sequence of tokens [w, v]: a word and the value written  *)
(* after its "=" sign ("" when there is none).  What the patterns of the   *)
(* code read off the text of a word is its Shape.                          *)
(***************************************************************************)
EXTENDS Integers, Sequences, SequencesExt

CONSTANTS
  Options,    \* the words that start with "-", the separator "--" among them
  Shape(_)    \* subset of {"jsTarget", "glob", "broadGlob", "testFile", "path", "goAll",
              \*  "project", "taskPath"}, of the text of a word

Word(w) == [w |-> w, v |-> ""]
With(w, v) == [w |-> w, v |-> v]
IsOption(t) == t.w \in Options
Words(c) == [i \in DOMAIN c |-> c[i].w]
StartsWith(c, ws) == IsPrefix(ws, Words(c))
Rest(c, n) == SubSeq(c, n + 1, Len(c))

\* (?:^|\s)(?:flag)(?:[=\s]|$), and the same without the end of the line.
HasFlag(c, flags) == \E i \in DOMAIN c : c[i].w \in flags
HasFlagWithValue(c, flags) ==
  \E i \in DOMAIN c : c[i].w \in flags /\ (c[i].v # "" \/ i < Len(c))
HasPlainFlag(c, flags) == \E i \in DOMAIN c : c[i].w \in flags /\ c[i].v = ""

\* The tokens before the separator.
BeforeSeparator(c) ==
  LET at == {i \in DOMAIN c : c[i] = Word("--")}
  IN IF at = {} THEN c ELSE SubSeq(c, 1, (CHOOSE i \in at : \A j \in at : i <= j) - 1)

\* The position after the leading options; those at takes have an operand of their own.
AfterOptions(c, from, takes) ==
  LET next[i \in from..(Len(c) + 2)] ==
        IF i > Len(c) THEN i ELSE IF ~IsOption(c[i]) THEN i
        ELSE next[i + (IF i \in takes THEN 2 ELSE 1)]
  IN next[from]

\* The positions that are neither options nor the operand of one, in order.
Operands(c, takes) ==
  LET from[i \in 1..(Len(c) + 2)] ==
        IF i > Len(c) THEN <<>>
        ELSE IF IsOption(c[i]) THEN from[i + (IF i \in takes THEN 2 ELSE 1)]
        ELSE <<c[i]>> \o from[i + 1]
  IN from[1]

-----------------------------------------------------------------------------
(* Normalization *)

\* A wrapper, an unambiguous docker exec, env and its assignments.
NormalizeValidationCommand(command) ==
  LET c1 == IF StartsWith(command, <<"rtk">>) THEN Rest(command, 1) ELSE command
      c2 == IF StartsWith(c1, <<"docker", "exec">>) /\ Len(c1) > 3 /\ ~IsOption(c1[3])
            THEN Rest(c1, 3) ELSE c1
      c3 == IF StartsWith(c2, <<"env">>) THEN Rest(c2, 1) ELSE c2
      assigned == CHOOSE n \in 0..Len(c3) :
                    /\ \A i \in 1..n : c3[i].v # "" /\ ~IsOption(c3[i])
                    /\ n < Len(c3) => c3[n + 1].v = "" \/ IsOption(c3[n + 1])
  IN Rest(c3, assigned)

-----------------------------------------------------------------------------
(* Runners of other ecosystems *)

Launchers ==
  {<<"bundle", "exec">>, <<"poetry", "run">>, <<"pdm", "run">>, <<"pipenv", "run">>, <<"uv", "run">>}

LauncherTakes(t) ==
  t.v = "" /\ t.w \in {"--group", "--with", "--extra", "--python", "--index", "--directory", "--project", "-p"}

StripCrossEcosystemLauncher(c) ==
  IF \E l \in Launchers : StartsWith(c, l)
  THEN Rest(c, AfterOptions(c, 3, {i \in DOMAIN c : LauncherTakes(c[i])}) - 1)
  ELSE c

Heads ==
  [go |-> {<<"go", "test">>}, cargo |-> {<<"cargo", "test">>, <<"cargo", "nextest", "run">>},
   pytest |-> {<<"pytest">>, <<"py.test">>} \cup {<<"python", "-m", m>> : m \in {"pytest", "nose", "nose2"}},
   unittest |-> {<<"python", "-m", "unittest">>}, orchestrator |-> {<<"tox">>, <<"nox">>},
   ruby |-> {<<"rspec">>, <<"rake", "test">>, <<"rake", "spec">>}, php |-> {<<"phpunit">>, <<"pest">>},
   dotnet |-> {<<"dotnet", "test">>}, ctest |-> {<<"ctest">>}, mix |-> {<<"mix", "test">>},
   swift |-> {<<"swift", "test">>}, dart |-> {<<"dart", "test">>, <<"flutter", "test">>},
   maven |-> {<<"mvn">>, <<"mvnw">>}, gradle |-> {<<"gradle">>, <<"gradlew">>}]

Goals == [maven |-> {"test", "verify", "integration-test"},
          gradle |-> {"test", "check", "integrationTest", "connectedAndroidTest"}]

\* Maven and Gradle name the goal anywhere after the launcher; Gradle by task path too.
HasGoal(runner, c) ==
  runner \in DOMAIN Goals =>
    \E i \in 2..Len(c) : \/ c[i].v = "" /\ c[i].w \in Goals[runner]
                         \/ runner = "gradle" /\ "taskPath" \in Shape(c[i].w)

RunnersOf(c) ==
  {r \in DOMAIN Heads : (\E h \in Heads[r] : StartsWith(c, h)) /\ HasGoal(r, c)}

PrintsOnly(c) ==
  \/ HasPlainFlag(c, {"--help", "-h", "--version"})
  \/ \E h \in Heads.gradle \cup Heads.maven :
       /\ StartsWith(c, h)
       /\ \E i \in 2..Len(c) :
            /\ c[i].w \in {"help", "tasks", "properties", "projects", "dependencies"}
            /\ \A j \in 2..(i - 1) : IsOption(c[j])

NoExecutionFlags ==
  [go |-> {"-list", "-c"}, cargo |-> {"--no-run"},
   pytest |-> {"--collect-only", "--co", "--setup-plan", "--setup-only", "-V"},
   ctest |-> {"-N", "--show-only", "-version", "-help"}, dotnet |-> {"-t", "--list-tests"},
   swift |-> {"--list-tests"}, gradle |-> {"-m", "--dry-run", "-v", "--version"},
   maven |-> {"-v", "--version"}]

CrossEcosystemIsNoExecution(runner, c) ==
  \/ runner \in DOMAIN NoExecutionFlags /\ HasFlag(c, NoExecutionFlags[runner])
  \/ runner = "swift" /\ StartsWith(c, <<"swift", "test", "list">>)
  \/ runner = "gradle" /\ \/ \E i \in 1..(Len(c) - 1) :
                               c[i].w \in {"-x", "--exclude-task"} /\ c[i + 1].w = "test"
                          \/ With("--exclude-task", "test") \in ToSet(c)
  \/ runner = "maven" /\ \E t \in ToSet(c) :
                           t.w \in {"-DskipTests", "-Dmaven.test.skip"} /\ t.v # "false"
  \/ runner = "orchestrator" /\ \E i \in DOMAIN c :
                                  /\ c[i].w \in {"-e", "-s", "--session", "--sessions"}
                                  /\ \/ c[i].v \in {"lint", "docs", "mypy"}
                                     \/ i < Len(c) /\ c[i + 1].w \in {"lint", "docs", "mypy"}

FocusFlags ==
  {"-run", "-k", "--filter", "--test", "--tests", "--name", "--plain-name", "--example", "-R", "--only",
   "-pl", "--projects", "-skip", "--deselect", "--ignore"}

RunnerFocusFlags ==
  [ruby |-> {"-e"}, go |-> {"-short"},
   cargo |-> {"--lib", "--bin", "--bins", "--doc", "--bench", "--benches", "--package", "-p"},
   pytest |-> {"-m", "--lf", "--last-failed", "--ff", "--failed-first"},
   ctest |-> {"-L", "-LE", "-E", "--label-regex", "--label-exclude", "--rerun-failed"}]

CrossTakes(t) ==
  /\ t.v = ""
  /\ t.w \in {"-j", "--jobs", "--target", "--target-dir", "--features", "--manifest-path", "--color",
              "--message-format", "--profile", "--config", "--num-threads", "--rootdir", "--maxfail",
              "-o", "--output"}

\* The command without the head of its runner.
Body(runner, c) ==
  LET h == CHOOSE h \in Heads[runner] : StartsWith(c, h) IN Rest(c, Len(h))

\* discover runs everything unless a start directory scopes it.
DiscoverIsScoped(c, body) ==
  LET starts == {i \in DOMAIN c : c[i].w \in {"-s", "--start-directory"}
                                   /\ (c[i].v # "" \/ i < Len(c))}
      first == CHOOSE i \in starts : \A j \in starts : i <= j
      start == IF starts # {} THEN IF c[first].v # "" THEN c[first].v ELSE c[first + 1].w
               ELSE IF Len(body) > 1 /\ body[1].w = "discover" /\ ~IsOption(body[2])
               THEN body[2].w ELSE "."
  IN start # "."

\* A named file, test or package, by the vocabulary of the runner.
NamesTarget(runner, operands) ==
  \E t \in ToSet(operands) :
    CASE runner = "go" -> "path" \in Shape(t.w) /\ "goAll" \notin Shape(t.w)
      [] runner \in {"cargo", "unittest"} -> TRUE
      [] runner = "gradle" -> "taskPath" \in Shape(t.w)
      [] runner = "dotnet" -> {"project", "path"} \cap Shape(t.w) # {}
      [] OTHER -> "testFile" \in Shape(t.w)

CrossEcosystemTestIsFocused(runner, c) ==
  LET body == Body(runner, c)
      flagged == IF runner = "pytest" THEN body ELSE c
  IN \/ HasFlag(c, FocusFlags) \/ \E t \in ToSet(c) : t.w \in {"-Dtest", "TEST"} /\ t.v # ""
     \/ runner \in DOMAIN RunnerFocusFlags /\ HasFlag(flagged, RunnerFocusFlags[runner])
     \/ IF runner = "orchestrator" THEN HasFlag(c, {"-e", "-s", "--session", "--sessions"})
        ELSE IF runner = "unittest" /\ HasPlainFlag(c, {"discover"}) THEN DiscoverIsScoped(c, body)
        ELSE LET before == BeforeSeparator(body)
             IN NamesTarget(runner, Operands(before, {i \in DOMAIN before : CrossTakes(before[i])}))

CrossEcosystemTestKind(normalized) ==
  LET c == StripCrossEcosystemLauncher(normalized)
      runner == CHOOSE r \in RunnersOf(c) : TRUE
  IN CASE PrintsOnly(c) \/ RunnersOf(c) = {} -> "none"
       [] OTHER -> IF CrossEcosystemIsNoExecution(runner, c) THEN "none"
                   ELSE IF CrossEcosystemTestIsFocused(runner, c) THEN "focused" ELSE "broad"

-----------------------------------------------------------------------------
(* Targets and filters of the JavaScript runners *)

RunnerTakes(t) ==
  /\ t.v = ""
  /\ t.w \in {"-c", "--cacheDirectory", "--config", "--coverageDirectory", "--environment", "--outputFile",
              "--reporter", "--root", "--setupFilesAfterEnv", "--testEnvironment", "--workspace"}

\* Defect: what follows a reporter flag written with "=" is taken for its value.
MutFocusTargets(c) ==
  {t.w : t \in ToSet(Operands(c, {i \in DOMAIN c : RunnerTakes(Word(c[i].w))}))}
  \cup {t.v : t \in {d \in ToSet(c) : d.w = "--dir" /\ d.v # ""}}

\* The words that may name a test: the positionals and the directory of --dir=.
FocusTargets(c) ==
  {t.w : t \in ToSet(Operands(c, {i \in DOMAIN c : RunnerTakes(c[i])}))}
  \cup {t.v : t \in {d \in ToSet(c) : d.w = "--dir" /\ d.v # ""}}

HasFocusedTestTarget(c) ==
  \E w \in FocusTargets(c) : "jsTarget" \in Shape(w) /\ "broadGlob" \notin Shape(w)

HasTestNameFilter(c) ==
  HasFlagWithValue(c, {"--test-name-pattern", "--testNamePattern", "--grep", "-t"})

HasOtherFilter(c) ==
  \/ HasFlag(c, {"--changed", "--onlyChanged", "--changedSince"}) \/ HasPlainFlag(c, {"-o"})
  \/ HasFlagWithValue(c, {"--testPathPattern", "--testPathPatterns", "--project", "--selectProjects"})

-----------------------------------------------------------------------------
(* node --test *)

NodeTakes(t) ==
  /\ t.v = ""
  /\ t.w \in {"-r", "--conditions", "--env-file", "--import", "--loader", "--require", "--test-concurrency",
              "--test-coverage-include", "--test-name-pattern", "--test-reporter",
              "--test-reporter-destination", "--test-skip-pattern", "--test-shard"}

\* Where --test stands, 0 when the command is not node --test.
NodeTestAt(c) ==
  LET at[i \in 2..(Len(c) + 2)] ==
        IF i > Len(c) THEN 0
        ELSE IF c[i] = Word("--") THEN 0
        ELSE IF c[i] = Word("--test") THEN i
        ELSE IF IsOption(c[i]) THEN at[i + (IF NodeTakes(c[i]) THEN 2 ELSE 1)]
        ELSE 0
  IN IF c = <<>> THEN 0 ELSE IF c[1].w = "node" THEN at[2] ELSE 0

\* Before the separator the operands, after it every word.
NodeTestPositionalArgs(args) ==
  LET before == BeforeSeparator(args)
  IN Operands(before, {i \in DOMAIN before : NodeTakes(before[i])}) \o Rest(args, Len(before) + 1)

HasNodePartialTestFilter(c) ==
  HasFlag(BeforeSeparator(c), {"--test-only", "--test-shard", "--test-skip-pattern"})

NodeTestKind(c) ==
  LET named == NodeTestPositionalArgs(Rest(c, NodeTestAt(c)))
  IN CASE NodeTestAt(c) = 0 -> "none"
       [] OTHER ->
          IF HasTestNameFilter(c) \/ HasNodePartialTestFilter(c) THEN "focused"
          ELSE IF named # <<>> /\ \A t \in ToSet(named) : "glob" \in Shape(t.w)
          THEN IF \A t \in ToSet(named) : "broadGlob" \in Shape(t.w) THEN "broad" ELSE "focused"
          ELSE IF HasFocusedTestTarget(named) THEN "focused" ELSE "broad"

-----------------------------------------------------------------------------
(* Package managers *)

Managers == {"pnpm", "npm", "yarn", "bun"}
JsRunners == {"vitest", "jest", "tap", "uvu"}
TestScripts == {"test", "test:unit", "test:ci"}
BroadScripts == {"test", "test:ci"}

PackageManagerTakes(manager, t) ==
  /\ t.v = ""
  /\ \/ t.w \in {"--filter", "-F", "--workspace", "--scope", "--cwd", "--prefix", "--dir", "-C",
                 "--config", "--registry"}
     \/ manager = "npm" /\ t.w = "-w"

\* A working directory that is the root is no filter.
PackageManagerOptionIsFocusFilter(manager, t, value) ==
  /\ ~(/\ value = "."
       /\ t.w \in {"--dir", "--cwd", "-C"} \cup (IF manager = "npm" THEN {"--prefix"} ELSE {}))
  /\ t.w \in {"--filter", "-F", "--workspace", "--scope", "--dir", "--cwd", "-C"}
             \cup (IF manager = "npm" THEN {"-w", "--prefix"} ELSE {})

OptionValue(manager, c, i) ==
  IF c[i].v # "" THEN c[i].v
  ELSE IF PackageManagerTakes(manager, c[i]) /\ i < Len(c) THEN c[i + 1].w ELSE ""

\* A filter among the tokens from..to, operands skipped.
HasFilterIn(manager, c, from, to) ==
  LET has[i \in from..(to + 2)] ==
        i <= to /\ \/ PackageManagerOptionIsFocusFilter(manager, c[i], OptionValue(manager, c, i))
                   \/ has[i + (IF PackageManagerTakes(manager, c[i]) THEN 2 ELSE 1)]
  IN from <= to /\ has[from]

\* Where the body of a package manager's command starts: after its options, the
\* workspaces it names and a separator.
BodyAt(c) ==
  LET Takes(t) == PackageManagerTakes(c[1].w, t)
      at[i \in 2..(Len(c) + 2)] ==
        IF i > Len(c) THEN i
        ELSE IF c[i] = Word("--") THEN i + 1
        ELSE IF c[i].w = "workspace" /\ i < Len(c) THEN at[i + 2]
        ELSE IF IsOption(c[i]) THEN at[i + (IF Takes(c[i]) THEN 2 ELSE 1)]
        ELSE i
  IN at[2]

ParsedPackageManagerCommand(c) ==
  IF c = <<>> \/ c[1].w \notin Managers THEN [manager |-> "none", body |-> <<>>, filtered |-> FALSE]
  ELSE [manager |-> c[1].w, body |-> Rest(c, BodyAt(c) - 1),
        filtered |-> \/ \E i \in 2..(BodyAt(c) - 2) : c[i].w = "workspace"
                     \/ HasFilterIn(c[1].w, c, 2, BodyAt(c) - 1)]

RunTakes(t) == t.v = "" /\ t.w \in {"--filter", "-F", "--workspace", "-w", "--prefix", "--jobs"}

\* The script a body runs, "" when it runs none.
PackageRunScriptToken(body) ==
  LET own == BeforeSeparator(body)
      at == AfterOptions(own, 2, {i \in DOMAIN own : RunTakes(own[i])})
  IN IF body = <<>> THEN ""
     ELSE IF body[1].w \notin {"run", "run-script"} THEN body[1].w
     ELSE IF at > Len(own) THEN "" ELSE own[at].w

YarnWorkspaces(body) ==
  LET runs == {i \in 3..Len(body) : body[i].w = "run"}
      run == CHOOSE i \in runs : \A j \in runs : i <= j
      options == IF runs = {} THEN Rest(body, 2) ELSE SubSeq(body, 3, run - 1)
  IN CASE StartsWith(body, <<"workspaces", "run">>) ->
            [test |-> Len(body) > 2 /\ body[3].w \in TestScripts, filtered |-> FALSE]
       [] StartsWith(body, <<"workspaces", "foreach">>) ->
            [test |-> runs # {} /\ run < Len(body) /\ body[run + 1].w \in TestScripts,
             filtered |-> HasFlag(options, {"--include", "--from", "--since"})]
       [] OTHER -> [test |-> FALSE, filtered |-> FALSE]

\* exec, with or without the separator, and what it executes.
Executed(body) ==
  IF ~StartsWith(body, <<"exec">>) THEN <<>>
  ELSE IF StartsWith(body, <<"exec", "--">>) THEN Rest(body, 2) ELSE Rest(body, 1)

RunsJsRunner(c) == c # <<>> /\ c[1].w \in JsRunners

PackageManagerBodyLooksLikeTest(body) ==
  \/ PackageRunScriptToken(body) \in TestScripts
  \/ RunsJsRunner(body) \/ RunsJsRunner(Executed(body))
  \/ YarnWorkspaces(body).test
  \/ NodeTestAt(Executed(body)) > 0

\* npm also reads its filters after the script.
BodyHasFocusFilter(parsed) ==
  /\ parsed.manager = "npm" /\ PackageRunScriptToken(parsed.body) \in TestScripts
  /\ HasFilterIn("npm", parsed.body, 1, Len(BeforeSeparator(parsed.body)))

-----------------------------------------------------------------------------
(* Classification *)

LooksLikeTest(c) ==
  \/ PackageManagerBodyLooksLikeTest(ParsedPackageManagerCommand(c).body)
  \/ NodeTestAt(c) > 0 \/ RunsJsRunner(c)
  \/ CrossEcosystemTestKind(c) # "none"

LooksLikeValidationScript(c) ==
  PackageRunScriptToken(ParsedPackageManagerCommand(c).body)
    \in {"lint", "typecheck", "build", "check", "validate", "verify", "gate"}

LooksLikeStandaloneValidation(c) ==
  /\ ~HasPlainFlag(c, {"-h", "--help", "-V", "--version"})
  /\ \E h \in {<<"tsc">>, <<"cargo", "check">>, <<"cargo", "clippy">>} : StartsWith(c, h)

BuiltinRecognized(c) ==
  LooksLikeTest(c) \/ LooksLikeStandaloneValidation(c) \/ LooksLikeValidationScript(c)

\* The longest rule of the repository that matches; exact before prefix, then by id.
MatchCommandRule(c, rules) ==
  LET matching == {r \in rules : IF r.exact THEN Words(c) = r.words ELSE StartsWith(c, r.words)}
      Wins(r, s) == \/ Len(r.words) > Len(s.words)
                    \/ Len(r.words) = Len(s.words) /\ r.exact /\ ~s.exact
                    \/ Len(r.words) = Len(s.words) /\ r.exact = s.exact /\ r.id <= s.id
  IN {r \in matching : \A s \in matching : Wins(r, s)}

\* A rule speaks only for a command the tool does not know.
ApplicableWrapperRule(c, rules) ==
  IF BuiltinRecognized(c) THEN {} ELSE MatchCommandRule(c, rules)

LooksFocused(c) ==
  LET parsed == ParsedPackageManagerCommand(c)
      filtered == parsed.filtered \/ BodyHasFocusFilter(parsed)
      script == PackageRunScriptToken(parsed.body)
  IN IF CrossEcosystemTestKind(c) # "none" THEN CrossEcosystemTestKind(c) = "focused"
     ELSE IF NodeTestKind(c) # "none" THEN NodeTestKind(c) = "focused"
     ELSE IF NodeTestKind(Executed(parsed.body)) # "none"
     THEN filtered \/ NodeTestKind(Executed(parsed.body)) = "focused"
     ELSE \/ script \in TestScripts \ BroadScripts
          \/ LooksLikeTest(c) /\ (filtered \/ YarnWorkspaces(parsed.body).filtered \/ HasOtherFilter(c))
          \/ HasFocusedTestTarget(c) \/ HasTestNameFilter(c)

\* What a command is evidence of.
Classify(command, rules) ==
  LET c == NormalizeValidationCommand(command)
      rule == ApplicableWrapperRule(c, rules)
      class == IF rule = {} THEN "none" ELSE (CHOOSE r \in rule : TRUE).class
  IN IF rule # {}
     THEN CASE class = "broad_test" -> "broad" [] class = "focused_test" -> "focused"
            [] class = "validation" -> "validation"
     ELSE IF LooksLikeTest(c) THEN IF LooksFocused(c) THEN "focused" ELSE "broad"
     ELSE IF BuiltinRecognized(c) THEN "validation" ELSE "none"

LooksLikeLocalValidation(command, rules) == Classify(command, rules) # "none"
=============================================================================
