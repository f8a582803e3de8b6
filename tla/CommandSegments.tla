-------------------------- MODULE CommandSegments --------------------------
(***************************************************************************)
(* Which parts of a shell command its exit status speaks for.  An agent's  *)
(* tool runs a command and records one status; the review reports it as an *)
(* observed validation when a part that the status speaks for is one.      *)
(*                                                                         *)
(* A chain is its parts and the operators between them; a part is a leaf   *)
(* or a group, a chain in brackets, either with its output redirected.     *)
(***************************************************************************)
EXTENDS Integers, Sequences, SequencesExt, FiniteSetsExt

CONSTANTS
  Validations, Others, \* the leaves, by name
  Commands             \* the chains that may be run

VARIABLES
  command, \* what was run
  works,   \* the leaves that succeed when they run
  opens,   \* redirections can be opened
  kept,    \* parts of the top chain within the length that adapters keep
  status,  \* what the tool recorded
  ran,     \* the leaves that did run
  observed \* the validations reported with that status

vars == <<command, works, opens, kept, status, ran, observed>>

Leaf(name, redirected) == [name |-> name, parts |-> <<>>, ops |-> <<>>, redirected |-> redirected]
Group(parts, ops, redirected) == [name |-> "group", parts |-> parts, ops |-> ops, redirected |-> redirected]
IsGroup(p) == p.name = "group"
Nothing == Leaf("nothing", FALSE)   \* after a trailing operator
Opaque == Leaf("opaque", FALSE)     \* text no rule recognizes
Chain(parts, ops) == [parts |-> parts, ops |-> ops]
Separators == {";", "newline"}

-----------------------------------------------------------------------------
(* What a shell does *)

\* The effect of a chain: its status, what ran, and whether its last part ran.
RECURSIVE Execute(_)
Execute(chain) ==
  LET RunPart(p) ==
        IF p.redirected /\ ~opens THEN [passed |-> FALSE, ran |-> {}]
        ELSE IF IsGroup(p) THEN LET e == Execute(Chain(p.parts, p.ops)) IN [passed |-> e.passed, ran |-> e.ran]
        ELSE [passed |-> p.name \in works, ran |-> {p.name}]
      Step(e, i) ==
        LET op == IF i = 1 THEN ";" ELSE chain.ops[i - 1]
            runs == CASE op = "&&" -> e.passed [] op = "||" -> ~e.passed [] op = "|" -> e.last [] OTHER -> TRUE
            r == RunPart(chain.parts[i])
        IN IF chain.parts[i] = Nothing THEN [e EXCEPT !.passed = @ \/ op = "&"]
           ELSE IF ~runs THEN [e EXCEPT !.last = FALSE]
           ELSE [passed |-> r.passed, ran |-> e.ran \cup r.ran, last |-> TRUE]
  IN FoldLeft(Step, [passed |-> TRUE, ran |-> {}, last |-> FALSE], [i \in DOMAIN chain.parts |-> i])

-----------------------------------------------------------------------------
(* What reaches the analysis *)

\* The event keeps only the beginning of a long command, and white space, the
\* newlines included, is made single spaces: the next line becomes arguments of the
\* one before, and what follows a group in its line makes it unrecognizable.
RECURSIVE SafeField(_)
SafeField(chain) ==
  LET Inner(p) == IF IsGroup(p)
                  THEN LET c == SafeField(Chain(p.parts, p.ops)) IN [p EXCEPT !.parts = c.parts, !.ops = c.ops]
                  ELSE p
      Join(c, i) ==
        LET p == Inner(chain.parts[i])
            last == c.parts[Len(c.parts)]
            joined == IF p = Nothing THEN last
                      ELSE IF IsGroup(last) THEN Opaque
                      ELSE [last EXCEPT !.redirected = @ \/ p.redirected]
        IN IF i = 1 THEN Chain(<<p>>, <<>>)
           ELSE IF chain.ops[i - 1] = "newline" THEN [c EXCEPT !.parts[Len(c.parts)] = joined]
           ELSE Chain(Append(c.parts, p), Append(c.ops, chain.ops[i - 1]))
  IN FoldLeft(Join, Chain(<<>>, <<>>), [i \in DOMAIN chain.parts |-> i])

RedactBoundedBody(chain) ==
  IF kept >= Len(chain.parts) THEN chain
  ELSE Chain(SubSeq(chain.parts, 1, kept), SubSeq(chain.ops, 1, kept - 1))

-----------------------------------------------------------------------------
(* What the status speaks for *)

\* A trailing separator is no operator.
AnalyzeCommand(chain) ==
  LET n == Len(chain.parts)
  IN IF n > 1 /\ chain.parts[n] = Nothing /\ chain.ops[n - 1] \in Separators
     THEN Chain(SubSeq(chain.parts, 1, n - 1), SubSeq(chain.ops, 1, n - 2))
     ELSE chain

AllOf(chain, ops) == ToSet(chain.ops) \subseteq ops

\* Defect: every part of a list of commands is credited with its status.
MutSupported(chain, result) ==
  CASE "&" \in ToSet(chain.ops) -> <<>>
    [] AllOf(chain, {"&&"}) -> IF result = "passed" THEN chain.parts ELSE <<>>
    [] AllOf(chain, {"||"}) -> IF result = "failed" THEN chain.parts ELSE <<>>
    [] AllOf(chain, {"|"}) -> IF result = "passed" THEN <<Last(chain.parts)>> ELSE <<>>
    [] AllOf(chain, Separators) -> chain.parts
    [] OTHER -> <<>>

\* The parts of a chain of several that a status speaks for.
Supported(chain, result) ==
  CASE "&" \in ToSet(chain.ops) -> <<>>
    [] AllOf(chain, {"&&"}) -> IF result = "passed" THEN chain.parts ELSE <<>>
    [] AllOf(chain, {"||"}) -> IF result = "failed" THEN chain.parts ELSE <<>>
    [] AllOf(chain, {"|"}) -> IF result = "passed" THEN <<Last(chain.parts)>> ELSE <<>>
    [] AllOf(chain, Separators) -> <<Last(chain.parts)>>
    [] OTHER -> <<>>

\* A failure of what is redirected may be that of the redirection.
RECURSIVE StatusBearingCommandSegments(_, _)
StatusBearingCommandSegments(text, result) ==
  LET chain == AnalyzeCommand(text)
      only == chain.parts[1]
      parts == Supported(chain, result)
  IN IF Len(chain.parts) > 1
     THEN UNION {StatusBearingCommandSegments(Chain(<<parts[i]>>, <<>>), result) : i \in DOMAIN parts}
     ELSE IF result = "failed" /\ only.redirected THEN {}
     ELSE IF IsGroup(only) THEN StatusBearingCommandSegments(Chain(only.parts, only.ops), result)
     ELSE {only.name}

-----------------------------------------------------------------------------
Init ==
  /\ command \in Commands /\ works \in SUBSET (Validations \cup Others) /\ opens \in BOOLEAN
  /\ kept \in 1..Len(command.parts)
  /\ status = "none" /\ ran = {} /\ observed = {}

\* The agent's tool runs the command and records one status for it.
RunCommand ==
  /\ status = "none"
  /\ LET e == Execute(command)
     IN status' = (IF e.passed THEN "passed" ELSE "failed") /\ ran' = e.ran
  /\ UNCHANGED <<command, works, opens, kept, observed>>

\* The brief of the conversation reports the validations the status speaks for.
ValidationObservation ==
  /\ status # "none" /\ observed = {}
  /\ observed' = StatusBearingCommandSegments(SafeField(RedactBoundedBody(command)), status) \cap Validations
  /\ observed' # {}
  /\ UNCHANGED <<command, works, opens, kept, status, ran>>

Next == RunCommand \/ ValidationObservation

TypeOK ==
  /\ status \in {"none", "passed", "failed"} /\ works \cup ran \subseteq Validations \cup Others
  /\ observed \subseteq Validations

-----------------------------------------------------------------------------
Earned == observed \subseteq (IF status = "passed" THEN ran \cap works ELSE ran \ works)

RECURSIVE OnOneLine(_)
OnOneLine(chain) ==
  "newline" \notin ToSet(chain.ops) /\ \A p \in ToSet(chain.parts) : OnOneLine(Chain(p.parts, p.ops))

\* A command of one line that reaches the analysis whole is reported as a validation
\* that passed only if that validation ran and passed, and as one that failed only if
\* it ran and failed, whatever else the command runs.
ObservationsAreEarned == (OnOneLine(command) /\ kept = Len(command.parts)) => Earned

\* tests/conversation-brief.test.ts:848: "does not promote masked validation statuses".
MaskedStatusNotPromoted == Earned
=============================================================================
