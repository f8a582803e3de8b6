------------------------ MODULE AgreementExtraction ------------------------
(***************************************************************************)
(* The two model passes of an agreement audit and their grounding.  The    *)
(* model proposes agreements, then dispositions, one item at a time (the   *)
(* parser accepts or refuses items one by one); the validator grounds the  *)
(* pair, shows a token, and grounds it again when the operator confirms.   *)
(* A previous audit, if any, is compared with every result.                *)
(***************************************************************************)
EXTENDS AgreementGrounding

CONSTANT
  \* A sequence of instances, which bound what is explored together: `inputs' that collection
  \* may produce; `agreements' and `dispositions' that the parser can return;
  \* `goals', sets of events the final goal may cite; `extractionEnds' and
  \* `coverageEnds', flags a pass may end with; and how many agreements,
  \* dispositions and previous decisions there may be.
  Instances

\* COMMAND_STATUSES
CommandStatuses == {"passed", "failed", "unknown"}

\* A collected input has finitely many events; a line of its diff lies on one of
\* the three sides; a recorded command has a status, and ran on the reviewed head or not.
InputShape(i) ==
  /\ IsFiniteSet(Events(i))
  /\ \A coordinate \in i.diff : coordinate[1] \in Sides
  /\ \A c \in DOMAIN i.command : i.command[c] \in [status : CommandStatuses, exact : BOOLEAN]

ASSUME InstancesAssumption ==
  \A i \in DOMAIN Instances :
    /\ {Instances[i].maxAgreements, Instances[i].maxDispositions,
        Instances[i].maxPrevious} \subseteq Nat
    /\ \A collected \in Instances[i].inputs : InputShape(collected)

VARIABLES
  instance,   \* number of the instance explored
  phase,      \* "previous", "extract", "cover", "ground", "shown", "confirmed"
  input,      \* the collected input
  previous,   \* agreements of the audit given with --previous-audit
  candidate,  \* the extraction ledger
  coverage,   \* the completeness ledger, or None
  given,      \* the token given with --confirm-extraction, or None
  audit       \* the result, or None before grounding

vars == <<instance, phase, input, previous, candidate, coverage, given, audit>>

Bound == Instances[instance]

NoCandidate == [goal |-> {}, agreements |-> <<>>, complete |-> FALSE, limited |-> FALSE]
NoCoverage  == [dispositions |-> <<>>, complete |-> FALSE, missing |-> FALSE,
                limited |-> FALSE]

Init ==
  /\ instance \in DOMAIN Instances
  /\ phase = "previous"
  /\ input \in Bound.inputs
  /\ previous = <<>>
  /\ candidate = NoCandidate
  /\ coverage = NoCoverage
  /\ given = None
  /\ audit = None

-----------------------------------------------------------------------------
\* The ledger files hold exactly the parsed ledgers.
Bytes ==
  IF coverage = None THEN None
  ELSE [input |-> input, candidate |-> candidate, completeness |-> coverage]

\* parseComparableAgreementAudit refuses a repeated key.
AddPrevious(a) ==
  /\ phase = "previous"
  /\ Len(previous) < Bound.maxPrevious
  /\ \A i \in DOMAIN previous : previous[i].key # a.key
  /\ previous' = Append(previous, a)
  /\ UNCHANGED <<instance, phase, input, candidate, coverage, given, audit>>

StartExtraction ==
  /\ phase = "previous"
  /\ phase' = "extract"
  /\ UNCHANGED <<instance, input, previous, candidate, coverage, given, audit>>

ProposeAgreement(a) ==
  /\ phase = "extract"
  /\ Len(candidate.agreements) < Bound.maxAgreements
  /\ candidate' = [candidate EXCEPT !.agreements = Append(@, a)]
  /\ UNCHANGED <<instance, phase, input, previous, coverage, given, audit>>

\* Defect: a goal without citations is credited with every event.
MutFinishExtraction(goal, end) ==
  /\ phase = "extract"
  /\ candidate' = [candidate EXCEPT
                     !.goal = IF goal = {} THEN Events(input) ELSE goal,
                     !.complete = end.complete, !.limited = end.limited]
  /\ phase' = "cover"
  /\ UNCHANGED <<instance, input, previous, coverage, given, audit>>

FinishExtraction(goal, end) ==
  /\ phase = "extract"
  /\ candidate' = [candidate EXCEPT !.goal = goal, !.complete = end.complete,
                                    !.limited = end.limited]
  /\ phase' = "cover"
  /\ UNCHANGED <<instance, input, previous, coverage, given, audit>>

ProposeDisposition(d) ==
  /\ phase = "cover"
  /\ Len(coverage.dispositions) < Bound.maxDispositions
  /\ coverage' = [coverage EXCEPT !.dispositions = Append(@, d)]
  /\ UNCHANGED <<instance, phase, input, previous, candidate, given, audit>>

FinishCoverage(end) ==
  /\ phase = "cover"
  /\ coverage' = [coverage EXCEPT !.complete = end.complete,
                                  !.missing = end.missing,
                                  !.limited = end.limited]
  /\ phase' = "ground"
  /\ UNCHANGED <<instance, input, previous, candidate, given, audit>>

\* The pass failed, was blocked or returned invalid output: there is no
\* completeness ledger, and the failure becomes a limitation.
LoseCoverage ==
  /\ phase = "cover"
  /\ coverage' = None
  /\ candidate' = [candidate EXCEPT !.limited = TRUE]
  /\ phase' = "ground"
  /\ UNCHANGED <<instance, input, previous, given, audit>>

\* The result keeps the accepted agreements under their positions.
Result(token) ==
  LET result   == Audit(input, candidate, coverage, Bytes, token)
      grounded == [i \in Accepted(input, candidate) |-> candidate.agreements[i]]
  IN [status     |-> result.status,
      verified   |-> result.verified,
      token      |-> result.token,
      grounded   |-> grounded,
      comparison |-> Comparison(grounded, previous, result.status, result.verified)]

\* The first run: no token was given.
Ground ==
  /\ phase = "ground"
  /\ audit' = Result(None)
  /\ phase' = "shown"
  /\ UNCHANGED <<instance, input, previous, candidate, coverage, given>>

\* The confirmation run regrounds the saved ledgers with the operator's token.
Confirm(token) ==
  /\ phase = "shown"
  /\ coverage # None
  /\ given' = token
  /\ audit' = Result(token)
  /\ phase' = "confirmed"
  /\ UNCHANGED <<instance, input, previous, candidate, coverage>>

\* Tokens the operator may type: the one this audit shows, and one shown for
\* other ledgers (here: the same input with an empty extraction).
StaleToken ==
  Token(input, [input |-> input, candidate |-> NoCandidate,
                completeness |-> NoCoverage])

Tokens == {OfferedToken(input, coverage, Bytes), StaleToken}

Next ==
  \/ \E a \in Bound.agreements : AddPrevious(a)
  \/ StartExtraction
  \/ \E a \in Bound.agreements : ProposeAgreement(a)
  \/ \E goal \in Bound.goals, end \in Bound.extractionEnds :
        FinishExtraction(goal, end)
  \/ \E d \in Bound.dispositions : ProposeDisposition(d)
  \/ \E end \in Bound.coverageEnds : FinishCoverage(end)
  \/ LoseCoverage
  \/ Ground
  \/ \E token \in Tokens : Confirm(token)

Spec == Init /\ [][Next]_vars

-----------------------------------------------------------------------------
(* Properties.                                                             *)

\* The verdict is computed only in the phases that have one, from ledgers
\* whose items came from the parser.
TypeOK ==
  /\ phase \in {"previous", "extract", "cover", "ground", "shown", "confirmed"}
  /\ instance \in DOMAIN Instances /\ input \in Bound.inputs
  /\ previous \in Seq(Bound.agreements)
  /\ candidate.agreements \in Seq(Bound.agreements)
  /\ candidate.goal \in Bound.goals \cup {{}}
  /\ coverage # None => coverage.dispositions \in Seq(Bound.dispositions)
  /\ audit # None <=> phase \in {"shown", "confirmed"}
  /\ audit # None => audit.status \in Statuses
  /\ given # None => phase = "confirmed"

Clean == audit # None /\ audit.status = "no_mismatch_found"

\* README.md:74-77.  A clean verdict means: the scope is complete, every
\* proposed agreement was accepted, is fulfilled and cites exactly one
\* auditable event; every auditable event has exactly one disposition; a
\* represented event names precisely the agreements that cite it and a
\* non_material one is cited by none; and the operator gave the token of
\* exactly these ledgers.
CleanVerdictIsExhaustive ==
  Clean =>
    LET as == candidate.agreements
        ds == coverage.dispositions
        citing(e) == {as[i].key : i \in {k \in DOMAIN as : e \in as[k].events}}
    IN /\ input.scope = "complete"
       /\ given = Token(input, Bytes)
       /\ DOMAIN audit.grounded = DOMAIN as
       /\ \A i \in DOMAIN as :
            /\ as[i].state = "fulfilled"
            /\ Cardinality(as[i].events \cap Eligible(input)) = 1
       /\ \A e \in Eligible(input) :
            \E i \in DOMAIN ds :
              /\ ds[i].event = e
              /\ \A j \in DOMAIN ds : ds[j].event = e => j = i
              /\ ds[i].keys = citing(e)
              /\ ds[i].disposition = "represented" <=> citing(e) # {}

\* An audit that reaches a conclusion rests on evidence of the reviewed head:
\* every fulfilled agreement it lists has a recorded command that passed on
\* that head, or quotes a changed line of the diff, or (a human boundary only)
\* quotes a context line; a validation claim needs the command.
ConclusionsRestOnHeadEvidence ==
  (audit # None /\ audit.status # "cannot_audit") =>
    \A i \in DOMAIN audit.grounded :
      LET a == audit.grounded[i]
          passed == \E c \in a.commands \cap DOMAIN input.command :
                      input.command[c] = [status |-> "passed", exact |-> TRUE]
          quotes(sides) == \E cite \in a.citations :
                      /\ cite.side \in sides /\ cite.quoted
                      /\ <<cite.side, cite.line>> \in input.diff
      IN a.state = "fulfilled" =>
           /\ a.kind = "validation_claim" => passed
           /\ \/ passed
              \/ quotes({"add", "delete"})
              \/ a.kind = "human_boundary" /\ quotes(Sides)

\* Confirming can only unlock: it never withdraws a conclusion the first run
\* reached, and a token shown for other ledgers changes nothing.
ConfirmationOnlyUnlocks ==
  [][(phase = "shown" /\ phase' = "confirmed") =>
       /\ audit.status # "cannot_audit" => audit'.status = audit.status
       /\ given' # audit.token => audit'.status = audit.status /\ ~audit'.verified
    ]_vars

\* Rerun comparison (comparison.ts): every decision of either audit is counted
\* once, a decision found in both is never reported as new or gone when its
\* identity is unambiguous, and nothing is resolved by an inconclusive audit.
ComparisonConserves ==
  audit # None =>
    LET c == audit.comparison
        now == Decisions(audit.grounded)
        was == Decisions(previous)
        gone == c.resolved \cup c.unverified
        same(i, j) == Identity(audit.grounded[i]) = Identity(previous[j])
    IN /\ Cardinality(c.unchanged) + Cardinality(c.new) = Cardinality(now)
       /\ Cardinality(c.unchanged) + Cardinality(gone) = Cardinality(was)
       /\ c.resolved # {} => audit.verified /\ audit.status # "cannot_audit"
       /\ \A i \in c.new, j \in gone :
            same(i, j) => \/ \E k \in now \ {i} : same(k, j)
                         \/ \E k \in was \ {j} : same(i, k)
=============================================================================
