----------------------- MODULE MCAgreementExtraction -----------------------
(***************************************************************************)
(* Finite instances of AgreementExtraction.  Each set below isolates one   *)
(* question: how the ledgers constrain each other, how evidence is judged, *)
(* and how two audits are compared.                                        *)
(***************************************************************************)
EXTENDS AgreementExtraction

Commands == [here   |-> [status |-> "passed", exact |-> TRUE],
             red    |-> [status |-> "failed", exact |-> TRUE],
             elsewhere |-> [status |-> "passed", exact |-> FALSE]]

\* One user turn, one assistant turn and one tool record; line 1 was added,
\* line 2 is context.
OneTurn(scope) ==
  [scope |-> scope,
   actor |-> [u1 |-> "user", a1 |-> "assistant", t1 |-> "tool"],
   diff |-> {<<"add", 1>>, <<"context", 2>>},
   command |-> Commands]

TwoTurns ==
  [scope |-> "complete",
   actor |-> [u1 |-> "user", u2 |-> "user"],
   diff |-> {<<"add", 1>>, <<"context", 2>>},
   command |-> Commands]

Changed == [side |-> "add", line |-> 1, quoted |-> TRUE]
Context == [side |-> "context", line |-> 2, quoted |-> TRUE]
Misquoted == [side |-> "add", line |-> 1, quoted |-> FALSE]
Elsewhere == [side |-> "add", line |-> 9, quoted |-> TRUE]

Agreement(key, kind, state, events, citations, commands, action) ==
  [key |-> key, kind |-> kind, statement |-> "s", state |-> state,
   events |-> events, citations |-> citations, commands |-> commands,
   action |-> action]

Ended(complete, limited) == [complete |-> complete, limited |-> limited]
Covered(complete, missing, limited) ==
  [complete |-> complete, missing |-> missing, limited |-> limited]

AnyExtractionEnd == {Ended(TRUE, FALSE), Ended(FALSE, FALSE), Ended(TRUE, TRUE)}
AnyCoverageEnd   == {Covered(TRUE, FALSE, FALSE), Covered(FALSE, FALSE, FALSE),
                     Covered(TRUE, TRUE, FALSE), Covered(TRUE, FALSE, TRUE)}
GoodExtractionEnd == {Ended(TRUE, FALSE)}
GoodCoverageEnd   == {Covered(TRUE, FALSE, FALSE)}

-----------------------------------------------------------------------------
\* Ledgers: well-evidenced agreements with every shape of event citation.
LedgerInputs == {OneTurn("complete")}

LedgerAgreements ==
  {Agreement(key, "human_instruction", "fulfilled", events, {Changed}, {}, FALSE) :
     key \in {"k1", "k2"}, events \in {{"u1"}, {"a1"}}}
  \cup {Agreement(key, "agent_commitment", "fulfilled", {"a1"}, {Changed}, {}, FALSE) :
          key \in {"k1", "k2"}}
  \cup {Agreement("k2", "human_boundary", "diverged", {"u1"}, {Changed}, {}, TRUE)}

Disposition(event, disposition, keys, reason) ==
  [event |-> event, disposition |-> disposition, keys |-> keys, reason |-> reason]

LedgerDispositions ==
  {Disposition("u1", "represented", keys, FALSE) :
     keys \in {{"k1"}, {"k2"}, {"k1", "k2"}}}
  \cup {Disposition("a1", "represented", {"k2"}, FALSE)}
  \cup {Disposition(e, "non_material", {}, TRUE) : e \in {"u1", "a1", "t1"}}

UserGoal == {{"u1"}}

\* Shapes: one agreement and at most two dispositions, with every way the two
\* passes can end and every goal.
ShapeInputs == {OneTurn(scope) : scope \in Scopes}
ShapeAgreements ==
  {Agreement("k1", "human_instruction", "fulfilled", {"u1"}, {Changed}, {}, FALSE)}
ShapeDispositions ==
  {Disposition("u1", "represented", {"k1"}, FALSE),
   Disposition("a1", "non_material", {}, TRUE),
   Disposition("a1", "non_material", {}, FALSE)}
ShapeGoals == {{}, {"u1"}, {"a1"}}

-----------------------------------------------------------------------------
\* Evidence: one agreement of every kind and state with every mix of citations.
EvidenceInputs == {OneTurn("complete")}

EvidenceAgreements ==
  {Agreement("k1", kind, state, events, citations, commands, action) :
     kind \in Kinds, state \in States, events \in {{"u1"}, {"a1"}, {"x1"}},
     citations \in {{}, {Changed}, {Context}, {Misquoted}, {Elsewhere},
                    {Context, Misquoted}},
     commands \in {{}, {"here"}, {"red"}, {"elsewhere"}, {"x"}, {"here", "red"}},
     action \in {TRUE}}
  \cup {Agreement("k1", "human_boundary", state, {"u1"}, {Changed}, {}, FALSE) :
          state \in States}

EvidenceDispositions ==
  {Disposition("u1", "represented", {"k1"}, FALSE),
   Disposition("u1", "non_material", {}, TRUE),
   Disposition("a1", "represented", {"k1"}, FALSE),
   Disposition("a1", "non_material", {}, TRUE)}

-----------------------------------------------------------------------------
\* Comparison: decisions of equal and different identity under equal and
\* different keys, in both audits.
CompareInputs == {TwoTurns}

CompareAgreements ==
  {Agreement(key, "human_instruction", "diverged", {e}, {Changed}, {}, TRUE) :
     key \in {"k1", "k2", "k3"}, e \in {"u1", "u2"}}
  \cup {Agreement("k1", "human_instruction", "fulfilled", {"u1"}, {Changed}, {}, FALSE)}

CompareDispositions ==
  {Disposition("u1", "represented", {"k1"}, FALSE),
   Disposition("u2", "non_material", {}, TRUE)}

-----------------------------------------------------------------------------
Instance(inputs, agreements, dispositions, goals, ends, maxes) ==
  [inputs |-> inputs, agreements |-> agreements, dispositions |-> dispositions,
   goals |-> goals,
   extractionEnds |-> IF ends = "any" THEN AnyExtractionEnd ELSE GoodExtractionEnd,
   coverageEnds   |-> IF ends = "any" THEN AnyCoverageEnd ELSE GoodCoverageEnd,
   maxAgreements |-> maxes[1], maxDispositions |-> maxes[2],
   maxPrevious |-> maxes[3]]

AllInstances ==
  <<Instance(LedgerInputs, LedgerAgreements, LedgerDispositions, UserGoal,
             "good", <<2, 3, 0>>),
    Instance(ShapeInputs, ShapeAgreements, ShapeDispositions, ShapeGoals,
             "any", <<1, 3, 0>>),
    Instance(EvidenceInputs, EvidenceAgreements, EvidenceDispositions, UserGoal,
             "good", <<1, 2, 0>>),
    Instance(CompareInputs, CompareAgreements, CompareDispositions, UserGoal,
             "good", <<2, 2, 2>>)>>
=============================================================================
