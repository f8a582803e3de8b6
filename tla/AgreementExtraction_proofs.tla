--------------------- MODULE AgreementExtraction_proofs ---------------------
(***************************************************************************)
(* Theorems about the two model passes of an agreement audit and their     *)
(* grounding, for every sequence of instances: any inputs the collector    *)
(* may produce, any agreements and dispositions the parser may return, in  *)
(* ledgers of any length.                                                  *)
(***************************************************************************)
EXTENDS AgreementExtraction, FiniteSetTheorems, TLAPS

-----------------------------------------------------------------------------
(* What the validator accepts.                                             *)

\* What is accepted was proposed, and passed every check of
\* validateAgreement.
LEMMA AcceptedAreAgreements ==
  ASSUME NEW i, NEW c
  PROVE  /\ Accepted(i, c) \subseteq DOMAIN c.agreements
         /\ \A k \in Accepted(i, c) : Sound(i, c.agreements[k])
BY DEF Accepted

\* No two accepted agreements have one key: an agreement is refused when an
\* earlier sound one has its key, and of two equal keys one is earlier.
LEMMA AcceptedKeysDiffer ==
  ASSUME NEW i, NEW c, DOMAIN c.agreements \subseteq Nat, 
         NEW j \in Accepted(i, c), NEW k \in Accepted(i, c),
            c.agreements[j].key = c.agreements[k].key,
         \A n \in DOMAIN c.agreements : n >= 1
  PROVE  j = k
<1>1. j \in Nat /\ k \in Nat /\ j >= 1 /\ k >= 1
  BY DEF Accepted
<1>2. CASE j < k
  <2>1. j \in 1..(k - 1)
    BY <1>1, <1>2
  <2> QED BY <2>1 DEF Accepted
<1>3. CASE k < j
  <2>1. k \in 1..(j - 1)
    BY <1>1, <1>3
  <2> QED BY <2>1 DEF Accepted
<1> QED BY <1>1, <1>2, <1>3

\* A sound agreement cites events, and only auditable ones: no kind of
\* agreement allows a tool's event.
LEMMA SoundCitesAuditableEvents ==
  ASSUME NEW i, NEW a, Sound(i, a)
  PROVE  a.events # {} /\ a.events \subseteq Eligible(i)
BY DEF Sound, Eligible, Events, KindAllows

\* A sound agreement that claims to be fulfilled has its evidence on the
\* reviewed head.
LEMMA SoundEvidence ==
  ASSUME NEW i, InputShape(i), NEW a, Sound(i, a), a.state = "fulfilled"
  PROVE  LET passed == \E c \in a.commands \cap DOMAIN i.command :
                         i.command[c] = [status |-> "passed", exact |-> TRUE]
             quotes(sides) == \E cite \in a.citations :
                         /\ cite.side \in sides /\ cite.quoted
                         /\ <<cite.side, cite.line>> \in i.diff
         IN /\ a.kind = "validation_claim" => passed
            /\ \/ passed
               \/ quotes({"add", "delete"})
               \/ a.kind = "human_boundary" /\ quotes(Sides)
<1> DEFINE passed == \E c \in a.commands \cap DOMAIN i.command :
                         i.command[c] = [status |-> "passed", exact |-> TRUE]
           quotes(sides) == \E cite \in a.citations :
                         /\ cite.side \in sides /\ cite.quoted
                         /\ <<cite.side, cite.line>> \in i.diff
           sides == {cite.side : cite \in a.citations}
<1>1. EvidenceSuffices(a.kind, "fulfilled", sides, KnownCommands(i, a))
  BY DEF Sound
<1>2. PassedOnHead(KnownCommands(i, a)) => passed
  <2> SUFFICES ASSUME NEW c \in a.commands \cap DOMAIN i.command,
                      i.command[c].exact, i.command[c].status = "passed"
               PROVE  i.command[c] = [status |-> "passed", exact |-> TRUE]
    BY DEF PassedOnHead, KnownCommands
  <2> QED BY DEF InputShape
<1>3. \A cite \in a.citations : cite.side \in Sides /\ cite.quoted /\ <<cite.side,
         cite.line>> \in i.diff
  <2> SUFFICES ASSUME NEW cite \in a.citations
               PROVE  cite.side \in Sides /\ cite.quoted /\ <<cite.side, cite.line>> \in i.diff
    OBVIOUS
  <2>1. cite.quoted /\ <<cite.side, cite.line>> \in i.diff
    BY DEF Sound, CitationMatches
  <2>2. <<cite.side, cite.line>>[1] \in Sides
    BY <2>1 DEF InputShape
  <2> QED BY <2>1, <2>2
<1>4. sides \ {"context"} # {} => quotes({"add", "delete"})
  BY <1>3 DEF Sides
<1>5. sides # {} => quotes(Sides)
  BY <1>3
<1> QED BY <1>1, <1>2, <1>4, <1>5 DEF EvidenceSuffices

-----------------------------------------------------------------------------
(* The invariant: types, and what each phase has established.              *)

\* The phases: a coverage pass that is not over has a ledger, keys of the
\* previous audit are unique, and the audit shown is the grounding of the
\* ledgers as they are, with the token that was given.
PhaseInv ==
  /\ phase \in {"previous", "extract", "cover"} => coverage # None
  /\ DOMAIN candidate = {"goal", "agreements", "complete", "limited"}
  /\ coverage # None => DOMAIN coverage = {"dispositions", "complete", "missing", "limited"}
  /\ \A i, j \in DOMAIN previous : previous[i].key = previous[j].key => i = j
  /\ audit # None => audit = Result(given)

Inv == TypeOK /\ PhaseInv

\* Nothing is neither an audit, nor a token, nor a coverage ledger.
LEMMA NoneIsNothing ==
  /\ \A token : Result(token) # None
  /\ \A x, y : Token(x, y) # None
  /\ \A c : DOMAIN c = {"dispositions", "complete", "missing", "limited"} => c # None
<1>1. DOMAIN None = {"absent"}
  BY DEF None
<1>2. \A token : DOMAIN Result(token) = {"status", "verified", "token", "grounded", "comparison"}
  BY DEF Result
<1>3. \A x, y : DOMAIN Token(x, y) = {"canonical", "artifacts"}
  BY DEF Token
<1> QED BY <1>1, <1>2, <1>3

\* The validator returns one of its three statuses.
LEMMA ResultStatus ==
  ASSUME NEW token
  PROVE  Result(token).status \in Statuses
BY DEF Result, Audit, Status, Statuses

\* Appending an element of a set to a sequence over it.
LEMMA AppendTyped ==
  ASSUME NEW S, NEW s \in Seq(S), NEW e \in S
  PROVE  Append(s, e) \in Seq(S)
OBVIOUS

\* Every step keeps the types and the phases.
LEMMA StepKeeps ==
  ASSUME Inv, [Next]_vars
  PROVE  Inv'
<1>0. /\ phase \in {"previous", "extract", "cover", "ground", "shown", "confirmed"}
      /\ instance \in DOMAIN Instances /\ input \in Bound.inputs
      /\ previous \in Seq(Bound.agreements)
      /\ candidate.agreements \in Seq(Bound.agreements)
      /\ candidate.goal \in Bound.goals \cup {{}}
      /\ coverage # None => coverage.dispositions \in Seq(Bound.dispositions)
      /\ audit # None <=> phase \in {"shown", "confirmed"}
      /\ audit # None => audit.status \in Statuses
      /\ given # None => phase = "confirmed"
  BY DEF Inv, TypeOK
<1>p. PhaseInv
  BY DEF Inv
<1>1. CASE UNCHANGED vars
  BY <1>1 DEF Inv, TypeOK, PhaseInv, vars, Bound, Result, Bytes
<1>2. ASSUME NEW a \in Bound.agreements, AddPrevious(a)
      PROVE  Inv'
  <2>1. /\ previous' = Append(previous, a) /\ UNCHANGED <<instance, phase, input, candidate,
              coverage, given, audit>>
        /\ phase = "previous" /\ \A i \in DOMAIN previous : previous[i].key # a.key
    BY <1>2 DEF AddPrevious
  <2>2. previous' \in Seq(Bound.agreements)
    BY <2>1, <1>0
  <2>3. /\ DOMAIN previous = 1..Len(previous) /\ Len(previous) \in Nat
        /\ DOMAIN previous' = 1..(Len(previous) + 1)
        /\ \A i \in 1..Len(previous) : previous'[i] = previous[i]
        /\ previous'[Len(previous) + 1] = a
    BY <2>1, <1>0
  <2>4. \A i, j \in DOMAIN previous' : previous'[i].key = previous'[j].key => i = j
    BY <2>1, <2>3, <1>p DEF PhaseInv
  <2>5. audit = None
    BY <2>1, <1>0
  <2>6. TypeOK'
    BY <2>1, <2>2, <1>0 DEF TypeOK, Bound
  <2>7. PhaseInv'
    BY <2>1, <2>4, <2>5, <1>p DEF PhaseInv
  <2> QED BY <2>6, <2>7 DEF Inv
<1>3. CASE StartExtraction
  <2>1. TypeOK'
    BY <1>0, <1>3 DEF StartExtraction, TypeOK, Bound
  <2>2. PhaseInv'
    BY <1>0, <1>p, <1>3 DEF StartExtraction, PhaseInv
  <2> QED BY <2>1, <2>2 DEF Inv
<1>4. ASSUME NEW a \in Bound.agreements, ProposeAgreement(a)
      PROVE  Inv'
  <2>1. /\ candidate' = [candidate EXCEPT !.agreements = Append(@, a)]
        /\ UNCHANGED <<instance, phase, input, previous, coverage, given, audit>>
        /\ phase = "extract"
    BY <1>4 DEF ProposeAgreement
  <2>2. candidate'.agreements = Append(candidate.agreements, a) /\
           candidate'.goal = candidate.goal
        /\ DOMAIN candidate' = DOMAIN candidate
    BY <2>1, <1>p DEF PhaseInv
  <2>3. candidate'.agreements \in Seq(Bound.agreements)
    BY <2>2, <1>0, AppendTyped
  <2>4. audit = None
    BY <2>1, <1>0
  <2>5. TypeOK'
    BY <2>1, <2>2, <2>3, <1>0 DEF TypeOK, Bound
  <2>6. PhaseInv'
    BY <2>1, <2>2, <2>4, <1>p DEF PhaseInv
  <2> QED BY <2>5, <2>6 DEF Inv
<1>5. ASSUME NEW goal \in Bound.goals, NEW end, FinishExtraction(goal, end)
      PROVE  Inv'
  <2>1. /\ candidate' = [candidate EXCEPT !.goal = goal, !.complete = end.complete,
              !.limited = end.limited]
        /\ UNCHANGED <<instance, input, previous, coverage, given, audit>> /\ phase = "extract"
        /\ phase' = "cover"
    BY <1>5 DEF FinishExtraction
  <2>2. candidate'.agreements = candidate.agreements /\ candidate'.goal = goal
        /\ DOMAIN candidate' = DOMAIN candidate
    BY <2>1, <1>p DEF PhaseInv
  <2>4. audit = None
    BY <2>1, <1>0
  <2>5. TypeOK'
    BY <2>1, <2>2, <1>0 DEF TypeOK, Bound
  <2>6. PhaseInv'
    BY <2>1, <2>2, <2>4, <1>p DEF PhaseInv
  <2> QED BY <2>5, <2>6 DEF Inv
<1>6. ASSUME NEW d \in Bound.dispositions, ProposeDisposition(d)
      PROVE  Inv'
  <2>1. /\ coverage' = [coverage EXCEPT !.dispositions = Append(@, d)]
        /\ UNCHANGED <<instance, phase, input, previous, candidate, given, audit>>
        /\ phase = "cover"
    BY <1>6 DEF ProposeDisposition
  <2>2. coverage'.dispositions = Append(coverage.dispositions, d) /\
           DOMAIN coverage' = DOMAIN coverage
        /\ coverage # None
    BY <2>1, <1>p DEF PhaseInv
  <2>3. coverage'.dispositions \in Seq(Bound.dispositions)
    BY <2>2, <1>0, AppendTyped
  <2>4. audit = None
    BY <2>1, <1>0
  <2>7. coverage' # None
    BY <2>2, <1>p, NoneIsNothing DEF PhaseInv
  <2>5. TypeOK'
    BY <2>1, <2>2, <2>3, <1>0 DEF TypeOK, Bound
  <2>6. PhaseInv'
    BY <2>1, <2>2, <2>4, <2>7, <1>p DEF PhaseInv
  <2> QED BY <2>5, <2>6 DEF Inv
<1>7. ASSUME NEW end, FinishCoverage(end)
      PROVE  Inv'
  <2>1. /\ coverage' = [coverage EXCEPT !.complete = end.complete, !.missing = end.missing,
              !.limited = end.limited]
        /\ UNCHANGED <<instance, input, previous, candidate, given, audit>> /\ phase = "cover"
        /\ phase' = "ground"
    BY <1>7 DEF FinishCoverage
  <2>2. /\ coverage'.dispositions = coverage.dispositions /\ DOMAIN coverage' = DOMAIN coverage
        /\ coverage # None
    BY <2>1, <1>p DEF PhaseInv
  <2>4. audit = None
    BY <2>1, <1>0
  <2>5. TypeOK'
    BY <2>1, <2>2, <1>0 DEF TypeOK, Bound
  <2>6. PhaseInv'
    BY <2>1, <2>2, <2>4, <1>p DEF PhaseInv
  <2> QED BY <2>5, <2>6 DEF Inv
<1>8. CASE LoseCoverage
  <2>1. /\ candidate' = [candidate EXCEPT !.limited = TRUE] /\ coverage' = None
        /\ UNCHANGED <<instance, input, previous, given, audit>> /\ phase = "cover"
        /\ phase' = "ground"
    BY <1>8 DEF LoseCoverage
  <2>2. candidate'.agreements = candidate.agreements /\ candidate'.goal = candidate.goal
        /\ DOMAIN candidate' = DOMAIN candidate
    BY <2>1, <1>p DEF PhaseInv
  <2>4. audit = None
    BY <2>1, <1>0
  <2>5. TypeOK'
    BY <2>1, <2>2, <1>0 DEF TypeOK, Bound
  <2>6. PhaseInv'
    BY <2>1, <2>2, <2>4, <1>p DEF PhaseInv
  <2> QED BY <2>5, <2>6 DEF Inv
<1>9. CASE Ground
  <2>1. /\ audit' = Result(None) /\ given = None /\ phase = "ground" /\ phase' = "shown"
        /\ UNCHANGED <<instance, input, previous, candidate, coverage, given>>
    BY <1>0, <1>9 DEF Ground
  <2>2. audit' # None /\ audit'.status \in Statuses
    BY <2>1, NoneIsNothing, ResultStatus
  <2>3. TypeOK'
    BY <2>1, <2>2, <1>0 DEF TypeOK, Bound
  <2>4. audit' = Result(given)'
    BY <2>1 DEF Result, Bytes
  <2>5. PhaseInv'
    BY <2>1, <2>4, <1>p DEF PhaseInv
  <2> QED BY <2>3, <2>5 DEF Inv
<1>10. ASSUME NEW token, Confirm(token)
       PROVE  Inv'
  <2>1. /\ audit' = Result(token) /\ given' = token /\ phase = "shown" /\ phase' = "confirmed"
        /\ UNCHANGED <<instance, input, previous, candidate, coverage>>
    BY <1>10 DEF Confirm
  <2>2. audit' # None /\ audit'.status \in Statuses
    BY <2>1, NoneIsNothing, ResultStatus
  <2>3. TypeOK'
    BY <2>1, <2>2, <1>0 DEF TypeOK, Bound
  <2>4. audit' = Result(given)'
    BY <2>1 DEF Result, Bytes
  <2>5. PhaseInv'
    BY <2>1, <2>4, <1>p DEF PhaseInv
  <2> QED BY <2>3, <2>5 DEF Inv
<1> QED BY <1>1, <1>2, <1>3, <1>4, <1>5, <1>6, <1>7, <1>8, <1>9, <1>10 DEF Next

\* The types and the phases hold at the start.
LEMMA FirstKeeps == Init => Inv
<1> SUFFICES ASSUME Init PROVE Inv
  OBVIOUS
<1>1. /\ NoCoverage # None
      /\ DOMAIN NoCoverage = {"dispositions", "complete", "missing", "limited"}
  BY DEF NoCoverage, None
<1>2. /\ DOMAIN NoCandidate = {"goal", "agreements", "complete", "limited"}
      /\ NoCandidate.agreements = <<>> /\ NoCandidate.goal = {}
  BY DEF NoCandidate
<1>3. NoCoverage.dispositions = <<>>
  BY DEF NoCoverage
<1>4. TypeOK
  BY <1>1, <1>2, <1>3 DEF Init, TypeOK
<1>5. PhaseInv
  BY <1>1, <1>2 DEF Init, PhaseInv
<1> QED BY <1>4, <1>5 DEF Inv

\* Type correctness, and that the audit is always the grounding of the
\* ledgers as they are now: nothing is added to a ledger after it was judged.
THEOREM Invariant == Spec => []Inv
BY FirstKeeps, StepKeeps, PTL DEF Spec

-----------------------------------------------------------------------------
(* The clean verdict and the evidence of a conclusion.                     *)

\* What a clean result says of the ledgers.
LEMMA CleanSays ==
  ASSUME NEW token, Result(token).status = "no_mismatch_found"
  PROVE  /\ ~CannotAudit(input, candidate, coverage, Bytes, token)
         /\ ~Decides(input, candidate)
         /\ StructurallyVerified(input, candidate, coverage)
         /\ token = Token(input, Bytes)
<1>1. Status(input, candidate, coverage, Bytes, token) = "no_mismatch_found"
  BY DEF Result, Audit
<1>2. /\ ~CannotAudit(input, candidate, coverage, Bytes, token)
      /\ ~Decides(input, candidate)
      /\ Verified(input, candidate, coverage, Bytes, token)
  BY <1>1 DEF Status
<1>3. StructurallyVerified(input, candidate, coverage) /\
         token = OfferedToken(input, coverage, Bytes) /\ token # None
  BY <1>2 DEF Verified, Confirmed
<1> QED BY <1>2, <1>3 DEF OfferedToken

\* When every disposition is the first of its event, no event has two.
LEMMA OneOfEach ==
  ASSUME NEW v, NEW n \in Nat, DOMAIN v.dispositions = 1..n,
         FirstDispositions(v) = DOMAIN v.dispositions
  PROVE  \A i, j \in DOMAIN v.dispositions :
           v.dispositions[i].event = v.dispositions[j].event => i = j
<1> SUFFICES ASSUME NEW i \in 1..n, NEW j \in 1..n,
   v.dispositions[i].event = v.dispositions[j].event
             PROVE  i = j
  OBVIOUS
<1>1. \A k \in 1..n : \A m \in 1..(k - 1) : v.dispositions[m].event # v.dispositions[k].event
  BY DEF FirstDispositions
<1>2. ~(i < j)
  BY <1>1
<1>3. ~(j < i)
  BY <1>1
<1> QED BY <1>2, <1>3

\* The keys of the agreements that cite an event.
Citing(c, e) ==
  {c.agreements[k].key : k \in {m \in DOMAIN c.agreements : e \in c.agreements[m].events}}

\* The structural check makes the two ledgers name each other: an auditable
\* event has one disposition, and that one names exactly the agreements that
\* cite the event.
LEMMA DispositionsMatchCitations ==
  ASSUME NEW i, NEW c, NEW v, NEW n \in Nat, DOMAIN v.dispositions = 1..n,
         StructurallyVerified(i, c, v), NEW e \in Eligible(i)
  PROVE  \E k \in DOMAIN v.dispositions :
           /\ v.dispositions[k].event = e
           /\ \A j \in DOMAIN v.dispositions : v.dispositions[j].event = e => j = k
           /\ v.dispositions[k].keys = Citing(c, e)
           /\ v.dispositions[k].disposition = "represented" <=> Citing(c, e) # {}
<1> DEFINE ds == v.dispositions
           as == c.agreements
           citing == Citing(c, e)
<1>1. PICK k \in DOMAIN ds : ds[k].event = e
  BY DEF StructurallyVerified
<1>2. \A j \in DOMAIN ds : ds[j].event = e => j = k
  BY <1>1, OneOfEach DEF StructurallyVerified
<1>3. DispositionSound(i, c, ds[k])
  BY DEF StructurallyVerified
<1>4. \A m \in DOMAIN as : e \in as[m].events => ds[k].disposition = "represented" /\
         as[m].key \in ds[k].keys
  <2> SUFFICES ASSUME NEW m \in DOMAIN as, e \in as[m].events
               PROVE  ds[k].disposition = "represented" /\ as[m].key \in ds[k].keys
    OBVIOUS
  <2>1. RepresentedBy(v, e, as[m].key)
    BY DEF StructurallyVerified
  <2>2. PICK j \in FirstDispositions(v) : ds[j].event = e /\ ds[j].disposition = "represented" /\
           as[m].key \in ds[j].keys
    BY <2>1 DEF RepresentedBy
  <2>3. j = k
    BY <1>2, <2>2 DEF FirstDispositions
  <2> QED BY <2>2, <2>3
<1>5. CASE ds[k].disposition = "represented" /\ ds[k].keys # {} /\
           \A key \in ds[k].keys : \E m \in LastWithKey(c, key) : ds[k].event \in as[m].events
  <2>1. \A key \in ds[k].keys : key \in citing
    BY <1>1, <1>5 DEF LastWithKey, Citing
  <2>2. ds[k].keys = citing
    BY <1>4, <2>1 DEF Citing
  <2> QED BY <1>1, <1>2, <1>5, <2>2
<1>6. CASE ds[k].disposition = "non_material" /\ ds[k].keys = {}
  <2>1. citing = {}
    BY <1>4, <1>6 DEF Citing
  <2> QED BY <1>1, <1>2, <1>6, <2>1
<1> QED BY <1>3, <1>5, <1>6 DEF DispositionSound

\* A sound agreement that cites at most one auditable event cites one.
LEMMA CitesOneEvent ==
  ASSUME NEW i, InputShape(i), NEW a, Sound(i, a), Cardinality(a.events \cap Eligible(i)) <= 1
  PROVE  Cardinality(a.events \cap Eligible(i)) = 1
<1>1. a.events \cap Eligible(i) # {}
  BY SoundCitesAuditableEvents
<1>2. IsFiniteSet(a.events \cap Eligible(i))
  <2>1. IsFiniteSet(Events(i)) /\ a.events \cap Eligible(i) \in SUBSET Events(i)
    BY DEF InputShape, Eligible
  <2> QED BY <2>1, FS_Subset
<1>3. Cardinality(a.events \cap Eligible(i)) \in Nat
  BY <1>2, FS_CardinalityType
<1>4. Cardinality(a.events \cap Eligible(i)) # 0
  BY <1>1, <1>2, FS_EmptySet
<1> QED BY <1>3, <1>4

\* The input was collected, so it has the shape of collected inputs.
LEMMA CollectedShape == ASSUME Inv PROVE InputShape(input)
BY InstancesAssumption DEF Inv, TypeOK, Bound

\* README.md:74-77: a clean verdict has a complete scope, the token of
\* exactly these ledgers, every proposed agreement accepted, fulfilled and
\* tied to one auditable event, and every auditable event disposed of once,
\* by the agreements that cite it.
THEOREM CleanIsExhaustive == Spec => []CleanVerdictIsExhaustive
<1>1. Inv => CleanVerdictIsExhaustive
  <2> SUFFICES ASSUME Inv, Clean PROVE CleanVerdictIsExhaustive
    BY DEF CleanVerdictIsExhaustive
  <2> DEFINE as == candidate.agreements
             ds == coverage.dispositions
  <2>1. audit = Result(given) /\ Result(given).status = "no_mismatch_found"
    BY DEF Inv, PhaseInv, Clean
  <2>2. /\ ~CannotAudit(input, candidate, coverage, Bytes, given)
        /\ ~Decides(input, candidate)
        /\ StructurallyVerified(input, candidate, coverage)
        /\ given = Token(input, Bytes)
    BY <2>1, CleanSays
  <2>3. input.scope = "complete" /\ Accepted(input, candidate) = DOMAIN as
    BY <2>2 DEF CannotAudit
  <2>4. DOMAIN audit.grounded = DOMAIN as
    BY <2>1, <2>3 DEF Result
  <2>5. ASSUME NEW i \in DOMAIN as
        PROVE  as[i].state = "fulfilled" /\ Cardinality(as[i].events \cap Eligible(input)) = 1
    <3>1. Sound(input, as[i]) /\ ~NeedsDecision(as[i])
      BY <2>2, <2>3, AcceptedAreAgreements DEF Decides
    <3>2. as[i].state = "fulfilled"
      BY <3>1 DEF NeedsDecision, Sound, EvidenceSuffices
    <3>3. Cardinality(as[i].events \cap Eligible(input)) <= 1
      BY <2>2 DEF StructurallyVerified
    <3> QED BY <3>1, <3>2, <3>3, CollectedShape, CitesOneEvent
  <2>6. ASSUME NEW e \in Eligible(input)
        PROVE  \E i \in DOMAIN ds :
                 /\ ds[i].event = e
                 /\ \A j \in DOMAIN ds : ds[j].event = e => j = i
                 /\ ds[i].keys = Citing(candidate, e)
                 /\ ds[i].disposition = "represented" <=> Citing(candidate, e) # {}
    <3>1. ds \in Seq(Bound.dispositions)
      BY <2>2 DEF StructurallyVerified, Inv, TypeOK
    <3>2. DOMAIN ds = 1..Len(ds) /\ Len(ds) \in Nat
      BY <3>1
    <3> QED BY <2>2, <3>2, DispositionsMatchCitations
  <2> QED BY <2>2, <2>3, <2>4, <2>5, <2>6 DEF CleanVerdictIsExhaustive, Citing
<1> QED BY <1>1, Invariant, PTL

\* An audit that reaches a conclusion rests on evidence of the reviewed head,
\* whatever the model proposed.
THEOREM ConclusionsRestOnEvidence == Spec => []ConclusionsRestOnHeadEvidence
<1>1. Inv => ConclusionsRestOnHeadEvidence
  <2> SUFFICES ASSUME Inv, audit # None, NEW i \in DOMAIN audit.grounded,
     audit.grounded[i].state = "fulfilled"
               PROVE  LET a == audit.grounded[i]
                          passed == \E c \in a.commands \cap DOMAIN input.command :
                                      input.command[c] = [status |-> "passed", exact |-> TRUE]
                          quotes(sides) == \E cite \in a.citations :
                                      /\ cite.side \in sides /\ cite.quoted
                                      /\ <<cite.side, cite.line>> \in input.diff
                      IN /\ a.kind = "validation_claim" => passed
                         /\ \/ passed
                            \/ quotes({"add", "delete"})
                            \/ a.kind = "human_boundary" /\ quotes(Sides)
    BY DEF ConclusionsRestOnHeadEvidence
  <2>1. audit.grounded = [k \in Accepted(input, candidate) |-> candidate.agreements[k]]
    BY DEF Inv, PhaseInv, Result
  <2>2. Sound(input, audit.grounded[i])
    BY <2>1, AcceptedAreAgreements
  <2> QED BY <2>2, CollectedShape, SoundEvidence
<1> QED BY <1>1, Invariant, PTL

-----------------------------------------------------------------------------
(* Confirmation.                                                           *)

\* A confirming step keeps every conclusion, and does nothing with another
\* token.
LEMMA UnlockStep ==
  ASSUME Inv, [Next]_vars, phase = "shown", phase' = "confirmed"
  PROVE  /\ audit.status # "cannot_audit" => audit'.status = audit.status
         /\ given' # audit.token => audit'.status = audit.status /\ ~audit'.verified
<1>1. PICK token : Confirm(token)
  BY
     DEF Next, AddPrevious, StartExtraction, ProposeAgreement, FinishExtraction,
         ProposeDisposition, FinishCoverage, LoseCoverage, Ground, vars
<1>2. audit = Result(None) /\ audit' = Result(token) /\ given' = token
  BY <1>1 DEF Confirm, Inv, TypeOK, PhaseInv
<1> DEFINE offered == OfferedToken(input, coverage, Bytes)
           status(t) == Status(input, candidate, coverage, Bytes, t)
<1>3. ~Confirmed(input, coverage, Bytes, None)
  BY DEF Confirmed
<1>4. audit.status = status(None) /\ audit.token = offered /\ audit'.status = status(token)
      /\ audit'.verified = Verified(input, candidate, coverage, Bytes, token)
  BY <1>2 DEF Result, Audit
<1>5. ASSUME status(None) # "cannot_audit" PROVE status(token) = status(None)
  <2>1. ~CannotAudit(input, candidate, coverage, Bytes, None) /\
           status(None) = "needs_human_decision" /\ Decides(input, candidate)
    BY <1>3, <1>5 DEF Status, Verified
  <2>2. ~CannotAudit(input, candidate, coverage, Bytes, token)
    BY <1>3, <2>1 DEF CannotAudit, AccountedEvents
  <2> QED BY <2>1, <2>2 DEF Status
<1>6. ASSUME token # offered PROVE status(token) = status(None) /\
         ~Verified(input, candidate, coverage, Bytes, token)
  <2>1. ~Confirmed(input, coverage, Bytes, token)
    BY <1>6 DEF Confirmed
  <2>2. CannotAudit(input, candidate, coverage, Bytes, token) <=> CannotAudit(input, candidate,
           coverage, Bytes, None)
    BY <1>3, <2>1 DEF CannotAudit, AccountedEvents
  <2> QED BY <1>3, <2>1, <2>2 DEF Status, Verified
<1> QED BY <1>2, <1>4, <1>5, <1>6

\* Confirming can only unlock: it never withdraws a conclusion, and a token
\* shown for other ledgers changes nothing.
THEOREM ConfirmationUnlocks == Spec => ConfirmationOnlyUnlocks
<1>1. Inv /\ [Next]_vars =>
        [(phase = "shown" /\ phase' = "confirmed") =>
           /\ audit.status # "cannot_audit" => audit'.status = audit.status
           /\ given' # audit.token => audit'.status = audit.status /\ ~audit'.verified]_vars
  BY UnlockStep
<1> QED BY <1>1, Invariant, PTL DEF Spec, ConfirmationOnlyUnlocks

-----------------------------------------------------------------------------
(* The comparison with a previous audit.                                   *)

\* A relation that pairs each element at most once, on either side, is as
\* large as what it pairs on either side.
LEMMA PairingSize ==
  ASSUME NEW A, NEW B, IsFiniteSet(A), IsFiniteSet(B), NEW R, R \subseteq A \X B,
         \A p, q \in R : p[1] = q[1] <=> p[2] = q[2]
  PROVE  /\ Cardinality(R) + Cardinality(A \ {p[1] : p \in R}) = Cardinality(A)
         /\ Cardinality(R) + Cardinality(B \ {p[2] : p \in R}) = Cardinality(B)
<1> DEFINE RA == {p[1] : p \in R}
           RB == {p[2] : p \in R}
           fst == [p \in R |-> p[1]]
           snd == [p \in R |-> p[2]]
<1>1. \A p \in R : p = <<p[1], p[2]>> /\ p[1] \in A /\ p[2] \in B
  OBVIOUS
<1>2. \A p, q \in R : p[1] = q[1] => p = q
  BY <1>1
<1>3. \A p, q \in R : p[2] = q[2] => p = q
  BY <1>1
<1>4. fst \in Bijection(R, RA)
  BY <1>2 DEF Bijection, Injection, Surjection, IsInjective
<1>5. snd \in Bijection(R, RB)
  BY <1>3 DEF Bijection, Injection, Surjection, IsInjective
<1>6. RA \in SUBSET A /\ RB \in SUBSET B
  BY <1>1
<1>7. IsFiniteSet(RA) /\ IsFiniteSet(RB)
  BY <1>6, FS_Subset
<1>8. IsFiniteSet(R) /\ Cardinality(R) = Cardinality(RA) /\ Cardinality(R) = Cardinality(RB)
  <2>1. fst \in Injection(R, RA) /\ fst \in Surjection(R, RA)
    BY <1>4 DEF Bijection
  <2>2. snd \in Injection(R, RB) /\ snd \in Surjection(R, RB)
    BY <1>5 DEF Bijection
  <2> QED BY <1>7, <2>1, <2>2, FS_Injection
<1>9. A \cap RA = RA /\ B \cap RB = RB
  BY <1>6
<1>10. Cardinality(A \ RA) = Cardinality(A) - Cardinality(RA)
  BY <1>9, FS_Difference
<1>11. Cardinality(B \ RB) = Cardinality(B) - Cardinality(RB)
  BY <1>9, FS_Difference
<1>12. Cardinality(A) \in Nat /\ Cardinality(B) \in Nat /\ Cardinality(R) \in Nat
  BY <1>8, FS_CardinalityType
<1> HIDE DEF RA, RB
<1>13. /\ Cardinality(R) + Cardinality(A \ RA) = Cardinality(A)
       /\ Cardinality(R) + Cardinality(B \ RB) = Cardinality(B)
  BY <1>8, <1>10, <1>11, <1>12
<1> QED BY <1>13 DEF RA, RB

\* Keys are unique.
Distinct(as) == \A i, j \in DOMAIN as : as[i].key = as[j].key => i = j

\* The two passes of the comparison pair a decision at most once: the first
\* by its key, the second among what is left by its identity, which must be
\* unique on both sides.
LEMMA PairsMatchOnce ==
  ASSUME NEW current, NEW earlier, Distinct(current), Distinct(earlier)
  PROVE  LET R == SameKeyPairs(current, earlier) \cup SameIdentityPairs(current, earlier)
         IN /\ R \subseteq Decisions(current) \X Decisions(earlier)
            /\ \A p, q \in R : p[1] = q[1] <=> p[2] = q[2]
<1> DEFINE K == SameKeyPairs(current, earlier)
           I == SameIdentityPairs(current, earlier)
           cs == Decisions(current) \ {p[1] : p \in K}
           ps == Decisions(earlier) \ {p[2] : p \in K}
<1>1. \A p \in K : /\ p \in Decisions(current) \X Decisions(earlier)
                   /\ current[p[1]].key = earlier[p[2]].key
                   /\ p[1] \in DOMAIN current /\ p[2] \in DOMAIN earlier
  BY DEF SameKeyPairs, Decisions
<1>2. \A p \in I : /\ p \in cs \X ps
                   /\ Identity(current[p[1]]) = Identity(earlier[p[2]])
                   /\ \A k \in cs : Identity(current[k]) = Identity(current[p[1]]) => k = p[1]
                   /\ \A k \in ps : Identity(earlier[k]) = Identity(earlier[p[2]]) => k = p[2]
  BY DEF SameIdentityPairs
<1>3. \A p, q \in K : p[1] = q[1] <=> p[2] = q[2]
  BY <1>1 DEF Distinct
<1>4. \A p, q \in I : p[1] = q[1] <=> p[2] = q[2]
  BY <1>2
<1>5. \A p \in K, q \in I : p[1] # q[1] /\ p[2] # q[2]
  BY <1>2
<1>6. K \cup I \subseteq Decisions(current) \X Decisions(earlier)
  BY <1>1, <1>2
<1>7. \A p, q \in K \cup I : p[1] = q[1] <=> p[2] = q[2]
  BY <1>3, <1>4, <1>5
<1> QED BY <1>6, <1>7

\* Two decisions of one identity that are both left over have a double.
LEMMA LeftOverIsAmbiguous ==
  ASSUME NEW current, NEW earlier, NEW i \in Decisions(current), NEW j \in Decisions(earlier),
         Identity(current[i]) = Identity(earlier[j]),
         \A p \in SameKeyPairs(current, earlier) \cup SameIdentityPairs(current, earlier) :
           p[1] # i /\ p[2] # j
  PROVE  \/ \E k \in Decisions(current) \ {i} : Identity(current[k]) = Identity(earlier[j])
         \/ \E k \in Decisions(earlier) \ {j} : Identity(current[i]) = Identity(earlier[k])
<1> DEFINE K == SameKeyPairs(current, earlier)
           cs == Decisions(current) \ {p[1] : p \in K}
           ps == Decisions(earlier) \ {p[2] : p \in K}
<1> SUFFICES ASSUME \A k \in Decisions(current) \ {i} : Identity(current[k]) # Identity(earlier[j]),
                    \A k \in Decisions(earlier) \ {j} : Identity(current[i]) # Identity(earlier[k])
             PROVE  FALSE
  OBVIOUS
<1>1. <<i, j>> \in cs \X ps
  OBVIOUS
<1>2. <<i, j>> \in SameIdentityPairs(current, earlier)
  BY <1>1 DEF SameIdentityPairs
<1> QED BY <1>2

\* Rerun comparison: every decision of either audit is counted once, a
\* decision found in both is never reported as new or gone when its identity
\* is unambiguous, and an inconclusive audit resolves nothing.
THEOREM ComparisonIsConserving == Spec => []ComparisonConserves
<1>1. Inv => ComparisonConserves
  <2> SUFFICES ASSUME Inv, audit # None PROVE ComparisonConserves
    BY DEF ComparisonConserves
  <2> DEFINE g == audit.grounded
             c == audit.comparison
             now == Decisions(g)
             was == Decisions(previous)
             R == SameKeyPairs(g, previous) \cup SameIdentityPairs(g, previous)
             gone == was \ {p[2] : p \in R}
  <2>1. /\ g = [k \in Accepted(input, candidate) |-> candidate.agreements[k]]
        /\ c = Comparison(g, previous, audit.status, audit.verified)
    BY DEF Inv, PhaseInv, Result
  <2>2. /\ DOMAIN candidate.agreements = 1..Len(candidate.agreements) /\
              Len(candidate.agreements) \in Nat
        /\ DOMAIN previous = 1..Len(previous) /\ Len(previous) \in Nat
    BY DEF Inv, TypeOK
  <2>3. IsFiniteSet(1..Len(candidate.agreements)) /\ IsFiniteSet(1..Len(previous))
    BY <2>2, FS_Interval
  <2>4. IsFiniteSet(now) /\ IsFiniteSet(was)
    <3>1. now \in SUBSET (1..Len(candidate.agreements)) /\ was \in SUBSET (1..Len(previous))
      BY <2>1, <2>2, AcceptedAreAgreements DEF Decisions
    <3> QED BY <2>3, <3>1, FS_Subset
  <2>5. Distinct(g) /\ Distinct(previous)
    <3>1. Distinct(previous)
      BY DEF Inv, PhaseInv, Distinct
    <3>2. Distinct(g)
      BY <2>1, <2>2, AcceptedKeysDiffer DEF Distinct
    <3> QED BY <3>1, <3>2
  <2>6. R \subseteq now \X was /\ \A p, q \in R : p[1] = q[1] <=> p[2] = q[2]
    BY <2>5, PairsMatchOnce
  <2>7. /\ c.unchanged = R /\ c.new = now \ {p[1] : p \in R}
        /\ c.resolved \cup c.unverified = gone
        /\ c.resolved # {} => audit.status # "cannot_audit" /\ audit.verified
    BY <2>1 DEF Comparison
  <2>8. /\ Cardinality(R) + Cardinality(now \ {p[1] : p \in R}) = Cardinality(now)
        /\ Cardinality(R) + Cardinality(gone) = Cardinality(was)
    BY <2>4, <2>6, PairingSize
  <2>9. ASSUME NEW i \in c.new, NEW j \in gone, Identity(g[i]) = Identity(previous[j])
        PROVE  \/ \E k \in now \ {i} : Identity(g[k]) = Identity(previous[j])
               \/ \E k \in was \ {j} : Identity(g[i]) = Identity(previous[k])
    <3>1. i \in now /\ j \in was /\ \A p \in R : p[1] # i /\ p[2] # j
      BY <2>7
    <3> QED BY <2>9, <3>1, LeftOverIsAmbiguous
  <2> QED BY <2>7, <2>8, <2>9 DEF ComparisonConserves
<1> QED BY <1>1, Invariant, PTL
=============================================================================
