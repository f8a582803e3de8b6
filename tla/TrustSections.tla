--------------------------- MODULE TrustSections ---------------------------
(***************************************************************************)
(* The sections of a brief that say how far it can be trusted: the trust   *)
(* audit, the verdict and its confidence, the evidence cards, what was     *)
(* intended against what changed, the files that may be skimmed and the    *)
(* audit of the method.  Each is computed from the packet, the surface of  *)
(* the pull request and the sections before it, and cut to its limit.      *)
(*                                                                         *)
(* A signal is one thing the packet or the surface holds, a record whose   *)
(* field "what" says where; no two that make an entry of one section have  *)
(* the same text, except hunks.  Paths and requirement keys are numbers in *)
(* the order of their text, 0 for none.  A piece of evidence is [kind,     *)
(* path, key, note, sha, valid]: valid is "valid" (or marked as verified), *)
(* "none" (not checked), "unknown", "invalid" or "llm" (proposed by a      *)
(* provider).  The evidence of a result includes what it lacks.            *)
(***************************************************************************)
EXTENDS Integers, Sequences, FiniteSets, SequencesExt, FiniteSetsExt

CONSTANTS
  Signals,     \* what a packet and a surface may hold, in their order
  Themes,      \* the reviews considered: a mode of each and the places in Signals it holds
  MaxTrust,    \* MAX_TRUST_ITEMS (10)
  MaxItems,    \* MAX_INTENT_MISMATCH_ITEMS (8)
  MaxReasons,  \* MAX_BLOCKERS (8), of the blockers shown and of the reasons
  MaxCards,    \* MAX_EVIDENCE_CARDS (10)
  CardsOf,     \* how many cards of each class are drafted (6, 6, 4, 4, 4, 2 and 4 in the code)
  MaxClaimed,  \* claimed candidates (6)
  MaxSkim,     \* skim-safe files (8)
  MaxAudit     \* entries of each part of the methodology audit (8)

VARIABLES
  tsInput,  \* [mode, holds]
  tsStage,
  trust,    \* the trust audit
  verdict, cards, intent, skim, method

tsVars == <<tsInput, tsStage, trust, verdict, cards, intent, skim, method>>

Cut(s, n) == SubSeq(s, 1, IF Len(s) > n THEN n ELSE Len(s))
SortedSet(S) == [n \in 1..Cardinality(S) |-> CHOOSE x \in S : Cardinality({y \in S : y <= x}) = n]
Over(s, Op(_)) == [n \in DOMAIN s |-> Op(s[n])]
Of(what) == SortedSet({i \in tsInput.holds : Signals[i].what = what})
Kept(s, Test(_)) == SelectSeq(s, Test)

\* Of the elements of s with the same key the first.
FirstOfEach(s, Key(_)) ==
  Over(SortedSet({n \in DOMAIN s : \A m \in 1..(n - 1) : Key(s[m]) # Key(s[n])}), LAMBDA n : s[n])

\* s with the elements of each rank in their order.
ByRank(s, RankOf(_)) ==
  LET order == SortSeq([n \in DOMAIN s |-> n], LAMBDA i, j : RankOf(s[i]) < RankOf(s[j]) \/ (RankOf(s[i]) = RankOf(s[j]) /\ i < j))
  IN [n \in DOMAIN s |-> s[order[n]]]

Pr == tsInput.mode.pr
Specless == tsInput.mode.specless

-----------------------------------------------------------------------------
(* Evidence and the scope of decisions *)

NoEvidence == [kind |-> "unknown", path |-> 0, key |-> 0, note |-> "none", sha |-> "none", valid |-> "unknown"]
FileRef(path) == [kind |-> "file", path |-> path, key |-> 0, note |-> "none", sha |-> "none", valid |-> "none"]
OrMissing(refs) == IF refs = <<>> THEN <<NoEvidence>> ELSE refs

IsInvalid(ref) == ref.valid \in {"invalid", "llm"}
IsVerified(ref) == ref.kind # "unknown" /\ ~IsInvalid(ref)
IsMissingRef(ref) == ref.kind = "unknown" \/ ref.valid = "unknown"

Files == Of("file")
ChangedPaths == UNION {{Signals[i].path, Signals[i].old} : i \in ToSet(Files)} \ {0}
\* The keys on changed lines, and of the requirements whose words are.
ExactKeys ==
  UNION {Signals[i].keys : i \in ToSet(Files)} \cup
  {Signals[i].key : i \in {j \in ToSet(Of("requirement")) : Signals[j].quoted}}
AffectedKeys == IF Pr THEN {Signals[i].key : i \in ToSet(Of("affected"))} ELSE ExactKeys

IsCurrent(ref) ==
  ref.kind \in {"command", "feedback", "test"} /\ ~tsInput.mode.dirty /\ ref.sha = "head"
InScope(ref) ==
  IF ref.kind \in {"command", "feedback"} \/ (ref.kind = "test" /\ ref.path = 0)
  THEN IsCurrent(ref)
  ELSE ref.key \in AffectedKeys \/ ref.path \in ChangedPaths
AnyInScope(refs) == \E ref \in ToSet(refs) : InScope(ref)

-----------------------------------------------------------------------------
(* The trust audit *)

Entry(of, refs) == [of |-> of, refs |-> refs]
EntriesOf(is) == Over(is, LAMBDA i : Entry(i, Signals[i].refs))

\* The scope of the pull request, and its risks that rest on verified evidence.
PrFacts ==
  IF ~Pr THEN <<>>
  ELSE <<Entry(0, Cut(Over(Files, LAMBDA i : FileRef(Signals[i].path)), 5))>> \o
       Kept(Over(Kept(Of("risk"), LAMBDA i : Signals[i].pr),
                 LAMBDA i : Entry(i, Cut(Kept(Signals[i].refs, IsVerified), 3))),
            LAMBDA e : e.refs # <<>>)

PositiveEvidence ==
  LET passed == Kept(Of("test"), LAMBDA i : Signals[i].kind \in {"direct", "indirect"})
  IN FlattenSeq(Over(passed, LAMBDA i : Over(Signals[i].refs, LAMBDA ref : Entry(i, <<ref>>))))

\* What feedback claims is always shown as a claim; a recorded command that is not a
\* validation is not one.
IsClaimedValidation(i) ==
  /\ Signals[i].kind = "claimed"
  /\ \/ \E ref \in ToSet(Signals[i].refs) : ref.kind = "feedback"
     \/ Signals[i].command \in {"none", "validation"}

\* The claims of the conversation that look like a validation first, of each the last first.
MethodClaims ==
  LET all == Reverse(Of("claim"))
      ordered == ByRank(all, LAMBDA i : IF Signals[i].validation THEN 0 ELSE 1)
  IN Over(ordered, LAMBDA i : Entry(i, IF Signals[i].cited THEN <<[FileRef(0) EXCEPT !.kind = "conversation"]>> ELSE <<NoEvidence>>))

MutClaimedNotVerified == \* the claims of the conversation first
  Cut(MethodClaims \o EntriesOf(Kept(Of("test"), IsClaimedValidation)), MaxTrust)

ClaimedNotVerified ==
  Cut(EntriesOf(Kept(Of("test"), IsClaimedValidation)) \o MethodClaims, MaxTrust)


\* A gap gives its requirement to the evidence that names none.
GapEntry(i) ==
  Entry(i, Over(Signals[i].refs, LAMBDA ref : IF ref.key = 0 THEN [ref EXCEPT !.key = Signals[i].key] ELSE ref))

MissingSummaries ==
  Cut(EntriesOf(Kept(Of("test"), LAMBDA i : Signals[i].kind \in {"missing", "unknown"})) \o
      (IF Pr /\ ~tsInput.mode.base THEN <<Entry(0, <<NoEvidence>>)>> ELSE <<>>) \o
      Over(Of("gap"), GapEntry), MaxTrust)

InvalidSummaries ==
  LET ofRisks == Kept(Over(Kept(Of("risk"), LAMBDA i : Signals[i].pr), LAMBDA i : Entry(i, Kept(Signals[i].refs, IsInvalid))),
                      LAMBDA e : e.refs # <<>>)
      ofResults == EntriesOf(Kept(Of("result"), LAMBDA i : Signals[i].status = "invalid_evidence"))
  IN Cut(ofRisks \o ofResults, MaxTrust)

TrustAudit ==
  [verified |-> Cut(Cut(PrFacts, MaxTrust) \o PositiveEvidence, MaxTrust), claimed |-> ClaimedNotVerified,
   missing |-> MissingSummaries, invalid |-> InvalidSummaries]

\* What of the audit is about this range: for missing evidence only a changed path counts.
ScopedTrust ==
  [trust EXCEPT !.claimed = Kept(@, LAMBDA e : AnyInScope(e.refs)),
                !.missing = Kept(@, LAMBDA e : \E ref \in ToSet(e.refs) : ref.path \in ChangedPaths),
                !.invalid = Kept(@, LAMBDA e : AnyInScope(e.refs))]

-----------------------------------------------------------------------------
(* The verdict *)

Blockers == Of("blocker")
HighFindings == Kept(Of("decision"), LAMBDA i : Signals[i].priority \in {"high", "medium"})
CurrentPositive == Kept(PositiveEvidence, LAMBDA e : IsCurrent(e.refs[1]))

NothingChanged == Pr /\ Files = <<>>

Decision ==
  LET scoped == ScopedTrust
  IN IF Blockers # <<>> THEN "block_before_merge"
     ELSE IF NothingChanged THEN "no_signal"
     ELSE IF scoped.missing \o scoped.claimed \o HighFindings # <<>> THEN "reviewable_with_attention"
     ELSE IF CurrentPositive # <<>> THEN "probably_safe" ELSE "no_signal"

Reasons ==
  LET scoped == ScopedTrust
      risk == IF HighFindings = <<>> THEN <<>> ELSE <<[why |-> "risks present", of |-> HighFindings[1]]>>
  IN IF Blockers # <<>> THEN Cut(Over(Blockers, LAMBDA i : [why |-> "blocker", of |-> i]), MaxReasons)
     ELSE IF NothingChanged THEN <<[why |-> "surface blocked", of |-> 0]>>
     ELSE IF scoped.missing \o scoped.claimed # <<>> THEN <<[why |-> "missing evidence", of |-> 0]>> \o risk
     ELSE IF risk # <<>> THEN risk
     ELSE <<[why |-> IF CurrentPositive # <<>> THEN "positive evidence" ELSE "no signal", of |-> 0]>>

Confidence ==
  LET scoped == ScopedTrust
  IN IF Decision = "no_signal" THEN "unknown"
     ELSE IF scoped.invalid # <<>> THEN "low"
     ELSE IF Blockers # <<>> THEN "high"
     ELSE IF scoped.missing \o scoped.claimed # <<>> THEN "medium" ELSE "high"

-----------------------------------------------------------------------------
(* Evidence cards *)

Weight == [unknown |-> 5, low |-> 15, medium |-> 40, high |-> 75, critical |-> 100]

Direct(refs) == Kept(refs, LAMBDA ref : IsVerified(ref) /\ ~IsMissingRef(ref))

\* Two pieces of evidence that differ only in what was found of them are one.
DistinctRefs(refs) == FirstOfEach(refs, LAMBDA ref : <<ref.kind, ref.path, ref.key, ref.note>>)

StatusOf(refs) ==
  LET buckets == {IF IsInvalid(ref) THEN "invalid_evidence" ELSE IF IsMissingRef(ref) THEN "missing_evidence" ELSE "direct" :
                  ref \in ToSet(refs)}
  IN IF Cardinality(buckets) > 1 THEN "mixed"
     ELSE IF buckets # {"direct"} THEN CHOOSE b \in buckets : TRUE
     ELSE IF \A ref \in ToSet(Direct(refs)) : ref.valid = "valid" THEN "verified" ELSE "unchecked"

\* A card: its score, the place of its key among the keys, what it is about and its status.
Card(class, score, key, of, refs) ==
  [class |-> class, score |-> score, key |-> key, of |-> of, status |-> StatusOf(DistinctRefs(OrMissing(refs)))]

\* Uncovered hunks are chosen before partly covered ones; a report older than the head is
\* not read.
HunkCards ==
  LET gaps == Kept(Of("hunk"), LAMBDA i : Signals[i].class # "covered")
      place(i) == (IF Signals[i].class = "uncovered" THEN 0 ELSE 10000) + 100 * Signals[i].path + Signals[i].at
      ordered == ByRank(gaps, place)
  IN IF tsInput.mode.stale THEN <<>>
     ELSE Over(Cut(ordered, CardsOf.coverage),
               LAMBDA i : Card("coverage", IF Signals[i].class = "uncovered" THEN 80 ELSE 60,
                               <<7, 100 * Signals[i].path + Signals[i].at>>, i, <<FileRef(Signals[i].path)>>))

\* The blockers that are shown; one that asks for a manual check lacks its evidence.
BlockerRefs(i) ==
  IF Signals[i].manual /\ ~\E ref \in ToSet(Signals[i].refs) : IsMissingRef(ref) THEN Append(Signals[i].refs, NoEvidence)
  ELSE Signals[i].refs
BlockerCards ==
  LET shown == Cut(Cut(Blockers, MaxReasons), CardsOf.blocker)
  IN [n \in DOMAIN shown |-> Card("blocker", 100 + Weight[Signals[shown[n]].severity], <<1, n>>, shown[n], BlockerRefs(shown[n]))]

LensCards ==
  LET shown == Cut(Of("lens"), CardsOf.lens)
  IN [n \in DOMAIN shown |-> Card("lens", 70 + Weight[Signals[shown[n]].severity] - Signals[shown[n]].rank, <<3, n>>, shown[n], Signals[shown[n]].refs)]

SectionCards(entries, class, score, key) ==
  LET shown == Cut(entries, CardsOf[class])
  IN [n \in DOMAIN shown |-> Card(class, score, <<key, n>>, shown[n].of, shown[n].refs)]

PlanCards ==
  LET shown == Cut(Kept(Of("plan"), LAMBDA i : Signals[i].required), CardsOf.plan)
  IN [n \in DOMAIN shown |-> Card("plan", 60, <<5, n>>, shown[n], <<NoEvidence>>)]

CardDrafts ==
  HunkCards \o BlockerCards \o LensCards \o SectionCards(trust.invalid, "invalid", 95, 2)
    \o SectionCards(trust.missing, "missing", 80, 4) \o PlanCards \o SectionCards(trust.verified, "verified", 20, 6)

\* What makes two cards the same: for hunks their file, header and class.
Subject(c) == <<c.class, IF c.class = "coverage" THEN <<c.key[2], c.score>> ELSE c.key>>

\* The highest score first, of equal ones the lesser key.
EvidenceCards ==
  LET drafts == FirstOfEach(CardDrafts, Subject)
      shown == IF drafts = <<>> THEN <<Card("none", 0, <<0, 0>>, 0, <<>>)>> ELSE drafts
      place(c) == (1000 - c.score) * 100000 + c.key[1] * 10000 + c.key[2]
  IN Cut(ByRank(shown, place), MaxCards)

-----------------------------------------------------------------------------
(* What was intended and what changed *)

ReasonPathsChanged == {Signals[i].key : i \in {j \in ToSet(Of("affected")) : Signals[j].path \in ChangedPaths}}
\* A delta counts by evidence that is not the specification's.
DeltasInChange ==
  {Signals[i].key : i \in {j \in ToSet(Of("delta")) : Signals[j].kind # "spec" /\ Signals[j].path \in ChangedPaths}}
ScopedKeys == ExactKeys \cup (IF Pr THEN ReasonPathsChanged \cup DeltasInChange ELSE {})

TouchesChange(i) == \E ref \in ToSet(Signals[i].refs) : ref.kind # "spec" /\ ref.path \in ChangedPaths
InFocus(i) == Signals[i].key \in ScopedKeys \/ TouchesChange(i)

StatusRank == [invalid_evidence |-> 0, missing |-> 1, unknown |-> 2, partial |-> 3]
BlockingRank(i) == IF Signals[i].status \in {"invalid_evidence", "missing"} THEN 0 ELSE 1
FocusRank(i) ==
  IF Signals[i].key \in ExactKeys THEN 0 ELSE IF TouchesChange(i) THEN 1 ELSE IF Signals[i].key \in ScopedKeys THEN 2 ELSE 3

Expected ==
  LET all == Of("requirement")
      exact == Kept(all, LAMBDA i : Signals[i].key \in ExactKeys)
      scoped == Kept(all, LAMBDA i : Signals[i].key \in ScopedKeys \ ExactKeys)
  IN Cut(IF exact # <<>> THEN exact ELSE IF scoped # <<>> THEN scoped ELSE all, MaxItems)

\* The areas a surface gave a file, and the requirements it maps to by an area or a path.
AreasOf(i) == IF Pr THEN Signals[i].areas ELSE {}
RequirementsOf(i) ==
  IF Pr THEN {Signals[j].key : j \in {a \in ToSet(Of("affected")) : Signals[a].area \in AreasOf(i) \/ Signals[a].path = Signals[i].path}}
  ELSE {}

Observed ==
  LET byPath == ByRank(Files, LAMBDA i : Signals[i].path)
  IN Over(Cut(byPath, MaxItems),
          LAMBDA i : [of |-> i,
                      keys |-> IF Signals[i].keys # {} THEN Signals[i].keys
                               ELSE IF Signals[i].role = "spec" THEN {} ELSE RequirementsOf(i)])

\* Those in focus, a blocking status first, then the closer to the change, the worse and
\* the lesser key; with no surface and nothing in focus, all of them.
Mismatches ==
  LET gaps == Kept(Of("result"), LAMBDA i : Signals[i].status \in DOMAIN StatusRank)
      place(i) == 100 * StatusRank[Signals[i].status] + Signals[i].key
      focused == Kept(gaps, InFocus)
  IN Cut(IF focused # <<>>
         THEN ByRank(focused, LAMBDA i : 10000 * BlockingRank(i) + 1000 * FocusRank(i) + place(i))
         ELSE IF Pr THEN <<>> ELSE ByRank(gaps, place), MaxItems)

OutOf(reasons) == IF Pr THEN Kept(Files, LAMBDA i : Signals[i].out \in reasons) ELSE <<>>

\* The requirements that overreach, then the unmapped files they do not cite.
Overreach ==
  LET cited == Kept(Of("overreach"), LAMBDA i : ~Pr \/ InFocus(i))
      paths == {ref.path : ref \in UNION {ToSet(Signals[i].refs) : i \in ToSet(cited)}}
  IN Cut(cited \o Kept(OutOf({"unmapped"}), LAMBDA i : Signals[i].path \notin paths), MaxItems)

\* The files without a requirement, as many as fit; that there is no requirement at all is
\* added last.
MissingIntent ==
  LET unmapped(i) ==
        /\ i \notin ToSet(OutOf({"generated", "ignored"})) /\ Signals[i].role # "generated"
        /\ i \in ToSet(OutOf({"unmapped"})) \/ AreasOf(i) = {} \/ RequirementsOf(i) = {}
      none == IF Of("requirement") = <<>> THEN <<0>> ELSE <<>>
  IN Cut(Cut(Kept(Files, unmapped), MaxItems) \o none, MaxItems)

\* Without a specification only what was observed, and what a provider claims.
IntentMismatch ==
  LET only(s) == IF Specless THEN <<>> ELSE s
  IN [expected |-> only(Expected), observed |-> Observed, mismatches |-> only(Mismatches), overreach |-> only(Overreach),
      missing |-> only(MissingIntent), claimed |-> Cut(Cut(Of("candidate"), MaxClaimed), MaxItems)]

-----------------------------------------------------------------------------
(* What may be skimmed, and how the work was done *)

IsElevated(severity) == severity \in {"high", "critical"}

\* A lock file, a generated one, or a document that is not a source of truth, where no
\* elevated risk lies and to which no feedback points.
SkimSafe ==
  LET risky == {ref.path : ref \in UNION {ToSet(Signals[i].refs) : i \in {j \in ToSet(Of("risk")) :
                                             IsElevated(Signals[j].severity) /\ (Pr \/ ~Signals[j].pr)}}}
      asked == {Signals[i].path : i \in {j \in ToSet(Of("effect")) :
                                           Signals[j].kind \in {"false_negative", "team_policy", "focus"}}}
  IN IF ~Pr THEN <<>>
     ELSE Cut(Kept(Files, LAMBDA i : /\ Signals[i].path \notin risky \cup asked
                                     /\ Signals[i].role \in {"lock", "generated", "doc"}), MaxSkim)

\* What a provider found before what the keywords found.
ProviderFirst(is) == Cut(ByRank(is, LAMBDA i : IF Signals[i].provider THEN 0 ELSE 1), MaxAudit)

\* The findings with an anchor that was checked, those another source bears out first.
MethodAudit ==
  LET anchored == Kept(Of("workflow"), LAMBDA i : Signals[i].anchored)
  IN [flags |-> Kept(Of("flag"), LAMBDA i : Signals[i].known),
      considered |-> ProviderFirst(Of("considered")), research |-> ProviderFirst(Of("research")),
      findings |-> Cut(ByRank(anchored, LAMBDA i : IF Signals[i].advisory THEN 1 ELSE 0), MaxAudit)]

-----------------------------------------------------------------------------
Nothing == <<>>

Init ==
  /\ \E theme \in Themes : \E mode \in theme.modes, holds \in theme.holds : tsInput = [mode |-> mode, holds |-> holds]
  /\ tsStage = "intent"
  /\ trust = Nothing /\ verdict = Nothing /\ cards = Nothing /\ intent = Nothing /\ skim = Nothing /\ method = Nothing

BuildIntentMismatch ==
  /\ tsStage = "intent" /\ intent' = IntentMismatch /\ tsStage' = "trust"
  /\ UNCHANGED <<tsInput, trust, verdict, cards, skim, method>>

BuildTrustAudit ==
  /\ tsStage = "trust" /\ trust' = TrustAudit /\ tsStage' = "verdict"
  /\ UNCHANGED <<tsInput, verdict, cards, intent, skim, method>>

BuildVerdict ==
  /\ tsStage = "verdict" /\ tsStage' = "cards"
  /\ verdict' = [decision |-> Decision, reasons |-> Reasons, confidence |-> Confidence]
  /\ UNCHANGED <<tsInput, trust, cards, intent, skim, method>>

BuildEvidenceCards ==
  /\ tsStage = "cards" /\ cards' = EvidenceCards /\ tsStage' = "skim"
  /\ UNCHANGED <<tsInput, trust, verdict, intent, skim, method>>

BuildSkimSafe ==
  /\ tsStage = "skim" /\ skim' = SkimSafe /\ tsStage' = "method"
  /\ UNCHANGED <<tsInput, trust, verdict, cards, intent, method>>

BuildMethodologyAudit ==
  /\ tsStage = "method" /\ method' = MethodAudit /\ tsStage' = "done"
  /\ UNCHANGED <<tsInput, trust, verdict, cards, intent, skim>>

Next ==
  \/ BuildIntentMismatch \/ BuildTrustAudit \/ BuildVerdict \/ BuildEvidenceCards \/ BuildSkimSafe
  \/ BuildMethodologyAudit

Spec == Init /\ [][Next]_tsVars

TypeOK ==
  /\ tsInput.holds \subseteq DOMAIN Signals /\ tsStage \in {"intent", "trust", "verdict", "cards", "skim", "method", "done"}
  /\ tsStage \in {"skim", "method", "done"} =>
       /\ verdict.decision \in {"block_before_merge", "no_signal", "reviewable_with_attention", "probably_safe"}
       /\ \A n \in DOMAIN cards :
            cards[n].status \in {"mixed", "invalid_evidence", "missing_evidence", "verified", "unchecked"}

-----------------------------------------------------------------------------
Sources(entries) == {entries[n].of : n \in DOMAIN entries}
Held(what) == ToSet(Of(what))
RefsOf(i) == ToSet(Signals[i].refs)

\* Evidence of a validation of this very head, nothing being uncommitted.
OfThisHead(ref) == ref.kind \in {"command", "feedback", "test"} /\ ref.sha = "head" /\ ~tsInput.mode.dirty

\* A passed command that only feedback reports is shown as a claim, whatever else is
\* claimed, unless other validations fill the section; and it is never among the facts.
\* What the conversation says of the method takes the place of no validation.
ClaimsAreShown ==
  \A i \in Held("test") : Signals[i].kind = "claimed" =>
    /\ i \notin Sources(trust.verified)
    /\ (\E ref \in RefsOf(i) : ref.kind = "feedback") =>
         i \in Sources(trust.claimed) \/ (Len(trust.claimed) = MaxTrust /\ Sources(trust.claimed) \subseteq Held("test"))

\* The verdict is probably safe only if a validation of this head passed and nothing in
\* the changed files lacks evidence or is merely claimed, no decision of weight is open
\* and no blocker is, as far as the sections of the audit reach.
SafeIsSupported ==
  verdict.decision = "probably_safe" =>
    /\ \E i \in Held("test") : Signals[i].kind \in {"direct", "indirect"} /\ \E ref \in RefsOf(i) : OfThisHead(ref)
    /\ Held("blocker") = {} /\ \A i \in Held("decision") : Signals[i].priority = "low"
    /\ Len(trust.missing) < MaxTrust =>
         \A i \in Held("test") \cup Held("gap") : \A ref \in RefsOf(i) :
           (Signals[i].what = "gap" \/ Signals[i].kind \in {"missing", "unknown"}) => ref.path \notin ChangedPaths
    /\ Len(trust.claimed) < MaxTrust =>
         \A i \in Held("test") : Signals[i].kind = "claimed" => \A ref \in RefsOf(i) : ~(ref.kind = "feedback" /\ OfThisHead(ref))

\* Confidence is high only where no requirement of the change and no risk of the pull
\* request rests on invalid evidence in the change, as far as the section reaches.
ConfidenceIsEarned ==
  verdict.confidence = "high" /\ Len(trust.invalid) < MaxTrust =>
    /\ \A i \in Held("result") : Signals[i].status = "invalid_evidence" => \A ref \in RefsOf(i) : ref.path \notin ChangedPaths \/ ref.kind # "file"
    /\ Pr => \A i \in Held("risk") : Signals[i].pr => \A ref \in RefsOf(i) : ref.valid \in {"llm", "invalid"} => ref.path \notin ChangedPaths

ShownAs(class) == {cards[n].of : n \in {m \in DOMAIN cards : cards[m].class = class}}

SameWords(ref, other) == <<ref.kind, ref.path, ref.key, ref.note>> = <<other.kind, other.path, other.key, other.note>>

\* A card is verified only when all the evidence it stands for was checked, or says what
\* checked evidence of it says, and a blocker that waits for a manual check never is.
VerifiedIsEarned ==
  \A n \in DOMAIN cards : cards[n].status = "verified" =>
    /\ cards[n].class \in {"blocker", "lens"} =>
         \A ref \in RefsOf(cards[n].of) : \E other \in RefsOf(cards[n].of) : SameWords(ref, other) /\ other.valid = "valid"
    /\ cards[n].class = "blocker" => ~Signals[cards[n].of].manual
    /\ cards[n].class \notin {"missing", "invalid", "plan", "none"}

\* What speaks for the change is shown only when of each kind that speaks against it as
\* many are as the kind may have, and no blocker gives way to anything but blockers and
\* lenses; a partly covered hunk is shown only when every uncovered one is.
WorstIsShown ==
  LET weaknesses == [blocker |-> Len(Cut(Blockers, MaxReasons)), lens |-> Len(Of("lens")), invalid |-> Len(trust.invalid),
                     missing |-> Len(trust.missing), plan |-> Cardinality({i \in Held("plan") : Signals[i].required}),
                     coverage |-> IF tsInput.mode.stale THEN 0 ELSE Cardinality({i \in Held("hunk") : Signals[i].class # "covered"})]
      shown(class) == Cardinality({n \in DOMAIN cards : cards[n].class = class})
      inFull(class) == shown(class) = IF weaknesses[class] < CardsOf[class] THEN weaknesses[class] ELSE CardsOf[class]
  IN /\ shown("verified") > 0 => \A class \in DOMAIN weaknesses : inFull(class)
     /\ inFull("blocker") \/ \A n \in DOMAIN cards : cards[n].class \in {"blocker", "lens"}
     /\ \A i \in ShownAs("coverage") :
          /\ ~tsInput.mode.stale
          /\ Signals[i].class = "partial" => \A j \in Held("hunk") : Signals[j].class = "uncovered" => j \in ShownAs("coverage")
     /\ cards # <<>>

\* With a pull request nothing outside the change is held against it; of what is, no gap
\* that blocks gives way to one that does not. Without a specification nothing is said of
\* one.  A changed file that maps to nothing is named unless the section is full, and one
\* that is out of scope counts as overreach or is part of one.
IntentIsOfTheChange ==
  LET named == UNION {{ref.path : ref \in RefsOf(i)} : i \in ToSet(intent.overreach) \cap Held("overreach")}
      blocks(i) == Signals[i].status \in {"missing", "invalid_evidence"}
      touches(i) == Signals[i].key \in ExactKeys \/ \E ref \in RefsOf(i) : ref.path \in ChangedPaths /\ ref.kind # "spec"
  IN IF Specless THEN intent.expected \o intent.mismatches \o intent.overreach \o intent.missing = <<>>
     ELSE /\ Pr => \A i \in ToSet(intent.mismatches) :
               touches(i) \/ \E j \in Held("affected") \cup Held("delta") :
                 /\ Signals[j].key = Signals[i].key /\ Signals[j].path \in ChangedPaths
                 /\ Signals[j].what = "delta" => Signals[j].kind # "spec"
          /\ \A i \in Held("result") \ ToSet(intent.mismatches) : blocks(i) /\ touches(i) =>
               Len(intent.mismatches) = MaxItems /\ \A j \in ToSet(intent.mismatches) : blocks(j)
          /\ Pr => \A i \in Held("file") : Signals[i].out = "unmapped" =>
               /\ i \in ToSet(intent.overreach) \/ Signals[i].path \in named \/ Len(intent.overreach) = MaxItems
               /\ Signals[i].role # "generated" => i \in ToSet(intent.missing) \/ Len(intent.missing) = MaxItems

\* A file is skimmed only where no elevated risk points, whether of the pull request or of
\* the packet.
SkimIsHarmless ==
  \A i \in ToSet(skim) : \A j \in Held("risk") :
    Signals[j].severity \in {"high", "critical"} => \A ref \in RefsOf(j) : ref.path # Signals[i].path

\* Findings that are borne out survive the limit before those that are advice.
MethodIsGrounded ==
  \A i, j \in Held("workflow") :
    /\ j \in ToSet(method.findings) => Signals[j].anchored
    /\ Signals[i].anchored /\ ~Signals[i].advisory /\ i \notin ToSet(method.findings) /\ j \in ToSet(method.findings)
         => ~Signals[j].advisory

\* The sections say no more than the evidence does.
TrustIsHonest ==
  /\ tsStage \notin {"intent"} => IntentIsOfTheChange
  /\ tsStage \notin {"intent", "trust"} => ClaimsAreShown
  /\ tsStage \notin {"intent", "trust", "verdict"} => SafeIsSupported /\ ConfidenceIsEarned
  /\ tsStage \in {"skim", "method", "done"} => VerifiedIsEarned /\ WorstIsShown
  /\ tsStage \in {"method", "done"} => SkimIsHarmless
  /\ tsStage = "done" => MethodIsGrounded
=============================================================================
