---------------------------- MODULE ReviewRounds ----------------------------
(***************************************************************************)
(* One review after another of a change.  A run composes the packet of the *)
(* current head, compares it with a packet saved from an earlier run, and  *)
(* then builds the brief: what improved, regressed, appeared and remains   *)
(* since then, and a ledger with one row for each round, carried over from *)
(* the brief saved beside that packet.  Runs are killed in between, briefs *)
(* are built again, the output directory is saved at any time, and what    *)
(* was saved is lost or damaged.                                           *)
(*                                                                         *)
(* A requirement's key and a path are numbers in the order of their text.  *)
(* A risk is known by its category and its summary, which for a roll-up    *)
(* holds a count n.                                                        *)
(***************************************************************************)
EXTENDS Integers, Sequences, FiniteSets, SequencesExt, FiniteSetsExt

CONSTANTS
  Worlds,        \* what a head may look like to the analysis
  MaxHeads,      \* commits under review
  MaxRuns,       \* runs that compose a packet
  MaxRounds,     \* rows of a ledger
  MaxFaults,     \* kills and losses
  MaxOpen,       \* items shown as still open (12 in the code)
  MaxGaps,       \* test gaps (20 in the code)
  MaxHighlights, \* feedback findings highlighted (8 in the code)
  MaxTasks,      \* remediation tasks of each kind (5 in the code)
  MaxRows        \* rows of the ledger shown (8 in the code)

VARIABLES
  rvStage,  \* "idle", or "composed" between the packet and the brief
  rvHead,   \* how many commits there were
  rvWorld,  \* what the current head looks like
  rvOut,    \* the packet and the brief in the output directory
  rvSaved,  \* those of the directory given with --previous-packet
  rvRuns, rvFaults

rvVars == <<rvStage, rvHead, rvWorld, rvOut, rvSaved, rvRuns, rvFaults>>

FirstN(s, n) == SubSeq(s, 1, IF Len(s) > n THEN n ELSE Len(s))
LastN(s, n) == SubSeq(s, IF Len(s) > n THEN Len(s) - n + 1 ELSE 1, Len(s))
Ascending(S) == [n \in 1..Cardinality(S) |-> CHOOSE x \in S : Cardinality({y \in S : y <= x}) = n]

-----------------------------------------------------------------------------
(* The risks and the gaps of a packet *)

Risk(category, severity, n, about) ==
  [id |-> <<"RISK", 0>>, category |-> category, severity |-> severity, n |-> n, about |-> about]

CountOf(results, status) == Len(SelectSeq(results, LAMBDA r : r.status = status))

\* One roll-up for each kind of weakness there is, numbered as they come; what a
\* provider adds has numbers of its own.
RiskItems(w) ==
  LET rollUps == SelectSeq(<<Risk("correctness", "high", CountOf(w.results, "missing"), "no evidence"),
                             Risk("testing", "medium", CountOf(w.results, "partial"), "weak tests"),
                             Risk("workflow", "medium", Cardinality(w.overreach), "changed file"),
                             Risk("release", "low", CountOf(w.results, "unknown"), "remain unknown"),
                             Risk("workflow", "medium", w.claims, "methodology claim")>>,
                           LAMBDA r : r.n > 0)
  IN [i \in DOMAIN rollUps |-> [rollUps[i] EXCEPT !.id = <<"RISK", i>>]]
     \o [i \in DOMAIN w.proposed |-> [w.proposed[i] EXCEPT !.id = <<"LLM", i>>]]

TestGaps(results) == FirstN(SelectSeq(results, LAMBDA r : r.status # "satisfied"), MaxGaps)

-----------------------------------------------------------------------------
(* The comparison of two packets *)

ComparisonRiskKey(r) == <<r.category, r.n, r.about>>

RiskKeys(risks) == {ComparisonRiskKey(risks[i]) : i \in DOMAIN risks}

TextOrder == <<"correctness", "release", "testing", "workflow", "changed file", "methodology claim",
               "no evidence", "remain unknown", "weak tests">>
TextRank(t) == CHOOSE i \in DOMAIN TextOrder : TextOrder[i] = t
KeyBefore(a, b) ==
  \/ TextRank(a[1]) < TextRank(b[1])
  \/ a[1] = b[1] /\ a[2] < b[2]
  \/ a[1] = b[1] /\ a[2] = b[2] /\ TextRank(a[3]) < TextRank(b[3])

StatusOrder == [invalid_evidence |-> 0, missing |-> 1, unknown |-> 2, partial |-> 3, satisfied |-> 4]

\* The first result of a key counts.
StatusByKey(results) ==
  [k \in {results[i].key : i \in DOMAIN results} |->
     results[CHOOSE i \in DOMAIN results : results[i].key = k /\ \A j \in 1..(i - 1) : results[j].key # k].status]

StatusIn(status, k) == IF k \in DOMAIN status THEN status[k] ELSE "missing"

DirectionFor(before, after) ==
  IF before \in DOMAIN StatusOrder /\ after \in DOMAIN StatusOrder
  THEN CASE StatusOrder[after] > StatusOrder[before] -> "improved"
         [] StatusOrder[after] < StatusOrder[before] -> "regressed"
         [] OTHER -> "unchanged"
  ELSE CASE after = "overreach" /\ before # "overreach" -> "regressed"
         [] before = "overreach" /\ after # "overreach" -> "improved"
         [] OTHER -> "unchanged"

StatusChanges(previous, current) ==
  LET before == StatusByKey(previous)
      after == StatusByKey(current)
      keys == Ascending({k \in DOMAIN before \cup DOMAIN after : StatusIn(before, k) # StatusIn(after, k)})
  IN [i \in DOMAIN keys |->
       [key |-> keys[i], before |-> StatusIn(before, keys[i]), after |-> StatusIn(after, keys[i]),
        direction |-> DirectionFor(StatusIn(before, keys[i]), StatusIn(after, keys[i]))]]

CountDeltas(previous, current) ==
  [s \in DOMAIN StatusOrder |-> CountOf(current, s) - CountOf(previous, s)]

ComparePackets(previous, w) ==
  LET before == RiskKeys(previous.risks)
      after == RiskKeys(RiskItems(w))
  IN [changes |-> StatusChanges(previous.results, w.results),
      newOverreach |-> Ascending(w.overreach \ previous.overreach),
      resolvedOverreach |-> Ascending(previous.overreach \ w.overreach),
      newRisks |-> SetToSortSeq(after \ before, KeyBefore),
      resolvedRisks |-> SetToSortSeq(before \ after, KeyBefore),
      deltas |-> CountDeltas(previous.results, w.results)]

NoComparison ==
  [changes |-> <<>>, newOverreach |-> <<>>, resolvedOverreach |-> <<>>, newRisks |-> <<>>, resolvedRisks |-> <<>>,
   deltas |-> [s \in DOMAIN StatusOrder |-> 0]]

Moved(comparison, direction) == SelectSeq(comparison.changes, LAMBDA c : c.direction = direction)

-----------------------------------------------------------------------------
(* The packet *)

\* Files without a readable date are the oldest.
ByRecency(files) ==
  LET Older(a, b) ==
        \/ ~a.dated /\ b.dated
        \/ a.dated /\ b.dated /\ a.at < b.at
        \/ a.dated = b.dated /\ (a.dated => a.at = b.at) /\ a.path < b.path
  IN SetToSortSeq(files, Older)

\* The last finding of every file, the newest file first, then the others.
SelectFeedbackFindings(files) ==
  LET newest == Reverse(ByRecency(files))
      All(f) == [i \in 1..f.findings |-> <<f.path, f.findings - i + 1>>]
      last == FlattenSeq([i \in DOMAIN newest |-> FirstN(All(newest[i]), 1)])
      all == FlattenSeq([i \in DOMAIN newest |-> All(newest[i])])
  IN FirstN(last \o SelectSeq(all, LAMBDA f : f \notin ToSet(last)), MaxHighlights)

RemediationTasks(w) ==
  LET oldest == ByRecency(w.feedback)
      wishes == FlattenSeq([i \in DOMAIN oldest |-> [n \in 1..oldest[i].findings |-> <<oldest[i].path, n>>]])
  IN [gaps |-> FirstN(TestGaps(w.results), MaxTasks), feedback |-> LastN(wishes, MaxTasks)]

\* What the hand-off to the next agent says of the changes.
ChangesSinceLastPacket(supplied, compared, comparison) ==
  IF ~supplied THEN <<>>
  ELSE IF ~compared THEN <<<<"unreadable">>>>
  ELSE <<<<"against">>>>
       \o [i \in DOMAIN comparison.changes |-> <<"status", comparison.changes[i].key>>]
       \o [i \in DOMAIN comparison.newRisks |-> <<"new", comparison.newRisks[i]>>]
       \o [i \in DOMAIN comparison.resolvedRisks |-> <<"resolved", comparison.resolvedRisks[i]>>]
       \o [i \in DOMAIN comparison.newOverreach |-> <<"new file", comparison.newOverreach[i]>>]
       \o [i \in DOMAIN comparison.resolvedOverreach |-> <<"resolved file", comparison.resolvedOverreach[i]>>]
       \o <<<<"deltas">>>>

NoPacket == [is |-> FALSE, run |-> 0]

\* The packet saved, if it is one, as a comparison reads it: the severities are not kept.
LoadPreviousPacket ==
  LET saved == rvSaved.packet
  IN IF ~saved.is THEN NoPacket
     ELSE [saved EXCEPT !.risks = [i \in DOMAIN saved.risks |-> [saved.risks[i] EXCEPT !.severity = "unknown"]]]

Packet(w, supplied) ==
  LET previous == LoadPreviousPacket
      compared == supplied /\ previous.is
      comparison == IF compared THEN ComparePackets(previous, w) ELSE NoComparison
      risks == RiskItems(w)
  IN [is |-> TRUE, run |-> rvRuns + 1, head |-> rvHead, supplied |-> supplied, compared |-> compared,
      against |-> IF compared THEN previous.run ELSE 0,
      results |-> w.results, overreach |-> w.overreach, risks |-> risks, comparison |-> comparison,
      handoff |-> ChangesSinceLastPacket(supplied, compared, comparison),
      highlights |-> SelectFeedbackFindings(w.feedback), tasks |-> RemediationTasks(w),
      decidedRisks |-> {risks[i].id : i \in {j \in DOMAIN risks : risks[j].about \in w.decides}},
      decidedKeys |-> w.decidedKeys, verdict |-> w.verdict]

-----------------------------------------------------------------------------
(* The brief *)

Specless(p) == p.results = <<>>

NoBrief == [is |-> FALSE, of |-> 0]

RiskOf(key, risks) == SelectSeq(risks, LAMBDA r : ComparisonRiskKey(r) = key)

\* A risk that was compared: the id and the severity when the risk itself is at hand.
RiskItem(key, risks) ==
  LET at == RiskOf(key, risks)
  IN [key |-> key, refs |-> IF at = <<>> THEN {} ELSE {at[Len(at)].id},
      severity |-> IF at = <<>> THEN "unknown" ELSE at[Len(at)].severity]

\* Requirements, risks and files that are neither new nor moved, in the order of the
\* names of their categories: overreach, requirement, risk.
StillOpen(p) ==
  LET changed == {p.comparison.changes[i].key : i \in DOMAIN p.comparison.changes}
      files == Ascending(p.overreach \ ToSet(p.comparison.newOverreach))
      weak == {i \in DOMAIN p.results : p.results[i].status # "satisfied" /\ p.results[i].key \notin changed}
      requirements == SetToSortSeq(weak, LAMBDA i, j : \/ p.results[i].key < p.results[j].key
                                                       \/ p.results[i].key = p.results[j].key /\ i < j)
      old == {i \in DOMAIN p.risks : ComparisonRiskKey(p.risks[i]) \notin ToSet(p.comparison.newRisks)}
      risks == SetToSortSeq(old, LAMBDA i, j : \/ KeyBefore(ComparisonRiskKey(p.risks[i]), ComparisonRiskKey(p.risks[j]))
                                               \/ ComparisonRiskKey(p.risks[i]) = ComparisonRiskKey(p.risks[j]) /\ i < j)
      open == [i \in DOMAIN files |-> <<"overreach", files[i]>>]
              \o [i \in DOMAIN requirements |-> <<"requirement", p.results[requirements[i]].key>>]
      of == [i \in DOMAIN risks |-> <<"risk", ComparisonRiskKey(p.risks[risks[i]])>>]
  IN FirstN(IF Specless(p) THEN of ELSE open \o of, MaxOpen)

NothingSince == [compared |-> FALSE, improved |-> <<>>, regressed |-> <<>>, newRisks |-> <<>>, resolvedRisks |-> <<>>,
                 newOverreach |-> <<>>, resolvedOverreach |-> <<>>, open |-> <<>>]

SinceLastReview(p, approvalRisks) ==
  IF ~p.compared THEN NothingSince
  ELSE LET c == p.comparison
           Spec(s) == IF Specless(p) THEN <<>> ELSE s
       IN [compared |-> TRUE,
           improved |-> Spec(Moved(c, "improved")), regressed |-> Spec(Moved(c, "regressed")),
           newRisks |-> [i \in DOMAIN c.newRisks |-> RiskItem(c.newRisks[i], p.risks)],
           resolvedRisks |-> [i \in DOMAIN c.resolvedRisks |-> RiskItem(c.resolvedRisks[i], approvalRisks)],
           newOverreach |-> Spec(c.newOverreach), resolvedOverreach |-> Spec(c.resolvedOverreach),
           open |-> StillOpen(p)]

\* Defect: the ledger goes on although there was no packet to compare with.
MutPreviousReview(p) ==
  LET brief == rvSaved.brief
      packet == LoadPreviousPacket
  IN IF ~brief.is THEN [rounds |-> <<>>, approvalRisks |-> <<>>]
     ELSE [rounds |-> IF brief.wellFormed THEN brief.rounds ELSE <<>>,
           approvalRisks |-> IF ~packet.is THEN <<>>
                             ELSE SelectSeq(packet.risks, LAMBDA r : r.id \in brief.decidedRisks)]

\* What the brief saved beside the packet contributes: its ledger, unless a row is
\* malformed, and the risks it decided on, as the packet there names them.
PreviousReview(p) ==
  LET brief == rvSaved.brief
      packet == LoadPreviousPacket
  IN IF ~p.compared \/ ~brief.is THEN [rounds |-> <<>>, approvalRisks |-> <<>>]
     ELSE [rounds |-> IF brief.wellFormed THEN brief.rounds ELSE <<>>,
           approvalRisks |-> IF ~packet.is THEN <<>>
                             ELSE SelectSeq(packet.risks, LAMBDA r : r.id \in brief.decidedRisks)]

RoundsLedger(p, prior) ==
  Append(prior, [round |-> (IF prior = <<>> THEN 0 ELSE prior[Len(prior)].round) + 1, head |-> p.head,
                 new |-> Len(p.comparison.newRisks), resolved |-> Len(p.comparison.resolvedRisks),
                 regressed |-> Len(Moved(p.comparison, "regressed")), verdict |-> p.verdict])

\* What changed that may change the approval: what the sticky comment shows.
ApprovalChanging(p, since, rounds) ==
  LET Decided(items) == SelectSeq(items, LAMBDA c : c.key \in p.decidedKeys)
      others == SelectSeq(rounds, LAMBDA r : r.head # p.head)
  IN [improved |-> Decided(since.improved), regressed |-> Decided(since.regressed),
      newRisks |-> SelectSeq(since.newRisks, LAMBDA r : r.refs \cap p.decidedRisks # {}),
      resolvedRisks |-> SelectSeq(since.resolvedRisks, LAMBDA r : r.refs # {}),
      from |-> IF others # <<>> /\ others[Len(others)].verdict # p.verdict THEN others[Len(others)].verdict ELSE "none"]

RoundsShown(rounds) == LastN(rounds, MaxRows)

\* What happened, kept beside the ledger: each round's risks, statuses and decisions.
Fact(p) ==
  [risks |-> {<<p.risks[i].category, p.risks[i].n, p.risks[i].about>> : i \in DOMAIN p.risks},
   decided |-> {<<p.risks[i].category, p.risks[i].n, p.risks[i].about>> :
                  i \in {j \in DOMAIN p.risks : p.risks[j].id \in p.decidedRisks}},
   status |-> StatusByKey(p.results), head |-> p.head, verdict |-> p.verdict]

Brief(p) ==
  LET previous == PreviousReview(p)
      since == SinceLastReview(p, previous.approvalRisks)
      rounds == RoundsLedger(p, previous.rounds)
      saved == rvSaved.brief
  IN [is |-> TRUE, of |-> p.run, wellFormed |-> TRUE, decidedRisks |-> p.decidedRisks, since |-> since, rounds |-> rounds,
      shown |-> RoundsShown(rounds),
      sticky |-> ApprovalChanging(p, since, rounds),
      orderly |-> p.compared =>
        /\ rvSaved.packet.is /\ rvSaved.packet.run = p.against
        /\ saved.is /\ saved.of = p.against /\ saved.wellFormed /\ saved.orderly,
      facts |-> Append(IF p.compared /\ saved.is THEN saved.facts ELSE <<>>, Fact(p))]

-----------------------------------------------------------------------------
(* The runs *)

Init ==
  /\ rvStage = "idle" /\ rvHead = 1 /\ rvWorld \in Worlds
  /\ rvOut = [packet |-> NoPacket, brief |-> NoBrief] /\ rvSaved = rvOut
  /\ rvRuns = 0 /\ rvFaults = 0

\* The next commit.
Edit ==
  /\ rvStage = "idle" /\ rvHead < MaxHeads
  /\ rvHead' = rvHead + 1 /\ rvWorld' \in Worlds
  /\ UNCHANGED <<rvStage, rvOut, rvSaved, rvRuns, rvFaults>>

ComposePacket ==
  /\ rvStage = "idle" /\ rvRuns < MaxRuns
  /\ \E supplied \in BOOLEAN : rvOut' = [rvOut EXCEPT !.packet = Packet(rvWorld, supplied)]
  /\ rvStage' = "composed" /\ rvRuns' = rvRuns + 1
  /\ UNCHANGED <<rvHead, rvWorld, rvSaved, rvFaults>>

\* The brief of the run, or `human' on what the directory holds.
BuildHumanReview ==
  /\ rvOut.packet.is /\ Len(PreviousReview(rvOut.packet).rounds) < MaxRounds
  /\ rvOut' = [rvOut EXCEPT !.brief = Brief(rvOut.packet)]
  /\ rvStage' = "idle"
  /\ UNCHANGED <<rvHead, rvWorld, rvSaved, rvRuns, rvFaults>>

\* A run killed before its brief: the brief of an earlier run stays.
Kill ==
  /\ rvStage = "composed" /\ rvFaults < MaxFaults
  /\ rvStage' = "idle" /\ rvFaults' = rvFaults + 1
  /\ UNCHANGED <<rvHead, rvWorld, rvOut, rvSaved, rvRuns>>

\* The output directory is copied or uploaded for the next round.
Save ==
  /\ rvStage = "idle" /\ rvOut.packet.is
  /\ rvSaved' = rvOut
  /\ UNCHANGED <<rvStage, rvHead, rvWorld, rvOut, rvRuns, rvFaults>>

\* An artifact expires or is cut short: no packet, no brief, or a row that is none.
Lose ==
  /\ rvFaults < MaxFaults /\ rvFaults' = rvFaults + 1
  /\ \/ rvSaved.packet.is /\ rvSaved' = [rvSaved EXCEPT !.packet = NoPacket]
     \/ rvSaved.brief.is /\ rvSaved' = [rvSaved EXCEPT !.brief = NoBrief]
     \/ rvSaved.brief.is /\ rvSaved.brief.wellFormed
        /\ rvSaved' = [rvSaved EXCEPT !.brief.wellFormed = FALSE, !.brief.facts = <<>>]
  /\ UNCHANGED <<rvStage, rvHead, rvWorld, rvOut, rvRuns>>

Next == Edit \/ ComposePacket \/ BuildHumanReview \/ Kill \/ Save \/ Lose

Spec == Init /\ [][Next]_rvVars

-----------------------------------------------------------------------------
TypeOK ==
  /\ rvStage \in {"idle", "composed"} /\ rvHead \in 1..MaxHeads /\ rvWorld \in Worlds
  /\ rvRuns \in 0..MaxRuns /\ rvFaults \in 0..MaxFaults
  /\ \A dir \in {rvOut, rvSaved} :
       /\ dir.packet.run \in 0..rvRuns /\ dir.brief.of \in 0..rvRuns
       /\ dir.packet.is => Len(dir.packet.highlights) <= MaxHighlights /\ dir.packet.against < dir.packet.run
       /\ dir.brief.is => Len(dir.brief.since.open) <= MaxOpen /\ Len(dir.brief.shown) <= MaxRows

\* What is open and neither new nor moved is listed as still open, unless the list is
\* full: a later round hides nothing that an earlier one had shown.
OpenIsListed(p, since) ==
  LET moved == {c.key : c \in ToSet(since.improved) \cup ToSet(since.regressed)}
      open == ToSet(since.open)
  IN since.compared /\ Len(since.open) < MaxOpen =>
       /\ \A key \in RiskKeys(p.risks) : <<"risk", key>> \in open \/ key \in {r.key : r \in ToSet(since.newRisks)}
       /\ \A i \in DOMAIN p.results : p.results[i].status # "satisfied" =>
            p.results[i].key \in moved \/ <<"requirement", p.results[i].key>> \in open
       /\ ~Specless(p) => \A f \in p.overreach : <<"overreach", f>> \in open \/ f \in ToSet(since.newOverreach)

\* One row for each round that was compared with the one before it, numbered without a
\* gap; a review that compares with nothing is a first one.
LedgerIsSound(brief) ==
  /\ Len(brief.rounds) = Len(brief.facts)
  /\ \A i \in DOMAIN brief.rounds :
       /\ brief.rounds[i].round = i
       /\ brief.rounds[i].head = brief.facts[i].head /\ brief.rounds[i].verdict = brief.facts[i].verdict
  /\ ~brief.since.compared => Len(brief.rounds) = 1

FromWorst == <<"overreach", "invalid_evidence", "missing", "unknown", "partial", "satisfied">>
Rank(status) == CHOOSE i \in DOMAIN FromWorst : FromWorst[i] = status
Regressed(before, after) ==
  {k \in DOMAIN before \cup DOMAIN after : Rank(StatusIn(after, k)) < Rank(StatusIn(before, k))}

\* As long as every packet was saved with its own brief and compared with before either
\* was replaced, a row counts what really changed between that round and the one before.
RowsAreTrue(brief) ==
  brief.orderly => \A i \in 2..Len(brief.rounds) :
    LET row == brief.rounds[i]
        before == brief.facts[i - 1]
        after == brief.facts[i]
    IN /\ row.new = Cardinality(after.risks \ before.risks)
       /\ row.resolved = Cardinality(before.risks \ after.risks)
       /\ row.regressed = Cardinality(Regressed(before.status, after.status))

\* Then the sticky comment shows the risks the last verdict rested on that are gone, the
\* ones this verdict rests on that are new, and the verdict of another head it replaces,
\* although the numbers of the risks shifted in between.
TransitionsAreShown(brief) ==
  LET n == Len(brief.facts)
      now == brief.facts[n]
      others == {i \in 1..(n - 1) : brief.facts[i].head # now.head}
      before == brief.facts[n - 1]
  IN brief.orderly /\ n > 1 =>
       /\ {r.key : r \in ToSet(brief.sticky.resolvedRisks)} = before.decided \ now.risks
       /\ {r.key : r \in ToSet(brief.sticky.newRisks)} = now.decided \ before.risks
       /\ brief.sticky.from # "none" => brief.sticky.from # now.verdict
       /\ others # {} /\ brief.facts[Max(others)].verdict # now.verdict => brief.sticky.from = brief.facts[Max(others)].verdict

\* However long the newest feedback file, the last finding of every file comes before a
\* second one of any, and if there is no room for all files the newest are those chosen.
FeedbackIsSpread(p, files) ==
  LET used == {f \in files : f.findings > 0}
      n == IF Cardinality(used) < MaxHighlights THEN Cardinality(used) ELSE MaxHighlights
      chosen == {f \in used : <<f.path, f.findings>> \in ToSet(FirstN(p.highlights, n))}
  IN /\ Cardinality(chosen) = n
     /\ \A f \in used \ chosen, g \in chosen : f.dated => g.dated /\ g.at >= f.at

\* The rounds of a review add up: nothing open is hidden by a later round, the ledger has
\* one true row for each, and what decided before and no longer does is shown as gone.
RoundsAddUp ==
  /\ rvOut.brief.is =>
       /\ LedgerIsSound(rvOut.brief) /\ RowsAreTrue(rvOut.brief) /\ TransitionsAreShown(rvOut.brief)
       /\ rvOut.brief.of = rvOut.packet.run => OpenIsListed(rvOut.packet, rvOut.brief.since)
  /\ rvStage = "composed" => FeedbackIsSpread(rvOut.packet, rvWorld.feedback)
=============================================================================
