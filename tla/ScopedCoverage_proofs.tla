----------------------- MODULE ScopedCoverage_proofs -----------------------
(***************************************************************************)
(* A requirement that is at both commits is compared with itself, for      *)
(* every specification, every sequence of edits to it and every diff; one  *)
(* that an evaluation calls satisfied is so on evidence of the tool's own  *)
(* (RequirementEvaluation); the risks of a pull request name what it       *)
(* changes untested or removes (PrRisks); and no decision is lost between  *)
(* them and the reviewer, nor does a plan exceed its budget (ReviewQueue). *)
(***************************************************************************)
EXTENDS ScopedCoverage, RequirementEvaluation, PrRisks, ReviewQueue, FiniteSetTheorems,
        SequenceTheorems, WellFoundedInduction, TLAPS

-----------------------------------------------------------------------------
(* Edits of a specification *)

\* ConcatProperties with the lengths named.
LEMMA Joined ==
  ASSUME NEW S, NEW s \in Seq(S), NEW t \in Seq(S), NEW m, NEW n, Len(s) = m, Len(t) = n
  PROVE  /\ s \o t \in Seq(S) /\ Len(s \o t) = m + n
         /\ \A j \in 1..(m + n) : (s \o t)[j] = IF j <= m THEN s[j] ELSE t[j - m]
BY ConcatProperties

LEMMA Appended ==
  ASSUME NEW S, NEW s \in Seq(S), NEW e \in S
  PROVE  /\ Append(s, e) \in Seq(S) /\ Len(Append(s, e)) = Len(s) + 1
         /\ \A j \in 1..Len(s) : Append(s, e)[j] = s[j]
         /\ Append(s, e)[Len(s) + 1] = e
BY AppendProperties

\* The sequence without its i-th element holds the others in their order.
LEMMA RemovedElement ==
  ASSUME NEW S, NEW s \in Seq(S), NEW i \in DOMAIN s
  PROVE  /\ RemoveAt(s, i) \in Seq(S) /\ Len(RemoveAt(s, i)) = Len(s) - 1
         /\ \A j \in 1..(Len(s) - 1) : RemoveAt(s, i)[j] = IF j < i THEN s[j] ELSE s[j + 1]
<1>1. i \in 1..Len(s) /\ Len(s) \in Nat
  OBVIOUS
<1> DEFINE front == SubSeq(s, 1, i - 1)
           back == SubSeq(s, i + 1, Len(s))
<1>2. /\ front \in Seq(S) /\ Len(front) = i - 1
      /\ \A j \in 1..(i - 1) : front[j] = s[j]
  BY <1>1, SubSeqProperties
<1>3. /\ back \in Seq(S) /\ Len(back) = Len(s) - i
      /\ \A j \in 1..(Len(s) - i) : back[j] = s[j + i]
  <2>1. \A j \in (i + 1)..Len(s) : s[j] \in S
    BY <1>1
  <2>2. /\ back \in Seq(S)
        /\ Len(back) = IF i + 1 <= Len(s) THEN Len(s) - (i + 1) + 1 ELSE 0
        /\ \A j \in 1..(Len(s) - (i + 1) + 1) : back[j] = s[(i + 1) + j - 1]
    BY <1>1, <2>1, SubSeqProperties
  <2> HIDE DEF back
  <2>3. Len(back) = Len(s) - i
    BY <1>1, <2>2
  <2>4. \A j \in 1..(Len(s) - i) : back[j] = s[j + i]
    <3> TAKE j \in 1..(Len(s) - i)
    <3>1. j \in 1..(Len(s) - (i + 1) + 1) /\ (i + 1) + j - 1 = j + i
      BY <1>1
    <3> QED BY <2>2, <3>1
  <2> QED BY <2>2, <2>3, <2>4
<1>4. RemoveAt(s, i) = front \o back
  BY DEF RemoveAt
<1> HIDE DEF front, back
<1>5. /\ front \o back \in Seq(S) /\ Len(front \o back) = (i - 1) + (Len(s) - i)
      /\ \A j \in 1..((i - 1) + (Len(s) - i)) :
           (front \o back)[j] = IF j <= i - 1 THEN front[j] ELSE back[j - (i - 1)]
  BY <1>2, <1>3, Joined, SMTT(20)
<1>6. (i - 1) + (Len(s) - i) = Len(s) - 1
  BY <1>1
<1>7. ASSUME NEW j \in 1..(Len(s) - 1)
      PROVE  (front \o back)[j] = IF j < i THEN s[j] ELSE s[j + 1]
  <2>1. CASE j < i
    <3>1. j \in 1..(i - 1) /\ j <= i - 1
      BY <1>1, <2>1
    <3> QED BY <1>2, <1>5, <1>6, <2>1, <3>1
  <2>2. CASE ~(j < i)
    <3>1. j - (i - 1) \in 1..(Len(s) - i) /\ j - (i - 1) + i = j + 1 /\ ~(j <= i - 1)
      BY <1>1, <2>2
    <3>2. back[j - (i - 1)] = s[j + 1]
      BY <1>3, <3>1
    <3> QED BY <1>5, <1>6, <2>2, <3>1, <3>2
  <2> QED BY <2>1, <2>2
<1> QED BY <1>4, <1>5, <1>6, <1>7

\* The sequence with e put in at i holds e there and the others in their order.
LEMMA InsertedElement ==
  ASSUME NEW S, NEW s \in Seq(S), NEW i \in 1..(Len(s) + 1), NEW e \in S
  PROVE  /\ InsertAt(s, i, e) \in Seq(S) /\ Len(InsertAt(s, i, e)) = Len(s) + 1
         /\ \A j \in 1..(Len(s) + 1) :
              InsertAt(s, i, e)[j] = IF j < i THEN s[j] ELSE IF j = i THEN e ELSE s[j - 1]
<1>1. Len(s) \in Nat
  OBVIOUS
<1> DEFINE front == SubSeq(s, 1, i - 1)
           back == SubSeq(s, i, Len(s))
           start == front \o <<e>>
<1>2. /\ front \in Seq(S) /\ Len(front) = i - 1
      /\ \A j \in 1..(i - 1) : front[j] = s[j]
  BY <1>1, SubSeqProperties
<1>3. /\ back \in Seq(S) /\ Len(back) = Len(s) - i + 1
      /\ \A j \in 1..(Len(s) - i + 1) : back[j] = s[j + i - 1]
  BY <1>1, SubSeqProperties
<1>4. InsertAt(s, i, e) = start \o back
  BY DEF InsertAt
<1>5. <<e>> \in Seq(S) /\ Len(<<e>>) = 1 /\ <<e>>[1] = e
  OBVIOUS
<1> HIDE DEF front, back
<1>6. /\ start \in Seq(S) /\ Len(start) = i
      /\ \A j \in 1..i : start[j] = IF j <= i - 1 THEN front[j] ELSE e
  BY <1>1, <1>2, <1>5, ConcatProperties
<1> HIDE DEF start
<1>7. /\ start \o back \in Seq(S) /\ Len(start \o back) = Len(s) + 1
      /\ \A j \in 1..(Len(s) + 1) : (start \o back)[j] = IF j <= i THEN start[j] ELSE back[j - i]
  <2>1. /\ start \o back \in Seq(S) /\ Len(start \o back) = i + (Len(s) - i + 1)
        /\ \A j \in 1..(i + (Len(s) - i + 1)) :
             (start \o back)[j] = IF j <= i THEN start[j] ELSE back[j - i]
    BY <1>3, <1>6, Joined, SMTT(26)
  <2>2. i + (Len(s) - i + 1) = Len(s) + 1
    BY <1>1
  <2> QED BY <2>1, <2>2
<1>8. ASSUME NEW j \in 1..(Len(s) + 1)
      PROVE  (start \o back)[j] = IF j < i THEN s[j] ELSE IF j = i THEN e ELSE s[j - 1]
  <2>1. CASE j < i
    BY <1>1, <1>2, <1>6, <1>7, <2>1
  <2>2. CASE j = i
    BY <1>1, <1>6, <1>7, <2>2
  <2>3. CASE j > i
    <3>1. j - i \in 1..(Len(s) - i + 1) /\ (j - i) + i - 1 = j - 1
      BY <1>1, <2>3
    <3>2. back[j - i] = s[j - 1]
      BY <1>3, <3>1
    <3>3. ~(j < i) /\ j # i /\ ~(j <= i)
      BY <1>1, <2>3
    <3> QED BY <1>7, <3>2, <3>3
  <2>4. j < i \/ j = i \/ j > i
    BY <1>1
  <2> QED BY <2>1, <2>2, <2>3, <2>4
<1> QED BY <1>4, <1>7, <1>8

\* Neither edit repeats an element.
LEMMA RemovalIsInjective ==
  ASSUME NEW S, NEW s \in Seq(S), IsInjective(s), NEW i \in DOMAIN s
  PROVE  IsInjective(RemoveAt(s, i))
<1> DEFINE t == RemoveAt(s, i)
<1>0. i \in 1..Len(s) /\ Len(s) \in Nat
  OBVIOUS
<1>1. /\ t \in Seq(S) /\ Len(t) = Len(s) - 1
      /\ \A j \in 1..(Len(s) - 1) : t[j] = IF j < i THEN s[j] ELSE s[j + 1]
  BY RemovedElement
<1> HIDE DEF t
<1>2. DOMAIN t = 1..(Len(s) - 1) /\ DOMAIN s = 1..Len(s)
  BY <1>0, <1>1
<1>3. ASSUME NEW a \in 1..(Len(s) - 1), NEW b \in 1..(Len(s) - 1), t[a] = t[b]
      PROVE  a = b
  <2> DEFINE at(k) == IF k < i THEN k ELSE k + 1
  <2>1. at(a) \in 1..Len(s) /\ at(b) \in 1..Len(s)
    BY <1>0
  <2>2. t[a] = s[at(a)] /\ t[b] = s[at(b)]
    BY <1>0, <1>1
  <2>3. at(a) = at(b)
    <3> HIDE DEF at
    <3> QED BY <1>2, <1>3, <2>1, <2>2 DEF IsInjective
  <2> QED BY <1>0, <2>3
<1> QED BY <1>2, <1>3 DEF IsInjective, t

LEMMA InsertionIsInjective ==
  ASSUME NEW S, NEW s \in Seq(S), IsInjective(s), NEW i \in 1..(Len(s) + 1), NEW e \in S,
         \A j \in DOMAIN s : s[j] # e
  PROVE  IsInjective(InsertAt(s, i, e))
<1> DEFINE t == InsertAt(s, i, e)
<1>0. Len(s) \in Nat
  OBVIOUS
<1>1. /\ t \in Seq(S) /\ Len(t) = Len(s) + 1
      /\ \A j \in 1..(Len(s) + 1) : t[j] = IF j < i THEN s[j] ELSE IF j = i THEN e ELSE s[j - 1]
  BY InsertedElement
<1> HIDE DEF t
<1>2. DOMAIN t = 1..(Len(s) + 1) /\ DOMAIN s = 1..Len(s)
  BY <1>0, <1>1
<1>3. ASSUME NEW a \in 1..(Len(s) + 1), NEW b \in 1..(Len(s) + 1), t[a] = t[b]
      PROVE  a = b
  <2> DEFINE at(k) == IF k < i THEN k ELSE k - 1
  <2>1. ASSUME NEW k \in 1..(Len(s) + 1), k # i
        PROVE  at(k) \in 1..Len(s) /\ t[k] = s[at(k)] /\ t[k] # e
    <3>1. at(k) \in 1..Len(s)
      BY <1>0, <1>1, <2>1
    <3>2. t[k] = s[at(k)]
      BY <1>0, <1>1, <2>1
    <3> HIDE DEF at
    <3>3. s[at(k)] # e
      BY <1>2, <3>1
    <3>4. t[k] # e
      BY <3>2, <3>3
    <3> QED BY <3>1, <3>2, <3>4
  <2>2. t[i] = e
    BY <1>0, <1>1
  <2>3. CASE a = i \/ b = i
    BY <1>3, <2>1, <2>2, <2>3
  <2>4. CASE a # i /\ b # i
    <3>1. at(a) = at(b)
      <4>1. at(a) \in DOMAIN s /\ at(b) \in DOMAIN s /\ s[at(a)] = s[at(b)]
        BY <1>2, <1>3, <2>1, <2>4
      <4> HIDE DEF at
      <4> QED BY <4>1 DEF IsInjective
    <3> QED BY <1>0, <1>1, <2>4, <3>1
  <2> QED BY <2>3, <2>4
<1> QED BY <1>2, <1>3 DEF IsInjective, t

\* A requirement moved to the end.
LEMMA MovedElement ==
  ASSUME NEW S, NEW s \in Seq(S), IsInjective(s), NEW i \in DOMAIN s
  PROVE  /\ Append(RemoveAt(s, i), s[i]) \in Seq(S)
         /\ IsInjective(Append(RemoveAt(s, i), s[i]))
<1> DEFINE t == RemoveAt(s, i)
           u == Append(t, s[i])
<1>0. i \in 1..Len(s) /\ Len(s) \in Nat /\ s[i] \in S
  OBVIOUS
<1>1. /\ t \in Seq(S) /\ Len(t) = Len(s) - 1
      /\ \A j \in 1..(Len(s) - 1) : t[j] = IF j < i THEN s[j] ELSE s[j + 1]
  BY RemovedElement
<1>2. IsInjective(t)
  BY RemovalIsInjective
<1> HIDE DEF t
<1>3. /\ u \in Seq(S) /\ Len(u) = Len(s)
      /\ \A j \in 1..(Len(s) - 1) : u[j] = t[j]
      /\ u[Len(s)] = s[i]
  <2>2. Len(t) + 1 = Len(s)
    BY <1>0, <1>1
  <2>3. /\ u \in Seq(S) /\ Len(u) = Len(t) + 1
        /\ \A j \in 1..Len(t) : u[j] = t[j]
        /\ u[Len(t) + 1] = s[i]
    BY <1>0, <1>1, Appended
  <2> HIDE DEF u
  <2> QED BY <1>0, <1>1, <2>2, <2>3
<1> HIDE DEF u
<1>4. /\ DOMAIN t = 1..(Len(s) - 1) /\ DOMAIN u = 1..Len(s) /\ DOMAIN s = 1..Len(s)
  BY <1>0, <1>1, <1>3
<1>5. ASSUME NEW j \in 1..(Len(s) - 1)
      PROVE  u[j] # s[i]
  <2> DEFINE k == IF j < i THEN j ELSE j + 1
  <2>1. k \in 1..Len(s) /\ k # i /\ t[j] = s[k]
    BY <1>0, <1>1
  <2> HIDE DEF k
  <2> QED BY <1>0, <1>1, <1>3, <1>4, <2>1 DEF IsInjective
<1>6. ASSUME NEW a \in 1..Len(s), NEW b \in 1..Len(s), u[a] = u[b]
      PROVE  a = b
  <2>1. CASE a = Len(s) \/ b = Len(s)
    <3>1. (a \in 1..(Len(s) - 1) \/ a = Len(s)) /\ (b \in 1..(Len(s) - 1) \/ b = Len(s))
      BY <1>0, <1>1
    <3> QED BY <1>3, <1>5, <1>6, <2>1, <3>1
  <2>2. CASE a # Len(s) /\ b # Len(s)
    <3>1. a \in 1..(Len(s) - 1) /\ b \in 1..(Len(s) - 1)
      BY <1>0, <1>1, <2>2
    <3> QED BY <1>2, <1>3, <1>4, <1>6, <3>1 DEF IsInjective
  <2> QED BY <2>1, <2>2
<1>7. IsInjective(u)
  BY <1>4, <1>6 DEF IsInjective
<1> QED BY <1>3, <1>7 DEF u, t

-----------------------------------------------------------------------------
(* The report *)

\* A report is the comparison of the two commits as they were evaluated: the
\* specification does not move between the two.
ReportInv == scStage = "compared" => deltas = HeadDeltas \cup RemovedDeltas

ScopeInv == ScopeTypeOK /\ ReportInv

USE DEF Deltas

LEMMA RangeOfSequence ==
  ASSUME NEW S, NEW s \in Seq(S)
  PROVE  Range(s) \subseteq S /\ \A i \in DOMAIN s : s[i] \in Range(s) /\ s[i] \in S
BY DEF Range

\* What base and head said of the requirements.
LEMMA FoundInTheBase ==
  ASSUME ScopeTypeOK, scStage # "editing", BaseAvailable, NEW i \in DOMAIN headSpec
  PROVE  FindBase(i) \in GivenStatuses \cup {"absent"}
<1>1. baseStatus \in [Range(BaseSpec) -> GivenStatuses]
  BY DEF ScopeTypeOK, BaseAvailable
<1>2. \A k \in DOMAIN BaseSpec : BaseSpec[k] \in Range(BaseSpec)
  BY DEF Range
<1> QED BY <1>1, <1>2 DEF FindBase

LEMMA FoundInTheHead ==
  ASSUME ScopeTypeOK, scStage # "editing", NEW i \in DOMAIN headSpec
  PROVE  headSpec[i] \in Acids /\ headStatus[headSpec[i]] \in GivenStatuses
<1>1. headSpec[i] \in Range(headSpec) /\ headSpec[i] \in Acids
  BY RangeOfSequence DEF ScopeTypeOK
<1> QED BY <1>1 DEF ScopeTypeOK

LEMMA DeltaKinds ==
  ASSUME NEW b, NEW h
  PROVE  ComputeDelta(b, h) \in {"newly_in_scope", "new_requirement", "removed_requirement",
                                 "improved", "regressed", "unchanged"}
<1>1. CASE ~BaseAvailable
  BY <1>1 DEF ComputeDelta
<1>2. CASE BaseAvailable /\ b = "absent"
  BY <1>2 DEF ComputeDelta
<1>3. CASE BaseAvailable /\ b # "absent" /\ h = "absent"
  BY <1>3 DEF ComputeDelta
<1>4. CASE BaseAvailable /\ b # "absent" /\ h # "absent"
  BY <1>4 DEF ComputeDelta
<1> QED BY <1>1, <1>2, <1>3, <1>4

LEMMA ReportTyped ==
  ASSUME ScopeTypeOK, scStage # "editing"
  PROVE  HeadDeltas \cup RemovedDeltas \subseteq Deltas
<1>1. HeadDeltas \subseteq Deltas
  <2> SUFFICES ASSUME NEW i \in AffectedRequirements
               PROVE  LET b == IF BaseAvailable THEN FindBase(i) ELSE "absent"
                      IN [acid |-> headSpec[i], from |-> b, to |-> headStatus[headSpec[i]],
                          delta |-> ComputeDelta(b, headStatus[headSpec[i]])] \in Deltas
    BY DEF HeadDeltas
  <2> DEFINE b == IF BaseAvailable THEN FindBase(i) ELSE "absent"
  <2>1. i \in DOMAIN headSpec
    BY DEF AffectedRequirements
  <2>2. b \in GivenStatuses \cup {"absent"}
    BY <2>1, FoundInTheBase
  <2>3. headSpec[i] \in Acids /\ headStatus[headSpec[i]] \in GivenStatuses
    BY <2>1, FoundInTheHead
  <2> HIDE DEF b
  <2>4. ComputeDelta(b, headStatus[headSpec[i]])
          \in {"newly_in_scope", "new_requirement", "removed_requirement", "improved", "regressed", "unchanged"}
    BY DeltaKinds
  <2>5. [acid |-> headSpec[i], from |-> b, to |-> headStatus[headSpec[i]],
         delta |-> ComputeDelta(b, headStatus[headSpec[i]])] \in Deltas
    BY <2>2, <2>3, <2>4
  <2> QED BY <2>5 DEF b
<1>2. RemovedDeltas \subseteq Deltas
  <2> SUFFICES ASSUME NEW i \in Removed
               PROVE  [acid |-> BaseSpec[i], from |-> baseStatus[BaseSpec[i]], to |-> "absent",
                       delta |-> "removed_requirement"] \in Deltas
    BY DEF RemovedDeltas
  <2>1. i \in DOMAIN BaseSpec /\ BaseAvailable
    BY DEF Removed
  <2>2. BaseSpec[i] \in Range(BaseSpec) /\ BaseSpec[i] \in Acids
    BY <2>1, ScopeAssumption, RangeOfSequence
  <2>3. baseStatus[BaseSpec[i]] \in GivenStatuses
    BY <2>1, <2>2 DEF ScopeTypeOK, BaseAvailable
  <2> QED BY <2>2, <2>3
<1> QED BY <1>1, <1>2

-----------------------------------------------------------------------------
(* The steps *)

LEMMA InitOK == ScopeInit => ScopeInv
BY ScopeAssumption DEF ScopeInit, ScopeInv, ScopeTypeOK, ReportInv

\* An edit of the specification leaves a sequence of ACIDs without repetition.
LEMMA EditOK ==
  ASSUME ScopeInv, NEW new \in Seq(Acids), IsInjective(new), NEW acid \in Acids, EditSpec(new, acid)
  PROVE  ScopeInv'
BY ScopeAssumption DEF ScopeInv, ScopeTypeOK, ReportInv, EditSpec

LEMMA StepOK ==
  ASSUME ScopeInv, [ScopeNext]_scVars
  PROVE  ScopeInv'
<1>0. headSpec \in Seq(Acids) /\ IsInjective(headSpec)
  BY DEF ScopeInv, ScopeTypeOK
<1>1. CASE DeleteRequirement
  <2> PICK i \in DOMAIN headSpec : EditSpec(RemoveAt(headSpec, i), headSpec[i])
    BY <1>1 DEF DeleteRequirement
  <2>1. RemoveAt(headSpec, i) \in Seq(Acids) /\ IsInjective(RemoveAt(headSpec, i)) /\ headSpec[i] \in Acids
    BY <1>0, RemovedElement, RemovalIsInjective
  <2> QED BY <2>1, EditOK
<1>2. CASE InsertRequirement
  <2> PICK i \in 1..(Len(headSpec) + 1), a \in Acids \ (Range(headSpec) \cup Range(BaseSpec)) :
             EditSpec(InsertAt(headSpec, i, a), a)
    BY <1>2 DEF InsertRequirement
  <2>1. \A j \in DOMAIN headSpec : headSpec[j] # a
    BY DEF Range
  <2>2. InsertAt(headSpec, i, a) \in Seq(Acids) /\ IsInjective(InsertAt(headSpec, i, a))
    BY <1>0, <2>1, InsertedElement, InsertionIsInjective
  <2> QED BY <2>2, EditOK
<1>3. CASE MoveRequirement
  <2> PICK i \in DOMAIN headSpec : EditSpec(Append(RemoveAt(headSpec, i), headSpec[i]), headSpec[i])
    BY <1>3 DEF MoveRequirement
  <2>1. headSpec[i] \in Acids
    BY <1>0
  <2>2. /\ Append(RemoveAt(headSpec, i), headSpec[i]) \in Seq(Acids)
        /\ IsInjective(Append(RemoveAt(headSpec, i), headSpec[i]))
    BY <1>0, MovedElement
  <2> QED BY <2>1, <2>2, EditOK
<1>4. CASE ChangeFile
  BY <1>4 DEF ScopeInv, ScopeTypeOK, ReportInv, ChangeFile
<1>5. CASE Evaluate
  BY <1>5 DEF ScopeInv, ScopeTypeOK, ReportInv, Evaluate
<1>6. CASE Compare
  <2>1. HeadDeltas' = HeadDeltas /\ RemovedDeltas' = RemovedDeltas
    BY <1>6 DEF Compare, HeadDeltas, RemovedDeltas, AffectedRequirements, ScopeReasons, FindBase,
                BaseAvailable, ComputeDelta, Removed, AlreadyReported, StillAtHead, TouchedByDiff,
                AffectedAreas, MappedGroups, TestGroups, Touched
  <2>2. deltas' \subseteq Deltas
    BY <1>6, ReportTyped DEF Compare, ScopeInv
  <2> QED BY <1>6, <2>1, <2>2 DEF ScopeInv, ScopeTypeOK, ReportInv, Compare
<1>7. CASE UNCHANGED scVars
  BY <1>7 DEF ScopeInv, ScopeTypeOK, ReportInv, scVars, HeadDeltas, RemovedDeltas, AffectedRequirements,
              ScopeReasons, FindBase, BaseAvailable, ComputeDelta, Removed, AlreadyReported, StillAtHead,
              TouchedByDiff, AffectedAreas, MappedGroups, TestGroups, Touched
<1> QED BY <1>1, <1>2, <1>3, <1>4, <1>5, <1>6, <1>7 DEF ScopeNext

\* Every state is well typed, no specification names a requirement twice, and a report
\* is the comparison of the two commits as evaluated (buildPrScopedCoverage).
THEOREM Invariant == ScopeSpec => []ScopeInv
BY InitOK, StepOK, PTL DEF ScopeSpec

-----------------------------------------------------------------------------
(* What a kept requirement is compared with *)

Kept == Range(BaseSpec) \cap Range(headSpec)

\* The entry of the requirement at a position of the head.
HeadEntry(i) ==
  [acid |-> headSpec[i], from |-> FindBase(i), to |-> headStatus[headSpec[i]],
   delta |-> ComputeDelta(FindBase(i), headStatus[headSpec[i]])]

LEMMA HeadEntries ==
  ASSUME BaseAvailable
  PROVE  HeadDeltas = {HeadEntry(i) : i \in AffectedRequirements}
BY DEF HeadDeltas, HeadEntry

\* A requirement reported as removed is nowhere in the head.
LEMMA RemovedIsGone ==
  ASSUME NEW r \in RemovedDeltas
  PROVE  /\ r.acid \notin Range(headSpec)
         /\ r = [acid |-> r.acid, from |-> baseStatus[r.acid], to |-> "absent", delta |-> "removed_requirement"]
<1> PICK i \in Removed : r = [acid |-> BaseSpec[i], from |-> baseStatus[BaseSpec[i]], to |-> "absent",
                              delta |-> "removed_requirement"]
  BY DEF RemovedDeltas
<1>1. BaseSpec[i] \notin Range(headSpec)
  BY DEF Removed, StillAtHead
<1> QED BY <1>1

\* A kept requirement has its own two statuses, whatever position it moved to.
LEMMA OwnStatuses ==
  ASSUME BaseAvailable, NEW r \in HeadDeltas \cup RemovedDeltas, r.acid \in Kept
  PROVE  r.from = baseStatus[r.acid] /\ r.to = headStatus[r.acid]
<1>1. r \in HeadDeltas
  BY RemovedIsGone DEF Kept
<1> PICK i \in AffectedRequirements : r = HeadEntry(i)
  BY <1>1, HeadEntries
<1>2. r.acid = headSpec[i] /\ r.from = FindBase(i) /\ r.to = headStatus[headSpec[i]]
  BY DEF HeadEntry
<1> QED BY <1>2 DEF Kept, FindBase

\* No requirement is reported twice: the head names it once, and what is reported as
\* removed is not in the head.
LEMMA OneEntryEach ==
  ASSUME ScopeTypeOK, BaseAvailable,
         NEW r \in HeadDeltas \cup RemovedDeltas, NEW s \in HeadDeltas \cup RemovedDeltas, r.acid = s.acid
  PROVE  r = s
<1>1. ASSUME NEW t \in HeadDeltas
      PROVE  t.acid \in Range(headSpec)
  <2> PICK i \in AffectedRequirements : t = HeadEntry(i)
    BY HeadEntries
  <2>1. i \in DOMAIN headSpec /\ t.acid = headSpec[i]
    BY DEF AffectedRequirements, HeadEntry
  <2> QED BY <2>1 DEF Range
<1>2. CASE r \in HeadDeltas /\ s \in HeadDeltas
  <2> PICK i \in AffectedRequirements : r = HeadEntry(i)
    BY <1>2, HeadEntries
  <2> PICK j \in AffectedRequirements : s = HeadEntry(j)
    BY <1>2, HeadEntries
  <2>1. i \in DOMAIN headSpec /\ j \in DOMAIN headSpec /\ headSpec[i] = headSpec[j]
    BY DEF AffectedRequirements, HeadEntry
  <2>2. i = j
    BY <2>1 DEF ScopeTypeOK, IsInjective
  <2> QED BY <2>2
<1>3. CASE r \in RemovedDeltas /\ s \in RemovedDeltas
  BY <1>3, RemovedIsGone
<1>4. CASE r \in HeadDeltas /\ s \in RemovedDeltas
  BY <1>1, <1>4, RemovedIsGone
<1>5. CASE r \in RemovedDeltas /\ s \in HeadDeltas
  BY <1>1, <1>5, RemovedIsGone
<1> QED BY <1>2, <1>3, <1>4, <1>5

\* A kept requirement of a touched group that lost its coverage is among the regressions.
LEMMA LossIsReported ==
  ASSUME ScopeTypeOK, scStage # "editing", BaseAvailable, NEW a \in Kept,
         GroupOf(a) \in MappedGroups \cup TestGroups, StatusRank(headStatus[a]) < StatusRank(baseStatus[a])
  PROVE  \E r \in HeadDeltas : r.acid = a /\ r.delta = "regressed"
<1> PICK i \in DOMAIN headSpec : headSpec[i] = a
  BY DEF Kept, Range
<1>1. ScopeReasons(a) # {}
  <2>1. CASE GroupOf(a) \in MappedGroups
    BY <2>1 DEF ScopeReasons
  <2>2. CASE GroupOf(a) \in TestGroups
    BY <2>2 DEF ScopeReasons
  <2> QED BY <2>1, <2>2
<1>2. i \in AffectedRequirements
  BY <1>1 DEF AffectedRequirements
<1>3. FindBase(i) = baseStatus[a]
  BY DEF FindBase, Kept
<1>4. baseStatus[a] \in Statuses /\ headStatus[a] \in Statuses
  BY ScopeAssumption DEF ScopeTypeOK, BaseAvailable, Kept
<1>5. baseStatus[a] # "absent" /\ headStatus[a] # "absent"
  BY <1>4 DEF Statuses
<1>6. StatusRank(baseStatus[a]) \in Int /\ StatusRank(headStatus[a]) \in Int
  BY <1>4 DEF Statuses, StatusRank
<1>7. ~(StatusRank(headStatus[a]) > StatusRank(baseStatus[a]))
  BY <1>6
<1>8. ComputeDelta(baseStatus[a], headStatus[a]) = "regressed"
  BY <1>5, <1>7 DEF ComputeDelta
<1>9. HeadEntry(i) \in HeadDeltas /\ HeadEntry(i).acid = a /\ HeadEntry(i).delta = "regressed"
  BY <1>2, <1>3, <1>8, HeadEntries DEF HeadEntry
<1> QED BY <1>9

\* KeptRequirementsCompareWithThemselves for every specification, every edit of it and
\* every diff: an id is a position (intent.ts), and the comparison looks for the ACID
\* first (findResult), so a shift of the positions compares no requirement with another.
THEOREM KeptCompareWithThemselves == ScopeSpec => []KeptRequirementsCompareWithThemselves
<1>1. ScopeInv => KeptRequirementsCompareWithThemselves
  <2> SUFFICES ASSUME ScopeInv, scStage = "compared", BaseAvailable
               PROVE  KeptRequirementsCompareWithThemselves
    BY DEF KeptRequirementsCompareWithThemselves
  <2>1. ScopeTypeOK /\ scStage # "editing" /\ deltas = HeadDeltas \cup RemovedDeltas
    BY DEF ScopeInv, ReportInv
  <2>2. \A r \in deltas : r.acid \in Kept => r.from = baseStatus[r.acid] /\ r.to = headStatus[r.acid]
    BY <2>1, OwnStatuses
  <2>3. \A r, s \in deltas : r.acid = s.acid => r = s
    BY <2>1, OneEntryEach
  <2>4. \A a \in Kept :
          GroupOf(a) \in MappedGroups \cup TestGroups /\ StatusRank(headStatus[a]) < StatusRank(baseStatus[a])
          => \E r \in deltas : r.acid = a /\ r.delta = "regressed"
    BY <2>1, LossIsReported
  <2> QED BY <2>2, <2>3, <2>4 DEF KeptRequirementsCompareWithThemselves, Kept
<1> QED BY <1>1, Invariant, PTL

-----------------------------------------------------------------------------
(***************************************************************************)
(* The elements of a sequence at some positions.                           *)
(***************************************************************************)

\* A nonempty set of numbers has a least one.
LEMMA LeastNumber ==
  ASSUME NEW S \in SUBSET Nat, S # {}
  PROVE  \E m \in S : \A k \in S : ~(k < m)
<1>1. PICK m \in S : \A k \in S : <<k, m>> \notin OpToRel(<, Nat)
  BY WFMin, NatLessThanWellFounded, Zenon
<1>2. \A k \in S : ~(k < m)
  BY <1>1, Zenon DEF OpToRel
<1> QED BY <1>2

LEMMA FinitePositions ==
  ASSUME NEW N \in Nat, NEW K \in SUBSET (1..N)
  PROVE  IsFiniteSet(K) /\ Cardinality(K) \in Nat
<1>1. IsFiniteSet(1..N)
  BY FS_Interval
<1>2. IsFiniteSet(K)
  BY <1>1, FS_Subset
<1> QED BY <1>2, FS_CardinalityType

\* The positions in K are numbered one after the other.
LEMMA RankIsReached ==
  ASSUME NEW N \in Nat, NEW K \in SUBSET (1..N), NEW n \in 1..Cardinality(K)
  PROVE  \E i \in K : Cardinality({j \in K : j <= i}) = n
<1>11. IsFiniteSet(K) /\ Cardinality(K) \in Nat
  BY FinitePositions
<1> DEFINE UpTo(i) == {j \in K : j <= i}
           Reached == {i \in 0..N : n <= Cardinality(UpTo(i))}
<1>1. IsFiniteSet(K) /\ Cardinality(K) \in Nat /\ n \in Nat
  BY <1>11
<1>2. ASSUME NEW i \in 0..N
      PROVE  IsFiniteSet(UpTo(i)) /\ Cardinality(UpTo(i)) \in Nat
  <2>1. UpTo(i) \in SUBSET (1..N)
    OBVIOUS
  <2> HIDE DEF UpTo
  <2> QED BY <2>1, FinitePositions
<1>3. N \in Reached
  <2>1. \A j \in K : j <= N
    OBVIOUS
  <2>2. UpTo(N) = K
    BY <2>1
  <2> HIDE DEF UpTo
  <2> QED BY <1>1, <2>2
<1>4. PICK m \in Reached : \A k \in Reached : ~(k < m)
  <2> HIDE DEF Reached
  <2>1. Reached \in SUBSET Nat
    BY DEF Reached
  <2> QED BY <1>3, <2>1, LeastNumber
<1>5. m \in 0..N /\ n <= Cardinality(UpTo(m))
  BY <1>4
<1>6. m # 0
  <2>1. \A j \in K : ~(j <= 0)
    OBVIOUS
  <2>3. UpTo(0) = {}
    BY <2>1
  <2>2. Cardinality(UpTo(0)) = 0
    BY <2>3, FS_EmptySet
  <2> HIDE DEF UpTo
  <2> QED BY <1>1, <1>5, <2>2
<1>7. m - 1 \in 0..N /\ Cardinality(UpTo(m - 1)) < n
  <2>1. m - 1 \in 0..N /\ m - 1 < m
    BY <1>5, <1>6
  <2>2. m - 1 \notin Reached
    BY <1>4, <2>1
  <2>3. ~(n <= Cardinality(UpTo(m - 1)))
    BY <2>1, <2>2
  <2> HIDE DEF UpTo
  <2> QED BY <1>1, <1>2, <2>1, <2>3
<1>8. m \in K /\ UpTo(m) = UpTo(m - 1) \cup {m} /\ m \notin UpTo(m - 1)
  <2>1. CASE m \notin K
    <3>1. ASSUME NEW j \in K  PROVE j <= m <=> j <= m - 1
      BY <1>5, <2>1
    <3>2. UpTo(m) = UpTo(m - 1)
      BY <3>1
    <3> HIDE DEF UpTo
    <3> QED BY <1>1, <1>2, <1>5, <1>7, <3>2
  <2>2. CASE m \in K
    <3>1. ASSUME NEW j \in K  PROVE j <= m <=> j <= m - 1 \/ j = m
      BY <1>5
    <3>2. ~(m <= m - 1)
      BY <1>5
    <3>3. UpTo(m) = UpTo(m - 1) \cup {m}
      BY <2>2, <3>1
    <3> QED BY <2>2, <3>2, <3>3
  <2> QED BY <2>1, <2>2
<1>9. Cardinality(UpTo(m)) = Cardinality(UpTo(m - 1)) + 1
  <2> HIDE DEF UpTo
  <2> QED BY <1>2, <1>7, <1>8, FS_AddElement
<1>10. Cardinality(UpTo(m)) = n
  <2> HIDE DEF UpTo
  <2> QED BY <1>1, <1>2, <1>5, <1>7, <1>9
<1> QED BY <1>8, <1>10

LEMMA FunctionSeq ==
  ASSUME NEW T, NEW n \in Nat, NEW f \in [1..n -> T]
  PROVE  f \in Seq(T) /\ Len(f) = n
OBVIOUS

\* They are elements of the sequence, and there is none only if there is no position.
LEMMA ElementsAtProperties ==
  ASSUME NEW S, NEW s \in Seq(S), NEW K \in SUBSET (1..Len(s)), NEW T, \A i \in K : s[i] \in T
  PROVE  /\ ElementsAt(s, K) \in Seq(T) /\ Len(ElementsAt(s, K)) = Cardinality(K)
         /\ ElementsAt(s, K) # <<>> => K # {}
<1> DEFINE rank == [i \in K |-> Cardinality({j \in K : j <= i})]
           picked == [n \in 1..Cardinality(K) |-> s[CHOOSE i \in K : rank[i] = n]]
<1>1. Len(s) \in Nat
  BY LenProperties
<1>2. Cardinality(K) \in Nat
  BY <1>1, FinitePositions
<1>3. ASSUME NEW n \in 1..Cardinality(K)
      PROVE  s[CHOOSE i \in K : rank[i] = n] \in T
  <2>1. PICK i \in K : Cardinality({j \in K : j <= i}) = n
    BY <1>1, RankIsReached
  <2>2. rank[i] = n
    BY <2>1
  <2> HIDE DEF rank
  <2>3. (CHOOSE k \in K : rank[k] = n) \in K
    BY <2>2
  <2> QED BY <2>3
<1>4. ElementsAt(s, K) = picked
  BY DEF ElementsAt
<1>5. picked \in [1..Cardinality(K) -> T]
  BY <1>3
<1> HIDE DEF picked
<1>6. picked \in Seq(T) /\ Len(picked) = Cardinality(K)
  BY <1>2, <1>5, FunctionSeq
<1>7. picked # <<>> => K # {}
  BY <1>6, EmptySeq, FS_EmptySet
<1> QED BY <1>4, <1>6, <1>7

LEMMA CutProperties ==
  ASSUME NEW T, NEW s \in Seq(T), NEW n \in Nat
  PROVE  Cut(s, n) \in Seq(T) /\ Len(Cut(s, n)) <= n
<1> DEFINE m == IF Len(s) > n THEN n ELSE Len(s)
<1>1. Len(s) \in Nat /\ m \in Nat /\ m <= n /\ \A i \in 1..m : i \in 1..Len(s)
  BY LenProperties
<1> HIDE DEF m
<1>2. \A i \in 1..m : s[i] \in T
  BY <1>1, ElementOfSeq
<1>3. SubSeq(s, 1, m) \in Seq(T) /\ Len(SubSeq(s, 1, m)) = IF 1 <= m THEN m - 1 + 1 ELSE 0
  BY <1>1, <1>2, SubSeqProperties
<1>4. Len(SubSeq(s, 1, m)) <= n
  BY <1>1, <1>3
<1> QED BY <1>3, <1>4 DEF Cut, m

LEMMA UniqueProperties ==
  ASSUME NEW T, NEW refs \in Seq(T)
  PROVE  UniqueEvidence(refs) \in Seq(T)
<1>1. FirstOfKey(refs) \in SUBSET (1..Len(refs)) /\ \A i \in FirstOfKey(refs) : refs[i] \in T
  BY ElementOfSeq, LenProperties DEF FirstOfKey
<1>2. ElementsAt(refs, FirstOfKey(refs)) \in Seq(T)
  BY <1>1, ElementsAtProperties
<1> QED BY <1>2, CutProperties, EvaluationAssumption DEF UniqueEvidence

LEMMA WiderSeq ==
  ASSUME NEW S, NEW T, NEW s \in Seq(S), \A r \in S : r \in T
  PROVE  s \in Seq(T)
OBVIOUS

\* The files of a set in some order.
LEMMA FilesInOrder ==
  ASSUME NEW S \in SUBSET Files
  PROVE  Cardinality(S) \in Nat /\ SetToSeq(S) \in [1..Cardinality(S) -> S]
<1>1. IsFiniteSet(S)
  BY EvaluationAssumption, FS_Subset
<1>2. PICK f : f \in Bijection(1..Cardinality(S), S)
  BY <1>1, FS_CardinalityType DEF ExistsBijection
<1>3. f \in [1..Cardinality(S) -> S] /\ IsInjective(f)
  BY <1>2 DEF Bijection, Injection, IsInjective
<1> QED BY <1>1, <1>3, FS_CardinalityType DEF SetToSeq

-----------------------------------------------------------------------------
(***************************************************************************)
(* Evidence that is grounded: a file that counts as implementation is one  *)
(* the tool found, and a test the provider pinpointed is one it answered   *)
(* with, on valid lines.                                                   *)
(***************************************************************************)
RefNames == {"none"} \cup {c.name : c \in ReportCases} \cup {c.name : c \in Candidates}
RefPaths == Files \cup {Absent} \cup {c.path : c \in Candidates}
Reasons == {"spec", "cited", "mentions", "group", "case mentions", "case group", "candidate",
            "promoted", "broad"}
RefKinds == {"spec", "file", "test"} \cup {c.kind : c \in Candidates}
Refs == [kind : RefKinds, path : RefPaths, why : Reasons, llm : BOOLEAN, verified : BOOLEAN, name : RefNames]

FoundByTool(f) ==
  \/ f \in req.mentions \cup req.cites
  \/ f \in req.changed /\ IsImplementationProofPath(f) /\ InGroup(f)

Answered(r) ==
  \E j \in DOMAIN answer : /\ answer[j].kind = "test" /\ answer[j].name = r.name
                           /\ Valid(answer[j]) /\ answer[j].path = r.path

Grounded ==
  {r \in Refs : /\ r.kind = "file" /\ ~r.llm /\ IsImplementationEvidencePath(r.path) => FoundByTool(r.path)
                /\ r.kind = "test" /\ r.llm /\ r.name # "none" => Answered(r)}

\* What SatisfiedIsEarned asks of a satisfied requirement.
Earned ==
  \/ req.kind = "presence" /\ req.cites # {} /\ req.cites \subseteq Files
  \/ /\ \/ req.mentions \cap TestFiles # {}
        \/ RanAndPassed
     /\ \/ req.kind = "testOnly"
        \/ \E f \in req.mentions \cup req.cites : IsImplementationEvidencePath(f)
        \/ \E f \in req.changed : IsImplementationProofPath(f) /\ InGroup(f)

EvInv ==
  /\ reported \in Seq(ReportCases) /\ answer \in Seq(Candidates) /\ budget \in Nat
  /\ result.evidence \in Seq(Grounded)
  /\ evStage \in {"idle", "collected"} => result = NoResult
  /\ evStage \in {"idle", "collected", "evaluated"} => answer = <<>>
  /\ evStage = "answered" => Enrichable
  /\ SatisfiedIsEarned

-----------------------------------------------------------------------------
LEMMA FileRefIsGrounded ==
  ASSUME NEW f \in Files, NEW why \in Reasons
  PROVE  Ref("test", f, why) \in Grounded /\ (FoundByTool(f) => Ref("file", f, why) \in Grounded)
<1>1. Ref("file", f, why) \in Refs /\ Ref("test", f, why) \in Refs
  BY DEF Ref, EvidenceRef, Refs, RefKinds, RefPaths, RefNames
<1> QED BY <1>1 DEF Grounded, Ref, EvidenceRef

LEMMA FileRefsIn ==
  ASSUME NEW S \in SUBSET Files, NEW kind, NEW why, NEW T, \A f \in S : Ref(kind, f, why) \in T
  PROVE  FileRefs(S, kind, why) \in Seq(T) /\ (FileRefs(S, kind, why) # <<>> => S # {})
<1> DEFINE refs == [i \in 1..Cardinality(S) |-> Ref(kind, SetToSeq(S)[i], why)]
<1>1. Cardinality(S) \in Nat /\ SetToSeq(S) \in [1..Cardinality(S) -> S]
  BY FilesInOrder
<1>2. ASSUME NEW i \in 1..Cardinality(S)  PROVE Ref(kind, SetToSeq(S)[i], why) \in T
  <2>1. SetToSeq(S)[i] \in S
    BY <1>1
  <2> QED BY <2>1
<1>3. refs \in [1..Cardinality(S) -> T]
  BY <1>2
<1>4. FileRefs(S, kind, why) = refs
  BY DEF FileRefs
<1> HIDE DEF refs
<1>5. refs \in Seq(T) /\ Len(refs) = Cardinality(S)
  BY <1>1, <1>3, FunctionSeq
<1>6. refs # <<>> => S # {}
  BY <1>5, EmptySeq, FS_EmptySet
<1> QED BY <1>4, <1>5, <1>6

LEMMA FileRefsAreGrounded ==
  ASSUME NEW S \in SUBSET Files, NEW why \in Reasons
  PROVE  /\ FileRefs(S, "test", why) \in Seq(Grounded) /\ (FileRefs(S, "test", why) # <<>> => S # {})
         /\ (\A f \in S : FoundByTool(f)) =>
              FileRefs(S, "file", why) \in Seq(Grounded) /\ (FileRefs(S, "file", why) # <<>> => S # {})
<1>1. \A f \in S : Ref("test", f, why) \in Grounded
  BY FileRefIsGrounded
<1>2. ASSUME \A f \in S : FoundByTool(f)  PROVE \A f \in S : Ref("file", f, why) \in Grounded
  BY <1>2, FileRefIsGrounded
<1> QED BY <1>1, <1>2, FileRefsIn

LEMMA CaseRefIsGrounded ==
  ASSUME NEW c \in ReportCases, NEW why \in Reasons
  PROVE  CaseRef(c, why) \in Grounded /\ VerifiedRef(c, why) \in Grounded
<1>1. c.name \in RefNames /\ Absent \in RefPaths /\ "test" \in RefKinds
  BY DEF RefNames, RefPaths, RefKinds
<1>2. CaseRef(c, why) \in Refs /\ VerifiedRef(c, why) \in Refs
  BY <1>1 DEF Refs, CaseRef, VerifiedRef, EvidenceRef
<1> QED BY <1>2 DEF Grounded, CaseRef, VerifiedRef, EvidenceRef

LEMMA CaseRefsAreGrounded ==
  ASSUME NEW s \in Seq(ReportCases), NEW why \in Reasons
  PROVE  CaseRefs(s, why) \in Seq(Grounded) /\ (CaseRefs(s, why) # <<>> => s # <<>>)
<1> DEFINE refs == [i \in DOMAIN s |-> CaseRef(s[i], why)]
<1>1. Len(s) \in Nat /\ DOMAIN s = 1..Len(s)
  BY LenProperties
<1>2. ASSUME NEW i \in 1..Len(s)  PROVE CaseRef(s[i], why) \in Grounded
  BY ElementOfSeq, CaseRefIsGrounded
<1>3. refs \in [1..Len(s) -> Grounded]
  BY <1>1, <1>2
<1>4. CaseRefs(s, why) = refs
  BY DEF CaseRefs
<1> HIDE DEF refs
<1>5. refs \in Seq(Grounded) /\ Len(refs) = Len(s)
  BY <1>1, <1>3, FunctionSeq
<1>6. refs # <<>> => s # <<>>
  BY <1>5, EmptySeq
<1> QED BY <1>4, <1>5, <1>6

LEMMA JoinedNonEmpty ==
  ASSUME NEW T, NEW s \in Seq(T), NEW t \in Seq(T)
  PROVE  s \o t \in Seq(T) /\ (s \o t # <<>> => s # <<>> \/ t # <<>>)
BY ConcatProperties

-----------------------------------------------------------------------------
(* The deterministic evaluation *)

LEMMA EvaluationIsEarned ==
  ASSUME reported \in Seq(ReportCases)
  PROVE  /\ EvaluateRequirement.evidence \in Seq(Grounded)
         /\ EvaluateRequirement.status = "satisfied" => Earned
<1> DEFINE Exact == {i \in Passing : reported[i].acid = "exact"}
           Group == {i \in Passing : /\ reported[i].acid = "none"
                                     /\ (reported[i].token = "own" \/ reported[i].nameToken)}
           Impl == {f \in Mentioned : IsImplementationProofPath(f)}
           Changed == {f \in req.changed : IsImplementationProofPath(f) /\ InGroup(f)}
<1>1. Passing \in SUBSET (1..Len(reported)) /\ \A i \in Passing : reported[i] \in ReportCases
  BY ElementOfSeq, LenProperties DEF Passing
<1>2. CasesByAcid \in Seq(ReportCases) /\ (CasesByAcid # <<>> => Exact # {})
  BY <1>1, ElementsAtProperties DEF CasesByAcid
<1>3. CasesByGroup \in Seq(ReportCases)
  BY <1>1, ElementsAtProperties DEF CasesByGroup
<1>4. /\ Mentioned \in SUBSET Files /\ Mentioned \subseteq req.mentions
      /\ Impl \in SUBSET Files /\ Changed \in SUBSET Files
      /\ \A f \in Mentioned : FoundByTool(f)
      /\ \A f \in req.cites \cap Files : FoundByTool(f)
      /\ \A f \in Changed : FoundByTool(f)
  BY DEF Mentioned, Scanned, IsImplementationProofPath, FoundByTool
<1>5. DirectFileEvidence \in Seq(Grounded)
  BY <1>4, FileRefsAreGrounded DEF Reasons, DirectFileEvidence
<1>6. ExactEvidence \in Seq(Grounded)
  <2>1. FileRefs(Mentioned \ TestFiles, "file", "mentions") \in Seq(Grounded)
    BY <1>4, FileRefsAreGrounded DEF Reasons
  <2>2. FileRefs(Mentioned \cap TestFiles, "test", "mentions") \in Seq(Grounded)
    BY <1>4, FileRefsAreGrounded DEF Reasons
  <2> QED BY <2>1, <2>2, JoinedNonEmpty DEF ExactEvidence
<1>7. ExactImplementation \in Seq(Grounded) /\ (ExactImplementation # <<>> => Impl # {})
  BY <1>4, FileRefsAreGrounded DEF Reasons, ExactImplementation
<1>8. /\ ExactTests \in Seq(Grounded)
      /\ ExactTests # <<>> => Mentioned \cap TestFiles # {} \/ Exact # {}
  <2>1. /\ FileRefs(Mentioned \cap TestFiles, "test", "mentions") \in Seq(Grounded)
        /\ FileRefs(Mentioned \cap TestFiles, "test", "mentions") # <<>> => Mentioned \cap TestFiles # {}
    BY <1>4, FileRefsAreGrounded DEF Reasons
  <2>2. /\ CaseRefs(CasesByAcid, "case mentions") \in Seq(Grounded)
        /\ CaseRefs(CasesByAcid, "case mentions") # <<>> => Exact # {}
    BY <1>2, CaseRefsAreGrounded DEF Reasons
  <2> HIDE DEF Exact
  <2> QED BY <2>1, <2>2, JoinedNonEmpty DEF ExactTests
<1>9. ChangedByGroup \in Seq(Grounded)
  BY <1>4, FileRefsAreGrounded DEF Reasons, ChangedByGroup
<1>10. TestsByGroup \in Seq(Grounded)
  <2>1. FileRefs({f \in TestFiles : InGroup(f)}, "test", "group") \in Seq(Grounded)
    <3>1. {f \in TestFiles : InGroup(f)} \in SUBSET Files
      BY DEF TestFiles
    <3> QED BY <3>1, FileRefsAreGrounded DEF Reasons
  <2>2. CaseRefs(CasesByGroup, "case group") \in Seq(Grounded)
    BY <1>3, CaseRefsAreGrounded DEF Reasons
  <2> QED BY <2>1, <2>2, JoinedNonEmpty DEF TestsByGroup
<1>11. <<Ref("spec", Absent, "spec")>> \in Seq(Grounded)
  <2>1. Ref("spec", Absent, "spec") \in Refs
    BY DEF Ref, EvidenceRef, Refs, RefKinds, RefPaths, RefNames, Reasons
  <2>2. Ref("spec", Absent, "spec") \in Grounded
    BY <2>1 DEF Grounded, Ref, EvidenceRef
  <2> QED BY <2>2
<1>12. Evidence \in Seq(Grounded)
  <2> DEFINE all == <<Ref("spec", Absent, "spec")>> \o DirectFileEvidence \o ExactEvidence
                    \o ExactImplementation \o ExactTests \o ChangedByGroup \o TestsByGroup
  <2>1. <<Ref("spec", Absent, "spec")>> \o DirectFileEvidence \in Seq(Grounded)
    BY <1>5, <1>11, JoinedNonEmpty
  <2>2. <<Ref("spec", Absent, "spec")>> \o DirectFileEvidence \o ExactEvidence \in Seq(Grounded)
    BY <1>6, <2>1, JoinedNonEmpty
  <2>3. <<Ref("spec", Absent, "spec")>> \o DirectFileEvidence \o ExactEvidence \o ExactImplementation \in Seq(Grounded)
    BY <1>7, <2>2, JoinedNonEmpty
  <2>4. <<Ref("spec", Absent, "spec")>> \o DirectFileEvidence \o ExactEvidence \o ExactImplementation
          \o ExactTests \in Seq(Grounded)
    BY <1>8, <2>3, JoinedNonEmpty
  <2>5. <<Ref("spec", Absent, "spec")>> \o DirectFileEvidence \o ExactEvidence \o ExactImplementation
          \o ExactTests \o ChangedByGroup \in Seq(Grounded)
    BY <1>9, <2>4, JoinedNonEmpty
  <2>6. all \in Seq(Grounded)
    BY <1>10, <2>5, JoinedNonEmpty
  <2> HIDE DEF all
  <2>7. UniqueEvidence(all) \in Seq(Grounded)
    BY <2>6, UniqueProperties
  <2> QED BY <2>7 DEF Evidence, all
<1>13. EvaluateRequirement.evidence = Evidence
  BY DEF EvaluateRequirement, Verdict
<1>14. EvaluateRequirement.status = "satisfied" =>
         \/ req.kind = "presence" /\ req.cites # {} /\ req.cites \subseteq Files
         \/ ExactTests # <<>> /\ (ExactImplementation # <<>> \/ req.kind = "testOnly")
  BY DEF EvaluateRequirement, Verdict
<1>15. Exact # {} => RanAndPassed
  BY <1>1 DEF RanAndPassed, Passing
<1>16. Impl # {} => \E f \in req.mentions \cup req.cites : IsImplementationEvidencePath(f)
  BY <1>4 DEF IsImplementationProofPath, IsImplementationEvidencePath
<1> HIDE DEF Exact, Impl, Changed
<1>17. EvaluateRequirement.status = "satisfied" => Earned
  BY <1>4, <1>7, <1>8, <1>14, <1>15, <1>16 DEF Earned
<1> QED BY <1>12, <1>13, <1>17

-----------------------------------------------------------------------------
(* The provider's candidates *)

LEMMA CandidatesAreGrounded ==
  ASSUME answer \in Seq(Candidates), budget \in Nat, result.evidence \in Seq(Grounded)
  PROVE  /\ Len(Attached) \in Nat /\ Len(Attached) <= budget
         /\ ApplyCandidates.evidence \in Seq(Grounded)
         /\ ApplyCandidates.status = "satisfied" => result.status = "satisfied"
<1> DEFINE Given == {c \in Candidates : \E j \in DOMAIN answer : answer[j] = c}
           Good == {c \in Given : Valid(c)}
           refs == CandidateRefs(Attached)
<1>1. answer \in Seq(Given)
  <2>1. Len(answer) \in Nat /\ DOMAIN answer = 1..Len(answer) /\ answer = [i \in 1..Len(answer) |-> answer[i]]
    BY LenProperties
  <2>2. \A i \in 1..Len(answer) : answer[i] \in Given
    BY <2>1, ElementOfSeq
  <2> HIDE DEF Given
  <2>3. answer \in [1..Len(answer) -> Given]
    BY <2>1, <2>2
  <2> QED BY <2>1, <2>3, FunctionSeq
<1>2. Offered \in Seq(Given)
  <2> HIDE DEF Given
  <2> QED BY <1>1, CutProperties DEF Offered
<1>3. ValidOffered \in Seq(Good)
  <2> HIDE DEF Given
  <2> DEFINE K == {i \in DOMAIN Offered : Valid(Offered[i])}
  <2>1. K \in SUBSET (1..Len(Offered)) /\ \A i \in K : Offered[i] \in Good
    BY <1>2, ElementOfSeq, LenProperties
  <2> HIDE DEF K, Good
  <2>2. ElementsAt(Offered, K) \in Seq(Good)
    BY <1>2, <2>1, ElementsAtProperties
  <2> QED BY <2>2 DEF ValidOffered, K
<1>4. Attached \in Seq(Good) /\ Len(Attached) <= budget
  <2> HIDE DEF Given, Good
  <2> DEFINE crefs == CandidateRefs(ValidOffered)
  <2>1. Len(ValidOffered) \in Nat /\ DOMAIN ValidOffered = 1..Len(ValidOffered)
    BY <1>3, LenProperties
  <2>2. DOMAIN crefs = 1..Len(ValidOffered)
    BY <2>1 DEF CandidateRefs
  <2> HIDE DEF crefs
  <2>3. FirstOfKey(crefs) \in SUBSET (1..Len(ValidOffered))
    BY <2>2 DEF FirstOfKey
  <2>4. \A i \in FirstOfKey(crefs) : ValidOffered[i] \in Good
    BY <1>3, <2>3, ElementOfSeq
  <2>5. ElementsAt(ValidOffered, FirstOfKey(crefs)) \in Seq(Good)
    BY <1>3, <2>3, <2>4, ElementsAtProperties
  <2> QED BY <2>5, CutProperties DEF Attached, crefs
<1>5. ASSUME NEW c \in Good  PROVE CandidateRef(c) \in Grounded
  <2>1. c \in Candidates /\ Valid(c) /\ \E j \in DOMAIN answer : answer[j] = c
    OBVIOUS
  <2> HIDE DEF Good, Given
  <2>2. c.kind \in RefKinds /\ c.path \in RefPaths /\ c.name \in RefNames /\ "candidate" \in Reasons
    BY <2>1 DEF RefKinds, RefPaths, RefNames, Reasons
  <2>3. CandidateRef(c) \in Refs
    BY <2>2 DEF Refs, CandidateRef, EvidenceRef
  <2>4. c.kind = "test" => Answered(CandidateRef(c))
    BY <2>1 DEF Answered, CandidateRef, EvidenceRef
  <2> QED BY <2>3, <2>4 DEF Grounded, CandidateRef, EvidenceRef
<1>6. Len(Attached) \in Nat /\ refs \in Seq(Grounded)
  <2> HIDE DEF Good, Given
  <2>1. Len(Attached) \in Nat /\ DOMAIN Attached = 1..Len(Attached)
    BY <1>4, LenProperties
  <2>2. \A i \in 1..Len(Attached) : CandidateRef(Attached[i]) \in Grounded
    BY <1>4, <1>5, ElementOfSeq
  <2>3. refs \in [1..Len(Attached) -> Grounded]
    BY <2>1, <2>2 DEF CandidateRefs
  <2> HIDE DEF refs
  <2> QED BY <2>1, <2>3, FunctionSeq
<1> HIDE DEF Given, Good
<1>7. ApplyCandidates.evidence = result.evidence \o refs
  BY DEF ApplyCandidates
<1>8. result.evidence \o refs \in Seq(Grounded)
  <2> HIDE DEF refs
  <2> QED BY <1>6, JoinedNonEmpty
<1>9. ApplyCandidates.status = "satisfied" => result.status = "satisfied"
  BY DEF ApplyCandidates
<1> QED BY <1>4, <1>6, <1>7, <1>8, <1>9

-----------------------------------------------------------------------------
(* The promotion by a passing test *)

\* A case that ran and passed for the requirement.
Proving ==
  {c \in ReportCases :
     \E i \in DOMAIN reported :
       /\ reported[i] = c /\ c.status = "passed"
       /\ \/ c.acid = "exact"
          \/ /\ c.acid # "foreign" \/ c.token = "own"
             /\ c.token = "foreign" => c.acid = "sibling"
             /\ \E j \in DOMAIN answer : /\ answer[j].kind = "test" /\ answer[j].name = c.name
                                         /\ Valid(answer[j]) /\ InGroup(answer[j].path)}

LEMMA VerifyingCaseRan ==
  ASSUME reported \in Seq(ReportCases), result.evidence \in Seq(Grounded)
  PROVE  VerifyingCase \in Seq(Proving)
<1> DEFINE Pins == {r \in Grounded : r.kind = "test" /\ r.llm /\ r.name # "none"}
           Stand == {r \in Pins : PinpointedBy(r) # {}}
<1>1. Passing \in SUBSET (1..Len(reported)) /\ \A i \in Passing : reported[i] \in ReportCases
  BY ElementOfSeq, LenProperties DEF Passing
<1>2. CasesByAcid \in Seq(Proving)
  <2> DEFINE K == {i \in Passing : reported[i].acid = "exact"}
  <2>1. K \in SUBSET (1..Len(reported)) /\ \A i \in K : reported[i] \in Proving
    BY <1>1 DEF Proving, Passing
  <2> HIDE DEF K
  <2>2. ElementsAt(reported, K) \in Seq(Proving)
    BY <2>1, ElementsAtProperties
  <2> QED BY <2>2 DEF CasesByAcid, K
<1>3. Pinpoints \in Seq(Pins)
  <2> DEFINE K == {i \in DOMAIN result.evidence :
                     LET r == result.evidence[i] IN r.kind = "test" /\ r.llm /\ r.name # "none"}
  <2>1. K \in SUBSET (1..Len(result.evidence)) /\ \A i \in K : result.evidence[i] \in Pins
    BY ElementOfSeq, LenProperties
  <2> HIDE DEF K, Pins
  <2>2. ElementsAt(result.evidence, K) \in Seq(Pins)
    BY <2>1, ElementsAtProperties
  <2> QED BY <2>2 DEF Pinpoints, K
<1>4. Standing \in Seq(Stand)
  <2> HIDE DEF Pins
  <2> DEFINE K == {i \in DOMAIN Pinpoints : PinpointedBy(Pinpoints[i]) # {}}
  <2>1. K \in SUBSET (1..Len(Pinpoints)) /\ \A i \in K : Pinpoints[i] \in Stand
    BY <1>3, ElementOfSeq, LenProperties
  <2> HIDE DEF K, Stand
  <2>2. ElementsAt(Pinpoints, K) \in Seq(Stand)
    BY <1>3, <2>1, ElementsAtProperties
  <2> QED BY <2>2 DEF Standing, K
<1>5. ASSUME NEW r \in Pins
      PROVE  ElementsAt(reported, PinpointedBy(r)) \in Seq(Proving)
  <2>1. PICK j \in DOMAIN answer : /\ answer[j].kind = "test" /\ answer[j].name = r.name
                                   /\ Valid(answer[j]) /\ answer[j].path = r.path
    BY DEF Grounded, Answered
  <2> HIDE DEF Pins
  <2>2. PinpointedBy(r) \in SUBSET (1..Len(reported))
    BY <1>1 DEF PinpointedBy
  <2>3. ASSUME NEW i \in PinpointedBy(r)  PROVE reported[i] \in Proving
    <3>1. /\ i \in Passing /\ reported[i].name = r.name /\ InGroup(r.path)
          /\ "own" \in CaseGroups(reported[i]) \/ CaseGroups(reported[i]) = {}
      BY <2>3 DEF PinpointedBy
    <3>2. /\ reported[i].acid = "exact" \/ reported[i].acid # "foreign" \/ reported[i].token = "own"
          /\ reported[i].acid = "exact" \/ (reported[i].token = "foreign" => reported[i].acid = "sibling")
      BY <3>1 DEF CaseGroups
    <3>3. reported[i] \in ReportCases /\ i \in DOMAIN reported /\ reported[i].status = "passed"
      BY <1>1, <3>1 DEF Passing
    <3> QED BY <2>1, <3>1, <3>2, <3>3 DEF Proving
  <2> QED BY <2>2, <2>3, ElementsAtProperties
<1>6. Standing # <<>> => Standing[1] \in Pins
  <2> HIDE DEF Pins
  <2>1. Standing # <<>> => 1 \in 1..Len(Standing)
    <3> HIDE DEF Stand
    <3> QED BY <1>4, EmptySeq
  <2>2. Standing # <<>> => Standing[1] \in Stand
    <3> HIDE DEF Stand
    <3> QED BY <1>4, <2>1, ElementOfSeq
  <2> QED BY <2>2
<1>7. <<>> \in Seq(Proving)
  BY EmptySeq
<1> HIDE DEF Pins, Stand
<1> QED BY <1>2, <1>5, <1>6, <1>7 DEF VerifyingCase

LEMMA VerificationIsEarned ==
  ASSUME reported \in Seq(ReportCases), result.evidence \in Seq(Grounded), result.status = "satisfied" => Earned
  PROVE  /\ VerifyWithTests.evidence \in Seq(Grounded)
         /\ VerifyWithTests.status = "satisfied" => Earned
<1> DEFINE promoted == UniqueEvidence(<<VerifiedRef(VerifyingCase[1], "promoted")>> \o result.evidence)
           broad == UniqueEvidence(<<VerifiedRef(GroupCase[1], "broad")>> \o result.evidence)
<1>1. VerifyingCase \in Seq(Proving)
  BY VerifyingCaseRan
<1>2. ASSUME VerifyingCase # <<>>  PROVE VerifyingCase[1] \in Proving
  <2>1. 1 \in 1..Len(VerifyingCase)
    BY <1>1, <1>2, EmptySeq
  <2> QED BY <1>1, <2>1, ElementOfSeq
<1>3. GroupCase \in Seq(ReportCases)
  <2> DEFINE K == {i \in Passing : "own" \in CaseGroups(reported[i])}
  <2>1. K \in SUBSET (1..Len(reported)) /\ \A i \in K : reported[i] \in ReportCases
    BY ElementOfSeq, LenProperties DEF Passing
  <2> HIDE DEF K
  <2>2. ElementsAt(reported, K) \in Seq(ReportCases)
    BY <2>1, ElementsAtProperties
  <2> QED BY <2>2 DEF GroupCase, K
<1>4. ASSUME GroupCase # <<>>  PROVE GroupCase[1] \in ReportCases
  <2>1. 1 \in 1..Len(GroupCase)
    BY <1>3, <1>4, EmptySeq
  <2> QED BY <1>3, <2>1, ElementOfSeq
<1>5. ASSUME NEW c \in ReportCases, NEW why \in {"promoted", "broad"}
      PROVE  UniqueEvidence(<<VerifiedRef(c, why)>> \o result.evidence) \in Seq(Grounded)
  <2>1. VerifiedRef(c, why) \in Grounded
    BY CaseRefIsGrounded DEF Reasons
  <2>2. <<VerifiedRef(c, why)>> \in Seq(Grounded)
    BY <2>1
  <2> QED BY <2>2, JoinedNonEmpty, UniqueProperties
<1>6. ASSUME VerifyingCase # <<>>  PROVE promoted \in Seq(Grounded) /\ RanAndPassed
  <2>1. VerifyingCase[1] \in ReportCases
    BY <1>2, <1>6 DEF Proving
  <2>2. RanAndPassed
    BY <1>2, <1>6 DEF Proving, RanAndPassed
  <2> QED BY <1>5, <2>1, <2>2
<1>7. ASSUME GroupCase # <<>>  PROVE broad \in Seq(Grounded)
  BY <1>4, <1>5, <1>7
<1>8. HasImplementation => \/ \E f \in req.mentions \cup req.cites : IsImplementationEvidencePath(f)
                           \/ \E f \in req.changed : IsImplementationProofPath(f) /\ InGroup(f)
  <2> SUFFICES ASSUME NEW i \in DOMAIN result.evidence,
                      result.evidence[i].kind = "file", ~result.evidence[i].llm,
                      IsImplementationEvidencePath(result.evidence[i].path)
               PROVE  \/ \E f \in req.mentions \cup req.cites : IsImplementationEvidencePath(f)
                      \/ \E f \in req.changed : IsImplementationProofPath(f) /\ InGroup(f)
    BY DEF HasImplementation
  <2>1. result.evidence[i] \in Grounded
    BY ElementOfSeq, LenProperties
  <2>2. FoundByTool(result.evidence[i].path)
    BY <2>1 DEF Grounded
  <2> QED BY <2>2 DEF FoundByTool
<1>9. Verifies => Earned
  BY <1>6, <1>8 DEF Verifies, Earned
<1> HIDE DEF promoted, broad
<1>10. \/ VerifyWithTests = result
       \/ Verifies /\ VerifyWithTests = [status |-> "satisfied", reason |-> "none", evidence |-> promoted]
       \/ /\ GroupCase # <<>>
          /\ VerifyWithTests = [status |-> "partial", reason |-> "broad_area_only", evidence |-> broad]
  BY DEF VerifyWithTests, promoted, broad
<1>11. Verifies => promoted \in Seq(Grounded)
  BY <1>6 DEF Verifies
<1> QED BY <1>7, <1>9, <1>10, <1>11

-----------------------------------------------------------------------------
LEMMA EvInitInv == EvInit => EvInv
<1> SUFFICES ASSUME EvInit  PROVE EvInv
  OBVIOUS
<1> USE EvaluationAssumption DEF EvInit
<1>1. result.evidence = <<>> /\ result.status # "satisfied"
  BY DEF NoResult
<1> QED BY <1>1, EmptySeq DEF EvInv, SatisfiedIsEarned

LEMMA EarnedIsSatisfiedIsEarned == SatisfiedIsEarned <=> (result.status = "satisfied" => Earned)
BY DEF SatisfiedIsEarned, Earned

LEMMA GroundedStays ==
  ASSUME UNCHANGED <<req, reported, answer>>
  PROVE  Grounded' = Grounded /\ (Earned <=> Earned')
<1>1. Grounded' = Grounded
  BY DEF Grounded, Refs, FoundByTool, Answered, Valid, InPool
<1>2. Earned <=> Earned'
  BY DEF Earned, RanAndPassed, Valid, InPool
<1> QED BY <1>1, <1>2

LEMMA EvStep ==
  ASSUME EvInv, [EvNext]_evVars
  PROVE  EvInv'
<1> USE DEF EvInv
<1>1. result.status = "satisfied" => Earned
  BY EarnedIsSatisfiedIsEarned
<1>2. SatisfiedIsEarned' <=> (result'.status = "satisfied" => Earned')
  BY DEF SatisfiedIsEarned, Earned
<1>3. CASE Collect
  <2>1. result' = NoResult /\ result'.evidence = <<>> /\ result'.status # "satisfied"
    BY <1>3 DEF Collect, NoResult
  <2>2. result'.evidence \in Seq(Grounded')
    BY <2>1, EmptySeq
  <2>3. evStage' = "collected" /\ answer' = <<>> /\ UNCHANGED <<reported, answer, budget>>
    BY <1>3 DEF Collect
  <2> QED BY <1>2, <2>1, <2>2, <2>3
<1>4. CASE ReadReport
  <2>1. result' = NoResult /\ result'.evidence = <<>> /\ result'.status # "satisfied"
    BY <1>4 DEF ReadReport, NoResult
  <2>2. result'.evidence \in Seq(Grounded')
    BY <2>1, EmptySeq
  <2>3. evStage' = "collected" /\ answer' = <<>> /\ UNCHANGED <<answer, budget>>
    BY <1>4 DEF ReadReport
  <2>4. reported' \in Seq(ReportCases)
    BY <1>4, AppendProperties DEF ReadReport
  <2> QED BY <1>2, <2>1, <2>2, <2>3, <2>4
<1>5. CASE EvaluateBase
  <2>1. result' = EvaluateRequirement /\ evStage' = "evaluated" /\ answer' = <<>>
        /\ UNCHANGED <<req, reported, answer, budget>>
    BY <1>5 DEF EvaluateBase
  <2>2. Grounded' = Grounded /\ (Earned <=> Earned')
    BY <2>1, GroundedStays
  <2>3. result'.evidence \in Seq(Grounded') /\ (result'.status = "satisfied" => Earned')
    BY <2>1, <2>2, EvaluationIsEarned
  <2> QED BY <1>2, <2>1, <2>3
<1>6. CASE AnswerArrives
  <2>1. /\ evStage' = "answered" /\ Enrichable /\ answer = <<>> /\ UNCHANGED <<req, reported, result>>
        /\ answer' \in SeqOf(Candidates, MaxCandidates) /\ budget' \in 0..MaxBudget
    BY <1>6 DEF AnswerArrives
  <2>2. answer' \in Seq(Candidates) /\ budget' \in Nat
    <3>1. PICK m \in 0..MaxCandidates : answer' \in [1..m -> Candidates]
      BY <2>1 DEF SeqOf
    <3>2. m \in Nat
      OBVIOUS
    <3>3. answer' \in Seq(Candidates)
      BY <3>1, <3>2, FunctionSeq
    <3> QED BY <2>1, <3>3, EvaluationAssumption
  <2>3. ASSUME NEW r \in Grounded  PROVE r \in Grounded'
    <3>1. ~Answered(r)
      BY <2>1 DEF Answered
    <3> QED BY <2>1, <3>1 DEF Grounded, Refs, FoundByTool
  <2>4. result'.evidence \in Seq(Grounded')
    BY <2>1, <2>3, WiderSeq
  <2>5. Enrichable' /\ result'.status # "satisfied"
    BY <2>1 DEF Enrichable
  <2>6. reported' \in Seq(ReportCases)
    BY <2>1
  <2> QED BY <1>2, <2>1, <2>2, <2>4, <2>5, <2>6
<1>7. CASE Enrich
  <2>1. /\ evStage' = "enriched" /\ UNCHANGED <<req, reported, answer>>
        /\ \/ result' = result /\ budget' = 0
           \/ result' = ApplyCandidates /\ budget' = budget - Len(Attached)
    BY <1>7 DEF Enrich
  <2>2. Grounded' = Grounded /\ (Earned <=> Earned')
    BY <2>1, GroundedStays
  <2>3. /\ Len(Attached) \in Nat /\ Len(Attached) <= budget
        /\ ApplyCandidates.evidence \in Seq(Grounded)
        /\ ApplyCandidates.status = "satisfied" => result.status = "satisfied"
    BY CandidatesAreGrounded
  <2>4. budget' \in Nat
    BY <2>1, <2>3
  <2>5. result'.evidence \in Seq(Grounded') /\ (result'.status = "satisfied" => Earned')
    BY <1>1, <2>1, <2>2, <2>3
  <2> QED BY <1>2, <2>1, <2>4, <2>5
<1>8. CASE SkipReasoning
  <2>1. evStage' = "enriched" /\ UNCHANGED <<req, reported, answer, budget, result>>
    BY <1>8 DEF SkipReasoning
  <2>2. Grounded' = Grounded /\ (Earned <=> Earned')
    BY <2>1, GroundedStays
  <2> QED BY <1>1, <1>2, <2>1, <2>2
<1>9. CASE Verify
  <2>1. evStage' = "verified" /\ result' = VerifyWithTests /\ UNCHANGED <<req, reported, answer, budget>>
    BY <1>9 DEF Verify
  <2>2. Grounded' = Grounded /\ (Earned <=> Earned')
    BY <2>1, GroundedStays
  <2>3. VerifyWithTests.evidence \in Seq(Grounded) /\ (VerifyWithTests.status = "satisfied" => Earned)
    BY <1>1, VerificationIsEarned
  <2> QED BY <1>2, <2>1, <2>2, <2>3
<1>10. CASE UNCHANGED evVars
  <2>1. UNCHANGED <<evStage, req, reported, answer, budget, result>>
    BY <1>10 DEF evVars
  <2>2. Grounded' = Grounded /\ (Earned <=> Earned')
    BY <2>1, GroundedStays
  <2> QED BY <1>1, <1>2, <2>1, <2>2 DEF Enrichable
<1> QED BY <1>3, <1>4, <1>5, <1>6, <1>7, <1>8, <1>9, <1>10 DEF EvNext

\* For every repository, requirement, report and answer: a requirement ends
\* satisfied only on evidence the tool itself read.
THEOREM OnlyEarnedIsSatisfied == EvSpec => []SatisfiedIsEarned
<1>1. EvInv => SatisfiedIsEarned
  BY DEF EvInv
<1> QED BY EvInitInv, EvStep, <1>1, PTL DEF EvSpec

-----------------------------------------------------------------------------
(***************************************************************************)
(* What was run, and what was removed.                                     *)
(***************************************************************************)

\* The command covers the path: all tests, or those of an area the path maps to.
Covers(command, p) ==
  \/ command.broad
  \/ ~command.broad /\ command.focused /\ \E area \in PathAreas(p) : CommandNames(command, area)

\* A run that passed at the head commit is of the tree since the commit that last
\* changed a path, and a path git calls deleted was not moved here.
PrInv ==
  /\ prStage \in {"work", "built"} /\ commits \in Nat
  /\ ranged \in [Paths -> PathStatuses] /\ dirty \in [Paths -> PathStatuses]
  /\ \A r \in recorded : r.head \in Nat /\ r.head <= commits
  /\ \A r \in HeadPassingRuns : \A p \in Paths : Covers(r.command, p) => p \in ranSince
  /\ \A p \in Paths : dirty[p] = "D" => ranged[p] # "R"
  /\ prStage = "built" => candidates = Drafts

LEMMA PrInitInv == PrInit => PrInv
<1> SUFFICES ASSUME PrInit  PROVE PrInv
  OBVIOUS
<1>1. prStage = "work" /\ commits = 1 /\ recorded = {} /\ \A p \in Paths : dirty[p] = ""
  BY DEF PrInit
<1>2. ranged \in [Paths -> PathStatuses] /\ dirty \in [Paths -> PathStatuses]
  BY DEF PrInit, PathStatuses
<1>3. HeadPassingRuns = {}
  BY <1>1 DEF HeadPassingRuns
<1>4. commits \in Nat
  BY <1>1
<1> QED BY <1>1, <1>2, <1>3, <1>4 DEF PrInv

\* Building the risks changes nothing they are built from.
LEMMA DraftsStay ==
  ASSUME UNCHANGED <<prFacts, ranged, dirty, commits, recorded>>
  PROVE  Drafts' = Drafts
BY DEF Drafts, CoverageRegression, RefsOf, Slots, SlotsBefore, UntestedChangedImpl, ValidationRoots, UntestedFiles,
       HasValidation, ChangedTestAreas, DirtyTestAreas, ChangedTests, ChangedPaths, SourceOf, StatusOf,
       PreserveRangeStatus, BroadAtHead, FocusedAtHead, HeadPassingRuns, UnmappedChange, PrivacySensitiveChange,
       CommentSurfaceChange, CiSecretBoundaryChange, SchemaContractChange, OnSurface, OverPaths, First, FirstRank,
       SecretInDiff, Leaks, DeletedOrRenamedSurface, RemovedSurfaces, RemovedPath, FailedOrSkippedTest, LargeDiff,
       LineCount, Draft, RootState

LEMMA TouchKeeps ==
  ASSUME PrInv, NEW p \in Paths, NEW status \in PathStatuses, Touch(p, status), status = "D" => ranged[p] # "R"
  PROVE  PrInv'
<1>1. /\ prStage' = "work" /\ UNCHANGED <<ranged, commits, recorded, ranSince>>
      /\ dirty' = [dirty EXCEPT ![p] = status]
  BY DEF Touch, PrInv
<1>2. HeadPassingRuns' = HeadPassingRuns
  BY <1>1 DEF HeadPassingRuns
<1>3. dirty' \in [Paths -> PathStatuses]
  BY <1>1 DEF PrInv
<1>4. \A q \in Paths : dirty'[q] = "D" => ranged'[q] # "R"
  BY <1>1 DEF PrInv
<1> QED BY <1>1, <1>2, <1>3, <1>4 DEF PrInv

LEMMA PrStep ==
  ASSUME PrInv, [PrNext]_prVars
  PROVE  PrInv'
<1>1. ASSUME NEW p \in Paths, EditFile(p) \/ Delete(p) \/ Create(p) \/ Move(p) \/ Restore(p)
      PROVE  PrInv'
  <2>1. CASE EditFile(p)
    BY <2>1, TouchKeeps DEF EditFile, PathStatuses
  <2>2. CASE Delete(p)
    BY <2>2, TouchKeeps DEF Delete, PathStatuses
  <2>3. CASE Create(p)
    BY <2>3, TouchKeeps DEF Create, PathStatuses
  <2>4. CASE Move(p)
    BY <2>4, TouchKeeps DEF Move, PathStatuses
  <2>5. CASE Restore(p)
    BY <2>5, TouchKeeps DEF Restore, PathStatuses
  <2> QED BY <1>1, <2>1, <2>2, <2>3, <2>4, <2>5
<1>2. CASE CommitTree
  <2>1. /\ prStage' = "work" /\ commits' = commits + 1 /\ UNCHANGED recorded
        /\ ranged' = [p \in Paths |-> Committed(p)] /\ dirty' = [p \in Paths |-> ""]
    BY <1>2 DEF CommitTree
  <2>8. commits \in Nat /\ \A r \in recorded : r.head \in Nat /\ r.head <= commits
    BY DEF PrInv
  <2>10. commits' = commits + 1 /\ recorded' = recorded
    BY <2>1
  <2>9. \A r \in recorded' : r.head # commits'
    BY <2>8, <2>10
  <2>2. HeadPassingRuns' = {}
    BY <2>9 DEF HeadPassingRuns
  <2>3. \A p \in Paths : Committed(p) \in PathStatuses
    BY DEF PrInv, Committed, PathStatuses
  <2>4. ranged' \in [Paths -> PathStatuses] /\ dirty' \in [Paths -> PathStatuses]
    BY <2>1, <2>3 DEF PathStatuses
  <2>5. \A r \in recorded' : r.head \in Nat /\ r.head <= commits'
    BY <2>8, <2>10
  <2>6. commits' \in Nat
    BY <2>8, <2>10
  <2>7. \A p \in Paths : dirty'[p] # "D"
    BY <2>1
  <2> QED BY <2>1, <2>2, <2>4, <2>5, <2>6, <2>7 DEF PrInv
<1>3. ASSUME NEW command \in RunCommands, NEW passed \in BOOLEAN, RunTests(command, passed)
      PROVE  PrInv'
  <2> DEFINE run == [command |-> command, head |-> commits, passed |-> passed]
  <2>1. /\ prStage' = "work" /\ recorded' = recorded \cup {run} /\ UNCHANGED <<ranged, dirty, commits>>
        /\ ranSince' = ranSince \cup
             {p \in Paths : /\ passed /\ command.test
                            /\ \/ command.broad
                               \/ command.focused /\ \E area \in PathAreas(p) : CommandNames(command, area)}
    BY <1>3 DEF RunTests
  <2>2. \A r \in recorded' : r.head \in Nat /\ r.head <= commits'
    BY <2>1 DEF PrInv
  <2>3. ASSUME NEW r \in HeadPassingRuns', NEW p \in Paths, Covers(r.command, p)
        PROVE  p \in ranSince'
    <3>1. CASE r \in recorded
      <4>1. r \in HeadPassingRuns
        BY <2>1, <2>3, <3>1 DEF HeadPassingRuns
      <4> QED BY <2>1, <2>3, <4>1 DEF PrInv
    <3>2. CASE r = run
      <4>1. passed /\ command.test /\ Covers(command, p)
        BY <2>3, <3>2 DEF HeadPassingRuns
      <4> QED BY <2>1, <4>1 DEF Covers
    <3> QED BY <2>1, <2>3, <3>1, <3>2 DEF HeadPassingRuns
  <2> QED BY <2>1, <2>2, <2>3 DEF PrInv
<1>4. CASE BuildCandidates
  <2>1. /\ UNCHANGED <<prFacts, ranged, dirty, commits, recorded, ranSince>>
        /\ candidates' = Drafts /\ prStage' = "built"
    BY <1>4 DEF BuildCandidates
  <2>2. Drafts' = Drafts
    BY <2>1, DraftsStay
  <2> QED BY <2>1, <2>2 DEF PrInv, HeadPassingRuns
<1>5. CASE UNCHANGED prVars
  <2>1. UNCHANGED <<prStage, prFacts, ranged, dirty, commits, recorded, candidates, ranSince>>
    BY <1>5 DEF prVars
  <2>2. Drafts' = Drafts
    BY <2>1, DraftsStay
  <2> QED BY <2>1, <2>2 DEF PrInv, HeadPassingRuns
<1> QED BY <1>1, <1>2, <1>3, <1>4, <1>5 DEF PrNext

LEMMA UntestedFollows == PrInv => UntestedIsReported
<1> SUFFICES ASSUME PrInv, prStage = "built", NEW p \in ChangedPaths,
                    PathRole(p) = "implementation", StatusOf(p) # "D", PathAreas(p) # {},
                    ~Reported("untested_changed_impl", p)
             PROVE  \/ /\ \E t \in ChangedTests : ShareArea(p, t)
                       /\ dirty[p] = "" \/ \E t \in ChangedTests : ShareArea(p, t) /\ dirty[t] # ""
                    \/ dirty[p] = "" /\ p \in ranSince
  BY DEF UntestedIsReported
<1>1. p \in Paths
  BY DEF ChangedPaths
<1>2. p \notin UntestedFiles
  <2> SUFFICES ASSUME p \in UntestedFiles  PROVE FALSE
    OBVIOUS
  <2> DEFINE root == PathAreas(p)
             group == {q \in UntestedFiles : PathAreas(q) = root}
             draft == Draft("untested_changed_impl", "medium", RootRank(root), First(group, RuleEvidence - 1), TRUE,
                            RootState(root), group)
  <2>1. root \in ValidationRoots /\ p \in group
    BY DEF ValidationRoots
  <2>2. draft \in UntestedChangedImpl
    BY <2>1 DEF UntestedChangedImpl
  <2>3. draft \in candidates
    BY <2>2 DEF PrInv, Drafts
  <2>4. draft.rule = "untested_changed_impl" /\ draft.about = group
    BY DEF Draft
  <2> QED BY <2>1, <2>3, <2>4 DEF Reported
<1>3. HasValidation(p)
  BY <1>2 DEF UntestedFiles
<1>4. SourceOf(p) = "diff" => dirty[p] = ""
  BY DEF SourceOf
<1>5. ASSUME PathAreas(p) \cap ChangedTestAreas # {}  PROVE \E t \in ChangedTests : ShareArea(p, t)
  BY <1>5 DEF ChangedTestAreas, ShareArea
<1>6. ASSUME PathAreas(p) \cap DirtyTestAreas # {}
      PROVE  \E t \in ChangedTests : ShareArea(p, t) /\ dirty[t] # ""
  BY <1>6 DEF DirtyTestAreas, ShareArea, SourceOf
<1>7. ASSUME BroadAtHead \/ \E area \in PathAreas(p) : FocusedAtHead(area)
      PROVE  p \in ranSince
  <2>1. PICK r \in HeadPassingRuns : Covers(r.command, p)
    BY <1>7 DEF BroadAtHead, FocusedAtHead, Covers
  <2> QED BY <1>1, <2>1 DEF PrInv
<1> QED BY <1>3, <1>4, <1>5, <1>6, <1>7 DEF HasValidation

LEMMA RemovedSurfaceIsReported ==
  ASSUME PrInv, prStage = "built", NEW p \in RemovedSurfaces
  PROVE  Reported("deleted_or_renamed_surface", RemovedPath(p))
<1> DEFINE removed == {RemovedPath(q) : q \in RemovedSurfaces}
<1>1. RemovedPath(p) \in removed
  OBVIOUS
<1>2. \E c \in DeletedOrRenamedSurface : c.rule = "deleted_or_renamed_surface" /\ c.about = removed
  BY <1>1 DEF DeletedOrRenamedSurface, Draft
<1>3. DeletedOrRenamedSurface \subseteq candidates
  BY DEF PrInv, Drafts
<1> QED BY <1>1, <1>2, <1>3 DEF Reported

LEMMA RemovedTestFollows == PrInv => RemovedTestIsReported
<1> SUFFICES ASSUME PrInv, prStage = "built", NEW t \in ChangedTests, ~InTree(t)
             PROVE  Reported("deleted_or_renamed_surface", t)
  BY DEF RemovedTestIsReported
<1>1. t \in ChangedPaths /\ t \in Paths /\ PathRole(t) = "test" /\ (ranged[t] # "" \/ dirty[t] # "")
  BY DEF ChangedTests, ChangedPaths
<1>2. StatusOf(t) = "D"
  BY <1>1 DEF PrInv, InTree, AtHead, StatusOf, PreserveRangeStatus
<1>3. t \in RemovedSurfaces /\ RemovedPath(t) = t
  BY <1>1, <1>2 DEF RemovedSurfaces, RemovedPath
<1> QED BY <1>3, RemovedSurfaceIsReported

-----------------------------------------------------------------------------
(***************************************************************************)
(* The cut of the evidence.                                                *)
(***************************************************************************)
Below(S, p) == {q \in S : PathRank(q) < PathRank(p)}

Ranked(S) ==
  /\ IsFiniteSet(S) /\ \A p \in S : PathRank(p) \in Nat
  /\ \A p, q \in S : PathRank(p) = PathRank(q) => p = q

LEMMA BelowIsFinite ==
  ASSUME NEW S, Ranked(S), NEW p \in S
  PROVE  IsFiniteSet(Below(S, p)) /\ Cardinality(Below(S, p)) \in Nat
<1>1. IsFiniteSet(Below(S, p))
  BY FS_Subset DEF Ranked, Below
<1> QED BY <1>1, FS_CardinalityType

\* Below a path that has one below it is the next lower path and what is below that.
LEMMA NextLower ==
  ASSUME NEW S, Ranked(S), NEW q \in S, Below(S, q) # {}
  PROVE  \E x \in Below(S, q) : Cardinality(Below(S, q)) = Cardinality(Below(S, x)) + 1
<1> DEFINE gaps == {PathRank(q) - PathRank(x) : x \in Below(S, q)}
<1>1. gaps \in SUBSET Nat /\ gaps # {}
  BY DEF Below, Ranked
<1> HIDE DEF gaps
<1>2. PICK m \in gaps : \A k \in gaps : ~(k < m)
  BY <1>1, LeastNumber
<1>3. PICK x \in Below(S, q) : m = PathRank(q) - PathRank(x)
  BY <1>2 DEF gaps
<1>4. x \in S /\ PathRank(x) \in Nat /\ PathRank(q) \in Nat /\ PathRank(x) < PathRank(q)
  BY DEF Below, Ranked
<1>5. ASSUME NEW y \in Below(S, q)  PROVE y = x \/ y \in Below(S, x)
  <2>1. y \in S /\ PathRank(y) \in Nat
    BY DEF Below, Ranked
  <2>2. PathRank(q) - PathRank(y) \in gaps
    BY DEF gaps
  <2>3. ~(PathRank(q) - PathRank(y) < PathRank(q) - PathRank(x))
    BY <1>2, <1>3, <2>2
  <2>4. PathRank(y) = PathRank(x) \/ PathRank(y) < PathRank(x)
    BY <1>4, <2>1, <2>3
  <2> QED BY <1>4, <2>1, <2>4 DEF Ranked, Below
<1>6. ASSUME NEW y \in Below(S, x)  PROVE y \in Below(S, q)
  <2>1. y \in S /\ PathRank(y) \in Nat /\ PathRank(y) < PathRank(x)
    BY DEF Below, Ranked
  <2>2. PathRank(y) < PathRank(q)
    BY <1>4, <2>1
  <2> QED BY <2>1, <2>2 DEF Below
<1>7. Below(S, q) = Below(S, x) \cup {x}
  BY <1>5, <1>6
<1>8. x \notin Below(S, x)
  BY <1>4 DEF Below
<1>9. Cardinality(Below(S, x) \cup {x}) = Cardinality(Below(S, x)) + 1
  BY <1>4, <1>8, BelowIsFinite, FS_AddElement
<1> QED BY <1>7, <1>9

\* A cut that leaves a path out is full.
LEMMA CutIsFull ==
  ASSUME NEW S, Ranked(S), NEW n \in Nat, NEW p \in S, p \notin First(S, n)
  PROVE  Cardinality(First(S, n)) = n
<1> DEFINE Late == {x \in S : n <= Cardinality(Below(S, x))}
           ranks == {PathRank(x) : x \in Late}
<1>1. p \in Late
  <2>1. ~(Cardinality(Below(S, p)) < n)
    BY DEF First, Below
  <2> QED BY <2>1, BelowIsFinite
<1>2. ranks \in SUBSET Nat /\ ranks # {}
  BY <1>1 DEF Ranked
<1> HIDE DEF ranks
<1>3. PICK m \in ranks : \A k \in ranks : ~(k < m)
  BY <1>2, LeastNumber
<1>4. PICK q \in Late : m = PathRank(q)
  BY <1>3 DEF ranks
<1>5. ASSUME NEW x \in S, PathRank(x) < PathRank(q)  PROVE Cardinality(Below(S, x)) < n
  <2>1. x \notin Late
    BY <1>3, <1>4, <1>5 DEF ranks
  <2>2. ~(n <= Cardinality(Below(S, x)))
    BY <2>1
  <2> QED BY <2>2, BelowIsFinite
<1>6. q \in S /\ n <= Cardinality(Below(S, q)) /\ Cardinality(Below(S, q)) \in Nat
  BY <1>4, BelowIsFinite
<1>7. Cardinality(Below(S, q)) = n
  <2>1. CASE Below(S, q) = {}
    <3>1. Cardinality(Below(S, q)) = 0
      BY <2>1, FS_EmptySet
    <3> QED BY <1>6, <3>1
  <2>2. CASE Below(S, q) # {}
    <3>1. PICK x \in Below(S, q) : Cardinality(Below(S, q)) = Cardinality(Below(S, x)) + 1
      BY <1>6, <2>2, NextLower
    <3>2. x \in S /\ PathRank(x) < PathRank(q)
      BY DEF Below
    <3>3. Cardinality(Below(S, x)) < n /\ Cardinality(Below(S, x)) \in Nat
      BY <1>5, <3>2, BelowIsFinite
    <3> QED BY <1>6, <3>1, <3>3
  <2> QED BY <2>1, <2>2
<1>8. ASSUME NEW x \in First(S, n)  PROVE x \in Below(S, q)
  <2>1. x \in S /\ Cardinality(Below(S, x)) < n
    BY DEF First, Below
  <2>2. CASE ~(PathRank(x) < PathRank(q))
    <3>1. PathRank(x) \in Nat /\ PathRank(q) \in Nat /\ \A y \in S : PathRank(y) \in Nat
      BY <1>6, <2>1 DEF Ranked
    <3>2. ASSUME NEW y \in Below(S, q)  PROVE y \in Below(S, x)
      <4>1. y \in S /\ PathRank(y) < PathRank(q)
        BY DEF Below
      <4>2. PathRank(y) < PathRank(x)
        BY <2>2, <3>1, <4>1
      <4> QED BY <4>1, <4>2 DEF Below
    <3>3. Below(S, q) \in SUBSET Below(S, x)
      BY <3>2
    <3>4. Cardinality(Below(S, q)) <= Cardinality(Below(S, x))
      BY <2>1, <3>3, BelowIsFinite, FS_Subset
    <3>5. Cardinality(Below(S, x)) \in Nat
      BY <2>1, BelowIsFinite
    <3> QED BY <1>7, <2>1, <3>4, <3>5
  <2> QED BY <2>1, <2>2 DEF Below
<1>9. ASSUME NEW x \in Below(S, q)  PROVE x \in First(S, n)
  <2>1. x \in S /\ PathRank(x) < PathRank(q)
    BY DEF Below
  <2>2. Cardinality(Below(S, x)) < n
    BY <1>5, <2>1
  <2> QED BY <2>1, <2>2 DEF First, Below
<1>10. First(S, n) = Below(S, q)
  BY <1>8, <1>9
<1> QED BY <1>7, <1>10

LEMMA NoneIsFirst ==
  ASSUME NEW S, Ranked(S)
  PROVE  First(S, 0) = {}
<1> SUFFICES ASSUME NEW x \in First(S, 0)  PROVE FALSE
  OBVIOUS
<1>1. x \in S /\ Cardinality(Below(S, x)) < 0
  BY DEF First, Below
<1>2. Cardinality(Below(S, x)) \in Nat
  BY <1>1, BelowIsFinite
<1> QED BY <1>1, <1>2

LEMMA RemovedPathsAreRanked ==
  Ranked({RemovedPath(q) : q \in RemovedSurfaces})
<1> DEFINE removed == {RemovedPath(q) : q \in RemovedSurfaces}
           path == [q \in RemovedSurfaces |-> RemovedPath(q)]
<1>1. RemovedSurfaces \in SUBSET Paths
  BY DEF RemovedSurfaces, ChangedPaths
<1>2. IsFiniteSet(RemovedSurfaces)
  BY <1>1, PrRisksAssumption, FS_Subset
<1>3. path \in Surjection(RemovedSurfaces, removed)
  BY DEF Surjection
<1>4. IsFiniteSet(removed)
  <2> HIDE DEF removed, path
  <2> QED BY <1>2, <1>3, FS_Surjection
<1>5. \A p \in removed : p \in Paths \cup {MovedFrom(r) : r \in Paths}
  BY <1>1 DEF RemovedPath
<1> HIDE DEF removed
<1>6. \A p \in removed : PathRank(p) \in Nat
  BY <1>5, PrRisksAssumption
<1>7. \A p, q \in removed : PathRank(p) = PathRank(q) => p = q
  BY <1>5, PrRisksAssumption
<1> QED BY <1>4, <1>6, <1>7 DEF Ranked, removed

LEMMA RankedPart ==
  ASSUME NEW S, Ranked(S), NEW T \in SUBSET S
  PROVE  Ranked(T)
BY FS_Subset DEF Ranked

LEMMA RemovedContractFollows == PrInv => RemovedContractIsCited
<1> SUFFICES ASSUME PrInv, prStage = "built", NEW p \in RemovedSurfaces, ExplicitContract(RemovedPath(p))
             PROVE  \E c \in candidates :
                      /\ c.rule = "deleted_or_renamed_surface" /\ c.severity = "high"
                      /\ \/ RemovedPath(p) \in c.cites
                         \/ Cardinality(c.cites) = RuleEvidence /\ \A q \in c.cites : ExplicitContract(q)
  BY DEF RemovedContractIsCited
<1> DEFINE removed == {RemovedPath(q) : q \in RemovedSurfaces}
           contracts == {q \in removed : ExplicitContract(q)}
           first == First(contracts, RuleEvidence)
           others == First(removed \ contracts, RuleEvidence - Cardinality(first))
<1>1. RemovedPath(p) \in contracts
  OBVIOUS
<1>2. PICK c \in DeletedOrRenamedSurface :
        c.rule = "deleted_or_renamed_surface" /\ c.severity = "high" /\ c.cites = first \cup others
  BY <1>1 DEF DeletedOrRenamedSurface, Draft
<1>3. c \in candidates
  BY DEF PrInv, Drafts
<1>4. Ranked(contracts) /\ Ranked(removed \ contracts)
  <2>1. Ranked(removed)
    BY RemovedPathsAreRanked
  <2>2. contracts \in SUBSET removed /\ (removed \ contracts) \in SUBSET removed
    OBVIOUS
  <2> HIDE DEF removed, contracts
  <2> QED BY <2>1, <2>2, RankedPart
<1>5. \A q \in first : ExplicitContract(q)
  BY DEF First
<1>6. CASE RemovedPath(p) \in first
  BY <1>2, <1>3, <1>6
<1>7. CASE RemovedPath(p) \notin first
  <2> HIDE DEF removed, contracts
  <2>1. Cardinality(first) = RuleEvidence
    BY <1>1, <1>4, <1>7, CutIsFull, PrRisksAssumption
  <2> HIDE DEF first
  <2>2. RuleEvidence - Cardinality(first) = 0
    BY <2>1, PrRisksAssumption
  <2>3. others = {}
    BY <1>4, <2>2, NoneIsFirst
  <2> HIDE DEF others
  <2>4. c.cites = first
    BY <1>2, <2>3
  <2> QED BY <1>2, <1>3, <1>5, <2>1, <2>4
<1> QED BY <1>6, <1>7

-----------------------------------------------------------------------------
(***************************************************************************)
(* The review queue (ReviewQueue).  A strict order of a finite set numbers *)
(* its elements one after the other; the sort keys of the queue are such   *)
(* an order, so the ranking loses no draft.                                *)
(***************************************************************************)
Lower(S, R, a) == {b \in S : <<b, a>> \in R}

StrictOrder(S, R) ==
  /\ \A a \in S : <<a, a>> \notin R
  /\ \A a, b, c \in S : <<a, b>> \in R /\ <<b, c>> \in R => <<a, c>> \in R
  /\ \A a, b \in S : a # b => <<a, b>> \in R \/ <<b, a>> \in R

LEMMA OrderNumbers ==
  ASSUME NEW S, IsFiniteSet(S), NEW R, StrictOrder(S, R)
  PROVE  /\ Cardinality(S) \in Nat
         /\ \A a \in S : Cardinality(Lower(S, R, a)) \in 0..(Cardinality(S) - 1)
         /\ \A a, b \in S : Cardinality(Lower(S, R, a)) = Cardinality(Lower(S, R, b)) => a = b
         /\ \A n \in 0..(Cardinality(S) - 1) : \E a \in S : Cardinality(Lower(S, R, a)) = n
<1> DEFINE rank == [a \in S |-> Cardinality(Lower(S, R, a))]
           N == Cardinality(S)
<1>1. N \in Nat
  BY FS_CardinalityType
<1>2. ASSUME NEW a \in S
      PROVE  IsFiniteSet(Lower(S, R, a)) /\ Cardinality(Lower(S, R, a)) \in 0..(N - 1)
  <2>1. Lower(S, R, a) \in SUBSET S /\ Lower(S, R, a) # S
    BY DEF Lower, StrictOrder
  <2>2. IsFiniteSet(Lower(S, R, a)) /\ Cardinality(Lower(S, R, a)) <= N /\ Cardinality(Lower(S, R, a)) # N
    BY <2>1, FS_Subset
  <2>3. Cardinality(Lower(S, R, a)) \in Nat
    BY <2>2, FS_CardinalityType
  <2> QED BY <1>1, <2>2, <2>3
<1>3. ASSUME NEW a \in S, NEW b \in S, <<a, b>> \in R
      PROVE  Cardinality(Lower(S, R, a)) < Cardinality(Lower(S, R, b))
  <2>1. a \in Lower(S, R, b) /\ a \notin Lower(S, R, a)
    BY <1>3 DEF Lower, StrictOrder
  <2>2. Lower(S, R, a) \in SUBSET Lower(S, R, b)
    BY <1>3 DEF Lower, StrictOrder
  <2>3. /\ Cardinality(Lower(S, R, a)) <= Cardinality(Lower(S, R, b))
        /\ Cardinality(Lower(S, R, a)) # Cardinality(Lower(S, R, b))
    BY <1>2, <2>1, <2>2, FS_Subset
  <2> QED BY <1>1, <1>2, <2>3
<1>4. ASSUME NEW a \in S, NEW b \in S, Cardinality(Lower(S, R, a)) = Cardinality(Lower(S, R, b))
      PROVE  a = b
  <2>1. CASE <<a, b>> \in R
    BY <1>2, <1>3, <1>4, <2>1
  <2>2. CASE <<b, a>> \in R
    BY <1>2, <1>3, <1>4, <2>2
  <2> QED BY <2>1, <2>2 DEF StrictOrder
<1>5. rank \in Injection(S, 0..(N - 1))
  BY <1>2, <1>4 DEF Injection, IsInjective
<1>6. IsFiniteSet(0..(N - 1)) /\ Cardinality(0..(N - 1)) = N
  <2>1. 0 \in Int /\ N - 1 \in Int
    BY <1>1
  <2>2. IsFiniteSet(0..(N - 1)) /\ Cardinality(0..(N - 1)) = IF 0 > N - 1 THEN 0 ELSE N - 1 - 0 + 1
    BY <2>1, FS_Interval
  <2> HIDE DEF N
  <2>3. (IF 0 > N - 1 THEN 0 ELSE N - 1 - 0 + 1) = N
    BY <1>1
  <2> QED BY <2>2, <2>3
<1>7. rank \in Surjection(S, 0..(N - 1))
  <2> HIDE DEF rank
  <2> QED BY <1>5, <1>6, FS_Injection
<1>8. \A n \in 0..(N - 1) : \E a \in S : Cardinality(Lower(S, R, a)) = n
  BY <1>7 DEF Surjection
<1> QED BY <1>1, <1>2, <1>4, <1>8

SortKeys == [1..4 -> Int]

LEMMA KeyOrder ==
  ASSUME NEW a \in SortKeys, NEW b \in SortKeys
  PROVE  KeyBefore(a, b) <=>
           \/ a[1] < b[1]
           \/ a[1] = b[1] /\ a[2] < b[2]
           \/ a[1] = b[1] /\ a[2] = b[2] /\ a[3] < b[3]
           \/ a[1] = b[1] /\ a[2] = b[2] /\ a[3] = b[3] /\ a[4] < b[4]
<1>1. KeyBefore(a, b) <=>
        \/ a[1] < b[1] /\ \A j \in 1..(1 - 1) : a[j] = b[j]
        \/ a[2] < b[2] /\ \A j \in 1..(2 - 1) : a[j] = b[j]
        \/ a[3] < b[3] /\ \A j \in 1..(3 - 1) : a[j] = b[j]
        \/ a[4] < b[4] /\ \A j \in 1..(4 - 1) : a[j] = b[j]
  <2>1. \A i : i \in 1..4 <=> i \in {1, 2, 3, 4}
    OBVIOUS
  <2> QED BY <2>1, Zenon DEF KeyBefore
<1>2. /\ \A j : ~(j \in 1..(1 - 1))
      /\ \A j : j \in 1..(2 - 1) <=> j = 1
      /\ \A j : j \in 1..(3 - 1) <=> j \in {1, 2}
      /\ \A j : j \in 1..(4 - 1) <=> j \in {1, 2, 3}
  OBVIOUS
<1>3. /\ (\A j \in 1..(1 - 1) : a[j] = b[j]) <=> TRUE
      /\ (\A j \in 1..(2 - 1) : a[j] = b[j]) <=> a[1] = b[1]
      /\ (\A j \in 1..(3 - 1) : a[j] = b[j]) <=> a[1] = b[1] /\ a[2] = b[2]
      /\ (\A j \in 1..(4 - 1) : a[j] = b[j]) <=> a[1] = b[1] /\ a[2] = b[2] /\ a[3] = b[3]
  BY <1>2, Zenon
<1> QED BY <1>1, <1>3, Zenon

LEMMA KeysAreOrdered ==
  ASSUME NEW a \in SortKeys, NEW b \in SortKeys, NEW c \in SortKeys
  PROVE  /\ ~KeyBefore(a, a)
         /\ KeyBefore(a, b) /\ KeyBefore(b, c) => KeyBefore(a, c)
         /\ a # b => KeyBefore(a, b) \/ KeyBefore(b, a)
<1>1. /\ a[1] \in Int /\ a[2] \in Int /\ a[3] \in Int /\ a[4] \in Int
      /\ b[1] \in Int /\ b[2] \in Int /\ b[3] \in Int /\ b[4] \in Int
      /\ c[1] \in Int /\ c[2] \in Int /\ c[3] \in Int /\ c[4] \in Int
  BY DEF SortKeys
<1>2. ~KeyBefore(a, a)
  BY <1>1, KeyOrder
<1>3. ASSUME KeyBefore(a, b), KeyBefore(b, c)  PROVE KeyBefore(a, c)
  BY <1>1, <1>3, KeyOrder
<1>4. ASSUME a # b  PROVE KeyBefore(a, b) \/ KeyBefore(b, a)
  <2>1. \A i : i \in 1..4 <=> i \in {1, 2, 3, 4}
    OBVIOUS
  <2>4. (\A i \in 1..4 : a[i] = b[i]) => a = b
    BY DEF SortKeys
  <2>2. \E i \in {1, 2, 3, 4} : a[i] # b[i]
    BY <1>4, <2>1, <2>4, Zenon
  <2>3. a[1] # b[1] \/ a[2] # b[2] \/ a[3] # b[3] \/ a[4] # b[4]
    BY <2>2
  <2> QED BY <1>1, <2>3, KeyOrder
<1> QED BY <1>2, <1>3, <1>4

-----------------------------------------------------------------------------
(***************************************************************************)
(* The drafts of a queue.                                                  *)
(***************************************************************************)

\* The inputs are in order.
QueueInputs ==
  /\ prRisks \in Seq(RiskShapes) /\ suppressions \in Seq(Suppressions) /\ overrides \in Seq(Overrides)
  /\ memories \in Seq(Memories) /\ facts \in Seq(Facts)

LEMMA OverrideIsOne ==
  ASSUME QueueInputs, NEW risk, MatchOverride(risk) # {}
  PROVE  \E i \in MatchOverride(risk) : OverrideOf(risk) = overrides[i] /\ overrides[i] \in Overrides
<1>1. MatchOverride(risk) \in SUBSET (1..Len(overrides)) /\ Len(overrides) \in Nat
  BY LenProperties DEF MatchOverride, QueueInputs
<1>2. MatchOverride(risk) \in SUBSET Nat
  BY <1>1
<1>3. PICK m \in MatchOverride(risk) : \A k \in MatchOverride(risk) : ~(k < m)
  BY <1>2, LeastNumber
<1>4. \A k \in MatchOverride(risk) : m <= k
  BY <1>2, <1>3
<1> DEFINE first == CHOOSE i \in MatchOverride(risk) : \A j \in MatchOverride(risk) : i <= j
<1>5. first \in MatchOverride(risk)
  BY <1>4
<1> HIDE DEF first
<1>6. overrides[first] \in Overrides
  BY <1>1, <1>5, ElementOfSeq DEF QueueInputs
<1>7. OverrideOf(risk) = overrides[first]
  BY DEF OverrideOf, first
<1> QED BY <1>5, <1>6, <1>7

LEMMA RiskIsShaped ==
  ASSUME QueueInputs, NEW i \in DOMAIN prRisks
  PROVE  /\ prRisks[i] \in RiskShapes /\ i \in Nat \ {0}
         /\ prRisks[i].paths \in Seq(ReviewFiles) /\ prRisks[i].severity \in Severities
         /\ Anchor(prRisks[i]) \in PathsOf(prRisks[i]) /\ PathsOf(prRisks[i]) \in SUBSET ReviewFiles
<1>1. Len(prRisks) \in Nat /\ DOMAIN prRisks = 1..Len(prRisks)
  BY LenProperties DEF QueueInputs
<1>2. prRisks[i] \in RiskShapes /\ i \in Nat \ {0}
  BY <1>1, ElementOfSeq DEF QueueInputs
<1>3. prRisks[i].paths \in Seq(ReviewFiles) /\ prRisks[i].paths # <<>> /\ prRisks[i].severity \in Severities
  BY <1>2, QueueAssumption
<1>4. ASSUME NEW s \in Seq(ReviewFiles), s # <<>>
      PROVE  1 \in DOMAIN s /\ \A n \in DOMAIN s : s[n] \in ReviewFiles
  BY <1>4
<1>5. 1 \in DOMAIN prRisks[i].paths /\ \A n \in DOMAIN prRisks[i].paths : prRisks[i].paths[n] \in ReviewFiles
  BY <1>3, <1>4
<1> QED BY <1>2, <1>3, <1>5 DEF Anchor, PathsOf

LEMMA RiskPriority ==
  ASSUME QueueInputs, NEW i \in DOMAIN prRisks
  PROVE  PriorityOf(prRisks[i]) \in Priorities
<1>1. PriorityForSeverity(prRisks[i].severity) \in Priorities
  BY RiskIsShaped DEF PriorityForSeverity, Severities, Priorities
<1>2. MatchOverride(prRisks[i]) # {} => OverrideOf(prRisks[i]).priority \in Priorities
  BY OverrideIsOne, QueueAssumption
<1>3. "low" \in Priorities
  BY DEF Priorities
<1> QED BY <1>1, <1>2, <1>3 DEF PriorityOf

\* What every draft of the queue is.
LEMMA DraftKinds ==
  ASSUME NEW d \in QueueDrafts
  PROVE  \/ \E i \in DOMAIN facts : d = FactDraft(i)
         \/ \E i \in DOMAIN prRisks : d = RiskDraft(i)
         \/ \E f \in ChangedFiles : d = FallbackDraft(f)
         \/ \E f \in ChangedFiles : d = FocusDraft(f)
<1>1. d \in Found \cup FocusFloor
  BY DEF QueueDrafts
<1>2. CASE d \in FocusFloor
  <2>1. ASSUME NEW S \in SUBSET ChangedFiles, NEW n, d \in FocusDrafts(S, n)
        PROVE  \E f \in ChangedFiles : d = FocusDraft(f)
    BY <2>1 DEF FocusDrafts
  <2>2. FocusFiles \in SUBSET ChangedFiles
    BY DEF FocusFiles
  <2>3. \E S \in SUBSET ChangedFiles : \E n : d \in FocusDrafts(S, n)
    BY <1>2, <2>2 DEF FocusFloor
  <2> QED BY <2>1, <2>3
<1>3. CASE d \in FallbackDrafts
  BY <1>3 DEF FallbackDrafts
<1> QED BY <1>1, <1>2, <1>3 DEF Found, FactDrafts, RiskDrafts

LEMMA QueueDraftsAreFinite ==
  ASSUME QueueInputs
  PROVE  IsFiniteSet(QueueDrafts)
<1> DEFINE A == {FactDraft(i) : i \in DOMAIN facts}
           B == {RiskDraft(i) : i \in DOMAIN prRisks}
           C == {FallbackDraft(f) : f \in ChangedFiles}
           D == {FocusDraft(f) : f \in ChangedFiles}
           a == [i \in DOMAIN facts |-> FactDraft(i)]
           b == [i \in DOMAIN prRisks |-> RiskDraft(i)]
           c == [f \in ChangedFiles |-> FallbackDraft(f)]
           e == [f \in ChangedFiles |-> FocusDraft(f)]
<1>1. IsFiniteSet(DOMAIN facts) /\ IsFiniteSet(DOMAIN prRisks) /\ IsFiniteSet(ChangedFiles)
  <2>1. /\ Len(facts) \in Nat /\ DOMAIN facts = 1..Len(facts)
        /\ Len(prRisks) \in Nat /\ DOMAIN prRisks = 1..Len(prRisks)
    BY LenProperties DEF QueueInputs
  <2>2. IsFiniteSet(1..Len(facts)) /\ IsFiniteSet(1..Len(prRisks))
    BY <2>1, FS_Interval
  <2> QED BY <2>1, <2>2, QueueAssumption, FS_Subset
<1>2. /\ a \in Surjection(DOMAIN facts, A) /\ b \in Surjection(DOMAIN prRisks, B)
      /\ c \in Surjection(ChangedFiles, C) /\ e \in Surjection(ChangedFiles, D)
  BY DEF Surjection
<1>3. QueueDrafts \in SUBSET (A \cup B \cup C \cup D)
  BY DraftKinds
<1> HIDE DEF A, B, C, D, a, b, c, e
<1>4. IsFiniteSet(A) /\ IsFiniteSet(B) /\ IsFiniteSet(C) /\ IsFiniteSet(D)
  BY <1>1, <1>2, FS_Surjection
<1>5. IsFiniteSet(A \cup B \cup C \cup D)
  BY <1>4, FS_Union
<1> QED BY <1>3, <1>5, FS_Subset

LEMMA DraftsAreTyped ==
  ASSUME QueueInputs, NEW d \in QueueDrafts
  PROVE  /\ d.priority \in Priorities /\ SortKey(d) \in SortKeys
         /\ d.risk # 0 => \E i \in DOMAIN prRisks : d = RiskDraft(i)
<1>1. /\ SpecificityRank(d) \in Int /\ EvidenceTier(d.path) \in Int
  BY DEF SpecificityRank, EvidenceTier, Least, Greatest
<1>2. /\ Len(facts) \in Nat /\ DOMAIN facts = 1..Len(facts)
      /\ Len(prRisks) \in Nat /\ DOMAIN prRisks = 1..Len(prRisks)
  BY LenProperties DEF QueueInputs
<1>3. /\ d.priority \in Priorities /\ d.score \in Int /\ d.at \in Int
      /\ d.risk # 0 => \E i \in DOMAIN prRisks : d = RiskDraft(i)
  <2>1. CASE \E i \in DOMAIN facts : d = FactDraft(i)
    <3>1. PICK i \in DOMAIN facts : d = FactDraft(i)
      BY <2>1
    <3>2. i \in Nat /\ IsFiniteSet(1..(i - 1))
      <4>1. i \in Nat /\ 1 \in Int /\ i - 1 \in Int
        BY <1>2
      <4> QED BY <4>1, FS_Interval
    <3> DEFINE same == {j \in 1..(i - 1) : facts[j].kind = facts[i].kind}
    <3>3. Cardinality(same) \in Int
      <4>1. same \in SUBSET (1..(i - 1))
        OBVIOUS
      <4> HIDE DEF same
      <4>2. IsFiniteSet(same)
        BY <3>2, <4>1, FS_Subset
      <4> QED BY <4>2, FS_CardinalityType
    <3>4. /\ d.priority = FactPriority(facts[i].kind) /\ d.at = i /\ d.risk = 0
          /\ d.score = FactScore(facts[i].kind) - Cardinality(same)
      BY <3>1 DEF FactDraft, QueueDraft
    <3> HIDE DEF same
    <3>5. FactPriority(facts[i].kind) \in Priorities /\ FactScore(facts[i].kind) \in Int
      BY DEF FactPriority, FactScore, Priorities
    <3> QED BY <3>2, <3>3, <3>4, <3>5
  <2>2. CASE \E i \in DOMAIN prRisks : d = RiskDraft(i)
    <3>1. PICK i \in DOMAIN prRisks : d = RiskDraft(i)
      BY <2>2
    <3>2. d.priority = PriorityOf(prRisks[i]) /\ d.at = Len(facts) + i /\ d.score = ScoreOf(prRisks[i])
      BY <3>1 DEF RiskDraft, QueueDraft
    <3>3. ScoreOf(prRisks[i]) \in Int
      <4>1. \A r, b : SeverityWeight(b) \in Int /\ RuleWeight(r) \in Int
        BY DEF SeverityWeight, RuleWeight
      <4> QED BY <4>1 DEF ScoreOf
    <3> QED BY <1>2, <2>2, <3>2, <3>3, RiskPriority
  <2>3. CASE \E f \in ChangedFiles : d = FallbackDraft(f)
    <3>1. PICK f \in ChangedFiles : d = FallbackDraft(f)
      BY <2>3
    <3>2. FileAt(f) \in Int /\ FallbackWeight(f) \in Int
      BY <1>2, QueueAssumption DEF FileAt, FallbackWeight
    <3> QED BY <3>1, <3>2 DEF FallbackDraft, QueueDraft, Priorities
  <2>4. CASE \E f \in ChangedFiles : d = FocusDraft(f)
    <3>1. PICK f \in ChangedFiles : d = FocusDraft(f)
      BY <2>4
    <3>2. FileAt(f) \in Int /\ FocusScore(f) \in Int
      BY <1>2, QueueAssumption DEF FileAt
    <3> QED BY <3>1, <3>2 DEF FocusDraft, QueueDraft, Priorities
  <2> QED BY <2>1, <2>2, <2>3, <2>4, DraftKinds
<1>4. SortKey(d) \in SortKeys
  <2>1. -d.score \in Int
    BY <1>3
  <2>2. \A w, x, y, z \in Int : <<w, x, y, z>> \in [1..4 -> Int]
    OBVIOUS
  <2> QED BY <1>1, <1>3, <2>1, <2>2 DEF SortKey, SortKeys
<1> QED BY <1>3, <1>4

\* The sort key tells the drafts apart.
LEMMA KeysAreDistinct ==
  ASSUME QueueInputs, NEW d \in QueueDrafts, NEW e \in QueueDrafts, SortKey(d) = SortKey(e)
  PROVE  d = e
<1>1. d.at = e.at /\ SpecificityRank(d) = SpecificityRank(e)
  BY DEF SortKey
<1>2. /\ Len(facts) \in Nat /\ DOMAIN facts = 1..Len(facts)
      /\ Len(prRisks) \in Nat /\ DOMAIN prRisks = 1..Len(prRisks)
  BY LenProperties DEF QueueInputs
<1>3. \A i : FactDraft(i).at = i
  BY DEF FactDraft, QueueDraft
<1>4. \A i : RiskDraft(i).at = Len(facts) + i
  BY DEF RiskDraft, QueueDraft
<1>5. \A f : /\ FallbackDraft(f).at = FileAt(f) /\ SpecificityRank(FallbackDraft(f)) = 1
             /\ FocusDraft(f).at = FileAt(f) /\ SpecificityRank(FocusDraft(f)) = 3
  BY DEF FallbackDraft, FocusDraft, QueueDraft, SpecificityRank
<1>6. \A f \in ChangedFiles : FileAt(f) \in Nat /\ FileAt(f) > Len(facts) + Len(prRisks)
  BY <1>2, QueueAssumption DEF FileAt
<1>7. \A f, g \in ChangedFiles : FileAt(f) = FileAt(g) => f = g
  <2>1. SUFFICES ASSUME NEW f \in ChangedFiles, NEW g \in ChangedFiles, FileAt(f) = FileAt(g)  PROVE f = g
    OBVIOUS
  <2>2. f \in ReviewFiles /\ g \in ReviewFiles /\ FileRank(f) \in Nat /\ FileRank(g) \in Nat
    BY QueueAssumption
  <2>3. FileRank(f) = FileRank(g)
    BY <1>2, <2>1, <2>2 DEF FileAt
  <2> QED BY <2>2, <2>3, QueueAssumption
<1>8. CASE \E i \in DOMAIN facts : d = FactDraft(i)
  <2>1. d.at \in 1..Len(facts) /\ d = FactDraft(d.at)
    BY <1>2, <1>3, <1>8
  <2>2. \A i \in DOMAIN prRisks : RiskDraft(i).at # d.at
    BY <1>2, <1>4, <2>1
  <2>3. \A f \in ChangedFiles : FileAt(f) # d.at
    BY <1>2, <1>6, <2>1
  <2>4. \E i \in DOMAIN facts : e = FactDraft(i)
    BY <1>1, <1>5, <2>2, <2>3, DraftKinds
  <2> QED BY <1>1, <1>3, <2>1, <2>4
<1>9. CASE \E i \in DOMAIN prRisks : d = RiskDraft(i)
  <2>1. PICK i \in 1..Len(prRisks) : d = RiskDraft(i)
    BY <1>2, <1>9
  <2>2. d.at = Len(facts) + i
    BY <1>4, <2>1
  <2>3. \A j \in DOMAIN facts : FactDraft(j).at # d.at
    BY <1>2, <1>3, <2>2
  <2>4. \A f \in ChangedFiles : FileAt(f) # d.at
    BY <1>2, <1>6, <2>2
  <2>5. PICK k \in 1..Len(prRisks) : e = RiskDraft(k)
    BY <1>1, <1>2, <1>5, <2>3, <2>4, DraftKinds
  <2>6. i = k
    <3>1. Len(facts) + i = Len(facts) + k
      BY <1>1, <1>4, <2>1, <2>5
    <3> QED BY <1>2, <3>1
  <2> QED BY <2>1, <2>5, <2>6
<1>10. CASE \E f \in ChangedFiles : d \in {FallbackDraft(f), FocusDraft(f)}
  <2>1. PICK f \in ChangedFiles : d \in {FallbackDraft(f), FocusDraft(f)}
    BY <1>10
  <2>2. d.at = FileAt(f)
    BY <1>5, <2>1
  <2>3. \A j \in DOMAIN facts : FactDraft(j).at # d.at
    BY <1>2, <1>3, <1>6, <2>2
  <2>4. \A j \in DOMAIN prRisks : RiskDraft(j).at # d.at
    BY <1>2, <1>4, <1>6, <2>2
  <2>5. PICK g \in ChangedFiles : e \in {FallbackDraft(g), FocusDraft(g)}
    BY <1>1, <2>3, <2>4, DraftKinds
  <2>6. f = g
    <3>1. e.at = FileAt(g)
      BY <1>5, <2>5
    <3> QED BY <1>1, <1>7, <2>2, <3>1
  <2> QED BY <1>1, <1>5, <2>1, <2>5, <2>6
<1> QED BY <1>8, <1>9, <1>10, DraftKinds

\* The ranking holds every draft and nothing else.
LEMMA RankingHoldsDrafts ==
  ASSUME QueueInputs
  PROVE  /\ RankedDrafts \in Seq(QueueDrafts)
         /\ \A d \in QueueDrafts : \E n \in DOMAIN RankedDrafts : RankedDrafts[n] = d
<1> DEFINE entries == {[draft |-> d, key |-> SortKey(d)] : d \in QueueDrafts}
           R == {p \in entries \X entries : KeyBefore(p[1].key, p[2].key)}
           Ahead(e) == {f \in entries : KeyBefore(f.key, e.key)}
           at == [n \in 1..Cardinality(entries) |-> CHOOSE e \in entries : Cardinality(Ahead(e)) = n - 1]
           listed == [n \in 1..Cardinality(entries) |-> at[n].draft]
           entry == [d \in QueueDrafts |-> [draft |-> d, key |-> SortKey(d)]]
<1>1. IsFiniteSet(entries)
  <2>1. entry \in Surjection(QueueDrafts, entries)
    BY DEF Surjection
  <2> HIDE DEF entry, entries
  <2> QED BY <2>1, QueueDraftsAreFinite, FS_Surjection
<1>2. \A e \in entries : e.key \in SortKeys /\ e.draft \in QueueDrafts
  BY DraftsAreTyped
<1>3. \A e, f \in entries : e.key = f.key => e = f
  <2>1. SUFFICES ASSUME NEW e \in entries, NEW f \in entries, e.key = f.key  PROVE e = f
    OBVIOUS
  <2>2. PICK d \in QueueDrafts : e = [draft |-> d, key |-> SortKey(d)]
    OBVIOUS
  <2>3. PICK c \in QueueDrafts : f = [draft |-> c, key |-> SortKey(c)]
    OBVIOUS
  <2>4. SortKey(d) = SortKey(c)
    BY <2>1, <2>2, <2>3
  <2>5. d = c
    BY <2>4, KeysAreDistinct
  <2> QED BY <2>2, <2>3, <2>5
<1>4. \A e, f \in entries : <<e, f>> \in R <=> KeyBefore(e.key, f.key)
  OBVIOUS
<1>5. \A d \in QueueDrafts : [draft |-> d, key |-> SortKey(d)] \in entries
  OBVIOUS
<1>6. RankedDrafts = listed
  BY DEF RankedDrafts
<1> HIDE DEF entries, R, entry
<1>7. StrictOrder(entries, R)
  <2>1. \A e \in entries : <<e, e>> \notin R
    BY <1>2, <1>4, KeysAreOrdered
  <2>2. \A d, e, f \in entries : <<d, e>> \in R /\ <<e, f>> \in R => <<d, f>> \in R
    BY <1>2, <1>4, KeysAreOrdered
  <2>3. \A e, f \in entries : e # f => <<e, f>> \in R \/ <<f, e>> \in R
    BY <1>2, <1>3, <1>4, KeysAreOrdered
  <2> QED BY <2>1, <2>2, <2>3 DEF StrictOrder
<1>8. \A e \in entries : Ahead(e) = Lower(entries, R, e)
  BY <1>4 DEF Lower
<1>9. /\ Cardinality(entries) \in Nat
      /\ \A e \in entries : Cardinality(Ahead(e)) \in 0..(Cardinality(entries) - 1)
      /\ \A e, f \in entries : Cardinality(Ahead(e)) = Cardinality(Ahead(f)) => e = f
      /\ \A n \in 0..(Cardinality(entries) - 1) : \E e \in entries : Cardinality(Ahead(e)) = n
  <2> HIDE DEF Ahead
  <2> QED BY <1>1, <1>7, <1>8, OrderNumbers
<1> HIDE DEF Ahead
<1>10. \A n \in 1..Cardinality(entries) : at[n] \in entries /\ Cardinality(Ahead(at[n])) = n - 1
  <2>1. SUFFICES ASSUME NEW n \in 1..Cardinality(entries)
                 PROVE  at[n] \in entries /\ Cardinality(Ahead(at[n])) = n - 1
    OBVIOUS
  <2>2. n - 1 \in 0..(Cardinality(entries) - 1)
    BY <1>9
  <2>3. \E e \in entries : Cardinality(Ahead(e)) = n - 1
    BY <1>9, <2>2
  <2> QED BY <2>3
<1>11. \A d \in QueueDrafts : \E n \in 1..Cardinality(entries) : at[n].draft = d
  <2>1. SUFFICES ASSUME NEW d \in QueueDrafts  PROVE \E n \in 1..Cardinality(entries) : at[n].draft = d
    OBVIOUS
  <2> DEFINE e == [draft |-> d, key |-> SortKey(d)]
             n == Cardinality(Ahead(e)) + 1
  <2>2. e \in entries /\ e.draft = d
    BY <1>5
  <2> HIDE DEF e
  <2>3. n \in 1..Cardinality(entries) /\ n - 1 = Cardinality(Ahead(e))
    BY <1>9, <2>2
  <2> HIDE DEF n, at
  <2>4. at[n] = e
    BY <1>9, <1>10, <2>2, <2>3
  <2> QED BY <2>2, <2>3, <2>4
<1>12. listed \in [1..Cardinality(entries) -> QueueDrafts]
  <2> HIDE DEF at
  <2> QED BY <1>2, <1>10
<1>13. \A d \in QueueDrafts : \E n \in 1..Cardinality(entries) : listed[n] = d
  <2> HIDE DEF at
  <2> QED BY <1>11
<1> HIDE DEF listed, at
<1> QED BY <1>6, <1>9, <1>12, <1>13

-----------------------------------------------------------------------------
(***************************************************************************)
(* From the queue to the decisions.                                        *)
(***************************************************************************)

\* What the decisions need of the ranked items: one for each risk, at its anchor.
RanksEveryRisk ==
  /\ \A i \in DOMAIN prRisks :
       \E n \in DOMAIN ranked : ranked[n].risk = i /\ ranked[n].path = Anchor(prRisks[i])
  /\ \A n \in DOMAIN ranked : ranked[n].priority \in Priorities

LEMMA DemotedForAReason ==
  ASSUME QueueInputs, NEW i \in DOMAIN prRisks, prRisks[i].severity # "low",
         PriorityOf(prRisks[i]) = "low"
  PROVE  LET ForIt(s) == s.rule = prRisks[i].rule /\ Anchor(prRisks[i]) \in s.paths
         IN \/ \E k \in DOMAIN suppressions :
                 /\ ForIt(suppressions[k]) /\ suppressions[k].current
                 /\ \A j \in 1..(k - 1) : ~ForIt(suppressions[j])
            \/ \E k \in DOMAIN overrides : ForIt(overrides[k]) /\ overrides[k].priority = "low"
            \/ \E k \in DOMAIN memories :
                 memories[k].rule = prRisks[i].rule /\ PathsOf(prRisks[i]) \subseteq memories[k].paths
<1> DEFINE risk == prRisks[i]
           ForIt(s) == s.rule = risk.rule /\ Anchor(risk) \in s.paths
<1>1. ASSUME Suppressed(risk)
      PROVE  \E k \in DOMAIN suppressions :
               /\ ForIt(suppressions[k]) /\ suppressions[k].current
               /\ \A j \in 1..(k - 1) : ~ForIt(suppressions[j])
  <2>1. PICK k \in MatchSuppression(risk) :
               suppressions[k].current /\ \A j \in MatchSuppression(risk) : k <= j
    BY <1>1 DEF Suppressed
  <2>2. Len(suppressions) \in Nat /\ DOMAIN suppressions = 1..Len(suppressions)
    BY LenProperties DEF QueueInputs
  <2>3. k \in DOMAIN suppressions /\ ForIt(suppressions[k])
    BY <2>1 DEF MatchSuppression
  <2>4. \A j \in 1..(k - 1) : j \in DOMAIN suppressions /\ ~(k <= j)
    BY <2>2, <2>3
  <2>5. \A j \in 1..(k - 1) : ~ForIt(suppressions[j])
    BY <2>1, <2>4 DEF MatchSuppression
  <2> QED BY <2>1, <2>3, <2>5
<1>2. ASSUME MatchOverride(risk) # {}, OverrideOf(risk).priority = "low"
      PROVE  \E k \in DOMAIN overrides : ForIt(overrides[k]) /\ overrides[k].priority = "low"
  <2>1. PICK k \in MatchOverride(risk) : OverrideOf(risk) = overrides[k]
    BY <1>2, OverrideIsOne
  <2> QED BY <1>2, <2>1 DEF MatchOverride
<1>3. ASSUME DowngradedByFeedback(risk)
      PROVE  \E k \in DOMAIN memories :
               memories[k].rule = risk.rule /\ PathsOf(risk) \subseteq memories[k].paths
  BY <1>3 DEF DowngradedByFeedback, EffectApplies
<1>4. PriorityForSeverity(risk.severity) # "low"
  BY DEF PriorityForSeverity
<1>5. Suppressed(risk) \/ (MatchOverride(risk) # {} /\ OverrideOf(risk).priority = "low")
        \/ DowngradedByFeedback(risk)
  BY <1>4 DEF PriorityOf
<1> QED BY <1>1, <1>2, <1>3, <1>5

\* A finding keeps every risk of its root and the strongest of their priorities.
LEMMA FindingFor ==
  ASSUME NEW v, NEW x \in FindingDrafts(v), \A d \in FindingDrafts(v) : d.priority \in Priorities
  PROVE  \E f \in Findings(v) : /\ x.risk # 0 => x.risk \in f.risks
                                /\ x.priority = "blocker" => f.priority = "blocker"
<1> DEFINE Of(root) == {d \in FindingDrafts(v) : d.root = root}
           Top(root) == CHOOSE p \in {d.priority : d \in Of(root)} :
                          \A d \in Of(root) : PriorityRank(p) <= PriorityRank(d.priority)
           f == [root |-> x.root, priority |-> Top(x.root), risks |-> {d.risk : d \in Of(x.root)} \ {0}]
<1>1. f \in Findings(v)
  BY DEF Findings
<1>2. x \in Of(x.root)
  OBVIOUS
<1>3. x.risk # 0 => x.risk \in f.risks
  BY <1>2
<1>4. ASSUME x.priority = "blocker"  PROVE f.priority = "blocker"
  <2>1. \A p \in Priorities : 1 <= PriorityRank(p) /\ (PriorityRank(p) <= 1 => p = "blocker")
    BY DEF Priorities, PriorityRank
  <2>2. PriorityRank("blocker") = 1
    BY DEF PriorityRank
  <2>3. "blocker" \in {d.priority : d \in Of(x.root)}
    BY <1>2, <1>4
  <2>4. \A d \in Of(x.root) : PriorityRank("blocker") <= PriorityRank(d.priority)
    BY <2>1, <2>2
  <2>5. /\ Top(x.root) \in {d.priority : d \in Of(x.root)}
        /\ \A d \in Of(x.root) : PriorityRank(Top(x.root)) <= PriorityRank(d.priority)
    BY <2>3, <2>4
  <2>6. Top(x.root) \in Priorities
    BY <2>5
  <2> HIDE DEF Top
  <2>7. PriorityRank(Top(x.root)) <= 1
    BY <1>2, <1>4, <2>2, <2>5
  <2> QED BY <2>1, <2>6, <2>7
<1> QED BY <1>1, <1>3, <1>4

LEMMA DraftPriorities ==
  ASSUME RanksEveryRisk, NEW v, NEW d \in FindingDrafts(v)
  PROVE  d.priority \in Priorities
<1>1. CASE d \in {[root |-> BlockerRoot(i), priority |-> "blocker", risk |-> i] : i \in BlockingRisks}
  BY <1>1 DEF Priorities
<1>2. CASE d = [root |-> <<"test_integrity", "none">>, priority |-> "blocker", risk |-> 0]
  BY <1>2 DEF Priorities
<1>3. CASE d \in {[root |-> QueueRoot(ranked[i]), priority |-> ranked[i].priority, risk |-> ranked[i].risk] :
                    i \in {j \in DOMAIN ranked : QueueRoot(ranked[j]) # NoRoot}}
  BY <1>3 DEF RanksEveryRisk
<1> QED BY <1>1, <1>2, <1>3 DEF FindingDrafts

\* What DecisionsSurvive says of risk i.
MustBlock(i) ==
  /\ PathsOf(prRisks[i]) \cap ChangedFiles # {}
  /\ \/ prRisks[i].rule = "coverage_regression"
     \/ prRisks[i].severity = "critical" /\ HasRoot(prRisks[i])
Decides(i) ==
  /\ Anchor(prRisks[i]) \in ChangedFiles
  /\ RootForRisk(prRisks[i].rule, Anchor(prRisks[i])) # NoRoot
  /\ ~FactOn("additiveSchema", Anchor(prRisks[i]))

LEMMA BlockersSurvive ==
  ASSUME QueueInputs, RanksEveryRisk, NEW i \in DOMAIN prRisks, MustBlock(i), NEW v, NEW missing
  PROVE  /\ ReviewVerdict(v, missing, Findings(v)) = "block_before_merge"
         /\ \E f \in Findings(v) : i \in f.risks /\ f.priority = "blocker"
<1>1. i \in BlockingRisks
  BY DEF BlockingRisks, IsBlocking, IsScoped, MustBlock
<1>2. PICK x \in FindingDrafts(v) : x = [root |-> BlockerRoot(i), priority |-> "blocker", risk |-> i]
  BY <1>1 DEF FindingDrafts
<1>3. x.risk = i /\ x.priority = "blocker" /\ i # 0
  BY <1>2, RiskIsShaped
<1>4. \E f \in Findings(v) : i \in f.risks /\ f.priority = "blocker"
  <2>1. \A d \in FindingDrafts(v) : d.priority \in Priorities
    BY DraftPriorities
  <2>2. PICK f \in Findings(v) : /\ x.risk # 0 => x.risk \in f.risks
                                 /\ x.priority = "blocker" => f.priority = "blocker"
    BY <2>1, FindingFor
  <2> QED BY <1>3, <2>2
<1> QED BY <1>1, <1>4 DEF ReviewVerdict

LEMMA DecisionsAreFound ==
  ASSUME QueueInputs, RanksEveryRisk, NEW i \in DOMAIN prRisks, Decides(i), NEW v
  PROVE  \E f \in Findings(v) : i \in f.risks
<1>1. PICK n \in DOMAIN ranked : ranked[n].risk = i /\ ranked[n].path = Anchor(prRisks[i])
  BY DEF RanksEveryRisk
<1>2. i # 0
  BY RiskIsShaped
<1> DEFINE item == ranked[n]
           risk == prRisks[i]
<1>3. QueueRoot(item) # NoRoot
  <2>1. SchemaDisposition(item.path) # "additive"
    BY <1>1 DEF SchemaDisposition, Decides
  <2>2. item.path \in ChangedFiles /\ RootForRisk(risk.rule, item.path) # NoRoot
    BY <1>1 DEF Decides
  <2>3. /\ <<"test_validation_area", FileArea(item.path)>> # NoRoot
        /\ <<"public_contract", item.path>> # NoRoot
    BY DEF NoRoot
  <2> QED BY <1>1, <1>2, <2>1, <2>2, <2>3 DEF QueueRoot
<1>4. PICK x \in FindingDrafts(v) :
        x = [root |-> QueueRoot(ranked[n]), priority |-> ranked[n].priority, risk |-> ranked[n].risk]
  BY <1>3 DEF FindingDrafts
<1>5. x.risk = i
  BY <1>1, <1>4
<1>6. \A d \in FindingDrafts(v) : d.priority \in Priorities
  BY DraftPriorities
<1>7. PICK f \in Findings(v) : x.risk # 0 => x.risk \in f.risks
  BY <1>6, FindingFor
<1> QED BY <1>2, <1>5, <1>7

-----------------------------------------------------------------------------
(***************************************************************************)
(* The plan of a budget: what holds of it after k items.                   *)
(***************************************************************************)
Placed(f, n, minutes) ==
  f = [k \in 0..n |-> IF k = 0 THEN EmptyPlan ELSE PlaceItem(f[k - 1], k, minutes)]

\* The items are placed one after the other, however many there are.
LEMMA PlacingExists ==
  ASSUME NEW n \in Nat, NEW minutes
  PROVE  \E f : Placed(f, n, minutes)
<1> DEFINE Bad == {m \in Nat : ~\E f : Placed(f, m, minutes)}
<1>1. SUFFICES ASSUME Bad # {}  PROVE FALSE
  OBVIOUS
<1>2. PICK m \in Bad : \A k \in Bad : ~(k < m)
  <2>1. Bad \in SUBSET Nat
    OBVIOUS
  <2> HIDE DEF Bad
  <2> QED BY <1>1, <2>1, LeastNumber
<1>3. CASE m = 0
  <2> DEFINE f == [k \in 0..0 |-> EmptyPlan]
  <2>1. Placed(f, 0, minutes)
    BY DEF Placed
  <2> QED BY <1>2, <1>3, <2>1
<1>4. CASE m # 0
  <2>1. m \in Nat \ {0} /\ m - 1 \in Nat /\ m - 1 < m
    BY <1>2, <1>4
  <2>2. m - 1 \notin Bad
    BY <1>2, <2>1
  <2>3. PICK f : Placed(f, m - 1, minutes)
    BY <2>1, <2>2
  <2> DEFINE g == [k \in 0..m |-> IF k = m THEN PlaceItem(f[m - 1], m, minutes) ELSE f[k]]
             h == [k \in 0..m |-> IF k = 0 THEN EmptyPlan ELSE PlaceItem(g[k - 1], k, minutes)]
  <2>4. \A k \in 0..(m - 1) : f[k] = IF k = 0 THEN EmptyPlan ELSE PlaceItem(f[k - 1], k, minutes)
    BY <2>3 DEF Placed
  <2>5. \A k \in 0..m : k # m => k \in 0..(m - 1) /\ (k # 0 => k - 1 \in 0..m /\ k - 1 # m)
    BY <2>1
  <2>6. \A k \in 0..m : k # m => g[k] = f[k]
    OBVIOUS
  <2>7. g[m] = PlaceItem(f[m - 1], m, minutes) /\ g[m - 1] = f[m - 1]
    BY <2>1
  <2> HIDE DEF g
  <2>8. \A k \in 0..m : h[k] = g[k]
    <3>1. SUFFICES ASSUME NEW k \in 0..m  PROVE h[k] = g[k]
      OBVIOUS
    <3>2. CASE k = m
      BY <2>1, <2>7, <3>2
    <3>3. CASE k # m
      BY <2>4, <2>5, <2>6, <3>3
    <3> QED BY <3>2, <3>3
  <2>9. g = h
    BY <2>8 DEF g
  <2>10. Placed(g, m, minutes)
    BY <2>9 DEF Placed
  <2> QED BY <1>2, <2>10
<1> QED BY <1>3, <1>4

LEMMA PlanIsPlaced ==
  ASSUME Len(Queue) \in Nat, NEW minutes
  PROVE  \E f : Placed(f, Len(Queue), minutes) /\ BuildPlan(minutes) = f[Len(Queue)]
<1> DEFINE placed == CHOOSE f : Placed(f, Len(Queue), minutes)
<1>1. Placed(placed, Len(Queue), minutes)
  BY PlacingExists
<1>2. BuildPlan(minutes) = placed[Len(Queue)]
  BY DEF BuildPlan, Placed
<1> HIDE DEF placed
<1> QED BY <1>1, <1>2

-----------------------------------------------------------------------------
\* The minutes an item takes, and those of several items.
MinutesFor(i, cost) == {<<i, n>> : n \in 1..cost}
Counted(list) == {list[n] : n \in {m \in DOMAIN list : Queue[list[m]].priority # "blocker"}}
Spending(R, S) ==
  LET reading == UNION {MinutesFor(i, EstimateMinutes(Queue[i])) : i \in R}
      skimming == UNION {MinutesFor(i, SkimMinutes(EstimateMinutes(Queue[i]))) : i \in S}
  IN reading \cup skimming

LEMMA MinutesAreSpent ==
  ASSUME NEW p
  PROVE  MinutesOf(p) = Cardinality(Spending(Counted(p.read), Counted(p.skim)))
<1> DEFINE reading == UNION {{<<i, n>> : n \in 1..EstimateMinutes(Queue[i])} : i \in Counted(p.read)}
           skimming == UNION {{<<i, n>> : n \in 1..SkimMinutes(EstimateMinutes(Queue[i]))} :
                                i \in Counted(p.skim)}
<1>1. MinutesOf(p) = Cardinality(reading \cup skimming)
  BY Zenon DEF MinutesOf, Counted
<1>2. Spending(Counted(p.read), Counted(p.skim)) = reading \cup skimming
  <2> DEFINE A == {MinutesFor(i, EstimateMinutes(Queue[i])) : i \in Counted(p.read)}
             B == {MinutesFor(i, SkimMinutes(EstimateMinutes(Queue[i]))) : i \in Counted(p.skim)}
  <2>1. Spending(Counted(p.read), Counted(p.skim)) = (UNION A) \cup UNION B
    BY Zenon DEF Spending
  <2>2. /\ A = {{<<i, n>> : n \in 1..EstimateMinutes(Queue[i])} : i \in Counted(p.read)}
        /\ B = {{<<i, n>> : n \in 1..SkimMinutes(EstimateMinutes(Queue[i]))} : i \in Counted(p.skim)}
    BY Zenon DEF MinutesFor
  <2> QED BY <2>1, <2>2, Zenon
<1> QED BY <1>1, <1>2

LEMMA InSpending ==
  ASSUME NEW R, NEW S, NEW x
  PROVE  x \in Spending(R, S) <=>
           \/ \E i \in R : x \in MinutesFor(i, EstimateMinutes(Queue[i]))
           \/ \E i \in S : x \in MinutesFor(i, SkimMinutes(EstimateMinutes(Queue[i])))
<1> DEFINE A == {MinutesFor(i, EstimateMinutes(Queue[i])) : i \in R}
           B == {MinutesFor(i, SkimMinutes(EstimateMinutes(Queue[i]))) : i \in S}
<1>1. Spending(R, S) = (UNION A) \cup UNION B
  BY Zenon DEF Spending
<1>2. /\ (\E a \in A : x \in a) <=> \E i \in R : x \in MinutesFor(i, EstimateMinutes(Queue[i]))
      /\ (\E a \in B : x \in a) <=> \E i \in S : x \in MinutesFor(i, SkimMinutes(EstimateMinutes(Queue[i])))
  OBVIOUS
<1> HIDE DEF A, B
<1>3. x \in Spending(R, S) <=> (\E a \in A : x \in a) \/ \E a \in B : x \in a
  BY <1>1
<1> QED BY <1>2, <1>3

LEMMA SlotsCount ==
  ASSUME NEW i, NEW cost \in Nat
  PROVE  IsFiniteSet(MinutesFor(i, cost)) /\ Cardinality(MinutesFor(i, cost)) = cost
<1> DEFINE f == [n \in 1..cost |-> <<i, n>>]
<1>1. f \in Bijection(1..cost, MinutesFor(i, cost))
  BY DEF Bijection, Injection, Surjection, IsInjective, MinutesFor
<1>2. IsFiniteSet(1..cost) /\ Cardinality(1..cost) = cost
  <2>1. 1 \in Int /\ cost \in Int
    OBVIOUS
  <2>2. IsFiniteSet(1..cost) /\ Cardinality(1..cost) = IF 1 > cost THEN 0 ELSE cost - 1 + 1
    BY <2>1, FS_Interval
  <2>3. (IF 1 > cost THEN 0 ELSE cost - 1 + 1) = cost
    OBVIOUS
  <2> QED BY <2>2, <2>3
<1>3. ExistsBijection(1..cost, MinutesFor(i, cost))
  BY <1>1 DEF ExistsBijection
<1> QED BY <1>2, <1>3, FS_Bijection

\* An item that was not counted adds its minutes.
LEMMA SpendingAdds ==
  ASSUME NEW R, NEW S, IsFiniteSet(Spending(R, S)), NEW i, i \notin R \cup S,
         NEW cost \in Nat, NEW T, T = Spending(R, S) \cup MinutesFor(i, cost)
  PROVE  IsFiniteSet(T) /\ Cardinality(T) = Cardinality(Spending(R, S)) + cost
<1>1. Spending(R, S) \cap MinutesFor(i, cost) = {}
  <2>0. \A j, c : \A x \in MinutesFor(j, c) : x[1] = j
    BY DEF MinutesFor
  <2>1. \A x \in Spending(R, S) : x[1] \in R \cup S
    BY <2>0, InSpending
  <2> QED BY <2>0, <2>1
<1>2. IsFiniteSet(MinutesFor(i, cost)) /\ Cardinality(MinutesFor(i, cost)) = cost
  BY SlotsCount
<1>3. /\ IsFiniteSet(T)
      /\ Cardinality(T) = Cardinality(Spending(R, S)) + Cardinality(MinutesFor(i, cost))
                          - Cardinality(Spending(R, S) \cap MinutesFor(i, cost))
  BY <1>2, FS_Union
<1>4. Cardinality(Spending(R, S) \cap MinutesFor(i, cost)) = 0 /\ Cardinality(Spending(R, S)) \in Nat
  BY <1>1, FS_EmptySet, FS_CardinalityType
<1> QED BY <1>2, <1>3, <1>4

AddsTo(U, R, i) == \A j : j \in U <=> j \in R \/ j = i

LEMMA SpendingWithout ==
  ASSUME NEW R, NEW S, NEW i, NEW U, NEW V,
         AddsTo(U, R, i) /\ AddsTo(V, S, i)
  PROVE  /\ Spending(U, S) = Spending(R, S) \cup MinutesFor(i, EstimateMinutes(Queue[i]))
         /\ Spending(R, V) = Spending(R, S) \cup MinutesFor(i, SkimMinutes(EstimateMinutes(Queue[i])))
<1> DEFINE cost == EstimateMinutes(Queue[i])
           skim == SkimMinutes(EstimateMinutes(Queue[i]))
<1>1. \A x : /\ x \in Spending(U, S) <=> x \in Spending(R, S) \cup MinutesFor(i, cost)
             /\ x \in Spending(R, V) <=> x \in Spending(R, S) \cup MinutesFor(i, skim)
  <2>1. SUFFICES ASSUME NEW x
                 PROVE  /\ x \in Spending(U, S) <=> x \in Spending(R, S) \cup MinutesFor(i, cost)
                        /\ x \in Spending(R, V) <=> x \in Spending(R, S) \cup MinutesFor(i, skim)
    OBVIOUS
  <2> DEFINE InR(j) == x \in MinutesFor(j, EstimateMinutes(Queue[j]))
             InS(j) == x \in MinutesFor(j, SkimMinutes(EstimateMinutes(Queue[j])))
  <2>2. /\ x \in Spending(R, S) <=> (\E j \in R : InR(j)) \/ \E j \in S : InS(j)
        /\ x \in Spending(U, S) <=> (\E j \in U : InR(j)) \/ \E j \in S : InS(j)
        /\ x \in Spending(R, V) <=> (\E j \in R : InR(j)) \/ \E j \in V : InS(j)
    BY InSpending
  <2>3. /\ (\E j \in U : InR(j)) <=> (\E j \in R : InR(j)) \/ InR(i)
        /\ (\E j \in V : InS(j)) <=> (\E j \in S : InS(j)) \/ InS(i)
    BY DEF AddsTo
  <2> QED BY <2>2, <2>3
<1> HIDE DEF cost, skim
<1>2. /\ Spending(U, S) = Spending(R, S) \cup MinutesFor(i, cost)
      /\ Spending(R, V) = Spending(R, S) \cup MinutesFor(i, skim)
  BY <1>1
<1> QED BY <1>2 DEF cost, skim

LEMMA CountedAppend ==
  ASSUME NEW k \in Nat \ {0}, NEW list \in Seq(1..(k - 1))
  PROVE  /\ Counted(list) \in SUBSET (1..(k - 1))
         /\ Counted(Append(list, k)) =
              IF Queue[k].priority = "blocker" THEN Counted(list) ELSE Counted(list) \cup {k}
<1> DEFINE longer == Append(list, k)
<1>1. /\ Len(list) \in Nat /\ DOMAIN list = 1..Len(list)
      /\ DOMAIN longer = 1..(Len(list) + 1)
      /\ \A n \in 1..Len(list) : longer[n] = list[n]
      /\ longer[Len(list) + 1] = k
  OBVIOUS
<1> HIDE DEF longer
<1>2. Counted(list) \in SUBSET (1..(k - 1))
  <2>1. \A n \in DOMAIN list : list[n] \in 1..(k - 1)
    OBVIOUS
  <2> QED BY <2>1 DEF Counted
<1>3. \A n : n \in DOMAIN longer <=> n \in DOMAIN list \/ n = Len(list) + 1
  BY <1>1
<1>4. \A x : x \in Counted(longer) <=>
        x \in Counted(list) \/ (x = k /\ Queue[k].priority # "blocker")
  BY <1>1, <1>3 DEF Counted
<1>5. CASE Queue[k].priority = "blocker"
  <2>1. Counted(longer) = Counted(list)
    BY <1>4, <1>5
  <2> QED BY <1>2, <1>5, <2>1 DEF longer
<1>6. CASE Queue[k].priority # "blocker"
  <2>1. Counted(longer) = Counted(list) \cup {k}
    BY <1>4, <1>6
  <2> QED BY <1>2, <1>6, <2>1 DEF longer
<1> QED BY <1>5, <1>6

LEMMA CostsAreNatural ==
  ASSUME NEW item
  PROVE  /\ EstimateMinutes(item) \in Nat \ {0}
         /\ SkimMinutes(EstimateMinutes(item)) \in Nat \ {0}
<1>1. \A a \in Int : a \div 80 \in Int /\ a \div 10 \in Int
  OBVIOUS
<1>2. \A a \in Int : Greatest(1, a) \in Nat \ {0}
  BY DEF Greatest
<1>3. \A c \in Int : SkimMinutes(c) \in Nat \ {0}
  BY <1>1, <1>2 DEF SkimMinutes
<1>4. EstimateMinutes(item) \in Nat \ {0}
  <2> DEFINE quarters == CASE item.priority \in {"blocker", "high"} -> 6
                           [] item.priority = "medium" -> 4 [] OTHER -> 3
             lines == IF item.path \in ChangedFiles THEN LinesChanged(item.path) ELSE 0
  <2>1. quarters \in {3, 4, 6} /\ lines \in Int
    BY QueueAssumption
  <2>2. EstimateMinutes(item) = Greatest(1, (2 * (20 + lines) * quarters + 40) \div 80)
    BY DEF EstimateMinutes
  <2> HIDE DEF quarters, lines
  <2>3. 2 * (20 + lines) * quarters + 40 \in Int
    BY <2>1
  <2> QED BY <1>1, <1>2, <2>2, <2>3
<1> QED BY <1>3, <1>4

\* After k items: each is in one list, a blocker is read, the minutes are those of the
\* others and within the budget unless the first of them began beyond it, and what is
\* deferred does not fit.
PlanShape(k) == [read : Seq(1..k), skim : Seq(1..k), defer : Seq(1..k), spent : Nat]

Among(i, list) == \E n \in DOMAIN list : list[n] = i
Holds(p, i) == Among(i, p.read) \/ Among(i, p.skim) \/ Among(i, p.defer)

BeginsBeyond(p, minutes) ==
  /\ p.read # <<>> /\ Queue[p.read[1]].priority # "blocker"
  /\ 10 * EstimateMinutes(Queue[p.read[1]]) > 7 * minutes

PlacedWell(p, k, minutes) ==
  /\ p \in PlanShape(k)
  /\ Len(p.read) + Len(p.skim) + Len(p.defer) = k
  /\ \A i \in 1..k : Holds(p, i)
  /\ \A i \in 1..k : Queue[i].priority = "blocker" => \E n \in DOMAIN p.read : p.read[n] = i
  /\ LET taken == Spending(Counted(p.read), Counted(p.skim))
     IN IsFiniteSet(taken) /\ Cardinality(taken) = p.spent
  /\ p.read = <<>> => k = 0
  /\ k = 0 => p.spent = 0
  /\ BeginsBeyond(p, minutes) \/ p.spent <= minutes
  /\ \A n \in DOMAIN p.defer : p.spent + SkimMinutes(EstimateMinutes(Queue[p.defer[n]])) > minutes

LEMMA AppendHolds ==
  ASSUME NEW k \in Nat \ {0}, NEW list \in Seq(1..(k - 1))
  PROVE  /\ Append(list, k) \in Seq(1..k) /\ list \in Seq(1..k)
         /\ Len(list) \in Nat /\ DOMAIN list = 1..Len(list)
         /\ Len(Append(list, k)) = Len(list) + 1
         /\ DOMAIN Append(list, k) = 1..(Len(list) + 1)
         /\ Append(list, k) # <<>>
         /\ \A n \in DOMAIN list : Append(list, k)[n] = list[n] /\ n \in DOMAIN Append(list, k)
         /\ Append(list, k)[Len(list) + 1] = k
         /\ list # <<>> => Append(list, k)[1] = list[1]
<1>1. Append(list, k) \in Seq(1..k) /\ list \in Seq(1..k)
  <2>1. \A n : n \in 1..(k - 1) => n \in 1..k
    OBVIOUS
  <2>2. list \in Seq(1..k) /\ k \in 1..k
    BY <2>1
  <2> HIDE <2>1
  <2> QED BY <2>2, AppendProperties
<1>2. /\ Len(list) \in Nat /\ DOMAIN list = 1..Len(list)
      /\ Len(Append(list, k)) = Len(list) + 1
      /\ DOMAIN Append(list, k) = 1..(Len(list) + 1)
      /\ Append(list, k) # <<>>
      /\ Append(list, k)[Len(list) + 1] = k
      /\ \A n \in 1..Len(list) : Append(list, k)[n] = list[n]
  OBVIOUS
<1>3. list # <<>> => 1 \in DOMAIN list
  OBVIOUS
<1>4. \A n : n \in 1..Len(list) => n \in 1..(Len(list) + 1)
  BY <1>2
<1> QED BY <1>1, <1>2, <1>3, <1>4

\* What holds of the lists when item k is appended to one of them.
LEMMA ListsGrow ==
  ASSUME NEW k \in Nat \ {0}, NEW p \in PlanShape(k - 1), NEW q \in PlanShape(k),
         \/ q.read = Append(p.read, k) /\ q.skim = p.skim /\ q.defer = p.defer
         \/ q.read = p.read /\ q.skim = Append(p.skim, k) /\ q.defer = p.defer
         \/ q.read = p.read /\ q.skim = p.skim /\ q.defer = Append(p.defer, k),
         Len(p.read) + Len(p.skim) + Len(p.defer) = k - 1,
         \A i \in 1..(k - 1) : Holds(p, i)
  PROVE  /\ Len(q.read) + Len(q.skim) + Len(q.defer) = k
         /\ \A i \in 1..k : Holds(q, i)
         /\ \A i : Among(i, p.read) => Among(i, q.read)
         /\ p.read # <<>> => q.read # <<>> /\ q.read[1] = p.read[1]
<1>1. /\ p.read \in Seq(1..(k - 1)) /\ p.skim \in Seq(1..(k - 1)) /\ p.defer \in Seq(1..(k - 1))
  BY DEF PlanShape
<1>2. Len(p.read) \in Nat /\ Len(p.skim) \in Nat /\ Len(p.defer) \in Nat
  BY <1>1, AppendHolds
<1>3. Len(q.read) + Len(q.skim) + Len(q.defer) = k
  <2>1. /\ Len(Append(p.read, k)) = Len(p.read) + 1 /\ Len(Append(p.skim, k)) = Len(p.skim) + 1
        /\ Len(Append(p.defer, k)) = Len(p.defer) + 1
    BY <1>1, AppendHolds
  <2>2. \/ Len(q.read) = Len(p.read) + 1 /\ Len(q.skim) = Len(p.skim) /\ Len(q.defer) = Len(p.defer)
        \/ Len(q.read) = Len(p.read) /\ Len(q.skim) = Len(p.skim) + 1 /\ Len(q.defer) = Len(p.defer)
        \/ Len(q.read) = Len(p.read) /\ Len(q.skim) = Len(p.skim) /\ Len(q.defer) = Len(p.defer) + 1
    BY <2>1
  <2>3. PICK a \in Nat, b \in Nat, c \in Nat : a = Len(p.read) /\ b = Len(p.skim) /\ c = Len(p.defer)
    BY <1>2
  <2>4. a + b + c = k - 1
    BY <2>3
  <2>5. (a + 1) + b + c = k /\ a + (b + 1) + c = k /\ a + b + (c + 1) = k
    BY <2>4
  <2> QED BY <2>2, <2>3, <2>5
<1>4. \A list \in Seq(1..(k - 1)) :
        /\ \A i : Among(i, list) => Among(i, Append(list, k))
        /\ Among(k, Append(list, k))
        /\ list # <<>> => Append(list, k) # <<>> /\ Append(list, k)[1] = list[1]
  <2>1. SUFFICES ASSUME NEW list \in Seq(1..(k - 1))
                 PROVE  /\ \A i : Among(i, list) => Among(i, Append(list, k))
                        /\ Among(k, Append(list, k))
                        /\ list # <<>> => Append(list, k) # <<>> /\ Append(list, k)[1] = list[1]
    OBVIOUS
  <2>2. Len(list) \in Nat /\ Len(list) + 1 \in 1..(Len(list) + 1)
    BY AppendHolds
  <2> DEFINE longer == Append(list, k)
  <2>3. /\ DOMAIN longer = 1..(Len(list) + 1) /\ longer # <<>> /\ longer[Len(list) + 1] = k
        /\ \A n \in DOMAIN list : longer[n] = list[n] /\ n \in DOMAIN longer
        /\ list # <<>> => longer[1] = list[1]
    BY AppendHolds
  <2> HIDE DEF longer
  <2>4. /\ \A i : Among(i, list) => Among(i, longer)
        /\ Among(k, longer)
        /\ list # <<>> => longer # <<>> /\ longer[1] = list[1]
    BY <2>2, <2>3 DEF Among
  <2> QED BY <2>4 DEF longer
<1>5. \A i : i \in 1..k => i \in 1..(k - 1) \/ i = k
  OBVIOUS
<1>6. CASE q.read = Append(p.read, k) /\ q.skim = p.skim /\ q.defer = p.defer
  <2>1. /\ \A i : Among(i, p.read) => Among(i, q.read)
        /\ Among(k, q.read) /\ (p.read # <<>> => q.read # <<>> /\ q.read[1] = p.read[1])
    <3>1. /\ \A i : Among(i, p.read) => Among(i, Append(p.read, k))
          /\ Among(k, Append(p.read, k))
          /\ p.read # <<>> => Append(p.read, k) # <<>> /\ Append(p.read, k)[1] = p.read[1]
      BY <1>1, <1>4
    <3> QED BY <1>6, <3>1
  <2>2. \A i \in 1..k : Holds(q, i)
    BY <1>5, <1>6, <2>1 DEF Holds
  <2> QED BY <1>3, <2>1, <2>2
<1>7. CASE q.read = p.read /\ q.skim = Append(p.skim, k) /\ q.defer = p.defer
  <2>1. (\A i : Among(i, p.skim) => Among(i, q.skim)) /\ Among(k, q.skim)
    <3>1. (\A i : Among(i, p.skim) => Among(i, Append(p.skim, k))) /\ Among(k, Append(p.skim, k))
      BY <1>1, <1>4
    <3> QED BY <1>7, <3>1
  <2>2. \A i \in 1..k : Holds(q, i)
    BY <1>5, <1>7, <2>1 DEF Holds
  <2> QED BY <1>3, <1>7, <2>2
<1>8. CASE q.read = p.read /\ q.skim = p.skim /\ q.defer = Append(p.defer, k)
  <2>1. (\A i : Among(i, p.defer) => Among(i, q.defer)) /\ Among(k, q.defer)
    <3>1. (\A i : Among(i, p.defer) => Among(i, Append(p.defer, k))) /\ Among(k, Append(p.defer, k))
      BY <1>1, <1>4
    <3> QED BY <1>8, <3>1
  <2>2. \A i \in 1..k : Holds(q, i)
    BY <1>5, <1>8, <2>1 DEF Holds
  <2> QED BY <1>3, <1>8, <2>2
<1> QED BY <1>6, <1>7, <1>8

LEMMA PlaceStep ==
  ASSUME NEW k \in Nat \ {0}, NEW minutes \in Nat, NEW p, PlacedWell(p, k - 1, minutes)
  PROVE  PlacedWell(PlaceItem(p, k, minutes), k, minutes)
<1> DEFINE q == PlaceItem(p, k, minutes)
           cost == EstimateMinutes(Queue[k])
           skim == SkimMinutes(EstimateMinutes(Queue[k]))
           blocker == Queue[k].priority = "blocker"
           Minutes(x) == Spending(Counted(x.read), Counted(x.skim))
<1>1. cost \in Nat \ {0} /\ skim \in Nat \ {0}
  BY CostsAreNatural
<1>2. /\ p \in PlanShape(k - 1) /\ p.spent \in Nat
      /\ p.read \in Seq(1..(k - 1)) /\ p.skim \in Seq(1..(k - 1)) /\ p.defer \in Seq(1..(k - 1))
      /\ p = [read |-> p.read, skim |-> p.skim, defer |-> p.defer, spent |-> p.spent]
  BY DEF PlacedWell, PlanShape
<1>3. /\ Len(p.read) + Len(p.skim) + Len(p.defer) = k - 1
      /\ \A i \in 1..(k - 1) : Holds(p, i)
      /\ \A i \in 1..(k - 1) : Queue[i].priority = "blocker" => \E n \in DOMAIN p.read : p.read[n] = i
      /\ IsFiniteSet(Minutes(p)) /\ Cardinality(Minutes(p)) = p.spent
      /\ p.read = <<>> => p.spent = 0
      /\ BeginsBeyond(p, minutes) \/ p.spent <= minutes
      /\ \A n \in DOMAIN p.defer : p.spent + SkimMinutes(EstimateMinutes(Queue[p.defer[n]])) > minutes
  BY DEF PlacedWell
<1>4. /\ Append(p.read, k) \in Seq(1..k) /\ Append(p.skim, k) \in Seq(1..k) /\ Append(p.defer, k) \in Seq(1..k)
      /\ p.read \in Seq(1..k) /\ p.skim \in Seq(1..k) /\ p.defer \in Seq(1..k)
      /\ Append(p.read, k) # <<>>
  BY <1>2, AppendHolds
<1>5. /\ Counted(p.read) \in SUBSET (1..(k - 1)) /\ Counted(p.skim) \in SUBSET (1..(k - 1))
      /\ Counted(Append(p.read, k)) = IF blocker THEN Counted(p.read) ELSE Counted(p.read) \cup {k}
      /\ Counted(Append(p.skim, k)) = IF blocker THEN Counted(p.skim) ELSE Counted(p.skim) \cup {k}
  BY <1>2, CountedAppend
<1>6. k \notin Counted(p.read) \cup Counted(p.skim)
  BY <1>5
<1>7. ASSUME p.read # <<>>  PROVE Append(p.read, k)[1] = p.read[1]
  BY <1>2, <1>7, AppendHolds
<1>8. ASSUME p.read = <<>>  PROVE Append(p.read, k)[1] = k
  BY <1>8
\* The four ways an item is placed.
<1>9. \/ /\ blocker
         /\ q = [read |-> Append(p.read, k), skim |-> p.skim, defer |-> p.defer, spent |-> p.spent]
      \/ /\ ~blocker /\ (10 * (p.spent + cost) <= 7 * minutes \/ p.read = <<>>)
         /\ q = [read |-> Append(p.read, k), skim |-> p.skim, defer |-> p.defer, spent |-> p.spent + cost]
      \/ /\ ~blocker /\ p.read # <<>> /\ p.spent + skim <= minutes
         /\ q = [read |-> p.read, skim |-> Append(p.skim, k), defer |-> p.defer, spent |-> p.spent + skim]
      \/ /\ ~blocker /\ p.read # <<>> /\ ~(p.spent + skim <= minutes)
         /\ q = [read |-> p.read, skim |-> p.skim, defer |-> Append(p.defer, k), spent |-> p.spent]
  <2> DEFINE a == p.read
             b == p.skim
             c == p.defer
             d == p.spent
  <2> HIDE DEF cost, skim
  <2> QED BY <1>2 DEF PlaceItem, cost, skim
<1> HIDE DEF q, cost, skim, blocker
<1>10. q \in PlanShape(k) /\ q.spent \in Nat
  <2>1. p.spent + cost \in Nat /\ p.spent + skim \in Nat
    BY <1>1, <1>2
  <2>2. \A r, s, t \in Seq(1..k) : \A m \in Nat :
          [read |-> r, skim |-> s, defer |-> t, spent |-> m] \in PlanShape(k)
    BY DEF PlanShape
  <2>3. q \in PlanShape(k)
    <3>1. \E r, s, t \in Seq(1..k) : \E m \in Nat : q = [read |-> r, skim |-> s, defer |-> t, spent |-> m]
      BY <1>2, <1>4, <1>9, <2>1, Zenon
    <3> QED BY <2>2, <3>1
  <2> QED BY <2>3 DEF PlanShape
<1>11. /\ Len(q.read) + Len(q.skim) + Len(q.defer) = k
       /\ \A i \in 1..k : Holds(q, i)
       /\ \A i : Among(i, p.read) => Among(i, q.read)
       /\ p.read # <<>> => q.read # <<>> /\ q.read[1] = p.read[1]
  <2>1. \/ q.read = Append(p.read, k) /\ q.skim = p.skim /\ q.defer = p.defer
        \/ q.read = p.read /\ q.skim = Append(p.skim, k) /\ q.defer = p.defer
        \/ q.read = p.read /\ q.skim = p.skim /\ q.defer = Append(p.defer, k)
    BY <1>9
  <2> QED BY <1>2, <1>3, <1>10, <2>1, ListsGrow
<1>12. q.read # <<>>
  BY <1>4, <1>9
<1>13. IsFiniteSet(Minutes(q)) /\ Cardinality(Minutes(q)) = q.spent
  <2>1. CASE blocker /\ q = [read |-> Append(p.read, k), skim |-> p.skim, defer |-> p.defer, spent |-> p.spent]
    <3>1. Counted(q.read) = Counted(p.read) /\ q.skim = p.skim /\ q.spent = p.spent
      BY <1>5, <2>1
    <3> QED BY <1>3, <3>1
  <2>2. CASE ~blocker /\ q = [read |-> Append(p.read, k), skim |-> p.skim, defer |-> p.defer, spent |-> p.spent + cost]
    <3>1. Counted(q.read) = Counted(p.read) \cup {k} /\ Counted(q.skim) = Counted(p.skim) /\ q.spent = p.spent + cost
      BY <1>5, <2>2
    <3>2. Minutes(q) = Minutes(p) \cup MinutesFor(k, cost)
      <4> DEFINE R == Counted(p.read)
                 S == Counted(p.skim)
                 U == Counted(q.read)
                 V == S \cup {k}
      <4>1. AddsTo(U, R, k) /\ AddsTo(V, S, k)
        BY <3>1 DEF AddsTo
      <4> HIDE DEF R, S, U, V
      <4>2. Spending(U, S) = Spending(R, S) \cup MinutesFor(k, EstimateMinutes(Queue[k]))
        BY <4>1, SpendingWithout
      <4> QED BY <3>1, <4>2 DEF cost, R, S, U
    <3>3. IsFiniteSet(Minutes(q)) /\ Cardinality(Minutes(q)) = Cardinality(Minutes(p)) + cost
      BY <1>1, <1>3, <1>6, <3>2, SpendingAdds
    <3> QED BY <1>3, <3>1, <3>3
  <2>3. CASE ~blocker /\ q = [read |-> p.read, skim |-> Append(p.skim, k), defer |-> p.defer, spent |-> p.spent + skim]
    <3>1. Counted(q.read) = Counted(p.read) /\ Counted(q.skim) = Counted(p.skim) \cup {k} /\ q.spent = p.spent + skim
      BY <1>5, <2>3
    <3>2. Minutes(q) = Minutes(p) \cup MinutesFor(k, skim)
      <4> DEFINE R == Counted(p.read)
                 S == Counted(p.skim)
                 U == R \cup {k}
                 V == Counted(q.skim)
      <4>1. AddsTo(U, R, k) /\ AddsTo(V, S, k)
        BY <3>1 DEF AddsTo
      <4> HIDE DEF R, S, U, V
      <4>2. Spending(R, V) = Spending(R, S) \cup MinutesFor(k, SkimMinutes(EstimateMinutes(Queue[k])))
        BY <4>1, SpendingWithout
      <4> QED BY <3>1, <4>2 DEF skim, R, S, V
    <3>3. IsFiniteSet(Minutes(q)) /\ Cardinality(Minutes(q)) = Cardinality(Minutes(p)) + skim
      BY <1>1, <1>3, <1>6, <3>2, SpendingAdds
    <3> QED BY <1>3, <3>1, <3>3
  <2>4. CASE q = [read |-> p.read, skim |-> p.skim, defer |-> Append(p.defer, k), spent |-> p.spent]
    <3>1. q.read = p.read /\ q.skim = p.skim /\ q.spent = p.spent
      BY <2>4
    <3> QED BY <1>3, <3>1
  <2> QED BY <1>9, <2>1, <2>2, <2>3, <2>4
<1>14. \A i \in 1..k : Queue[i].priority = "blocker" => \E n \in DOMAIN q.read : q.read[n] = i
  <2>1. SUFFICES ASSUME NEW i \in 1..k, Queue[i].priority = "blocker"
                 PROVE  \E n \in DOMAIN q.read : q.read[n] = i
    OBVIOUS
  <2>2. CASE i # k
    <3>1. i \in 1..(k - 1)
      BY <2>2
    <3> QED BY <1>3, <1>11, <2>1, <3>1 DEF Among
  <2>3. CASE i = k
    <3>1. blocker
      BY <2>1, <2>3 DEF blocker
    <3>2. q.read = Append(p.read, k)
      BY <1>9, <3>1
    <3>3. Append(p.read, k)[Len(p.read) + 1] = k /\ Len(p.read) + 1 \in DOMAIN Append(p.read, k)
      BY <1>2
    <3> QED BY <2>3, <3>2, <3>3
  <2> QED BY <2>2, <2>3
<1>15. BeginsBeyond(q, minutes) \/ q.spent <= minutes
  <2>1. CASE p.read # <<>>
    <3>1. BeginsBeyond(p, minutes) => BeginsBeyond(q, minutes)
      BY <1>11, <2>1 DEF BeginsBeyond
    <3>2. p.spent <= minutes => q.spent <= minutes
      <4>1. q.spent = p.spent \/ 10 * q.spent <= 7 * minutes \/ q.spent <= minutes
        BY <1>9, <2>1
      <4> QED BY <1>10, <4>1
    <3> QED BY <1>3, <3>1, <3>2
  <2>2. CASE p.read = <<>>
    <3>1. p.spent = 0
      BY <1>3, <2>2
    <3>2. CASE blocker
      BY <1>9, <3>1, <3>2
    <3>3. CASE ~blocker
      <4>1. q.read = Append(p.read, k) /\ q.spent = 0 + cost
        BY <1>9, <2>2, <3>1, <3>3
      <4>2. q.read[1] = k
        BY <1>8, <2>2, <4>1
      <4>3. 10 * cost > 7 * minutes => BeginsBeyond(q, minutes)
        BY <1>12, <3>3, <4>2 DEF BeginsBeyond, blocker, cost
      <4> QED BY <1>1, <4>1, <4>3
    <3> QED BY <3>2, <3>3
  <2> QED BY <2>1, <2>2
<1>16. \A n \in DOMAIN q.defer : q.spent + SkimMinutes(EstimateMinutes(Queue[q.defer[n]])) > minutes
  <2>1. \A n \in DOMAIN p.defer :
          /\ p.spent + SkimMinutes(EstimateMinutes(Queue[p.defer[n]])) > minutes
          /\ SkimMinutes(EstimateMinutes(Queue[p.defer[n]])) \in Nat
    BY <1>3, CostsAreNatural
  <2>2. q.spent \in Nat /\ p.spent \in Nat /\ q.spent >= p.spent
    <3>1. \E r, s, t : \E e \in {p.spent, p.spent + cost, p.spent + skim} :
            q = [read |-> r, skim |-> s, defer |-> t, spent |-> e]
      BY <1>9, Zenon
    <3> QED BY <1>1, <1>2, <3>1
  <2>3. CASE q.defer = p.defer
    <3>1. \A a, b, c, m \in Nat : a >= b /\ b + c > m => a + c > m
      OBVIOUS
    <3>2. \A n \in DOMAIN q.defer : /\ p.spent + SkimMinutes(EstimateMinutes(Queue[q.defer[n]])) > minutes
                                   /\ SkimMinutes(EstimateMinutes(Queue[q.defer[n]])) \in Nat
      BY <2>1, <2>3
    <3> QED BY <2>2, <3>1, <3>2
  <2>4. CASE q.defer # p.defer
    <3>1. q.defer = Append(p.defer, k) /\ p.spent + skim > minutes /\ q.spent = p.spent
      BY <1>1, <1>2, <1>9, <2>4
    <3>2. \A n \in DOMAIN Append(p.defer, k) :
            \/ n \in DOMAIN p.defer /\ Append(p.defer, k)[n] = p.defer[n]
            \/ Append(p.defer, k)[n] = k
      <4>1. /\ Len(p.defer) \in Nat /\ DOMAIN p.defer = 1..Len(p.defer)
            /\ DOMAIN Append(p.defer, k) = 1..(Len(p.defer) + 1)
            /\ \A n \in DOMAIN p.defer : Append(p.defer, k)[n] = p.defer[n]
            /\ Append(p.defer, k)[Len(p.defer) + 1] = k
        BY <1>2, AppendHolds
      <4>2. \A n : n \in 1..(Len(p.defer) + 1) => n \in 1..Len(p.defer) \/ n = Len(p.defer) + 1
        BY <4>1
      <4> QED BY <4>1, <4>2
    <3> QED BY <2>1, <3>1, <3>2 DEF skim
  <2> QED BY <2>3, <2>4
<1> QED BY <1>10, <1>11, <1>12, <1>13, <1>14, <1>15, <1>16 DEF PlacedWell, q

\* What holds of the placing of all items.
LEMMA PlacingIsGood ==
  ASSUME NEW n \in Nat, NEW minutes \in Nat, NEW f, Placed(f, n, minutes)
  PROVE  PlacedWell(f[n], n, minutes)
<1> DEFINE Bad == {k \in 0..n : ~PlacedWell(f[k], k, minutes)}
<1>1. SUFFICES ASSUME Bad # {}  PROVE FALSE
  OBVIOUS
<1>2. PICK m \in Bad : \A k \in Bad : ~(k < m)
  <2>1. Bad \in SUBSET Nat
    OBVIOUS
  <2> HIDE DEF Bad
  <2> QED BY <1>1, <2>1, LeastNumber
<1>3. f[m] = IF m = 0 THEN EmptyPlan ELSE PlaceItem(f[m - 1], m, minutes)
  BY DEF Placed
<1>4. CASE m = 0
  <2> DEFINE p == EmptyPlan
             none == Spending(Counted(p.read), Counted(p.skim))
  <2>1. p.read = <<>> /\ p.skim = <<>> /\ p.defer = <<>> /\ p.spent = 0
    BY DEF EmptyPlan
  <2>2. /\ Len(<<>>) = 0 /\ DOMAIN <<>> = {} /\ <<>> \in Seq(1..0)
    BY EmptySeq
  <2>3. p \in PlanShape(0)
    BY <2>2 DEF PlanShape, EmptyPlan
  <2>4. Counted(<<>>) = {}
    BY <2>2 DEF Counted
  <2>5. none = {}
    BY <2>1, <2>4, InSpending
  <2> HIDE DEF p, none
  <2>6. IsFiniteSet(none) /\ Cardinality(none) = 0
    BY <2>5, FS_EmptySet
  <2>7. PlacedWell(p, 0, minutes)
    BY <2>1, <2>2, <2>3, <2>6 DEF PlacedWell, none
  <2> QED BY <1>2, <1>3, <1>4, <2>7 DEF p
<1>5. CASE m # 0
  <2>1. m \in Nat \ {0} /\ m - 1 \in 0..n /\ m - 1 < m
    BY <1>2, <1>5
  <2>2. PlacedWell(f[m - 1], m - 1, minutes)
    BY <1>2, <2>1
  <2>3. PlacedWell(PlaceItem(f[m - 1], m, minutes), m, minutes)
    BY <2>1, <2>2, PlaceStep
  <2> QED BY <1>2, <1>3, <1>5, <2>3
<1> QED BY <1>4, <1>5

Both(a, b) == a \o b
Listed(a, b, c) == Both(Both(a, b), c)

LEMMA BothAreListed ==
  ASSUME NEW S, NEW a, NEW b, a \in Seq(S) /\ b \in Seq(S)
  PROVE  /\ Both(a, b) \in Seq(S) /\ Len(Both(a, b)) = Len(a) + Len(b)
         /\ \A i : Among(i, a) \/ Among(i, b) => Among(i, Both(a, b))
<1> DEFINE l == a \o b
<1>1. /\ l \in Seq(S) /\ Len(l) = Len(a) + Len(b)
      /\ \A i \in 1..(Len(a) + Len(b)) : l[i] = IF i <= Len(a) THEN a[i] ELSE b[i - Len(a)]
  BY ConcatProperties
<1> HIDE DEF l
<1>2. PICK x \in Nat, y \in Nat : x = Len(a) /\ y = Len(b) /\ DOMAIN a = 1..x /\ DOMAIN b = 1..y
  BY LenProperties
<1>3. DOMAIN l = 1..(x + y)
  BY <1>1, <1>2, LenProperties
<1>4. ASSUME NEW n \in 1..x  PROVE n \in 1..(x + y) /\ l[n] = a[n]
  BY <1>1, <1>2
<1>5. ASSUME NEW n \in 1..y  PROVE x + n \in 1..(x + y) /\ l[x + n] = b[n]
  <2>1. x + n \in 1..(x + y) /\ ~(x + n <= x) /\ (x + n) - x = n
    BY <1>2
  <2> QED BY <1>1, <1>2, <2>1
<1>6. ASSUME NEW i, Among(i, a)  PROVE Among(i, l)
  <2>1. PICK n \in 1..x : a[n] = i
    BY <1>2, <1>6 DEF Among
  <2>2. n \in DOMAIN l /\ l[n] = i
    BY <1>3, <1>4, <2>1
  <2> QED BY <2>2 DEF Among
<1>7. ASSUME NEW i, Among(i, b)  PROVE Among(i, l)
  <2>1. PICK n \in 1..y : b[n] = i
    BY <1>2, <1>7 DEF Among
  <2>2. x + n \in DOMAIN l /\ l[x + n] = i
    BY <1>3, <1>5, <2>1
  <2> QED BY <2>2 DEF Among
<1> QED BY <1>1, <1>6, <1>7 DEF l, Both

LEMMA ThreeLists ==
  ASSUME NEW k, NEW a, NEW b, NEW c,
         k \in Nat /\ a \in Seq(1..k) /\ b \in Seq(1..k) /\ c \in Seq(1..k)
  PROVE  /\ Len(Listed(a, b, c)) = Len(a) + Len(b) + Len(c)
         /\ \A n \in DOMAIN Listed(a, b, c) : Listed(a, b, c)[n] \in 1..k
         /\ \A i : Among(i, a) \/ Among(i, b) \/ Among(i, c) => Among(i, Listed(a, b, c))
<1> DEFINE S == 1..k
<1> HIDE DEF S
<1>1. a \in Seq(S) /\ b \in Seq(S) /\ c \in Seq(S)
  BY DEF S
<1>2. /\ Both(a, b) \in Seq(S) /\ Len(Both(a, b)) = Len(a) + Len(b)
      /\ \A i : Among(i, a) \/ Among(i, b) => Among(i, Both(a, b))
  BY <1>1, BothAreListed
<1>3. /\ Listed(a, b, c) \in Seq(S) /\ Len(Listed(a, b, c)) = Len(Both(a, b)) + Len(c)
      /\ \A i : Among(i, Both(a, b)) \/ Among(i, c) => Among(i, Listed(a, b, c))
  BY <1>1, <1>2, BothAreListed DEF Listed
<1>4. \A n \in DOMAIN Listed(a, b, c) : Listed(a, b, c)[n] \in S
  BY <1>3, LenProperties, ElementOfSeq
<1> QED BY <1>2, <1>3, <1>4 DEF S

\* The ranked items are a list, whatever they are.
RankedIsList == \E S : ranked \in Seq(S)

LEMMA QueueIsList ==
  ASSUME RankedIsList
  PROVE  Len(Queue) \in Nat /\ DOMAIN Queue = 1..Len(Queue)
<1>1. PICK S : ranked \in Seq(S)
  BY DEF RankedIsList
<1> DEFINE n == Least(Len(ranked), MaxQueue)
<1>2. n \in Int /\ n <= Len(ranked) /\ Len(ranked) \in Nat
  BY <1>1, LenProperties, QueueAssumption DEF Least
<1> HIDE DEF n
<1>3. \A i \in 1..n : ranked[i] \in S
  BY <1>1, <1>2, ElementOfSeq
<1>4. SubSeq(ranked, 1, n) \in Seq(S)
  BY <1>2, <1>3, SubSeqProperties
<1>5. Queue \in Seq(S)
  BY <1>4 DEF Queue, n
<1> QED BY <1>5, LenProperties

\* What PlanHonoursBudget says, of a queue, a plan of it and its minutes.
MinutesIn(Q, p) ==
  LET Others(list) == {list[n] : n \in {m \in DOMAIN list : Q[list[m]].priority # "blocker"}}
      reading == UNION {{<<i, n>> : n \in 1..EstimateMinutes(Q[i])} : i \in Others(p.read)}
      skimming == UNION {{<<i, n>> : n \in 1..SkimMinutes(EstimateMinutes(Q[i]))} : i \in Others(p.skim)}
  IN Cardinality(reading \cup skimming)

KeepsBudget(Q, p, minutes) ==
  LET lists == p.read \o p.skim \o p.defer
      others == {i \in DOMAIN Q : Q[i].priority # "blocker"}
      alone == /\ p.read # <<>> /\ p.read[1] \in others
               /\ 10 * EstimateMinutes(Q[p.read[1]]) > 7 * minutes
  IN /\ Len(lists) = Len(Q) /\ {lists[n] : n \in DOMAIN lists} = DOMAIN Q
     /\ \A i \in DOMAIN Q \ others : \E n \in DOMAIN p.read : p.read[n] = i
     /\ others # {} /\ ~alone => MinutesIn(Q, p) <= minutes
     /\ \A n \in DOMAIN p.defer :
          MinutesIn(Q, p) + SkimMinutes(EstimateMinutes(Q[p.defer[n]])) > minutes

LEMMA BudgetOfQueue ==
  /\ PlanHonoursBudget <=> (qStage = "planned" => KeepsBudget(Queue, plan.of, plan.minutes))
  /\ PlanHonoursBudget' <=> (qStage' = "planned" => KeepsBudget(Queue', plan'.of, plan'.minutes))
<1>1. PlanHonoursBudget <=> (qStage = "planned" => KeepsBudget(Queue, plan.of, plan.minutes))
  BY Zenon DEF PlanHonoursBudget, KeepsBudget, MinutesOf, MinutesIn
<1>2. PlanHonoursBudget' <=> (qStage' = "planned" => KeepsBudget(Queue', plan'.of, plan'.minutes))
  BY Zenon DEF PlanHonoursBudget, KeepsBudget, MinutesOf, MinutesIn
<1> QED BY <1>1, <1>2

LEMMA PlanOfMinutes ==
  ASSUME RankedIsList, NEW minutes \in Nat, NEW p, p = BuildPlan(minutes)
  PROVE  KeepsBudget(Queue, p, minutes)
<1> DEFINE k == Len(Queue)
           lists == p.read \o p.skim \o p.defer
           others == {i \in DOMAIN Queue : Queue[i].priority # "blocker"}
           alone == /\ p.read # <<>> /\ p.read[1] \in others
                    /\ 10 * EstimateMinutes(Queue[p.read[1]]) > 7 * minutes
<1>1. k \in Nat /\ DOMAIN Queue = 1..k
  BY QueueIsList
<1>2. PlacedWell(p, k, minutes)
  <2>1. PICK f : Placed(f, k, minutes) /\ BuildPlan(minutes) = f[k]
    BY <1>1, PlanIsPlaced
  <2> HIDE DEF k
  <2> QED BY <1>1, <2>1, PlacingIsGood
<1> HIDE DEF k
<1>3. /\ p.read \in Seq(1..k) /\ p.skim \in Seq(1..k) /\ p.defer \in Seq(1..k)
      /\ Len(p.read) + Len(p.skim) + Len(p.defer) = k
      /\ \A i \in 1..k : Holds(p, i)
      /\ \A i \in 1..k : Queue[i].priority = "blocker" => \E n \in DOMAIN p.read : p.read[n] = i
      /\ BeginsBeyond(p, minutes) \/ p.spent <= minutes
      /\ \A n \in DOMAIN p.defer : p.spent + SkimMinutes(EstimateMinutes(Queue[p.defer[n]])) > minutes
  BY <1>2 DEF PlacedWell, PlanShape
<1>4. MinutesOf(p) = p.spent
  BY <1>2, MinutesAreSpent DEF PlacedWell
<1>5. Len(lists) = k /\ {lists[n] : n \in DOMAIN lists} = 1..k
  <2>1. lists = Listed(p.read, p.skim, p.defer)
    BY DEF Listed, Both
  <2>2. \A i \in 1..k : Among(i, p.read) \/ Among(i, p.skim) \/ Among(i, p.defer)
    BY <1>3 DEF Holds
  <2> HIDE DEF lists
  <2>3. /\ Len(lists) = Len(p.read) + Len(p.skim) + Len(p.defer)
        /\ \A n \in DOMAIN lists : lists[n] \in 1..k
        /\ \A i \in 1..k : Among(i, lists)
    <3>1. k \in Nat /\ p.read \in Seq(1..k) /\ p.skim \in Seq(1..k) /\ p.defer \in Seq(1..k)
      BY <1>1, <1>3
    <3>2. PICK a, b, c : a = p.read /\ b = p.skim /\ c = p.defer
      OBVIOUS
    <3>3. k \in Nat /\ a \in Seq(1..k) /\ b \in Seq(1..k) /\ c \in Seq(1..k)
      BY <3>1, <3>2
    <3>4. /\ Len(Listed(a, b, c)) = Len(a) + Len(b) + Len(c)
          /\ \A n \in DOMAIN Listed(a, b, c) : Listed(a, b, c)[n] \in 1..k
          /\ \A i : Among(i, a) \/ Among(i, b) \/ Among(i, c) => Among(i, Listed(a, b, c))
      BY <3>3, ThreeLists
    <3>5. lists = Listed(a, b, c)
      BY <2>1, <3>2
    <3> QED BY <2>2, <3>2, <3>4, <3>5
  <2>4. {lists[n] : n \in DOMAIN lists} = 1..k
    BY <2>3 DEF Among
  <2> QED BY <1>3, <2>3, <2>4
<1>6. \A i \in DOMAIN Queue \ others : \E n \in DOMAIN p.read : p.read[n] = i
  BY <1>1, <1>3
<1>7. ~alone => MinutesOf(p) <= minutes
  <2>1. BeginsBeyond(p, minutes) => alone
    <3>1. p.read # <<>> => p.read[1] \in 1..k
      BY <1>1, <1>3
    <3> QED BY <1>1, <3>1 DEF BeginsBeyond
  <2> QED BY <1>3, <1>4, <2>1
<1>8. \A n \in DOMAIN p.defer : MinutesOf(p) + SkimMinutes(EstimateMinutes(Queue[p.defer[n]])) > minutes
  BY <1>3, <1>4
<1>9. MinutesIn(Queue, p) = MinutesOf(p)
  BY Zenon DEF MinutesIn, MinutesOf
<1> QED BY <1>1, <1>5, <1>6, <1>7, <1>8, <1>9, Zenon DEF k, KeepsBudget

-----------------------------------------------------------------------------
\* The inductive invariant: the inputs are in order, and between the ranking and what
\* follows it every risk is among the ranked items, at its anchor, in a list.
QueueInv ==
  /\ QueueInputs
  /\ qStage = "ranked" => RanksEveryRisk /\ RankedIsList
  /\ NothingIsHidden
  /\ PlanHonoursBudget

LEMMA QueueInvInit == QueueInit => QueueInv
<1> SUFFICES ASSUME QueueInit  PROVE QueueInv
  OBVIOUS
<1>1. QueueInputs
  BY DEF QueueInit, QueueInputs
<1>2. NothingIsHidden
  BY DEF QueueInit, NothingIsHidden, DecisionsSurvive, DemotionIsCurrent
<1>3. qStage = "inputs" /\ PlanHonoursBudget
  BY DEF QueueInit, PlanHonoursBudget
<1> QED BY <1>1, <1>2, <1>3 DEF QueueInv

LEMMA InputsStep ==
  ASSUME QueueInv, FindRisk \/ CommitSuppression \/ CommitOverride \/ RecordFeedback \/ FindFact
  PROVE  QueueInv'
<1>1. QueueInputs'
  <2>1. QueueInputs
    BY DEF QueueInv
  <2>2. ASSUME NEW S, NEW s \in Seq(S), NEW e \in S
        PROVE  Append(s, e) \in Seq(S) /\ <<e>> \in Seq(S)
    BY <2>2
  <2>3. CASE FindRisk
    BY <2>1, <2>2, <2>3 DEF QueueInputs, FindRisk
  <2>4. CASE CommitSuppression
    BY <2>1, <2>2, <2>4 DEF QueueInputs, CommitSuppression
  <2>5. CASE CommitOverride
    BY <2>1, <2>2, <2>5 DEF QueueInputs, CommitOverride
  <2>6. CASE RecordFeedback
    BY <2>1, <2>2, <2>6 DEF QueueInputs, RecordFeedback
  <2>7. CASE FindFact
    BY <2>1, <2>2, <2>7 DEF QueueInputs, FindFact
  <2> QED BY <2>3, <2>4, <2>5, <2>6, <2>7
<1>2. qStage' = "inputs"
  BY DEF FindRisk, CommitSuppression, CommitOverride, RecordFeedback, FindFact, InputsLeft
<1>3. NothingIsHidden' /\ PlanHonoursBudget'
  BY <1>2 DEF NothingIsHidden, DecisionsSurvive, DemotionIsCurrent, PlanHonoursBudget
<1> QED BY <1>1, <1>2, <1>3 DEF QueueInv

LEMMA RankStep ==
  ASSUME QueueInv, BuildReviewQueue
  PROVE  QueueInv'
<1>1. QueueInputs /\ QueueInputs'
  BY DEF QueueInv, QueueInputs, BuildReviewQueue
<1>2. /\ ranked' = RankedDrafts /\ qStage' = "ranked"
      /\ prRisks' = prRisks /\ suppressions' = suppressions /\ overrides' = overrides /\ memories' = memories
  BY DEF BuildReviewQueue
<1>3. /\ \A k \in DOMAIN RankedDrafts : RankedDrafts[k] \in QueueDrafts
      /\ \A d \in QueueDrafts : \E n \in DOMAIN RankedDrafts : RankedDrafts[n] = d
  <2>1. RankedDrafts \in Seq(QueueDrafts)
    BY <1>1, RankingHoldsDrafts
  <2>2. \A k \in DOMAIN RankedDrafts : RankedDrafts[k] \in QueueDrafts
    <3> HIDE DEF RankedDrafts
    <3> QED BY <2>1, ElementOfSeq, LenProperties
  <2> QED BY <1>1, <2>2, RankingHoldsDrafts
<1>4. \A i \in DOMAIN prRisks : /\ RiskDraft(i).risk = i /\ RiskDraft(i).path = Anchor(prRisks[i])
                                /\ RiskDraft(i).priority = PriorityOf(prRisks[i])
  BY DEF RiskDraft, QueueDraft
<1>5. \A i \in DOMAIN prRisks : RiskDraft(i) \in QueueDrafts
  <2>1. SUFFICES ASSUME NEW i \in DOMAIN prRisks  PROVE RiskDraft(i) \in QueueDrafts
    OBVIOUS
  <2>2. RiskDraft(i).spec # "fallback"
    BY DEF RiskDraft, QueueDraft
  <2>3. RiskDraft(i) \in RiskDrafts
    BY DEF RiskDrafts
  <2> QED BY <2>2, <2>3 DEF QueueDrafts, Found
<1>6. RanksEveryRisk'
  <2>1. \A i \in DOMAIN prRisks :
          \E n \in DOMAIN RankedDrafts : RankedDrafts[n].risk = i /\ RankedDrafts[n].path = Anchor(prRisks[i])
    BY <1>3, <1>4, <1>5
  <2>2. \A n \in DOMAIN RankedDrafts : RankedDrafts[n].priority \in Priorities
    BY <1>1, <1>3, DraftsAreTyped
  <2> HIDE DEF RankedDrafts
  <2> QED BY <1>2, <2>1, <2>2 DEF RanksEveryRisk
<1>7. DemotionIsCurrent'
  <2>1. ASSUME NEW k \in DOMAIN RankedDrafts, RankedDrafts[k].risk # 0
        PROVE  /\ RankedDrafts[k].risk \in DOMAIN prRisks
               /\ RankedDrafts[k].priority = PriorityOf(prRisks[RankedDrafts[k].risk])
    <3>1. RankedDrafts[k] \in QueueDrafts
      BY <1>3
    <3>2. PICK i \in DOMAIN prRisks : RankedDrafts[k] = RiskDraft(i)
      BY <1>1, <2>1, <3>1, DraftsAreTyped
    <3> HIDE DEF RankedDrafts
    <3> QED BY <1>4, <3>2
  <2>2. SUFFICES ASSUME NEW k \in DOMAIN RankedDrafts, RankedDrafts[k].risk # 0,
                        prRisks[RankedDrafts[k].risk].severity # "low", RankedDrafts[k].priority = "low"
                 PROVE  LET risk == prRisks[RankedDrafts[k].risk]
                            ForIt(s) == s.rule = risk.rule /\ Anchor(risk) \in s.paths
                        IN \/ \E i \in DOMAIN suppressions :
                                /\ ForIt(suppressions[i]) /\ suppressions[i].current
                                /\ \A j \in 1..(i - 1) : ~ForIt(suppressions[j])
                           \/ \E i \in DOMAIN overrides :
                                ForIt(overrides[i]) /\ overrides[i].priority = "low"
                           \/ \E i \in DOMAIN memories :
                                memories[i].rule = risk.rule /\ PathsOf(risk) \subseteq memories[i].paths
    <3> HIDE DEF RankedDrafts
    <3> QED BY <1>2 DEF DemotionIsCurrent
  <2> HIDE DEF RankedDrafts
  <2>3. /\ RankedDrafts[k].risk \in DOMAIN prRisks
        /\ PriorityOf(prRisks[RankedDrafts[k].risk]) = "low"
    BY <2>1, <2>2
  <2> QED BY <1>1, <2>2, <2>3, DemotedForAReason
<1>8. DecisionsSurvive' /\ PlanHonoursBudget'
  BY <1>2 DEF DecisionsSurvive, PlanHonoursBudget
<1>9. RankedIsList'
  <2>1. RankedDrafts \in Seq(QueueDrafts)
    BY <1>1, RankingHoldsDrafts
  <2>2. PICK S : RankedDrafts \in Seq(S)
    <3> HIDE DEF RankedDrafts, QueueDrafts
    <3> QED BY <2>1
  <2> HIDE DEF RankedDrafts
  <2> QED BY <1>2, <2>2 DEF RankedIsList
<1> QED BY <1>1, <1>6, <1>7, <1>8, <1>9 DEF QueueInv, NothingIsHidden

LEMMA DecideStep ==
  ASSUME QueueInv, Decide
  PROVE  QueueInv'
<1>1. /\ qStage = "ranked" /\ qStage' = "decided"
      /\ prRisks' = prRisks /\ suppressions' = suppressions /\ overrides' = overrides
      /\ memories' = memories /\ facts' = facts /\ ranked' = ranked
  BY DEF Decide
<1>2. QueueInputs /\ RanksEveryRisk /\ DemotionIsCurrent
  BY <1>1 DEF QueueInv, NothingIsHidden
<1>3. QueueInputs' /\ DemotionIsCurrent'
  BY <1>1, <1>2 DEF QueueInputs, DemotionIsCurrent
<1>4. PICK v \in {"none", "passed", "failed"}, missing \in BOOLEAN :
        outcome' = [validation |-> v, missing |-> missing, findings |-> Findings(v),
                    verdict |-> ReviewVerdict(v, missing, Findings(v))]
  BY DEF Decide
<1>5. /\ outcome'.validation = v /\ outcome'.missing = missing /\ outcome'.findings = Findings(v)
      /\ outcome'.verdict = ReviewVerdict(v, missing, Findings(v))
  BY <1>4
<1>6. v = "failed" => ReviewVerdict(v, missing, Findings(v)) = "block_before_merge"
  BY DEF ReviewVerdict
<1>7. missing => ReviewVerdict(v, missing, Findings(v)) \in {"block_before_merge", "reviewable_with_attention"}
  BY DEF ReviewVerdict
<1>8. \A i \in DOMAIN prRisks :
        /\ MustBlock(i) => /\ ReviewVerdict(v, missing, Findings(v)) = "block_before_merge"
                           /\ \E f \in Findings(v) : i \in f.risks /\ f.priority = "blocker"
        /\ Decides(i) => \E f \in Findings(v) : i \in f.risks
  BY <1>2, BlockersSurvive, DecisionsAreFound
<1>9. DecisionsSurvive'
  <2>1. \A p : FactOn("additiveSchema", p)' <=> FactOn("additiveSchema", p)
    BY <1>1 DEF FactOn
  <2>2. ASSUME NEW i \in DOMAIN prRisks
        PROVE  LET risk == prRisks[i]
                   mustBlock == /\ PathsOf(risk) \cap ChangedFiles # {}
                                /\ \/ risk.rule = "coverage_regression"
                                   \/ risk.severity = "critical" /\ HasRoot(risk)
                   decides == /\ Anchor(risk) \in ChangedFiles
                              /\ RootForRisk(risk.rule, Anchor(risk)) # NoRoot
                              /\ ~FactOn("additiveSchema", Anchor(risk))'
               IN /\ mustBlock => /\ outcome'.verdict = "block_before_merge"
                                  /\ \E f \in outcome'.findings : i \in f.risks /\ f.priority = "blocker"
                  /\ decides => \E f \in outcome'.findings : i \in f.risks
    <3>1. /\ MustBlock(i) => /\ outcome'.verdict = "block_before_merge"
                             /\ \E f \in outcome'.findings : i \in f.risks /\ f.priority = "blocker"
          /\ Decides(i) => \E f \in outcome'.findings : i \in f.risks
      BY <1>5, <1>8
    <3>2. ~FactOn("additiveSchema", Anchor(prRisks[i]))' => ~FactOn("additiveSchema", Anchor(prRisks[i]))
      BY <1>1, <2>1 DEF FactOn
    <3> QED BY <3>1, <3>2, Zenon DEF MustBlock, Decides
  <2> QED BY <1>1, <1>5, <1>6, <1>7, <2>2 DEF DecisionsSurvive
<1>10. PlanHonoursBudget'
  BY <1>1 DEF PlanHonoursBudget
<1> QED BY <1>1, <1>3, <1>9, <1>10 DEF QueueInv, NothingIsHidden

LEMMA PlanStep ==
  ASSUME QueueInv, Plan
  PROVE  QueueInv'
<1>1. /\ qStage = "ranked" /\ qStage' = "planned"
      /\ prRisks' = prRisks /\ suppressions' = suppressions /\ overrides' = overrides
      /\ memories' = memories /\ facts' = facts /\ ranked' = ranked
  BY DEF Plan
<1>2. QueueInputs' /\ DemotionIsCurrent'
  BY <1>1 DEF QueueInv, QueueInputs, NothingIsHidden, DemotionIsCurrent
<1>3. DecisionsSurvive'
  BY <1>1 DEF DecisionsSurvive
<1>4. PlanHonoursBudget'
  <2>1. RankedIsList
    BY <1>1 DEF QueueInv
  <2>2. PICK minutes \in Budgets : plan' = [minutes |-> minutes, of |-> BuildPlan(minutes)]
    BY DEF Plan
  <2>3. PICK p : p = BuildPlan(minutes)
    OBVIOUS
  <2>4. minutes \in Nat /\ plan'.minutes = minutes /\ plan'.of = p
    BY <2>2, <2>3, QueueAssumption
  <2>5. Queue' = Queue
    BY <1>1 DEF Queue
  <2>6. KeepsBudget(Queue, p, minutes)
    BY <2>1, <2>3, <2>4, PlanOfMinutes
  <2> QED BY <2>4, <2>5, <2>6, BudgetOfQueue
<1> QED BY <1>1, <1>2, <1>3, <1>4 DEF QueueInv, NothingIsHidden

LEMMA QueueInvHolds == QueueSpec => []QueueInv
<1>1. QueueInit => QueueInv
  BY QueueInvInit
<1>2. QueueInv /\ [QueueNext]_queueVars => QueueInv'
  <2> SUFFICES ASSUME QueueInv, [QueueNext]_queueVars  PROVE QueueInv'
    OBVIOUS
  <2>1. CASE FindRisk \/ CommitSuppression \/ CommitOverride \/ RecordFeedback \/ FindFact
    BY <2>1, InputsStep
  <2>2. CASE BuildReviewQueue
    BY <2>2, RankStep
  <2>3. CASE Decide
    BY <2>3, DecideStep
  <2>4. CASE Plan
    BY <2>4, PlanStep
  <2>5. CASE UNCHANGED queueVars
    <3>1. /\ qStage' = qStage /\ prRisks' = prRisks /\ suppressions' = suppressions /\ overrides' = overrides
          /\ memories' = memories /\ facts' = facts /\ ranked' = ranked /\ outcome' = outcome
      BY <2>5 DEF queueVars
    <3>2. QueueInputs' /\ (RanksEveryRisk' <=> RanksEveryRisk) /\ (RankedIsList' <=> RankedIsList)
      BY <3>1 DEF QueueInv, QueueInputs, RanksEveryRisk, RankedIsList
    <3>3. DecisionsSurvive' /\ DemotionIsCurrent'
      BY <3>1 DEF QueueInv, NothingIsHidden, DecisionsSurvive, DemotionIsCurrent, FactOn
    <3>4. plan' = plan /\ Queue' = Queue
      BY <2>5, <3>1 DEF queueVars, Queue
    <3>5. PlanHonoursBudget'
      BY <3>1, <3>4, BudgetOfQueue DEF QueueInv
    <3> QED BY <3>1, <3>2, <3>3, <3>5 DEF QueueInv, NothingIsHidden
  <2> QED BY <2>1, <2>2, <2>3, <2>4, <2>5 DEF QueueNext
<1> QED BY <1>1, <1>2, PTL DEF QueueSpec

\* For every set of findings, suppressions, overrides, memories and facts, in every
\* order and however long the queue: each scoped risk with a root at its anchor is in
\* a finding, a blocking one in a finding that blocks (collectBlockingPrRisks), no
\* failed validation is called safe, and an item is demoted only for a reason in force
\* (matchSuppression, matchSeverityOverride, the feedback memory).
THEOREM DecisionsAreKept == QueueSpec => []NothingIsHidden
<1>1. QueueInv => NothingIsHidden
  BY DEF QueueInv
<1> QED BY <1>1, QueueInvHolds, PTL

\* For every queue and every budget the plan of buildReviewPlan places each item once,
\* reads every blocker, keeps the others' minutes within the budget unless they begin
\* with the one item that is read in any case, and defers only what does not fit.
THEOREM PlanKeepsItsBudget == QueueSpec => []PlanHonoursBudget
<1>1. QueueInv => PlanHonoursBudget
  BY DEF QueueInv
<1> QED BY <1>1, QueueInvHolds, PTL

-----------------------------------------------------------------------------
(***************************************************************************)
(* The bounds and the numbers of the risks (PrRisks): what is numbered     *)
(* below a bound is no more than the bound, and the rules with the places  *)
(* inside each of them are a strict order of the candidates.               *)
(***************************************************************************)
\* The facts of a review, and no risks before it is built.
FactsInv == prFacts \in Reviews /\ (prStage # "built" => candidates = {})

LEMMA FactsHold == PrSpec => []FactsInv
<1>1. PrInit => FactsInv
  BY DEF PrInit, FactsInv
<1>2. FactsInv /\ [PrNext]_prVars => FactsInv'
  <2> SUFFICES ASSUME FactsInv, [PrNext]_prVars  PROVE FactsInv'
    OBVIOUS
  <2>1. CASE BuildCandidates
    BY <2>1 DEF BuildCandidates, FactsInv
  <2>2. CASE ~BuildCandidates
    <3>1. UNCHANGED <<prFacts, candidates>> /\ (prStage' = prStage \/ prStage' = "built")
      BY <2>2 DEF PrNext, prVars, EditFile, Delete, Create, Move, Restore, Touch, CommitTree, RunTests
    <3>2. prStage' = prStage
      BY <2>2 DEF PrNext, prVars, EditFile, Delete, Create, Move, Restore, Touch, CommitTree, RunTests
    <3> QED BY <3>1, <3>2 DEF FactsInv
  <2> QED BY <2>1, <2>2
<1> QED BY <1>1, <1>2, PTL DEF PrSpec

\* What different numbers below a bound are given to is no more than the bound.
LEMMA NumberedSet ==
  ASSUME NEW F, NEW n \in Nat, NEW f \in [F -> 0..(n - 1)], \A x, y \in F : f[x] = f[y] => x = y
  PROVE  IsFiniteSet(F) /\ Cardinality(F) \in Nat /\ Cardinality(F) <= n
<1>1. f \in Injection(F, 0..(n - 1))
  BY DEF Injection, IsInjective
<1>2. 0 \in Int /\ n - 1 \in Int
  OBVIOUS
<1>3. IsFiniteSet(0..(n - 1)) /\ Cardinality(0..(n - 1)) = IF 0 > n - 1 THEN 0 ELSE n - 1 - 0 + 1
  BY <1>2, FS_Interval
<1>4. (IF 0 > n - 1 THEN 0 ELSE n - 1 - 0 + 1) = n
  OBVIOUS
<1>5. IsFiniteSet(F) /\ Cardinality(F) <= Cardinality(0..(n - 1))
  BY <1>1, <1>3, FS_Injection
<1>6. Cardinality(F) \in Nat
  BY <1>5, FS_CardinalityType
<1> QED BY <1>3, <1>4, <1>5, <1>6

\* No two paths have the same number of paths below them.
LEMMA PlacesDiffer ==
  ASSUME NEW S, Ranked(S), NEW p \in S, NEW q \in S, Cardinality(Below(S, p)) = Cardinality(Below(S, q))
  PROVE  p = q
<1>1. ASSUME NEW x \in S, NEW y \in S, PathRank(x) < PathRank(y)
      PROVE  Cardinality(Below(S, x)) < Cardinality(Below(S, y))
  <2>1. \A z \in S : PathRank(z) \in Nat
    BY DEF Ranked
  <2>2. x \in Below(S, y) /\ x \notin Below(S, x)
    BY <1>1, <2>1 DEF Below
  <2>3. Below(S, x) \in SUBSET Below(S, y)
    BY <1>1, <2>1 DEF Below
  <2>4. IsFiniteSet(Below(S, y)) /\ Cardinality(Below(S, y)) \in Nat /\ Cardinality(Below(S, x)) \in Nat
    BY BelowIsFinite
  <2>5. Cardinality(Below(S, x)) <= Cardinality(Below(S, y)) /\ Cardinality(Below(S, x)) # Cardinality(Below(S, y))
    BY <2>2, <2>3, <2>4, FS_Subset
  <2> QED BY <2>4, <2>5
<1>2. PathRank(p) \in Nat /\ PathRank(q) \in Nat /\ (PathRank(p) = PathRank(q) => p = q)
  BY DEF Ranked
<1>3. Cardinality(Below(S, p)) \in Nat
  BY BelowIsFinite
<1>4. ~(PathRank(p) < PathRank(q)) /\ ~(PathRank(q) < PathRank(p))
  BY <1>1, <1>3
<1> QED BY <1>2, <1>4

\* A cut is no longer than its bound.
LEMMA CutFits ==
  ASSUME NEW S, Ranked(S), NEW n \in Nat
  PROVE  /\ First(S, n) \in SUBSET S /\ IsFiniteSet(First(S, n))
         /\ Cardinality(First(S, n)) \in Nat /\ Cardinality(First(S, n)) <= n
<1> DEFINE F == First(S, n)
           f == [p \in F |-> Cardinality(Below(S, p))]
<1>1. F \in SUBSET S /\ \A p \in F : Cardinality(Below(S, p)) < n
  BY DEF First, Below
<1> HIDE DEF F
<1>2. \A p \in F : Cardinality(Below(S, p)) \in 0..(n - 1)
  <2>1. \A p \in F : Cardinality(Below(S, p)) \in Nat
    BY <1>1, BelowIsFinite
  <2> QED BY <1>1, <2>1
<1>3. f \in [F -> 0..(n - 1)]
  BY <1>2
<1>4. \A p, q \in F : f[p] = f[q] => p = q
  BY <1>1, PlacesDiffer
<1> HIDE DEF f
<1>5. IsFiniteSet(F) /\ Cardinality(F) \in Nat /\ Cardinality(F) <= n
  BY <1>3, <1>4, NumberedSet
<1> QED BY <1>1, <1>5 DEF F

LEMMA ChangedAreRanked ==
  Ranked(ChangedPaths) /\ ChangedPaths \in SUBSET Paths
<1>1. ChangedPaths \in SUBSET Paths
  BY DEF ChangedPaths
<1> QED BY <1>1, PrRisksAssumption, FS_Subset DEF Ranked

\* What a review says of its regressed requirements.
LEMMA RegressedAreRanked ==
  ASSUME FactsInv
  PROVE  /\ IsFiniteSet(prFacts.regressed)
         /\ \A d \in prFacts.regressed : d.rank \in Nat /\ Ranked(d.refs)
         /\ \A d, e \in prFacts.regressed : d.rank = e.rank => d = e
<1>1. prFacts \in Reviews
  BY DEF FactsInv
<1> QED BY <1>1, PrRisksAssumption DEF Ranked

\* The places of a delta are one or two, and come after those of the deltas before it.
LEMMA SlotsFollow ==
  ASSUME FactsInv, NEW d \in prFacts.regressed
  PROVE  /\ Slots(d) \in Nat /\ SlotsBefore(d) \in Nat
         /\ d.refs # {} => Slots(d) = Cardinality(RefsOf(d)) /\ Ranked(RefsOf(d))
         /\ \A e \in prFacts.regressed : d.rank < e.rank => SlotsBefore(d) + Slots(d) <= SlotsBefore(e)
<1> DEFINE D == prFacts.regressed
           Before(e) == {c \in D : c.rank < e.rank}
           Taken(e) == {slot \in Before(e) \X {1, 2} : slot[2] <= Slots(slot[1])}
<1>1. /\ IsFiniteSet(D)
      /\ \A e \in D : e.rank \in Nat /\ Ranked(e.refs)
  BY RegressedAreRanked
<1>2. ASSUME NEW e \in D
      PROVE  /\ Slots(e) \in Nat /\ Slots(e) <= 2
             /\ e.refs # {} => Slots(e) = Cardinality(RefsOf(e)) /\ Ranked(RefsOf(e))
  <2>1. RefsOf(e) \in SUBSET e.refs /\ Cardinality(RefsOf(e)) \in Nat /\ Cardinality(RefsOf(e)) <= 2
    BY <1>1, CutFits DEF RefsOf
  <2>2. Ranked(RefsOf(e))
    BY <1>1, <2>1, RankedPart
  <2> QED BY <2>1, <2>2 DEF Slots
<1>3. ASSUME NEW e \in D
      PROVE  IsFiniteSet(Taken(e)) /\ Cardinality(Taken(e)) \in Nat /\ SlotsBefore(e) = Cardinality(Taken(e))
  <2>1. Before(e) \in SUBSET D
    OBVIOUS
  <2>2. IsFiniteSet(Before(e)) /\ IsFiniteSet({1, 2})
    <3>1. IsFiniteSet({1}) /\ IsFiniteSet({1} \cup {2}) /\ {1} \cup {2} = {1, 2}
      BY FS_Singleton, FS_AddElement
    <3> QED BY <1>1, <2>1, <3>1, FS_Subset
  <2>3. IsFiniteSet(Before(e) \X {1, 2})
    BY <2>2, FS_Product
  <2>4. Taken(e) \in SUBSET (Before(e) \X {1, 2})
    OBVIOUS
  <2>5. IsFiniteSet(Taken(e))
    BY <2>3, <2>4, FS_Subset
  <2>6. Cardinality(Taken(e)) \in Nat
    BY <2>5, FS_CardinalityType
  <2> QED BY <2>5, <2>6, Zenon DEF SlotsBefore
<1>4. ASSUME NEW e \in D, d.rank < e.rank
      PROVE  SlotsBefore(d) + Slots(d) <= SlotsBefore(e)
  <2> DEFINE own == MinutesFor(d, Slots(d))
             T == Taken(d)
             U == Taken(e)
  <2>1. IsFiniteSet(own) /\ Cardinality(own) = Slots(d)
    BY <1>2, SlotsCount
  <2>2. T \cap own = {}
    BY <1>1 DEF MinutesFor
  <2>3. T \in SUBSET U
    <3>1. Before(d) \in SUBSET Before(e)
      BY <1>1, <1>4
    <3> QED BY <3>1
  <2>4. own \in SUBSET U
    <3>1. d \in Before(e)
      BY <1>4
    <3>2. \A n \in 1..Slots(d) : n \in {1, 2} /\ n <= Slots(d)
      BY <1>2
    <3> QED BY <3>1, <3>2 DEF MinutesFor
  <2>5. IsFiniteSet(T) /\ IsFiniteSet(U) /\ Cardinality(T) = SlotsBefore(d) /\ Cardinality(U) = SlotsBefore(e)
    BY <1>3
  <2> HIDE DEF own, T, U
  <2>6. (T \cup own) \in SUBSET U
    BY <2>3, <2>4
  <2>7. Cardinality(T \cup own) = Cardinality(T) + Cardinality(own) - Cardinality(T \cap own)
    BY <2>1, <2>5, FS_Union
  <2>8. Cardinality(T \cap own) = 0
    BY <2>2, FS_EmptySet
  <2>9. Cardinality(T \cup own) <= Cardinality(U)
    BY <2>5, <2>6, FS_Subset
  <2>10. SlotsBefore(d) \in Nat /\ Slots(d) \in Nat
    BY <1>2, <1>3
  <2> QED BY <2>1, <2>5, <2>7, <2>8, <2>9, <2>10
<1> QED BY <1>2, <1>3, <1>4

\* What the regressed requirements cite fits the evidence of one candidate.
LEMMA RegressionFits ==
  ASSUME FactsInv, NEW X, X = UNION {First(RefsOf(d), RuleEvidence - SlotsBefore(d)) : d \in prFacts.regressed}
  PROVE  IsFiniteSet(X) /\ Cardinality(X) <= RuleEvidence
<1> DEFINE D == prFacts.regressed
           pairs == {pair \in D \X X : pair[2] \in First(RefsOf(pair[1]), RuleEvidence - SlotsBefore(pair[1]))}
           number == [pair \in pairs |-> SlotsBefore(pair[1]) + Cardinality(Below(RefsOf(pair[1]), pair[2]))]
           path == [pair \in pairs |-> pair[2]]
<1>1. RuleEvidence \in Nat /\ \A d \in D : d.rank \in Nat
  BY PrRisksAssumption, RegressedAreRanked
<1>2. ASSUME NEW d \in D, NEW p \in First(RefsOf(d), RuleEvidence - SlotsBefore(d))
      PROVE  /\ p \in RefsOf(d) /\ Ranked(RefsOf(d)) /\ SlotsBefore(d) \in Nat
             /\ Cardinality(Below(RefsOf(d), p)) \in Nat
             /\ SlotsBefore(d) + Cardinality(Below(RefsOf(d), p)) < RuleEvidence
             /\ Cardinality(Below(RefsOf(d), p)) < Slots(d) /\ Slots(d) \in Nat
  <2>1. p \in RefsOf(d) /\ Cardinality(Below(RefsOf(d), p)) < RuleEvidence - SlotsBefore(d)
    BY DEF First, Below
  <2>2. d.refs # {}
    BY <2>1 DEF RefsOf, First
  <2>3. Ranked(RefsOf(d)) /\ Slots(d) = Cardinality(RefsOf(d)) /\ Slots(d) \in Nat /\ SlotsBefore(d) \in Nat
    BY <2>2, SlotsFollow
  <2>4. Cardinality(Below(RefsOf(d), p)) \in Nat
    BY <2>1, <2>3, BelowIsFinite
  <2>5. Below(RefsOf(d), p) \in SUBSET RefsOf(d) /\ p \notin Below(RefsOf(d), p)
    BY <2>1, <2>3 DEF Below, Ranked
  <2>6. Cardinality(Below(RefsOf(d), p)) <= Slots(d) /\ Cardinality(Below(RefsOf(d), p)) # Slots(d)
    BY <2>1, <2>3, <2>5, FS_Subset DEF Ranked
  <2> QED BY <1>1, <2>1, <2>3, <2>4, <2>6
<1>3. \A pair \in pairs : pair[1] \in D /\ pair[2] \in First(RefsOf(pair[1]), RuleEvidence - SlotsBefore(pair[1]))
  OBVIOUS
<1>4. number \in [pairs -> 0..(RuleEvidence - 1)]
  <2>1. \A pair \in pairs :
          SlotsBefore(pair[1]) + Cardinality(Below(RefsOf(pair[1]), pair[2])) \in 0..(RuleEvidence - 1)
    BY <1>1, <1>2, <1>3
  <2> HIDE DEF pairs
  <2> QED BY <2>1
<1>5. ASSUME NEW x \in pairs, NEW y \in pairs, number[x] = number[y]
      PROVE  x = y
  <2> DEFINE a == x[1]
             b == y[1]
             i == Cardinality(Below(RefsOf(a), x[2]))
             j == Cardinality(Below(RefsOf(b), y[2]))
  <2>1. SlotsBefore(a) + i = SlotsBefore(b) + j
    BY <1>5
  <2>2. a \in D /\ b \in D /\ x = <<a, x[2]>> /\ y = <<b, y[2]>>
    OBVIOUS
  <2>3. /\ x[2] \in RefsOf(a) /\ y[2] \in RefsOf(b) /\ Ranked(RefsOf(a))
        /\ SlotsBefore(a) \in Nat /\ SlotsBefore(b) \in Nat /\ i \in Nat /\ j \in Nat
        /\ i < Slots(a) /\ j < Slots(b) /\ Slots(a) \in Nat /\ Slots(b) \in Nat
    BY <1>2, <1>3
  <2>4. ~(a.rank < b.rank) /\ ~(b.rank < a.rank)
    <3>1. /\ a.rank < b.rank => SlotsBefore(a) + Slots(a) <= SlotsBefore(b)
          /\ b.rank < a.rank => SlotsBefore(b) + Slots(b) <= SlotsBefore(a)
      BY <2>2, SlotsFollow
    <3> HIDE DEF a, b, i, j
    <3> QED BY <2>1, <2>3, <3>1
  <2>5. a = b
    BY <1>1, <2>2, <2>4, RegressedAreRanked
  <2>6. i = j
    <3> HIDE DEF a, b, i, j
    <3> QED BY <2>1, <2>3, <2>5
  <2>7. x[2] = y[2]
    BY <2>3, <2>5, <2>6, PlacesDiffer
  <2> QED BY <2>2, <2>5, <2>7
<1>6. path \in Surjection(pairs, X)
  <2>1. \A p \in X : \E d \in D : p \in First(RefsOf(d), RuleEvidence - SlotsBefore(d))
    OBVIOUS
  <2>2. \A p \in X : \E pair \in pairs : path[pair] = p
    <3>1. SUFFICES ASSUME NEW p \in X  PROVE \E pair \in pairs : path[pair] = p
      OBVIOUS
    <3>2. PICK d \in D : p \in First(RefsOf(d), RuleEvidence - SlotsBefore(d))
      BY <2>1
    <3>3. <<d, p>> \in pairs
      BY <3>2
    <3> QED BY <3>3
  <2>3. path \in [pairs -> X]
    OBVIOUS
  <2> HIDE DEF path, pairs
  <2> QED BY <2>2, <2>3 DEF Surjection
<1> HIDE DEF pairs, number, path
<1>7. IsFiniteSet(pairs) /\ Cardinality(pairs) \in Nat /\ Cardinality(pairs) <= RuleEvidence
  BY <1>1, <1>4, <1>5, NumberedSet
<1>8. IsFiniteSet(X) /\ Cardinality(X) <= Cardinality(pairs)
  BY <1>6, <1>7, FS_Surjection
<1>9. Cardinality(X) \in Nat
  BY <1>8, FS_CardinalityType
<1> QED BY <1>1, <1>7, <1>8, <1>9

LEMMA FirstRankIsPlace ==
  ASSUME NEW S, Ranked(S)
  PROVE  FirstRank(S) \in Nat
<1>1. CASE S = {}
  BY <1>1 DEF FirstRank
<1>2. CASE S # {}
  <2> DEFINE ranks == {PathRank(p) : p \in S}
  <2>1. ranks \in SUBSET Nat /\ ranks # {}
    BY <1>2 DEF Ranked
  <2>2. PICK m \in ranks : \A k \in ranks : ~(k < m)
    BY <2>1, LeastNumber
  <2>3. \A k \in ranks : m <= k
    BY <2>1, <2>2
  <2>4. \A p \in S : m <= PathRank(p)
    BY <2>3
  <2>5. FirstRank(S) = CHOOSE n \in ranks : \A p \in S : n <= PathRank(p)
    BY <1>2 DEF FirstRank
  <2> HIDE DEF ranks
  <2>6. FirstRank(S) \in ranks
    BY <2>2, <2>4, <2>5
  <2> QED BY <2>1, <2>6
<1> QED BY <1>1, <1>2

-----------------------------------------------------------------------------
\* The candidates of one rule: finitely many, no two at one place, and their
\* evidence fits.
SoundRule(rule, S) ==
  /\ IsFiniteSet(S)
  /\ \A c \in S : c.rule = rule /\ c.rank \in Nat /\ Cardinality(c.cites) <= RuleEvidence
  /\ \A c, d \in S : c.rank = d.rank => c = d

LEMMA SoundSingle ==
  ASSUME NEW rule, NEW c, c.rule = rule, c.rank \in Nat, Cardinality(c.cites) <= RuleEvidence
  PROVE  SoundRule(rule, {c})
BY FS_Singleton DEF SoundRule

LEMMA SoundNone ==
  ASSUME NEW rule
  PROVE  SoundRule(rule, {})
BY FS_EmptySet DEF SoundRule

LEMMA OverPathsIsSound ==
  ASSUME NEW rule, NEW severity, NEW S \in SUBSET ChangedPaths
  PROVE  SoundRule(rule, OverPaths(rule, severity, S))
<1>1. Ranked(S)
  BY ChangedAreRanked, RankedPart
<1>2. Cardinality(First(S, RuleEvidence)) <= RuleEvidence /\ FirstRank(S) \in Nat
  BY <1>1, CutFits, FirstRankIsPlace, PrRisksAssumption
<1>3. CASE S = {}
  BY <1>3, SoundNone DEF OverPaths
<1>4. CASE S # {}
  <2> DEFINE c == Draft(rule, severity, FirstRank(S), First(S, RuleEvidence), FALSE, "none", S)
  <2>1. OverPaths(rule, severity, S) = {c}
    BY <1>4 DEF OverPaths
  <2>2. c.rule = rule /\ c.rank = FirstRank(S) /\ c.cites = First(S, RuleEvidence)
    BY DEF Draft
  <2> HIDE DEF c
  <2>3. SoundRule(rule, {c})
    BY <1>2, <2>2, SoundSingle
  <2> QED BY <2>1, <2>3
<1> QED BY <1>3, <1>4

LEMMA CoverageIsSound ==
  ASSUME FactsInv
  PROVE  SoundRule("coverage_regression", CoverageRegression)
<1> DEFINE X == UNION {First(RefsOf(d), RuleEvidence - SlotsBefore(d)) : d \in prFacts.regressed}
<1>1. Cardinality(X) <= RuleEvidence
  BY RegressionFits
<1>2. CASE prFacts.regressed = {}
  BY <1>2, SoundNone DEF CoverageRegression
<1>3. CASE prFacts.regressed # {}
  <2> DEFINE c == Draft("coverage_regression", "high", 0, X,
                    \E d \in prFacts.regressed : d.refs = {} /\ SlotsBefore(d) < RuleEvidence,
                    "none", UNION {d.refs : d \in prFacts.regressed})
  <2>1. CoverageRegression = {c}
    BY <1>3 DEF CoverageRegression
  <2>2. c.rule = "coverage_regression" /\ c.rank = 0 /\ c.cites = X
    BY DEF Draft
  <2> HIDE DEF c, X
  <2>3. SoundRule("coverage_regression", {c})
    BY <1>1, <2>2, SoundSingle
  <2> QED BY <2>1, <2>3
<1> QED BY <1>2, <1>3

\* The groups of untested files: one for each root, of the files of that root.
Group(root) == {p \in UntestedFiles : PathAreas(p) = root}
GroupDraft(root) ==
  Draft("untested_changed_impl", "medium", RootRank(root), First(Group(root), RuleEvidence - 1), TRUE,
        RootState(root), Group(root))

LEMMA GroupDrafts == UntestedChangedImpl = {GroupDraft(root) : root \in ValidationRoots}
BY DEF UntestedChangedImpl, GroupDraft, Group

LEMMA GroupFits ==
  ASSUME NEW root \in ValidationRoots
  PROVE  LET c == GroupDraft(root)
         IN  /\ c.rule = "untested_changed_impl" /\ c.rank = RootRank(root) /\ c.rank \in Nat
             /\ Cardinality(c.cites) \in Nat /\ Cardinality(c.cites) < RuleEvidence
             /\ c.note /\ c.about = Group(root)
<1>1. PICK p \in UntestedFiles : root = PathAreas(p)
  BY DEF ValidationRoots
<1>2. UntestedFiles \in SUBSET ChangedPaths /\ Group(root) \in SUBSET ChangedPaths
  BY DEF UntestedFiles, Group
<1>3. RootRank(root) \in Nat
  BY <1>1, <1>2, ChangedAreRanked, PrRisksAssumption
<1>4. Ranked(Group(root)) /\ RuleEvidence - 1 \in Nat /\ RuleEvidence \in Nat
  BY <1>2, ChangedAreRanked, RankedPart, PrRisksAssumption
<1>5. /\ Cardinality(First(Group(root), RuleEvidence - 1)) \in Nat
      /\ Cardinality(First(Group(root), RuleEvidence - 1)) <= RuleEvidence - 1
  BY <1>4, CutFits
<1> QED BY <1>3, <1>4, <1>5 DEF GroupDraft, Draft

LEMMA RootsDiffer ==
  ASSUME NEW r \in ValidationRoots, NEW s \in ValidationRoots, RootRank(r) = RootRank(s)
  PROVE  r = s
<1>1. \A p \in UntestedFiles : p \in Paths
  BY ChangedAreRanked DEF UntestedFiles
<1> QED BY <1>1, PrRisksAssumption DEF ValidationRoots

LEMMA UntestedIsSound == SoundRule("untested_changed_impl", UntestedChangedImpl)
<1>1. IsFiniteSet(UntestedFiles)
  BY ChangedAreRanked, FS_Subset DEF UntestedFiles, Ranked
<1>2. IsFiniteSet(ValidationRoots)
  <2> DEFINE root == [p \in UntestedFiles |-> PathAreas(p)]
  <2>1. root \in Surjection(UntestedFiles, ValidationRoots)
    BY DEF Surjection, ValidationRoots
  <2> QED BY <1>1, <2>1, FS_Surjection
<1>3. IsFiniteSet(UntestedChangedImpl)
  <2> DEFINE draft == [root \in ValidationRoots |-> GroupDraft(root)]
  <2>1. draft \in Surjection(ValidationRoots, UntestedChangedImpl)
    BY GroupDrafts DEF Surjection
  <2> QED BY <1>2, <2>1, FS_Surjection
<1>4. ASSUME NEW c \in UntestedChangedImpl
      PROVE  c.rule = "untested_changed_impl" /\ c.rank \in Nat /\ Cardinality(c.cites) <= RuleEvidence
  BY GroupDrafts, GroupFits, PrRisksAssumption
<1>5. ASSUME NEW c \in UntestedChangedImpl, NEW d \in UntestedChangedImpl, c.rank = d.rank
      PROVE  c = d
  <2>1. PICK r \in ValidationRoots : c = GroupDraft(r)
    BY GroupDrafts
  <2>2. PICK s \in ValidationRoots : d = GroupDraft(s)
    BY GroupDrafts
  <2>3. RootRank(r) = RootRank(s)
    BY <1>5, <2>1, <2>2, GroupFits
  <2> QED BY <2>1, <2>2, <2>3, RootsDiffer
<1> QED BY <1>3, <1>4, <1>5 DEF SoundRule

LEMMA SecretIsSound == SoundRule("secret_in_diff", SecretInDiff)
<1> DEFINE D(p) == Draft("secret_in_diff", "critical", PathRank(p), {p}, FALSE, "none", {p})
           draft == [p \in Leaks |-> D(p)]
<1>1. Leaks \in SUBSET ChangedPaths
  BY DEF Leaks
<1>2. Ranked(Leaks)
  BY <1>1, ChangedAreRanked, RankedPart
<1>3. SecretInDiff = {D(p) : p \in Leaks}
  BY DEF SecretInDiff
<1>4. \A p \in Leaks : D(p).rule = "secret_in_diff" /\ D(p).rank = PathRank(p) /\ D(p).cites = {p}
  BY DEF Draft
<1> HIDE DEF D
<1>5. IsFiniteSet(SecretInDiff)
  <2>1. draft \in Surjection(Leaks, SecretInDiff)
    BY <1>3 DEF Surjection
  <2> QED BY <1>2, <2>1, FS_Surjection DEF Ranked
<1>6. \A p \in Leaks : Cardinality({p}) <= RuleEvidence
  <2>1. 1 <= RuleEvidence
    BY PrRisksAssumption
  <2>2. \A p \in Leaks : Cardinality({p}) = 1
    BY FS_Singleton
  <2> QED BY <2>1, <2>2
<1>7. \A c \in SecretInDiff : c.rule = "secret_in_diff" /\ c.rank \in Nat /\ Cardinality(c.cites) <= RuleEvidence
  BY <1>2, <1>3, <1>4, <1>6 DEF Ranked
<1>8. \A c, d \in SecretInDiff : c.rank = d.rank => c = d
  BY <1>2, <1>3, <1>4 DEF Ranked
<1> QED BY <1>5, <1>7, <1>8 DEF SoundRule

LEMMA RemovalIsSound == SoundRule("deleted_or_renamed_surface", DeletedOrRenamedSurface)
<1> DEFINE removed == {RemovedPath(p) : p \in RemovedSurfaces}
           contracts == {p \in removed : ExplicitContract(p)}
           first == First(contracts, RuleEvidence)
           others == First(removed \ contracts, RuleEvidence - Cardinality(first))
           leading == IF contracts # {} THEN contracts ELSE removed
           c == Draft("deleted_or_renamed_surface", IF contracts # {} THEN "high" ELSE "low",
                  FirstRank(leading), first \cup others, FALSE, "none", removed)
<1>1. DeletedOrRenamedSurface = IF removed = {} THEN {} ELSE {c}
  BY DEF DeletedOrRenamedSurface
<1>2. c.rule = "deleted_or_renamed_surface" /\ c.rank = FirstRank(leading) /\ c.cites = first \cup others
  BY DEF Draft
<1>3. Ranked(removed) /\ Ranked(contracts) /\ Ranked(removed \ contracts) /\ Ranked(leading)
  BY RemovedPathsAreRanked, RankedPart
<1>4. RuleEvidence \in Nat
  BY PrRisksAssumption
<1> HIDE DEF c, leading
<1>5. IsFiniteSet(first) /\ Cardinality(first) \in Nat /\ Cardinality(first) <= RuleEvidence
  BY <1>3, <1>4, CutFits
<1>6. RuleEvidence - Cardinality(first) \in Nat
  BY <1>4, <1>5
<1>7. /\ IsFiniteSet(others) /\ Cardinality(others) \in Nat
      /\ Cardinality(others) <= RuleEvidence - Cardinality(first)
  BY <1>3, <1>6, CutFits
<1> HIDE DEF removed, contracts, first, others
<1>8. Cardinality(first \cup others) <= RuleEvidence
  <2>1. /\ IsFiniteSet(first \cap others)
        /\ Cardinality(first \cup others) = Cardinality(first) + Cardinality(others) - Cardinality(first \cap others)
    BY <1>5, <1>7, FS_Union, FS_Intersection
  <2>2. Cardinality(first \cap others) \in Nat
    BY <2>1, FS_CardinalityType
  <2> QED BY <1>4, <1>5, <1>7, <2>1, <2>2
<1>9. FirstRank(leading) \in Nat
  BY <1>3, FirstRankIsPlace
<1>10. SoundRule("deleted_or_renamed_surface", {c})
  BY <1>2, <1>8, <1>9, SoundSingle
<1> QED BY <1>1, <1>10, SoundNone

LEMMA FailedIsSound == SoundRule("failed_or_skipped_test", FailedOrSkippedTest)
<1> DEFINE c == Draft("failed_or_skipped_test", "high", 0, {}, TRUE, "none", {})
<1>1. c.rule = "failed_or_skipped_test" /\ c.rank = 0 /\ Cardinality(c.cites) <= RuleEvidence
  <2>1. c.rule = "failed_or_skipped_test" /\ c.rank = 0 /\ c.cites = {}
    BY DEF Draft
  <2>2. Cardinality({}) = 0 /\ 0 <= RuleEvidence
    BY FS_EmptySet, PrRisksAssumption
  <2> QED BY <2>1, <2>2
<1>2. FailedOrSkippedTest = {} \/ FailedOrSkippedTest = {c}
  BY DEF FailedOrSkippedTest
<1> HIDE DEF c
<1> QED BY <1>1, <1>2, SoundSingle, SoundNone

LEMMA LargeIsSound == SoundRule("large_diff", LargeDiff)
<1> DEFINE c == Draft("large_diff", "low", 0, {}, TRUE, "none", {})
<1>1. c.rule = "large_diff" /\ c.rank = 0 /\ Cardinality(c.cites) <= RuleEvidence
  <2>1. c.rule = "large_diff" /\ c.rank = 0 /\ c.cites = {}
    BY DEF Draft
  <2>2. Cardinality({}) = 0 /\ 0 <= RuleEvidence
    BY FS_EmptySet, PrRisksAssumption
  <2> QED BY <2>1, <2>2
<1>2. LargeDiff = {} \/ LargeDiff = {c}
  BY DEF LargeDiff
<1> HIDE DEF c
<1> QED BY <1>1, <1>2, SoundSingle, SoundNone

\* What each rule produces, in the order of the rules.
Fired ==
  <<CoverageRegression, UntestedChangedImpl, UnmappedChange, PrivacySensitiveChange, SecretInDiff,
    CommentSurfaceChange, CiSecretBoundaryChange, SchemaContractChange, DeletedOrRenamedSurface,
    FailedOrSkippedTest, LargeDiff>>

LEMMA FiredRules ==
  ASSUME FactsInv
  PROVE  \A i \in 1..11 : SoundRule(PrRiskRules[i], Fired[i])
<1>1. /\ SoundRule("unmapped_change", UnmappedChange)
      /\ SoundRule("privacy_sensitive_change", PrivacySensitiveChange)
      /\ SoundRule("comment_surface_change", CommentSurfaceChange)
      /\ SoundRule("ci_secret_boundary_change", CiSecretBoundaryChange)
      /\ SoundRule("schema_contract_change", SchemaContractChange)
  <2>1. \A surface : OnSurface(surface) \in SUBSET ChangedPaths
    BY DEF OnSurface
  <2>2. {p \in ChangedPaths : PathAreas(p) = {}} \in SUBSET ChangedPaths
    OBVIOUS
  <2> QED BY <2>1, <2>2, OverPathsIsSound
          DEF UnmappedChange, PrivacySensitiveChange, CommentSurfaceChange, CiSecretBoundaryChange,
              SchemaContractChange
<1>2. /\ SoundRule(PrRiskRules[1], Fired[1]) /\ SoundRule(PrRiskRules[2], Fired[2])
      /\ SoundRule(PrRiskRules[3], Fired[3]) /\ SoundRule(PrRiskRules[4], Fired[4])
      /\ SoundRule(PrRiskRules[5], Fired[5]) /\ SoundRule(PrRiskRules[6], Fired[6])
      /\ SoundRule(PrRiskRules[7], Fired[7]) /\ SoundRule(PrRiskRules[8], Fired[8])
      /\ SoundRule(PrRiskRules[9], Fired[9]) /\ SoundRule(PrRiskRules[10], Fired[10])
      /\ SoundRule(PrRiskRules[11], Fired[11])
  BY <1>1, CoverageIsSound, UntestedIsSound, SecretIsSound, RemovalIsSound, FailedIsSound, LargeIsSound
     DEF PrRiskRules, Fired
<1>3. \A i \in 1..11 : \/ i = 1 \/ i = 2 \/ i = 3 \/ i = 4 \/ i = 5 \/ i = 6 \/ i = 7 \/ i = 8 \/ i = 9
                       \/ i = 10 \/ i = 11
  OBVIOUS
<1> QED BY <1>2, <1>3, Zenon

LEMMA DraftsAreFired ==
  /\ Drafts = UNION {Fired[i] : i \in 1..11}
  /\ UntestedChangedImpl = Fired[2] /\ PrRiskRules[2] = "untested_changed_impl"
<1> DEFINE U == UNION {Fired[i] : i \in 1..11}
<1>1. \A i \in 1..11 : Fired[i] \in SUBSET Drafts
  <2>1. /\ Fired[1] \in SUBSET Drafts /\ Fired[2] \in SUBSET Drafts /\ Fired[3] \in SUBSET Drafts
        /\ Fired[4] \in SUBSET Drafts /\ Fired[5] \in SUBSET Drafts /\ Fired[6] \in SUBSET Drafts
        /\ Fired[7] \in SUBSET Drafts /\ Fired[8] \in SUBSET Drafts /\ Fired[9] \in SUBSET Drafts
        /\ Fired[10] \in SUBSET Drafts /\ Fired[11] \in SUBSET Drafts
    BY DEF Fired, Drafts
  <2>2. \A i \in 1..11 : \/ i = 1 \/ i = 2 \/ i = 3 \/ i = 4 \/ i = 5 \/ i = 6 \/ i = 7 \/ i = 8 \/ i = 9
                         \/ i = 10 \/ i = 11
    OBVIOUS
  <2> QED BY <2>1, <2>2, Zenon
<1>2. Drafts \in SUBSET U
  <2>1. \A c \in Drafts :
          \/ c \in Fired[1] \/ c \in Fired[2] \/ c \in Fired[3] \/ c \in Fired[4] \/ c \in Fired[5]
          \/ c \in Fired[6] \/ c \in Fired[7] \/ c \in Fired[8] \/ c \in Fired[9] \/ c \in Fired[10]
          \/ c \in Fired[11]
    BY DEF Drafts, Fired
  <2>2. \A c \in Drafts : \E i \in 1..11 : c \in Fired[i]
    BY <2>1
  <2> QED BY <2>2, Zenon
<1> QED BY <1>1, <1>2 DEF Fired, PrRiskRules

LEMMA RulesArePlaces ==
  ASSUME NEW i \in 1..11
  PROVE  RulePriority(PrRiskRules[i]) = i
<1>1. \A j \in 1..11 : PrRiskRules[j] = PrRiskRules[i] => j = i
  BY DEF PrRiskRules
<1> QED BY <1>1 DEF RulePriority

LEMMA DraftsAreFinite ==
  ASSUME FactsInv
  PROVE  IsFiniteSet(Drafts)
<1> DEFINE family == {Fired[i] : i \in 1..11}
           fired == [i \in 1..11 |-> Fired[i]]
<1>1. IsFiniteSet(1..11)
  <2>1. 1 \in Int /\ 11 \in Int
    OBVIOUS
  <2> QED BY <2>1, FS_Interval
<1>2. fired \in Surjection(1..11, family)
  BY DEF Surjection
<1>3. IsFiniteSet(family)
  BY <1>1, <1>2, FS_Surjection
<1>4. \A T \in family : IsFiniteSet(T)
  BY FiredRules DEF SoundRule
<1>5. IsFiniteSet(UNION family)
  BY <1>3, <1>4, FS_UNION
<1> QED BY <1>5, DraftsAreFired

LEMMA DraftPlace ==
  ASSUME FactsInv, NEW c \in Drafts
  PROVE  \E i \in 1..11 :
           /\ c \in Fired[i] /\ SoundRule(PrRiskRules[i], Fired[i])
           /\ c.rule = PrRiskRules[i] /\ RulePriority(c.rule) = i
           /\ c.rank \in Nat /\ Cardinality(c.cites) <= RuleEvidence
<1>1. PICK i \in 1..11 : c \in Fired[i]
  BY DraftsAreFired
<1>2. SoundRule(PrRiskRules[i], Fired[i])
  BY FiredRules
<1>3. c.rule = PrRiskRules[i] /\ c.rank \in Nat /\ Cardinality(c.cites) <= RuleEvidence
  BY <1>1, <1>2 DEF SoundRule
<1> QED BY <1>1, <1>2, <1>3, RulesArePlaces

LEMMA PlacesOfDraftsDiffer ==
  ASSUME FactsInv, NEW c \in Drafts, NEW d \in Drafts, RulePriority(c.rule) = RulePriority(d.rule)
  PROVE  c.rule = d.rule /\ (c.rank = d.rank => c = d)
<1>1. PICK i \in 1..11 : c \in Fired[i] /\ SoundRule(PrRiskRules[i], Fired[i])
                         /\ c.rule = PrRiskRules[i] /\ RulePriority(c.rule) = i
  BY DraftPlace
<1>2. PICK j \in 1..11 : d \in Fired[j] /\ d.rule = PrRiskRules[j] /\ RulePriority(d.rule) = j
  BY DraftPlace
<1>3. i = j
  BY <1>1, <1>2
<1> QED BY <1>1, <1>2, <1>3 DEF SoundRule

\* The numbers of the drafts are 1 to their count.
LEMMA DraftsAreNumbered ==
  ASSUME FactsInv, candidates = Drafts
  PROVE  {NumberOf(c) : c \in candidates} = 1..Cardinality(candidates)
<1> DEFINE S == candidates
           precedes(a, b) == \/ RulePriority(a.rule) < RulePriority(b.rule)
                             \/ a.rule = b.rule /\ a.rank < b.rank
           R == {pair \in S \X S : precedes(pair[1], pair[2])}
<1>1. IsFiniteSet(S)
  BY DraftsAreFinite
<1>2. \A c \in S : RulePriority(c.rule) \in Nat /\ c.rank \in Nat
  BY DraftPlace
<1>3. \A c, d \in S : RulePriority(c.rule) = RulePriority(d.rule) => c.rule = d.rule /\ (c.rank = d.rank => c = d)
  BY PlacesOfDraftsDiffer
<1>4. \A c, d \in S : <<c, d>> \in R <=> precedes(c, d)
  OBVIOUS
<1>5. StrictOrder(S, R)
  <2> HIDE DEF R, S
  <2>1. \A a \in S : <<a, a>> \notin R
    BY <1>2, <1>4
  <2>2. \A a, b, c \in S : <<a, b>> \in R /\ <<b, c>> \in R => <<a, c>> \in R
    BY <1>2, <1>4
  <2>3. \A a, b \in S : a # b => <<a, b>> \in R \/ <<b, a>> \in R
    BY <1>2, <1>3, <1>4
  <2> QED BY <2>1, <2>2, <2>3 DEF StrictOrder
<1>6. ASSUME NEW c \in S
      PROVE  NumberOf(c) = 1 + Cardinality(Lower(S, R, c))
  <2>1. Lower(S, R, c) = {d \in S : precedes(d, c)}
    BY <1>4 DEF Lower
  <2> QED BY <2>1, Zenon DEF NumberOf
<1> DEFINE N == Cardinality(S)
<1> HIDE DEF R, S
<1>7. /\ N \in Nat
      /\ \A a \in S : Cardinality(Lower(S, R, a)) \in 0..(N - 1)
      /\ \A n \in 0..(N - 1) : \E a \in S : Cardinality(Lower(S, R, a)) = n
  BY <1>1, <1>5, OrderNumbers
<1> HIDE DEF N
<1>8. \A c \in S : NumberOf(c) \in 1..N
  BY <1>6, <1>7
<1>9. ASSUME NEW n \in 1..N
      PROVE  \E c \in S : NumberOf(c) = n
  <2>1. n - 1 \in 0..(N - 1)
    BY <1>7
  <2>2. PICK c \in S : Cardinality(Lower(S, R, c)) = n - 1
    BY <1>7, <2>1
  <2> QED BY <1>6, <2>2
<1>10. {NumberOf(c) : c \in S} = 1..N
  BY <1>8, <1>9
<1> QED BY <1>10 DEF S, N

LEMMA CandidatesFollow == PrInv /\ FactsInv => CandidatesAreNumbered
<1> SUFFICES ASSUME PrInv, FactsInv  PROVE CandidatesAreNumbered
  OBVIOUS
<1>1. CASE prStage # "built"
  <2>1. candidates = {}
    BY <1>1 DEF FactsInv
  <2>2. {NumberOf(c) : c \in {}} = {} /\ Cardinality({}) = 0 /\ 1..0 = {}
    BY FS_EmptySet
  <2> QED BY <2>1, <2>2 DEF CandidatesAreNumbered
<1>2. CASE prStage = "built"
  <2>1. candidates = Drafts
    BY <1>2 DEF PrInv
  <2>2. ASSUME NEW c \in Drafts, c.rule = "untested_changed_impl"
        PROVE  \E root \in ValidationRoots : c = GroupDraft(root)
    <3>1. PICK i \in 1..11 : c \in Fired[i] /\ c.rule = PrRiskRules[i] /\ RulePriority(c.rule) = i
      BY DraftPlace
    <3>2. i = 2
      BY <2>2, <3>1, RulesArePlaces, DraftsAreFired
    <3> QED BY <3>1, <3>2, DraftsAreFired, GroupDrafts
  <2>3. \A c \in Drafts : Cardinality(c.cites) <= RuleEvidence
    BY DraftPlace
  <2>4. \A c \in Drafts : c.rule = "untested_changed_impl" => Cardinality(c.cites) < RuleEvidence /\ c.note
    BY <2>2, GroupFits
  <2>5. ASSUME NEW c \in Drafts, NEW d \in Drafts, c.rule = "untested_changed_impl", d.rule = c.rule, c # d
        PROVE  c.about \cap d.about = {}
    <3>1. PICK r \in ValidationRoots : c = GroupDraft(r)
      BY <2>2, <2>5
    <3>2. PICK s \in ValidationRoots : d = GroupDraft(s)
      BY <2>2, <2>5
    <3>3. c.about = Group(r) /\ d.about = Group(s) /\ r # s
      BY <2>5, <3>1, <3>2, GroupFits
    <3> QED BY <3>3 DEF Group
  <2>6. {NumberOf(c) : c \in candidates} = 1..Cardinality(candidates)
    BY <2>1, DraftsAreNumbered
  <2> QED BY <2>1, <2>3, <2>4, <2>5, <2>6 DEF CandidatesAreNumbered
<1> QED BY <1>1, <1>2

\* For every tree, path table, run and order of edits and commits: a changed
\* implementation left out of the risks has a changed test of its area or passed a
\* run since the commit that last changed it; every removed test is named; a removed
\* contract is cited unless contracts alone fill the evidence; and each candidate's
\* evidence fits its bound, each untested file is in one group, and the PR-RISK
\* numbers are 1 to the number of candidates.
THEOREM RisksOfThePullRequest == PrSpec => []PrRisksAreComplete
<1>1. PrInv /\ FactsInv => PrRisksAreComplete
  BY UntestedFollows, RemovedTestFollows, RemovedContractFollows, CandidatesFollow DEF PrRisksAreComplete
<1> QED BY PrInitInv, PrStep, FactsHold, <1>1, PTL DEF PrSpec
=============================================================================
