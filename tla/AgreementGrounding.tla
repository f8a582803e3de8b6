------------------------- MODULE AgreementGrounding -------------------------
(***************************************************************************)
(* The deterministic validator of the agreement audit: src/src/audit       *)
(* grounding.ts, completeness.ts, comparison.ts and the evidence rules of  *)
(* contract.ts.  Everything here is a constant-level operator: it takes an *)
(* input, two model-produced ledgers and a confirmation token and returns  *)
(* the audit.                                                              *)
(*                                                                         *)
(* Texts, paths and line numbers are opaque values.  A digest is the       *)
(* record it digests, so two tokens are equal exactly when their inputs    *)
(* and ledger bytes are (SHA-256 is taken to be collision free).           *)
(***************************************************************************)
EXTENDS Naturals, Sequences, FiniteSets

Actors    == {"user", "assistant", "agent", "tool"}
Kinds     == {"human_instruction", "human_boundary",
              "agent_commitment", "validation_claim"}
States    == {"fulfilled", "diverged", "unresolved"}
Sides     == {"add", "delete", "context"}
Scopes    == {"complete", "partial", "ambiguous", "missing"}
Statuses  == {"needs_human_decision", "no_mismatch_found", "cannot_audit"}

\* The value of an optional ledger or token that was not supplied.
None == [absent |-> TRUE]

-----------------------------------------------------------------------------
(* The collected input: scope, the actor of every event, the changed and   *)
(* context lines of the reviewed diff, and the recorded commands with      *)
(* their status and whether they ran on the reviewed head.                 *)

Events(input)     == DOMAIN input.actor
UserEvents(input) == {e \in Events(input) : input.actor[e] = "user"}
Eligible(input)   == {e \in Events(input) : input.actor[e] # "tool"}

KindAllows(kind, actor) ==
  IF kind \in {"human_instruction", "human_boundary"}
  THEN actor = "user"
  ELSE actor \in {"assistant", "agent"}

NeedsDecision(a) == a.state \in {"diverged", "unresolved"}

-----------------------------------------------------------------------------
(* Evidence rules for one agreement.  `cmds' are the commands it cites that *)
(* the input knows, `sides' the sides of its diff citations.               *)

PassedOnHead(cmds) == \E c \in cmds : c.exact /\ c.status = "passed"
FailedOnHead(cmds) == \E c \in cmds : c.exact /\ c.status = "failed"

EvidenceSuffices(kind, state, sides, cmds) ==
  \/ state = "unresolved"
  \/ /\ state = "diverged"
     /\ IF kind = "validation_claim"
        THEN FailedOnHead(cmds)
        ELSE sides \ {"context"} # {}
  \/ /\ state = "fulfilled"
     /\ \A c \in cmds : c.status = "passed"
     /\ \/ PassedOnHead(cmds)
        \/ sides \ {"context"} # {}
        \/ kind = "human_boundary" /\ sides # {}
     /\ kind = "validation_claim" => PassedOnHead(cmds)

KnownCommands(input, a) ==
  {input.command[c] : c \in a.commands \cap DOMAIN input.command}

\* Defect: any line at the coordinate will do, whatever the citation quotes.
MutCitationMatches(input, cite) == <<cite.side, cite.line>> \in input.diff

\* A citation names a coordinate (side and line) and quotes text; `quoted'
\* says whether that text occurs in the line at the coordinate.
CitationMatches(input, cite) ==
  /\ <<cite.side, cite.line>> \in input.diff
  /\ cite.quoted

\* Every check of validateAgreement but the duplicate key.
Sound(input, a) ==
  /\ a.events # {}
  /\ a.events \subseteq Events(input)
  /\ \A e \in a.events \cap Events(input) : KindAllows(a.kind, input.actor[e])
  /\ \A cite \in a.citations : CitationMatches(input, cite)
  /\ a.commands \subseteq DOMAIN input.command
  /\ \A c \in KnownCommands(input, a) : c.exact
  /\ EvidenceSuffices(a.kind, a.state, {cite.side : cite \in a.citations},
                      KnownCommands(input, a))
  /\ NeedsDecision(a) => a.action

\* The loop records the key of an agreement only when it accepts it, so an
\* agreement is a duplicate exactly when an earlier sound one has its key.
Accepted(input, candidate) ==
  LET as == candidate.agreements IN
  {i \in DOMAIN as :
     /\ Sound(input, as[i])
     /\ \A j \in 1..(i - 1) : Sound(input, as[j]) => as[j].key # as[i].key}

GoalGrounded(input, candidate) ==
  /\ candidate.goal # {}
  /\ candidate.goal \subseteq UserEvents(input)

-----------------------------------------------------------------------------
(* The separate coverage pass.                                             *)

\* The disposition that counts for an event is the first one listed.
FirstDispositions(coverage) ==
  LET ds == coverage.dispositions IN
  {i \in DOMAIN ds : \A j \in 1..(i - 1) : ds[j].event # ds[i].event}

\* A Map built from the agreements keeps the last one of each key.
LastWithKey(candidate, key) ==
  LET as == candidate.agreements IN
  {i \in DOMAIN as : /\ as[i].key = key
                     /\ \A j \in DOMAIN as : j > i => as[j].key # key}

DispositionSound(input, candidate, d) ==
  /\ d.event \in Eligible(input)
  /\ \/ /\ d.disposition = "represented"
        /\ d.keys # {}
        /\ \A key \in d.keys :
             \E i \in LastWithKey(candidate, key) :
               d.event \in candidate.agreements[i].events
     \/ /\ d.disposition = "non_material"
        /\ d.keys = {}
        /\ d.reason

\* Defect: a represented event stands for every agreement that cites it.
MutRepresentedBy(coverage, e, key) ==
  \E i \in FirstDispositions(coverage) :
    LET d == coverage.dispositions[i] IN
    d.event = e /\ d.disposition = "represented"

RepresentedBy(coverage, e, key) ==
  \E i \in FirstDispositions(coverage) :
    LET d == coverage.dispositions[i] IN
    d.event = e /\ d.disposition = "represented" /\ key \in d.keys

\* verifyAgreementCompleteness(...).verified
StructurallyVerified(input, candidate, coverage) ==
  /\ coverage # None
  /\ \A i \in DOMAIN candidate.agreements :
       Cardinality(candidate.agreements[i].events \cap Eligible(input)) <= 1
  /\ FirstDispositions(coverage) = DOMAIN coverage.dispositions
  /\ \A i \in DOMAIN coverage.dispositions :
       DispositionSound(input, candidate, coverage.dispositions[i])
  /\ \A e \in Eligible(input) :
       \E i \in DOMAIN coverage.dispositions : coverage.dispositions[i].event = e
  /\ \A i \in DOMAIN candidate.agreements :
       \A e \in candidate.agreements[i].events \cap Eligible(input) :
         RepresentedBy(coverage, e, candidate.agreements[i].key)
  /\ coverage.complete
  /\ ~coverage.missing
  /\ ~coverage.limited

-----------------------------------------------------------------------------
(* The confirmation token and the audit.                                   *)

Token(input, bytes) == [canonical |-> input, artifacts |-> bytes]

\* `bytes' are the three ledger files as written or read, or None when one
\* of them does not exist.
OfferedToken(input, coverage, bytes) ==
  IF coverage = None \/ bytes = None THEN None ELSE Token(input, bytes)

\* Defect: any token confirms.
MutConfirmed(input, coverage, bytes, given) ==
  OfferedToken(input, coverage, bytes) # None /\ given # None

Confirmed(input, coverage, bytes, given) ==
  LET offered == OfferedToken(input, coverage, bytes) IN
  offered # None /\ given = offered

\* Once confirmed, every non_material disposition waives its event, whether
\* or not the coverage pass as a whole was accepted.
Waived(coverage) ==
  {coverage.dispositions[i].event : i \in
     {j \in DOMAIN coverage.dispositions :
        coverage.dispositions[j].disposition = "non_material"}}

AccountedEvents(input, candidate, coverage, bytes, given) ==
  UNION {candidate.agreements[i].events : i \in Accepted(input, candidate)}
    \cup (IF Confirmed(input, coverage, bytes, given)
          THEN Waived(coverage) ELSE {})

CannotAudit(input, candidate, coverage, bytes, given) ==
  \/ input.scope # "complete"
  \/ Events(input) = {}
  \/ Accepted(input, candidate) = {}
  \/ ~candidate.complete
  \/ Accepted(input, candidate) # DOMAIN candidate.agreements
  \/ ~GoalGrounded(input, candidate)
  \/ ~(UserEvents(input) \subseteq
         AccountedEvents(input, candidate, coverage, bytes, given))

Decides(input, candidate) ==
  \E i \in Accepted(input, candidate) : NeedsDecision(candidate.agreements[i])

\* Defect: a structurally complete coverage pass needs no confirmation.
MutVerified(input, candidate, coverage, bytes, given) ==
  StructurallyVerified(input, candidate, coverage)

Verified(input, candidate, coverage, bytes, given) ==
  /\ StructurallyVerified(input, candidate, coverage)
  /\ Confirmed(input, coverage, bytes, given)

Status(input, candidate, coverage, bytes, given) ==
  IF CannotAudit(input, candidate, coverage, bytes, given) THEN "cannot_audit"
  ELSE IF Decides(input, candidate) THEN "needs_human_decision"
  ELSE IF /\ Verified(input, candidate, coverage, bytes, given)
          /\ ~candidate.limited
       THEN "no_mismatch_found"
  ELSE "cannot_audit"

\* groundAgreementAudit: the part of the result later steps depend on.
Audit(input, candidate, coverage, bytes, given) ==
  [status   |-> Status(input, candidate, coverage, bytes, given),
   verified |-> Verified(input, candidate, coverage, bytes, given),
   token    |-> OfferedToken(input, coverage, bytes)]

-----------------------------------------------------------------------------
(* Comparison of the decisions of two audits.  A decision is an agreement  *)
(* that needs one; `current' and `previous' are sequences of agreements,   *)
(* each with unique keys (the validator and the parser see to that).       *)

Decisions(agreements) == {i \in DOMAIN agreements : NeedsDecision(agreements[i])}

\* `statement' also stands for the materiality text.
Identity(a) == <<a.kind, a.statement, a.state, a.events>>

SameKeyPairs(current, previous) ==
  {p \in Decisions(current) \X Decisions(previous) :
     /\ current[p[1]].key = previous[p[2]].key
     /\ Identity(current[p[1]]) = Identity(previous[p[2]])}

\* Defect: the second pass forgets what the first one paired.
MutSameIdentityPairs(current, previous) ==
  {p \in Decisions(current) \X Decisions(previous) :
     Identity(current[p[1]]) = Identity(previous[p[2]])}

\* A second pass pairs what is left over when the identity is unique on
\* both sides.
SameIdentityPairs(current, previous) ==
  LET byKey == SameKeyPairs(current, previous)
      cs == Decisions(current) \ {p[1] : p \in byKey}
      ps == Decisions(previous) \ {p[2] : p \in byKey}
      Only(i, set, as) ==
        \A k \in set : Identity(as[k]) = Identity(as[i]) => k = i
  IN {p \in cs \X ps :
        /\ Identity(current[p[1]]) = Identity(previous[p[2]])
        /\ Only(p[1], cs, current)
        /\ Only(p[2], ps, previous)}

\* compareAgreementAuditDecisions, with positions in place of keys.
Comparison(current, previous, status, verified) ==
  LET pairs == SameKeyPairs(current, previous)
                 \cup SameIdentityPairs(current, previous)
      gone == Decisions(previous) \ {p[2] : p \in pairs}
      conclusive == status # "cannot_audit" /\ verified
  IN [unchanged  |-> pairs,
      new        |-> Decisions(current) \ {p[1] : p \in pairs},
      resolved   |-> IF conclusive THEN gone ELSE {},
      unverified |-> IF conclusive THEN {} ELSE gone]
=============================================================================
