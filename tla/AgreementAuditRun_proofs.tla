---------------------- MODULE AgreementAuditRun_proofs ----------------------
(***************************************************************************)
(* Theorems about the invocations of the agreement audit over one output   *)
(* directory, for every set of invocations, inputs, extractions and        *)
(* coverage answers.  The ones about the lock, the saved ledgers and the   *)
(* published pair assume that a live holder refreshes its lock in time     *)
(* (~MayStall): a run that stalls past the stale threshold is overtaken,   *)
(* and the code does not notice.  What a clean verdict rests on, and the   *)
(* refinement of AgreementVerdict, need no such assumption.                *)
(***************************************************************************)
EXTENDS AgreementAuditRun, TLAPS

-----------------------------------------------------------------------------
(* Values: what a ledger, a token and an audit are, and what a write       *)
(* keeps.                                                                  *)

\* Nothing is neither a token nor an audit; the audit of a run that gave up
\* is an audit.
LEMMA NoneIsNoRecord ==
  /\ None \notin AllTokens
  /\ None \notin AllAudits
  /\ Incomplete \in AllAudits
<1>1. None \notin AllTokens
  BY DEF None, AllTokens
<1>2. None \notin AllAudits
  BY DEF None, AllAudits
<1>3. Incomplete \in AllAudits
  BY DEF Incomplete, AllAudits, Statuses
<1> QED BY <1>1, <1>2, <1>3

\* groundAgreementAudit returns an audit, whatever it is given, when the
\* token it offers is one.
LEMMA AuditType ==
  ASSUME NEW i, NEW c, NEW v, NEW b, NEW t, OfferedToken(i, v, b) \in AllTokens \cup {None}
  PROVE  Audit(i, c, v, b, t) \in AllAudits
<1>1. Status(i, c, v, b, t) \in Statuses
  BY DEF Status, Statuses
<1>2. Verified(i, c, v, b, t) \in BOOLEAN
  BY DEF Verified, Confirmed
<1> QED BY <1>1, <1>2 DEF Audit, AllAudits

\* Adding a limitation to an extraction leaves its agreements alone.
LEMMA CandidateKept ==
  ASSUME NEW c \in Candidates, NEW b
  PROVE  /\ [c EXCEPT !.limited = b].agreements = c.agreements
         /\ [c EXCEPT !.limited = b].limited = b
BY LedgerAssumption

\* The structural check of the coverage pass reads the agreements of the
\* extraction and nothing else of it.
LEMMA CoverageReadsAgreements ==
  ASSUME NEW i, NEW c, NEW d, NEW v, c.agreements = d.agreements, StructurallyVerified(i, c, v)
  PROVE  StructurallyVerified(i, d, v)
BY DEF StructurallyVerified, DispositionSound, LastWithKey

\* A file that is given content of its own kind leaves the output directory
\* well typed.
LEMMA WriteTyped ==
  ASSUME disk \in [Files -> UNION {ContentOf(f) : f \in Files}],
         \A f \in Files : disk[f] \in ContentOf(f),
         NEW g \in Files, NEW c \in ContentOf(g)
  PROVE  /\ [disk EXCEPT ![g] = c] \in [Files -> UNION {ContentOf(f) : f \in Files}]
         /\ \A f \in Files : [disk EXCEPT ![g] = c][f] \in ContentOf(f)
OBVIOUS

\* A process may hold what was collected, answered or read, or nothing.
LEMMA HoldTyped ==
  ASSUME ledgers \in [Proc -> HeldLedgers], NEW p \in Proc
  PROVE  /\ \A i \in Inputs : [ledgers EXCEPT ![p].input = i] \in [Proc -> HeldLedgers]
         /\ \A c \in Candidates : [ledgers EXCEPT ![p].candidate = c] \in [Proc -> HeldLedgers]
         /\ \A v \in Coverages : [ledgers EXCEPT ![p].completeness = v] \in [Proc -> HeldLedgers]
         /\ [ledgers EXCEPT ![p] = Blank] \in [Proc -> HeldLedgers]
BY DEF HeldLedgers, Blank

\* The kinds of content the five files may hold.
LEMMA ContentsOf ==
  /\ "input" \in Files /\ ContentOf("input") = Inputs \cup {None, Torn}
  /\ "candidate" \in Files /\ ContentOf("candidate") = Candidates \cup {None, Torn}
  /\ "completeness" \in Files /\ ContentOf("completeness") = Coverages \cup {None, Torn}
  /\ "json" \in Files /\ ContentOf("json") = AllAudits \cup {None}
  /\ "md" \in Files /\ ContentOf("md") = AllAudits \cup {None}
  /\ \A f \in Files : None \in ContentOf(f)
  /\ \A f \in Ledgers : f \in Files /\ Torn \in ContentOf(f)
BY DEF Files, Ledgers, ContentOf

-----------------------------------------------------------------------------
(* The phases of an invocation: what its command, its token and what it    *)
(* holds must be at each step.  Types are not inductive without them: a    *)
(* run grounds the input it collected, and publishes the audit it          *)
(* grounded.                                                               *)

\* The steps an invocation can be at once it has an audit.
AfterGround == {"lock", "publish", "publish_md", "release", "done"}

\* The steps at which a run holds an input ledger, and an extraction.
HasInput(p) == pc[p] \in {"extract", "cover", "ground"} \/ (pc[p] = "read" /\ at[p] > 1)

HasCandidate(p) == pc[p] \in {"cover", "ground"} \/ (pc[p] = "read" /\ at[p] = 3)

PhaseOK(p) ==
    /\ cmd[p] = "audit" => token[p] = None
    /\ cmd[p] = "confirm" => token[p] # None
    /\ pc[p] = "new" => cmd[p] = "audit" /\ audit[p] = None
    /\ pc[p] \in {"clear", "extract", "cover"} => cmd[p] = "audit"
    /\ pc[p] \in {"collect", "build"} => cmd[p] # "finalize"
    /\ pc[p] = "read" => cmd[p] # "audit"
    /\ pc[p] = "lock" => cmd[p] = "finalize"
    /\ pc[p] \notin {"clear", "read"} => at[p] = 1
    /\ cmd[p] # "finalize" /\
          pc[p] \in {"clear", "build", "read", "extract", "cover", "ground"} => input[p] # None
    /\ HasInput(p) => ledgers[p].input # None
    /\ HasCandidate(p) => ledgers[p].candidate # None
    /\ pc[p] \in {"lock", "publish", "publish_md"} => audit[p] # None
    /\ audit[p] # None => pc[p] \in AfterGround

PhaseInv == \A p \in Proc : PhaseOK(p)

\* What a run grounds is what it collected or read, so its result is an
\* audit.
LEMMA GroundedType ==
  ASSUME TypeOK, PhaseInv, NEW p \in Proc, pc[p] = "ground"
  PROVE  Grounded(p) \in AllAudits
<1> DEFINE l == ledgers[p]
           i == IF cmd[p] = "finalize" THEN l.input ELSE input[p]
<1>1. l \in HeldLedgers /\ input[p] \in Inputs \cup {None}
  BY DEF TypeOK
<1>2. (cmd[p] # "finalize" => input[p] # None) /\ l.input # None /\ l.candidate # None
  BY DEF PhaseInv, PhaseOK, HasInput, HasCandidate
<1>3. i \in Inputs /\ l.input \in Inputs /\ l.candidate \in Candidates
  BY <1>1, <1>2 DEF HeldLedgers
<1>4. l.completeness # None => l \in LedgerSets
  BY <1>1, <1>3 DEF HeldLedgers, LedgerSets
<1>5. OfferedToken(i, l.completeness, Bytes(p)) \in AllTokens \cup {None}
  BY <1>3, <1>4 DEF OfferedToken, Bytes, Token, AllTokens
<1> QED BY <1>5, AuditType DEF Grounded

\* One step of one invocation, or of what befalls it.
Acts(p) == Start(p) \/ Run(p) \/ Crash(p) \/ Stall(p)

\* No step changes what another invocation holds, or where it is: they meet
\* only in the files and the lock.
LEMMA OthersKeep ==
  ASSUME TypeOK, NEW p \in Proc, Acts(p), NEW q \in Proc, q # p
  PROVE  /\ pc'[q] = pc[q] /\ at'[q] = at[q] /\ cmd'[q] = cmd[q] /\ token'[q] = token[q]
         /\ input'[q] = input[q] /\ ledgers'[q] = ledgers[q] /\ audit'[q] = audit[q]
         /\ saved'[q] = saved[q]
<1>1. CASE Start(p)
  BY <1>1 DEF Start, StartAudit, StartConfirm, StartLocked, StartFinalize, Goto, TypeOK
<1>2. CASE Run(p)
  <2>1. CASE Collect(p) \/ Clear(p) \/ NoConversation(p) \/ SaveInput(p) \/ StartReading(p)
    BY <2>1
       DEF Collect, Clear, NoConversation, SaveInput, StartReading, GiveUp, Goto, TypeOK, local,
           faults
  <2>2. CASE Read(p) \/ SkipCompleteness(p) \/ Extract(p) \/ ExtractionFails(p) \/ Cover(p)
             \/ CoverageFails(p)
    BY <2>2
       DEF Read, SkipCompleteness, Extract, ExtractionFails, Cover, CoverageFails, GiveUp, Goto,
           TypeOK, local, faults
  <2>3. CASE Ground(p) \/ LockToPublish(p) \/ PublishJson(p) \/ PublishMd(p) \/ Rollback(p)
    BY <2>3
       DEF Ground, LockToPublish, PublishJson, PublishMd, Rollback, Goto, TypeOK, local, faults
  <2>4. CASE Release(p) \/ Throw(p)
    BY <2>4 DEF Release, Throw, Forget, Goto, TypeOK, faults
  <2> QED BY <1>2, <2>1, <2>2, <2>3, <2>4 DEF Run
<1>3. CASE Crash(p)
  BY <1>3 DEF Crash, Forget, Goto, TypeOK
<1>4. CASE Stall(p)
  BY <1>4 DEF Stall, local
<1> QED BY <1>1, <1>2, <1>3, <1>4 DEF Acts

\* Any content.
Content == UNION {ContentOf(f) : f \in Files}

\* Every step keeps the types.
LEMMA TypeStep ==
  ASSUME TypeOK, PhaseInv, [Next]_vars
  PROVE  TypeOK'
<1>d. disk \in [Files -> Content] /\ \A f \in Files : disk[f] \in ContentOf(f)
  BY DEF TypeOK, Content
<1>o. origin \in [Ledgers -> SUBSET Proc] /\ lock \in Proc \cup {None}
  BY DEF TypeOK
<1>c. /\ pc \in [Proc -> Steps] /\ at \in [Proc -> 1..3]
      /\ cmd \in [Proc -> {"audit", "confirm", "finalize"}]
  BY DEF TypeOK
<1>k. shown \subseteq AllTokens /\ token \in [Proc -> shown \cup {None}]
  BY DEF TypeOK
<1>i. /\ input \in [Proc -> Inputs \cup {None}] /\ ledgers \in [Proc -> HeldLedgers]
      /\ lost \in [Proc -> BOOLEAN]
  BY DEF TypeOK
<1>s. saved \in [Proc -> (AllAudits \cup {None}) \X (AllAudits \cup {None})] /\
         audit \in [Proc -> AllAudits \cup {None}]
  BY DEF TypeOK
<1>f. dead \cup stalled \subseteq Proc
  BY DEF TypeOK
<1> USE DEF Runs, Goto
<1>1. CASE UNCHANGED vars
  BY <1>1 DEF TypeOK, vars
<1>2. ASSUME NEW p \in Proc, Start(p)
      PROVE  TypeOK'
  <2>1. ASSUME NEW command \in {"audit", "confirm"}, NEW t \in shown \cup {None},
           StartLocked(p, command, t)
        PROVE  TypeOK'
    <3>1. pc' \in [Proc -> Steps] /\ cmd' \in [Proc -> {"audit", "confirm", "finalize"}]
      BY <2>1, <1>c DEF StartLocked, Steps
    <3>2. token' \in [Proc -> shown \cup {None}] /\ lock' \in Proc \cup {None}
      BY <2>1, <1>k DEF StartLocked
    <3>3. UNCHANGED <<disk, origin, at, input, ledgers, lost, audit, saved, dead, stalled, shown>>
      BY <2>1 DEF StartLocked
    <3> QED BY <3>1, <3>2, <3>3, <1>d, <1>o, <1>c, <1>k, <1>i, <1>s, <1>f DEF TypeOK, Content
  <2>2. ASSUME StartFinalize(p)
        PROVE  TypeOK'
    <3>1. pc' \in [Proc -> Steps] /\ cmd' \in [Proc -> {"audit", "confirm", "finalize"}]
      BY <2>2, <1>c DEF StartFinalize, Steps
    <3>2. token' \in [Proc -> shown \cup {None}]
      BY <2>2, <1>k DEF StartFinalize
    <3>3. UNCHANGED <<disk, origin, lock, at, input, ledgers, lost, audit, saved, dead, stalled,
             shown>>
      BY <2>2 DEF StartFinalize
    <3> QED BY <3>1, <3>2, <3>3, <1>d, <1>o, <1>c, <1>k, <1>i, <1>s, <1>f DEF TypeOK, Content
  <2> QED BY <1>2, <2>1, <2>2 DEF Start, StartAudit, StartConfirm
<1>3. ASSUME NEW p \in Proc, Run(p)
      PROVE  TypeOK'
  <2> DEFINE control == pc' \in [Proc -> Steps] /\ at' \in [Proc -> 1..3]
             files   == disk' \in [Files -> Content] /\
                (\A f \in Files : disk'[f] \in ContentOf(f))
                          /\ origin' \in [Ledgers -> SUBSET Proc]
  <2>1. CASE Collect(p)
    <3>1. control /\ input' \in [Proc -> Inputs \cup {None}]
      BY <2>1, <1>c, <1>i DEF Collect, Steps
    <3> QED BY <2>1, <3>1, <1>d, <1>o, <1>c, <1>k, <1>i, <1>s, <1>f DEF TypeOK, Content, Collect
  <2>2. CASE Clear(p)
    <3>1. PICK f \in Ledgers : f = Working[at[p]]
      BY <1>c DEF Working, Ledgers
    <3>2. disk' = [disk EXCEPT ![f] = None] /\ origin' = [origin EXCEPT ![f] = {}]
      BY <2>2, <3>1 DEF Clear
    <3>3. files
      BY <3>1, <3>2, <1>d, <1>o, WriteTyped, ContentsOf DEF Content
    <3>4. control
      BY <2>2, <1>c DEF Clear, Steps
    <3> QED BY <2>2, <3>3, <3>4, <1>o, <1>c, <1>k, <1>i, <1>s, <1>f
               DEF TypeOK, Content, Clear, local, faults
  <2>3. CASE NoConversation(p) \/ ExtractionFails(p)
    <3>1. control /\ audit' \in [Proc -> AllAudits \cup {None}]
      BY <2>3, <1>c, <1>s, NoneIsNoRecord DEF NoConversation, ExtractionFails, GiveUp, Steps
    <3> QED BY <2>3, <3>1, <1>d, <1>o, <1>c, <1>k, <1>i, <1>s, <1>f
            DEF TypeOK, Content, NoConversation, ExtractionFails, GiveUp, faults
  <2>4. CASE SaveInput(p)
    <3>1. input[p] \in Inputs
      BY <2>4, <1>i DEF SaveInput, PhaseInv, PhaseOK
    <3>2. files
      <4>1. disk' = [disk EXCEPT !["input"] = input[p]]
        BY <2>4 DEF SaveInput
      <4>2. origin' \in [Ledgers -> SUBSET Proc]
        BY <2>4, <1>o DEF SaveInput
      <4> QED BY <3>1, <4>1, <4>2, <1>d, WriteTyped, ContentsOf DEF Content
    <3>3. ledgers' \in [Proc -> HeldLedgers]
      BY <2>4, <3>1, <1>i, HoldTyped DEF SaveInput
    <3>4. control
      BY <2>4, <1>c DEF SaveInput, Steps
    <3> QED BY <2>4, <3>2, <3>3, <3>4, <1>o, <1>c, <1>k, <1>i, <1>s, <1>f
               DEF TypeOK, Content, SaveInput, faults
  <2>5. CASE StartReading(p) \/ SkipCompleteness(p)
    <3>1. control
      BY <2>5, <1>c DEF StartReading, SkipCompleteness, Steps
    <3> QED BY <2>5, <3>1, <1>d, <1>o, <1>c, <1>k, <1>i, <1>s, <1>f
            DEF TypeOK, Content, StartReading, SkipCompleteness, local, faults
  <2>6. CASE Read(p)
    <3>1. control
      BY <2>6, <1>c DEF Read, Steps
    <3>2. ledgers' \in [Proc -> HeldLedgers]
      <4>1. PICK f \in Ledgers : f = Working[at[p]]
        BY <1>c DEF Working, Ledgers
      <4>2. disk[f] \notin {None, Torn} /\ ledgers' = [ledgers EXCEPT ![p][f] = disk[f]]
        BY <2>6, <4>1 DEF Read
      <4>3. disk[f] \in ContentOf(f)
        BY <1>d, ContentsOf
      <4>4. CASE f = "input"
        BY <4>2, <4>3, <4>4, <1>i, HoldTyped, ContentsOf
      <4>5. CASE f = "candidate"
        BY <4>2, <4>3, <4>5, <1>i, HoldTyped, ContentsOf
      <4>6. CASE f = "completeness"
        BY <4>2, <4>3, <4>6, <1>i, HoldTyped, ContentsOf
      <4> QED BY <4>4, <4>5, <4>6 DEF Ledgers
    <3> QED BY <2>6, <3>1, <3>2, <1>d, <1>o, <1>c, <1>k, <1>i, <1>s, <1>f
               DEF TypeOK, Content, Read, faults
  <2>7. CASE Extract(p)
    <3>1. PICK c \in Candidates : ledgers' = [ledgers EXCEPT ![p].candidate = c] /\
             disk' = [disk EXCEPT !["candidate"] = c]
      BY <2>7 DEF Extract
    <3>2. files
      <4>1. c \in ContentOf("candidate")
        BY ContentsOf
      <4>2. origin' \in [Ledgers -> SUBSET Proc]
        BY <2>7, <1>o DEF Extract
      <4> QED BY <3>1, <4>1, <4>2, <1>d, WriteTyped, ContentsOf DEF Content
    <3>3. ledgers' \in [Proc -> HeldLedgers] /\ control
      BY <2>7, <3>1, <1>i, <1>c, HoldTyped DEF Extract, Steps
    <3> QED BY <2>7, <3>2, <3>3, <1>o, <1>c, <1>k, <1>i, <1>s, <1>f
               DEF TypeOK, Content, Extract, faults
  <2>8. CASE Cover(p)
    <3>1. PICK v \in Coverages : ledgers' = [ledgers EXCEPT ![p].completeness = v] /\
             disk' = [disk EXCEPT !["completeness"] = v]
      BY <2>8 DEF Cover
    <3>2. files
      <4>1. v \in ContentOf("completeness")
        BY ContentsOf
      <4>2. origin' \in [Ledgers -> SUBSET Proc]
        BY <2>8, <1>o DEF Cover
      <4> QED BY <3>1, <4>1, <4>2, <1>d, WriteTyped, ContentsOf DEF Content
    <3>3. ledgers' \in [Proc -> HeldLedgers] /\ control
      BY <2>8, <3>1, <1>i, <1>c, HoldTyped DEF Cover, Steps
    <3> QED BY <2>8, <3>2, <3>3, <1>o, <1>c, <1>k, <1>i, <1>s, <1>f
               DEF TypeOK, Content, Cover, faults
  <2>9. CASE CoverageFails(p)
    <3>1. control /\ lost' \in [Proc -> BOOLEAN]
      BY <2>9, <1>c, <1>i DEF CoverageFails, Steps
    <3> QED BY <2>9, <3>1, <1>d, <1>o, <1>c, <1>k, <1>i, <1>s, <1>f
               DEF TypeOK, Content, CoverageFails, faults
  <2>10. CASE Ground(p)
    <3>1. Grounded(p) \in AllAudits
      BY <2>10, GroundedType DEF Ground
    <3>2. control /\ audit' \in [Proc -> AllAudits \cup {None}]
      BY <2>10, <3>1, <1>c, <1>s DEF Ground, Steps
    <3> QED BY <2>10, <3>2, <1>d, <1>o, <1>c, <1>k, <1>i, <1>s, <1>f
               DEF TypeOK, Content, Ground, faults
  <2>11. CASE LockToPublish(p)
    <3>1. control /\ lock' \in Proc \cup {None}
      BY <2>11, <1>c DEF LockToPublish, Steps
    <3> QED BY <2>11, <3>1, <1>d, <1>o, <1>c, <1>k, <1>i, <1>s, <1>f
               DEF TypeOK, Content, LockToPublish, local, faults
  <2>12. CASE PublishJson(p)
    <3>1. audit[p] \in AllAudits
      BY <2>12, <1>s DEF PublishJson, PhaseInv, PhaseOK
    <3>2. audit[p].token \in AllTokens \cup {None}
      BY <3>1 DEF AllAudits
    <3>3. files
      BY <2>12, <3>1, <1>d, <1>o, WriteTyped, ContentsOf DEF Content, PublishJson
    <3>4. control /\ saved' \in [Proc -> (AllAudits \cup {None}) \X (AllAudits \cup {None})]
      BY <2>12, <1>c, <1>d, <1>s, ContentsOf DEF PublishJson, Steps
    <3>5. shown' \subseteq AllTokens /\ token' \in [Proc -> shown' \cup {None}]
      BY <2>12, <3>2, <1>k DEF PublishJson
    <3> QED BY <2>12, <3>3, <3>4, <3>5, <1>o, <1>c, <1>i, <1>s, <1>f
               DEF TypeOK, Content, PublishJson, faults
  <2>13. CASE PublishMd(p)
    <3>1. audit[p] \in AllAudits
      BY <2>13, <1>s DEF PublishMd, PhaseInv, PhaseOK
    <3>2. files
      BY <2>13, <3>1, <1>d, <1>o, WriteTyped, ContentsOf DEF Content, PublishMd
    <3>3. control
      BY <2>13, <1>c DEF PublishMd, Steps
    <3> QED BY <2>13, <3>2, <3>3, <1>o, <1>c, <1>k, <1>i, <1>s, <1>f
               DEF TypeOK, Content, PublishMd, local, faults
  <2>14. CASE Rollback(p)
    <3>1. saved[p][1] \in AllAudits \cup {None} /\ saved[p][2] \in AllAudits \cup {None}
      BY <1>s
    <3>2. files
      <4>1. disk' = [[disk EXCEPT !["json"] = saved[p][1]] EXCEPT !["md"] = saved[p][2]]
        BY <2>14 DEF Rollback
      <4>2. \A f \in Files : disk'[f] = IF f = "md" THEN saved[p][2]
               ELSE IF f = "json" THEN saved[p][1] ELSE disk[f]
        BY <4>1, <1>d
      <4>3. \A f \in Files : disk'[f] \in ContentOf(f)
        BY <4>2, <3>1, <1>d, ContentsOf
      <4>4. disk' \in [Files -> Content]
        BY <4>1, <4>3, <1>d DEF Content
      <4> QED BY <2>14, <4>3, <4>4, <1>o DEF Rollback
    <3>3. control
      BY <2>14, <1>c DEF Rollback, Steps
    <3> QED BY <2>14, <3>2, <3>3, <1>o, <1>c, <1>k, <1>i, <1>s, <1>f
               DEF TypeOK, Content, Rollback, local, faults
  <2>15. CASE Release(p) \/ Throw(p)
    <3>1. control
      BY <2>15, <1>c DEF Release, Throw, Forget, Steps
    <3>2. lock' \in Proc \cup {None}
      BY <2>15, <1>o DEF Release, Throw
    <3>3. ledgers' = [ledgers EXCEPT ![p] = Blank] /\ lost' \in [Proc -> BOOLEAN]
      BY <2>15, <1>i DEF Release, Throw, Forget
    <3>5. ledgers' \in [Proc -> HeldLedgers]
      BY <3>3, <1>i, HoldTyped
    <3>4. saved' \in [Proc -> (AllAudits \cup {None}) \X (AllAudits \cup {None})]
      BY <2>15, <1>s DEF Release, Throw, Forget
    <3> QED BY <2>15, <3>1, <3>2, <3>3, <3>4, <3>5, <1>d, <1>o, <1>c, <1>k, <1>i, <1>s, <1>f
            DEF TypeOK, Content, Release, Throw, faults
  <2> QED BY <1>3, <2>1, <2>2, <2>3, <2>4, <2>5, <2>6, <2>7, <2>8, <2>9, <2>10, <2>11, <2>12,
             <2>13, <2>14, <2>15
             DEF Run
<1>4. ASSUME NEW p \in Proc, Crash(p)
      PROVE  TypeOK'
  <2>1. PICK torn \in SUBSET BeingWritten(p) :
           /\ disk' = [f \in Files |-> IF f \in torn THEN Torn ELSE disk[f]]
           /\ origin' = [f \in Ledgers |-> IF f \in torn THEN {p} ELSE origin[f]]
    BY <1>4 DEF Crash
  <2>2. torn \subseteq Ledgers
    BY <2>1 DEF BeingWritten, Ledgers
  <2>3. \A f \in Files : disk'[f] \in ContentOf(f)
    BY <2>1, <2>2, <1>d, ContentsOf
  <2>4. disk' \in [Files -> Content]
    BY <2>1, <2>3 DEF Content
  <2>5. origin' \in [Ledgers -> SUBSET Proc]
    BY <2>1, <1>o
  <2>6. pc' \in [Proc -> Steps] /\ at' \in [Proc -> 1..3]
    BY <1>4, <1>c DEF Crash, Forget, Steps
  <2>7. ledgers' \in [Proc -> HeldLedgers] /\ lost' \in [Proc -> BOOLEAN]
    BY <1>4, <1>i, HoldTyped DEF Crash, Forget
  <2>8. saved' \in [Proc -> (AllAudits \cup {None}) \X (AllAudits \cup {None})]
    BY <1>4, <1>s DEF Crash, Forget
  <2>9. (dead \cup stalled)' \subseteq Proc
    BY <1>4, <1>f DEF Crash
  <2> QED BY <1>4, <2>3, <2>4, <2>5, <2>6, <2>7, <2>8, <2>9, <1>o, <1>c, <1>k, <1>i, <1>s
             DEF TypeOK, Content, Crash
<1>5. ASSUME NEW p \in Proc, Stall(p)
      PROVE  TypeOK'
  BY <1>5, <1>d, <1>o, <1>c, <1>k, <1>i, <1>s, <1>f DEF TypeOK, Content, Stall, local
<1>6. ASSUME EditLedger
      PROVE  TypeOK'
  <2>1. PICK c \in Candidates : disk' = [disk EXCEPT !["candidate"] = c]
    BY <1>6 DEF EditLedger
  <2>2. disk' \in [Files -> Content] /\ \A f \in Files : disk'[f] \in ContentOf(f)
    BY <2>1, <1>d, WriteTyped, ContentsOf DEF Content
  <2>3. origin' \in [Ledgers -> SUBSET Proc]
    BY <1>6, <1>o DEF EditLedger
  <2> QED BY <1>6, <2>2, <2>3, <1>o, <1>c, <1>k, <1>i, <1>s, <1>f
             DEF TypeOK, Content, EditLedger, local, faults
<1> QED BY <1>1, <1>2, <1>3, <1>4, <1>5, <1>6 DEF Next

\* Every step keeps the phases.
LEMMA PhaseStep ==
  ASSUME TypeOK, PhaseInv, [Next]_vars
  PROVE  PhaseInv'
<1> USE DEF Goto, Runs
<1>1. CASE UNCHANGED vars
  BY <1>1 DEF PhaseInv, PhaseOK, HasInput, HasCandidate, vars
<1>2. ASSUME EditLedger
      PROVE  PhaseInv'
  BY <1>2 DEF EditLedger, local, faults, PhaseInv, PhaseOK, HasInput, HasCandidate
<1>3. ASSUME NEW p \in Proc, Acts(p)
      PROVE  PhaseInv'
  <2>1. SUFFICES PhaseOK(p)'
    BY <1>3, OthersKeep DEF PhaseInv, PhaseOK, HasInput, HasCandidate
  <2> DEFINE kept == /\ cmd'[p] = cmd[p] /\ token'[p] = token[p] /\ input'[p] = input[p]
  <2>2. /\ PhaseOK(p) /\ pc[p] \in Steps /\ at[p] \in 1..3 /\
              cmd[p] \in {"audit", "confirm", "finalize"}
    BY DEF PhaseInv, TypeOK
  <2>3. CASE Start(p)
    <3>1. /\ pc[p] = "new" /\ at'[p] = at[p] /\ ledgers'[p] = ledgers[p] /\ audit'[p] = audit[p]
      BY <2>3 DEF Start, StartAudit, StartConfirm, StartLocked, StartFinalize
    <3>2. CASE StartFinalize(p)
      BY <2>2, <3>1, <3>2 DEF StartFinalize, TypeOK, PhaseOK, HasInput, HasCandidate
    <3>3. CASE StartAudit(p) \/ StartConfirm(p)
      BY <2>2, <3>1, <3>3, NoneIsNoRecord
         DEF StartAudit, StartConfirm, StartLocked, TypeOK, PhaseOK, HasInput, HasCandidate
    <3> QED BY <2>3, <3>2, <3>3 DEF Start
  <2>4. CASE Run(p)
    <3>1. CASE Collect(p)
      <4>1. /\ pc[p] = "collect" /\ pc'[p] = (IF token[p] = None THEN "clear" ELSE "build") /\
                  at'[p] = at[p]
            /\ cmd'[p] = cmd[p] /\ token'[p] = token[p] /\ audit'[p] = audit[p]
            /\ input'[p] # None
        BY <3>1, LedgerAssumption DEF Collect, TypeOK
      <4> QED BY <2>2, <4>1 DEF PhaseOK, HasInput, HasCandidate, AfterGround
    <3>2. CASE Clear(p)
      <4>1. /\ pc[p] = "clear"
            /\ \/ pc'[p] = "build" /\ at'[p] = 1
               \/ pc'[p] = "clear"
            /\ cmd'[p] = cmd[p] /\ token'[p] = token[p] /\ audit'[p] = audit[p]
            /\ input'[p] = input[p]
        BY <3>2 DEF Clear, local, TypeOK
      <4> QED BY <2>2, <4>1 DEF PhaseOK, HasInput, HasCandidate, AfterGround
    <3>3. CASE NoConversation(p) \/ ExtractionFails(p)
      BY <2>2, <3>3, NoneIsNoRecord
         DEF NoConversation, ExtractionFails, GiveUp, TypeOK, PhaseOK, HasInput, HasCandidate,
             AfterGround
    <3>4. CASE SaveInput(p)
      <4>1. /\ pc[p] = "build" /\ pc'[p] = "extract" /\ at'[p] = at[p] /\ cmd'[p] = cmd[p]
            /\ token'[p] = token[p]
            /\ input'[p] = input[p] /\ audit'[p] = audit[p] /\ ledgers'[p].input = input[p]
        BY <3>4, <2>2 DEF SaveInput, HeldLedgers, TypeOK
      <4>2. cmd[p] = "audit" /\ input[p] # None
        BY <2>2, <3>4, <4>1 DEF SaveInput, PhaseOK
      <4> QED BY <2>2, <4>2, <4>1 DEF PhaseOK, HasInput, HasCandidate, AfterGround
    <3>5. CASE StartReading(p) \/ SkipCompleteness(p)
      <4>1. /\ \/ pc[p] = "build" /\ token[p] # None /\ pc'[p] = "read" /\ at'[p] = at[p]
               \/ pc[p] = "read" /\ at[p] = 3 /\ cmd[p] = "finalize" /\ pc'[p] = "ground" /\
                     at'[p] = 1
            /\ cmd'[p] = cmd[p] /\ token'[p] = token[p]
            /\ input'[p] = input[p] /\ audit'[p] = audit[p] /\ ledgers'[p] = ledgers[p]
        BY <3>5, <2>2 DEF StartReading, SkipCompleteness, local, TypeOK
      <4> QED BY <2>2, <3>5, <4>1 DEF PhaseOK, HasInput, HasCandidate, AfterGround
    <3>6. CASE Read(p)
      <4>1. /\ pc[p] = "read" /\ cmd'[p] = cmd[p] /\ token'[p] = token[p]
            /\ audit'[p] = audit[p] /\ input'[p] = input[p]
            /\ \/ at[p] = 3 /\ pc'[p] = "ground" /\ at'[p] = 1
               \/ at[p] # 3 /\ pc'[p] = "read" /\ at'[p] = at[p] + 1
        BY <2>2, <3>6 DEF Read, TypeOK
      <4>2. PICK f \in Ledgers : f = Working[at[p]]
        BY <2>2 DEF Working, Ledgers
      <4>3. disk[f] # None /\ ledgers' = [ledgers EXCEPT ![p][f] = disk[f]]
        BY <3>6, <4>2 DEF Read
      <4>4. CASE at[p] = 1
        <5>1. f = "input"
          BY <4>2, <4>4 DEF Working
        <5>2. ledgers'[p].input = disk[f]
          BY <4>3, <5>1 DEF TypeOK, HeldLedgers
        <5> QED BY <2>2, <4>1, <4>3, <4>4, <5>2 DEF PhaseOK, HasInput, HasCandidate, AfterGround
      <4>5. CASE at[p] = 2
        <5>1. f = "candidate"
          BY <4>2, <4>5 DEF Working
        <5>2. ledgers'[p].candidate = disk[f] /\ ledgers'[p].input = ledgers[p].input
          BY <4>3, <5>1 DEF TypeOK, HeldLedgers
        <5> QED BY <2>2, <4>1, <4>3, <4>5, <5>2 DEF PhaseOK, HasInput, HasCandidate, AfterGround
      <4>6. CASE at[p] = 3
        <5>1. f = "completeness"
          BY <4>2, <4>6 DEF Working
        <5>2. /\ ledgers'[p].candidate = ledgers[p].candidate
              /\ ledgers'[p].input = ledgers[p].input
          BY <4>3, <5>1 DEF TypeOK, HeldLedgers
        <5> QED BY <2>2, <4>1, <4>6, <5>2 DEF PhaseOK, HasInput, HasCandidate, AfterGround
      <4> QED BY <2>2, <4>4, <4>5, <4>6
    <3>7. CASE Extract(p)
      <4>1. /\ pc[p] = "extract" /\ pc'[p] = "cover" /\ at'[p] = at[p] /\ cmd'[p] = cmd[p]
            /\ token'[p] = token[p]
            /\ input'[p] = input[p] /\ audit'[p] = audit[p]
        BY <3>7, <2>2 DEF Extract, TypeOK
      <4>2. PICK c \in Candidates : ledgers' = [ledgers EXCEPT ![p].candidate = c]
        BY <3>7 DEF Extract
      <4>3. ledgers'[p].candidate # None /\ ledgers'[p].input = ledgers[p].input
        BY <4>2, LedgerAssumption DEF TypeOK, HeldLedgers
      <4> QED BY <4>3, <2>2, <3>7, <4>1 DEF PhaseOK, HasInput, HasCandidate, AfterGround
    <3>8. CASE Cover(p) \/ CoverageFails(p)
      <4>1. /\ pc[p] = "cover" /\ pc'[p] = "ground" /\ at'[p] = at[p] /\ cmd'[p] = cmd[p]
            /\ token'[p] = token[p]
            /\ input'[p] = input[p] /\ audit'[p] = audit[p]
            /\ ledgers'[p].input = ledgers[p].input
            /\ ledgers'[p].candidate = ledgers[p].candidate
        BY <3>8, <2>2 DEF Cover, CoverageFails, HeldLedgers, TypeOK
      <4> QED BY <2>2, <3>8, <4>1 DEF PhaseOK, HasInput, HasCandidate, AfterGround
    <3>9. CASE Ground(p)
      <4>1. /\ pc[p] = "ground" /\ at'[p] = at[p] /\ cmd'[p] = cmd[p] /\ token'[p] = token[p]
            /\ pc'[p] = IF cmd[p] = "finalize" THEN "lock" ELSE "publish"
            /\ audit'[p] # None
        BY <3>9, <2>2, GroundedType, NoneIsNoRecord DEF Ground, TypeOK
      <4> QED BY <2>2, <3>9, <4>1 DEF PhaseOK, HasInput, HasCandidate, AfterGround
    <3>10. CASE LockToPublish(p) \/ PublishJson(p) \/ PublishMd(p) \/ Rollback(p)
      <4>1. /\ pc[p] \in {"lock", "publish", "publish_md"}
            /\ pc'[p] \in {"publish", "publish_md", "release"}
            /\ at'[p] = at[p] /\ cmd'[p] = cmd[p] /\ token'[p] = token[p]
            /\ audit'[p] = audit[p]
        BY <3>10, <2>2 DEF LockToPublish, PublishJson, PublishMd, Rollback, local, TypeOK
      <4> QED BY <2>2, <3>10, <4>1 DEF PhaseOK, HasInput, HasCandidate, AfterGround
    <3>11. CASE Release(p) \/ Throw(p)
      <4>1. /\ pc[p] # "new" /\ pc'[p] \in {"release", "done"} /\ at'[p] = 1
            /\ cmd'[p] = cmd[p] /\ token'[p] = token[p] /\ audit'[p] = audit[p]
        BY <3>11, <2>2 DEF Release, Throw, Forget, TypeOK
      <4> QED BY <2>2, <3>11, <4>1 DEF PhaseOK, HasInput, HasCandidate, AfterGround
    <3> QED BY <2>4, <3>1, <3>2, <3>3, <3>4, <3>5, <3>6, <3>7, <3>8, <3>9, <3>10, <3>11 DEF Run
  <2>5. CASE Crash(p)
    BY <2>2, <2>5 DEF Crash, Forget, TypeOK, PhaseOK, HasInput, HasCandidate, AfterGround
  <2>6. CASE Stall(p)
    BY <2>2, <2>6 DEF Stall, local, PhaseOK, HasInput, HasCandidate
  <2> QED BY <1>3, <2>3, <2>4, <2>5, <2>6 DEF Acts
<1> QED BY <1>1, <1>2, <1>3 DEF Next, Acts

\* The types and the phases hold at the start.
LEMMA TypeInit == Init => TypeOK /\ PhaseInv
<1> SUFFICES ASSUME Init PROVE TypeOK /\ PhaseInv
  OBVIOUS
<1>1. TypeOK
  <2>1. disk \in [Files -> UNION {ContentOf(f) : f \in Files}] /\
           \A f \in Files : disk[f] \in ContentOf(f)
    BY ContentsOf DEF Init
  <2>2. ledgers \in [Proc -> HeldLedgers]
    BY DEF Init, HeldLedgers, Blank
  <2> QED BY <2>1, <2>2 DEF Init, TypeOK, Steps
<1>2. PhaseInv
  BY DEF Init, PhaseInv, PhaseOK, HasInput, HasCandidate, AfterGround
<1> QED BY <1>1, <1>2

\* Type correctness, with the phases it rests on: no invocation ever grounds
\* a missing or torn ledger, publishes without an audit, or asks for a token
\* nobody displayed.
THEOREM TypeCorrect == Spec => [](TypeOK /\ PhaseInv)
<1>1. TypeOK /\ PhaseInv /\ [Next]_vars => (TypeOK /\ PhaseInv)'
  BY TypeStep, PhaseStep
<1> QED BY <1>1, TypeInit, PTL DEF Spec

-----------------------------------------------------------------------------
(* The run lock.                                                           *)

\* A step is a step of one invocation, an edit by the operator, or a stutter.
LEMMA StepsAre == ASSUME [Next]_vars PROVE (\E p \in Proc : Acts(p)) \/ EditLedger \/ UNCHANGED vars
BY DEF Next, Acts

\* The operator's editor changes a ledger and no invocation.
LEMMA IdleKeeps ==
  ASSUME EditLedger \/ UNCHANGED vars
  PROVE  UNCHANGED <<lock, pc, at, cmd, token, input, ledgers, lost, audit, saved, dead, stalled,
            shown>>
BY DEF EditLedger, vars, local, faults

\* What an invocation does to the lock: nothing, take a free one, give up the
\* one it relies on, or die with it.
LEMMA LockEffect ==
  ASSUME TypeOK, PhaseInv, NEW p \in Proc, Acts(p)
  PROVE  \/ UNCHANGED <<lock, dead>> /\ (Exclusive(p)' <=> Exclusive(p))
         \/ dead' = dead /\ LockFree /\ lock' = p /\ Exclusive(p)'
         \/ dead' = dead /\ Exclusive(p) /\ lock' = None /\ ~Exclusive(p)'
         \/ UNCHANGED lock /\ dead' = dead \cup {p}
<1> USE DEF Runs, Goto
<1>0. PhaseOK(p) /\ pc[p] \in Steps
  BY DEF PhaseInv, TypeOK
<1>1. CASE StartAudit(p) \/ StartConfirm(p)
  BY <1>1 DEF StartAudit, StartConfirm, StartLocked, TypeOK, Exclusive
<1>2. CASE StartFinalize(p)
  BY <1>0, <1>2 DEF StartFinalize, TypeOK, Exclusive, PhaseOK
<1>3. CASE Collect(p) \/ Clear(p) \/ SaveInput(p) \/ StartReading(p) \/ Read(p)
           \/ SkipCompleteness(p) \/ Extract(p) \/ Cover(p) \/ CoverageFails(p)
  <2>1. /\ UNCHANGED <<lock, cmd, dead>>
        /\ pc[p] \notin {"new", "done", "publish", "publish_md", "release"}
        /\ pc'[p] \notin {"new", "done", "publish", "publish_md", "release"}
    BY <1>3
       DEF Collect, Clear, SaveInput, StartReading, Read, SkipCompleteness, Extract, Cover,
           CoverageFails, TypeOK, local, faults
  <2> QED BY <2>1 DEF Exclusive
<1>4. CASE NoConversation(p) \/ ExtractionFails(p) \/ Ground(p)
  <2>1. /\ UNCHANGED <<lock, cmd, dead>>
        /\ pc[p] \in {"build", "extract", "ground"}
        /\ pc'[p] = IF pc[p] = "ground" /\ cmd[p] = "finalize" THEN "lock" ELSE "publish"
    BY <1>0, <1>4 DEF NoConversation, ExtractionFails, Ground, GiveUp, TypeOK, faults
  <2> QED BY <1>0, <2>1 DEF Exclusive, PhaseOK
<1>5. CASE LockToPublish(p)
  BY <1>0, <1>5 DEF LockToPublish, TypeOK, Exclusive, PhaseOK, local, faults
<1>6. CASE PublishJson(p) \/ PublishMd(p) \/ Rollback(p)
  <2>1. /\ UNCHANGED <<lock, cmd, dead>>
        /\ pc[p] \in {"publish", "publish_md"} /\ pc'[p] \in {"publish_md", "release"}
    BY <1>6 DEF PublishJson, PublishMd, Rollback, TypeOK, local, faults
  <2> QED BY <2>1 DEF Exclusive
<1>7. CASE Release(p)
  BY <1>7 DEF Release, TypeOK, Exclusive, faults
<1>8. CASE Throw(p)
  BY <1>0, <1>8 DEF Throw, TypeOK, Exclusive, PhaseOK, faults
<1>9. CASE Crash(p)
  BY <1>9 DEF Crash
<1>10. CASE Stall(p)
  BY <1>10 DEF Stall, Exclusive, local
<1> QED BY <1>1, <1>2, <1>3, <1>4, <1>5, <1>6, <1>7, <1>8, <1>9, <1>10 DEF Acts, Start, Run

\* No step makes another invocation exclusive, kills or revives it.
LEMMA OthersExclusive ==
  ASSUME TypeOK, NEW p \in Proc, Acts(p), NEW q \in Proc, q # p
  PROVE  /\ q \in dead' <=> q \in dead
         /\ Exclusive(q)' <=> Exclusive(q)
<1>1. q \in dead' <=> q \in dead
  <2>1. dead' = dead \/ dead' = dead \cup {p}
    <3>1. CASE Start(p)
      BY <3>1 DEF Start, StartAudit, StartConfirm, StartLocked, StartFinalize
    <3>2. CASE Run(p)
      BY <3>2
         DEF Run, Collect, Clear, NoConversation, SaveInput, StartReading, Read,
             SkipCompleteness, Extract, ExtractionFails, Cover, CoverageFails, Ground,
             LockToPublish, PublishJson, PublishMd, Rollback, Release, Throw, faults
    <3>3. CASE Crash(p) \/ Stall(p)
      BY <3>3 DEF Crash, Stall
    <3> QED BY <3>1, <3>2, <3>3 DEF Acts
  <2> QED BY <2>1
<1> QED BY <1>1, OthersKeep DEF Exclusive

\* A live holder is at work: the lock is never left to an invocation that has
\* ended or has not begun.
HolderInv == \A p \in Proc : (p \notin dead /\ lock = p) => Exclusive(p)

\* While every live holder refreshes its lock, the live invocations at work
\* are exactly the holder.
LockInv ==
  /\ stalled = {}
  /\ \A p \in Proc \ dead : lock = p <=> Exclusive(p)

\* Every step keeps the holder at work, stalled holders or not.
LEMMA HolderStep ==
  ASSUME TypeOK, PhaseInv, HolderInv, [Next]_vars
  PROVE  HolderInv'
<1>1. CASE EditLedger \/ UNCHANGED vars
  BY <1>1, IdleKeeps DEF HolderInv, Exclusive
<1>2. ASSUME NEW p \in Proc, Acts(p)
      PROVE  HolderInv'
  <2> SUFFICES ASSUME NEW q \in Proc, q \notin dead', lock' = q PROVE Exclusive(q)'
    BY DEF HolderInv
  <2>1. p # None /\ q # None
    BY LedgerAssumption
  <2>2. CASE q = p
    BY <1>2, <2>1, <2>2, LockEffect DEF HolderInv
  <2>3. CASE q # p
    BY <1>2, <2>1, <2>3, LockEffect, OthersExclusive DEF HolderInv
  <2> QED BY <2>2, <2>3
<1> QED BY <1>1, <1>2, StepsAre

\* Every step keeps lock and work together, unless a holder may stall.
LEMMA LockStep ==
  ASSUME ~MayStall, TypeOK, PhaseInv, LockInv, [Next]_vars
  PROVE  LockInv'
<1>1. CASE EditLedger \/ UNCHANGED vars
  BY <1>1, IdleKeeps DEF LockInv, Exclusive
<1>2. ASSUME NEW p \in Proc, Acts(p)
      PROVE  LockInv'
  <2>1. stalled' = {}
    <3>1. CASE Start(p)
      BY <3>1 DEF LockInv, Start, StartAudit, StartConfirm, StartLocked, StartFinalize
    <3>2. CASE Run(p)
      BY <3>2
         DEF LockInv, Run, Collect, Clear, NoConversation, SaveInput, StartReading, Read,
             SkipCompleteness, Extract, ExtractionFails, Cover, CoverageFails, Ground,
             LockToPublish, PublishJson, PublishMd, Rollback, Release, Throw, faults
    <3>3. CASE Crash(p) \/ Stall(p)
      BY <3>3 DEF LockInv, Crash, Stall
    <3> QED BY <1>2, <3>1, <3>2, <3>3 DEF Acts
  <2>2. SUFFICES ASSUME NEW q \in Proc, q \notin dead'
                 PROVE  lock' = q <=> Exclusive(q)'
    BY <2>1 DEF LockInv
  <2>3. p # None /\ q # None /\ stalled = {}
    BY LedgerAssumption DEF LockInv
  <2>4. CASE q = p
    BY <1>2, <2>2, <2>3, <2>4, LockEffect DEF LockInv, LockFree
  <2>5. CASE q # p
    <3>1. q \notin dead /\ (Exclusive(q)' <=> Exclusive(q)) /\ (lock = q <=> Exclusive(q))
      BY <1>2, <2>2, <2>5, OthersExclusive DEF LockInv
    <3>2. Exclusive(p) => lock = p
      BY DEF LockInv, Exclusive
    <3>3. LockFree => lock # q
      BY <2>3, <3>1 DEF LockFree
    <3> QED BY <1>2, <2>3, <2>5, <3>1, <3>2, <3>3, LockEffect
  <2> QED BY <2>4, <2>5
<1> QED BY <1>1, <1>2, StepsAre

\* Whatever was refused, thrown, rolled back or taken over, and with stalled
\* holders too, no invocation that is not killed ends with the lock (the
\* finally blocks of withAgreementAuditRunLock).
THEOREM NoLockKept == Spec => []NoLockLeft
<1>1. Init => HolderInv
  BY LedgerAssumption DEF Init, HolderInv
<1>2. TypeOK /\ PhaseInv /\ HolderInv /\ [Next]_vars => HolderInv'
  BY HolderStep
<1>3. TypeOK /\ PhaseInv /\ HolderInv => NoLockLeft
  BY DEF HolderInv, NoLockLeft, Exclusive, PhaseInv, PhaseOK
<1> QED BY <1>1, <1>2, <1>3, TypeCorrect, PTL DEF Spec

\* If the holder is the one at work, there is one writer and no lock is left.
LEMMA OneHolder == ASSUME LockInv PROVE LockDiscipline
<1>1. OneWriter
  BY DEF OneWriter, LockInv, Exclusive
<1>2. NoLockLeft
  BY DEF NoLockLeft, LockInv, Exclusive
<1> QED BY <1>1, <1>2 DEF LockDiscipline

\* Without stalls the lock is held exactly by the live invocation at work.
THEOREM LockInvariant == ASSUME ~MayStall PROVE Spec => []LockInv
<1>1. Init => LockInv
  BY LedgerAssumption DEF Init, LockInv, Exclusive
<1>2. TypeOK /\ PhaseInv /\ LockInv /\ [Next]_vars => LockInv'
  BY LockStep
<1> QED BY <1>1, <1>2, TypeCorrect, PTL DEF Spec

\* For any number of invocations: while holders refresh their lock, no two
\* live ones clear, collect, write or publish at once, and none ends with the
\* lock.
THEOREM LockDisciplineKept == ASSUME ~MayStall PROVE Spec => []LockDiscipline
<1>1. LockInv => LockDiscipline
  BY OneHolder
<1> QED BY <1>1, LockInvariant, PTL

-----------------------------------------------------------------------------
(* What a clean verdict rests on.                                          *)

\* Once an invocation has an audit, its command, token, input and audit are
\* settled.
LEMMA AuditSticks ==
  ASSUME TypeOK, PhaseInv, NEW p \in Proc, Acts(p), audit[p] # None
  PROVE  /\ audit'[p] = audit[p] /\ cmd'[p] = cmd[p] /\ token'[p] = token[p]
         /\ input'[p] = input[p]
<1> USE DEF Runs, Goto
<1>0. pc[p] \in AfterGround
  BY DEF PhaseInv, PhaseOK
<1>1. CASE Start(p)
  BY <1>0, <1>1 DEF AfterGround, Start, StartAudit, StartConfirm, StartLocked, StartFinalize
<1>2. CASE Run(p)
  <2>1. CASE Release(p) \/ Throw(p)
    BY <2>1 DEF Release, Throw
  <2>2. CASE LockToPublish(p) \/ PublishJson(p) \/ PublishMd(p) \/ Rollback(p)
    BY <2>2 DEF LockToPublish, PublishJson, PublishMd, Rollback, local
  <2>3. CASE pc[p] \in {"collect", "clear", "build", "read", "extract", "cover", "ground"}
    BY <1>0, <2>3 DEF AfterGround
  <2> QED BY <1>2, <2>1, <2>2, <2>3
             DEF Run, Collect, Clear, NoConversation, SaveInput, StartReading, Read,
                 SkipCompleteness, Extract, ExtractionFails, Cover, CoverageFails, Ground
<1>3. CASE Crash(p) \/ Stall(p)
  BY <1>3 DEF Crash, Stall, local
<1> QED BY <1>1, <1>2, <1>3 DEF Acts

Same(p) == audit'[p] = audit[p] /\ cmd'[p] = cmd[p] /\ token'[p] = token[p] /\
   input'[p] = input[p]

\* Every step leaves them settled.
LEMMA AuditsStay ==
  ASSUME TypeOK, PhaseInv, [Next]_vars, NEW q \in Proc, audit[q] # None
  PROVE  Same(q)
<1>1. CASE EditLedger \/ UNCHANGED vars
  BY <1>1, IdleKeeps DEF Same
<1>2. ASSUME NEW p \in Proc, Acts(p)
      PROVE  Same(q)
  BY <1>2, AuditSticks, OthersKeep DEF Same
<1> QED BY <1>1, <1>2, StepsAre

\* Only a publication, a rollback and a start with a token touch audit.json,
\* the saved pairs, the displayed tokens or the token given.
LEMMA PublishEffect ==
  ASSUME TypeOK, PhaseInv, NEW p \in Proc, Acts(p)
  PROVE  \/ PublishJson(p)
         \/ Rollback(p)
         \/ StartConfirm(p) \/ StartFinalize(p)
         \/ /\ UNCHANGED <<shown, token>> /\ disk'["json"] = disk["json"]
            /\ saved'[p] = saved[p] \/ saved'[p] = <<None, None>>
<1> USE DEF Runs, Goto
<1>0. token[p] = None <=> token[p] = None
  OBVIOUS
<1>1. CASE StartAudit(p)
  <2>1. token' = token
    BY <1>1 DEF StartAudit, StartLocked, TypeOK, PhaseInv, PhaseOK
  <2> QED BY <1>1, <2>1 DEF StartAudit, StartLocked
<1>2. CASE NoConversation(p) \/ StartReading(p) \/ Read(p) \/ SkipCompleteness(p)
           \/ ExtractionFails(p) \/ CoverageFails(p) \/ Collect(p)
           \/ Ground(p) \/ LockToPublish(p)
  BY <1>2
     DEF NoConversation, StartReading, Read, SkipCompleteness, ExtractionFails, CoverageFails,
         Collect, Ground, LockToPublish, local
<1>3. CASE Clear(p)
  <2>1. Working[at[p]] # "json"
    BY DEF TypeOK, Working
  <2> QED BY <1>3, <2>1 DEF Clear, local, TypeOK, Files, Ledgers
<1>4. CASE SaveInput(p) \/ Extract(p) \/ Cover(p) \/ PublishMd(p)
  <2>1. disk'["json"] = disk["json"]
    BY <1>4 DEF SaveInput, Extract, Cover, PublishMd, TypeOK, Files, Ledgers
  <2> QED BY <1>4, <2>1 DEF SaveInput, Extract, Cover, PublishMd, local
<1>5. CASE Release(p) \/ Throw(p)
  BY <1>5 DEF Release, Throw, Forget, TypeOK
<1>6. CASE Crash(p)
  <2>1. disk'["json"] = disk["json"]
    BY <1>6 DEF Crash, BeingWritten, Files, Ledgers
  <2>2. saved'[p] = <<None, None>>
    BY <1>6 DEF Crash, Forget, TypeOK
  <2> QED BY <1>6, <2>1, <2>2 DEF Crash
<1>7. CASE Stall(p)
  BY <1>7 DEF Stall, local
<1> QED BY <1>1, <1>2, <1>3, <1>4, <1>5, <1>6, <1>7 DEF Acts, Start, Run

\* The operator edits a ledger, never the published pair.
LEMMA IdleJson ==
  ASSUME TypeOK, EditLedger \/ UNCHANGED vars
  PROVE  disk'["json"] = disk["json"] /\ disk'["md"] = disk["md"]
BY DEF EditLedger, vars, TypeOK, Files, Ledgers

\* The audit of this invocation offers this token.
Shows(q, t) == audit[q] # None /\ audit[q].token = t

\* Every token in circulation was computed by an invocation, and the token
\* given to an invocation by another one.
ShownInv ==
  /\ \A t \in shown : \E q \in Proc : Shows(q, t)
  /\ \A p \in Proc : token[p] # None => \E q \in Proc \ {p} : Shows(q, token[p])
  /\ disk["json"] # None => disk["json"].token \in shown \cup {None}
  /\ \A p \in Proc : saved[p][1] # None => saved[p][1].token \in shown \cup {None}

\* An offer stays.
LEMMA ShowsStays ==
  ASSUME TypeOK, PhaseInv, [Next]_vars, NEW q \in Proc, NEW t, Shows(q, t)
  PROVE  audit'[q] # None /\ audit'[q].token = t
BY AuditsStay DEF Shows, Same

\* Every step keeps ShownInv.
LEMMA ShownStep ==
  ASSUME TypeOK, PhaseInv, ShownInv, [Next]_vars
  PROVE  ShownInv'
<1>0. \A q \in Proc : \A t : Shows(q, t) => Shows(q, t)'
  BY ShowsStays DEF Shows
<1>1. CASE EditLedger \/ UNCHANGED vars
  BY <1>1, IdleKeeps, IdleJson DEF ShownInv, Shows
<1>2. ASSUME NEW p \in Proc, Acts(p)
      PROVE  ShownInv'
  <2>1. CASE PublishJson(p)
    <3>1. /\ audit[p] # None /\ audit' = audit /\ token' = token /\ disk'["json"] = audit[p]
          /\ shown' = shown \cup ({audit[p].token} \ {None})
          /\ saved' = [saved EXCEPT ![p] = <<disk["json"], disk["md"]>>]
      BY <2>1 DEF PublishJson, Runs, PhaseInv, PhaseOK, TypeOK, Files
    <3>2. \A t \in shown' : \E q \in Proc : Shows(q, t)
      BY <3>1 DEF ShownInv, Shows
    <3>3. \A q \in Proc : saved'[q][1] = IF q = p THEN disk["json"] ELSE saved[q][1]
      BY <3>1 DEF TypeOK
    <3> QED BY <1>0, <3>1, <3>2, <3>3 DEF ShownInv
  <2>2. CASE Rollback(p)
    <3>1. disk'["json"] = saved[p][1] /\ UNCHANGED <<shown, token, saved>>
      BY <2>2 DEF Rollback, TypeOK, Files, local
    <3> QED BY <1>0, <3>1 DEF ShownInv
  <2>3. CASE StartConfirm(p) \/ StartFinalize(p)
    <3>1. PICK t \in shown \cup {None} : token' = [token EXCEPT ![p] = t]
      BY <2>3 DEF StartConfirm, StartLocked, StartFinalize
    <3>2. audit[p] = None /\ UNCHANGED <<disk, saved, shown>>
      BY <2>3 DEF StartConfirm, StartLocked, StartFinalize, Runs, PhaseInv, PhaseOK
    <3>3. \A q \in Proc : token'[q] = IF q = p THEN t ELSE token[q]
      BY <3>1 DEF TypeOK
    <3>4. \A q \in Proc : token'[q] # None => \E r \in Proc \ {q} : Shows(r, token'[q])
      BY <3>2, <3>3 DEF ShownInv, Shows
    <3> QED BY <1>0, <3>2, <3>4 DEF ShownInv
  <2>4. CASE /\ UNCHANGED <<shown, token>> /\ disk'["json"] = disk["json"]
             /\ saved'[p] = saved[p] \/ saved'[p] = <<None, None>>
    BY <1>0, <1>2, <2>4, OthersKeep DEF ShownInv
  <2> QED BY <1>2, <2>1, <2>2, <2>3, <2>4, PublishEffect
<1> QED BY <1>1, <1>2, StepsAre

\* A verdict that says no mismatch was found.
IsClean(v) == v # None /\ v.status = "no_mismatch_found"

\* The verdict is that of a confirmation run whose token binds the input the
\* run collected itself and ledgers that pass every structural check.
ConfirmedBy(p, v) ==
  /\ cmd[p] = "confirm" /\ audit[p] = v /\ token[p] = v.token /\ v.token.canonical = input[p]
  /\ StructurallyVerified(input[p], v.token.artifacts.candidate, v.token.artifacts.completeness)

\* Every clean verdict in memory, in audit.json or in a backup of it was
\* confirmed.
CleanInv ==
  /\ \A p \in Proc : IsClean(audit[p]) => ConfirmedBy(p, audit[p])
  /\ IsClean(disk["json"]) => \E p \in Proc : ConfirmedBy(p, disk["json"])
  /\ \A q \in Proc : IsClean(saved[q][1]) => \E p \in Proc : ConfirmedBy(p, saved[q][1])

\* Grounding says that no mismatch was found only in a confirmation run, for
\* the token it was given: finalize adds a limitation, and audit has no
\* token.
LEMMA GroundedClean ==
  ASSUME TypeOK, PhaseInv, NEW p \in Proc, pc[p] = "ground",
         Grounded(p).status = "no_mismatch_found"
  PROVE  /\ cmd[p] = "confirm" /\ token[p] = Grounded(p).token /\
               Grounded(p).token.canonical = input[p]
         /\ StructurallyVerified(input[p], Grounded(p).token.artifacts.candidate,
               Grounded(p).token.artifacts.completeness)
<1> DEFINE l == ledgers[p]
           i == IF cmd[p] = "finalize" THEN l.input ELSE input[p]
           b == l.candidate.limited \/ lost[p] \/ cmd[p] = "finalize"
           c == [l.candidate EXCEPT !.limited = b]
           v == l.completeness
<1>1. l.candidate \in Candidates
  BY DEF TypeOK, HeldLedgers, PhaseInv, PhaseOK, HasCandidate
<1>2. c.agreements = l.candidate.agreements /\ c.limited = b
  BY <1>1, CandidateKept
<1>3. Grounded(p) = Audit(i, c, v, Bytes(p), token[p])
  BY DEF Grounded
<1>4. Verified(i, c, v, Bytes(p), token[p]) /\ ~c.limited
  BY <1>3 DEF Audit, Status
<1>5. /\ StructurallyVerified(i, c, v)
      /\ OfferedToken(i, v, Bytes(p)) # None /\ token[p] = OfferedToken(i, v, Bytes(p))
  BY <1>4 DEF Verified, Confirmed
<1>6. token[p] = Token(i, l) /\ token[p] # None /\ Grounded(p).token = Token(i, l)
  BY <1>3, <1>5 DEF OfferedToken, Bytes, Audit
<1>7. cmd[p] = "confirm"
  BY <1>2, <1>4, <1>6 DEF TypeOK, PhaseInv, PhaseOK
<1>8. StructurallyVerified(i, l.candidate, v)
  BY <1>2, <1>5, CoverageReadsAgreements
<1>9. Token(i, l).canonical = i /\ Token(i, l).artifacts = l
  BY DEF Token
<1> QED BY <1>6, <1>7, <1>8, <1>9

\* A confirmed verdict stays confirmed.
LEMMA ConfirmedStays ==
  ASSUME TypeOK, PhaseInv, [Next]_vars, NEW q \in Proc, NEW v, v # None, ConfirmedBy(q, v)
  PROVE  ConfirmedBy(q, v)'
BY AuditsStay DEF ConfirmedBy, Same

\* Only grounding and giving up change the audit an invocation holds.
LEMMA AuditEffect ==
  ASSUME TypeOK, PhaseInv, NEW p \in Proc, Acts(p), audit'[p] # audit[p]
  PROVE  \/ Ground(p)
         \/ audit'[p] = Incomplete
<1>1. CASE Start(p) \/ Crash(p) \/ Stall(p)
  BY <1>1 DEF Start, StartAudit, StartConfirm, StartLocked, StartFinalize, Crash, Stall, local
<1>2. CASE NoConversation(p) \/ ExtractionFails(p)
  BY <1>2 DEF NoConversation, ExtractionFails, GiveUp, TypeOK
<1>3. CASE Run(p)
  BY <1>2, <1>3
     DEF Run, Collect, Clear, SaveInput, StartReading, Read, SkipCompleteness, Extract, Cover,
         CoverageFails, LockToPublish, PublishJson, PublishMd, Rollback, Release, Throw, local
<1> QED BY <1>1, <1>3 DEF Acts

\* Every step keeps CleanInv.
LEMMA CleanStep ==
  ASSUME TypeOK, PhaseInv, CleanInv, [Next]_vars
  PROVE  CleanInv'
<1>0. \A v : IsClean(v) => v # None
  BY DEF IsClean
<1>3. \A v : IsClean(v) /\ (\E q \in Proc : ConfirmedBy(q, v))
         => \E q \in Proc : ConfirmedBy(q, v)'
  BY <1>0, ConfirmedStays
<1>1. CASE EditLedger \/ UNCHANGED vars
  BY <1>1, IdleKeeps, IdleJson DEF CleanInv, ConfirmedBy, IsClean
<1>2. ASSUME NEW p \in Proc, Acts(p)
      PROVE  CleanInv'
  <2>1. \A q \in Proc : IsClean(audit'[q]) => ConfirmedBy(q, audit[q])'
    <3> SUFFICES ASSUME NEW q \in Proc, IsClean(audit'[q]) PROVE ConfirmedBy(q, audit[q])'
      OBVIOUS
    <3>1. CASE audit'[q] = audit[q]
      <4>1. ConfirmedBy(q, audit[q]) /\ audit[q] # None
        BY <3>1 DEF CleanInv, IsClean
      <4>2. Same(q)
        BY <4>1, AuditsStay
      <4> QED BY <4>1, <4>2 DEF ConfirmedBy, Same
    <3>2. CASE audit'[q] # audit[q]
      <4>1. q = p
        BY <1>2, <3>2, OthersKeep
      <4>2. Incomplete.status # "no_mismatch_found"
        BY DEF Incomplete
      <4>3. Ground(p)
        BY <1>2, <3>2, <4>1, <4>2, AuditEffect DEF IsClean
      <4>4. audit'[p] = Grounded(p) /\ UNCHANGED <<cmd, token, input>> /\ pc[p] = "ground"
        BY <4>3 DEF Ground, TypeOK, Runs
      <4> QED BY <3>2, <4>1, <4>4, GroundedClean DEF ConfirmedBy, IsClean
    <3> QED BY <3>1, <3>2
  <2>2. CASE PublishJson(p)
    <3>1. audit[p] # None /\ disk'["json"] = audit[p]
      BY <2>2 DEF PublishJson, Runs, PhaseInv, PhaseOK, TypeOK, Files
    <3>2. \A q \in Proc : saved'[q][1] = IF q = p THEN disk["json"] ELSE saved[q][1]
      BY <2>2 DEF PublishJson, TypeOK
    <3> QED BY <1>3, <2>1, <3>1, <3>2, SMTT(20) DEF CleanInv, IsClean, ConfirmedBy
  <2>3. CASE Rollback(p)
    <3>1. disk'["json"] = saved[p][1] /\ UNCHANGED saved
      BY <2>3 DEF Rollback, TypeOK, Files, local
    <3> QED BY <1>3, <2>1, <3>1, SMTT(20) DEF CleanInv, IsClean, ConfirmedBy
  <2>4. CASE disk'["json"] = disk["json"] /\ (saved'[p] = saved[p]
             \/ saved'[p] = <<None, None>>)
    <3>1. \A q \in Proc : saved'[q][1] = saved[q][1] \/ saved'[q][1] = None
      BY <1>2, <2>4, OthersKeep
    <3> QED BY <1>3, <2>1, <2>4, <3>1 DEF CleanInv, IsClean, ConfirmedBy
  <2>5. CASE StartConfirm(p) \/ StartFinalize(p)
    BY <2>4, <2>5 DEF StartConfirm, StartLocked, StartFinalize
  <2> QED BY <1>2, <2>2, <2>3, <2>4, <2>5, PublishEffect
<1> QED BY <1>1, <1>2, StepsAre

\* ShownInv and CleanInv hold at the start.
LEMMA FirstInvariants == Init => ShownInv /\ CleanInv
BY DEF Init, ShownInv, CleanInv, IsClean, Files

\* Every displayed token was computed by an invocation, and every clean
\* verdict was confirmed.
THEOREM Confirmation == Spec => [](ShownInv /\ CleanInv)
<1>1. TypeOK /\ PhaseInv /\ ShownInv /\ CleanInv /\ [Next]_vars => (ShownInv /\ CleanInv)'
  BY ShownStep, CleanStep
<1> QED BY <1>1, FirstInvariants, TypeCorrect, PTL DEF Spec

\* docs/agreement-audit-v0.md: the clean message unlocks only after a second,
\* confirming run.  For any number of invocations, any crashes and stalled
\* holders: a clean audit.json was written by a confirmation run whose token
\* another invocation had computed.
THEOREM CleanWasConfirmed == Spec => []CleanVerdictWasConfirmed
<1>1. TypeOK /\ PhaseInv /\ ShownInv /\ CleanInv => CleanVerdictWasConfirmed
  <2> SUFFICES ASSUME TypeOK, PhaseInv, ShownInv, CleanInv, IsClean(disk["json"])
               PROVE  \E p \in Proc :
                        LET t == disk["json"].token IN
                        /\ cmd[p] = "confirm" /\ audit[p] = disk["json"] /\ token[p] = t
                        /\ t.canonical = input[p]
                        /\ StructurallyVerified(input[p], t.artifacts.candidate,
                              t.artifacts.completeness)
                        /\ \E q \in Proc \ {p} : audit[q] # None /\ audit[q].token = t
    BY DEF CleanVerdictWasConfirmed, IsClean
  <2>1. PICK p \in Proc : ConfirmedBy(p, disk["json"])
    BY DEF CleanInv
  <2>2. token[p] # None
    BY <2>1 DEF ConfirmedBy, PhaseInv, PhaseOK
  <2>3. PICK q \in Proc \ {p} : Shows(q, token[p])
    BY <2>2 DEF ShownInv
  <2> QED BY <2>1, <2>3 DEF ConfirmedBy, Shows
<1> QED BY <1>1, Confirmation, TypeCorrect, PTL

-----------------------------------------------------------------------------
(* The refinement of AgreementVerdict: publishing and rolling back map to  *)
(* Publish or Withdraw, starting with a token to Ask, every other step to  *)
(* a stutter.                                                              *)

Asked == {token[p] : p \in Proc} \ {None}

\* Every step of the invocations is a step of the promise, or a stutter of
\* it.
LEMMA PromiseStep ==
  ASSUME TypeOK, PhaseInv, ShownInv, CleanInv, [Next]_vars
  PROVE  [Promise!ANext]_(Promise!avars)
<1>1. CASE EditLedger \/ UNCHANGED vars
  BY <1>1, IdleKeeps, IdleJson DEF Promise!avars
<1>2. ASSUME NEW p \in Proc, Acts(p)
      PROVE  [Promise!ANext]_(Promise!avars)
  <2>1. CASE PublishJson(p)
    <3>1. /\ audit[p] \in AllAudits /\ disk'["json"] = audit[p] /\ UNCHANGED token
          /\ shown' = shown \cup ({audit[p].token} \ {None})
      BY <2>1 DEF PublishJson, Runs, PhaseInv, PhaseOK, TypeOK, Files
    <3>2. ASSUME audit[p].status = "no_mismatch_found"
          PROVE  audit[p].token \in shown \cap Asked
      <4>1. ConfirmedBy(p, audit[p])
        BY <3>1, <3>2, NoneIsNoRecord DEF CleanInv, IsClean
      <4>2. token[p] = audit[p].token /\ token[p] # None /\ token[p] \in shown
        BY <4>1 DEF ConfirmedBy, PhaseInv, PhaseOK, TypeOK
      <4> QED BY <4>2 DEF Asked
    <3>3. Promise!Publish
      BY <3>1, <3>2 DEF Promise!Publish, Promise!Justified, Asked
    <3> QED BY <3>3 DEF Promise!ANext
  <2>2. CASE Rollback(p)
    <3>1. /\ disk'["json"] = saved[p][1] /\ UNCHANGED <<shown, token>>
          /\ saved[p][1] \in AllAudits \cup {None}
      BY <2>2 DEF Rollback, TypeOK, Files, local
    <3>2. CASE saved[p][1] = None
      BY <3>1, <3>2 DEF Promise!Withdraw, Promise!ANext
    <3>3. CASE saved[p][1] \in AllAudits
      <4>1. saved[p][1].token \in shown \cup {None}
        BY <3>3, NoneIsNoRecord DEF ShownInv
      <4>2. ASSUME saved[p][1].status = "no_mismatch_found"
            PROVE  saved[p][1].token \in shown \cap Asked
        <5>1. PICK q \in Proc : ConfirmedBy(q, saved[p][1])
          BY <3>3, <4>2, NoneIsNoRecord DEF CleanInv, IsClean
        <5>2. token[q] = saved[p][1].token /\ token[q] # None /\ token[q] \in shown
          BY <5>1 DEF ConfirmedBy, PhaseInv, PhaseOK, TypeOK
        <5> QED BY <5>2 DEF Asked
      <4>3. Promise!Publish
        BY <3>1, <3>3, <4>1, <4>2 DEF Promise!Publish, Promise!Justified, Asked
      <4> QED BY <4>3 DEF Promise!ANext
    <3> QED BY <3>1, <3>2, <3>3
  <2>3. CASE StartConfirm(p) \/ StartFinalize(p)
    <3>1. PICK t \in shown \cup {None} : token' = [token EXCEPT ![p] = t]
      BY <2>3 DEF StartConfirm, StartLocked, StartFinalize
    <3>2. token[p] = None /\ UNCHANGED <<disk, shown>>
      BY <2>3 DEF StartConfirm, StartLocked, StartFinalize, Runs, PhaseInv, PhaseOK
    <3>3. \A q \in Proc : token'[q] = IF q = p THEN t ELSE token[q]
      BY <3>1 DEF TypeOK
    <3>4. CASE t = None
      <4>1. token' = token
        BY <3>1, <3>2, <3>4 DEF TypeOK
      <4> QED BY <3>2, <4>1 DEF Promise!avars
    <3>5. CASE t \in shown
      <4>1. t # None
        BY <3>5, NoneIsNoRecord DEF TypeOK
      <4>2. {token'[q] : q \in Proc} \ {None} = ({token[q] : q \in Proc} \ {None}) \cup {t}
        BY <3>2, <3>3, <4>1
      <4>3. Promise!Ask(t)
        BY <3>2, <3>5, <4>2 DEF Promise!Ask
      <4> QED BY <3>5, <4>3 DEF Promise!ANext
    <3> QED BY <3>4, <3>5
  <2>4. CASE UNCHANGED <<shown, token>> /\ disk'["json"] = disk["json"]
    BY <2>4 DEF Promise!avars
  <2> QED BY <1>2, <2>1, <2>2, <2>3, <2>4, PublishEffect
<1> QED BY <1>1, <1>2, StepsAre

\* The invocations implement AgreementVerdict: audit.json never says that no
\* mismatch was found unless an operator asked for it by a token an earlier
\* publication had displayed.
THEOREM PromiseKept == Spec => KeepsPromise
<1>1. Init => Promise!AInit
  <2> SUFFICES ASSUME Init PROVE Promise!AInit
    OBVIOUS
  <2>1. \A p \in Proc : token[p] = None
    BY DEF Init
  <2> QED BY <2>1 DEF Init, Promise!AInit, Files
<1>2. TypeOK /\ PhaseInv /\ ShownInv /\ CleanInv /\ [Next]_vars => [Promise!ANext]_(Promise!avars)
  BY PromiseStep
<1> QED BY <1>1, <1>2, TypeCorrect, Confirmation, PTL DEF Spec, KeepsPromise, Promise!ASpec

-----------------------------------------------------------------------------
(* The saved ledgers.                                                      *)

\* An invocation that may change a saved ledger: a live audit run at work.
Writing(p) == p \notin dead /\ cmd[p] = "audit" /\
   pc[p] \in {"clear", "build", "extract", "cover"}

\* Only such an invocation changes a saved ledger or its origin, if the
\* operator does not: it clears, saves, extracts, covers, or is killed while
\* it writes.
LEMMA LedgerEffect ==
  ASSUME TypeOK, PhaseInv, NEW p \in Proc, Acts(p)
  PROVE  \/ Clear(p) \/ SaveInput(p) \/ Extract(p) \/ Cover(p)
         \/ Writing(p) /\ Crash(p)
         \/ origin' = origin /\ \A f \in Ledgers : disk'[f] = disk[f]
<1>1. CASE Start(p) \/ Stall(p)
  BY <1>1 DEF Start, StartAudit, StartConfirm, StartLocked, StartFinalize, Stall
<1>2. CASE PublishJson(p) \/ PublishMd(p) \/ Rollback(p)
  BY <1>2 DEF PublishJson, PublishMd, Rollback, TypeOK, Files, Ledgers
<1>3. CASE Run(p)
  BY <1>2, <1>3
     DEF Run, Collect, NoConversation, StartReading, Read, SkipCompleteness, ExtractionFails,
         CoverageFails, Ground, LockToPublish, Release, Throw
<1>4. CASE Crash(p) /\ ~Writing(p)
  <2>1. PhaseOK(p) /\ p \notin dead
    BY <1>4 DEF PhaseInv, Crash
  <2>2. BeingWritten(p) = {}
    BY <1>4, <2>1 DEF BeingWritten, Writing, PhaseOK, TypeOK
  <2> QED BY <1>4, <2>2 DEF Crash, TypeOK, Files, Ledgers
<1> QED BY <1>1, <1>3, <1>4 DEF Acts

\* How an audit run comes to the steps at which it may change a ledger: it
\* starts to clear with the first file.
LEMMA WriterPhase ==
  ASSUME TypeOK, PhaseInv, NEW p \in Proc, Acts(p), ~Clear(p), ~SaveInput(p), ~Extract(p),
         ~Cover(p), Writing(p)'
  PROVE  (pc'[p] = "clear" /\ at'[p] = 1) \/ UNCHANGED <<pc, at, cmd, dead>>
<1> USE DEF Runs, Goto
<1>0. PhaseOK(p)
  BY DEF PhaseInv
<1>1. CASE Start(p)
  BY <1>1 DEF Start, StartAudit, StartConfirm, StartLocked, StartFinalize, TypeOK, Writing
<1>2. CASE Collect(p)
  BY <1>0, <1>2 DEF Collect, TypeOK, PhaseOK, Writing
<1>3. CASE NoConversation(p) \/ StartReading(p) \/ Read(p) \/ SkipCompleteness(p)
           \/ ExtractionFails(p) \/ CoverageFails(p) \/ Ground(p) \/ LockToPublish(p)
  <2>1. pc'[p] \in {"publish", "read", "ground", "lock"}
    BY <1>3
       DEF NoConversation, StartReading, Read, SkipCompleteness, ExtractionFails, CoverageFails,
           Ground, LockToPublish, GiveUp, TypeOK
  <2> QED BY <2>1 DEF Writing
<1>4. CASE PublishJson(p) \/ PublishMd(p) \/ Rollback(p) \/ Release(p) \/ Throw(p)
  <2>1. pc'[p] \in {"publish_md", "release", "done"}
    BY <1>4 DEF PublishJson, PublishMd, Rollback, Release, Throw, TypeOK
  <2> QED BY <2>1 DEF Writing
<1>5. CASE Crash(p)
  BY <1>5 DEF Crash, Writing
<1>6. CASE Stall(p)
  BY <1>6 DEF Stall, local
<1> QED BY <1>1, <1>2, <1>3, <1>4, <1>5, <1>6 DEF Acts, Start, Run

\* What an audit run at work knows of the three files: those it has cleared
\* are gone, and those it has written are its own or edited.
OwnFiles(p) ==
  Writing(p) =>
    /\ pc[p] = "clear" /\ at[p] > 1 => disk["input"] = None
    /\ pc[p] = "clear" /\ at[p] > 2 => disk["candidate"] = None
    /\ pc[p] \in {"build", "extract"} => disk["candidate"] = None
    /\ pc[p] \in {"build", "extract", "cover"} => disk["completeness"] = None
    /\ pc[p] \in {"extract", "cover"} => origin["input"] = {p}
    /\ pc[p] = "cover" => origin["candidate"] \in {{p}, Proc}

OriginInv ==
  /\ LedgersFromOneRun
  /\ \A p \in Proc : OwnFiles(p)

\* The lock lets one invocation write.
LEMMA OneWriting ==
  ASSUME TypeOK, LockInv, NEW p \in Proc, NEW q \in Proc, Writing(p), Writing(q)
  PROVE  p = q
BY DEF LockInv, Writing, Exclusive

\* Every step keeps OriginInv.
LEMMA OriginStep ==
  ASSUME TypeOK, PhaseInv, LockInv, OriginInv, [Next]_vars
  PROVE  OriginInv'
<1> USE DEF Runs, Goto
<1>1. CASE UNCHANGED vars
  BY <1>1 DEF vars, OriginInv, LedgersFromOneRun, OwnFiles, Writing
<1>2. CASE EditLedger
  <2>1. PICK c \in Candidates : disk' = [disk EXCEPT !["candidate"] = c]
    BY <1>2 DEF EditLedger
  <2>2. /\ disk["candidate"] # None /\ origin' = [origin EXCEPT !["candidate"] = @ \cup Proc]
        /\ UNCHANGED <<pc, at, cmd, dead>>
    BY <1>2 DEF EditLedger, local, faults
  <2>3. /\ disk'["input"] = disk["input"] /\ disk'["completeness"] = disk["completeness"]
        /\ origin'["input"] = origin["input"] /\ origin'["candidate"] = Proc
    BY <2>1, <2>2 DEF TypeOK, Files, Ledgers
  <2>4. LedgersFromOneRun'
    BY <2>3 DEF LedgersFromOneRun
  <2>5. ASSUME NEW p \in Proc PROVE OwnFiles(p)'
    BY <2>2, <2>3 DEF OriginInv, OwnFiles, Writing
  <2> QED BY <2>4, <2>5 DEF OriginInv
<1>3. ASSUME NEW p \in Proc, Acts(p)
      PROVE  OriginInv'
  <2>0. PhaseOK(p) /\ OwnFiles(p) /\ at[p] \in 1..3
    BY DEF PhaseInv, OriginInv, TypeOK
  <2>1. ASSUME NEW q \in Proc, q # p
        PROVE  (Writing(q)' <=> Writing(q)) /\ pc'[q] = pc[q] /\ at'[q] = at[q]
    BY <1>3, <2>1, OthersKeep, OthersExclusive DEF Writing
  <2>2. ASSUME NEW q \in Proc, q # p, Writing(p)
        PROVE  OwnFiles(q)'
    BY <2>1, <2>2, OneWriting DEF OwnFiles
  <2>3. CASE Clear(p)
    <3>1. Writing(p)
      BY <2>0, <2>3 DEF Clear, Writing, PhaseOK
    <3>2. PICK f \in Ledgers : f = Working[at[p]]
      BY <2>0 DEF Working, Ledgers
    <3>3. disk' = [disk EXCEPT ![f] = None] /\ pc[p] = "clear"
      BY <2>3, <3>2 DEF Clear
    <3>4. disk'[f] = None /\ \A g \in Ledgers : disk'[g] = IF g = f THEN None ELSE disk[g]
      BY <3>3 DEF TypeOK, Files, Ledgers
    <3>5. LedgersFromOneRun'
      BY <3>2, <3>4 DEF LedgersFromOneRun
    <3>6. \/ at[p] = 3 /\ pc'[p] = "build" /\ at'[p] = 1
          \/ at[p] # 3 /\ pc'[p] = "clear" /\ at'[p] = at[p] + 1
      BY <2>3 DEF Clear, TypeOK
    <3>7. (at[p] = 1 => f = "input") /\ (at[p] = 2 => f = "candidate") /\
             (at[p] = 3 => f = "completeness")
      BY <3>2 DEF Working
    <3>8. OwnFiles(p)'
      <4>1. CASE at[p] = 1
        BY <3>4, <3>6, <3>7, <4>1 DEF OwnFiles, Ledgers
      <4>2. CASE at[p] = 2
        BY <2>0, <3>1, <3>3, <3>4, <3>6, <3>7, <4>2 DEF OwnFiles, Ledgers
      <4>3. CASE at[p] = 3
        BY <2>0, <3>1, <3>3, <3>4, <3>6, <3>7, <4>3 DEF OwnFiles, Ledgers
      <4> QED BY <2>0, <4>1, <4>2, <4>3
    <3> QED BY <2>2, <3>1, <3>5, <3>8 DEF OriginInv
  <2>4. CASE SaveInput(p)
    <3>1. pc[p] = "build" /\ pc'[p] = "extract" /\ cmd[p] = "audit" /\ p \notin dead
      BY <2>0, <2>4 DEF SaveInput, PhaseOK, TypeOK
    <3>2. Writing(p)
      BY <3>1 DEF Writing
    <3>3. /\ disk'["candidate"] = disk["candidate"]
          /\ disk'["completeness"] = disk["completeness"]
          /\ origin'["input"] = {p}
      BY <2>4 DEF SaveInput, TypeOK, Files, Ledgers
    <3>4. disk'["candidate"] = None /\ disk'["completeness"] = None
      BY <2>0, <3>1, <3>2, <3>3 DEF OwnFiles
    <3>5. LedgersFromOneRun'
      BY <3>4 DEF LedgersFromOneRun, Ledgers
    <3>6. OwnFiles(p)'
      BY <3>1, <3>3, <3>4 DEF OwnFiles
    <3> QED BY <2>2, <3>2, <3>5, <3>6 DEF OriginInv
  <2>5. CASE Extract(p)
    <3>1. pc[p] = "extract" /\ pc'[p] = "cover" /\ cmd[p] = "audit" /\ p \notin dead
      BY <2>0, <2>5 DEF Extract, PhaseOK, TypeOK
    <3>2. Writing(p)
      BY <3>1 DEF Writing
    <3>3. /\ disk'["completeness"] = disk["completeness"]
          /\ origin'["input"] = origin["input"] /\ origin'["candidate"] = {p}
      BY <2>5 DEF Extract, TypeOK, Files, Ledgers
    <3>4. disk'["completeness"] = None /\ origin'["input"] = {p}
      BY <2>0, <3>1, <3>2, <3>3 DEF OwnFiles
    <3>5. LedgersFromOneRun'
      BY <3>4 DEF LedgersFromOneRun, Ledgers
    <3>6. OwnFiles(p)'
      BY <3>1, <3>3, <3>4 DEF OwnFiles
    <3> QED BY <2>2, <3>2, <3>5, <3>6 DEF OriginInv
  <2>6. CASE Cover(p)
    <3>1. pc[p] = "cover" /\ pc'[p] = "ground" /\ cmd[p] = "audit" /\ p \notin dead
      BY <2>0, <2>6 DEF Cover, PhaseOK, TypeOK
    <3>2. Writing(p)
      BY <3>1 DEF Writing
    <3>3. /\ origin'["input"] = origin["input"] /\ origin'["candidate"] = origin["candidate"]
          /\ origin'["completeness"] = {p}
      BY <2>6 DEF Cover, TypeOK, Ledgers
    <3>4. origin["input"] = {p} /\ origin["candidate"] \in {{p}, Proc}
      BY <2>0, <3>1, <3>2 DEF OwnFiles
    <3>5. LedgersFromOneRun'
      BY <3>3, <3>4 DEF LedgersFromOneRun, Ledgers
    <3>6. OwnFiles(p)'
      BY <3>1 DEF OwnFiles, Writing
    <3> QED BY <2>2, <3>2, <3>5, <3>6 DEF OriginInv
  <2>7. CASE Writing(p) /\ Crash(p)
    <3>1. PICK torn \in SUBSET BeingWritten(p) :
             /\ disk' = [f \in Files |-> IF f \in torn THEN Torn ELSE disk[f]]
             /\ origin' = [f \in Ledgers |-> IF f \in torn THEN {p} ELSE origin[f]]
      BY <2>7 DEF Crash
    <3>2. torn \subseteq Ledgers
      BY <3>1 DEF BeingWritten, Ledgers
    <3>3. LedgersFromOneRun'
      <4>1. CASE torn = {}
        <5>1. origin' = origin /\ \A f \in Ledgers : disk'[f] = disk[f]
          BY <3>1, <4>1 DEF TypeOK, Files, Ledgers
        <5> QED BY <5>1 DEF OriginInv, LedgersFromOneRun
      <4>2. CASE torn # {}
        <5>1. PICK f \in Ledgers : f \in torn
          BY <3>2, <4>2
        <5>2. disk'[f] = Torn
          BY <3>1, <5>1 DEF Files
        <5> QED BY <5>1, <5>2 DEF LedgersFromOneRun
      <4> QED BY <4>1, <4>2
    <3>4. OwnFiles(p)'
      BY <2>7 DEF OwnFiles, Writing, Crash
    <3> QED BY <2>2, <2>7, <3>3, <3>4 DEF OriginInv
  <2>8. CASE /\ origin' = origin /\ \A f \in Ledgers : disk'[f] = disk[f]
             /\ ~Clear(p) /\ ~SaveInput(p) /\ ~Extract(p) /\ ~Cover(p)
    <3>1. LedgersFromOneRun'
      BY <2>8 DEF OriginInv, LedgersFromOneRun
    <3>2. ASSUME NEW q \in Proc, q # p PROVE OwnFiles(q)'
      <4>1. (Writing(q)' <=> Writing(q)) /\ pc'[q] = pc[q] /\ at'[q] = at[q]
        BY <2>1, <3>2
      <4> QED BY <2>8, <4>1 DEF OriginInv, OwnFiles, Ledgers
    <3>3. OwnFiles(p)'
      <4>1. CASE pc'[p] = "clear" /\ at'[p] = 1
        BY <4>1 DEF OwnFiles
      <4>2. CASE UNCHANGED <<pc, at, cmd, dead>>
        BY <2>0, <2>8, <4>2 DEF OwnFiles, Writing, Ledgers
      <4> QED BY <1>3, <2>8, <4>1, <4>2, WriterPhase DEF OwnFiles
    <3> QED BY <3>1, <3>2, <3>3 DEF OriginInv
  <2> QED BY <1>3, <2>3, <2>4, <2>5, <2>6, <2>7, <2>8, LedgerEffect
<1> QED BY <1>1, <1>2, <1>3, StepsAre

\* Whatever crashed, failed or was overtaken: three readable ledgers come
\* from one run, or the operator edited the extraction.  A stale completeness
\* ledger never stands beside a newer candidate.
THEOREM OneRunWrites == ASSUME ~MayStall PROVE Spec => []LedgersFromOneRun
<1>1. Init => OriginInv
  BY DEF Init, OriginInv, LedgersFromOneRun, OwnFiles, Writing, Files, Ledgers
<1>2. TypeOK /\ PhaseInv /\ LockInv /\ OriginInv /\ [Next]_vars => OriginInv'
  BY OriginStep
<1>3. OriginInv => LedgersFromOneRun
  BY DEF OriginInv
<1> QED BY <1>1, <1>2, <1>3, TypeCorrect, LockInvariant, PTL DEF Spec

\* A step that changes a saved ledger is one of a fresh audit run that holds
\* the lock, or the operator's edit of the extraction.
LEMMA PreservedStep ==
  ASSUME TypeOK, PhaseInv, LockInv, [Next]_vars
  PROVE  \A f \in Ledgers :
           disk'[f] # disk[f] =>
             \/ UNCHANGED <<pc, at, dead>> /\ f = "candidate"
             \/ \E p \in Proc :
                  /\ cmd[p] = "audit"
                  /\ lock = p
                  /\ <<pc[p], at[p], p \in dead>> # <<pc'[p], at'[p], p \in dead'>>
<1> SUFFICES ASSUME NEW f \in Ledgers, disk'[f] # disk[f]
             PROVE  \/ UNCHANGED <<pc, at, dead>> /\ f = "candidate"
                    \/ \E p \in Proc :
                         /\ cmd[p] = "audit"
                         /\ lock = p
                         /\ <<pc[p], at[p], p \in dead>> # <<pc'[p], at'[p], p \in dead'>>
  OBVIOUS
<1>1. CASE UNCHANGED vars
  BY <1>1 DEF vars
<1>2. CASE EditLedger
  BY <1>2 DEF EditLedger, TypeOK, Files, Ledgers, faults
<1>3. ASSUME NEW p \in Proc, Acts(p)
      PROVE  /\ cmd[p] = "audit" /\ lock = p
             /\ <<pc[p], at[p], p \in dead>> # <<pc'[p], at'[p], p \in dead'>>
  <2>1. PhaseOK(p)
    BY DEF PhaseInv
  <2>2. CASE Clear(p) \/ SaveInput(p) \/ Extract(p) \/ Cover(p)
    <3>1. pc'[p] # pc[p] \/ at'[p] # at[p]
      BY <2>2 DEF Clear, SaveInput, Extract, Cover, Runs, Goto, TypeOK
    <3>2. p \notin dead /\ cmd[p] = "audit" /\ pc[p] \in {"clear", "build", "extract", "cover"}
      BY <2>1, <2>2 DEF Clear, SaveInput, Extract, Cover, Runs, PhaseOK, TypeOK
    <3>3. lock = p
      BY <3>2 DEF LockInv, Exclusive
    <3> QED BY <3>1, <3>2, <3>3
  <2>3. CASE Writing(p) /\ Crash(p)
    <3>1. p \notin dead /\ p \in dead' /\ cmd[p] = "audit"
      BY <2>3 DEF Writing, Crash
    <3>2. lock = p
      BY <2>3 DEF LockInv, Exclusive, Writing
    <3> QED BY <3>1, <3>2
  <2> QED BY <1>3, <2>2, <2>3, LedgerEffect
<1> QED BY <1>1, <1>2, <1>3, StepsAre

\* "the reviewed ledgers were preserved": confirmation and finalize never
\* write a ledger, in any interleaving.
THEOREM LedgersPreserved == ASSUME ~MayStall PROVE Spec => ReviewedLedgersPreserved
<1>1. TypeOK /\ PhaseInv /\ LockInv /\ [Next]_vars =>
        [\A f \in Ledgers :
           disk'[f] # disk[f] =>
             \/ UNCHANGED <<pc, at, dead>> /\ f = "candidate"
             \/ \E p \in Proc :
                  /\ cmd[p] = "audit"
                  /\ lock = p
                  /\ <<pc[p], at[p], p \in dead>> # <<pc'[p], at'[p], p \in dead'>>]_vars
  BY PreservedStep
<1> QED BY <1>1, TypeCorrect, LockInvariant, PTL DEF Spec, ReviewedLedgersPreserved

-----------------------------------------------------------------------------
(* The published pair.                                                     *)

\* Between its two renames a live invocation has published its own
\* audit.json, and the backup it may put back is a pair that agrees, unless
\* somebody died between the renames before.
PairInv ==
  /\ PairAgrees
  /\ \A p \in Proc \ dead : pc[p] = "publish_md" =>
       /\ disk["json"] = audit[p]
       /\ saved[p][1] = saved[p][2] \/ \E q \in dead : pc[q] = "publish_md"

\* No other step touches the published pair, enters or leaves the window
\* between the renames.
LEMMA PairEffect ==
  ASSUME TypeOK, PhaseInv, NEW p \in Proc, Acts(p)
  PROVE  \/ PublishJson(p) \/ PublishMd(p) \/ Rollback(p)
         \/ /\ disk'["json"] = disk["json"] /\ disk'["md"] = disk["md"]
            /\ pc'[p] = "publish_md" <=> pc[p] = "publish_md"
            /\ p \notin dead' /\ pc[p] = "publish_md" => saved'[p] = saved[p] /\
                  audit'[p] = audit[p]
<1> USE DEF Runs, Goto
<1>1. CASE Start(p)
  BY <1>1 DEF Start, StartAudit, StartConfirm, StartLocked, StartFinalize, TypeOK
<1>2. CASE Clear(p)
  <2>1. Working[at[p]] # "json" /\ Working[at[p]] # "md"
    BY SMTT(20) DEF TypeOK, Working
  <2> QED BY <1>2, <2>1 DEF Clear, local, TypeOK, Files, Ledgers
<1>3. CASE SaveInput(p) \/ Extract(p) \/ Cover(p)
  BY <1>3 DEF SaveInput, Extract, Cover, TypeOK, Files, Ledgers
<1>4. CASE Collect(p) \/ NoConversation(p) \/ StartReading(p) \/ Read(p) \/ SkipCompleteness(p)
           \/ ExtractionFails(p) \/ CoverageFails(p)
  <2>1. disk' = disk /\ pc[p] # "publish_md" /\ pc'[p] # "publish_md"
    BY <1>4
       DEF Collect, NoConversation, StartReading, Read, SkipCompleteness, ExtractionFails,
           CoverageFails, GiveUp, TypeOK
  <2> QED BY <2>1
<1>5. CASE Ground(p) \/ LockToPublish(p) \/ Release(p) \/ Throw(p)
  <2>1. disk' = disk /\ pc[p] # "publish_md" /\ pc'[p] # "publish_md"
    BY <1>5 DEF Ground, LockToPublish, Release, Throw, TypeOK
  <2> QED BY <2>1
<1>6. CASE Crash(p)
  <2>1. disk'["json"] = disk["json"] /\ disk'["md"] = disk["md"]
    BY <1>6 DEF Crash, BeingWritten, Files, Ledgers
  <2>2. p \in dead' /\ (pc'[p] = "publish_md" <=> pc[p] = "publish_md")
    BY <1>6 DEF Crash, TypeOK
  <2> QED BY <2>1, <2>2
<1>7. CASE Stall(p)
  BY <1>7 DEF Stall, local
<1> QED BY <1>1, <1>2, <1>3, <1>4, <1>5, <1>6, <1>7 DEF Acts, Run

\* Every step keeps PairInv.
LEMMA PairStep ==
  ASSUME TypeOK, PhaseInv, LockInv, PairInv, [Next]_vars
  PROVE  PairInv'
<1>1. CASE EditLedger \/ UNCHANGED vars
  BY <1>1, IdleKeeps, IdleJson DEF PairInv, PairAgrees
<1>2. ASSUME NEW p \in Proc, Acts(p)
      PROVE  PairInv'
  <2> DEFINE open(q) == pc[q] = "publish_md"
  <2>1. ASSUME NEW q \in Proc, q # p
        PROVE  /\ q \in dead' <=> q \in dead
               /\ pc'[q] = pc[q] /\ audit'[q] = audit[q] /\ saved'[q] = saved[q]
    BY <1>2, <2>1, OthersKeep, OthersExclusive
  <2>2. ASSUME NEW q \in Proc, q # p, q \notin dead, p \notin dead, open(q),
           pc[p] \in {"publish", "publish_md"}
        PROVE  FALSE
    <3>1. Exclusive(p) /\ Exclusive(q)
      BY <2>2 DEF Exclusive, TypeOK
    <3> QED BY <2>2, <3>1 DEF LockInv
  <2>3. CASE PublishJson(p)
    <3>1. /\ pc[p] = "publish" /\ p \notin dead /\ pc'[p] = "publish_md" /\ dead' = dead
          /\ disk'["json"] = audit[p] /\ audit' = audit
          /\ saved'[p] = <<disk["json"], disk["md"]>>
      BY <2>3 DEF PublishJson, Runs, Goto, faults, TypeOK, Files
    <3>2. PairAgrees'
      BY <3>1 DEF PairAgrees
    <3>3. disk["json"] = disk["md"] \/ \E q \in dead : open(q) /\ q # p
      <4>1. disk["json"] = disk["md"] \/ \E q \in Proc : open(q)
        BY DEF PairInv, PairAgrees
      <4> QED BY <2>2, <3>1, <4>1
    <3>4. saved'[p][1] = saved'[p][2] \/ \E q \in dead' : pc'[q] = "publish_md"
      BY <2>1, <3>1, <3>3 DEF TypeOK
    <3>5. ASSUME NEW q \in Proc \ dead', pc'[q] = "publish_md"
          PROVE  q = p
      BY <2>1, <2>2, <3>1, <3>5
    <3> QED BY <3>1, <3>2, <3>4, <3>5 DEF PairInv
  <2>4. CASE PublishMd(p)
    <3>1. /\ pc[p] = "publish_md" /\ p \notin dead /\ pc'[p] = "release" /\ dead' = dead
          /\ disk'["json"] = disk["json"] /\ disk'["md"] = audit[p]
      BY <2>4 DEF PublishMd, Runs, Goto, faults, TypeOK, Files
    <3>2. PairAgrees'
      BY <3>1 DEF PairInv, PairAgrees
    <3>3. ASSUME NEW q \in Proc \ dead', pc'[q] = "publish_md"
          PROVE  FALSE
      BY <2>1, <2>2, <3>1, <3>3
    <3> QED BY <3>2, <3>3 DEF PairInv
  <2>5. CASE Rollback(p)
    <3>1. /\ pc[p] = "publish_md" /\ p \notin dead /\ pc'[p] = "release" /\ dead' = dead
          /\ disk'["json"] = saved[p][1] /\ disk'["md"] = saved[p][2]
      BY <2>5 DEF Rollback, Runs, Goto, faults, TypeOK, Files
    <3>2. PairAgrees'
      <4>1. saved[p][1] = saved[p][2] \/ \E q \in dead : open(q) /\ q # p
        BY <3>1 DEF PairInv
      <4> QED BY <2>1, <3>1, <4>1 DEF PairAgrees, TypeOK
    <3>3. ASSUME NEW q \in Proc \ dead', pc'[q] = "publish_md"
          PROVE  FALSE
      BY <2>1, <2>2, <3>1, <3>3
    <3> QED BY <3>2, <3>3 DEF PairInv
  <2>6. CASE /\ disk'["json"] = disk["json"] /\ disk'["md"] = disk["md"]
             /\ pc'[p] = "publish_md" <=> pc[p] = "publish_md"
             /\ p \notin dead' /\ pc[p] = "publish_md" => saved'[p] = saved[p] /\
                   audit'[p] = audit[p]
    <3>1. \A q \in Proc : pc'[q] = "publish_md" <=> pc[q] = "publish_md"
      BY <2>1, <2>6
    <3>2. PairAgrees'
      BY <2>6, <3>1 DEF PairInv, PairAgrees
    <3>3. dead \subseteq dead' /\ dead \subseteq Proc
      BY <1>2, LockEffect DEF TypeOK
    <3>4. (\E q \in dead : pc[q] = "publish_md") => \E q \in dead' : pc'[q] = "publish_md"
      BY <3>1, <3>3
    <3>5. ASSUME NEW q \in Proc \ dead', pc'[q] = "publish_md"
          PROVE  /\ disk'["json"] = audit'[q]
                 /\ saved'[q][1] = saved'[q][2] \/ \E r \in dead' : pc'[r] = "publish_md"
      <4>1. q \in Proc \ dead /\ pc[q] = "publish_md"
        BY <3>1, <3>3, <3>5
      <4>2. saved'[q] = saved[q] /\ audit'[q] = audit[q]
        BY <2>1, <2>6, <3>5, <4>1
      <4> QED BY <2>6, <3>4, <4>1, <4>2 DEF PairInv
    <3> QED BY <3>2, <3>5 DEF PairInv
  <2> QED BY <1>2, <2>3, <2>4, <2>5, <2>6, PairEffect
<1> QED BY <1>1, <1>2, StepsAre

\* audit.json and audit.md describe the same audit whenever no invocation is
\* between its renames, whatever was rolled back.
THEOREM PublishedPairAgrees == ASSUME ~MayStall PROVE Spec => []PairAgrees
<1>1. Init => PairInv
  BY DEF Init, PairInv, PairAgrees, Files
<1>2. TypeOK /\ PhaseInv /\ LockInv /\ PairInv /\ [Next]_vars => PairInv'
  BY PairStep
<1>3. PairInv => PairAgrees
  BY DEF PairInv
<1> QED BY <1>1, <1>2, <1>3, TypeCorrect, LockInvariant, PTL DEF Spec

=============================================================================
