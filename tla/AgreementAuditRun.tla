------------------------- MODULE AgreementAuditRun -------------------------
(***************************************************************************)
(* Invocations of `review-surfaces audit', `audit --confirm-extraction'    *)
(* and `agreement-audit finalize' over one output directory.  Each process *)
(* is one invocation.  Between two steps of an invocation the others may   *)
(* run, the repository or the conversation may change, the operator may    *)
(* edit a saved ledger, and any process may be killed.                     *)
(*                                                                         *)
(* A write is one step, but a process killed while it writes leaves the    *)
(* file torn: the code opens it with O_TRUNC and then fills it.  A rename  *)
(* is atomic.  The lock is proper-lockfile's: acquiring it never waits,    *)
(* and a lock whose holder no longer refreshes it counts as free.          *)
(***************************************************************************)
EXTENDS AgreementGrounding

CONSTANTS
  Proc,        \* invocations of the command line
  Inputs,      \* what collection may produce
  Candidates,  \* what the extraction pass may answer
  Coverages,   \* what the completeness pass may answer
  MayStall     \* may a live holder fail to refresh its lock for 120 seconds?

ASSUME StallAssumption == MayStall \in BOOLEAN

\* AGREEMENT_AUDIT_WORKING_ARTIFACTS, in the order the code clears, writes
\* and reads them.
Working == <<"input", "candidate", "completeness">>
Ledgers == {"input", "candidate", "completeness"}
Files   == Ledgers \cup {"json", "md"}

\* A file cut short by a crash: it exists, and does not parse.
Torn == [torn |-> TRUE]

\* A ledger that was collected, answered or parsed is a ledger: neither missing nor
\* torn.  An extraction has agreements and may be limited, and no process is None.
ASSUME LedgerAssumption ==
  /\ \A l \in Inputs \cup Candidates \cup Coverages : l # None /\ l # Torn
  /\ \A c \in Candidates : {"agreements", "limited"} \subseteq DOMAIN c
  /\ None \notin Proc

VARIABLES
  disk,     \* the output directory: file -> content, or None
  origin,   \* ledger -> the processes whose bytes it holds (history)
  lock,     \* holder of the run lock, or None
  pc,       \* process -> its next step
  at,       \* process -> position in Working while clearing or reading
  cmd,      \* process -> "audit", "confirm" or "finalize"
  token,    \* process -> the token it was given, or None
  input,    \* process -> the input it works on
  ledgers,  \* process -> the ledgers it holds in memory
  lost,     \* process -> did the completeness pass fail?
  audit,    \* process -> the audit it computed, or None
  saved,    \* process -> audit.json and audit.md before it published
  dead,     \* processes that were killed
  stalled,  \* processes that stopped refreshing the lock
  shown     \* tokens that some published audit has displayed (history)

local  == <<cmd, token, input, ledgers, lost, audit, saved>>
faults == <<dead, stalled>>
vars == <<disk, origin, lock, pc, at, cmd, token, input, ledgers, lost,
          audit, saved, dead, stalled, shown>>

LedgerSets == [input : Inputs, candidate : Candidates, completeness : Coverages]
AllTokens  == [canonical : Inputs, artifacts : LedgerSets]
AllAudits  == [status : Statuses, verified : BOOLEAN, token : AllTokens \cup {None}]
HeldLedgers == [input : Inputs \cup {None}, candidate : Candidates \cup {None},
                completeness : Coverages \cup {None}]

\* What a file of the output directory may hold.
ContentOf(f) ==
  CASE f = "input"        -> Inputs \cup {None, Torn}
    [] f = "candidate"    -> Candidates \cup {None, Torn}
    [] f = "completeness" -> Coverages \cup {None, Torn}
    [] OTHER              -> AllAudits \cup {None}

Blank == [input |-> None, candidate |-> None, completeness |-> None]

Steps == {"new", "collect", "clear", "build", "read", "extract", "cover",
          "ground", "lock", "publish", "publish_md", "release", "done"}

Init ==
  /\ disk = [f \in Files |-> None]
  /\ origin = [f \in Ledgers |-> {}]
  /\ lock = None
  /\ pc = [p \in Proc |-> "new"]
  /\ at = [p \in Proc |-> 1]
  /\ cmd = [p \in Proc |-> "audit"]
  /\ token = [p \in Proc |-> None]
  /\ input = [p \in Proc |-> None]
  /\ ledgers = [p \in Proc |-> Blank]
  /\ lost = [p \in Proc |-> FALSE]
  /\ audit = [p \in Proc |-> None]
  /\ saved = [p \in Proc |-> <<None, None>>]
  /\ dead = {}
  /\ stalled = {}
  /\ shown = {}

-----------------------------------------------------------------------------
(* Helpers.                                                                *)

Goto(p, step) == pc' = [pc EXCEPT ![p] = step]

\* What the process held in memory is gone.
Forget(p) ==
  /\ at' = [at EXCEPT ![p] = 1]
  /\ ledgers' = [ledgers EXCEPT ![p] = Blank]
  /\ lost' = [lost EXCEPT ![p] = FALSE]
  /\ saved' = [saved EXCEPT ![p] = <<None, None>>]

\* A lock whose holder stopped refreshing it is taken over.
LockFree == lock = None \/ lock \in dead \cup stalled

Runs(p, step) == pc[p] = step /\ p \notin dead

\* The ledger bytes the run can bind a token to.
Bytes(p) == IF ledgers[p].completeness = None THEN None ELSE ledgers[p]

\* incompleteAgreementAudit
Incomplete == [status |-> "cannot_audit", verified |-> FALSE, token |-> None]

-----------------------------------------------------------------------------
(* Starting.  An invocation that finds the lock held fails at once and     *)
(* leaves no trace, so it is not a step.                                   *)

StartLocked(p, command, t) ==
  /\ Runs(p, "new")
  /\ LockFree
  /\ lock' = p
  /\ cmd' = [cmd EXCEPT ![p] = command]
  /\ token' = [token EXCEPT ![p] = t]
  /\ Goto(p, "collect")
  /\ UNCHANGED <<disk, origin, at, input, ledgers, lost, audit, saved,
                 dead, stalled, shown>>

StartAudit(p) == StartLocked(p, "audit", None)

StartConfirm(p) == \E t \in shown : StartLocked(p, "confirm", t)

\* finalize reads its ledgers before it takes the lock.
StartFinalize(p) ==
  /\ Runs(p, "new")
  /\ \E t \in shown \cup {None} : token' = [token EXCEPT ![p] = t]
  /\ cmd' = [cmd EXCEPT ![p] = "finalize"]
  /\ Goto(p, "read")
  /\ UNCHANGED <<disk, origin, lock, at, input, ledgers, lost, audit,
                 saved, dead, stalled, shown>>

-----------------------------------------------------------------------------
(* runIntegratedAgreementAudit.                                            *)

\* Defect: every run starts from a clean slate.
MutCollect(p) ==
  /\ Runs(p, "collect")
  /\ \E i \in Inputs : input' = [input EXCEPT ![p] = i]
  /\ Goto(p, "clear")
  /\ UNCHANGED <<disk, origin, lock, at, cmd, token, ledgers, lost,
                 audit, saved, dead, stalled, shown>>

\* The repository and the conversation may be any by the time they are collected.
Collect(p) ==
  /\ Runs(p, "collect")
  /\ \E i \in Inputs : input' = [input EXCEPT ![p] = i]
  /\ Goto(p, IF token[p] = None THEN "clear" ELSE "build")
  /\ UNCHANGED <<disk, origin, lock, at, cmd, token, ledgers, lost,
                 audit, saved, dead, stalled, shown>>

\* Defect: the input and the extraction are removed, the coverage is kept.
MutClear(p) ==
  /\ Runs(p, "clear")
  /\ disk' = [disk EXCEPT ![Working[at[p]]] = None]
  /\ origin' = [origin EXCEPT ![Working[at[p]]] = {}]
  /\ IF at[p] = 2
     THEN Goto(p, "build") /\ at' = [at EXCEPT ![p] = 1]
     ELSE at' = [at EXCEPT ![p] = @ + 1] /\ UNCHANGED pc
  /\ UNCHANGED <<lock, local, faults, shown>>

\* clearAgreementAuditWorkingArtifacts removes one file after the other.
Clear(p) ==
  /\ Runs(p, "clear")
  /\ disk' = [disk EXCEPT ![Working[at[p]]] = None]
  /\ origin' = [origin EXCEPT ![Working[at[p]]] = {}]
  /\ IF at[p] = 3
     THEN Goto(p, "build") /\ at' = [at EXCEPT ![p] = 1]
     ELSE at' = [at EXCEPT ![p] = @ + 1] /\ UNCHANGED pc
  /\ UNCHANGED <<lock, local, faults, shown>>

GiveUp(p) ==
  /\ audit' = [audit EXCEPT ![p] = Incomplete]
  /\ Goto(p, "publish")

\* No user turn was collected: the run stops with an incomplete audit.
NoConversation(p) ==
  /\ Runs(p, "build")
  /\ UserEvents(input[p]) = {}
  /\ GiveUp(p)
  /\ UNCHANGED <<disk, origin, lock, at, cmd, token, input, ledgers,
                 lost, saved, faults, shown>>

SaveInput(p) ==
  /\ Runs(p, "build")
  /\ token[p] = None
  /\ UserEvents(input[p]) # {}
  /\ disk' = [disk EXCEPT !["input"] = input[p]]
  /\ origin' = [origin EXCEPT !["input"] = {p}]
  /\ ledgers' = [ledgers EXCEPT ![p].input = input[p]]
  /\ Goto(p, "extract")
  /\ UNCHANGED <<lock, at, cmd, token, input, lost, audit, saved,
                 faults, shown>>

StartReading(p) ==
  /\ Runs(p, "build")
  /\ token[p] # None
  /\ UserEvents(input[p]) # {}
  /\ Goto(p, "read")
  /\ UNCHANGED <<disk, origin, lock, at, local, faults, shown>>

\* Defect: a torn ledger is taken for a ledger.
MutRead(p) ==
  LET f == Working[at[p]] IN
  /\ Runs(p, "read")
  /\ disk[f] # None
  /\ ledgers' = [ledgers EXCEPT ![p][f] = disk[f]]
  /\ IF at[p] = 3
     THEN Goto(p, "ground") /\ at' = [at EXCEPT ![p] = 1]
     ELSE at' = [at EXCEPT ![p] = @ + 1] /\ UNCHANGED pc
  /\ UNCHANGED <<disk, origin, lock, cmd, token, input, lost, audit,
                 saved, faults, shown>>

\* readAgreementAuditLedgers opens one file after the other.  A confirmation
\* run insists that the saved input equals the one it collected.
Read(p) ==
  LET f == Working[at[p]]
      content == disk[f] IN
  /\ Runs(p, "read")
  /\ content \notin {None, Torn}
  /\ (f = "input" /\ cmd[p] = "confirm") => content = input[p]
  /\ ledgers' = [ledgers EXCEPT ![p][f] = content]
  /\ IF at[p] = 3
     THEN Goto(p, "ground") /\ at' = [at EXCEPT ![p] = 1]
     ELSE at' = [at EXCEPT ![p] = @ + 1] /\ UNCHANGED pc
  /\ UNCHANGED <<disk, origin, lock, cmd, token, input, lost, audit,
                 saved, faults, shown>>

\* finalize without --completeness: the third ledger is not read.
SkipCompleteness(p) ==
  /\ Runs(p, "read")
  /\ cmd[p] = "finalize"
  /\ at[p] = 3
  /\ Goto(p, "ground")
  /\ at' = [at EXCEPT ![p] = 1]
  /\ UNCHANGED <<disk, origin, lock, local, faults, shown>>

\* The extraction pass answers, and its answer is saved.
Extract(p) ==
  /\ Runs(p, "extract")
  /\ \E c \in Candidates :
       /\ ledgers' = [ledgers EXCEPT ![p].candidate = c]
       /\ disk' = [disk EXCEPT !["candidate"] = c]
  /\ origin' = [origin EXCEPT !["candidate"] = {p}]
  /\ Goto(p, "cover")
  /\ UNCHANGED <<lock, at, cmd, token, input, lost, audit, saved,
                 faults, shown>>

\* Blocked for privacy, unavailable, or invalid output.
ExtractionFails(p) ==
  /\ Runs(p, "extract")
  /\ GiveUp(p)
  /\ UNCHANGED <<disk, origin, lock, at, cmd, token, input, ledgers,
                 lost, saved, faults, shown>>

Cover(p) ==
  /\ Runs(p, "cover")
  /\ \E v \in Coverages :
       /\ ledgers' = [ledgers EXCEPT ![p].completeness = v]
       /\ disk' = [disk EXCEPT !["completeness"] = v]
  /\ origin' = [origin EXCEPT !["completeness"] = {p}]
  /\ Goto(p, "ground")
  /\ UNCHANGED <<lock, at, cmd, token, input, lost, audit, saved,
                 faults, shown>>

\* The pass failed: no completeness ledger, one more limitation.
CoverageFails(p) ==
  /\ Runs(p, "cover")
  /\ lost' = [lost EXCEPT ![p] = TRUE]
  /\ Goto(p, "ground")
  /\ UNCHANGED <<disk, origin, lock, at, cmd, token, input, ledgers,
                 audit, saved, faults, shown>>

\* finalize works on the input it read and adds a limitation of its own to
\* whatever candidate it was given; the others work on the input collected.
Grounded(p) ==
  LET l == ledgers[p]
      candidate == [l.candidate EXCEPT
                      !.limited = @ \/ lost[p] \/ cmd[p] = "finalize"]
  IN Audit(IF cmd[p] = "finalize" THEN l.input ELSE input[p],
           candidate, l.completeness, Bytes(p), token[p])

Ground(p) ==
  /\ Runs(p, "ground")
  /\ audit' = [audit EXCEPT ![p] = Grounded(p)]
  /\ Goto(p, IF cmd[p] = "finalize" THEN "lock" ELSE "publish")
  /\ UNCHANGED <<disk, origin, lock, at, cmd, token, input, ledgers,
                 lost, saved, faults, shown>>

-----------------------------------------------------------------------------
(* publishAgreementAuditArtifacts.  The staged pair is private until the   *)
(* renames, so staging is not a step.                                      *)

LockToPublish(p) ==
  /\ Runs(p, "lock")
  /\ LockFree
  /\ lock' = p
  /\ Goto(p, "publish")
  /\ UNCHANGED <<disk, origin, at, local, faults, shown>>

\* Back up the pair, then rename audit.json into place.
PublishJson(p) ==
  /\ Runs(p, "publish")
  /\ saved' = [saved EXCEPT ![p] = <<disk["json"], disk["md"]>>]
  /\ disk' = [disk EXCEPT !["json"] = audit[p]]
  /\ shown' = shown \cup ({audit[p].token} \ {None})
  /\ Goto(p, "publish_md")
  /\ UNCHANGED <<origin, lock, at, cmd, token, input, ledgers, lost,
                 audit, faults>>

PublishMd(p) ==
  /\ Runs(p, "publish_md")
  /\ disk' = [disk EXCEPT !["md"] = audit[p]]
  /\ Goto(p, "release")
  /\ UNCHANGED <<origin, lock, at, local, faults, shown>>

\* Defect: only the file whose rename failed is put back.
MutRollback(p) ==
  /\ Runs(p, "publish_md")
  /\ disk' = [disk EXCEPT !["md"] = saved[p][2]]
  /\ Goto(p, "release")
  /\ UNCHANGED <<origin, lock, at, local, faults, shown>>

\* The second rename failed: put both files back.
Rollback(p) ==
  /\ Runs(p, "publish_md")
  /\ disk' = [disk EXCEPT !["json"] = saved[p][1], !["md"] = saved[p][2]]
  /\ Goto(p, "release")
  /\ UNCHANGED <<origin, lock, at, local, faults, shown>>

\* Removing the lock directory does not ask whose it is.
Release(p) ==
  /\ Runs(p, "release")
  /\ lock' = None
  /\ Goto(p, "done")
  /\ Forget(p)
  /\ UNCHANGED <<disk, origin, cmd, token, input, audit, faults, shown>>

\* Defect: the finally block releases a lock this invocation may not hold.
MutThrow(p) ==
  /\ p \notin dead
  /\ pc[p] \notin {"new", "publish_md", "release", "done"}
  /\ Goto(p, "release")
  /\ Forget(p)
  /\ UNCHANGED <<disk, origin, lock, cmd, token, input, audit, faults,
                 shown>>

\* Defect: an error skips the release of the lock.
MutThrowLocked(p) ==
  /\ p \notin dead
  /\ pc[p] \notin {"new", "publish_md", "release", "done"}
  /\ Goto(p, "done")
  /\ Forget(p)
  /\ UNCHANGED <<disk, origin, lock, cmd, token, input, audit, faults,
                 shown>>

\* Any other step may throw: a refused input, a missing or torn ledger, a lock
\* held by another process, an I/O error.  The finally block releases the lock
\* if this invocation took it.
Throw(p) ==
  /\ p \notin dead
  /\ pc[p] \notin {"new", "publish_md", "release", "done"}
  /\ Goto(p, IF cmd[p] = "finalize" /\ pc[p] # "publish"
             THEN "done" ELSE "release")
  /\ Forget(p)
  /\ UNCHANGED <<disk, origin, lock, cmd, token, input, audit, faults,
                 shown>>

-----------------------------------------------------------------------------
(* The environment.                                                        *)

\* The file a process is in the middle of writing, if any.
BeingWritten(p) ==
  CASE pc[p] = "build" /\ token[p] = None /\ UserEvents(input[p]) # {} -> {"input"}
    [] pc[p] = "extract" -> {"candidate"}
    [] pc[p] = "cover"   -> {"completeness"}
    [] OTHER -> {}

\* Only a kill between the two renames leaves a trace in pc: see PairAgrees.
Crash(p) ==
  /\ p \notin dead
  /\ pc[p] \notin {"new", "done"}
  /\ dead' = dead \cup {p}
  /\ \E torn \in SUBSET BeingWritten(p) :
       /\ disk' = [f \in Files |-> IF f \in torn THEN Torn ELSE disk[f]]
       /\ origin' = [f \in Ledgers |-> IF f \in torn THEN {p} ELSE origin[f]]
  /\ Goto(p, IF pc[p] = "publish_md" THEN "publish_md" ELSE "done")
  /\ Forget(p)
  /\ UNCHANGED <<lock, cmd, token, input, audit, stalled, shown>>

\* A holder suspended, or busy in a synchronous call, for longer than the
\* stale threshold.
Stall(p) ==
  /\ MayStall
  /\ lock = p
  /\ p \notin dead \cup stalled
  /\ stalled' = stalled \cup {p}
  /\ UNCHANGED <<disk, origin, lock, pc, at, local, dead, shown>>

\* The operator edits the extraction ledger by hand.
EditLedger ==
  /\ disk["candidate"] # None
  /\ \E c \in Candidates : disk' = [disk EXCEPT !["candidate"] = c]
  /\ origin' = [origin EXCEPT !["candidate"] = @ \cup Proc]
  /\ UNCHANGED <<lock, pc, at, local, faults, shown>>

Run(p) ==
  \/ Collect(p) \/ Clear(p) \/ NoConversation(p) \/ SaveInput(p)
  \/ StartReading(p) \/ Read(p) \/ SkipCompleteness(p)
  \/ Extract(p) \/ ExtractionFails(p) \/ Cover(p) \/ CoverageFails(p)
  \/ Ground(p) \/ LockToPublish(p) \/ PublishJson(p) \/ PublishMd(p)
  \/ Rollback(p) \/ Release(p) \/ Throw(p)

Start(p) == StartAudit(p) \/ StartConfirm(p) \/ StartFinalize(p)

Next ==
  \/ \E p \in Proc : Start(p) \/ Run(p) \/ Crash(p) \/ Stall(p)
  \/ EditLedger

Spec == Init /\ [][Next]_vars

-----------------------------------------------------------------------------
(* Properties.                                                             *)

TypeOK ==
  /\ disk \in [Files -> UNION {ContentOf(f) : f \in Files}]
  /\ \A f \in Files : disk[f] \in ContentOf(f)
  /\ origin \in [Ledgers -> SUBSET Proc]
  /\ lock \in Proc \cup {None}
  /\ pc \in [Proc -> Steps]
  /\ at \in [Proc -> 1..3]
  /\ cmd \in [Proc -> {"audit", "confirm", "finalize"}]
  /\ shown \subseteq AllTokens
  /\ token \in [Proc -> shown \cup {None}]
  /\ input \in [Proc -> Inputs \cup {None}]
  /\ ledgers \in [Proc -> HeldLedgers]
  /\ lost \in [Proc -> BOOLEAN]
  /\ saved \in [Proc -> (AllAudits \cup {None}) \X (AllAudits \cup {None})]
  /\ audit \in [Proc -> AllAudits \cup {None}]
  /\ dead \cup stalled \subseteq Proc

\* docs/agreement-audit-v0.md "Reviewer experience": the clean message unlocks
\* only after a second, confirming run.  If audit.json says that no mismatch
\* was found, it was written by a confirmation run whose token another run had
\* computed before, the token binds the input the confirming run collected
\* itself, and the ledgers it binds pass every structural check.
CleanVerdictWasConfirmed ==
  (disk["json"] # None /\ disk["json"].status = "no_mismatch_found") =>
    \E p \in Proc :
      LET t == disk["json"].token IN
      /\ cmd[p] = "confirm"
      /\ audit[p] = disk["json"]
      /\ token[p] = t
      /\ t.canonical = input[p]
      /\ StructurallyVerified(input[p], t.artifacts.candidate,
                              t.artifacts.completeness)
      /\ \E q \in Proc \ {p} : audit[q] # None /\ audit[q].token = t

\* A holder that is alive and refreshes its lock is alone: no second live
\* invocation clears, collects, writes ledgers or publishes next to it.
Exclusive(p) ==
  /\ p \notin dead
  /\ \/ cmd[p] = "finalize" /\ pc[p] \in {"publish", "publish_md", "release"}
     \/ cmd[p] # "finalize" /\ pc[p] \notin {"new", "done"}

OneWriter == \A p, q \in Proc : Exclusive(p) /\ Exclusive(q) => p = q

\* A set of three readable ledgers that nobody edited comes from one
\* invocation, whatever crashed, failed or was overtaken before: a stale
\* completeness ledger never stands beside a newer candidate.
LedgersFromOneRun ==
  (\A f \in Ledgers : disk[f] \notin {None, Torn}) =>
    \/ \E p \in Proc : \A f \in Ledgers : origin[f] = {p}
    \/ origin["candidate"] = Proc

\* audit.json and audit.md describe the same audit whenever no invocation is
\* between its two renames, not even a dead one.
PairAgrees ==
  (\A p \in Proc : pc[p] # "publish_md") => disk["json"] = disk["md"]

\* "the reviewed ledgers were preserved": only a fresh audit run, holding the
\* lock, or the operator's editor changes a saved ledger.
ReviewedLedgersPreserved ==
  [][\A f \in Ledgers :
       disk'[f] # disk[f] =>
         \/ UNCHANGED <<pc, at, dead>> /\ f = "candidate"
         \/ \E p \in Proc :
              /\ cmd[p] = "audit"
              /\ lock = p
              /\ <<pc[p], at[p], p \in dead>> # <<pc'[p], at'[p], p \in dead'>>]_vars

\* Whatever was refused, failed or was put back, and whoever took the lock over
\* meanwhile, an invocation that is not killed ends without the lock.
NoLockLeft == \A p \in Proc : (pc[p] = "done" /\ p \notin dead) => lock # p

\* The lock excludes for as long as it is needed and no longer: no two invocations
\* write the ledgers or the pair at once, and none that ends keeps the directory.
LockDiscipline == OneWriter /\ NoLockLeft

-----------------------------------------------------------------------------
(* The abstract promise.                                                   *)

\* The audit in audit.json justifies what it says: see AgreementVerdict.
Promise == INSTANCE AgreementVerdict WITH
  Verdicts  <- AllAudits,
  displayed <- shown,
  asked     <- {token[p] : p \in Proc} \ {None},
  verdict   <- disk["json"]

\* Every behaviour of the invocations keeps the promise of AgreementVerdict.
KeepsPromise == Promise!ASpec
=============================================================================
