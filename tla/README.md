# A TLA+ development for review-surfaces

review-surfaces is a command-line tool (TypeScript, `src/src`, with small
trusted runtimes in `src/bin` and a GitHub Action in `src/action.yml`) that
turns a change into evidence for a human reviewer: a review packet built by
composable stages, a sticky pull-request comment, and an *agreement audit* that
compares what was agreed in a conversation with what a diff does. It keeps no
database and no server. Its state is files in an output directory, comments on
a pull request, and what a process holds between two awaits, so what is hard
about it is reuse of files left by other invocations, invocations that overlap
or are killed, and calls to a service that changes underneath.

Paths below are relative to the repository root (the directory `src/` here).

## Inventory

| Component | State | Operations | Interacts with | Hard behaviour | What makes it correct |
|---|---|---|---|---|---|
| **Agreement audit, validator** (`src/audit/{contract,parse,grounding,completeness,comparison}.ts`) | none; two ledgers in, one audit out | parse, verify coverage, bind a token, ground, compare with an earlier audit | model answers, recorded commands, the diff | many partly valid inputs: duplicates, rejected items, foreign commands | a clean verdict is exhaustive, rests on evidence of the head, and was confirmed |
| **Agreement audit, invocations** (`src/audit/{integrated-run,artifacts,ledgers,cli}.ts`, `src/cli/index.ts:291-334`) | three ledger files, `audit.json`, `audit.md`, a lock directory | `audit`, `audit --confirm-extraction`, `agreement-audit finalize` | the validator, the collector, the operator's editor | overlap, kills, a lock that goes stale, an edited ledger, a moved head | one writer; ledgers of one run; the pair agrees; nothing unconfirmed looks clean |
| Agreement audit, benchmark and rendering (`src/audit/{benchmark*,prompt,render}.ts`) | none | scoring, prompt and Markdown text | | none | |
| **Sticky comment** (`src/render/post-comment.ts`, `src/pipeline/pr-surface.ts`, `bin/review-surfaces-sticky.js`, `action.yml`, `.github/workflows/pr-review-comment.yml`) | comments on the pull request, uploaded packets | recover, generate, upload, check, look up, create, patch, delete | GitHub, concurrency groups | a push between check and write, failed listings, cancelled and waiting runs | one sticky, never older than what it replaces, delta against what was shown, eventually current |
| **Artifact pipeline** (`src/pipeline/*`, `src/collector/artifact-provenance.ts`, `src/cli/index.ts` stages and `runAll`) | six stamped artifacts, `manifest.json` | `collect`, `intent`, `evaluate`, `methodology`, `risks`, `diagrams`, `handoff`, `packet`, `all`, `all --cache` | the collector, the gate, human review | stages of different inputs mixed, edits during a run, kills between write and stamp | only artifacts of the collected inputs are composed, reused or gated on |
| Quality gate (`src/core/gate.ts`) | none | priority of privacy, evidence and quality conditions | the packet's evaluation | | as the pipeline's |
| **Collector** (`src/collector/{collect,git}.ts`, `src/privacy/diff.ts`) | inputs directory, a signature | pin, index, list, patch, hash, check a strict snapshot | git, the working tree | the repository changes between the reads | a strict snapshot is of one commit; a signature names all that was read; nothing ignored is shown |
| Scope and index (`src/scope/*`, `src/indexer/*`) | none | map files to areas, the requirements a diff touches | the collector | | as evaluation's |
| **Validation evidence and verdict** (`src/commands/transcripts.ts`, `src/tests-evidence/junit.ts`, `src/risks/*`, `src/human/decision-admission.ts`, the verdict of `src/human/human-review.ts`) | transcript files, a JUnit report, feedback notes | record a command, read evidence at a pinned head, find blockers, decide | git, test runners, reviewers | HEAD and the tree move during a run and between run and review; long reports and long lists of checks are cut | a verdict rests on evidence of the pinned head, and no cut hides a failure or a missing check |
| **Command recorder** (`src/commands/*`, `bin/bounded-stream-capture.js`) | capture buffers, transcript files | spawn, tee, settle, write | child processes, streams | error and close in either order, backpressure, truncation, two recorders and a reader of one file | settles once; what is read is of one run, with the child's own status and no silent cut |
| **Evaluation and evidence** (`src/evaluation/*`, `src/evidence/*`) | none | classify evidence, assign a status, promote by tests, compare base and head | intent, tests, a provider | evidence of unequal worth; ids that are positions | satisfied is earned by evidence the tool read; a requirement is compared with itself |
| **Pull-request risks** (`src/risks/pr-risks.ts`, `src/pr/risk-metadata.ts`) | none; the working tree and the recorded runs before it | eleven rules over the changed files | the collector, recorded commands, the queue | edits, commits and runs in any order before the review; evidence cut at twelve | an implementation left out was tested as it is; what is removed is named |
| **Human review** (`src/human/*`, `src/feedback/*`) | feedback files | build the queue, decide, plan, ask, draft comments, audit trust | the packet, policy, reviewers | feedback and policy re-rank; every list is cut | no decision, blocker or doubt is lost to a cut, a demotion or a budget |
| **Lines of the change** (`src/collector/diff-hunks.ts`, `src/human/{hunk-excerpt,coverage-gutter}.ts`, `src/tests-evidence/lcov.ts`, `src/render/draft-review.ts`) | none; the saved patch in between | parse a patch, locate secrets, join coverage, anchor, excerpt, mark, draft comments | git, the collector, GitHub reviews | lines counted again on two sides, trimmed ends, lines that look like headers, a path in two sections | whatever points at a line of the change points at the line meant |
| **Rounds of a review** (`src/dogfood/{compare,dogfood}.ts`, the comparison and the ledger of `human-review.ts`, roll-ups of `src/risks/risks.ts`) | a saved packet and brief of an earlier round | compare, carry the ledger over | the next invocation | lost, damaged or mismatched earlier artifacts; kills | nothing open is hidden; one true row for each round |
| **Surfaces of the command line** (`src/cli/index.ts`, `src/review/walkthrough.ts`) | packet, PR surface, brief, exports, feedback files | `all`, stages, `human`, sub-artifacts, `walkthrough`, `comment` | the pipeline, providers, a person at a terminal | each reads what others left; a walkthrough stays open | what is shown is of one packet and one head, and no decision is overwritten |
| **Conversation** (`src/conversation/*`, `src/core/command-{segments,classify}.ts`) | none | find the session, classify commands, credit statuses, build a brief | sessions that are still written, a provider | which session, whose status, which cut | the producer's session; a status credited to what it proves; the user's last word kept |
| **Providers and audit cache** (`src/llm/*`) | cached answers | choose events, ask in chunks, anchor, merge, reuse | remote models | unanswered chunks, answers of an earlier run | what a model adds is grounded in what it saw, in this run |
| Privacy (`src/privacy/secrets.ts`, `bin/privacy-runtime.js`) | detector window | redact, detect across chunks | every writer | a secret split across chunks | detection does not depend on chunking |
| Methodology, diagrams, rendering, schema, bootstrap | none | reports | | none | |

## Modules

| Module | Models | Checked in |
|---|---|---|
| `AgreementGrounding` | the validator, as constant operators | `Agreement`, `AuditRun`, `AuditRunPair` |
| `AgreementExtraction` | the two model passes, grounding, confirmation, rerun comparison | `Agreement` and proofs |
| `AgreementVerdict` | what `audit.json` promises its reader: the abstract specification | `AuditRunPair` |
| `AgreementAuditRun` | overlapping invocations over one output directory; implements `AgreementVerdict` | `AuditRun`, `AuditRunPair` and proofs |
| `StickyComment` | workflow runs and the comment client | `Sticky`, `StickyRace` and proofs |
| `ArtifactPipeline` | stage commands, stamps, cache | `Pipeline` and proofs |
| `ValidationEvidence` | recorded commands, reports, notes, and the verdict | `Evidence` and proofs |
| `RequirementEvaluation` | the status of one requirement | `Evidence`; proofs in `ScopedCoverage_proofs` |
| `ScopedCoverage` | requirements a change touches, at base and head | `Evidence`, `ScopedRemoval` and proofs |
| `PrRisks` | the risks of a pull request over a tree that is edited, committed and tested | `Evidence`; proofs in `ScopedCoverage_proofs` |
| `ReviewQueue` | queue, decisions, verdict and plan under policy and feedback | `Evidence`, `SeverityCoherence`; proofs in `ScopedCoverage_proofs` |
| `DiffAnchors` | the patch, its line numbers, and what points at them | `Evidence` |
| `CommandClassification` | how wide a command line tests | `Inputs` |
| `CommandSegments` | whose a compound command's status is | `Inputs`, `ConversationMultiline` |
| `SessionDiscovery` | which session is read as the conversation | `Inputs` |
| `ConversationBrief` | the brief of the conversation and its windows | `Inputs` |
| `CommandRecorder` | child, tee, capture, file, reader | `Inputs`; proofs in `ValidationEvidence_proofs` |
| `MethodologyAudit` | events, chunks, cache, anchors, merge | `Inputs`; proofs in `ReviewSurfaces_proofs` |
| `Collection` | pinning, reading, signing and the strict check | `Inputs` and proofs |
| `ReviewSurfaces` | commands over packet, surface, brief and exports | `Inputs`, `CommentScope` and proofs |
| `AuthorPrompts` | lenses, questions, comments, test plan | `Inputs` |
| `ReviewRounds` | comparison with an earlier packet, and the ledger | `Inputs` |
| `TrustSections` | trust audit, cards, intent, skim-safe files, method | `Inputs` |
| `*_proofs` | theorems about the module they are named after and those noted above | `tlapm` |
| `MC*` | finite instances; `MCReview` and `MCInputs` compose parts | |

`AgreementAuditRun` and `AgreementExtraction` both build on
`AgreementGrounding`: the verdict the invocations publish is the one the
operators compute, not an abstraction of it.

`MCReview` and `MCInputs` put several specifications side by side: the variable
`part` is chosen in the initial state, a behaviour then takes only the steps of
that part and leaves the variables of the others in one idle value. The state
space is the sum, not the product, of the parts, and a property of a part says
nothing about the others. `MCReview` extends `ValidationEvidence`,
`RequirementEvaluation`, `ScopedCoverage`, `PrRisks` and `ReviewQueue`, `MCInputs`
extends `Collection` and `ReviewSurfaces` (through `MCCollection` and `MCSurfaces`)
with `CommandRecorder` and `MethodologyAudit` (through `MCAudit`), so that the properties those runs check are the definitions
the theorems name; the other parts are instances. They share a
run because they answer one question:
what a review decides (`Evidence`) and what it is given to read and shows of it
(`Inputs`). Both runs set `CHECK_DEADLOCK FALSE`: a part is one review and ends.

### AgreementGrounding and AgreementExtraction

Texts, paths, lines and digests are opaque values; a digest is the record it
digests, so SHA-256 is taken to be collision free. A diff is a set of
(side, line) coordinates, and a citation carries whether its quotation occurs
there. The parser already refuses empty texts, so the validator's repeats of
those checks are not modelled. Redaction does not change a verdict and is left
out. `Accepted`, `StructurallyVerified`, `Status` and `Comparison` follow
`groundAgreementAudit`, `verifyAgreementCompleteness`, the nested conditional at
`grounding.ts:148-154` and `compareAgreementAuditDecisions`.
`AgreementExtraction` builds the two ledgers item by item, as the parse loops
do, and grounds them without and then with a token.

### AgreementAuditRun

| Action | Code |
|---|---|
| `StartAudit`, `StartConfirm` | `cli/index.ts:291-314`: the lock is taken before collection |
| `StartFinalize`, `Read`, `SkipCompleteness`, `LockToPublish` | `audit/cli.ts:28-56`: ledgers are read before the lock |
| `Collect` | `cli/index.ts:315` |
| `Clear`, `SaveInput`, `Extract`, `Cover` and their failures | `integrated-run.ts:73-170`, one file at a time |
| `Ground` | `integrated-run.ts:172-183`, `audit/cli.ts:40-46` |
| `PublishJson`, `PublishMd`, `Rollback` | `artifacts.ts:142-159` |
| `Release`, `Throw` | `cli/index.ts:331-333`, `artifacts.ts:88-90` |
| `Crash`, `Stall`, `EditLedger` | the environment |

`Collect` takes any input, so the repository and the conversation may change
before each invocation and while it waits.

A write is one step, but a process killed during it may leave the file torn
(`O_TRUNC` and then `writeFileSync`); a rename is atomic. `Stall` is a live
holder that does not refresh its lock for 120 seconds: `lockSync` refreshes by
a timer, which a suspended process or a long synchronous call does not serve.
After a stall two live invocations may overlap, so exclusion, the matching pair
and the one-run ledgers are claimed for `MayStall = FALSE`, and the properties
of the verdict for `MayStall = TRUE`: nothing about a clean verdict depends on
the lock, because the token binds the bytes.

### StickyComment

Every call to GitHub is a step of its own. Heads and titles are numbered in the
order the author produced them, and `title` stands for title and description.
`Serialized` is the concurrency group of the workflow: a push cancels the run
in flight, an edit waits for it, a newer waiting run replaces an older one.
Cancellation is taken to be immediate. `Removes` covers a pull request with no
reviewable diff and a privacy block; only the first compares the title
(`action.yml:533-551` passes the head alone). `Fail` is any best-effort exit.

### ArtifactPipeline

A signature is the version of the inputs it was computed from, and an artifact
is the set of versions its content derives from, so "stale" and "mixed" are
visible. The empty set is a file that is missing or does not parse, which every
loader treats alike. A stage that reads the working tree again after collection
(`intent.ts:149`, `evaluate.ts:514-520`) derives from `{sig, world}`. One
`Compose` step stands for all computations of an invocation; an edit between
two of them derives from the same two versions. Writes and the stamp are
separate steps, in the order of the code. One invocation at a time runs on an
output directory: nothing in the code enforces that (see the hazards).

### ValidationEvidence

The state is the checkout (`head`, `tree`), what is on disk (`transcripts`,
`report`, `feedback`), the recorded commands still running, and the head a
review resolved first (`collect.ts:393`). A commit is named by its content.
What a review would decide is an operator, `Decision(pinned)`, of what is on
disk at that moment, so the properties hold for a review that reads it at any
time after it pinned its head. `began`, what HEAD was when a command started,
is kept beside the stamp `sha` and is not read by any rule.

| Action or operator | Code |
|---|---|
| `StartRun`, `FinishRun` | `runner.ts:50-159`: HEAD first, then the child, then one file per command |
| `PinHead` | `collect.ts:393-397` |
| `Ingested`, `Kept` | `junit.ts:103-126` (`MAX_CASES`), `risks.ts:364-408` (order, then `MAX_PARSED_TEST_EVIDENCE`) |
| `IsCurrent`, `Current` | `decision-admission.ts:126-142` |
| `MissingChecks`, `MissingEffects` | `human-review.ts:2691-2718`, `5484-5600`, `3703-3733` |
| `Untested` | `pr-risks.ts:352-432`, with the broad test run only |
| `Decision` | `human-review.ts:1603-1761` |
| `Edit`, `Commit`, `Checkout`, `WriteReport`, `WriteFeedback`, `KillRun` | the environment |

Risk candidates, coverage and claims that no producer pins to a commit are left
out: they lower a verdict or stay outside it. The change set is fixed, matches
every required check, and the evidence files are not part of it. A kill during
the write of a transcript is left out (see the hazards).

### RequirementEvaluation and ScopedCoverage

`RequirementEvaluation` follows one requirement through `Collect` (what mentions
and what changed), `Evaluate` (`evaluate.ts`), `ReadReport`, `AnswerArrives` and
`Enrich` (`candidate-evidence.ts`, with the evidence budget earlier requirements
left) or `SkipReasoning`, and `Verify` (`verification.ts`). Which words of a
file match is an input: a file mentions the requirement or it does not, and a
case has an exact, a sibling or a foreign id, and tokens that map to its group
or elsewhere. `ScopedCoverage` edits the specification (`DeleteRequirement`,
`InsertRequirement`, `MoveRequirement`) and the diff (`ChangeFile`), evaluates
both commits and compares (`scoped-coverage.ts`); an id is a position, as in
`intent.ts:114`.

### ReviewQueue

| Action | Code |
|---|---|
| `FindRisk`, `CommitSuppression`, `CommitOverride`, `RecordFeedback`, `FindFact` | the inputs: risks of the pull request, `.review-surfaces` policy, feedback memory, what other detectors found |
| `BuildReviewQueue` | `buildReviewQueue`, with `applyPolicy`, `applyFeedback` and the sort |
| `Decide` | `buildDecisionProjection`, blockers, `buildVerdict` |
| `Plan` | `budget.ts` |

Scores are the code's numbers. `ranked` is the queue before the cut of 20, so a
property can speak of what the cut leaves out. Drafts are a set and the sort keys a
strict order of it: the position of a draft is the number of drafts before it, which
is what a sort by distinct keys returns. The plan grows by one item at a time
(`PlaceItem`), as a function of the position.

### PrRisks

| Action or operator | Code |
|---|---|
| `EditFile`, `Delete`, `Create`, `Move`, `Restore`, `CommitTree` | the environment: an author on a branch |
| `RunTests` | `review-surfaces run`: a transcript that names the head commit |
| `StatusOf`, `SourceOf` | `collector/git.ts`: the range, then the porcelain status over it |
| `HasValidation` and what it uses | `pr-risks.ts`: the index of changed tests and of runs that passed at the head |
| one operator for each rule, `Drafts`, `NumberOf` | `pr-risks.ts`: `push*` and the sort by rule and path |
| `BuildCandidates` | `buildPrRiskCandidates` |

Which classes a path belongs to, which areas it maps to and what the classifiers say of
a command are inputs (the last is `CommandClassification`). `ranSince` remembers which
paths passed a run since the commit that last changed them; no rule reads it, so the
property relates the code's test (the transcript names the reviewed head) to what the
test stands for. A path the range deleted and the author creates again in the working
tree keeps the status D (`shouldPreserveRangeStatus`) and is not asked for a test; a
removed test counts as a changed test and so excuses the implementation of its area,
which is why its removal must be named; a transcript does not say that the tree was
dirty when it was recorded.

### DiffAnchors

| Action or operator | Code |
|---|---|
| `Printed` and what it uses | external: the unified diff git prints for a script of lines, with 1 line of context instead of 3 |
| `collectDiff`, `Collect` | `collector/git.ts:351-388`, `535-546`; `collect.ts:571-579`, `collectSecretFindings`: the secrets are sought in the patch as it was, everything else reads what was kept |
| `redactSecrets` | `bin/privacy-runtime.js:179`, as far as it keeps or swallows lines |
| `ReadLine`, `buildFile`, `parseStructuredDiff` | `diff-hunks.ts:50-341` |
| `MeasureCoverage`, `gutterFor` | `lcov.ts:116`, `cli/index.ts` `computeCoverageEvidenceForPacket`, `coverage-gutter.ts:12`, `render-html.ts` `gutterFor` |
| `BuildQueueItem` | `queueAnchorForEvidence` and its helpers, `human-review.ts:5338-5447` |
| `RenderItem` | `resolveStructuredExcerpt`, `hunk-excerpt.ts:91-281` |
| `DraftReview` | `buildCommentDrafts`, `commentDraftFromPrRisk`; `draft-review.ts:72-146` |

The properties are told from the comparison alone: `Numbered` gives a line its numbers
from the two versions, never from a hunk, and a path its sections from what git compared.
So they relate two independent accounts of the same lines. Of a text only what decides how
it is read is kept: a line of dashes, a blank line, a token, the ends of a private key.
Quoted paths, CRLF and malformed patches are left out.

### CommandClassification, CommandSegments, SessionDiscovery, ConversationBrief

A command line is a sequence of tokens, and what a regular expression reads off
a word is its `Shape`. The part "commands" starts with a command that runs a
whole suite and adds wrappers, options and selectors, one word group at a time.
`CommandSegments` runs a compound command with shell semantics (`Execute`, the
reference definition) and compares what `segmentStatuses` credits.
`SessionDiscovery` lets sessions of two stores write while the head commit is
made and reads them once, under the caps on files, lines and bytes.
`ConversationBrief` has a user and an agent speak in any order, cuts the
conversation to windows, reads a brief off it and merges a provider's answer
(`AskOnce`, or `AskWindows` and `Reduce`), which may cite anything.

### CommandRecorder and MethodologyAudit

`CommandRecorder` separates what a child says, what the tee copies (`TeeChunk`,
which pauses on backpressure, and `Drain`) and what ends it (`End`,
`ClosePipes`, `OnError`, `OnClose` in every order); `Open` and
`WriteTranscriptFile` truncate and write, so a second recorder of the same
command and `IndexCommandTranscriptFiles`, the reader, fall in between. A digest
is what was digested.

`MethodologyAudit` runs twice with one cache: `StartAudit` chooses the events and
chunks, `AskCache`, `AskProvider` or `NoAnswer` serve one chunk, `MergeAudit` and
`GapStage` ground and merge, `KillAudit` keeps the cache. The code's sorts are
positions: an event is a winner by how many are ahead of it (`Winners`) and in a
chunk by its place (`Place`), and the code's maps keyed by kind and text are the
sets of candidates that agree on them (`Duplicates`). The one merge whose order
tells, that of the verdicts, is a function of the answers so far (`Verdict`). The
alternatives said join those picked by keywords as far as a list of 16 has room
(`Room`, `Fitting`; `MCAudit` sets 12 and 16 to 2 and 3); the list of 50 findings is
never full, since at most 4 signals of the change precede the 20 of the audit.

### Collection

`Pin` resolves the references; `Index`, `List`, `Patch` and `Hash` are the reads
of `collect.ts`, each of the tree as it is by then; `Finish` computes the
signature and, for a strict collection, checks the tree again. `Edit`, `Delete`,
`Move`, `Stage`, `Commit`, `Restore` and `Grow` (the conversation) are others at
work between them. A tree maps files to versions, and equal versions at two paths
are a rename; `WorkingSections` is what `git diff HEAD` shows of the tree with the
untracked files taken (`NameRank` is the order of their names, in which the cap cuts),
and `HashSpecs` the specifications, which are read again for hashing. The signature
holds each changed path with its status, its old path and its content, and leaves out
whether the range or the tree reported it. History variables say whether a change fell
into the collection (`raced`) and which versions were written and overwritten again
(`replaced`), so that an edit that is undone, which a strict collection does not see,
can be told apart.

### ReviewSurfaces

| Action | Code |
|---|---|
| `All`, `WritePacket`, `WriteSurface`, `WriteBrief` | `runAll`: packet, PR surface and brief one after the other |
| `Stage` | a stage command, which rewrites the manifest, the patch and, if last, the packet |
| `Human`, `Subartifact` | `human` and its sub-artifact commands: reuse the brief or build it |
| `StartWalkthrough`, `EndWalkthrough` | `walkthrough.ts`: a session reads the brief it started with and may end long after |
| `Render`, `CommentOnPullRequest`, `SuppressComment` | `comment` in its forms |
| `Edit`, `Kill` | the repository, the title, the policy, the provider; a kill in `all` |

An artifact is what it was made of: the collection, the title, the budget, the
policy, the provider's answer.

### AuthorPrompts, ReviewRounds, TrustSections

`AuthorPrompts` and `TrustSections` are pipelines: one action per builder of
`human-review.ts`, in its order, over every choice of a few *signals* (a risk, a
claim, a gap, a policy, a changed file). `ReviewRounds` composes a packet for each
head, compares it with a saved one (`compare.ts`) and builds the brief with its
ledger; `Save` copies the output to the directory given as `--previous-packet` at
any time, `Lose` removes or damages either file there, `Kill` falls between packet
and brief. `AuthorPrompts` takes the three wordings of the guidance on an untested change
(`RiskTests`) for one, and breaks ties by place where the code's sorts also weigh the rule.

## Runs

| Run | What it checks and shows | Bounds |
|---|---|---|
| `Agreement` | a clean verdict forces both ledgers to describe the same events; a conclusion rests on evidence of the head; a token only unlocks; the comparison counts every decision once | four instances in `MCAgreementExtraction`: 2 agreements with 3 dispositions (a duplicate beside a complete set); every scope, goal and ending of the passes; every kind, state, citation and command mix of one agreement; 2 decisions in each of two audits under 3 keys and 2 identities |
| `AuditRun` | one writer and no lock left behind, ledgers of one run, matching pair, reviewed ledgers preserved | 3 invocations: an audit, one that follows it and one that interferes; inputs with and without a user turn; no stalls |
| `AuditRunPair` | a clean verdict was confirmed; every behaviour keeps the abstract promise | 2 invocations, 2 heads and a conversation without a user turn, 2 answers, stalls |
| `Sticky` | one sticky, never an older one over a newer, a delta against what was shown, current in the end | 3 heads, 2 titles, 1 manual deletion, failures: a waiting edit, a cancelling push before or after it |
| `StickyRace` | *finding*, without the concurrency group | 2 heads, 2 titles |
| `Pipeline` | what is reused, hit and gated on is fresh, and stamps are true, each under its condition | 2 versions: a stale artifact, a mixed one, inputs that return |
| `Evidence` | a positive or failing verdict is about the pinned head; neither a long report nor many missing checks hide one | 2 contents (a stale head, a dirty tree), a test command and one that confirms a check, 2 runs at once, 3 checks of which 2 are shown, reports of up to 3 cases of which 2 are read and 1 is kept |
| | a requirement ends satisfied only on evidence the tool read | three files, a report of 1 case in 8 shapes, 2 candidates of 4 shapes, room for 4 pieces of evidence and a budget of 1: each cut is reached |
| | a kept requirement is compared with itself | 3 requirements in 2 groups, 2 edits of the specification: a shift and a return |
| | the risks of a pull request leave out nothing untested or removed, whatever the evidence is cut to | 4 paths (two implementations, a test, a moved contract), 3 edits, 2 commits, 1 recorded run, evidence of 1 path: the cut of every rule is reached |
| | no decision is hidden, a demotion has a reason in force, the plan keeps its budget | 2 risks of 6 shapes, 2 suppressions, 3 inputs in all, room for 2 of up to 5 items, budgets of 5 and 20 minutes |
| | what points at a line of the change points at that line | every script of up to 4 lines and 13 longer ones, added, deleted, renamed, copied and binary files, two sections that share a path or a rename chain; 14 citations, 3 reports; excerpts of 5 lines, 1 uncovered line listed |
| `Inputs` | command lines are read neither too wide nor for another command | 4 wrappers, every option, selector and suite form, one added at each place; chains of 3 leaves or of a leaf and a group |
| | the session read is the likely producer's; the brief keeps the user's words | 3 + 2 sessions, lines up to 4 and files up to 3 read, stores up to 6; 5 utterances of which 4 are analysed, 3 in one call |
| | a transcript that is read is whole | a recorder of two chunks, one that overlaps, and the files of another tool |
| | what a model adds is grounded, of this run, and called no more whole than it is | 2 runs, chunks of 2 events, 2 models, a blocked run, lists cut to 2, or to 3 with what keywords pick; edit, test, edit among the conversations |
| | a collection shows nothing ignored, returns what it pinned, signs all it read | 2 collections, 2 edits at any point, 5 files (a specification, an ignored one, one of the tool), 1 untracked file listed |
| | what is shown, posted and exported belongs together | 3 commands and 1 edit |
| | prompts follow findings | 3 signals of all, room for 2 or 3 |
| | rounds add up | 2 heads of 7 kinds, 3 runs, 1 fault, ledgers of 3 rows of which 2 are shown |
| | the sections on trust claim only what the evidence does | up to 3 signals of a theme beside a changed file, limits of 1 and 2 |
| `ScopedRemoval`, `SeverityCoherence` | *findings*: parts of `Evidence` | as there |
| `ConversationMultiline`, `CommentScope` | *findings*: parts of `Inputs` | as there |

A limit of the code (8 blockers, 10 trust items, 20 queue items, 5,000 cases) is a
constant, and an instance sets it below the number of things the inputs can hold:
what is lost to a cut depends on the order before it, not on its length.

The runs of the invocations use symmetry over processes and `Evidence` over
contents, which are interchangeable. `Pipeline` has the state constraint
`~(returned /\ disturbed)`: the two history variables never fall back to FALSE, and
what follows once both are TRUE is outside the condition of every property but
`TypeOK`, which is proved. In `AuditRun`, `LockDiscipline` says that one invocation
writes at a time and that an ended one holds no lock; with the shape of the steps
(every step of an invocation ends or throws, and none waits for the lock) an error
path does not keep the output directory locked. `CHECK_DEADLOCK FALSE` stands where
a system really stops: invocations and reviews end, and a pull request has no
further event.

### Conditions in the properties

Some promises hold only for part of what the code allows. They are stated for that
part, and the rest is a finding or an observation below: `SafeAfterRun` for reviews
without a JUnit report (which names no commit); `ObservationsAreEarned` for commands
on one line that were not cut; `CollectionIsTrue` asks a strict collection to be of
its commit except for a version that others wrote and had replaced again, and one
signature to name what was read unless a change fell into the collection or the path is
one the range deleted or renamed. Such a path keeps the status of the range
(`git.ts:341`), so the signature does not tell an artifact deleted in the range and back
in the tree from a staged rename onto it, and TLC finds two patches under one signature;
of those paths one collection may show what the other does not, never two versions.
`PairAgrees` leaves out an invocation that died between its two renames: nothing repairs
the pair before the next publication.
`AnchorsAreTrue` speaks of
anchors, excerpts, marks and comments when no private key begins in a printed line, leaves
out a path that one section leaves and another creates where its conjuncts say `Reused`,
and does not miss blank context that `git()` trimmed from the end of a part; `SurfacesAgree` leaves
out the comment on a pull request, which `CommentScope` refutes.

### Fairness

`Sticky` assumes weak fairness of each run's steps: the runner executes a
started job and starts a waiting one when the group is free. Pushes, edits,
deletions and failures are not promised. `StickyCatchesUp` claims nothing if
the run of the last event itself failed or a person deleted a comment: posting
is best effort in the code, so it would be false by design. Failures of all
earlier runs are inside the claim.

### Findings

* **Check, then write** (`StickyRace`). `README.md:180-181` says a stale run
  cannot overwrite or delete a newer sticky. The client compares the head once
  and writes later; only the workflow's concurrency group closes the window
  (`Sticky`).
* **A comment of the whole repository** (`CommentScope`). `cli/index.ts:3319-3321`
  says "pr mode never falls back to the whole-repo packet".
  `loadCurrentHumanReviewForPrComment` (3621) checks the brief against the surface
  and then, when the budget or any committed policy differs, builds it again from a
  packet that may be of a later head; the builder ignores the surface and the result
  is posted.
* **A removal that is not reported** (`ScopedRemoval`). A base requirement counts as
  present when its key *or* its id is among those of the head
  (`scoped-coverage.ts:133`), and ids are positions, so after a deletion every id but
  the last is taken. `tests/scoped-coverage.test.ts:114` says a removed requirement
  in an affected area is reported; its specification removes the last.
* **A masked status, promoted** (`ConversationMultiline`). `safeField` turns newlines
  into spaces before the command is split (`analysis-prompt-context.ts:207`), so the
  zero status of the last line is credited to a failing validation before it, against
  `tests/conversation-brief.test.ts:848`.
* **A blocker beside "probably safe"** (`SeverityCoherence`). A committed policy may
  raise a finding to blocker; `buildVerdict` (`human-review.ts:1612`) asks the findings
  only for high and medium. `features/review-surfaces.feature.yaml:211` asks for
  severity that is coherent across verdict, blockers and counts.
* **The earliest or the latest edit** (`Inputs`, a passing run). Of a finding that cites
  no changed file the comment at `llm/reasoning.ts:1658-1661` says "any test after the
  earliest edit counts"; the code compares with the latest edit of any file (`Math.max`
  at 916, 1691), as the comment at 1634-1637 has it for one file. After an edit, a test
  and another edit the note is withheld. `NotesAreOrdered` states exactly
  when the code gives it; under the first comment's rule it would be violated there.

### Observations

Met while modelling; the models follow the code in each, and no run is spent on them.

*Pipeline and collection.* After a kill between write and stamp an old stamp vouches
for new content once the inputs return (`SafeReuse` excludes it); a cache hit gates on
whatever `evaluation.yaml` holds (`SafeGate` likewise). A JUnit file is cut at 5,000
cases in file order before failures are put first (`junit.ts:122`, `risks.ts:373-374`).
Specifications, tests and coverage are read again for hashing; a path the range deleted
or renamed has the same signature with and without a part of its own in the patch of
the tree (`Conditions in the properties`); a strict snapshot misses
an edit that is undone before its second check; a pinned head reads dirty specifications
from the work tree; an untracked file deleted before the diff fails the run; removing
`coverage.json` from a reused directory leaves its sibling results.

*Evaluation and scope.* The promotion gate counts any reference in a file that is neither
test nor documentation. Rejected waivers count once the operator confirms. Coverage is not
derived again after enrichment when verification changes nothing.

*Queue and verdict.* Suppression looks at the first path of a risk, feedback must cover all.
The first matching suppression decides though expired and a later one is current. Feedback
subtracts its 60 though a policy outranks it. A blocker read first switches off the
guarantee for the first other item. A risk whose first path is unchanged yields no decision.
`MAX_DECISION_STRING_ITEMS` (24) cuts merged risk ids.

*Lines of the change.* `redactSecrets` runs over the whole patch (`collect.ts:576`), and the
pattern of a private key ends at its last line or at the end of the text
(`privacy-runtime.js:50`): a key in a patch collapses to one line, so every later number of
its hunk is too small, and a first line without a last one, also in context, in a deleted
line or in a document about keys, drops the rest of the patch with all its files, which
human review, coverage and drafts then do not see. When a renamed path is created anew, an
item on the renamed file outside its hunks gets the excerpt of the new file through
`byOldPath`, against `hunk-excerpt.ts:170` ("a plausible-but-wrong excerpt is worse than
none"). A path in two sections is resolved four ways: the index takes the last, the excerpt
the first that matches, coverage the first, a draft the union; after two renames a mark may
be of another file. A comment on the old side falls back to a line of the same number on
the new side, and `start_line` may lie in another hunk. `diff.suppressBlankEmpty` ends a
hunk at its first empty line of context (`diff-hunks.ts:173`).

*Prompts.* A missing team policy asks two blocking questions; two critical risks of one rule
share a question, which maps to the first only; a risk in a lens makes the lens not
path-only, so a superseded schema risk silences the CLI-contract question; blockers beyond 8
are shown as questions while the verdict blocks; the only high-severity intent draft comes
after 8 file drafts and is cut.

*Trust.* The trust audit is cut to 10 before it is narrowed to the range, so a gap of the
change behind ten of the repository is lost to the verdict (`human-review.ts:346`, 4418,
against 336-338); the scope filter of missing evidence looks only at a path, though
4822-4824 keep the requirement's identity for it; the tail of more than ten claimed passes
vanishes against 4444-4447; a policy severity does not reach the skim-safe rule.

*Rounds.* A roll-up's summary holds a count, so `comparisonRiskKey` calls an unchanged
roll-up resolved and new; a status unknown to an older packet is "unchanged" and neither
listed nor open; the cut of 12 in the order of categories drops risks first; a kill between
packet and brief, or `human` after saving, counts a round twice; a malformed saved brief
restarts the ledger at 1.

*Surfaces.* Reuse of the PR surface compares base, head and title though it depends on the
inputs (`index.ts:1372`); narrative reuse compares the head, not the packet (905); the
signature of a brief leaves the policy out, so with a committed policy it is always stale
and a policy added later is not noticed (`human-review.ts:575`); a walkthrough that ends with
comment drafts writes the brief it began with over a newer one; the sub-artifacts ignore
`--budget`.

*Conversation.* `cargo test -- name` is taken for a whole suite; `isBetter` is not transitive
over malformed timestamps; a session that edited both before and after the head commit ranks
0 and a smaller one may be admitted; `deterministic-brief.ts:134-135` says provider intent can
never trail the baseline, `mergeIntent` appends it after; ties of salience keep the earlier
event, so in more than 240 the last edits are dropped first; a handwritten "passed" is
believed over a non-zero exit; an answer with only ungrounded content is cached and keeps the
audit degraded on every rerun; the cache key joins its parts with a space.

## What is proved

`ArtifactPipeline_proofs`, for every set of versions (natural numbers above 0,
`PipelineAssumption`) and with no bound on runs, kills or edits:

* `TypeCorrect`: `Spec => []TypeOK`, from `TypeInv`, which adds that an
  invocation past collection has a signature and writes inside its plan.
* `ForwardReuseIsSafe`: as long as the inputs never returned to an earlier
  version, `ReuseIsFresh`, `HitIsFresh` and `GateIsOfThisRun` hold, with kills
  and with edits during runs. They are not inductive: a kill leaves content
  newer than its stamp. `ForwardInv` adds that no version in a stamp, a
  signature or the snapshot is ahead of the inputs (`NeverAhead`), that an
  artifact whose stamp equals the present version derives from that version
  alone (`TrueFor`), the same for the snapshot a cached run took, and what the
  files written so far hold. A stamp older than the inputs can never again
  equal a collected signature, so only stamps of the present version matter,
  and those were written after their content.
* `SteadyReuseIsSafe`: as long as no invocation was killed or had its inputs
  edited under it, `ReuseIsFresh`, `HitIsFresh` and `ProvenanceIsTrue` hold,
  wherever the inputs move. `SteadyInv` is the provenance property with the
  exception it needs in mid-run: the files written and not yet stamped derive
  from the collected signature instead.
* `ReuseSafe`, `HitSafe`, `GateSafe`, `ProvenanceSafe`: the four invariants of
  the run `Pipeline`, from the two theorems above. Together with the first
  observations they say exactly when the code's promise of freshness holds.

`ValidationEvidence_proofs`, for every set of contents, commands and reports
and for every limit (`BoundsAssumption`, `CommandsAssumption`,
`ReportsAssumption`, `NoneAssumption`):

* `TypeCorrect`, from `IInv`, which adds `StampsTrue`: in every run and every
  transcript the stamp is the commit at which the command started. The
  properties compare stamps with the pinned head, and say nothing about what
  ran without it.
* `SafeIsEarned`, `BlockIsEarned`, `FailureBlocks`, `ChecksAreNamed`: the four
  invariants of this part of the run `Evidence`. `FailureBlocks` rests on `KeptFailure` (the
  first failing case read has nothing ordered ahead of it, so it survives any
  cap) and `ChecksAreNamed` on `FoldHidesNone` (the effects of a list of missing
  checks name exactly that list).
* `TranscriptsAreWhole`, for any recorders, chunks, file lengths, kills and files of other
  tools (`RecorderAssumption`): `TranscriptIsWhole` of `CommandRecorder`. Of a recorder at
  work `RecorderInv` says that what it captured of a stream is a beginning of what the child
  said and all of it once the pipes closed (`Tee`, `Course`), and of the file that every
  block of it is one of a recorder that is done (`Written`): two recorders overwrite each
  other only with blocks of a settled run.

`AgreementExtraction_proofs`, for any sequence of instances: ledgers of any
length, any inputs of the collector's shape (`InstancesAssumption`, `InputShape`:
finitely many events, coordinates with a side, commands with a status):

* `Invariant`: `TypeOK` and `PhaseInv`. A coverage pass that is not over has a
  ledger, and the audit shown is the grounding of the ledgers *as they are*, with
  the token that was given; without the second, no property of an audit follows
  from the properties of the validator.
* `CleanIsExhaustive`, `ConclusionsRestOnEvidence`, `ConfirmationUnlocks`,
  `ComparisonIsConserving`: the four properties of the run `Agreement`, each from a
  lemma about the operators of `AgreementGrounding` over arbitrary ledgers. The
  comparison needs that accepted keys differ (`AcceptedKeysDiffer`), which makes the
  pairing of two audits injective, so that counts of pairs are counts of decisions.

`AgreementAuditRun_proofs`, for every set of invocations, inputs, extractions and
coverage answers (`LedgerAssumption`: a ledger is neither "no file" nor "torn", an
extraction has its fields), with kills and edited ledgers. Some theorems assume `~MayStall`, for the reason given above
under *AgreementAuditRun*, and say so.

* `TypeCorrect`, with `PhaseInv`: what an invocation has at each point of its program.
* `NoLockKept`, also with stalls, and `LockDisciplineKept` without them. Exclusion is not
  inductive by itself: `LockInv` says that the live invocations at work are *exactly* the
  holder of the lock.
* `CleanWasConfirmed`, with stalls. `ShownInv` follows a token from the invocation that
  computed it to the one that is given it, through memory, `audit.json` and the backups a
  failed publication restores; `CleanInv` says the same of every clean verdict in those
  three places. No step of the argument mentions the lock.
* `PromiseKept`, with stalls: the refinement of `AgreementVerdict`, initial states and
  each step: a publication of a confirmed verdict, a display, an edit, or a stutter.
* `OneRunWrites`, without stalls, from `OriginInv`: of an audit between clearing the
  directory and writing its last ledger, the files it has cleared are gone, and those it
  has written are its own or edited. `LedgersPreserved`, without stalls: a confirmation
  and finalize never write a ledger.
* `PublishedPairAgrees`, without stalls, from `PairInv`: between the two renames the
  first file is the writer's and its backup is itself a pair, which is what a rollback
  needs; not so after somebody died between the renames, and the property says so.

`StickyComment_proofs`, for every number of pushes, edits and deletions, with failing
calls, under `Serialized` (`StickyRace` shows what happens without it):

* `Invariant`, whose parts are: runs are numbered as the events that start them
  (`Numbered`), at most one is at work and one waits (`Alone`), a run writes the tool's
  own comment and creates one only while there is none (`Chosen`), there is one sticky
  (`One`), no newer than a run that may still write it (`Ordered`), and the base of a delta
  is the sticky there is (`Compared`).
* `NeverASecond`, `NewerIsKept`, `DeltaIsHonest`: the safety properties of `Sticky`. That
  a look-up is still true when the run writes follows from no other run being at work, not
  from a check of the client.

`ScopedCoverage_proofs`, about four parts of a review:

* Of `ScopedCoverage`, for every specification without a repeated id, every edit and
  every evaluation (`ScopeAssumption`): `Invariant` (edits keep the requirements distinct,
  by lemmas about removal, insertion and move in a sequence; a report is the comparison of
  the two evaluated commits) and `KeptCompareWithThemselves`. The lookup by position finds
  a kept requirement only because its key is sought first.
* Of `RequirementEvaluation`, for every repository, report and answer and every cut
  (`EvaluationAssumption`: finitely many files): `OnlyEarnedIsSatisfied`. `EvInv` adds to
  the property that every piece of evidence was put there by the tool for a reason that
  held (`Grounded`) and that a provider is asked only about a requirement that may be
  enriched; the property alone is not kept by the step that merges the answer.
* Of `PrRisks`, for every tree, table of paths, sequence of edits, commits and runs and
  every bound (`PrRisksAssumption`: finitely many paths, an order without ties among
  paths, roots and regressed requirements): `RisksOfThePullRequest`. `PrInv` ties the
  two accounts of a run together (a run that passed at the head commit is of the tree since
  the commit that last changed a path, and a path git calls deleted was not moved here), and
  `FactsInv` says that nothing is reported before the review. For the
  bounds, what is numbered below a bound is no more than the bound (`NumberedSet`); the
  evidence of the regressed requirements is numbered by the places of those before it
  (`RegressionFits`); and the rules, with the places in each, order the candidates strictly,
  so that their numbers have no gap (`OrderNumbers`).
* Of `ReviewQueue`, for every set of risks, policies and memories, every cap and budget
  (`QueueAssumption`): `DecisionsAreKept` and `PlanKeepsItsBudget`. `QueueInv` says that the
  inputs are risks of the review and that, once ranked, every risk is in the queue at its
  anchor; that the ranking loses none is `RankingHoldsDrafts`, since the sort keys are a
  strict order (`KeysAreOrdered`) and a strict order of a finite set numbers it
  (`OrderNumbers`). The plan is followed item by item: `ListsGrow` says what each item adds
  to a list and to its minutes, `PlacingIsGood` that after n items the first n are placed
  and the budget is kept.

`Collection_proofs`, for every set of files, history, tree, privacy file, caps and any
number of changes by others (`CollectionAssumption`):

* `Invariant`. Besides the types and the properties of the collections that ended, it
  says what a collection in progress has read: with a strict one, versions of its commit or
  replaced ones (`StrictNow`); with a pinned head, the range (`PinnedNow`); and while
  nobody disturbed it, the functions of the two commits and *one* tree
  (`UnracedNow`, `SeenAsRead`).
* `CollectionHolds`: `CollectionIsTrue`. For its last conjunct two collections are written as functions
  of their trees, and the hashes and the omitted names are shown to determine the list
  of changed files (`ChangedAgree`), the patch outside `Preserved` (`PatchAgrees`) and
  the version of whatever is shown (`VersionShown`), although the two trees may differ.
  The attempt to prove it without `Preserved` is how the exception was found.

`ReviewSurfaces_proofs`:

* Of `ReviewSurfaces`, without assumptions on the constants: `Invariant` (a brief that a
  walkthrough holds, a cached enrichment and a running `all` are each consistent by
  themselves, since each may be written back over newer files) and `ShownAndKept`, which is
  `SurfacesAgree`.
* Of `MethodologyAudit`, for every set of conversations, answers and providers, every
  chunk size and cap and any number of runs over one cache (`MethodologyAuditAssumption`:
  the caps on chunks and findings are positive, and an answer has the shape its schema
  demands; keywords pick fewer alternatives than the list holds, 12 and 16 in the code):
  `AuditAddsWhatItEarned`. `AuditInv` adds to the property that every answer is
  to a chunk of its own that was asked about, that the chunks are those of the conversation,
  and that what is cached was said under the setting it is filed under. The chunks cut the
  winners by their place, so that no two share an event (`ChunksOfTalk`) and the audit is
  called whole only if as many events were answered as the conversation has
  (`AllWereRead`). The worst verdict survives merging because merging never lowers the
  rank, and survives the cap because the order of the findings puts rank first and at most
  one finding has the highest (`WorstIsFound`). Softening a finding compares the latest
  test with the latest edits, which says neither more nor less than some test after every
  edit (`NoteIsOrdered`); one of the comments asks for less (*Findings*). An alternative
  that was said is listed, if not every one (`SomethingFits`), so an audit that is called
  done has something to show.

### Only model-checked, and why

* `StickyCatchesUp` is liveness under fairness, and nothing is proved about ENABLED.
* `DiffAnchors`, `ReviewRounds`, `TrustSections`, `AuthorPrompts`, `SessionDiscovery`,
  `ConversationBrief` and `CommandClassification` compute their results
  with filters, folds and sorts over sequences. What those return for every input is proved by
  induction over the data, which the prover's library cannot instantiate here.
  (`RequirementEvaluation`, `ReviewQueue`, `PrRisks`, `CommandRecorder` and
  `MethodologyAudit` are written with sets, positions and functions of them instead, and
  are proved about.)
* `CommandSegments` defines its reference semantics by a RECURSIVE operator.
* `PartsTypeOK` and `InputsTypeOK` join the types of the parts of a run.
* `DeletedRequirementsReported`, `SeverityIsCoherent`, `CommentIsOfThePullRequest`,
  `MaskedStatusNotPromoted` are refuted (*Findings*).

## Not modelled

* **Privacy patterns.** Detection is regular expressions over text with a window over
  chunks; a model of it would be the expressions again. That a privacy block sends and posts
  nothing is an outcome in `StickyComment`, `AgreementAuditRun` and `MethodologyAudit`.
* **Rendering, diagrams, schema checks, bootstrap, the benchmark and the prompts.** Functions
  from a packet to text without state of their own. They appear where their artifact is
  composed or reused (`ArtifactPipeline`, `ReviewSurfaces`).
* **Methodology heuristics, the change graph, the semantic diff and the format adapters.** Word
  lists and parsers; their results are inputs of the models that read them.
* **Two invocations of the pipeline over one manifest** (`collect.ts:953`), listed as a hazard
  without a property; **a JUnit file of another commit** and **a command run over uncommitted
  edits**, where nothing on disk tells the cases apart and any property would be false by
  design.

## Plan

1. *(done)* Agreement audit, sticky comment, artifact pipeline, validation evidence; the
   theorems of the last two.
2. *(done)* Evaluation, scope, queue, conversation, recorder, audit cache, collection, the
   surfaces of the command line, prompts, rounds, trust, the lines of the change.
3. *(done)* Theorems about the agreement audit, its invocations and their refinement, the
   sticky comment, the coverage of base and head, the collection and the surfaces.
4. *(done)* The pull-request risks; theorems about them, the status of a requirement, the
   queue and its plan, the recorder, and the audit of the conversation.
5. Modules: the narrative, the index of areas, a two-process `ArtifactPipeline`. Theorems:
   the parts of a run that are only model-checked, once written without folds.
