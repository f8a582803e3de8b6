------------------------------ MODULE MCInputs ------------------------------
(***************************************************************************)
(* What a review is given to read and what the commands show of it, each   *)
(* part checked over its own inputs: a behaviour first chooses a part and  *)
(* then takes only the steps of that part.  The parts of the conversation  *)
(* are in MCConversation, that of its audit in MCAudit, that of what the   *)
(* author is asked in MCPrompts, that of the rounds of a review in         *)
(* MCRounds and that of the sections on trust in MCTrust.  That of the     *)
(* repository is Collection itself, with the constants of MCCollection,    *)
(* that of the commands is ReviewSurfaces, with those of MCSurfaces, that  *)
(* of the transcripts CommandRecorder and that of the audit                *)
(* MethodologyAudit: Init, Next and TypeOK are those of ReviewSurfaces,    *)
(* and the properties CollectionIsTrue, SurfacesAgree,                     *)
(* CommentIsOfThePullRequest, TranscriptIsWhole and AuditIsEarned are      *)
(* those of these four.                                                    *)
(***************************************************************************)
EXTENDS MCConversation, MCAudit, MCCollection, MCSurfaces, MCPrompts, MCRounds, MCTrust, CommandRecorder

VARIABLE part

(***************************************************************************)
(* Transcripts: a recorder whose child says two chunks, one that overlaps  *)
(* it with a shorter file, and the files another tool may have written.    *)
(***************************************************************************)
ReChunks(r) == IF r = "r1" THEN 2 ELSE 0
ReBlocks(r) == IF r = "r1" THEN 2 ELSE 1
ReHand(s, e, l) == [status |-> s, exit |-> e, large |-> l]

ReRecorders == {"r1", "r2"}
ReHandwritten ==
  {ReHand("none", 0, FALSE), ReHand("none", 3, FALSE), ReHand("none", -1, FALSE), ReHand("passed", 0, TRUE)}

RecorderIdle ==
  /\ recorder = <<>> /\ child = <<>> /\ code = <<>> /\ said = <<>> /\ capture = <<>> /\ paused = <<>>
  /\ exitCode = <<>> /\ file = <<>> /\ review = [status |-> "unread", by |-> "nobody"]

-----------------------------------------------------------------------------
Parts ==
  {"commands", "discovery", "segments", "brief", "transcripts", "audit", "collection",
   "surfaces", "prompts", "rounds", "trust"}

InputsInit ==
  /\ part \in Parts
  /\ IF part = "commands" THEN CommandsInit ELSE CommandsIdle
  /\ IF part = "discovery" THEN Discovery!Init ELSE DiscoveryIdle
  /\ IF part = "brief" THEN Brief!Init ELSE BriefIdle
  /\ IF part = "transcripts" THEN RecorderInit ELSE RecorderIdle
  /\ IF part = "audit" THEN AuditInit ELSE AuditIdle
  /\ IF part = "collection" THEN CollectionInit ELSE CollectIdle
  /\ IF part = "surfaces" THEN Init ELSE SurfacesIdle
  /\ IF part = "prompts" THEN Prompts!Init ELSE PromptsIdle
  /\ IF part = "rounds" THEN Rounds!Init ELSE RoundsIdle
  /\ IF part = "trust" THEN Trust!Init ELSE TrustIdle
  /\ IF part = "segments" THEN Segments!Init ELSE SegmentsIdle

\* Every part but p stays as it is.
Only(p) ==
  /\ UNCHANGED part
  /\ p # "commands" => UNCHANGED cmVars
  /\ p # "discovery" => UNCHANGED diVars
  /\ p # "segments" => UNCHANGED sgVars
  /\ p # "brief" => UNCHANGED brVars
  /\ p # "transcripts" => UNCHANGED reVars
  /\ p # "audit" => UNCHANGED auditVars
  /\ p # "collection" => UNCHANGED colVars
  /\ p # "surfaces" => UNCHANGED suVars
  /\ p # "prompts" => UNCHANGED apVars
  /\ p # "rounds" => UNCHANGED rvVars
  /\ p # "trust" => UNCHANGED tsVars

InputsNext ==
  \/ part = "commands" /\ CommandsNext /\ Only(part)
  \/ part = "discovery" /\ Discovery!Next /\ Only(part)
  \/ part = "segments" /\ Segments!Next /\ Only(part)
  \/ part = "brief" /\ Brief!Next /\ Only(part)
  \/ part = "transcripts" /\ RecorderNext /\ Only(part)
  \/ part = "audit" /\ AuditNext /\ Only(part)
  \/ part = "collection" /\ CollectionNext /\ Only(part)
  \/ part = "surfaces" /\ Next /\ Only(part)
  \/ part = "prompts" /\ Prompts!Next /\ Only(part)
  \/ part = "rounds" /\ Rounds!Next /\ Only(part)
  \/ part = "trust" /\ Trust!Next /\ Only(part)

InputsSpec ==
  InputsInit /\ [][InputsNext]_<<part, cmVars, diVars, sgVars, brVars, reVars, auditVars, colVars, suVars, apVars, rvVars, tsVars>>

\* The types of the parts.
InputsTypeOK ==
  /\ part = "discovery" => Discovery!TypeOK
  /\ part = "segments" => Segments!TypeOK
  /\ part = "brief" => Brief!TypeOK
  /\ part = "transcripts" => RecorderTypeOK
  /\ part = "audit" => AuditTypeOK
  /\ part = "collection" => CollectionTypeOK
  /\ part = "surfaces" => TypeOK
  /\ part = "prompts" => Prompts!TypeOK
  /\ part = "rounds" => Rounds!TypeOK
  /\ part = "trust" => Trust!TypeOK

\* A selector makes a whole-suite run a focused one wherever it stands, so that the run
\* cannot suppress a test gap it does not cover (CommandClassification).
SelectorNarrows == part = "commands" => NarrowedRunIsFocused

\* The one session that is read as the conversation is the likeliest producer of the
\* range (SessionDiscovery).
AdmittedSessionIsTheProducer == part = "discovery" => Discovery!AdmittedSessionIsTheProducer

\* A one-line command is reported as a validation only with that validation's own
\* outcome (CommandSegments).
ObservationsAreEarned == part = "segments" => Segments!ObservationsAreEarned

\* What a recorded command line is taken to have tested is neither wider than what it ran
\* nor another command's result, wherever in the line the selector and the operators stand.
CommandsAreRead == SelectorNarrows /\ ObservationsAreEarned

\* tests/conversation-brief.test.ts:848: "does not promote masked validation statuses"
\* (CommandSegments).
MaskedStatusNotPromoted == part = "segments" => Segments!MaskedStatusNotPromoted

\* The goal, the last correction and every intent and claim are those of the people who
\* said them (ConversationBrief).
BriefIsTheUsers == part = "brief" => Brief!BriefIsTheUsers

\* The conversation a review reads is the likely producer's, and the brief says of each
\* person only what that person said, the last word among it.
ConversationIsRead == AdmittedSessionIsTheProducer /\ BriefIsTheUsers

\* What the author is asked, told and told to run follows from the findings, the severest
\* first, whatever else is found and however little is shown (AuthorPrompts).
PromptsFollowFindings == part = "prompts" => Prompts!PromptsFollowFindings

\* Nothing open is hidden by a later round, the ledger has one true row for each, and what
\* decided before and no longer does is shown as gone (ReviewRounds).
RoundsAddUp == part = "rounds" => Rounds!RoundsAddUp

\* The trust audit, the verdict, the cards and the other sections say no more than the
\* evidence they were given does, whatever is cut (TrustSections).
TrustIsHonest == part = "trust" => Trust!TrustIsHonest
=============================================================================
