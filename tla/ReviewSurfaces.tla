--------------------------- MODULE ReviewSurfaces ---------------------------
(***************************************************************************)
(* The brief for the reviewer and what is shown of it: `all' writes the    *)
(* packet, the surface of the pull request and the brief one after the     *)
(* other; stages, `human', the sub-artifacts, the walkthrough and the      *)
(* comment come later, each over whatever the output directory holds by    *)
(* then, and decide whether that is still good enough to show.             *)
(*                                                                         *)
(* The content of an artifact is what it was made of: the collection       *)
(* (`sig'), the author's title, the budget, the committed policy.          *)
(***************************************************************************)
EXTENDS Integers, FiniteSets

CONSTANTS
  NoChange,     \* collections without a changed file
  MaxEdits, MaxCommands

VARIABLES
  world,     \* [sig, title, policy, model, up]: the repository, the request, what the provider answers
  disk,      \* [manifest, diff, packet, surface, brief]: the output directory
  running,   \* the `all' under way
  walk,      \* the walkthrough under way: a reviewer may take long
  shown,     \* what the last command showed
  kept,      \* the feedback files
  decided,   \* sessions of a walkthrough in which something was decided
  edits, commands

suVars == <<world, disk, running, walk, shown, kept, decided, edits, commands>>

Scopes == {"pr", "repo"}
Answers == {"narrative", "review"}  \* what the provider is asked for, each in a call of its own
NoSig == [head |-> 0, inputs |-> 0]
NoSurface == [sig |-> NoSig, title |-> 0, status |-> "none"]
NoReview == [of |-> NoSig, ok |-> FALSE]
NoBrief ==
  [mode |-> "none", head |-> 0, packet |-> NoSig, surface |-> NoSurface, model |-> 0, config |-> <<0, 0>>,
   diff |-> NoSig, narrative |-> NoSig, review |-> NoReview, drafts |-> FALSE]
Idle ==
  [stage |-> "idle", scope |-> "repo", sig |-> NoSig, title |-> 0, model |-> 0, budget |-> 0,
   cached |-> [narrative |-> NoSig, review |-> NoReview]]
NoWalk == [session |-> 0, brief |-> NoBrief, rules |-> NoSurface]
NoFiles == [manifest |-> NoSig, diff |-> NoSig, packet |-> NoSig, surface |-> NoSurface, brief |-> NoBrief]
Nothing == [kind |-> "nothing", brief |-> NoBrief, over |-> NoFiles]

Init ==
  /\ \E up \in SUBSET Answers :
       world = [sig |-> [head |-> 2, inputs |-> 1], title |-> 1, policy |-> 0, model |-> 1, up |-> up]
  /\ disk = NoFiles /\ running = Idle /\ walk = NoWalk /\ shown = Nothing
  /\ kept = {} /\ decided = {} /\ edits = 0 /\ commands = 0

-----------------------------------------------------------------------------
(* What an artifact is compared with *)

\* Only the references and the commits: not the inputs, not the title.
PrSurfaceIdentityMatches(head, surface) == surface.status # "none" /\ surface.sig.head = head

\* Defect: the surface's identity is enough, its content is not compared.
MutHumanReviewMatchesPrSurface(brief, surface) ==
  brief.mode = "pr" /\ PrSurfaceIdentityMatches(brief.head, surface)

HumanReviewMatchesPrSurface(brief, surface) ==
  /\ brief.mode = "pr" /\ PrSurfaceIdentityMatches(brief.head, surface)
  /\ brief.surface = surface

HumanReviewMatchesPacket(brief, sig) == sig # NoSig /\ brief.packet = sig /\ brief.head = sig.head

\* The signature that is asked for leaves the policy out.
HumanReviewJsonMatchesConfig(brief, budget) == brief.config = <<budget, 0>>

\* The review of a conversation depends on its packet, the narrative on the head alone.
ReadCachedHumanReviewReuse(scope, sig, anyModel) ==
  LET b == disk.brief
      sameBrief == b.mode = scope /\ (anyModel \/ b.model = world.model)
  IN [narrative |-> IF sameBrief /\ b.narrative.head = sig.head THEN b.narrative ELSE NoSig,
      review |-> IF sameBrief /\ HumanReviewMatchesPacket(b, sig) /\ b.review.ok THEN b.review ELSE NoReview]

HumanEnrichmentCacheIsReusable(scope, cached) ==
  cached.review.ok /\ (scope = "pr" => cached.narrative # NoSig)

-----------------------------------------------------------------------------
(* The brief *)

\* A surface of another head is ignored, and the brief is one of the repository.
BuildHumanReview(scope, d, budget, narrative, review, model) ==
  LET fits == scope = "pr" /\ PrSurfaceIdentityMatches(d.packet.head, d.surface)
  IN [mode |-> IF fits THEN "pr" ELSE "repo", head |-> d.packet.head, packet |-> d.packet,
      surface |-> IF fits THEN d.surface ELSE NoSurface, model |-> model,
      config |-> <<budget, world.policy>>, diff |-> d.diff, narrative |-> narrative, review |-> review,
      drafts |-> FALSE]

\* From the artifacts alone: no narrative, and for the repository the review of the
\* conversation that the brief on disk has of the same packet.
BuildHumanReviewFromArtifacts(scope, budget) ==
  BuildHumanReview(scope, disk, budget, NoSig,
    IF scope = "repo" THEN ReadCachedHumanReviewReuse("repo", disk.packet, TRUE).review ELSE NoReview, 0)

IsStale(brief, scope, budget) ==
  \/ ~HumanReviewJsonMatchesConfig(brief, budget)
  \/ brief.mode # scope
  \/ scope = "repo" /\ ~HumanReviewMatchesPacket(brief, disk.packet)

LoadOrBuildHumanReview(scope, budget) ==
  IF disk.brief.mode = "none" \/ IsStale(disk.brief, scope, budget)
  THEN BuildHumanReviewFromArtifacts(scope, budget) ELSE disk.brief

\* The gate in front of a rendering and of a walkthrough.
Renders(scope, brief) ==
  IF scope = "pr" THEN HumanReviewMatchesPrSurface(brief, disk.surface) ELSE HumanReviewMatchesPacket(brief, disk.packet)

Show(kind, brief) == shown' = [kind |-> kind, brief |-> brief, over |-> disk']

Begin == running = Idle /\ commands < MaxCommands /\ commands' = commands + 1

-----------------------------------------------------------------------------
(* all *)

AssembleSurface ==
  [sig |-> running.sig, title |-> running.title, status |-> IF running.sig \in NoChange THEN "blocked" ELSE "ready"]

\* The surface is taken again when its head is the same and it was ready, with the new title.
PrSurfaceCacheReuse(scope, sig) ==
  scope = "pr" => disk.surface.status = "ready" /\ PrSurfaceIdentityMatches(sig.head, disk.surface)

All(scope, cache, budget) ==
  LET sig == world.sig
      hit == cache /\ disk.packet = sig /\ disk.manifest = sig
      reuse == hit /\ PrSurfaceCacheReuse(scope, sig)
  IN /\ Begin
     /\ running' = [stage |-> IF reuse THEN "brief" ELSE "packet", scope |-> scope, sig |-> sig, title |-> world.title,
                    model |-> world.model, budget |-> budget,
                    cached |-> IF reuse THEN ReadCachedHumanReviewReuse(scope, sig, FALSE) ELSE Idle.cached]
     /\ disk' = [disk EXCEPT !.manifest = sig, !.diff = sig,
                             !.surface.title = IF reuse /\ scope = "pr" THEN world.title ELSE @]
     /\ shown' = Nothing
     /\ UNCHANGED <<world, walk, kept, decided, edits>>

WritePacket ==
  /\ running.stage = "packet"
  /\ disk' = [disk EXCEPT !.packet = running.sig]
  /\ running' = [running EXCEPT !.stage = IF running.scope = "pr" THEN "surface" ELSE "brief"]
  /\ UNCHANGED <<world, walk, shown, kept, decided, edits, commands>>

WriteSurface ==
  /\ running.stage = "surface"
  /\ disk' = [disk EXCEPT !.surface = AssembleSurface]
  /\ running' = [running EXCEPT !.stage = "brief"]
  /\ UNCHANGED <<world, walk, shown, kept, decided, edits, commands>>

\* What the cached brief cannot give is asked of the provider, which may be away; a mock
\* or an absent provider gives no narrative.
BuildHumanEnrichments(cached) ==
  [narrative |-> IF cached.narrative # NoSig THEN cached.narrative
                 ELSE IF "narrative" \in world.up THEN running.sig ELSE NoSig,
   review |-> IF cached.review # NoReview THEN cached.review ELSE [of |-> running.sig, ok |-> "review" \in world.up]]

WriteBrief ==
  LET enriched == IF HumanEnrichmentCacheIsReusable(running.scope, running.cached) THEN running.cached
                  ELSE BuildHumanEnrichments(running.cached)
      brief == BuildHumanReview(running.scope, disk, running.budget, enriched.narrative, enriched.review, running.model)
  IN /\ running.stage = "brief"
     /\ disk' = [disk EXCEPT !.brief = brief]
     /\ Show("all", brief)
     /\ running' = Idle
     /\ UNCHANGED <<world, walk, kept, decided, edits, commands>>

Kill ==
  /\ running # Idle /\ running' = Idle
  /\ UNCHANGED <<world, disk, walk, shown, kept, decided, edits, commands>>

-----------------------------------------------------------------------------
(* The other commands *)

\* A stage collects, and writes the packet only when it is the last one.
Stage(last) ==
  /\ Begin
  /\ disk' = [disk EXCEPT !.manifest = world.sig, !.diff = world.sig, !.packet = IF last THEN world.sig ELSE @]
  /\ shown' = Nothing
  /\ UNCHANGED <<world, running, walk, kept, decided, edits>>

Human(scope, budget) ==
  LET brief == BuildHumanReviewFromArtifacts(scope, budget)
  IN /\ Begin /\ disk.packet # NoSig
     /\ disk' = [disk EXCEPT !.brief = brief]
     /\ Show("human", brief)
     /\ UNCHANGED <<world, running, walk, kept, decided, edits>>

\* Not gated, and without a budget of its own.
Subartifact(scope) ==
  LET brief == LoadOrBuildHumanReview(scope, 0)
  IN /\ Begin /\ (disk.packet # NoSig \/ brief = disk.brief)
     /\ disk' = [disk EXCEPT !.brief = brief]
     /\ Show("subartifact", brief)
     /\ UNCHANGED <<world, running, walk, kept, decided, edits>>

\* The brief that was built stays on disk even when the gate then refuses to walk it.
StartWalkthrough(scope, budget) ==
  LET brief == LoadOrBuildHumanReview(scope, budget)
      opens == scope = "pr" => Renders("pr", brief)
  IN /\ Begin /\ walk = NoWalk /\ disk.packet # NoSig
     /\ disk' = [disk EXCEPT !.brief = brief]
     /\ IF opens
        THEN /\ walk' = [session |-> commands + 1, brief |-> brief, rules |-> disk.surface]
             /\ Show("walkthrough", brief)
        ELSE walk' = walk /\ shown' = Nothing
     /\ UNCHANGED <<world, running, kept, decided, edits>>

\* The first name of this head that is free.
NextAvailablePath(head) ==
  LET taken == {f.n : f \in {k \in kept : k.head = head}}
  IN [head |-> head, n |-> CHOOSE n \in 1..(Cardinality(taken) + 1) : n \notin taken /\ 1..(n - 1) \subseteq taken]

\* A request for a comment is kept as feedback and as a draft in the brief as it was read.
EndWalkthrough(decides, comments) ==
  LET name == NextAvailablePath(walk.brief.head)
  IN /\ walk # NoWalk /\ (comments => decides)
     /\ kept' = IF decides
                THEN {k \in kept : k.head # name.head \/ k.n # name.n}
                     \cup {[head |-> name.head, n |-> name.n, session |-> walk.session]}
                ELSE kept
     /\ decided' = IF decides THEN decided \cup {walk.session} ELSE decided
     /\ disk' = IF comments THEN [disk EXCEPT !.brief = [walk.brief EXCEPT !.drafts = TRUE]] ELSE disk
     /\ walk' = NoWalk /\ shown' = Nothing
     /\ UNCHANGED <<world, running, edits, commands>>

\* A rendering of the brief on disk: the draft review, and the comment on a repository.
Render(scope, kind) ==
  /\ Begin /\ disk.brief.mode = scope /\ Renders(scope, disk.brief)
  /\ disk' = disk /\ Show(kind, disk.brief)
  /\ UNCHANGED <<world, running, walk, kept, decided, edits>>

\* The comment of a pull request; a brief of another configuration is built again first.
CommentOnPullRequest(budget) ==
  LET current == HumanReviewJsonMatchesConfig(disk.brief, budget)
      brief == IF current THEN disk.brief ELSE BuildHumanReviewFromArtifacts("pr", budget)
  IN /\ Begin /\ disk.surface.status = "ready" /\ HumanReviewMatchesPrSurface(disk.brief, disk.surface)
     /\ disk' = [disk EXCEPT !.brief = brief]
     /\ Show("comment on a pull request", brief)
     /\ UNCHANGED <<world, running, walk, kept, decided, edits>>

\* Nothing to review: the comment is taken away.
SuppressComment ==
  /\ Begin /\ disk.surface.status = "blocked"
  /\ shown' = Nothing
  /\ UNCHANGED <<world, disk, running, walk, kept, decided, edits>>

Edit ==
  /\ edits < MaxEdits /\ edits' = edits + 1
  /\ \/ \E h \in 1..2, i \in 1..2 : world' = [world EXCEPT !.sig = [head |-> h, inputs |-> i]] /\ world' # world
     \/ world' = [world EXCEPT !.title = 3 - @]
     \/ world' = [world EXCEPT !.policy = 1 - @]
     \/ world' = [world EXCEPT !.model = 3 - @]
     \/ \E up \in SUBSET Answers : world' = [world EXCEPT !.up = up] /\ world' # world
  /\ shown' = Nothing
  /\ UNCHANGED <<disk, running, walk, kept, decided, commands>>

Budgets == {0, 1}

Next ==
  \/ \E s \in Scopes, c \in BOOLEAN, b \in Budgets : All(s, c, b)
  \/ WritePacket \/ WriteSurface \/ WriteBrief \/ Kill
  \/ \E last \in BOOLEAN : Stage(last)
  \/ \E s \in Scopes, b \in Budgets : Human(s, b) \/ StartWalkthrough(s, b)
  \/ \E s \in Scopes : Subartifact(s) \/ Render(s, "draft review") \/ (s = "repo" /\ Render(s, "comment"))
  \/ \E d, c \in BOOLEAN : EndWalkthrough(d, c)
  \/ \E b \in Budgets : CommentOnPullRequest(b)
  \/ SuppressComment \/ Edit

Spec == Init /\ [][Next]_suVars

-----------------------------------------------------------------------------
(* Properties *)

Sigs == [head : 0..2, inputs : 0..2]
Reviews == [of : Sigs, ok : BOOLEAN]
PrSurfaces == [sig : Sigs, title : 0..2, status : {"none", "ready", "blocked"}]
Briefs ==
  [mode : Scopes \cup {"none"}, head : 0..2, packet : Sigs, surface : PrSurfaces, model : 0..2,
   config : Budgets \X {0, 1}, diff : Sigs, narrative : Sigs, review : Reviews, drafts : BOOLEAN]
Directories == [manifest : Sigs, diff : Sigs, packet : Sigs, surface : PrSurfaces, brief : Briefs]

TypeOK ==
  /\ world \in [sig : [head : 1..2, inputs : 1..2], title : 1..2, policy : {0, 1}, model : 1..2, up : SUBSET Answers]
  /\ disk \in Directories
  /\ running \in [stage : {"idle", "packet", "surface", "brief"}, scope : Scopes, sig : Sigs, title : 0..2,
                  model : 0..2, budget : Budgets, cached : [narrative : Sigs, review : Reviews]]
  /\ walk \in [session : Nat, brief : Briefs, rules : PrSurfaces]
  /\ shown.brief \in Briefs /\ shown.over \in Directories
  /\ kept \subseteq [head : 0..2, n : Nat, session : Nat]
  /\ commands \in Nat

\* What is exported or walked belongs to what the directory holds at that moment: in the
\* scope of a pull request to its surface, in that of the repository to the packet.
ExportsAreOfTheDirectory ==
  shown.kind \in {"draft review", "walkthrough", "comment", "comment on a pull request"} =>
    IF shown.brief.mode = "pr" THEN shown.brief.surface = shown.over.surface
    ELSE shown.brief.packet = shown.over.packet

\* The review of the conversation in a brief is of the brief's own packet, a narrative of
\* the brief's own head, whatever was reused from an earlier brief.
EnrichmentIsOfTheBrief ==
  LET b == disk.brief
  IN /\ b.review # NoReview => b.review.of = b.packet
     /\ b.narrative # NoSig => b.narrative.head = b.head

\* A failure of the provider is not cached: when it answers again the next run of `all'
\* shows its review, and for a pull request its narrative.
ProviderIsAskedAgain ==
  shown.kind = "all" =>
    /\ "review" \in world.up => shown.brief.review.ok
    /\ "narrative" \in world.up /\ shown.brief.mode = "pr" => shown.brief.narrative # NoSig

\* What a reviewer decided stays in the feedback, whichever sessions follow on the same
\* head, and a false positive is filed under the rules of the surface it was shown with.
DecisionsAreKept ==
  /\ decided = {f.session : f \in kept}
  /\ walk.brief.mode = "pr" => walk.rules = walk.brief.surface

\* What is shown and exported is of one directory, one packet and one head, asks the
\* provider again for what it did not give, and loses no decision.
SurfacesAgree ==
  ExportsAreOfTheDirectory /\ EnrichmentIsOfTheBrief /\ ProviderIsAskedAgain /\ DecisionsAreKept

\* cli/index.ts:3320: "pr mode never falls back to the whole-repo packet".
CommentIsOfThePullRequest ==
  shown.kind = "comment on a pull request" => shown.brief.mode = "pr"
=============================================================================
