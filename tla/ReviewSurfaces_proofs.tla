------------------------ MODULE ReviewSurfaces_proofs -----------------------
(***************************************************************************)
(* Theorems about the commands over one output directory, for every number *)
(* of commands and edits, whatever the provider answers and wherever a run *)
(* of `all' is killed; and about what a model's answers add to a review.   *)
(***************************************************************************)
EXTENDS ReviewSurfaces, MethodologyAudit, FiniteSetTheorems, NaturalsInduction, WellFoundedInduction, TLAPS

-----------------------------------------------------------------------------
(* The invariant.                                                          *)

\* The review of the conversation in a brief is of the brief's own packet, a
\* narrative of the brief's own head.
Enriched(b) ==
  /\ b.review # NoReview => b.review.of = b.packet
  /\ b.narrative # NoSig => b.narrative.head = b.head

\* A run of `all' that has its packet written writes its brief over that
\* packet, and what it took from the cache is of its own collection, and
\* good.
RunInv ==
  /\ running.stage # "idle" => running.sig # NoSig
  /\ running.stage \in {"surface", "brief"} => disk.packet = running.sig
  /\ running.cached.review # NoReview => running.cached.review.ok /\
        running.cached.review.of = running.sig
  /\ running.cached.narrative # NoSig => running.cached.narrative.head = running.sig.head

\* What the properties do not say.  The brief a walkthrough holds is written
\* back over a newer one, so it must be sound by itself.
Parts == Enriched(disk.brief) /\ Enriched(walk.brief) /\ RunInv /\ IsFiniteSet(kept)

\* The invariant.
Inv == TypeOK /\ ExportsAreOfTheDirectory /\ ProviderIsAskedAgain /\ DecisionsAreKept /\ Parts

-----------------------------------------------------------------------------
(* Types.                                                                  *)

\* The types of what stands for nothing.
LEMMA Names ==
  /\ NoSig \in Sigs /\ NoReview \in Reviews /\ NoSurface \in PrSurfaces /\ NoBrief \in Briefs
  /\ NoFiles \in Directories /\ Enriched(NoBrief) /\ NoReview.ok = FALSE /\ NoBrief.mode = "none"
<1>1. NoSig \in Sigs
  BY DEF NoSig, Sigs
<1>2. NoReview \in Reviews /\ NoSurface \in PrSurfaces /\ NoReview.ok = FALSE
  BY <1>1 DEF NoReview, NoSurface, Reviews, PrSurfaces
<1>3. NoBrief \in Briefs /\ NoBrief.mode = "none"
  BY <1>1, <1>2 DEF NoBrief, Briefs, Scopes, Budgets
<1>4. Enriched(NoBrief)
  BY DEF NoBrief, Enriched
<1>5. NoFiles \in Directories
  BY <1>1, <1>2, <1>3 DEF NoFiles, Directories
<1> QED BY <1>1, <1>2, <1>3, <1>4, <1>5

\* The types of the parts of a state.
LEMMA Typed ==
  ASSUME TypeOK
  PROVE  /\ world.sig \in Sigs /\ world.sig # NoSig /\ world.title \in 0..2
         /\ world.policy \in {0, 1} /\ world.model \in 0..2
         /\ world.up \subseteq Answers
         /\ disk.manifest \in Sigs /\ disk.diff \in Sigs /\ disk.packet \in Sigs
         /\ disk.surface \in PrSurfaces
         /\ disk.brief \in Briefs
         /\ running.scope \in Scopes /\ running.sig \in Sigs /\ running.title \in 0..2
         /\ running.model \in 0..2 /\ running.budget \in Budgets
         /\ running.stage \in {"idle", "packet", "surface", "brief"}
         /\ running.cached.narrative \in Sigs /\ running.cached.review \in Reviews
         /\ walk.session \in Nat /\ walk.brief \in Briefs /\ walk.rules \in PrSurfaces
<1>1. /\ world.sig \in [head : 1..2, inputs : 1..2] /\ world.title \in 1..2
      /\ world.policy \in {0, 1} /\ world.model \in 1..2 /\ world.up \in SUBSET Answers
  BY DEF TypeOK
<1>2. world.sig \in Sigs /\ world.sig # NoSig
  <2>1. world.sig.head # 0
    BY <1>1
  <2> QED BY <1>1, <2>1 DEF Sigs, NoSig
<1>3. /\ disk.manifest \in Sigs /\ disk.diff \in Sigs /\ disk.packet \in Sigs
      /\ disk.surface \in PrSurfaces
         /\ disk.brief \in Briefs
  BY DEF TypeOK, Directories
<1>4. /\ running.scope \in Scopes /\ running.sig \in Sigs /\ running.title \in 0..2
      /\ running.model \in 0..2 /\ running.budget \in Budgets
      /\ running.stage \in {"idle", "packet", "surface", "brief"}
      /\ running.cached \in [narrative : Sigs, review : Reviews]
  BY DEF TypeOK
<1>5. walk.session \in Nat /\ walk.brief \in Briefs /\ walk.rules \in PrSurfaces
  BY DEF TypeOK
<1> QED BY <1>1, <1>2, <1>3, <1>4, <1>5

\* The types of the parts of a directory.
LEMMA Directory ==
  ASSUME NEW d \in Directories
  PROVE  /\ d.manifest \in Sigs /\ d.diff \in Sigs /\ d.packet \in Sigs
         /\ d.surface \in PrSurfaces /\ d.brief \in Briefs
BY DEF Directories

\* The types of the parts of a brief.
LEMMA BriefParts ==
  ASSUME NEW b \in Briefs
  PROVE  /\ b.mode \in Scopes \cup {"none"} /\ b.head \in 0..2 /\ b.packet \in Sigs
         /\ b.surface \in PrSurfaces
         /\ b.narrative \in Sigs /\ b.review \in Reviews
         /\ b.review.ok => b.review # NoReview
BY Names DEF Briefs

-----------------------------------------------------------------------------
(* What the operators return.                                              *)

\* A brief that is built is of the directory's packet, and one of a pull
\* request is of its surface.
LEMMA Built ==
  ASSUME TypeOK, NEW scope \in Scopes, NEW d \in Directories, NEW budget \in Budgets,
         NEW narrative \in Sigs,
         NEW review \in Reviews, NEW model \in 0..2
  PROVE  LET b == BuildHumanReview(scope, d, budget, narrative, review, model)
         IN /\ b \in Briefs /\ b.packet = d.packet /\ b.head = d.packet.head
            /\ b.mode \in Scopes /\ (b.mode = "pr" => scope = "pr" /\ b.surface = d.surface)
            /\ b.narrative = narrative /\ b.review = review
<1> DEFINE fits == scope = "pr" /\ PrSurfaceIdentityMatches(d.packet.head, d.surface)
           b == [mode |-> IF fits THEN "pr" ELSE "repo", head |-> d.packet.head,
              packet |-> d.packet,
                 surface |-> IF fits THEN d.surface ELSE NoSurface, model |-> model,
                 config |-> <<budget, world.policy>>, diff |-> d.diff, narrative |-> narrative,
                    review |-> review,
                 drafts |-> FALSE]
<1>1. BuildHumanReview(scope, d, budget, narrative, review, model) = b
  BY DEF BuildHumanReview
<1>2. /\ d.manifest \in Sigs /\ d.diff \in Sigs /\ d.packet \in Sigs /\ d.surface \in PrSurfaces
      /\ NoSurface \in PrSurfaces
  BY Directory, Names
<1>3. d.packet.head \in 0..2
  BY <1>2 DEF Sigs
<1>4. <<budget, world.policy>> \in Budgets \X {0, 1}
  BY Typed
<1> HIDE DEF fits
<1>5. b \in Briefs
  BY <1>2, <1>3, <1>4 DEF Briefs, Scopes
<1>6. /\ b.packet = d.packet /\ b.head = d.packet.head
      /\ b.mode \in Scopes /\ (b.mode = "pr" => fits /\ b.surface = d.surface)
      /\ b.narrative = narrative /\ b.review = review
  BY DEF Scopes
<1> QED BY <1>1, <1>5, <1>6 DEF fits

\* What is reused of the brief on disk is of the collection it is asked for.
LEMMA Reused ==
  ASSUME TypeOK, Enriched(disk.brief), NEW scope \in Scopes, NEW sig \in Sigs, NEW any \in BOOLEAN
  PROVE  LET c == ReadCachedHumanReviewReuse(scope, sig, any)
         IN /\ c \in [narrative : Sigs, review : Reviews]
            /\ c.review # NoReview => c.review.ok /\ c.review.of = sig
            /\ c.narrative # NoSig => c.narrative.head = sig.head
<1> DEFINE b == disk.brief
           same == b.mode = scope /\ (any \/ b.model = world.model)
           narrative == IF same /\ b.narrative.head = sig.head THEN b.narrative ELSE NoSig
           review == IF same /\ HumanReviewMatchesPacket(b, sig) /\
              b.review.ok THEN b.review ELSE NoReview
<1>1. ReadCachedHumanReviewReuse(scope, sig, any) = [narrative |-> narrative, review |-> review]
  BY DEF ReadCachedHumanReviewReuse
<1>2. b \in Briefs
  BY Typed
<1>3. narrative \in Sigs /\ review \in Reviews
  BY <1>2, Names, BriefParts
<1>4. review # NoReview => review.ok /\ review.of = sig
  BY <1>2 DEF HumanReviewMatchesPacket, Enriched
<1>5. narrative # NoSig => narrative.head = sig.head
  OBVIOUS
<1> HIDE DEF narrative, review
<1> QED BY <1>1, <1>3, <1>4, <1>5

\* A brief that is built from the artifacts alone is sound.
LEMMA FromArtifacts ==
  ASSUME TypeOK, Enriched(disk.brief), NEW scope \in Scopes, NEW budget \in Budgets
  PROVE  LET b == BuildHumanReviewFromArtifacts(scope, budget)
         IN /\ b \in Briefs /\ Enriched(b) /\ b.packet = disk.packet /\ b.mode \in Scopes
            /\ (b.mode = "pr" => scope = "pr" /\ b.surface = disk.surface)
<1> DEFINE review == IF scope = "repo" THEN ReadCachedHumanReviewReuse("repo", disk.packet,
   TRUE).review ELSE NoReview
<1>1. /\ disk \in Directories /\ disk.packet \in Sigs /\ "repo" \in Scopes /\ NoSig \in Sigs
      /\ NoReview \in Reviews
  BY Typed, Names DEF TypeOK, Scopes
<1>2. review \in Reviews /\ (review # NoReview => review.of = disk.packet)
  BY <1>1, Reused
<1>3. BuildHumanReviewFromArtifacts(scope, budget) = BuildHumanReview(scope, disk, budget, NoSig,
         review, 0)
  BY DEF BuildHumanReviewFromArtifacts
<1> HIDE DEF review
<1> QED BY <1>1, <1>2, <1>3, Built DEF Enriched

\* A brief that is loaded, or built when that is stale, is sound, and one of
\* the repository is of the packet on disk.
LEMMA Loaded ==
  ASSUME TypeOK, Enriched(disk.brief), NEW scope \in Scopes, NEW budget \in Budgets
  PROVE  LET b == LoadOrBuildHumanReview(scope, budget)
         IN /\ b \in Briefs /\ Enriched(b)
            /\ scope = "repo" => b.mode = "repo" /\ b.packet = disk.packet
<1>1. disk.brief \in Briefs
  BY Typed
<1>2. CASE disk.brief.mode = "none" \/ IsStale(disk.brief, scope, budget)
  <2>1. LoadOrBuildHumanReview(scope, budget) = BuildHumanReviewFromArtifacts(scope, budget)
    BY <1>2 DEF LoadOrBuildHumanReview
  <2> QED BY <2>1, FromArtifacts DEF Scopes
<1>3. CASE ~(disk.brief.mode = "none" \/ IsStale(disk.brief, scope, budget))
  <2>1. LoadOrBuildHumanReview(scope, budget) = disk.brief
    BY <1>3 DEF LoadOrBuildHumanReview
  <2> QED BY <1>1, <1>3, <2>1 DEF IsStale, HumanReviewMatchesPacket
<1> QED BY <1>2, <1>3

\* There is a free name for the feedback, and the one that is chosen is taken
\* by no file of that head.
LEMMA FreeName ==
  ASSUME TypeOK, IsFiniteSet(kept), NEW head \in 0..2
  PROVE  LET name == NextAvailablePath(head)
         IN name.head = head /\ name.n \in Nat /\ \A k \in kept : k.head # head \/ k.n # name.n
<1> DEFINE mine == {k \in kept : k.head = head}
           taken == {f.n : f \in mine}
           C == Cardinality(taken)
           Free(n) == n \notin taken /\ 1..(n - 1) \subseteq taken
           free == {n \in Nat : n >= 1 /\ n \notin taken}
<1>1. IsFiniteSet(taken)
  <2>1. IsFiniteSet(mine)
    BY FS_Subset
  <2> DEFINE f == [k \in mine |-> k.n]
  <2>2. f \in Surjection(mine, taken)
    BY DEF Surjection
  <2> HIDE DEF f, mine, taken
  <2> QED BY <2>1, <2>2, FS_Surjection
<1>2. C \in Nat /\ \A k \in kept : k.n \in Nat
  BY <1>1, FS_CardinalityType DEF TypeOK
<1>3. \E n \in 1..(C + 1) : n \notin taken
  <2> SUFFICES ASSUME 1..(C + 1) \subseteq taken PROVE FALSE
    OBVIOUS
  <2> HIDE DEF taken
  <2>1. Cardinality(1..(C + 1)) <= Cardinality(taken)
    BY <1>1, FS_Subset
  <2>2. Cardinality(1..(C + 1)) = C + 1
    <3>1. 1 \in Int /\ C + 1 \in Int /\ ~(1 > C + 1)
      BY <1>2
    <3>2. Cardinality(1..(C + 1)) = IF 1 > C + 1 THEN 0 ELSE (C + 1) - 1 + 1
      BY <3>1, FS_Interval
    <3> QED BY <1>2, <3>1, <3>2
  <2> HIDE DEF C
  <2>3. C + 1 <= C
    BY <2>1, <2>2 DEF C
  <2> QED BY <1>2, <2>3
<1>4. PICK n0 \in 1..(C + 1) : n0 \notin taken
  BY <1>3
<1>5. n0 \in free /\ free \subseteq Nat
  BY <1>2, <1>4
<1>6. PICK m \in free : \A y \in free : <<y, m>> \notin OpToRel(<, Nat)
  <2>1. IsWellFoundedOn(OpToRel(<, Nat), Nat)
    BY NatLessThanWellFounded
  <2> HIDE DEF free
  <2> QED BY <1>5, <2>1, WFMin
<1>7. \A y \in free : ~(y < m)
  BY <1>6 DEF OpToRel
<1>8. m \in 1..(C + 1) /\ Free(m)
  <2>1. m \in Nat /\ m >= 1 /\ m \notin taken
    BY DEF free
  <2>2. m <= C + 1
    BY <1>2, <1>4, <1>5, <1>7, <2>1
  <2>3. \A y \in 1..(m - 1) : y \in taken
    <3> TAKE y \in 1..(m - 1)
    <3>1. y \in Nat /\ y >= 1 /\ y < m
      BY <2>1
    <3> QED BY <1>7, <3>1
  <2> HIDE DEF taken, C, free
  <2> QED BY <1>2, <2>1, <2>2, <2>3
<1>9. NextAvailablePath(head) = [head |-> head, n |-> CHOOSE n \in 1..(C + 1) : Free(n)]
  BY DEF NextAvailablePath
<1> DEFINE chosen == CHOOSE n \in 1..(C + 1) : Free(n)
<1>10. chosen \in 1..(C + 1) /\ Free(chosen)
  BY <1>8
<1>11. chosen \in Nat /\ chosen \notin taken
  <2>1. chosen \notin taken
    BY <1>10
  <2> HIDE DEF chosen, Free, taken, C
  <2> QED BY <1>2, <1>10, <2>1
<1> HIDE DEF chosen
<1>12. NextAvailablePath(head) = [head |-> head, n |-> chosen]
  BY <1>9 DEF chosen
<1>13. \A k \in kept : k.head # head \/ k.n # chosen
  BY <1>11
<1> QED BY <1>11, <1>12, <1>13

-----------------------------------------------------------------------------
(* The start, and what most steps have in common.                          *)

\* The parts of the invariant.
LEMMA Facts ==
  ASSUME Inv
  PROVE  TypeOK /\ ExportsAreOfTheDirectory /\ ProviderIsAskedAgain /\ DecisionsAreKept
         /\ Enriched(disk.brief) /\ Enriched(walk.brief) /\ RunInv /\ IsFiniteSet(kept)
BY DEF Inv, Parts

-----------------------------------------------------------------------------
(* The start.                                                              *)

\* The invariant holds at the start.
LEMMA InitInv == Init => Inv
<1> SUFFICES ASSUME Init PROVE Inv
  OBVIOUS
<1>1. PICK up \in SUBSET Answers :
        world = [sig |-> [head |-> 2, inputs |-> 1], title |-> 1, policy |-> 0, model |-> 1,
           up |-> up]
  BY DEF Init
<1>2. disk = NoFiles /\ running = Idle /\ walk = NoWalk /\ shown = Nothing
      /\ kept = {} /\ decided = {} /\ edits = 0 /\ commands = 0
  BY DEF Init
<1>3. /\ NoSig \in Sigs /\ NoReview \in Reviews /\ NoSurface \in PrSurfaces
      /\ NoBrief \in Briefs
      /\ NoFiles \in Directories /\ Enriched(NoBrief) /\ NoBrief.mode = "none"
  BY Names
<1>4. TypeOK
  <2>1. world \in [sig : [head : 1..2, inputs : 1..2], title : 1..2, policy : {0, 1},
           model : 1..2, up : SUBSET Answers]
    <3>1. /\ [head |-> 2, inputs |-> 1] \in [head : 1..2, inputs : 1..2] /\ 1 \in 1..2
          /\ 0 \in {0, 1}
      OBVIOUS
    <3> QED BY <1>1, <3>1
  <2>2. running \in [stage : {"idle", "packet", "surface", "brief"}, scope : Scopes, sig : Sigs,
           title : 0..2,
                  model : 0..2, budget : Budgets, cached : [narrative : Sigs, review : Reviews]]
    BY <1>2, <1>3 DEF Idle, Scopes, Budgets
  <2>3. walk \in [session : Nat, brief : Briefs, rules : PrSurfaces]
    BY <1>2, <1>3 DEF NoWalk
  <2>4. shown.brief \in Briefs /\ shown.over \in Directories
    BY <1>2, <1>3 DEF Nothing
  <2> QED BY <1>2, <1>3, <2>1, <2>2, <2>3, <2>4 DEF TypeOK
<1>5. ExportsAreOfTheDirectory /\ ProviderIsAskedAgain
  BY <1>2 DEF ExportsAreOfTheDirectory, ProviderIsAskedAgain, Nothing
<1>6. DecisionsAreKept
  BY <1>2, <1>3 DEF DecisionsAreKept, NoWalk
<1>7. Enriched(disk.brief) /\ Enriched(walk.brief)
  BY <1>2, <1>3 DEF NoFiles, NoWalk
<1>8. RunInv
  BY <1>2 DEF RunInv, Idle
<1>9. IsFiniteSet(kept)
  BY <1>2, FS_EmptySet
<1> QED BY <1>4, <1>5, <1>6, <1>7, <1>8, <1>9 DEF Inv, Parts

\* The types of a run.
RunTypes ==
  [stage : {"idle", "packet", "surface", "brief"}, scope : Scopes, sig : Sigs, title : 0..2,
   model : 0..2, budget : Budgets, cached : [narrative : Sigs, review : Reviews]]

\* A step that leaves the reviewer's decisions alone keeps what is known of
\* them.
LEMMA Kept ==
  ASSUME Inv, UNCHANGED <<world, walk, kept, decided>>,
         disk' \in Directories, running' \in RunTypes, commands' \in Nat,
         shown'.brief \in Briefs, shown'.over \in Directories,
         ExportsAreOfTheDirectory', ProviderIsAskedAgain', Enriched(disk'.brief), RunInv'
  PROVE  Inv'
<1>1. TypeOK /\ DecisionsAreKept /\ Enriched(walk.brief) /\ IsFiniteSet(kept)
  BY Facts
<1>2. TypeOK'
  BY <1>1 DEF TypeOK, RunTypes
<1>3. DecisionsAreKept'
  BY <1>1 DEF DecisionsAreKept
<1>4. Enriched(disk.brief)' /\ Enriched(walk.brief)' /\ IsFiniteSet(kept)'
  BY <1>1
<1> QED BY <1>2, <1>3, <1>4 DEF Inv, Parts

\* A step that shows nothing.
LEMMA NothingShown ==
  ASSUME shown' = Nothing
  PROVE  /\ ExportsAreOfTheDirectory' /\ ProviderIsAskedAgain' /\ shown'.brief \in Briefs
         /\ shown'.over \in Directories
BY Names DEF ExportsAreOfTheDirectory, ProviderIsAskedAgain, Nothing

\* A step that shows nothing new.
LEMMA SameShown ==
  ASSUME Inv, shown' = shown, world' = world
  PROVE  /\ ExportsAreOfTheDirectory' /\ ProviderIsAskedAgain' /\ shown'.brief \in Briefs
         /\ shown'.over \in Directories
BY Facts DEF ExportsAreOfTheDirectory, ProviderIsAskedAgain, TypeOK

\* A command that runs beside no `all'.
LEMMA IdleRun ==
  ASSUME Inv, running = Idle, running' = running
  PROVE  RunInv' /\ running' \in RunTypes
BY Facts DEF RunInv, Idle, TypeOK, RunTypes

\* A brief is written and nothing else in the directory.
LEMMA Writing ==
  ASSUME NEW d \in Directories, NEW b \in Briefs
  PROVE  LET e == [d EXCEPT !.brief = b]
         IN e \in Directories /\ e.brief = b /\ e.packet = d.packet /\ e.surface = d.surface
BY DEF Directories

-----------------------------------------------------------------------------
(* The steps.                                                              *)

\* The start of `all' keeps the invariant: what it takes from the cache is of
\* the packet it collected.
LEMMA AllStep ==
  ASSUME Inv, NEW scope \in Scopes, NEW useCache \in BOOLEAN, NEW budget \in Budgets,
         All(scope, useCache, budget)
  PROVE  Inv'
<1> DEFINE sig == world.sig
           hit == useCache /\ disk.packet = sig /\ disk.manifest = sig
           reuse == hit /\ PrSurfaceCacheReuse(scope, sig)
           cached == IF reuse THEN ReadCachedHumanReviewReuse(scope, sig, FALSE) ELSE Idle.cached
           title == IF reuse /\ scope = "pr" THEN world.title ELSE disk.surface.title
           begun == [stage |-> IF reuse THEN "brief" ELSE "packet", scope |-> scope, sig |-> sig,
                     title |-> world.title, model |-> world.model, budget |-> budget, cached |-> cached]
<1>1. TypeOK /\ Enriched(disk.brief) /\ RunInv
  BY Facts
<1>2. /\ commands' = commands + 1 /\ running' = begun
      /\ disk' = [disk EXCEPT !.manifest = sig, !.diff = sig, !.surface.title = title]
      /\ shown' = Nothing /\ UNCHANGED <<world, walk, kept, decided, edits>>
  BY DEF All, Begin
<1>3. /\ sig \in Sigs /\ sig # NoSig /\ world.title \in 0..2 /\ world.model \in 0..2
      /\ disk.surface \in PrSurfaces /\ disk \in Directories /\ commands \in Nat
  BY <1>1, Typed DEF TypeOK
<1>4. /\ cached \in [narrative : Sigs, review : Reviews]
      /\ cached.review # NoReview => cached.review.ok /\ cached.review.of = sig
      /\ cached.narrative # NoSig => cached.narrative.head = sig.head
  <2>1. CASE reuse
    BY <1>1, <1>3, <2>1, Reused
  <2>2. CASE ~reuse
    BY <2>2, Names DEF Idle
  <2> QED BY <2>1, <2>2
<1>5. disk' \in Directories /\ disk'.brief = disk.brief /\ disk'.packet = disk.packet
  <2>1. title \in 0..2
    BY <1>3 DEF PrSurfaces
  <2> HIDE DEF title, sig
  <2> QED BY <1>2, <1>3, <2>1 DEF Directories, PrSurfaces
<1>6. reuse => disk.packet = sig
  OBVIOUS
<1> HIDE DEF cached, sig, reuse, title
<1>7. begun \in RunTypes
  BY <1>3, <1>4 DEF RunTypes
<1>8. RunInv'
  BY <1>2, <1>3, <1>4, <1>5, <1>6 DEF RunInv
<1>9. commands' \in Nat
  BY <1>2, <1>3
<1>10. /\ ExportsAreOfTheDirectory' /\ ProviderIsAskedAgain'
       /\ shown'.brief \in Briefs /\ shown'.over \in Directories
  BY <1>2, NothingShown
<1> QED BY <1>1, <1>2, <1>5, <1>7, <1>8, <1>9, <1>10, Kept

\* The packet and the surface are written.
LEMMA WriteStep ==
  ASSUME Inv, WritePacket \/ WriteSurface
  PROVE  Inv'
<1>1. TypeOK /\ Enriched(disk.brief) /\ RunInv
  BY Facts
<1>2. /\ disk \in Directories /\ running \in RunTypes /\ commands \in Nat
      /\ running.sig \in Sigs /\ running.title \in 0..2
  BY <1>1, Typed DEF TypeOK, RunTypes
<1>3. UNCHANGED <<world, walk, shown, kept, decided, edits, commands>>
  BY DEF WritePacket, WriteSurface
<1>4. disk' \in Directories /\ disk'.brief = disk.brief /\ running' \in RunTypes /\ RunInv'
  <2>1. CASE WritePacket
    <3>1. /\ running.stage = "packet" /\ disk' = [disk EXCEPT !.packet = running.sig]
          /\ running' = [running EXCEPT !.stage = IF running.scope = "pr" THEN "surface" ELSE "brief"]
      BY <2>1 DEF WritePacket
    <3>2. disk' \in Directories /\ disk'.brief = disk.brief /\ disk'.packet = running.sig
      BY <1>2, <3>1 DEF Directories
    <3>3. /\ running' \in RunTypes /\ running'.sig = running.sig
          /\ running'.cached = running.cached
      BY <1>2, <3>1 DEF RunTypes
    <3>4. running.sig # NoSig
      BY <1>1, <3>1 DEF RunInv
    <3>5. RunInv'
      BY <1>1, <3>2, <3>3, <3>4 DEF RunInv
    <3> QED BY <3>2, <3>3, <3>5
  <2>2. CASE WriteSurface
    <3>1. /\ running.stage = "surface" /\ disk' = [disk EXCEPT !.surface = AssembleSurface]
          /\ running' = [running EXCEPT !.stage = "brief"]
      BY <2>2 DEF WriteSurface
    <3>2. AssembleSurface \in PrSurfaces
      BY <1>2 DEF AssembleSurface, PrSurfaces
    <3>3. disk' \in Directories /\ disk'.brief = disk.brief /\ disk'.packet = disk.packet
      BY <1>2, <3>1, <3>2 DEF Directories
    <3>4. /\ running' \in RunTypes /\ running'.sig = running.sig
          /\ running'.cached = running.cached
      BY <1>2, <3>1 DEF RunTypes
    <3>5. RunInv'
      BY <1>1, <3>1, <3>3, <3>4 DEF RunInv
    <3> QED BY <3>3, <3>4, <3>5
  <2> QED BY <2>1, <2>2
<1>5. /\ ExportsAreOfTheDirectory' /\ ProviderIsAskedAgain'
      /\ shown'.brief \in Briefs /\ shown'.over \in Directories
  BY <1>3, SameShown
<1> QED BY <1>1, <1>2, <1>3, <1>4, <1>5, Kept

\* The last step of `all': what the cache could not give was asked for.
LEMMA WriteBriefStep ==
  ASSUME Inv, WriteBrief
  PROVE  Inv'
<1> DEFINE fresh == BuildHumanEnrichments(running.cached)
           enriched == IF HumanEnrichmentCacheIsReusable(running.scope,
              running.cached) THEN running.cached ELSE fresh
           brief == BuildHumanReview(running.scope, disk, running.budget, enriched.narrative,
              enriched.review, running.model)
<1>1. TypeOK /\ RunInv
  BY Facts
<1>2. /\ disk \in Directories /\ commands \in Nat /\ running.sig \in Sigs
      /\ running.scope \in Scopes
      /\ running.budget \in Budgets /\ running.model \in 0..2
      /\ running.cached.narrative \in Sigs /\ running.cached.review \in Reviews
  BY <1>1, Typed DEF TypeOK
<1>3. /\ running.stage = "brief" /\ disk' = [disk EXCEPT !.brief = brief]
      /\ shown' = [kind |-> "all", brief |-> brief, over |-> disk'] /\ running' = Idle
      /\ UNCHANGED <<world, walk, kept, decided, edits, commands>>
  BY DEF WriteBrief, Show
<1>4. /\ disk.packet = running.sig /\ running.sig # NoSig
      /\ running.cached.review # NoReview => running.cached.review.ok /\
            running.cached.review.of = running.sig
      /\ running.cached.narrative # NoSig => running.cached.narrative.head = running.sig.head
  BY <1>1, <1>3 DEF RunInv
<1>5. /\ enriched.narrative \in Sigs /\ enriched.review \in Reviews
      /\ enriched.narrative # NoSig => enriched.narrative.head = running.sig.head
      /\ enriched.review # NoReview => enriched.review.of = running.sig
      /\ "review" \in world.up => enriched.review.ok
      /\ "narrative" \in world.up /\ running.scope = "pr" => enriched.narrative # NoSig
  <2>1. CASE HumanEnrichmentCacheIsReusable(running.scope, running.cached)
    BY <1>2, <1>4, <2>1 DEF HumanEnrichmentCacheIsReusable
  <2>2. CASE ~HumanEnrichmentCacheIsReusable(running.scope, running.cached)
    <3> DEFINE n == IF running.cached.narrative # NoSig THEN running.cached.narrative
                 ELSE IF "narrative" \in world.up THEN running.sig ELSE NoSig
               r == IF running.cached.review # NoReview THEN running.cached.review
                  ELSE [of |-> running.sig, ok |-> "review" \in world.up]
    <3>1. fresh.narrative = n /\ fresh.review = r
      BY DEF BuildHumanEnrichments
    <3>2. /\ n \in Sigs /\ (n # NoSig => n.head = running.sig.head) /\
                ("narrative" \in world.up => n # NoSig)
      BY <1>2, <1>4, Names
    <3>3. r \in Reviews
      BY <1>2 DEF Reviews
    <3>4. r # NoReview => r.of = running.sig
      BY <1>4
    <3>5. "review" \in world.up => r.ok
      BY <1>4
    <3> HIDE DEF n, r
    <3>6. enriched.narrative = n /\ enriched.review = r
      BY <2>2, <3>1
    <3> QED BY <3>2, <3>3, <3>4, <3>5, <3>6
  <2> QED BY <2>1, <2>2
<1> HIDE DEF enriched
<1>6. /\ brief \in Briefs /\ brief.packet = disk.packet /\ brief.head = disk.packet.head
      /\ brief.mode = "pr" => running.scope = "pr"
      /\ brief.narrative = enriched.narrative /\ brief.review = enriched.review
  BY <1>1, <1>2, <1>5, Built
<1> HIDE DEF brief
<1>7. Enriched(brief)
  BY <1>4, <1>5, <1>6 DEF Enriched
<1>8. disk' \in Directories /\ disk'.brief = brief
  BY <1>2, <1>3, <1>6, Writing
<1>9. RunInv' /\ running' \in RunTypes
  BY <1>3, Names DEF RunInv, Idle, RunTypes, Scopes, Budgets
<1>10. ExportsAreOfTheDirectory' /\ shown'.brief \in Briefs /\ shown'.over \in Directories
  BY <1>3, <1>6, <1>8 DEF ExportsAreOfTheDirectory
<1>11. ProviderIsAskedAgain'
  BY <1>3, <1>5, <1>6 DEF ProviderIsAskedAgain
<1> QED BY <1>2, <1>3, <1>7, <1>8, <1>9, <1>10, <1>11, Kept

\* A run that is killed leaves a directory as good as it was.
LEMMA KillStep ==
  ASSUME Inv, Kill
  PROVE  Inv'
<1>1. TypeOK /\ Enriched(disk.brief)
  BY Facts
<1>2. running' = Idle /\ UNCHANGED <<world, disk, walk, shown, kept, decided, edits, commands>>
  BY DEF Kill
<1>3. RunInv' /\ running' \in RunTypes
  BY <1>2, Names DEF RunInv, Idle, RunTypes, Scopes, Budgets
<1>4. /\ ExportsAreOfTheDirectory' /\ ProviderIsAskedAgain'
      /\ shown'.brief \in Briefs /\ shown'.over \in Directories
  BY <1>2, SameShown
<1> QED BY <1>1, <1>2, <1>3, <1>4, Kept DEF TypeOK

\* A stage moves the packet or the manifest under the brief, which stays what
\* it was.
LEMMA StageStep ==
  ASSUME Inv, NEW last \in BOOLEAN, Stage(last)
  PROVE  Inv'
<1> DEFINE packet == IF last THEN world.sig ELSE disk.packet
<1>1. TypeOK /\ Enriched(disk.brief)
  BY Facts
<1>2. /\ running = Idle /\ commands' = commands + 1 /\ shown' = Nothing
      /\ disk' = [disk EXCEPT !.manifest = world.sig, !.diff = world.sig, !.packet = packet]
      /\ UNCHANGED <<world, running, walk, kept, decided, edits>>
  BY DEF Stage, Begin
<1>3. disk \in Directories /\ world.sig \in Sigs /\ packet \in Sigs /\ commands' \in Nat
  BY <1>1, <1>2, Typed DEF TypeOK
<1> HIDE DEF packet
<1>4. disk' \in Directories /\ disk'.brief = disk.brief
  BY <1>2, <1>3 DEF Directories
<1>5. RunInv' /\ running' \in RunTypes
  BY <1>2, IdleRun
<1>6. /\ ExportsAreOfTheDirectory' /\ ProviderIsAskedAgain'
      /\ shown'.brief \in Briefs /\ shown'.over \in Directories
  BY <1>2, NothingShown
<1> QED BY <1>1, <1>2, <1>3, <1>4, <1>5, <1>6, Kept

\* The number of commands.
LEMMA Counted ==
  ASSUME TypeOK, commands' = commands + 1
  PROVE  commands' \in Nat
BY DEF TypeOK

\* A command that writes a brief and shows it.
LEMMA BriefStep ==
  ASSUME Inv, NEW b \in Briefs, Enriched(b), NEW kind, kind # "all",
         running = Idle, commands' = commands + 1, disk' = [disk EXCEPT !.brief = b],
         shown' = [kind |-> kind, brief |-> b, over |-> disk'],
         kind \in {"draft review", "walkthrough", "comment", "comment on a pull request"} =>
           IF b.mode = "pr" THEN b.surface = disk.surface ELSE b.packet = disk.packet,
         UNCHANGED <<world, running, walk, kept, decided>>
  PROVE  Inv'
<1>1. TypeOK
  BY Facts
<1>2. /\ disk' \in Directories /\ disk'.brief = b /\ disk'.packet = disk.packet
      /\ disk'.surface = disk.surface
      /\ commands' \in Nat
  <2>1. disk \in Directories /\ commands \in Nat
    BY <1>1 DEF TypeOK
  <2>2. commands' \in Nat
    BY <1>1, Counted
  <2> QED BY <2>1, <2>2, Writing
<1>3. /\ ExportsAreOfTheDirectory' /\ ProviderIsAskedAgain' /\ shown'.brief \in Briefs
      /\ shown'.over \in Directories
  BY <1>2 DEF ExportsAreOfTheDirectory, ProviderIsAskedAgain
<1>4. RunInv' /\ running' \in RunTypes
  BY IdleRun
<1> QED BY <1>2, <1>3, <1>4, Kept

\* The other commands that show a brief: each is built over the directory, or
\* passed the gate against it.
LEMMA CommandStep ==
  ASSUME Inv, NEW scope \in Scopes, NEW budget \in Budgets,
         \/ Human(scope, budget) \/ Subartifact(scope)
         \/ Render(scope, "draft review") \/ (scope = "repo" /\ Render(scope, "comment"))
         \/ CommentOnPullRequest(budget)
  PROVE  Inv'
<1>1. TypeOK /\ Enriched(disk.brief) /\ disk.brief \in Briefs /\ disk \in Directories
  BY Facts, Typed DEF TypeOK
<1>2. 0 \in Budgets /\ "pr" \in Scopes
  BY DEF Budgets, Scopes
<1>3. CASE Human(scope, budget)
  <2> DEFINE b == BuildHumanReviewFromArtifacts(scope, budget)
  <2>1. b \in Briefs /\ Enriched(b)
    BY <1>1, FromArtifacts
  <2>2. /\ running = Idle /\ commands' = commands + 1 /\ disk' = [disk EXCEPT !.brief = b]
        /\ shown' = [kind |-> "human", brief |-> b, over |-> disk']
        /\ UNCHANGED <<world, running, walk, kept, decided>>
    BY <1>3 DEF Human, Begin, Show
  <2> HIDE DEF b
  <2> QED BY <2>1, <2>2, BriefStep
<1>4. CASE Subartifact(scope)
  <2> DEFINE b == LoadOrBuildHumanReview(scope, 0)
  <2>1. b \in Briefs /\ Enriched(b)
    BY <1>1, <1>2, Loaded
  <2>2. /\ running = Idle /\ commands' = commands + 1 /\ disk' = [disk EXCEPT !.brief = b]
        /\ shown' = [kind |-> "subartifact", brief |-> b, over |-> disk']
        /\ UNCHANGED <<world, running, walk, kept, decided>>
    BY <1>4 DEF Subartifact, Begin, Show
  <2> HIDE DEF b
  <2> QED BY <2>1, <2>2, BriefStep
<1>5. ASSUME NEW kind \in {"draft review", "comment"}, Render(scope, kind) PROVE Inv'
  <2> DEFINE b == disk.brief
  <2>1. /\ running = Idle /\ commands' = commands + 1 /\ disk' = disk
        /\ shown' = [kind |-> kind, brief |-> b, over |-> disk']
        /\ UNCHANGED <<world, running, walk, kept, decided>>
        /\ b.mode = scope /\ Renders(scope, b)
    BY <1>5 DEF Render, Begin, Show
  <2>2. disk' = [disk EXCEPT !.brief = b]
    BY <1>1, <2>1 DEF Directories
  <2>3. IF b.mode = "pr" THEN b.surface = disk.surface ELSE b.packet = disk.packet
    BY <2>1 DEF Renders, HumanReviewMatchesPrSurface, HumanReviewMatchesPacket
  <2>4. kind # "all"
    OBVIOUS
  <2> HIDE DEF b
  <2>5. b \in Briefs /\ Enriched(b)
    BY <1>1 DEF b
  <2> QED BY <2>1, <2>2, <2>3, <2>4, <2>5, BriefStep
<1>6. CASE CommentOnPullRequest(budget)
  <2> DEFINE built == BuildHumanReviewFromArtifacts("pr", budget)
             current == HumanReviewJsonMatchesConfig(disk.brief, budget)
             b == IF current THEN disk.brief ELSE built
  <2>1. built \in Briefs /\ Enriched(built) /\ built.packet = disk.packet /\
           (built.mode = "pr" => built.surface = disk.surface)
    BY <1>1, <1>2, FromArtifacts
  <2>2. /\ running = Idle /\ commands' = commands + 1 /\ disk' = [disk EXCEPT !.brief = b]
        /\ shown' = [kind |-> "comment on a pull request", brief |-> b, over |-> disk']
        /\ UNCHANGED <<world, running, walk, kept, decided>>
        /\ HumanReviewMatchesPrSurface(disk.brief, disk.surface)
    BY <1>6 DEF CommentOnPullRequest, Begin, Show
  <2> HIDE DEF built, current
  <2>3. IF b.mode = "pr" THEN b.surface = disk.surface ELSE b.packet = disk.packet
    BY <2>1, <2>2 DEF HumanReviewMatchesPrSurface
  <2>4. b \in Briefs /\ Enriched(b)
    BY <1>1, <2>1
  <2> HIDE DEF b
  <2> QED BY <2>2, <2>3, <2>4, BriefStep
<1> QED BY <1>3, <1>4, <1>5, <1>6

\* A walkthrough opens over a brief of the directory, with the rules of the
\* surface it shows.
LEMMA StartStep ==
  ASSUME Inv, NEW scope \in Scopes, NEW budget \in Budgets, StartWalkthrough(scope, budget)
  PROVE  Inv'
<1> DEFINE b == LoadOrBuildHumanReview(scope, budget)
           opens == scope = "pr" => Renders("pr", b)
<1>1. TypeOK /\ Enriched(disk.brief) /\ Enriched(walk.brief) /\ DecisionsAreKept /\
         IsFiniteSet(kept) /\ disk \in Directories
      /\ walk \in [session : Nat, brief : Briefs, rules : PrSurfaces] /\ commands \in Nat
      /\ disk.surface \in PrSurfaces
  BY Facts, Typed DEF TypeOK
<1>2. b \in Briefs /\ Enriched(b) /\ (scope = "repo" => b.mode = "repo" /\ b.packet = disk.packet)
  BY <1>1, Loaded
<1>3. /\ running = Idle /\ commands' = commands + 1 /\ disk' = [disk EXCEPT !.brief = b]
      /\ UNCHANGED <<world, running, kept, decided, edits>>
      /\ opens => /\ walk' = [session |-> commands + 1, brief |-> b, rules |-> disk.surface]
                  /\ shown' = [kind |-> "walkthrough", brief |-> b, over |-> disk']
      /\ ~opens => walk' = walk /\ shown' = Nothing
  BY DEF StartWalkthrough, Begin, Show
<1>4. opens => IF b.mode = "pr" THEN b.surface = disk.surface ELSE b.packet = disk.packet
  BY <1>2 DEF Renders, HumanReviewMatchesPrSurface, Scopes
<1> HIDE DEF b, opens
<1>5. /\ disk' \in Directories /\ disk'.brief = b /\ disk'.packet = disk.packet
      /\ disk'.surface = disk.surface
      /\ commands' \in Nat
  BY <1>1, <1>2, <1>3, Writing
<1>6. RunInv' /\ running' \in RunTypes
  BY <1>3, IdleRun
<1>7. /\ ExportsAreOfTheDirectory' /\ ProviderIsAskedAgain' /\ shown'.brief \in Briefs
      /\ shown'.over \in Directories
  <2>1. CASE opens
    <3>1. shown' = [kind |-> "walkthrough", brief |-> b, over |-> disk']
      BY <1>3, <2>1
    <3>2. IF b.mode = "pr" THEN b.surface = disk'.surface ELSE b.packet = disk'.packet
      BY <1>4, <1>5, <2>1
    <3>3. shown'.kind = "walkthrough" /\ shown'.brief = b /\ shown'.over = disk'
      BY <3>1
    <3> QED BY <1>2, <1>5, <3>2, <3>3 DEF ExportsAreOfTheDirectory, ProviderIsAskedAgain
  <2>2. CASE ~opens
    BY <1>3, <2>2, NothingShown
  <2> QED BY <2>1, <2>2
<1>8. /\ walk' \in [session : Nat, brief : Briefs, rules : PrSurfaces] /\ Enriched(walk'.brief)
      /\ walk'.brief.mode = "pr" => walk'.rules = walk'.brief.surface
  <2>1. CASE opens
    BY <1>1, <1>2, <1>3, <1>4, <2>1
  <2>2. CASE ~opens
    BY <1>1, <1>3, <2>2 DEF DecisionsAreKept
  <2> QED BY <2>1, <2>2
<1>9. DecisionsAreKept'
  BY <1>1, <1>3, <1>8 DEF DecisionsAreKept
<1>10. TypeOK'
  BY <1>1, <1>3, <1>5, <1>6, <1>7, <1>8 DEF TypeOK, RunTypes
<1> QED BY <1>1, <1>2, <1>3, <1>5, <1>6, <1>7, <1>8, <1>9, <1>10 DEF Inv, Parts

\* The end of a walkthrough: the name of its feedback is free, so that no
\* earlier decision is lost.
LEMMA EndStep ==
  ASSUME Inv, NEW decides \in BOOLEAN, NEW comments \in BOOLEAN, EndWalkthrough(decides, comments)
  PROVE  Inv'
<1> DEFINE name == NextAvailablePath(walk.brief.head)
           row == [head |-> name.head, n |-> name.n, session |-> walk.session]
           drafted == [walk.brief EXCEPT !.drafts = TRUE]
<1>1. TypeOK /\ Enriched(disk.brief) /\ Enriched(walk.brief) /\ DecisionsAreKept /\
         IsFiniteSet(kept) /\ disk \in Directories
      /\ walk.session \in Nat /\ walk.brief \in Briefs /\ walk.brief.head \in 0..2 /\ RunInv
  BY Facts, Typed, BriefParts DEF TypeOK
<1>2. name.head = walk.brief.head /\ name.n \in Nat /\
         \A k \in kept : k.head # name.head \/ k.n # name.n
  BY <1>1, FreeName
<1>3. /\ kept' = IF decides THEN {k \in kept : k.head # name.head \/ k.n # name.n} \cup {row} ELSE kept
      /\ decided' = IF decides THEN decided \cup {walk.session} ELSE decided
      /\ disk' = IF comments THEN [disk EXCEPT !.brief = drafted] ELSE disk
      /\ walk' = NoWalk /\ shown' = Nothing
      /\ UNCHANGED <<world, running, edits, commands>>
  BY DEF EndWalkthrough
<1> HIDE DEF name
<1>4. kept' = IF decides THEN kept \cup {row} ELSE kept
  BY <1>2, <1>3
<1>5. drafted \in Briefs /\ Enriched(drafted)
  <2>1. drafted \in Briefs
    BY <1>1 DEF Briefs
  <2>2. drafted.review = walk.brief.review /\ drafted.packet = walk.brief.packet
        /\ drafted.narrative = walk.brief.narrative /\ drafted.head = walk.brief.head
    BY <1>1 DEF Briefs
  <2> HIDE DEF drafted
  <2> QED BY <1>1, <2>1, <2>2 DEF Enriched
<1> HIDE DEF drafted
<1>6. disk' \in Directories /\ Enriched(disk'.brief) /\ disk'.packet = disk.packet
  BY <1>1, <1>3, <1>5, Writing
<1>7. /\ ExportsAreOfTheDirectory' /\ ProviderIsAskedAgain' /\ shown'.brief \in Briefs
      /\ shown'.over \in Directories
  BY <1>3, NothingShown
<1>8. walk' \in [session : Nat, brief : Briefs, rules : PrSurfaces] /\ Enriched(walk'.brief) /\
         walk'.brief.mode = "none"
  BY <1>3, Names DEF NoWalk
<1>9. kept' \subseteq [head : 0..2, n : Nat, session : Nat] /\ IsFiniteSet(kept')
  <2>1. row \in [head : 0..2, n : Nat, session : Nat]
    BY <1>1, <1>2
  <2>2. kept \subseteq [head : 0..2, n : Nat, session : Nat]
    BY <1>1 DEF TypeOK
  <2>3. IsFiniteSet(kept \cup {row})
    BY <1>1, FS_AddElement
  <2> HIDE DEF row
  <2> QED BY <1>1, <1>4, <2>1, <2>2, <2>3
<1>10. DecisionsAreKept'
  <2>1. decided = {f.session : f \in kept}
    BY <1>1 DEF DecisionsAreKept
  <2>2. row.session = walk.session
    OBVIOUS
  <2> HIDE DEF row
  <2>3. {f.session : f \in kept \cup {row}} = {f.session : f \in kept} \cup {walk.session}
    BY <2>2
  <2>4. decided' = {f.session : f \in kept'}
    BY <1>3, <1>4, <2>1, <2>3
  <2> QED BY <1>8, <2>4 DEF DecisionsAreKept
<1>11. RunInv'
  BY <1>1, <1>3, <1>6 DEF RunInv
<1>12. TypeOK'
  BY <1>1, <1>3, <1>6, <1>7, <1>8, <1>9 DEF TypeOK
<1> QED BY <1>6, <1>7, <1>8, <1>9, <1>10, <1>11, <1>12 DEF Inv, Parts

\* A comment that is taken away, an edit, and no step at all.
LEMMA OtherStep ==
  ASSUME Inv, SuppressComment \/ Edit \/ UNCHANGED suVars
  PROVE  Inv'
<1>1. TypeOK /\ ExportsAreOfTheDirectory /\ ProviderIsAskedAgain /\ DecisionsAreKept
         /\ Enriched(disk.brief) /\ Enriched(walk.brief) /\ RunInv /\ IsFiniteSet(kept)
  BY Facts
<1>2. CASE SuppressComment
  <2>1. /\ commands' = commands + 1 /\ shown' = Nothing
        /\ UNCHANGED <<world, disk, running, walk, kept, decided, edits>>
    BY <1>2 DEF SuppressComment, Begin
  <2>2. RunInv' /\ running' \in RunTypes /\ disk' \in Directories /\ commands' \in Nat
    BY <1>1, <2>1 DEF RunInv, TypeOK, RunTypes
  <2>3. /\ ExportsAreOfTheDirectory' /\ ProviderIsAskedAgain'
        /\ shown'.brief \in Briefs /\ shown'.over \in Directories
    BY <2>1, NothingShown
  <2> QED BY <1>1, <2>1, <2>2, <2>3, Kept
<1>3. CASE Edit
  <2>1. /\ shown' = Nothing /\ UNCHANGED <<disk, running, walk, kept, decided, commands>>
    BY <1>3 DEF Edit
  <2>2. world' \in [sig : [head : 1..2, inputs : 1..2], title : 1..2, policy : {0, 1},
           model : 1..2, up : SUBSET Answers]
    <3>0. world \in [sig : [head : 1..2, inputs : 1..2], title : 1..2, policy : {0, 1},
             model : 1..2, up : SUBSET Answers]
      BY <1>1 DEF TypeOK
    <3>1. 3 - world.title \in 1..2 /\ 1 - world.policy \in {0, 1} /\ 3 - world.model \in 1..2
      BY <3>0
    <3>2. CASE 
               \/ \E h \in 1..2,
                     i \in 1..2 : world' = [world EXCEPT !.sig = [head |-> h, inputs |-> i]]
      <4>1. PICK h \in 1..2,
               i \in 1..2 : world' = [world EXCEPT !.sig = [head |-> h, inputs |-> i]]
        BY <3>2
      <4>2. [head |-> h, inputs |-> i] \in [head : 1..2, inputs : 1..2]
        OBVIOUS
      <4> QED BY <3>0, <4>1, <4>2
    <3>3. CASE \/ world' = [world EXCEPT !.title = 3 - @]
               \/ world' = [world EXCEPT !.policy = 1 - @]
               \/ world' = [world EXCEPT !.model = 3 - @]
      BY <3>0, <3>1, <3>3
    <3>4. CASE \E up \in SUBSET Answers : world' = [world EXCEPT !.up = up]
      BY <3>0, <3>4
    <3> QED BY <1>3, <3>2, <3>3, <3>4 DEF Edit
  <2>3. /\ ExportsAreOfTheDirectory' /\ ProviderIsAskedAgain'
        /\ shown'.brief \in Briefs /\ shown'.over \in Directories
    BY <2>1, NothingShown
  <2>4. TypeOK'
    BY <1>1, <2>1, <2>2, <2>3 DEF TypeOK
  <2>5. DecisionsAreKept' /\ RunInv'
    BY <1>1, <2>1 DEF DecisionsAreKept, RunInv
  <2> QED BY <1>1, <2>1, <2>3, <2>4, <2>5 DEF Inv, Parts
<1>4. CASE UNCHANGED suVars
  <2>1. /\ UNCHANGED <<world, disk, running, walk, kept, decided, commands>> /\ shown' = shown
    BY <1>4 DEF suVars
  <2>2. RunInv' /\ running' \in RunTypes /\ disk' \in Directories /\ commands' \in Nat
    BY <1>1, <2>1 DEF RunInv, TypeOK, RunTypes
  <2>3. /\ ExportsAreOfTheDirectory' /\ ProviderIsAskedAgain'
        /\ shown'.brief \in Briefs /\ shown'.over \in Directories
    BY <2>1, SameShown
  <2> QED BY <1>1, <2>1, <2>2, <2>3, Kept
<1> QED BY <1>2, <1>3, <1>4

\* Every step keeps the invariant.
LEMMA StepKeeps ==
  ASSUME Inv, [Next]_suVars
  PROVE  Inv'
<1>1. CASE \E s \in Scopes, c \in BOOLEAN, b \in Budgets : All(s, c, b)
  BY <1>1, AllStep
<1>2. CASE WritePacket \/ WriteSurface \/ WriteBrief \/ Kill
  BY <1>2, WriteStep, WriteBriefStep, KillStep
<1>3. CASE \E last \in BOOLEAN : Stage(last)
  BY <1>3, StageStep
<1>4. CASE \/ \E s \in Scopes, b \in Budgets : Human(s, b)
           \/ \E s \in Scopes : Subartifact(s) \/ Render(s,
                 "draft review") \/ (s = "repo" /\ Render(s, "comment"))
           \/ \E b \in Budgets : CommentOnPullRequest(b)
  <2>1. "pr" \in Scopes /\ 0 \in Budgets
    BY DEF Scopes, Budgets
  <2> QED BY <1>4, <2>1, CommandStep
<1>5. CASE \E s \in Scopes, b \in Budgets : StartWalkthrough(s, b)
  BY <1>5, StartStep
<1>6. CASE \E d, c \in BOOLEAN : EndWalkthrough(d, c)
  BY <1>6, EndStep
<1>7. CASE SuppressComment \/ Edit \/ UNCHANGED suVars
  BY <1>7, OtherStep
<1> QED BY <1>1, <1>2, <1>3, <1>4, <1>5, <1>6, <1>7 DEF Next

-----------------------------------------------------------------------------
(* The theorems.                                                           *)

\* Type correctness and the invariant.
THEOREM Invariant == Spec => []Inv
<1>1. Init => Inv
  BY InitInv
<1>2. Inv /\ [Next]_suVars => Inv'
  BY StepKeeps
<1> QED BY <1>1, <1>2, PTL DEF Spec

\* What is shown or exported is of one directory, one packet and one head;
\* the provider is asked again for what it did not give; and no decision of a
\* reviewer is lost or filed under the rules of another surface.
THEOREM ShownAndKept == Spec => []SurfacesAgree
<1>1. Inv => SurfacesAgree
  BY Facts DEF SurfacesAgree, EnrichmentIsOfTheBrief, Enriched
<1> QED BY <1>1, Invariant, PTL

-----------------------------------------------------------------------------
(***************************************************************************)
(* The audit of the method: what a model's answers may add, whatever they  *)
(* cite, in whichever chunks they fail, and whichever are from the cache.  *)
(***************************************************************************)

\* A set of numbers that is not empty has a least one.
LEMMA LeastNumber ==
  ASSUME NEW S \in SUBSET Nat, S # {}
  PROVE  \E m \in S : \A n \in S : ~(n < m)
<1>1. IsWellFoundedOn(OpToRel(<, Nat), Nat)
  BY NatLessThanWellFounded
<1>2. PICK m \in S : \A n \in S : ~(<<n, m>> \in OpToRel(<, Nat))
  BY <1>1, WFMin, Zenon
<1>3. \A n \in S : ~(n < m)
  BY <1>2 DEF OpToRel
<1> QED BY <1>3

LEMMA LeastIsLeast ==
  ASSUME NEW S \in SUBSET Nat, S # {}
  PROVE  Least(S) \in S /\ \A n \in S : Least(S) <= n
<1>1. PICK m \in S : \A n \in S : ~(n < m)
  BY LeastNumber
<1>2. \A n \in S : m <= n
  BY <1>1
<1> QED BY <1>2, Zenon DEF Least


LEMMA ToldOfItem ==
  ASSUME NEW a, NEW kind \in ListKinds, NEW i \in ItemsOf(kind, a), NEW t \in Tokens(i)
  PROVE  Told(a, kind, i.text, t)
<1>1. \A list : FirstOf(list) \subseteq Elements(list)
  BY DEF FirstOf, Elements
<1>2. CASE kind = "unchallenged_assumption"
  BY <1>1, <1>2 DEF ItemsOf, Told
<1>3. CASE kind = "skipped_step"
  BY <1>1, <1>3 DEF ItemsOf, Told
<1>4. CASE kind \notin {"unchallenged_assumption", "skipped_step"}
  BY <1>1, <1>4 DEF ItemsOf, Told
<1> QED BY <1>2, <1>3, <1>4

-----------------------------------------------------------------------------
(* What is merged.                                                         *)

\* What is asked of a finding or candidate: its types, and that each of its anchors
\* was cited for it by an answer that was shown it.
Sound(c) ==
  /\ c.kind \in Elements(KindOrder) /\ c.text \in Nat /\ c.rank \in 1..3 /\ c.index \in Nat
  /\ c.evidence \cap c.invalid = {}
  /\ \A t \in c.evidence : \E o \in Elements(outputs) : Told(o.data, c.kind, c.text, t) /\ t \in Shown(o.ids)

\* The answers are of the kind that is assumed.
Given == outputs \in Seq([ids : SUBSET Nat, data : AuditAnswers, by : {run.setting}])

LEMMA AnswersTyped ==
  ASSUME Given
  PROVE  /\ Len(outputs) \in Nat /\ DOMAIN outputs = 1..Len(outputs)
         /\ \A n \in DOMAIN outputs : outputs[n].data \in AuditAnswers /\ outputs[n].by = run.setting
         /\ \A o \in Elements(outputs) : o.data \in AuditAnswers /\ o.by = run.setting
<1>1. Len(outputs) \in Nat /\ DOMAIN outputs = 1..Len(outputs)
  BY DEF Given
<1> DEFINE R == [ids : SUBSET Nat, data : AuditAnswers, by : {run.setting}]
<1>2. \A r \in R : r.data \in AuditAnswers /\ r.by = run.setting
  OBVIOUS
<1>3. outputs \in Seq(R)
  BY DEF Given
<1> HIDE DEF R
<1>4. \A n \in DOMAIN outputs : outputs[n] \in R
  BY <1>3
<1> QED BY <1>1, <1>2, <1>4 DEF Elements

LEMMA ItemTypes ==
  ASSUME NEW list, IsItems(list), NEW i \in Elements(list)
  PROVE  i.text \in Nat /\ i.events \in Seq(Nat)
BY DEF IsItems, Elements

LEMMA AnswerTypes ==
  ASSUME NEW a \in AuditAnswers
  PROVE  /\ \A i \in Elements(a.considered) \cup Elements(a.unchallenged) \cup Elements(a.skipped) \cup Elements(a.flags)
                \cup {a.verdict} : i.text \in Nat /\ i.events \in Seq(Nat)
         /\ a.soundness \in {"none", "sound", "questionable", "unsound"}
         /\ DOMAIN a.skipped \subseteq Nat
<1>1. /\ IsItems(a.considered) /\ IsItems(a.unchallenged) /\ IsItems(a.skipped) /\ IsItems(a.flags)
      /\ IsItems(<<a.verdict>>) /\ a.soundness \in {"none", "sound", "questionable", "unsound"}
  BY MethodologyAuditAssumption
<1>2. a.verdict \in Elements(<<a.verdict>>)
  BY DEF Elements
<1>3. DOMAIN a.skipped \subseteq Nat
  BY <1>1 DEF IsItems
<1> QED BY <1>1, <1>2, <1>3, ItemTypes

LEMMA IndexIsNumber ==
  ASSUME NEW item, item.events \in Seq(Nat)
  PROVE  FirstCitedRawIndex(item) \in Nat
<1> DEFINE at == {n \in DOMAIN item.events : item.events[n] \in Selected}
<1>1. CASE at = {}
  BY <1>1 DEF FirstCitedRawIndex, Unsaid
<1>2. CASE at # {}
  <2>1. at \in SUBSET Nat /\ \A n \in at : item.events[n] \in Nat
    OBVIOUS
  <2>2. FirstCitedRawIndex(item) = item.events[Least(at)]
    BY <1>2 DEF FirstCitedRawIndex
  <2> HIDE DEF at
  <2>3. Least(at) \in at
    BY <1>2, <2>1, LeastIsLeast
  <2> QED BY <2>1, <2>2, <2>3
<1> QED BY <1>1, <1>2

\* A candidate made of an item.
LEMMA CandidateIs ==
  ASSUME NEW kind, NEW rank, NEW item, NEW from, NEW ids
  PROVE  LET c == Candidate(kind, rank, item, from, ids)
         IN /\ c.kind = kind /\ c.text = item.text /\ c.rank = rank /\ c.index = FirstCitedRawIndex(from)
            /\ c.evidence = Tokens(from) \cap Shown(ids) /\ c.invalid = Tokens(from) \ Shown(ids)
BY DEF Candidate

LEMMA ListCandidates ==
  ASSUME Given, NEW c \in AllCandidates
  PROVE  /\ Sound(c) /\ c.kind \in ListKinds /\ c.rank = RankOf(c.kind)
<1>1. PICK k \in ListKinds, o \in Elements(outputs) : c \in Candidates(k, o)
  BY DEF AllCandidates
<1>2. PICK i \in ItemsOf(k, o.data) : c = Candidate(k, RankOf(k), i, i, o.ids)
  BY <1>1 DEF Candidates
<1>3. o.data \in AuditAnswers
  BY AnswersTyped
<1>4. i \in Elements(o.data.unchallenged) \cup Elements(o.data.skipped) \cup Elements(o.data.flags)
  BY DEF ItemsOf, FirstOf, Elements
<1>5. i.text \in Nat /\ i.events \in Seq(Nat)
  BY <1>3, <1>4, AnswerTypes
<1>6. /\ c.kind = k /\ c.text = i.text /\ c.rank = RankOf(k) /\ c.index = FirstCitedRawIndex(i)
      /\ c.evidence = Tokens(i) \cap Shown(o.ids) /\ c.invalid = Tokens(i) \ Shown(o.ids)
  BY <1>2, CandidateIs
<1>7. k \in Elements(KindOrder)
  BY DEF ListKinds, Signals, Elements, KindOrder
<1>8. RankOf(k) \in 1..3
  BY DEF RankOf
<1>9. \A t \in c.evidence : Told(o.data, k, i.text, t) /\ t \in Shown(o.ids)
  BY <1>6, ToldOfItem
<1>10. c.index \in Nat
  BY <1>5, <1>6, IndexIsNumber
<1> QED BY <1>5, <1>6, <1>7, <1>8, <1>9, <1>10 DEF Sound

\* The same claim made twice.
LEMMA JoinedIsSound ==
  ASSUME Given, NEW c \in AllCandidates
  PROVE  /\ Sound(Joined(c)) /\ Joined(c).kind = c.kind /\ Joined(c).rank = c.rank
<1> DEFINE same == Duplicates(c)
           evidence == AnchorsOf(c)
           invalid == RefusedOf(c) \ evidence
           indexes == {x.index : x \in same}
<1>1. Joined(c) = [kind |-> c.kind, text |-> c.text, rank |-> c.rank, evidence |-> evidence,
                   invalid |-> invalid, index |-> Least(indexes)]
  BY DEF Joined
<1>2. \A x \in same : Sound(x) /\ x.kind = c.kind /\ x.text = c.text
  BY ListCandidates DEF Duplicates
<1>3. Sound(c) /\ c \in same
  BY ListCandidates DEF Duplicates
<1>4. Least(indexes) \in Nat
  <2>1. indexes \in SUBSET Nat /\ indexes # {}
    BY <1>2, <1>3 DEF Sound
  <2> HIDE DEF indexes
  <2> QED BY <2>1, LeastIsLeast
<1>5. evidence \cap invalid = {}
  OBVIOUS
<1>6. \A t \in evidence : \E o \in Elements(outputs) : Told(o.data, c.kind, c.text, t) /\ t \in Shown(o.ids)
  <2>1. SUFFICES ASSUME NEW t \in evidence
                 PROVE  \E o \in Elements(outputs) : Told(o.data, c.kind, c.text, t) /\ t \in Shown(o.ids)
    OBVIOUS
  <2>2. PICK x \in same : t \in x.evidence
    BY DEF AnchorsOf
  <2> HIDE DEF same
  <2> QED BY <1>2, <2>2 DEF Sound
<1> HIDE DEF evidence, invalid, indexes, same
<1>7. /\ Joined(c).kind = c.kind /\ Joined(c).text = c.text /\ Joined(c).rank = c.rank
      /\ Joined(c).evidence = evidence /\ Joined(c).invalid = invalid /\ Joined(c).index = Least(indexes)
  BY <1>1
<1> QED BY <1>3, <1>4, <1>5, <1>6, <1>7 DEF Sound

-----------------------------------------------------------------------------
(* The one verdict.                                                        *)

LEMMA VerdictIsSound ==
  ASSUME Given, NEW o \in Elements(outputs), o.data.soundness \in {"questionable", "unsound"}
  PROVE  /\ Sound(VerdictOf(o)) /\ VerdictOf(o).kind = "workflow_soundness" /\ VerdictOf(o).rank \in {2, 3}
         /\ o.data.soundness = "unsound" => VerdictOf(o).rank = 3
<1> DEFINE a == o.data
           steps == {n \in DOMAIN a.skipped : a.skipped[n].anchored}
           from == IF a.verdict.anchored \/ steps = {} THEN a.verdict ELSE a.skipped[Least(steps)]
           rank == IF a.soundness = "unsound" THEN 3 ELSE 2
<1>1. a \in AuditAnswers
  BY AnswersTyped
<1>2. VerdictOf(o) = Candidate("workflow_soundness", rank, a.verdict, from, o.ids)
  BY Zenon DEF VerdictOf
<1>3. from \in {a.verdict} \cup Elements(a.skipped)
  <2>1. steps \in SUBSET Nat
    BY <1>1, AnswerTypes
  <2>2. steps # {} => Least(steps) \in steps
    <3> HIDE DEF steps
    <3> QED BY <2>1, LeastIsLeast
  <2> QED BY <2>2 DEF Elements
<1>4. from.events \in Seq(Nat) /\ a.verdict.text \in Nat
  BY <1>1, <1>3, AnswerTypes
<1>5. \A t \in Tokens(from) : Told(o.data, "workflow_soundness", a.verdict.text, t)
  <2> HIDE DEF from
  <2> QED BY <1>3 DEF Told
<1> HIDE DEF from
<1>6. /\ VerdictOf(o).kind = "workflow_soundness" /\ VerdictOf(o).text = a.verdict.text
      /\ VerdictOf(o).rank = rank /\ VerdictOf(o).index = FirstCitedRawIndex(from)
      /\ VerdictOf(o).evidence = Tokens(from) \cap Shown(o.ids)
      /\ VerdictOf(o).invalid = Tokens(from) \ Shown(o.ids)
  BY <1>2, CandidateIs
<1>7. "workflow_soundness" \in Elements(KindOrder)
  BY DEF Elements, KindOrder
<1>8. VerdictOf(o).index \in Nat
  BY <1>4, <1>6, IndexIsNumber
<1>9. \A t \in VerdictOf(o).evidence : Told(o.data, "workflow_soundness", a.verdict.text, t) /\ t \in Shown(o.ids)
  BY <1>5, <1>6
<1> QED BY <1>4, <1>6, <1>7, <1>8, <1>9 DEF Sound

\* A verdict on the run: sound, and of the worse of the two.
IsVerdict(v) == Sound(v) /\ v.kind = "workflow_soundness" /\ v.rank \in {2, 3}

LEMMA MergeIsSound ==
  ASSUME NEW a, IsVerdict(a), NEW b, IsVerdict(b)
  PROVE  IsVerdict(MergeFinding(a, b)) /\ (a.rank = 3 \/ b.rank = 3 => MergeFinding(a, b).rank = 3)
<1> DEFINE worst == IF b.rank > a.rank \/ (b.rank = a.rank /\ b.evidence # {} /\ a.evidence = {}) THEN b ELSE a
           evidence == a.evidence \cup b.evidence
           invalid == (a.invalid \cup b.invalid) \ evidence
           index == Least({a.index, b.index})
           m == [kind |-> worst.kind, text |-> worst.text, rank |-> worst.rank, evidence |-> evidence,
                 invalid |-> invalid, index |-> index]
<1>1. MergeFinding(a, b) = IF a.text # b.text THEN worst ELSE m
  BY Zenon DEF MergeFinding
<1>2. worst \in {a, b} /\ IsVerdict(worst) /\ (a.rank = 3 \/ b.rank = 3 => worst.rank = 3)
  BY DEF IsVerdict
<1>3. CASE a.text # b.text
  BY <1>1, <1>2, <1>3
<1>4. CASE a.text = b.text
  <2>1. index \in Nat
    <3>1. {a.index, b.index} \in SUBSET Nat /\ {a.index, b.index} # {}
      BY DEF IsVerdict, Sound
    <3> QED BY <3>1, LeastIsLeast
  <2>2. \A t \in evidence : \E o \in Elements(outputs) : Told(o.data, worst.kind, worst.text, t) /\ t \in Shown(o.ids)
    <3>1. worst.kind = a.kind /\ a.kind = b.kind /\ worst.text = a.text
      BY <1>2, <1>4 DEF IsVerdict
    <3> HIDE DEF worst
    <3> QED BY <1>4, <3>1 DEF IsVerdict, Sound
  <2>3. evidence \cap invalid = {}
    OBVIOUS
  <2> HIDE DEF worst, evidence, invalid, index
  <2>4. IsVerdict(m)
    BY <1>2, <2>1, <2>2, <2>3 DEF IsVerdict, Sound
  <2>5. m.rank = worst.rank
    OBVIOUS
  <2> HIDE DEF m
  <2> QED BY <1>1, <1>2, <1>4, <2>4, <2>5
<1> QED BY <1>3, <1>4

\* The verdicts after the first n chunks.
Judged(f, n) == f = [k \in 0..n |-> IF k = 0 THEN NoVerdict ELSE Judge(f[k - 1], outputs[k])]

\* The chunks are judged one after the other, however many there are.
LEMMA JudgingExists ==
  ASSUME NEW n \in Nat
  PROVE  \E f : Judged(f, n)
<1> DEFINE Bad == {m \in Nat : ~\E f : Judged(f, m)}
<1>1. SUFFICES ASSUME Bad # {}  PROVE FALSE
  OBVIOUS
<1>2. PICK m \in Bad : \A k \in Bad : ~(k < m)
  <2>1. Bad \in SUBSET Nat
    OBVIOUS
  <2> HIDE DEF Bad
  <2> QED BY <1>1, <2>1, LeastNumber
<1>3. CASE m = 0
  <2> DEFINE f == [k \in 0..0 |-> NoVerdict]
  <2>1. Judged(f, 0)
    BY DEF Judged
  <2> QED BY <1>2, <1>3, <2>1
<1>4. CASE m # 0
  <2>1. m \in Nat \ {0} /\ m - 1 \in Nat /\ m - 1 < m
    BY <1>2, <1>4
  <2>2. PICK f : Judged(f, m - 1)
    BY <1>2, <2>1
  <2> DEFINE g == [k \in 0..m |-> IF k = m THEN Judge(f[m - 1], outputs[m]) ELSE f[k]]
             h == [k \in 0..m |-> IF k = 0 THEN NoVerdict ELSE Judge(g[k - 1], outputs[k])]
  <2>3. \A k \in 0..(m - 1) : f[k] = IF k = 0 THEN NoVerdict ELSE Judge(f[k - 1], outputs[k])
    BY <2>2 DEF Judged
  <2>4. \A k \in 0..m : k # m => k \in 0..(m - 1) /\ (k # 0 => k - 1 \in 0..m /\ k - 1 # m)
    BY <2>1
  <2>5. \A k \in 0..m : k # m => g[k] = f[k]
    OBVIOUS
  <2>6. g[m] = Judge(f[m - 1], outputs[m]) /\ g[m - 1] = f[m - 1]
    BY <2>1
  <2> HIDE DEF g
  <2>7. \A k \in 0..m : h[k] = g[k]
    <3>1. SUFFICES ASSUME NEW k \in 0..m  PROVE h[k] = g[k]
      OBVIOUS
    <3>2. CASE k = m
      BY <2>1, <2>6, <3>2
    <3>3. CASE k # m
      BY <2>3, <2>4, <2>5, <3>3
    <3> QED BY <3>2, <3>3
  <2>8. g = h
    BY <2>7 DEF g
  <2>9. Judged(g, m)
    BY <2>8 DEF Judged
  <2> QED BY <1>2, <2>9
<1> QED BY <1>3, <1>4

\* What the verdict after k chunks says of them.
Follows(v, k) ==
  /\ v = NoVerdict \/ IsVerdict(v)
  /\ \A j \in 1..k : outputs[j].data.soundness \in {"questionable", "unsound"} => IsVerdict(v)
  /\ \A j \in 1..k : outputs[j].data.soundness = "unsound" => v.rank = 3

LEMMA JudgeFollows ==
  ASSUME Given, NEW k \in DOMAIN outputs, NEW v, Follows(v, k - 1)
  PROVE  Follows(Judge(v, outputs[k]), k)
<1> DEFINE o == outputs[k]
           w == VerdictOf(o)
<1>1. o \in Elements(outputs)
  BY DEF Elements
<1>2. k \in Nat \ {0} /\ \A j \in 1..k : j \in 1..(k - 1) \/ j = k
  BY AnswersTyped
<1>3. CASE o.data.soundness \notin {"questionable", "unsound"}
  <2>1. Judge(v, o) = v
    BY <1>3 DEF Judge
  <2> QED BY <1>2, <1>3, <2>1 DEF Follows
<1>4. CASE o.data.soundness \in {"questionable", "unsound"}
  <2>1. IsVerdict(w) /\ (o.data.soundness = "unsound" => w.rank = 3)
    BY <1>1, <1>4, VerdictIsSound DEF IsVerdict
  <2> HIDE DEF w
  <2>2. CASE v = NoVerdict
    <3>1. Judge(v, o) = w
      BY <1>4, <2>2 DEF Judge, w
    <3>2. ~IsVerdict(v)
      BY <2>2 DEF IsVerdict, NoVerdict
    <3>3. \A j \in 1..(k - 1) : outputs[j].data.soundness \notin {"questionable", "unsound"}
      BY <3>2 DEF Follows
    <3> QED BY <1>2, <2>1, <3>1, <3>3 DEF Follows
  <2>3. CASE v # NoVerdict
    <3>1. Judge(v, o) = MergeFinding(v, w)
      BY <1>4, <2>3 DEF Judge, w
    <3>2. IsVerdict(v)
      BY <2>3 DEF Follows
    <3>3. IsVerdict(MergeFinding(v, w)) /\ (v.rank = 3 \/ w.rank = 3 => MergeFinding(v, w).rank = 3)
      BY <2>1, <3>2, MergeIsSound
    <3> QED BY <1>2, <2>1, <3>1, <3>3 DEF Follows
  <2> QED BY <2>2, <2>3
<1> QED BY <1>3, <1>4

LEMMA VerdictFollows ==
  ASSUME Given
  PROVE  Follows(Verdict, Len(outputs))
<1> DEFINE f == CHOOSE g : Judged(g, Len(outputs))
           Bad == {k \in 0..Len(outputs) : ~Follows(f[k], k)}
<1>1. Len(outputs) \in Nat /\ DOMAIN outputs = 1..Len(outputs)
  BY AnswersTyped
<1>2. Judged(f, Len(outputs))
  BY <1>1, JudgingExists
<1>3. Verdict = f[Len(outputs)]
  BY DEF Verdict, Judged
<1> HIDE DEF f
<1>4. \A k \in 0..Len(outputs) : f[k] = IF k = 0 THEN NoVerdict ELSE Judge(f[k - 1], outputs[k])
  BY <1>2 DEF Judged
<1>5. Bad = {}
  <2>1. SUFFICES ASSUME Bad # {}  PROVE FALSE
    OBVIOUS
  <2>2. PICK m \in Bad : \A k \in Bad : ~(k < m)
    <3>1. Bad \in SUBSET Nat
      OBVIOUS
    <3> HIDE DEF Bad
    <3> QED BY <2>1, <3>1, LeastNumber
  <2>3. CASE m = 0
    <3>1. f[m] = NoVerdict
      BY <1>4, <2>3
    <3>2. Follows(f[m], m)
      BY <2>3, <3>1 DEF Follows
    <3> QED BY <2>2, <3>2
  <2>4. CASE m # 0
    <3>1. m - 1 \in 0..Len(outputs) /\ m - 1 < m /\ m \in DOMAIN outputs
      BY <1>1, <2>2, <2>4
    <3>2. Follows(f[m - 1], m - 1)
      BY <2>2, <3>1
    <3>3. f[m] = Judge(f[m - 1], outputs[m])
      BY <1>4, <2>2, <2>4
    <3>4. Follows(f[m], m)
      BY <3>1, <3>2, <3>3, JudgeFollows
    <3> QED BY <2>2, <3>4
  <2> QED BY <2>3, <2>4
<1> QED BY <1>1, <1>3, <1>5

-----------------------------------------------------------------------------
(* The findings.                                                           *)

LEMMA MergedIsSound ==
  ASSUME Given, NEW c \in MergedFindings
  PROVE  Sound(c) /\ (c.rank = 3 => c = Verdict)
<1>1. CASE c \in {Joined(x) : x \in AllCandidates}
  <2>1. PICK x \in AllCandidates : c = Joined(x)
    BY <1>1
  <2>2. Sound(c) /\ c.rank = RankOf(x.kind)
    BY <2>1, JoinedIsSound, ListCandidates
  <2>3. RankOf(x.kind) # 3
    BY DEF RankOf
  <2> QED BY <2>2, <2>3
<1>2. CASE c \in {Verdict} \ {NoVerdict}
  <2>1. Follows(c, Len(outputs)) /\ c # NoVerdict /\ c = Verdict
    BY <1>2, VerdictFollows
  <2> QED BY <2>1 DEF Follows, IsVerdict
<1> QED BY <1>1, <1>2 DEF MergedFindings

LEMMA KindIsPlaced ==
  ASSUME NEW c, c.kind \in Elements(KindOrder)
  PROVE  KindAt(c) \in Nat
<1>1. PICK n \in DOMAIN KindOrder : KindOrder[n] = c.kind
  BY DEF Elements
<1>2. DOMAIN KindOrder \subseteq Nat
  BY DEF KindOrder
<1> QED BY <1>1, <1>2 DEF KindAt

\* Something is the first of what is merged.
LEMMA FirstIsFirst ==
  ASSUME NEW M, \A c \in M : Sound(c), M # {}
  PROVE  \E c \in M : \A y \in M : ~Before(y, c)
<1>1. \A c \in M : c.rank \in 1..3 /\ c.index \in Nat /\ KindAt(c) \in Nat /\ c.text \in Nat
  BY KindIsPlaced DEF Sound
<1>2. PICK a \in M : \A y \in M : ~(y.rank > a.rank)
  <2> DEFINE S == {3 - c.rank : c \in M}
  <2>1. S \in SUBSET Nat /\ S # {}
    BY <1>1
  <2> HIDE DEF S
  <2>2. PICK m \in S : \A n \in S : ~(n < m)
    BY <2>1, LeastNumber
  <2>3. PICK c \in M : m = 3 - c.rank
    BY DEF S
  <2>4. \A y \in M : ~(3 - y.rank < 3 - c.rank)
    BY <2>2, <2>3 DEF S
  <2>5. \A y \in M : ~(y.rank > c.rank)
    BY <1>1, <2>4
  <2> QED BY <2>5
<1> DEFINE A == {c \in M : c.rank = a.rank}
<1>3. PICK b \in A : \A y \in A : ~(y.index < b.index)
  <2> DEFINE S == {c.index : c \in A}
  <2>1. S \in SUBSET Nat /\ S # {}
    BY <1>1
  <2> HIDE DEF S
  <2>2. PICK m \in S : \A n \in S : ~(n < m)
    BY <2>1, LeastNumber
  <2> QED BY <2>2 DEF S
<1> DEFINE B == {c \in A : c.index = b.index}
<1>4. PICK d \in B : \A y \in B : ~(KindAt(y) < KindAt(d))
  <2> DEFINE S == {KindAt(c) : c \in B}
  <2>1. S \in SUBSET Nat /\ S # {}
    BY <1>1
  <2> HIDE DEF S
  <2>2. PICK m \in S : \A n \in S : ~(n < m)
    BY <2>1, LeastNumber
  <2> QED BY <2>2 DEF S
<1> DEFINE D == {c \in B : KindAt(c) = KindAt(d)}
<1>5. PICK e \in D : \A y \in D : ~(y.text < e.text)
  <2> DEFINE S == {c.text : c \in D}
  <2>1. S \in SUBSET Nat /\ S # {}
    BY <1>1
  <2> HIDE DEF S
  <2>2. PICK m \in S : \A n \in S : ~(n < m)
    BY <2>1, LeastNumber
  <2> QED BY <2>2 DEF S
<1>6. e \in M /\ e.rank = a.rank /\ e.index = b.index /\ KindAt(e) = KindAt(d)
  OBVIOUS
<1>7. ASSUME NEW y \in M, Before(y, e)  PROVE FALSE
  <2>1. ~(y.rank > e.rank)
    BY <1>2, <1>6
  <2>2. y.rank = e.rank => y \in A /\ ~(y.index < e.index)
    BY <1>3, <1>6
  <2>3. y.rank = e.rank /\ y.index = e.index => y \in B /\ ~(KindAt(y) < KindAt(e))
    BY <1>4, <1>6
  <2>4. y.rank = e.rank /\ y.index = e.index /\ KindAt(y) = KindAt(e) => ~(y.text < e.text)
    BY <1>5, <1>6
  <2> QED BY <1>7, <2>1, <2>2, <2>3, <2>4 DEF Before
<1> QED BY <1>6, <1>7

\* The first is among the findings.
LEMMA FirstIsFound ==
  ASSUME NEW c \in MergedFindings, \A y \in MergedFindings : ~Before(y, c)
  PROVE  Finding(c) \in Findings
<1>1. {y \in MergedFindings : Before(y, c)} = {}
  OBVIOUS
<1>2. FindingCap \in Nat \ {0}
  BY MethodologyAuditAssumption
<1>3. Cardinality({y \in MergedFindings : Before(y, c)}) = 0
  BY <1>1, FS_EmptySet, Zenon
<1>4. Cardinality({y \in MergedFindings : Before(y, c)}) < FindingCap
  BY <1>2, <1>3
<1> QED BY <1>4 DEF Findings

LEMMA FindingIs ==
  ASSUME NEW f \in Findings
  PROVE  \E c \in MergedFindings :
           /\ f.kind = c.kind /\ f.text = c.text /\ f.severity = c.rank /\ f.evidence = c.evidence
           /\ f.unverified = c.invalid
           /\ f.note = (FindingHasPostChangeTest(c) /\ AssertsMissingValidation(c))
<1>1. PICK c \in MergedFindings : f = Finding(c)
  BY DEF Findings
<1> QED BY <1>1 DEF Finding

\* The findings and the flag of what was merged.
LEMMA WorstIsFound ==
  ASSUME Given, NEW o \in Elements(outputs), o.data.soundness = "unsound"
  PROVE  \E f \in Findings : f.kind = "workflow_soundness" /\ f.severity = 3
<1>1. PICK n \in DOMAIN outputs : o = outputs[n]
  BY DEF Elements
<1>2. n \in 1..Len(outputs)
  BY AnswersTyped
<1>3. IsVerdict(Verdict) /\ Verdict.rank = 3
  BY <1>1, <1>2, VerdictFollows DEF Follows
<1>4. Verdict # NoVerdict
  BY <1>3 DEF NoVerdict
<1>5. Verdict \in MergedFindings
  BY <1>4 DEF MergedFindings
<1>6. ASSUME NEW y \in MergedFindings, Before(y, Verdict)  PROVE FALSE
  <2>1. Sound(y) /\ (y.rank = 3 => y = Verdict)
    BY MergedIsSound
  <2>2. y.rank \in 1..3 /\ Verdict.index \in Nat /\ Verdict.text \in Nat /\ KindAt(Verdict) \in Nat
    BY <1>3, <2>1, KindIsPlaced DEF Sound, IsVerdict
  <2>3. y.rank = 3
    BY <1>3, <1>6, <2>2 DEF Before
  <2>4. Before(Verdict, Verdict)
    BY <1>6, <2>1, <2>3
  <2> QED BY <1>3, <2>2, <2>4 DEF Before
<1>7. Finding(Verdict) \in Findings
  BY <1>5, <1>6, FirstIsFound
<1>8. Finding(Verdict).kind = "workflow_soundness" /\ Finding(Verdict).severity = 3
  BY <1>3 DEF Finding, IsVerdict
<1> QED BY <1>7, <1>8

LEMMA SomethingIsFound ==
  ASSUME Given, NEW o \in Elements(outputs), o.data.soundness \in {"questionable", "unsound"}
  PROVE  Findings # {}
<1>1. PICK n \in DOMAIN outputs : o = outputs[n]
  BY DEF Elements
<1>2. n \in 1..Len(outputs)
  BY AnswersTyped
<1>3. IsVerdict(Verdict)
  BY <1>1, <1>2, VerdictFollows DEF Follows
<1>4. Verdict # NoVerdict
  BY <1>3 DEF NoVerdict, IsVerdict
<1>5. Verdict \in MergedFindings
  BY <1>4 DEF MergedFindings
<1>6. PICK c \in MergedFindings : \A y \in MergedFindings : ~Before(y, c)
  BY <1>5, MergedIsSound, FirstIsFirst
<1> QED BY <1>6, FirstIsFound

-----------------------------------------------------------------------------
(* Events and their order.                                                 *)

LEMMA LatestIsLatest ==
  ASSUME NEW n \in Nat, NEW S \in SUBSET (1..n), S # {}
  PROVE  Latest(S) \in S /\ \A m \in S : m <= Latest(S)
<1> DEFINE T == {n - k : k \in S}
<1>1. T \in SUBSET Nat /\ T # {}
  <2>1. \A k \in S : n - k \in Nat
    OBVIOUS
  <2> QED BY <2>1
<1>2. PICK t \in T : \A k \in T : ~(k < t)
  <2> HIDE DEF T
  <2> QED BY <1>1, LeastNumber
<1>3. PICK l \in S : t = n - l
  OBVIOUS
<1>4. \A m \in S : ~(n - m < n - l)
  BY <1>2, <1>3
<1>5. \A m \in S : m <= l
  BY <1>4
<1> QED BY <1>5, Zenon DEF Latest

\* The chunks are of the conversation.
Chunked == talk \in Conversations /\ (chunks = <<>> \/ chunks = SelectSalientEvents)

LEMMA TalkIs ==
  ASSUME talk \in Conversations
  PROVE  Len(talk) \in Nat /\ DOMAIN talk = 1..Len(talk)
BY MethodologyAuditAssumption

LEMMA Products ==
  ASSUME NEW a \in Int, NEW b \in Int, NEW n \in Nat, a <= b
  PROVE  a * n \in Int /\ b * n \in Int /\ a * n <= b * n
<1>1. a * n \in Int /\ b * n \in Int /\ (b - a) * n \in Int /\ b * n = a * n + (b - a) * n
  OBVIOUS
<1>2. (b - a) \in Nat
  OBVIOUS
<1>3. \A m \in Nat : m * n >= 0
  OBVIOUS
<1> QED BY <1>1, <1>2, <1>3

\* An event is in one chunk at most.
LEMMA OneChunk ==
  ASSUME NEW k \in Nat, NEW l \in Nat, k < l, NEW place \in Nat,
         place < k * ChunkSize, (l - 1) * ChunkSize <= place
  PROVE  FALSE
<1>1. ChunkSize \in Nat /\ k \in Int /\ l - 1 \in Int /\ k <= l - 1
  BY MethodologyAuditAssumption
<1>2. /\ k * ChunkSize \in Int /\ (l - 1) * ChunkSize \in Int
      /\ k * ChunkSize <= (l - 1) * ChunkSize
  BY <1>1, Products
<1> QED BY <1>2

LEMMA Quotients ==
  ASSUME NEW n \in Nat
  PROVE  (n + ChunkSize - 1) \div ChunkSize \in Nat
<1>1. ChunkSize \in Nat /\ ChunkSize > 0
  BY MethodologyAuditAssumption
<1> QED BY <1>1

LEMMA ChunksOfTalk ==
  ASSUME talk \in Conversations, NEW cs, cs = <<>> \/ cs = SelectSalientEvents
  PROVE  /\ Len(cs) \in Nat /\ DOMAIN cs = 1..Len(cs)
         /\ \A k \in DOMAIN cs : cs[k] \subseteq DOMAIN talk
         /\ \A k, l \in DOMAIN cs : k # l => cs[k] \cap cs[l] = {}
<1>1. CASE cs = <<>>
  BY <1>1
<1>2. CASE cs = SelectSalientEvents
  <2> DEFINE winners == Winners
             place == [i \in winners |-> Place(winners, i)]
             count == (Cardinality(winners) + ChunkSize - 1) \div ChunkSize
             c(k) == {i \in winners : (k - 1) * ChunkSize <= place[i] /\ place[i] < k * ChunkSize}
  <2>1. cs = [k \in 1..count |-> c(k)]
    BY <1>2, Zenon DEF SelectSalientEvents
  <2>2. winners \subseteq DOMAIN talk
    BY DEF Winners
  <2>3. IsFiniteSet(winners) /\ Cardinality(winners) \in Nat
    <3>1. Len(talk) \in Int /\ 1 \in Int /\ DOMAIN talk = 1..Len(talk)
      BY TalkIs
    <3>2. IsFiniteSet(1..Len(talk))
      BY <3>1, FS_Interval
    <3> HIDE DEF winners
    <3> QED BY <2>2, <3>1, <3>2, FS_Subset, FS_CardinalityType
  <2>4. count \in Nat
    BY <2>3, Quotients
  <2>5. \A i \in winners : place[i] \in Nat
    <3>1. SUFFICES ASSUME NEW i \in winners  PROVE Place(winners, i) \in Nat
      OBVIOUS
    <3> HIDE DEF winners
    <3> DEFINE lead == [j \in winners |-> Lead(winners, j)]
               before == {j \in winners : Ahead(lead[j], lead[i]) \/ (lead[j] = lead[i] /\ Ahead(j, i))}
    <3>2. Place(winners, i) = Cardinality(before)
      BY Zenon DEF Place
    <3>3. before \subseteq winners
      OBVIOUS
    <3> HIDE DEF before
    <3> QED BY <2>3, <3>2, <3>3, FS_Subset, FS_CardinalityType
  <2> HIDE DEF count, place, winners
  <2>6. Len(cs) = count /\ DOMAIN cs = 1..count /\ \A k \in 1..count : cs[k] = c(k)
    BY <2>1, <2>4
  <2>7. ASSUME NEW k \in 1..count, NEW l \in 1..count, k < l, NEW i \in c(k), i \in c(l)
        PROVE  FALSE
    <3>1. k \in Nat /\ l \in Nat /\ place[i] \in Nat
      BY <2>5
    <3>2. place[i] < k * ChunkSize /\ (l - 1) * ChunkSize <= place[i]
      BY <2>7
    <3> QED BY <2>7, <3>1, <3>2, OneChunk
  <2>8. ASSUME NEW k \in 1..count, NEW l \in 1..count, k # l, NEW i \in c(k), i \in c(l)
        PROVE  FALSE
    <3>1. k < l \/ l < k
      BY <2>8
    <3> HIDE DEF c
    <3> QED BY <2>7, <2>8, <3>1
  <2>9. \A k \in 1..count : c(k) \subseteq DOMAIN talk
    BY <2>2
  <2> HIDE DEF c
  <2>10. \A k, l \in 1..count : k # l => c(k) \cap c(l) = {}
    BY <2>8
  <2> QED BY <2>4, <2>6, <2>9, <2>10
<1> QED BY <1>1, <1>2

LEMMA ChunksAre ==
  ASSUME Chunked
  PROVE  /\ Len(chunks) \in Nat /\ DOMAIN chunks = 1..Len(chunks)
         /\ \A k \in DOMAIN chunks : chunks[k] \subseteq DOMAIN talk
         /\ \A k, l \in DOMAIN chunks : k # l => chunks[k] \cap chunks[l] = {}
BY ChunksOfTalk DEF Chunked

LEMMA SelectedIsTalked ==
  ASSUME Chunked
  PROVE  Selected \subseteq DOMAIN talk
BY ChunksAre DEF Selected

\* The answers were each to a chunk of their own.
Apart ==
  /\ \A n \in DOMAIN outputs : \E k \in DOMAIN chunks : outputs[n].ids = chunks[k]
  /\ \A n, m \in DOMAIN outputs : n # m => outputs[n].ids \cap outputs[m].ids = {}

\* As many events were read as there are only if each was.
LEMMA AllWereRead ==
  ASSUME Chunked, Given, Apart, ~(Cardinality(Read) < Len(talk))
  PROVE  \A i \in DOMAIN talk : \E o \in Elements(outputs) : i \in o.ids
<1> DEFINE all == DOMAIN talk
           events == {i \in all : \E n \in DOMAIN outputs : i \in outputs[n].ids}
           at(i) == CHOOSE p \in Read : p[2] = i
           f == [i \in events |-> at(i)]
<1>1. Len(talk) \in Nat /\ all = 1..Len(talk)
  BY TalkIs DEF Chunked
<1>2. IsFiniteSet(all) /\ Cardinality(all) = Len(talk)
  <2>1. 1 \in Int /\ Len(talk) \in Int
    BY <1>1
  <2>2. IsFiniteSet(1..Len(talk)) /\ Cardinality(1..Len(talk)) = IF 1 > Len(talk) THEN 0 ELSE Len(talk) - 1 + 1
    BY <2>1, FS_Interval
  <2> QED BY <1>1, <2>2
<1>3. f \in Bijection(events, Read)
  <2>1. \A p \in Read : p = <<p[1], p[2]>> /\ p[1] \in DOMAIN outputs /\ p[2] \in all /\ p[2] \in outputs[p[1]].ids
    BY DEF Read
  <2>2. \A i \in events : \E p \in Read : p[2] = i
    <3>1. SUFFICES ASSUME NEW i \in events  PROVE \E p \in Read : p[2] = i
      OBVIOUS
    <3>2. PICK n \in DOMAIN outputs : i \in outputs[n].ids
      OBVIOUS
    <3>3. <<n, i>> \in Read
      BY <3>2 DEF Read
    <3> QED BY <3>3
  <2>3. \A i \in events : at(i) \in Read /\ at(i)[2] = i
    BY <2>2
  <2>4. \A p, q \in Read : p[2] = q[2] => p = q
    <3>1. SUFFICES ASSUME NEW p \in Read, NEW q \in Read, p[2] = q[2]  PROVE p = q
      OBVIOUS
    <3>2. p[1] = q[1]
      BY <2>1, <3>1 DEF Apart
    <3> QED BY <2>1, <3>1, <3>2
  <2>5. \A p \in Read : p[2] \in events
    BY <2>1
  <2> HIDE DEF events, at
  <2>6. \A p \in Read : f[p[2]] = p
    BY <2>3, <2>4, <2>5
  <2>7. \A i \in events : f[i] \in Read /\ f[i][2] = i
    BY <2>3
  <2>8. \A i, j \in events : f[i] = f[j] => i = j
    <3> HIDE DEF f
    <3> QED BY <2>7
  <2> QED BY <2>5, <2>6, <2>7, <2>8 DEF Bijection, Injection, Surjection, IsInjective
<1>4. events \subseteq all
  OBVIOUS
<1> HIDE DEF events, all, f
<1>5. IsFiniteSet(events) /\ Cardinality(events) \in Nat /\ Cardinality(events) <= Cardinality(all)
  BY <1>2, <1>4, FS_Subset, FS_CardinalityType
<1>6. Cardinality(Read) = Cardinality(events)
  <2>1. ExistsBijection(events, Read)
    BY <1>3 DEF ExistsBijection
  <2> QED BY <1>5, <2>1, FS_Bijection
<1>7. events = all
  <2>1. Cardinality(events) = Cardinality(all)
    BY <1>1, <1>2, <1>5, <1>6
  <2> QED BY <1>2, <1>4, <2>1, FS_Subset
<1> QED BY <1>7 DEF events, all, Elements

\* A note is given exactly when a test ran after the edits.
LEMMA NoteIsOrdered ==
  ASSUME Chunked, NEW c
  PROVE  FindingHasPostChangeTest(c) <=> TestedAfter(c.evidence)
<1> DEFINE tests == TestCalls(Selected)
           changes(x) == EditCalls(Selected, x)
           edited == {x \in ChangedFiles : changes(x) # {}}
           cited == {x \in ChangedFiles : <<"path", x>> \in c.evidence}
           about == IF cited # {} THEN cited ELSE edited
           later(t) == \A x \in about : changes(x) # {} /\ \A e \in changes(x) : e < t
           last == \A x \in about : x \in edited /\ Latest(tests) > Latest(changes(x))
<1>1. FindingHasPostChangeTest(c) <=> tests # {} /\ cited \cup edited # {} /\ last
  BY Zenon DEF FindingHasPostChangeTest
<1>2. TestedAfter(c.evidence) <=> about # {} /\ \E t \in tests : later(t)
  BY Zenon DEF TestedAfter
<1>3. Len(talk) \in Nat /\ Selected \subseteq 1..Len(talk)
  BY TalkIs, SelectedIsTalked DEF Chunked
<1>4. tests \in SUBSET (1..Len(talk)) /\ \A x : changes(x) \in SUBSET (1..Len(talk))
  BY <1>3 DEF TestCalls, EditCalls
<1>5. about # {} <=> cited \cup edited # {}
  OBVIOUS
<1>6. about \subseteq ChangedFiles /\ \A x \in ChangedFiles : x \in edited <=> changes(x) # {}
  OBVIOUS
<1>7. \A n \in 1..Len(talk) : n \in Nat
  BY <1>3
<1> HIDE DEF tests, changes, about, edited, cited
<1>8. ASSUME tests # {}  PROVE Latest(tests) \in tests /\ \A t \in tests : t <= Latest(tests)
  BY <1>3, <1>4, <1>8, LatestIsLatest
<1>9. ASSUME NEW x, changes(x) # {}
      PROVE  Latest(changes(x)) \in changes(x) /\ \A e \in changes(x) : e <= Latest(changes(x))
  BY <1>3, <1>4, <1>9, LatestIsLatest
<1>10. ASSUME tests # {}, last  PROVE later(Latest(tests))
  <2>1. SUFFICES ASSUME NEW x \in about, changes(x) # {}, NEW e \in changes(x)  PROVE e < Latest(tests)
    BY <1>6, <1>10
  <2>2. Latest(changes(x)) \in changes(x) /\ e <= Latest(changes(x)) /\ Latest(tests) \in tests
    BY <1>8, <1>9, <1>10, <2>1
  <2>3. e \in Nat /\ Latest(changes(x)) \in Nat /\ Latest(tests) \in Nat
    BY <1>4, <1>7, <2>2
  <2>4. Latest(tests) > Latest(changes(x))
    BY <1>10
  <2> QED BY <2>2, <2>3, <2>4
<1>11. ASSUME NEW t \in tests, later(t)  PROVE last
  <2>1. SUFFICES ASSUME NEW x \in about  PROVE Latest(tests) > Latest(changes(x))
    BY <1>6, <1>11
  <2>2. /\ Latest(changes(x)) \in changes(x) /\ Latest(changes(x)) < t
        /\ Latest(tests) \in tests /\ t <= Latest(tests)
    BY <1>8, <1>9, <1>11
  <2>3. t \in Nat /\ Latest(changes(x)) \in Nat /\ Latest(tests) \in Nat
    BY <1>4, <1>7, <2>2
  <2> QED BY <2>2, <2>3
<1> HIDE DEF later, last
<1> QED BY <1>1, <1>2, <1>5, <1>8, <1>10, <1>11

LEMMA SameTests ==
  ASSUME UNCHANGED <<talk, chunks>>
  PROVE  \A evidence : TestedAfter(evidence)' = TestedAfter(evidence)
<1>1. Selected' = Selected
  BY DEF Selected
<1>2. TestCalls(Selected)' = TestCalls(Selected) /\ \A f : EditCalls(Selected, f)' = EditCalls(Selected, f)
  BY <1>1 DEF TestCalls, EditCalls
<1> QED BY <1>2, Zenon DEF TestedAfter

\* What is said of a gap.
LEMMA GapIsConfirmed ==
  ASSUME Chunked, NEW item
  PROVE  /\ Gap(item).unverified # {} => Gap(item).evidence = {}
         /\ Gap(item).how \in {"unit", "integration"} =>
              \E t \in Gap(item).evidence :
                /\ talk[t].test /\ talk[t].passed
                /\ \A f \in ChangedFiles : \A e \in EditCalls(Gap(item).evidence, f) : e < t
<1> DEFINE cited == Elements(item.events)
           grounded == cited # {} /\ cited \subseteq Selected /\ \E i \in cited : talk[i].names # {}
           changes == UNION {EditCalls(cited, f) : f \in ChangedFiles}
<1>1. /\ Gap(item).evidence = IF grounded THEN cited ELSE {}
      /\ Gap(item).unverified = cited \ Selected
      /\ Gap(item).how \in {"unit", "integration"} => grounded /\ CitesPassedTest(cited)
  BY DEF Gap
<1>2. Gap(item).unverified # {} => Gap(item).evidence = {}
  <2> HIDE DEF cited
  <2> QED BY <1>1
<1>3. ASSUME Gap(item).how \in {"unit", "integration"}
      PROVE  \E t \in Gap(item).evidence :
               /\ talk[t].test /\ talk[t].passed
               /\ \A f \in ChangedFiles : \A e \in EditCalls(Gap(item).evidence, f) : e < t
  <2>1. Gap(item).evidence = cited /\ cited \subseteq Selected
    BY <1>1, <1>3
  <2>2. changes # {} /\ \E t \in TestCalls(cited) : t > Latest(changes) /\ talk[t].passed
    BY <1>1, <1>3, Zenon DEF CitesPassedTest
  <2> HIDE DEF cited
  <2>3. Len(talk) \in Nat /\ cited \subseteq 1..Len(talk)
    BY <2>1, TalkIs, SelectedIsTalked DEF Chunked
  <2>4. changes \in SUBSET (1..Len(talk))
    BY <2>3 DEF EditCalls
  <2>5. PICK t \in TestCalls(cited) : t > Latest(changes) /\ talk[t].passed
    BY <2>2
  <2>6. t \in cited /\ talk[t].test
    BY DEF TestCalls
  <2>7. \A f \in ChangedFiles : \A e \in EditCalls(cited, f) : e \in changes
    OBVIOUS
  <2> HIDE DEF changes
  <2>8. Latest(changes) \in changes /\ \A e \in changes : e <= Latest(changes)
    BY <2>2, <2>3, <2>4, LatestIsLatest
  <2>9. \A e \in changes : e < t
    <3>1. \A n \in 1..Len(talk) : n \in Nat
      BY <2>3
    <3>2. t \in Nat /\ Latest(changes) \in Nat /\ \A e \in changes : e \in Nat
      BY <2>3, <2>4, <2>6, <2>8, <3>1
    <3> QED BY <2>5, <2>8, <3>2
  <2> QED BY <2>1, <2>5, <2>6, <2>7, <2>9
<1> QED BY <1>2, <1>3

\* The list of alternatives has room for one that was said.
LEMMA ThereIsRoom ==
  ASSUME Chunked
  PROVE  Room \in Nat /\ Room > 0
<1> DEFINE options == {i \in DOMAIN talk : talk[i].option}
           picked == {PickCap, Cardinality(options)}
<1>1. IsFiniteSet(DOMAIN talk)
  <2>1. Len(talk) \in Int /\ 1 \in Int /\ DOMAIN talk = 1..Len(talk)
    BY TalkIs DEF Chunked
  <2>2. IsFiniteSet(1..Len(talk))
    BY <2>1, FS_Interval
  <2> QED BY <2>1, <2>2
<1>2. options \subseteq DOMAIN talk
  OBVIOUS
<1>3. Room = ListCap - Least(picked)
  BY Zenon DEF Room
<1> HIDE DEF options
<1>4. Cardinality(options) \in Nat
  BY <1>1, <1>2, FS_Subset, FS_CardinalityType
<1>5. PickCap \in Nat /\ ListCap \in Nat /\ PickCap < ListCap
  BY MethodologyAuditAssumption
<1>6. picked \in SUBSET Nat /\ picked # {} /\ PickCap \in picked
  BY <1>4, <1>5
<1> HIDE DEF picked
<1>7. Least(picked) \in Nat /\ Least(picked) <= PickCap
  BY <1>6, LeastIsLeast
<1> QED BY <1>3, <1>5, <1>7

LEMMA ConsideredIs ==
  ASSUME Given, NEW s \in Considered
  PROVE  s.text \in Nat /\ s.index \in Nat
<1> DEFINE cites(o) == {i \in FirstOf(o.data.considered) : Tokens(i) \cap Shown(o.ids) # {}}
           said == {[text |-> i.text, index |-> FirstCitedRawIndex(i)] :
                      i \in UNION {cites(o) : o \in Elements(outputs)}}
<1>1. s \in said
  BY Zenon DEF Considered
<1>2. PICK o \in Elements(outputs) : \E i \in cites(o) : s = [text |-> i.text, index |-> FirstCitedRawIndex(i)]
  BY <1>1
<1>3. PICK i \in cites(o) : s = [text |-> i.text, index |-> FirstCitedRawIndex(i)]
  BY <1>2
<1>4. i \in Elements(o.data.considered)
  BY DEF FirstOf, Elements
<1>5. i.text \in Nat /\ i.events \in Seq(Nat)
  BY <1>4, AnswersTyped, AnswerTypes
<1>6. FirstCitedRawIndex(i) \in Nat
  BY <1>5, IndexIsNumber
<1> QED BY <1>3, <1>5, <1>6

LEMMA SomethingFits ==
  ASSUME Chunked, Given, Considered # {}
  PROVE  Fitting(Considered) # {}
<1> DEFINE C == Considered
<1>1. \A s \in C : s.text \in Nat /\ s.index \in Nat
  BY ConsideredIs
<1>2. C # {}
  OBVIOUS
<1> HIDE DEF C
<1>3. PICK a \in C : \A s \in C : ~(s.index < a.index)
  <2> DEFINE S == {s.index : s \in C}
  <2>1. S \in SUBSET Nat /\ S # {}
    BY <1>1, <1>2
  <2> HIDE DEF S
  <2>2. PICK m \in S : \A n \in S : ~(n < m)
    BY <2>1, LeastNumber
  <2> QED BY <2>2 DEF S
<1> DEFINE A == {s \in C : s.index = a.index}
<1>4. PICK b \in A : \A s \in A : ~(s.text < b.text)
  <2> DEFINE S == {s.text : s \in A}
  <2>1. S \in SUBSET Nat /\ S # {}
    BY <1>1
  <2> HIDE DEF S
  <2>2. PICK m \in S : \A n \in S : ~(n < m)
    BY <2>1, LeastNumber
  <2> QED BY <2>2 DEF S
<1> DEFINE before == {s \in C : SaidBefore(s, b)}
<1>5. before = {}
  BY <1>3, <1>4 DEF SaidBefore
<1>6. Cardinality(before) = 0
  BY <1>5, FS_EmptySet, Zenon
<1>7. Cardinality(before) < Room
  <2> HIDE DEF before
  <2> QED BY <1>6, ThereIsRoom
<1>8. b \in {s \in C : Cardinality({t \in C : SaidBefore(t, s)}) < Room}
  BY <1>7
<1> QED BY <1>8, Zenon DEF Fitting, C

-----------------------------------------------------------------------------
(* The invariant of the audit.                                             *)

\* The answers so far are of this run, each to a chunk of its own that was asked about.
Answered ==
  /\ Given /\ asked \in Nat /\ asked <= Len(chunks)
  /\ \A n \in DOMAIN outputs : \E k \in 1..asked : outputs[n].ids = chunks[k]
  /\ \A n, m \in DOMAIN outputs : n # m => outputs[n].ids \cap outputs[m].ids = {}

\* What is kept is what the setting it was asked under said.
CacheIsTrue == \A e \in cache : e.data \in AuditAnswers /\ e.by = e.question.setting

AuditInv ==
  /\ Chunked /\ Answered /\ CacheIsTrue
  /\ auditStage \in {"asking", "merging"} => report = NoReport /\ gapReport = NoGaps
  /\ AuditIsEarned

LEMMA Silent ==
  ASSUME report = NoReport, gapReport = NoGaps
  PROVE  FindingsAreGrounded /\ NotesAreOrdered /\ WorstVerdictKept /\ GapsAreConfirmed
BY DEF FindingsAreGrounded, NotesAreOrdered, WorstVerdictKept, GapsAreConfirmed, NoReport, NoGaps

LEMMA SameGrounds ==
  ASSUME UNCHANGED outputs
  PROVE  \A f : Grounded(f)' = Grounded(f)
BY DEF Grounded

\* The same conversation is read in the same chunks.
LEMMA SameChunking ==
  ASSUME Chunked, talk' = talk, chunks' \in {chunks, SelectSalientEvents}
  PROVE  Chunked'
<1>1. \A i, j : Partners(i, j)' = Partners(i, j) /\ Ahead(i, j)' = Ahead(i, j)
  BY Zenon DEF Partners, Ahead
<1>2. Winners' = Winners
  <2>1. \A i : {j \in DOMAIN talk : Ahead(j, i)}' = {j \in DOMAIN talk : Ahead(j, i)}
    BY <1>1
  <2> QED BY <2>1, Zenon DEF Winners
<1>3. \A w, i : Lead(w, i)' = Lead(w, i)
  <2> DEFINE pick(S, i) == IF S = {} THEN i ELSE CHOOSE j \in S : TRUE
  <2>1. \A w, i : PartnersAhead(w, i)' = PartnersAhead(w, i)
    BY <1>1 DEF PartnersAhead
  <2>2. \A w, i : Lead(w, i) = pick(PartnersAhead(w, i), i) /\ Lead(w, i)' = pick(PartnersAhead(w, i)', i)
    BY Zenon DEF Lead
  <2> HIDE DEF pick
  <2> QED BY <2>1, <2>2, Zenon
<1>4. \A w, i : Place(w, i)' = Place(w, i)
  BY <1>1, <1>3, Zenon DEF Place
<1>5. SelectSalientEvents' = SelectSalientEvents
  BY <1>2, <1>4, Zenon DEF SelectSalientEvents
<1> QED BY <1>5 DEF Chunked

LEMMA AuditInitInv == AuditInit => AuditInv
<1> SUFFICES ASSUME AuditInit  PROVE AuditInv
  OBVIOUS
<1>1. chunks = <<>> /\ outputs = <<>> /\ report = NoReport /\ gapReport = NoGaps /\ auditStage = "idle"
  BY DEF AuditInit
<1>2. Elements(outputs) = {} /\ DOMAIN outputs = {}
  BY <1>1 DEF Elements
<1>3. AuditIsEarned
  BY <1>1, <1>2, Silent DEF AuditIsEarned, AnswersAreOfThisRun, FlagsAreTrue
<1>4. Chunked /\ CacheIsTrue
  BY DEF AuditInit, Chunked, CacheIsTrue
<1>5. Answered
  BY <1>1, <1>2 DEF AuditInit, Answered, Given
<1> QED BY <1>1, <1>3, <1>4, <1>5 DEF AuditInv

LEMMA StartInv == AuditInv /\ StartAudit => AuditInv'
<1> SUFFICES ASSUME AuditInv, StartAudit  PROVE AuditInv'
  OBVIOUS
<1>1. outputs' = <<>> /\ report' = NoReport /\ gapReport' = NoGaps /\ talk' = talk /\ cache' = cache /\ asked' = 0
  BY DEF StartAudit
<1>2. Elements(outputs') = {} /\ DOMAIN outputs' = {}
  BY <1>1 DEF Elements
<1>3. AuditIsEarned'
  <2>1. (FindingsAreGrounded /\ NotesAreOrdered /\ WorstVerdictKept /\ GapsAreConfirmed)'
    BY <1>1 DEF FindingsAreGrounded, NotesAreOrdered, WorstVerdictKept, GapsAreConfirmed, NoReport, NoGaps
  <2>2. AnswersAreOfThisRun' /\ FlagsAreTrue'
    BY <1>1, <1>2 DEF AnswersAreOfThisRun, FlagsAreTrue
  <2> QED BY <2>1, <2>2 DEF AuditIsEarned
<1>4. Chunked'
  <2>1. Chunked /\ chunks' = SelectSalientEvents
    BY DEF AuditInv, StartAudit
  <2> QED BY <1>1, <2>1, SameChunking
<1>5. CacheIsTrue'
  BY <1>1 DEF AuditInv, CacheIsTrue
<1>6. Answered'
  <2>1. Len(chunks') \in Nat
    BY ChunksOfTalk DEF StartAudit, AuditInv, Chunked
  <2> QED BY <1>1, <1>2, <2>1 DEF Answered, Given
<1> QED BY <1>1, <1>3, <1>4, <1>5, <1>6 DEF AuditInv

\* What a step over one more chunk leaves as it was.
LEMMA AskingKeeps ==
  ASSUME AuditInv, NextChunk
  PROVE  /\ run' = run /\ talk' = talk /\ chunks' = chunks /\ asked' = asked + 1 /\ Chunked'
         /\ auditStage = "asking" /\ auditStage' # "gaps"
         /\ report' = NoReport /\ gapReport' = NoGaps
         /\ asked' \in Nat /\ asked' <= Len(chunks) /\ asked' \in DOMAIN chunks
         /\ Len(chunks) \in Nat /\ DOMAIN chunks = 1..Len(chunks)
<1>1. /\ run' = run /\ talk' = talk /\ chunks' = chunks /\ asked' = asked + 1 /\ asked < Len(chunks)
      /\ auditStage = "asking" /\ auditStage' # "gaps" /\ report' = report /\ gapReport' = gapReport
  BY DEF NextChunk
<1>2. report = NoReport /\ gapReport = NoGaps /\ asked \in Nat
  BY <1>1 DEF AuditInv, Answered
<1>3. Len(chunks) \in Nat /\ DOMAIN chunks = 1..Len(chunks)
  BY ChunksAre DEF AuditInv
<1>4. Chunked'
  <2>1. Chunked
    BY DEF AuditInv
  <2> QED BY <1>1, <2>1, SameChunking
<1> QED BY <1>1, <1>2, <1>3, <1>4

\* A chunk that is answered.
LEMMA OneMoreAnswer ==
  ASSUME AuditInv, NextChunk, NEW data \in AuditAnswers,
         outputs' = Append(outputs, [ids |-> Chunk, data |-> data, by |-> run.setting])
  PROVE  Answered' /\ \A o \in Elements(outputs') : o.by = run.setting
<1> DEFINE o == [ids |-> Chunk, data |-> data, by |-> run.setting]
           n == Len(outputs)
<1>1. /\ run' = run /\ chunks' = chunks /\ asked' = asked + 1
      /\ asked' \in Nat /\ asked' <= Len(chunks) /\ asked' \in DOMAIN chunks
      /\ DOMAIN chunks = 1..Len(chunks) /\ Len(chunks) \in Nat
  BY AskingKeeps
<1>2. /\ Given /\ asked \in Nat
      /\ \A i \in DOMAIN outputs : \E k \in 1..asked : outputs[i].ids = chunks[k]
      /\ \A i, j \in DOMAIN outputs : i # j => outputs[i].ids \cap outputs[j].ids = {}
  BY DEF AuditInv, Answered
<1>3. Chunk = chunks[asked'] /\ Chunk \in SUBSET Nat
  <2>1. chunks[asked'] \subseteq DOMAIN talk
    BY <1>1, ChunksAre DEF AuditInv
  <2>2. DOMAIN talk \subseteq Nat
    BY TalkIs DEF AuditInv, Chunked
  <2> QED BY <1>1, <2>1, <2>2 DEF Chunk
<1>4. o.ids = chunks[asked'] /\ o.data = data /\ o.by = run.setting
  BY <1>3
<1> DEFINE R == [ids : SUBSET Nat, data : AuditAnswers, by : {run.setting}]
<1>5. o \in R
  BY <1>3
<1>6. outputs \in Seq(R) /\ n \in Nat /\ DOMAIN outputs = 1..n
  BY <1>2, AnswersTyped DEF Given
<1> HIDE DEF R, o
<1>7. outputs' = Append(outputs, o)
  BY DEF o
<1>8. /\ outputs' \in Seq(R) /\ DOMAIN outputs' = 1..(n + 1)
      /\ outputs'[n + 1] = o /\ \A i \in 1..n : outputs'[i] = outputs[i]
  BY <1>5, <1>6, <1>7
<1>9. Given'
  BY <1>1, <1>8 DEF Given, R
<1>10. \A i \in 1..(n + 1) : i \in 1..n \/ i = n + 1
  BY <1>6
<1>11. \A i \in DOMAIN outputs' : \E k \in 1..asked' : outputs'[i].ids = chunks'[k]
  <2>1. asked' \in 1..asked' /\ 1..asked \subseteq 1..asked'
    BY <1>1, <1>2
  <2> QED BY <1>1, <1>2, <1>4, <1>6, <1>8, <1>10, <2>1
<1>12. \A i \in 1..n : outputs[i].ids \cap o.ids = {}
  <2>1. SUFFICES ASSUME NEW i \in 1..n  PROVE outputs[i].ids \cap o.ids = {}
    OBVIOUS
  <2>2. PICK k \in 1..asked : outputs[i].ids = chunks[k]
    BY <1>2, <1>6
  <2>3. k \in DOMAIN chunks /\ k # asked'
    BY <1>1, <1>2
  <2>4. chunks[k] \cap chunks[asked'] = {}
    BY <1>1, <2>3, ChunksAre DEF AuditInv
  <2> QED BY <1>4, <2>2, <2>4
<1>13. \A i, j \in DOMAIN outputs' : i # j => outputs'[i].ids \cap outputs'[j].ids = {}
  <2>1. SUFFICES ASSUME NEW i \in 1..(n + 1), NEW j \in 1..(n + 1), i # j
                 PROVE  outputs'[i].ids \cap outputs'[j].ids = {}
    BY <1>8
  <2>2. CASE i \in 1..n /\ j \in 1..n
    BY <1>2, <1>6, <1>8, <2>1, <2>2
  <2>3. CASE i \in 1..n /\ j = n + 1
    BY <1>8, <1>12, <2>3
  <2>4. CASE j \in 1..n /\ i = n + 1
    <3>1. outputs[j].ids \cap o.ids = {}
      BY <1>12, <2>4
    <3> QED BY <1>8, <2>4, <3>1
  <2> QED BY <1>10, <2>1, <2>2, <2>3, <2>4
<1>14. \A x \in Elements(outputs') : x.by = run.setting
  <2>1. \A x \in R : x.by = run.setting
    BY DEF R
  <2>2. \A i \in DOMAIN outputs' : outputs'[i] \in R
    BY <1>8
  <2> QED BY <2>1, <2>2 DEF Elements
<1> QED BY <1>1, <1>9, <1>11, <1>13, <1>14 DEF Answered

\* While chunks are asked about the audit says nothing.
LEMMA AskingIsEarned ==
  ASSUME AuditInv, NextChunk, Answered', CacheIsTrue', AnswersAreOfThisRun'
  PROVE  AuditInv'
<1>1. report' = NoReport /\ gapReport' = NoGaps /\ auditStage' # "gaps" /\ Chunked'
  BY AskingKeeps
<1>2. (FindingsAreGrounded /\ NotesAreOrdered /\ WorstVerdictKept /\ GapsAreConfirmed)'
  BY <1>1 DEF FindingsAreGrounded, NotesAreOrdered, WorstVerdictKept, GapsAreConfirmed, NoReport, NoGaps
<1>3. FlagsAreTrue'
  BY <1>1 DEF FlagsAreTrue
<1>4. AuditIsEarned'
  BY <1>2, <1>3 DEF AuditIsEarned
<1> QED BY <1>1, <1>4 DEF AuditInv

LEMMA CacheInv == AuditInv /\ AskCache => AuditInv'
<1> SUFFICES ASSUME AuditInv, AskCache  PROVE AuditInv'
  OBVIOUS
<1>1. NextChunk /\ cache' = cache
  BY DEF AskCache
<1>2. PICK hit \in Hits : outputs' = Append(outputs, [ids |-> Chunk, data |-> hit.data, by |-> hit.by])
  BY DEF AskCache
<1>3. hit \in cache /\ Cacheable /\ hit.question = Question(Chunk)
  BY DEF Hits
<1>4. hit.data \in AuditAnswers /\ hit.by = run.setting
  <2>1. Question(Chunk).setting = run.setting
    BY DEF Question
  <2> QED BY <1>3, <2>1 DEF AuditInv, CacheIsTrue
<1>5. Answered' /\ \A o \in Elements(outputs') : o.by = run.setting
  BY <1>1, <1>2, <1>4, OneMoreAnswer
<1>6. run' = run
  BY <1>1, AskingKeeps
<1>7. AnswersAreOfThisRun'
  BY <1>3, <1>5, <1>6 DEF AnswersAreOfThisRun, Cacheable
<1>8. CacheIsTrue'
  BY <1>1 DEF AuditInv, CacheIsTrue
<1> QED BY <1>1, <1>5, <1>7, <1>8, AskingIsEarned

LEMMA ProviderInv == AuditInv /\ AskProvider => AuditInv'
<1> SUFFICES ASSUME AuditInv, AskProvider  PROVE AuditInv'
  OBVIOUS
<1>1. NextChunk /\ CanReply
  BY DEF AskProvider
<1>2. PICK a \in AuditAnswers :
        /\ outputs' = Append(outputs, [ids |-> Chunk, data |-> a, by |-> run.setting])
        /\ cache' = IF Cacheable /\ HasAuditContent(a)
                    THEN cache \cup {[question |-> Question(Chunk), data |-> a, by |-> run.setting]} ELSE cache
  BY DEF AskProvider
<1>3. Answered' /\ \A o \in Elements(outputs') : o.by = run.setting
  BY <1>1, <1>2, OneMoreAnswer
<1>4. run' = run
  BY <1>1, AskingKeeps
<1>5. AnswersAreOfThisRun'
  BY <1>1, <1>3, <1>4 DEF AnswersAreOfThisRun, CanReply
<1>6. CacheIsTrue'
  <2> DEFINE new == [question |-> Question(Chunk), data |-> a, by |-> run.setting]
  <2>1. Question(Chunk).setting = run.setting
    BY DEF Question
  <2>2. new.data \in AuditAnswers /\ new.by = new.question.setting
    BY <2>1
  <2> HIDE DEF new
  <2>3. \A e \in cache' : e \in cache \/ e = new
    BY <1>2 DEF new
  <2> QED BY <2>2, <2>3 DEF AuditInv, CacheIsTrue
<1> QED BY <1>1, <1>3, <1>5, <1>6, AskingIsEarned

LEMMA NoAnswerInv == AuditInv /\ NoAnswer => AuditInv'
<1> SUFFICES ASSUME AuditInv, NoAnswer  PROVE AuditInv'
  OBVIOUS
<1>1. NextChunk /\ outputs' = outputs /\ cache' = cache
  BY DEF NoAnswer
<1>2. run' = run /\ chunks' = chunks /\ asked' = asked + 1 /\ asked' \in Nat /\ asked' <= Len(chunks)
      /\ report' = NoReport /\ gapReport' = NoGaps
  BY <1>1, AskingKeeps
<1>3. Answered'
  <2>1. 1..asked \subseteq 1..asked'
    BY <1>2 DEF AuditInv, Answered
  <2> QED BY <1>1, <1>2, <2>1 DEF AuditInv, Answered, Given
<1>4. CacheIsTrue'
  BY <1>1 DEF AuditInv, CacheIsTrue
<1>5. AnswersAreOfThisRun'
  BY <1>1, <1>2 DEF AuditInv, AuditIsEarned, AnswersAreOfThisRun
<1> QED BY <1>1, <1>3, <1>4, <1>5, AskingIsEarned

\* What only depends on what does not change.
LEMMA SameChunks ==
  ASSUME AuditInv, UNCHANGED <<run, talk, chunks, asked, outputs, cache>>
  PROVE  Chunked' /\ Answered' /\ CacheIsTrue'
<1>1. Chunked /\ Answered /\ CacheIsTrue
  BY DEF AuditInv
<1>2. talk' = talk /\ chunks' = chunks
  OBVIOUS
<1>3. Chunked'
  BY <1>1, <1>2, SameChunking
<1>4. Answered'
  BY <1>1 DEF Answered, Given
<1>5. CacheIsTrue'
  BY <1>1 DEF CacheIsTrue
<1> QED BY <1>3, <1>4, <1>5

\* What is said of the findings of a merge.
LEMMA MergedIsEarned ==
  ASSUME Chunked, Answered, outputs # <<>>,
         report' = [findings |-> Findings, considered |-> Fitting(Considered),
                    degraded |-> /\ Findings = {} /\ Considered = {}
                                 /\ \A o \in Elements(outputs) : o.data.soundness = "none",
                    truncated |-> Cardinality(Read) < Len(talk),
                    emptyChunks |-> Cardinality({n \in DOMAIN outputs : ~HasAuditContent(outputs[n].data)})],
         UNCHANGED <<run, talk, chunks, outputs>>
  PROVE  FindingsAreGrounded' /\ NotesAreOrdered' /\ WorstVerdictKept' /\ FlagsAreTrue'
<1>1. /\ report'.findings = Findings /\ report'.considered = Fitting(Considered)
      /\ report'.degraded = (Findings = {} /\ Considered = {} /\ \A o \in Elements(outputs) : o.data.soundness = "none")
      /\ report'.truncated = (Cardinality(Read) < Len(talk))
  OBVIOUS
<1>2. FindingsAreGrounded'
  <2>1. ASSUME NEW f \in Findings  PROVE Grounded(f)
    <3>1. PICK c \in MergedFindings :
             /\ f.kind = c.kind /\ f.text = c.text /\ f.evidence = c.evidence /\ f.unverified = c.invalid
      BY FindingIs
    <3>2. Sound(c)
      BY MergedIsSound DEF Answered
    <3> QED BY <3>1, <3>2 DEF Sound, Grounded
  <2> QED BY <1>1, <2>1, SameGrounds DEF FindingsAreGrounded
<1>3. NotesAreOrdered'
  <2>1. ASSUME NEW f \in Findings  PROVE f.note = (AssertsMissingValidation(f) /\ TestedAfter(f.evidence))
    <3>1. PICK c \in MergedFindings :
             /\ f.kind = c.kind /\ f.text = c.text /\ f.evidence = c.evidence
             /\ f.note = (FindingHasPostChangeTest(c) /\ AssertsMissingValidation(c))
      BY FindingIs
    <3>2. AssertsMissingValidation(f) <=> AssertsMissingValidation(c)
      BY <3>1 DEF AssertsMissingValidation
    <3>3. FindingHasPostChangeTest(c) <=> TestedAfter(f.evidence)
      BY <3>1, NoteIsOrdered
    <3> QED BY <3>1, <3>2, <3>3
  <2>2. \A f : AssertsMissingValidation(f)' = AssertsMissingValidation(f)
    BY DEF AssertsMissingValidation
  <2> QED BY <1>1, <2>1, <2>2, SameTests DEF NotesAreOrdered
<1>4. WorstVerdictKept'
  BY <1>1, WorstIsFound DEF WorstVerdictKept, Elements, Answered
<1>5. ASSUME ~report'.truncated
      PROVE  \A i \in DOMAIN talk : \E o \in Elements(outputs) : i \in o.ids
  <2>1. Apart
    <3>1. DOMAIN chunks = 1..Len(chunks) /\ Len(chunks) \in Nat
      BY ChunksAre
    <3>2. 1..asked \subseteq DOMAIN chunks
      BY <3>1 DEF Answered
    <3> QED BY <3>2 DEF Apart, Answered
  <2> QED BY <1>1, <1>5, <2>1, AllWereRead DEF Answered
<1>6. ASSUME ~report'.degraded
      PROVE  \/ report'.findings # {} \/ report'.considered # {}
             \/ \E o \in Elements(outputs) : o.data.soundness = "sound"
  <2>1. CASE \E o \in Elements(outputs) : o.data.soundness # "none"
    <3>1. PICK o \in Elements(outputs) : o.data.soundness # "none"
      BY <2>1
    <3>2. o.data.soundness \in {"sound", "questionable", "unsound"}
      BY <3>1, AnswersTyped, AnswerTypes DEF Answered
    <3> QED BY <1>1, <3>2, SomethingIsFound DEF Answered
  <2>2. CASE Considered # {}
    BY <1>1, <2>2, SomethingFits DEF Answered
  <2> QED BY <1>1, <1>6, <2>1, <2>2
<1>7. FlagsAreTrue'
  BY <1>5, <1>6 DEF FlagsAreTrue, Elements
<1> QED BY <1>2, <1>3, <1>4, <1>7

LEMMA MergeInv == AuditInv /\ MergeAudit => AuditInv'
<1> SUFFICES ASSUME AuditInv, MergeAudit  PROVE AuditInv'
  OBVIOUS
<1>1. /\ UNCHANGED <<run, talk, chunks, asked, outputs, cache, gapReport>>
      /\ auditStage = "merging" /\ auditStage' = "gaps"
  BY DEF MergeAudit
<1>2. Chunked' /\ Answered' /\ CacheIsTrue'
  BY <1>1, SameChunks
<1>3. report = NoReport /\ gapReport = NoGaps /\ Chunked /\ Answered /\ AuditIsEarned
  BY <1>1 DEF AuditInv
<1>4. GapsAreConfirmed'
  BY <1>1, <1>3 DEF GapsAreConfirmed, NoGaps
<1>5. AnswersAreOfThisRun'
  <2>1. outputs = <<>> => report' = report
    BY DEF MergeAudit
  <2> QED BY <1>1, <1>3, <2>1 DEF AuditIsEarned, AnswersAreOfThisRun, Elements
<1>6. CASE outputs = <<>>
  <2>1. report' = NoReport
    BY <1>3, <1>6 DEF MergeAudit
  <2>2. FindingsAreGrounded' /\ NotesAreOrdered' /\ WorstVerdictKept'
    BY <2>1 DEF FindingsAreGrounded, NotesAreOrdered, WorstVerdictKept, NoReport
  <2>3. FlagsAreTrue'
    BY <1>1, <1>6 DEF FlagsAreTrue
  <2> QED BY <1>1, <1>2, <1>4, <1>5, <2>2, <2>3 DEF AuditInv, AuditIsEarned
<1>7. CASE outputs # <<>>
  <2>1. report' = [findings |-> Findings, considered |-> Fitting(Considered),
                   degraded |-> /\ Findings = {} /\ Considered = {}
                                /\ \A o \in Elements(outputs) : o.data.soundness = "none",
                   truncated |-> Cardinality(Read) < Len(talk),
                   emptyChunks |-> Cardinality({n \in DOMAIN outputs : ~HasAuditContent(outputs[n].data)})]
    BY <1>7 DEF MergeAudit
  <2>2. FindingsAreGrounded' /\ NotesAreOrdered' /\ WorstVerdictKept' /\ FlagsAreTrue'
    BY <1>1, <1>3, <1>7, <2>1, MergedIsEarned
  <2> QED BY <1>1, <1>2, <1>4, <1>5, <2>2 DEF AuditInv, AuditIsEarned
<1> QED BY <1>6, <1>7

LEMMA GapInv == AuditInv /\ GapStage => AuditInv'
<1> SUFFICES ASSUME AuditInv, GapStage  PROVE AuditInv'
  OBVIOUS
<1>1. UNCHANGED <<run, talk, chunks, asked, outputs, cache, report>> /\ auditStage' = "idle"
  BY DEF GapStage
<1>2. Chunked' /\ Answered' /\ CacheIsTrue'
  BY <1>1, SameChunks
<1>3. Selected' = Selected /\ \A o : Shown(o)' = Shown(o)
  BY <1>1 DEF Selected, Shown, EventTokens, PathTokens
<1>4. AuditIsEarned /\ Chunked
  BY DEF AuditInv
<1>5. FindingsAreGrounded'
  BY <1>1, <1>4, SameGrounds DEF AuditIsEarned, FindingsAreGrounded
<1>6. NotesAreOrdered'
  BY <1>1, <1>4, SameTests DEF AuditIsEarned, NotesAreOrdered
<1>7. WorstVerdictKept' /\ FlagsAreTrue'
  BY <1>1, <1>4 DEF AuditIsEarned, WorstVerdictKept, FlagsAreTrue, Elements
<1>8. gapReport' = gapReport \/ (CanReply /\ \A g \in gapReport'.gaps : \E item : g = Gap(item))
  BY DEF GapStage
<1>9. AnswersAreOfThisRun'
  BY <1>1, <1>4, <1>8 DEF AuditIsEarned, AnswersAreOfThisRun, Elements, CanReply
<1>10. GapsAreConfirmed'
  <2>1. SUFFICES ASSUME NEW g \in gapReport'.gaps
                 PROVE  /\ g.unverified # {} => g.evidence = {}
                        /\ g.how \in {"unit", "integration"} =>
                             \E t \in g.evidence :
                               /\ talk[t].test /\ talk[t].passed
                               /\ \A f \in ChangedFiles : \A e \in EditCalls(g.evidence, f) : e < t
    BY <1>1, Zenon DEF GapsAreConfirmed, EditCalls
  <2>2. CASE gapReport' = gapReport
    BY <1>4, <2>2, Zenon DEF AuditIsEarned, GapsAreConfirmed
  <2>3. CASE \E item : g = Gap(item)
    BY <1>4, <2>3, GapIsConfirmed, Zenon
  <2> QED BY <1>8, <2>2, <2>3
<1>11. auditStage' \notin {"asking", "merging"}
  BY <1>1
<1> QED BY <1>2, <1>5, <1>6, <1>7, <1>9, <1>10, <1>11 DEF AuditInv, AuditIsEarned

LEMMA KillInv == AuditInv /\ KillAudit => AuditInv'
<1> SUFFICES ASSUME AuditInv, KillAudit  PROVE AuditInv'
  OBVIOUS
<1>1. /\ UNCHANGED <<run, talk, chunks, asked, cache>> /\ outputs' = <<>>
      /\ report' = NoReport /\ gapReport' = NoGaps /\ auditStage' = "idle"
  BY DEF KillAudit
<1>2. Elements(outputs') = {} /\ DOMAIN outputs' = {}
  BY <1>1 DEF Elements
<1>3. AuditIsEarned'
  <2>1. (FindingsAreGrounded /\ NotesAreOrdered /\ WorstVerdictKept /\ GapsAreConfirmed)'
    BY <1>1 DEF FindingsAreGrounded, NotesAreOrdered, WorstVerdictKept, GapsAreConfirmed, NoReport, NoGaps
  <2>2. AnswersAreOfThisRun' /\ FlagsAreTrue'
    BY <1>1, <1>2 DEF AnswersAreOfThisRun, FlagsAreTrue
  <2> QED BY <2>1, <2>2 DEF AuditIsEarned
<1>4. Chunked'
  <2>1. Chunked
    BY DEF AuditInv
  <2> QED BY <1>1, <2>1, SameChunking
<1>5. CacheIsTrue' /\ Answered'
  BY <1>1, <1>2 DEF AuditInv, CacheIsTrue, Answered, Given
<1> QED BY <1>1, <1>3, <1>4, <1>5 DEF AuditInv

LEMMA AuditStutter == AuditInv /\ UNCHANGED auditVars => AuditInv'
<1> SUFFICES ASSUME AuditInv, UNCHANGED auditVars  PROVE AuditInv'
  OBVIOUS
<1>1. UNCHANGED <<run, talk, chunks, asked, outputs, cache, report, gapReport, auditStage>>
  BY DEF auditVars
<1>2. Chunked' /\ Answered' /\ CacheIsTrue'
  BY <1>1, SameChunks
<1>3. AuditIsEarned
  BY DEF AuditInv
<1>4. FindingsAreGrounded'
  BY <1>1, <1>3, SameGrounds DEF AuditIsEarned, FindingsAreGrounded
<1>5. NotesAreOrdered'
  BY <1>1, <1>3, SameTests DEF AuditIsEarned, NotesAreOrdered
<1>6. WorstVerdictKept' /\ FlagsAreTrue' /\ AnswersAreOfThisRun'
  BY <1>1, <1>3 DEF AuditIsEarned, WorstVerdictKept, FlagsAreTrue, AnswersAreOfThisRun, Elements
<1>7. GapsAreConfirmed'
  BY <1>1, <1>3, Zenon DEF AuditIsEarned, GapsAreConfirmed, EditCalls
<1>8. AuditIsEarned'
  BY <1>4, <1>5, <1>6, <1>7 DEF AuditIsEarned
<1> QED BY <1>1, <1>2, <1>8 DEF AuditInv

\* What a model's answers add, fresh or from the cache, is anchored in events it was
\* shown, softened only by a later test, and never called more whole than it is; the
\* worst verdict is kept (llm/reasoning.ts, runMethodologyAuditStage and
\* runConversationGapStage).
THEOREM AuditAddsWhatItEarned == AuditSpec => []AuditIsEarned
<1>1. AuditInv /\ [AuditNext]_auditVars => AuditInv'
  BY StartInv, CacheInv, ProviderInv, NoAnswerInv, MergeInv, GapInv, KillInv, AuditStutter DEF AuditNext
<1>2. AuditInv => AuditIsEarned
  BY DEF AuditInv
<1> QED BY AuditInitInv, <1>1, <1>2, PTL DEF AuditSpec
=============================================================================
