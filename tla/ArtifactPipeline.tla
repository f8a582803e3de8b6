--------------------------- MODULE ArtifactPipeline ---------------------------
(***************************************************************************)
(* The composable stages of the review pipeline over one output directory: *)
(* `collect', `intent', `evaluate', `methodology', `risks', `diagrams',    *)
(* `handoff', `packet', `all' and `all --cache', one invocation at a time  *)
(* (nothing in the code keeps two of them apart).                          *)
(*                                                                         *)
(* Every invocation collects the inputs first and names them by a          *)
(* signature.  A stage then composes what earlier stages left, if the      *)
(* manifest says that it was produced under the same signature, writes its *)
(* own artifacts, and only afterwards stamps them in the manifest.         *)
(*                                                                         *)
(* A signature is the version of the inputs it was computed from.  An      *)
(* artifact is the set of versions its content derives from; the empty set *)
(* stands for a file that is absent or cannot be read, which every loader  *)
(* treats alike.  A file cut short by a kill is unreadable or, being YAML, *)
(* may still parse as a part of the new content.                           *)
(***************************************************************************)
EXTENDS Naturals, Sequences

CONSTANT Versions  \* versions of the inputs

ASSUME PipelineAssumption == Versions \subseteq Nat \ {0}

Stages    == {"intent", "evaluation", "methodology", "risks"}
Artifacts == Stages \cup {"packet"}
Commands  == {"collect", "intent", "evaluate", "methodology", "risks",
              "diagrams", "handoff", "packet", "all", "cached"}

VARIABLES
  world,     \* the inputs now
  disk,      \* artifact -> the versions its content derives from
  manifest,  \* manifest.json: the last signature, and the stamp of each artifact
  step,      \* what the invocation does next; "idle" when there is none
  cmd,       \* its command
  sig,       \* the signature it collected
  models,    \* stage -> the versions its model derives from
  at,        \* position in the list of files it writes
  snap,      \* --cache: the manifest and the packet before collection
  returned,  \* did the inputs ever return to an earlier version? (history)
  disturbed  \* was an invocation ever killed, or its inputs edited while it
             \* ran? (history)

history == <<returned, disturbed>>
vars == <<world, disk, manifest, step, cmd, sig, models, at, snap, returned,
          disturbed>>

Unstamped  == [a \in Artifacts |-> 0]
NoManifest == [signature |-> 0, stamps |-> Unstamped]
NoModels   == [s \in Stages |-> {}]
NoSnap     == [manifest |-> NoManifest, packet |-> {}]

Init ==
  /\ world \in Versions
  /\ disk = [a \in Artifacts |-> {}]
  /\ manifest = NoManifest
  /\ step = "idle"
  /\ cmd = "collect"
  /\ sig = 0
  /\ models = NoModels
  /\ at = 1
  /\ snap = NoSnap
  /\ returned = FALSE
  /\ disturbed = FALSE

-----------------------------------------------------------------------------
(* What a command composes, writes and stamps.                             *)

Composes(c) ==
  CASE c = "evaluate" -> {"intent"}
    [] c = "diagrams" -> {"intent", "evaluation"}
    [] c \in {"handoff", "packet"} -> Stages
    [] OTHER -> {}

\* Files that carry a stamp, in the order they are written.  `diagrams' and
\* `handoff' write files nothing is composed from.
Plan(c) ==
  CASE c = "intent" -> <<"intent">>
    [] c = "evaluate" -> <<"evaluation">>
    [] c = "methodology" -> <<"methodology">>
    [] c = "risks" -> <<"risks">>
    [] c \in {"packet", "all", "cached"} ->
         <<"packet", "intent", "evaluation", "methodology", "risks">>
    [] OTHER -> <<>>

\* Defect: a stage stamps the whole set.
MutStamped(c) == IF Plan(c) = <<>> THEN {} ELSE Artifacts

Stamped(c) == {Plan(c)[i] : i \in 1..Len(Plan(c))}

\* Defect: the signature at the top of the manifest vouches for every artifact.
MutIsCurrent(a) == sig # 0 /\ manifest.signature = sig

IsCurrent(a) == sig # 0 /\ manifest.stamps[a] = sig

Loaded(a) == IF IsCurrent(a) THEN disk[a] ELSE {}

Or(loaded, computed) == IF loaded # {} THEN loaded ELSE computed

\* What a stage computes derives from the collection, and from the files of the
\* working tree it reads again.
Fresh == {sig, world}

\* The composing stages: `evaluate', `diagrams' and `handoff' compute what is
\* missing from what they loaded, `packet' from scratch.
Composed ==
  LET i == Or(Loaded("intent"), Fresh)
      e == Or(Loaded("evaluation"), Fresh \cup i)
      m == Or(Loaded("methodology"), Fresh)
      r == Or(Loaded("risks"), Fresh \cup e \cup m)
  IN CASE cmd = "evaluate" -> [s \in Stages |-> Fresh \cup i]
       [] cmd = "diagrams" -> [s \in Stages |-> e]
       [] cmd = "handoff" ->
            [s \in Stages |-> CASE s = "intent" -> i [] s = "evaluation" -> e
                                [] s = "methodology" -> m [] s = "risks" -> r]
       [] cmd = "packet" -> [s \in Stages |-> Or(Loaded(s), Fresh)]
       [] OTHER -> [s \in Stages |-> Fresh]

Content(a) ==
  IF a = "packet" THEN UNION {models[s] : s \in Stages} ELSE models[a]

\* Defect: the packet's own signature is not looked at.
MutIsCacheHit ==
  /\ snap.packet # {}
  /\ snap.manifest.signature # 0
  /\ snap.manifest.signature = sig

IsCacheHit ==
  /\ snap.packet # {}
  /\ snap.manifest.signature # 0
  /\ snap.manifest.signature = sig
  /\ snap.manifest.stamps["packet"] = sig

-----------------------------------------------------------------------------
(* One invocation.                                                         *)

\* Whatever the process held in memory is gone.
Gone ==
  /\ step' = "idle"
  /\ cmd' = "collect"
  /\ sig' = 0
  /\ models' = NoModels
  /\ at' = 1
  /\ snap' = NoSnap

Start(c) ==
  /\ step = "idle"
  /\ cmd' = c
  /\ step' = IF c = "cached" THEN "snapshot" ELSE "collect"
  /\ UNCHANGED <<world, disk, manifest, sig, models, at, snap, history>>

\* readCacheSnapshot, before collection overwrites the manifest.
Snapshot ==
  /\ step = "snapshot"
  /\ snap' = [manifest |-> manifest, packet |-> disk["packet"]]
  /\ step' = "collect"
  /\ UNCHANGED <<world, disk, manifest, cmd, sig, models, at, history>>

\* Defect: collection moves the recorded stamps on to the new signature.
MutCollect ==
  /\ step = "collect"
  /\ sig' = world
  /\ manifest' = [signature |-> world,
                  stamps |-> [a \in Artifacts |->
                    IF manifest.stamps[a] = 0 THEN 0 ELSE world]]
  /\ step' = CASE cmd = "collect" -> "exit"
               [] cmd = "cached" -> "decide"
               [] OTHER -> "compose"
  /\ UNCHANGED <<world, disk, cmd, models, at, snap, history>>

\* Collection rewrites the manifest and carries the stamps forward as they are.
Collect ==
  /\ step = "collect"
  /\ sig' = world
  /\ manifest' = [signature |-> world, stamps |-> manifest.stamps]
  /\ step' = CASE cmd = "collect" -> "exit"
               [] cmd = "cached" -> "decide"
               [] OTHER -> "compose"
  /\ UNCHANGED <<world, disk, cmd, models, at, snap, history>>

\* A hit puts the old manifest back and applies the gate to evaluation.yaml.
ReuseCache ==
  /\ step = "decide"
  /\ IsCacheHit
  /\ manifest' = snap.manifest
  /\ step' = "exit"
  /\ UNCHANGED <<world, disk, cmd, sig, models, at, snap, history>>

\* A miss; or a hit declined because the pull-request surface is of another
\* head, or because --strict finds no evaluation to gate.
Regenerate ==
  /\ step = "decide"
  /\ step' = "compose"
  /\ UNCHANGED <<world, disk, manifest, cmd, sig, models, at, snap, history>>

Compose ==
  /\ step = "compose"
  /\ models' = Composed
  /\ at' = 1
  /\ step' = IF Plan(cmd) = <<>> THEN "exit" ELSE "write"
  /\ UNCHANGED <<world, disk, manifest, cmd, sig, snap, history>>

Write ==
  /\ step = "write"
  /\ disk' = [disk EXCEPT ![Plan(cmd)[at]] = Content(Plan(cmd)[at])]
  /\ IF at = Len(Plan(cmd))
     THEN step' = "stamp" /\ UNCHANGED at
     ELSE at' = at + 1 /\ UNCHANGED step
  /\ UNCHANGED <<world, manifest, cmd, sig, models, snap, history>>

\* Defect: the new stamps replace the old ones.
MutStamp ==
  /\ step = "stamp"
  /\ manifest' = [manifest EXCEPT !.stamps = [a \in Stamped(cmd) |-> sig]]
  /\ step' = "exit"
  /\ UNCHANGED <<world, disk, cmd, sig, models, at, snap, history>>

Stamp ==
  /\ step = "stamp"
  /\ manifest' = IF manifest.signature = 0 THEN manifest
       ELSE [manifest EXCEPT !.stamps =
               [a \in Artifacts |-> IF a \in Stamped(cmd) THEN sig ELSE @[a]]]
  /\ step' = "exit"
  /\ UNCHANGED <<world, disk, cmd, sig, models, at, snap, history>>

Exit ==
  /\ step = "exit"
  /\ Gone
  /\ UNCHANGED <<world, disk, manifest, history>>

\* Collection or a computation throws: nothing was written yet.
Abort ==
  /\ step \in {"snapshot", "collect", "decide", "compose"}
  /\ Gone
  /\ UNCHANGED <<world, disk, manifest, history>>

-----------------------------------------------------------------------------
(* The environment.                                                        *)

Disturb == disturbed' = TRUE /\ UNCHANGED returned

Crash ==
  /\ step # "idle"
  /\ Gone
  /\ Disturb
  /\ UNCHANGED <<world, disk, manifest>>

CrashWritingArtifact ==
  /\ step = "write"
  /\ disk' = [disk EXCEPT ![Plan(cmd)[at]] = {}]
  /\ Gone
  /\ Disturb
  /\ UNCHANGED <<world, manifest>>

CrashWritingManifest ==
  /\ step \in {"collect", "stamp"} \/ (step = "decide" /\ IsCacheHit)
  /\ manifest' = NoManifest
  /\ Gone
  /\ Disturb
  /\ UNCHANGED <<world, disk>>

Edit(v) ==
  /\ v # world
  /\ world' = v
  /\ returned' = (returned \/ v < world)
  /\ disturbed' = (disturbed \/ step # "idle")
  /\ UNCHANGED <<disk, manifest, step, cmd, sig, models, at, snap>>

Next ==
  \/ \E c \in Commands : Start(c)
  \/ Snapshot \/ Collect \/ ReuseCache \/ Regenerate \/ Compose
  \/ Write \/ Stamp \/ Exit \/ Abort
  \/ Crash \/ CrashWritingArtifact \/ CrashWritingManifest
  \/ \E v \in Versions : Edit(v)

Spec == Init /\ [][Next]_vars

-----------------------------------------------------------------------------
(* Properties.                                                             *)

Manifests == [signature : Versions \cup {0},
              stamps : [Artifacts -> Versions \cup {0}]]

TypeOK ==
  /\ world \in Versions
  /\ disk \in [Artifacts -> SUBSET Versions]
  /\ manifest \in Manifests
  /\ step \in {"idle", "snapshot", "collect", "decide", "compose", "write", "stamp",
              "exit"}
  /\ cmd \in Commands
  /\ sig \in Versions \cup {0}
  /\ models \in [Stages -> SUBSET Versions]
  /\ at \in 1..5
  /\ snap \in [manifest : Manifests, packet : SUBSET Versions]
  /\ returned \in BOOLEAN
  /\ disturbed \in BOOLEAN

\* stages.ts:172-173: "only compose a prior intent.yaml when it was produced
\* from the same inputs".  Whatever a stage is about to compose derives from the
\* inputs this invocation collected, and from nothing else.
ReuseIsFresh ==
  step = "compose" => \A a \in Composes(cmd) : Loaded(a) \subseteq {sig}

\* cli/index.ts:782-787: `all --cache' reuses a packet only when it was produced
\* from the current inputs, whatever stages ran in between.
HitIsFresh ==
  (step = "decide" /\ IsCacheHit) => snap.packet = {sig}

\* cli/index.ts:913-914: "a cache hit must match a normal run's gate behavior":
\* the evaluation a hit is gated on derives from the inputs of the run.
GateIsOfThisRun ==
  (step = "decide" /\ IsCacheHit) => disk["evaluation"] \subseteq {sig}

\* artifact-provenance.ts:15-27: between two invocations the stamp of an
\* artifact names exactly the inputs it derives from, however stages of
\* different inputs were mixed in one output directory.
ProvenanceIsTrue ==
  step = "idle" =>
    \A a \in Artifacts :
      manifest.stamps[a] # 0 => disk[a] = {manifest.stamps[a]}

\* What of this the code keeps.  Reuse and cache hits are fresh as long as either
\* the inputs only move forward or no invocation was disturbed ...
SafeReuse == ~(returned /\ disturbed) => ReuseIsFresh

\* ... a hit of `all --cache' included (cli/index.ts:782-787), ...
SafeHit == ~(returned /\ disturbed) => HitIsFresh

\* ... the gate is of this run as long as the inputs only move forward, even if
\* invocations are killed and inputs edited under them (cli/index.ts:913-914),
SafeGate == ~returned => GateIsOfThisRun

\* and stamps are true as long as no invocation was disturbed, whatever versions
\* the inputs move between (artifact-provenance.ts:15-27).
TrueProvenance == ~disturbed => ProvenanceIsTrue
=============================================================================
