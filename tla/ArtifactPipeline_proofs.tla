----------------------- MODULE ArtifactPipeline_proofs -----------------------
(***************************************************************************)
(* Proofs about ArtifactPipeline, for every set of input versions.         *)
(***************************************************************************)
EXTENDS ArtifactPipeline, TLAPS

(***************************************************************************)
(* What a command writes.                                                  *)
(***************************************************************************)

\* Every file of a plan is a stamped artifact, and no plan is longer than five.
LEMMA PlanFiles ==
  ASSUME NEW c \in Commands
  PROVE  /\ Len(Plan(c)) \in 0..5
         /\ \A i \in 1..Len(Plan(c)) : Plan(c)[i] \in Artifacts
         /\ Plan(c) # <<>> <=> Len(Plan(c)) # 0
         /\ Stamped(c) \subseteq Artifacts
BY DEF Plan, Commands, Artifacts, Stages, Stamped

\* A plan with the packet in it has every other artifact in it, too.
LEMMA PacketPlansAreFull ==
  ASSUME NEW c \in Commands, "packet" \in Stamped(c)
  PROVE  Stamped(c) = Artifacts
<1>1. CASE c \in {"packet", "all", "cached"}
  <2>1. Plan(c) = <<"packet", "intent", "evaluation", "methodology", "risks">>
    BY <1>1 DEF Plan
  <2>2. \A i \in 1..5 : Plan(c)[i] \in Stamped(c)
    BY <2>1 DEF Stamped
  <2>3. Artifacts \subseteq Stamped(c)
    BY <2>1, <2>2 DEF Artifacts, Stages
  <2> QED BY <2>3, PlanFiles
<1>2. CASE c \notin {"packet", "all", "cached"}
  BY <1>2 DEF Stamped, Plan, Commands
<1> QED BY <1>1, <1>2

-----------------------------------------------------------------------------
(***************************************************************************)
(* Type correctness.                                                       *)
(***************************************************************************)

\* Composed models derive from versions of the inputs.
LEMMA ComposedType ==
  ASSUME TypeOK, sig # 0
  PROVE  Composed \in [Stages -> SUBSET Versions]
<1> DEFINE i == Or(Loaded("intent"), Fresh)
           e == Or(Loaded("evaluation"), Fresh \cup i)
           m == Or(Loaded("methodology"), Fresh)
           r == Or(Loaded("risks"), Fresh \cup e \cup m)
<1>1. Fresh \in SUBSET Versions
  BY DEF Fresh, TypeOK
<1>2. \A a \in Artifacts : Loaded(a) \in SUBSET Versions
  BY DEF Loaded, TypeOK
<1>3. /\ i \in SUBSET Versions
      /\ e \in SUBSET Versions
      /\ m \in SUBSET Versions
      /\ \A s \in Stages : Or(Loaded(s), Fresh) \in SUBSET Versions
  BY <1>1, <1>2 DEF Or, Artifacts, Stages
<1>4. r \in SUBSET Versions
  BY <1>1, <1>2, <1>3 DEF Or, Artifacts, Stages
<1> QED BY <1>1, <1>3, <1>4 DEF Composed, Stages

\* An invocation that collected has a signature.
Collected == step \in {"decide", "compose", "write", "stamp"} => sig # 0

\* The files are versions of the inputs all the way down, and the position in
\* the list of files stays inside it.
TypeInv ==
  /\ TypeOK
  /\ Collected
  /\ step = "write" => at <= Len(Plan(cmd))

LEMMA TypeInit == Init => TypeInv
<1> SUFFICES ASSUME Init PROVE TypeInv
  OBVIOUS
<1>1. returned \in BOOLEAN /\ disturbed \in BOOLEAN
  BY Zenon DEF Init
<1> QED
  BY <1>1 DEF Init, TypeInv, TypeOK, Collected, NoManifest, Unstamped, NoModels,
     NoSnap, Manifests, Commands, Artifacts, Stages

LEMMA TypeNext == TypeInv /\ [Next]_vars => TypeInv'
<1> SUFFICES ASSUME TypeInv, [Next]_vars PROVE TypeInv'
  OBVIOUS
<1> USE DEF TypeInv, history, Disturb
<1>0. PipelineAssumption
  BY PipelineAssumption
<1>0a. NoManifest \in Manifests /\ NoModels \in [Stages -> SUBSET Versions]
       /\ NoSnap \in [manifest : Manifests, packet : SUBSET Versions]
  BY DEF NoManifest, Manifests, Unstamped, NoModels, NoSnap
<1>0b. "packet" \in Artifacts
  BY DEF Artifacts
<1>0c. ASSUME Gone, UNCHANGED world, disk' \in [Artifacts -> SUBSET Versions],
              manifest' \in Manifests, returned' \in BOOLEAN,
              disturbed' \in BOOLEAN
       PROVE  TypeInv'
  BY <1>0a, <1>0c DEF Gone, TypeOK, Collected, Commands
<1>1. ASSUME NEW c \in Commands, Start(c) PROVE TypeInv'
  BY <1>1 DEF Start, TypeOK, Collected
<1>2. CASE Snapshot
  BY <1>2, <1>0b DEF Snapshot, TypeOK, Collected
<1>3. CASE Collect
  BY <1>3, <1>0 DEF Collect, TypeOK, Collected, Manifests, PipelineAssumption
<1>4. CASE ReuseCache
  BY <1>4 DEF ReuseCache, TypeOK, Collected
<1>5. CASE Regenerate
  BY <1>5 DEF Regenerate, TypeOK, Collected
<1>6. CASE Compose
  <2>1. Composed \in [Stages -> SUBSET Versions]
    BY <1>6, ComposedType DEF Compose, Collected
  <2>2. cmd \in Commands
    BY DEF TypeOK
  <2> QED BY <1>6, <2>1, <2>2, PlanFiles DEF Compose, TypeOK, Collected
<1>7. CASE Write
  <2>1. cmd \in Commands /\ at \in 1..5 /\ at <= Len(Plan(cmd)) /\ Len(Plan(cmd)) \in 0..5
    BY <1>7, PlanFiles DEF Write, TypeOK
  <2>2. Plan(cmd)[at] \in Artifacts
    BY <2>1, PlanFiles
  <2>3. Content(Plan(cmd)[at]) \in SUBSET Versions
    BY <2>2 DEF Content, TypeOK, Artifacts
  <2>4. disk' \in [Artifacts -> SUBSET Versions]
    BY <1>7, <2>3 DEF Write, TypeOK
  <2>5. at' \in 1..5 /\ (step' = "write" => at' <= Len(Plan(cmd)))
    <3>1. CASE at = Len(Plan(cmd))
      BY <1>7, <2>1, <3>1 DEF Write
    <3>2. CASE at # Len(Plan(cmd))
      <4>1. at' = at + 1 /\ at + 1 <= Len(Plan(cmd))
        BY <1>7, <2>1, <3>2 DEF Write
      <4>2. at + 1 \in 1..5
        BY <2>1, <4>1
      <4> QED BY <4>1, <4>2
    <3> QED BY <3>1, <3>2
  <2> QED BY <1>7, <2>4, <2>5 DEF Write, TypeOK, Collected
<1>8. CASE Stamp
  <2>1. manifest' \in Manifests
    BY <1>8 DEF Stamp, TypeOK, Manifests
  <2> QED BY <1>8, <2>1 DEF Stamp, TypeOK, Collected
<1>9. CASE Exit
  BY <1>9, <1>0c DEF Exit, TypeOK
<1>10. CASE Abort
  BY <1>10, <1>0c DEF Abort, TypeOK
<1>11. CASE Crash
  BY <1>11, <1>0c DEF Crash, TypeOK
<1>12. CASE CrashWritingArtifact
  <2>1. disk' \in [Artifacts -> SUBSET Versions]
    BY <1>12 DEF CrashWritingArtifact, TypeOK
  <2> QED BY <1>12, <2>1, <1>0c DEF CrashWritingArtifact, TypeOK
<1>13. CASE CrashWritingManifest
  BY <1>13, <1>0a, <1>0c DEF CrashWritingManifest, TypeOK
<1>14. ASSUME NEW v \in Versions, Edit(v) PROVE TypeInv'
  BY <1>14 DEF Edit, TypeOK, Collected
<1>15. CASE UNCHANGED vars
  BY <1>15 DEF vars, TypeOK, Collected
<1> QED
  BY <1>1, <1>2, <1>3, <1>4, <1>5, <1>6, <1>7, <1>8, <1>9, <1>10, <1>11, <1>12,
     <1>13, <1>14, <1>15 DEF Next

\* Every state of the pipeline is well typed: an artifact only ever derives from
\* versions of the inputs, and a stamp names one.
THEOREM TypeCorrect == Spec => []TypeOK
<1>1. Spec => []TypeInv
  BY TypeInit, TypeNext, PTL DEF Spec
<1> QED BY <1>1, PTL DEF TypeInv

-----------------------------------------------------------------------------
(***************************************************************************)
(* Inputs that only move forward.  Invocations may then be killed at any   *)
(* point and inputs edited under them, and still nothing stale is reused:  *)
(* a stamp that equals the current version was written by an invocation    *)
(* that saw that version, and so was the file.                             *)
(***************************************************************************)

\* What the stamp of an artifact speaks for.  A packet is stamped together with
\* everything else, so its stamp speaks for all of it.
SpeaksFor(a) == IF a = "packet" THEN Artifacts ELSE {a}

\* Whatever the stamps say is of version v is of version v alone.
TrueFor(stamps, v) ==
  \A a \in Artifacts :
    stamps[a] = v => \A b \in SpeaksFor(a) : disk[b] \subseteq {v}

\* No signature is ahead of the inputs, and no stamp ahead of the last
\* signature collected.
NeverAhead ==
  /\ sig <= world
  /\ manifest.signature <= world
  /\ \A a \in Artifacts : manifest.stamps[a] <= world
  /\ snap.manifest.signature <= world
  /\ \A a \in Artifacts : snap.manifest.stamps[a] <= world
  /\ step \in {"decide", "compose", "write", "stamp"} =>
       \A a \in Artifacts : manifest.stamps[a] <= sig

\* Files this invocation has already written.
FirstFiles(c, n) == {Plan(c)[i] : i \in 1..n}

Written ==
  CASE step = "write" -> FirstFiles(cmd, at - 1)
    [] step = "stamp" -> Stamped(cmd)
    [] OTHER -> {}

\* The cache snapshot is as true as the manifest it was taken from.
SnapTrue(v) ==
  /\ TrueFor(snap.manifest.stamps, v)
  /\ snap.manifest.stamps["packet"] = v => snap.packet \subseteq {v}

ForwardInv ==
  /\ TypeInv
  /\ NeverAhead
  /\ TrueFor(manifest.stamps, world)
  /\ step \in {"decide", "compose"} => TrueFor(manifest.stamps, sig)
  /\ cmd = "cached" /\ step = "collect" => SnapTrue(world)
  /\ step = "decide" => SnapTrue(sig) /\ SnapTrue(world)
  /\ step = "write" /\ sig = world => \A s \in Stages : models[s] \subseteq {world}
  /\ sig = world => \A a \in Written : disk[a] \subseteq {world}

\* With nothing but current models to build on, composing yields current models.
LEMMA ComposedIsFresh ==
  ASSUME TypeOK, sig # 0, sig = world,
         \A a \in Stages : Loaded(a) \subseteq {sig}
  PROVE  \A s \in Stages : Composed[s] \subseteq {sig}
<1> DEFINE i == Or(Loaded("intent"), Fresh)
           e == Or(Loaded("evaluation"), Fresh \cup i)
           m == Or(Loaded("methodology"), Fresh)
           r == Or(Loaded("risks"), Fresh \cup e \cup m)
<1>1. Fresh = {sig}
  BY DEF Fresh
<1>2. /\ i \subseteq {sig} /\ e \subseteq {sig} /\ m \subseteq {sig}
      /\ \A s \in Stages : Or(Loaded(s), Fresh) \subseteq {sig}
  BY <1>1 DEF Or, Stages
<1>3. r \subseteq {sig}
  BY <1>1, <1>2 DEF Or, Stages
<1> QED BY <1>1, <1>2, <1>3 DEF Composed, Stages

\* Stamps below a version say nothing about it.
LEMMA BelowIsTrue ==
  ASSUME NEW stamps, NEW v \in Nat,
         \A a \in Artifacts : stamps[a] \in Nat /\ stamps[a] < v
  PROVE  TrueFor(stamps, v)
BY DEF TrueFor

\* If the stamps are true of a version, so is everything that can be loaded.
LEMMA LoadedIsTrue ==
  ASSUME TypeOK, TrueFor(manifest.stamps, sig)
  PROVE  \A a \in Artifacts : Loaded(a) \subseteq {sig}
BY DEF TrueFor, Loaded, IsCurrent, SpeaksFor

\* Numbers are natural numbers.
LEMMA Numbers ==
  ASSUME TypeOK
  PROVE  /\ world \in Nat /\ world > 0 /\ sig \in Nat
         /\ manifest.signature \in Nat
         /\ \A a \in Artifacts : manifest.stamps[a] \in Nat
         /\ snap.manifest.signature \in Nat
         /\ \A a \in Artifacts : snap.manifest.stamps[a] \in Nat
<1>1. \A v \in Versions : v \in Nat /\ v > 0
  BY PipelineAssumption DEF PipelineAssumption
<1>2. \A v \in Versions \cup {0} : v \in Nat
  <2> SUFFICES ASSUME NEW v \in Versions \cup {0} PROVE v \in Nat
    OBVIOUS
  <2>1. CASE v \in Versions
    BY <1>1, <2>1
  <2>2. CASE v = 0
    BY <2>2
  <2> QED BY <2>1, <2>2
<1>3. world \in Versions /\ sig \in Versions \cup {0}
      /\ manifest \in Manifests /\ snap.manifest \in Manifests
  BY DEF TypeOK
<1>4. \A m \in Manifests : /\ m.signature \in Versions \cup {0}
                           /\ \A a \in Artifacts : m.stamps[a] \in Versions \cup {0}
  BY DEF Manifests
<1> QED BY <1>1, <1>2, <1>3, <1>4

LEMMA ForwardInit == Init => ForwardInv
<1> SUFFICES ASSUME Init PROVE ForwardInv
  OBVIOUS
<1>1. TypeInv
  BY TypeInit
<1>2. NeverAhead
  BY <1>1, Numbers DEF TypeInv, Init, NeverAhead, NoManifest, Unstamped, NoSnap
<1>3. TrueFor(manifest.stamps, world)
  BY <1>1, Numbers DEF TypeInv, Init, TrueFor, NoManifest, Unstamped
<1> QED
  BY <1>1, <1>2, <1>3 DEF ForwardInv, Init, Written

\* The set of files written grows by the one just written.
LEMMA WrittenGrows ==
  ASSUME TypeInv, Write
  PROVE  Written' = Written \cup {Plan(cmd)[at]}
<1>1. cmd \in Commands /\ at \in 1..Len(Plan(cmd)) /\ Len(Plan(cmd)) \in 0..5
  BY PlanFiles DEF TypeInv, TypeOK, Write
<1>2. FirstFiles(cmd, at) = FirstFiles(cmd, at - 1) \cup {Plan(cmd)[at]}
  <2>1. 1..at = (1..(at - 1)) \cup {at}
    BY <1>1
  <2> QED BY <2>1 DEF FirstFiles
<1>3. Written = FirstFiles(cmd, at - 1)
  BY DEF Written, Write
<1>4. CASE at = Len(Plan(cmd))
  <2>1. Written' = Stamped(cmd)
    BY <1>4 DEF Written, Write, Stamped, Plan
  <2>2. Stamped(cmd) = FirstFiles(cmd, at)
    BY <1>4 DEF Stamped, FirstFiles
  <2> QED BY <1>2, <1>3, <2>1, <2>2
<1>5. CASE at # Len(Plan(cmd))
  <2>1. step' = "write" /\ at' = at + 1 /\ cmd' = cmd
    BY <1>5 DEF Write
  <2>2. Written' = FirstFiles(cmd', at' - 1)
    BY <2>1 DEF Written
  <2>3. at' - 1 = at
    BY <1>1, <2>1
  <2>4. FirstFiles(cmd', at) = FirstFiles(cmd, at)
    BY <2>1 DEF FirstFiles, Plan
  <2>5. FirstFiles(cmd', at' - 1) = FirstFiles(cmd', at)
    BY <2>3 DEF FirstFiles
  <2> QED BY <1>2, <1>3, <2>2, <2>4, <2>5
<1> QED BY <1>4, <1>5

LEMMA ForwardWrite ==
  ASSUME ForwardInv, Write, TypeInv'
  PROVE  ForwardInv'
<1> DEFINE f == Plan(cmd)[at]
<1>1. f \in Artifacts
  BY PlanFiles DEF ForwardInv, TypeInv, TypeOK, Write
<1>2. disk' = [disk EXCEPT ![f] = Content(f)]
  BY DEF Write
<1>3. \A a \in Artifacts : disk'[a] = IF a = f THEN Content(f) ELSE disk[a]
  BY <1>1, <1>2 DEF ForwardInv, TypeInv, TypeOK
<1>4. UNCHANGED <<world, manifest, cmd, sig, models, snap>> /\ step = "write"
      /\ step' \in {"write", "stamp"}
  BY DEF Write
<1>5. sig = world => Content(f) \subseteq {world}
  BY <1>1, <1>4 DEF ForwardInv, Content, Artifacts
<1>6. NeverAhead'
  BY <1>4 DEF ForwardInv, NeverAhead
<1>7. TrueFor(manifest.stamps, world)'
  <2> SUFFICES ASSUME NEW a \in Artifacts, manifest.stamps[a] = world,
                      NEW b \in SpeaksFor(a)
               PROVE  disk'[b] \subseteq {world}
    BY <1>4 DEF TrueFor, SpeaksFor
  <2>1. sig = world
    BY <1>4, Numbers DEF ForwardInv, TypeInv, NeverAhead
  <2>2. b \in Artifacts
    BY DEF SpeaksFor
  <2>3. disk[b] \subseteq {world}
    BY DEF ForwardInv, TrueFor
  <2> QED BY <1>3, <1>5, <2>1, <2>2, <2>3
<1>8. (sig = world => \A a \in Written : disk[a] \subseteq {world})'
  <2> SUFFICES ASSUME sig = world, NEW a \in Written'
               PROVE  disk'[a] \subseteq {world}
    BY <1>4
  <2>1. a \in Written \cup {f}
    BY WrittenGrows DEF ForwardInv
  <2>2. Written \subseteq Artifacts
    <3>1. cmd \in Commands /\ at \in 1..Len(Plan(cmd)) /\ Len(Plan(cmd)) \in 0..5
      BY <1>4, PlanFiles DEF ForwardInv, TypeInv, TypeOK
    <3>2. \A i \in 1..(at - 1) : Plan(cmd)[i] \in Artifacts
      BY <3>1, PlanFiles
    <3> QED BY <1>4, <3>2 DEF Written, FirstFiles
  <2>3. CASE a = f
    BY <1>1, <1>3, <1>5, <2>3
  <2>4. CASE a # f
    BY <1>3, <2>1, <2>2, <2>4 DEF ForwardInv
  <2> QED BY <2>3, <2>4
<1>9. (step = "write" /\ sig = world => \A s \in Stages : models[s] \subseteq {world})'
  BY <1>4 DEF ForwardInv
<1> QED
  BY <1>4, <1>6, <1>7, <1>8, <1>9 DEF ForwardInv

LEMMA ForwardStamp ==
  ASSUME ForwardInv, Stamp, TypeInv'
  PROVE  ForwardInv'
<1>1. /\ UNCHANGED <<world, disk, cmd, sig, models, at, snap>>
      /\ step = "stamp" /\ step' = "exit"
  BY DEF Stamp
<1>2. manifest'.signature = manifest.signature
  BY DEF Stamp, ForwardInv, TypeInv, TypeOK, Manifests
<1>3. \A a \in Artifacts :
        \/ manifest'.stamps[a] = manifest.stamps[a]
        \/ a \in Stamped(cmd) /\ manifest'.stamps[a] = sig
  BY DEF Stamp, ForwardInv, TypeInv, TypeOK, Manifests
<1>4. NeverAhead'
  BY <1>1, <1>2, <1>3 DEF ForwardInv, NeverAhead
<1>5. TrueFor(manifest.stamps, world)'
  <2> SUFFICES ASSUME NEW a \in Artifacts, manifest'.stamps[a] = world,
                      NEW b \in SpeaksFor(a)
               PROVE  disk[b] \subseteq {world}
    BY <1>1 DEF TrueFor, SpeaksFor
  <2>1. CASE manifest.stamps[a] = world
    BY <2>1 DEF ForwardInv, TrueFor
  <2>2. CASE a \in Stamped(cmd) /\ sig = world
    <3>1. b \in Stamped(cmd)
      BY <2>2, PacketPlansAreFull DEF SpeaksFor, ForwardInv, TypeInv, TypeOK
    <3> QED BY <1>1, <2>2, <3>1 DEF ForwardInv, Written
  <2> QED BY <1>3, <2>1, <2>2
<1> QED
  BY <1>1, <1>4, <1>5 DEF ForwardInv, Written

LEMMA ForwardCompose ==
  ASSUME ForwardInv, Compose, TypeInv'
  PROVE  ForwardInv'
<1>1. /\ UNCHANGED <<world, disk, manifest, cmd, sig, snap>>
      /\ step = "compose" /\ step' \in {"write", "exit"} /\ at' = 1
      /\ models' = Composed
  BY DEF Compose
<1>2. NeverAhead'
  BY <1>1 DEF ForwardInv, NeverAhead
<1>3. TrueFor(manifest.stamps, world)'
  BY <1>1 DEF ForwardInv, TrueFor
<1>4. Written' = {}
  <2>1. 1..(at' - 1) = {}
    BY <1>1
  <2>2. CASE step' = "write"
    <3>1. Written' = FirstFiles(cmd', at' - 1)
      BY <2>2 DEF Written
    <3> QED BY <2>1, <3>1 DEF FirstFiles
  <2>3. CASE step' = "exit"
    BY <2>3 DEF Written
  <2> QED BY <1>1, <2>2, <2>3
<1>5. (step = "write" /\ sig = world => \A s \in Stages : models[s] \subseteq {world})'
  <2> SUFFICES ASSUME sig = world
               PROVE  \A s \in Stages : Composed[s] \subseteq {world}
    BY <1>1
  <2>1. \A a \in Stages : Loaded(a) \subseteq {sig}
    BY <1>1, LoadedIsTrue DEF ForwardInv, TypeInv, Artifacts
  <2> QED BY <1>1, <2>1, ComposedIsFresh DEF ForwardInv, TypeInv, Collected
<1> QED
  BY <1>1, <1>2, <1>3, <1>4, <1>5 DEF ForwardInv

\* What is stamped below a version that is about to become current.
LEMMA ForwardEdit ==
  ASSUME ForwardInv, ~returned', NEW v \in Versions, Edit(v), TypeInv'
  PROVE  ForwardInv'
<1>2. v \in Nat
  BY PipelineAssumption DEF PipelineAssumption
<1>2a. /\ UNCHANGED <<disk, manifest, step, cmd, sig, models, at, snap>>
       /\ v # world /\ world' = v /\ ~(v < world)
  BY Zenon DEF Edit
<1>1. /\ UNCHANGED <<disk, manifest, step, cmd, sig, models, at, snap>>
      /\ v > world /\ world' = v
  BY <1>2, <1>2a, Numbers DEF ForwardInv, TypeInv
<1>3. /\ world \in Nat /\ sig \in Nat
      /\ manifest.signature \in Nat /\ snap.manifest.signature \in Nat
      /\ \A a \in Artifacts : /\ manifest.stamps[a] \in Nat
                              /\ snap.manifest.stamps[a] \in Nat
  BY Numbers DEF ForwardInv, TypeInv
<1>4. sig < v /\ \A a \in Artifacts : /\ manifest.stamps[a] < v
                                      /\ snap.manifest.stamps[a] < v
  BY <1>1, <1>2, <1>3 DEF ForwardInv, NeverAhead
<1>5. NeverAhead'
  BY <1>1, <1>2, <1>3 DEF ForwardInv, NeverAhead
<1>6. TrueFor(manifest.stamps, v) /\ TrueFor(snap.manifest.stamps, v)
  BY <1>2, <1>3, <1>4, BelowIsTrue
<1>7. SnapTrue(v)
  BY <1>2, <1>3, <1>4, <1>6 DEF SnapTrue, Artifacts
<1>8. TrueFor(manifest.stamps, world)' /\ SnapTrue(world)'
  BY <1>1, <1>6, <1>7 DEF TrueFor, SnapTrue
<1>9. (step \in {"decide", "compose"} => TrueFor(manifest.stamps, sig))'
      /\ (step = "decide" => SnapTrue(sig))'
  BY <1>1 DEF ForwardInv, TrueFor, SnapTrue
<1>10. sig' # world'
  BY <1>1, <1>2, <1>3, <1>4
<1> QED
  BY <1>5, <1>8, <1>9, <1>10 DEF ForwardInv

\* Killing an invocation, or ending it, leaves nothing behind but the files: if
\* the stamps are still true of the current version, all is well.
LEMMA ForwardGone ==
  ASSUME ForwardInv, Gone, UNCHANGED world, TypeInv',
         \/ UNCHANGED <<disk, manifest>>
         \/ UNCHANGED disk /\ manifest' = NoManifest
         \/ /\ UNCHANGED manifest
            /\ \A a \in Artifacts : disk'[a] \subseteq disk[a]
  PROVE  ForwardInv'
<1>1. /\ sig' = 0 /\ step' = "idle" /\ cmd' = "collect" /\ snap' = NoSnap
      /\ world' = world
  BY DEF Gone
<1>2. /\ world \in Nat /\ world > 0
      /\ NoManifest.signature = 0
      /\ \A a \in Artifacts : NoManifest.stamps[a] = 0
      /\ NoSnap.manifest = NoManifest
  BY Numbers DEF ForwardInv, TypeInv, NoManifest, Unstamped, NoSnap
<1>3. NeverAhead'
  BY <1>1, <1>2 DEF ForwardInv, NeverAhead
<1>4. TrueFor(manifest.stamps, world)'
  BY <1>1, <1>2 DEF ForwardInv, TrueFor, SpeaksFor
<1> QED
  BY <1>1, <1>2, <1>3, <1>4 DEF ForwardInv, Written

LEMMA ForwardNext ==
  ASSUME ~returned', ForwardInv, [Next]_vars
  PROVE  ForwardInv'
<1>0. TypeInv'
  BY TypeNext DEF ForwardInv
<1>1. ASSUME NEW c \in Commands, Start(c) PROVE ForwardInv'
  <2>1. /\ UNCHANGED <<world, disk, manifest, sig, models, at, snap>>
        /\ step' \in {"snapshot", "collect"} /\ cmd' = c
        /\ cmd' = "cached" => step' = "snapshot"
    BY <1>1 DEF Start
  <2>2. NeverAhead'
    BY <2>1 DEF ForwardInv, NeverAhead
  <2> QED BY <1>0, <2>1, <2>2 DEF ForwardInv, TrueFor, Written
<1>2. CASE Snapshot
  <2>1. /\ UNCHANGED <<world, disk, manifest, cmd, sig, models, at>>
        /\ step' = "collect"
        /\ snap'.manifest = manifest /\ snap'.packet = disk["packet"]
    BY <1>2 DEF Snapshot
  <2>2. NeverAhead'
    BY <2>1 DEF ForwardInv, NeverAhead
  <2>3. SnapTrue(world)'
    BY <2>1 DEF ForwardInv, SnapTrue, TrueFor, SpeaksFor, Artifacts
  <2> QED BY <1>0, <2>1, <2>2, <2>3 DEF ForwardInv, TrueFor, Written
<1>3. CASE Collect
  <2>1. /\ UNCHANGED <<world, disk, cmd, models, at, snap>>
        /\ sig' = world /\ manifest'.signature = world
        /\ manifest'.stamps = manifest.stamps
        /\ step = "collect" /\ step' \in {"exit", "decide", "compose"}
        /\ step' = "decide" => cmd = "cached"
    BY <1>3 DEF Collect
  <2>2. NeverAhead'
    BY <2>1, Numbers DEF ForwardInv, NeverAhead, TypeInv
  <2>3. step' = "decide" => SnapTrue(world)
    BY <2>1 DEF ForwardInv
  <2>4. TrueFor(manifest.stamps, world)' /\ TrueFor(manifest.stamps, sig)'
    BY <2>1 DEF ForwardInv, TrueFor
  <2>5. (step = "decide" => SnapTrue(sig) /\ SnapTrue(world))'
    BY <2>1, <2>3 DEF SnapTrue, TrueFor
  <2> QED BY <1>0, <2>1, <2>2, <2>4, <2>5 DEF ForwardInv, Written
<1>4. CASE ReuseCache
  <2>1. /\ UNCHANGED <<world, disk, cmd, sig, models, at, snap>>
        /\ manifest' = snap.manifest /\ step = "decide" /\ step' = "exit"
    BY <1>4 DEF ReuseCache
  <2>2. NeverAhead'
    BY <2>1 DEF ForwardInv, NeverAhead
  <2> QED BY <1>0, <2>1, <2>2 DEF ForwardInv, SnapTrue, TrueFor, Written
<1>5. CASE Regenerate
  <2>1. /\ UNCHANGED <<world, disk, manifest, cmd, sig, models, at, snap>>
        /\ step = "decide" /\ step' = "compose"
    BY <1>5 DEF Regenerate
  <2>2. NeverAhead'
    BY <2>1 DEF ForwardInv, NeverAhead
  <2> QED BY <1>0, <2>1, <2>2 DEF ForwardInv, TrueFor, Written
<1>6. CASE Compose
  BY <1>0, <1>6, ForwardCompose
<1>7. CASE Write
  BY <1>0, <1>7, ForwardWrite
<1>8. CASE Stamp
  BY <1>0, <1>8, ForwardStamp
<1>9. CASE Exit
  BY <1>0, <1>9, ForwardGone DEF Exit
<1>10. CASE Abort
  BY <1>0, <1>10, ForwardGone DEF Abort
<1>11. CASE Crash
  BY <1>0, <1>11, ForwardGone DEF Crash
<1>12. CASE CrashWritingArtifact
  <2>1. \A a \in Artifacts : disk'[a] \subseteq disk[a]
    BY <1>12 DEF CrashWritingArtifact, ForwardInv, TypeInv, TypeOK
  <2> QED BY <1>0, <1>12, <2>1, ForwardGone DEF CrashWritingArtifact
<1>13. CASE CrashWritingManifest
  BY <1>0, <1>13, ForwardGone DEF CrashWritingManifest
<1>14. ASSUME NEW v \in Versions, Edit(v) PROVE ForwardInv'
  BY <1>0, <1>14, ForwardEdit
<1>15. CASE UNCHANGED vars
  <2>1. NeverAhead'
    BY <1>15 DEF vars, ForwardInv, NeverAhead
  <2>2. Written' = Written
    BY <1>15 DEF vars, Written, FirstFiles, Stamped, Plan
  <2> QED BY <1>0, <1>15, <2>1, <2>2 DEF vars, ForwardInv, TrueFor, SnapTrue
<1> QED
  BY <1>1, <1>2, <1>3, <1>4, <1>5, <1>6, <1>7, <1>8, <1>9, <1>10, <1>11, <1>12,
     <1>13, <1>14, <1>15 DEF Next

\* What the invariant says of a run that is about to reuse something.
LEMMA ForwardReuse ==
  ASSUME ForwardInv
  PROVE  ReuseIsFresh /\ HitIsFresh /\ GateIsOfThisRun
<1>1. ReuseIsFresh
  <2> SUFFICES ASSUME step = "compose", NEW a \in Composes(cmd)
               PROVE  Loaded(a) \subseteq {sig}
    BY DEF ReuseIsFresh
  <2>1. a \in Artifacts
    BY DEF Composes, Artifacts, Stages
  <2> QED BY <2>1, LoadedIsTrue DEF ForwardInv, TypeInv
<1>2. HitIsFresh
  <2> SUFFICES ASSUME step = "decide", IsCacheHit PROVE snap.packet = {sig}
    BY DEF HitIsFresh
  <2>1. snap.packet \subseteq {sig} /\ snap.packet # {}
    BY DEF ForwardInv, SnapTrue, IsCacheHit
  <2> QED BY <2>1
<1>3. GateIsOfThisRun
  BY DEF GateIsOfThisRun, ForwardInv, SnapTrue, TrueFor, SpeaksFor, IsCacheHit,
         Artifacts, Stages
<1> QED BY <1>1, <1>2, <1>3

\* Once the inputs have returned, they have returned for good.
LEMMA ReturnedStays == TypeInv /\ [Next]_vars /\ ~returned' => ~returned
BY DEF TypeInv, TypeOK, Next, vars, history, Start, Snapshot, Collect, ReuseCache,
       Regenerate, Compose, Write, Stamp, Exit, Abort, Crash, CrashWritingArtifact,
       CrashWritingManifest, Disturb, Edit

\* As long as the inputs never returned to an earlier version, no command ever
\* composes, reuses or gates on anything but results of exactly the inputs it
\* collected, although invocations may be killed between any two writes, mixed
\* in any order, and have their inputs edited while they run.
THEOREM ForwardReuseIsSafe ==
  Spec => [](~returned => ReuseIsFresh /\ HitIsFresh /\ GateIsOfThisRun)
<1> DEFINE Inv == TypeInv /\ (~returned => ForwardInv)
<1>1. Init => Inv
  BY TypeInit, ForwardInit
<1>2. Inv /\ [Next]_vars => Inv'
  <2> SUFFICES ASSUME Inv, [Next]_vars PROVE Inv'
    OBVIOUS
  <2>1. TypeInv'
    BY TypeNext
  <2>2. ~returned' => ForwardInv'
    BY ReturnedStays, ForwardNext
  <2> QED BY <2>1, <2>2
<1>3. Inv => (~returned => ReuseIsFresh /\ HitIsFresh /\ GateIsOfThisRun)
  BY ForwardReuse
<1> QED BY <1>1, <1>2, <1>3, PTL DEF Spec

\* The gate of `all --cache' is of this run as long as the inputs only move
\* forward: the evaluation a hit is gated on derives from what it collected.
THEOREM GateSafe == Spec => []SafeGate
<1>1. (~returned => ReuseIsFresh /\ HitIsFresh /\ GateIsOfThisRun) => SafeGate
  BY DEF SafeGate
<1> QED BY ForwardReuseIsSafe, <1>1, PTL

-----------------------------------------------------------------------------
(***************************************************************************)
(* Invocations that are not disturbed: none was killed, and none had its   *)
(* inputs edited while it ran.  The inputs may go back and forth.  Then a  *)
(* stamp names exactly the inputs its artifact derives from, except for    *)
(* the files an invocation has written and not yet stamped.                *)
(***************************************************************************)

SteadyInv ==
  /\ TypeInv
  /\ step \in {"decide", "compose", "write", "stamp"} =>
       world = sig /\ manifest.signature = sig
  /\ \A a \in Artifacts \ Written :
       manifest.stamps[a] # 0 => disk[a] = {manifest.stamps[a]}
  /\ \A a \in Written : disk[a] = {sig}
  /\ step = "write" => \A s \in Stages : models[s] = {sig}
  /\ cmd = "cached" /\ step \in {"collect", "decide"} =>
       /\ snap.manifest.stamps = manifest.stamps
       /\ snap.packet = disk["packet"]
  /\ step = "decide" => cmd = "cached"

\* With nothing but current models to build on, a composed model derives from
\* the inputs collected, and from nothing else.
LEMMA ComposedIsExact ==
  ASSUME TypeOK, sig # 0, sig = world,
         \A a \in Stages : Loaded(a) \subseteq {sig}
  PROVE  \A s \in Stages : Composed[s] = {sig}
<1> DEFINE i == Or(Loaded("intent"), Fresh)
           e == Or(Loaded("evaluation"), Fresh \cup i)
           m == Or(Loaded("methodology"), Fresh)
           r == Or(Loaded("risks"), Fresh \cup e \cup m)
<1>1. Fresh = {sig}
  BY DEF Fresh
<1>2. /\ i = {sig} /\ m = {sig}
      /\ \A s \in Stages : Or(Loaded(s), Fresh) = {sig}
  BY <1>1 DEF Or, Stages
<1>3. e = {sig}
  BY <1>1, <1>2 DEF Or, Stages
<1>4. r = {sig}
  BY <1>1, <1>2, <1>3 DEF Or, Stages
<1>5. Fresh \cup i = {sig}
  BY <1>1, <1>2
<1> HIDE DEF i, e, m, r
<1>6. Composed =
        CASE cmd = "evaluate" -> [s \in Stages |-> Fresh \cup i]
          [] cmd = "diagrams" -> [s \in Stages |-> e]
          [] cmd = "handoff" ->
               [s \in Stages |-> CASE s = "intent" -> i [] s = "evaluation" -> e
                                   [] s = "methodology" -> m [] s = "risks" -> r]
          [] cmd = "packet" -> [s \in Stages |-> Or(Loaded(s), Fresh)]
          [] OTHER -> [s \in Stages |-> Fresh]
  BY DEF Composed, i, e, m, r
<1> QED BY <1>1, <1>2, <1>3, <1>4, <1>5, <1>6 DEF Stages

\* Only stamped artifacts are ever written.
LEMMA WrittenFiles ==
  ASSUME TypeInv
  PROVE  Written \subseteq Artifacts
<1>1. CASE step = "write"
  <2>1. cmd \in Commands /\ at \in 1..Len(Plan(cmd)) /\ Len(Plan(cmd)) \in 0..5
    BY <1>1, PlanFiles DEF TypeInv, TypeOK
  <2>2. \A k \in 1..(at - 1) : Plan(cmd)[k] \in Artifacts
    BY <2>1, PlanFiles
  <2> QED BY <1>1, <2>2 DEF Written, FirstFiles
<1>2. CASE step # "write"
  BY <1>2, PlanFiles DEF Written, TypeInv, TypeOK
<1> QED BY <1>1, <1>2

LEMMA SteadyInit == Init => SteadyInv
<1> SUFFICES ASSUME Init PROVE SteadyInv
  OBVIOUS
<1>1. TypeInv
  BY TypeInit
<1> QED BY <1>1 DEF SteadyInv, Init, Written, NoManifest, Unstamped

LEMMA SteadyWrite ==
  ASSUME SteadyInv, Write, TypeInv'
  PROVE  SteadyInv'
<1> DEFINE f == Plan(cmd)[at]
<1>1. f \in Artifacts
  BY PlanFiles DEF SteadyInv, TypeInv, TypeOK, Write
<1>2. UNCHANGED <<world, manifest, cmd, sig, models, snap>> /\ step = "write"
      /\ step' \in {"write", "stamp"} /\ disk' = [disk EXCEPT ![f] = Content(f)]
  BY DEF Write
<1>3. \A a \in Artifacts : disk'[a] = IF a = f THEN Content(f) ELSE disk[a]
  BY <1>1, <1>2 DEF SteadyInv, TypeInv, TypeOK
<1>4. Content(f) = {sig}
  <2>1. UNION {models[s] : s \in Stages} = {sig}
    BY <1>2 DEF SteadyInv, Stages
  <2> QED BY <1>1, <1>2, <2>1 DEF SteadyInv, Content, Artifacts
<1>5. Written' = Written \cup {f}
  BY WrittenGrows DEF SteadyInv
<1>6. Written \subseteq Artifacts
  BY WrittenFiles DEF SteadyInv
<1>7. ASSUME NEW a \in Written' PROVE disk'[a] = {sig}
  <2>1. CASE a = f
    BY <1>1, <1>3, <1>4, <2>1
  <2>2. CASE a # f
    BY <1>3, <1>5, <1>6, <2>2 DEF SteadyInv
  <2> QED BY <2>1, <2>2
<1>8. \A a \in Artifacts \ Written' :
        manifest.stamps[a] # 0 => disk'[a] = {manifest.stamps[a]}
  BY <1>3, <1>5 DEF SteadyInv
<1> QED BY <1>2, <1>7, <1>8 DEF SteadyInv

LEMMA SteadyStamp ==
  ASSUME SteadyInv, Stamp, TypeInv'
  PROVE  SteadyInv'
<1>1. /\ UNCHANGED <<world, disk, cmd, sig, models, at, snap>>
      /\ step = "stamp" /\ step' = "exit"
  BY DEF Stamp
<1>2. manifest.signature # 0
  BY <1>1 DEF SteadyInv, TypeInv, Collected
<1>3. \A a \in Artifacts :
        manifest'.stamps[a] = IF a \in Stamped(cmd) THEN sig ELSE manifest.stamps[a]
  BY <1>2 DEF Stamp, SteadyInv, TypeInv, TypeOK, Manifests
<1>4. Written = Stamped(cmd) /\ Written' = {}
  BY <1>1 DEF Written
<1>5. \A a \in Artifacts :
        manifest'.stamps[a] # 0 => disk[a] = {manifest'.stamps[a]}
  BY <1>3, <1>4 DEF SteadyInv
<1> QED BY <1>1, <1>4, <1>5 DEF SteadyInv

LEMMA SteadyCompose ==
  ASSUME SteadyInv, Compose, TypeInv'
  PROVE  SteadyInv'
<1>1. /\ UNCHANGED <<world, disk, manifest, cmd, sig, snap>>
      /\ step = "compose" /\ step' \in {"write", "exit"} /\ at' = 1
      /\ models' = Composed
  BY DEF Compose
<1>2. Written = {}
  BY <1>1 DEF Written
<1>3. Written' = {}
  <2>1. 1..(at' - 1) = {}
    BY <1>1
  <2>2. CASE step' = "write"
    <3>1. Written' = FirstFiles(cmd', at' - 1)
      BY <2>2 DEF Written
    <3> QED BY <2>1, <3>1 DEF FirstFiles
  <2>3. CASE step' = "exit"
    BY <2>3 DEF Written
  <2> QED BY <1>1, <2>2, <2>3
<1>4. \A a \in Stages : Loaded(a) \subseteq {sig}
  BY <1>1, <1>2 DEF SteadyInv, Loaded, IsCurrent, Artifacts
<1>5. \A s \in Stages : Composed[s] = {sig}
  BY <1>1, <1>4, ComposedIsExact DEF SteadyInv, TypeInv, Collected
<1> QED BY <1>1, <1>2, <1>3, <1>5 DEF SteadyInv

LEMMA SteadyNext ==
  ASSUME ~disturbed', SteadyInv, [Next]_vars
  PROVE  SteadyInv'
<1>0. TypeInv'
  BY TypeNext DEF SteadyInv
<1>1. ASSUME NEW c \in Commands, Start(c) PROVE SteadyInv'
  <2>1. /\ UNCHANGED <<world, disk, manifest, sig, models, at, snap>>
        /\ step = "idle" /\ step' \in {"snapshot", "collect"} /\ cmd' = c
        /\ cmd' = "cached" => step' = "snapshot"
    BY <1>1 DEF Start
  <2> QED BY <1>0, <2>1 DEF SteadyInv, Written
<1>2. CASE Snapshot
  BY <1>0, <1>2 DEF Snapshot, SteadyInv, Written
<1>3. CASE Collect
  <2>1. /\ UNCHANGED <<world, disk, cmd, models, at, snap>>
        /\ sig' = world /\ manifest'.signature = world
        /\ manifest'.stamps = manifest.stamps
        /\ step = "collect" /\ step' \in {"exit", "decide", "compose"}
        /\ step' = "decide" => cmd = "cached"
    BY <1>3 DEF Collect
  <2> QED BY <1>0, <2>1 DEF SteadyInv, Written
<1>4. CASE ReuseCache
  BY <1>0, <1>4 DEF ReuseCache, SteadyInv, Written
<1>5. CASE Regenerate
  BY <1>0, <1>5 DEF Regenerate, SteadyInv, Written
<1>6. CASE Compose
  BY <1>0, <1>6, SteadyCompose
<1>7. CASE Write
  BY <1>0, <1>7, SteadyWrite
<1>8. CASE Stamp
  BY <1>0, <1>8, SteadyStamp
<1>9. CASE Exit \/ Abort
  <2>1. /\ UNCHANGED <<world, disk, manifest>> /\ step' = "idle"
        /\ cmd' = "collect"
        /\ step \in {"snapshot", "collect", "decide", "compose", "exit"}
    BY <1>9 DEF Exit, Abort, Gone
  <2> QED BY <1>0, <2>1 DEF SteadyInv, Written
<1>10. CASE Crash \/ CrashWritingArtifact \/ CrashWritingManifest
  BY <1>10 DEF Crash, CrashWritingArtifact, CrashWritingManifest, Disturb
<1>11. ASSUME NEW v \in Versions, Edit(v) PROVE SteadyInv'
  <2>1. /\ UNCHANGED <<disk, manifest, step, cmd, sig, models, at, snap>>
        /\ step = "idle"
    BY <1>11, Zenon DEF Edit
  <2> QED BY <1>0, <2>1 DEF SteadyInv, Written
<1>12. CASE UNCHANGED vars
  <2>1. Written' = Written
    BY <1>12 DEF vars, Written, FirstFiles, Stamped, Plan
  <2> QED BY <1>0, <1>12, <2>1 DEF vars, SteadyInv
<1> QED
  BY <1>1, <1>2, <1>3, <1>4, <1>5, <1>6, <1>7, <1>8, <1>9, <1>10, <1>11, <1>12
  DEF Next

\* What the invariant says of what is reused, and of the stamps.
LEMMA SteadyReuse ==
  ASSUME SteadyInv
  PROVE  ReuseIsFresh /\ HitIsFresh /\ ProvenanceIsTrue
<1>1. ReuseIsFresh
  <2> SUFFICES ASSUME step = "compose", NEW a \in Composes(cmd)
               PROVE  Loaded(a) \subseteq {sig}
    BY DEF ReuseIsFresh
  <2>1. a \in Artifacts
    BY DEF Composes, Artifacts, Stages
  <2> QED BY <2>1 DEF SteadyInv, Written, Loaded, IsCurrent
<1>2. HitIsFresh
  <2> SUFFICES ASSUME step = "decide", IsCacheHit PROVE snap.packet = {sig}
    BY DEF HitIsFresh
  <2>1. manifest.stamps["packet"] = sig /\ sig # 0
        /\ snap.packet = disk["packet"]
    BY DEF IsCacheHit, SteadyInv, TypeInv, Collected
  <2> QED BY <2>1 DEF SteadyInv, Written, Artifacts
<1>3. ProvenanceIsTrue
  BY DEF ProvenanceIsTrue, SteadyInv, Written
<1> QED BY <1>1, <1>2, <1>3

\* An invocation once disturbed stays on record.
LEMMA DisturbedStays == TypeInv /\ [Next]_vars /\ ~disturbed' => ~disturbed
BY DEF TypeInv, TypeOK, Next, vars, history, Start, Snapshot, Collect, ReuseCache,
       Regenerate, Compose, Write, Stamp, Exit, Abort, Crash, CrashWritingArtifact,
       CrashWritingManifest, Disturb, Edit

\* As long as no invocation was killed or had its inputs edited under it, what
\* is reused is fresh and every stamp is true, whatever versions the inputs move
\* between and in whatever order commands are mixed.
THEOREM SteadyReuseIsSafe ==
  Spec => [](~disturbed => ReuseIsFresh /\ HitIsFresh /\ ProvenanceIsTrue)
<1> DEFINE Inv == TypeInv /\ (~disturbed => SteadyInv)
<1>1. Init => Inv
  BY TypeInit, SteadyInit
<1>2. Inv /\ [Next]_vars => Inv'
  <2> SUFFICES ASSUME Inv, [Next]_vars PROVE Inv'
    OBVIOUS
  <2>1. TypeInv'
    BY TypeNext
  <2>2. ~disturbed' => SteadyInv'
    BY DisturbedStays, SteadyNext
  <2> QED BY <2>1, <2>2
<1>3. Inv => (~disturbed => ReuseIsFresh /\ HitIsFresh /\ ProvenanceIsTrue)
  BY SteadyReuse
<1> QED BY <1>1, <1>2, <1>3, PTL DEF Spec

\* What a stage composes is fresh as long as the inputs only move forward or no
\* invocation was disturbed.
THEOREM ReuseSafe == Spec => []SafeReuse
<1>1. (~returned => ReuseIsFresh /\ HitIsFresh /\ GateIsOfThisRun)
      /\ (~disturbed => ReuseIsFresh /\ HitIsFresh /\ ProvenanceIsTrue)
      => SafeReuse
  BY DEF SafeReuse
<1> QED BY ForwardReuseIsSafe, SteadyReuseIsSafe, <1>1, PTL

\* A packet that `all --cache' reuses is fresh under the same condition.
THEOREM HitSafe == Spec => []SafeHit
<1>1. (~returned => ReuseIsFresh /\ HitIsFresh /\ GateIsOfThisRun)
      /\ (~disturbed => ReuseIsFresh /\ HitIsFresh /\ ProvenanceIsTrue)
      => SafeHit
  BY DEF SafeHit
<1> QED BY ForwardReuseIsSafe, SteadyReuseIsSafe, <1>1, PTL

\* Between two invocations every stamp is true as long as none was disturbed.
THEOREM ProvenanceSafe == Spec => []TrueProvenance
<1>1. (~disturbed => ReuseIsFresh /\ HitIsFresh /\ ProvenanceIsTrue)
      => TrueProvenance
  BY DEF TrueProvenance
<1> QED BY SteadyReuseIsSafe, <1>1, PTL
=============================================================================
