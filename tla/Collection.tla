----------------------------- MODULE Collection -----------------------------
(***************************************************************************)
(* Collecting the inputs of a review from a repository that others go on   *)
(* changing: the references are pinned, the working tree is read several   *)
(* times, ignored paths and the tool's own files are left out, and a       *)
(* signature names what was read.  A strict collection, for the agreement  *)
(* audit, fails unless the tree is clean before and after.                 *)
(*                                                                         *)
(* A tree maps a file to the version of its content, 0 without one; equal  *)
(* contents at two paths make a rename.  Everything that is not committed  *)
(* is either staged or not.                                                *)
(***************************************************************************)
EXTENDS Integers, Sequences, FiniteSets

CONSTANTS
  RepoFiles, Specs,
  NameRank,                \* the order of the names
  Ignored, Artifact,   \* by the privacy file; of the tool itself
  Histories,           \* sequences of trees: the commits, the base first
  Trees,               \* working trees at the start
  Modes,               \* [current, strict, head, conversation]: the head is checked out or a commit
  MayEdit, MayDelete, MayMove,  \* what others may do to the working tree; MayMove holds pairs
  UntrackedCap, MaxTouches, MaxCollections

ASSUME CollectionAssumption ==
  /\ "none" \notin RepoFiles /\ Specs \cup Ignored \cup Artifact \cup MayEdit \cup MayDelete \subseteq RepoFiles
  /\ MayMove \subseteq RepoFiles \X RepoFiles
  /\ \A h \in Histories : h \in Seq([RepoFiles -> Nat])
  /\ \A t \in Trees : t \in [RepoFiles -> Nat]
  /\ Modes \subseteq [current : BOOLEAN, strict : BOOLEAN, head : Nat, conversation : BOOLEAN]
  /\ \A m \in Modes, h \in Histories : m.head \in 1..Len(h)

VARIABLES
  colStage, \* "idle", "pinned", "indexed", "listed", "patched", "hashed", "failed"
  mode,
  commits, tree, staged, conversation, \* the repository and the conversation, as they are now
  pin,      \* [base, head]: commits
  got,      \* what this collection has read
  seen,     \* [signature, content] of the collections that ended
  touches, raced, replaced  \* changes by others, whether one fell into this collection, versions overwritten

colVars == <<colStage, mode, commits, tree, staged, conversation, pin, got, seen, touches, raced, replaced>>

NothingRead ==
  [conversation |-> 0, specs |-> <<>>, status |-> {}, untracked |-> {}, omitted |-> {}, changed |-> {},
   dropped |-> {}, patch |-> {}, hashes |-> {}]

CollectionInit ==
  /\ colStage = "idle" /\ mode \in Modes /\ commits \in Histories /\ tree \in Trees /\ staged \in BOOLEAN
  /\ conversation = 1 /\ pin = [base |-> 1, head |-> 1] /\ got = NothingRead /\ seen = {}
  /\ touches = 0 /\ raced = FALSE /\ replaced = {}

HeadTree == commits[Len(commits)]

-----------------------------------------------------------------------------
(* What Git reports *)

\* A file that is gone, and another with its content that was not there; of two files gone
\* with one content Git takes one, the model neither.
Moves(old, new) ==
  LET pairs == {p \in RepoFiles \X RepoFiles : /\ old[p[1]] # 0 /\ new[p[1]] = 0
                                      /\ old[p[2]] = 0 /\ new[p[2]] = old[p[1]]}
  IN {p \in pairs : \A q \in pairs : q[2] = p[2] => q = p}

\* A path that both trees lack is in no entry, one that moved is in that of its destination.
NameStatus(old, new, renames) ==
  LET moved == IF renames THEN Moves(old, new) ELSE {}
      Entry(f, s, o) == [path |-> f, status |-> s, old |-> o]
  IN {Entry(p[2], "R", p[1]) : p \in moved}
     \cup {Entry(f, IF old[f] = 0 THEN "A" ELSE IF new[f] = 0 THEN "D" ELSE "M", "none") :
             f \in {x \in RepoFiles : old[x] # new[x] /\ \A p \in moved : x # p[1] /\ x # p[2]}}

\* An addition that is not staged is untracked, and no rename is seen.
PorcelainStatus(head, now, isStaged) ==
  {IF e.status = "A" /\ ~isStaged THEN [e EXCEPT !.status = "??"] ELSE e : e \in NameStatus(head, now, isStaged)}

\* The sections of a patch: [path, old, from, to].
Sections(old, new, renames) ==
  {[path |-> e.path, old |-> e.old, from |-> old[IF e.old = "none" THEN e.path ELSE e.old], to |-> new[e.path]] :
     e \in NameStatus(old, new, renames)}

\* What is staged or tracked, then the selected untracked files.
WorkingSections(head, now, isStaged, untracked) ==
  {s \in Sections(head, now, isStaged) : s.from # 0 \/ isStaged}
    \cup {[path |-> f, old |-> "none", from |-> 0, to |-> now[f]] : f \in untracked}

-----------------------------------------------------------------------------
(* The collection *)

IsExcluded(f) == f \in Artifact \/ f \in Ignored

\* Defect: the source of a rename is forgotten.
MutHasReviewableWorkingTreeChanges(status) == \E e \in status : ~IsExcluded(e.path)

HasReviewableWorkingTreeChanges(status) ==
  \E e \in status : ~IsExcluded(e.path) \/ (e.old # "none" /\ ~IsExcluded(e.old))

Untracked(status) == {e.path : e \in {x \in status : x.status = "??" /\ ~IsExcluded(x.path)}}

\* The first of them by name, up to the cap.
SelectUntrackedFiles(status) ==
  {f \in Untracked(status) : Cardinality({g \in Untracked(status) : NameRank[g] < NameRank[f]}) < UntrackedCap}

Fail == colStage' = "failed" /\ UNCHANGED <<mode, commits, tree, staged, conversation, pin, got, seen, touches, raced, replaced>>
World == UNCHANGED <<mode, commits, tree, staged, conversation, touches, replaced>>

\* The conversation is read once; its hash is that of the bytes that were parsed.
Pin ==
  /\ colStage = "idle" /\ Cardinality(seen) < MaxCollections
  /\ IF mode.strict /\ conversation = 0 THEN Fail
     ELSE /\ colStage' = "pinned" /\ pin' = [base |-> 1, head |-> IF mode.current THEN Len(commits) ELSE mode.head]
          /\ got' = [NothingRead EXCEPT !.conversation = IF mode.conversation THEN conversation ELSE 0]
          /\ raced' = FALSE /\ UNCHANGED seen /\ World

\* Specifications and the status are read from the working tree.
Index ==
  LET status == IF mode.current THEN PorcelainStatus(HeadTree, tree, staged) ELSE {}
  IN /\ colStage = "pinned" /\ colStage' = "indexed"
     /\ got' = [got EXCEPT !.specs = [f \in Specs \ Ignored |-> tree[f]], !.status = status,
                           !.untracked = SelectUntrackedFiles(status),
                           !.omitted = Untracked(status) \ SelectUntrackedFiles(status)]
     /\ UNCHANGED <<pin, seen, raced>> /\ World

ShouldPreserveRangeStatus(range, status) == range \in {"R", "D"} \/ (range = "A" /\ status # "D")

Changed(e, source) == [path |-> e.path, status |-> e.status, old |-> e.old, source |-> source]

\* An entry of the range with what the status says of its path.
Merged(r, e) ==
  [path |-> r.path, source |-> "working_tree",
   status |-> IF ShouldPreserveRangeStatus(r.status, e.status) THEN r.status ELSE e.status,
   old |-> IF e.old # "none" THEN e.old ELSE r.old]

\* Entries of the range, merged where they can be; then what only the status has, if it
\* is not left out and still there.
Listed(range, status, untracked, now) ==
  LET usable == {e \in status : e.status = "??" => e.path \in untracked}
  IN {Changed(r, "diff") : r \in {x \in range : \A e \in usable : e.path # x.path}}
     \cup {Merged(p[1], p[2]) : p \in {q \in range \X usable : q[1].path = q[2].path}}
     \cup {Changed(e, "working_tree") : e \in {x \in usable : /\ \A r \in range : r.path # x.path
                                                              /\ ~IsExcluded(x.path)
                                                              /\ x.status = "D" \/ now[x.path] # 0}}

\* Defect: only the path of a file is looked at, not the one it came from.
MutReviewable(all) == {c \in all : c.path \notin Ignored}

\* An ignored file is left out, and an ignored source of a rename is not named.
Reviewable(all) ==
  {IF c.old \in Ignored THEN [c EXCEPT !.old = "none"] ELSE c : c \in {x \in all : x.path \notin Ignored}}

List ==
  LET all == Listed(NameStatus(commits[pin.base], commits[pin.head], TRUE), got.status, got.untracked, tree)
  IN /\ colStage = "indexed"
     /\ IF mode.strict /\ HasReviewableWorkingTreeChanges(got.status) THEN Fail
        ELSE /\ colStage' = "listed"
             /\ got' = [got EXCEPT !.changed = Reviewable(all),
                                   !.dropped = {f \in Ignored : \E c \in all \cup got.status : c.path = f}]
             /\ UNCHANGED <<pin, seen, raced>> /\ World

\* A section that names an ignored path, or one of the tool's own that is not reviewed,
\* is dropped whole.
FilterIgnoredDiff(sections, reviewed) ==
  LET Names(s) == {s.path, s.old} \ {"none"}
  IN {s \in sections : Names(s) \cap Ignored = {} /\ \A f \in Names(s) : f \in Artifact => f \in reviewed}

\* The tree is read again; each untracked file must still be there.
Patch ==
  LET range == Sections(commits[pin.base], commits[pin.head], TRUE)
      all == range \cup (IF mode.current THEN WorkingSections(HeadTree, tree, staged, got.untracked) ELSE {})
  IN /\ colStage = "listed"
     /\ IF \E f \in got.untracked : tree[f] = 0 THEN Fail
        ELSE /\ colStage' = "patched"
             /\ got' = [got EXCEPT !.patch = FilterIgnoredDiff(all, {c.path : c \in got.changed} \cup got.dropped)]
             /\ UNCHANGED <<pin, seen, raced>> /\ World

\* Defect: a deleted file is not in the signature.
MutHashChangedFiles(changed, of) ==
  {<<c.path, c.status, c.old, of[c.path]>> : c \in {x \in changed : of[x.path] # 0}}

\* 0 for a file that is missing.
HashChangedFiles(changed, of) == {<<c.path, c.status, c.old, of[c.path]>> : c \in changed}

HashSpecs(of) == {<<f, "spec", "none", of[f]>> : f \in Specs \ Ignored}

\* The working tree, or the blobs of a pinned head; specifications are read once more.
Hash ==
  /\ colStage = "patched" /\ colStage' = "hashed"
  /\ got' = [got EXCEPT !.hashes = HashChangedFiles(got.changed, IF mode.current THEN tree ELSE commits[pin.head])
                                   \cup HashSpecs(tree)]
  /\ UNCHANGED <<pin, seen, raced>> /\ World

ComputeSignature ==
  [mode |-> mode, base |-> commits[pin.base], head |-> commits[pin.head], hashes |-> got.hashes,
   conversation |-> got.conversation, omitted |-> got.omitted]

\* What a review is built from; the ignored paths that were left out are only reported.
Content == [got EXCEPT !.hashes = {}, !.status = {}, !.untracked = {}, !.dropped = {}]

\* A strict collection looks at the tree and the head once more.
Finish ==
  /\ colStage = "hashed"
  /\ IF /\ mode.strict /\ mode.current
        /\ HasReviewableWorkingTreeChanges(PorcelainStatus(HeadTree, tree, staged)) \/ Len(commits) # pin.head
     THEN Fail
     ELSE /\ colStage' = "idle"
          /\ seen' = seen \cup {[signature |-> ComputeSignature, mode |-> mode, raced |-> raced, head |-> pin.head,
                                 content |-> Content]}
          /\ UNCHANGED <<pin, got, raced>> /\ World

-----------------------------------------------------------------------------
(* Others change the repository *)

Touch ==
  /\ touches < MaxTouches /\ touches' = touches + 1 /\ raced' = (colStage # "idle")
  /\ UNCHANGED <<colStage, mode, pin, got, seen>>
Fresh == 10 + touches

Rewrite(new) ==
  /\ tree' = new /\ UNCHANGED <<commits, staged, conversation>>
  /\ replaced' = replaced \cup {<<f, tree[f]>> : f \in {x \in RepoFiles : new[x] # tree[x]}}
EditFile(f) == f \in MayEdit /\ Touch /\ Rewrite([tree EXCEPT ![f] = Fresh])
Delete(f) == f \in MayDelete /\ tree[f] # 0 /\ Touch /\ Rewrite([tree EXCEPT ![f] = 0])
Move(p) ==
  tree[p[1]] # 0 /\ tree[p[2]] = 0 /\ Touch /\ Rewrite([tree EXCEPT ![p[1]] = 0, ![p[2]] = tree[p[1]]])
Restore == tree # HeadTree /\ Touch /\ Rewrite(HeadTree)

StageAll == Touch /\ staged' = ~staged /\ UNCHANGED <<commits, tree, conversation, replaced>>
Commit == Touch /\ tree # HeadTree /\ commits' = Append(commits, tree) /\ UNCHANGED <<tree, staged, conversation, replaced>>
Grow == Touch /\ conversation' = conversation + 1 /\ UNCHANGED <<commits, tree, staged, replaced>>

CollectionNext ==
  \/ Pin \/ Index \/ List \/ Patch \/ Hash \/ Finish
  \/ \E f \in RepoFiles : EditFile(f) \/ Delete(f)
  \/ \E p \in MayMove : Move(p)
  \/ StageAll \/ Commit \/ Restore \/ Grow

CollectionSpec == CollectionInit /\ [][CollectionNext]_colVars

Statuses == {"A", "M", "D", "R", "??"}
Entries == [path : RepoFiles, status : Statuses, old : RepoFiles \cup {"none"}]
Changes == [path : RepoFiles, status : Statuses, old : RepoFiles \cup {"none"}, source : {"diff", "working_tree"}]
PatchParts == [path : RepoFiles, old : RepoFiles \cup {"none"}, from : Nat, to : Nat]
Hashes == RepoFiles \X (Statuses \cup {"spec"}) \X (RepoFiles \cup {"none"}) \X Nat
Readings ==
  [conversation : Nat, specs : {<<>>} \cup [Specs \ Ignored -> Nat], status : SUBSET Entries,
   untracked : SUBSET RepoFiles, omitted : SUBSET RepoFiles, changed : SUBSET Changes, dropped : SUBSET Ignored,
   patch : SUBSET PatchParts, hashes : SUBSET Hashes]
Signatures ==
  [mode : Modes, base : [RepoFiles -> Nat], head : [RepoFiles -> Nat], hashes : SUBSET Hashes, conversation : Nat,
   omitted : SUBSET RepoFiles]

CollectionTypeOK ==
  /\ colStage \in {"idle", "pinned", "indexed", "listed", "patched", "hashed", "failed"}
  /\ mode \in Modes /\ staged \in BOOLEAN /\ conversation \in Nat
  /\ commits \in Seq([RepoFiles -> Nat]) /\ tree \in [RepoFiles -> Nat]
  /\ mode.head \in 1..Len(commits) /\ pin.base = 1 /\ pin.head \in 1..Len(commits)
  /\ got \in Readings /\ touches \in Nat /\ raced \in BOOLEAN
  /\ \A s \in seen : /\ s \in [signature : Signatures, mode : Modes, raced : BOOLEAN, head : Nat, content : Readings]
                     /\ s.head \in 1..Len(commits)

-----------------------------------------------------------------------------
\* No artifact of any collection shows an ignored file: not as a changed file, not as the
\* source of one, not in the patch, wherever it was moved, committed, staged or neither.
IgnoredNeverShown ==
  \A c \in {got} \cup {s.content : s \in seen} :
    /\ \A x \in c.changed : {x.path, x.old} \cap Ignored = {}
    /\ \A s \in c.patch : {s.path, s.old} \cap Ignored = {}

\* What a strict collection of the checked-out head returns is of the commit it pinned,
\* however others worked meanwhile, except for a version they wrote and had replaced
\* again before it ended; it lists nothing from the working tree.
StrictEvidenceIsTheCommits ==
  \A s \in seen : s.mode.strict /\ s.mode.current =>
    LET at == commits[s.head]
        Of(f, v) == v = at[f] \/ <<f, v>> \in replaced
    IN /\ \A f \in DOMAIN s.content.specs : f \in Artifact \/ Of(f, s.content.specs[f])
       /\ \A x \in s.content.patch : x.path \in Artifact \/ Of(x.path, x.to)
       /\ \A x \in s.content.changed : x.path \in Artifact \/ x.source = "diff"

\* A review of a pinned head lists and shows the range alone, whatever is in the tree.
PinnedHeadIsPure ==
  \A s \in seen : ~s.mode.current =>
    /\ \A x \in s.content.changed : x.source = "diff" /\ commits[1][x.path] # commits[s.head][x.path]
    /\ \A x \in s.content.patch : x.to = commits[s.head][x.path] /\ x.from \in {commits[1][f] : f \in RepoFiles}

\* A path the range deleted or renamed keeps that status whatever the working tree's is:
\* the signature does not tell how it came to be what it is, staged or not, from an
\* ignored file or not.
Preserved(base, head) == {e.path : e \in {x \in NameStatus(base, head, TRUE) : x.status \in {"R", "D"}}}

\* What was read apart from the paths in P.
Without(c, P) ==
  [c EXCEPT !.changed = {x \in @ : x.path \notin P}, !.patch = {x \in @ : x.path \notin P}]

\* Two collections under one signature have read the same, unless somebody changed the
\* repository while one of them was reading it.  What else depends on a preserved path
\* may be shown by one and not by the other, but never as two versions.
SignatureNamesWhatWasRead ==
  \A s, t \in seen : s.signature = t.signature /\ ~s.raced /\ ~t.raced =>
    LET base == s.signature.base
        head == s.signature.head
        OfTheTree(c) == c.patch \ Sections(base, head, TRUE)
    IN /\ Without(s.content, Preserved(base, head)) = Without(t.content, Preserved(base, head))
       /\ \A x \in OfTheTree(s.content), y \in OfTheTree(t.content) : x.path = y.path => x.to = y.to

\* src/collector/collect.ts, strictEvidenceSnapshot and COLD_START.7: the parts above.
CollectionIsTrue ==
  IgnoredNeverShown /\ StrictEvidenceIsTheCommits /\ PinnedHeadIsPure /\ SignatureNamesWhatWasRead
=============================================================================
