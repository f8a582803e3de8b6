---------------------------- MODULE StickyComment ----------------------------
(***************************************************************************)
(* The sticky pull-request comment: workflow runs of action.yml (recover   *)
(* the last posted packet, generate, upload, reconcile) and the client in  *)
(* post-comment.ts, which checks the pull request, looks its own comment   *)
(* up, and creates, patches or deletes it.  Each call to the service is a  *)
(* step, so the pull request and its comments may change between the check *)
(* and the write.                                                          *)
(*                                                                         *)
(* Heads and titles are numbered in the order the author produced them.    *)
(* A title stands for title and description together.                      *)
(***************************************************************************)
EXTENDS Naturals, FiniteSets, FiniteSetsExt

CONSTANTS
  MaxHead,      \* bound on the heads pushed
  MaxTitle,     \* bound on the titles edited
  MaxDeletions, \* bound on comments deleted by people
  Serialized,   \* are runs of one pull request in one concurrency group?
  MayFail       \* may a call to the service or the generator fail?

ASSUME BoundsAssumption ==
  /\ MaxHead \in Nat \ {0}
  /\ MaxTitle \in Nat \ {0}
  /\ MaxDeletions \in Nat
  /\ Serialized \in BOOLEAN
  /\ MayFail \in BOOLEAN

Heads    == 1..MaxHead
Titles   == 1..MaxTitle
Runs     == 1..(MaxHead + MaxTitle - 1)   \* one run per event
Outcomes == {"ready", "no_diff", "privacy"}

VARIABLES
  pr,        \* the pull request: its head and title now
  outcome,   \* head -> what generation makes of it
  comments,  \* the comments on the pull request
  nextId,    \* id of the next comment
  nextRun,   \* number of the next event
  pc,        \* run -> its next step
  job,       \* run -> head and title in the event that started it
  base,      \* run -> head of the recovered packet, or 0
  target,    \* run -> id of the comment it will write, or 0
  uploaded,  \* runs whose packet was uploaded
  deletions  \* comments people deleted

vars == <<pr, outcome, comments, nextId, nextRun, pc, job, base, target,
          uploaded, deletions>>

Steps == {"none", "pending", "recover", "generate", "check", "lookup",
          "detail", "write", "done", "failed", "cancelled"}

\* A comment of somebody else that happens to begin with the marker.
Foreign == [id |-> 1, owner |-> "other", head |-> 1, title |-> 1, run |-> 1]

Init ==
  /\ pr = [head |-> 1, title |-> 1]
  /\ outcome \in [Heads -> Outcomes]
  /\ comments = {Foreign}
  /\ nextId = 2
  /\ nextRun = 2
  /\ pc = [r \in Runs |-> IF r = 1 THEN "recover" ELSE "none"]
  /\ job = [r \in Runs |-> [head |-> 1, title |-> 1]]
  /\ base = [r \in Runs |-> 0]
  /\ target = [r \in Runs |-> 0]
  /\ uploaded = {}
  /\ deletions = 0

-----------------------------------------------------------------------------
(* Helpers.                                                                *)

Goto(r, step) == pc' = [pc EXCEPT ![r] = step]

Active  == {r \in Runs :
              pc[r] \notin {"none", "pending", "done", "failed", "cancelled"}}
Pending == {r \in Runs : pc[r] = "pending"}

\* Defect: any comment that begins with the marker is taken for the tool's own.
MutStickies == comments

Stickies == {c \in comments : c.owner = "bot"}

\* Defect: only the first comment with the marker is looked at.
MutLastSticky ==
  LET first == {c \in Stickies : \A d \in comments : c.id <= d.id}
  IN IF first = {} THEN 0 ELSE Max({c.id : c \in first})

\* The list is in order of ids and the client keeps the last match.
LastSticky == IF Stickies = {} THEN 0 ELSE Max({c.id : c \in Stickies})

WithId(id) == {c \in comments : c.id = id}

Removes(r) == outcome[job[r].head] \in {"no_diff", "privacy"}

\* The privacy cleanup is given the head only; every other caller also
\* compares title and description.
Fresh(r) ==
  /\ job[r].head = pr.head
  /\ outcome[job[r].head] # "privacy" => job[r].title = pr.title

-----------------------------------------------------------------------------
(* Events.  With a concurrency group, a push cancels the run in flight,    *)
(* an edit waits for it, and a newer waiting run replaces an older one.    *)

Trigger(head, title) ==
  /\ pr' = [head |-> head, title |-> title]
  /\ nextRun' = nextRun + 1
  /\ job' = [job EXCEPT ![nextRun] = [head |-> head, title |-> title]]
  /\ LET edited  == head = pr.head
         stopped == IF ~Serialized THEN {}
                    ELSE IF edited THEN Pending ELSE Pending \cup Active
         waits   == Serialized /\ edited /\ Active # {}
     IN pc' = [r \in Runs |->
                 IF r = nextRun THEN IF waits THEN "pending" ELSE "recover"
                 ELSE IF r \in stopped THEN "cancelled" ELSE pc[r]]
  /\ UNCHANGED <<outcome, comments, nextId, base, target, uploaded, deletions>>

Push      == pr.head < MaxHead /\ Trigger(pr.head + 1, pr.title)
EditTitle == pr.title < MaxTitle /\ Trigger(pr.head, pr.title + 1)

StartPending(r) ==
  /\ pc[r] = "pending"
  /\ Active = {}
  /\ Goto(r, "recover")
  /\ UNCHANGED <<pr, outcome, comments, nextId, nextRun, job, base, target,
                 uploaded, deletions>>

DeleteByHand ==
  /\ deletions < MaxDeletions
  /\ \E c \in comments : comments' = comments \ {c}
  /\ deletions' = deletions + 1
  /\ UNCHANGED <<pr, outcome, nextId, nextRun, pc, job, base, target, uploaded>>

-----------------------------------------------------------------------------
(* One run.                                                                *)

\* Defect: the newest packet uploaded is recovered, posted or not.
MutRecover(r) ==
  /\ pc[r] = "recover"
  /\ base' = [base EXCEPT ![r] =
                IF uploaded = {} THEN 0 ELSE job[Max(uploaded)].head]
  /\ Goto(r, "generate")
  /\ UNCHANGED <<pr, outcome, comments, nextId, nextRun, job, target, uploaded,
                 deletions>>

\* The packet of the last posted sticky, if its run uploaded one for the head
\* the sticky names.
Recover(r) ==
  /\ pc[r] = "recover"
  /\ base' = [base EXCEPT ![r] =
       LET from == {c \in WithId(LastSticky) :
                      c.run \in uploaded /\ job[c.run].head = c.head}
       IN IF from = {} THEN 0 ELSE (CHOOSE c \in from : TRUE).head]
  /\ Goto(r, "generate")
  /\ UNCHANGED <<pr, outcome, comments, nextId, nextRun, job, target, uploaded,
                 deletions>>

\* A privacy block fails the generation step: nothing is uploaded, and only
\* the cleanup step follows.
Generate(r) ==
  /\ pc[r] = "generate"
  /\ uploaded' = IF outcome[job[r].head] = "privacy" THEN uploaded
                 ELSE uploaded \cup {r}
  /\ Goto(r, "check")
  /\ UNCHANGED <<pr, outcome, comments, nextId, nextRun, job, base, target,
                 deletions>>

Check(r) ==
  /\ pc[r] = "check"
  /\ Goto(r, IF Fresh(r) THEN "lookup" ELSE "done")
  /\ UNCHANGED <<pr, outcome, comments, nextId, nextRun, job, base, target,
                 uploaded, deletions>>

\* Defect: a run with nothing to show leaves the old comment in place.
MutLookup(r) ==
  /\ pc[r] = "lookup"
  /\ target' = [target EXCEPT ![r] = LastSticky]
  /\ Goto(r, IF Removes(r) THEN "done"
             ELSE IF LastSticky # 0 THEN "detail" ELSE "write")
  /\ UNCHANGED <<pr, outcome, comments, nextId, nextRun, job, base, uploaded,
                 deletions>>

\* List the comments.  With none to remove the run is over.
Lookup(r) ==
  /\ pc[r] = "lookup"
  /\ target' = [target EXCEPT ![r] = LastSticky]
  /\ Goto(r, IF LastSticky # 0 THEN "detail"
             ELSE IF Removes(r) THEN "done" ELSE "write")
  /\ UNCHANGED <<pr, outcome, comments, nextId, nextRun, job, base, uploaded,
                 deletions>>

\* Read the chosen comment again: it must still be there.
Detail(r) ==
  /\ pc[r] = "detail"
  /\ Goto(r, IF WithId(target[r]) \cap Stickies # {} THEN "write" ELSE "done")
  /\ UNCHANGED <<pr, outcome, comments, nextId, nextRun, job, base, target,
                 uploaded, deletions>>

\* Defect: the marker names the head compared with, not the head reviewed.
MutBrief(r, id) == [id |-> id, owner |-> "bot", head |-> base[r],
                    title |-> job[r].title, run |-> r]

Brief(r, id) == [id |-> id, owner |-> "bot", head |-> job[r].head,
                 title |-> job[r].title, run |-> r]

Create(r) ==
  /\ pc[r] = "write"
  /\ ~Removes(r)
  /\ target[r] = 0
  /\ comments' = comments \cup {Brief(r, nextId)}
  /\ nextId' = nextId + 1
  /\ Goto(r, "done")
  /\ UNCHANGED <<pr, outcome, nextRun, job, base, target, uploaded, deletions>>

\* Patching a comment that is gone fails and changes nothing.
Patch(r) ==
  /\ pc[r] = "write"
  /\ ~Removes(r)
  /\ target[r] # 0
  /\ comments' = {IF c.id = target[r] THEN Brief(r, c.id) ELSE c : c \in comments}
  /\ Goto(r, "done")
  /\ UNCHANGED <<pr, outcome, nextId, nextRun, job, base, target, uploaded,
                 deletions>>

Delete(r) ==
  /\ pc[r] = "write"
  /\ Removes(r)
  /\ comments' = comments \ WithId(target[r])
  /\ Goto(r, "done")
  /\ UNCHANGED <<pr, outcome, nextId, nextRun, job, base, target, uploaded,
                 deletions>>

\* Best effort: a failed call, or a failed generation, ends the run.
Fail(r) ==
  /\ MayFail
  /\ r \in Active
  /\ pc[r] # "recover"
  /\ Goto(r, "failed")
  /\ UNCHANGED <<pr, outcome, comments, nextId, nextRun, job, base, target,
                 uploaded, deletions>>

\* A failed recovery only means there is nothing to compare with.
RecoverNothing(r) ==
  /\ MayFail
  /\ pc[r] = "recover"
  /\ Goto(r, "generate")
  /\ UNCHANGED <<pr, outcome, comments, nextId, nextRun, job, base, target,
                 uploaded, deletions>>

Advance(r) == StartPending(r) \/ Recover(r) \/ Generate(r) \/ Check(r)
              \/ Lookup(r) \/ Detail(r) \/ Create(r) \/ Patch(r) \/ Delete(r)

Next ==
  \/ Push \/ EditTitle \/ DeleteByHand
  \/ \E r \in Runs : Advance(r) \/ Fail(r) \/ RecoverNothing(r)

Spec == Init /\ [][Next]_vars

\* A started run is executed by the runner, and a waiting one is started.
FairSpec == Spec /\ \A r \in Runs : WF_vars(Advance(r))

-----------------------------------------------------------------------------
(* Properties.                                                             *)

TypeOK ==
  /\ pr \in [head : Heads, title : Titles]
  /\ outcome \in [Heads -> Outcomes]
  /\ nextId \in Nat
  /\ comments \subseteq [id : 1..(nextId - 1), owner : {"bot", "other"},
                         head : Heads, title : Titles, run : Runs]
  /\ \A c, d \in comments : c.id = d.id => c = d
  /\ nextRun \in 2..(Cardinality(Runs) + 1)
  /\ pc \in [Runs -> Steps]
  /\ job \in [Runs -> [head : Heads, title : Titles]]
  /\ base \in [Runs -> Heads \cup {0}]
  /\ target \in [Runs -> 0..(nextId - 1)]
  /\ uploaded \subseteq Runs
  /\ deletions \in 0..MaxDeletions

\* "upserts one comment per PR": whatever fails, is cancelled or is deleted by
\* hand, there is never a second sticky.
OneSticky == Cardinality(Stickies) <= 1

\* README.md:180: "a stale run cannot overwrite or delete a newer sticky".
\* Whatever a run overwrites or deletes is the tool's own comment, of a head
\* and title no newer than those of the run.
NoNewerStickyLost ==
  [][\A r \in Runs :
       (pc[r] = "write" /\ pc'[r] = "done") =>
         \A c \in comments \ comments' :
           /\ c.owner = "bot"
           /\ c.head <= job[r].head
           /\ c.title <= job[r].title]_vars

\* The delta in a brief is computed against the brief it replaces, never
\* against a packet the reviewer has not seen (action.yml:146-152).
DeltaIsAgainstWhatWasShown ==
  [][\A r \in Runs :
       (pc[r] = "write" /\ pc'[r] = "done" /\ base[r] # 0) =>
         \A c \in comments \ comments' : c.head = base[r]]_vars

\* Once the author is done, the pull request ends up with the brief of its
\* current head and title, or with none if there is nothing to show, unless the
\* run of that very event failed or somebody deleted comments by hand.  A
\* waiting edit is never lost behind a cancelled or a failed run.
Current ==
  IF outcome[pr.head] = "ready"
  THEN \E c \in Stickies : Stickies = {c} /\ c.head = pr.head /\ c.title = pr.title
  ELSE Stickies = {}

StickyCatchesUp ==
  <>[](Current \/ pc[nextRun - 1] = "failed" \/ deletions > 0)
=============================================================================
