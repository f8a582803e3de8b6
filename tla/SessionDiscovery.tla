-------------------------- MODULE SessionDiscovery --------------------------
(***************************************************************************)
(* The one recorded session that produced the reviewed range, found in the *)
(* stores of two harnesses: the repository's own directory of Claude Code  *)
(* and the global store of Codex, whose sessions name their directory.     *)
(*                                                                         *)
(* Sessions write lines while the head commit is made; discovery reads     *)
(* them once.  A line is a structured edit call, the result of one, an     *)
(* edit with no call id, a read, a mention of a path or of the commit.     *)
(***************************************************************************)
EXTENDS Integers, Sequences, SequencesExt, FiniteSetsExt

CONSTANTS
  Claude, Codex,      \* sessions of each store; Codex in the order of its paths, oldest first
  Foreign,            \* Codex sessions recorded in another repository
  Untimed,            \* sessions whose lines carry no timestamp
  PathRank(_),        \* the order of the session paths
  Files,              \* the changed files
  Histories(_),       \* what a session may hold at first
  Growing,            \* the sessions that go on writing
  MaxLines, MaxClock, \* bounds
  FileLimit, TotalLimit, \* largest session and largest store read, in lines
  ProbeLimit             \* newest Codex sessions looked at

VARIABLES
  lines,   \* session -> its lines [op, file, call, ts]
  clock,
  headAt,  \* when the head commit was made, 0 before
  dirty,   \* uncommitted edits are part of the range
  found    \* what discovery answers

vars == <<lines, clock, headAt, dirty, found>>

Sessions == Claude \cup ToSet(Codex)
Line(op, file, call, ts) == [op |-> op, file |-> file, call |-> call, ts |-> ts]
Stamp(s) == IF s \in Untimed THEN 0 ELSE clock + 1

-----------------------------------------------------------------------------
(* Provenance of one session *)

Later(ts, last) == IF ts > last THEN ts ELSE last

NoProvenance ==
  [mutated |-> {}, read |-> {}, mentioned |-> {}, commit |-> FALSE, lastMutation |-> 0, pending |-> {}]

RecordMutation(p, files, ts) ==
  [p EXCEPT !.mutated = @ \cup files, !.lastMutation = Later(ts, @)]

\* An edit waits for its result; a failed result forgets it, a result without a
\* status leaves it waiting.
ReadLine(p, l) ==
  LET waiting == {e \in p.pending : e.call = l.call}
      settled == [p EXCEPT !.pending = @ \ waiting]
  IN CASE l.op = "call" -> [p EXCEPT !.pending = @ \cup {l}]
       [] l.op = "edit" -> RecordMutation(p, {l.file}, l.ts)
       [] l.op = "passed" /\ waiting # {} -> RecordMutation(settled, {e.file : e \in waiting}, l.ts)
       [] l.op = "failed" -> settled
       [] l.op = "read" -> [p EXCEPT !.read = @ \cup {l.file}]
       [] l.op = "mention" -> [p EXCEPT !.mentioned = @ \cup {l.file}]
       [] l.op = "commit" -> [p EXCEPT !.commit = TRUE]
       [] OTHER -> p

\* An edit whose result is missing counts, at the time of its call.
Provenance(s) ==
  LET p == FoldLeft(ReadLine, NoProvenance, lines[s])
      Count(q, e) == RecordMutation(q, {e.file}, e.ts)
  IN [FoldSet(LAMBDA e, q : Count(q, e), p, p.pending) EXCEPT !.pending = {}]

LatestTimestamp(s) == FoldLeft(LAMBDA last, l : Later(l.ts, last), 0, lines[s])

\* 0 for a session that cannot have produced the commit, 2 for one that can, 1 unknown.
TemporalRank(p) ==
  IF p.mutated = {} THEN 0
  ELSE IF dirty \/ headAt = 0 \/ p.lastMutation = 0 THEN 1
  ELSE IF p.lastMutation <= headAt THEN 2 ELSE 0

Candidate(s) ==
  LET p == Provenance(s)
  IN [session |-> s, p |-> p, rank |-> TemporalRank(p), timestamp |-> LatestTimestamp(s),
      path |-> PathRank(s)]

SawCommit(c) == c.p.mutated # {} /\ c.p.commit

\* The first key on which two candidates differ decides.
IsBetter(c, d) ==
  LET n(S) == Cardinality(S)
      bit(b) == IF b THEN 1 ELSE 0
      keys == <<<<n(c.p.mutated), n(d.p.mutated)>>, <<bit(SawCommit(c)), bit(SawCommit(d))>>,
                <<c.rank, d.rank>>, <<n(c.p.read), n(d.p.read)>>, <<n(c.p.mentioned), n(d.p.mentioned)>>,
                <<c.timestamp, d.timestamp>>, <<c.path, d.path>>>>
      first == SelectInSeq(keys, LAMBDA k : k[1] # k[2])
  IN IF c.rank # d.rank /\ 0 \in {c.rank, d.rank} THEN c.rank > d.rank
     ELSE IF /\ c.p.mutated # {} /\ d.p.mutated # {} /\ c.rank = 1 /\ d.rank = 1
             /\ c.p.lastMutation # d.p.lastMutation
     THEN c.p.lastMutation > d.p.lastMutation
     ELSE first # 0 /\ keys[first][1] > keys[first][2]

\* Defect: the two read last are kept, not the two best.
MutRetainBest(kept, c) ==
  LET all == Append(kept, c) IN IF Len(all) > 2 THEN SubSeq(all, 2, 3) ELSE all

RetainBest(kept, c) ==
  LET all == SortSeq(Append(kept, c), IsBetter)
  IN IF Len(all) > 2 THEN SubSeq(all, 1, 2) ELSE all

SameProducerRank(c, d) ==
  /\ dirty => c.p.lastMutation = d.p.lastMutation
  /\ c.p.mutated # {}
  /\ Cardinality(c.p.mutated) = Cardinality(d.p.mutated)
  /\ SawCommit(c) = SawCommit(d) /\ c.rank = d.rank

-----------------------------------------------------------------------------
(* The two stores *)

\* Reads the sessions in order within the limits; one left out makes the scan incomplete.
ScanSession(scan, s) ==
  LET size == Len(lines[s])
  IN IF size > FileLimit \/ size > scan.left THEN [scan EXCEPT !.incomplete = TRUE]
     ELSE [scan EXCEPT !.left = @ - size,
                       !.candidates = IF size = 0 THEN @ ELSE RetainBest(@, Candidate(s))]

Scan(order) ==
  FoldLeft(ScanSession, [candidates |-> <<>>, incomplete |-> FALSE, left |-> TotalLimit], order)

\* Last written first.
Modified(s) == IF lines[s] = <<>> THEN 0 ELSE LatestTimestamp(s)
ClaudeCandidates ==
  Scan(SetToSortSeq(Claude, LAMBDA s, t : \/ Modified(s) > Modified(t)
                                          \/ Modified(s) = Modified(t) /\ PathRank(s) > PathRank(t)))

CodexRolloutPaths ==
  LET newest == Reverse(Codex) IN SubSeq(newest, 1, Min({Len(newest), ProbeLimit}))
CodexCandidates == Scan(SelectSeq(CodexRolloutPaths, LAMBDA s : s \notin Foreign))

ReasonCodes(c) ==
  LET weak(S) == S \ c.p.mutated # {}
      codes == {k \in {<<"exact_changed_path_mutation", c.p.mutated # {}>>,
                       <<"reviewed_commit_observed", c.p.commit>>,
                       <<"mutation_not_after_head_commit", c.rank = 2>>,
                       <<"mutation_after_head_commit", c.rank = 0 /\ c.p.mutated # {}>>,
                       <<"exact_changed_path_read", weak(c.p.read)>>,
                       <<"exact_changed_path_mention", weak(c.p.mentioned)>>,
                       <<"audit_or_read_only_session", c.p.mutated = {} /\ c.p.read # {}>>} : k[2]}
  IN IF codes = {} THEN {"recency_only"} ELSE {k[1] : k \in codes}

NotFound == [status |-> "none", session |-> "none", confidence |-> "none", reasons |-> {}]

DiscoverConversationSession(claude, codex) ==
  LET candidates == claude.candidates \o codex.candidates
      incomplete == claude.incomplete \/ codex.incomplete
      ranked == SortSeq(candidates, IsBetter)
      best == ranked[1]
      ambiguous == incomplete \/ (Len(ranked) > 1 /\ SameProducerRank(best, ranked[2]))
      confidence ==
        IF ambiguous \/ best.p.mutated = {} \/ best.rank = 0 THEN "low"
        ELSE IF Cardinality(best.p.mutated) >= 2 \/ best.p.commit THEN "high" ELSE "medium"
      exhausted == IF incomplete THEN {"discovery_work_budget_exhausted"} ELSE {}
  IN IF candidates = <<>>
     THEN IF incomplete THEN [NotFound EXCEPT !.status = "rejected", !.confidence = "low", !.reasons = exhausted]
          ELSE NotFound
     ELSE [status |-> IF confidence = "low" THEN "rejected" ELSE "admitted",
           session |-> best.session, confidence |-> confidence,
           reasons |-> ReasonCodes(best) \cup exhausted
                       \cup (IF ambiguous THEN {"ambiguous_producer_candidates"} ELSE {})]

-----------------------------------------------------------------------------
Init ==
  /\ lines \in FoldSet(LAMBDA s, hs : {h @@ (s :> x) : h \in hs, x \in Histories(s)}, {<<>>}, Sessions)
  /\ clock = 2 /\ headAt = 0 /\ dirty = FALSE /\ found = NotFound

Undiscovered == found = NotFound

\* A session writes a line; a result answers a call that has none yet.
Write(s) ==
  /\ Undiscovered /\ clock < MaxClock /\ s \in Growing /\ Len(lines[s]) < MaxLines
  /\ LET answered == {l.call : l \in {k \in ToSet(lines[s]) : k.op \in {"passed", "failed"}}}
         called == {l.call : l \in {k \in ToSet(lines[s]) : k.op = "call"}}
     IN \E l \in {Line(op, f, 0, Stamp(s)) : op \in {"edit", "read", "mention"}, f \in Files}
                 \cup {Line("call", f, Len(lines[s]) + 1, Stamp(s)) : f \in Files}
                 \cup {Line(op, "none", c, Stamp(s)) : op \in {"passed", "failed"}, c \in called \ answered}
                 \cup {Line("commit", "none", 0, Stamp(s)) : x \in {1} \cap (IF headAt > 0 THEN {1} ELSE {})} :
           lines' = [lines EXCEPT ![s] = Append(@, l)]
  /\ clock' = clock + 1
  /\ UNCHANGED <<headAt, dirty, found>>

CommitHead ==
  /\ Undiscovered /\ headAt = 0 /\ headAt' = clock
  /\ UNCHANGED <<lines, clock, dirty, found>>

\* Edits made since the commit are in the range.
EditsPending ==
  /\ Undiscovered /\ headAt > 0 /\ clock > headAt /\ ~dirty /\ dirty' = TRUE
  /\ UNCHANGED <<lines, clock, headAt, found>>

Discover ==
  /\ Undiscovered /\ headAt > 0
  /\ \E claude \in {ClaudeCandidates}, codex \in {CodexCandidates} :
       found' = DiscoverConversationSession(claude, codex)
  /\ found' # NotFound
  /\ UNCHANGED <<lines, clock, headAt, dirty>>

Next == (\E s \in Sessions : Write(s)) \/ CommitHead \/ EditsPending \/ Discover

TypeOK ==
  /\ \A s \in Sessions : Len(lines[s]) <= MaxLines
  /\ clock \in 0..MaxClock /\ headAt \in 0..clock /\ dirty \in BOOLEAN
  /\ found.status \in {"none", "rejected", "admitted"} /\ found.session \in Sessions \cup {"none"}

-----------------------------------------------------------------------------
\* Sessions of the repository that discovery may look at.
Eligible ==
  {s \in Claude \cup ToSet(CodexRolloutPaths) : s \notin Foreign /\ lines[s] # <<>>}

\* The files a session edited, an edit whose result says it failed left out, and when
\* each edit is last known to have been under way.
Edits(s) ==
  {i \in DOMAIN lines[s] :
     /\ lines[s][i].op \in {"edit", "call"}
     /\ ~\E j \in DOMAIN lines[s] : lines[s][j].op = "failed" /\ lines[s][j].call = lines[s][i].call}
Edited(s) == {lines[s][i].file : i \in Edits(s)}
SettledAt(s, i) ==
  Max({lines[s][i].ts} \cup {l.ts : l \in {k \in ToSet(lines[s]) : k.op = "passed" /\ lines[s][i].op = "call"
                                                                   /\ k.call = lines[s][i].call}})
LastEdit(s) == Max({SettledAt(s, i) : i \in Edits(s)} \cup {0})
NotAfterHead(s) == Edits(s) # {} /\ LastEdit(s) \in 1..headAt

\* A session is admitted only when it edited the range and no other session of the
\* repository, in whichever store and in whatever order the stores list them, is as
\* likely to have produced it: with a clean tree none that stopped before the head
\* commit edited as many of its files, unless only the admitted one saw the commit; with
\* uncommitted edits none edited later.  A session too large to be read rules every
\* admission out.
AdmittedSessionIsTheProducer ==
  found.status = "admitted" =>
    LET s == found.session
    IN /\ Edits(s) # {} /\ s \in Eligible
       /\ ~dirty /\ s \notin Untimed => NotAfterHead(s)
       /\ \A t \in Eligible :
            /\ Len(lines[t]) <= FileLimit
            /\ t # s /\ Edits(t) # {} =>
                 IF dirty THEN LastEdit(t) <= LastEdit(s)
                 ELSE NotAfterHead(t) =>
                        \/ Cardinality(Edited(t)) < Cardinality(Edited(s))
                        \/ /\ Cardinality(Edited(t)) = Cardinality(Edited(s))
                           /\ "reviewed_commit_observed" \in found.reasons
                              \/ s \in Untimed \/ Provenance(t).commit = FALSE
=============================================================================
