------------------------ MODULE StickyComment_proofs ------------------------
(***************************************************************************)
(* Theorems about the sticky comment when the runs of one pull request are *)
(* in one concurrency group, for every number of pushes, edits and         *)
(* deletions by hand, and with every call failing or not.                  *)
(***************************************************************************)
EXTENDS StickyComment, FiniteSetTheorems, TLAPS

-----------------------------------------------------------------------------
(* The invariant, part by part.                                            *)

\* Runs are numbered in the order of the events that start them: the runs to
\* come are blank, and a run that has not recovered a packet compares with
\* nothing.
Numbered ==
  /\ nextRun = pr.head + pr.title
  /\ \A r \in Runs : r >= nextRun => pc[r] = "none"
  /\ \A r \in Runs : pc[r] \in {"none", "pending", "recover"} => base[r] = 0

\* The concurrency group: at most one run at work, and at most one waiting.
Alone ==
  /\ \A r, q \in Active : r = q
  /\ \A r, q \in Pending : r = q

\* What a run at work has chosen to write is the tool's own comment, unless
\* that is gone; and a run about to create a comment has no sticky to find.
Chosen ==
  \A r \in Active :
    /\ pc[r] = "detail" => target[r] # 0
    /\ pc[r] \in {"detail", "write"} => \A c \in comments : c.id = target[r] => c.owner = "bot"
    /\ pc[r] = "write" /\ target[r] = 0 => Stickies = {}

\* There is never a second sticky.
One == \A c, d \in Stickies : c = d

\* No sticky is newer than the pull request or than a run that may still
\* write it, and a waiting run is no older than the one it waits for.
Ordered ==
  /\ \A c \in Stickies : c.head <= pr.head /\ c.title <= pr.title
  /\ \A r \in Active \cup Pending :
       /\ job[r].head = pr.head /\ job[r].title <= pr.title
       /\ \A c \in Stickies : c.title <= job[r].title
  /\ \A r \in Active, q \in Pending : job[r].title <= job[q].title

\* A run at work that compares with a head compares with that of the sticky
\* there is.
Compared ==
  \A r \in Active : base[r] # 0 => \A c \in Stickies : c.head = base[r]

-----------------------------------------------------------------------------
(* Facts about the operators, and what the steps do.                       *)

\* The bounds, and how many runs they allow.
LEMMA Bounds ==
  /\ MaxHead \in Nat \ {0} /\ MaxTitle \in Nat \ {0} /\ MaxDeletions \in Nat
  /\ Cardinality(Runs) = MaxHead + MaxTitle - 1
  /\ Runs \subseteq Nat \ {0} /\ 1 \in Runs /\ 1 \in Heads /\ 1 \in Titles
<1>1. MaxHead \in Nat \ {0} /\ MaxTitle \in Nat \ {0} /\ MaxDeletions \in Nat
  BY BoundsAssumption
<1>2. 1 \in Int /\ MaxHead + MaxTitle - 1 \in Int /\ ~(1 > MaxHead + MaxTitle - 1)
  BY <1>1
<1>3. Cardinality(1..(MaxHead + MaxTitle - 1)) = (MaxHead + MaxTitle - 1) - 1 + 1
  BY <1>2, FS_Interval
<1> QED BY <1>1, <1>2, <1>3 DEF Runs, Heads, Titles

\* With one sticky, the last one is that one.
LEMMA LastIsThatOne ==
  ASSUME One, NEW s \in Stickies
  PROVE  Stickies = {s} /\ Max({c.id : c \in Stickies}) = s.id
<1>1. Stickies = {s}
  BY DEF One
<1>2. {c.id : c \in Stickies} = {s.id}
  BY <1>1
<1>3. Max({s.id}) = s.id
  BY DEF Max
<1> QED BY <1>1, <1>2, <1>3

\* A step of one run, its failures included.
RunStep(r) == Advance(r) \/ Fail(r) \/ RecoverNothing(r)

\* A step of a run touches that run only, and is taken by the run at work or
\* by a waiting one when nobody is.
LEMMA RunEffect ==
  ASSUME TypeOK, NEW r \in Runs, RunStep(r)
  PROVE  /\ UNCHANGED <<pr, outcome, nextRun, job, deletions>>
         /\ pc' \in [Runs -> Steps] /\ base' \in [Runs -> Heads \cup {0}]
         /\ \A q \in Runs \ {r} : pc'[q] = pc[q] /\ base'[q] = base[q] /\ target'[q] = target[q]
         /\ pc[r] \notin {"none", "done", "failed", "cancelled"}
         /\ pc'[r] \notin {"none", "pending"}
         /\ r \in Active \/ (r \in Pending /\ Active = {} /\ pc'[r] = "recover" /\ UNCHANGED <<comments, base, target>>)
<1> SUFFICES ASSUME pc \in [Runs -> Steps], base \in [Runs -> Heads \cup {0}],
   target \in [Runs -> 0..(nextId - 1)]
             PROVE  /\ UNCHANGED <<pr, outcome, nextRun, job, deletions>>
                    /\ pc' \in [Runs -> Steps] /\ base' \in [Runs -> Heads \cup {0}]
                    /\ \A q \in Runs \ {r} : pc'[q] = pc[q] /\ base'[q] = base[q] /\
                          target'[q] = target[q]
                    /\ pc[r] \notin {"none", "done", "failed", "cancelled"}
                    /\ pc'[r] \notin {"none", "pending"}
                    /\ r \in Active \/ (r \in Pending /\ Active = {} /\ pc'[r] = "recover" /\ UNCHANGED <<comments, base, target>>)
  BY DEF TypeOK
<1> USE DEF Goto
<1>1. CASE StartPending(r)
  BY <1>1 DEF StartPending, Pending, Steps
<1>2. CASE Recover(r)
  <2> DEFINE from == {c \in WithId(LastSticky) : c.run \in uploaded /\ job[c.run].head = c.head}
             b == IF from = {} THEN 0 ELSE (CHOOSE c \in from : TRUE).head
  <2>1. b \in Heads \cup {0}
    <3>1. CASE from # {}
      <4>1. (CHOOSE c \in from : TRUE) \in from
        BY <3>1
      <4>2. from \subseteq comments
        BY DEF WithId
      <4> QED BY <4>1, <4>2 DEF TypeOK
    <3> QED BY <3>1
  <2>2. /\ base' = [base EXCEPT ![r] = b] /\ pc[r] = "recover"
        /\ pc' = [pc EXCEPT ![r] = "generate"]
        /\ UNCHANGED <<pr, outcome, comments, nextId, nextRun, job, target, uploaded, deletions>>
    BY <1>2 DEF Recover
  <2> HIDE DEF b
  <2> QED BY <2>1, <2>2 DEF Active, Steps
<1>3. CASE Generate(r) \/ Check(r) \/ Lookup(r) \/ Detail(r)
  BY <1>3 DEF Generate, Check, Lookup, Detail, Active, Steps
<1>4. CASE Create(r) \/ Patch(r) \/ Delete(r)
  BY <1>4 DEF Create, Patch, Delete, Active, Steps
<1>5. CASE Fail(r) \/ RecoverNothing(r)
  BY <1>5 DEF Fail, RecoverNothing, Active, Steps
<1> QED BY <1>1, <1>2, <1>3, <1>4, <1>5 DEF RunStep, Advance

\* A step of a run starts nobody else's.
LEMMA Turns ==
  ASSUME TypeOK, NEW r \in Runs, RunStep(r)
  PROVE  /\ Pending' = Pending \ {r}
         /\ Active' \subseteq Active \cup {r}
         /\ (Active' \cup Pending') \subseteq (Active \cup Pending)
         /\ Alone => Active' \subseteq {r}
BY RunEffect DEF Active, Pending, Alone

\* A push takes the place of every other run; an edit waits for the run at
\* work and takes the place of the one that waited.
LEMMA TriggerEffect ==
  ASSUME TypeOK, Numbered, Serialized, Push \/ EditTitle
  PROVE  /\ nextRun \in Runs /\ nextRun' = nextRun + 1
         /\ pr' \in [head : Heads, title : Titles] /\ pr'.head + pr'.title = nextRun + 1
         /\ pr'.head >= pr.head /\ pr'.title >= pr.title
         /\ job' = [job EXCEPT ![nextRun] = pr']
         /\ pc' \in [Runs -> Steps] /\ nextRun \notin Active \cup Pending
         /\ \A r \in Runs \ {nextRun} : pc'[r] = pc[r] \/ pc'[r] = "cancelled"
         /\ \/ Active' = {nextRun} /\ Pending' = {} /\ pc'[nextRun] = "recover"
            \/ /\ Active' = Active /\ Pending' = {nextRun} /\ pr'.head = pr.head
               /\ \A r \in Active : pc'[r] = pc[r]
         /\ UNCHANGED <<outcome, comments, nextId, base, target, uploaded, deletions>>
<1>1. PICK h \in Heads, t \in Titles : /\ Trigger(h, t)
                                       /\ \/ h = pr.head + 1 /\ t = pr.title
                                          \/ h = pr.head /\ t = pr.title + 1
  BY Bounds DEF Push, EditTitle, TypeOK, Heads, Titles
<1>2. /\ pr.head \in Nat /\ pr.title \in Nat /\ pr.head >= 1 /\ pr.title >= 1 /\ h <= MaxHead
      /\ t <= MaxTitle /\ h \in Nat /\ t \in Nat
  BY DEF TypeOK, Heads, Titles
<1>3. nextRun = pr.head + pr.title
  BY DEF Numbered
<1>4. nextRun \in Runs
  BY <1>1, <1>2, <1>3, Bounds DEF Runs
<1>5. /\ pr' = [head |-> h, title |-> t] /\ nextRun' = nextRun + 1
      /\ job' = [job EXCEPT ![nextRun] = [head |-> h, title |-> t]]
      /\ UNCHANGED <<outcome, comments, nextId, base, target, uploaded, deletions>>
  BY <1>1 DEF Trigger
<1>6. /\ pr' \in [head : Heads, title : Titles] /\ pr'.head + pr'.title = nextRun + 1
      /\ pr'.head >= pr.head /\ pr'.title >= pr.title
  BY <1>1, <1>2, <1>3, <1>5
<1>7. nextRun \notin Active \cup Pending
  BY <1>4 DEF Numbered, Active, Pending, TypeOK
<1> DEFINE edited == h = pr.head
           stopped == IF edited THEN Pending ELSE Pending \cup Active
           waits == edited /\ Active # {}
<1>8. pc' = [r \in Runs |-> IF r = nextRun THEN IF waits THEN "pending" ELSE "recover"
                            ELSE IF r \in stopped THEN "cancelled" ELSE pc[r]]
  BY <1>1 DEF Trigger
<1>9. pc \in [Runs -> Steps]
  BY DEF TypeOK
<1>10. pc' \in [Runs -> Steps] /\
          \A r \in Runs \ {nextRun} : pc'[r] = pc[r] \/ pc'[r] = "cancelled"
  BY <1>8, <1>9 DEF Steps
<1>11. CASE waits
  <2>1. pc'[nextRun] = "pending" /\
           \A r \in Runs \ {nextRun} : pc'[r] = IF r \in Pending THEN "cancelled" ELSE pc[r]
    BY <1>4, <1>8, <1>11
  <2>2. Active' = Active
    BY <2>1, <1>7 DEF Active, Pending
  <2>3. Pending' = {nextRun}
    BY <2>1, <1>4 DEF Pending
  <2>4. \A r \in Active : pc'[r] = pc[r]
    BY <2>1, <1>7 DEF Active, Pending
  <2> QED BY <1>4, <1>5, <1>6, <1>7, <1>10, <1>11, <2>2, <2>3, <2>4
<1>12. CASE ~waits
  <2>1. pc'[nextRun] = "recover" /\
           \A r \in Runs \ {nextRun} : pc'[r] = IF r \in Pending \cup Active THEN "cancelled" ELSE pc[r]
    BY <1>4, <1>8, <1>12
  <2>2. Active' = {nextRun}
    BY <2>1, <1>4 DEF Active, Pending
  <2>3. Pending' = {}
    BY <2>1 DEF Active, Pending
  <2> QED BY <1>4, <1>5, <1>6, <1>7, <1>10, <2>1, <2>2, <2>3
<1> QED BY <1>11, <1>12

\* The steps there are.
LEMMA StepsAre ==
  ASSUME [Next]_vars
  PROVE  (Push \/ EditTitle) \/ DeleteByHand \/ (\E r \in Runs : RunStep(r)) \/ UNCHANGED vars
BY DEF Next, RunStep

\* The invariant.  The one sticky is an invariant only with Alone and Chosen:
\* a run creates without looking again, so nobody else may have created since
\* it looked.
Inv == TypeOK /\ Numbered /\ Alone /\ Chosen /\ One /\ Ordered /\ Compared

\* The types of what is compared.
LEMMA TheirTypes ==
  ASSUME TypeOK
  PROVE  /\ comments \subseteq [id : 1..(nextId - 1), owner : {"bot", "other"},
                                 head : Heads, title : Titles, run : Runs]
         /\ \A c \in comments : c.id \in Nat /\ c.id >= 1 /\ c.id < nextId /\
               c.owner \in {"bot", "other"}
                                /\ c.head \in Heads /\ c.title \in Titles /\ c.run \in Runs
         /\ Heads \subseteq Nat \ {0} /\ Titles \subseteq Nat \ {0} /\ nextId \in Nat
         /\ nextId >= 1
         /\ \A r \in Runs : job[r].head \in Heads /\ job[r].title \in Titles
         /\ pr.head \in Heads /\ pr.title \in Titles
         /\ \A r \in Runs : target[r] \in Nat /\ target[r] < nextId
<1>1. Heads \subseteq Nat \ {0} /\ Titles \subseteq Nat \ {0}
  BY Bounds DEF Heads, Titles
<1>2. nextId \in Nat /\ comments \subseteq [id : 1..(nextId - 1), owner : {"bot", "other"},
                                 head : Heads, title : Titles, run : Runs]
  BY DEF TypeOK
<1>3. \A c \in comments : c.id \in 1..(nextId - 1) /\ c.owner \in {"bot", "other"}
                          /\ c.head \in Heads /\ c.title \in Titles /\ c.run \in Runs
  BY <1>2
<1>4. \A c \in comments : c.id \in Nat /\ c.id >= 1 /\ c.id < nextId
  BY <1>2, <1>3
<1>5. target \in [Runs -> 0..(nextId - 1)] /\ 1 \in Runs
  BY Bounds DEF TypeOK
<1>6. \A r \in Runs : target[r] \in 0..(nextId - 1)
  BY <1>5
<1>7. \A r \in Runs : target[r] \in Nat /\ target[r] < nextId
  BY <1>6, <1>2
<1>8. nextId >= 1
  BY <1>5, <1>7, <1>2
<1>9. /\ \A r \in Runs : job[r].head \in Heads /\ job[r].title \in Titles
      /\ pr.head \in Heads /\ pr.title \in Titles
  BY DEF TypeOK
<1> QED BY <1>1, <1>2, <1>3, <1>4, <1>7, <1>8, <1>9

\* The comment the client chooses is a sticky, and it finds one whenever
\* there is one.
LEMMA LastIsASticky ==
  ASSUME TypeOK, One
  PROVE  /\ LastSticky \in Nat /\ LastSticky < nextId
         /\ LastSticky = 0 <=> Stickies = {}
         /\ \A c \in comments : c.id = LastSticky => c \in Stickies
<1>1. CASE Stickies = {}
  <2>1. LastSticky = 0
    BY <1>1 DEF LastSticky
  <2> QED BY <2>1, <1>1, TheirTypes
<1>2. CASE Stickies # {}
  <2>1. PICK s \in Stickies : TRUE
    BY <1>2
  <2>2. LastSticky = s.id
    BY <1>2, LastIsThatOne DEF LastSticky
  <2>3. s \in comments /\ s.id \in Nat /\ s.id >= 1 /\ s.id < nextId
    BY TheirTypes DEF Stickies
  <2>4. \A c \in comments : c.id = s.id => c = s
    BY <2>3 DEF TypeOK
  <2> QED BY <1>2, <2>2, <2>3, <2>4
<1> QED BY <1>1, <1>2

-----------------------------------------------------------------------------
(* The start.                                                              *)

\* The invariant holds at the start.
LEMMA InitInv == Init => Inv
<1> SUFFICES ASSUME Init PROVE Inv
  OBVIOUS
<1>1. /\ MaxHead \in Nat \ {0} /\ MaxTitle \in Nat \ {0} /\ MaxDeletions \in Nat
      /\ Cardinality(Runs) = MaxHead + MaxTitle - 1
      /\ Runs \subseteq Nat \ {0} /\ 1 \in Runs /\ 1 \in Heads /\ 1 \in Titles
  BY Bounds
<1>2. pr = [head |-> 1, title |-> 1] /\ comments = {Foreign} /\ nextId = 2 /\ nextRun = 2
      /\ deletions = 0 /\ uploaded = {} /\ outcome \in [Heads -> Outcomes]
  BY DEF Init
<1>3. /\ pc = [r \in Runs |-> IF r = 1 THEN "recover" ELSE "none"]
      /\ job = [r \in Runs |-> [head |-> 1, title |-> 1]]
      /\ base = [r \in Runs |-> 0] /\ target = [r \in Runs |-> 0]
  BY DEF Init
<1>4. TypeOK
  <2>1. Foreign \in [id : 1..(nextId - 1), owner : {"bot", "other"}, head : Heads,
           title : Titles, run : Runs]
    BY <1>1, <1>2 DEF Foreign
  <2>2. nextRun \in 2..(Cardinality(Runs) + 1)
    BY <1>1, <1>2
  <2>3. pc \in [Runs -> Steps]
    BY <1>3 DEF Steps
  <2>4. /\ job \in [Runs -> [head : Heads, title : Titles]] /\ base \in [Runs -> Heads \cup {0}]
        /\ pr \in [head : Heads, title : Titles]
    BY <1>1, <1>2, <1>3
  <2>5. target \in [Runs -> 0..(nextId - 1)]
    BY <1>2, <1>3
  <2>6. comments \subseteq [id : 1..(nextId - 1), owner : {"bot", "other"}, head : Heads,
           title : Titles, run : Runs]
        /\ \A c, d \in comments : c.id = d.id => c = d
    BY <1>2, <2>1
  <2>7. /\ nextId \in Nat /\ uploaded \subseteq Runs /\ deletions \in 0..MaxDeletions
        /\ outcome \in [Heads -> Outcomes]
    BY <1>1, <1>2
  <2> QED BY <2>2, <2>3, <2>4, <2>5, <2>6, <2>7 DEF TypeOK
<1>5. Stickies = {}
  BY <1>2 DEF Stickies, Foreign
<1>6. Active = {1} /\ Pending = {}
  BY <1>1, <1>3 DEF Active, Pending
<1>7. Numbered
  <2>1. \A r \in Runs : r >= 2 => r # 1
    OBVIOUS
  <2>2. nextRun = pr.head + pr.title
    BY <1>2
  <2>3. \A r \in Runs : r >= nextRun => pc[r] = "none"
    BY <1>2, <1>3, <2>1
  <2>4. \A r \in Runs : base[r] = 0
    BY <1>3
  <2> QED BY <2>2, <2>3, <2>4 DEF Numbered
<1>8. Alone /\ One /\ Compared
  BY <1>5, <1>6 DEF Alone, One, Compared
<1>9. Chosen
  <2>1. pc[1] = "recover"
    BY <1>1, <1>3
  <2> QED BY <1>6, <2>1 DEF Chosen
<1>10. Ordered
  <2>1. job[1] = [head |-> 1, title |-> 1]
    BY <1>1, <1>3
  <2> QED BY <1>2, <1>5, <1>6, <2>1 DEF Ordered
<1> QED BY <1>4, <1>7, <1>8, <1>9, <1>10 DEF Inv

-----------------------------------------------------------------------------
(* What runs write.                                                        *)

\* What a step of a run does to the comments: nothing, a new one, another
\* body for one, or one less.
Wrote(r) ==
  \/ comments' = comments /\ nextId' = nextId
  \/ /\ pc[r] = "write" /\ pc'[r] = "done" /\ target[r] = 0
     /\ comments' = comments \cup {Brief(r, nextId)} /\ nextId' = nextId + 1
  \/ /\ pc[r] = "write" /\ pc'[r] = "done" /\ target[r] # 0
     /\ comments' = {IF c.id = target[r] THEN Brief(r, c.id) ELSE c : c \in comments} /\
           nextId' = nextId
  \/ /\ pc[r] = "write" /\ pc'[r] = "done"
     /\ comments' = comments \ WithId(target[r]) /\ nextId' = nextId

\* Every step of a run does one of these.
LEMMA Writes ==
  ASSUME TypeOK, NEW r \in Runs, RunStep(r)
  PROVE  Wrote(r)
<1>0. pc \in [Runs -> Steps]
  BY DEF TypeOK
<1>1. CASE StartPending(r) \/ Recover(r) \/ Generate(r) \/ Check(r) \/ Lookup(r) \/ Detail(r)
           \/ Fail(r) \/ RecoverNothing(r)
  BY <1>1
     DEF Wrote, StartPending, Recover, Generate, Check, Lookup, Detail, Fail, RecoverNothing
<1>2. CASE Create(r) \/ Patch(r) \/ Delete(r)
  <2>1. pc'[r] = "done"
    BY <1>0, <1>2 DEF Create, Patch, Delete, Goto
  <2> QED BY <1>2, <2>1 DEF Wrote, Create, Patch, Delete
<1> QED BY <1>1, <1>2 DEF RunStep, Advance

\* Comments keep their types and their ids, and what is new among them is of
\* the run that wrote it.
LEMMA NewComments ==
  ASSUME TypeOK, NEW r \in Runs, Wrote(r)
  PROVE  /\ nextId' \in Nat /\ nextId' >= nextId
         /\ comments' \subseteq [id : 1..(nextId' - 1), owner : {"bot", "other"},
                                 head : Heads, title : Titles, run : Runs]
         /\ \A c, d \in comments' : c.id = d.id => c = d
         /\ \A c \in comments' \ comments :
              c.owner = "bot" /\ c.head = job[r].head /\ c.title = job[r].title /\ c.run = r
<1> DEFINE Shape(n) == [id : 1..(n - 1), owner : {"bot", "other"}, head : Heads, title : Titles,
   run : Runs]
<1>0. /\ nextId \in Nat /\ nextId >= 1 /\ job[r].head \in Heads /\ job[r].title \in Titles
      /\ comments \subseteq Shape(nextId)
      /\ \A c \in comments : c.id \in Nat /\ c.id >= 1 /\ c.id < nextId
  BY TheirTypes
<1>1. \A c, d \in comments : c.id = d.id => c = d
  BY DEF TypeOK
<1>2. CASE comments' \subseteq comments /\ nextId' = nextId
  BY <1>0, <1>1, <1>2
<1>3. CASE comments' = comments \cup {Brief(r, nextId)} /\ nextId' = nextId + 1
  <2> DEFINE b == Brief(r, nextId)
  <2>1. /\ b.id = nextId /\ b.owner = "bot" /\ b.head = job[r].head /\ b.title = job[r].title
        /\ b.run = r
    BY DEF Brief
  <2>2. b \in Shape(nextId')
    BY <1>0, <1>3 DEF Brief
  <2>3. comments \subseteq Shape(nextId')
    <3>1. 1..(nextId - 1) \subseteq 1..(nextId' - 1)
      BY <1>0, <1>3
    <3> QED BY <1>0, <3>1
  <2>4. \A c \in comments : c.id # b.id
    BY <1>0, <2>1
  <2> HIDE DEF b, Shape
  <2>5. \A c, d \in comments' : c.id = d.id => c = d
    BY <1>1, <1>3, <2>4 DEF b
  <2>6. comments' \subseteq Shape(nextId') /\ comments' \ comments \subseteq {b}
    BY <1>3, <2>2, <2>3 DEF b
  <2>7. nextId' \in Nat /\ nextId' >= nextId
    BY <1>0, <1>3
  <2> QED BY <2>1, <2>5, <2>6, <2>7 DEF Shape
<1>4. CASE 
           \/ comments' = {IF c.id = target[r] THEN Brief(r, c.id) ELSE c : c \in comments} /\
                 nextId' = nextId
  <2> DEFINE w(c) == IF c.id = target[r] THEN Brief(r, c.id) ELSE c
  <2>1. \A c \in comments : w(c).id = c.id
    BY DEF Brief
  <2>2. \A c \in comments : w(c) \in Shape(nextId)
    <3> TAKE c \in comments
    <3>1. c \in Shape(nextId)
      BY <1>0
    <3>2. Brief(r, c.id) \in Shape(nextId)
      BY <1>0, <3>1 DEF Brief
    <3> QED BY <3>1, <3>2
  <2>3. \A c \in comments : w(c) = c \/ (w(c).owner = "bot" /\ w(c).head = job[r].head /\ w(c).title = job[r].title /\ w(c).run = r)
    BY DEF Brief
  <2>4. comments' = {w(c) : c \in comments}
    BY <1>4
  <2> HIDE DEF w, Shape
  <2>5. \A c, d \in comments' : c.id = d.id => c = d
    BY <1>1, <2>1, <2>4
  <2>6. comments' \subseteq Shape(nextId')
    BY <1>4, <2>2, <2>4
  <2>7. \A c \in comments' \ comments : c.owner = "bot" /\ c.head = job[r].head /\
           c.title = job[r].title /\ c.run = r
    BY <2>3, <2>4
  <2> QED BY <1>0, <1>4, <2>5, <2>6, <2>7 DEF Shape
<1>5. comments \ WithId(target[r]) \subseteq comments
  OBVIOUS
<1> QED BY <1>2, <1>3, <1>4, <1>5 DEF Wrote

-----------------------------------------------------------------------------
(* The steps, one conjunct at a time.                                      *)

\* Every step keeps the types.
LEMMA TypeStep ==
  ASSUME Serialized, Inv, [Next]_vars
  PROVE  TypeOK'
<1> USE DEF Inv
<1>0. TypeOK /\ Numbered
  OBVIOUS
<1> DEFINE Shape(n) == [id : 1..(n - 1), owner : {"bot", "other"}, head : Heads, title : Titles,
   run : Runs]
<1>1. CASE Push \/ EditTitle
  <2>1. /\ nextRun \in Runs /\ nextRun' = nextRun + 1
        /\ pr' \in [head : Heads, title : Titles]
        /\ job' = [job EXCEPT ![nextRun] = pr']
        /\ pc' \in [Runs -> Steps]
        /\ UNCHANGED <<outcome, comments, nextId, base, target, uploaded, deletions>>
    BY <1>0, <1>1, TriggerEffect
  <2>2. job' \in [Runs -> [head : Heads, title : Titles]]
    BY <1>0, <2>1 DEF TypeOK
  <2>3. nextRun' \in 2..(Cardinality(Runs) + 1)
    <3>1. nextRun \in 1..(MaxHead + MaxTitle - 1) /\ MaxHead \in Nat /\ MaxTitle \in Nat /\
             Cardinality(Runs) = MaxHead + MaxTitle - 1
      BY <2>1, Bounds DEF Runs
    <3> QED BY <2>1, <3>1
  <2> QED BY <1>0, <2>1, <2>2, <2>3 DEF TypeOK
<1>2. CASE DeleteByHand
  <2>1. /\ comments' \subseteq comments /\ deletions' = deletions + 1
        /\ deletions < MaxDeletions
        /\ UNCHANGED <<pr, outcome, nextId, nextRun, pc, job, base, target, uploaded>>
    BY <1>2 DEF DeleteByHand
  <2>2. deletions' \in 0..MaxDeletions
    BY <1>0, <2>1, Bounds DEF TypeOK
  <2> QED BY <1>0, <2>1, <2>2 DEF TypeOK
<1>3. ASSUME NEW r \in Runs, RunStep(r) PROVE TypeOK'
  <2>1. /\ UNCHANGED <<pr, outcome, nextRun, job, deletions>>
        /\ pc' \in [Runs -> Steps] /\ base' \in [Runs -> Heads \cup {0}]
    BY <1>0, <1>3, RunEffect
  <2>2. /\ nextId' \in Nat /\ nextId' >= nextId
        /\ comments' \subseteq Shape(nextId') /\ \A c, d \in comments' : c.id = d.id => c = d
    BY <1>0, <1>3, Writes, NewComments
  <2>3. target' \in [Runs -> 0..(nextId - 1)] /\ uploaded' \subseteq Runs
    <3>0. target \in [Runs -> 0..(nextId - 1)] /\ uploaded \subseteq Runs /\ nextId \in Nat
      BY <1>0 DEF TypeOK
    <3>1. CASE Lookup(r)
      <4>1. LastSticky \in 0..(nextId - 1)
        BY <1>0, <3>0, LastIsASticky
      <4> QED BY <3>0, <3>1, <4>1 DEF Lookup
    <3>2. CASE ~Lookup(r)
      BY <1>3, <3>0, <3>2
         DEF RunStep, Advance, StartPending, Recover, Generate, Check, Detail, Create, Patch,
             Delete, Fail, RecoverNothing
    <3> QED BY <3>1, <3>2
  <2>4. target' \in [Runs -> 0..(nextId' - 1)]
    <3>1. 0..(nextId - 1) \subseteq 0..(nextId' - 1)
      BY <2>2, TheirTypes, <1>0
    <3> QED BY <2>3, <3>1
  <2> QED BY <1>0, <2>1, <2>2, <2>3, <2>4 DEF TypeOK
<1>4. CASE UNCHANGED vars
  BY <1>0, <1>4 DEF TypeOK, vars
<1> QED BY <1>1, <1>2, <1>3, <1>4, StepsAre

\* Every step keeps the numbering.
LEMMA NumberedStep ==
  ASSUME Serialized, Inv, [Next]_vars
  PROVE  Numbered'
<1>0. TypeOK /\ Numbered
  BY DEF Inv
<1>00. pc \in [Runs -> Steps] /\ base \in [Runs -> Heads \cup {0}] /\ Runs \subseteq Nat
  BY <1>0, Bounds DEF TypeOK
<1>1. CASE Push \/ EditTitle
  <2>1. /\ nextRun \in Runs /\ nextRun' = nextRun + 1 /\ pr'.head + pr'.title = nextRun + 1
        /\ \A r \in Runs \ {nextRun} : pc'[r] = pc[r] \/ pc'[r] = "cancelled"
        /\ Active' \cup Pending' \subseteq Active \cup Pending \cup {nextRun} /\ base' = base
        /\ pc' \in [Runs -> Steps]
    BY <1>0, <1>1, TriggerEffect
  <2>2. \A r \in Runs : r >= nextRun' => r # nextRun /\ r >= nextRun
    BY <1>00, <2>1
  <2>3. \A r \in Runs : r >= nextRun' => pc'[r] = "none"
    <3> SUFFICES ASSUME NEW r \in Runs, r >= nextRun' PROVE pc'[r] = "none"
      OBVIOUS
    <3>2. pc[r] = "none" /\ r # nextRun
      BY <1>0, <2>2 DEF Numbered
    <3>3. r \notin Active \cup Pending
      BY <3>2 DEF Active, Pending
    <3> QED BY <1>1, <3>2, <3>3 DEF Push, EditTitle, Trigger
  <2>4. \A r \in Runs : pc'[r] \in {"none", "pending", "recover"} => base'[r] = 0
    <3>1. pc[nextRun] = "none"
      BY <1>0, <1>00, <2>1 DEF Numbered
    <3> QED BY <1>0, <2>1, <3>1 DEF Numbered
  <2> QED BY <2>1, <2>3, <2>4 DEF Numbered
<1>2. CASE DeleteByHand
  BY <1>0, <1>2 DEF Numbered, DeleteByHand
<1>3. ASSUME NEW r \in Runs, RunStep(r) PROVE Numbered'
  <2>1. /\ UNCHANGED <<pr, outcome, nextRun, job, deletions>>
        /\ \A q \in Runs \ {r} : pc'[q] = pc[q] /\ base'[q] = base[q] /\ target'[q] = target[q]
        /\ pc[r] \notin {"none", "done", "failed", "cancelled"}
        /\ pc'[r] \notin {"none", "pending"}
        /\ r \in Active \/ (r \in Pending /\ Active = {} /\ pc'[r] = "recover" /\ UNCHANGED <<comments, base, target>>)
    BY <1>0, <1>3, RunEffect
  <2>2. pc'[r] = "recover" => base'[r] = 0
    <3>1. CASE r \in Pending
      BY <1>0, <2>1, <3>1 DEF Numbered, Pending, Active
    <3>2. CASE r \in Active
      <4>1. pc[r] \in {"recover", "generate", "check", "lookup", "detail", "write"}
        BY <3>2, <1>00 DEF Active, Steps
      <4>2. pc'[r] # "recover"
        BY <1>00, <1>3, <4>1
           DEF RunStep, Advance, StartPending, Recover, Generate, Check, Lookup, Detail, Create,
               Patch, Delete, Fail, RecoverNothing, Goto
      <4> QED BY <4>2
    <3> QED BY <2>1, <3>1, <3>2
  <2>3. \A q \in Runs : q >= nextRun' => pc'[q] = "none"
    BY <1>0, <2>1 DEF Numbered
  <2>4. \A q \in Runs : pc'[q] \in {"none", "pending", "recover"} => base'[q] = 0
    BY <1>0, <2>1, <2>2 DEF Numbered
  <2>5. nextRun' = pr'.head + pr'.title
    BY <1>0, <2>1 DEF Numbered
  <2> QED BY <2>3, <2>4, <2>5 DEF Numbered
<1>4. CASE UNCHANGED vars
  BY <1>0, <1>4 DEF Numbered, vars
<1> QED BY <1>1, <1>2, <1>3, <1>4, StepsAre

\* Every step leaves at most one run at work and one waiting.
LEMMA AloneStep ==
  ASSUME Serialized, Inv, [Next]_vars
  PROVE  Alone'
<1>0. TypeOK /\ Numbered /\ Alone
  BY DEF Inv
<1>1. CASE Push \/ EditTitle
  <2>1. \/ Active' = {nextRun} /\ Pending' = {}
        \/ Active' = Active /\ Pending' = {nextRun}
    BY <1>0, <1>1, TriggerEffect
  <2> QED BY <1>0, <2>1 DEF Alone
<1>2. CASE DeleteByHand \/ UNCHANGED vars
  BY <1>0, <1>2 DEF Alone, Active, Pending, DeleteByHand, vars
<1>3. ASSUME NEW r \in Runs, RunStep(r) PROVE Alone'
  <2>1. Pending' \subseteq Pending /\ Active' \subseteq {r}
    BY <1>0, <1>3, Turns
  <2> QED BY <1>0, <2>1 DEF Alone
<1> QED BY <1>1, <1>2, <1>3, StepsAre

\* What was chosen stays true: the run that chose is the only one that
\* writes, and people only delete.
LEMMA ChosenStep ==
  ASSUME Serialized, Inv, [Next]_vars
  PROVE  Chosen'
<1>0. TypeOK /\ Numbered /\ Alone /\ Chosen /\ One
  BY DEF Inv
<1>00. pc \in [Runs -> Steps] /\ target \in [Runs -> 0..(nextId - 1)]
  BY <1>0 DEF TypeOK
<1>1. CASE Push \/ EditTitle
  <2>1. /\ \/ Active' = {nextRun} /\ pc'[nextRun] = "recover"
           \/ Active' = Active /\ \A r \in Active : pc'[r] = pc[r]
        /\ comments' = comments /\ target' = target
    BY <1>0, <1>1, TriggerEffect
  <2>2. Stickies' = Stickies
    BY <2>1 DEF Stickies
  <2>3. CASE Active' = {nextRun} /\ pc'[nextRun] = "recover"
    BY <2>3 DEF Chosen
  <2>4. CASE Active' = Active /\ \A r \in Active : pc'[r] = pc[r]
    BY <1>0, <2>1, <2>2, <2>4 DEF Chosen
  <2> QED BY <2>1, <2>3, <2>4
<1>2. CASE DeleteByHand
  <2>1. comments' \subseteq comments /\ pc' = pc /\ target' = target
    BY <1>2 DEF DeleteByHand
  <2>2. Active' = Active /\ Stickies' \subseteq Stickies
    BY <2>1 DEF Active, Stickies
  <2> QED BY <1>0, <2>1, <2>2 DEF Chosen
<1>3. ASSUME NEW r \in Runs, RunStep(r) PROVE Chosen'
  <2>1. Active' \subseteq {r}
    BY <1>0, <1>3, Turns
  <2> SUFFICES ASSUME r \in Active'
               PROVE  /\ pc'[r] = "detail" => target'[r] # 0
                      /\ pc'[r] \in {"detail", "write"}
                            => \A c \in comments' : c.id = target'[r] => c.owner = "bot"
                      /\ pc'[r] = "write" /\ target'[r] = 0 => Stickies' = {}
    BY <2>1 DEF Chosen
  <2>2. CASE Lookup(r)
    <3>1. /\ comments' = comments /\ target'[r] = LastSticky
          /\ pc'[r] = IF LastSticky # 0 THEN "detail" ELSE IF Removes(r) THEN "done" ELSE "write"
      BY <1>00, <2>2 DEF Lookup, Goto
    <3>2. /\ LastSticky = 0 <=> Stickies = {}
          /\ \A c \in comments : c.id = LastSticky => c \in Stickies
      BY <1>0, LastIsASticky
    <3>3. Stickies' = Stickies /\ \A c \in Stickies : c.owner = "bot"
      BY <3>1 DEF Stickies
    <3> QED BY <3>1, <3>2, <3>3
  <2>3. CASE Detail(r)
    <3>1. /\ comments' = comments /\ target' = target /\ pc[r] = "detail"
          /\ pc'[r] \in {"write", "done"}
      BY <1>00, <2>3 DEF Detail, Goto
    <3>2. r \in Active
      BY <3>1 DEF Active
    <3> QED BY <1>0, <3>1, <3>2 DEF Chosen
  <2>4. CASE ~Lookup(r) /\ ~Detail(r)
    <3>1. pc'[r] \notin {"detail", "write"}
      BY <1>00, <1>3, <2>4
         DEF RunStep, Advance, StartPending, Recover, Generate, Check, Create, Patch, Delete,
             Fail, RecoverNothing, Goto
    <3> QED BY <3>1
  <2> QED BY <2>2, <2>3, <2>4
<1>4. CASE UNCHANGED vars
  BY <1>0, <1>4 DEF Chosen, Active, Stickies, vars
<1> QED BY <1>1, <1>2, <1>3, <1>4, StepsAre

\* After a step of a run there is no new sticky, or only the one it wrote and
\* nobody is at work.
LEMMA StickiesAfter ==
  ASSUME TypeOK, Alone, Chosen, One, NEW r \in Runs, Wrote(r), RunStep(r)
  PROVE  \/ Stickies' \subseteq Stickies
         \/ /\ Active' = {}
            /\ \E id \in Nat : Stickies' = {Brief(r, id)}
<1>0. \A c \in comments : c.id \in Nat
  BY TheirTypes
<1>00. pc \in [Runs -> Steps] /\ nextId \in Nat
  BY DEF TypeOK
<1>1. CASE pc[r] = "write" /\ pc'[r] = "done"
  <2>1. r \in Active /\ Active' \subseteq {r} /\ r \notin Active'
    BY <1>1, Turns DEF Active
  <2>2. \A c \in comments : c.id = target[r] => c \in Stickies
    BY <1>1, <2>1 DEF Chosen, Stickies
  <2>3. target[r] = 0 => Stickies = {}
    BY <1>1, <2>1 DEF Chosen
  <2>4. CASE target[r] = 0 /\ comments' = comments \cup {Brief(r, nextId)}
    BY <1>00, <2>1, <2>3, <2>4 DEF Stickies, Brief
  <2>5. CASE comments' = {IF c.id = target[r] THEN Brief(r, c.id) ELSE c : c \in comments}
    <3>1. CASE \E s \in comments : s.id = target[r]
      <4>1. PICK s \in comments : s.id = target[r]
        BY <3>1
      <4>2. s \in Stickies
        BY <2>2, <4>1
      <4>3. \A c \in Stickies : c = s
        BY <4>2 DEF One
      <4>4. \A c \in comments : c.id = target[r] => c = s
        BY <4>1 DEF TypeOK
      <4>5. Brief(r, s.id) \in comments' /\ Brief(r, s.id).owner = "bot"
        BY <2>5, <4>1 DEF Brief
      <4>6. \A c \in comments' : c = Brief(r, s.id) \/ (c \in comments /\ c # s)
        BY <2>5, <4>1, <4>4
      <4>7. Stickies' = {Brief(r, s.id)}
        BY <4>3, <4>5, <4>6 DEF Stickies
      <4> QED BY <1>0, <2>1, <4>1, <4>7
    <3>2. CASE ~ \E s \in comments : s.id = target[r]
      BY <2>5, <3>2 DEF Stickies
    <3> QED BY <3>1, <3>2
  <2>6. CASE comments' \subseteq comments
    BY <2>6 DEF Stickies
  <2> QED BY <2>4, <2>5, <2>6 DEF Wrote
<1>2. CASE comments' = comments
  BY <1>2 DEF Stickies
<1> QED BY <1>1, <1>2 DEF Wrote

\* No step leaves a second sticky.
LEMMA OneStep ==
  ASSUME Serialized, Inv, [Next]_vars
  PROVE  One'
<1>0. TypeOK /\ Numbered /\ Alone /\ Chosen /\ One
  BY DEF Inv
<1>1. CASE Push \/ EditTitle
  BY <1>0, <1>1, TriggerEffect DEF One, Stickies
<1>2. CASE DeleteByHand \/ UNCHANGED vars
  BY <1>0, <1>2 DEF One, Stickies, DeleteByHand, vars
<1>3. ASSUME NEW r \in Runs, RunStep(r) PROVE One'
  BY <1>0, <1>3, Writes, StickiesAfter DEF One
<1> QED BY <1>1, <1>2, <1>3, StepsAre

\* Every step keeps the order of stickies, runs and the pull request.
LEMMA OrderedStep ==
  ASSUME Serialized, Inv, [Next]_vars
  PROVE  Ordered'
<1>0. TypeOK /\ Numbered /\ Alone /\ Chosen /\ One /\ Ordered
  BY DEF Inv
<1>00. /\ pr.head \in Nat /\ pr.title \in Nat
       /\ \A c \in Stickies : c.head \in Nat /\ c.title \in Nat
       /\ \A r \in Runs : job[r].head \in Nat /\ job[r].title \in Nat
       /\ Active \subseteq Runs /\ Pending \subseteq Runs
  BY <1>0, TheirTypes DEF Stickies, Active, Pending
<1>1. CASE Push \/ EditTitle
  <2>1. /\ nextRun \in Runs /\ nextRun \notin Active \cup Pending
        /\ pr' \in [head : Heads, title : Titles]
        /\ pr'.head >= pr.head /\ pr'.title >= pr.title
        /\ job' = [job EXCEPT ![nextRun] = pr'] /\ comments' = comments
    BY <1>0, <1>1, TriggerEffect
  <2>2. \/ Active' = {nextRun} /\ Pending' = {}
        \/ Active' = Active /\ Pending' = {nextRun} /\ pr'.head = pr.head
    BY <1>0, <1>1, TriggerEffect
  <2>3. job'[nextRun] = pr' /\ \A r \in Active : job'[r] = job[r]
    BY <1>0, <1>00, <2>1 DEF TypeOK
  <2>4. pr'.head \in Nat /\ pr'.title \in Nat /\ Stickies' = Stickies
    BY <1>0, <2>1, TheirTypes DEF Stickies
  <2>5. \A c \in Stickies : c.head <= pr'.head /\ c.title <= pr'.title
    BY <1>0, <1>00, <2>1, <2>4 DEF Ordered
  <2>6. CASE Active' = {nextRun} /\ Pending' = {}
    BY <2>3, <2>4, <2>5, <2>6 DEF Ordered
  <2>7. CASE Active' = Active /\ Pending' = {nextRun} /\ pr'.head = pr.head
    <3>1. \A r \in Active : job[r].head = pr'.head /\ job[r].title <= pr'.title
      BY <1>0, <1>00, <2>1, <2>4, <2>7 DEF Ordered
    <3>2. \A r \in Active : \A c \in Stickies : c.title <= job[r].title
      BY <1>0 DEF Ordered
    <3> QED BY <2>3, <2>4, <2>5, <2>7, <3>1, <3>2 DEF Ordered
  <2> QED BY <2>2, <2>6, <2>7
<1>2. CASE DeleteByHand \/ UNCHANGED vars
  <2>1. pr' = pr /\ job' = job /\ pc' = pc /\ comments' \subseteq comments
    BY <1>2 DEF DeleteByHand, vars
  <2>2. Active' = Active /\ Pending' = Pending /\ Stickies' \subseteq Stickies
    BY <2>1 DEF Active, Pending, Stickies
  <2> QED BY <1>0, <2>1, <2>2 DEF Ordered
<1>3. ASSUME NEW r \in Runs, RunStep(r) PROVE Ordered'
  <2>1. pr' = pr /\ job' = job
    BY <1>0, <1>3, RunEffect
  <2>2. /\ Active' \subseteq {r} /\ (Active' \cup Pending') \subseteq (Active \cup Pending)
        /\ Pending' = Pending \ {r}
    BY <1>0, <1>3, Turns
  <2>3. r \in Active \/ (r \in Pending /\ comments' = comments)
    BY <1>0, <1>3, RunEffect
  <2>4. \A p \in Active', q \in Pending' : job[p].title <= job[q].title
    <3>1. r \in Active \/ (r \in Pending /\ Pending' = {})
      BY <1>0, <2>2, <2>3 DEF Alone
    <3> QED BY <1>0, <2>2, <3>1 DEF Ordered
  <2>5. CASE Stickies' \subseteq Stickies
    BY <1>0, <2>1, <2>2, <2>4, <2>5 DEF Ordered
  <2>6. CASE Active' = {} /\ \E id \in Nat : Stickies' = {Brief(r, id)}
    <3>1. \A c \in Stickies' : c.head = job[r].head /\ c.title = job[r].title
      BY <2>6 DEF Brief
    <3>2. r \in Active
      <4>1. CASE r \in Pending /\ comments' = comments
        <5>1. (Stickies' = Stickies /\ pc'[r] = "recover") \/ r \in Active
          BY <1>0, <1>3, <4>1, RunEffect DEF Stickies
        <5>2. pc'[r] = "recover" => r \in Active'
          BY DEF Active
        <5> QED BY <2>6, <5>1, <5>2
      <4> QED BY <2>3, <4>1
    <3>3. job[r].head = pr.head /\ job[r].title <= pr.title /\
             \A q \in Pending : job[r].title <= job[q].title
      BY <1>0, <3>2 DEF Ordered
    <3>4. \A q \in Pending' : job[q].head = pr.head /\ job[q].title <= pr.title
      BY <1>0, <2>2 DEF Ordered
    <3>5. \A c \in Stickies' : c.head <= pr.head /\ c.title <= pr.title
      BY <1>00, <3>1, <3>3
    <3> QED BY <2>1, <2>2, <2>6, <3>1, <3>3, <3>4, <3>5 DEF Ordered
  <2> QED BY <1>0, <1>3, <2>5, <2>6, Writes, StickiesAfter
<1> QED BY <1>1, <1>2, <1>3, StepsAre

\* Every step keeps what the run at work compares with on the pull request.
LEMMA ComparedStep ==
  ASSUME Serialized, Inv, [Next]_vars
  PROVE  Compared'
<1>0. TypeOK /\ Numbered /\ Alone /\ Chosen /\ One /\ Compared
  BY DEF Inv
<1>00. pc \in [Runs -> Steps] /\ base \in [Runs -> Heads \cup {0}] /\ Active \subseteq Runs
  BY <1>0 DEF TypeOK, Active
<1>1. CASE Push \/ EditTitle
  <2>1. /\ nextRun \in Runs /\ comments' = comments /\ base' = base
        /\ Active' = {nextRun} \/ Active' = Active
    BY <1>0, <1>1, TriggerEffect
  <2>2. base[nextRun] = 0
    <3>1. nextRun >= nextRun
      BY <2>1, Bounds
    <3> QED BY <1>0, <2>1, <3>1 DEF Numbered
  <2> QED BY <1>0, <2>1, <2>2 DEF Compared, Stickies
<1>2. CASE DeleteByHand \/ UNCHANGED vars
  <2>1. base' = base /\ pc' = pc /\ comments' \subseteq comments
    BY <1>2 DEF DeleteByHand, vars
  <2> QED BY <1>0, <2>1 DEF Compared, Active, Stickies
<1>3. ASSUME NEW r \in Runs, RunStep(r) PROVE Compared'
  <2>1. Active' \subseteq {r}
    BY <1>0, <1>3, Turns
  <2> SUFFICES ASSUME r \in Active', base'[r] # 0, NEW s \in Stickies'
               PROVE  s.head = base'[r]
    BY <2>1 DEF Compared
  <2>2. Stickies' \subseteq Stickies
    BY <1>0, <1>3, Writes, StickiesAfter
  <2>3. CASE Recover(r)
    <3> DEFINE from == {c \in WithId(LastSticky) : c.run \in uploaded /\ job[c.run].head = c.head}
    <3>1. base'[r] = IF from = {} THEN 0 ELSE (CHOOSE c \in from : TRUE).head
      BY <1>00, <2>3 DEF Recover
    <3>2. from # {}
      BY <3>1
    <3>3. (CHOOSE c \in from : TRUE) \in from
      BY <3>2
    <3>4. (CHOOSE c \in from : TRUE) \in Stickies
      BY <1>0, <3>3, LastIsASticky DEF WithId
    <3> QED BY <1>0, <2>2, <3>1, <3>2, <3>4 DEF One
  <2>4. CASE ~Recover(r)
    <3>1. base' = base
      BY <1>3, <2>4
         DEF RunStep, Advance, StartPending, Generate, Check, Lookup, Detail, Create, Patch,
             Delete, Fail, RecoverNothing
    <3>2. r \in Active
      <4>1. r \in Pending => base[r] = 0
        BY <1>0 DEF Numbered, Pending
      <4> QED BY <1>0, <1>3, <3>1, <4>1, RunEffect
    <3> QED BY <1>0, <2>2, <3>1, <3>2 DEF Compared
  <2> QED BY <2>3, <2>4
<1> QED BY <1>1, <1>2, <1>3, StepsAre

-----------------------------------------------------------------------------
(* The theorems.                                                           *)

\* The invariant, for every interleaving of pushes, edits, deletions by hand,
\* runs and failures.
THEOREM Invariant ==
  ASSUME Serialized
  PROVE  Spec => []Inv
<1>1. Init => Inv
  BY InitInv
<1>2. Inv /\ [Next]_vars => Inv'
  BY TypeStep, NumberedStep, AloneStep, ChosenStep, OneStep, OrderedStep, ComparedStep DEF Inv
<1> QED BY <1>1, <1>2, PTL DEF Spec

\* post-comment.ts upserts one comment per pull request: whatever fails, is
\* cancelled or is deleted by hand, there is never a second sticky.
THEOREM NeverASecond ==
  ASSUME Serialized
  PROVE  Spec => []OneSticky
<1>1. Inv => OneSticky
  <2> SUFFICES ASSUME Inv PROVE Cardinality(Stickies) <= 1
    BY DEF OneSticky
  <2>1. CASE Stickies = {}
    BY <2>1, FS_EmptySet
  <2>2. CASE Stickies # {}
    <3>1. PICK s \in Stickies : TRUE
      BY <2>2
    <3>2. Stickies = {s}
      BY <3>1 DEF Inv, One
    <3> QED BY <3>2, FS_Singleton
  <2> QED BY <2>1, <2>2
<1> QED BY <1>1, Invariant, PTL

\* What is lost when a run writes is the sticky it chose, no newer than the
\* run, and of the head it compared with.
LEMMA Lost ==
  ASSUME Inv, [Next]_vars, Serialized, NEW r \in Runs, pc[r] = "write", pc'[r] = "done",
         NEW c \in comments \ comments'
  PROVE  c \in Stickies /\ c.head <= job[r].head /\ c.title <= job[r].title
         /\ (base[r] # 0 => c.head = base[r])
<1>0. TypeOK /\ Numbered /\ Alone /\ Chosen /\ One /\ Ordered /\ Compared
  BY DEF Inv
<1>1. r \in Active
  BY DEF Active
<1>2. RunStep(r)
  <2>1. ~(Push \/ EditTitle)
    <3> SUFFICES ASSUME Push \/ EditTitle PROVE FALSE
      OBVIOUS
    <3>1. comments' = comments
      BY <1>0, TriggerEffect
    <3> QED BY <3>1
  <2>2. ~DeleteByHand /\ ~UNCHANGED vars
    BY DEF DeleteByHand, vars
  <2>3. \A q \in Runs : RunStep(q) => q = r
    <3> SUFFICES ASSUME NEW q \in Runs, RunStep(q), q # r PROVE FALSE
      OBVIOUS
    <3>1. pc'[r] = pc[r]
      BY <1>0, RunEffect
    <3> QED BY <3>1
  <2> QED BY <2>1, <2>2, <2>3, StepsAre
<1>3. c.id = target[r]
  BY <1>0, <1>2, Writes DEF Wrote, WithId
<1>4. c \in Stickies
  <2>1. c.owner = "bot"
    BY <1>0, <1>1, <1>3 DEF Chosen
  <2> QED BY <2>1 DEF Stickies
<1>5. c.head <= job[r].head /\ c.title <= job[r].title
  BY <1>0, <1>1, <1>4 DEF Ordered
<1> QED BY <1>0, <1>1, <1>4, <1>5 DEF Compared

\* README.md:180: a stale run cannot overwrite or delete a newer sticky, nor
\* anybody else's comment.
THEOREM NewerIsKept ==
  ASSUME Serialized
  PROVE  Spec => NoNewerStickyLost
<1>1. Inv /\ [Next]_vars =>
        [\A r \in Runs :
           (pc[r] = "write" /\ pc'[r] = "done") =>
             \A c \in comments \ comments' :
               /\ c.owner = "bot"
               /\ c.head <= job[r].head
               /\ c.title <= job[r].title]_vars
  BY Lost DEF Stickies
<1> QED BY <1>1, Invariant, PTL DEF Spec, NoNewerStickyLost

\* action.yml:146-152: the delta in a brief is computed against the very
\* brief it replaces.
THEOREM DeltaIsHonest ==
  ASSUME Serialized
  PROVE  Spec => DeltaIsAgainstWhatWasShown
<1>1. Inv /\ [Next]_vars =>
        [\A r \in Runs :
           (pc[r] = "write" /\ pc'[r] = "done" /\ base[r] # 0) =>
             \A c \in comments \ comments' : c.head = base[r]]_vars
  BY Lost
<1> QED BY <1>1, Invariant, PTL DEF Spec, DeltaIsAgainstWhatWasShown
=============================================================================
