-------------------------- MODULE Collection_proofs -------------------------
(***************************************************************************)
(* Theorems about the collection of a review's inputs, for every set of    *)
(* files, every history and working tree, every privacy file, and every    *)
(* number of changes others make while the repository is being read.       *)
(***************************************************************************)
EXTENDS Collection, TLAPS

-----------------------------------------------------------------------------
(* What Git reports.                                                       *)

\* What a commit or the working tree is.
VersionTrees == [RepoFiles -> Nat]

\* What an entry says of the two trees; `added' is how an addition is called.
Kind(e, old, new, detected, added) ==
  \/ /\ e.status = "R" /\ detected /\ e.old \in RepoFiles /\ old[e.old] # 0 /\ new[e.old] = 0
     /\ old[e.path] = 0 /\ new[e.path] = old[e.old]
  \/ e.status = added /\ e.old = "none" /\ old[e.path] = 0 /\ new[e.path] # 0
  \/ e.status = "D" /\ e.old = "none" /\ old[e.path] # 0 /\ new[e.path] = 0
  \/ e.status = "M" /\ e.old = "none" /\ old[e.path] # 0 /\ new[e.path] # 0 /\ old[e.path] # new[e.path]

\* The two ends of a rename.
LEMMA MoveFacts ==
  ASSUME NEW old, NEW new, NEW p \in Moves(old, new)
  PROVE  /\ p[1] \in RepoFiles /\ p[2] \in RepoFiles /\ p = <<p[1], p[2]>>
         /\ old[p[1]] # 0 /\ new[p[1]] = 0 /\ old[p[2]] = 0 /\ new[p[2]] = old[p[1]]
         /\ \A q \in Moves(old, new) : q[2] = p[2] => q = p
<1> DEFINE pairs == {r \in RepoFiles \X RepoFiles : /\ old[r[1]] # 0 /\ new[r[1]] = 0
                                      /\ old[r[2]] = 0 /\ new[r[2]] = old[r[1]]}
<1>1. p \in pairs /\ (\A q \in pairs : q[2] = p[2] => q = p) /\ Moves(old, new) \subseteq pairs
  BY DEF Moves
<1>2. p \in RepoFiles \X RepoFiles
  BY <1>1
<1> QED BY <1>1, <1>2

\* The entry of a path that is no end of a rename.
Other(f, old, new) ==
  [path |-> f, status |-> IF old[f] = 0 THEN "A" ELSE IF new[f] = 0 THEN "D" ELSE "M", old |-> "none"]

\* An entry of a status is a rename or what one path became.
LEMMA StatusForms ==
  ASSUME NEW old, NEW new, NEW detected
  PROVE  LET moved == IF detected THEN Moves(old, new) ELSE {}
         IN \A e : e \in NameStatus(old, new, detected) <=>
              \/ \E p \in moved : e = [path |-> p[2], status |-> "R", old |-> p[1]]
              \/ \E f \in RepoFiles : /\ old[f] # new[f] /\ (\A p \in moved : f # p[1] /\ f # p[2])
                                  /\ e = Other(f, old, new)
  BY DEF NameStatus, Other

\* An entry of a status says what happened to its path, which did change.
LEMMA StatusKinds ==
  ASSUME NEW old \in VersionTrees, NEW new \in VersionTrees, NEW detected \in BOOLEAN,
         NEW e \in NameStatus(old, new, detected)
  PROVE  e \in Entries /\ old[e.path] # new[e.path] /\ Kind(e, old, new, detected, "A")
<1> DEFINE moved == IF detected THEN Moves(old, new) ELSE {}
<1>1. CASE \E p \in moved : e = [path |-> p[2], status |-> "R", old |-> p[1]]
  <2>1. PICK p \in moved : e = [path |-> p[2], status |-> "R", old |-> p[1]]
    BY <1>1
  <2>2. detected /\ p \in Moves(old, new)
    BY <2>1
  <2>3. e.path = p[2] /\ e.status = "R" /\ e.old = p[1]
    BY <2>1
  <2>4. /\ p[1] \in RepoFiles /\ p[2] \in RepoFiles
        /\ old[p[1]] # 0 /\ new[p[1]] = 0 /\ old[p[2]] = 0 /\ new[p[2]] = old[p[1]]
    BY <2>2, MoveFacts
  <2>5. e \in Entries
    BY <2>1, <2>4 DEF Entries, Statuses
  <2> QED BY <2>2, <2>3, <2>4, <2>5 DEF Kind
<1>2. CASE \E f \in RepoFiles : /\ old[f] # new[f] /\ (\A p \in moved : f # p[1] /\ f # p[2])
                            /\ e = Other(f, old, new)
  <2>1. PICK f \in RepoFiles : old[f] # new[f] /\ e = Other(f, old, new)
    BY <1>2
  <2>2. /\ e.path = f /\ e.old = "none"
        /\ e.status = IF old[f] = 0 THEN "A" ELSE IF new[f] = 0 THEN "D" ELSE "M"
    BY <2>1 DEF Other
  <2>3. e \in Entries
    BY <2>1 DEF Other, Entries, Statuses
  <2>4. Kind(e, old, new, detected, "A")
    BY <2>1, <2>2 DEF Kind
  <2> QED BY <2>1, <2>2, <2>3, <2>4
<1> QED BY <1>1, <1>2, StatusForms

\* A path has one entry.
LEMMA StatusUnique ==
  ASSUME NEW old \in VersionTrees, NEW new \in VersionTrees, NEW detected \in BOOLEAN,
         NEW e \in NameStatus(old, new, detected), NEW f \in NameStatus(old, new, detected), e.path = f.path
  PROVE  e = f
<1> DEFINE moved == IF detected THEN Moves(old, new) ELSE {}
           IsMove(x) == \E p \in moved : x = [path |-> p[2], status |-> "R", old |-> p[1]]
           Change(x) == \E g \in RepoFiles : /\ old[g] # new[g] /\ (\A p \in moved : g # p[1] /\ g # p[2])
                                        /\ x = Other(g, old, new)
<1>1. (IsMove(e) \/ Change(e)) /\ (IsMove(f) \/ Change(f))
  BY StatusForms
<1>2. ASSUME NEW x, NEW y, IsMove(x), Change(y) PROVE x.path # y.path
  BY <1>2 DEF Other
<1>3. CASE IsMove(e) /\ IsMove(f)
  <2>1. PICK p \in moved : e = [path |-> p[2], status |-> "R", old |-> p[1]]
    BY <1>3
  <2>2. PICK q \in moved : f = [path |-> q[2], status |-> "R", old |-> q[1]]
    BY <1>3
  <2>3. p[2] = q[2] /\ p \in Moves(old, new) /\ q \in Moves(old, new)
    BY <2>1, <2>2
  <2>4. p = q
    BY <2>3, MoveFacts
  <2> QED BY <2>1, <2>2, <2>4
<1>4. CASE Change(e) /\ Change(f)
  BY <1>4 DEF Other
<1> HIDE DEF IsMove, Change
<1> QED BY <1>1, <1>2, <1>3, <1>4

\* What changed has an entry, or is the source of a rename.
LEMMA StatusExists ==
  ASSUME NEW old \in VersionTrees, NEW new \in VersionTrees, NEW detected \in BOOLEAN,
         NEW f \in RepoFiles, old[f] # new[f]
  PROVE  \/ \E e \in NameStatus(old, new, detected) : e.path = f
         \/ detected /\ \E p \in Moves(old, new) : p[1] = f
<1> DEFINE moved == IF detected THEN Moves(old, new) ELSE {}
<1>1. CASE \A p \in moved : f # p[1] /\ f # p[2]
  <2>1. Other(f, old, new) \in NameStatus(old, new, detected)
    BY <1>1, StatusForms
  <2>2. Other(f, old, new).path = f
    BY DEF Other
  <2> QED BY <2>1, <2>2
<1>2. CASE \E p \in moved : f = p[1]
  BY <1>2
<1>3. CASE \E p \in moved : f = p[2]
  <2>1. PICK p \in moved : f = p[2]
    BY <1>3
  <2>2. [path |-> p[2], status |-> "R", old |-> p[1]] \in NameStatus(old, new, detected)
    BY <2>1, StatusForms
  <2> QED BY <2>1, <2>2
<1> QED BY <1>1, <1>2, <1>3

\* The entries of the working tree's status.
LEMMA PorcelainForms ==
  ASSUME NEW head, NEW now, NEW z
  PROVE  \A e : e \in PorcelainStatus(head, now, z) <=>
           \E x \in NameStatus(head, now, z) :
             e = IF x.status = "A" /\ ~z THEN [x EXCEPT !.status = "??"] ELSE x
  BY DEF PorcelainStatus

\* How the status calls an addition.
Added(z) == IF z THEN "A" ELSE "??"

\* The entry of the working tree's status made from one of the trees'.
LEMMA PorcelainOf ==
  ASSUME NEW head \in VersionTrees, NEW now \in VersionTrees, NEW z \in BOOLEAN,
         NEW x \in NameStatus(head, now, z),
         NEW e, e = IF x.status = "A" /\ ~z THEN [x EXCEPT !.status = "??"] ELSE x
  PROVE  /\ e \in Entries /\ e.path = x.path /\ e.old = x.old
         /\ head[e.path] # now[e.path] /\ Kind(e, head, now, z, Added(z))
<1>1. x \in Entries /\ head[x.path] # now[x.path] /\ Kind(x, head, now, z, "A")
  BY StatusKinds
<1>2. CASE x.status = "A" /\ ~z
  <2>1. e = [x EXCEPT !.status = "??"]
    BY <1>2
  <2>2. e \in Entries /\ e.path = x.path /\ e.old = x.old /\ e.status = "??"
    BY <2>1, <1>1 DEF Entries, Statuses
  <2>3. x.old = "none" /\ head[x.path] = 0 /\ now[x.path] # 0
    BY <1>1, <1>2 DEF Kind
  <2> QED BY <1>1, <1>2, <2>2, <2>3 DEF Kind, Added
<1>3. CASE ~(x.status = "A" /\ ~z)
  <2>1. e = x
    BY <1>3
  <2> QED BY <1>1, <1>3, <2>1 DEF Kind, Added
<1> QED BY <1>2, <1>3

\* An entry of the working tree's status says what happened to its path.
LEMMA PorcelainKinds ==
  ASSUME NEW head \in VersionTrees, NEW now \in VersionTrees, NEW z \in BOOLEAN,
         NEW e \in PorcelainStatus(head, now, z)
  PROVE  e \in Entries /\ head[e.path] # now[e.path] /\ Kind(e, head, now, z, Added(z))
<1>1. PICK x \in NameStatus(head, now, z) : e = IF x.status = "A" /\ ~z THEN [x EXCEPT !.status = "??"] ELSE x
  BY PorcelainForms
<1> QED BY <1>1, PorcelainOf

\* A path has one entry in the status of the working tree.
LEMMA PorcelainUnique ==
  ASSUME NEW head \in VersionTrees, NEW now \in VersionTrees, NEW z \in BOOLEAN,
         NEW e \in PorcelainStatus(head, now, z), NEW f \in PorcelainStatus(head, now, z), e.path = f.path
  PROVE  e = f
<1>1. PICK x \in NameStatus(head, now, z) : e = IF x.status = "A" /\ ~z THEN [x EXCEPT !.status = "??"] ELSE x
  BY PorcelainForms
<1>2. PICK y \in NameStatus(head, now, z) : f = IF y.status = "A" /\ ~z THEN [y EXCEPT !.status = "??"] ELSE y
  BY PorcelainForms
<1>3. x.path = y.path
  BY <1>1, <1>2, PorcelainOf
<1>4. x = y
  BY <1>3, StatusUnique
<1> QED BY <1>1, <1>2, <1>4

\* What is not as the head has it is in the status of the working tree, as a
\* path or as the source of a rename.
LEMMA PorcelainExists ==
  ASSUME NEW head \in VersionTrees, NEW now \in VersionTrees, NEW z \in BOOLEAN,
         NEW f \in RepoFiles, head[f] # now[f]
  PROVE  \/ \E e \in PorcelainStatus(head, now, z) : e.path = f
         \/ /\ z /\ now[f] = 0
            /\ \E e \in PorcelainStatus(head, now, z) : e.old = f
<1>1. CASE \E x \in NameStatus(head, now, z) : x.path = f
  <2>1. PICK x \in NameStatus(head, now, z) : x.path = f
    BY <1>1
  <2> DEFINE e == IF x.status = "A" /\ ~z THEN [x EXCEPT !.status = "??"] ELSE x
  <2>2. e \in PorcelainStatus(head, now, z)
    BY PorcelainForms
  <2>3. e.path = f
    BY <2>1, PorcelainOf
  <2> QED BY <2>2, <2>3
<1>2. CASE z /\ \E p \in Moves(head, now) : p[1] = f
  <2>1. PICK p \in Moves(head, now) : p[1] = f
    BY <1>2
  <2> DEFINE e == [path |-> p[2], status |-> "R", old |-> p[1]]
  <2>2. e \in NameStatus(head, now, z)
    BY <1>2, StatusForms
  <2>3. e \in PorcelainStatus(head, now, z)
    BY <2>2, PorcelainForms
  <2>4. now[f] = 0
    BY <2>1, MoveFacts
  <2> QED BY <1>2, <2>1, <2>3, <2>4
<1> QED BY <1>1, <1>2, StatusExists

-----------------------------------------------------------------------------
(* What is listed.                                                         *)

\* What a collection reads of the tree `now', staged if z, when `cur' says
\* that the head is the one checked out.
StatusOf(cur, head, now, z) == IF cur THEN PorcelainStatus(head, now, z) ELSE {}

UntrackedOf(cur, head, now, z) == SelectUntrackedFiles(StatusOf(cur, head, now, z))

OmittedOf(cur, head, now, z) == Untracked(StatusOf(cur, head, now, z)) \ UntrackedOf(cur, head, now, z)

UsableOf(cur, head, now, z) ==
  {e \in StatusOf(cur, head, now, z) : e.status = "??" => e.path \in UntrackedOf(cur, head, now, z)}

\* An ignored source is not named.
Strip(f) == IF f \in Ignored THEN "none" ELSE f

\* The changed files such a collection lists.
ChangedOf(cur, base, head, now, z) ==
  Reviewable(Listed(NameStatus(base, head, TRUE), StatusOf(cur, head, now, z), UntrackedOf(cur, head, now, z),
     now))

\* A file the range alone has.
Alone(c, base, head, cur, now, z) ==
  \E r \in NameStatus(base, head, TRUE) :
    /\ r.path = c.path /\ \A e \in UsableOf(cur, head, now, z) : e.path # c.path
    /\ c.status = r.status /\ c.old = Strip(r.old) /\ c.source = "diff"

\* A file the range and the status both have.
Both(c, base, head, cur, now, z) ==
  \E r \in NameStatus(base, head, TRUE), e \in UsableOf(cur, head, now, z) :
    /\ r.path = c.path /\ e.path = c.path
    /\ c.status = IF ShouldPreserveRangeStatus(r.status, e.status) THEN r.status ELSE e.status
    /\ c.old = Strip(IF e.old # "none" THEN e.old ELSE r.old) /\ c.source = "working_tree"

\* A file the status alone has.
New(c, base, head, cur, now, z) ==
  \E e \in UsableOf(cur, head, now, z) :
    /\ e.path = c.path /\ (\A r \in NameStatus(base, head, TRUE) : r.path # c.path)
    /\ ~IsExcluded(c.path) /\ (e.status = "D" \/ now[c.path] # 0)
    /\ c.status = e.status /\ c.old = Strip(e.old) /\ c.source = "working_tree"

\* What is left of a list of changed files.
LEMMA ReviewableForms ==
  ASSUME NEW all
  PROVE  \A c : c \in Reviewable(all) <=>
           \E x \in all : x.path \notin Ignored /\ c = IF x.old \in Ignored THEN [x EXCEPT !.old = "none"] ELSE x
  BY DEF Reviewable

\* Only the name of the source is taken from a changed file.
LEMMA Stripped ==
  ASSUME NEW x \in Changes, NEW c, c = IF x.old \in Ignored THEN [x EXCEPT !.old = "none"] ELSE x
  PROVE  /\ c \in Changes /\ c.path = x.path /\ c.status = x.status /\ c.source = x.source
         /\ c.old = Strip(x.old)
  BY DEF Strip, Changes

\* A listed file is of the range, of both or of the status.
LEMMA ListedForms ==
  ASSUME NEW range, NEW status, NEW untracked, NEW now
  PROVE  LET usable == {e \in status : e.status = "??" => e.path \in untracked}
         IN \A x : x \in Listed(range, status, untracked, now) <=>
              \/ \E r \in range : (\A e \in usable : e.path # r.path) /\ x = Changed(r, "diff")
              \/ \E r \in range, e \in usable : r.path = e.path /\ x = Merged(r, e)
              \/ \E e \in usable : /\ (\A r \in range : r.path # e.path) /\ ~IsExcluded(e.path)
                                   /\ (e.status = "D" \/ now[e.path] # 0) /\ x = Changed(e, "working_tree")
<1> DEFINE usable == {e \in status : e.status = "??" => e.path \in untracked}
           one == {Changed(r, "diff") : r \in {x \in range : \A e \in usable : e.path # x.path}}
           two == {Merged(p[1], p[2]) : p \in {q \in range \X usable : q[1].path = q[2].path}}
           three == {Changed(e, "working_tree") : e \in {x \in usable :
                       (\A r \in range : r.path # x.path) /\ ~IsExcluded(x.path) /\
                          (x.status = "D" \/ now[x.path] # 0)}}
<1>1. Listed(range, status, untracked, now) = one \cup two \cup three
  BY DEF Listed
<1>2. \A x : x \in one <=> \E r \in range : (\A e \in usable : e.path # r.path) /\ x = Changed(r, "diff")
  OBVIOUS
<1>3. \A x : x \in two <=> \E r \in range, e \in usable : r.path = e.path /\ x = Merged(r, e)
  <2>1. ASSUME NEW x \in two PROVE \E r \in range, e \in usable : r.path = e.path /\ x = Merged(r, e)
    <3>1. PICK p \in range \X usable : p[1].path = p[2].path /\ x = Merged(p[1], p[2])
      BY <2>1
    <3> QED BY <3>1
  <2>2. ASSUME NEW x, NEW r \in range, NEW e \in usable, r.path = e.path, x = Merged(r, e) PROVE x \in two
    <3> DEFINE p == <<r, e>>
    <3>1. p \in range \X usable /\ p[1] = r /\ p[2] = e
      OBVIOUS
    <3>2. p \in {q \in range \X usable : q[1].path = q[2].path}
      BY <3>1, <2>2
    <3>3. Merged(p[1], p[2]) \in two
      BY <3>2
    <3> QED BY <3>1, <3>3, <2>2
  <2> QED BY <2>1, <2>2
<1>4. \A x : x \in three <=> \E e \in usable : /\ (\A r \in range : r.path # e.path) /\ ~IsExcluded(e.path)
                                   /\ (e.status = "D" \/ now[e.path] # 0) /\ x = Changed(e, "working_tree")
  OBVIOUS
<1> HIDE DEF one, two, three
<1> QED BY <1>1, <1>2, <1>3, <1>4

\* The entries of the range.
LEMMA RangeTypes ==
  ASSUME NEW base \in VersionTrees, NEW head \in VersionTrees, NEW r \in NameStatus(base, head, TRUE)
  PROVE  r \in Entries /\ Kind(r, base, head, TRUE, "A")
  BY StatusKinds

\* The entries of the status that the listing takes.
LEMMA UsableTypes ==
  ASSUME NEW cur \in BOOLEAN, NEW head \in VersionTrees, NEW now \in VersionTrees, NEW z \in BOOLEAN,
         NEW e \in UsableOf(cur, head, now, z)
  PROVE  /\ e \in Entries /\ head[e.path] # now[e.path] /\ Kind(e, head, now, z, Added(z))
         /\ cur /\ e \in PorcelainStatus(head, now, z) /\
               (e.status = "??" => e.path \in UntrackedOf(cur, head, now, z))
<1>1. e \in StatusOf(cur, head, now, z) /\ (e.status = "??" => e.path \in UntrackedOf(cur, head, now, z))
  BY DEF UsableOf
<1>2. cur /\ e \in PorcelainStatus(head, now, z)
  BY <1>1 DEF StatusOf
<1> QED BY <1>1, <1>2, PorcelainKinds

\* The parts of a changed file.
LEMMA ChangedTypes ==
  ASSUME NEW e \in Entries, NEW source \in {"diff", "working_tree"}, NEW x, x = Changed(e, source)
  PROVE  x \in Changes /\ x.path = e.path /\ x.status = e.status /\ x.old = e.old /\ x.source = source
  BY DEF Changed, Entries, Changes

LEMMA MergedTypes ==
  ASSUME NEW r \in Entries, NEW e \in Entries, NEW x, x = Merged(r, e)
  PROVE  /\ x \in Changes /\ x.path = r.path /\ x.source = "working_tree"
         /\ x.status = IF ShouldPreserveRangeStatus(r.status, e.status) THEN r.status ELSE e.status
         /\ x.old = IF e.old # "none" THEN e.old ELSE r.old
  BY DEF Merged, Entries, Changes

\* Where a changed file comes from.
LEMMA ChangedForms ==
  ASSUME NEW cur \in BOOLEAN, NEW base \in VersionTrees, NEW head \in VersionTrees,
         NEW now \in VersionTrees, NEW z \in BOOLEAN, NEW c \in ChangedOf(cur, base, head, now, z)
  PROVE  /\ c \in Changes /\ c.path \notin Ignored
         /\ \/ Alone(c, base, head, cur, now, z)
            \/ Both(c, base, head, cur, now, z)
            \/ New(c, base, head, cur, now, z)
<1> DEFINE range == NameStatus(base, head, TRUE)
           usable == UsableOf(cur, head, now, z)
<1>1. PICK x \in Listed(range, StatusOf(cur, head, now, z), UntrackedOf(cur, head, now, z), now) :
        x.path \notin Ignored /\ c = IF x.old \in Ignored THEN [x EXCEPT !.old = "none"] ELSE x
  <2> DEFINE all == Listed(range, StatusOf(cur, head, now, z), UntrackedOf(cur, head, now, z), now)
  <2>1. c \in Reviewable(all)
    BY DEF ChangedOf
  <2> HIDE DEF all
  <2>2. \E x \in all : x.path \notin Ignored /\ c = IF x.old \in Ignored THEN [x EXCEPT !.old = "none"] ELSE x
    BY <2>1, ReviewableForms
  <2> QED BY <2>2 DEF all
<1>8. ASSUME x \in Changes
      PROVE  /\ c \in Changes /\ c.path = x.path /\ c.status = x.status /\ c.source = x.source
             /\ c.old = Strip(x.old)
  <2>1. c = IF x.old \in Ignored THEN [x EXCEPT !.old = "none"] ELSE x
    BY <1>1
  <2> QED BY <1>8, <2>1, Stripped
<1>2. \A r \in range : r \in Entries
  BY RangeTypes
<1>3. \A e \in usable : e \in Entries
  BY UsableTypes
<1>4. CASE \E r \in range : (\A e \in usable : e.path # r.path) /\ x = Changed(r, "diff")
  <2>1. PICK r \in range : (\A e \in usable : e.path # r.path) /\ x = Changed(r, "diff")
    BY <1>4
  <2>2. x \in Changes /\ x.path = r.path /\ x.status = r.status /\ x.old = r.old /\ x.source = "diff"
    BY <2>1, <1>2, ChangedTypes
  <2>3. c \in Changes /\ c.path = r.path /\ c.status = r.status /\ c.old = Strip(r.old) /\ c.source = "diff"
    BY <2>2, <1>8
  <2>4. Alone(c, base, head, cur, now, z)
    BY <2>1, <2>3 DEF Alone
  <2> QED BY <2>2, <2>3, <2>4, <1>1
<1>5. CASE \E r \in range, e \in usable : r.path = e.path /\ x = Merged(r, e)
  <2>1. PICK r \in range, e \in usable : r.path = e.path /\ x = Merged(r, e)
    BY <1>5
  <2>2. /\ x \in Changes /\ x.path = r.path /\ x.source = "working_tree"
        /\ x.status = IF ShouldPreserveRangeStatus(r.status, e.status) THEN r.status ELSE e.status
        /\ x.old = IF e.old # "none" THEN e.old ELSE r.old
    <3>1. r \in Entries /\ e \in Entries /\ x = Merged(r, e) /\ r.path = e.path
      BY <2>1, <1>2, <1>3
    <3> QED BY <3>1, MergedTypes
  <2>3. c \in Changes /\ c.path = r.path /\ c.status = x.status /\ c.old = Strip(x.old) /\
           c.source = "working_tree"
    BY <2>2, <1>8
  <2>4. Both(c, base, head, cur, now, z)
    BY <2>1, <2>2, <2>3 DEF Both
  <2> QED BY <2>2, <2>3, <2>4, <1>1
<1>6. CASE \E e \in usable : /\ (\A r \in range : r.path # e.path) /\ ~IsExcluded(e.path)
                             /\ (e.status = "D" \/ now[e.path] # 0) /\ x = Changed(e, "working_tree")
  <2>1. PICK e \in usable : /\ (\A r \in range : r.path # e.path) /\ ~IsExcluded(e.path)
                            /\ (e.status = "D" \/ now[e.path] # 0) /\ x = Changed(e, "working_tree")
    BY <1>6
  <2>2. x \in Changes /\ x.path = e.path /\ x.status = e.status /\ x.old = e.old /\ x.source = "working_tree"
    BY <2>1, <1>3, ChangedTypes
  <2>3. c \in Changes /\ c.path = e.path /\ c.status = e.status /\ c.old = Strip(e.old) /\
           c.source = "working_tree"
    BY <2>2, <1>8
  <2>4. New(c, base, head, cur, now, z)
    BY <2>1, <2>3 DEF New
  <2> QED BY <2>2, <2>3, <2>4, <1>1
<1>7. usable = {e \in StatusOf(cur, head, now, z) : e.status = "??" => e.path \in UntrackedOf(cur, head, now, z)}
  BY DEF UsableOf
<1> HIDE DEF usable, range
<1> QED BY <1>1, <1>4, <1>5, <1>6, <1>7, ListedForms

\* A reviewable path of the status that is there, or was deleted, is listed.
LEMMA ListedUsable ==
  ASSUME NEW cur \in BOOLEAN, NEW base \in VersionTrees, NEW head \in VersionTrees,
         NEW now \in VersionTrees, NEW z \in BOOLEAN, NEW o \in UsableOf(cur, head, now, z),
         o.path \notin Ignored, o.path \notin Artifact, o.status = "D" \/ now[o.path] # 0
  PROVE  \E c \in ChangedOf(cur, base, head, now, z) : c.path = o.path
<1> DEFINE p == o.path
           range == NameStatus(base, head, TRUE)
           usable == UsableOf(cur, head, now, z)
           all == Listed(range, StatusOf(cur, head, now, z), UntrackedOf(cur, head, now, z), now)
<1>1. ASSUME NEW x \in all, x \in Changes,
         x.path = p PROVE \E c \in ChangedOf(cur, base, head, now, z) : c.path = p
  <2> DEFINE c == IF x.old \in Ignored THEN [x EXCEPT !.old = "none"] ELSE x
  <2>1. c \in ChangedOf(cur, base, head, now, z)
    BY <1>1, ReviewableForms DEF ChangedOf
  <2>2. c.path = p
    BY <1>1, Stripped
  <2> QED BY <2>1, <2>2
<1>2. \A r \in range : r \in Entries
  BY RangeTypes
<1>3. \A e \in usable : e \in Entries
  BY UsableTypes
<1>4. ASSUME NEW r \in range, r.path = p, NEW e \in usable, e.path = p PROVE \E x \in all : x \in Changes /\
         x.path = p
  <2>1. Merged(r, e) \in all
    BY <1>4, ListedForms DEF UsableOf
  <2>2. r \in Entries /\ e \in Entries
    BY <1>2, <1>3
  <2>3. Merged(r, e) \in Changes /\ Merged(r, e).path = r.path
    BY <2>2, MergedTypes
  <2> QED BY <2>1, <2>3, <1>4
<1>6. ASSUME NEW e \in usable, e.path = p, p \notin Artifact, e.status = "D" \/ now[p] # 0,
         \A r \in range : r.path # p
      PROVE  \E x \in all : x \in Changes /\ x.path = p
  <2>1. ~IsExcluded(e.path)
    BY <1>6 DEF IsExcluded
  <2>2. (\A r \in range : r.path # e.path) /\ (e.status = "D" \/ now[e.path] # 0)
    BY <1>6
  <2>3. usable = {x \in StatusOf(cur, head, now, z) : x.status = "??" => x.path \in UntrackedOf(cur, head, now,
           z)}
    BY DEF UsableOf
  <2>4. Changed(e, "working_tree") \in all
    <3> HIDE DEF range, usable, p
    <3> QED BY <1>6, <2>1, <2>2, <2>3, ListedForms
  <2>5. e \in Entries
    BY <1>3
  <2>6. Changed(e, "working_tree") \in Changes /\ Changed(e, "working_tree").path = e.path
    BY <2>5, ChangedTypes
  <2> QED BY <2>4, <2>6, <1>6
<1> QED BY <1>1, <1>4, <1>6

-----------------------------------------------------------------------------
(* What is signed, and what that tells of the list.                        *)

\* The hashes such a collection signs.
SignedOf(cur, base, head, now, z) ==
  HashChangedFiles(ChangedOf(cur, base, head, now, z), IF cur THEN now ELSE head) \cup HashSpecs(now)

\* The sections it takes from the working tree.
WorkingOf(cur, head, now, z) ==
  IF cur THEN WorkingSections(head, now, z, UntrackedOf(cur, head, now, z)) ELSE {}

\* The paths it lists.
PathsOf(cur, base, head, now, z) == {c.path : c \in ChangedOf(cur, base, head, now, z)}

\* The patch it shows.
PatchOf(cur, base, head, now, z) ==
  FilterIgnoredDiff(Sections(base, head, TRUE) \cup WorkingOf(cur, head, now, z), PathsOf(cur, base, head, now,
     z))

\* Two collections of one range that have the same hashes and left out the
\* same files.
Agree(cur, base, head, s, y, t, z) ==
  /\ cur \in BOOLEAN /\ base \in VersionTrees /\ head \in VersionTrees
  /\ s \in VersionTrees /\ t \in VersionTrees /\ y \in BOOLEAN /\ z \in BOOLEAN
  /\ SignedOf(cur, base, head, s, y) = SignedOf(cur, base, head, t, z)
  /\ OmittedOf(cur, head, s, y) = OmittedOf(cur, head, t, z)

\* Either may come first.
LEMMA AgreeSym ==
  ASSUME NEW cur, NEW base, NEW head, NEW s, NEW y, NEW t, NEW z, Agree(cur, base, head, s, y, t, z)
  PROVE  Agree(cur, base, head, t, z, s, y)
  BY DEF Agree

\* They have read the same specifications.
LEMMA SpecsAgree ==
  ASSUME NEW cur, NEW base, NEW head, NEW s, NEW y, NEW t, NEW z, Agree(cur, base, head, s, y, t, z)
  PROVE  [f \in Specs \ Ignored |-> s[f]] = [f \in Specs \ Ignored |-> t[f]]
<1>1. ASSUME NEW f \in Specs \ Ignored PROVE s[f] = t[f]
  <2> DEFINE h == <<f, "spec", "none", s[f]>>
  <2>1. h \in SignedOf(cur, base, head, s, y)
    BY DEF SignedOf, HashSpecs
  <2>2. h \in SignedOf(cur, base, head, t, z)
    BY <2>1 DEF Agree
  <2>3. CASE h \in HashChangedFiles(ChangedOf(cur, base, head, t, z), IF cur THEN t ELSE head)
    <3>1. PICK d \in ChangedOf(cur, base, head, t, z) : h[2] = d.status
      BY <2>3 DEF HashChangedFiles
    <3>2. d \in Changes
      BY ChangedForms DEF Agree
    <3> QED BY <3>1, <3>2 DEF Changes, Statuses
  <2>4. CASE h \in HashSpecs(t)
    BY <2>4 DEF HashSpecs
  <2> QED BY <2>2, <2>3, <2>4 DEF SignedOf
<1> QED BY <1>1

\* What one lists the other lists, with one status, source of a rename and
\* content.
LEMMA Counterpart ==
  ASSUME NEW cur, NEW base, NEW head, NEW s, NEW y, NEW t, NEW z, Agree(cur, base, head, s, y, t, z),
         NEW c \in ChangedOf(cur, base, head, s, y)
  PROVE  \E d \in ChangedOf(cur, base, head, t, z) :
           d.path = c.path /\ d.status = c.status /\ d.old = c.old /\ (cur => t[c.path] = s[c.path])
<1> DEFINE from == IF cur THEN s ELSE head
           to == IF cur THEN t ELSE head
           h == <<c.path, c.status, c.old, from[c.path]>>
<1>1. h \in SignedOf(cur, base, head, s, y)
  BY DEF SignedOf, HashChangedFiles
<1>2. h \in SignedOf(cur, base, head, t, z)
  BY <1>1 DEF Agree
<1>3. c \in Changes
  BY ChangedForms DEF Agree
<1>4. h \notin HashSpecs(t)
  <2>1. SUFFICES ASSUME h \in HashSpecs(t) PROVE FALSE
    OBVIOUS
  <2>2. h[2] = "spec"
    BY <2>1 DEF HashSpecs
  <2> QED BY <2>2, <1>3 DEF Changes, Statuses
<1>5. PICK d \in ChangedOf(cur, base, head, t, z) : h = <<d.path, d.status, d.old, to[d.path]>>
  BY <1>2, <1>4 DEF SignedOf, HashChangedFiles
<1>6. d.path = c.path /\ d.status = c.status /\ d.old = c.old /\ to[d.path] = from[c.path]
  BY <1>5
<1> QED BY <1>6

\* They list the same paths.
LEMMA PathsAgree ==
  ASSUME NEW cur, NEW base, NEW head, NEW s, NEW y, NEW t, NEW z, Agree(cur, base, head, s, y, t, z)
  PROVE  PathsOf(cur, base, head, s, y) = PathsOf(cur, base, head, t, z)
<1>1. ASSUME NEW f \in PathsOf(cur, base, head, s, y) PROVE f \in PathsOf(cur, base, head, t, z)
  BY Counterpart DEF PathsOf
<1>2. ASSUME NEW f \in PathsOf(cur, base, head, t, z) PROVE f \in PathsOf(cur, base, head, s, y)
  BY Counterpart, AgreeSym DEF PathsOf
<1> QED BY <1>1, <1>2

\* An entry of the range whose status is not preserved adds or changes a
\* file.
LEMMA RangeElsewhere ==
  ASSUME NEW base \in VersionTrees, NEW head \in VersionTrees, NEW r \in NameStatus(base, head, TRUE),
         r.path \notin Preserved(base, head)
  PROVE  r.status \in {"A", "M"} /\ r.old = "none" /\ head[r.path] # 0 /\ r.path \in RepoFiles
<1>1. r \in Entries /\ Kind(r, base, head, TRUE, "A")
  BY RangeTypes
<1>2. r.status \notin {"R", "D"}
  BY DEF Preserved
<1> QED BY <1>1, <1>2 DEF Kind, Entries

\* How a path that the head has stands in the status: there if it was
\* changed, and never as the end of a rename.
InStatus(p, cur, head, now, z) ==
  /\ \A e \in UsableOf(cur, head, now, z) : e.path = p =>
       e.old = "none" /\ now[p] # head[p] /\ e.status = IF now[p] = 0 THEN "D" ELSE "M"
  /\ cur /\ now[p] # head[p] /\ now[p] # 0 => \E e \in UsableOf(cur, head, now, z) : e.path = p

\* That is so for every path the head has.
LEMMA HeadHas ==
  ASSUME NEW cur \in BOOLEAN, NEW head \in VersionTrees, NEW now \in VersionTrees, NEW z \in BOOLEAN,
         NEW p \in RepoFiles, head[p] # 0
  PROVE  InStatus(p, cur, head, now, z)
<1> USE DEF InStatus
<1>1. ASSUME NEW e \in UsableOf(cur, head, now, z), e.path = p
      PROVE  e.old = "none" /\ now[p] # head[p] /\ e.status = IF now[p] = 0 THEN "D" ELSE "M"
  BY <1>1, UsableTypes DEF Kind
<1>2. ASSUME cur, now[p] # head[p], now[p] # 0 PROVE \E e \in UsableOf(cur, head, now, z) : e.path = p
  <2>1. PICK e \in PorcelainStatus(head, now, z) : e.path = p
    BY <1>2, PorcelainExists
  <2>2. e.status # "??"
    <3>1. Kind(e, head, now, z, Added(z))
      BY PorcelainKinds
    <3> QED BY <3>1, <2>1 DEF Kind
  <2>3. e \in UsableOf(cur, head, now, z)
    BY <1>2, <2>1, <2>2 DEF UsableOf, StatusOf
  <2> QED BY <2>1, <2>3
<1> QED BY <1>1, <1>2

\* What a listed file of the range tells of the status, where the range's
\* status is not preserved.
Elsewhere(c, cur, head, now, z) ==
  /\ c.source = "working_tree" <=> \E e \in UsableOf(cur, head, now, z) : e.path = c.path
  /\ c.source = "diff" => c.status \in {"A", "M"}
  /\ c.source = "working_tree" /\ now[c.path] = 0 => c.status = "D"
  /\ c.source = "working_tree" => cur /\ now[c.path] # head[c.path]

\* A listed file that the range has and that does not keep the range's
\* status.
OfRange(c, r, cur, base, head, now, z) ==
  /\ cur \in BOOLEAN /\ base \in VersionTrees /\ head \in VersionTrees
  /\ now \in VersionTrees /\ z \in BOOLEAN /\ c \in ChangedOf(cur, base, head, now, z)
  /\ r \in NameStatus(base, head, TRUE) /\ r.path = c.path /\ c.path \notin Preserved(base, head)

\* Such a file is as said.
LEMMA StatusElsewhere ==
  ASSUME NEW cur, NEW base, NEW head, NEW now, NEW z, NEW c, NEW r, OfRange(c, r, cur, base, head, now, z)
  PROVE  Elsewhere(c, cur, head, now, z)
<1> USE DEF Elsewhere
<1>0. /\ cur \in BOOLEAN /\ base \in VersionTrees /\ head \in VersionTrees
      /\ now \in VersionTrees /\ z \in BOOLEAN /\ c \in ChangedOf(cur, base, head, now, z)
      /\ r \in NameStatus(base, head, TRUE) /\ r.path = c.path /\ c.path \notin Preserved(base, head)
  BY DEF OfRange
<1>1. r.status \in {"A", "M"} /\ head[c.path] # 0 /\ c.path \in RepoFiles
  <2>1. r.path \notin Preserved(base, head)
    BY <1>0
  <2>2. r.status \in {"A", "M"} /\ head[r.path] # 0 /\ r.path \in RepoFiles
    BY <1>0, <2>1, RangeElsewhere
  <2> QED BY <1>0, <2>2
<1>2. \A q \in NameStatus(base, head, TRUE) : q.path = c.path => q = r
  BY <1>0, StatusUnique
<1>3. CASE Alone(c, base, head, cur, now, z)
  BY <1>0, <1>1, <1>2, <1>3 DEF Alone
<1>4. CASE Both(c, base, head, cur, now, z)
  <2>1. PICK e \in UsableOf(cur, head, now, z) :
          /\ e.path = c.path /\ c.source = "working_tree"
          /\ c.status = IF ShouldPreserveRangeStatus(r.status, e.status) THEN r.status ELSE e.status
    BY <1>0, <1>2, <1>4 DEF Both
  <2>2. e.status = (IF now[c.path] = 0 THEN "D" ELSE "M") /\ now[c.path] # head[c.path]
    <3>1. InStatus(c.path, cur, head, now, z)
      BY <1>0, <1>1, HeadHas
    <3> QED BY <2>1, <3>1 DEF InStatus
  <2>3. cur
    BY <1>0, <2>1, UsableTypes
  <2>4. now[c.path] = 0 => c.status = "D"
    BY <2>1, <2>2, <1>1 DEF ShouldPreserveRangeStatus
  <2> QED BY <2>1, <2>2, <2>3, <2>4
<1>5. CASE New(c, base, head, cur, now, z)
  BY <1>0, <1>5 DEF New
<1>6. Alone(c, base, head, cur, now, z) \/ Both(c, base, head, cur, now, z) \/ New(c, base, head, cur, now, z)
  BY <1>0, ChangedForms
<1> QED BY <1>3, <1>4, <1>5, <1>6

\* Apart from the preserved paths, two collections that agree list the same
\* files, from the same source.
LEMMA ChangedAgree ==
  ASSUME NEW cur, NEW base, NEW head, NEW s, NEW y, NEW t, NEW z, Agree(cur, base, head, s, y, t, z),
         NEW c \in ChangedOf(cur, base, head, s, y), c.path \notin Preserved(base, head)
  PROVE  c \in ChangedOf(cur, base, head, t, z)
<1>0. /\ cur \in BOOLEAN /\ base \in VersionTrees /\ head \in VersionTrees
      /\ s \in VersionTrees /\ t \in VersionTrees /\ y \in BOOLEAN /\ z \in BOOLEAN
  BY DEF Agree
<1>1. PICK d \in ChangedOf(cur, base, head, t, z) :
        d.path = c.path /\ d.status = c.status /\ d.old = c.old /\ (cur => t[c.path] = s[c.path])
  BY Counterpart
<1>2. c \in Changes /\ d \in Changes
  BY <1>0, ChangedForms
<1>3. c.source = d.source
  <2>1. CASE \A r \in NameStatus(base, head, TRUE) : r.path # c.path
    <3>1. Alone(c, base, head, cur, s, y) \/ Both(c, base, head, cur, s, y) \/ New(c, base, head, cur, s, y)
      BY <1>0, ChangedForms
    <3>2. Alone(d, base, head, cur, t, z) \/ Both(d, base, head, cur, t, z) \/ New(d, base, head, cur, t, z)
      BY <1>0, ChangedForms
    <3>3. New(c, base, head, cur, s, y) /\ New(d, base, head, cur, t, z)
      BY <3>1, <3>2, <2>1, <1>1 DEF Alone, Both
    <3> QED BY <3>3 DEF New
  <2>2. CASE \E r \in NameStatus(base, head, TRUE) : r.path = c.path
    <3>1. PICK r \in NameStatus(base, head, TRUE) : r.path = c.path
      BY <2>2
    <3>1a. r.path \notin Preserved(base, head)
      BY <3>1
    <3>b. r.status \in {"A", "M"} /\ head[r.path] # 0 /\ r.path \in RepoFiles
      BY <1>0, <3>1a, RangeElsewhere
    <3>2. r.status \in {"A", "M"} /\ head[c.path] # 0 /\ c.path \in RepoFiles
      BY <3>1, <3>b
    <3>3. Elsewhere(c, cur, head, s, y)
      <4>1. OfRange(c, r, cur, base, head, s, y)
        BY <1>0, <3>1 DEF OfRange
      <4> QED BY <4>1, StatusElsewhere
    <3>d. r.path = d.path /\ d.path \notin Preserved(base, head)
      BY <3>1, <1>1
    <3>4. Elsewhere(d, cur, head, t, z)
      <4>1. OfRange(d, r, cur, base, head, t, z)
        BY <1>0, <3>d DEF OfRange
      <4> QED BY <4>1, StatusElsewhere
    <3>5. InStatus(c.path, cur, head, s, y) /\ InStatus(c.path, cur, head, t, z)
      BY <1>0, <3>2, HeadHas
    <3>6. c.source \in {"diff", "working_tree"} /\ d.source \in {"diff", "working_tree"}
      BY <1>2 DEF Changes
    <3> QED BY <3>3, <3>4, <3>5, <3>6, <1>1 DEF Elsewhere, InStatus
  <2> QED BY <2>1, <2>2
<1>4. c = d
  BY <1>1, <1>2, <1>3 DEF Changes
<1> QED BY <1>4

-----------------------------------------------------------------------------
(* The patch.                                                              *)

\* The section of an entry.
SectionOf(e, head, now) ==
  [path |-> e.path, old |-> e.old, from |-> head[IF e.old = "none" THEN e.path ELSE e.old], to |-> now[e.path]]

\* A section that is not dropped.
Passes(x, reviewed) ==
  /\ ({x.path, x.old} \ {"none"}) \cap Ignored = {}
  /\ \A f \in {x.path, x.old} \ {"none"} : f \in Artifact => f \in reviewed

\* The filter drops the others.
LEMMA FilterForms ==
  ASSUME NEW sections, NEW reviewed
  PROVE  \A x : x \in FilterIgnoredDiff(sections, reviewed) <=> x \in sections /\ Passes(x, reviewed)
  BY DEF FilterIgnoredDiff, Passes

\* A section is that of an entry.
LEMMA SectionForms ==
  ASSUME NEW old, NEW new, NEW z
  PROVE  \A x : x \in Sections(old, new, z) <=> \E e \in NameStatus(old, new, z) : x = SectionOf(e, old, new)
  BY DEF Sections, SectionOf

\* A selected untracked file is in the status.
LEMMA UntrackedKind ==
  ASSUME NEW cur \in BOOLEAN, NEW head \in VersionTrees, NEW now \in VersionTrees, NEW z \in BOOLEAN,
         NEW f \in UntrackedOf(cur, head, now, z)
  PROVE  \E e \in UsableOf(cur, head, now, z) : e.path = f /\ e.status = "??"
<1>1. f \in Untracked(StatusOf(cur, head, now, z))
  BY DEF UntrackedOf, SelectUntrackedFiles
<1>2. PICK e \in StatusOf(cur, head, now, z) : e.path = f /\ e.status = "??"
  BY <1>1 DEF Untracked
<1> QED BY <1>2 DEF UsableOf

\* A section of the working tree is of an entry that the listing takes,
LEMMA WorkingUsable ==
  ASSUME NEW cur \in BOOLEAN, NEW head \in VersionTrees, NEW now \in VersionTrees, NEW z \in BOOLEAN,
         NEW x \in WorkingOf(cur, head, now, z)
  PROVE  \E e \in UsableOf(cur, head, now, z) : x = SectionOf(e, head, now)
<1>1. cur /\ x \in WorkingSections(head, now, z, UntrackedOf(cur, head, now, z))
  BY DEF WorkingOf
<1>2. CASE x \in Sections(head, now, z) /\ (x.from # 0 \/ z)
  <2>1. PICK o \in NameStatus(head, now, z) : x = SectionOf(o, head, now)
    BY <1>2, SectionForms
  <2> DEFINE e == IF o.status = "A" /\ ~z THEN [o EXCEPT !.status = "??"] ELSE o
  <2>2. e \in PorcelainStatus(head, now, z)
    BY PorcelainForms
  <2>3. Kind(o, head, now, z, "A")
    BY StatusKinds
  <2>4. ~(o.status = "A" /\ ~z)
    <3>1. SUFFICES ASSUME o.status = "A", ~z PROVE FALSE
      OBVIOUS
    <3>2. o.old = "none" /\ head[o.path] = 0
      BY <2>3, <3>1 DEF Kind
    <3>3. x.from = 0
      BY <2>1, <3>2 DEF SectionOf
    <3> QED BY <1>2, <3>1, <3>3
  <2>5. e = o
    BY <2>4
  <2>6. e.status # "??"
    BY <2>3, <2>5 DEF Kind
  <2>7. e \in UsableOf(cur, head, now, z)
    BY <1>1, <2>2, <2>6 DEF UsableOf, StatusOf
  <2> QED BY <2>1, <2>5, <2>7
<1>3. CASE \E f \in UntrackedOf(cur, head, now, z) : x = [path |-> f, old |-> "none", from |-> 0, to |-> now[f]]
  <2>1. PICK f \in UntrackedOf(cur, head, now, z) : x = [path |-> f, old |-> "none", from |-> 0, to |-> now[f]]
    BY <1>3
  <2>2. PICK e \in UsableOf(cur, head, now, z) : e.path = f /\ e.status = "??"
    BY UntrackedKind
  <2>3. Kind(e, head, now, z, Added(z))
    BY UsableTypes
  <2>4. e.old = "none" /\ head[e.path] = 0
    BY <2>2, <2>3 DEF Kind
  <2> QED BY <2>1, <2>2, <2>4 DEF SectionOf
<1> QED BY <1>1, <1>2, <1>3 DEF WorkingSections

\* and each of those entries has its section.
LEMMA UsableWorking ==
  ASSUME NEW cur \in BOOLEAN, NEW head \in VersionTrees, NEW now \in VersionTrees, NEW z \in BOOLEAN,
         NEW e \in UsableOf(cur, head, now, z)
  PROVE  SectionOf(e, head, now) \in WorkingOf(cur, head, now, z)
<1> DEFINE x == SectionOf(e, head, now)
<1>1. /\ e \in Entries /\ Kind(e, head, now, z, Added(z)) /\ cur
      /\ e \in PorcelainStatus(head, now, z) /\ (e.status = "??" => e.path \in UntrackedOf(cur, head, now, z))
  BY UsableTypes
<1>2. CASE e.status = "??"
  <2>1. e.path \in UntrackedOf(cur, head, now, z) /\ e.old = "none" /\ head[e.path] = 0
    BY <1>1, <1>2 DEF Kind
  <2>2. x = [path |-> e.path, old |-> "none", from |-> 0, to |-> now[e.path]]
    BY <2>1 DEF SectionOf
  <2> QED BY <1>1, <2>1, <2>2 DEF WorkingOf, WorkingSections
<1>3. CASE e.status # "??"
  <2>1. PICK o \in NameStatus(head, now, z) : e = IF o.status = "A" /\ ~z THEN [o EXCEPT !.status = "??"] ELSE o
    BY <1>1, PorcelainForms
  <2>2. o \in Entries
    BY StatusKinds
  <2>3. e = o
    BY <2>1, <2>2, <1>3 DEF Entries
  <2>4. x \in Sections(head, now, z)
    BY <2>3, SectionForms
  <2>5. x.from # 0 \/ z
    <3>1. CASE e.status = Added(z)
      BY <3>1, <1>3 DEF Added
    <3>2. CASE e.status # Added(z)
      BY <1>1, <3>2 DEF Kind, SectionOf
    <3> QED BY <3>1, <3>2
  <2> QED BY <1>1, <2>4, <2>5 DEF WorkingOf, WorkingSections
<1> QED BY <1>2, <1>3

\* A section of the working tree that is shown is of a listed file.
LEMMA ShownIsListed ==
  ASSUME NEW cur \in BOOLEAN, NEW base \in VersionTrees, NEW head \in VersionTrees,
         NEW now \in VersionTrees, NEW z \in BOOLEAN, NEW e \in UsableOf(cur, head, now, z),
         Passes(SectionOf(e, head, now), PathsOf(cur, base, head, now, z))
  PROVE  /\ e.path \in RepoFiles /\ e.old \notin Ignored
         /\ \E c \in ChangedOf(cur, base, head, now, z) : c.path = e.path
<1>1. e \in Entries /\ Kind(e, head, now, z, Added(z))
  BY UsableTypes
<1>2. e.path \in RepoFiles /\ e.path # "none" /\ e.old \in RepoFiles \cup {"none"}
  BY <1>1, CollectionAssumption DEF Entries
<1>3. /\ e.path \notin Ignored /\ (e.path \in Artifact => e.path \in PathsOf(cur, base, head, now, z))
      /\ (e.old # "none" => e.old \notin Ignored)
  BY <1>2 DEF Passes, SectionOf
<1>4. e.old \notin Ignored
  BY <1>2, <1>3, CollectionAssumption
<1>5. e.status = "D" \/ now[e.path] # 0
  BY <1>1 DEF Kind, Entries
<1>6. CASE e.path \in Artifact
  BY <1>2, <1>3, <1>4, <1>6 DEF PathsOf
<1>7. CASE e.path \notin Artifact
  <2>1. \E c \in ChangedOf(cur, base, head, now, z) : c.path = e.path
    BY <1>2, <1>3, <1>5, <1>7, ListedUsable
  <2> QED BY <1>2, <1>4, <2>1
<1> QED BY <1>6, <1>7

\* The content of a shown section is the same in both trees, and its path is
\* listed alike.
LEMMA CommonShown ==
  ASSUME NEW cur, NEW base, NEW head, NEW s, NEW y, NEW t, NEW z, Agree(cur, base, head, s, y, t, z),
         NEW e \in UsableOf(cur, head, s, y),
         Passes(SectionOf(e, head, s), PathsOf(cur, base, head, s, y))
  PROVE  /\ t[e.path] = s[e.path] /\ e.path \in RepoFiles /\ e.old \notin Ignored
         /\ \E c \in ChangedOf(cur, base, head, s, y), d \in ChangedOf(cur, base, head, t, z) :
              c.path = e.path /\ d.path = e.path /\ d.status = c.status /\ d.old = c.old
<1>0. /\ cur \in BOOLEAN /\ base \in VersionTrees /\ head \in VersionTrees
      /\ s \in VersionTrees /\ t \in VersionTrees /\ y \in BOOLEAN /\ z \in BOOLEAN
  BY DEF Agree
<1>1. e.path \in RepoFiles /\ e.old \notin Ignored /\ \E c \in ChangedOf(cur, base, head, s, y) : c.path = e.path
  BY <1>0, ShownIsListed
<1>2. PICK c \in ChangedOf(cur, base, head, s, y) : c.path = e.path
  BY <1>1
<1>3. PICK d \in ChangedOf(cur, base, head, t, z) :
        d.path = c.path /\ d.status = c.status /\ d.old = c.old /\ (cur => t[c.path] = s[c.path])
  BY Counterpart
<1>4. cur
  BY <1>0, UsableTypes
<1> QED BY <1>1, <1>2, <1>3, <1>4

\* A path the range does not name.
NotInRange(p, base, head) == \A r \in NameStatus(base, head, TRUE) : r.path # p

\* A listed file that is not in the range is as the status has it.
LEMMA NewForm ==
  ASSUME NEW cur \in BOOLEAN, NEW base \in VersionTrees, NEW head \in VersionTrees,
         NEW now \in VersionTrees, NEW z \in BOOLEAN, NEW c \in ChangedOf(cur, base, head, now, z),
         NotInRange(c.path, base, head)
  PROVE  \E e \in UsableOf(cur, head, now, z) : e.path = c.path /\ c.status = e.status /\ c.old = Strip(e.old)
<1> USE DEF NotInRange
<1>1. Alone(c, base, head, cur, now, z) \/ Both(c, base, head, cur, now, z) \/ New(c, base, head, cur, now, z)
  BY ChangedForms
<1>2. New(c, base, head, cur, now, z)
  BY <1>1 DEF Alone, Both
<1> QED BY <1>2 DEF New

\* What one collection shows of the working tree the other shows too.
LEMMA SectionAgrees ==
  ASSUME NEW cur, NEW base, NEW head, NEW s, NEW y, NEW t, NEW z, Agree(cur, base, head, s, y, t, z),
         NEW e \in UsableOf(cur, head, s, y),
         Passes(SectionOf(e, head, s), PathsOf(cur, base, head, s, y)),
         e.path \notin Preserved(base, head)
  PROVE  \E f \in UsableOf(cur, head, t, z) : SectionOf(f, head, t) = SectionOf(e, head, s)
<1>0. /\ cur \in BOOLEAN /\ base \in VersionTrees /\ head \in VersionTrees
      /\ s \in VersionTrees /\ t \in VersionTrees /\ y \in BOOLEAN /\ z \in BOOLEAN
  BY DEF Agree
<1> DEFINE p == e.path
<1>1. t[p] = s[p] /\ p \in RepoFiles /\ e.old \notin Ignored
  BY CommonShown
<1>2. PICK c \in ChangedOf(cur, base, head, s, y), d \in ChangedOf(cur, base, head, t, z) :
        c.path = p /\ d.path = p /\ d.status = c.status /\ d.old = c.old
  BY CommonShown
<1>3. /\ e \in Entries /\ Kind(e, head, s, y, Added(y)) /\ cur /\ e \in PorcelainStatus(head, s, y)
      /\ head[p] # s[p]
  BY <1>0, UsableTypes
<1>4. CASE \E r \in NameStatus(base, head, TRUE) : r.path = p
  <2>1. PICK r \in NameStatus(base, head, TRUE) : r.path = p
    BY <1>4
  <2>2. r.path \notin Preserved(base, head) /\ r.path = c.path /\ r.path = d.path
        /\ c.path \notin Preserved(base, head) /\ d.path \notin Preserved(base, head)
    BY <2>1, <1>2
  <2>3. r.status \in {"A", "M"} /\ head[r.path] # 0 /\ r.path \in RepoFiles
    BY <1>0, <2>2, RangeElsewhere
  <2>4. Elsewhere(c, cur, head, s, y)
    <3>1. OfRange(c, r, cur, base, head, s, y)
      BY <1>0, <2>2 DEF OfRange
    <3> QED BY <3>1, StatusElsewhere
  <2>5. Elsewhere(d, cur, head, t, z)
    <3>1. OfRange(d, r, cur, base, head, t, z)
      BY <1>0, <2>2 DEF OfRange
    <3> QED BY <3>1, StatusElsewhere
  <2>6. head[p] # 0
    BY <2>1, <2>3
  <2>7. InStatus(p, cur, head, s, y) /\ InStatus(p, cur, head, t, z)
    BY <1>0, <1>1, <2>6, HeadHas
  <2>8. e.old = "none"
    BY <2>7 DEF InStatus
  <2>9. \E f \in UsableOf(cur, head, t, z) : f.path = p
    <3>1. CASE t[p] # 0
      BY <3>1, <2>7, <1>1, <1>3 DEF InStatus
    <3>2. CASE t[p] = 0
      <4>1. c.source = "working_tree"
        BY <2>4, <1>2 DEF Elsewhere
      <4>2. c.status = "D"
        BY <2>4, <4>1, <3>2, <1>1, <1>2 DEF Elsewhere
      <4>3. d \in Changes
        BY <1>0, ChangedForms
      <4>4. d.source # "diff"
        BY <2>5, <4>2, <1>2 DEF Elsewhere
      <4>5. d.source = "working_tree"
        BY <4>3, <4>4 DEF Changes
      <4> QED BY <4>5, <2>5, <1>2 DEF Elsewhere
    <3> QED BY <3>1, <3>2
  <2>10. PICK f \in UsableOf(cur, head, t, z) : f.path = p
    BY <2>9
  <2>11. f.old = "none"
    BY <2>10, <2>7 DEF InStatus
  <2>12. SectionOf(f, head, t) = SectionOf(e, head, s)
    BY <2>8, <2>10, <2>11, <1>1 DEF SectionOf
  <2> QED BY <2>12
<1>5. CASE \A r \in NameStatus(base, head, TRUE) : r.path # p
  <2>1. PICK o \in UsableOf(cur, head, s, y) : o.path = p /\ c.status = o.status /\ c.old = Strip(o.old)
    <3>1. NotInRange(c.path, base, head)
      BY <1>5, <1>2 DEF NotInRange
    <3>2. \E e1 \in UsableOf(cur, head, s, y) :
            e1.path = c.path /\ c.status = e1.status /\ c.old = Strip(e1.old)
      BY <3>1, <1>0, NewForm
    <3> QED BY <3>2, <1>2
  <2>2. PICK f \in UsableOf(cur, head, t, z) : f.path = p /\ d.status = f.status /\ d.old = Strip(f.old)
    <3>1. NotInRange(d.path, base, head)
      BY <1>5, <1>2 DEF NotInRange
    <3>2. \E e1 \in UsableOf(cur, head, t, z) :
            e1.path = d.path /\ d.status = e1.status /\ d.old = Strip(e1.old)
      BY <3>1, <1>0, NewForm
    <3> QED BY <3>2, <1>2
  <2>3. o \in PorcelainStatus(head, s, y) /\ o.path = e.path
    BY <2>1, <1>0, UsableTypes
  <2>4. o = e
    BY <2>3, <1>3, <1>0, PorcelainUnique
  <2>5. f.status = e.status /\ Strip(f.old) = Strip(e.old)
    BY <2>1, <2>2, <2>4, <1>2
  <2>6. f \in Entries /\ Kind(f, head, t, z, Added(z))
    BY <1>0, UsableTypes
  <2>7. f.old = e.old
    <3>1. CASE e.status = "R"
      <4>1. e.old \in RepoFiles
        <5>1. Added(y) # "R"
          BY DEF Added
        <5> QED BY <5>1, <3>1, <1>3 DEF Kind
      <4>2. Strip(e.old) = e.old /\ e.old # "none"
        BY <4>1, <1>1, CollectionAssumption DEF Strip
      <4> QED BY <4>2, <2>5 DEF Strip
    <3>2. CASE e.status # "R"
      BY <3>2, <2>5, <2>6, <1>3 DEF Kind
    <3> QED BY <3>1, <3>2
  <2>8. head[IF f.old = "none" THEN f.path ELSE f.old] = head[IF e.old = "none" THEN e.path ELSE e.old]
    BY <2>2, <2>7
  <2>9. SectionOf(f, head, t) = SectionOf(e, head, s)
    <3>1. f.path = e.path /\ t[f.path] = s[e.path]
      BY <2>2, <1>1
    <3> QED BY <3>1, <2>7, <2>8 DEF SectionOf
  <2> QED BY <2>9
<1> QED BY <1>4, <1>5

\* Apart from the preserved paths, two collections that agree show the same
\* patch.
LEMMA PatchAgrees ==
  ASSUME NEW cur, NEW base, NEW head, NEW s, NEW y, NEW t, NEW z, Agree(cur, base, head, s, y, t, z),
         NEW x \in PatchOf(cur, base, head, s, y), x.path \notin Preserved(base, head)
  PROVE  x \in PatchOf(cur, base, head, t, z)
<1>0. /\ cur \in BOOLEAN /\ base \in VersionTrees /\ head \in VersionTrees
      /\ s \in VersionTrees /\ t \in VersionTrees /\ y \in BOOLEAN /\ z \in BOOLEAN
  BY DEF Agree
<1> DEFINE all == Sections(base, head, TRUE) \cup WorkingOf(cur, head, s, y)
<1>1. x \in all /\ Passes(x, PathsOf(cur, base, head, s, y))
  <2>1. x \in FilterIgnoredDiff(all, PathsOf(cur, base, head, s, y))
    BY DEF PatchOf
  <2> HIDE DEF all
  <2> QED BY <2>1, FilterForms
<1>2. Passes(x, PathsOf(cur, base, head, t, z))
  BY <1>1, PathsAgree
<1>3. CASE x \in WorkingOf(cur, head, s, y)
  <2>1. PICK e \in UsableOf(cur, head, s, y) : x = SectionOf(e, head, s)
    BY <1>0, <1>3, WorkingUsable
  <2>2. e.path \notin Preserved(base, head) /\ Passes(SectionOf(e, head, s), PathsOf(cur, base, head, s, y))
    BY <2>1, <1>1 DEF SectionOf
  <2>3. PICK f \in UsableOf(cur, head, t, z) : SectionOf(f, head, t) = SectionOf(e, head, s)
    BY <2>2, SectionAgrees
  <2>4. x \in WorkingOf(cur, head, t, z)
    <3>1. SectionOf(f, head, t) \in WorkingOf(cur, head, t, z)
      BY <1>0, UsableWorking
    <3> QED BY <3>1, <2>1, <2>3
  <2> QED BY <2>4, <1>2, FilterForms DEF PatchOf
<1>4. CASE x \in Sections(base, head, TRUE)
  <2> DEFINE both == Sections(base, head, TRUE) \cup WorkingOf(cur, head, t, z)
  <2>1. x \in both
    BY <1>4
  <2>2. x \in FilterIgnoredDiff(both, PathsOf(cur, base, head, t, z))
    <3> HIDE DEF both
    <3> QED BY <2>1, <1>2, FilterForms
  <2> QED BY <2>2 DEF PatchOf
<1> QED BY <1>1, <1>3, <1>4

\* A section that the range does not have.
FromTheTree(x, base, head) == x \notin Sections(base, head, TRUE)

\* A section from the working tree is of the version that both trees have.
LEMMA VersionShown ==
  ASSUME NEW cur, NEW base, NEW head, NEW s, NEW y, NEW t, NEW z, Agree(cur, base, head, s, y, t, z),
         NEW x \in PatchOf(cur, base, head, s, y), FromTheTree(x, base, head)
  PROVE  x.to = t[x.path] /\ x.to = s[x.path]
<1>0. /\ cur \in BOOLEAN /\ base \in VersionTrees /\ head \in VersionTrees
      /\ s \in VersionTrees /\ t \in VersionTrees /\ y \in BOOLEAN /\ z \in BOOLEAN
  BY DEF Agree
<1>1. x \in WorkingOf(cur, head, s, y) /\ Passes(x, PathsOf(cur, base, head, s, y))
  BY FilterForms DEF PatchOf, FromTheTree
<1>2. PICK e \in UsableOf(cur, head, s, y) : x = SectionOf(e, head, s)
  BY <1>0, <1>1, WorkingUsable
<1>3. Passes(SectionOf(e, head, s), PathsOf(cur, base, head, s, y))
  BY <1>1, <1>2
<1>4. t[e.path] = s[e.path]
  BY <1>3, CommonShown
<1> QED BY <1>2, <1>4 DEF SectionOf

-----------------------------------------------------------------------------
(* Types, and what is left out.                                            *)

\* The types of what is read.
LEMMA SpecsTyped ==
  ASSUME NEW now \in VersionTrees
  PROVE  [f \in Specs \ Ignored |-> now[f]] \in [Specs \ Ignored -> Nat]
<1>1. \A f \in Specs \ Ignored : now[f] \in Nat
  BY CollectionAssumption DEF VersionTrees
<1> QED BY <1>1

LEMMA StatusTyped ==
  ASSUME NEW cur \in BOOLEAN, NEW head \in VersionTrees, NEW now \in VersionTrees, NEW z \in BOOLEAN
  PROVE  StatusOf(cur, head, now, z) \subseteq Entries
  BY PorcelainKinds DEF StatusOf

LEMMA UntrackedTyped ==
  ASSUME NEW status \in SUBSET Entries
  PROVE  /\ Untracked(status) \subseteq RepoFiles /\ SelectUntrackedFiles(status) \subseteq Untracked(status)
  BY DEF Untracked, SelectUntrackedFiles, Entries

LEMMA ListedTyped ==
  ASSUME NEW base \in VersionTrees, NEW head \in VersionTrees, NEW status \in SUBSET Entries,
         NEW untracked, NEW now
  PROVE  Reviewable(Listed(NameStatus(base, head, TRUE), status, untracked, now)) \subseteq Changes
<1> DEFINE range == NameStatus(base, head, TRUE)
           all == Listed(range, status, untracked, now)
<1>1. \A r \in range : r \in Entries
  BY RangeTypes
<1>2. \A e \in status : e \in Entries
  OBVIOUS
<1>3. ASSUME NEW x \in all PROVE x \in Changes
  <2> HIDE DEF range
  <2>1. CASE \E r \in range : x = Changed(r, "diff")
    BY <2>1, <1>1, ChangedTypes
  <2>2. CASE \E r \in range, e \in status : x = Merged(r, e)
    BY <2>2, <1>1, <1>2, MergedTypes
  <2>3. CASE \E e \in status : x = Changed(e, "working_tree")
    BY <2>3, <1>2, ChangedTypes
  <2> QED BY <1>3, <2>1, <2>2, <2>3, ListedForms
<1>4. ASSUME NEW c \in Reviewable(all) PROVE c \in Changes
  <2>1. PICK x \in all : c = IF x.old \in Ignored THEN [x EXCEPT !.old = "none"] ELSE x
    BY ReviewableForms
  <2>2. x \in Changes
    BY <1>3
  <2> QED BY <2>1, <2>2, Stripped
<1> QED BY <1>4

\* No ignored path is listed, nor named as a source.
LEMMA ListedHides ==
  ASSUME NEW base \in VersionTrees, NEW head \in VersionTrees, NEW status \in SUBSET Entries,
         NEW untracked, NEW now,
         NEW c \in Reviewable(Listed(NameStatus(base, head, TRUE), status, untracked, now))
  PROVE  {c.path, c.old} \cap Ignored = {}
<1> DEFINE range == NameStatus(base, head, TRUE)
           all == Listed(range, status, untracked, now)
<1>1. \A r \in range : r \in Entries
  BY RangeTypes
<1>2. \A e \in status : e \in Entries
  OBVIOUS
<1>3. PICK x \in all : x.path \notin Ignored /\ c = IF x.old \in Ignored THEN [x EXCEPT !.old = "none"] ELSE x
  BY ReviewableForms
<1>4. x \in Changes
  <2> HIDE DEF range
  <2>1. CASE \E r \in range : x = Changed(r, "diff")
    BY <2>1, <1>1, ChangedTypes
  <2>2. CASE \E r \in range, e \in status : x = Merged(r, e)
    BY <2>2, <1>1, <1>2, MergedTypes
  <2>3. CASE \E e \in status : x = Changed(e, "working_tree")
    BY <2>3, <1>2, ChangedTypes
  <2> QED BY <1>3, <2>1, <2>2, <2>3, ListedForms
<1>5. c.path = x.path /\ c.old = Strip(x.old)
  BY <1>3, <1>4, Stripped
<1> QED BY <1>3, <1>5, CollectionAssumption DEF Strip

\* The parts of a section.
LEMMA SectionsTyped ==
  ASSUME NEW old \in VersionTrees, NEW new \in VersionTrees, NEW z \in BOOLEAN, NEW x \in Sections(old, new, z)
  PROVE  x \in PatchParts /\ x.to = new[x.path] /\ x.from \in {old[f] : f \in RepoFiles}
<1>1. PICK e \in NameStatus(old, new, z) : x = SectionOf(e, old, new)
  BY SectionForms
<1>2. e \in Entries
  BY StatusKinds
<1>3. e.path \in RepoFiles /\ e.old \in RepoFiles \cup {"none"}
  BY <1>2 DEF Entries
<1> DEFINE source == IF e.old = "none" THEN e.path ELSE e.old
<1>4. source \in RepoFiles
  BY <1>3
<1>5. new[e.path] \in Nat /\ old[source] \in Nat
  BY <1>3, <1>4 DEF VersionTrees
<1>6. x.path = e.path /\ x.old = e.old /\ x.to = new[e.path] /\ x.from = old[source]
  BY <1>1 DEF SectionOf
<1>7. x \in PatchParts
  BY <1>1, <1>3, <1>5 DEF SectionOf, PatchParts
<1> QED BY <1>4, <1>6, <1>7

\* The sections of the working tree are of its versions.
LEMMA WorkingTyped ==
  ASSUME NEW head \in VersionTrees, NEW now \in VersionTrees, NEW z \in BOOLEAN, NEW untracked \in SUBSET RepoFiles,
         NEW x \in WorkingSections(head, now, z, untracked)
  PROVE  x \in PatchParts /\ x.to = now[x.path]
<1>1. CASE x \in Sections(head, now, z)
  BY <1>1, SectionsTyped
<1>2. CASE \E f \in untracked : x = [path |-> f, old |-> "none", from |-> 0, to |-> now[f]]
  <2>1. PICK f \in untracked : x = [path |-> f, old |-> "none", from |-> 0, to |-> now[f]]
    BY <1>2
  <2>2. f \in RepoFiles /\ now[f] \in Nat
    BY DEF VersionTrees
  <2> QED BY <2>1, <2>2 DEF PatchParts
<1> QED BY <1>1, <1>2 DEF WorkingSections

\* The types of the hashes.
LEMMA HashesTyped ==
  ASSUME NEW changed \in SUBSET Changes, NEW of \in VersionTrees, NEW now \in VersionTrees
  PROVE  HashChangedFiles(changed, of) \cup HashSpecs(now) \subseteq Hashes
<1>1. ASSUME NEW c \in changed PROVE <<c.path, c.status, c.old, of[c.path]>> \in Hashes
  <2>1. c.path \in RepoFiles /\ c.status \in Statuses /\ c.old \in RepoFiles \cup {"none"}
    BY DEF Changes
  <2>2. of[c.path] \in Nat
    BY <2>1 DEF VersionTrees
  <2> QED BY <2>1, <2>2 DEF Hashes
<1>2. ASSUME NEW f \in Specs \ Ignored PROVE <<f, "spec", "none", now[f]>> \in Hashes
  <2>1. f \in RepoFiles /\ now[f] \in Nat
    BY CollectionAssumption DEF VersionTrees
  <2> QED BY <2>1 DEF Hashes
<1> QED BY <1>1, <1>2 DEF HashChangedFiles, HashSpecs

\* With nothing to review in its status, the tree is as the head has it,
\* apart from ignored files and those of the tool.
LEMMA Clean ==
  ASSUME NEW head \in VersionTrees, NEW now \in VersionTrees, NEW z \in BOOLEAN,
         ~HasReviewableWorkingTreeChanges(PorcelainStatus(head, now, z)),
         NEW f \in RepoFiles, f \notin Artifact, f \notin Ignored
  PROVE  head[f] = now[f]
<1>1. SUFFICES ASSUME head[f] # now[f] PROVE FALSE
  OBVIOUS
<1>2. ~IsExcluded(f) /\ f # "none"
  BY CollectionAssumption DEF IsExcluded
<1>3. \E e \in PorcelainStatus(head, now, z) : e.path = f \/ e.old = f
  BY <1>1, PorcelainExists
<1> QED BY <1>2, <1>3 DEF HasReviewableWorkingTreeChanges

\* The status names nothing that would be reviewed.
NothingToReview(status) == \A e \in status : IsExcluded(e.path)

\* Then nothing is listed from the working tree.
LEMMA Quiet ==
  ASSUME NEW base \in VersionTrees, NEW head \in VersionTrees, NEW status \in SUBSET Entries,
         NEW untracked, NEW now, NothingToReview(status),
         NEW c \in Reviewable(Listed(NameStatus(base, head, TRUE), status, untracked, now))
  PROVE  c.path \in Artifact \/ c.source = "diff"
<1> DEFINE range == NameStatus(base, head, TRUE)
           all == Listed(range, status, untracked, now)
<1>1. \A r \in range : r \in Entries
  BY RangeTypes
<1>2. \A e \in status : e \in Entries /\ IsExcluded(e.path)
  BY DEF NothingToReview
<1>3. PICK x \in all : x.path \notin Ignored /\ c = IF x.old \in Ignored THEN [x EXCEPT !.old = "none"] ELSE x
  BY ReviewableForms
<1>4. x \in Changes /\ (x.path \in Artifact \/ x.source = "diff")
  <2> HIDE DEF range
  <2>1. CASE \E r \in range : x = Changed(r, "diff")
    BY <2>1, <1>1, ChangedTypes
  <2>2. CASE \E r \in range, e \in status : r.path = e.path /\ x = Merged(r, e)
    <3>1. PICK r \in range, e \in status : r.path = e.path /\ x = Merged(r, e)
      BY <2>2
    <3>2. x \in Changes /\ x.path = e.path
      BY <3>1, <1>1, <1>2, MergedTypes
    <3>3. IsExcluded(e.path) /\ x.path \notin Ignored
      BY <1>2, <1>3
    <3>4. x.path \in Artifact
      BY <3>2, <3>3 DEF IsExcluded
    <3> QED BY <3>2, <3>4
  <2>3. CASE \E e \in status : x = Changed(e, "working_tree") /\ ~IsExcluded(e.path)
    BY <2>3, <1>2
  <2> QED BY <1>3, <2>1, <2>2, <2>3, ListedForms
<1>5. c.path = x.path /\ c.source = x.source
  BY <1>3, <1>4, Stripped
<1> QED BY <1>4, <1>5

\* A file that changed in the range, and that is listed because it did.
InRange(c, base, head) == c.source = "diff" /\ base[c.path] # head[c.path]

\* With no status at all, what is listed is of the range.
LEMMA RangeAlone ==
  ASSUME NEW base \in VersionTrees, NEW head \in VersionTrees, NEW untracked, NEW now,
         NEW c \in Reviewable(Listed(NameStatus(base, head, TRUE), {}, untracked, now))
  PROVE  InRange(c, base, head)
<1> DEFINE range == NameStatus(base, head, TRUE)
           all == Listed(range, {}, untracked, now)
<1>1. PICK x \in all : x.path \notin Ignored /\ c = IF x.old \in Ignored THEN [x EXCEPT !.old = "none"] ELSE x
  BY ReviewableForms
<1>2. PICK r \in range : x = Changed(r, "diff")
  <2> HIDE DEF range
  <2> QED BY ListedForms
<1>3. r \in Entries /\ base[r.path] # head[r.path]
  <2>1. TRUE \in BOOLEAN
    OBVIOUS
  <2> QED BY <2>1, StatusKinds
<1>4. x \in Changes /\ x.path = r.path /\ x.source = "diff"
  BY <1>2, <1>3, ChangedTypes DEF Changed
<1>5. c.path = x.path /\ c.source = x.source
  BY <1>1, <1>4, Stripped
<1> QED BY <1>3, <1>4, <1>5 DEF InRange

\* That an ignored path is reported as left out lets no section of it pass.
LEMMA DroppedDoNotMatter ==
  ASSUME NEW sections, NEW paths, NEW dropped \in SUBSET Ignored
  PROVE  FilterIgnoredDiff(sections, paths \cup dropped) = FilterIgnoredDiff(sections, paths)
<1>1. ASSUME NEW x, Passes(x, paths \cup dropped) PROVE Passes(x, paths)
  BY <1>1 DEF Passes
<1>2. ASSUME NEW x, Passes(x, paths) PROVE Passes(x, paths \cup dropped)
  BY <1>2 DEF Passes
<1>3. FilterIgnoredDiff(sections, paths \cup dropped) \subseteq FilterIgnoredDiff(sections, paths)
  BY <1>1, FilterForms
<1>4. FilterIgnoredDiff(sections, paths) \subseteq FilterIgnoredDiff(sections, paths \cup dropped)
  BY <1>2, FilterForms
<1> QED BY <1>3, <1>4

-----------------------------------------------------------------------------
(* The invariant.                                                          *)

\* The stages.
Reading == {"pinned", "indexed", "listed", "patched", "hashed"}

AfterIndex == {"indexed", "listed", "patched", "hashed"}

AfterList == {"listed", "patched", "hashed"}

AfterPatch == {"patched", "hashed"}

\* A version that a file has, or had until others replaced it.
Known(f, v) == v = tree[f] \/ <<f, v>> \in replaced

\* What a strict collection has read so far is of the tree, its list is of
\* the range alone, and its patch is of the pinned commit or of the tree.
StrictNow ==
  mode.strict /\ mode.current =>
    /\ colStage \in AfterIndex => /\ got.specs \in [Specs \ Ignored -> Nat]
                                  /\ \A f \in Specs \ Ignored : Known(f, got.specs[f])
    /\ colStage \in AfterList => \A x \in got.changed : x.path \in Artifact \/ x.source = "diff"
    /\ colStage \in AfterPatch =>
         \A x \in got.patch : x.to = commits[pin.head][x.path] \/ Known(x.path, x.to)

\* What a collection of a pinned head lists and shows is of the range: it has no status.
PinnedNow ==
  ~mode.current =>
    /\ colStage \in AfterIndex => got.status = {}
    /\ colStage \in AfterList => \A x \in got.changed : InRange(x, commits[1], commits[pin.head])
    /\ colStage \in AfterPatch => got.patch \subseteq Sections(commits[1], commits[pin.head], TRUE)

\* The specifications in a tree.
SpecsOf(now) == [f \in Specs \ Ignored |-> now[f]]

\* What a collection has read, while nobody changed the repository since it
\* began, are functions of the two commits and the tree.
UnracedNow ==
  LET cur == mode.current
      base == commits[1]
      head == commits[pin.head]
  IN ~raced =>
     /\ colStage \in Reading /\ cur => pin.head = Len(commits)
     /\ colStage \in AfterIndex => /\ got.specs = SpecsOf(tree)
                                   /\ got.status = StatusOf(cur, head, tree, staged)
                                   /\ got.untracked = UntrackedOf(cur, head, tree, staged)
                                   /\ got.omitted = OmittedOf(cur, head, tree, staged)
     /\ colStage \in AfterList => got.changed = ChangedOf(cur, base, head, tree, staged)
     /\ colStage \in AfterPatch => got.patch = PatchOf(cur, base, head, tree, staged)
     /\ colStage = "hashed" => got.hashes = SignedOf(cur, base, head, tree, staged)

\* The signature of a collection that read one tree.
SignatureOf(m, base, head, now, z, words) ==
  [mode |-> m, base |-> base, head |-> head, hashes |-> SignedOf(m.current, base, head, now, z),
   conversation |-> words, omitted |-> OmittedOf(m.current, head, now, z)]

\* Its content.
ContentOf(m, base, head, now, z, words) ==
  [conversation |-> words, specs |-> SpecsOf(now), status |-> {}, untracked |-> {},
   omitted |-> OmittedOf(m.current, head, now, z), changed |-> ChangedOf(m.current, base, head, now, z),
   dropped |-> {}, patch |-> PatchOf(m.current, base, head, now, z), hashes |-> {}]

\* s is the result of reading the tree `now'.
ReadAt(s, base, head, now, z, words) ==
  /\ s.signature = SignatureOf(s.mode, base, head, now, z, words)
  /\ s.content = ContentOf(s.mode, base, head, now, z, words)

\* Every result that nobody disturbed is of one tree.
SeenAsRead ==
  \A s \in seen : ~s.raced =>
    \E now \in VersionTrees, z \in BOOLEAN, words \in Nat :
      ReadAt(s, commits[1], commits[s.head], now, z, words)

\* The inductive invariant.
Inv ==
  /\ CollectionTypeOK /\ IgnoredNeverShown /\ StrictEvidenceIsTheCommits /\ PinnedHeadIsPure
  /\ StrictNow /\ PinnedNow /\ UnracedNow /\ SeenAsRead

-----------------------------------------------------------------------------
(* The start, and what others do.                                          *)

\* The commits in use, and the other parts of a state.
LEMMA CommitsTyped ==
  ASSUME CollectionTypeOK
  PROVE  /\ Len(commits) \in Nat /\ 1 \in 1..Len(commits) /\ Len(commits) \in 1..Len(commits)
         /\ \A i \in 1..Len(commits) : commits[i] \in VersionTrees
         /\ commits[1] \in VersionTrees /\ commits[pin.head] \in VersionTrees
         /\ HeadTree \in VersionTrees /\ tree \in VersionTrees /\ staged \in BOOLEAN
         /\ mode.current \in BOOLEAN /\ mode.strict \in BOOLEAN
<1>1. commits \in Seq(VersionTrees) /\ mode \in Modes /\ pin.head \in 1..Len(commits)
      /\ tree \in VersionTrees /\ staged \in BOOLEAN
  BY DEF CollectionTypeOK, VersionTrees
<1>2. Len(commits) \in Nat /\ \A i \in 1..Len(commits) : commits[i] \in VersionTrees
  BY <1>1
<1>3. 1 \in 1..Len(commits) /\ Len(commits) \in 1..Len(commits)
  BY <1>1, <1>2
<1>4. mode.current \in BOOLEAN /\ mode.strict \in BOOLEAN
  BY <1>1, CollectionAssumption
<1> QED BY <1>1, <1>2, <1>3, <1>4 DEF HeadTree

\* A commit is added at the end.
LEMMA AddedCommit ==
  ASSUME CollectionTypeOK, NEW new \in VersionTrees
  PROVE  LET longer == Append(commits, new)
         IN /\ longer \in Seq(VersionTrees) /\ Len(longer) = Len(commits) + 1
            /\ \A i \in 1..Len(commits) : i \in 1..Len(longer) /\ longer[i] = commits[i]
<1>1. commits \in Seq(VersionTrees)
  BY DEF CollectionTypeOK, VersionTrees
<1> QED BY <1>1

\* The invariant holds at the start.
LEMMA Starting == CollectionInit => Inv
<1> SUFFICES ASSUME CollectionInit PROVE Inv
  OBVIOUS
<1>1. commits \in Seq([RepoFiles -> Nat]) /\ tree \in [RepoFiles -> Nat] /\ mode.head \in 1..Len(commits)
  BY CollectionAssumption DEF CollectionInit
<1>2. 1 \in 1..Len(commits)
  BY <1>1
<1>3. got = NothingRead /\ seen = {} /\ colStage = "idle"
  BY DEF CollectionInit
<1>4. NothingRead \in Readings
  BY DEF NothingRead, Readings
<1>5. CollectionTypeOK
  BY <1>1, <1>2, <1>3, <1>4 DEF CollectionInit, CollectionTypeOK
<1>6. IgnoredNeverShown
  BY <1>3 DEF IgnoredNeverShown, NothingRead
<1>7. StrictEvidenceIsTheCommits /\ PinnedHeadIsPure /\ SeenAsRead
  BY <1>3 DEF StrictEvidenceIsTheCommits, PinnedHeadIsPure, SeenAsRead
<1>8. StrictNow /\ PinnedNow /\ UnracedNow
  BY <1>3 DEF StrictNow, PinnedNow, UnracedNow, Reading, AfterIndex, AfterList, AfterPatch
<1> QED BY <1>5, <1>6, <1>7, <1>8 DEF Inv

\* All that matters of what others do: a collection in progress is marked,
\* commits stay, and a version that is replaced is recorded.
Disturbed ==
  /\ UNCHANGED <<colStage, mode, pin, got, seen>> /\ raced' = (colStage # "idle") /\ touches' \in Nat
  /\ tree' \in VersionTrees /\ staged' \in BOOLEAN /\ conversation' \in Nat
  /\ commits' \in Seq(VersionTrees)
  /\ \A i \in 1..Len(commits) : i \in 1..Len(commits') /\ commits'[i] = commits[i]
  /\ replaced \subseteq replaced'
  /\ \A f \in RepoFiles : tree'[f] = tree[f] \/ <<f, tree[f]>> \in replaced'

\* What others do is no more than that.
LEMMA OthersDisturb ==
  ASSUME CollectionTypeOK,
         \/ \E f \in RepoFiles : EditFile(f) \/ Delete(f)
         \/ \E p \in MayMove : Move(p)
         \/ StageAll \/ Commit \/ Restore \/ Grow
  PROVE  Disturbed
<1> DEFINE Kept == \A i \in 1..Len(commits) : i \in 1..Len(commits') /\ commits'[i] = commits[i]
           Rest == UNCHANGED <<colStage, mode, pin, got, seen>> /\ raced' = (colStage # "idle") /\
              touches' \in Nat
<1>1. /\ commits \in Seq(VersionTrees) /\ tree \in VersionTrees /\ staged \in BOOLEAN
      /\ conversation \in Nat /\ touches \in Nat /\ Fresh \in Nat /\ HeadTree \in VersionTrees
  BY CommitsTyped DEF CollectionTypeOK, VersionTrees, Fresh
<1>2. Touch => Rest
  BY <1>1 DEF Touch
<1>3. ASSUME NEW new \in VersionTrees, Touch, Rewrite(new) PROVE Disturbed
  <2>1. /\ tree' = new /\ UNCHANGED <<commits, staged, conversation>>
        /\ replaced' = replaced \cup {<<f, tree[f]>> : f \in {x \in RepoFiles : new[x] # tree[x]}}
    BY <1>3 DEF Rewrite
  <2>2. \A f \in RepoFiles : tree'[f] = tree[f] \/ <<f, tree[f]>> \in replaced'
    BY <2>1
  <2> QED BY <1>1, <1>2, <1>3, <2>1, <2>2 DEF Disturbed
<1>4. ASSUME NEW f \in RepoFiles, EditFile(f) PROVE Disturbed
  <2>1. [tree EXCEPT ![f] = Fresh] \in VersionTrees
    BY <1>1 DEF VersionTrees
  <2> QED BY <1>3, <1>4, <2>1 DEF EditFile
<1>5. ASSUME NEW f \in RepoFiles, Delete(f) PROVE Disturbed
  <2>1. [tree EXCEPT ![f] = 0] \in VersionTrees
    BY <1>1 DEF VersionTrees
  <2> QED BY <1>3, <1>5, <2>1 DEF Delete
<1>6. ASSUME NEW p \in MayMove, Move(p) PROVE Disturbed
  <2>1. p[1] \in RepoFiles /\ p[2] \in RepoFiles
    BY CollectionAssumption
  <2>2. [tree EXCEPT ![p[1]] = 0, ![p[2]] = tree[p[1]]] \in VersionTrees
    BY <1>1, <2>1 DEF VersionTrees
  <2> QED BY <1>3, <1>6, <2>2 DEF Move
<1>7. CASE StageAll
  <2>1. Touch /\ staged' = ~staged /\ UNCHANGED <<commits, tree, conversation, replaced>>
    BY <1>7 DEF StageAll
  <2>2. staged' \in BOOLEAN
    BY <2>1, <1>1
  <2> QED BY <1>1, <1>2, <2>1, <2>2 DEF Disturbed
<1>8. CASE Commit
  <2>1. Touch /\ commits' = Append(commits, tree) /\ UNCHANGED <<tree, staged, conversation, replaced>>
    BY <1>8 DEF Commit
  <2>2. Kept /\ commits' \in Seq(VersionTrees)
    BY <1>1, <2>1, AddedCommit
  <2> QED BY <1>1, <1>2, <2>1, <2>2 DEF Disturbed
<1>9. CASE Restore
  BY <1>1, <1>3, <1>9 DEF Restore
<1>10. CASE Grow
  <2>1. Touch /\ conversation' = conversation + 1 /\ UNCHANGED <<commits, tree, staged, replaced>>
    BY <1>10 DEF Grow
  <2>2. conversation' \in Nat
    BY <2>1, <1>1
  <2> QED BY <1>1, <1>2, <2>1, <2>2 DEF Disturbed
<1> QED BY <1>4, <1>5, <1>6, <1>7, <1>8, <1>9, <1>10

\* It keeps the invariant.
LEMMA Disturbance == ASSUME Inv, Disturbed PROVE Inv'
<1>0. CollectionTypeOK
  BY DEF Inv
<1>1. /\ UNCHANGED <<colStage, mode, pin, got, seen>> /\ raced' = (colStage # "idle") /\ touches' \in Nat
      /\ tree' \in VersionTrees /\ staged' \in BOOLEAN /\ conversation' \in Nat
      /\ commits' \in Seq(VersionTrees) /\ replaced \subseteq replaced'
  BY DEF Disturbed
<1>2. \A i \in 1..Len(commits) : i \in 1..Len(commits') /\ commits'[i] = commits[i]
  BY DEF Disturbed
<1>3. \A f \in RepoFiles : tree'[f] = tree[f] \/ <<f, tree[f]>> \in replaced'
  BY DEF Disturbed
<1>4. pin.head \in 1..Len(commits) /\ commits'[pin.head] = commits[pin.head] /\ commits'[1] = commits[1]
      /\ \A s \in seen : s.head \in 1..Len(commits) /\ commits'[s.head] = commits[s.head]
  BY <1>0, <1>2, CommitsTyped DEF CollectionTypeOK
<1>5. CollectionTypeOK'
  <2>1. mode.head \in 1..Len(commits') /\ pin.head \in 1..Len(commits')
        /\ \A s \in seen : s.head \in 1..Len(commits')
    BY <1>0, <1>2 DEF CollectionTypeOK
  <2> QED BY <1>0, <1>1, <2>1 DEF CollectionTypeOK, VersionTrees
<1>6. IgnoredNeverShown'
  BY <1>1 DEF Inv, IgnoredNeverShown
<1>7. StrictEvidenceIsTheCommits'
  <2>1. ASSUME NEW s \in seen, s.mode.strict /\ s.mode.current
        PROVE  LET at == commits'[s.head]
                   Of(f, v) == v = at[f] \/ <<f, v>> \in replaced'
               IN /\ \A f \in DOMAIN s.content.specs : f \in Artifact \/ Of(f, s.content.specs[f])
                  /\ \A x \in s.content.patch : x.path \in Artifact \/ Of(x.path, x.to)
                  /\ \A x \in s.content.changed : x.path \in Artifact \/ x.source = "diff"
    BY <1>1, <1>4, <2>1 DEF Inv, StrictEvidenceIsTheCommits
  <2> QED BY <1>1, <2>1 DEF StrictEvidenceIsTheCommits
<1>8. PinnedHeadIsPure'
  BY <1>1, <1>4 DEF Inv, PinnedHeadIsPure
<1>9. StrictNow'
  <2>1. ASSUME NEW f \in RepoFiles, NEW v, Known(f, v) PROVE Known(f, v)'
    BY <1>1, <1>3, <2>1 DEF Known
  <2> SUFFICES ASSUME mode.strict /\ mode.current PROVE StrictNow'
    BY <1>1 DEF StrictNow
  <2>2. colStage \in AfterIndex => /\ got.specs \in [Specs \ Ignored -> Nat]
                                   /\ \A f \in Specs \ Ignored : Known(f, got.specs[f])'
    <3>1. \A f \in Specs \ Ignored : f \in RepoFiles
      BY CollectionAssumption
    <3>2. colStage \in AfterIndex => /\ got.specs \in [Specs \ Ignored -> Nat]
                                     /\ \A f \in Specs \ Ignored : Known(f, got.specs[f])
      BY DEF Inv, StrictNow
    <3> QED BY <1>1, <2>1, <3>1, <3>2 DEF Known
  <2>3. colStage \in AfterList => \A x \in got.changed : x.path \in Artifact \/ x.source = "diff"
    BY DEF Inv, StrictNow
  <2>4. colStage \in AfterPatch =>
          \A x \in got.patch : x.to = commits'[pin.head][x.path] \/ Known(x.path, x.to)'
    <3>1. \A x \in got.patch : x.path \in RepoFiles
      BY <1>0 DEF CollectionTypeOK, Readings, PatchParts
    <3>2. colStage \in AfterPatch =>
            \A x \in got.patch : x.to = commits[pin.head][x.path] \/ Known(x.path, x.to)
      BY DEF Inv, StrictNow
    <3> QED BY <1>1, <1>4, <2>1, <3>1, <3>2 DEF Known
  <2> QED BY <1>1, <2>2, <2>3, <2>4 DEF StrictNow, Known
<1>10. PinnedNow'
  BY <1>1, <1>4 DEF Inv, PinnedNow, InRange
<1>11. UnracedNow'
  <2>1. raced' \/ colStage = "idle"
    BY <1>1
  <2> QED BY <1>1, <2>1 DEF UnracedNow, Reading, AfterIndex, AfterList, AfterPatch
<1>12. SeenAsRead'
  BY <1>1, <1>4 DEF Inv, SeenAsRead
<1> QED BY <1>5, <1>6, <1>7, <1>8, <1>9, <1>10, <1>11, <1>12 DEF Inv

-----------------------------------------------------------------------------
(* The steps of a collection.                                              *)

\* No ignored file in a reading.
Hides(c) ==
  /\ \A x \in c.changed : {x.path, x.old} \cap Ignored = {}
  /\ \A s \in c.patch : {s.path, s.old} \cap Ignored = {}

\* A step of a collection that adds no result.
LEMMA Unseen ==
  ASSUME Inv, World, seen' = seen, pin'.base = 1, pin'.head \in 1..Len(commits), raced' \in BOOLEAN,
         got' \in Readings, Hides(got'),
         colStage' \in {"idle", "pinned", "indexed", "listed", "patched", "hashed", "failed"}
  PROVE  /\ CollectionTypeOK' /\ IgnoredNeverShown' /\ StrictEvidenceIsTheCommits'
         /\ PinnedHeadIsPure' /\ SeenAsRead'
<1>1. UNCHANGED <<mode, commits, tree, staged, conversation, touches, replaced>>
  BY DEF World
<1>2. CollectionTypeOK'
  BY <1>1 DEF Inv, CollectionTypeOK
<1>3. IgnoredNeverShown'
  BY DEF Inv, IgnoredNeverShown, Hides
<1>4. StrictEvidenceIsTheCommits'
  BY <1>1 DEF Inv, StrictEvidenceIsTheCommits
<1>5. PinnedHeadIsPure'
  BY <1>1 DEF Inv, PinnedHeadIsPure
<1>6. SeenAsRead'
  BY <1>1 DEF Inv, SeenAsRead
<1> QED BY <1>2, <1>3, <1>4, <1>5, <1>6

\* A step of the collection makes no version known or unknown.
LEMMA KnownKept == ASSUME World, NEW f, NEW v PROVE Known(f, v)' <=> Known(f, v)
  BY DEF World, Known

\* A collection that fails.
LEMMA Failing == ASSUME Inv, Fail PROVE Inv'
<1>1. /\ World /\ pin' = pin /\ got' = got /\ seen' = seen /\ raced' = raced /\ colStage' = "failed"
  BY DEF Fail, World
<1>2. pin.base = 1 /\ pin.head \in 1..Len(commits) /\ got \in Readings /\ raced \in BOOLEAN /\ Hides(got)
  BY DEF Inv, CollectionTypeOK, IgnoredNeverShown, Hides
<1>3. /\ CollectionTypeOK' /\ IgnoredNeverShown' /\ StrictEvidenceIsTheCommits'
      /\ PinnedHeadIsPure' /\ SeenAsRead'
  BY <1>1, <1>2, Unseen
<1>4. StrictNow' /\ PinnedNow' /\ UnracedNow'
  BY <1>1 DEF StrictNow, PinnedNow, UnracedNow, Reading, AfterIndex, AfterList, AfterPatch
<1> QED BY <1>3, <1>4 DEF Inv

\* A collection that begins.
LEMMA Pinning == ASSUME Inv, Pin PROVE Inv'
<1>1. CASE Fail
  BY <1>1, Failing
<1>2. CASE /\ colStage' = "pinned"
           /\ pin' = [base |-> 1, head |-> IF mode.current THEN Len(commits) ELSE mode.head]
           /\ got' = [NothingRead EXCEPT !.conversation = IF mode.conversation THEN conversation ELSE 0]
           /\ raced' = FALSE /\ UNCHANGED seen /\ World
  <2>1. pin'.base = 1 /\ pin'.head \in 1..Len(commits) /\ conversation \in Nat
        /\ (mode.current => pin'.head = Len(commits))
    BY <1>2, CommitsTyped DEF Inv, CollectionTypeOK
  <2>2. got' \in Readings /\ Hides(got')
    BY <1>2, <2>1 DEF NothingRead, Readings, Hides
  <2>3. /\ CollectionTypeOK' /\ IgnoredNeverShown' /\ StrictEvidenceIsTheCommits'
        /\ PinnedHeadIsPure' /\ SeenAsRead'
    BY <1>2, <2>1, <2>2, Unseen
  <2>4. StrictNow' /\ PinnedNow'
    BY <1>2 DEF StrictNow, PinnedNow, AfterIndex, AfterList, AfterPatch
  <2>5. UnracedNow'
    BY <1>2, <2>1 DEF UnracedNow, AfterIndex, AfterList, AfterPatch, World
  <2> QED BY <2>3, <2>4, <2>5 DEF Inv
<1> QED BY <1>1, <1>2 DEF Pin

\* What the steps of a collection start from.
LEMMA StepFacts ==
  ASSUME Inv
  PROVE  /\ CollectionTypeOK /\ pin.base = 1 /\ pin.head \in 1..Len(commits) /\ got \in Readings /\ Hides(got)
         /\ raced \in BOOLEAN
         /\ commits[1] \in VersionTrees /\ commits[pin.head] \in VersionTrees /\ HeadTree \in VersionTrees
         /\ tree \in VersionTrees /\ staged \in BOOLEAN /\ mode.current \in BOOLEAN
         /\ (~raced /\ colStage \in Reading /\ mode.current => HeadTree = commits[pin.head])
<1>1. CollectionTypeOK
  BY DEF Inv
<1>2. pin.base = 1 /\ pin.head \in 1..Len(commits) /\ got \in Readings /\ Hides(got) /\ raced \in BOOLEAN
  BY DEF Inv, CollectionTypeOK, IgnoredNeverShown, Hides
<1>3. ~raced /\ colStage \in Reading /\ mode.current => HeadTree = commits[pin.head]
  BY DEF Inv, UnracedNow, HeadTree
<1> QED BY <1>1, <1>2, <1>3, CommitsTyped

\* The status is read.
LEMMA Indexing == ASSUME Inv, Index PROVE Inv'
<1> DEFINE status == IF mode.current THEN PorcelainStatus(HeadTree, tree, staged) ELSE {}
           chosen == SelectUntrackedFiles(status)
           left == Untracked(status) \ chosen
           specs == [f \in Specs \ Ignored |-> tree[f]]
<1>0. /\ CollectionTypeOK /\ pin.base = 1 /\ pin.head \in 1..Len(commits) /\ got \in Readings /\ Hides(got)
      /\ raced \in BOOLEAN
      /\ commits[1] \in VersionTrees /\ commits[pin.head] \in VersionTrees /\ HeadTree \in VersionTrees
      /\ tree \in VersionTrees /\ staged \in BOOLEAN /\ mode.current \in BOOLEAN
      /\ (~raced /\ colStage \in Reading /\ mode.current => HeadTree = commits[pin.head])
  BY StepFacts
<1>1. /\ colStage = "pinned" /\ colStage' = "indexed" /\ UNCHANGED <<pin, seen, raced>> /\ World
      /\ got' = [got EXCEPT !.specs = specs, !.status = status, !.untracked = chosen, !.omitted = left]
  BY DEF Index
<1>2. status = StatusOf(mode.current, HeadTree, tree, staged)
  BY DEF StatusOf
<1>3. status \subseteq Entries
  BY <1>0, <1>2, StatusTyped
<1>4. chosen \subseteq RepoFiles /\ left \subseteq RepoFiles
  BY <1>3, UntrackedTyped
<1>5. specs \in [Specs \ Ignored -> Nat]
  BY <1>0, SpecsTyped
<1> HIDE DEF status, chosen, left, specs
<1>6. got' \in Readings /\ got'.specs = specs /\ got'.status = status /\ got'.untracked = chosen /\
         got'.omitted = left
      /\ got'.changed = got.changed /\ got'.patch = got.patch
  BY <1>0, <1>1, <1>3, <1>4, <1>5 DEF Readings
<1>7. Hides(got')
  BY <1>0, <1>6 DEF Hides
<1>8. /\ CollectionTypeOK' /\ IgnoredNeverShown' /\ StrictEvidenceIsTheCommits'
      /\ PinnedHeadIsPure' /\ SeenAsRead'
  BY <1>0, <1>1, <1>6, <1>7, Unseen
<1>9. StrictNow'
  <2>1. tree' = tree /\ \A f \in Specs \ Ignored : specs[f] = tree[f]
    BY <1>1 DEF specs, World
  <2>2. got'.specs \in [Specs \ Ignored -> Nat] /\ \A f \in Specs \ Ignored : got'.specs[f] = tree'[f]
    BY <1>5, <1>6, <2>1
  <2> QED BY <1>1, <2>2 DEF StrictNow, AfterList, AfterPatch, Known
<1>10. PinnedNow'
  <2>1. mode' = mode /\ (~mode.current => status = {})
    BY <1>1 DEF World, status
  <2> QED BY <1>1, <1>6, <2>1 DEF PinnedNow, AfterList, AfterPatch
<1>11. UnracedNow'
  <2>1. UNCHANGED <<mode, commits, tree, staged>>
    BY <1>1 DEF World
  <2>2. SUFFICES ASSUME ~raced PROVE UnracedNow'
    BY <1>1 DEF UnracedNow
  <2>3. mode.current => pin.head = Len(commits) /\ HeadTree = commits[pin.head]
    BY <1>0, <1>1, <2>2 DEF Inv, UnracedNow, Reading
  <2>4. status = StatusOf(mode.current, commits[pin.head], tree, staged)
    BY <2>3, <1>2, <1>0 DEF StatusOf
  <2>5. /\ chosen = UntrackedOf(mode.current, commits[pin.head], tree, staged)
        /\ left = OmittedOf(mode.current, commits[pin.head], tree, staged)
    BY <2>4 DEF chosen, left, UntrackedOf, OmittedOf
  <2>6. specs = SpecsOf(tree)
    BY DEF specs, SpecsOf
  <2> QED BY <1>1, <1>6, <2>1, <2>3, <2>4, <2>5, <2>6 DEF UnracedNow, AfterList, AfterPatch
<1> QED BY <1>8, <1>9, <1>10, <1>11 DEF Inv

\* The changed files are listed.
LEMMA Listing == ASSUME Inv, List PROVE Inv'
<1> DEFINE range == NameStatus(commits[pin.base], commits[pin.head], TRUE)
           all == Listed(range, got.status, got.untracked, tree)
           shown == Reviewable(all)
           gone == {f \in Ignored : \E c \in all \cup got.status : c.path = f}
<1>0. /\ CollectionTypeOK /\ pin.base = 1 /\ pin.head \in 1..Len(commits) /\ got \in Readings /\ Hides(got)
      /\ raced \in BOOLEAN
      /\ commits[1] \in VersionTrees /\ commits[pin.head] \in VersionTrees /\ HeadTree \in VersionTrees
      /\ tree \in VersionTrees /\ staged \in BOOLEAN /\ mode.current \in BOOLEAN
  BY StepFacts
<1>1. CASE Fail
  BY <1>1, Failing
<1>2. CASE /\ colStage = "indexed" /\ ~(mode.strict /\ HasReviewableWorkingTreeChanges(got.status))
           /\ colStage' = "listed" /\ got' = [got EXCEPT !.changed = shown, !.dropped = gone]
           /\ UNCHANGED <<pin, seen, raced>> /\ World
  <2>1. got.status \subseteq Entries
    BY <1>0 DEF Readings
  <2>2. shown = Reviewable(Listed(NameStatus(commits[1], commits[pin.head], TRUE), got.status, got.untracked,
           tree))
    BY <1>0
  <2>3. gone \subseteq Ignored
    OBVIOUS
  <2> HIDE DEF range, all, shown, gone
  <2>4. shown \subseteq Changes
    BY <1>0, <2>1, <2>2, ListedTyped
  <2>5. \A c \in shown : {c.path, c.old} \cap Ignored = {}
    BY <1>0, <2>1, <2>2, ListedHides
  <2>6. /\ got' \in Readings /\ got'.changed = shown /\ got'.specs = got.specs /\ got'.status = got.status
        /\ got'.untracked = got.untracked /\ got'.omitted = got.omitted /\ got'.patch = got.patch
    BY <1>0, <1>2, <2>3, <2>4 DEF Readings
  <2>7. Hides(got')
    BY <1>0, <2>5, <2>6 DEF Hides
  <2>8. /\ CollectionTypeOK' /\ IgnoredNeverShown' /\ StrictEvidenceIsTheCommits'
        /\ PinnedHeadIsPure' /\ SeenAsRead'
    BY <1>0, <1>2, <2>6, <2>7, Unseen
  <2>9. StrictNow'
    <3>1. UNCHANGED <<mode, tree, replaced>>
      BY <1>2 DEF World
    <3> SUFFICES ASSUME mode.strict /\ mode.current PROVE StrictNow'
      BY <3>1 DEF StrictNow
    <3>2. got.specs \in [Specs \ Ignored -> Nat] /\ \A f \in Specs \ Ignored : Known(f, got.specs[f])
      BY <1>2 DEF Inv, StrictNow, AfterIndex
    <3>3. NothingToReview(got.status)
      BY <1>2 DEF HasReviewableWorkingTreeChanges, NothingToReview
    <3>4. \A x \in shown : x.path \in Artifact \/ x.source = "diff"
      <4>1. got.status \in SUBSET Entries
        BY <2>1
      <4>2. ASSUME NEW x \in Reviewable(Listed(NameStatus(commits[1], commits[pin.head], TRUE),
                                             got.status, got.untracked, tree))
            PROVE  x.path \in Artifact \/ x.source = "diff"
        <5>1. commits[1] \in VersionTrees /\ commits[pin.head] \in VersionTrees
          BY <1>0
        <5> DEFINE status == got.status
        <5>2. status \in SUBSET Entries /\ NothingToReview(status)
          BY <3>3, <4>1
        <5>3. x \in Reviewable(Listed(NameStatus(commits[1], commits[pin.head], TRUE),
                                      status, got.untracked, tree))
          BY <4>2
        <5> HIDE DEF status
        <5> QED BY <5>1, <5>2, <5>3, Quiet
      <4> QED BY <2>2, <4>2
    <3> QED BY <1>2, <2>6, <3>1, <3>2, <3>4 DEF StrictNow, AfterPatch, Known
  <2>10. PinnedNow'
    <3>1. UNCHANGED <<mode, commits>>
      BY <1>2 DEF World
    <3> SUFFICES ASSUME ~mode.current PROVE PinnedNow'
      BY <3>1 DEF PinnedNow
    <3>2. got.status = {}
      BY <1>2 DEF Inv, PinnedNow, AfterIndex
    <3>3. \A x \in shown : InRange(x, commits[1], commits[pin.head])
      BY <1>0, <2>2, <3>2, RangeAlone
    <3> QED BY <1>2, <2>6, <3>1, <3>2, <3>3 DEF PinnedNow, AfterPatch, InRange
  <2>11. UnracedNow'
    <3>1. UNCHANGED <<mode, commits, tree, staged>>
      BY <1>2 DEF World
    <3>2. SUFFICES ASSUME ~raced PROVE UnracedNow'
      BY <1>2 DEF UnracedNow
    <3>3. /\ mode.current => pin.head = Len(commits)
          /\ got.specs = SpecsOf(tree)
          /\ got.status = StatusOf(mode.current, commits[pin.head], tree, staged)
          /\ got.untracked = UntrackedOf(mode.current, commits[pin.head], tree, staged)
          /\ got.omitted = OmittedOf(mode.current, commits[pin.head], tree, staged)
      BY <1>2, <3>2 DEF Inv, UnracedNow, Reading, AfterIndex
    <3>4. shown = ChangedOf(mode.current, commits[1], commits[pin.head], tree, staged)
      BY <2>2, <3>3 DEF ChangedOf
    <3>5. SpecsOf(tree)' = SpecsOf(tree)
      BY <3>1 DEF SpecsOf
    <3> QED BY <1>2, <2>6, <3>1, <3>3, <3>4, <3>5 DEF UnracedNow, AfterPatch
  <2> QED BY <2>8, <2>9, <2>10, <2>11 DEF Inv
<1> QED BY <1>1, <1>2 DEF List

\* The patch is taken.
LEMMA Patching == ASSUME Inv, Patch PROVE Inv'
<1> DEFINE range == Sections(commits[pin.base], commits[pin.head], TRUE)
           working == IF mode.current THEN WorkingSections(HeadTree, tree, staged, got.untracked) ELSE {}
           reviewed == {c.path : c \in got.changed} \cup got.dropped
           shown == FilterIgnoredDiff(range \cup working, reviewed)
<1>0. /\ CollectionTypeOK /\ pin.base = 1 /\ pin.head \in 1..Len(commits) /\ got \in Readings /\ Hides(got)
      /\ raced \in BOOLEAN
      /\ commits[1] \in VersionTrees /\ commits[pin.head] \in VersionTrees /\ HeadTree \in VersionTrees
      /\ tree \in VersionTrees /\ staged \in BOOLEAN /\ mode.current \in BOOLEAN
  BY StepFacts
<1>1. CASE Fail
  BY <1>1, Failing
<1>2. CASE /\ colStage = "listed" /\ colStage' = "patched" /\ got' = [got EXCEPT !.patch = shown]
           /\ UNCHANGED <<pin, seen, raced>> /\ World
  <2>1. got.untracked \subseteq RepoFiles /\ got.dropped \in SUBSET Ignored
    BY <1>0 DEF Readings
  <2>2. \A x \in Sections(commits[1], commits[pin.head], TRUE) :
          x \in PatchParts /\ x.to = commits[pin.head][x.path]
    <3>1. TRUE \in BOOLEAN
      OBVIOUS
    <3> QED BY <1>0, <3>1, SectionsTyped
  <2>3. \A x \in working : mode.current /\ x \in PatchParts /\ x.to = tree[x.path]
    BY <1>0, <2>1, WorkingTyped
  <2>5. range = Sections(commits[1], commits[pin.head], TRUE)
    BY <1>0
  <2>15. \A x \in range : x \in PatchParts /\ x.to = commits[pin.head][x.path]
    BY <2>2, <2>5
  <2> DEFINE both == range \cup working
  <2> HIDE DEF range, working, reviewed, both
  <2>14. \A x \in FilterIgnoredDiff(both, reviewed) : x \in both /\ Passes(x, reviewed)
    BY FilterForms
  <2>4. \A x \in shown : x \in range \cup working /\ Passes(x, reviewed)
    BY <2>14 DEF both
  <2> HIDE DEF shown
  <2>6. shown \subseteq PatchParts /\ \A x \in shown : {x.path, x.old} \cap Ignored = {}
    <3>1. shown \subseteq PatchParts
      BY <2>15, <2>3, <2>4
    <3>2. \A x \in shown : ({x.path, x.old} \ {"none"}) \cap Ignored = {}
      BY <2>4 DEF Passes
    <3>3. "none" \notin Ignored
      BY CollectionAssumption
    <3> QED BY <3>1, <3>2, <3>3
  <2>7. /\ got' \in Readings /\ got'.changed = got.changed /\ got'.specs = got.specs /\ got'.status = got.status
        /\ got'.untracked = got.untracked /\ got'.omitted = got.omitted /\ got'.patch = shown
    BY <1>0, <1>2, <2>6 DEF Readings
  <2>8. Hides(got')
    BY <1>0, <2>6, <2>7 DEF Hides
  <2>9. /\ CollectionTypeOK' /\ IgnoredNeverShown' /\ StrictEvidenceIsTheCommits'
        /\ PinnedHeadIsPure' /\ SeenAsRead'
    BY <1>0, <1>2, <2>7, <2>8, Unseen
  <2>10. UNCHANGED <<mode, commits, tree, staged, replaced>>
    BY <1>2 DEF World
  <2>11. StrictNow'
    <3> SUFFICES ASSUME mode.strict /\ mode.current PROVE StrictNow'
      BY <2>10 DEF StrictNow
    <3>1. /\ got.specs \in [Specs \ Ignored -> Nat] /\ \A f \in Specs \ Ignored : Known(f, got.specs[f])
          /\ \A x \in got.changed : x.path \in Artifact \/ x.source = "diff"
      BY <1>2 DEF Inv, StrictNow, AfterIndex, AfterList
    <3>2. \A x \in shown : x.to = commits[pin.head][x.path] \/ x.to = tree[x.path]
      BY <2>15, <2>3, <2>4
    <3> QED BY <1>2, <2>7, <2>10, <3>1, <3>2 DEF StrictNow, Known
  <2>12. PinnedNow'
    <3> SUFFICES ASSUME ~mode.current PROVE PinnedNow'
      BY <2>10 DEF PinnedNow
    <3>1. got.status = {} /\ \A x \in got.changed : InRange(x, commits[1], commits[pin.head])
      BY <1>2 DEF Inv, PinnedNow, AfterIndex, AfterList
    <3>2. shown \subseteq Sections(commits[1], commits[pin.head], TRUE)
      BY <2>3, <2>4, <2>5
    <3> QED BY <1>2, <2>7, <2>10, <3>1, <3>2 DEF PinnedNow, InRange
  <2>13. UnracedNow'
    <3>1. SUFFICES ASSUME ~raced PROVE UnracedNow'
      BY <1>2 DEF UnracedNow
    <3>2. /\ mode.current => pin.head = Len(commits)
          /\ got.specs = SpecsOf(tree)
          /\ got.status = StatusOf(mode.current, commits[pin.head], tree, staged)
          /\ got.untracked = UntrackedOf(mode.current, commits[pin.head], tree, staged)
          /\ got.omitted = OmittedOf(mode.current, commits[pin.head], tree, staged)
          /\ got.changed = ChangedOf(mode.current, commits[1], commits[pin.head], tree, staged)
      BY <1>2, <3>1 DEF Inv, UnracedNow, Reading, AfterIndex, AfterList
    <3>3. working = WorkingOf(mode.current, commits[pin.head], tree, staged)
      BY <3>2 DEF working, WorkingOf, HeadTree
    <3>4. reviewed = PathsOf(mode.current, commits[1], commits[pin.head], tree, staged) \cup got.dropped
      BY <3>2 DEF reviewed, PathsOf
    <3>5. shown = PatchOf(mode.current, commits[1], commits[pin.head], tree, staged)
      BY <2>1, <2>5, <3>3, <3>4, DroppedDoNotMatter DEF shown, PatchOf
    <3>6. SpecsOf(tree)' = SpecsOf(tree)
      BY <2>10 DEF SpecsOf
    <3> QED BY <1>2, <2>7, <2>10, <3>2, <3>5, <3>6 DEF UnracedNow
  <2> QED BY <2>9, <2>11, <2>12, <2>13 DEF Inv
<1> QED BY <1>1, <1>2 DEF Patch

\* What is reviewed is hashed.
LEMMA Hashing == ASSUME Inv, Hash PROVE Inv'
<1> DEFINE of == IF mode.current THEN tree ELSE commits[pin.head]
           hashes == HashChangedFiles(got.changed, of) \cup HashSpecs(tree)
<1>0. /\ CollectionTypeOK /\ pin.base = 1 /\ pin.head \in 1..Len(commits) /\ got \in Readings /\ Hides(got)
      /\ raced \in BOOLEAN
      /\ commits[1] \in VersionTrees /\ commits[pin.head] \in VersionTrees /\ HeadTree \in VersionTrees
      /\ tree \in VersionTrees /\ staged \in BOOLEAN /\ mode.current \in BOOLEAN
  BY StepFacts
<1>1. /\ colStage = "patched" /\ colStage' = "hashed" /\ got' = [got EXCEPT !.hashes = hashes]
      /\ UNCHANGED <<pin, seen, raced>> /\ World
  BY DEF Hash
<1>2. got.changed \in SUBSET Changes /\ of \in VersionTrees
  BY <1>0 DEF Readings
<1>3. hashes \subseteq Hashes
  BY <1>0, <1>2, HashesTyped
<1> HIDE DEF of, hashes
<1>4. /\ got' \in Readings /\ got'.changed = got.changed /\ got'.specs = got.specs /\ got'.status = got.status
      /\ got'.untracked = got.untracked /\ got'.omitted = got.omitted /\ got'.patch = got.patch
      /\ got'.hashes = hashes
  BY <1>0, <1>1, <1>3 DEF Readings
<1>5. Hides(got')
  BY <1>0, <1>4 DEF Hides
<1>6. /\ CollectionTypeOK' /\ IgnoredNeverShown' /\ StrictEvidenceIsTheCommits'
      /\ PinnedHeadIsPure' /\ SeenAsRead'
  BY <1>0, <1>1, <1>4, <1>5, Unseen
<1>7. UNCHANGED <<mode, commits, tree, staged, replaced>>
  BY <1>1 DEF World
<1>8. StrictNow'
  <2> SUFFICES ASSUME mode.strict /\ mode.current PROVE StrictNow'
    BY <1>7 DEF StrictNow
  <2>1. /\ got.specs \in [Specs \ Ignored -> Nat] /\ \A f \in Specs \ Ignored : Known(f, got.specs[f])
        /\ \A x \in got.changed : x.path \in Artifact \/ x.source = "diff"
        /\ \A x \in got.patch : x.to = commits[pin.head][x.path] \/ Known(x.path, x.to)
    BY <1>1 DEF Inv, StrictNow, AfterIndex, AfterList, AfterPatch
  <2> QED BY <1>1, <1>4, <1>7, <2>1 DEF StrictNow, Known
<1>9. PinnedNow'
  BY <1>1, <1>4, <1>7 DEF Inv, PinnedNow, InRange, AfterIndex, AfterList, AfterPatch
<1>10. UnracedNow'
  <2>1. SUFFICES ASSUME ~raced PROVE UnracedNow'
    BY <1>1 DEF UnracedNow
  <2>2. /\ mode.current => pin.head = Len(commits)
        /\ got.specs = SpecsOf(tree)
        /\ got.status = StatusOf(mode.current, commits[pin.head], tree, staged)
        /\ got.untracked = UntrackedOf(mode.current, commits[pin.head], tree, staged)
        /\ got.omitted = OmittedOf(mode.current, commits[pin.head], tree, staged)
        /\ got.changed = ChangedOf(mode.current, commits[1], commits[pin.head], tree, staged)
        /\ got.patch = PatchOf(mode.current, commits[1], commits[pin.head], tree, staged)
    BY <1>1, <2>1 DEF Inv, UnracedNow, Reading, AfterIndex, AfterList, AfterPatch
  <2>3. hashes = SignedOf(mode.current, commits[1], commits[pin.head], tree, staged)
    BY <2>2 DEF hashes, of, SignedOf
  <2>4. SpecsOf(tree)' = SpecsOf(tree)
    BY <1>7 DEF SpecsOf
  <2> QED BY <1>1, <1>4, <1>7, <2>2, <2>3, <2>4 DEF UnracedNow
<1> QED BY <1>6, <1>8, <1>9, <1>10 DEF Inv

-----------------------------------------------------------------------------
(* Its result.                                                             *)

\* What Finish adds to seen.
Result ==
  [signature |-> ComputeSignature, mode |-> mode, raced |-> raced, head |-> pin.head, content |-> Content]

\* Its type.
LEMMA ResultTyped ==
  ASSUME Inv
  PROVE  /\ Result \in [signature : Signatures, mode : Modes, raced : BOOLEAN, head : Nat, content : Readings]
         /\ Result.head = pin.head /\ pin.head \in 1..Len(commits)
<1>1. /\ pin.base = 1 /\ pin.head \in 1..Len(commits) /\ got \in Readings /\ raced \in BOOLEAN
      /\ commits[1] \in VersionTrees /\ commits[pin.head] \in VersionTrees /\ mode \in Modes
  BY StepFacts DEF CollectionTypeOK
<1>2. Content \in Readings
  BY <1>1 DEF Content, Readings
<1>3. ComputeSignature \in Signatures
  BY <1>1 DEF ComputeSignature, Signatures, Readings, VersionTrees
<1>4. pin.head \in Nat
  BY <1>1
<1> QED BY <1>1, <1>2, <1>3, <1>4 DEF Result

\* Its parts.
LEMMA ResultForms ==
  ASSUME Inv
  PROVE  /\ Result.mode = mode /\ Result.raced = raced /\ Result.head = pin.head
         /\ Result.signature = ComputeSignature /\ Result.content = Content
         /\ Content.specs = got.specs /\ Content.changed = got.changed /\ Content.patch = got.patch
<1>1. got \in Readings
  BY DEF Inv, CollectionTypeOK
<1> QED BY <1>1 DEF Result, Content, Readings

\* A strict collection that finds the tree clean once more: what it read of
\* the tree is what the commit has, or was replaced.
LEMMA StrictResult ==
  ASSUME Inv, colStage = "hashed", mode.strict, mode.current, Len(commits) = pin.head,
         ~HasReviewableWorkingTreeChanges(PorcelainStatus(HeadTree, tree, staged))
  PROVE  LET at == commits[pin.head]
             Of(f, v) == v = at[f] \/ <<f, v>> \in replaced
         IN /\ \A f \in DOMAIN got.specs : f \in Artifact \/ Of(f, got.specs[f])
            /\ \A x \in got.patch : x.path \in Artifact \/ Of(x.path, x.to)
            /\ \A x \in got.changed : x.path \in Artifact \/ x.source = "diff"
<1>1. /\ HeadTree \in VersionTrees /\ tree \in VersionTrees /\ staged \in BOOLEAN /\ got \in Readings /\
            Hides(got)
  BY StepFacts
<1>2. HeadTree = commits[pin.head]
  BY DEF HeadTree
<1>3. \A f \in RepoFiles : f \notin Artifact /\ f \notin Ignored => HeadTree[f] = tree[f]
  BY <1>1, Clean
<1>4. /\ got.specs \in [Specs \ Ignored -> Nat] /\ \A f \in Specs \ Ignored : Known(f, got.specs[f])
      /\ \A x \in got.changed : x.path \in Artifact \/ x.source = "diff"
      /\ \A x \in got.patch : x.to = commits[pin.head][x.path] \/ Known(x.path, x.to)
  BY DEF Inv, StrictNow, AfterIndex, AfterList, AfterPatch
<1>5. ASSUME NEW f \in DOMAIN got.specs, f \notin Artifact
      PROVE  got.specs[f] = commits[pin.head][f] \/ <<f, got.specs[f]>> \in replaced
  <2>1. f \in Specs \ Ignored /\ f \in RepoFiles
    BY <1>4, CollectionAssumption
  <2>2. HeadTree[f] = tree[f] /\ Known(f, got.specs[f])
    BY <1>3, <1>4, <1>5, <2>1
  <2> QED BY <1>2, <2>2 DEF Known
<1>6. ASSUME NEW x \in got.patch, x.path \notin Artifact
      PROVE  x.to = commits[pin.head][x.path] \/ <<x.path, x.to>> \in replaced
  <2>1. x.path \in RepoFiles /\ x.path \notin Ignored
    BY <1>1 DEF Readings, PatchParts, Hides
  <2>2. HeadTree[x.path] = tree[x.path] /\ (x.to = commits[pin.head][x.path] \/ Known(x.path, x.to))
    BY <1>3, <1>4, <1>6, <2>1
  <2> QED BY <1>2, <2>2 DEF Known
<1> QED BY <1>4, <1>5, <1>6

\* What Content leaves.
LEMMA Emptied ==
  ASSUME NEW c \in Readings
  PROVE  [c EXCEPT !.hashes = {}, !.status = {}, !.untracked = {}, !.dropped = {}]
           = [conversation |-> c.conversation, specs |-> c.specs, status |-> {}, untracked |-> {},
              omitted |-> c.omitted, changed |-> c.changed, dropped |-> {}, patch |-> c.patch, hashes |-> {}]
<1> DEFINE d == [c EXCEPT !.hashes = {}, !.status = {}, !.untracked = {}, !.dropped = {}]
<1>1. d \in Readings
  BY DEF Readings
<1>2. /\ d.conversation = c.conversation /\ d.specs = c.specs /\ d.status = {} /\ d.untracked = {}
      /\ d.omitted = c.omitted /\ d.changed = c.changed /\ d.dropped = {} /\ d.patch = c.patch /\ d.hashes = {}
  BY DEF Readings
<1>3. ASSUME NEW r \in Readings 
      PROVE  r = [conversation |-> r.conversation, specs |-> r.specs, status |-> r.status,
                untracked |-> r.untracked,
              omitted |-> r.omitted, changed |-> r.changed, dropped |-> r.dropped, patch |-> r.patch,
                 hashes |-> r.hashes]
  BY DEF Readings
<1> HIDE DEF d
<1>4. d = [conversation |-> d.conversation, specs |-> d.specs, status |-> d.status, untracked |-> d.untracked,
               omitted |-> d.omitted, changed |-> d.changed, dropped |-> d.dropped, patch |-> d.patch,
                  hashes |-> d.hashes]
  BY <1>1, <1>3
<1>5. d = [conversation |-> c.conversation, specs |-> c.specs, status |-> {}, untracked |-> {},
              omitted |-> c.omitted, changed |-> c.changed, dropped |-> {}, patch |-> c.patch, hashes |-> {}]
  BY <1>2, <1>4
<1> QED BY <1>5 DEF d

\* An undisturbed collection is of one tree.
LEMMA UnracedResult ==
  ASSUME Inv, colStage = "hashed", ~raced
  PROVE  ReadAt(Result, commits[1], commits[pin.head], tree, staged, got.conversation)
<1>1. /\ pin.base = 1 /\ got \in Readings
  BY StepFacts
<1>2. /\ got.specs = SpecsOf(tree)
      /\ got.omitted = OmittedOf(mode.current, commits[pin.head], tree, staged)
      /\ got.changed = ChangedOf(mode.current, commits[1], commits[pin.head], tree, staged)
      /\ got.patch = PatchOf(mode.current, commits[1], commits[pin.head], tree, staged)
      /\ got.hashes = SignedOf(mode.current, commits[1], commits[pin.head], tree, staged)
  BY DEF Inv, UnracedNow, AfterIndex, AfterList, AfterPatch
<1>3. ComputeSignature = SignatureOf(mode, commits[1], commits[pin.head], tree, staged, got.conversation)
  BY <1>1, <1>2 DEF ComputeSignature, SignatureOf
<1>4. Content = [conversation |-> got.conversation, specs |-> got.specs, status |-> {}, untracked |-> {},
                 omitted |-> got.omitted, changed |-> got.changed, dropped |-> {}, patch |-> got.patch,
                 hashes |-> {}]
  BY <1>1, Emptied DEF Content
<1>5. Content = ContentOf(mode, commits[1], commits[pin.head], tree, staged, got.conversation)
  BY <1>2, <1>4 DEF ContentOf
<1> QED BY <1>3, <1>5, ResultForms DEF ReadAt

\* A collection ends.
LEMMA Finishing == ASSUME Inv, Finish PROVE Inv'
<1>1. CASE Fail
  BY <1>1, Failing
<1>2. CASE /\ colStage = "hashed"
           /\ mode.strict /\ mode.current =>
                /\ ~HasReviewableWorkingTreeChanges(PorcelainStatus(HeadTree, tree, staged))
                /\ Len(commits) = pin.head
           /\ colStage' = "idle" /\ seen' = seen \cup {Result}
           /\ UNCHANGED <<pin, got, raced>> /\ World
  <2>1. UNCHANGED <<mode, commits, tree, staged, conversation, touches, replaced, pin, got, raced>>
    BY <1>2 DEF World
  <2>2. /\ colStage' = "idle" /\ \A s \in seen' : s \in seen \/ s = Result
    BY <1>2
  <2>3. /\ Result.mode = mode /\ Result.raced = raced /\ Result.head = pin.head
        /\ Result.signature = ComputeSignature /\ Result.content = Content
        /\ Content.specs = got.specs /\ Content.changed = got.changed /\ Content.patch = got.patch
    BY ResultForms
  <2>4. CollectionTypeOK'
    BY <2>1, <2>2, ResultTyped DEF Inv, CollectionTypeOK
  <2>5. IgnoredNeverShown'
    BY <2>1, <2>2, <2>3 DEF Inv, IgnoredNeverShown
  <2>6. StrictEvidenceIsTheCommits'
    <3>1. ASSUME NEW s \in seen', s.mode.strict /\ s.mode.current
          PROVE  LET at == commits[s.head]
                     Of(f, v) == v = at[f] \/ <<f, v>> \in replaced
                 IN /\ \A f \in DOMAIN s.content.specs : f \in Artifact \/ Of(f, s.content.specs[f])
                    /\ \A x \in s.content.patch : x.path \in Artifact \/ Of(x.path, x.to)
                    /\ \A x \in s.content.changed : x.path \in Artifact \/ x.source = "diff"
      <4>1. CASE s \in seen
        BY <3>1, <4>1 DEF Inv, StrictEvidenceIsTheCommits
      <4>2. CASE s = Result
        <5>1. mode.strict /\ mode.current
          BY <2>3, <3>1, <4>2
        <5>2. Len(commits) = pin.head /\ ~HasReviewableWorkingTreeChanges(PorcelainStatus(HeadTree, tree, staged))
          BY <1>2, <5>1
        <5> QED BY <1>2, <2>3, <4>2, <5>1, <5>2, StrictResult
      <4> QED BY <2>2, <4>1, <4>2
    <3> QED BY <2>1, <3>1 DEF StrictEvidenceIsTheCommits
  <2>7. PinnedHeadIsPure'
    <3>1. ASSUME NEW s \in seen', ~s.mode.current
          PROVE  /\ \A x \in s.content.changed : InRange(x, commits[1], commits[s.head])
                 /\ \A x \in s.content.patch :
                      x.to = commits[s.head][x.path] /\ x.from \in {commits[1][f] : f \in RepoFiles}
      <4>1. CASE s \in seen
        BY <3>1, <4>1 DEF Inv, PinnedHeadIsPure, InRange
      <4>2. CASE s = Result
        <5>1. /\ \A x \in got.changed : InRange(x, commits[1], commits[pin.head])
              /\ got.patch \subseteq Sections(commits[1], commits[pin.head], TRUE)
          BY <1>2, <2>3, <3>1, <4>2 DEF Inv, PinnedNow, AfterList, AfterPatch
        <5>2. TRUE \in BOOLEAN /\ commits[1] \in VersionTrees /\ commits[pin.head] \in VersionTrees
          BY StepFacts
        <5>3. \A x \in got.patch :
                x.to = commits[pin.head][x.path] /\ x.from \in {commits[1][f] : f \in RepoFiles}
          BY <5>1, <5>2, SectionsTyped
        <5> QED BY <2>3, <4>2, <5>1, <5>3
      <4> QED BY <2>2, <4>1, <4>2
    <3> QED BY <2>1, <3>1 DEF PinnedHeadIsPure, InRange
  <2>8. StrictNow' /\ PinnedNow' /\ UnracedNow'
    BY <2>2 DEF StrictNow, PinnedNow, UnracedNow, Reading, AfterIndex, AfterList, AfterPatch
  <2>9. SeenAsRead'
    <3>1. ASSUME NEW s \in seen', ~s.raced
          PROVE  \E now \in VersionTrees, z \in BOOLEAN, words \in Nat :
                   ReadAt(s, commits[1], commits[s.head], now, z, words)
      <4>1. CASE s \in seen
        BY <3>1, <4>1 DEF Inv, SeenAsRead
      <4>2. CASE s = Result
        <5>1. tree \in VersionTrees /\ staged \in BOOLEAN /\ got.conversation \in Nat
          BY StepFacts DEF Readings
        <5>2. ReadAt(s, commits[1], commits[s.head], tree, staged, got.conversation)
          BY <1>2, <2>3, <3>1, <4>2, UnracedResult
        <5> QED BY <5>1, <5>2
      <4> QED BY <2>2, <4>1, <4>2
    <3> QED BY <2>1, <3>1 DEF SeenAsRead, ReadAt
  <2> QED BY <2>4, <2>5, <2>6, <2>7, <2>8, <2>9 DEF Inv
<1> QED BY <1>1, <1>2 DEF Finish, Result

\* Every step keeps the invariant.
LEMMA Stepping == Inv /\ [CollectionNext]_colVars => Inv'
<1> SUFFICES ASSUME Inv, [CollectionNext]_colVars PROVE Inv'
  OBVIOUS
<1>1. CASE Pin
  BY <1>1, Pinning
<1>2. CASE Index
  BY <1>2, Indexing
<1>3. CASE List
  BY <1>3, Listing
<1>4. CASE Patch
  BY <1>4, Patching
<1>5. CASE Hash
  BY <1>5, Hashing
<1>6. CASE Finish
  BY <1>6, Finishing
<1>7. CASE \/ \E f \in RepoFiles : EditFile(f) \/ Delete(f)
           \/ \E p \in MayMove : Move(p)
           \/ StageAll \/ Commit \/ Restore \/ Grow
  <2>1. CollectionTypeOK
    BY DEF Inv
  <2> QED BY <1>7, <2>1, OthersDisturb, Disturbance
<1>8. CASE UNCHANGED colVars
  <2>1. /\ UNCHANGED <<colStage, mode, commits, tree, staged, conversation>>
        /\ UNCHANGED <<pin, got, seen, touches, raced, replaced>>
    BY <1>8 DEF colVars
  <2>2. CollectionTypeOK' /\ IgnoredNeverShown'
    BY <2>1 DEF Inv, CollectionTypeOK, IgnoredNeverShown
  <2>3. StrictEvidenceIsTheCommits' /\ PinnedHeadIsPure'
    BY <2>1 DEF Inv, StrictEvidenceIsTheCommits, PinnedHeadIsPure
  <2>4. StrictNow' /\ PinnedNow'
    BY <2>1 DEF Inv, StrictNow, PinnedNow, Known, InRange
  <2>5. UnracedNow'
    <3>1. SpecsOf(tree)' = SpecsOf(tree)
      BY <2>1 DEF SpecsOf
    <3> QED BY <2>1, <3>1 DEF Inv, UnracedNow
  <2>6. SeenAsRead'
    BY <2>1 DEF Inv, SeenAsRead
  <2> QED BY <2>2, <2>3, <2>4, <2>5, <2>6 DEF Inv
<1> QED BY <1>1, <1>2, <1>3, <1>4, <1>5, <1>6, <1>7, <1>8 DEF CollectionNext

-----------------------------------------------------------------------------
(* What a signature names.                                                 *)

\* Two readings that differ at most in the paths of P.
SameBut(c, d, P) ==
  /\ c.conversation = d.conversation /\ c.specs = d.specs /\ c.status = d.status /\ c.untracked = d.untracked
  /\ c.omitted = d.omitted /\ c.dropped = d.dropped /\ c.hashes = d.hashes
  /\ {x \in c.changed : x.path \notin P} = {x \in d.changed : x.path \notin P}
  /\ {x \in c.patch : x.path \notin P} = {x \in d.patch : x.path \notin P}

\* They are the same without those.
LEMMA Remaining ==
  ASSUME NEW c \in Readings, NEW d \in Readings, NEW P, SameBut(c, d, P)
  PROVE  Without(c, P) = Without(d, P)
<1>1. ASSUME NEW r \in Readings
      PROVE  Without(r, P) =
               [conversation |-> r.conversation, specs |-> r.specs, status |-> r.status,
                untracked |-> r.untracked, omitted |-> r.omitted,
                changed |-> {x \in r.changed : x.path \notin P}, dropped |-> r.dropped,
                patch |-> {x \in r.patch : x.path \notin P}, hashes |-> r.hashes]
  <2> DEFINE w == Without(r, P)
  <2>1. w \in Readings
    BY DEF Without, Readings
  <2>2. /\ w.conversation = r.conversation /\ w.specs = r.specs /\ w.status = r.status
        /\ w.untracked = r.untracked /\ w.omitted = r.omitted /\ w.dropped = r.dropped /\ w.hashes = r.hashes
        /\ w.changed = {x \in r.changed : x.path \notin P} /\ w.patch = {x \in r.patch : x.path \notin P}
    BY DEF Without, Readings
  <2> HIDE DEF w
  <2>3. w = [conversation |-> w.conversation, specs |-> w.specs, status |-> w.status,
             untracked |-> w.untracked, omitted |-> w.omitted, changed |-> w.changed,
             dropped |-> w.dropped, patch |-> w.patch, hashes |-> w.hashes]
    BY <2>1 DEF Readings
  <2>4. w = [conversation |-> r.conversation, specs |-> r.specs, status |-> r.status,
             untracked |-> r.untracked, omitted |-> r.omitted,
             changed |-> {x \in r.changed : x.path \notin P}, dropped |-> r.dropped,
             patch |-> {x \in r.patch : x.path \notin P}, hashes |-> r.hashes]
    BY <2>2, <2>3
  <2> QED BY <2>4 DEF w
<1> QED BY <1>1 DEF SameBut

\* Two undisturbed collections under one signature agree.
LEMMA SameSignature ==
  ASSUME NEW m \in Modes, NEW base \in VersionTrees, NEW head \in VersionTrees,
         NEW s \in VersionTrees, NEW y \in BOOLEAN, NEW v, NEW t \in VersionTrees, NEW z \in BOOLEAN, NEW w,
         SignatureOf(m, base, head, s, y, v) = SignatureOf(m, base, head, t, z, w)
  PROVE  v = w /\ Agree(m.current, base, head, s, y, t, z)
<1>1. m.current \in BOOLEAN
  BY CollectionAssumption
<1>2. /\ v = w /\ SignedOf(m.current, base, head, s, y) = SignedOf(m.current, base, head, t, z)
      /\ OmittedOf(m.current, head, s, y) = OmittedOf(m.current, head, t, z)
  BY DEF SignatureOf
<1> QED BY <1>1, <1>2 DEF Agree

\* And so they have read the same, apart from the preserved paths.
LEMMA SameContent ==
  ASSUME NEW m \in Modes, NEW base \in VersionTrees, NEW head \in VersionTrees,
         NEW s \in VersionTrees, NEW y \in BOOLEAN, NEW t \in VersionTrees, NEW z \in BOOLEAN, NEW words,
         Agree(m.current, base, head, s, y, t, z), NEW c \in Readings, NEW d \in Readings,
         c = ContentOf(m, base, head, s, y, words), d = ContentOf(m, base, head, t, z, words)
  PROVE  Without(c, Preserved(base, head)) = Without(d, Preserved(base, head))
<1> DEFINE P == Preserved(base, head)
           ChangedIn(now, a) == {x \in ChangedOf(m.current, base, head, now, a) : x.path \notin P}
           PatchIn(now, a) == {x \in PatchOf(m.current, base, head, now, a) : x.path \notin P}
<1>1. Agree(m.current, base, head, t, z, s, y)
  BY AgreeSym
<1>2. SpecsOf(s) = SpecsOf(t)
  BY SpecsAgree DEF SpecsOf
<1>3. OmittedOf(m.current, head, s, y) = OmittedOf(m.current, head, t, z)
  BY DEF Agree
<1>4. ChangedIn(s, y) = ChangedIn(t, z)
  <2>1. \A x \in ChangedOf(m.current, base, head, s, y) :
          x.path \notin P => x \in ChangedOf(m.current, base, head, t, z)
    BY ChangedAgree
  <2>2. \A x \in ChangedOf(m.current, base, head, t, z) :
          x.path \notin P => x \in ChangedOf(m.current, base, head, s, y)
    BY <1>1, ChangedAgree
  <2> QED BY <2>1, <2>2
<1>5. PatchIn(s, y) = PatchIn(t, z)
  <2>1. \A x \in PatchOf(m.current, base, head, s, y) :
          x.path \notin P => x \in PatchOf(m.current, base, head, t, z)
    BY PatchAgrees
  <2>2. \A x \in PatchOf(m.current, base, head, t, z) :
          x.path \notin P => x \in PatchOf(m.current, base, head, s, y)
    BY <1>1, PatchAgrees
  <2> QED BY <2>1, <2>2
<1>6. /\ c.conversation = words /\ c.specs = SpecsOf(s) /\ c.status = {} /\ c.untracked = {}
      /\ c.omitted = OmittedOf(m.current, head, s, y) /\ c.dropped = {} /\ c.hashes = {}
      /\ c.changed = ChangedOf(m.current, base, head, s, y) /\ c.patch = PatchOf(m.current, base, head, s, y)
  BY DEF ContentOf
<1>7. /\ d.conversation = words /\ d.specs = SpecsOf(t) /\ d.status = {} /\ d.untracked = {}
      /\ d.omitted = OmittedOf(m.current, head, t, z) /\ d.dropped = {} /\ d.hashes = {}
      /\ d.changed = ChangedOf(m.current, base, head, t, z) /\ d.patch = PatchOf(m.current, base, head, t, z)
  BY DEF ContentOf
<1>8. {x \in c.changed : x.path \notin P} = {x \in d.changed : x.path \notin P}
  BY <1>4, <1>6, <1>7
<1>9. {x \in c.patch : x.path \notin P} = {x \in d.patch : x.path \notin P}
  BY <1>5, <1>6, <1>7
<1>10. SameBut(c, d, P)
  <2> HIDE DEF P, ChangedIn, PatchIn
  <2> QED BY <1>2, <1>3, <1>6, <1>7, <1>8, <1>9 DEF SameBut
<1> QED BY <1>10, Remaining

\* Nor do they show two versions of those.
LEMMA SameVersions ==
  ASSUME NEW cur, NEW base, NEW head, NEW s, NEW y, NEW t, NEW z, Agree(cur, base, head, s, y, t, z),
         NEW a \in PatchOf(cur, base, head, s, y), FromTheTree(a, base, head),
         NEW b \in PatchOf(cur, base, head, t, z), FromTheTree(b, base, head), a.path = b.path
  PROVE  a.to = b.to
<1>1. Agree(cur, base, head, t, z, s, y)
  BY AgreeSym
<1>2. a.to = t[a.path]
  BY VersionShown
<1>3. b.to = t[b.path]
  BY <1>1, VersionShown
<1> QED BY <1>2, <1>3

\* The signature names what was read.
LEMMA SignedIsRead == ASSUME Inv PROVE SignatureNamesWhatWasRead
<1>1. ASSUME NEW s \in seen, NEW t \in seen, s.signature = t.signature, ~s.raced, ~t.raced
      PROVE  LET base == s.signature.base
                 head == s.signature.head
                 OfTheTree(c) == c.patch \ Sections(base, head, TRUE)
             IN /\ Without(s.content, Preserved(base, head)) = Without(t.content, Preserved(base, head))
                /\ \A x \in OfTheTree(s.content), y \in OfTheTree(t.content) : x.path = y.path => x.to = y.to
  <2> DEFINE base == commits[1]
             head == commits[s.head]
  <2>1. /\ base \in VersionTrees /\ head \in VersionTrees /\ commits[t.head] \in VersionTrees
        /\ s.mode \in Modes /\ t.mode \in Modes /\ s.content \in Readings /\ t.content \in Readings
    BY CommitsTyped DEF Inv, CollectionTypeOK
  <2>2. PICK n1 \in VersionTrees, z1 \in BOOLEAN, w1 \in Nat : ReadAt(s, commits[1], commits[s.head], n1, z1, w1)
    BY <1>1 DEF Inv, SeenAsRead
  <2>3. PICK n2 \in VersionTrees, z2 \in BOOLEAN, w2 \in Nat : ReadAt(t, commits[1], commits[t.head], n2, z2, w2)
    BY <1>1 DEF Inv, SeenAsRead
  <2>4. SignatureOf(s.mode, base, head, n1, z1, w1) = SignatureOf(t.mode, base, commits[t.head], n2, z2, w2)
    BY <1>1, <2>2, <2>3 DEF ReadAt
  <2>5. s.mode = t.mode /\ commits[t.head] = head
    BY <2>4 DEF SignatureOf
  <2> DEFINE m == s.mode
             cur == m.current
  <2>6. SignatureOf(m, base, head, n1, z1, w1) = SignatureOf(m, base, head, n2, z2, w2)
    BY <2>4, <2>5
  <2>7. /\ s.signature.base = base /\ s.signature.head = head
        /\ s.content = ContentOf(m, base, head, n1, z1, w1)
        /\ t.content = ContentOf(m, base, head, n2, z2, w2)
    BY <2>2, <2>3, <2>5 DEF ReadAt, SignatureOf
  <2>8. /\ s.content.patch = PatchOf(cur, base, head, n1, z1)
        /\ t.content.patch = PatchOf(cur, base, head, n2, z2)
    BY <2>7 DEF ContentOf
  <2> HIDE DEF base, head, m
  <2>9. w1 = w2 /\ Agree(cur, base, head, n1, z1, n2, z2)
    BY <2>1, <2>6, SameSignature DEF m
  <2>10. Without(s.content, Preserved(base, head)) = Without(t.content, Preserved(base, head))
    BY <2>1, <2>7, <2>9, SameContent DEF m
  <2>11. ASSUME NEW x \in s.content.patch \ Sections(base, head, TRUE),
                NEW y \in t.content.patch \ Sections(base, head, TRUE), x.path = y.path
         PROVE  x.to = y.to
    <3>1. /\ x \in PatchOf(cur, base, head, n1, z1) /\ FromTheTree(x, base, head)
          /\ y \in PatchOf(cur, base, head, n2, z2) /\ FromTheTree(y, base, head)
      BY <2>8 DEF FromTheTree
    <3> HIDE DEF cur
    <3> QED BY <2>9, <2>11, <3>1, SameVersions
  <2> QED BY <2>7, <2>10, <2>11
<1> QED BY <1>1 DEF SignatureNamesWhatWasRead

-----------------------------------------------------------------------------
(* The theorems.                                                           *)

\* The types are right and the invariant holds.
THEOREM Invariant == CollectionSpec => []Inv
  BY Starting, Stepping, PTL DEF CollectionSpec

\* What a review is built from shows no ignored file, is the commit's when it
\* is strict, is the range's when its head is pinned, and is what its
\* signature names, while others change the repository at any point of the
\* reading (src/collector/collect.ts, src/collector/git.ts).
THEOREM CollectionHolds == CollectionSpec => []CollectionIsTrue
<1>1. Inv => CollectionIsTrue
  BY SignedIsRead DEF Inv, CollectionIsTrue
<1> QED BY <1>1, Invariant, PTL
=============================================================================
