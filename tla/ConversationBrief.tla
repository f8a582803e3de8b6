------------------------- MODULE ConversationBrief -------------------------
(***************************************************************************)
(* What a reviewer is told of the conversation: its events are bounded to  *)
(* windows, a brief is read off them by rule, a provider's answer is       *)
(* checked against the events it cites and fills the brief up.             *)
(*                                                                         *)
(* Sections: "intent" and "refinements" must cite a user, "claims" an      *)
(* assistant, "decisions" any of them; the other sections of the code take *)
(* the rule of one of these.  An item is a text and the events it cites.   *)
(***************************************************************************)
EXTENDS Integers, Sequences, SequencesExt, FiniteSetsExt

CONSTANTS
  Utterances,    \* [actor, text, marks]: what may be said or happen
  MaxEvents,     \* bound on the length of a conversation
  MaxSelected,   \* events analysed
  UserBudget, UserHead, \* user messages kept first, and how many of them from the start
  ChunkSize,     \* events of one provider call
  MaxItems,      \* items of a section
  AnswerTexts    \* texts a provider may answer with

VARIABLES
  stage,   \* "talk", "ask", "reduce" or "done"
  events,  \* the conversation; the identifier of an event is its position
  partial, \* items the windows established, as answered and grounded
  brief    \* section -> items

vars == <<stage, events, partial, brief>>

Sections == {"intent", "refinements", "claims", "decisions"}
UserSections == {"intent", "refinements"}
Item(text, cites) == [text |-> text, cites |-> cites]
NoItems == [s \in Sections |-> <<>>]

LastItems(s, n) == IF n >= Len(s) THEN s ELSE SubSeq(s, Len(s) - n + 1, Len(s))
FirstItems(s, n) == SubSeq(s, 1, Min({n, Len(s)}))

-----------------------------------------------------------------------------
(* Windows *)

\* The first and the last user messages, then three windows, then the end.
SelectChronologicalWindows ==
  LET all == [i \in DOMAIN events |-> i]
      users == SelectSeq(all, LAMBDA i : events[i].actor = "user")
      priority == IF Len(users) <= UserBudget THEN ToSet(users)
                  ELSE ToSet(FirstItems(users, UserHead)) \cup ToSet(LastItems(users, UserBudget - UserHead))
      remaining == MaxSelected - Cardinality(priority)
      size == remaining \div 3
      middle == Max({size, (Len(events) - size) \div 2})
      windows == ToSet(FirstItems(all, size)) \cup {i \in DOMAIN events : i \in (middle + 1)..(middle + size)}
                 \cup ToSet(LastItems(all, remaining - 2 * size))
      chosen == priority \cup windows
      rest == SelectSeq(all, LAMBDA i : i \notin chosen)
  IN IF Len(events) <= MaxSelected THEN DOMAIN events
     ELSE chosen \cup ToSet(LastItems(rest, MaxSelected - Cardinality(chosen)))

Selected ==
  LET S == SelectChronologicalWindows
  IN [n \in 1..Cardinality(S) |-> CHOOSE x \in S : Cardinality({y \in S : y <= x}) = n]

\* The windows of one provider call each.
Chunks(selected) ==
  [k \in 1..((Len(selected) + ChunkSize - 1) \div ChunkSize) |->
     ToSet(SubSeq(selected, (k - 1) * ChunkSize + 1, Min({k * ChunkSize, Len(selected)})))]

-----------------------------------------------------------------------------
(* The brief by rule *)

IsAgent(i) == events[i].actor \in {"assistant", "tool"}

\* Adjacent copies of one message are one, unless the agent acted in between.
UniqueUserMessages ==
  LET Step(acc, i) ==
        IF events[i].actor # "user"
        THEN [acc EXCEPT !.previous = IF IsAgent(i) THEN "none" ELSE @]
        ELSE IF events[i].text = acc.previous THEN acc
        ELSE [unique |-> Append(acc.unique, i), previous |-> events[i].text]
  IN FoldLeft(Step, [unique |-> <<>>, previous |-> "none"], Selected).unique

Items(indexes) == [k \in DOMAIN indexes |-> Item(events[indexes[k]].text, {indexes[k]})]

\* Defect: the first items are kept.
MutCap(items) == FirstItems(items, MaxItems)

\* The first item and the latest ones.
Cap(items) ==
  IF Len(items) <= MaxItems THEN items ELSE <<items[1]>> \o LastItems(items, MaxItems - 1)

BuildDeterministicConversationBrief ==
  LET users == UniqueUserMessages
      Marked(i, marks) == events[i].marks \cap marks # {}
      later == IF users = <<>> THEN <<>> ELSE Tail(users)
      intent == FirstItems(users, 1) \o SelectSeq(later, LAMBDA i : Marked(i, {"correction"}))
      refinements == SelectSeq(later, LAMBDA i : Marked(i, {"correction", "constraint", "directive"}))
      claims == SelectSeq(Selected, LAMBDA i : events[i].actor = "assistant" /\ Marked(i, {"claim"}))
  IN [NoItems EXCEPT !.intent = Cap(Items(intent)), !.refinements = Cap(Items(refinements)),
                     !.claims = Cap(Items(claims))]

-----------------------------------------------------------------------------
(* The provider's answer *)

\* Events a section may cite.
CitationRoleIsCompatible(section, i) ==
  CASE section \in UserSections -> events[i].actor = "user"
    [] section = "claims" -> events[i].actor = "assistant"
    [] OTHER -> events[i].actor \in {"user", "assistant"}

\* Citations of events that were not given, or whose role does not fit, are removed,
\* and with the last of them the item.
Ground(items, allowed) ==
  [s \in Sections |->
     LET Kept(item) == {c \in item.cites : c \in allowed /\ CitationRoleIsCompatible(s, c)}
         grounded == [k \in DOMAIN items[s] |-> Item(items[s][k].text, Kept(items[s][k]))]
     IN SelectSeq(grounded, LAMBDA item : item.cites # {})]

Cited(items) == UNION {UNION {item.cites : item \in ToSet(items[s])} : s \in Sections}
IsAnalyzed(items) == Cited(items) # {}

\* What is not among the items already is added while there is room.
MergeItems(baseline, more) ==
  LET Step(items, item) ==
        IF Len(items) >= MaxItems \/ item \in ToSet(items) THEN items ELSE Append(items, item)
  IN FoldLeft(Step, Cap(baseline), more)

\* The user's own sequence stays first and whole.
MergeIntent(enrichment, baseline) ==
  IF baseline = <<>> THEN Cap(enrichment)
  ELSE baseline \o FirstItems(SelectSeq(enrichment, LAMBDA item : item \notin ToSet(baseline)),
                         Max({0, MaxItems - Len(baseline)}))

MergeConversationAnalysis(baseline, enrichment) ==
  IF ~IsAnalyzed(enrichment) THEN baseline
  ELSE [s \in Sections |->
          IF s = "intent" THEN MergeIntent(enrichment.intent, baseline.intent)
          ELSE MergeItems(baseline[s], enrichment[s])]

\* What a provider may return: one item, citing an event or none that there is.
Answers ==
  {[NoItems EXCEPT ![s] = <<Item(t, c)>>] :
     s \in Sections, t \in AnswerTexts, c \in {{0, i} : i \in 0..Len(events)}}

-----------------------------------------------------------------------------
Init ==
  /\ stage = "talk" /\ events = <<>> /\ partial = NoItems /\ brief = NoItems

Say ==
  /\ stage = "talk" /\ Len(events) < MaxEvents
  /\ \E u \in Utterances : events' = Append(events, u)
  /\ UNCHANGED <<stage, partial, brief>>

\* The brief by rule; without a provider it is the answer.
Prepare(mock) ==
  /\ stage = "talk" /\ events # <<>>
  /\ brief' = BuildDeterministicConversationBrief
  /\ stage' = IF mock THEN "done" ELSE "ask"
  /\ UNCHANGED <<events, partial>>

\* A conversation of one window is answered in one call, which may fail.
AskOnce ==
  /\ stage = "ask" /\ Len(Selected) <= ChunkSize /\ stage' = "done"
  /\ LET given == ToSet(Selected)
     IN \/ \E a \in Answers : brief' = MergeConversationAnalysis(brief, Ground(a, given))
        \/ UNCHANGED brief
  /\ UNCHANGED <<events, partial>>

\* A longer one is asked window by window; each call may fail or be ungrounded.
AskWindows ==
  /\ stage = "ask" /\ Len(Selected) > ChunkSize
  /\ LET chunks == Chunks(Selected)
     IN \E answered \in SUBSET DOMAIN chunks :
          LET given == UNION {chunks[k] : k \in answered}
          IN \E a \in Answers : partial' = Ground(a, given)
  /\ stage' = IF IsAnalyzed(partial') THEN "reduce" ELSE "done"
  /\ UNCHANGED <<events, brief>>

\* The windows' items are reduced over the events they cite.
Reduce ==
  /\ stage = "reduce" /\ stage' = "done"
  /\ LET given == Cited(partial)
     IN \/ \E a \in Answers : brief' = MergeConversationAnalysis(brief, Ground(a, given))
        \/ UNCHANGED brief
  /\ UNCHANGED <<events, partial>>

Next == Say \/ (\E mock \in BOOLEAN : Prepare(mock)) \/ AskOnce \/ AskWindows \/ Reduce

TypeOK ==
  /\ stage \in {"talk", "ask", "reduce", "done"} /\ Len(events) <= MaxEvents
  /\ \A s \in Sections : /\ Len(brief[s]) <= MaxItems
                         /\ \A item \in ToSet(brief[s]) : item.cites \subseteq DOMAIN events

-----------------------------------------------------------------------------
Texts(items) == {item.text : item \in ToSet(items)}
Users == {i \in DOMAIN events : events[i].actor = "user"}
Corrections == {i \in Users : "correction" \in events[i].marks}
FollowedBy(i) == Cardinality({j \in Users : j > i})

\* However long the conversation and whatever the provider answers, the goal a reviewer
\* is shown first is what the user said first, the user's last correction is among the
\* intent as long as few enough messages of the user follow it, and no intent or claim
\* is put in anybody's mouth: each cites an event of the one who may say it.
BriefIsTheUsers ==
  stage = "done" =>
    /\ Users # {} => brief.intent[1] = Item(events[Min(Users)].text, {Min(Users)})
    /\ Corrections # {} /\ FollowedBy(Max(Corrections)) < UserBudget - UserHead =>
         events[Max(Corrections)].text \in Texts(brief.intent)
    /\ \A s \in Sections : \A item \in ToSet(brief[s]) :
         item.cites # {} /\ \A c \in item.cites : CitationRoleIsCompatible(s, c)
=============================================================================
