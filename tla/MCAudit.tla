------------------------------- MODULE MCAudit -------------------------------
(***************************************************************************)
(* The audit of the method of work, an instance for MCInputs to compose: a *)
(* conversation that edits a file after its test, one that edits a file    *)
(* twice and speaks of options as often as the list has room for but one,  *)
(* one of a single event and an empty one; two models, a blocked run and   *)
(* an answer file.                                                         *)
(***************************************************************************)
EXTENDS MethodologyAudit

AuEvent(k, a, n, e, v, t, p) ==
  [kind |-> k, actor |-> a, names |-> n, edits |-> e, validates |-> v, test |-> t, passed |-> p, option |-> FALSE]
AuOption(e) == [e EXCEPT !.option = TRUE]
AuUser == AuEvent("message", "user", {"f"}, {}, FALSE, FALSE, FALSE)
AuEdit(f) == AuEvent("tool_call", "assistant", {f}, {f}, FALSE, FALSE, FALSE)
AuTest == AuEvent("tool_call", "assistant", {}, {}, TRUE, TRUE, TRUE)
AuResult == AuEvent("tool_result", "tool", {}, {}, TRUE, FALSE, FALSE)
AuConversations ==
  {<<AuUser, AuEdit("f"), AuTest, AuResult, AuEdit("g")>>, <<AuOption(AuUser), AuEdit("f"), AuOption(AuTest), AuEdit("f")>>,
   <<AuEdit("f")>>, <<>>}
AuChanged == {"f", "g"}

AuItem(x, ev, ps) == [text |-> x, events |-> ev, paths |-> ps, anchored |-> ev # <<>> \/ ps # {}, signal |-> "none"]
AuFlag(sg, x, ev, ps) == [AuItem(x, ev, ps) EXCEPT !.signal = sg]
AuQuiet == AuItem(0, <<>>, {})
AuAnswer(c, u, s, f, v, i) ==
  [considered |-> c, unchallenged |-> u, skipped |-> s, flags |-> f, soundness |-> v, verdict |-> i]
AuAnswers ==
  {AuAnswer(<<>>, <<>>, <<>>, <<>>, "none", AuQuiet),
   AuAnswer(<<>>, <<>>, <<>>, <<AuFlag("impl_no_test", 1, <<2>>, {"f"})>>, "none", AuQuiet),
   AuAnswer(<<>>, <<>>, <<>>, <<AuFlag("impl_no_test", 1, <<4>>, {"g"}), AuFlag("other", 1, <<2>>, {})>>, "none", AuQuiet),
   AuAnswer(<<>>, <<>>, <<AuItem(2, <<2>>, {}), AuItem(5, <<>>, {"h"})>>, <<>>, "unsound", AuItem(3, <<>>, {})),
   AuAnswer(<<AuItem(6, <<9>>, {})>>, <<AuItem(1, <<3, 99>>, {})>>, <<>>, <<>>, "questionable", AuItem(4, <<2>>, {})),
   AuAnswer(<<AuItem(6, <<2>>, {}), AuItem(7, <<1>>, {"f"})>>, <<>>, <<>>, <<>>, "sound", AuQuiet)}
AuGap(k, ev, h) == [kind |-> k, events |-> ev, how |-> h]
AuGaps ==
  {<<>>, <<AuGap("other", <<2>>, "unit")>>,
   <<AuGap("automatic", <<2, 3>>, "unit"), AuGap("manual", <<3>>, "unit")>>,
   <<AuGap("manual", <<3, 1>>, "integration"), AuGap("automatic", <<2, 99>>, "unit")>>,
   <<AuGap("manual", <<2, 3, 5>>, "unit")>>}
AuMode(p, s, b) == [provider |-> p, setting |-> s, blocked |-> b]
AuProviders ==
  {AuMode("ai-sdk", "m1", FALSE), AuMode("ai-sdk", "m2", FALSE), AuMode("ai-sdk", "m1", TRUE),
   AuMode("agent-file", "m1", TRUE)}
AuReplies == {{"audit"}, {"gaps"}}

AuditIdle ==
  /\ auditStage = "none" /\ run = AuMode("none", "none", FALSE) /\ talk = <<>> /\ replies = {}
  /\ chunks = <<>> /\ asked = 0 /\ outputs = <<>> /\ cache = {} /\ report = NoReport /\ gapReport = NoGaps
  /\ runs = 0
=============================================================================
