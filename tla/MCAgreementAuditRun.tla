------------------------ MODULE MCAgreementAuditRun ------------------------
(***************************************************************************)
(* Three invocations over one output directory: enough for an audit, the   *)
(* confirmation of its ledgers, and a third run that interferes.  The      *)
(* inputs are two heads, and a conversation without a user turn.           *)
(***************************************************************************)
EXTENDS AgreementAuditRun, TLC

CONSTANTS p1, p2, p3

Symmetry == Permutations(Proc)

SomeInput(line) ==
  [scope |-> "complete", actor |-> [u1 |-> "user"], diff |-> {<<"add", line>>},
   command |-> [c \in {} |-> None]]

ToolOnly ==
  [scope |-> "complete", actor |-> [t1 |-> "tool"], diff |-> {<<"add", 1>>},
   command |-> [c \in {} |-> None]]

Answer(state, line) ==
  [goal |-> {"u1"}, complete |-> TRUE, limited |-> FALSE,
   agreements |->
     <<[key |-> "k1", kind |-> "human_instruction", statement |-> "s",
        state |-> state, events |-> {"u1"}, commands |-> {}, action |-> TRUE,
        citations |-> {[side |-> "add", line |-> line, quoted |-> TRUE]}]>>]

Full ==
  [complete |-> TRUE, missing |-> FALSE, limited |-> FALSE,
   dispositions |-> <<[event |-> "u1", disposition |-> "represented",
                       keys |-> {"k1"}, reason |-> FALSE]>>]

TwoInputs == {SomeInput(1), ToolOnly}
ThreeInputs == {SomeInput(1), SomeInput(2), ToolOnly}
TwoAnswers == {Answer("fulfilled", 1), Answer("diverged", 1)}
OneAnswer == {Answer("fulfilled", 1)}
OneCoverage == {Full}
=============================================================================
