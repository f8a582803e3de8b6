-------------------------- MODULE AgreementVerdict --------------------------
(***************************************************************************)
(* What an agreement audit promises about audit.json, whoever writes it    *)
(* and however runs interleave or crash: a verdict may say that no         *)
(* mismatch was found only when its token had already been displayed by a  *)
(* published audit and an operator has asked for it by that token.         *)
(***************************************************************************)
CONSTANTS
  Verdicts,  \* every verdict that can be published
  None       \* no verdict, no token

VARIABLES
  displayed,  \* tokens that a published audit has shown
  asked,      \* tokens operators have passed to a run
  verdict     \* what audit.json says now

avars == <<displayed, asked, verdict>>

Justified(v) ==
  v.status = "no_mismatch_found" => v.token \in displayed \cap asked

AInit ==
  /\ displayed = {}
  /\ asked = {}
  /\ verdict = None

\* An operator can only pass a token that was displayed.
Ask(t) ==
  /\ t \in displayed
  /\ asked' = asked \cup {t}
  /\ UNCHANGED <<displayed, verdict>>

\* Publishing a verdict displays its token, if it offers one.
Publish ==
  /\ verdict' \in Verdicts
  /\ Justified(verdict')
  /\ displayed' = displayed \cup ({verdict'.token} \ {None})
  /\ UNCHANGED asked

\* A failed first publication leaves no verdict behind.
Withdraw ==
  /\ verdict' = None
  /\ UNCHANGED <<displayed, asked>>

ANext ==
  \/ \E t \in displayed : Ask(t)
  \/ Publish
  \/ Withdraw

ASpec == AInit /\ [][ANext]_avars
=============================================================================
