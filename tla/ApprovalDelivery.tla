--------------------------- MODULE ApprovalDelivery ---------------------------
(***************************************************************************)
(* What the way of a person's decision from the Host to a CLI promises,    *)
(* whatever is between them: an approval is decided once, what is          *)
(* delivered has been decided, what counts as acknowledged has been        *)
(* delivered, and the run waits until every approval is acknowledged.      *)
(***************************************************************************)

CONSTANT Approval

VARIABLES
  stage,    \* how far each approval has come
  phase     \* where the run is

STAGES == {"unasked", "open", "decided", "delivered", "acknowledged"}
PHASES == {"starting", "running", "waiting", "over"}

DeliveryTypeOK == stage \in [Approval -> STAGES] /\ phase \in PHASES

Comes(a, from, to) == stage[a] = from /\ stage' = [stage EXCEPT ![a] = to]

Start == phase = "starting" /\ phase' = "running" /\ UNCHANGED stage

\* The CLI asks; its run waits.
Ask(a) == phase \in {"running", "waiting"} /\ phase' = "waiting" /\ Comes(a, "unasked", "open")

\* One decision, durable before anything is sent.
Decide(a) == phase = "waiting" /\ Comes(a, "open", "decided") /\ UNCHANGED phase

\* The CLI is given it, once; the run may be over by then.
Deliver(a) == Comes(a, "decided", "delivered") /\ UNCHANGED phase

\* The CLI's word is kept.
Acknowledge(a) == Comes(a, "delivered", "acknowledged") /\ UNCHANGED phase

Resume ==
  /\ phase = "waiting" /\ \A a \in Approval : stage[a] \in {"unasked", "acknowledged"}
  /\ phase' = "running" /\ UNCHANGED stage

End == phase # "over" /\ phase' = "over" /\ UNCHANGED stage

Init == stage = [a \in Approval |-> "unasked"] /\ phase = "starting"

Next ==
  \/ Start \/ Resume \/ End
  \/ \E a \in Approval : Ask(a) \/ Decide(a) \/ Deliver(a) \/ Acknowledge(a)

Spec == Init /\ [][Next]_<<stage, phase>>
=============================================================================
