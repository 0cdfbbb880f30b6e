-------------------------- MODULE ApprovalChannel --------------------------
(***************************************************************************)
(* What the approval path promises, whatever locks and wakeups it is made  *)
(* of: every plan that asks for approval gets one decision, the decision   *)
(* never changes, and the run that asked is handed exactly that decision.  *)
(***************************************************************************)
CONSTANTS Plans, Decisions

VARIABLES
  stage,      \* how far each plan's question has come
  decision    \* the decision on it, "None" before there is one

channelVars == <<stage, decision>>

ChannelTypeOK ==
  /\ stage \in [Plans -> {"unasked", "open", "decided", "delivered"}]
  /\ decision \in [Plans -> Decisions \cup {"None"}]

ChannelInit ==
  /\ stage = [p \in Plans |-> "unasked"]
  /\ decision = [p \in Plans |-> "None"]

\* A run puts a plan before the operators.
Ask(p) ==
  /\ stage[p] = "unasked"
  /\ stage' = [stage EXCEPT ![p] = "open"]
  /\ UNCHANGED decision

\* The first operator to answer decides.
Decide(p, d) ==
  /\ stage[p] = "open"
  /\ stage' = [stage EXCEPT ![p] = "decided"]
  /\ decision' = [decision EXCEPT ![p] = d]

\* The run gets the decision and goes on.
Deliver(p) ==
  /\ stage[p] = "decided"
  /\ stage' = [stage EXCEPT ![p] = "delivered"]
  /\ UNCHANGED decision

ChannelNext ==
  \E p \in Plans : Ask(p) \/ Deliver(p) \/ \E d \in Decisions : Decide(p, d)

ChannelSpec == ChannelInit /\ [][ChannelNext]_channelVars

\* A decision that was taken is delivered.
ChannelFairSpec == ChannelSpec /\ \A p \in Plans : WF_channelVars(Deliver(p))

=============================================================================
