----------------------------- MODULE CanarySteps -----------------------------
(***************************************************************************)
(* What a canary rollout promises to the user who edits it, with no word   *)
(* of ReplicaSets, snapshots, passes or conflicts.                         *)
(*                                                                         *)
(* The user wants a template, and a plan of steps to get there.  The       *)
(* rollout is on its way to a template, at a step of the plan it has       *)
(* adopted, or waits at a pause of that plan.  The wanted template becomes *)
(* stable, and nothing else does.  CanaryRollout implements this, with one *)
(* write of the status for each step taken here (see ImplementsSteps).     *)
(***************************************************************************)
EXTENDS CanaryMath

CONSTANTS
    Templates,      \* the pod templates
    StepPlans       \* the plans: sequences of steps

VARIABLES
    wanted, plan,   \* what the user asks for
    stable,         \* the template that is fully rolled out, or Nil
    current,        \* the template the rollout is on its way to, or Nil
    adopted,        \* the plan it follows, or Nil
    index,          \* its position in that plan, or NoIndex
    waiting         \* whether it waits at a pause

vars == <<wanted, plan, stable, current, adopted, index, waiting>>

\* Before the first step, and past the last one, of a plan.
First(p) == IF p = <<>> THEN NoIndex ELSE 0
Past(p)  == IF p = <<>> THEN NoIndex ELSE Len(p)

-----------------------------------------------------------------------------
\* Nothing has been rolled out, or the wanted template has.
Init ==
    /\ wanted \in Templates /\ plan \in StepPlans
    /\ waiting = FALSE
    /\ \/ stable = Nil /\ current = Nil /\ adopted = Nil /\ index = NoIndex
       \/ stable = wanted /\ current = wanted /\ adopted = plan /\ index = Past(plan)

\* The user changes the template, the steps, or neither (the size).
Ask ==
    /\ wanted' \in Templates /\ plan' \in StepPlans
    /\ UNCHANGED <<stable, current, adopted, index, waiting>>

\* The rollout adopts what the user wants now: from the first step on, or past
\* the last one when the wanted template is stable already.
Adopt ==
    /\ current # wanted \/ adopted # plan
    /\ current' = wanted /\ adopted' = plan
    /\ \/ index' = First(plan)
       \/ stable = wanted /\ index' = Past(plan)
    /\ waiting' = FALSE
    /\ UNCHANGED <<wanted, plan, stable>>

UpToDate == current = wanted /\ adopted = plan

AtStep  == adopted # Nil /\ index \in 0..(Len(adopted) - 1)
AtPause == AtStep /\ adopted[index + 1].pause

\* The rollout waits at a pause of its plan, and nowhere else.
Wait ==
    /\ UpToDate /\ AtPause
    /\ waiting' = TRUE
    /\ UNCHANGED <<wanted, plan, stable, current, adopted, index>>

\* One step is done, and the next one begins.
TakeStep ==
    /\ UpToDate /\ AtStep
    /\ index' = index + 1
    /\ waiting' = FALSE
    /\ UNCHANGED <<wanted, plan, stable, current, adopted>>

\* The wanted template is rolled out for good.
Promote ==
    /\ UpToDate
    /\ stable' = wanted
    /\ index' = Past(plan)
    /\ waiting' = FALSE
    /\ UNCHANGED <<wanted, plan, current, adopted>>

\* The user ends the wait, with or without a word on the size.
Resume ==
    /\ waiting /\ waiting' = FALSE
    /\ UNCHANGED <<wanted, plan, stable, current, adopted, index>>

Next == Ask \/ Adopt \/ Wait \/ TakeStep \/ Promote \/ Resume

Spec == Init /\ [][Next]_vars
=============================================================================
