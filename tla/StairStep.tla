------------------------------- MODULE StairStep -------------------------------
(***************************************************************************)
(* The advancement policy of src/src/durable-run/stair-step.ts: how an     *)
(* observed milestone becomes a receipt, and whether the activation goes   *)
(* on after it.  A piece of progress evidence is a model value; the digest *)
(* of an observation's progress is told by the sequence of its evidence in *)
(* canonical order, so an item listed twice makes another digest.          *)
(***************************************************************************)
EXTENDS Naturals, Sequences

(* materializeStairStepPolicy *)
ValidPolicy(policy) ==
  /\ policy.advancement \in {"continuous", "checkpoint"}
  /\ policy.maxNoProgressMilestones \in 1..policy.maxMilestones
  /\ policy.pauseOn \subseteq {"authority-expansion", "irreversible-effect",
        "high-cost-ambiguity", "verification-failure", "no-progress"}

(* Mutant of madeProgress: any progress evidence counts as new.            *)
AnyProgress(observation, milestones) == observation.progress # <<>>

madeProgress(observation, milestones) ==
  /\ observation.progress # <<>>
  /\ \A i \in DOMAIN milestones : milestones[i].progress # observation.progress

(* The streak goes on from the last receipt.                               *)
noProgressMilestones(observation, milestones) ==
  IF madeProgress(observation, milestones) THEN 0
  ELSE 1 + (IF milestones = <<>> THEN 0
            ELSE milestones[Len(milestones)].noProgress)

(* An observation the policy rejects makes no receipt.                     *)
Acceptable(policy, observation, milestones) ==
  /\ Len(milestones) + 1 <= policy.maxMilestones
  /\ observation.verified
  /\ policy.requireVisibleArtifact => observation.artifact

Pauses(policy, observation, milestones) ==
  \/ observation.signal \in policy.pauseOn \ {"verification-failure", "no-progress"}
  \/ /\ noProgressMilestones(observation, milestones) >= policy.maxNoProgressMilestones
     /\ "no-progress" \in policy.pauseOn

NextDecision(policy, observation, milestones) ==
  CASE Pauses(policy, observation, milestones) -> "pause"
    [] ~Pauses(policy, observation, milestones) /\ observation.stop -> "complete"
    [] OTHER -> IF observation.revise THEN "revise" ELSE "advance"

evaluateStairStepMilestone(policy, observation, milestones) ==
  [step |-> Len(milestones) + 1, artifact |-> observation.artifact,
   interaction |-> observation.interaction, progress |-> observation.progress,
   noProgress |-> noProgressMilestones(observation, milestones),
   nextDecision |-> NextDecision(policy, observation, milestones)]

(* "continue", or the reason to yield.                                     *)
decideStairStepAdvancement(policy, receipt, inActivation, activationLimit) ==
  CASE receipt.nextDecision = "pause" -> "policy-pause"
    [] receipt.nextDecision = "complete" -> "complete"
    [] receipt.nextDecision \in {"advance", "revise"} ->
         IF "checkpoint" \in {policy.advancement, receipt.interaction} THEN "checkpoint"
         ELSE IF inActivation >= activationLimit THEN "activation-limit"
         ELSE "continue"

==============================================================================
