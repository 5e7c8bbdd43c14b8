------------------------- MODULE MCRedTeamCampaign -------------------------
(* Instances of RedTeamCampaign for TLC. *)
EXTENDS RedTeamCampaign, TLC

\* Slots and requests are interchangeable.
SlotAndRequestSymmetry == Permutations(Slots) \cup Permutations(Requests)

\* A first round leaves budget for a second, which then overdraws it.
SomeTokens ==
  [n \in 1 .. MaxRounds |-> [kind \in AnsweredKinds |->
     IF kind = "hit" THEN 3 ELSE IF n = 1 THEN 1 ELSE 2]]
=============================================================================
