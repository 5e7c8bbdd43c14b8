---------------------------- MODULE CampaignLoop ----------------------------
(***************************************************************************)
(* The adaptive campaign of a red-team attempt: the rounds it records, the *)
(* mutation phase it derives from them, where its loop stops and how it    *)
(* ends, and what an attempt that takes over from a crashed one rebuilds   *)
(* from the durable rounds.  RedTeamCampaign has the protocol around it.   *)
(*                                                                         *)
(* A round is the judge's verdict, the effectiveness in tenths and whether *)
(* the target call failed; strategies are chosen at random and prompts are *)
(* text, and neither decides how the campaign goes on.                     *)
(***************************************************************************)
EXTENDS Integers, Sequences, FiniteSets

CONSTANTS
  CampRounds,      \* CampaignBudget.max_rounds
  CampThreshold,   \* effectiveness_threshold, in tenths
  CampResults,     \* what a round may come to: verdict, score, failed
  MaxCampCrashes   \* bound on attempts that die

ASSUME CampaignLoopAssumption ==
  /\ CampRounds \in Nat /\ CampThreshold \in Nat /\ MaxCampCrashes \in Nat
  /\ CampResults \subseteq [verdict : {"SUCCESS", "FAILURE", "INCONCLUSIVE"},
                            score : 0..10, failed : BOOLEAN]

VARIABLES
  campAt,       \* "loop", "executed" (a round not yet recorded), "stopped" by a
                \* round, "spent" (out of rounds or time), "done"
  campaign,     \* its rounds, its phase, and whether a round met a stop condition
  campNext,     \* the round that has been executed
  campDurable,  \* red_team_rounds: the round of each number, or NoResult
  campState,    \* CampaignState
  campCrashes   \* attempts that died

campVars == <<campAt, campaign, campNext, campDurable, campState, campCrashes>>

NoResult == [verdict |-> "none", score |-> 0, failed |-> FALSE]
NewCampaign == [rounds |-> <<>>, phase |-> "exploration", stopped |-> FALSE]

CampInit ==
  /\ campAt = "loop" /\ campaign = NewCampaign /\ campNext = NoResult
  /\ campDurable = [n \in 1 .. CampRounds |-> NoResult]
  /\ campState = "running" /\ campCrashes = 0

-----------------------------------------------------------------------------
(* MutationStrategySelector *)

Verdicts(rounds, verdict) ==
  Cardinality({n \in DOMAIN rounds : rounds[n].verdict = verdict})

\* The trend of the last three rounds: one that is level counts as declining.
Improving(rounds) == rounds[Len(rounds)].score > rounds[Len(rounds) - 2].score

\* recommend_phase_transition, applied.  Verdicts are those of the whole
\* campaign, the trend that of its last three rounds; nothing leads to the
\* third phase, "adaptive".
PhaseAfter(rounds, phase) ==
  CASE Len(rounds) < 3 -> phase
    [] phase = "exploration" /\ Len(rounds) >= 5
         /\ (Verdicts(rounds, "SUCCESS") >= 2 \/ ~Improving(rounds)) -> "exploitation"
    [] phase = "exploitation" /\ Len(rounds) >= 3
         /\ (Verdicts(rounds, "FAILURE") >= 2 \/ ~Improving(rounds)) -> "exploration"
    [] OTHER -> phase

-----------------------------------------------------------------------------
(* AdaptiveCampaignEngine *)

\* The threshold is met, or three target calls in a row have failed.
ShouldStopEarly(rounds) ==
  LET last == rounds[Len(rounds)] IN
  \/ last.score >= CampThreshold
  \/ Len(rounds) >= 3 /\ \A n \in Len(rounds) - 2 .. Len(rounds) : rounds[n].failed

\* Seeded slip: a replayed round does not move the phase.
Mut_ReplayedKeepsPhase(c, round) ==
  LET rounds == Append(c.rounds, round) IN
  IF c.stopped THEN c
  ELSE [rounds |-> rounds, phase |-> c.phase, stopped |-> ShouldStopEarly(rounds)]

\* The replay records a durable round like the loop records a new one.
Replay(c, round) ==
  LET rounds == Append(c.rounds, round) IN
  CASE c.stopped -> c
    [] ~c.stopped /\ ShouldStopEarly(rounds) -> [c EXCEPT !.rounds = rounds, !.stopped = TRUE]
    [] OTHER -> [c EXCEPT !.rounds = rounds, !.phase = PhaseAfter(rounds, c.phase)]

\* _load_durable_rounds and the loop over them: by number, whatever numbers
\* are missing.
Replayed ==
  LET upTo[n \in 0 .. CampRounds] ==
        IF n = 0 THEN NewCampaign
        ELSE IF campDurable[n] = NoResult THEN upTo[n - 1]
        ELSE Replay(upTo[n - 1], campDurable[n])
  IN  upTo[CampRounds]

\* can_continue, but for the duration, which may be exceeded whenever it is
\* asked; tokens and cost are sums over the rounds and limited likewise.
RoundsLeft == Len(campaign.rounds) < CampRounds

\* _execute_round: a round whose target call failed is not checkpointed.
ExecuteRound(result) ==
  /\ campAt = "loop" /\ RoundsLeft
  /\ campNext' = result /\ campAt' = "executed"
  /\ campDurable' = IF result.failed THEN campDurable
                    ELSE [campDurable EXCEPT ![Len(campaign.rounds) + 1] = result]
  /\ UNCHANGED <<campaign, campState, campCrashes>>

RecordRound ==
  /\ campAt = "executed"
  /\ LET rounds == Append(campaign.rounds, campNext) IN
     IF ShouldStopEarly(rounds)
     THEN /\ campaign' = [campaign EXCEPT !.rounds = rounds, !.stopped = TRUE]
          /\ campAt' = "stopped"
     ELSE /\ campaign' = [campaign EXCEPT !.rounds = rounds,
                                          !.phase = PhaseAfter(rounds, @)]
          /\ campAt' = "loop"
  /\ campNext' = NoResult
  /\ UNCHANGED <<campDurable, campState, campCrashes>>

EndLoop ==
  /\ campAt = "loop" /\ campAt' = "spent"
  /\ UNCHANGED <<campaign, campNext, campDurable, campState, campCrashes>>

\* The budget is asked once more: a campaign that stopped on its last round,
\* or has run out of time since, counts as exhausted.
Conclude ==
  /\ campAt \in {"stopped", "spent"} /\ campAt' = "done"
  /\ \/ campState' = "budget_exhausted"
     \/ campAt = "stopped" /\ RoundsLeft /\ campState' = "completed"
  /\ UNCHANGED <<campaign, campNext, campDurable, campCrashes>>

\* A cancellation found before or after a target call gives the round up; one
\* found behind the loop overrides its outcome.
CancelCampaign ==
  /\ campAt \in {"loop", "stopped", "spent"}
  /\ campAt' = "done" /\ campState' = "cancelled"
  /\ UNCHANGED <<campaign, campNext, campDurable, campCrashes>>

\* A scenario, a mutation or an evaluation that raises.
FailCampaign ==
  /\ campAt = "loop" /\ RoundsLeft /\ campAt' = "done" /\ campState' = "failed"
  /\ UNCHANGED <<campaign, campNext, campDurable, campCrashes>>

\* The attempt dies before its run is terminal, or cannot store a round: the
\* next one replays the durable rounds, goes on behind them even if they met
\* the threshold, and has its whole duration before it.
ResumeCampaign ==
  /\ campState # "cancelled"
  /\ campCrashes < MaxCampCrashes /\ campCrashes' = campCrashes + 1
  /\ campaign' = Replayed
  /\ campAt' = "loop" /\ campNext' = NoResult
  /\ campState' = "running" /\ UNCHANGED campDurable

CampNext ==
  \/ \E result \in CampResults : ExecuteRound(result)
  \/ RecordRound \/ EndLoop \/ Conclude \/ CancelCampaign \/ FailCampaign
  \/ ResumeCampaign

CampSpec == CampInit /\ [][CampNext]_campVars

-----------------------------------------------------------------------------
(* Properties. *)

CampTypeOK ==
  /\ campAt \in {"loop", "executed", "stopped", "spent", "done"}
  /\ campaign.rounds \in Seq(CampResults) /\ Len(campaign.rounds) <= CampRounds
  /\ campaign.phase \in {"exploration", "exploitation"} /\ campaign.stopped \in BOOLEAN
  /\ campDurable \in [1 .. CampRounds -> CampResults \cup {NoResult}]
  /\ campState \in {"running", "completed", "budget_exhausted", "cancelled", "failed"}

\* No round of this campaign or of an earlier attempt had a failed target call,
\* and none was executed behind one that met the threshold.
Undisturbed ==
  LET n == Len(campaign.rounds) IN
  /\ \A i \in 1 .. n : ~campaign.rounds[i].failed /\ campDurable[i] # NoResult
  /\ \A i \in 1 .. n - 1 : campaign.rounds[i].score < CampThreshold
  /\ campAt # "executed" => \A i \in n + 1 .. CampRounds : campDurable[i] = NoResult

\* Whenever an attempt may die, its successor rebuilds the campaign it died
\* in: the rounds in their order, the phase the next strategy is chosen in
\* and whether the campaign was over, after any number of attempts; a round
\* that was stored and not yet recorded is all it may add.
ReplayRebuildsCampaign ==
  Undisturbed /\ campAt \in {"loop", "stopped", "spent"} => Replayed = campaign
=============================================================================
