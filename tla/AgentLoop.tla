----------------------------- MODULE AgentLoop -----------------------------
(***************************************************************************)
(* AgentLoop.execute: the model is asked, the tools it calls are run one   *)
(* after the other, their results join the conversation, and the model is  *)
(* asked again, until it answers, the steps are used up, something raises  *)
(* or another thread sets the cancel event.  A recorder may follow along.  *)
(***************************************************************************)
EXTENDS Integers, FiniteSets, SequencesExt

CONSTANTS
  MaxSteps,    \* AgentLoopConfig.max_steps
  MaxBatch     \* bound: tool calls in one response of the model

ASSUME AgentLoopAssumption == MaxSteps \in Nat \ {0} /\ MaxBatch \in Nat \ {0}

VARIABLES
  loopTools,     \* tools are registered and the provider supports them
  loopRecorded,  \* a TrajectoryRecorder was passed
  loopAt,        \* head, llm, batch, tool or done
  loopBatch,     \* tool calls of the last response still to run
  loopSent,      \* messages after the user's: "calls", "result", "error"
  loopSteps, loopLlm, loopToolRuns,   \* the counters
  loopCancel,    \* cancel_event
  loopLate,      \* model and tool calls begun with the event already set
  loopEnd,       \* status of the result
  loopTrail,     \* the recorder's steps: "llm", "result", "blank", "answer"
  loopStatus     \* the recorder's status

loopVars == <<loopTools, loopRecorded, loopAt, loopBatch, loopSent, loopSteps, loopLlm,
              loopToolRuns, loopCancel, loopLate, loopEnd, loopTrail, loopStatus>>

LoopInit ==
  /\ loopTools \in BOOLEAN /\ loopRecorded \in BOOLEAN
  /\ loopAt = "head" /\ loopBatch = <<>> /\ loopSent = <<>>
  /\ loopSteps = 0 /\ loopLlm = 0 /\ loopToolRuns = 0
  /\ loopCancel = FALSE /\ loopLate = 0 /\ loopEnd = "none"
  /\ loopTrail = <<>> /\ loopStatus = "completed"

\* The arguments of a call are proper JSON or not.
Batches == BoundedSeq({"proper", "malformed"}, MaxBatch) \ {<<>>}

----------------------------------------------------------------------------

\* Seeded slip: running out of steps is not told to the recorder.
Mut_StatusOnEnd(status) ==
  IF loopRecorded /\ status \in {"failed", "cancelled"} THEN status ELSE loopStatus

\* The recorder keeps its first status, "completed", unless told another.
StatusOnEnd(status) ==
  IF loopRecorded /\ status # "completed" THEN status ELSE loopStatus

End(status) ==
  loopAt' = "done" /\ loopEnd' = status /\ loopStatus' = StatusOnEnd(status)

GoOn(at) == loopAt' = at /\ UNCHANGED <<loopEnd, loopStatus>>

Record(step) == loopTrail' = IF loopRecorded THEN Append(loopTrail, step) ELSE loopTrail

Late == loopLate' = loopLate + (IF loopCancel THEN 1 ELSE 0)

\* while step_count < max_steps
StepsLeft == loopSteps < MaxSteps

\* The head of the loop, up to the request it sends to the provider.
LoopTop ==
  /\ loopAt = "head"
  /\ CASE ~StepsLeft -> End("max_steps_reached") /\ UNCHANGED loopLate
       [] StepsLeft /\ loopCancel -> End("cancelled") /\ UNCHANGED loopLate
       [] OTHER -> GoOn("llm") /\ Late
  /\ UNCHANGED <<loopTools, loopRecorded, loopBatch, loopSent, loopSteps, loopLlm,
                 loopToolRuns, loopCancel, loopTrail>>

ProviderRaises ==
  /\ loopAt = "llm" /\ End("failed")
  /\ UNCHANGED <<loopTools, loopRecorded, loopBatch, loopSent, loopSteps, loopLlm,
                 loopToolRuns, loopCancel, loopLate, loopTrail>>

FinalAnswer ==
  /\ loopAt = "llm" /\ End("completed") /\ loopLlm' = loopLlm + 1
  /\ loopTrail' = IF loopRecorded THEN loopTrail \o <<"llm", "answer">> ELSE loopTrail
  /\ UNCHANGED <<loopTools, loopRecorded, loopBatch, loopSent, loopSteps, loopToolRuns,
                 loopCancel, loopLate>>

\* The recorder's copy of the calls parses the arguments before anything is
\* recorded; without one they are parsed, leniently, as each tool is run.
ToolsCalled(batch) ==
  /\ loopAt = "llm" /\ loopTools /\ loopLlm' = loopLlm + 1
  /\ IF loopRecorded /\ Contains(batch, "malformed")
     THEN End("failed") /\ UNCHANGED <<loopBatch, loopSent, loopTrail>>
     ELSE /\ GoOn("batch") /\ loopBatch' = batch /\ Record("llm")
          /\ loopSent' = Append(loopSent, "calls")
  /\ UNCHANGED <<loopTools, loopRecorded, loopSteps, loopToolRuns, loopCancel, loopLate>>

ToolStarts ==
  /\ loopAt = "batch" /\ loopBatch # <<>> /\ GoOn("tool") /\ Late
  /\ loopSteps' = loopSteps + 1 /\ loopToolRuns' = loopToolRuns + 1
  /\ UNCHANGED <<loopTools, loopRecorded, loopBatch, loopSent, loopLlm, loopCancel, loopTrail>>

\* Seeded slip: a cancellation is noticed at the head of the loop only.
Mut_AfterTool == GoOn(IF Len(loopBatch) = 1 THEN "head" ELSE "batch")

\* Seeded slip: the end of the batch is missed.
Mut_BatchForever == IF loopCancel THEN End("cancelled") ELSE GoOn("batch")

AfterTool ==
  IF loopCancel THEN End("cancelled")
  ELSE GoOn(IF Len(loopBatch) = 1 THEN "head" ELSE "batch")

\* ToolExecutionResult.result of a failed tool is empty; the model is sent
\* its error instead.
ToolRecord(outcome) == Record(IF outcome = "error" THEN "blank" ELSE outcome)

\* SafeToolExecutor.execute: an unknown tool, a missing argument and an
\* exception are an error like any other; arguments that do not parse are
\* replaced by none.
ToolReturns(outcome) ==
  /\ loopAt = "tool" /\ outcome \in {"result", "error"}
  /\ ToolRecord(outcome) /\ loopSent' = Append(loopSent, outcome)
  /\ loopBatch' = Tail(loopBatch) /\ AfterTool
  /\ UNCHANGED <<loopTools, loopRecorded, loopSteps, loopLlm, loopToolRuns, loopCancel, loopLate>>

\* The thread that watches for a cancellation.
CancelSet ==
  /\ ~loopCancel /\ loopAt # "done" /\ loopCancel' = TRUE
  /\ UNCHANGED <<loopTools, loopRecorded, loopAt, loopBatch, loopSent, loopSteps, loopLlm,
                 loopToolRuns, loopLate, loopEnd, loopTrail, loopStatus>>

LoopStep ==
  \/ LoopTop \/ ProviderRaises \/ FinalAnswer \/ ToolStarts
  \/ \E batch \in Batches : ToolsCalled(batch)
  \/ \E outcome \in {"result", "error"} : ToolReturns(outcome)

LoopNext == LoopStep \/ CancelSet

\* A call of the provider ends, by its timeout if need be, and so does a
\* tool; nothing makes anyone cancel.
LoopSpec == LoopInit /\ [][LoopNext]_loopVars /\ WF_loopVars(LoopStep)

----------------------------------------------------------------------------
(* Properties.                                                             *)

LoopTypeOK ==
  /\ loopAt \in {"head", "llm", "batch", "tool", "done"}
  /\ loopEnd \in {"none", "completed", "failed", "cancelled", "max_steps_reached"}
  /\ (loopAt = "done") = (loopEnd # "none")
  /\ loopAt \in {"batch", "tool"} => loopBatch # <<>>

\* AgentExecutor: the cancel event ends the loop "at the next safe boundary
\* (before LLM call or after tool execution)": once it is set the model is
\* not asked again and at most one more tool is begun, that of a response
\* that was under way or of a batch between two tools.
CancelHeeded == loopLate <= 1

\* How many of the steps, or messages, are of these kinds.
CountOf(steps, kinds) == Cardinality({i \in DOMAIN steps : steps[i] \in kinds})

\* The trajectory of a run that did not fail counts what its result counts,
\* has its status, holds an answer when the run completed and a step for
\* every tool message the model was sent.
TrajectoryAgrees ==
  loopRecorded /\ loopAt = "done" =>
    /\ loopStatus = loopEnd
    /\ loopEnd # "failed" =>
         /\ CountOf(loopTrail, {"llm"}) = loopLlm
         /\ CountOf(loopTrail, {"result", "blank"}) = loopToolRuns
         /\ CountOf(loopSent, {"result", "error"}) = loopToolRuns
         /\ (CountOf(loopTrail, {"answer"}) = 1) = (loopEnd = "completed")

\* Once the model has been asked the loop ends, whatever the model asks for
\* and the tools return.
LoopEnds == loopAt = "llm" ~> loopAt = "done"
=============================================================================
