---------------------------- MODULE Definitions ----------------------------
(***************************************************************************)
(* The saved definitions of a project: evaluations, agents or experiments, *)
(* which share one pattern.  A request reads the row into an entity, asks  *)
(* the entity whether the operation is allowed, and saves it with          *)
(* Session.merge, which reads the row again (the session's identity map is *)
(* weak and the first row is released by then) and marks the columns that  *)
(* differ; the flush writes those.  No lock is held before the flush and   *)
(* no version compared.  Where the flush comes with the commit they are    *)
(* one step here.  A created evaluation or agent is flushed before the     *)
(* answer and committed behind it: until then nobody sees it, and a writer *)
(* of the same name waits.                                                 *)
(***************************************************************************)
EXTENDS Naturals, FiniteSets

CONSTANTS
  DefIds,             \* identifiers of definitions, given out once, in order
  DefNames,           \* names within the project
  DefRequests,        \* requests in progress at a time
  MaxDefRequests,     \* bound: requests ever accepted
  OrgIsProject        \* the table of projects has a row with the id of the
                      \* organization; the program never makes one

ASSUME DefinitionsAssumption ==
  DefIds \subseteq Nat /\ MaxDefRequests \in Nat /\ OrgIsProject \in BOOLEAN

VARIABLES
  defKind,   \* which of the three definitions the rows are
  defRow,    \* the table
  defRuns,   \* the definitions that evaluation runs refer to
  defUsed,   \* identifiers generated
  defReq,    \* the requests and what each has read
  defCount   \* requests accepted

defVars == <<defKind, defRow, defRuns, defUsed, defReq, defCount>>

Keep == "unchanged"
NoRow == [status |-> "none", name |-> Keep, version |-> 0]
NoReq == [at |-> "idle"]

Operation(from, to) == [from |-> from, to |-> to]

\* Evaluation: the statuses each operation accepts, and the one it sets.
EvaluationRules ==
  [update    |-> Operation({"draft"}, Keep),
   ready     |-> Operation({"draft"}, "ready"),
   archive   |-> Operation({"draft", "ready"}, "archived"),
   delete    |-> Operation({"draft", "ready"}, "none")]

\* AgentDefinition; nothing calls mark_error.
AgentRules ==
  [update     |-> Operation({"active", "inactive"}, Keep),
   activate   |-> Operation({"inactive"}, "active"),
   deactivate |-> Operation({"active"}, "inactive"),
   archive    |-> Operation({"active", "inactive"}, "archived"),
   delete     |-> Operation({"active", "inactive"}, "none")]

\* Experiment and ExperimentService.delete_experiment
ExperimentRules ==
  [update       |-> Operation({"draft", "active"}, Keep),
   activate     |-> Operation({"draft"}, "active"),
   complete     |-> Operation({"active"}, "completed"),
   archive      |-> Operation({"draft", "active", "completed"}, "archived"),
   set_baseline |-> Operation({"draft", "active", "completed", "archived"}, Keep),
   delete       |-> Operation({"draft", "active"}, "none")]

Rules == [evaluation |-> EvaluationRules, agent |-> AgentRules,
          experiment |-> ExperimentRules][defKind]

FirstStatus == IF defKind = "agent" THEN "active" ELSE "draft"

\* Seeded slip: the entity allows every operation.
Mut_AllowedAlways(op, status) == TRUE

\* The guard of the entity's method.
Allowed(op, status) == status \in Rules[op].from

\* The entity an allowed operation leaves.  A loaded entity starts at
\* version 1 whatever the row says, and each operation adds one.
Changed(op, row, name) ==
  [status  |-> IF Rules[op].to = Keep THEN row.status ELSE Rules[op].to,
   name    |-> IF name = Keep THEN row.name ELSE name,
   version |-> 2]

DefInit ==
  /\ defKind \in {"evaluation", "agent", "experiment"}
  /\ defRow = [d \in DefIds |-> NoRow] /\ defRuns = {} /\ defUsed = {}
  /\ defReq = [r \in DefRequests |-> NoReq] /\ defCount = 0

----------------------------------------------------------------------------
(* A request, from its first read to the entity it will save.              *)

Accepted(r) ==
  /\ defReq[r].at \in {"idle", "done"} /\ defCount < MaxDefRequests
  /\ defCount' = defCount + 1

Set(r, req) == defReq' = [defReq EXCEPT ![r] = req]

Finished(op, d, answer) == [at |-> "done", op |-> op, id |-> d, answer |-> answer]

\* `saved` is the entity of a method that was allowed; `seen` the row it
\* was loaded from.
Saving(op, d, seen, saved) ==
  [at |-> "saving", op |-> op, id |-> d, seen |-> seen, saved |-> saved]

Checking(op, d, seen, saved) ==
  [Saving(op, d, seen, saved) EXCEPT !.at = "checking"]

NewRow(name) == [status |-> FirstStatus, name |-> name, version |-> 1]

FreshId(d) ==
  /\ d \notin defUsed /\ \A e \in DefIds \ defUsed : d <= e
  /\ defUsed' = defUsed \cup {d}

\* The name is looked up first.
CreateDefinition(r, d, name) ==
  /\ Accepted(r) /\ FreshId(d)
  /\ Set(r, Checking("create", d, NoRow, NewRow(name)))
  /\ UNCHANGED <<defKind, defRow, defRuns>>

\* Duplicating reads the source; the copy starts as a new definition.
DuplicateDefinition(r, source, d, name) ==
  /\ defKind = "evaluation"
  /\ Accepted(r) /\ source \in defUsed
  /\ IF defRow[source] = NoRow
     THEN Set(r, Finished("duplicate", source, "not_found")) /\ UNCHANGED defUsed
     ELSE FreshId(d) /\ Set(r, Checking("create", d, NoRow, NewRow(name)))
  /\ UNCHANGED <<defKind, defRow, defRuns>>

\* Load the row; refuse, look the new name up, or go on to save.
Operate(r, op, d, name, checksName) ==
  LET row == defRow[d]
      entity == Changed(op, row, name) IN
  /\ Accepted(r) /\ d \in defUsed
  /\ Set(r, CASE row = NoRow -> Finished(op, d, "not_found")
              [] row # NoRow /\ checksName -> Checking(op, d, row, entity)
              [] row # NoRow /\ ~checksName /\ Allowed(op, row.status) -> Saving(op, d, row, entity)
              [] OTHER -> Finished(op, d, "conflict"))
  /\ UNCHANGED <<defKind, defRow, defRuns, defUsed>>

\* A new name is looked up before the entity is asked, except for an
\* experiment, whose names only the table's constraint keeps apart.
UpdateDefinition(r, d, name) ==
  Operate(r, "update", d, name, name # Keep /\ defKind # "experiment")

\* ready, activate, deactivate, complete, archive, set_baseline, delete
CommandDefinition(r, op, d) ==
  op \in DOMAIN Rules \ {"update"} /\ Operate(r, op, d, Keep, FALSE)

NameTaken(d, name) == \E e \in DefIds \ {d} : defRow[e].name = name

\* exists_by_name_in_project, and then the entity's method.
CheckName(r) ==
  LET q == defReq[r] IN
  /\ q.at = "checking"
  /\ Set(r, IF \/ NameTaken(q.id, q.saved.name)
               \/ q.op = "update" /\ ~Allowed("update", q.seen.status)
            THEN Finished(q.op, q.id, "conflict")
            ELSE [q EXCEPT !.at = "saving"])
  /\ UNCHANGED <<defKind, defRow, defRuns, defUsed, defCount>>

----------------------------------------------------------------------------
(* Saving: what the session reads, writes and answers.                     *)

\* What the session will write, given the row `base` it has just read.
Flush(q, base) ==
  [at |-> "flush", op |-> q.op, id |-> q.id, seen |-> q.seen, base |-> base,
   saved |-> q.saved, answer |-> "none"]

\* Repository.update, delete and, for an experiment, create select the
\* row; the other repositories add a new one without looking.
SelectRow(r) ==
  LET q == defReq[r] IN
  /\ q.at = "saving" /\ Set(r, Flush(q, defRow[q.id]))
  /\ UNCHANGED <<defKind, defRow, defRuns, defUsed, defCount>>

\* ExperimentRepository and its handlers commit themselves.
CommitsFirst == defKind = "experiment"

\* EvaluationRepository.create and AgentRepository.create flush; updates and
\* deletions leave the flush to the commit of get_db_session.
FlushesFirst(q) == q.op = "create" /\ ~CommitsFirst

RespondFirst(r) ==
  LET q == defReq[r] IN
  /\ q.at = "flush" /\ ~CommitsFirst /\ ~FlushesFirst(q) /\ q.answer = "none"
  /\ Set(r, [q EXCEPT !.answer = "ok"])
  /\ UNCHANGED <<defKind, defRow, defRuns, defUsed, defCount>>

\* The columns in which the entity differs from the row the merge read are
\* written over whatever the row holds by then.
Written(q) ==
  [c \in DOMAIN q.saved |->
     IF q.saved[c] # q.base[c] THEN q.saved[c] ELSE defRow[q.id][c]]

\* uq_evaluation_project_name and its like
BreaksUnique(d, name) == NameTaken(d, name)

\* evaluation_runs.evaluation_id refers to evaluations.id.
BreaksReference(d) == d \in defRuns

\* experiments.project_id refers to projects.id, and create_experiment sets
\* it to the caller's organization.
HasProject == defKind = "experiment" => OrgIsProject

\* An UPDATE or INSERT that finds what it expects; a deletion of a row
\* that has gone is a warning.
Succeeds(q) ==
  IF q.op = "delete" THEN ~BreaksReference(q.id)
  ELSE /\ (q.base = NoRow) <=> (defRow[q.id] = NoRow)
       /\ (q.base = NoRow \/ q.saved.name # q.base.name)
            => ~BreaksUnique(q.id, q.saved.name)
       /\ q.base = NoRow => HasProject

\* The row after a flush that succeeds.
RowAfter(q) ==
  IF q.op = "delete" THEN NoRow
  ELSE IF q.base = NoRow THEN q.saved ELSE Written(q)

\* A row of the same name is flushed and not yet committed.
Blocked(q) ==
  q.op # "delete" /\ \E s \in DefRequests :
    defReq[s].at = "flushed" /\ defReq[s].id # q.id /\ defReq[s].saved.name = q.saved.name

\* The row is inserted and the response sent, or the name is taken.
FlushRow(r) ==
  LET q == defReq[r] IN
  /\ q.at = "flush" /\ FlushesFirst(q) /\ ~Blocked(q)
  /\ Set(r, IF Succeeds(q) THEN [q EXCEPT !.at = "flushed", !.answer = "ok"]
                           ELSE Finished(q.op, q.id, "refused"))
  /\ UNCHANGED <<defKind, defRow, defRuns, defUsed, defCount>>

\* The statements of request r persist, or the commit fails with the database.  A
\* response already sent stands whatever becomes of it.
CommitSucceeds(r) ==
  LET q == defReq[r] IN
  /\ defRow' = [defRow EXCEPT ![q.id] = RowAfter(q)]
  /\ Set(r, Finished(q.op, q.id, "ok"))

CommitFails(r) ==
  LET q == defReq[r] IN
  /\ Set(r, Finished(q.op, q.id, IF q.answer = "none" THEN "refused" ELSE q.answer))
  /\ UNCHANGED defRow

Commit(r) ==
  LET q == defReq[r] IN
  /\ \/ /\ q.at = "flush" /\ ~FlushesFirst(q) /\ (CommitsFirst \/ q.answer = "ok")
        /\ ~Blocked(q)
        /\ (Succeeds(q) /\ CommitSucceeds(r)) \/ CommitFails(r)
     \/ /\ q.at = "flushed"
        /\ CommitSucceeds(r) \/ CommitFails(r)
  /\ UNCHANGED <<defKind, defRuns, defUsed, defCount>>

\* create_run inserts a run of an evaluation that exists, of any status.
CreateRunOf(d) ==
  /\ defKind = "evaluation" /\ defRow[d] # NoRow
  /\ defRuns' = defRuns \cup {d}
  /\ UNCHANGED <<defKind, defRow, defUsed, defReq, defCount>>

DefNext ==
  \/ \E r \in DefRequests :
       \/ \E d \in DefIds, n \in DefNames : CreateDefinition(r, d, n)
       \/ \E s, d \in DefIds, n \in DefNames : DuplicateDefinition(r, s, d, n)
       \/ \E d \in DefIds, n \in DefNames \cup {Keep} : UpdateDefinition(r, d, n)
       \/ \E d \in DefIds, op \in DOMAIN Rules : CommandDefinition(r, op, d)
       \/ CheckName(r) \/ SelectRow(r) \/ RespondFirst(r) \/ FlushRow(r) \/ Commit(r)
  \/ \E d \in DefIds : CreateRunOf(d)

DefSpec == DefInit /\ [][DefNext]_defVars

----------------------------------------------------------------------------
(* Properties.                                                             *)

Statuses == {"draft", "ready", "active", "inactive", "completed", "archived"}
Rows == [status : Statuses, name : DefNames, version : 1..2]

\* Rows hold a status and a name; no identifier is in use that was not
\* given out.
DefinitionsTypeOK ==
  /\ \A d \in DefIds : defRow[d] \in Rows \cup {NoRow}
  /\ \A d \in DefIds \ defUsed : defRow[d] = NoRow
  /\ \A r \in DefRequests :
       defReq[r].at \in {"idle", "checking", "saving", "flush", "flushed", "done"}

\* What an operation may make of a row as it is.
MayTurn(op, row, after) ==
  IF op = "create" THEN row = NoRow /\ after.status = FirstStatus
  ELSE /\ row.status \in Rules[op].from
       /\ after.status = IF Rules[op].to = Keep THEN row.status ELSE Rules[op].to

\* A row moves only as its entity allows, through every overlap of loads, merges
\* and commits that write single columns, unless the request that writes it had
\* loaded something else: a stale request may take an archived definition back to
\* draft, or insert one again that was deleted.
StrayMovesAreStale ==
  [][\A d \in DefIds : defRow'[d] # defRow[d] =>
       \E r \in DefRequests :
         LET q == defReq[r] IN
         /\ q.at \in {"flush", "flushed"} /\ q.id = d /\ defReq'[r].at = "done"
         /\ q.seen # defRow[d] \/ MayTurn(q.op, defRow[d], defRow'[d])]_defVars
=============================================================================
