---------------------------- MODULE ImportPromotion ----------------------------
(***************************************************************************)
(* Staging imports of the finance module: importing or requesting a payment, *)
(* approving, rejecting and deleting imports, and promoting an approved one  *)
(* by a pipeline task that posts a journal and marks the import promoted.    *)
(*                                                                           *)
(* Importers, approvers and the task engine run side by side.  The engine's  *)
(* tick runs one step of one task at a time and writes its end afterwards    *)
(* (module AsyncTask): after a restart the step that was running runs again. *)
(* Promotion tasks have max_retries = 0; once cancelled, timed out or failed *)
(* they stay so.                                                             *)
(***************************************************************************)
EXTENDS Integers, Sequences, FiniteSets

CONSTANTS
  Imports,          \* imports that are made
  Items,            \* Items[i]: the line items of import i
  EvenParts,        \* EvenParts[i]: so many first line items add up to nothing
  PaymentRequests,  \* imports made by create_payment_request, not from Azure
  Tasks,            \* promotion tasks that may be submitted
  MaxCrashes        \* bound: restarts of the server

ASSUME ImportAssumption ==
  /\ PaymentRequests \subseteq Imports
  /\ Items \in [Imports -> Nat]
  /\ \A i \in Imports : EvenParts[i] \subseteq 1 .. Items[i]
  /\ MaxCrashes \in Nat

VARIABLES
  imports,    \* finance_staging_imports, with how many line items there are
  importer,   \* what becomes of the coroutine that makes the import
  deleting,   \* imports that somebody is about to delete
  journal,    \* journal[i]: the journal with posting key AZURE-IMPORT-i
  task,       \* the promotion tasks
  tick,       \* the task at work, the statement it is at and what it has found
  crashes

pipeline == <<journal, task, tick>>
vars == <<imports, importer, deleting, journal, task, tick, crashes>>

-----------------------------------------------------------------------------
(* The rows *)

Statuses == {"pending", "approved", "failed", "promoted", "pending_approval", "rejected"}
ImportRow == [status : Statuses \cup {"absent"}, rows : Nat, items : Nat]
NoImport == [status |-> "absent", rows |-> 0, items |-> 0]

\* carries: the line items its amounts were added up from.
JournalRow == [status : {"absent", "draft", "posted"}, carries : Nat, lines : Nat]

\* All lines are there: one for each line item (each its own service here) and
\* the payable one.
Complete(j) == j.lines = j.carries + 1

\* Debits equal credits: of all lines, or of first debit lines of zero, or of
\* costs and refunds (create_journal of the pipeline drops no amount).
Balances(i) == Complete(journal[i]) \/ journal[i].lines \in EvenParts[i]

Steps == <<"validate_import", "classify_costs", "create_journal", "mark_promoted">>

\* rows and carries are the context the steps add to.
TaskRow == [on : Imports, status : {"running", "completed", "failed", "stopped"},
            step : 1 .. Len(Steps) + 1, rows : Nat, carries : Nat]

Exists(i) == imports[i].status # "absent"

-----------------------------------------------------------------------------
(* Making an import: import_cost_details, import_invoices and               *)
(* create_payment_request.                                                  *)

CreateImport(i) ==
  /\ importer[i] = "new"
  /\ importer' = [importer EXCEPT ![i] = "at_work"]
  /\ imports' = [imports EXCEPT ![i] =
       [NoImport EXCEPT !.status = IF i \in PaymentRequests THEN "pending_approval" ELSE "pending"]]
  /\ UNCHANGED <<deleting, pipeline, crashes>>

InsertLineItem(i) ==
  /\ importer[i] = "at_work"
  /\ Exists(i) /\ imports[i].items < Items[i]
  /\ imports' = [imports EXCEPT ![i].items = @ + 1]
  /\ UNCHANGED <<importer, deleting, pipeline, crashes>>

\* update_import_status_v1: whatever the import's status has become.
WriteStatus(i, status, rows) ==
  imports' = IF Exists(i) THEN [imports EXCEPT ![i].status = status, ![i].rows = rows]
             ELSE imports

ImportDone(i) ==
  /\ importer[i] = "at_work"
  /\ Exists(i) => imports[i].items = Items[i]
  /\ WriteStatus(i, "pending_approval", Items[i])
  /\ importer' = [importer EXCEPT ![i] = "done"]
  /\ UNCHANGED <<deleting, pipeline, crashes>>

\* The Azure providers mark the import; a payment request is left as it is.
ImportRaises(i) ==
  /\ importer[i] = "at_work"
  /\ IF i \in PaymentRequests THEN UNCHANGED imports
     ELSE \E rows \in 0 .. imports[i].items : WriteStatus(i, "failed", rows)
  /\ importer' = [importer EXCEPT ![i] = "done"]
  /\ UNCHANGED <<deleting, pipeline, crashes>>

-----------------------------------------------------------------------------
(* approve_import, reject_import and delete_import *)

\* Their updates are conditional; the read before them decides nothing more.
Decide(i, status) ==
  /\ imports[i].status = "pending_approval"
  /\ imports' = [imports EXCEPT ![i].status = status]
  /\ UNCHANGED <<importer, deleting, pipeline, crashes>>

ApproveImport(i) == Decide(i, "approved")
RejectImport(i) == Decide(i, "rejected")

DeleteCheck(i) ==
  /\ Exists(i) /\ imports[i].status # "promoted"
  /\ deleting' = deleting \cup {i}
  /\ UNCHANGED <<imports, importer, pipeline, crashes>>

\* delete_import_v1: line items and import, in one batch, unconditionally.
DeleteImport(i) ==
  /\ i \in deleting
  /\ deleting' = deleting \ {i}
  /\ imports' = [imports EXCEPT ![i] = NoImport]
  /\ UNCHANGED <<importer, pipeline, crashes>>

-----------------------------------------------------------------------------
(* Promotion tasks and the tick *)

NoTick == [on |-> {}, at |-> "idle", rows |-> 0, carries |-> 0]

\* finance_staging_promote_v1 looks at no import.
Promote(t, i) ==
  /\ t \notin DOMAIN task
  /\ task' = [u \in DOMAIN task \cup {t} |->
                IF u = t THEN [on |-> i, status |-> "running", step |-> 1, rows |-> 0, carries |-> 0]
                ELSE task[u]]
  /\ UNCHANGED <<imports, importer, deleting, journal, tick, crashes>>

\* A task is cancelled, or times out, between two of its steps.
Stop(t) ==
  /\ t \in DOMAIN task /\ task[t].status = "running" /\ tick.on # {t}
  /\ task' = [task EXCEPT ![t].status = "stopped"]
  /\ UNCHANGED <<imports, importer, deleting, journal, tick, crashes>>

StepBegins(t) ==
  /\ tick = NoTick
  /\ t \in DOMAIN task /\ task[t].status = "running"
  /\ tick' = [on |-> {t}, at |-> Steps[task[t].step],
              rows |-> task[t].rows, carries |-> task[t].carries]
  /\ UNCHANGED <<imports, importer, deleting, journal, task, crashes>>

AtWork(t, statement) == t \in tick.on /\ tick.at = statement
OthersStand == UNCHANGED <<importer, deleting, crashes>>

\* The step raises: a check fails, an account or period is missing, a call fails.
StepRaises(t) ==
  /\ t \in tick.on
  /\ task' = [task EXCEPT ![t].status = "failed"]
  /\ tick' = NoTick
  /\ UNCHANGED <<imports, journal>> /\ OthersStand

\* Mutants of validate_import: the approval, or the row count, is not checked.
ValidateUnapproved(t) ==
  /\ AtWork(t, "validate_import")
  /\ LET row == imports[task[t].on]
     IN  /\ row.status \in {"approved", "pending_approval"} /\ row.rows > 0
         /\ tick' = [tick EXCEPT !.at = "record", !.rows = row.rows]
  /\ UNCHANGED <<imports, journal, task>> /\ OthersStand

ValidateEmpty(t) ==
  /\ AtWork(t, "validate_import")
  /\ LET row == imports[task[t].on]
     IN  /\ row.status = "approved"
         /\ tick' = [tick EXCEPT !.at = "record", !.rows = row.rows]
  /\ UNCHANGED <<imports, journal, task>> /\ OthersStand

\* validate_import reads the import once; a check that fails is StepRaises.
Validate(t) ==
  /\ AtWork(t, "validate_import")
  /\ LET row == imports[task[t].on]
     IN  /\ row.status = "approved" /\ row.rows > 0
         /\ tick' = [tick EXCEPT !.at = "record", !.rows = row.rows]
  /\ UNCHANGED <<imports, journal, task>> /\ OthersStand

\* No line items are no error: they add up to nothing.
Classify(t) ==
  /\ AtWork(t, "classify_costs")
  /\ tick' = [tick EXCEPT !.at = "record", !.carries = imports[task[t].on].items]
  /\ UNCHANGED <<imports, journal, task>> /\ OthersStand

\* create_journal: the journal of the posting key, or a new one; nobody else
\* uses the key, and the tick is alone.
CreateJournal(t) ==
  /\ AtWork(t, "create_journal")
  /\ LET i == task[t].on
     IN  IF journal[i].status # "absent"
         THEN tick' = [tick EXCEPT !.at = "post"] /\ UNCHANGED journal
         ELSE /\ tick' = [tick EXCEPT !.at = "lines"]
              /\ journal' = [journal EXCEPT ![i] =
                   [status |-> "draft", carries |-> tick.carries, lines |-> 0]]
  /\ UNCHANGED <<imports, task>> /\ OthersStand

InsertJournalLine(t) ==
  /\ AtWork(t, "lines")
  /\ LET i == task[t].on
     IN  /\ journal' = [journal EXCEPT ![i].lines = @ + 1]
         /\ tick' = IF Complete(journal'[i]) THEN [tick EXCEPT !.at = "post"] ELSE tick
  /\ UNCHANGED <<imports, task>> /\ OthersStand

\* post_journal's checks of the journal, which count no lines; module Journal has
\* them one by one.
Postable(i) == journal[i].status = "draft" /\ Balances(i)

PostJournal(t) ==
  /\ AtWork(t, "post")
  /\ Postable(task[t].on)
  /\ journal' = [journal EXCEPT ![task[t].on].status = "posted"]
  /\ tick' = [tick EXCEPT !.at = "record"]
  /\ UNCHANGED <<imports, task>> /\ OthersStand

\* An administrator posts the draft that an interrupted task has left, or one that
\* a task still writes lines of.
AdminPosts(i) ==
  /\ Postable(i)
  /\ journal' = [journal EXCEPT ![i].status = "posted"]
  /\ UNCHANGED <<imports, task, tick>> /\ OthersStand

MarkPromoted(t) ==
  /\ AtWork(t, "mark_promoted")
  /\ WriteStatus(task[t].on, "promoted", tick.rows)
  /\ tick' = [tick EXCEPT !.at = "record"]
  /\ UNCHANGED <<journal, task>> /\ OthersStand

\* The tick writes the step's end and context.
StepRecorded(t) ==
  /\ AtWork(t, "record")
  /\ task' = [task EXCEPT ![t] =
       [on |-> task[t].on, step |-> task[t].step + 1, rows |-> tick.rows, carries |-> tick.carries,
        status |-> IF task[t].step = Len(Steps) THEN "completed" ELSE "running"]]
  /\ tick' = NoTick
  /\ UNCHANGED <<imports, journal>> /\ OthersStand

\* Its end cannot be written: the tick is broken off, the step will run again.
StepUnrecorded(t) ==
  /\ AtWork(t, "record")
  /\ tick' = NoTick
  /\ UNCHANGED <<imports, journal, task>> /\ OthersStand

\* The server restarts: whatever is under way ends where it is.
Crash ==
  /\ crashes < MaxCrashes
  /\ crashes' = crashes + 1
  /\ tick' = NoTick /\ deleting' = {}
  /\ importer' = [i \in Imports |-> IF importer[i] = "at_work" THEN "done" ELSE importer[i]]
  /\ UNCHANGED <<imports, journal, task>>

-----------------------------------------------------------------------------
Init ==
  /\ imports = [i \in Imports |-> NoImport]
  /\ importer = [i \in Imports |-> "new"]
  /\ deleting = {}
  /\ journal = [i \in Imports |-> [status |-> "absent", carries |-> 0, lines |-> 0]]
  /\ task = <<>>
  /\ tick = NoTick
  /\ crashes = 0

Next ==
  \/ \E i \in Imports :
       \/ CreateImport(i) \/ InsertLineItem(i) \/ ImportDone(i) \/ ImportRaises(i)
       \/ ApproveImport(i) \/ RejectImport(i) \/ DeleteCheck(i) \/ DeleteImport(i)
       \/ AdminPosts(i)
       \/ \E t \in Tasks : Promote(t, i)
  \/ \E t \in Tasks :
       \/ Stop(t) \/ StepBegins(t) \/ StepRaises(t) \/ Validate(t) \/ Classify(t)
       \/ CreateJournal(t) \/ InsertJournalLine(t) \/ PostJournal(t) \/ MarkPromoted(t)
       \/ StepRecorded(t) \/ StepUnrecorded(t)
  \/ Crash

Spec == Init /\ [][Next]_vars

-----------------------------------------------------------------------------
(* Properties *)

(* Every variable stays in its type: statuses of imports, tasks and their  *)
(* steps, and journal lines only of items the imports can have.            *)
TypeOK ==
  /\ imports \in [Imports -> ImportRow]
  /\ \A i \in Imports : imports[i].items <= Items[i] /\ journal[i].lines <= Items[i] + 1
  /\ importer \in [Imports -> {"new", "at_work", "done"}]
  /\ deleting \subseteq Imports
  /\ journal \in [Imports -> JournalRow]
  /\ DOMAIN task \subseteq Tasks /\ \A t \in DOMAIN task : task[t] \in TaskRow
  /\ tick.on \subseteq DOMAIN task /\ Cardinality(tick.on) <= 1
  /\ crashes \in 0 .. MaxCrashes

\* A promoted import is in the books, in a journal of every line item it has and
\* with all its lines, although imports are approved, rejected, overwritten by
\* their importer and deleted while tasks that have validated them go on.  Lines
\* are missing only where those that are there add up to nothing: a step that
\* breaks off after them is taken up with the journal it finds, and nothing
\* compares its lines with the import (get_by_posting_key, post_journal).
PromotedIsInTheBooks ==
  \A i \in Imports : imports[i].status = "promoted" =>
    /\ journal[i].status = "posted"
    /\ journal[i].carries = Items[i] /\ Balances(i)

\* Of several tasks that promote an import only one gets past its journal,
\* also if one is interrupted after posting and runs the step again.
OneTaskPromotes ==
  \A t, u \in DOMAIN task :
    t # u /\ task[t].on = task[u].on => ~(task[t].step > 3 /\ task[u].step > 3)

\* A task that has completed has promoted its import, unless that was deleted.
CompletedIsPromoted ==
  \A t \in DOMAIN task :
    task[t].status = "completed" => imports[task[t].on].status \in {"promoted", "absent"}

\* Promotions are sound: whatever overlaps, what is promoted is in the books once
\* and, but for lines that a sum of nothing hides, whole, and the task that says so
\* has done it (billing_import_pipeline.py).
PromotionsAreSound == TypeOK /\ PromotedIsInTheBooks /\ OneTaskPromotes /\ CompletedIsPromoted

\* An import goes from approved to promoted, whatever its importer or an
\* approver wrote since it was validated.
PromotedFromApproved ==
  [][\A i \in Imports : imports'[i].status = "promoted" =>
       imports[i].status \in {"approved", "promoted"}]_vars
===============================================================================
