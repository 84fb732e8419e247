-------------------------------- MODULE BatchJob --------------------------------
(***************************************************************************)
(* The batch job scheduler of server/modules/batch_job_module.py.           *)
(*                                                                          *)
(* A loop wakes up every 30 seconds, lists the jobs and works through that  *)
(* list in the order of their names, one execution after the other, while   *)
(* run_now executes a job in the coroutine of its request.  Whoever         *)
(* executes a job goes by the row it has read before: what it writes at the *)
(* end is computed from that row, not from the one in the table.            *)
(* Every action is one SQL statement with the Python code up to the next.   *)
(* last_run decides nothing and is left out.                                *)
(***************************************************************************)
EXTENDS Integers, FiniteSetsExt

CONSTANTS
  NumJobs,       \* jobs are numbered in the order of their names
  Definitions,   \* what the edit form may make of a job
  Defined,       \* Defined[j]: the definition of job j at the start
  Managers,      \* coroutines of run_now requests
  Horizon,       \* minutes _compute_next_run looks ahead
  MaxTime,       \* bound: minutes that pass
  MaxRunNow,     \* bound: run_now requests
  MaxEdits,      \* bound: saved edit forms
  MaxFaults,     \* bound: database calls that raise
  MaxCrashes     \* bound: restarts of the server

Jobs == 1 .. NumJobs
Minutes == 1 .. MaxTime

\* `minutes` are the minutes the cron expression matches; an expression such
\* as "0,30 * * * *", which int() does not parse, raises where it is used.  "Run
\* for" without a limit and "run_until" without a date are "recurring".
Definition == [enabled : BOOLEAN, recurrence : {"once", "recurring", "run_for", "run_until"},
               limit : Nat, until : Nat, parses : BOOLEAN, minutes : SUBSET Minutes]

ASSUME JobAssumption ==
  /\ NumJobs \in Nat \ {0} /\ Horizon \in Nat \ {0}
  /\ Definitions \subseteq Definition /\ Defined \in [Jobs -> Definition]
  /\ "scheduler" \notin Managers
  /\ MaxTime \in Nat /\ MaxRunNow \in Nat /\ MaxEdits \in Nat
  /\ MaxFaults \in Nat /\ MaxCrashes \in Nat

Actors == Managers \cup {"scheduler"}

VARIABLES
  job,       \* system_batch_jobs
  open,      \* open[j]: history rows of j that have not ended
  ended,     \* ended[j]: history rows of j that have
  now,       \* the clock, in minutes
  tick,      \* the scheduler's tick: its `now`, the list it read, what is left of it
  work,      \* work[a]: the execution actor a is in
  started,   \* history: executions of j the scheduler began
  died,      \* history: jobs an execution of which was cut short
  bounds     \* counters of what is bounded

table == <<job, open, ended>>
vars == <<job, open, ended, now, tick, work, started, died, bounds>>

Null == 0

Row == [def : Definition, status : {"idle", "running", "succeeded", "failed", "completed"},
        total : Nat, next : Minutes \cup {Null}]

Asleep == [pc |-> "asleep"]
Resting == [pc |-> "rest"]

Executing == {"record", "call", "result", "finish"}

Init ==
  /\ job = [j \in Jobs |-> [def |-> Defined[j], status |-> "idle", total |-> 0, next |-> Null]]
  /\ open = [j \in Jobs |-> 0] /\ ended = [j \in Jobs |-> 0]
  /\ now = 0
  /\ tick = Asleep
  /\ work = [a \in Actors |-> Resting]
  /\ started = [j \in Jobs |-> 0] /\ died = {}
  /\ bounds = [run_now |-> 0, edits |-> 0, faults |-> 0, crashes |-> 0]

Uses(what, limit) == bounds[what] < limit /\ bounds' = [bounds EXCEPT ![what] = @ + 1]

-----------------------------------------------------------------------------
(* _compute_next_run_for_job *)

\* The job has had all its runs, whatever its cron expression says.
Over(def, total) == \/ def.recurrence = "once" /\ total >= 1
                    \/ def.recurrence = "run_for" /\ total >= def.limit

Raises(def, total) == ~Over(def, total) /\ ~def.parses

NextRun(def, total, after) ==
  LET ahead == {t \in def.minutes : after < t /\ t <= after + Horizon}
  IN  IF \/ Over(def, total)
         \/ ahead = {}
         \/ def.recurrence = "run_until" /\ Min(ahead) > def.until
      THEN Null
      ELSE Min(ahead)

-----------------------------------------------------------------------------
(* _execute_job, of the row that was read *)

Moves(a, step) == work' = [work EXCEPT ![a].pc = step]
At(a, step) == work[a].pc = step /\ UNCHANGED <<now, bounds>>

MarkRunning(a, j, row) ==
  /\ job' = [job EXCEPT ![j].status = "running", ![j].next = Null]
  /\ work' = [work EXCEPT ![a] = [pc |-> "record", job |-> j, row |-> row, at |-> now]]

Record(a) ==
  /\ At(a, "record")
  /\ open' = [open EXCEPT ![work[a].job] = @ + 1]
  /\ Moves(a, "call")
  /\ UNCHANGED <<job, ended, tick, started, died>>

\* The job's function returns or raises.
Call(a) ==
  /\ At(a, "call")
  /\ \E outcome \in {"succeeded", "failed"} :
       work' = [work EXCEPT ![a].pc = "result", ![a].row.status = outcome]
  /\ UNCHANGED <<table, tick, started, died>>

WriteResult(a) ==
  /\ At(a, "result")
  /\ open' = [open EXCEPT ![work[a].job] = @ - 1]
  /\ ended' = [ended EXCEPT ![work[a].job] = @ + 1]
  /\ Moves(a, "finish")
  /\ UNCHANGED <<job, tick, started, died>>

\* The exception of an execution reaches the request, or ends the tick.
GivesUp(a) ==
  /\ work' = [work EXCEPT ![a] = Resting]
  /\ tick' = IF a = "scheduler" THEN Asleep ELSE tick

\* Mutants: the run is not counted; the status is left as it is.
FinishUncounted(a) ==
  /\ At(a, "finish")
  /\ LET w == work[a]
     IN  /\ ~Raises(w.row.def, w.row.total)
         /\ job' = [job EXCEPT ![w.job] =
              [@ EXCEPT !.status = IF NextRun(w.row.def, w.row.total, w.at) = Null
                                   THEN "completed" ELSE w.row.status,
                        !.next = NextRun(w.row.def, w.row.total, w.at)]]
  /\ work' = [work EXCEPT ![a] = Resting]
  /\ UNCHANGED <<open, ended, tick, started, died>>
FinishKeepsStatus(a) ==
  /\ At(a, "finish")
  /\ LET w == work[a]
         total == w.row.total + 1
     IN  /\ ~Raises(w.row.def, total)
         /\ job' = [job EXCEPT ![w.job].total = total,
                               ![w.job].next = NextRun(w.row.def, total, w.at)]
  /\ work' = [work EXCEPT ![a] = Resting]
  /\ UNCHANGED <<open, ended, tick, started, died>>

Finish(a) ==
  /\ At(a, "finish")
  /\ LET w == work[a]
         total == w.row.total + 1
         next == NextRun(w.row.def, total, w.at)
     IN  IF Raises(w.row.def, total)
         THEN /\ GivesUp(a)
              /\ died' = died \cup {w.job}
              /\ UNCHANGED job
         ELSE /\ job' = [job EXCEPT ![w.job] =
                   [@ EXCEPT !.status = IF next = Null THEN "completed" ELSE w.row.status,
                             !.total = total, !.next = next]]
              /\ work' = [work EXCEPT ![a] = Resting]
              /\ UNCHANGED <<tick, died>>
  /\ UNCHANGED <<open, ended, started>>

-----------------------------------------------------------------------------
(* _scheduler_loop *)

Wake ==
  /\ tick.pc = "asleep"
  /\ tick' = [pc |-> "list", at |-> now]
  /\ UNCHANGED <<table, now, work, started, died, bounds>>

ListJobs ==
  /\ tick.pc = "list"
  /\ tick' = [pc |-> "scan", at |-> tick.at, rows |-> job, todo |-> Jobs]
  /\ UNCHANGED <<table, now, work, started, died, bounds>>

\* The loop comes to the row of job j.
Reached(j) == /\ tick.pc = "scan" /\ work["scheduler"] = Resting
              /\ tick.todo # {} /\ j = Min(tick.todo)
              /\ UNCHANGED <<now, bounds>>
Passed(j) == tick' = [tick EXCEPT !.todo = @ \ {j}]

Runnable(row) == row.def.enabled /\ row.status # "running"

\* Mutant: a job that failed is not tried again.
SkipFailedToo(j) ==
  /\ Reached(j)
  /\ LET row == tick.rows[j]
     IN  ~Runnable(row) \/ row.status = "failed" \/ (row.next # Null /\ row.next > tick.at)
  /\ Passed(j)
  /\ UNCHANGED <<table, work, started, died>>

Skip(j) ==
  /\ Reached(j)
  /\ LET row == tick.rows[j]
     IN  ~Runnable(row) \/ (row.next # Null /\ row.next > tick.at)
  /\ Passed(j)
  /\ UNCHANGED <<table, work, started, died>>

\* A job without a next run gets one, which is later than this tick; the same
\* statement writes back the status that was read.
Schedule(j) ==
  /\ Reached(j)
  /\ LET row == tick.rows[j]
     IN  /\ Runnable(row) /\ row.next = Null
         /\ ~Raises(row.def, row.total)
         /\ job' = [job EXCEPT ![j].status = row.status,
                               ![j].next = NextRun(row.def, row.total, tick.at)]
  /\ Passed(j)
  /\ UNCHANGED <<open, ended, work, started, died>>

\* The cron expression does not parse: the rest of the tick is lost.
BreaksOff(j) ==
  /\ Reached(j)
  /\ LET row == tick.rows[j]
     IN  Runnable(row) /\ row.next = Null /\ Raises(row.def, row.total)
  /\ tick' = Asleep
  /\ UNCHANGED <<table, work, started, died>>

RunDue(j) ==
  /\ Reached(j)
  /\ Runnable(tick.rows[j])
  /\ tick.rows[j].next # Null /\ tick.rows[j].next <= tick.at
  /\ MarkRunning("scheduler", j, tick.rows[j])
  /\ started' = [started EXCEPT ![j] = @ + 1]
  /\ Passed(j)
  /\ UNCHANGED <<open, ended, died>>

Sleep ==
  /\ tick.pc = "scan" /\ tick.todo = {} /\ work["scheduler"] = Resting
  /\ tick' = Asleep
  /\ UNCHANGED <<table, now, work, started, died, bounds>>

-----------------------------------------------------------------------------
(* run_now, upsert_job, and what happens around them *)

RunNow(m, j) ==
  /\ work[m] = Resting
  /\ Uses("run_now", MaxRunNow)
  /\ work' = [work EXCEPT ![m] = [pc |-> "mark", job |-> j, row |-> job[j], at |-> now]]
  /\ UNCHANGED <<table, now, tick, started, died>>

RunNowMark(m) ==
  /\ At(m, "mark")
  /\ MarkRunning(m, work[m].job, work[m].row)
  /\ UNCHANGED <<open, ended, tick, started, died>>

\* The form writes the definition; status, total_runs and next_run stay.
UpsertJob(j, def) ==
  /\ Uses("edits", MaxEdits)
  /\ job' = [job EXCEPT ![j].def = def]
  /\ UNCHANGED <<open, ended, now, tick, work, started, died>>

\* A database call of an execution raises.  Where the result is written the
\* exception makes the execution a failed one, elsewhere it ends it.
ExecutionFault(a) ==
  /\ work[a].pc \in Executing \ {"call"}
  /\ Uses("faults", MaxFaults)
  /\ IF work[a].pc = "result" /\ work[a].row.status = "succeeded"
     THEN work' = [work EXCEPT ![a].row.status = "failed"] /\ UNCHANGED <<tick, died>>
     ELSE GivesUp(a) /\ died' = died \cup {work[a].job}
  /\ UNCHANGED <<table, now, started>>

\* A database call of the scheduler itself raises.
TickFault ==
  /\ tick.pc \in {"list", "scan"} /\ work["scheduler"] = Resting
  /\ Uses("faults", MaxFaults)
  /\ tick' = Asleep
  /\ UNCHANGED <<table, now, work, started, died>>

Crash ==
  /\ Uses("crashes", MaxCrashes)
  /\ tick' = Asleep
  /\ work' = [a \in Actors |-> Resting]
  /\ died' = died \cup {work[a].job : a \in {b \in Actors : work[b].pc \in Executing}}
  /\ UNCHANGED <<table, now, started>>

Minute ==
  /\ now < MaxTime
  /\ now' = now + 1
  /\ UNCHANGED <<table, tick, work, started, died, bounds>>

-----------------------------------------------------------------------------
Execute(a) == Record(a) \/ Call(a) \/ WriteResult(a) \/ Finish(a)

SchedulerStep ==
  \/ Wake \/ ListJobs \/ Sleep \/ Execute("scheduler")
  \/ \E j \in Jobs : Skip(j) \/ Schedule(j) \/ BreaksOff(j) \/ RunDue(j)

ManagerStep(m) == RunNowMark(m) \/ Execute(m)

Next ==
  \/ SchedulerStep
  \/ \E m \in Managers : ManagerStep(m) \/ \E j \in Jobs : RunNow(m, j)
  \/ \E j \in Jobs, def \in Definitions : UpsertJob(j, def)
  \/ \E a \in Actors : ExecutionFault(a)
  \/ TickFault \/ Crash \/ Minute

Spec == Init /\ [][Next]_vars

\* The event loop runs every coroutine that can go on, database calls and job
\* functions return, and time passes.
Fairness == /\ WF_vars(SchedulerStep)
            /\ \A m \in Managers : WF_vars(ManagerStep(m))
            /\ WF_vars(Minute)

FairSpec == Spec /\ Fairness

-----------------------------------------------------------------------------
(* Properties *)

(* Every variable stays in its type: a job row has one of the statuses the *)
(* code writes and a next run within the modelled minutes, or none.        *)
TypeOK ==
  /\ job \in [Jobs -> Row]
  /\ \A j \in Jobs : open[j] \in Nat /\ ended[j] \in Nat /\ started[j] \in Nat
  /\ now \in 0 .. MaxTime
  /\ tick.pc \in {"asleep", "list", "scan"}
  /\ \A a \in Actors : work[a].pc \in Executing \cup {"rest", "mark"}
  /\ died \subseteq Jobs

\* The scheduler begins a job of a limited number of runs at most that often,
\* across restarts and executions that broke off, as long as nobody has called
\* run_now, whose execution writes the count from the row it read, or has edited
\* the job.
RunsWithinLimit ==
  bounds.run_now = 0 /\ bounds.edits = 0 =>
    \A j \in Jobs : /\ job[j].def.recurrence = "once" => started[j] <= 1
                    /\ job[j].def.recurrence = "run_for" => started[j] <= job[j].def.limit

\* A job that says it is running is being executed, or an execution of it was
\* cut short: only then does the scheduler pass it over for good.
RunningIsExecuted ==
  \A j \in Jobs : job[j].status = "running" =>
    j \in died \/ \E a \in Actors : work[a].pc \in Executing /\ work[a].job = j

\* The rows are sound: well formed, no history row closed twice, and none says
\* that it runs without an execution (_execute_job).
JobsAreSound == TypeOK /\ RunningIsExecuted

\* No run stays due for ever: a job with a next run begins to run, is done
\* with, or is disabled, unless the cron expression of a job before it does not
\* parse, which breaks off every tick.
NotBehindBroken(j) == \A i \in 1 .. j : job[i].def.parses
DueJobRuns ==
  \A j \in Jobs :
    NotBehindBroken(j) /\ job[j].next # Null /\ job[j].def.enabled
      ~> job[j].next = Null \/ ~job[j].def.enabled \/ ~NotBehindBroken(j)
===============================================================================
