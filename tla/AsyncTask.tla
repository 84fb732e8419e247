----------------------------- MODULE AsyncTask -----------------------------
(***************************************************************************)
(* The persistent task engine of server/modules/async_task_module.py.      *)
(*                                                                         *)
(* One server process runs one tick loop.  A tick reads every task row     *)
(* once and then works through that snapshot, newest task first, one       *)
(* handler call at a time.  RPC requests (submit, cancel, retry, callback) *)
(* run as coroutines beside it.  Every database statement is atomic and is *)
(* a step of its own; between two steps of one actor any other actor may   *)
(* move, because every `await` is a switching point.  No statement carries *)
(* a status condition: each overwrites the columns it names.               *)
(***************************************************************************)
EXTENDS Integers, Sequences, FiniteSets

CONSTANTS
  NumTasks,     \* rows the table may hold; a task is its recid, 1..NumTasks
  Requests,     \* RPC requests that may be in flight at the same time
  Kind,         \* Kind[t]: the handler_type of task t
  NumSteps,     \* length of a pipeline handler's `steps`
  MaxRetries,   \* max_retries of every task
  Deadline,     \* tasks submitted with a timeout_seconds
  Poison,       \* tasks whose handler is gone, or whose start or check may raise
  MaxCrashes,   \* bound: server restarts
  MaxFaults     \* bound: ticks broken off by an exception of a database call

Tasks == 1..NumTasks
Kinds == {"poll", "callback", "pipeline"}
StepIndex == 0..(NumSteps - 1)

ASSUME TaskAssumption ==
  /\ NumTasks \in Nat \ {0} /\ NumSteps \in Nat \ {0} /\ MaxRetries \in Nat
  /\ Kind \in [Tasks -> Kinds]
  /\ Deadline \subseteq Tasks
  /\ Poison \subseteq Tasks
  /\ MaxCrashes \in Nat /\ MaxFaults \in Nat

ActiveStatuses == {"queued", "running", "polling", "waiting"}
Final  == {"completed", "cancelled", "timed_out"}
Status == ActiveStatuses \cup Final \cup {"failed", "absent"}

Event == {"created", "started", "poll_check", "callback_received", "retried",
          "step_started", "step_failed", "step_completed",
          "completed", "failed", "timed_out", "cancelled"}
Outcome == {"pending", "complete", "error"}

(* The columns that decide what happens to a task.  `ctx` is               *)
(* element_result: the steps whose output the stored context holds.  A     *)
(* poll or callback task has one external job, which counts as step 0.     *)
Row == [status : Status, step : 0..NumSteps, retries : 0..MaxRetries,
        ctx : SUBSET StepIndex]
NoRow == [status |-> "absent", step |-> 0, retries |-> 0, ctx |-> {}]

VARIABLES
  task,        \* system_async_tasks
  log,         \* system_async_task_events: the final events recorded per task
  expired,     \* tasks whose timeout_at lies in the past
  registered,  \* has startup() registered the handlers yet
  pc,          \* where the tick coroutine is suspended
  cur,         \* the task the tick is working on
  todo,        \* rows of the snapshot it has not looked at yet
  snap,        \* the rows list_tasks returned at the start of the tick
  due,         \* the tasks timed out at the tick's `now`
  answer,      \* what handler.check answered
  owe,         \* events the tick still has to write before going on
  req,         \* the RPC requests in flight
  runs,        \* history: invocations of each step (or of start)
  granted,     \* history: retries granted per task
  doubled,     \* history: tasks retried on a retry_count that was out of date
  resume,      \* history: tasks retried whose failed step has not rerun yet
  lost,        \* history: tasks an event of which died with its actor
  crashes,     \* bounded counter
  faults       \* bounded counter

tickVars == <<pc, cur, todo, snap, due, answer, owe>>
histVars == <<runs, granted, doubled, resume, lost>>
vars == <<task, log, expired, registered, tickVars, req, histVars, crashes, faults>>

TickState == {"idle", "now", "scan", "starting", "finalize", "step", "stepping"}
IdleReq == [op |-> "idle", on |-> 1, seen |-> 0, answer |-> "pending", owe |-> <<>>]
Request == [op : {"idle", "cancel", "retry", "callback"}, on : Tasks,
            seen : 0..MaxRetries, answer : Outcome, owe : Seq(Event)]

Init ==
  /\ task = [t \in Tasks |-> NoRow]
  /\ log = [t \in Tasks |-> {}]
  /\ expired = {} /\ registered = FALSE
  /\ pc = "idle" /\ cur = 1 /\ todo = {} /\ snap = [t \in Tasks |-> NoRow] /\ due = {}
  /\ answer = "pending" /\ owe = <<>>
  /\ req = [r \in Requests |-> IdleReq]
  /\ runs = [t \in Tasks |-> [i \in StepIndex |-> 0]]
  /\ granted = [t \in Tasks |-> 0] /\ doubled = {}
  /\ resume = {} /\ lost = {}
  /\ crashes = 0 /\ faults = 0

(* The tick coroutine leaves the loop body; its local variables are gone.  *)
TickOver ==
  /\ pc' = "idle" /\ owe' = <<>>
  /\ cur' = 1 /\ todo' = {} /\ snap' = [t \in Tasks |-> NoRow] /\ due' = {}
  /\ answer' = "pending"

SetStatus(t, s) == task' = [task EXCEPT ![t].status = s]

-----------------------------------------------------------------------------
(* The tick loop: _tick_loop, tick_once and the handlers it calls.         *)

TickBegin ==
  /\ pc = "idle"
  /\ pc' = "now" /\ snap' = task /\ todo' = {t \in Tasks : task[t].status # "absent"}
  /\ UNCHANGED <<task, log, expired, registered, cur, due, answer, owe, req, histVars, crashes, faults>>

TickNow ==
  /\ pc = "now"
  /\ pc' = "scan" /\ due' = expired
  /\ UNCHANGED <<task, log, expired, registered, cur, todo, snap, answer, owe, req, histVars, crashes, faults>>

TickEnd ==
  /\ pc = "scan" /\ owe = <<>> /\ todo = {}
  /\ TickOver
  /\ UNCHANGED <<task, log, expired, registered, req, histVars, crashes, faults>>

(* _add_event: the coroutine goes on only when its event is written.  The  *)
(* log keeps the events of final statuses only.                            *)
Logged(t, e) == log' = [log EXCEPT ![t] = @ \cup ({e} \cap Final)]
TickEvent ==
  /\ owe # <<>>
  /\ Logged(cur, Head(owe))
  /\ owe' = Tail(owe)
  /\ UNCHANGED <<task, expired, registered, pc, cur, todo, snap, due, answer, req, histVars, crashes, faults>>

(* The loop body is about to look at row t, and it is worth looking at.    *)
Reached(t) == pc = "scan" /\ owe = <<>> /\ t \in todo /\ \A u \in todo : u <= t
ToWork(t, s) ==
  /\ Reached(t) /\ snap[t].status = s /\ t \notin due
  /\ cur' = t /\ todo' = todo \ {t}

Skip(t) ==
  /\ Reached(t)
  /\ \/ snap[t].status \notin ActiveStatuses
     \/ snap[t].status = "waiting" /\ t \notin due
     \/ snap[t].status = "polling" /\ t \notin due       \* interval not elapsed
  /\ todo' = todo \ {t}
  /\ UNCHANGED <<task, log, expired, registered, pc, cur, snap, due, answer, owe, req, histVars, crashes, faults>>

TimeOut(t) ==
  /\ Reached(t) /\ snap[t].status \in ActiveStatuses /\ t \in due
  /\ SetStatus(t, "timed_out") /\ owe' = <<"timed_out">>
  /\ cur' = t /\ todo' = todo \ {t}
  /\ UNCHANGED <<log, expired, registered, pc, snap, due, answer, req, histVars, crashes, faults>>

(* Mutant: the handler is started before the deadline is looked at.        *)
HandlerRaisesEvenWhenDue(t) ==
  /\ Reached(t)
  /\ snap[t].status \in {"queued", "polling", "running"} /\ (~registered \/ t \in Poison)
  /\ TickOver
  /\ UNCHANGED <<task, log, expired, registered, req, histVars, crashes, faults>>

(* _get_handler, handler.start or handler.check raises, on this tick and   *)
(* perhaps on every later one: the rest of the tick is lost.               *)
HandlerRaises(t) ==
  /\ Reached(t) /\ t \notin due
  /\ snap[t].status \in {"queued", "polling", "running"} /\ (~registered \/ t \in Poison)
  /\ TickOver
  /\ UNCHANGED <<task, log, expired, registered, req, histVars, crashes, faults>>

StartPipeline(t) ==
  /\ ToWork(t, "queued") /\ registered /\ Kind[t] = "pipeline"
  /\ SetStatus(t, "running") /\ owe' = <<"started">>
  /\ UNCHANGED <<log, expired, registered, pc, snap, due, answer, req, histVars, crashes, faults>>

StartJob(t) ==
  /\ ToWork(t, "queued") /\ registered /\ Kind[t] # "pipeline"
  /\ runs' = [runs EXCEPT ![t][0] = @ + 1]
  /\ pc' = "starting"
  /\ UNCHANGED <<task, log, expired, registered, snap, due, answer, owe, req, granted, doubled, resume, lost, crashes, faults>>

JobStarted ==
  /\ pc = "starting"
  /\ SetStatus(cur, IF Kind[cur] = "poll" THEN "polling" ELSE "waiting")
  /\ owe' = <<"started">> /\ pc' = "scan"
  /\ UNCHANGED <<log, expired, registered, cur, todo, snap, due, answer, req, histVars, crashes, faults>>

CheckJob(t) ==
  /\ ToWork(t, "polling") /\ registered
  /\ answer' \in Outcome
  /\ owe' = <<"poll_check">> /\ pc' = "finalize"
  /\ UNCHANGED <<task, log, expired, registered, snap, due, req, histVars, crashes, faults>>

(* _finalize_from_handler_result, shared by the tick and by callbacks.     *)
Finalized(row, a) ==
  CASE a = "error" -> [row EXCEPT !.status = "failed"]
    [] a = "complete" -> [row EXCEPT !.status = "completed", !.ctx = {0}]
    [] OTHER -> row

FinalEvents(a) ==
  CASE a = "error" -> <<"failed">>
    [] a = "complete" -> <<"completed">>
    [] OTHER -> <<>>

JobChecked ==
  /\ pc = "finalize" /\ owe = <<>>
  /\ task' = [task EXCEPT ![cur] = Finalized(@, answer)]
  /\ owe' = FinalEvents(answer) /\ pc' = "scan"
  /\ UNCHANGED <<log, expired, registered, cur, todo, snap, due, answer, req, histVars, crashes, faults>>

(* A running pipeline past its last step (a stale retry leaves one).       *)
PastLastStep(t) ==
  /\ ToWork(t, "running") /\ registered /\ snap[t].step >= NumSteps
  /\ SetStatus(t, "completed") /\ owe' = <<"completed">>
  /\ UNCHANGED <<log, expired, registered, pc, snap, due, answer, req, histVars, crashes, faults>>

(* The write of current_step, which changes nothing the model keeps.       *)
StepMarked(t) ==
  /\ ToWork(t, "running") /\ registered /\ snap[t].step < NumSteps
  /\ owe' = <<"step_started">> /\ pc' = "step"
  /\ UNCHANGED <<task, log, expired, registered, snap, due, answer, req, histVars, crashes, faults>>

StepCalled ==
  /\ pc = "step" /\ owe = <<>>
  /\ runs' = [runs EXCEPT ![cur][snap[cur].step] = @ + 1]
  /\ resume' = resume \ {cur}
  /\ pc' = "stepping"
  /\ UNCHANGED <<task, log, expired, registered, cur, todo, snap, due, answer, owe, req, granted, doubled, lost, crashes, faults>>

StepFailed ==
  /\ pc = "stepping"
  /\ SetStatus(cur, "failed") /\ owe' = <<"step_failed">> /\ pc' = "scan"
  /\ UNCHANGED <<log, expired, registered, cur, todo, snap, due, answer, req, histVars, crashes, faults>>

(* Mutants: the step's result replaces the context instead of joining it;  *)
(* the last step is taken for done one step early.                         *)
StepDoneWithoutMerge ==
  /\ pc = "stepping"
  /\ LET next == snap[cur].step + 1
     IN task' = [task EXCEPT ![cur] =
          [@ EXCEPT !.status = IF next >= NumSteps THEN "completed" ELSE "running",
                    !.step = next, !.ctx = {snap[cur].step}]]
  /\ owe' = <<"step_completed">> /\ pc' = "scan"
  /\ UNCHANGED <<log, expired, registered, cur, todo, snap, due, answer, req, histVars, crashes, faults>>
StepDoneOneEarly ==
  /\ pc = "stepping"
  /\ LET next == snap[cur].step + 1
     IN task' = [task EXCEPT ![cur] =
          [@ EXCEPT !.status = IF next >= NumSteps - 1 THEN "completed" ELSE "running",
                    !.step = next, !.ctx = snap[cur].ctx \cup {snap[cur].step}]]
  /\ owe' = <<"step_completed">> /\ pc' = "scan"
  /\ UNCHANGED <<log, expired, registered, cur, todo, snap, due, answer, req, histVars, crashes, faults>>

StepDone ==
  /\ pc = "stepping"
  /\ LET next == snap[cur].step + 1
         over == next >= NumSteps
     IN /\ task' = [task EXCEPT ![cur] =
             [@ EXCEPT !.status = IF over THEN "completed" ELSE "running",
                       !.step = next,
                       !.ctx = snap[cur].ctx \cup {snap[cur].step}]]
        /\ owe' = IF over THEN <<"step_completed", "completed">> ELSE <<"step_completed">>
  /\ pc' = "scan"
  /\ UNCHANGED <<log, expired, registered, cur, todo, snap, due, answer, req, histVars, crashes, faults>>

(* Any database call of the tick may raise; _tick_loop logs and goes on.   *)
TickFault ==
  /\ pc # "idle" /\ faults < MaxFaults
  /\ faults' = faults + 1
  /\ TickOver
  /\ lost' = IF owe = <<>> THEN lost ELSE lost \cup {cur}
  /\ UNCHANGED <<task, log, expired, registered, req, runs, granted, doubled, resume, crashes>>

TickStep ==
  \/ TickBegin \/ TickNow \/ TickEnd \/ TickEvent
  \/ JobStarted \/ JobChecked \/ StepCalled \/ StepFailed \/ StepDone
  \/ \E t \in Tasks : \/ Skip(t) \/ TimeOut(t) \/ HandlerRaises(t)
                      \/ StartPipeline(t) \/ StartJob(t) \/ CheckJob(t)
                      \/ PastLastStep(t) \/ StepMarked(t)

-----------------------------------------------------------------------------
(* RPC requests.  A request that is refused changes nothing and is left    *)
(* out: a request exists from the read that lets it go on.                 *)

Free(r) == req[r] = IdleReq
Sends(r, op, t, a, events) ==
  /\ Free(r)
  /\ req' = [req EXCEPT ![r] = [op |-> op, on |-> t, seen |-> task[t].retries,
                                answer |-> a, owe |-> events]]
Ready(r, op) == req[r].op = op /\ req[r].owe = <<>>
Answers(r, events) == req' = [req EXCEPT ![r].op = "idle", ![r].owe = events]

Submit(r, t) ==
  /\ registered /\ Free(r)
  /\ task[t].status = "absent" /\ \A u \in Tasks : u < t => task[u].status # "absent"
  /\ SetStatus(t, "queued")
  /\ Sends(r, "idle", t, "pending", <<"created">>)
  /\ UNCHANGED <<log, expired, registered, tickVars, histVars, crashes, faults>>

(* Mutant: a completed task is not recognised as final.                    *)
CancelReadOfCompleted(r, t) ==
  /\ task[t].status \notin {"cancelled", "timed_out", "absent"}
  /\ Sends(r, "cancel", t, "pending", <<>>)
  /\ UNCHANGED <<task, log, expired, registered, tickVars, histVars, crashes, faults>>

CancelRead(r, t) ==
  /\ task[t].status \notin Final \cup {"absent"}
  /\ Sends(r, "cancel", t, "pending", <<>>)
  /\ UNCHANGED <<task, log, expired, registered, tickVars, histVars, crashes, faults>>

(* Mutant: the cancel writes no event.                                     *)
CancelWriteUnlogged(r) ==
  /\ Ready(r, "cancel")
  /\ SetStatus(req[r].on, "cancelled")
  /\ Answers(r, <<>>)
  /\ UNCHANGED <<log, expired, registered, tickVars, histVars, crashes, faults>>

CancelWrite(r) ==
  /\ Ready(r, "cancel")
  /\ SetStatus(req[r].on, "cancelled")
  /\ Answers(r, <<"cancelled">>)
  /\ UNCHANGED <<log, expired, registered, tickVars, histVars, crashes, faults>>

RetryRead(r, t) ==
  /\ task[t].status = "failed" /\ registered /\ Kind[t] = "pipeline"
  /\ task[t].retries < MaxRetries
  /\ Sends(r, "retry", t, "pending", <<>>)
  /\ UNCHANGED <<task, log, expired, registered, tickVars, histVars, crashes, faults>>

(* Mutants: the retry is not counted; the retry starts from scratch.       *)
RetryWriteUncounted(r) ==
  /\ Ready(r, "retry")
  /\ LET t == req[r].on
     IN /\ SetStatus(t, "running")
        /\ granted' = [granted EXCEPT ![t] = @ + 1]
        /\ doubled' = IF task[t].retries = req[r].seen THEN doubled ELSE doubled \cup {t}
        /\ resume' = resume \cup {t}
  /\ Answers(r, <<"retried">>)
  /\ UNCHANGED <<log, expired, registered, tickVars, runs, lost, crashes, faults>>
RetryWriteFromScratch(r) ==
  /\ Ready(r, "retry")
  /\ LET t == req[r].on
     IN /\ task' = [task EXCEPT ![t] = [NoRow EXCEPT !.status = "running", !.retries = req[r].seen + 1]]
        /\ granted' = [granted EXCEPT ![t] = @ + 1]
        /\ doubled' = IF task[t].retries = req[r].seen THEN doubled ELSE doubled \cup {t}
        /\ resume' = resume \cup {t}
  /\ Answers(r, <<"retried">>)
  /\ UNCHANGED <<log, expired, registered, tickVars, runs, lost, crashes, faults>>

RetryWrite(r) ==
  /\ Ready(r, "retry")
  /\ LET t == req[r].on
     IN /\ task' = [task EXCEPT ![t].status = "running", ![t].retries = req[r].seen + 1]
        /\ granted' = [granted EXCEPT ![t] = @ + 1]
        /\ doubled' = IF task[t].retries = req[r].seen THEN doubled ELSE doubled \cup {t}
        /\ resume' = resume \cup {t}
  /\ Answers(r, <<"retried">>)
  /\ UNCHANGED <<log, expired, registered, tickVars, runs, lost, crashes, faults>>

CallbackRead(r, t) ==
  /\ task[t].status = "waiting" /\ registered /\ Kind[t] = "callback"
  /\ \E a \in Outcome : Sends(r, "callback", t, a, <<"callback_received">>)
  /\ UNCHANGED <<task, log, expired, registered, tickVars, histVars, crashes, faults>>

CallbackWrite(r) ==
  /\ Ready(r, "callback")
  /\ task' = [task EXCEPT ![req[r].on] = Finalized(@, req[r].answer)]
  /\ Answers(r, FinalEvents(req[r].answer))
  /\ UNCHANGED <<log, expired, registered, tickVars, histVars, crashes, faults>>

RequestEvent(r) ==
  /\ req[r].owe # <<>>
  /\ Logged(req[r].on, Head(req[r].owe))
  /\ req' = [req EXCEPT ![r].owe = Tail(@)]
  /\ UNCHANGED <<task, expired, registered, tickVars, histVars, crashes, faults>>

(* The response leaves; the slot is free for another request.              *)
RequestEnd(r) ==
  /\ Ready(r, "idle") /\ ~Free(r)
  /\ req' = [req EXCEPT ![r] = IdleReq]
  /\ UNCHANGED <<task, log, expired, registered, tickVars, histVars, crashes, faults>>

RequestGoesOn(r) ==
  CancelWrite(r) \/ RetryWrite(r) \/ CallbackWrite(r) \/ RequestEvent(r) \/ RequestEnd(r)

-----------------------------------------------------------------------------
(* The clock and the life of the process.                                  *)

Expire(t) ==
  /\ t \in Deadline \ expired /\ task[t].status # "absent"
  /\ expired' = expired \cup {t}
  /\ UNCHANGED <<task, log, registered, tickVars, req, histVars, crashes, faults>>

(* startup() starts the loop first and registers the handlers later.       *)
RegisterHandlers ==
  /\ ~registered
  /\ registered' = TRUE
  /\ UNCHANGED <<task, log, expired, tickVars, req, histVars, crashes, faults>>

Owing(r) == req[r].owe # <<>>
Crash ==
  /\ crashes < MaxCrashes
  /\ crashes' = crashes + 1
  /\ registered' = FALSE
  /\ TickOver
  /\ req' = [r \in Requests |-> IdleReq]
  /\ lost' = lost \cup {req[r].on : r \in {q \in Requests : Owing(q)}}
                  \cup (IF owe = <<>> THEN {} ELSE {cur})
  /\ UNCHANGED <<task, log, expired, runs, granted, doubled, resume, faults>>

Next ==
  \/ TickStep \/ TickFault
  \/ \E r \in Requests :
       \/ RequestGoesOn(r)
       \/ \E t \in Tasks : Submit(r, t) \/ CancelRead(r, t) \/ RetryRead(r, t) \/ CallbackRead(r, t)
  \/ \E t \in Tasks : Expire(t)
  \/ RegisterHandlers \/ Crash

Spec == Init /\ [][Next]_vars

(* asyncio runs every ready coroutine, database calls and handlers return, *)
(* startup finishes and time passes.  Nobody has to send a request, and    *)
(* nothing has to fail.                                                    *)
Fairness ==
  /\ WF_vars(TickStep)
  /\ \A r \in Requests : WF_vars(RequestGoesOn(r))
  /\ \A t \in Deadline : WF_vars(Expire(t))
  /\ WF_vars(RegisterHandlers)

FairSpec == Spec /\ Fairness

-----------------------------------------------------------------------------
(* Properties.                                                             *)

(* Every variable stays in its type; in particular a stored retry_count    *)
(* never exceeds max_retries.                                              *)
TypeOK ==
  /\ task \in [Tasks -> Row] /\ log \in [Tasks -> SUBSET Final]
  /\ expired \subseteq Deadline /\ registered \in BOOLEAN
  /\ pc \in TickState /\ cur \in Tasks /\ todo \subseteq Tasks
  /\ snap \in [Tasks -> Row] /\ due \subseteq Tasks
  /\ answer \in Outcome /\ owe \in Seq(Event)
  /\ req \in [Requests -> Request]
  /\ runs \in [Tasks -> [StepIndex -> Nat]] /\ granted \in [Tasks -> Nat]
  /\ doubled \subseteq Tasks
  /\ resume \subseteq Tasks /\ lost \subseteq Tasks
  /\ crashes \in 0..MaxCrashes /\ faults \in 0..MaxFaults

(* The context a pipeline carries from step to step holds the output of    *)
(* exactly the steps before step_index, whatever crashes, cancels, retries *)
(* and timeouts hit it: no output is lost and none appears early.          *)
ContextMatchesStep ==
  \A t \in Tasks : Kind[t] = "pipeline" => task[t].ctx = 0..(task[t].step - 1)

(* A pipeline never loses ground: no write, however stale, takes its       *)
(* step_index back; a retry resumes at the failed step.                    *)
StepNeverGoesBack ==
  [][\A t \in Tasks : Kind[t] = "pipeline" => task'[t].step >= task[t].step]_vars

(* A pipeline marked completed has run every step and holds every output,  *)
(* even when two retries or a cancel raced with its last step.             *)
CompletedRanEveryStep ==
  \A t \in Tasks : task[t].status = "completed" /\ Kind[t] = "pipeline" =>
    task[t].ctx = StepIndex /\ \A i \in StepIndex : runs[t][i] > 0

(* Steps are executed at least once, never at will: each execution of a    *)
(* step (or of a poll or callback handler's start) beyond the first is     *)
(* paid for by a retry, a restart or a tick that broke off.  A start that  *)
(* raises is not counted; it is made again on every tick.                  *)
RerunsAreAccountedFor ==
  \A t \in Tasks, i \in StepIndex : runs[t][i] <= 1 + granted[t] + crashes + faults

(* How often steps are run: each one of a completed pipeline at least      *)
(* once, and again only for a retry, a restart or a tick that broke off.   *)
ExecutionsAreAccountedFor == CompletedRanEveryStep /\ RerunsAreAccountedFor

(* The audit trail: a final status has its event, unless the actor that    *)
(* wrote the status still owes it or died in between.                      *)
Owes(t, e) ==
  \/ cur = t /\ \E i \in DOMAIN owe : owe[i] = e
  \/ \E r \in Requests : req[r].on = t /\ \E i \in DOMAIN req[r].owe : req[r].owe[i] = e
FinalStatusIsLogged ==
  \A t \in Tasks : task[t].status \in Final =>
    task[t].status \in log[t] \/ Owes(t, task[t].status) \/ t \in lost

(* Retries are limited by max_retries, and retry_count counts them, unless *)
(* two requests retried a task on the same count: both are granted, the    *)
(* second without being counted.                                           *)
RetryBudget ==
  \A t \in Tasks \ doubled : granted[t] = task[t].retries /\ granted[t] <= MaxRetries

(* A task is quiet when its status is final and no coroutine holds a row   *)
(* of it read before that.                                                 *)
TickHolds(t) ==
  \/ pc \in {"starting", "finalize", "step", "stepping"} /\ cur = t
  \/ pc # "idle" /\ t \in todo /\ snap[t].status \in ActiveStatuses
Quiet(t) ==
  /\ task[t].status \in Final
  /\ ~TickHolds(t)
  /\ \A r \in Requests : req[r].op # "idle" => req[r].on # t

(* A final status is only ever overwritten by an actor that read the task  *)
(* before: once the task is quiet it stays exactly as it is.               *)
QuietIsStable == [][\A t \in Tasks : Quiet(t) => Quiet(t)' /\ task'[t] = task[t]]_vars

(* RPC.md: "Cancel a queued/running/polling/waiting task."  Read as: a     *)
(* cancelled task stays cancelled.  The write that ends a step in flight   *)
(* overwrites it.                                                          *)
CancelIsFinal ==
  [][\A t \in Tasks : task[t].status = "cancelled" => task'[t].status = "cancelled"]_vars

(* A task with a timeout, and a pipeline, does not stay active for ever,   *)
(* also behind a newer task whose handler raises on every tick and which   *)
(* has a timeout.  No such promise is made to a task at or behind one that *)
(* raises and has none: tick_once gives up there on every tick, and what   *)
(* is older is never looked at again.                                      *)
Starved(t) == \E p \in Poison \ Deadline : p >= t
Settling == {t \in Tasks : (t \in Deadline \/ Kind[t] = "pipeline") /\ ~Starved(t)}
EveryTaskSettles ==
  \A t \in Settling : task[t].status \in ActiveStatuses ~> task[t].status \notin ActiveStatuses
=============================================================================
