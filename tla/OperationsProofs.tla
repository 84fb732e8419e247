-------------------------- MODULE OperationsProofs --------------------------
(***************************************************************************)
(* What TLAPS proves about the long tasks and about what accountants set up, *)
(* for every value of the constants: AsyncTask and FinanceOffice, which      *)
(* share no variable.                                                        *)
(***************************************************************************)
EXTENDS AsyncTask, FinanceOffice, FiniteSetTheorems, TLAPS

(***************************************************************************)
(* AsyncTask: for any number of tasks, requests, pipeline steps, restarts    *)
(* and broken ticks.                                                         *)
(***************************************************************************)

(* A row agrees with the handler type of its task, and the context of a    *)
(* pipeline's row holds the steps before its step_index.                   *)
Routed(t, row) ==
  /\ row.status = "running" => Kind[t] = "pipeline"
  /\ row.status = "polling" => Kind[t] = "poll"
  /\ Kind[t] = "pipeline" => row.ctx = 0..(row.step - 1)

RowsRouted == \A t \in Tasks : Routed(t, task[t]) /\ Routed(t, snap[t])

(* Where the tick coroutine is fits the handler type it works for.         *)
TickRouted ==
  /\ pc \in {"starting", "finalize"} => Kind[cur] # "pipeline"
  /\ pc \in {"step", "stepping"} => Kind[cur] = "pipeline" /\ snap[cur].step < NumSteps

RequestsRouted ==
  \A r \in Requests :
    /\ req[r].op = "retry" => Kind[req[r].on] = "pipeline" /\ req[r].seen < MaxRetries
    /\ req[r].op = "callback" => Kind[req[r].on] = "callback"

(* Only the tick moves step_index, so its snapshot is never behind there.  *)
SnapshotFresh ==
  /\ \A t \in todo : Kind[t] = "pipeline" => snap[t].step = task[t].step
  /\ pc \in {"step", "stepping"} => snap[cur].step = task[cur].step /\ cur \notin todo

Inv == TypeOK /\ RowsRouted /\ TickRouted /\ RequestsRouted /\ SnapshotFresh

-----------------------------------------------------------------------------
(* Lemmas about the data.                                                  *)

LEMMA EmptyRow == NoRow \in Row /\ \A t \in Tasks : Routed(t, NoRow)
  BY TaskAssumption DEF NoRow, Row, Status, ActiveStatuses, Final, Routed, StepIndex

LEMMA IdleRequest == IdleReq \in Request /\ IdleReq.op = "idle"
<1>1. 1 \in Tasks /\ 0 \in 0..MaxRetries /\ "pending" \in Outcome /\ <<>> \in Seq(Event)
  BY TaskAssumption DEF Tasks, Outcome
<1>2. QED
  BY <1>1 DEF IdleReq, Request

LEMMA EventLists ==
  \A e, f \in Event : <<>> \in Seq(Event) /\ <<e>> \in Seq(Event) /\ <<e, f>> \in Seq(Event)
  OBVIOUS

LEMMA EventTail == \A s \in Seq(Event) : s # <<>> => Head(s) \in Event /\ Tail(s) \in Seq(Event)
  OBVIOUS

LEMMA EventNames ==
  /\ "created" \in Event /\ "started" \in Event /\ "poll_check" \in Event
  /\ "callback_received" \in Event /\ "retried" \in Event /\ "step_started" \in Event
  /\ "step_failed" \in Event /\ "step_completed" \in Event /\ "completed" \in Event
  /\ "failed" \in Event /\ "timed_out" \in Event /\ "cancelled" \in Event
  BY DEF Event

LEMMA StatusNames ==
  /\ "queued" \in Status /\ "running" \in Status /\ "polling" \in Status
  /\ "waiting" \in Status /\ "completed" \in Status /\ "cancelled" \in Status
  /\ "timed_out" \in Status /\ "failed" \in Status /\ "absent" \in Status
  BY DEF Status, ActiveStatuses, Final

(* What is left of a row when its status or its step is written.           *)
LEMMA RowFields ==
  \A row \in Row : /\ row.status \in Status /\ row.step \in 0..NumSteps
                    /\ row.retries \in 0..MaxRetries /\ row.ctx \in SUBSET StepIndex
  BY DEF Row

LEMMA StatusKeepsStep ==
  ASSUME task \in [Tasks -> Row], NEW u \in Tasks, NEW s, SetStatus(u, s), NEW t \in Tasks
  PROVE  task'[t].step = task[t].step
  BY DEF SetStatus, Row

LEMMA RetriedRow ==
  ASSUME NEW row \in Row, NEW n \in 0..MaxRetries
  PROVE  LET new == [row EXCEPT !.status = "running", !.retries = n]
         IN  /\ new \in Row /\ new.status = "running" /\ new.retries = n
             /\ new.step = row.step /\ new.ctx = row.ctx
  BY StatusNames DEF Row

(* A statement that sets nothing but the status.                           *)
LEMMA StatusWrite ==
  ASSUME task \in [Tasks -> Row], \A u \in Tasks : Routed(u, task[u]),
         NEW t \in Tasks, NEW s \in Status, SetStatus(t, s),
         s = "running" => Kind[t] = "pipeline",
         s = "polling" => Kind[t] = "poll"
  PROVE  /\ task' \in [Tasks -> Row]
         /\ \A u \in Tasks : Routed(u, task'[u]) /\ task'[u].step = task[u].step
         /\ \A u \in Tasks \ {t} : task'[u] = task[u]
         /\ task'[t].status = s
  BY DEF SetStatus, Routed, Row

(* Finalising a task that is no pipeline.                                  *)
LEMMA FinalWrite ==
  ASSUME NEW row \in Row, NEW t \in Tasks, NEW a \in Outcome, Routed(t, row), Kind[t] # "pipeline"
  PROVE  /\ Finalized(row, a) \in Row /\ Routed(t, Finalized(row, a))
         /\ Finalized(row, a).step = row.step
         /\ FinalEvents(a) \in Seq(Event)
<1>1. 0 \in StepIndex
  BY TaskAssumption DEF StepIndex
<1>2. CASE a = "error"
  BY <1>2, StatusNames, EventLists, EventNames DEF Finalized, FinalEvents, Routed, Row
<1>3. CASE a = "complete"
  BY <1>1, <1>3, StatusNames, EventLists, EventNames DEF Finalized, FinalEvents, Routed, Row
<1>4. CASE a = "pending"
  BY <1>4, EventLists, EventNames DEF Finalized, FinalEvents
<1>5. QED
  BY <1>2, <1>3, <1>4 DEF Outcome

-----------------------------------------------------------------------------
(* The invariant holds initially and every step keeps it.                  *)

LEMMA InitInv == Init => Inv
<1> SUFFICES ASSUME Init PROVE Inv
  OBVIOUS
<1>1. TypeOK
  <2>2. 1 \in Tasks /\ 0 \in 0..MaxCrashes /\ 0 \in 0..MaxFaults /\ 0 \in Nat
    BY TaskAssumption DEF Tasks
  <2>3. "idle" \in TickState /\ "pending" \in Outcome /\ <<>> \in Seq(Event)
    BY DEF TickState, Outcome
  <2>4. QED
    BY <2>2, <2>3, EmptyRow, IdleRequest DEF Init, TypeOK
<1>2. RowsRouted
  BY EmptyRow DEF Init, RowsRouted
<1>3. TickRouted /\ RequestsRouted /\ SnapshotFresh
  BY DEF Init, TickRouted, RequestsRouted, SnapshotFresh, IdleReq
<1>4. QED
  BY <1>1, <1>2, <1>3 DEF Inv

(* A tick that ends or breaks off only forgets.                            *)
LEMMA TickOverInv ==
  ASSUME Inv, TickOver, UNCHANGED <<task, log, expired, runs, granted, doubled, resume>>,
         registered' \in BOOLEAN,
         req' \in [Requests -> Request], RequestsRouted', lost' \subseteq Tasks,
         crashes' \in 0..MaxCrashes, faults' \in 0..MaxFaults
  PROVE  Inv'
<1>1. TypeOK'
  BY TaskAssumption, EmptyRow, EventLists, EventNames
  DEF Inv, TypeOK, TickOver, TickState, Tasks, Outcome
<1>2. RowsRouted'
  BY EmptyRow DEF Inv, RowsRouted, TickOver
<1>3. TickRouted' /\ SnapshotFresh'
  BY DEF TickOver, TickRouted, SnapshotFresh
<1>4. QED
  BY <1>1, <1>2, <1>3 DEF Inv

LEMMA TickInv == Inv /\ TickStep => Inv'
<1> SUFFICES ASSUME Inv, TickStep PROVE Inv'
  OBVIOUS
<1> USE DEF Inv, TypeOK, RowsRouted, TickRouted, RequestsRouted, SnapshotFresh, TickState, histVars
<1>1. CASE TickBegin
  BY <1>1 DEF TickBegin
<1>2. CASE TickNow
  BY <1>2, TaskAssumption DEF TickNow
<1>3. CASE TickEnd
  BY <1>3, TickOverInv DEF TickEnd
<1>4. CASE TickEvent
  BY <1>4, EventTail DEF TickEvent, Logged
<1>5. CASE JobStarted
  <2> DEFINE s == IF Kind[cur] = "poll" THEN "polling" ELSE "waiting"
  <2>1. s \in Status /\ (s = "running" => Kind[cur] = "pipeline") /\ (s = "polling" => Kind[cur] = "poll")
    BY StatusNames
  <2>2. SetStatus(cur, s)
    BY <1>5 DEF JobStarted
  <2> HIDE DEF s
  <2>3. /\ task' \in [Tasks -> Row]
        /\ \A u \in Tasks : Routed(u, task'[u]) /\ task'[u].step = task[u].step
    BY <2>1, <2>2, StatusWrite
  <2>4. QED
    BY <1>5, <2>3, EventLists, EventNames DEF JobStarted
<1>6. CASE JobChecked
  <2>1. /\ Finalized(task[cur], answer) \in Row /\ Routed(cur, Finalized(task[cur], answer))
        /\ Finalized(task[cur], answer).step = task[cur].step
        /\ FinalEvents(answer) \in Seq(Event)
    BY <1>6, FinalWrite DEF JobChecked
  <2>2. QED
    BY <1>6, <2>1 DEF JobChecked
<1>7. CASE StepCalled
  <2>1. cur \in Tasks /\ snap[cur].step \in StepIndex
    BY <1>7, TaskAssumption DEF StepCalled, Row, StepIndex
  <2>2. runs' \in [Tasks -> [StepIndex -> Nat]]
    <3>1. runs[cur] \in [StepIndex -> Nat] /\ runs[cur][snap[cur].step] + 1 \in Nat
      BY <2>1
    <3>2. runs' = [runs EXCEPT ![cur] = [runs[cur] EXCEPT ![snap[cur].step] = @ + 1]]
      BY <1>7 DEF StepCalled
    <3>3. QED
      BY <2>1, <3>1, <3>2
  <2>3. QED
    BY <1>7, <2>2 DEF StepCalled
<1>8. CASE StepFailed
  <2>1. /\ task' \in [Tasks -> Row]
        /\ \A u \in Tasks : Routed(u, task'[u]) /\ task'[u].step = task[u].step
    BY <1>8, StatusWrite, StatusNames DEF StepFailed
  <2>2. QED
    BY <1>8, <2>1, EventLists, EventNames DEF StepFailed
<1>9. CASE StepDone
  <2> DEFINE next == snap[cur].step + 1
             s == IF next >= NumSteps THEN "completed" ELSE "running"
             c == snap[cur].ctx \cup {snap[cur].step}
             row == [task[cur] EXCEPT !.status = s, !.step = next, !.ctx = c]
  <2>1. task' = [task EXCEPT ![cur] = row]
    BY <1>9 DEF StepDone
  <2>2. owe' \in Seq(Event) /\ pc' = "scan" /\ UNCHANGED <<cur, todo, snap>>
    BY <1>9, EventLists, EventNames DEF StepDone
  <2>3. snap[cur] \in Row /\ task[cur] \in Row /\ Kind[cur] = "pipeline"
        /\ snap[cur].step \in 0..(NumSteps - 1) /\ snap[cur].ctx = 0..(snap[cur].step - 1)
    <3>1. snap[cur] \in Row /\ task[cur] \in Row
      OBVIOUS
    <3>2. Kind[cur] = "pipeline" /\ snap[cur].step < NumSteps
      BY <1>9 DEF StepDone
    <3>3. snap[cur].ctx = 0..(snap[cur].step - 1)
      BY <3>2 DEF Routed
    <3>4. QED
      BY <3>1, <3>2, <3>3, RowFields, TaskAssumption
  <2>4. s \in Status /\ s # "polling"
    BY StatusNames
  <2>5. next \in 0..NumSteps /\ c = 0..(next - 1) /\ c \in SUBSET StepIndex
    <3>1. next \in 0..NumSteps
      BY <2>3, TaskAssumption
    <3>2. c = 0..(next - 1)
      BY <2>3
    <3> HIDE DEF c, next
    <3>3. QED
      BY <3>1, <3>2, TaskAssumption DEF StepIndex
  <2> HIDE DEF s, c, next
  <2>6. row \in Row /\ row.status = s /\ row.step = next /\ row.ctx = c
    BY <2>3, <2>4, <2>5 DEF Row
  <2> HIDE DEF row
  <2>7. Routed(cur, row)
    BY <2>3, <2>4, <2>5, <2>6 DEF Routed
  <2>8. SnapshotFresh'
    BY <1>9, <2>1, <2>2 DEF StepDone
  <2>9. QED
    BY <1>9, <2>1, <2>2, <2>6, <2>7, <2>8 DEF StepDone
<1>10. ASSUME NEW t \in Tasks, Skip(t) PROVE Inv'
  BY <1>10 DEF Skip, Reached
<1>11. ASSUME NEW t \in Tasks, TimeOut(t) PROVE Inv'
  <2>1. /\ task' \in [Tasks -> Row]
        /\ \A u \in Tasks : Routed(u, task'[u]) /\ task'[u].step = task[u].step
    BY <1>11, StatusWrite, StatusNames DEF TimeOut
  <2>2. QED
    BY <1>11, <2>1, EventLists, EventNames DEF TimeOut, Reached
<1>12. ASSUME NEW t \in Tasks, HandlerRaises(t) PROVE Inv'
  BY <1>12, TickOverInv DEF HandlerRaises
<1>13. ASSUME NEW t \in Tasks, StartPipeline(t) PROVE Inv'
  <2>1. /\ task' \in [Tasks -> Row]
        /\ \A u \in Tasks : Routed(u, task'[u]) /\ task'[u].step = task[u].step
    BY <1>13, StatusWrite, StatusNames DEF StartPipeline
  <2>2. QED
    BY <1>13, <2>1, EventLists, EventNames DEF StartPipeline, ToWork, Reached
<1>14. ASSUME NEW t \in Tasks, StartJob(t) PROVE Inv'
  <2>1. 0 \in StepIndex
    BY TaskAssumption DEF StepIndex
  <2>2. runs' \in [Tasks -> [StepIndex -> Nat]]
    BY <1>14, <2>1 DEF StartJob
  <2>3. QED
    BY <1>14, <2>2 DEF StartJob, ToWork, Reached
<1>15. ASSUME NEW t \in Tasks, CheckJob(t) PROVE Inv'
  BY <1>15, EventLists, EventNames DEF CheckJob, ToWork, Reached, Routed
<1>16. ASSUME NEW t \in Tasks, PastLastStep(t) PROVE Inv'
  <2>1. /\ task' \in [Tasks -> Row]
        /\ \A u \in Tasks : Routed(u, task'[u]) /\ task'[u].step = task[u].step
    BY <1>16, StatusWrite, StatusNames DEF PastLastStep
  <2>2. QED
    BY <1>16, <2>1, EventLists, EventNames DEF PastLastStep, ToWork, Reached
<1>17. ASSUME NEW t \in Tasks, StepMarked(t) PROVE Inv'
  BY <1>17, EventLists, EventNames DEF StepMarked, ToWork, Reached, Routed
<1>18. QED
  BY <1>1, <1>2, <1>3, <1>4, <1>5, <1>6, <1>7, <1>8, <1>9, <1>10, <1>11, <1>12,
     <1>13, <1>14, <1>15, <1>16, <1>17 DEF TickStep

LEMMA RequestInv ==
  ASSUME NEW r \in Requests, NEW t \in Tasks, Inv,
         \/ RequestGoesOn(r) \/ Submit(r, t) \/ CancelRead(r, t)
         \/ RetryRead(r, t) \/ CallbackRead(r, t)
  PROVE  Inv'
<1> USE DEF Inv, TypeOK, RowsRouted, TickRouted, RequestsRouted, SnapshotFresh, tickVars, histVars
<1>0. /\ req[r] \in Request /\ task[t] \in Row /\ task[t].retries \in 0..MaxRetries
      /\ req[r].on \in Tasks /\ req[r].owe \in Seq(Event) /\ req[r].answer \in Outcome
      /\ req[r].seen \in 0..MaxRetries
  BY DEF Request, Row
<1>a. ASSUME NEW op \in {"idle", "cancel", "retry", "callback"}, NEW u \in Tasks,
             NEW k \in 0..MaxRetries, NEW a \in Outcome, NEW es \in Seq(Event)
      PROVE  [op |-> op, on |-> u, seen |-> k, answer |-> a, owe |-> es] \in Request
  BY DEF Request
<1>b. ASSUME NEW es \in Seq(Event)
      PROVE  /\ [req[r] EXCEPT !.owe = es] \in Request
             /\ [req[r] EXCEPT !.op = "idle", !.owe = es] \in Request
             /\ [req[r] EXCEPT !.owe = es].op = req[r].op
             /\ [req[r] EXCEPT !.owe = es].on = req[r].on
             /\ [req[r] EXCEPT !.owe = es].seen = req[r].seen
             /\ [req[r] EXCEPT !.op = "idle", !.owe = es].op = "idle"
  BY <1>0 DEF Request
<1>1. CASE Submit(r, t)
  <2>1. /\ task' \in [Tasks -> Row]
        /\ \A u \in Tasks : Routed(u, task'[u]) /\ task'[u].step = task[u].step
    BY <1>1, StatusWrite, StatusNames DEF Submit
  <2>2. req' \in [Requests -> Request] /\ RequestsRouted'
    BY <1>0, <1>1, <1>a, EventLists, EventNames DEF Submit, Sends, Outcome
  <2>3. QED
    BY <1>1, <2>1, <2>2 DEF Submit
<1>2. CASE CancelRead(r, t)
  <2>1. req' \in [Requests -> Request] /\ RequestsRouted'
    BY <1>0, <1>2, <1>a, EventLists, EventNames DEF CancelRead, Sends, Outcome
  <2>2. QED
    BY <1>2, <2>1 DEF CancelRead
<1>3. CASE RetryRead(r, t)
  <2>1. req' \in [Requests -> Request] /\ RequestsRouted'
    BY <1>0, <1>3, <1>a, EventLists, EventNames DEF RetryRead, Sends, Outcome
  <2>2. QED
    BY <1>3, <2>1 DEF RetryRead
<1>4. CASE CallbackRead(r, t)
  <2>1. req' \in [Requests -> Request] /\ RequestsRouted'
    <3>1. PICK a \in Outcome : Sends(r, "callback", t, a, <<"callback_received">>)
      BY <1>4 DEF CallbackRead
    <3>2. Kind[t] = "callback" /\ <<"callback_received">> \in Seq(Event)
      BY <1>4, EventLists, EventNames DEF CallbackRead
    <3>3. QED
      BY <1>0, <1>a, <3>1, <3>2 DEF Sends
  <2>2. QED
    BY <1>4, <2>1 DEF CallbackRead
<1>5. CASE CancelWrite(r)
  <2>1. /\ task' \in [Tasks -> Row]
        /\ \A u \in Tasks : Routed(u, task'[u]) /\ task'[u].step = task[u].step
    BY <1>0, <1>5, StatusWrite, StatusNames DEF CancelWrite
  <2>2. req' \in [Requests -> Request] /\ RequestsRouted'
    BY <1>5, <1>b, EventLists, EventNames DEF CancelWrite, Answers
  <2>3. QED
    BY <1>5, <2>1, <2>2 DEF CancelWrite
<1>6. CASE RetryWrite(r)
  <2> DEFINE u == req[r].on
             row == [task[u] EXCEPT !.status = "running", !.retries = req[r].seen + 1]
  <2>1. u \in Tasks /\ Kind[u] = "pipeline" /\ req[r].seen + 1 \in 0..MaxRetries
    <3>1. req[r] \in Request /\ req[r].op = "retry"
      BY <1>6 DEF RetryWrite, Ready
    <3>2. req[r].seen \in 0..MaxRetries /\ u \in Tasks
      BY <3>1 DEF Request
    <3>3. Kind[u] = "pipeline" /\ req[r].seen < MaxRetries
      BY <3>1
    <3>4. QED
      BY <3>2, <3>3, TaskAssumption
  <2>2. row \in Row /\ row.status = "running" /\ row.step = task[u].step /\ row.ctx = task[u].ctx
    <3>1. task[u] \in Row
      BY <2>1
    <3>2. QED
      BY <2>1, <3>1, RetriedRow
  <2>3. task' = [task EXCEPT ![u] = row]
    BY <1>6, <2>1 DEF RetryWrite
  <2> HIDE DEF row
  <2>4. /\ task' \in [Tasks -> Row]
        /\ \A v \in Tasks : Routed(v, task'[v]) /\ task'[v].step = task[v].step
    BY <2>1, <2>2, <2>3 DEF Routed
  <2>5. req' \in [Requests -> Request] /\ RequestsRouted'
    BY <1>6, <1>b, EventLists, EventNames DEF RetryWrite, Answers
  <2>6. granted' \in [Tasks -> Nat] /\ doubled' \subseteq Tasks /\ resume' \subseteq Tasks
    BY <1>6, <2>1 DEF RetryWrite
  <2>7. SnapshotFresh'
    BY <1>6, <2>4 DEF RetryWrite
  <2>8. QED
    BY <1>6, <2>4, <2>5, <2>6, <2>7 DEF RetryWrite
<1>7. CASE CallbackWrite(r)
  <2> DEFINE u == req[r].on
             row == Finalized(task[u], req[r].answer)
  <2>1. u \in Tasks /\ Kind[u] # "pipeline"
    BY <1>0, <1>7 DEF CallbackWrite, Ready
  <2>2. row \in Row /\ Routed(u, row) /\ row.step = task[u].step /\ FinalEvents(req[r].answer) \in Seq(Event)
    BY <1>0, <2>1, FinalWrite
  <2>3. task' = [task EXCEPT ![u] = row]
    BY <1>7 DEF CallbackWrite
  <2> HIDE DEF row
  <2>4. /\ task' \in [Tasks -> Row]
        /\ \A v \in Tasks : Routed(v, task'[v]) /\ task'[v].step = task[v].step
    BY <2>1, <2>2, <2>3
  <2>5. req' \in [Requests -> Request] /\ RequestsRouted'
    BY <1>7, <1>b, <2>2 DEF CallbackWrite, Answers
  <2>6. QED
    BY <1>7, <2>4, <2>5 DEF CallbackWrite
<1>8. CASE RequestEvent(r)
  <2>1. req' \in [Requests -> Request] /\ RequestsRouted'
    BY <1>0, <1>8, <1>b, EventTail DEF RequestEvent
  <2>2. QED
    BY <1>8, <2>1 DEF RequestEvent, Logged
<1>9. CASE RequestEnd(r)
  BY <1>9, IdleRequest DEF RequestEnd
<1>10. QED
  BY <1>1, <1>2, <1>3, <1>4, <1>5, <1>6, <1>7, <1>8, <1>9 DEF RequestGoesOn

LEMMA NextInv == Inv /\ [Next]_vars => Inv'
<1> SUFFICES ASSUME Inv, [Next]_vars PROVE Inv'
  OBVIOUS
<1>1. CASE TickStep
  BY <1>1, TickInv
<1>2. CASE TickFault
  BY <1>2, TickOverInv, TaskAssumption DEF TickFault, Inv, TypeOK, RequestsRouted
<1>3. ASSUME NEW r \in Requests, RequestGoesOn(r) PROVE Inv'
  <2>1. 1 \in Tasks
    BY TaskAssumption DEF Tasks
  <2>2. QED
    BY <1>3, <2>1, RequestInv
<1>4. ASSUME NEW r \in Requests, NEW t \in Tasks,
             Submit(r, t) \/ CancelRead(r, t) \/ RetryRead(r, t) \/ CallbackRead(r, t)
      PROVE  Inv'
  BY <1>4, RequestInv
<1>5. ASSUME NEW t \in Tasks, Expire(t) PROVE Inv'
  BY <1>5 DEF Expire, Inv, TypeOK, RowsRouted, TickRouted, RequestsRouted, SnapshotFresh, tickVars, histVars
<1>6. CASE RegisterHandlers
  BY <1>6 DEF RegisterHandlers, Inv, TypeOK, RowsRouted, TickRouted, RequestsRouted, SnapshotFresh, tickVars, histVars
<1>7. CASE Crash
  <2>1. IdleReq \in Request /\ IdleReq.op = "idle"
    BY IdleRequest
  <2>2. lost' \subseteq Tasks
    BY <1>7 DEF Crash, Inv, TypeOK, Request
  <2>3. req' \in [Requests -> Request] /\ RequestsRouted'
    BY <1>7, <2>1 DEF Crash, RequestsRouted
  <2>4. crashes' \in 0..MaxCrashes /\ faults' \in 0..MaxFaults /\ registered' \in BOOLEAN
    <3>1. crashes < MaxCrashes /\ crashes' = crashes + 1 /\ registered' = FALSE /\ faults' = faults
      BY <1>7 DEF Crash
    <3>2. registered' \in BOOLEAN
      BY <3>1, Zenon
    <3>3. crashes \in 0..MaxCrashes /\ faults \in 0..MaxFaults
      BY DEF Inv, TypeOK
    <3>4. QED
      BY <3>1, <3>2, <3>3, TaskAssumption
  <2>5. QED
    BY <1>7, <2>2, <2>3, <2>4, TickOverInv DEF Crash
<1>8. CASE UNCHANGED vars
  BY <1>8 DEF vars, Inv, TypeOK, RowsRouted, TickRouted, RequestsRouted, SnapshotFresh, tickVars, histVars
<1>9. QED
  BY <1>1, <1>2, <1>3, <1>4, <1>5, <1>6, <1>7, <1>8 DEF Next

-----------------------------------------------------------------------------
(* Theorems.                                                               *)

(* The invariant above holds in every reachable state.                     *)
THEOREM InvHolds == Spec => []Inv
  BY InitInv, NextInv, PTL DEF Spec

(* The variables keep their types; no row ever stores a retry_count above  *)
(* its max_retries, however retry requests overlap.                        *)
THEOREM TypeCorrect == Spec => []TypeOK
  BY InvHolds, PTL DEF Inv

(* A pipeline's stored context is the output of the steps before its       *)
(* step_index: cancels, timeouts, retries and restarts neither lose an     *)
(* output nor let a step run ahead.                                        *)
THEOREM ContextCorrect == Spec => []ContextMatchesStep
<1>1. Inv => ContextMatchesStep
  BY DEF Inv, RowsRouted, Routed, ContextMatchesStep
<1>2. QED
  BY <1>1, InvHolds, PTL

LEMMA StepsOnlyGrow ==
  ASSUME Inv, [Next]_vars, NEW t \in Tasks, Kind[t] = "pipeline"
  PROVE  task'[t].step >= task[t].step
<1> USE DEF Inv, TypeOK, RowsRouted, TickRouted, RequestsRouted, SnapshotFresh
<1>0. task[t].step \in Int /\ \A u \in Tasks : task[u] \in Row
  BY DEF Row
<1>1. CASE task' = task
  BY <1>0, <1>1
<1>2. ASSUME NEW u \in Tasks, NEW s \in Status, SetStatus(u, s)
      PROVE  task'[t].step >= task[t].step
  BY <1>0, <1>2, StatusKeepsStep
<1>3. CASE StepDone
  <2>1. task'[cur].step = task[cur].step + 1 /\ task[cur].step \in Int
    BY <1>0, <1>3 DEF StepDone, Row
  <2>2. QED
    BY <1>0, <1>3, <2>1 DEF StepDone
<1>4. CASE JobChecked
  BY <1>0, <1>4 DEF JobChecked
<1>5. ASSUME NEW r \in Requests, RetryWrite(r)
      PROVE  task'[t].step >= task[t].step
  <2>1. /\ req[r].on \in Tasks
        /\ task' = [task EXCEPT ![req[r].on] =
                      [@ EXCEPT !.status = "running", !.retries = req[r].seen + 1]]
    BY <1>5 DEF RetryWrite, Request
  <2>2. QED
    <3>1. \A row \in Row, n \in Int :
            [row EXCEPT !.status = "running", !.retries = n].step = row.step
      BY DEF Row
    <3>2. req[r].seen + 1 \in Int
      BY DEF Request
    <3>3. QED
      BY <1>0, <2>1, <3>1, <3>2
<1>6. ASSUME NEW r \in Requests, CallbackWrite(r)
      PROVE  task'[t].step >= task[t].step
  <2>1. req[r].on # t
    BY <1>6 DEF CallbackWrite, Ready
  <2>2. QED
    BY <1>0, <1>6, <2>1 DEF CallbackWrite
<1>7. ASSUME NEW r \in Requests, CancelWrite(r)
      PROVE  task'[t].step >= task[t].step
  <2>1. req[r].on \in Tasks
    BY DEF Request
  <2>2. QED
    BY <1>2, <1>7, <2>1, StatusNames DEF CancelWrite
<1>8. CASE JobStarted
  BY <1>2, <1>8, StatusNames DEF JobStarted
<1>9. QED
  BY <1>1, <1>2, <1>3, <1>4, <1>5, <1>6, <1>7, <1>8, StatusNames
  DEF Next, vars, TickStep, TickBegin, TickNow, TickEnd, TickEvent, StepCalled, StepFailed, TickFault,
      Skip, TimeOut, HandlerRaises, StartPipeline, StartJob, CheckJob, PastLastStep, StepMarked,
      RequestGoesOn, RequestEvent, RequestEnd, Submit, CancelRead, RetryRead, CallbackRead,
      Expire, RegisterHandlers, Crash

(* No write takes a pipeline's step_index back: neither a retry, nor a row *)
(* written from an old snapshot, nor a restart.                            *)
THEOREM StepIndexMonotone == Spec => StepNeverGoesBack
<1>1. Inv /\ [Next]_vars => [\A t \in Tasks : Kind[t] = "pipeline" => task'[t].step >= task[t].step]_vars
  BY StepsOnlyGrow
<1>2. QED
  BY <1>1, InvHolds, PTL DEF Spec, StepNeverGoesBack

(* The count that retry_task compares with max_retries is the number of    *)
(* retries granted, as long as no retry was granted on an older count.     *)
BudgetInv == \A t \in Tasks \ doubled : granted[t] = task[t].retries

LEMMA BudgetStep ==
  ASSUME Inv, BudgetInv, [Next]_vars
  PROVE  BudgetInv'
<1> USE DEF Inv, TypeOK
<1> DEFINE Kept == \A t \in Tasks : task'[t].retries = task[t].retries
<1>0. \A u \in Tasks : task[u] \in Row
  OBVIOUS
<1>1. ASSUME Kept, UNCHANGED <<granted, doubled>> PROVE BudgetInv'
  BY <1>1 DEF BudgetInv
<1>2. ASSUME NEW u \in Tasks, NEW s \in Status, SetStatus(u, s) PROVE Kept
  BY <1>0, <1>2 DEF SetStatus, Row
<1>3. ASSUME UNCHANGED task PROVE Kept
  BY <1>3
<1>4. ASSUME NEW r \in Requests, RetryWrite(r) PROVE BudgetInv'
  <2> DEFINE u == req[r].on
             row == [task[u] EXCEPT !.status = "running", !.retries = req[r].seen + 1]
  <2>1. u \in Tasks /\ task' = [task EXCEPT ![u] = row] /\ row.retries = req[r].seen + 1
    <3>1. u \in Tasks
      BY DEF Request
    <3>2. task[u] \in Row
      BY <1>0, <3>1
    <3>3. row.retries = req[r].seen + 1
      BY <3>2 DEF Row
    <3>4. task' = [task EXCEPT ![u] = row]
      BY <1>4 DEF RetryWrite
    <3>5. QED
      BY <3>1, <3>3, <3>4
  <2> HIDE DEF row
  <2>2. /\ granted' = [granted EXCEPT ![u] = @ + 1]
        /\ doubled' = IF task[u].retries = req[r].seen THEN doubled ELSE doubled \cup {u}
    BY <1>4 DEF RetryWrite
  <2> SUFFICES ASSUME NEW t \in Tasks \ doubled' PROVE granted'[t] = task'[t].retries
    BY DEF BudgetInv
  <2>3. CASE t = u
    <3>1. u \notin doubled /\ granted[u] = task[u].retries /\ task[u].retries = req[r].seen
      BY <2>1, <2>2, <2>3 DEF BudgetInv
    <3>2. QED
      BY <2>1, <2>2, <2>3, <3>1
  <2>4. CASE t # u
    BY <2>1, <2>2, <2>4 DEF BudgetInv
  <2>5. QED
    BY <2>3, <2>4
<1>5. CASE StepDone
  <2> DEFINE next == snap[cur].step + 1
             row == [task[cur] EXCEPT
                       !.status = IF next >= NumSteps THEN "completed" ELSE "running",
                       !.step = next, !.ctx = snap[cur].ctx \cup {snap[cur].step}]
  <2>1. task' = [task EXCEPT ![cur] = row] /\ row.retries = task[cur].retries
    BY <1>0, <1>5 DEF StepDone, Row
  <2> HIDE DEF row
  <2>2. Kept
    BY <1>0, <2>1
  <2>3. QED
    BY <1>1, <1>5, <2>2 DEF StepDone, histVars
<1>6. CASE JobChecked
  <2>1. \A row \in Row : Finalized(row, answer).retries = row.retries
    BY DEF Finalized, Row
  <2>2. task' = [task EXCEPT ![cur] = Finalized(task[cur], answer)]
    BY <1>6 DEF JobChecked
  <2>3. Kept
    BY <1>0, <2>1, <2>2
  <2>4. QED
    BY <1>1, <1>6, <2>3 DEF JobChecked, histVars
<1>7. ASSUME NEW r \in Requests, CallbackWrite(r) PROVE BudgetInv'
  <2>1. \A row \in Row : Finalized(row, req[r].answer).retries = row.retries
    BY DEF Finalized, Row
  <2>2. task' = [task EXCEPT ![req[r].on] = Finalized(task[req[r].on], req[r].answer)]
    BY <1>7 DEF CallbackWrite
  <2>3. Kept
    BY <1>0, <2>1, <2>2
  <2>4. QED
    BY <1>1, <1>7, <2>3 DEF CallbackWrite, histVars
<1>8. ASSUME NEW r \in Requests, CancelWrite(r) PROVE BudgetInv'
  <2>1. req[r].on \in Tasks
    BY DEF Request
  <2>2. QED
    BY <1>1, <1>2, <1>8, <2>1, StatusNames DEF CancelWrite, histVars
<1>9. CASE JobStarted \/ StepFailed
  <2>1. Kept
    BY <1>2, <1>9, StatusNames DEF JobStarted, StepFailed
  <2>2. QED
    BY <1>1, <1>9, <2>1 DEF JobStarted, StepFailed, histVars
<1>10. ASSUME NEW t \in Tasks, TimeOut(t) \/ StartPipeline(t) \/ PastLastStep(t) PROVE BudgetInv'
  <2>1. Kept
    BY <1>2, <1>10, StatusNames DEF TimeOut, StartPipeline, PastLastStep
  <2>2. QED
    BY <1>1, <1>10, <2>1 DEF TimeOut, StartPipeline, PastLastStep, histVars
<1>11. ASSUME NEW r \in Requests, NEW t \in Tasks, Submit(r, t) PROVE BudgetInv'
  BY <1>1, <1>2, <1>11, StatusNames DEF Submit, histVars
<1>12. ASSUME UNCHANGED <<task, granted, doubled>> PROVE BudgetInv'
  BY <1>1, <1>12
<1>13. QED
  BY <1>4, <1>5, <1>6, <1>7, <1>8, <1>9, <1>10, <1>11, <1>12
  DEF Next, TickStep, vars, histVars, TickBegin, TickNow, TickEnd, TickEvent, StepCalled, Skip,
      HandlerRaises, StartJob, CheckJob, StepMarked, TickFault, RequestGoesOn, RequestEvent,
      RequestEnd, CancelRead, RetryRead, CallbackRead, Expire, RegisterHandlers, Crash

(* No task is retried more often than its max_retries, with any number of  *)
(* requests at once, unless two of them went by the same count.            *)
THEOREM BudgetKept == Spec => []RetryBudget
<1>1. Init => BudgetInv
  BY DEF Init, BudgetInv, NoRow
<1>2. Inv /\ BudgetInv => RetryBudget
  <2> SUFFICES ASSUME Inv, BudgetInv, NEW t \in Tasks \ doubled
               PROVE  granted[t] = task[t].retries /\ granted[t] <= MaxRetries
    BY DEF RetryBudget
  <2>1. task[t].retries \in 0..MaxRetries
    BY DEF Inv, TypeOK, Row
  <2>2. QED
    BY <2>1, TaskAssumption DEF BudgetInv
<1>3. Inv /\ BudgetInv /\ [Next]_vars => BudgetInv'
  BY BudgetStep
<1>4. QED
  BY <1>1, <1>2, <1>3, InvHolds, PTL DEF Spec

LEMMA QuietKeeps ==
  ASSUME Inv, [Next]_vars, NEW t \in Tasks, Quiet(t)
  PROVE  Quiet(t)' /\ task'[t] = task[t]
<1> USE DEF Inv, TypeOK, Quiet, TickHolds, tickVars
<1>0. /\ \A r \in Requests : req[r] \in Request /\ req[r].on \in Tasks
      /\ task[t].status \in Final /\ task[t].status \notin {"queued", "running", "polling", "waiting", "failed", "absent"}
      /\ "queued" \in ActiveStatuses /\ "running" \in ActiveStatuses /\ "polling" \in ActiveStatuses /\ "waiting" \in ActiveStatuses
  BY DEF Request, Final, ActiveStatuses
<1>1. CASE UNCHANGED <<task, pc, cur, todo, snap, req>>
  BY <1>1
<1>2. CASE TickBegin
  BY <1>2, <1>0 DEF TickBegin, ActiveStatuses, Final
<1>3. CASE TickNow \/ TickEvent \/ TickEnd \/ TickFault
  BY <1>3 DEF TickNow, TickEvent, TickEnd, TickFault, TickOver
<1>4. CASE JobStarted \/ StepFailed
  BY <1>4 DEF JobStarted, StepFailed, SetStatus
<1>5. CASE JobChecked \/ StepDone
  BY <1>5 DEF JobChecked, StepDone
<1>6. CASE StepCalled
  BY <1>6 DEF StepCalled
<1>7. ASSUME NEW u \in Tasks,
             Skip(u) \/ TimeOut(u) \/ HandlerRaises(u) \/ StartPipeline(u) \/ StartJob(u)
               \/ CheckJob(u) \/ PastLastStep(u) \/ StepMarked(u)
      PROVE  Quiet(t)' /\ task'[t] = task[t]
  BY <1>0, <1>7 DEF Skip, TimeOut, HandlerRaises, StartPipeline, StartJob, CheckJob, PastLastStep,
     StepMarked, ToWork, Reached, SetStatus, TickOver
<1>8. ASSUME NEW r \in Requests, RequestGoesOn(r)
      PROVE  Quiet(t)' /\ task'[t] = task[t]
  <2>1. UNCHANGED <<pc, cur, todo, snap>>
    BY <1>8 DEF RequestGoesOn, CancelWrite, RetryWrite, CallbackWrite, RequestEvent, RequestEnd
  <2>2. CASE RequestEvent(r)
    <3>1. /\ task' = task /\ \A q \in Requests : req'[q].op = req[q].op /\ req'[q].on = req[q].on
      BY <1>0, <2>2 DEF RequestEvent, Request
    <3>2. QED
      BY <2>1, <3>1
  <2>3. CASE RequestEnd(r)
    BY <1>0, <2>1, <2>3 DEF RequestEnd, IdleReq
  <2>4. CASE CancelWrite(r) \/ RetryWrite(r) \/ CallbackWrite(r)
    <3>1. req[r].on # t
      BY <2>4 DEF CancelWrite, RetryWrite, CallbackWrite, Ready
    <3>2. task'[t] = task[t]
      BY <1>0, <2>4, <3>1 DEF CancelWrite, RetryWrite, CallbackWrite, SetStatus
    <3>3. \A q \in Requests : req'[q].op # "idle" => req'[q].op = req[q].op /\ req'[q].on = req[q].on
      <4>1. ASSUME NEW es, Answers(r, es)
            PROVE  /\ req'[r].op = "idle"
                   /\ \A q \in Requests \ {r} : req'[q] = req[q]
        BY <1>0, <4>1 DEF Answers, Request
      <4>2. PICK es : Answers(r, es)
        BY <2>4 DEF CancelWrite, RetryWrite, CallbackWrite
      <4>3. QED
        BY <4>1, <4>2
    <3>4. QED
      BY <2>1, <3>2, <3>3
  <2>5. QED
    BY <1>8, <2>2, <2>3, <2>4 DEF RequestGoesOn
<1>9. ASSUME NEW r \in Requests, NEW u \in Tasks,
             Submit(r, u) \/ CancelRead(r, u) \/ RetryRead(r, u) \/ CallbackRead(r, u)
      PROVE  Quiet(t)' /\ task'[t] = task[t]
  <2>1. UNCHANGED <<pc, cur, todo, snap>>
    BY <1>9 DEF Submit, CancelRead, RetryRead, CallbackRead
  <2>2. task'[t] = task[t]
    BY <1>0, <1>9 DEF Submit, CancelRead, RetryRead, CallbackRead, SetStatus
  <2>3. CASE Submit(r, u)
    BY <1>0, <2>1, <2>2, <2>3 DEF Submit, Sends
  <2>4. CASE CancelRead(r, u) \/ RetryRead(r, u) \/ CallbackRead(r, u)
    <3>1. u # t
      BY <1>0, <2>4 DEF CancelRead, RetryRead, CallbackRead
    <3>2. \A q \in Requests : \/ req'[q].on = req[q].on /\ req'[q].op = req[q].op
                              \/ req'[q].on = u
      <4>1. PICK op, a, es : Sends(r, op, u, a, es)
        BY <2>4 DEF CancelRead, RetryRead, CallbackRead
      <4>2. QED
        BY <1>0, <4>1 DEF Sends
    <3>3. QED
      BY <2>1, <2>2, <3>1, <3>2
  <2>5. QED
    BY <1>9, <2>3, <2>4
<1>10. CASE Crash
  BY <1>10 DEF Crash, TickOver, IdleReq
<1>11. QED
  BY <1>1, <1>2, <1>3, <1>4, <1>5, <1>6, <1>7, <1>8, <1>9, <1>10
  DEF Next, TickStep, vars, Expire, RegisterHandlers

(* Once a task has a final status and nobody holds an older row of it, it  *)
(* stays as it is for ever: only a stale reader can bring a task back.     *)
THEOREM QuietStable == Spec => QuietIsStable
<1>1. Inv /\ [Next]_vars => [\A t \in Tasks : Quiet(t) => Quiet(t)' /\ task'[t] = task[t]]_vars
  BY QuietKeeps
<1>2. QED
  BY <1>1, InvHolds, PTL DEF Spec, QuietIsStable

-----------------------------------------------------------------------------
(* The audit trail.                                                        *)

(* The tick owes nothing while it waits for a handler.                     *)
NothingOwed == pc \in {"starting", "stepping"} => owe = <<>>

(* A step keeps the trail if each task whose status it changes to a final  *)
(* one owes the event afterwards, and if it forgets no event that is owed. *)
TrailKept ==
  /\ \A t \in Tasks : log[t] \subseteq log'[t] /\ (t \in lost => t \in lost')
  /\ \A t \in Tasks : \A e \in Final :
       task'[t].status = e => task[t].status = e \/ Owes(t, e)'
  /\ \A t \in Tasks : \A e \in Final : Owes(t, e) =>
       Owes(t, e)' \/ e \in log'[t] \/ t \in lost'

LEMMA TrailKeeps == FinalStatusIsLogged /\ TrailKept => FinalStatusIsLogged'
<1> SUFFICES ASSUME FinalStatusIsLogged, TrailKept, NEW t \in Tasks, NEW e \in Final, task'[t].status = e
             PROVE  e \in log'[t] \/ Owes(t, e)' \/ t \in lost'
  BY DEF FinalStatusIsLogged, Owes
<1>1. CASE task[t].status = e
  <2>1. e \in log[t] \/ Owes(t, e) \/ t \in lost
    BY <1>1 DEF FinalStatusIsLogged
  <2>2. QED
    BY <2>1 DEF TrailKept
<1>2. CASE Owes(t, e)'
  BY <1>2
<1>3. QED
  BY <1>1, <1>2 DEF TrailKept

LEMMA TickTrail ==
  ASSUME Inv, NothingOwed, TickStep \/ TickFault
  PROVE  NothingOwed' /\ TrailKept
<1> USE DEF NothingOwed
<1>0. \A t \in Tasks : task[t] \in Row
  BY DEF Inv, TypeOK
<1>a. TypeOK
  BY DEF Inv
<1>b. ASSUME owe = <<>>, UNCHANGED req
      PROVE  \A t \in Tasks : \A e \in Final : Owes(t, e) => Owes(t, e)'
  BY <1>b DEF Owes
<1>c. ASSUME NEW e \in Final, \E i \in DOMAIN owe' : owe'[i] = e
      PROVE  Owes(cur, e)'
  BY <1>c DEF Owes
<1>1. CASE UNCHANGED <<task, log, lost, req>> /\ (owe # <<>> => UNCHANGED <<cur, owe>>) /\ (pc' \in {"starting", "stepping"} => owe' = <<>>)
  BY <1>1 DEF TrailKept, Owes
<1>2. CASE TickEvent
  <2>1. UNCHANGED <<task, lost, req, cur, pc>>
    BY <1>2 DEF TickEvent, histVars
  <2>2. log' = [log EXCEPT ![cur] = @ \cup ({Head(owe)} \cap Final)] /\ owe # <<>> /\ owe' = Tail(owe)
    BY <1>2 DEF TickEvent, Logged
  <2>3. owe \in Seq(Event) /\ cur \in Tasks /\ log \in [Tasks -> SUBSET Final]
    BY <1>a DEF TypeOK
  <2>4. \A t \in Tasks : log[t] \subseteq log'[t]
    BY <2>2, <2>3
  <2>5. ASSUME NEW e \in Final, NEW i \in DOMAIN owe, owe[i] = e
        PROVE  e \in log'[cur] \/ \E j \in DOMAIN owe' : owe'[j] = e
    <3>1. CASE i = 1
      BY <2>2, <2>3, <2>5, <3>1
    <3>2. CASE i # 1
      <4>1. i - 1 \in DOMAIN Tail(owe) /\ Tail(owe)[i - 1] = owe[i]
        BY <2>2, <2>3, <3>2
      <4>2. QED
        BY <2>2, <2>5, <4>1
    <3>3. QED
      BY <3>1, <3>2
  <2>6. QED
    BY <1>2, <2>1, <2>2, <2>4, <2>5 DEF TrailKept, Owes
<1>3. ASSUME NEW t \in Tasks, NEW s \in Status, SetStatus(t, s), owe = <<>>, UNCHANGED <<log, lost, req>>,
             cur' = t, s \in Final => \E i \in DOMAIN owe' : owe'[i] = s,
             pc' \notin {"starting", "stepping"}
      PROVE  NothingOwed' /\ TrailKept
  <2>1. \A u \in Tasks \ {t} : task'[u] = task[u]
    BY <1>3, <1>a DEF SetStatus, TypeOK
  <2>2. task'[t].status = s
    BY <1>3, <1>a DEF SetStatus, TypeOK, Row
  <2>3. \A e \in Final : s = e => Owes(t, e)'
    BY <1>3, <1>c
  <2>4. QED
    BY <1>3, <1>b, <2>1, <2>2, <2>3 DEF TrailKept
<1>4. CASE TickFault
  BY <1>4, <1>a DEF TickFault, TickOver, TrailKept, Owes, TypeOK
<1>5. CASE JobChecked
  <2>1. /\ owe = <<>> /\ UNCHANGED <<log, lost, req, cur>> /\ pc' = "scan"
        /\ task' = [task EXCEPT ![cur] = Finalized(task[cur], answer)] /\ owe' = FinalEvents(answer)
    BY <1>5 DEF JobChecked, histVars
  <2>2. task[cur] \in Row /\ cur \in Tasks
    BY <1>a DEF TypeOK
  <2>3. Finalized(task[cur], answer).status \in Final =>
          \/ Finalized(task[cur], answer).status = task[cur].status
          \/ \E i \in DOMAIN FinalEvents(answer) : FinalEvents(answer)[i] = Finalized(task[cur], answer).status
    BY <2>2 DEF Finalized, FinalEvents, Row, Final
  <2>4. \A u \in Tasks : task'[u] = IF u = cur THEN Finalized(task[cur], answer) ELSE task[u]
    BY <2>1, <1>a DEF TypeOK
  <2>5. \A e \in Final : Finalized(task[cur], answer).status = e => task[cur].status = e \/ Owes(cur, e)'
    BY <1>c, <2>1, <2>3
  <2>6. QED
    BY <1>b, <2>1, <2>4, <2>5 DEF TrailKept
<1>6. CASE StepDone
  <2> DEFINE over == snap[cur].step + 1 >= NumSteps
             row == [task[cur] EXCEPT !.status = IF over THEN "completed" ELSE "running",
                                      !.step = snap[cur].step + 1,
                                      !.ctx = snap[cur].ctx \cup {snap[cur].step}]
  <2>1. task' = [task EXCEPT ![cur] = row] /\ row.status = IF over THEN "completed" ELSE "running"
    BY <1>0, <1>a, <1>6 DEF StepDone, Row, TypeOK
  <2>2. /\ UNCHANGED <<log, lost, req, cur>> /\ owe = <<>> /\ pc' = "scan"
        /\ owe' = IF over THEN <<"step_completed", "completed">> ELSE <<"step_completed">>
    BY <1>6 DEF StepDone, histVars
  <2> HIDE DEF row, over
  <2>3. \A u \in Tasks : task'[u] = IF u = cur THEN row ELSE task[u]
    BY <2>1, <1>a DEF TypeOK
  <2>4. row.status \in Final => owe' = <<"step_completed", "completed">> /\ row.status = "completed"
    BY <2>1, <2>2 DEF Final
  <2>5. owe' = <<"step_completed", "completed">> => 2 \in DOMAIN owe' /\ owe'[2] = "completed"
    OBVIOUS
  <2>6. \A e \in Final : row.status = e => Owes(cur, e)'
    BY <1>c, <2>2, <2>4, <2>5
  <2>7. QED
    BY <1>b, <2>2, <2>3, <2>6 DEF TrailKept
<1>7. CASE JobStarted \/ StepFailed
  <2>1. cur \in Tasks /\ "polling" \notin Final /\ "waiting" \notin Final /\ "failed" \notin Final
    BY <1>a DEF TypeOK, Final
  <2>2. QED
    BY <1>7, <2>1, <1>3, StatusNames DEF JobStarted, StepFailed, histVars
<1>8. ASSUME NEW t \in Tasks, TimeOut(t) \/ StartPipeline(t) \/ PastLastStep(t)
      PROVE  NothingOwed' /\ TrailKept
  <2>1. owe = <<>> /\ pc' = "scan" /\ cur' = t /\ UNCHANGED <<log, lost, req>>
    BY <1>8 DEF TimeOut, StartPipeline, PastLastStep, ToWork, Reached, histVars
  <2>2. \/ SetStatus(t, "timed_out") /\ owe' = <<"timed_out">>
        \/ SetStatus(t, "completed") /\ owe' = <<"completed">>
        \/ SetStatus(t, "running")
    BY <1>8 DEF TimeOut, StartPipeline, PastLastStep
  <2>3. \A s : owe' = <<s>> => 1 \in DOMAIN owe' /\ owe'[1] = s
    OBVIOUS
  <2>4. "running" \notin Final
    BY DEF Final
  <2>5. QED
    BY <1>3, <2>1, <2>2, <2>3, <2>4, StatusNames
<1>9. ASSUME NEW t \in Tasks, Skip(t) \/ HandlerRaises(t) \/ StartJob(t) \/ CheckJob(t) \/ StepMarked(t)
      PROVE  NothingOwed' /\ TrailKept
  BY <1>1, <1>9 DEF Skip, HandlerRaises, StartJob, CheckJob, StepMarked, ToWork, Reached, TickOver, histVars
<1>10. CASE TickBegin \/ TickNow \/ TickEnd \/ StepCalled
  BY <1>1, <1>10 DEF TickBegin, TickNow, TickEnd, StepCalled, TickOver, histVars
<1>11. QED
  BY <1>2, <1>4, <1>5, <1>6, <1>7, <1>8, <1>9, <1>10 DEF TickStep

LEMMA RequestTrail ==
  ASSUME Inv, NothingOwed, NEW r \in Requests,
         \/ RequestGoesOn(r)
         \/ \E t \in Tasks : Submit(r, t) \/ CancelRead(r, t) \/ RetryRead(r, t) \/ CallbackRead(r, t)
  PROVE  NothingOwed' /\ TrailKept
<1>0. UNCHANGED <<pc, cur, owe, lost>>
  BY DEF RequestGoesOn, CancelWrite, RetryWrite, CallbackWrite, RequestEvent, RequestEnd,
         Submit, CancelRead, RetryRead, CallbackRead, tickVars, histVars
<1>a. /\ TypeOK /\ req[r] \in Request /\ req[r].on \in Tasks /\ req[r].owe \in Seq(Event)
      /\ req[r].answer \in Outcome /\ task \in [Tasks -> Row] /\ log \in [Tasks -> SUBSET Final]
  BY DEF Inv, TypeOK, Request
<1>b. PICK on \in Tasks : on = req[r].on
  BY <1>a
<1>1. NothingOwed'
  BY <1>0 DEF NothingOwed
<1> DEFINE Kept == /\ \A q \in Requests \ {r} : req'[q] = req[q]
                   /\ req[r].owe = <<>>
<1>2. ASSUME Kept PROVE \A t \in Tasks : \A e \in Final : Owes(t, e) => Owes(t, e)'
  BY <1>0, <1>2 DEF Owes
<1>3. ASSUME NEW e \in Final, \E i \in DOMAIN req'[r].owe : req'[r].owe[i] = e, req'[r].on = on
      PROVE  Owes(on, e)'
  BY <1>3 DEF Owes
<1>4. ASSUME NEW es, Answers(r, es)
      PROVE  req'[r].owe = es /\ req'[r].on = on /\ \A q \in Requests \ {r} : req'[q] = req[q]
  BY <1>4, <1>a, <1>b DEF Answers, TypeOK, Request
<1>5. CASE CancelWrite(r)
  <2>1. Answers(r, <<"cancelled">>) /\ req[r].owe = <<>> /\ log' = log /\ SetStatus(req[r].on, "cancelled")
    BY <1>5 DEF CancelWrite, Ready
  <2>2. Owes(on, "cancelled")'
    <3>1. 1 \in DOMAIN <<"cancelled">> /\ <<"cancelled">>[1] = "cancelled" /\ "cancelled" \in Final
      BY DEF Final
    <3>2. QED
      BY <1>3, <1>4, <2>1, <3>1
  <2>3. \A t \in Tasks : task'[t].status = IF t = on THEN "cancelled" ELSE task[t].status
    BY <1>a, <1>b, <2>1 DEF SetStatus, Row
  <2>4. \A t \in Tasks : \A e \in Final : Owes(t, e) => Owes(t, e)'
    <3>1. Kept
      BY <1>4, <2>1
    <3>2. QED
      BY <1>2, <3>1
  <2>5. \A t \in Tasks : \A e \in Final : task'[t].status = e => task[t].status = e \/ Owes(t, e)'
    BY <2>2, <2>3
  <2>6. QED
    BY <1>0, <1>1, <2>1, <2>4, <2>5 DEF TrailKept
<1>6. CASE RetryWrite(r)
  <2>1. Answers(r, <<"retried">>) /\ req[r].owe = <<>> /\ log' = log
    BY <1>6 DEF RetryWrite, Ready
  <2>2. \A t \in Tasks : task'[t].status \in Final => task'[t].status = task[t].status
    BY <1>a, <1>6 DEF RetryWrite, Row, Final
  <2>3. Kept
    BY <1>4, <2>1
  <2>4. QED
    BY <1>0, <1>1, <1>2, <2>1, <2>2, <2>3 DEF TrailKept
<1>7. CASE CallbackWrite(r)
  <2> DEFINE row == Finalized(task[on], req[r].answer)
             es == FinalEvents(req[r].answer)
  <2>1. Answers(r, es) /\ req[r].owe = <<>> /\ log' = log /\ task' = [task EXCEPT ![on] = row]
    BY <1>7, <1>b DEF CallbackWrite, Ready
  <2>2. row.status \in Final =>
          \/ row.status = task[on].status
          \/ \E i \in DOMAIN es : es[i] = row.status
    BY <1>a DEF Finalized, FinalEvents, Row, Final
  <2> HIDE DEF row, es
  <2>3. req'[r].owe = es /\ req'[r].on = on
    BY <1>4, <2>1
  <2>4. \A e \in Final : row.status = e => task[on].status = e \/ Owes(on, e)'
    BY <1>3, <2>2, <2>3
  <2>5. \A t \in Tasks : task'[t] = IF t = on THEN row ELSE task[t]
    BY <1>a, <2>1
  <2>6. \A t \in Tasks : \A e \in Final : Owes(t, e) => Owes(t, e)'
    <3>1. Kept
      BY <1>4, <2>1
    <3>2. QED
      BY <1>2, <3>1
  <2>7. \A t \in Tasks : \A e \in Final : task'[t].status = e => task[t].status = e \/ Owes(t, e)'
    BY <2>4, <2>5
  <2>8. QED
    BY <1>0, <1>1, <2>1, <2>6, <2>7 DEF TrailKept
<1>8. CASE RequestEvent(r)
  <2> DEFINE es == req[r].owe
  <2>1. /\ es # <<>> /\ log' = [log EXCEPT ![on] = @ \cup ({Head(es)} \cap Final)] /\ task' = task
        /\ req' = [req EXCEPT ![r].owe = Tail(es)]
    BY <1>8, <1>b DEF RequestEvent, Logged
  <2>2. /\ req'[r].owe = Tail(es) /\ req'[r].on = on /\ \A q \in Requests \ {r} : req'[q] = req[q]
    BY <1>a, <1>b, <2>1 DEF TypeOK, Request
  <2>3. \A u \in Tasks : log[u] \subseteq log'[u]
    BY <1>a, <2>1
  <2>4. ASSUME NEW e \in Final, NEW i \in DOMAIN es, es[i] = e
        PROVE  e \in log'[on] \/ Owes(on, e)'
    <3>1. CASE i = 1
      BY <1>a, <2>1, <2>4, <3>1
    <3>2. CASE i # 1
      <4>1. i - 1 \in DOMAIN Tail(es) /\ Tail(es)[i - 1] = es[i]
        BY <1>a, <2>1, <3>2
      <4>2. \E j \in DOMAIN req'[r].owe : req'[r].owe[j] = e
        BY <2>2, <2>4, <4>1
      <4>3. QED
        BY <1>3, <2>2, <4>2
    <3>3. QED
      BY <3>1, <3>2
  <2>5. ASSUME NEW u \in Tasks, NEW e \in Final, Owes(u, e)
        PROVE  Owes(u, e)' \/ e \in log'[u]
    <3>1. CASE u = on /\ \E i \in DOMAIN es : es[i] = e
      <4>1. PICK i \in DOMAIN es : es[i] = e
        BY <3>1
      <4>2. e \in log'[on] \/ Owes(on, e)'
        BY <2>4, <4>1
      <4>3. QED
        BY <3>1, <4>2
    <3>2. CASE ~(u = on /\ \E i \in DOMAIN es : es[i] = e)
      BY <1>0, <1>b, <2>2, <2>5, <3>2 DEF Owes
    <3>3. QED
      BY <3>1, <3>2
  <2>6. QED
    BY <1>0, <1>1, <2>1, <2>3, <2>5 DEF TrailKept
<1>9. CASE RequestEnd(r)
  <2>1. Kept /\ UNCHANGED <<task, log>>
    BY <1>a, <1>9 DEF RequestEnd, Ready, TypeOK
  <2>2. QED
    BY <1>0, <1>1, <1>2, <2>1 DEF TrailKept
<1>10. ASSUME NEW t \in Tasks, Submit(r, t) \/ CancelRead(r, t) \/ RetryRead(r, t) \/ CallbackRead(r, t)
       PROVE  TrailKept
  <2>1. Kept
    <3>1. PICK op, a, es : Sends(r, op, t, a, es)
      BY <1>10 DEF Submit, CancelRead, RetryRead, CallbackRead
    <3>2. QED
      BY <1>a, <3>1 DEF Sends, Free, IdleReq, TypeOK
  <2>2. log' = log /\ (task' = task \/ task' = [task EXCEPT ![t].status = "queued"])
    BY <1>10 DEF Submit, CancelRead, RetryRead, CallbackRead, SetStatus
  <2>3. \A u \in Tasks : task'[u].status \in Final => task'[u].status = task[u].status
    BY <1>a, <2>2 DEF Row, Final
  <2>4. \A u \in Tasks : \A e \in Final : Owes(u, e) => Owes(u, e)'
    BY <1>2, <2>1
  <2>5. QED
    BY <1>0, <2>2, <2>3, <2>4 DEF TrailKept
<1>11. QED
  BY <1>1, <1>5, <1>6, <1>7, <1>8, <1>9, <1>10 DEF RequestGoesOn

LEMMA TrailStep ==
  ASSUME Inv, NothingOwed, FinalStatusIsLogged, [Next]_vars
  PROVE  NothingOwed' /\ FinalStatusIsLogged'
<1>1. CASE TickStep \/ TickFault
  BY <1>1, TickTrail, TrailKeeps
<1>2. ASSUME NEW r \in Requests,
             \/ RequestGoesOn(r)
             \/ \E t \in Tasks : Submit(r, t) \/ CancelRead(r, t) \/ RetryRead(r, t) \/ CallbackRead(r, t)
      PROVE  NothingOwed' /\ FinalStatusIsLogged'
  BY <1>2, RequestTrail, TrailKeeps
<1>3. CASE UNCHANGED <<task, log, pc, cur, owe, req, lost>>
  BY <1>3 DEF NothingOwed, FinalStatusIsLogged, Owes
<1>4. CASE Crash
  <2>1. NothingOwed'
    BY <1>4 DEF Crash, TickOver, NothingOwed
  <2>2. UNCHANGED <<task, log>> /\ \A t \in lost : t \in lost'
    BY <1>4 DEF Crash
  <2>3. ASSUME NEW t \in Tasks, NEW e \in Final, Owes(t, e) PROVE t \in lost'
    BY <1>4, <2>3 DEF Owes, Crash, Owing
  <2>4. QED
    BY <2>1, <2>2, <2>3, TrailKeeps DEF TrailKept
<1>5. QED
  BY <1>1, <1>2, <1>3, <1>4 DEF Next, Expire, RegisterHandlers, vars, tickVars, histVars

(* The audit trail has every final status, or the actor that wrote it      *)
(* still owes its event, or died before writing it.                        *)
THEOREM FinalStatusLogged == Spec => []FinalStatusIsLogged
<1>1. Init => NothingOwed /\ FinalStatusIsLogged
  BY DEF Init, NothingOwed, FinalStatusIsLogged, NoRow, Final
<1>2. Inv /\ NothingOwed /\ FinalStatusIsLogged /\ [Next]_vars => NothingOwed' /\ FinalStatusIsLogged'
  BY TrailStep
<1>3. QED
  BY <1>1, <1>2, InvHolds, PTL DEF Spec

-----------------------------------------------------------------------------
(* How often steps run.                                                    *)

(* The step a task is at; a poll or callback task has its job only.        *)
Place(t) == IF Kind[t] = "pipeline" THEN task[t].step ELSE 0

Paid(t) == granted[t] + crashes + faults

WorkingOn(t) == pc \in {"starting", "stepping"} /\ cur = t

(* The step that t is at may be run without a further retry.               *)
Pending(t) ==
  \/ pc = "step" /\ cur = t
  \/ t \in todo /\ snap[t].status \in {"queued", "running"}
  \/ ~WorkingOn(t) /\ task[t].status \in {"absent", "queued", "running"}

RunsInv ==
  \A t \in Tasks : \A i \in StepIndex :
    /\ i > Place(t) => runs[t][i] = 0
    /\ runs[t][i] <= 1 + Paid(t)
    /\ i = Place(t) /\ Pending(t) => runs[t][i] <= Paid(t)

(* What a pipeline has left behind has run, and what the tick is waiting   *)
(* for has been called; a pipeline is completed behind its last step.      *)
PlaceInv ==
  /\ \A t \in Tasks : Kind[t] = "pipeline" =>
       /\ \A i \in StepIndex : i < task[t].step => runs[t][i] > 0
       /\ task[t].status = "completed" => task[t].step = NumSteps
  /\ pc = "stepping" => runs[cur][snap[cur].step] > 0

(* Nothing is run, paid for or moved on, and nothing gets pending.         *)
LEMMA RunsKept ==
  ASSUME Inv, Inv', RunsInv, PlaceInv, UNCHANGED runs,
         \A t \in Tasks : Paid(t)' >= Paid(t),
         \A t \in Tasks : Kind[t] = "pipeline" => task'[t].step = task[t].step,
         \A t \in Tasks : Pending(t)' => Pending(t) \/ Paid(t)' > Paid(t),
         \A t \in Tasks : Kind[t] = "pipeline" /\ task'[t].status = "completed" =>
           task[t].status = "completed" \/ task[t].step = NumSteps,
         pc' = "stepping" => pc = "stepping" /\ UNCHANGED <<cur, snap>>
  PROVE  RunsInv' /\ PlaceInv'
<1>1. \A t \in Tasks : Place(t)' = Place(t)
  BY DEF Place
<1>2. \A t \in Tasks : Paid(t) \in Nat /\ Paid(t)' \in Nat
  <2>1. /\ granted \in [Tasks -> Nat] /\ crashes \in Nat /\ faults \in Nat
        /\ granted' \in [Tasks -> Nat] /\ crashes' \in Nat /\ faults' \in Nat
    BY TaskAssumption DEF Inv, TypeOK
  <2>2. QED
    BY <2>1 DEF Paid
<1>3. \A t \in Tasks : \A i \in StepIndex : runs[t][i] \in Nat
  BY DEF Inv, TypeOK
<1>4. RunsInv'
  <2> SUFFICES ASSUME NEW t \in Tasks, NEW i \in StepIndex
               PROVE  /\ i > Place(t) => runs[t][i] = 0
                      /\ runs[t][i] <= 1 + Paid(t)'
                      /\ i = Place(t) /\ Pending(t)' => runs[t][i] <= Paid(t)'
    BY <1>1 DEF RunsInv
  <2>1. /\ i > Place(t) => runs[t][i] = 0
        /\ runs[t][i] <= 1 + Paid(t)
        /\ i = Place(t) /\ Pending(t) => runs[t][i] <= Paid(t)
    BY DEF RunsInv
  <2>2. Paid(t)' >= Paid(t) /\ (Pending(t)' => Pending(t) \/ Paid(t)' > Paid(t))
    OBVIOUS
  <2>3. Paid(t) \in Nat /\ Paid(t)' \in Nat /\ runs[t][i] \in Nat
    BY <1>2, <1>3
  <2>4. runs[t][i] <= 1 + Paid(t)'
    BY <2>1, <2>2, <2>3
  <2>5. ASSUME i = Place(t), Pending(t)' PROVE runs[t][i] <= Paid(t)'
    BY <2>1, <2>2, <2>3, <2>5
  <2>6. QED
    BY <2>1, <2>4, <2>5
<1>5. PlaceInv'
  BY DEF PlaceInv
<1>6. QED
  BY <1>4, <1>5

LEMMA RunsTick ==
  ASSUME Inv, Inv', RunsInv, PlaceInv, TickStep \/ TickFault
  PROVE  RunsInv' /\ PlaceInv'
<1> USE DEF Paid
<1>0. /\ TypeOK /\ cur \in Tasks /\ task \in [Tasks -> Row] /\ snap \in [Tasks -> Row]
      /\ runs \in [Tasks -> [StepIndex -> Nat]]
      /\ \A t \in Tasks : granted[t] \in Nat
      /\ crashes \in Nat /\ faults \in Nat
  BY TaskAssumption DEF Inv, TypeOK
<1> DEFINE Steps == \A t \in Tasks : Kind[t] = "pipeline" => task'[t].step = task[t].step
           Pends == \A t \in Tasks : Pending(t)' => Pending(t)
           Ends == \A t \in Tasks : Kind[t] = "pipeline" /\ task'[t].status = "completed" =>
                     task[t].status = "completed" \/ task[t].step = NumSteps
<1>1. ASSUME UNCHANGED <<runs, granted, crashes, faults>>, Steps, Pends, Ends, pc' # "stepping"
      PROVE  RunsInv' /\ PlaceInv'
  BY <1>0, <1>1, RunsKept
<1>2. ASSUME UNCHANGED <<runs, granted, crashes, faults, task>>, Pends, pc' # "stepping"
      PROVE  RunsInv' /\ PlaceInv'
  BY <1>1, <1>2
<1>3. CASE TickBegin
  <2>1. Pends
    BY <1>3 DEF TickBegin, Pending, WorkingOn
  <2>2. QED
    BY <1>2, <1>3, <2>1 DEF TickBegin, histVars
<1>4. CASE TickNow \/ TickEvent \/ TickEnd
  <2>1. (pc # "step" /\ pc' # "step") \/ UNCHANGED <<pc, cur>>
    BY <1>4 DEF TickNow, TickEvent, TickEnd, TickOver
  <2>2. Pends
    BY <1>4, <2>1 DEF TickNow, TickEvent, TickEnd, TickOver, Pending, WorkingOn
  <2>3. CASE TickNow \/ TickEnd
    BY <1>2, <2>2, <2>3 DEF TickNow, TickEnd, TickOver, histVars
  <2>4. CASE TickEvent
    BY <1>0, <2>2, <2>4, RunsKept DEF TickEvent, histVars
  <2>5. QED
    BY <1>4, <2>3, <2>4
<1>5. CASE TickFault
  <2>1. /\ UNCHANGED <<runs, granted, crashes, task>> /\ faults' = faults + 1 /\ pc' = "idle"
    BY <1>5 DEF TickFault, TickOver
  <2>2. QED
    BY <1>0, <2>1, RunsKept
<1>6. ASSUME NEW t \in Tasks, Skip(t) \/ HandlerRaises(t) \/ CheckJob(t) \/ StepMarked(t)
      PROVE  RunsInv' /\ PlaceInv'
  <2>1. UNCHANGED <<runs, granted, crashes, faults, task>> /\ pc' # "stepping" /\ pc = "scan"
    BY <1>6 DEF Skip, HandlerRaises, CheckJob, StepMarked, ToWork, Reached, TickOver, histVars
  <2>2. Pends
    BY <1>6 DEF Skip, HandlerRaises, CheckJob, StepMarked, ToWork, Reached, TickOver, Pending, WorkingOn
  <2>3. QED
    BY <1>2, <2>1, <2>2
<1>7. ASSUME NEW t \in Tasks, TimeOut(t) \/ StartPipeline(t)
      PROVE  RunsInv' /\ PlaceInv'
  <2>1. UNCHANGED <<runs, granted, crashes, faults, pc, snap>> /\ pc = "scan" /\ todo' = todo \ {t}
    BY <1>7 DEF TimeOut, StartPipeline, ToWork, Reached, histVars
  <2>2. \/ SetStatus(t, "timed_out")
        \/ SetStatus(t, "running") /\ t \in todo /\ snap[t].status = "queued"
    BY <1>7 DEF TimeOut, StartPipeline, ToWork, Reached
  <2>3. \A u \in Tasks : task'[u].step = task[u].step /\ (u # t => task'[u] = task[u])
    BY <1>0, <2>2 DEF SetStatus, Row
  <2>4. task'[t].status = "timed_out" \/ (task'[t].status = "running" /\ t \in todo /\ snap[t].status = "queued")
    BY <1>0, <2>2 DEF SetStatus, Row
  <2>5. Pends
    BY <2>1, <2>3, <2>4 DEF Pending, WorkingOn
  <2>6. QED
    BY <1>1, <2>1, <2>3, <2>4, <2>5
<1>8. ASSUME NEW t \in Tasks, PastLastStep(t)
      PROVE  RunsInv' /\ PlaceInv'
  <2>1. /\ UNCHANGED <<runs, granted, crashes, faults, pc, snap>> /\ pc = "scan" /\ todo' = todo \ {t}
        /\ SetStatus(t, "completed") /\ t \in todo /\ snap[t].step >= NumSteps
    BY <1>8 DEF PastLastStep, ToWork, Reached, histVars
  <2>2. \A u \in Tasks : task'[u].step = task[u].step /\ (u # t => task'[u] = task[u])
    BY <1>0, <2>1 DEF SetStatus, Row
  <2>3. task'[t].status = "completed"
    BY <1>0, <2>1 DEF SetStatus, Row
  <2>4. Kind[t] = "pipeline" => task[t].step = NumSteps
    <3>1. ASSUME Kind[t] = "pipeline" PROVE snap[t].step = task[t].step
      BY <2>1, <3>1 DEF Inv, SnapshotFresh
    <3>2. task[t].step \in 0..NumSteps
      BY <1>0 DEF Row
    <3>3. QED
      BY <2>1, <3>1, <3>2, TaskAssumption
  <2>5. Pends
    BY <2>1, <2>2, <2>3 DEF Pending, WorkingOn
  <2>6. Ends
    BY <2>2, <2>4
  <2>7. QED
    BY <1>1, <2>1, <2>2, <2>5, <2>6
<1>9. CASE JobStarted \/ StepFailed
  <2>1. /\ UNCHANGED <<runs, granted, crashes, faults, snap, cur, todo>> /\ pc' = "scan"
        /\ pc \in {"starting", "stepping"}
    BY <1>9 DEF JobStarted, StepFailed, histVars
  <2>2. PICK s \in {"polling", "waiting", "failed"} : SetStatus(cur, s)
    BY <1>9 DEF JobStarted, StepFailed
  <2>3. /\ \A u \in Tasks : task'[u].step = task[u].step /\ (u # cur => task'[u] = task[u])
        /\ task'[cur].status = s
    BY <1>0, <2>2 DEF SetStatus, Row
  <2>4. Pends
    BY <2>1, <2>3 DEF Pending, WorkingOn
  <2>5. Ends
    BY <2>3
  <2>6. QED
    BY <1>1, <2>1, <2>3, <2>4, <2>5
<1>10. CASE JobChecked
  <2>1. /\ UNCHANGED <<runs, granted, crashes, faults, snap, cur, todo>> /\ pc' = "scan" /\ pc = "finalize"
        /\ task' = [task EXCEPT ![cur] = Finalized(task[cur], answer)] /\ Kind[cur] # "pipeline"
    BY <1>10 DEF JobChecked, histVars, Inv, TickRouted
  <2>2. \A u \in Tasks : u # cur => task'[u] = task[u]
    BY <1>0, <2>1
  <2>3. task'[cur].status \in {task[cur].status, "failed", "completed"}
    BY <1>0, <2>1 DEF Finalized, Row
  <2>4. Pends
    BY <2>1, <2>2, <2>3 DEF Pending, WorkingOn
  <2>5. QED
    BY <1>1, <2>1, <2>2, <2>4
<1>11. ASSUME NEW t \in Tasks, StartJob(t)
       PROVE  RunsInv' /\ PlaceInv'
  <2>1. /\ UNCHANGED <<task, snap, granted, crashes, faults>> /\ pc = "scan" /\ pc' = "starting" /\ cur' = t
        /\ t \in todo /\ todo' = todo \ {t} /\ snap[t].status = "queued" /\ Kind[t] # "pipeline"
        /\ runs' = [runs EXCEPT ![t][0] = @ + 1]
    BY <1>11 DEF StartJob, ToWork, Reached
  <2>2. 0 \in StepIndex /\ Place(t) = 0
    BY <2>1, TaskAssumption DEF StepIndex, Place
  <2>3. /\ \A u \in Tasks : u # t => runs'[u] = runs[u]
        /\ \A i \in StepIndex : runs'[t][i] = IF i = 0 THEN runs[t][0] + 1 ELSE runs[t][i]
    BY <1>0, <2>1, <2>2
  <2>4. /\ \A u \in Tasks : Place(u)' = Place(u) /\ Paid(u)' = Paid(u) /\ (Pending(u)' => Pending(u) /\ u # t)
    BY <2>1 DEF Place, Pending, WorkingOn
  <2>5. Pending(t)
    BY <2>1 DEF Pending
  <2>6. RunsInv'
    <3> SUFFICES ASSUME NEW u \in Tasks, NEW i \in StepIndex
                 PROVE  /\ i > Place(u) => runs'[u][i] = 0
                        /\ runs'[u][i] <= 1 + Paid(u)
                        /\ i = Place(u) /\ Pending(u)' => runs'[u][i] <= Paid(u)
      BY <2>4 DEF RunsInv
    <3>1. CASE u # t
      BY <2>3, <2>4, <3>1 DEF RunsInv
    <3>2. CASE u = t
      <4>1. /\ i > Place(t) => runs[t][i] = 0
            /\ runs[t][i] <= 1 + Paid(t)
            /\ i = Place(t) => runs[t][i] <= Paid(t)
        BY <2>5 DEF RunsInv
      <4>2. runs'[t][i] = IF i = 0 THEN runs[t][i] + 1 ELSE runs[t][i]
        BY <2>3
      <4>3. ~Pending(t)' /\ Place(t) = 0 /\ i \in Int /\ runs[t][i] \in Nat
        <5>1. i \in Int
          BY TaskAssumption DEF StepIndex
        <5>2. runs[t][i] \in Nat
          BY <1>0
        <5>3. QED
          BY <2>2, <2>4, <5>1, <5>2
      <4>4. /\ i > Place(t) => runs'[t][i] = 0
            /\ runs'[t][i] <= 1 + Paid(t)
        BY <1>0, <4>1, <4>2, <4>3
      <4>5. QED
        BY <3>2, <4>3, <4>4
    <3>3. QED
      BY <3>1, <3>2
  <2>7. PlaceInv'
    BY <2>1, <2>3 DEF PlaceInv
  <2>8. QED
    BY <2>6, <2>7
<1>12. CASE StepCalled
  <2> DEFINE n == snap[cur].step
  <2>1. /\ UNCHANGED <<task, snap, granted, crashes, faults, cur, todo>> /\ pc = "step" /\ pc' = "stepping"
        /\ runs' = [runs EXCEPT ![cur][n] = @ + 1]
    BY <1>12 DEF StepCalled
  <2>2. n \in StepIndex /\ Place(cur) = n /\ cur \notin todo /\ Kind[cur] = "pipeline"
    BY <1>0, <2>1, TaskAssumption DEF Inv, TickRouted, SnapshotFresh, StepIndex, Place, Row
  <2> HIDE DEF n
  <2>3. /\ \A u \in Tasks : u # cur => runs'[u] = runs[u]
        /\ \A i \in StepIndex : runs'[cur][i] = IF i = n THEN runs[cur][n] + 1 ELSE runs[cur][i]
    BY <1>0, <2>1, <2>2
  <2>4. /\ \A u \in Tasks : Place(u)' = Place(u) /\ Paid(u)' = Paid(u) /\ (Pending(u)' => Pending(u) /\ u # cur)
    BY <2>1, <2>2 DEF Place, Pending, WorkingOn
  <2>5. Pending(cur)
    BY <2>1 DEF Pending
  <2>6. RunsInv'
    <3> SUFFICES ASSUME NEW u \in Tasks, NEW i \in StepIndex
                 PROVE  /\ i > Place(u) => runs'[u][i] = 0
                        /\ runs'[u][i] <= 1 + Paid(u)
                        /\ i = Place(u) /\ Pending(u)' => runs'[u][i] <= Paid(u)
      BY <2>4 DEF RunsInv
    <3>1. CASE u # cur
      BY <2>3, <2>4, <3>1 DEF RunsInv
    <3>2. CASE u = cur
      <4>1. /\ i > Place(cur) => runs[cur][i] = 0
            /\ runs[cur][i] <= 1 + Paid(cur)
            /\ i = Place(cur) => runs[cur][i] <= Paid(cur)
        BY <1>0, <2>5 DEF RunsInv
      <4>2. runs'[cur][i] = IF i = n THEN runs[cur][i] + 1 ELSE runs[cur][i]
        BY <2>3
      <4>3. ~Pending(u)' /\ Place(cur) = n /\ i \in Int /\ n \in Int /\ runs[cur][i] \in Nat
        <5>1. i \in Int /\ n \in Int
          BY <2>2, TaskAssumption DEF StepIndex
        <5>2. runs[cur][i] \in Nat
          BY <1>0
        <5>3. QED
          BY <2>2, <2>4, <3>2, <5>1, <5>2
      <4>4. /\ i > Place(cur) => runs'[cur][i] = 0
            /\ runs'[cur][i] <= 1 + Paid(cur)
        BY <1>0, <4>1, <4>2, <4>3
      <4>5. QED
        BY <2>1, <3>2, <4>3, <4>4
    <3>3. QED
      BY <3>1, <3>2
  <2>7. PlaceInv'
    <3>1. \A u \in Tasks : \A i \in StepIndex : runs[u][i] > 0 => runs'[u][i] > 0
      BY <1>0, <2>2, <2>3
    <3>2. runs'[cur][n] > 0
      BY <1>0, <2>2, <2>3
    <3>3. QED
      BY <2>1, <3>1, <3>2 DEF PlaceInv, n
  <2>8. QED
    BY <2>6, <2>7
<1>13. CASE StepDone
  <2> DEFINE n == task[cur].step
             row == [task[cur] EXCEPT !.status = IF n + 1 >= NumSteps THEN "completed" ELSE "running",
                                      !.step = n + 1,
                                      !.ctx = snap[cur].ctx \cup {n}]
  <2>1. /\ snap[cur].step = n /\ cur \notin todo /\ Kind[cur] = "pipeline" /\ n \in StepIndex
    BY <1>0, <1>13, TaskAssumption DEF StepDone, Inv, TickRouted, SnapshotFresh, StepIndex, Row
  <2>2. /\ UNCHANGED <<runs, snap, granted, crashes, faults, cur, todo>> /\ pc = "stepping" /\ pc' = "scan"
        /\ task' = [task EXCEPT ![cur] = row]
    BY <1>13, <2>1 DEF StepDone, histVars
  <2>3. row.step = n + 1 /\ (row.status = "completed" => n + 1 >= NumSteps)
    BY <1>0 DEF Row
  <2> HIDE DEF row
  <2>4. \A u \in Tasks : task'[u] = IF u = cur THEN row ELSE task[u]
    BY <1>0, <2>2
  <2>5. \A u \in Tasks : /\ Place(u)' = (IF u = cur THEN n + 1 ELSE Place(u))
                         /\ Paid(u)' = Paid(u)
                         /\ u # cur => (Pending(u)' => Pending(u))
    BY <2>1, <2>2, <2>3, <2>4 DEF Place, Pending, WorkingOn
  <2>6. Place(cur) = n
    BY <2>1 DEF Place
  <2>7. RunsInv'
    <3> SUFFICES ASSUME NEW u \in Tasks, NEW i \in StepIndex
                 PROVE  /\ i > Place(u)' => runs[u][i] = 0
                        /\ runs[u][i] <= 1 + Paid(u)
                        /\ i = Place(u)' /\ Pending(u)' => runs[u][i] <= Paid(u)
      BY <2>2, <2>5 DEF RunsInv
    <3>1. CASE u # cur
      BY <2>5, <3>1 DEF RunsInv
    <3>2. CASE u = cur
      BY <1>0, <2>1, <2>5, <2>6, <3>2 DEF RunsInv, StepIndex
    <3>3. QED
      BY <3>1, <3>2
  <2>8. PlaceInv'
    <3>1. runs[cur][n] > 0
      <4>1. runs[cur][snap[cur].step] > 0
        BY <2>2 DEF PlaceInv
      <4>2. QED
        BY <2>1, <4>1
    <3>2. ASSUME NEW i \in StepIndex, i < n + 1 PROVE runs[cur][i] > 0
      <4>1. i \in Int /\ n \in Int
        BY <2>1, TaskAssumption DEF StepIndex
      <4>2. i < task[cur].step => runs[cur][i] > 0
        BY <1>0, <2>1 DEF PlaceInv
      <4>3. QED
        BY <3>1, <3>2, <4>1, <4>2
    <3>3. row.status = "completed" => row.step = NumSteps
      BY <2>1, <2>3, TaskAssumption DEF StepIndex
    <3>4. QED
      BY <2>2, <2>3, <2>4, <3>2, <3>3 DEF PlaceInv
  <2>9. QED
    BY <2>7, <2>8
<1>14. QED
  BY <1>3, <1>4, <1>5, <1>6, <1>7, <1>8, <1>9, <1>10, <1>11, <1>12, <1>13 DEF TickStep

LEMMA RunsRequest ==
  ASSUME Inv, Inv', RunsInv, PlaceInv, NEW r \in Requests,
         \/ RequestGoesOn(r)
         \/ \E t \in Tasks : Submit(r, t) \/ CancelRead(r, t) \/ RetryRead(r, t) \/ CallbackRead(r, t)
  PROVE  RunsInv' /\ PlaceInv'
<1>0. /\ UNCHANGED <<pc, cur, todo, snap, runs, crashes, faults>>
      /\ task \in [Tasks -> Row] /\ req[r] \in Request /\ req[r].on \in Tasks
      /\ \A t \in Tasks : granted[t] \in Nat
      /\ crashes \in Nat /\ faults \in Nat
  <2>1. UNCHANGED <<pc, cur, todo, snap, runs, crashes, faults>>
    BY DEF RequestGoesOn, CancelWrite, RetryWrite, CallbackWrite, RequestEvent, RequestEnd,
           Submit, CancelRead, RetryRead, CallbackRead, tickVars, histVars
  <2>2. /\ task \in [Tasks -> Row] /\ req[r] \in Request
        /\ \A t \in Tasks : granted[t] \in Nat
        /\ crashes \in Nat /\ faults \in Nat
    BY TaskAssumption DEF Inv, TypeOK
  <2>3. req[r].on \in Tasks
    BY <2>2 DEF Request
  <2>4. QED
    BY <2>1, <2>2, <2>3
<1>1. ASSUME NEW t \in Tasks, UNCHANGED granted,
             \A u \in Tasks : u # t => task'[u] = task[u],
             task'[t].step = task[t].step \/ Kind[t] # "pipeline",
             task'[t].status = "completed" => task[t].status = "completed" \/ Kind[t] # "pipeline",
             task'[t].status \in {"absent", "queued", "running"} =>
               task[t].status \in {"absent", "queued", "running"}
      PROVE  RunsInv' /\ PlaceInv'
  <2>1. \A u \in Tasks : Pending(u)' => Pending(u)
    BY <1>0, <1>1 DEF Pending, WorkingOn
  <2>2. \A u \in Tasks : Paid(u)' = Paid(u) /\ Paid(u) \in Nat
    BY <1>0, <1>1 DEF Paid
  <2>3. \A u \in Tasks : Paid(u)' >= Paid(u)
    BY <2>2
  <2>4. \A u \in Tasks : Kind[u] = "pipeline" => task'[u].step = task[u].step
    BY <1>1
  <2>5. \A u \in Tasks : Kind[u] = "pipeline" /\ task'[u].status = "completed" => task[u].status = "completed"
    BY <1>1
  <2>6. QED
    BY <1>0, <2>1, <2>3, <2>4, <2>5, RunsKept
<1>2. ASSUME UNCHANGED <<task, granted>> PROVE RunsInv' /\ PlaceInv'
  BY <1>0, <1>1, <1>2
<1>3. ASSUME NEW t \in Tasks, NEW s, SetStatus(t, s), UNCHANGED granted, s = "cancelled" \/ (s = "queued" /\ task[t].status = "absent")
      PROVE  RunsInv' /\ PlaceInv'
  <2>1. /\ \A u \in Tasks : u # t => task'[u] = task[u]
        /\ task'[t].step = task[t].step /\ task'[t].status = s
    BY <1>0, <1>3 DEF SetStatus, Row
  <2>2. QED
    BY <1>1, <1>3, <2>1
<1>4. CASE CancelWrite(r)
  BY <1>0, <1>3, <1>4 DEF CancelWrite, histVars
<1>5. CASE CallbackWrite(r)
  <2> DEFINE t == req[r].on
  <2>1. task' = [task EXCEPT ![t] = Finalized(task[t], req[r].answer)] /\ Kind[t] # "pipeline" /\ UNCHANGED granted
    BY <1>5 DEF CallbackWrite, Ready, Inv, RequestsRouted, histVars
  <2>2. task'[t].status \in {task[t].status, "failed", "completed"}
    BY <1>0, <2>1 DEF Finalized, Row
  <2>3. \A u \in Tasks : u # t => task'[u] = task[u]
    BY <1>0, <2>1
  <2> HIDE DEF t
  <2>4. t \in Tasks
    BY <1>0 DEF t
  <2>5. QED
    BY <1>1, <2>1, <2>2, <2>3, <2>4
<1>6. CASE RetryWrite(r)
  <2> DEFINE t == req[r].on
  <2>1. /\ task' = [task EXCEPT ![t] = [task[t] EXCEPT !.status = "running", !.retries = req[r].seen + 1]]
        /\ granted' = [granted EXCEPT ![t] = granted[t] + 1]
    BY <1>6 DEF RetryWrite
  <2>2. /\ \A u \in Tasks : u # t => task'[u] = task[u]
        /\ task'[t].step = task[t].step /\ task'[t].status = "running"
    BY <1>0, <2>1 DEF Row
  <2>3. t \in Tasks
    BY <1>0
  <2> HIDE DEF t
  <2>4. granted \in [Tasks -> Nat]
    BY DEF Inv, TypeOK
  <2>5. \A u \in Tasks : granted'[u] = IF u = t THEN granted[u] + 1 ELSE granted[u]
    BY <2>1, <2>4
  <2>6. \A u \in Tasks : Paid(u)' >= Paid(u) /\ (u = t => Paid(u)' > Paid(u))
    BY <1>0, <2>5 DEF Paid
  <2>7. \A u \in Tasks : u # t => (Pending(u)' => Pending(u))
    BY <1>0, <2>2 DEF Pending, WorkingOn
  <2>8. \A u \in Tasks : Kind[u] = "pipeline" => task'[u].step = task[u].step
    BY <2>2
  <2>9. \A u \in Tasks : task'[u].status = "completed" => task[u].status = "completed"
    BY <2>2
  <2>10. QED
    BY <1>0, <2>6, <2>7, <2>8, <2>9, RunsKept
<1>7. ASSUME NEW t \in Tasks, Submit(r, t) PROVE RunsInv' /\ PlaceInv'
  BY <1>3, <1>7 DEF Submit, histVars
<1>8. ASSUME NEW t \in Tasks, RequestEvent(r) \/ RequestEnd(r) \/ CancelRead(r, t) \/ RetryRead(r, t) \/ CallbackRead(r, t)
      PROVE  RunsInv' /\ PlaceInv'
  BY <1>2, <1>8 DEF RequestEvent, RequestEnd, CancelRead, RetryRead, CallbackRead, histVars
<1>9. QED
  BY <1>0, <1>4, <1>5, <1>6, <1>7, <1>8 DEF RequestGoesOn

LEMMA RunsStep ==
  ASSUME Inv, Inv', RunsInv, PlaceInv, [Next]_vars
  PROVE  RunsInv' /\ PlaceInv'
<1>1. CASE TickStep \/ TickFault
  BY <1>1, RunsTick
<1>2. ASSUME NEW r \in Requests,
             \/ RequestGoesOn(r)
             \/ \E t \in Tasks : Submit(r, t) \/ CancelRead(r, t) \/ RetryRead(r, t) \/ CallbackRead(r, t)
      PROVE  RunsInv' /\ PlaceInv'
  BY <1>2, RunsRequest
<1>3. CASE UNCHANGED <<task, pc, cur, todo, snap, runs, granted, crashes, faults>>
  BY <1>3 DEF RunsInv, PlaceInv, Place, Paid, Pending, WorkingOn
<1>4. CASE Crash
  <2>1. /\ UNCHANGED <<task, runs, granted, faults>> /\ crashes' = crashes + 1 /\ pc' = "idle"
    BY <1>4 DEF Crash, TickOver
  <2>2. granted \in [Tasks -> Nat] /\ crashes \in Nat /\ faults \in Nat
    BY TaskAssumption DEF Inv, TypeOK
  <2>3. \A t \in Tasks : Paid(t)' > Paid(t) /\ Paid(t)' >= Paid(t)
    BY <2>1, <2>2 DEF Paid
  <2>4. QED
    BY <2>1, <2>3, RunsKept
<1>5. QED
  BY <1>1, <1>2, <1>3, <1>4 DEF Next, Expire, RegisterHandlers, vars, tickVars, histVars

(* No step of a completed pipeline was left out, and none is run again     *)
(* but for a retry, a restart or a tick that broke off.                    *)
THEOREM ExecutionsAccounted == Spec => []ExecutionsAreAccountedFor
<1>1. Init => RunsInv /\ PlaceInv
  <2> SUFFICES ASSUME Init PROVE RunsInv /\ PlaceInv
    OBVIOUS
  <2>1. RunsInv
    BY TaskAssumption DEF Init, RunsInv, Paid, StepIndex
  <2>2. PlaceInv
    BY DEF Init, PlaceInv, NoRow, StepIndex
  <2>3. QED
    BY <2>1, <2>2
<1>2. Inv /\ RunsInv /\ PlaceInv => ExecutionsAreAccountedFor
  <2> SUFFICES ASSUME Inv, RunsInv, PlaceInv PROVE ExecutionsAreAccountedFor
    OBVIOUS
  <2>1. RerunsAreAccountedFor
    <3>1. /\ \A t \in Tasks : granted[t] \in Nat
          /\ crashes \in Nat /\ faults \in Nat
          /\ \A t \in Tasks : \A i \in StepIndex : runs[t][i] \in Nat
      BY TaskAssumption DEF Inv, TypeOK
    <3>2. QED
      BY <3>1 DEF RunsInv, RerunsAreAccountedFor, Paid
  <2>2. CompletedRanEveryStep
    <3> SUFFICES ASSUME NEW t \in Tasks, task[t].status = "completed", Kind[t] = "pipeline"
                 PROVE  task[t].ctx = StepIndex /\ \A i \in StepIndex : runs[t][i] > 0
      BY DEF CompletedRanEveryStep
    <3>1. task[t].step = NumSteps
      BY DEF PlaceInv
    <3>2. task[t].ctx = 0..(NumSteps - 1)
      BY <3>1 DEF Inv, RowsRouted, Routed
    <3>3. \A i \in StepIndex : i < NumSteps
      BY TaskAssumption DEF StepIndex
    <3>4. QED
      BY <3>1, <3>2, <3>3 DEF PlaceInv, StepIndex
  <2>3. QED
    BY <2>1, <2>2 DEF ExecutionsAreAccountedFor
<1>3. Inv /\ Inv' /\ RunsInv /\ PlaceInv /\ [Next]_vars => RunsInv' /\ PlaceInv'
  BY RunsStep
<1>4. QED
  BY <1>1, <1>2, <1>3, InvHolds, PTL DEF Spec

(***************************************************************************)
(* FinanceOffice: what a function has looked up holds when it writes, the    *)
(* cache follows the table and the periods of a year follow each other,      *)
(* unless history says that another call overlapped.                         *)
(***************************************************************************)

OfficeSpec == (\E sc \in OfficeScenes : OfficeInit(sc)) /\ [][OfficeNext]_officeVars

IsCall(k) == k = [op |-> k.op, step |-> k.step, id |-> k.id, value |-> k.value, n |-> k.n]

IsBook(b) == /\ b = [name |-> b.name, active |-> b.active, journals |-> b.journals]
             /\ b.active \in BOOLEAN /\ b.journals \in Nat

IsConfig(a) == a = [product |-> a.product, status |-> a.status]

\* Calls, configurations and ledgers are records, and only clerks of the scene call.
OfficeShape ==
  /\ office \in OfficeScenes
  /\ call = [c \in Clerks |-> call[c]] /\ \A c \in Clerks : IsCall(call[c])
  /\ assignments = [id \in Assignments |-> assignments[id]]
  /\ \A id \in Assignments : IsConfig(assignments[id])
  /\ books = [id \in Ledgers |-> books[id]] /\ \A id \in Ledgers : IsBook(books[id])

\* An activation that has looked, a deletion that has counted.
Activates(k, id) == k.op = "activate" /\ k.step = "update" /\ k.id = id
Deletes(k, id) == k.op = "delete" /\ k.step = "write" /\ k.id = id

\* While an activation has looked and not yet written, another configuration for the
\* product becomes active only with a trace in history.
LookHolds ==
  \A a, b \in Assignments : \A c \in Clerks :
    (/\ a # b /\ assignments[a].status = Active
     /\ Activates(call[c], b) /\ assignments[a].product = call[c].value) => {a, b} \cap overlapped # {}

\* And its own configuration is moved to another product only with a trace.
AimHolds ==
  \A b \in Assignments : \A c \in Clerks :
    Aims(call[c], b) => (assignments[b].product = call[c].value \/ b \in overlapped)

\* While a deletion has counted and not yet written, so do journals.
JournalsCounted ==
  \A id \in Ledgers : \A c \in Clerks :
    (books[id].journals > 0 /\ Deletes(call[c], id)) => id \in overlapped

OfficeInv == OfficeShape /\ ChecksHold /\ LookHolds /\ AimHolds /\ JournalsCounted

-----------------------------------------------------------------------------
(* Calls *)

\* A step of clerk c's call after which it has looked or counted nothing new.
NothingNew(c) ==
  /\ call' = [d \in Clerks |-> call'[d]] /\ \A d \in Clerks \ {c} : call'[d] = call[d]
  /\ IsCall(call'[c])
  /\ \A id \in Assignments : /\ ~Activates(call'[c], id)
                             /\ Aims(call'[c], id) => assignments[id].product = call'[c].value
  /\ \A id \in Ledgers : ~Deletes(call'[c], id)

\* The call becomes the one with the step.
LEMMA StepSet ==
  ASSUME OfficeShape, NEW c \in Clerks, NEW step, Proceeds(c, step)
  PROVE  /\ call' = [d \in Clerks |-> call'[d]]
         /\ \A d \in Clerks \ {c} : call'[d] = call[d]
         /\ IsCall(call'[c]) /\ call'[c].op = call[c].op /\ call'[c].step = step
         /\ call'[c].id = call[c].id /\ call'[c].value = call[c].value
  BY DEF OfficeShape, IsCall, Proceeds

LEMMA Returned ==
  ASSUME OfficeShape, NEW c \in Clerks, Returns(c)
  PROVE  NothingNew(c) /\ call'[c] = Idle
  BY DEF OfficeShape, Returns, NothingNew, Idle, IsCall, Activates, Aims, Deletes

LEMMA Called ==
  ASSUME OfficeShape, NEW c \in Clerks, NEW op, NEW step, NEW id, NEW value, NEW n,
         call' = [call EXCEPT ![c] = [op |-> op, step |-> step, id |-> id, value |-> value, n |-> n]],
         op = "activate" => step = "list" /\ value = assignments[id].product,
         ~(op = "delete" /\ step = "write")
  PROVE  NothingNew(c)
  BY DEF OfficeShape, NothingNew, IsCall, Activates, Aims, Deletes

LEMMA ClerkOfScene ==
  ASSUME OfficeShape, NEW c \in office.clerks
  PROVE  c \in Clerks
  BY OfficeAssumption DEF OfficeShape

-----------------------------------------------------------------------------
(* What leaves a part of the invariant as it was *)

\* No activation begins to wait, and one that is under way keeps its product.
NoLooks ==
  \A d \in Clerks : \A id \in Assignments :
    /\ Activates(call'[d], id) => Activates(call[d], id) /\ call'[d].value = call[d].value
    /\ Aims(call'[d], id) => \/ Aims(call[d], id) /\ call'[d].value = call[d].value
                             \/ assignments[id].product = call'[d].value

\* No configuration becomes active and no activation begins to wait.
LEMMA AssignmentsQuiet ==
  ASSUME OfficeInv, overlapped \subseteq overlapped', NoLooks,
         \A id \in Assignments : /\ assignments'[id].status = Active => assignments[id].status = Active
                                 /\ assignments'[id].product = assignments[id].product
  PROVE  OneIsActive' /\ LookHolds' /\ AimHolds'
  <1>1. OneIsActive'
    <2> SUFFICES ASSUME NEW a \in Assignments, NEW b \in Assignments, a # b,
                        assignments'[a].status = Active, assignments'[b].status = Active,
                        assignments'[a].product = assignments'[b].product
                 PROVE  {a, b} \cap overlapped' # {}
      BY DEF OneIsActive
    <2>1. {a, b} \cap overlapped # {}
      BY DEF OfficeInv, ChecksHold, OneIsActive
    <2> QED
      BY <2>1
  <1>2. LookHolds'
    <2> SUFFICES ASSUME NEW a \in Assignments, NEW b \in Assignments, NEW d \in Clerks,
                        a # b, assignments'[a].status = Active, Activates(call'[d], b),
                        assignments'[a].product = call'[d].value
                 PROVE  {a, b} \cap overlapped' # {}
      BY DEF LookHolds
    <2>1. {a, b} \cap overlapped # {}
      BY DEF OfficeInv, LookHolds, NoLooks
    <2> QED
      BY <2>1
  <1>3. AimHolds'
    BY DEF OfficeInv, AimHolds, NoLooks
  <1> QED
    BY <1>1, <1>2, <1>3

\* No ledger changes and no deletion begins to wait.
LEMMA LedgersQuiet ==
  ASSUME OfficeInv, overlapped \subseteq overlapped', UNCHANGED books,
         \A d \in Clerks : \A id \in Ledgers : Deletes(call'[d], id) => Deletes(call[d], id)
  PROVE  LedgersInUseAreKept' /\ JournalsCounted'
  BY DEF OfficeInv, ChecksHold, LedgersInUseAreKept, JournalsCounted

LEMMA ShapeKept ==
  ASSUME OfficeShape, NEW c \in Clerks, NothingNew(c), UNCHANGED <<office, assignments, books>>
  PROVE  OfficeShape'
  BY DEF OfficeShape, NothingNew

LEMMA NoneNew ==
  ASSUME OfficeShape, NEW c \in Clerks, NothingNew(c)
  PROVE  /\ NoLooks
         /\ \A d \in Clerks : \A id \in Ledgers : Deletes(call'[d], id) => Deletes(call[d], id)
  <1>1. \A d \in Clerks \ {c} : call'[d] = call[d]
    BY DEF NothingNew
  <1>2. NoLooks
    <2> SUFFICES ASSUME NEW d \in Clerks, NEW id \in Assignments
                 PROVE  /\ Activates(call'[d], id) => Activates(call[d], id) /\ call'[d].value = call[d].value
                        /\ Aims(call'[d], id) => \/ Aims(call[d], id) /\ call'[d].value = call[d].value
                                                 \/ assignments[id].product = call'[d].value
      BY DEF NoLooks
    <2>1. CASE d = c
      <3>1. ~Activates(call'[c], id) /\ (Aims(call'[c], id) => assignments[id].product = call'[c].value)
        BY DEF NothingNew
      <3> QED
        BY <2>1, <3>1, Zenon
    <2>2. CASE d # c
      BY <1>1, <2>2
    <2> QED
      BY <2>1, <2>2
  <1> QED
    BY <1>1, <1>2 DEF NothingNew

\* A step of a call that neither looks nor writes here.
LEMMA QuietStep ==
  ASSUME OfficeInv, NEW c \in Clerks, NothingNew(c), overlapped \subseteq overlapped',
         UNCHANGED <<office, assignments, books>>
  PROVE  OfficeInv'
  <1>1. OfficeShape'
    BY ShapeKept DEF OfficeInv
  <1>2. OneIsActive' /\ LookHolds' /\ AimHolds'
    BY NoneNew, AssignmentsQuiet DEF OfficeInv
  <1>3. LedgersInUseAreKept' /\ JournalsCounted'
    BY NoneNew, LedgersQuiet DEF OfficeInv
  <1> QED
    BY <1>1, <1>2, <1>3 DEF OfficeInv, ChecksHold

-----------------------------------------------------------------------------
(* Activations *)

LEMMA ActivationLooks ==
  ASSUME OfficeInv, NEW c \in Clerks, ListActive(c)
  PROVE  OfficeInv'
  <1>1. UNCHANGED <<office, assignments, books, overlapped>> /\ call[c].op = "activate"
    BY DEF ListActive, Working
  <1>2. CASE AnotherActive(call[c].id, call[c].value)
    BY <1>1, <1>2, Returned, QuietStep DEF ListActive, OfficeInv
  <1>3. CASE ~AnotherActive(call[c].id, call[c].value)
    <2>1. /\ call' = [d \in Clerks |-> call'[d]]
          /\ \A d \in Clerks \ {c} : call'[d] = call[d]
          /\ IsCall(call'[c]) /\ call'[c].op = "activate" /\ call'[c].id = call[c].id
          /\ call'[c].value = call[c].value
      BY <1>1, <1>3, StepSet DEF ListActive, OfficeInv
    <2>2. OfficeShape'
      BY <1>1, <2>1 DEF OfficeShape, OfficeInv
    <2>3. LedgersInUseAreKept' /\ JournalsCounted'
      BY <1>1, <2>1, LedgersQuiet DEF Deletes
    <2>4. OneIsActive'
      BY <1>1 DEF OfficeInv, ChecksHold, OneIsActive
    <2>5. LookHolds'
      <3> SUFFICES ASSUME NEW a \in Assignments, NEW b \in Assignments, NEW d \in Clerks,
                          a # b, assignments'[a].status = Active, Activates(call'[d], b),
                          assignments'[a].product = call'[d].value
                   PROVE  {a, b} \cap overlapped' # {}
        BY DEF LookHolds
      <3>1. CASE d = c
        BY <1>1, <1>3, <2>1, <3>1 DEF AnotherActive, Activates
      <3>2. CASE d # c
        BY <1>1, <2>1, <3>2 DEF OfficeInv, LookHolds
      <3> QED
        BY <3>1, <3>2
    <2>6. AimHolds'
      BY <1>1, <2>1 DEF OfficeInv, AimHolds, Aims
    <2> QED
      BY <2>2, <2>3, <2>4, <2>5, <2>6 DEF OfficeInv, ChecksHold
  <1> QED
    BY <1>2, <1>3

LEMMA ActivationWrites ==
  ASSUME OfficeInv, NEW c \in Clerks, Activate(c)
  PROVE  OfficeInv'
  <1>0. OfficeShape
    BY DEF OfficeInv
  <1>1. /\ UNCHANGED <<office, books>> /\ call[c].op = "activate" /\ call[c].step = "update"
        /\ Returns(c)
    BY DEF Activate, Working
  <1>2. NothingNew(c)
    BY <1>0, <1>1, Returned
  <1>3. CASE assignments[call[c].id].status # Approved
    BY <1>1, <1>2, <1>3, QuietStep DEF Activate
  <1>4. CASE assignments[call[c].id].status = Approved
    <2> DEFINE i == call[c].id
               v == call[c].value
    <2>1. /\ assignments' = [assignments EXCEPT ![i].status = Active]
          /\ overlapped' = overlapped \cup {o.id : o \in {p \in Others(c) : /\ p.op = "activate" /\ p.step = "update"
                                                                            /\ p.value = v}}
      BY <1>4 DEF Activate, ConfigActivateV1
    <2>2. OfficeShape'
      <3>1. /\ assignments' = [id \in Assignments |-> assignments'[id]]
            /\ \A id \in Assignments : IsConfig(assignments'[id])
        BY <1>0, <2>1 DEF OfficeShape, IsConfig
      <3> QED
        BY <1>0, <1>1, <1>2, <3>1 DEF OfficeShape, NothingNew
    <2>3. LedgersInUseAreKept' /\ JournalsCounted'
      BY <1>0, <1>1, <1>2, <2>1, NoneNew, LedgersQuiet
    <2>4. \A d \in Clerks \ {c} : \A id \in Assignments :
            Activates(call[d], id) /\ call[d].value = v => id \in overlapped'
      <3> SUFFICES ASSUME NEW d \in Clerks \ {c}, NEW id \in Assignments, Activates(call[d], id), call[d].value = v
                   PROVE  id \in overlapped'
        OBVIOUS
      <3>1. call[d] # Idle /\ call[d].op = "activate" /\ call[d].step = "update" /\ call[d].id = id
        BY DEF Activates, Idle
      <3>2. call[d] \in Others(c)
        BY <3>1 DEF Others
      <3> QED
        BY <2>1, <3>1, <3>2
    <2>5. /\ \A id \in Assignments \ {i} : assignments'[id] = assignments[id]
          /\ \A id \in Assignments : assignments'[id].product = assignments[id].product
      BY <1>0, <2>1 DEF OfficeShape, IsConfig
    <2>6. i \in Assignments => assignments[i].product = v \/ i \in overlapped
      BY <1>1 DEF OfficeInv, AimHolds, Aims
    <2>7. OneIsActive'
      <3> SUFFICES ASSUME NEW a \in Assignments, NEW b \in Assignments, a # b,
                          assignments'[a].status = Active, assignments'[b].status = Active,
                          assignments'[a].product = assignments'[b].product
                   PROVE  {a, b} \cap overlapped' # {}
        BY DEF OneIsActive
      <3>1. CASE a # i /\ b # i
        <4>1. {a, b} \cap overlapped # {}
          BY <2>5, <3>1 DEF OfficeInv, ChecksHold, OneIsActive
        <4> QED
          BY <2>1, <4>1
      <3>2. CASE b = i
        <4>1. i \notin overlapped => {a, b} \cap overlapped # {}
          BY <1>1, <2>5, <2>6, <3>2 DEF OfficeInv, LookHolds, Activates
        <4> QED
          BY <2>1, <3>2, <4>1
      <3>3. CASE a = i
        <4>1. i \notin overlapped => {a, b} \cap overlapped # {}
          BY <1>1, <2>5, <2>6, <3>3 DEF OfficeInv, LookHolds, Activates
        <4> QED
          BY <2>1, <3>3, <4>1
      <3> QED
        BY <3>1, <3>2, <3>3
    <2>8. LookHolds'
      <3> SUFFICES ASSUME NEW a \in Assignments, NEW b \in Assignments, NEW d \in Clerks,
                          a # b, assignments'[a].status = Active, Activates(call'[d], b),
                          assignments'[a].product = call'[d].value
                   PROVE  {a, b} \cap overlapped' # {}
        BY DEF LookHolds
      <3>1. d # c /\ call'[d] = call[d]
        <4>1. ~Activates(call'[c], b) /\ \A e \in Clerks \ {c} : call'[e] = call[e]
          BY <1>2 DEF NothingNew
        <4>2. d # c
          BY <4>1, Zenon
        <4> QED
          BY <4>1, <4>2
      <3>2. CASE a # i
        <4>1. {a, b} \cap overlapped # {}
          BY <2>5, <3>1, <3>2 DEF OfficeInv, LookHolds
        <4> QED
          BY <2>1, <4>1
      <3>3. CASE a = i
        <4>1. i \in overlapped' \/ assignments'[a].product = v
          BY <2>1, <2>5, <2>6, <3>3
        <4>2. assignments'[a].product = v => b \in overlapped'
          BY <2>4, <3>1
        <4> QED
          BY <3>3, <4>1, <4>2
      <3> QED
        BY <3>2, <3>3
    <2>9. AimHolds'
      <3> SUFFICES ASSUME NEW b \in Assignments, NEW d \in Clerks, Aims(call'[d], b)
                   PROVE  assignments'[b].product = call'[d].value \/ b \in overlapped'
        BY DEF AimHolds
      <3>1. NoLooks
        BY <1>0, <1>2, NoneNew
      <3>2. assignments[b].product = call'[d].value \/ b \in overlapped
        BY <3>1 DEF OfficeInv, AimHolds, NoLooks
      <3> QED
        BY <2>1, <2>5, <3>2
    <2> QED
      BY <2>2, <2>3, <2>7, <2>8, <2>9 DEF OfficeInv, ChecksHold
  <1> QED
    BY <1>3, <1>4

\* Nobody looks or counts while a configuration is written by another statement.
LEMMA StillCalls ==
  ASSUME UNCHANGED call
  PROVE  /\ NoLooks
         /\ \A d \in Clerks : \A id \in Ledgers : Deletes(call'[d], id) => Deletes(call[d], id)
  BY DEF NoLooks

LEMMA ConfigSteps ==
  ASSUME OfficeInv, NEW id \in Assignments, ConfigStep(id)
  PROVE  OfficeInv'
  <1>1. UNCHANGED <<office, books, call, overlapped>>
    BY DEF ConfigStep
  <1>2. \E st \in {Approved, Ended} : assignments' = [assignments EXCEPT ![id].status = st]
    BY DEF ConfigStep, ConfigApproveV1, ConfigCloseV1
  <1>3. \A a \in Assignments : /\ assignments'[a].status = Active => assignments[a].status = Active
                               /\ assignments'[a].product = assignments[a].product
                               /\ IsConfig(assignments'[a])
    BY <1>2 DEF OfficeInv, OfficeShape, IsConfig, Approved, Active, Ended
  <1>4. OfficeShape'
    BY <1>1, <1>2, <1>3 DEF OfficeInv, OfficeShape
  <1>5. OneIsActive' /\ LookHolds' /\ AimHolds'
    BY <1>1, <1>3, StillCalls, AssignmentsQuiet
  <1>6. LedgersInUseAreKept' /\ JournalsCounted'
    BY <1>1, StillCalls, LedgersQuiet
  <1> QED
    BY <1>4, <1>5, <1>6 DEF OfficeInv, ChecksHold

LEMMA ConfigUpserted ==
  ASSUME OfficeInv, NEW i \in Assignments, NEW product, NEW status, UpsertProductJournalConfig(i, product, status)
  PROVE  OfficeInv'
  <1>1. /\ UNCHANGED <<office, books, call>> /\ overlapped \subseteq overlapped'
        /\ assignments' = [assignments EXCEPT ![i] = [product |-> product, status |-> status]]
        /\ status = Active => i \in overlapped'
        /\ \A c \in Clerks : Aims(call[c], i) => call[c].value = product \/ i \in overlapped'
    BY DEF UpsertProductJournalConfig, ConfigUpsertV1
  <1>2. /\ \A a \in Assignments \ {i} : assignments'[a] = assignments[a]
        /\ assignments'[i] = [product |-> product, status |-> status]
        /\ \A a \in Assignments : IsConfig(assignments'[a])
    BY <1>1 DEF OfficeInv, OfficeShape, IsConfig
  <1>3. OfficeShape'
    BY <1>1, <1>2 DEF OfficeInv, OfficeShape
  <1>4. LedgersInUseAreKept' /\ JournalsCounted'
    BY <1>1, StillCalls, LedgersQuiet
  <1>5. \A a \in Assignments : assignments'[a].status = Active => assignments'[a] = assignments[a] \/ a \in overlapped'
    BY <1>1, <1>2
  <1>6. OneIsActive'
    <2> SUFFICES ASSUME NEW a \in Assignments, NEW b \in Assignments, a # b,
                        assignments'[a].status = Active, assignments'[b].status = Active,
                        assignments'[a].product = assignments'[b].product
                 PROVE  {a, b} \cap overlapped' # {}
      BY DEF OneIsActive
    <2>1. CASE assignments'[a] = assignments[a] /\ assignments'[b] = assignments[b]
      <3>1. {a, b} \cap overlapped # {}
        BY <2>1 DEF OfficeInv, ChecksHold, OneIsActive
      <3> QED
        BY <1>1, <3>1
    <2> QED
      BY <1>5, <2>1
  <1>7. LookHolds'
    <2> SUFFICES ASSUME NEW a \in Assignments, NEW b \in Assignments, NEW d \in Clerks,
                        a # b, assignments'[a].status = Active, Activates(call[d], b),
                        assignments'[a].product = call[d].value
                 PROVE  {a, b} \cap overlapped' # {}
      BY <1>1 DEF LookHolds
    <2>1. CASE assignments'[a] = assignments[a]
      <3>1. {a, b} \cap overlapped # {}
        BY <2>1 DEF OfficeInv, LookHolds
      <3> QED
        BY <1>1, <3>1
    <2> QED
      BY <1>5, <2>1
  <1>8. AimHolds'
    BY <1>1, <1>2 DEF OfficeInv, AimHolds
  <1> QED
    BY <1>3, <1>4, <1>6, <1>7, <1>8 DEF OfficeInv, ChecksHold

-----------------------------------------------------------------------------
(* Ledgers *)

\* The step of a clerk that writes one ledger, or none.
LEMMA LedgerWritten ==
  ASSUME OfficeInv, NEW c \in Clerks, NothingNew(c), UNCHANGED <<office, assignments>>,
         overlapped \subseteq overlapped',
         books' = [id \in Ledgers |-> books'[id]],
         \A id \in Ledgers :
           /\ IsBook(books'[id])
           /\ books'[id].journals > 0 => books[id].journals > 0
           /\ (books'[id].journals > 0 /\ ~books'[id].active) => (~books[id].active \/ id \in overlapped')
  PROVE  OfficeInv'
  <1>1. OfficeShape'
    BY DEF OfficeInv, OfficeShape, NothingNew
  <1>2. OneIsActive' /\ LookHolds' /\ AimHolds'
    BY NoneNew, AssignmentsQuiet DEF OfficeInv
  <1>3. LedgersInUseAreKept'
    BY DEF OfficeInv, ChecksHold, LedgersInUseAreKept
  <1>4. JournalsCounted'
    BY NoneNew DEF OfficeInv, JournalsCounted
  <1> QED
    BY <1>1, <1>2, <1>3, <1>4 DEF OfficeInv, ChecksHold

LEMMA NewBook ==
  ASSUME NEW name
  PROVE  LET b == [name |-> name, active |-> TRUE, journals |-> 0]
         IN  IsBook(b) /\ b.active /\ b.journals = 0
  BY DEF IsBook

LEMMA BookWithJournal ==
  ASSUME NEW b, IsBook(b)
  PROVE  LET new == [b EXCEPT !.journals = @ + 1]
         IN  IsBook(new) /\ new.active = b.active
  <1> DEFINE new == [b EXCEPT !.journals = @ + 1]
  <1>1. new = [name |-> b.name, active |-> b.active, journals |-> b.journals + 1]
    BY DEF IsBook
  <1>2. new.name = b.name /\ new.active = b.active /\ new.journals = b.journals + 1
    BY <1>1
  <1>3. b.journals + 1 \in Nat /\ b.active \in BOOLEAN
    BY DEF IsBook
  <1> HIDE DEF new
  <1>4. IsBook(new)
    BY <1>1, <1>2, <1>3 DEF IsBook
  <1> QED
    BY <1>2, <1>4 DEF new

LEMMA SavingWrites ==
  ASSUME OfficeInv, NEW c \in Clerks, WriteLedger(c)
  PROVE  OfficeInv'
  <1> DEFINE id == call[c].id
             active == call[c].n = 1
  <1>0. OfficeShape
    BY DEF OfficeInv
  <1>1. /\ UNCHANGED <<office, assignments>> /\ overlapped \subseteq overlapped' /\ Returns(c)
        /\ books[id].active /\ ~active => id \in overlapped'
    BY DEF WriteLedger, Working
  <1>2. \/ UNCHANGED books
        \/ \E name : books' = [books EXCEPT ![id] = [name |-> name, active |-> TRUE, journals |-> 0]]
        \/ \E name : books' = [books EXCEPT ![id].name = name, ![id].active = active]
    BY DEF WriteLedger, LedgerCreateV1, LedgerRenameV1
  <1>3. NothingNew(c)
    BY <1>0, <1>1, Returned
  <1>4. CASE UNCHANGED books
    BY <1>1, <1>3, <1>4, QuietStep
  <1>5. ASSUME NEW name, books' = [books EXCEPT ![id] = [name |-> name, active |-> TRUE, journals |-> 0]]
        PROVE  OfficeInv'
    <2>1. books' = [l \in Ledgers |-> books'[l]]
      BY <1>0, <1>5 DEF OfficeShape
    <2>2. \A l \in Ledgers : IF l = id THEN books'[l] = [name |-> name, active |-> TRUE, journals |-> 0]
                                        ELSE books'[l] = books[l]
      BY <1>0, <1>5 DEF OfficeShape
    <2>3. \A l \in Ledgers :
            /\ IsBook(books'[l])
            /\ books'[l].journals > 0 => books[l].journals > 0
            /\ (books'[l].journals > 0 /\ ~books'[l].active) => (~books[l].active \/ l \in overlapped')
      <3> SUFFICES ASSUME NEW l \in Ledgers
                   PROVE  /\ IsBook(books'[l])
                          /\ books'[l].journals > 0 => books[l].journals > 0
                          /\ (books'[l].journals > 0 /\ ~books'[l].active)
                               => (~books[l].active \/ l \in overlapped')
        OBVIOUS
      <3>1. CASE l = id
        <4>1. IsBook(books'[l]) /\ books'[l].journals = 0
          BY <2>2, <3>1, NewBook
        <4> QED
          BY <4>1
      <3>2. CASE l # id
        <4>1. books'[l] = books[l] /\ IsBook(books[l])
          BY <1>0, <2>2, <3>2 DEF OfficeShape
        <4> QED
          BY <4>1
      <3> QED
        BY <3>1, <3>2
    <2> QED
      BY <1>1, <1>3, <2>1, <2>3, LedgerWritten
  <1>6. ASSUME NEW name, books' = [books EXCEPT ![id].name = name, ![id].active = active]
        PROVE  OfficeInv'
    <2>1. books' = [l \in Ledgers |-> books'[l]]
      BY <1>0, <1>6 DEF OfficeShape
    <2>2. \A l \in Ledgers :
            IF l = id THEN books'[l] = [books[l] EXCEPT !.name = name, !.active = active]
                      ELSE books'[l] = books[l]
      BY <1>0, <1>6 DEF OfficeShape
    <2>3. \A l \in Ledgers : IsBook(books'[l]) /\ books'[l].journals = books[l].journals
                             /\ (l = id => books'[l].active = active)
      BY <1>0, <2>2 DEF OfficeShape, IsBook
    <2>4. \A l \in Ledgers : ~books'[l].active => (~books[l].active \/ l \in overlapped')
      BY <1>1, <2>2, <2>3
    <2> QED
      BY <1>1, <1>3, <2>1, <2>3, <2>4, LedgerWritten
  <1> QED
    BY <1>2, <1>4, <1>5, <1>6

LEMMA DeletionCounts ==
  ASSUME OfficeInv, NEW c \in Clerks, CountJournals(c)
  PROVE  OfficeInv'
  <1>1. UNCHANGED <<office, assignments, books, overlapped>> /\ call[c].op = "delete"
    BY DEF CountJournals, Working
  <1>2. CASE JournalReferenceCount(call[c].id) > 0
    BY <1>1, <1>2, Returned, QuietStep DEF CountJournals, OfficeInv
  <1>3. CASE ~(JournalReferenceCount(call[c].id) > 0)
    <2>1. /\ call' = [d \in Clerks |-> call'[d]]
          /\ \A d \in Clerks \ {c} : call'[d] = call[d]
          /\ IsCall(call'[c]) /\ call'[c].op = "delete" /\ call'[c].id = call[c].id
      BY <1>1, <1>3, StepSet DEF CountJournals, OfficeInv
    <2>2. OfficeShape'
      BY <1>1, <2>1 DEF OfficeShape, OfficeInv
    <2>3. OneIsActive' /\ LookHolds' /\ AimHolds'
      BY <1>1, <2>1, AssignmentsQuiet DEF NoLooks, Activates, Aims
    <2>4. LedgersInUseAreKept'
      BY <1>1 DEF OfficeInv, ChecksHold, LedgersInUseAreKept
    <2>5. JournalsCounted'
      <3> SUFFICES ASSUME NEW id \in Ledgers, NEW d \in Clerks,
                          books'[id].journals > 0, Deletes(call'[d], id)
                   PROVE  id \in overlapped'
        BY DEF JournalsCounted
      <3>1. CASE d = c
        BY <1>1, <1>3, <2>1, <3>1 DEF JournalReferenceCount, Deletes
      <3>2. CASE d # c
        BY <1>1, <2>1, <3>2 DEF OfficeInv, JournalsCounted
      <3> QED
        BY <3>1, <3>2
    <2> QED
      BY <2>2, <2>3, <2>4, <2>5 DEF OfficeInv, ChecksHold
  <1> QED
    BY <1>2, <1>3

LEMMA DeletionWrites ==
  ASSUME OfficeInv, NEW c \in Clerks, SoftDelete(c)
  PROVE  OfficeInv'
  <1> DEFINE id == call[c].id
  <1>0. OfficeShape
    BY DEF OfficeInv
  <1>1. /\ UNCHANGED <<office, assignments, overlapped>> /\ Returns(c)
        /\ call[c].op = "delete" /\ call[c].step = "write"
        /\ books' = [books EXCEPT ![id].active = FALSE]
    BY DEF SoftDelete, Working, LedgerSoftDeleteV1
  <1>2. NothingNew(c)
    BY <1>0, <1>1, Returned
  <1>3. books' = [l \in Ledgers |-> books'[l]]
    BY <1>0, <1>1 DEF OfficeShape
  <1>4. \A l \in Ledgers : IF l = id THEN books'[l] = [books[l] EXCEPT !.active = FALSE]
                                      ELSE books'[l] = books[l]
    BY <1>0, <1>1 DEF OfficeShape
  <1>5. \A l \in Ledgers : IsBook(books'[l]) /\ books'[l].journals = books[l].journals
    BY <1>0, <1>4 DEF OfficeShape, IsBook
  <1>6. \A l \in Ledgers : (l = id /\ books[l].journals > 0) => l \in overlapped
    BY <1>1 DEF OfficeInv, JournalsCounted, Deletes
  <1>7. \A l \in Ledgers : (books'[l].journals > 0 /\ ~books'[l].active)
                             => (~books[l].active \/ l \in overlapped')
    BY <1>1, <1>4, <1>5, <1>6
  <1> QED
    BY <1>1, <1>2, <1>3, <1>5, <1>7, LedgerWritten

LEMMA JournalWritten ==
  ASSUME OfficeInv, NEW id \in Ledgers, CreateJournalOn(id)
  PROVE  OfficeInv'
  <1>0. OfficeShape
    BY DEF OfficeInv
  <1>1. /\ UNCHANGED <<office, assignments, call>> /\ overlapped \subseteq overlapped'
        /\ books' = [books EXCEPT ![id].journals = @ + 1]
        /\ ~books[id].active => id \in overlapped'
        /\ \A c \in Clerks : Deletes(call[c], id) => id \in overlapped'
    BY DEF CreateJournalOn, Deletes
  <1>2. books' = [l \in Ledgers |-> books'[l]]
    BY <1>0, <1>1 DEF OfficeShape
  <1>3. \A l \in Ledgers : IF l = id THEN books'[l] = [books[l] EXCEPT !.journals = @ + 1]
                                      ELSE books'[l] = books[l]
    BY <1>0, <1>1 DEF OfficeShape
  <1>4. \A l \in Ledgers : /\ IsBook(books'[l]) /\ books'[l].active = books[l].active
                           /\ l # id => books'[l].journals = books[l].journals
    <2> SUFFICES ASSUME NEW l \in Ledgers
                 PROVE  /\ IsBook(books'[l]) /\ books'[l].active = books[l].active
                        /\ l # id => books'[l].journals = books[l].journals
      OBVIOUS
    <2>1. IsBook(books[l])
      BY <1>0 DEF OfficeShape
    <2>2. CASE l = id
      <3>1. books'[l] = [books[l] EXCEPT !.journals = @ + 1]
        BY <1>3, <2>2
      <3> QED
        BY <2>1, <2>2, <3>1, BookWithJournal
    <2>3. CASE l # id
      BY <1>3, <2>1, <2>3
    <2> QED
      BY <2>2, <2>3
  <1>5. OfficeShape'
    <2>1. \A l \in Ledgers : IsBook(books'[l])
      BY <1>4
    <2> QED
      BY <1>0, <1>1, <1>2, <2>1 DEF OfficeShape
  <1>6. OneIsActive' /\ LookHolds' /\ AimHolds'
    BY <1>1, StillCalls, AssignmentsQuiet
  <1>7. LedgersInUseAreKept'
    BY <1>1, <1>4 DEF OfficeInv, ChecksHold, LedgersInUseAreKept
  <1>8. JournalsCounted'
    BY <1>1, <1>4 DEF OfficeInv, JournalsCounted
  <1> QED
    BY <1>5, <1>6, <1>7, <1>8 DEF OfficeInv, ChecksHold

-----------------------------------------------------------------------------
(* The specification *)

\* The calls that only begin, read, or write other tables.
LEMMA OtherSteps ==
  ASSUME OfficeInv, NEW c \in Clerks,
         \/ \E year \in Years : \E start \in Starts(year) : GenerateCalendar(c, year, start)
         \/ ListPeriodsByYear(c) \/ GeneratePeriod(c)
         \/ \E id \in Assignments : ActivateProductJournalConfig(c, id)
         \/ \E id \in Ledgers : DeleteLedger(c, id) \/ \E name \in {1, 2} : SaveLedger(c, id, name)
         \/ ValidateLedgerName(c)
         \/ \E k \in SettingKeys : \/ GetPipelineConfig(c, k) \/ DeletePipelineConfig(c, k)
                                   \/ UpsertPipelineConfig(c, k, calls + 1)
         \/ ReadPipelineConfig(c) \/ WritePipelineConfig(c) \/ FillCache(c) \/ DeleteSetting(c)
         \/ Mishap(c)
  PROVE  OfficeInv'
  <1>0. OfficeShape
    BY DEF OfficeInv
  <1>1. UNCHANGED <<office, assignments, books>> /\ overlapped \subseteq overlapped'
    BY DEF GenerateCalendar, ListPeriodsByYear, GeneratePeriod, ActivateProductJournalConfig,
           DeleteLedger, SaveLedger, ValidateLedgerName, GetPipelineConfig, DeletePipelineConfig,
           UpsertPipelineConfig, ReadPipelineConfig, WritePipelineConfig, FillCache, DeleteSetting,
           Mishap, Calls, Working, Confuses
  <1>2. CASE Mishap(c) \/ FillCache(c)
    BY <1>0, <1>1, <1>2, Returned, QuietStep DEF Mishap, FillCache
  <1>3. CASE \/ \E year \in Years : \E start \in Starts(year) : GenerateCalendar(c, year, start)
             \/ \E id \in Assignments : ActivateProductJournalConfig(c, id)
             \/ \E id \in Ledgers : DeleteLedger(c, id) \/ \E name \in {1, 2} : SaveLedger(c, id, name)
             \/ \E k \in SettingKeys : \/ GetPipelineConfig(c, k) \/ DeletePipelineConfig(c, k)
                                       \/ UpsertPipelineConfig(c, k, calls + 1)
    <2>1. ASSUME NEW year \in Years, NEW start \in Starts(year), GenerateCalendar(c, year, start)
          PROVE  OfficeInv'
      <3>1. NothingNew(c)
        BY <1>0, <2>1, Called DEF GenerateCalendar, Calls
      <3> QED
        BY <1>1, <3>1, QuietStep
    <2>2. ASSUME NEW id \in Assignments, ActivateProductJournalConfig(c, id)
          PROVE  OfficeInv'
      <3>1. NothingNew(c)
        BY <1>0, <2>2, Called DEF ActivateProductJournalConfig, Calls
      <3> QED
        BY <1>1, <3>1, QuietStep
    <2>3. ASSUME NEW id \in Ledgers, DeleteLedger(c, id)
          PROVE  OfficeInv'
      <3>1. NothingNew(c)
        <4>1. call' = [call EXCEPT ![c] = [op |-> "delete", step |-> "count", id |-> id,
                                           value |-> 0, n |-> 0]]
          BY <2>3 DEF DeleteLedger, Calls
        <4>2. /\ call' = [d \in Clerks |-> call'[d]] /\ \A d \in Clerks \ {c} : call'[d] = call[d]
              /\ call'[c] = [op |-> "delete", step |-> "count", id |-> id, value |-> 0, n |-> 0]
          BY <1>0, <4>1 DEF OfficeShape
        <4>3. IsCall(call'[c]) /\ call'[c].op = "delete" /\ call'[c].step = "count"
          BY <4>2 DEF IsCall
        <4> QED
          BY <4>2, <4>3 DEF NothingNew, Activates, Aims, Deletes
      <3> QED
        BY <1>1, <3>1, QuietStep
    <2>4. ASSUME NEW id \in Ledgers, NEW name \in {1, 2}, SaveLedger(c, id, name)
          PROVE  OfficeInv'
      <3>1. NothingNew(c)
        BY <1>0, <2>4, Called DEF SaveLedger, Calls
      <3> QED
        BY <1>1, <3>1, QuietStep
    <2>5. ASSUME NEW k \in SettingKeys, \/ GetPipelineConfig(c, k) \/ DeletePipelineConfig(c, k)
                                       \/ UpsertPipelineConfig(c, k, calls + 1)
          PROVE  OfficeInv'
      <3>1. CASE GetPipelineConfig(c, k)
        <4>1. NothingNew(c)
          BY <1>0, <3>1, Called DEF GetPipelineConfig, Calls
        <4> QED
          BY <1>1, <3>1, <4>1, QuietStep DEF GetPipelineConfig, Calls
      <3>2. CASE DeletePipelineConfig(c, k)
        <4>1. NothingNew(c)
          BY <1>0, <3>2, Called DEF DeletePipelineConfig, Calls
        <4> QED
          BY <1>1, <3>2, <4>1, QuietStep DEF DeletePipelineConfig, Calls
      <3>3. CASE UpsertPipelineConfig(c, k, calls + 1)
        <4>1. NothingNew(c)
          BY <1>0, <3>3, Called DEF UpsertPipelineConfig, Calls
        <4> QED
          BY <1>1, <3>3, <4>1, QuietStep DEF UpsertPipelineConfig, Calls
      <3> QED
        BY <2>5, <3>1, <3>2, <3>3
    <2> QED
      BY <1>3, <2>1, <2>2, <2>3, <2>4, <2>5
  <1>4. CASE ValidateLedgerName(c) \/ WritePipelineConfig(c) \/ DeleteSetting(c)
    <2>1. NothingNew(c)
      <3>1. CASE Returns(c)
        BY <1>0, <3>1, Returned
      <3>2. CASE Proceeds(c, "write") /\ call[c].op = "save"
        BY <1>0, <3>2, StepSet DEF NothingNew, Activates, Aims, Deletes
      <3>3. CASE Proceeds(c, "cache") /\ call[c].op \in {"upsert", "remove"}
        BY <1>0, <3>3, StepSet DEF NothingNew, Activates, Aims, Deletes
      <3> QED
        BY <1>4, <3>1, <3>2, <3>3 DEF ValidateLedgerName, WritePipelineConfig, DeleteSetting, Working
    <2> QED
      BY <1>1, <2>1, QuietStep
  <1>5. CASE ListPeriodsByYear(c) \/ GeneratePeriod(c) \/ ReadPipelineConfig(c)
    <2>1. NothingNew(c)
      <3>1. CASE Returns(c)
        BY <1>0, <3>1, Returned
      <3>2. ASSUME NEW start, call[c].op = "generate",
                   call' = [call EXCEPT ![c].step = "write", ![c].value = start, ![c].n = 1]
            PROVE  NothingNew(c)
        <4>1. /\ call' = [d \in Clerks |-> call'[d]] /\ \A d \in Clerks \ {c} : call'[d] = call[d]
              /\ call'[c] = [call[c] EXCEPT !.step = "write", !.value = start, !.n = 1]
          BY <1>0, <3>2 DEF OfficeShape
        <4>2. IsCall(call'[c]) /\ call'[c].op = "generate"
          BY <1>0, <3>2, <4>1 DEF OfficeShape, IsCall
        <4> QED
          BY <4>1, <4>2 DEF NothingNew, Activates, Aims, Deletes
      <3>3. ASSUME NEW n, call[c].op = "generate", call' = [call EXCEPT ![c].n = n]
            PROVE  NothingNew(c)
        BY <1>0, <3>3 DEF OfficeShape, NothingNew, IsCall, Activates, Aims, Deletes
      <3>4. ASSUME NEW value, call[c].op = "get",
                   call' = [call EXCEPT ![c].step = "cache", ![c].value = value]
            PROVE  NothingNew(c)
        <4>1. /\ call' = [d \in Clerks |-> call'[d]] /\ \A d \in Clerks \ {c} : call'[d] = call[d]
              /\ call'[c] = [call[c] EXCEPT !.step = "cache", !.value = value]
          BY <1>0, <3>4 DEF OfficeShape
        <4>2. IsCall(call'[c]) /\ call'[c].op = "get"
          BY <1>0, <3>4, <4>1 DEF OfficeShape, IsCall
        <4> QED
          BY <4>1, <4>2 DEF NothingNew, Activates, Aims, Deletes
      <3>5. CASE ListPeriodsByYear(c)
        BY <3>1, <3>2, <3>5 DEF ListPeriodsByYear, Working
      <3>6. CASE GeneratePeriod(c)
        BY <3>1, <3>3, <3>6 DEF GeneratePeriod, Working
      <3>7. CASE ReadPipelineConfig(c)
        BY <3>1, <3>4, <3>7 DEF ReadPipelineConfig, Working
      <3> QED
        BY <1>5, <3>5, <3>6, <3>7
    <2> QED
      BY <1>1, <2>1, QuietStep
  <1> QED
    BY <1>2, <1>3, <1>4, <1>5

LEMMA OfficeStep == OfficeInv /\ [OfficeNext]_officeVars => OfficeInv'
  <1> SUFFICES ASSUME OfficeInv, [OfficeNext]_officeVars PROVE OfficeInv'
    OBVIOUS
  <1>1. ASSUME UNCHANGED <<office, assignments, books, call>>, overlapped \subseteq overlapped'
        PROVE  OfficeInv'
    <2>1. OneIsActive' /\ LookHolds' /\ AimHolds'
      BY <1>1, StillCalls, AssignmentsQuiet
    <2>2. LedgersInUseAreKept' /\ JournalsCounted'
      BY <1>1, LedgersQuiet
    <2>3. OfficeShape'
      BY <1>1 DEF OfficeInv, OfficeShape
    <2> QED
      BY <2>1, <2>2, <2>3 DEF OfficeInv, ChecksHold
  <1>2. CASE UNCHANGED officeVars
    BY <1>1, <1>2 DEF officeVars
  <1>3. ASSUME NEW c \in office.clerks, Arranges(c) PROVE OfficeInv'
    <2>1. c \in Clerks
      BY ClerkOfScene DEF OfficeInv
    <2>2. CASE ListActive(c) \/ Activate(c) \/ WriteLedger(c) \/ CountJournals(c) \/ SoftDelete(c)
      BY <2>1, <2>2, ActivationLooks, ActivationWrites, SavingWrites, DeletionCounts, DeletionWrites
    <2>3. CASE ~(ListActive(c) \/ Activate(c) \/ WriteLedger(c) \/ CountJournals(c) \/ SoftDelete(c))
      BY <1>3, <2>1, <2>3, OtherSteps DEF Arranges
    <2> QED
      BY <2>2, <2>3
  <1>4. ASSUME NEW year \in Years, NEW n \in 1..16, DeletePeriod(year, n) PROVE OfficeInv'
    BY <1>1, <1>4 DEF DeletePeriod
  <1>5. ASSUME NEW k \in SettingKeys, NEW new \in SettingKeys, RenamePipelineConfig(k, new, calls + 1)
        PROVE  OfficeInv'
    BY <1>1, <1>5 DEF RenamePipelineConfig
  <1> QED
    BY <1>2, <1>3, <1>4, <1>5, ConfigSteps, ConfigUpserted, JournalWritten DEF OfficeNext

\* At the start there is no configuration, no ledger and no call.
LEMMA OfficeStart == (\E sc \in OfficeScenes : OfficeInit(sc)) => OfficeInv
  <1> SUFFICES ASSUME NEW sc \in OfficeScenes, OfficeInit(sc) PROVE OfficeInv
    OBVIOUS
  <1>1. OfficeShape
    BY DEF OfficeInit, OfficeShape, IsCall, IsBook, IsConfig, Idle, NoLedger, Absent
  <1>2. ChecksHold
    BY DEF OfficeInit, ChecksHold, OneIsActive, LedgersInUseAreKept, Absent, Active, NoLedger
  <1>3. LookHolds /\ AimHolds /\ JournalsCounted
    BY DEF OfficeInit, LookHolds, AimHolds, JournalsCounted, Activates, Aims, Deletes, Idle
  <1> QED
    BY <1>1, <1>2, <1>3 DEF OfficeInv

\* Two configurations for a product are active, and a ledger with journals is deleted,
\* only where another call came between the look and the write, or an upsert wrote
\* without looking: for any number of clerks, configurations, products and ledgers.
\* activate_product_journal_config, delete_ledger
THEOREM OfficeChecksHold == OfficeSpec => []ChecksHold
  <1>1. OfficeInv => ChecksHold
    BY DEF OfficeInv
  <1> QED
    BY <1>1, OfficeStart, OfficeStep, PTL DEF OfficeSpec

-----------------------------------------------------------------------------
(* The settings and their cache *)

\* The calls about a setting.
SettingOps == {"get", "upsert", "remove"}
About(m, k) == m.op \in SettingOps /\ m.id = k

\* Calls about a setting are by themselves, unless all of them read.
CallsAlone(k) ==
  \A c, d \in Clerks : (c # d /\ About(call[c], k) /\ About(call[d], k)) => call[c].op = "get"

\* What is about to be cached is what the table holds.
CallsFresh(k) ==
  \A c \in Clerks : (About(call[c], k) /\ call[c].step = "cache") => call[c].value = settings[k]

\* What is cached is what the table holds, unless the call that has written it is
\* about to cache it.
CacheIsFresh(k) ==
  \/ cached[k] \in {0, settings[k]}
  \/ \E c \in Clerks : About(call[c], k) /\ call[c].op # "get" /\ call[c].step = "cache"

KeyHolds(k) == CallsAlone(k) /\ CallsFresh(k) /\ CacheIsFresh(k)

SettingCall(m) ==
  /\ m.id \in SettingKeys
  /\ m.op = "remove" => m.value = 0

CacheInv ==
  /\ settings = [k \in SettingKeys |-> settings[k]] /\ cached = [k \in SettingKeys |-> cached[k]]
  /\ \A c \in Clerks : call[c].op \in SettingOps => office.matter = "settings" /\ SettingCall(call[c])
  /\ \A k \in SettingKeys \ overlapped : KeyHolds(k)

\* Clerk c's call goes on, and the others are where they were.
OthersStay(c) == call' = [d \in Clerks |-> call'[d]] /\ \A d \in Clerks \ {c} : call'[d] = call[d]

LEMMA IdleOp == Idle.op = "none" /\ Idle.op \notin SettingOps /\ Idle.step = "none"
  BY DEF Idle, SettingOps

LEMMA AboutOther ==
  ASSUME OfficeShape, NEW c \in Clerks, NEW d \in Clerks \ {c}, NEW k, About(call[d], k)
  PROVE  call[d] \in Others(c) /\ call[d].id = k /\ call[d].op \in SettingOps
  BY IdleOp DEF About, Others

\* A step of a call that is about no setting, before and after it.
LEMMA CacheAside ==
  ASSUME OfficeShape, CacheInv, NEW c \in Clerks, OthersStay(c), call'[c].op \notin SettingOps,
         overlapped \subseteq overlapped',
         call[c].op \in SettingOps => call[c].id \in overlapped',
         UNCHANGED <<office, settings, cached>>
  PROVE  CacheInv'
<1>1. ASSUME NEW k \in SettingKeys, k \notin overlapped' PROVE KeyHolds(k)'
  <2>1. KeyHolds(k) /\ ~About(call[c], k) /\ ~About(call'[c], k)
    BY <1>1 DEF CacheInv, About
  <2> QED BY <2>1 DEF KeyHolds, CallsAlone, CallsFresh, CacheIsFresh, OthersStay
<1> QED BY <1>1 DEF CacheInv, OthersStay

LEMMA CacheNoCall ==
  ASSUME CacheInv, UNCHANGED <<office, call, settings, cached>>, overlapped \subseteq overlapped'
  PROVE  CacheInv'
<1>1. ASSUME NEW k \in SettingKeys, k \notin overlapped' PROVE KeyHolds(k)'
  BY <1>1 DEF CacheInv, KeyHolds, CallsAlone, CallsFresh, CacheIsFresh
<1> QED BY <1>1 DEF CacheInv

\* A call about a setting begins.
LEMMA SettingCalled ==
  ASSUME OfficeShape, CacheInv, NEW c \in Clerks, NEW op \in SettingOps, NEW step \in {"read", "write", "delete"},
         NEW key \in SettingKeys, NEW value, op = "remove" => value = 0,
         Calls(c, "settings", op, step, key, value, 0), Confuses(c, key, op # "get"),
         UNCHANGED <<settings, cached>>
  PROVE  CacheInv'
<1> DEFINE m == [op |-> op, step |-> step, id |-> key, value |-> value, n |-> 0]
<1>1. /\ call[c] = Idle /\ office.matter = "settings" /\ UNCHANGED office
      /\ call' = [call EXCEPT ![c] = m]
  BY DEF Calls
<1>2. OthersStay(c) /\ call'[c] = m
  BY <1>1 DEF OfficeShape, OthersStay
<1>3. m.op = op /\ m.step = step /\ m.id = key /\ m.value = value
  OBVIOUS
<1> HIDE DEF m
<1>4. overlapped \subseteq overlapped'
      /\ ((\E o \in Others(c) : o.id = key /\ (op # "get" \/ o.op # "get")) => key \in overlapped')
  BY DEF Confuses
<1>5. ASSUME NEW k \in SettingKeys, k \notin overlapped' PROVE KeyHolds(k)'
  <2>1. KeyHolds(k)
    BY <1>4, <1>5 DEF CacheInv
  <2>2. CASE k # key
    <3>1. ~About(call[c], k) /\ ~About(call'[c], k)
      BY <1>1, <1>2, <1>3, <2>2, IdleOp DEF About
    <3> QED BY <1>2, <2>1, <3>1 DEF KeyHolds, CallsAlone, CallsFresh, CacheIsFresh, OthersStay
  <2>3. CASE k = key
    <3>1. \A d \in Clerks \ {c} : About(call[d], k) => op = "get" /\ call[d].op = "get"
      BY <1>4, <1>5, <2>3, AboutOther
    <3>2. ~About(call[c], k)
      BY <1>1, IdleOp DEF About
    <3>3. CallsAlone(k)'
      BY <1>2, <1>3, <2>1, <3>1 DEF KeyHolds, CallsAlone, OthersStay
    <3>4. call'[c].step # "cache"
      BY <1>2, <1>3
    <3> QED BY <1>2, <2>1, <3>2, <3>3, <3>4 DEF KeyHolds, CallsFresh, CacheIsFresh, OthersStay
  <2> QED BY <2>2, <2>3
<1>6. ASSUME NEW d \in Clerks, call'[d].op \in SettingOps
      PROVE  office'.matter = "settings" /\ SettingCall(call'[d])
  BY <1>1, <1>2, <1>3, <1>6 DEF CacheInv, OthersStay, SettingCall
<1> QED BY <1>4, <1>5, <1>6 DEF CacheInv

\* The call about a setting has read or written it, or its answer says there is none.
LEMMA SettingServed ==
  ASSUME OfficeShape, CacheInv, NEW c \in Clerks, call[c].op \in SettingOps, OthersStay(c),
         call'[c].op = call[c].op, call'[c].id = call[c].id, call'[c].step = "cache",
         UNCHANGED <<office, cached, overlapped>>,
         settings' = [settings EXCEPT ![call[c].id] = call'[c].value],
         call[c].op = "get" => UNCHANGED settings,
         call[c].op = "remove" => call'[c].value = 0
  PROVE  CacheInv'
<1> DEFINE key == call[c].id
<1>1. key \in SettingKeys /\ office.matter = "settings" /\ About(call[c], key)
  BY DEF CacheInv, SettingCall, About
<1>2. /\ settings' = [k \in SettingKeys |-> settings'[k]] /\ settings'[key] = call'[c].value
      /\ \A k \in SettingKeys \ {key} : settings'[k] = settings[k]
  BY <1>1 DEF CacheInv
<1> HIDE DEF key
<1>3. ASSUME NEW k \in SettingKeys, k \notin overlapped' PROVE KeyHolds(k)'
  <2>1. KeyHolds(k)
    BY <1>3 DEF CacheInv
  <2>2. CASE k # key
    <3>1. ~About(call[c], k) /\ ~About(call'[c], k)
      BY <2>2 DEF About, key
    <3> QED BY <1>2, <2>1, <2>2, <3>1 DEF KeyHolds, CallsAlone, CallsFresh, CacheIsFresh, OthersStay
  <2>3. CASE k = key
    <3>1. About(call'[c], k)
      BY <1>1, <2>3 DEF About, key
    <3>2. CallsAlone(k)'
      BY <1>1, <2>1, <2>3, <3>1 DEF KeyHolds, CallsAlone, OthersStay
    <3>3. CASE call[c].op = "get"
      <4>1. UNCHANGED settings
        BY <3>3
      <4>2. CallsFresh(k)'
        BY <1>2, <2>1, <2>3, <4>1 DEF KeyHolds, CallsFresh, OthersStay
      <4>3. CacheIsFresh(k)'
        BY <2>1, <3>3, <4>1 DEF KeyHolds, CacheIsFresh, OthersStay
      <4> QED BY <3>2, <4>2, <4>3 DEF KeyHolds
    <3>4. CASE call[c].op # "get"
      <4>1. \A d \in Clerks \ {c} : ~About(call[d], k)
        BY <1>1, <2>1, <2>3, <3>4 DEF KeyHolds, CallsAlone
      <4>2. CallsFresh(k)'
        BY <1>2, <2>3, <4>1 DEF CallsFresh, OthersStay
      <4>3. CacheIsFresh(k)'
        BY <3>1, <3>4 DEF CacheIsFresh
      <4> QED BY <3>2, <4>2, <4>3 DEF KeyHolds
    <3> QED BY <3>3, <3>4
  <2> QED BY <2>2, <2>3
<1>4. ASSUME NEW d \in Clerks, call'[d].op \in SettingOps
      PROVE  office'.matter = "settings" /\ SettingCall(call'[d])
  BY <1>1, <1>4 DEF CacheInv, OthersStay, SettingCall, key
<1> QED BY <1>2, <1>3, <1>4 DEF CacheInv

\* Its cache is filled with what the table holds.
LEMMA CacheFilled ==
  ASSUME OfficeShape, CacheInv, NEW c \in Clerks, FillCache(c)
  PROVE  CacheInv'
<1> DEFINE key == call[c].id
<1>1. /\ call[c].op \in SettingOps /\ call[c].step = "cache" /\ Returns(c)
      /\ cached' = [cached EXCEPT ![key] = call[c].value] /\ UNCHANGED <<office, settings, overlapped>>
  BY DEF FillCache, Working, Cached, SettingOps
<1>2. OthersStay(c) /\ call'[c] = Idle
  BY <1>1, Returned DEF NothingNew, OthersStay
<1>3. key \in SettingKeys /\ About(call[c], key)
  BY <1>1 DEF CacheInv, SettingCall, About
<1>4. /\ cached' = [k \in SettingKeys |-> cached'[k]] /\ cached'[key] = call[c].value
      /\ \A k \in SettingKeys \ {key} : cached'[k] = cached[k]
  BY <1>1, <1>3 DEF CacheInv
<1>5. ASSUME NEW k \in SettingKeys, k \notin overlapped' PROVE KeyHolds(k)'
  <2>1. KeyHolds(k) /\ ~About(call'[c], k)
    BY <1>1, <1>2, <1>5, IdleOp DEF CacheInv, About
  <2>2. CallsAlone(k)' /\ CallsFresh(k)'
    BY <1>1, <1>2, <2>1 DEF KeyHolds, CallsAlone, CallsFresh, OthersStay
  <2>3. CASE k # key
    <3>1. ~About(call[c], k)
      BY <2>3 DEF About
    <3>2. CacheIsFresh(k)'
      BY <1>1, <1>2, <1>4, <2>1, <2>3, <3>1 DEF KeyHolds, CacheIsFresh, OthersStay
    <3> QED BY <2>2, <3>2 DEF KeyHolds
  <2>4. CASE k = key
    <3>1. call[c].value = settings[k]
      BY <1>1, <1>3, <2>1, <2>4 DEF KeyHolds, CallsFresh
    <3>2. CacheIsFresh(k)'
      BY <1>1, <1>4, <2>4, <3>1 DEF CacheIsFresh
    <3> QED BY <2>2, <3>2 DEF KeyHolds
  <2> QED BY <2>3, <2>4
<1>6. ASSUME NEW d \in Clerks, call'[d].op \in SettingOps
      PROVE  office'.matter = "settings" /\ SettingCall(call'[d])
  BY <1>1, <1>2, <1>6, IdleOp DEF CacheInv, OthersStay
<1> QED BY <1>1, <1>4, <1>5, <1>6 DEF CacheInv

\* A row gets another key: no call knows of the new one.
LEMMA SettingRenamed ==
  ASSUME OfficeShape, CacheInv, NEW key \in SettingKeys, NEW new \in SettingKeys, NEW value,
         RenamePipelineConfig(key, new, value)
  PROVE  CacheInv'
<1>1. /\ key # new /\ UNCHANGED <<office, call>>
      /\ settings' = [settings EXCEPT ![key] = 0, ![new] = value]
      /\ cached' = [cached EXCEPT ![new] = value]
      /\ overlapped' = overlapped \cup {key} \cup {o.id : o \in {call[d] : d \in Clerks} \ {Idle}}
  BY DEF RenamePipelineConfig
<1>2. /\ settings' = [k \in SettingKeys |-> settings'[k]] /\ settings'[new] = value
      /\ \A k \in SettingKeys \ {key, new} : settings'[k] = settings[k]
      /\ cached' = [k \in SettingKeys |-> cached'[k]] /\ cached'[new] = value
      /\ \A k \in SettingKeys \ {new} : cached'[k] = cached[k]
  BY <1>1 DEF CacheInv
<1>3. ASSUME NEW k \in SettingKeys, k \notin overlapped' PROVE KeyHolds(k)'
  <2>1. KeyHolds(k) /\ k # key
    BY <1>1, <1>3 DEF CacheInv
  <2>2. \A d \in Clerks : ~About(call[d], k)
    <3> SUFFICES ASSUME NEW d \in Clerks, About(call[d], k) PROVE FALSE
      OBVIOUS
    <3>1. call[d] # Idle /\ call[d].id = k
      BY IdleOp DEF About
    <3> QED BY <1>1, <1>3, <3>1
  <2>3. CallsAlone(k)' /\ CallsFresh(k)'
    BY <1>1, <2>2 DEF CallsAlone, CallsFresh
  <2>4. CacheIsFresh(k)'
    BY <1>2, <2>1, <2>2 DEF KeyHolds, CacheIsFresh
  <2> QED BY <2>3, <2>4 DEF KeyHolds
<1> QED BY <1>1, <1>2, <1>3 DEF CacheInv


\* Steps that are about the other matters.
LEMMA CacheOthers ==
  ASSUME OfficeShape, CacheInv, NEW c \in Clerks,
         \/ \E year \in Years : \E start \in Starts(year) : GenerateCalendar(c, year, start)
         \/ ListPeriodsByYear(c) \/ GeneratePeriod(c)
         \/ \E id \in Assignments : ActivateProductJournalConfig(c, id)
         \/ ListActive(c) \/ Activate(c)
         \/ \E id \in Ledgers : DeleteLedger(c, id) \/ \E name \in {1, 2} : SaveLedger(c, id, name)
         \/ ValidateLedgerName(c) \/ WriteLedger(c) \/ CountJournals(c) \/ SoftDelete(c)
         \/ Mishap(c)
  PROVE  CacheInv'
<1>1. UNCHANGED <<office, settings, cached>> /\ overlapped \subseteq overlapped'
  BY DEF GenerateCalendar, ListPeriodsByYear, GeneratePeriod, ActivateProductJournalConfig, ListActive,
         Activate, DeleteLedger, SaveLedger, ValidateLedgerName, WriteLedger, CountJournals, SoftDelete,
         Mishap, Calls, Working
<1>2. ASSUME Returns(c), call[c].op \in SettingOps => call[c].id \in overlapped'
      PROVE  CacheInv'
  <2>1. OthersStay(c) /\ call'[c] = Idle
    BY <1>2, Returned DEF NothingNew, OthersStay
  <2> QED BY <1>1, <1>2, <2>1, IdleOp, CacheAside
<1>3. ASSUME NEW step, Proceeds(c, step), call[c].op \notin SettingOps
      PROVE  CacheInv'
  BY <1>1, <1>3, StepSet, CacheAside DEF OthersStay
<1>4. ASSUME NEW matter, NEW op, op \notin SettingOps, NEW step, NEW id, NEW value, NEW n,
             Calls(c, matter, op, step, id, value, n)
      PROVE  CacheInv'
  <2> DEFINE m == [op |-> op, step |-> step, id |-> id, value |-> value, n |-> n]
  <2>1. call[c] = Idle /\ call' = [call EXCEPT ![c] = m]
    BY <1>4 DEF Calls
  <2>2. m.op = op
    OBVIOUS
  <2> HIDE DEF m
  <2>3. OthersStay(c) /\ call'[c] = m
    BY <2>1 DEF OfficeShape, OthersStay
  <2>4. call'[c].op \notin SettingOps /\ call[c].op \notin SettingOps
    BY <1>4, <2>1, <2>2, <2>3, IdleOp
  <2> QED BY <1>1, <2>3, <2>4, CacheAside
<1>6. \A op \in {"generate", "activate", "save", "delete"} : op \notin SettingOps
  BY DEF SettingOps
<1>7. ASSUME NEW year \in Years, NEW start \in Starts(year), GenerateCalendar(c, year, start)
      PROVE  CacheInv'
  BY <1>4, <1>6, <1>7 DEF GenerateCalendar
<1>8. ASSUME NEW id \in Assignments, ActivateProductJournalConfig(c, id)
      PROVE  CacheInv'
  BY <1>4, <1>6, <1>8 DEF ActivateProductJournalConfig
<1>9. ASSUME NEW id \in Ledgers, NEW name, DeleteLedger(c, id) \/ SaveLedger(c, id, name)
      PROVE  CacheInv'
  BY <1>4, <1>6, <1>9 DEF DeleteLedger, SaveLedger
<1>10. CASE ListActive(c) \/ Activate(c) \/ ValidateLedgerName(c) \/ WriteLedger(c) \/ CountJournals(c)
            \/ SoftDelete(c)
  <2>1. call[c].op \notin SettingOps
    BY <1>6, <1>10 DEF ListActive, Activate, ValidateLedgerName, WriteLedger, CountJournals, SoftDelete, Working
  <2>2. Returns(c) \/ \E step \in {"update", "write"} : Proceeds(c, step)
    BY <1>10 DEF ListActive, Activate, ValidateLedgerName, WriteLedger, CountJournals, SoftDelete
  <2> QED BY <1>2, <1>3, <2>1, <2>2
<1>11. CASE ListPeriodsByYear(c) \/ GeneratePeriod(c)
  <2>1. call[c].op = "generate"
    BY <1>11 DEF ListPeriodsByYear, GeneratePeriod, Working
  <2>2. ASSUME NEW start, call' = [call EXCEPT ![c].step = "write", ![c].value = start, ![c].n = 1]
        PROVE  OthersStay(c) /\ call'[c].op = call[c].op
    <3>1. OthersStay(c) /\ call'[c] = [call[c] EXCEPT !.step = "write", !.value = start, !.n = 1]
      BY <2>2 DEF OfficeShape, OthersStay
    <3> QED BY <3>1 DEF OfficeShape, IsCall
  <2>3. ASSUME NEW n, call' = [call EXCEPT ![c].n = n]
        PROVE  OthersStay(c) /\ call'[c].op = call[c].op
    BY <2>3 DEF OfficeShape, OthersStay, IsCall
  <2>4. ASSUME OthersStay(c), call'[c].op = call[c].op PROVE CacheInv'
    <3>1. call[c].op \notin SettingOps
      BY <1>6, <2>1
    <3> QED BY <1>1, <2>4, <3>1, CacheAside
  <2>5. CASE ListPeriodsByYear(c)
    <3> DEFINE start == IF call[c].value = 0 THEN NearestSunday(call[c].id) ELSE call[c].value
    <3>1. Returns(c) \/ call' = [call EXCEPT ![c].step = "write", ![c].value = start, ![c].n = 1]
      BY <2>5 DEF ListPeriodsByYear
    <3> HIDE DEF start
    <3> QED BY <1>2, <1>6, <2>1, <2>2, <2>4, <3>1
  <2>6. CASE GeneratePeriod(c)
    <3>1. PICK n : Returns(c) \/ call' = [call EXCEPT ![c].n = n]
      BY <2>6 DEF GeneratePeriod
    <3> QED BY <1>2, <1>6, <2>1, <2>3, <2>4, <3>1
  <2> QED BY <1>11, <2>5, <2>6
<1>12. CASE Mishap(c)
  <2>1. call[c].op \in SettingOps => call[c].id \in overlapped'
    BY <1>12 DEF Mishap, CacheInv
  <2> QED BY <1>2, <1>12, <2>1 DEF Mishap
<1> QED BY <1>7, <1>8, <1>9, <1>10, <1>11, <1>12

LEMMA CacheSettings ==
  ASSUME OfficeShape, CacheInv, NEW c \in Clerks,
         \/ \E k \in SettingKeys : \/ GetPipelineConfig(c, k) \/ DeletePipelineConfig(c, k)
                                   \/ UpsertPipelineConfig(c, k, calls + 1)
         \/ ReadPipelineConfig(c) \/ WritePipelineConfig(c) \/ FillCache(c) \/ DeleteSetting(c)
  PROVE  CacheInv'
<1>1. ASSUME NEW k \in SettingKeys, GetPipelineConfig(c, k) PROVE CacheInv'
  <2>1. /\ Calls(c, "settings", "get", "read", k, 0, 0) /\ Confuses(c, k, "get" # "get")
        /\ UNCHANGED <<settings, cached>> /\ "get" \in SettingOps
    BY <1>1 DEF GetPipelineConfig, SettingOps
  <2> QED BY <2>1, SettingCalled
<1>2. ASSUME NEW k \in SettingKeys, DeletePipelineConfig(c, k) PROVE CacheInv'
  <2>1. /\ Calls(c, "settings", "remove", "delete", k, 0, 0) /\ Confuses(c, k, "remove" # "get")
        /\ UNCHANGED <<settings, cached>> /\ "remove" \in SettingOps
    BY <1>2 DEF DeletePipelineConfig, SettingOps, Confuses
  <2> QED BY <2>1, SettingCalled
<1>3. ASSUME NEW k \in SettingKeys, UpsertPipelineConfig(c, k, calls + 1) PROVE CacheInv'
  <2>1. /\ Calls(c, "settings", "upsert", "write", k, calls + 1, 0) /\ Confuses(c, k, "upsert" # "get")
        /\ UNCHANGED <<settings, cached>> /\ "upsert" \in SettingOps
    BY <1>3 DEF UpsertPipelineConfig, SettingOps, Confuses
  <2> QED BY <2>1, SettingCalled
<1> DEFINE key == call[c].id
<1>4. CASE ReadPipelineConfig(c)
  <2>1. call[c].op = "get" /\ UNCHANGED <<office, settings, cached, overlapped>> /\ call[c].op \in SettingOps
    BY <1>4 DEF ReadPipelineConfig, Working, SettingOps
  <2>2. CASE settings[key] = 0
    <3>1. OthersStay(c) /\ call'[c] = Idle
      BY <1>4, <2>2, Returned DEF ReadPipelineConfig, NothingNew, OthersStay
    <3>2. ASSUME NEW k \in SettingKeys, k \notin overlapped' PROVE KeyHolds(k)'
      <4>1. KeyHolds(k) /\ ~About(call'[c], k)
        BY <2>1, <3>1, <3>2, IdleOp DEF CacheInv, About
      <4> QED BY <2>1, <3>1, <4>1 DEF KeyHolds, CallsAlone, CallsFresh, CacheIsFresh, OthersStay
    <3> QED BY <2>1, <3>1, <3>2, IdleOp DEF CacheInv, OthersStay
  <2>3. CASE settings[key] # 0
    <3>1. call' = [call EXCEPT ![c].step = "cache", ![c].value = settings[key]]
      BY <1>4, <2>3 DEF ReadPipelineConfig
    <3>2. /\ OthersStay(c) /\ call'[c].op = call[c].op /\ call'[c].id = call[c].id
          /\ call'[c].step = "cache" /\ call'[c].value = settings[key]
      <4>1. OthersStay(c) /\ call'[c] = [call[c] EXCEPT !.step = "cache", !.value = settings[key]]
        BY <3>1 DEF OfficeShape, OthersStay
      <4> QED BY <4>1 DEF OfficeShape, IsCall
    <3>3. settings' = [settings EXCEPT ![key] = call'[c].value]
      BY <2>1, <3>2 DEF CacheInv
    <3> QED BY <2>1, <3>2, <3>3, SettingServed
  <2> QED BY <2>2, <2>3
<1>5. CASE WritePipelineConfig(c) \/ DeleteSetting(c)
  <2>1. /\ call[c].op \in {"upsert", "remove"} /\ call[c].op \in SettingOps
        /\ UNCHANGED <<office, cached, overlapped>> /\ Proceeds(c, "cache")
        /\ settings' = [settings EXCEPT ![key] = IF call[c].op = "upsert" THEN call[c].value ELSE 0]
    BY <1>5 DEF WritePipelineConfig, DeleteSetting, PipelineUpsertV1, PipelineDeleteV1, Working, SettingOps
  <2>2. /\ OthersStay(c) /\ call'[c].op = call[c].op /\ call'[c].id = call[c].id
        /\ call'[c].step = "cache" /\ call'[c].value = call[c].value
    BY <2>1 DEF Proceeds, OfficeShape, OthersStay, IsCall
  <2>3. call[c].op = "remove" => call'[c].value = 0
    BY <2>1, <2>2 DEF CacheInv, SettingCall
  <2> QED BY <2>1, <2>2, <2>3, SettingServed
<1> QED BY <1>1, <1>2, <1>3, <1>4, <1>5, CacheFilled

LEMMA CacheStep ==
  ASSUME OfficeInv, CacheInv, [OfficeNext]_officeVars
  PROVE  CacheInv'
<1>1. OfficeShape
  BY DEF OfficeInv
<1>2. CASE UNCHANGED officeVars
  BY <1>2, CacheNoCall DEF officeVars
<1>3. ASSUME NEW c \in office.clerks, Arranges(c) PROVE CacheInv'
  BY <1>1, <1>3, ClerkOfScene, CacheOthers, CacheSettings DEF Arranges
<1>4. ASSUME NEW year, NEW n, NEW id, NEW product, NEW status,
             \/ DeletePeriod(year, n) \/ ConfigStep(id) \/ CreateJournalOn(id)
             \/ UpsertProductJournalConfig(id, product, status)
      PROVE  CacheInv'
  <2>1. UNCHANGED <<office, call, settings, cached>> /\ overlapped \subseteq overlapped'
    BY <1>4 DEF DeletePeriod, ConfigStep, CreateJournalOn, UpsertProductJournalConfig
  <2> QED BY <2>1, CacheNoCall
<1> QED BY <1>1, <1>2, <1>3, <1>4, SettingRenamed DEF OfficeNext

\* A cached setting is the one in the table when no call about it is under way, unless
\* calls about it overlapped, or failed, or its row was given another key; for any
\* number of clerks and keys.
\* (finance_module.py: get_pipeline_config, upsert_pipeline_config, delete_pipeline_config)
THEOREM CacheStaysFresh == OfficeSpec => []CacheFollowsTable
<1>1. (\E sc \in OfficeScenes : OfficeInit(sc)) => CacheInv
  <2> SUFFICES ASSUME NEW sc \in OfficeScenes, OfficeInit(sc) PROVE CacheInv
    OBVIOUS
  <2>1. \A c \in Clerks : call[c].op \notin SettingOps
    BY IdleOp DEF OfficeInit
  <2> QED
    BY <2>1 DEF OfficeInit, CacheInv, KeyHolds, CallsAlone, CallsFresh, CacheIsFresh, About
<1>2. OfficeInv /\ CacheInv /\ [OfficeNext]_officeVars => CacheInv'
  BY CacheStep
<1>3. CacheInv => CacheFollowsTable
  <2> SUFFICES ASSUME CacheInv, NEW k \in SettingKeys \ overlapped,
                      \A c \in Clerks : call[c].id # k \/ call[c] = Idle
               PROVE  cached[k] \in {0, settings[k]}
    BY DEF CacheFollowsTable
  <2>1. \A c \in Clerks : ~About(call[c], k)
    BY IdleOp DEF About
  <2> QED BY <2>1 DEF CacheInv, KeyHolds, CacheIsFresh
<1> QED BY <1>1, <1>2, <1>3, OfficeStart, OfficeStep, PTL DEF OfficeSpec


-----------------------------------------------------------------------------
(* The fiscal calendar *)

\* Within six days of any day there is a Sunday that no other is nearer than.
\* (_nearest_sunday_for_fiscal_year)
LEMMA NearestExists ==
  ASSUME NEW target \in Int
  PROVE  LET candidates == {d \in (target - 6)..(target + 6) : d % 7 = 0}
         IN  \E d \in candidates :
               \A e \in candidates : \/ Distance(d, target) < Distance(e, target)
                                     \/ Distance(d, target) = Distance(e, target) /\ d <= e
<1> DEFINE candidates == {d \in (target - 6)..(target + 6) : d % 7 = 0}
           r == target % 7
           near == IF r <= 3 THEN target - r ELSE target - r + 7
<1>1. r \in 0..6
  OBVIOUS
<1>2. near \in candidates
  <2>1. CASE r <= 3
    BY <1>1, <2>1
  <2>2. CASE r > 3
    BY <1>1, <2>2
  <2> QED BY <1>1, <2>1, <2>2
<1>3. \A e \in candidates : e \in {target - r, target - r + 7}
  BY <1>1
<1>4. \A e \in candidates : \/ Distance(near, target) < Distance(e, target)
                            \/ Distance(near, target) = Distance(e, target) /\ near <= e
  <2> SUFFICES ASSUME NEW e \in candidates
               PROVE  \/ Distance(near, target) < Distance(e, target)
                      \/ Distance(near, target) = Distance(e, target) /\ near <= e
    OBVIOUS
  <2>1. e = target - r \/ e = target - r + 7
    BY <1>3
  <2> HIDE DEF candidates
  <2> QED BY <1>1, <2>1 DEF Distance
<1> QED BY <1>2, <1>4

LEMMA SundayIsDay ==
  ASSUME NEW year \in Nat
  PROVE  NearestSunday(year) \in Int
<1> DEFINE target == Dec28(year - 1)
           candidates == {d \in (target - 6)..(target + 6) : d % 7 = 0}
           Nearest(d) == \A e \in candidates : \/ Distance(d, target) < Distance(e, target)
                                               \/ Distance(d, target) = Distance(e, target) /\ d <= e
<1>1. target \in Int
  BY DEF Dec28
<1>2. \E d \in candidates : Nearest(d)
  <2> HIDE DEF target
  <2> QED BY <1>1, NearestExists
<1>3. NearestSunday(year) = CHOOSE d \in candidates : Nearest(d)
  BY DEF NearestSunday
<1>4. candidates \subseteq Int
  <2> HIDE DEF target
  <2> QED BY <1>1
<1> HIDE DEF target, candidates, Nearest
<1>5. (CHOOSE d \in candidates : Nearest(d)) \in candidates
  BY <1>2
<1> QED BY <1>3, <1>4, <1>5

\* The n-th period of a year that begins on the day.
Generated(year, n, start) ==
  [from |-> PeriodStart(n, start),
   to |-> PeriodStart(n, start) + PeriodLength(n, YearLength(year, start)) - 1, status |-> "open"]

IsStart(year, start) == start \in Int /\ YearLength(year, start) \in {364, 371}

\* A period begins where the one before ends, and the last one ends where the next
\* year begins.  (PeriodStart, PeriodLength: _generate_fiscal_periods)
LEMMA GeneratedFollow ==
  ASSUME NEW year \in Years, NEW start, IsStart(year, start)
  PROVE  /\ \A n \in 1..15 : Generated(year, n + 1, start).from = Generated(year, n, start).to + 1
         /\ Generated(year, 16, start).to + 1 = NearestSunday(year + 1)
<1>1. start \in Int /\ NearestSunday(year + 1) \in Int
  BY OfficeAssumption, SundayIsDay DEF IsStart
<1>2. /\ \A n \in 1..16 : /\ Generated(year, n, start).from = PeriodStart(n, start)
                          /\ Generated(year, n, start).to =
                               PeriodStart(n, start) + PeriodLength(n, YearLength(year, start)) - 1
  BY DEF Generated
<1>3. ASSUME NEW n \in 1..15
      PROVE  /\ PeriodStart(n, start) \in Int
             /\ PeriodLength(n, YearLength(year, start)) \in Int
             /\ PeriodStart(n + 1, start) = PeriodStart(n, start) + PeriodLength(n, YearLength(year, start))
  <2>1. PeriodLength(n, YearLength(year, start)) = IF n % 4 # 0 THEN 28 ELSE 7
    BY DEF PeriodLength
  <2>2. n \in {1, 2, 3, 4, 5, 6, 7, 8, 9, 10, 11, 12, 13, 14, 15}
    OBVIOUS
  <2> QED BY <1>1, <2>1, <2>2 DEF PeriodStart
<1>4. PeriodStart(16, start) = start + 357
  BY <1>1 DEF PeriodStart
<1>5. start + 357 + PeriodLength(16, YearLength(year, start)) = NearestSunday(year + 1)
  BY <1>1 DEF PeriodLength, YearLength, IsStart
<1>6. PeriodLength(16, YearLength(year, start)) \in Int
  BY DEF PeriodLength
<1>7. ASSUME NEW n \in 1..15
      PROVE  Generated(year, n + 1, start).from = Generated(year, n, start).to + 1
  <2>1. n \in 1..16 /\ n + 1 \in 1..16
    OBVIOUS
  <2> QED BY <1>2, <1>3, <2>1
<1>8. Generated(year, 16, start).to + 1 = NearestSunday(year + 1)
  BY <1>1, <1>2, <1>4, <1>5, <1>6
<1> QED BY <1>7, <1>8


\* What there is of a year are periods of a year that begins on the day.
Agrees(year, start) == \A n \in 1..16 : periods[year][n] \in {NoPeriod, Generated(year, n, start)}

Empty(year) == \A n \in 1..16 : periods[year][n] = NoPeriod

Generates(m, year) == m.op = "generate" /\ m.step = "write" /\ m.id = year

GeneratingCall(m) ==
  /\ m.id \in Years /\ m.value \in Int
  /\ m.step = "write" => m.n \in 1..16 /\ IsStart(m.id, m.value)

\* All that is there, and all that will be written, begins the year on one day.
YearHolds(year) ==
  /\ Empty(year) \/ \E s : IsStart(year, s) /\ Agrees(year, s)
  /\ \A c \in Clerks : Generates(call[c], year) => Agrees(year, call[c].value)

CalendarInv ==
  /\ periods = [year \in Years |-> periods[year]]
  /\ \A year \in Years : periods[year] = [n \in 1..16 |-> periods[year][n]]
  /\ \A c \in Clerks : call[c].op = "generate" => GeneratingCall(call[c])
  /\ \A year \in Years \ overlapped : YearHolds(year)

LEMMA CalendarAside ==
  ASSUME OfficeShape, CalendarInv, NEW c \in Clerks, OthersStay(c),
         call'[c].op = "generate" => GeneratingCall(call'[c]) /\ call'[c].step # "write",
         overlapped \subseteq overlapped', UNCHANGED periods
  PROVE  CalendarInv'
<1>1. ASSUME NEW year \in Years, year \notin overlapped' PROVE YearHolds(year)'
  <2>1. YearHolds(year) /\ ~Generates(call'[c], year)
    BY <1>1 DEF CalendarInv, Generates
  <2> QED BY <2>1 DEF YearHolds, Agrees, Empty, OthersStay
<1> QED BY <1>1 DEF CalendarInv, OthersStay

LEMMA CalendarNoCall ==
  ASSUME CalendarInv, UNCHANGED <<call, periods>>, overlapped \subseteq overlapped'
  PROVE  CalendarInv'
<1>1. ASSUME NEW year \in Years, year \notin overlapped' PROVE YearHolds(year)'
  BY <1>1 DEF CalendarInv, YearHolds, Agrees, Empty
<1> QED BY <1>1 DEF CalendarInv

LEMMA PeriodDeleted ==
  ASSUME CalendarInv, NEW year \in Years, NEW n \in 1..16, DeletePeriod(year, n)
  PROVE  CalendarInv'
<1>1. periods' = [periods EXCEPT ![year][n] = NoPeriod] /\ UNCHANGED <<call, overlapped>>
  BY DEF DeletePeriod, DeletePeriodV1
<1>2. /\ periods' = [y \in Years |-> periods'[y]]
      /\ \A y \in Years : periods'[y] = [i \in 1..16 |-> periods'[y][i]]
      /\ \A y \in Years : \A i \in 1..16 : periods'[y][i] \in {periods[y][i], NoPeriod}
  BY <1>1 DEF CalendarInv
<1>3. ASSUME NEW y \in Years, y \notin overlapped' PROVE YearHolds(y)'
  <2>1. YearHolds(y) /\ (Empty(y) => Empty(y)')
    BY <1>1, <1>2, <1>3 DEF CalendarInv, Empty
  <2>2. \A s : Agrees(y, s) => Agrees(y, s)'
    BY <1>2 DEF Agrees
  <2> QED BY <1>1, <2>1, <2>2 DEF YearHolds
<1> QED BY <1>1, <1>2, <1>3 DEF CalendarInv

LEMMA StartIsDay ==
  ASSUME OfficeShape, NEW year \in Years, NEW start \in Starts(year)
  PROVE  start \in Int
<1>1. NearestSunday(year) \in Int /\ office.weeks \subseteq Int
  BY OfficeAssumption, SundayIsDay DEF OfficeShape
<1> QED BY <1>1 DEF Starts

LEMMA GenerationBegins ==
  ASSUME OfficeShape, CalendarInv, NEW c \in Clerks, NEW year \in Years, NEW start \in Starts(year),
         GenerateCalendar(c, year, start)
  PROVE  CalendarInv'
<1> DEFINE m == [op |-> "generate", step |-> "exists", id |-> year, value |-> start, n |-> 0]
<1>1. call' = [call EXCEPT ![c] = m] /\ UNCHANGED <<periods, overlapped>>
  BY DEF GenerateCalendar, Calls
<1>2. m.step = "exists" /\ m.id = year /\ m.value = start
  OBVIOUS
<1> HIDE DEF m
<1>3. OthersStay(c) /\ call'[c] = m
  BY <1>1 DEF OfficeShape, OthersStay
<1>4. GeneratingCall(m)
  BY <1>2, StartIsDay DEF GeneratingCall
<1> QED BY <1>1, <1>2, <1>3, <1>4, CalendarAside

\* A generation that has found no period of the year.
LEMMA GenerationLooks ==
  ASSUME OfficeShape, CalendarInv, NEW c \in Clerks, ListPeriodsByYear(c)
  PROVE  CalendarInv'
<1> DEFINE year == call[c].id
           start == IF call[c].value = 0 THEN NearestSunday(year) ELSE call[c].value
<1>1. /\ call[c].op = "generate" /\ UNCHANGED <<periods, overlapped>>
      /\ \/ Returns(c)
         \/ /\ Empty(year) /\ YearLength(year, start) \in {364, 371}
            /\ call' = [call EXCEPT ![c].step = "write", ![c].value = start, ![c].n = 1]
  BY DEF ListPeriodsByYear, Working, Empty
<1>2. year \in Years /\ start \in Int
  <2>1. GeneratingCall(call[c])
    BY <1>1 DEF CalendarInv
  <2> QED BY <2>1, SundayIsDay, OfficeAssumption DEF GeneratingCall
<1> HIDE DEF start, year
<1>3. CASE Returns(c)
  <2>1. OthersStay(c) /\ call'[c].op # "generate"
    BY <1>3, Returned, IdleOp DEF NothingNew, OthersStay
  <2> QED BY <1>1, <2>1, CalendarAside
<1>4. CASE /\ Empty(year) /\ YearLength(year, start) \in {364, 371}
           /\ call' = [call EXCEPT ![c].step = "write", ![c].value = start, ![c].n = 1]
  <2>1. OthersStay(c) /\ call'[c] = [call[c] EXCEPT !.step = "write", !.value = start, !.n = 1]
    BY <1>4 DEF OfficeShape, OthersStay
  <2>2. /\ call'[c].op = "generate" /\ call'[c].step = "write" /\ call'[c].id = year
        /\ call'[c].value = start /\ call'[c].n = 1
    BY <1>1, <2>1 DEF OfficeShape, IsCall, year
  <2>3. GeneratingCall(call'[c])
    BY <1>2, <1>4, <2>2 DEF GeneratingCall, IsStart
  <2>4. ASSUME NEW y \in Years, y \notin overlapped' PROVE YearHolds(y)'
    <3>1. YearHolds(y)
      BY <1>1, <2>4 DEF CalendarInv
    <3>2. ASSUME Generates(call'[c], y) PROVE Empty(y)
      BY <1>1, <1>4, <2>2, <3>2 DEF Generates, year
    <3>3. (Empty(y) => \A s : Agrees(y, s)') /\ (Empty(y) => Empty(y)')
      BY <1>1 DEF Agrees, Empty
    <3>4. CASE Empty(y)
      <4>1. Empty(y)' /\ \A d \in Clerks : Agrees(y, call[d].value)'
        BY <3>3, <3>4
      <4> QED BY <4>1 DEF YearHolds
    <3>5. CASE ~Empty(y)
      <4>1. \A s : Agrees(y, s) => Agrees(y, s)'
        BY <1>1 DEF Agrees
      <4>2. \A d \in Clerks : Generates(call'[d], y) => call'[d] = call[d]
        BY <2>1, <3>2, <3>5 DEF OthersStay
      <4>3. \A d \in Clerks : Generates(call'[d], y) => Agrees(y, call[d].value)'
        BY <3>1, <4>1, <4>2 DEF YearHolds
      <4> QED BY <3>1, <3>5, <4>1, <4>3 DEF YearHolds
    <3> QED BY <3>4, <3>5
  <2> QED BY <1>1, <2>1, <2>3, <2>4 DEF CalendarInv, OthersStay
<1> QED BY <1>1, <1>3, <1>4

\* A period is written: history has it if another generation writes from another start.
LEMMA GenerationWrites ==
  ASSUME OfficeShape, CalendarInv, NEW c \in Clerks, GeneratePeriod(c)
  PROVE  CalendarInv'
<1>0. PICK year, start, n : year = call[c].id /\ start = call[c].value /\ n = call[c].n
  OBVIOUS
<1>1. /\ call[c].op = "generate" /\ call[c].step = "write"
      /\ periods' = [periods EXCEPT ![year][n] = Generated(year, n, start)]
      /\ overlapped \subseteq overlapped'
      /\ (\E o \in Others(c) : o.op = "generate" /\ o.id = year /\ o.step = "write" /\ o.value # start)
           => year \in overlapped'
  BY <1>0 DEF GeneratePeriod, Working, UpsertPeriodV1, Generated
<1>2. IF n = 16 THEN Returns(c) ELSE call' = [call EXCEPT ![c].n = n + 1]
  BY <1>0 DEF GeneratePeriod
<1>3. year \in Years /\ n \in 1..16 /\ IsStart(year, start)
  BY <1>0, <1>1 DEF CalendarInv, GeneratingCall
<1>4. /\ periods' = [y \in Years |-> periods'[y]]
      /\ \A y \in Years : periods'[y] = [i \in 1..16 |-> periods'[y][i]]
      /\ periods'[year][n] = Generated(year, n, start)
      /\ \A y \in Years : \A i \in 1..16 : (y # year \/ i # n) => periods'[y][i] = periods[y][i]
  BY <1>1, <1>3 DEF CalendarInv
<1>5. /\ OthersStay(c)
      /\ call'[c].op = "generate" => /\ GeneratingCall(call'[c])
                                     /\ call'[c].id = year /\ call'[c].value = start
  <2>1. CASE n = 16
    BY <1>0, <1>2, <2>1, Returned, IdleOp DEF NothingNew, OthersStay
  <2>2. CASE n # 16
    <3>1. OthersStay(c) /\ call'[c] = [call[c] EXCEPT !.n = n + 1]
      BY <1>2, <2>2 DEF OfficeShape, OthersStay
    <3>2. /\ call'[c].id = year /\ call'[c].value = start /\ call'[c].n = n + 1
          /\ call'[c].step = "write"
      BY <1>0, <1>1, <3>1 DEF OfficeShape, IsCall
    <3>3. GeneratingCall(call'[c])
      BY <1>3, <2>2, <3>2 DEF GeneratingCall, IsStart
    <3> QED BY <3>1, <3>2, <3>3
  <2> QED BY <2>1, <2>2
<1>6. ASSUME NEW d \in Clerks \ {c}, Generates(call[d], year), year \notin overlapped'
      PROVE  call[d].value = start
  <2>1. call[d] \in Others(c)
    BY <1>6, IdleOp DEF Generates, Others
  <2> QED BY <1>1, <1>6, <2>1 DEF Generates
<1>7. ASSUME NEW y \in Years, y \notin overlapped' PROVE YearHolds(y)'
  <2>1. YearHolds(y)
    BY <1>1, <1>7 DEF CalendarInv
  <2>2. CASE y = year
    <3>1. Agrees(year, start)
      BY <1>0, <1>1, <2>1, <2>2 DEF YearHolds, Generates
    <3>2. Agrees(year, start)'
      BY <1>3, <1>4, <3>1 DEF Agrees
    <3>3. \A d \in Clerks : Generates(call'[d], year) => call'[d].value = start
      BY <1>5, <1>6, <1>7, <2>2 DEF OthersStay, Generates
    <3> QED BY <1>3, <2>2, <3>2, <3>3 DEF YearHolds
  <2>3. CASE y # year
    <3>1. (Empty(y) => Empty(y)') /\ \A s : Agrees(y, s) => Agrees(y, s)'
      BY <1>4, <2>3 DEF Empty, Agrees
    <3>2. ~Generates(call'[c], y)
      BY <1>5, <2>3 DEF Generates
    <3> QED BY <1>5, <2>1, <3>1, <3>2 DEF YearHolds, OthersStay
  <2> QED BY <2>2, <2>3
<1> QED BY <1>1, <1>4, <1>5, <1>7 DEF CalendarInv, OthersStay

LEMMA CalendarOthers ==
  ASSUME OfficeShape, CalendarInv, NEW c \in Clerks,
         \/ \E id \in Assignments : ActivateProductJournalConfig(c, id)
         \/ ListActive(c) \/ Activate(c)
         \/ \E id \in Ledgers : DeleteLedger(c, id) \/ \E name \in {1, 2} : SaveLedger(c, id, name)
         \/ ValidateLedgerName(c) \/ WriteLedger(c) \/ CountJournals(c) \/ SoftDelete(c)
         \/ \E k \in SettingKeys : \/ GetPipelineConfig(c, k) \/ DeletePipelineConfig(c, k)
                                   \/ UpsertPipelineConfig(c, k, calls + 1)
         \/ ReadPipelineConfig(c) \/ WritePipelineConfig(c) \/ FillCache(c) \/ DeleteSetting(c)
         \/ Mishap(c)
  PROVE  CalendarInv'
<1>1. UNCHANGED periods /\ overlapped \subseteq overlapped'
  BY DEF ActivateProductJournalConfig, ListActive, Activate, DeleteLedger, SaveLedger, ValidateLedgerName,
         WriteLedger, CountJournals, SoftDelete, GetPipelineConfig, DeletePipelineConfig,
         UpsertPipelineConfig, ReadPipelineConfig, WritePipelineConfig, FillCache, DeleteSetting, Mishap,
         Calls, Working, Confuses
<1>2. ASSUME Returns(c) PROVE CalendarInv'
  <2>1. OthersStay(c) /\ call'[c].op # "generate"
    BY <1>2, Returned, IdleOp DEF NothingNew, OthersStay
  <2> QED BY <1>1, <2>1, CalendarAside
<1>3. ASSUME NEW step, Proceeds(c, step), call[c].op # "generate" PROVE CalendarInv'
  BY <1>1, <1>3, StepSet, CalendarAside DEF OthersStay
<1>4. ASSUME NEW matter, NEW op, op # "generate", NEW step, NEW id, NEW value, NEW n,
             Calls(c, matter, op, step, id, value, n)
      PROVE  CalendarInv'
  <2> DEFINE m == [op |-> op, step |-> step, id |-> id, value |-> value, n |-> n]
  <2>1. call' = [call EXCEPT ![c] = m]
    BY <1>4 DEF Calls
  <2>2. m.op # "generate"
    BY <1>4
  <2> HIDE DEF m
  <2>3. OthersStay(c) /\ call'[c] = m
    BY <2>1 DEF OfficeShape, OthersStay
  <2>4. call'[c].op # "generate"
    BY <2>2, <2>3
  <2> QED BY <1>1, <2>3, <2>4, CalendarAside
<1>5. ASSUME NEW id \in Assignments, ActivateProductJournalConfig(c, id)
      PROVE  CalendarInv'
  BY <1>4, <1>5 DEF ActivateProductJournalConfig
<1>6. ASSUME NEW id \in Ledgers, NEW name, DeleteLedger(c, id) \/ SaveLedger(c, id, name)
      PROVE  CalendarInv'
  BY <1>4, <1>6 DEF DeleteLedger, SaveLedger
<1>7. ASSUME NEW k \in SettingKeys, NEW value,
             GetPipelineConfig(c, k) \/ DeletePipelineConfig(c, k) \/ UpsertPipelineConfig(c, k, value)
      PROVE  CalendarInv'
  BY <1>4, <1>7 DEF GetPipelineConfig, DeletePipelineConfig, UpsertPipelineConfig
<1>8. CASE ListActive(c) \/ Activate(c) \/ ValidateLedgerName(c) \/ WriteLedger(c) \/ CountJournals(c)
           \/ SoftDelete(c) \/ WritePipelineConfig(c) \/ FillCache(c) \/ DeleteSetting(c) \/ Mishap(c)
  <2>1. call[c].op # "generate" \/ Returns(c)
    BY <1>8 DEF ListActive, Activate, ValidateLedgerName, WriteLedger, CountJournals, SoftDelete,
                WritePipelineConfig, FillCache, DeleteSetting, Mishap, Working
  <2>2. Returns(c) \/ \E step \in {"update", "write", "cache"} : Proceeds(c, step)
    BY <1>8 DEF ListActive, Activate, ValidateLedgerName, WriteLedger, CountJournals, SoftDelete,
                WritePipelineConfig, FillCache, DeleteSetting, Mishap
  <2> QED BY <1>2, <1>3, <2>1, <2>2
<1>9. CASE ReadPipelineConfig(c)
  <2>1. CASE settings[call[c].id] = 0
    BY <1>2, <1>9, <2>1 DEF ReadPipelineConfig
  <2>2. CASE settings[call[c].id] # 0
    <3>1. /\ call[c].op = "get"
          /\ call' = [call EXCEPT ![c].step = "cache", ![c].value = settings[call[c].id]]
      BY <1>9, <2>2 DEF ReadPipelineConfig, Working
    <3>2. OthersStay(c) /\ call'[c] = [call[c] EXCEPT !.step = "cache", !.value = settings[call[c].id]]
      BY <3>1 DEF OfficeShape, OthersStay
    <3>3. call'[c].op = "get"
      BY <3>1, <3>2 DEF OfficeShape, IsCall
    <3> QED BY <1>1, <3>2, <3>3, CalendarAside
  <2> QED BY <2>1, <2>2
<1> QED BY <1>5, <1>6, <1>7, <1>8, <1>9

LEMMA CalendarStep ==
  ASSUME OfficeInv, CalendarInv, [OfficeNext]_officeVars
  PROVE  CalendarInv'
<1>1. OfficeShape
  BY DEF OfficeInv
<1>2. CASE UNCHANGED officeVars
  BY <1>2, CalendarNoCall DEF officeVars
<1>3. ASSUME NEW c \in office.clerks, Arranges(c) PROVE CalendarInv'
  BY <1>1, <1>3, ClerkOfScene, GenerationBegins, GenerationLooks, GenerationWrites, CalendarOthers
  DEF Arranges
<1>4. ASSUME NEW k, NEW new, NEW value, NEW id, NEW product, NEW status,
             \/ RenamePipelineConfig(k, new, value) \/ ConfigStep(id) \/ CreateJournalOn(id)
             \/ UpsertProductJournalConfig(id, product, status)
      PROVE  CalendarInv'
  <2>1. UNCHANGED <<call, periods>> /\ overlapped \subseteq overlapped'
    BY <1>4 DEF RenamePipelineConfig, ConfigStep, CreateJournalOn, UpsertProductJournalConfig
  <2> QED BY <2>1, CalendarNoCall
<1> QED BY <1>1, <1>2, <1>3, <1>4, PeriodDeleted DEF OfficeNext

\* The periods of a year follow each other without a gap up to the day on which the
\* next year begins, whatever failed and was deleted before and however many
\* generations run at once, unless they begin on different days; for any years and any
\* start days.
\* (finance_module.py: generate_calendar, _generate_fiscal_periods)
THEOREM PeriodsStayInOrder == OfficeSpec => []PeriodsFollowEachOther
<1>1. (\E sc \in OfficeScenes : OfficeInit(sc)) => CalendarInv
  <2> SUFFICES ASSUME NEW sc \in OfficeScenes, OfficeInit(sc) PROVE CalendarInv
    OBVIOUS
  <2>1. \A c \in Clerks : call[c].op # "generate"
    BY IdleOp DEF OfficeInit
  <2>2. \A year \in Years : Empty(year)
    BY DEF OfficeInit, Empty
  <2> QED BY <2>1, <2>2 DEF OfficeInit, CalendarInv, YearHolds, Generates
<1>2. OfficeInv /\ CalendarInv /\ [OfficeNext]_officeVars => CalendarInv'
  BY CalendarStep
<1>3. CalendarInv => PeriodsFollowEachOther
  <2> SUFFICES ASSUME CalendarInv, NEW year \in Years, WholeYear(year)
               PROVE  /\ \A n \in 1..15 : periods[year][n + 1].from = periods[year][n].to + 1
                      /\ periods[year][16].to + 1 = NearestSunday(year + 1)
    BY DEF PeriodsFollowEachOther
  <2>1. YearHolds(year) /\ ~Empty(year)
    BY DEF CalendarInv, WholeYear, Empty
  <2>2. PICK s : IsStart(year, s) /\ Agrees(year, s)
    BY <2>1 DEF YearHolds
  <2>3. \A n \in 1..16 : periods[year][n] = Generated(year, n, s)
    BY <2>2 DEF Agrees, WholeYear
  <2>4. \A n \in 1..15 : n \in 1..16 /\ n + 1 \in 1..16
    OBVIOUS
  <2> QED BY <2>2, <2>3, <2>4, GeneratedFollow
<1> QED BY <1>1, <1>2, <1>3, OfficeStart, OfficeStep, PTL DEF OfficeSpec

==============================================================================
