---------------------------- MODULE BackOfficeProofs ----------------------------
(***************************************************************************)
(* Proofs about the jobs that run on a schedule and about the files of the   *)
(* users, for every value of the constants: BatchJob and StorageIndex, which *)
(* share no variable.                                                        *)
(***************************************************************************)
EXTENDS BatchJob, StorageIndex, WellFoundedInduction, FiniteSetTheorems,
        SequenceTheorems, TLAPS

(***************************************************************************)
(* BatchJob: for every number of jobs and managers, every definition of the  *)
(* jobs and every bound, rows and history rows are sound, and the scheduler  *)
(* keeps to the limits of runs.                                              *)
(***************************************************************************)

-----------------------------------------------------------------------------
(* _compute_next_run_for_job *)

(* A set of naturals that is not empty has a least element. *)
LEMMA LeastExists ==
  ASSUME NEW T, T \subseteq Nat, T # {}
  PROVE  \E x \in T : \A y \in T : x =< y
<1> DEFINE R == OpToRel(<, Nat)
<1>1. IsWellFoundedOn(R, Nat)
  BY Zenon, NatLessThanWellFounded
<1>2. \A y, x \in Nat : y < x => <<y, x>> \in R
  <2> TAKE y, x \in Nat
  <2> HAVE y < x
  <2>1. <<y, x>> \in Nat \X Nat /\ <<y, x>>[1] < <<y, x>>[2]
    OBVIOUS
  <2> QED BY <2>1, Zenon DEF OpToRel
<1> HIDE DEF R
<1>3. PICK x \in T : \A y \in T : ~(<<y, x>> \in R)
  BY <1>1, WFMin
<1>4. \A y \in T : x =< y
  <2> TAKE y \in T
  <2>1. x \in Nat /\ y \in Nat
    OBVIOUS
  <2>2. ~(y < x)
    BY <1>2, <1>3, <2>1
  <2> QED BY <2>1, <2>2
<1> QED BY <1>4

(* The next run is among the minutes ahead (_compute_next_run). *)
LEMMA LeastElement ==
  ASSUME NEW T, T \subseteq Nat, T # {}
  PROVE  Min(T) \in T
  BY LeastExists DEF Min

(* The next run is a minute within the model or none, and a job whose limit *)
(* is used up has none (_compute_next_run_for_job).                         *)
LEMMA NextRunSound ==
  ASSUME NEW def \in Definition, NEW total \in Nat, NEW after \in Nat
  PROVE  /\ NextRun(def, total, after) \in Minutes \cup {Null}
         /\ NextRun(def, total, after) # Null => ~Over(def, total)
<1> DEFINE ahead == {t \in def.minutes : after < t /\ t <= after + Horizon}
<1>1. ahead \subseteq Minutes /\ ahead \subseteq Nat
  BY JobAssumption DEF Definition, Minutes
<1>2. ahead # {} => Min(ahead) \in Minutes
  BY <1>1, LeastElement
<1> QED BY <1>2 DEF NextRun

-----------------------------------------------------------------------------
(* The inductive invariant *)

WorkRow == [pc : Executing \cup {"mark"}, job : Jobs, row : Row, at : Nat]
Work == {Resting} \cup WorkRow

Tick == {Asleep} \cup [pc : {"list"}, at : Nat]
          \cup [pc : {"scan"}, at : Nat, rows : [Jobs -> Row], todo : SUBSET Jobs]

Counters == [run_now : Nat, edits : Nat, faults : Nat, crashes : Nat]

Shapes ==
  /\ job \in [Jobs -> Row]
  /\ open \in [Jobs -> Int] /\ ended \in [Jobs -> Nat] /\ started \in [Jobs -> Nat]
  /\ now \in 0 .. MaxTime
  /\ tick \in Tick
  /\ work \in [Actors -> Work]
  /\ died \subseteq Jobs
  /\ bounds \in Counters

\* When a job's function is over its execution has succeeded or failed.
OutcomesKnown ==
  \A a \in Actors : work[a].pc \in {"result", "finish"} => work[a].row.status \in {"succeeded", "failed"}

\* The scheduler executes a job in a tick that has come past it.
SchedulerPlaced ==
  work["scheduler"] # Resting =>
    /\ work["scheduler"].pc \in Executing
    /\ tick.pc = "scan" /\ work["scheduler"].job \notin tick.todo

-----------------------------------------------------------------------------
(* Every step keeps the shapes *)

LEMMA RecordShapes == ASSUME Shapes, NEW a \in Actors, Record(a) PROVE Shapes'
<1>1. work[a] \in WorkRow
  BY DEF Shapes, Record, At, Work, Resting
<1>2. work' = [work EXCEPT ![a] = [work[a] EXCEPT !.pc = "call"]] /\ [work[a] EXCEPT !.pc = "call"] \in WorkRow
  BY <1>1 DEF Record, Moves, WorkRow, Executing
<1>3. work' \in [Actors -> Work]
  BY <1>2 DEF Shapes, Work
<1>4. open' \in [Jobs -> Int]
  BY <1>1 DEF Record, Shapes, WorkRow
<1> QED BY <1>3, <1>4 DEF Record, At, Shapes

LEMMA CallShapes == ASSUME Shapes, NEW a \in Actors, Call(a) PROVE Shapes'
<1>1. work[a] \in WorkRow
  BY DEF Shapes, Call, At, Work, Resting
<1>2. PICK outcome \in {"succeeded", "failed"} :
        work' = [work EXCEPT ![a].pc = "result", ![a].row.status = outcome]
  BY DEF Call
<1> DEFINE w == [work[a] EXCEPT !.pc = "result", !.row.status = outcome]
<1>3. [work[a].row EXCEPT !.status = outcome] \in Row
  BY <1>1 DEF WorkRow, Row
<1>4. w \in WorkRow
  BY <1>1, <1>3 DEF WorkRow, Executing
<1>5. work' = [work EXCEPT ![a] = w]
  BY <1>2 DEF Shapes
<1> HIDE DEF w
<1>6. work' \in [Actors -> Work]
  BY <1>4, <1>5 DEF Shapes, Work
<1> QED BY <1>6 DEF Call, At, Shapes, table

LEMMA WriteResultShapes == ASSUME Shapes, NEW a \in Actors, WriteResult(a) PROVE Shapes'
<1>1. work[a] \in WorkRow
  BY DEF Shapes, WriteResult, At, Work, Resting
<1>2. work' = [work EXCEPT ![a] = [work[a] EXCEPT !.pc = "finish"]] /\ [work[a] EXCEPT !.pc = "finish"] \in WorkRow
  BY <1>1 DEF WriteResult, Moves, WorkRow, Executing
<1>3. work' \in [Actors -> Work]
  BY <1>2 DEF Shapes, Work
<1>4. open' \in [Jobs -> Int] /\ ended' \in [Jobs -> Nat]
  BY <1>1 DEF WriteResult, Shapes, WorkRow
<1> QED BY <1>3, <1>4 DEF WriteResult, At, Shapes

LEMMA GivesUpShapes ==
  ASSUME Shapes, NEW a \in Actors, GivesUp(a)
  PROVE  tick' \in Tick /\ work' \in [Actors -> Work]
BY DEF Shapes, GivesUp, Tick, Work

\* What Finish does when the next run can be computed.
LEMMA FinishRow ==
  ASSUME Shapes, OutcomesKnown, NEW a \in Actors, Finish(a),
         ~Raises(work[a].row.def, work[a].row.total + 1)
  PROVE  /\ work[a] \in WorkRow
         /\ \E row \in Row :
              /\ job' = [job EXCEPT ![work[a].job] = row]
              /\ row.def = job[work[a].job].def
              /\ row.status \in {"succeeded", "failed", "completed"}
              /\ row.total = work[a].row.total + 1
              /\ row.next = NextRun(work[a].row.def, work[a].row.total + 1, work[a].at)
         /\ work' = [work EXCEPT ![a] = Resting]
         /\ UNCHANGED <<tick, died, open, ended, started, now, bounds>>
<1>1. work[a] \in WorkRow /\ work[a].row.status \in {"succeeded", "failed"}
  BY DEF Shapes, Finish, At, Work, Resting, OutcomesKnown
<1>2. work[a].row.def \in Definition /\ work[a].row.total \in Nat /\ work[a].at \in Nat
      /\ work[a].job \in Jobs
  BY <1>1 DEF WorkRow, Row
<1> DEFINE next == NextRun(work[a].row.def, work[a].row.total + 1, work[a].at)
<1>3. next \in Minutes \cup {Null}
  BY <1>2, NextRunSound
<1> DEFINE j == work[a].job
           row == [job[j] EXCEPT !.status = IF next = Null THEN "completed" ELSE work[a].row.status,
                                 !.total = work[a].row.total + 1, !.next = next]
<1>4. job' = [job EXCEPT ![j] = row] /\ work' = [work EXCEPT ![a] = Resting]
      /\ UNCHANGED <<tick, died, open, ended, started, now, bounds>>
  BY DEF Finish, At
<1>5. job[j] \in Row
  BY <1>2 DEF Shapes
<1> DEFINE status == IF next = Null THEN "completed" ELSE work[a].row.status
<1>6. status \in {"succeeded", "failed", "completed"}
  BY <1>1
<1>7. work[a].row.total + 1 \in Nat
  BY <1>2
<1> HIDE DEF next, j, status
<1>8. row = [job[j] EXCEPT !.status = status, !.total = work[a].row.total + 1, !.next = next]
  BY DEF status
<1>9. /\ row \in Row
      /\ row.def = job[j].def /\ row.status = status
      /\ row.total = work[a].row.total + 1 /\ row.next = next
  BY <1>3, <1>5, <1>6, <1>7, <1>8 DEF Row
<1> QED BY <1>1, <1>4, <1>6, <1>9 DEF next, j

LEMMA FinishShapes == ASSUME Shapes, OutcomesKnown, NEW a \in Actors, Finish(a) PROVE Shapes'
<1>1. CASE Raises(work[a].row.def, work[a].row.total + 1)
  <2>1. GivesUp(a) /\ died' = died \cup {work[a].job} /\ UNCHANGED job
    BY <1>1 DEF Finish
  <2>2. work[a].job \in Jobs
    BY DEF Shapes, Finish, At, Work, Resting, WorkRow
  <2> QED BY <2>1, <2>2, GivesUpShapes DEF Finish, At, Shapes
<1>2. CASE ~Raises(work[a].row.def, work[a].row.total + 1)
  BY <1>2, FinishRow DEF Shapes, Work, WorkRow
<1> QED BY <1>1, <1>2

LEMMA MarkRunningShapes ==
  ASSUME Shapes, NEW a \in Actors, NEW j \in Jobs, NEW row \in Row, MarkRunning(a, j, row)
  PROVE  /\ job' \in [Jobs -> Row]
         /\ job'[j].status = "running" /\ job'[j].next = Null
         /\ job'[j].def = job[j].def /\ job'[j].total = job[j].total
         /\ \A i \in Jobs \ {j} : job'[i] = job[i]
         /\ work' \in [Actors -> Work]
         /\ work'[a] \in WorkRow /\ work'[a].pc = "record" /\ work'[a].job = j /\ work'[a].row = row
         /\ \A b \in Actors \ {a} : work'[b] = work[b]
<1>1. /\ [job[j] EXCEPT !.status = "running", !.next = Null] \in Row
      /\ job' = [job EXCEPT ![j] = [job[j] EXCEPT !.status = "running", !.next = Null]]
  BY DEF Shapes, MarkRunning, Row
<1>2. [pc |-> "record", job |-> j, row |-> row, at |-> now] \in WorkRow
  BY DEF Shapes, WorkRow, Executing
<1>3. /\ job' \in [Jobs -> Row]
      /\ job'[j] = [job[j] EXCEPT !.status = "running", !.next = Null]
      /\ \A i \in Jobs \ {j} : job'[i] = job[i]
  BY <1>1 DEF Shapes
<1>4. /\ work' \in [Actors -> Work]
      /\ work'[a] = [pc |-> "record", job |-> j, row |-> row, at |-> now]
      /\ \A b \in Actors \ {a} : work'[b] = work[b]
  BY <1>2 DEF Shapes, MarkRunning, Work
<1> QED BY <1>2, <1>3, <1>4 DEF Shapes, Row

\* The scheduler comes to a job in a tick that has listed the jobs.
LEMMA ReachedScans ==
  ASSUME Shapes, NEW j \in Jobs, Reached(j)
  PROVE  /\ tick.pc = "scan" /\ tick.rows \in [Jobs -> Row] /\ tick.todo \subseteq Jobs /\ tick.at \in Nat
         /\ j \in tick.todo
         /\ Passed(j) => /\ tick' \in Tick /\ tick'.pc = "scan" /\ tick'.rows = tick.rows
                         /\ tick'.todo = tick.todo \ {j}
<1>1. tick \in [pc : {"scan"}, at : Nat, rows : [Jobs -> Row], todo : SUBSET Jobs]
  BY DEF Shapes, Reached, Tick, Asleep
<1>2. tick.todo \subseteq Nat
  BY <1>1 DEF Jobs
<1>3. j \in tick.todo
  BY <1>2, LeastElement DEF Reached
<1> QED BY <1>1, <1>3 DEF Passed, Tick

LEMMA ScheduleRow ==
  ASSUME Shapes, NEW j \in Jobs, Schedule(j)
  PROVE  \E row \in Row :
           /\ job' = [job EXCEPT ![j] = row]
           /\ row.def = job[j].def /\ row.total = job[j].total
           /\ row.status = tick.rows[j].status
           /\ row.next = NextRun(tick.rows[j].def, tick.rows[j].total, tick.at)
<1>1. Reached(j)
  BY DEF Schedule
<1>2. tick.rows[j] \in Row /\ tick.at \in Nat
  BY <1>1, ReachedScans
<1> DEFINE next == NextRun(tick.rows[j].def, tick.rows[j].total, tick.at)
<1>3. next \in Minutes \cup {Null}
  BY <1>2, NextRunSound DEF Row
<1> DEFINE row == [job[j] EXCEPT !.status = tick.rows[j].status, !.next = next]
<1>4. job' = [job EXCEPT ![j] = row]
  BY DEF Schedule, Shapes
<1> HIDE DEF next
<1>5. /\ row \in Row
      /\ row.def = job[j].def /\ row.total = job[j].total
      /\ row.status = tick.rows[j].status /\ row.next = next
  BY <1>2, <1>3 DEF Row, Shapes
<1> QED BY <1>4, <1>5 DEF next

LEMMA ShapesKept == Shapes /\ OutcomesKnown /\ [Next]_vars => Shapes'
<1> SUFFICES ASSUME Shapes, OutcomesKnown, [Next]_vars PROVE Shapes'
  OBVIOUS
<1>1. ASSUME NEW a \in Actors, Execute(a) PROVE Shapes'
  BY <1>1, RecordShapes, CallShapes, WriteResultShapes, FinishShapes DEF Execute
<1>2. CASE Wake \/ ListJobs \/ Sleep \/ TickFault
  <2>1. tick' \in Tick
    BY <1>2 DEF Wake, ListJobs, Sleep, TickFault, Shapes, Tick, Asleep
  <2>2. bounds' \in Counters
    BY <1>2 DEF Wake, ListJobs, Sleep, TickFault, Uses, Shapes, Counters
  <2> QED BY <1>2, <2>1, <2>2 DEF Wake, ListJobs, Sleep, TickFault, Shapes, table
<1>3. ASSUME NEW j \in Jobs, Skip(j) \/ BreaksOff(j) PROVE Shapes'
  <2>1. Reached(j)
    BY <1>3 DEF Skip, BreaksOff
  <2>2. tick' \in Tick
    BY <1>3, <2>1, ReachedScans DEF Skip, BreaksOff, Tick
  <2> QED BY <1>3, <2>1, <2>2 DEF Skip, BreaksOff, Reached, Shapes, table
<1>4. ASSUME NEW j \in Jobs, Schedule(j) PROVE Shapes'
  <2>1. job' \in [Jobs -> Row]
    BY <1>4, ScheduleRow DEF Shapes
  <2>2. Reached(j) /\ Passed(j)
    BY <1>4 DEF Schedule
  <2>3. tick' \in Tick
    BY <2>2, ReachedScans
  <2> QED BY <1>4, <2>1, <2>2, <2>3 DEF Schedule, Reached, Shapes
<1>5. ASSUME NEW j \in Jobs, RunDue(j) PROVE Shapes'
  <2>1. Reached(j) /\ Passed(j) /\ MarkRunning("scheduler", j, tick.rows[j])
    BY <1>5 DEF RunDue
  <2>2. tick.rows[j] \in Row /\ tick' \in Tick
    BY <2>1, ReachedScans
  <2>3. job' \in [Jobs -> Row] /\ work' \in [Actors -> Work]
    BY <2>1, <2>2, MarkRunningShapes DEF Actors
  <2>4. started' \in [Jobs -> Nat]
    BY <1>5 DEF RunDue, Shapes
  <2> QED BY <1>5, <2>1, <2>2, <2>3, <2>4 DEF RunDue, Reached, Shapes
<1>6. ASSUME NEW m \in Managers, RunNowMark(m) PROVE Shapes'
  <2>1. work[m] \in WorkRow /\ m \in Actors
    BY <1>6 DEF Shapes, RunNowMark, At, Work, Resting, Actors
  <2>2. MarkRunning(m, work[m].job, work[m].row) /\ work[m].job \in Jobs /\ work[m].row \in Row
    BY <1>6, <2>1 DEF RunNowMark, WorkRow
  <2>3. job' \in [Jobs -> Row] /\ work' \in [Actors -> Work]
    BY <2>1, <2>2, MarkRunningShapes
  <2> QED BY <1>6, <2>3 DEF RunNowMark, At, Shapes
<1>7. ASSUME NEW m \in Managers, NEW j \in Jobs, RunNow(m, j) PROVE Shapes'
  <2>1. [pc |-> "mark", job |-> j, row |-> job[j], at |-> now] \in WorkRow
    BY DEF Shapes, WorkRow, Executing
  <2>2. work' \in [Actors -> Work]
    BY <1>7, <2>1 DEF RunNow, Shapes, Work
  <2>3. bounds' \in Counters
    BY <1>7 DEF RunNow, Uses, Shapes, Counters
  <2> QED BY <1>7, <2>2, <2>3 DEF RunNow, Shapes, table
<1>8. ASSUME NEW j \in Jobs, NEW def \in Definitions, UpsertJob(j, def) PROVE Shapes'
  <2>1. [job[j] EXCEPT !.def = def] \in Row /\ job' = [job EXCEPT ![j] = [job[j] EXCEPT !.def = def]]
    BY <1>8, JobAssumption DEF UpsertJob, Shapes, Row
  <2>2. job' \in [Jobs -> Row]
    BY <2>1 DEF Shapes
  <2>3. bounds' \in Counters
    BY <1>8 DEF UpsertJob, Uses, Shapes, Counters
  <2> QED BY <1>8, <2>2, <2>3 DEF UpsertJob, Shapes
<1>9. ASSUME NEW a \in Actors, ExecutionFault(a) PROVE Shapes'
  <2>1. work[a] \in WorkRow
    BY <1>9 DEF ExecutionFault, Shapes, Work, Resting, Executing
  <2>2. bounds' \in Counters
    BY <1>9 DEF ExecutionFault, Uses, Shapes, Counters
  <2>3. CASE work[a].pc = "result" /\ work[a].row.status = "succeeded"
    <3>1. [work[a].row EXCEPT !.status = "failed"] \in Row
      BY <2>1 DEF WorkRow, Row
    <3>2. work' = [work EXCEPT ![a] = [work[a] EXCEPT !.row = [work[a].row EXCEPT !.status = "failed"]]]
      BY <1>9, <2>3 DEF ExecutionFault, Shapes
    <3>3. [work[a] EXCEPT !.row = [work[a].row EXCEPT !.status = "failed"]] \in WorkRow
      BY <2>1, <3>1 DEF WorkRow
    <3>4. work' \in [Actors -> Work]
      BY <3>2, <3>3 DEF Shapes, Work
    <3> QED BY <1>9, <2>2, <2>3, <3>4 DEF ExecutionFault, Shapes, table
  <2>4. CASE ~(work[a].pc = "result" /\ work[a].row.status = "succeeded")
    <3>1. GivesUp(a) /\ died' = died \cup {work[a].job}
      BY <1>9, <2>4 DEF ExecutionFault
    <3>2. died' \subseteq Jobs
      BY <2>1, <3>1 DEF Shapes, WorkRow
    <3> QED BY <1>9, <2>2, <3>1, <3>2, GivesUpShapes DEF ExecutionFault, Shapes, table
  <2> QED BY <2>3, <2>4
<1>10. CASE Crash
  <2>1. \A a \in Actors : work[a].pc \in Executing => work[a].job \in Jobs
    BY DEF Shapes, Work, WorkRow, Resting, Executing
  <2>2. died' \subseteq Jobs
    BY <1>10, <2>1 DEF Crash, Shapes
  <2>3. bounds' \in Counters
    BY <1>10 DEF Crash, Uses, Shapes, Counters
  <2> QED BY <1>10, <2>2, <2>3 DEF Crash, Shapes, table, Tick, Work
<1>11. CASE Minute
  BY <1>11, JobAssumption DEF Minute, Shapes, table
<1>12. CASE UNCHANGED vars
  BY <1>12 DEF vars, table, Shapes
<1> QED
  BY <1>1, <1>2, <1>3, <1>4, <1>5, <1>6, <1>7, <1>8, <1>9, <1>10, <1>11, <1>12
  DEF Next, SchedulerStep, ManagerStep, Actors

-----------------------------------------------------------------------------
(* Executions *)

\* Which executions a step of an execution touches: only its own.
LEMMA ExecutionStep ==
  ASSUME Shapes, NEW a \in Actors, Execute(a)
  PROVE  /\ work[a] \in WorkRow /\ work[a].pc \in Executing
         /\ \A b \in Actors \ {a} : work'[b] = work[b]
         /\ \/ /\ Record(a) /\ work'[a].pc = "call"
               /\ work'[a].job = work[a].job /\ work'[a].row = work[a].row
            \/ /\ Call(a) /\ work'[a].pc = "result" /\ work'[a].row.status \in {"succeeded", "failed"}
               /\ work'[a].job = work[a].job
               /\ work'[a].row.def = work[a].row.def /\ work'[a].row.total = work[a].row.total
            \/ /\ WriteResult(a) /\ work'[a].pc = "finish"
               /\ work'[a].job = work[a].job /\ work'[a].row = work[a].row
            \/ Finish(a) /\ work'[a] = Resting
<1>1. work[a] \in WorkRow /\ work[a].pc \in Executing
  BY DEF Shapes, Execute, Record, Call, WriteResult, Finish, At, Work, Resting, Executing
<1>2. CASE Record(a)
  BY <1>1, <1>2 DEF Record, Moves, Shapes, WorkRow
<1>3. CASE Call(a)
  <2>1. PICK outcome \in {"succeeded", "failed"} :
          work' = [work EXCEPT ![a].pc = "result", ![a].row.status = outcome]
    BY <1>3 DEF Call
  <2>2. work[a].row \in Row
    BY <1>1 DEF WorkRow
  <2>3. /\ work'[a] = [work[a] EXCEPT !.pc = "result", !.row = [work[a].row EXCEPT !.status = outcome]]
        /\ \A b \in Actors \ {a} : work'[b] = work[b]
    BY <2>1 DEF Shapes
  <2>4. /\ work'[a].pc = "result" /\ work'[a].job = work[a].job
        /\ work'[a].row = [work[a].row EXCEPT !.status = outcome]
    BY <1>1, <2>3 DEF WorkRow
  <2>5. /\ work'[a].row.status = outcome
        /\ work'[a].row.def = work[a].row.def /\ work'[a].row.total = work[a].row.total
    BY <2>2, <2>4 DEF Row
  <2> QED BY <1>1, <1>3, <2>3, <2>4, <2>5
<1>4. CASE WriteResult(a)
  BY <1>1, <1>4 DEF WriteResult, Moves, Shapes, WorkRow
<1>5. CASE Finish(a)
  BY <1>1, <1>5 DEF Finish, GivesUp, Shapes
<1> QED BY <1>2, <1>3, <1>4, <1>5 DEF Execute

LEMMA OutcomesKept == Shapes /\ OutcomesKnown /\ [Next]_vars => OutcomesKnown'
<1> SUFFICES ASSUME Shapes, OutcomesKnown, [Next]_vars PROVE OutcomesKnown'
  OBVIOUS
<1>1. ASSUME NEW a \in Actors, Execute(a) PROVE OutcomesKnown'
  BY <1>1, ExecutionStep DEF OutcomesKnown, WriteResult, At, Resting
<1>2. CASE \/ Wake \/ ListJobs \/ Sleep \/ TickFault \/ Minute \/ UNCHANGED vars
           \/ \E j \in Jobs : Skip(j) \/ BreaksOff(j) \/ Schedule(j)
           \/ \E j \in Jobs, def \in Definitions : UpsertJob(j, def)
  BY <1>2 DEF Wake, ListJobs, Sleep, TickFault, Minute, vars, Skip, BreaksOff, Schedule, UpsertJob, OutcomesKnown
<1>3. ASSUME NEW j \in Jobs, RunDue(j) PROVE OutcomesKnown'
  BY <1>3, ReachedScans, MarkRunningShapes DEF RunDue, Actors, OutcomesKnown
<1>4. ASSUME NEW m \in Managers, RunNowMark(m) PROVE OutcomesKnown'
  <2>1. work[m] \in WorkRow /\ m \in Actors
    BY <1>4 DEF Shapes, RunNowMark, At, Work, Resting, Actors
  <2>2. MarkRunning(m, work[m].job, work[m].row) /\ work[m].job \in Jobs /\ work[m].row \in Row
    BY <1>4, <2>1 DEF RunNowMark, WorkRow
  <2> QED BY <2>1, <2>2, MarkRunningShapes DEF OutcomesKnown
<1>5. ASSUME NEW m \in Managers, NEW j \in Jobs, RunNow(m, j) PROVE OutcomesKnown'
  BY <1>5 DEF RunNow, OutcomesKnown, Shapes, Actors
<1>6. ASSUME NEW a \in Actors, ExecutionFault(a) PROVE OutcomesKnown'
  <2>1. work[a] \in WorkRow /\ work[a].row \in Row
    BY <1>6 DEF ExecutionFault, Shapes, Work, WorkRow, Resting, Executing
  <2>2. CASE work[a].pc = "result" /\ work[a].row.status = "succeeded"
    <3>1. work' = [work EXCEPT ![a] = [work[a] EXCEPT !.row = [work[a].row EXCEPT !.status = "failed"]]]
      BY <1>6, <2>2 DEF ExecutionFault, Shapes
    <3>2. work'[a].row.status = "failed" /\ \A b \in Actors \ {a} : work'[b] = work[b]
      BY <2>1, <3>1 DEF Shapes, WorkRow, Row
    <3> QED BY <3>2 DEF OutcomesKnown
  <2>3. CASE ~(work[a].pc = "result" /\ work[a].row.status = "succeeded")
    BY <1>6, <2>3 DEF ExecutionFault, GivesUp, OutcomesKnown, Shapes, Resting
  <2> QED BY <2>2, <2>3
<1>7. CASE Crash
  BY <1>7 DEF Crash, OutcomesKnown, Resting
<1> QED
  BY <1>1, <1>2, <1>3, <1>4, <1>5, <1>6, <1>7 DEF Next, SchedulerStep, ManagerStep, Actors

\* GivesUp empties the execution, and the tick if it was the scheduler's.
LEMMA SchedulerKept == Shapes /\ SchedulerPlaced /\ [Next]_vars => SchedulerPlaced'
<1> SUFFICES ASSUME Shapes, SchedulerPlaced, [Next]_vars PROVE SchedulerPlaced'
  OBVIOUS
<1> DEFINE s == "scheduler"
<1>0. s \in Actors /\ s \notin Managers
  BY JobAssumption DEF Actors
<1>1. ASSUME NEW a \in Actors, Execute(a) PROVE SchedulerPlaced'
  <2>1. CASE a # s
    <3>1. work'[s] = work[s]
      BY <1>0, <1>1, <2>1, ExecutionStep
    <3>2. UNCHANGED tick
      BY <1>1, <2>1 DEF Execute, Record, Call, WriteResult, Finish, GivesUp
    <3> QED BY <3>1, <3>2 DEF SchedulerPlaced
  <2>2. CASE a = s
    <3>1. work[s] # Resting /\ tick.pc = "scan" /\ work[s].job \notin tick.todo
      BY <1>0, <1>1, <2>2, ExecutionStep DEF SchedulerPlaced, Resting, Executing
    <3>2. work'[s] = Resting \/ (work'[s].pc \in Executing /\ work'[s].job = work[s].job)
      BY <1>0, <1>1, <2>2, ExecutionStep DEF Executing
    <3>3. work'[s] # Resting => UNCHANGED tick
      BY <1>0, <1>1, <2>2, ExecutionStep DEF Record, Call, WriteResult
    <3> QED BY <3>1, <3>2, <3>3 DEF SchedulerPlaced
  <2> QED BY <2>1, <2>2
<1>2. CASE Wake
  BY <1>2 DEF Wake, SchedulerPlaced
<1>3. CASE ListJobs
  BY <1>3 DEF ListJobs, SchedulerPlaced
<1>4. CASE Sleep \/ TickFault
  BY <1>4 DEF Sleep, TickFault, SchedulerPlaced
<1>5. ASSUME NEW j \in Jobs, Skip(j) \/ BreaksOff(j) \/ Schedule(j) PROVE SchedulerPlaced'
  BY <1>5 DEF Skip, BreaksOff, Schedule, Reached, SchedulerPlaced
<1>6. ASSUME NEW j \in Jobs, RunDue(j) PROVE SchedulerPlaced'
  <2>1. tick.rows[j] \in Row /\ tick'.pc = "scan" /\ j \notin tick'.todo
    BY <1>6, ReachedScans DEF RunDue
  <2>2. work'[s].pc = "record" /\ work'[s].job = j
    BY <1>0, <1>6, <2>1, MarkRunningShapes DEF RunDue
  <2> QED BY <2>1, <2>2 DEF SchedulerPlaced, Executing
<1>7. ASSUME NEW m \in Managers, NEW j \in Jobs, RunNow(m, j) PROVE SchedulerPlaced'
  <2>1. work'[s] = work[s] /\ UNCHANGED tick
    BY <1>0, <1>7 DEF RunNow, Shapes
  <2> QED BY <2>1 DEF SchedulerPlaced
<1>8. ASSUME NEW a \in Actors, ExecutionFault(a) PROVE SchedulerPlaced'
  <2>1. work[a] \in WorkRow
    BY <1>8 DEF ExecutionFault, Shapes, Work, Resting, Executing
  <2>2. CASE work[a].pc = "result" /\ work[a].row.status = "succeeded"
    <3>1. UNCHANGED tick
      BY <1>8, <2>2 DEF ExecutionFault
    <3>2. \A b \in Actors : work'[b].pc = work[b].pc /\ (b # a => work'[b] = work[b])
      BY <1>8, <2>1, <2>2 DEF ExecutionFault, Shapes, WorkRow
    <3>3. work'[a].job = work[a].job
      BY <1>8, <2>1, <2>2 DEF ExecutionFault, Shapes, WorkRow
    <3>4. work[a] # Resting
      BY <2>2 DEF Resting
    <3> QED BY <1>0, <3>1, <3>2, <3>3, <3>4 DEF SchedulerPlaced
  <2>3. CASE ~(work[a].pc = "result" /\ work[a].row.status = "succeeded")
    <3>1. GivesUp(a)
      BY <1>8, <2>3 DEF ExecutionFault
    <3> QED BY <1>0, <3>1 DEF GivesUp, SchedulerPlaced, Shapes
  <2> QED BY <2>2, <2>3
<1>9. CASE Crash
  BY <1>0, <1>9 DEF Crash, SchedulerPlaced
<1>10. CASE \/ Minute \/ UNCHANGED vars
            \/ \E j \in Jobs, def \in Definitions : UpsertJob(j, def)
  BY <1>10 DEF Minute, vars, UpsertJob, SchedulerPlaced
<1>11. ASSUME NEW m \in Managers, RunNowMark(m) PROVE SchedulerPlaced'
  <2>1. work'[s] = work[s] /\ UNCHANGED tick
    BY <1>0, <1>11 DEF RunNowMark, MarkRunning, Shapes
  <2> QED BY <2>1 DEF SchedulerPlaced
<1> QED
  BY <1>1, <1>2, <1>3, <1>4, <1>5, <1>6, <1>7, <1>8, <1>9, <1>10, <1>11
  DEF Next, SchedulerStep, ManagerStep, Actors

-----------------------------------------------------------------------------
(* A job that says it is running is being executed *)

\* An action that leaves the rows' statuses and the executions' places alone.
LEMMA RunningUntouched ==
  ASSUME RunningIsExecuted, died \subseteq died',
         \A j \in Jobs : job'[j].status = "running" => job[j].status = "running",
         \A a \in Actors : work[a].pc \in Executing =>
           work'[a].pc \in Executing /\ work'[a].job = work[a].job
  PROVE  RunningIsExecuted'
BY DEF RunningIsExecuted

\* An action that cuts an execution short.
LEMMA RunningCutShort ==
  ASSUME RunningIsExecuted, NEW a \in Actors, died' = died \cup {work[a].job},
         UNCHANGED job, \A b \in Actors \ {a} : work'[b] = work[b]
  PROVE  RunningIsExecuted'
BY DEF RunningIsExecuted

LEMMA RunningKept ==
  Shapes /\ OutcomesKnown /\ RunningIsExecuted /\ [Next]_vars => RunningIsExecuted'
<1> SUFFICES ASSUME Shapes, OutcomesKnown, RunningIsExecuted, [Next]_vars PROVE RunningIsExecuted'
  OBVIOUS
<1>1. ASSUME NEW a \in Actors, Execute(a) PROVE RunningIsExecuted'
  <2>1. CASE Record(a) \/ Call(a) \/ WriteResult(a)
    <3>1. UNCHANGED <<job, died>>
      BY <2>1 DEF Record, Call, WriteResult, table
    <3>2. ~Finish(a)
      BY <2>1 DEF Record, Call, WriteResult, Finish, At
    <3>3. \A b \in Actors : work[b].pc \in Executing => work'[b].pc \in Executing /\ work'[b].job = work[b].job
      BY <1>1, <3>2, ExecutionStep DEF Executing
    <3> QED BY <3>1, <3>3, RunningUntouched
  <2>2. CASE Finish(a) /\ Raises(work[a].row.def, work[a].row.total + 1)
    <3>1. died' = died \cup {work[a].job} /\ UNCHANGED job
      BY <2>2 DEF Finish
    <3> QED BY <1>1, <3>1, ExecutionStep, RunningCutShort
  <2>3. CASE Finish(a) /\ ~Raises(work[a].row.def, work[a].row.total + 1)
    <3>1. PICK row \in Row : /\ job' = [job EXCEPT ![work[a].job] = row]
                             /\ row.status \in {"succeeded", "failed", "completed"}
      BY <2>3, FinishRow
    <3>2. UNCHANGED died /\ work' = [work EXCEPT ![a] = Resting] /\ work[a].job \in Jobs
      BY <2>3, FinishRow DEF WorkRow
    <3>3. job'[work[a].job].status # "running" /\ \A j \in Jobs \ {work[a].job} : job'[j] = job[j]
      BY <3>1, <3>2 DEF Shapes
    <3>4. \A b \in Actors \ {a} : work'[b] = work[b]
      BY <3>2 DEF Shapes
    <3> QED BY <3>2, <3>3, <3>4 DEF RunningIsExecuted
  <2> QED BY <1>1, <2>1, <2>2, <2>3 DEF Execute
<1>2. CASE \/ Wake \/ ListJobs \/ Sleep \/ TickFault \/ Minute \/ UNCHANGED vars
           \/ \E j \in Jobs : Skip(j) \/ BreaksOff(j)
  <2>1. UNCHANGED <<job, work, died>>
    BY <1>2 DEF Wake, ListJobs, Sleep, TickFault, Minute, vars, table, Skip, BreaksOff
  <2> QED BY <2>1, RunningUntouched
<1>3. ASSUME NEW j \in Jobs, Schedule(j) PROVE RunningIsExecuted'
  <2>1. PICK row \in Row : job' = [job EXCEPT ![j] = row] /\ row.status = tick.rows[j].status
    BY <1>3, ScheduleRow
  <2>2. row.status # "running"
    BY <1>3, <2>1 DEF Schedule, Runnable
  <2>3. \A i \in Jobs : job'[i].status = "running" => job[i].status = "running"
    BY <2>1, <2>2 DEF Shapes
  <2>4. UNCHANGED <<work, died>>
    BY <1>3 DEF Schedule
  <2> QED BY <2>3, <2>4, RunningUntouched
<1>4. ASSUME NEW a \in Actors, NEW j \in Jobs, NEW row \in Row, MarkRunning(a, j, row),
             work[a].pc \notin Executing, UNCHANGED died
      PROVE  RunningIsExecuted'
  <2>1. /\ work'[a].pc \in Executing /\ work'[a].job = j
        /\ \A b \in Actors \ {a} : work'[b] = work[b]
        /\ \A i \in Jobs \ {j} : job'[i] = job[i]
    BY <1>4, MarkRunningShapes DEF Executing
  <2>2. ASSUME NEW i \in Jobs, job'[i].status = "running"
        PROVE  i \in died' \/ \E b \in Actors : work'[b].pc \in Executing /\ work'[b].job = i
    <3>1. CASE i = j
      BY <2>1, <3>1
    <3>2. CASE i # j /\ i \in died
      BY <1>4, <3>2
    <3>3. CASE i # j /\ i \notin died
      <4>1. PICK b \in Actors : work[b].pc \in Executing /\ work[b].job = i
        BY <2>1, <2>2, <3>3 DEF RunningIsExecuted
      <4>2. b # a
        BY <1>4, <4>1
      <4> QED BY <2>1, <4>1, <4>2
    <3> QED BY <3>1, <3>2, <3>3
  <2> QED BY <2>2 DEF RunningIsExecuted
<1>5. ASSUME NEW j \in Jobs, RunDue(j) PROVE RunningIsExecuted'
  <2>1. tick.rows[j] \in Row /\ MarkRunning("scheduler", j, tick.rows[j]) /\ UNCHANGED died
        /\ work["scheduler"].pc \notin Executing
    BY <1>5, ReachedScans DEF RunDue, Reached, Resting, Executing
  <2> QED BY <1>4, <2>1 DEF Actors
<1>6. ASSUME NEW m \in Managers, RunNowMark(m) PROVE RunningIsExecuted'
  <2>1. work[m] \in WorkRow /\ m \in Actors /\ work[m].pc \notin Executing
    BY <1>6 DEF Shapes, RunNowMark, At, Work, Resting, Actors, Executing
  <2>2. MarkRunning(m, work[m].job, work[m].row) /\ work[m].job \in Jobs /\ work[m].row \in Row
        /\ UNCHANGED died
    BY <1>6, <2>1 DEF RunNowMark, WorkRow
  <2> QED BY <1>4, <2>1, <2>2
<1>7. ASSUME NEW m \in Managers, NEW j \in Jobs, RunNow(m, j) PROVE RunningIsExecuted'
  <2>1. m \in Actors /\ work[m].pc \notin Executing
    BY <1>7 DEF RunNow, Actors, Resting, Executing
  <2>2. UNCHANGED <<job, died>> /\ \A b \in Actors \ {m} : work'[b] = work[b]
    BY <1>7 DEF RunNow, table, Shapes
  <2> QED BY <2>1, <2>2, RunningUntouched
<1>8. ASSUME NEW j \in Jobs, NEW def \in Definitions, UpsertJob(j, def) PROVE RunningIsExecuted'
  <2>1. UNCHANGED <<work, died>> /\ job' = [job EXCEPT ![j] = [job[j] EXCEPT !.def = def]] /\ job[j] \in Row
    BY <1>8 DEF UpsertJob, Shapes
  <2>2. [job[j] EXCEPT !.def = def].status = job[j].status
    BY <2>1 DEF Row
  <2>3. \A i \in Jobs : job'[i].status = job[i].status
    BY <2>1, <2>2 DEF Shapes
  <2> QED BY <2>1, <2>3, RunningUntouched
<1>9. ASSUME NEW a \in Actors, ExecutionFault(a) PROVE RunningIsExecuted'
  <2>1. work[a] \in WorkRow /\ UNCHANGED job
    BY <1>9 DEF ExecutionFault, Shapes, Work, Resting, Executing, table
  <2>2. CASE work[a].pc = "result" /\ work[a].row.status = "succeeded"
    <3>1. \A b \in Actors : work'[b].pc = work[b].pc
      BY <1>9, <2>1, <2>2 DEF ExecutionFault, Shapes, WorkRow
    <3>2. work'[a].job = work[a].job /\ \A b \in Actors \ {a} : work'[b] = work[b]
      BY <1>9, <2>1, <2>2 DEF ExecutionFault, Shapes, WorkRow
    <3>3. UNCHANGED died
      BY <1>9, <2>2 DEF ExecutionFault
    <3> QED BY <2>1, <3>1, <3>2, <3>3, RunningUntouched
  <2>3. CASE ~(work[a].pc = "result" /\ work[a].row.status = "succeeded")
    <3>1. died' = died \cup {work[a].job} /\ \A b \in Actors \ {a} : work'[b] = work[b]
      BY <1>9, <2>3 DEF ExecutionFault, GivesUp, Shapes
    <3> QED BY <2>1, <3>1, RunningCutShort
  <2> QED BY <2>2, <2>3
<1>10. CASE Crash
  <2>1. UNCHANGED job /\ died' = died \cup {work[a].job : a \in {b \in Actors : work[b].pc \in Executing}}
    BY <1>10 DEF Crash, table
  <2> QED BY <2>1 DEF RunningIsExecuted
<1> QED
  BY <1>1, <1>2, <1>3, <1>5, <1>6, <1>7, <1>8, <1>9, <1>10 DEF Next, SchedulerStep, ManagerStep, Actors

-----------------------------------------------------------------------------
(* A history row that is open is closed once *)

\* The executions of a job that have opened a history row and not closed it.
InCall(j) == {a \in Actors : work[a].pc \in {"call", "result"} /\ work[a].job = j}

\* No more executions will close a history row than there are open ones.
OpenCounted == \A j \in Jobs : IsFiniteSet(InCall(j)) /\ Cardinality(InCall(j)) <= open[j]

LEMMA OpenUntouched ==
  ASSUME Shapes, OpenCounted, UNCHANGED open, \A j \in Jobs : InCall(j)' \subseteq InCall(j)
  PROVE  OpenCounted'
<1> SUFFICES ASSUME NEW j \in Jobs
             PROVE  IsFiniteSet(InCall(j)') /\ Cardinality(InCall(j)') <= open[j]
  BY DEF OpenCounted
<1>1. IsFiniteSet(InCall(j)) /\ Cardinality(InCall(j)) <= open[j] /\ open[j] \in Int
  BY DEF OpenCounted, Shapes
<1>2. Cardinality(InCall(j)) \in Nat
  BY <1>1, FS_CardinalityType
<1>3. InCall(j)' \in SUBSET InCall(j)
  OBVIOUS
<1> HIDE DEF InCall
<1>4. IsFiniteSet(InCall(j)') /\ Cardinality(InCall(j)') <= Cardinality(InCall(j))
  BY <1>1, <1>3, FS_Subset
<1>5. Cardinality(InCall(j)') \in Nat
  BY <1>4, FS_CardinalityType
<1> QED BY <1>1, <1>2, <1>4, <1>5

LEMMA RecordOpens == ASSUME Shapes, OpenCounted, NEW a \in Actors, Record(a) PROVE OpenCounted'
<1> SUFFICES ASSUME NEW j \in Jobs
             PROVE  IsFiniteSet(InCall(j)') /\ Cardinality(InCall(j)') <= open'[j]
  BY DEF OpenCounted
<1>1. IsFiniteSet(InCall(j)) /\ Cardinality(InCall(j)) <= open[j] /\ open[j] \in Int
  BY DEF OpenCounted, Shapes
<1>2. /\ work[a].pc = "record" /\ work'[a].pc = "call" /\ work'[a].job = work[a].job
      /\ work[a].job \in Jobs
      /\ \A b \in Actors \ {a} : work'[b] = work[b]
  BY ExecutionStep DEF Execute, Record, Call, WriteResult, Finish, At, WorkRow
<1>3. CASE j = work[a].job
  <2>1. InCall(j)' = InCall(j) \cup {a} /\ a \notin InCall(j)
    BY <1>2, <1>3 DEF InCall
  <2>2. open'[j] = open[j] + 1
    BY <1>2, <1>3 DEF Record, Shapes
  <2>3. Cardinality(InCall(j)) \in Nat
    BY <1>1, FS_CardinalityType
  <2> HIDE DEF InCall
  <2>4. IsFiniteSet(InCall(j) \cup {a}) /\ Cardinality(InCall(j) \cup {a}) = Cardinality(InCall(j)) + 1
    BY <1>1, <2>1, FS_AddElement
  <2> QED BY <1>1, <2>1, <2>2, <2>3, <2>4
<1>4. CASE j # work[a].job
  <2>1. InCall(j)' = InCall(j)
    BY <1>2, <1>4 DEF InCall
  <2>2. open'[j] = open[j]
    BY <1>2, <1>4 DEF Record, Shapes
  <2> QED BY <1>1, <2>1, <2>2
<1> QED BY <1>3, <1>4

LEMMA WriteResultCloses == ASSUME Shapes, OpenCounted, NEW a \in Actors, WriteResult(a) PROVE OpenCounted'
<1> SUFFICES ASSUME NEW j \in Jobs
             PROVE  IsFiniteSet(InCall(j)') /\ Cardinality(InCall(j)') <= open'[j]
  BY DEF OpenCounted
<1>1. IsFiniteSet(InCall(j)) /\ Cardinality(InCall(j)) <= open[j] /\ open[j] \in Int
  BY DEF OpenCounted, Shapes
<1>2. /\ work[a].pc = "result" /\ work'[a].pc = "finish"
      /\ work[a].job \in Jobs
      /\ \A b \in Actors \ {a} : work'[b] = work[b]
  BY ExecutionStep DEF Execute, Record, Call, WriteResult, Finish, At, WorkRow
<1>3. CASE j = work[a].job
  <2>1. InCall(j)' = InCall(j) \ {a} /\ a \in InCall(j)
    BY <1>2, <1>3 DEF InCall
  <2>2. open'[j] = open[j] - 1
    BY <1>2, <1>3 DEF WriteResult, Shapes
  <2>3. Cardinality(InCall(j)) \in Nat
    BY <1>1, FS_CardinalityType
  <2> HIDE DEF InCall
  <2>4. IsFiniteSet(InCall(j) \ {a}) /\ Cardinality(InCall(j) \ {a}) = Cardinality(InCall(j)) - 1
    BY <1>1, <2>1, FS_RemoveElement
  <2> QED BY <1>1, <2>1, <2>2, <2>3, <2>4
<1>4. CASE j # work[a].job
  <2>1. InCall(j)' = InCall(j)
    BY <1>2, <1>4 DEF InCall
  <2>2. open'[j] = open[j]
    BY <1>2, <1>4 DEF WriteResult, Shapes
  <2> QED BY <1>1, <2>1, <2>2
<1> QED BY <1>3, <1>4

LEMMA OpenKept == Shapes /\ OpenCounted /\ [Next]_vars => OpenCounted'
<1> SUFFICES ASSUME Shapes, OpenCounted, [Next]_vars PROVE OpenCounted'
  OBVIOUS
<1>1. ASSUME NEW a \in Actors, Execute(a) PROVE OpenCounted'
  <2>1. CASE Call(a)
    <3>1. work[a].pc = "call" /\ work'[a].job = work[a].job /\ \A b \in Actors \ {a} : work'[b] = work[b]
      BY <1>1, <2>1, ExecutionStep DEF Record, WriteResult, Finish, Call, At
    <3>2. \A j \in Jobs : InCall(j)' \subseteq InCall(j)
      BY <3>1 DEF InCall
    <3> QED BY <2>1, <3>2, OpenUntouched DEF Call, table
  <2>2. CASE Finish(a)
    <3>1. work'[a] = Resting /\ \A b \in Actors \ {a} : work'[b] = work[b]
      BY <1>1, <2>2, ExecutionStep DEF Record, WriteResult, Finish, Call, At
    <3>2. \A j \in Jobs : InCall(j)' \subseteq InCall(j)
      BY <3>1 DEF InCall, Resting
    <3> QED BY <2>2, <3>2, OpenUntouched DEF Finish
  <2> QED BY <1>1, <2>1, <2>2, RecordOpens, WriteResultCloses DEF Execute
<1>2. CASE \/ Wake \/ ListJobs \/ Sleep \/ TickFault \/ Minute \/ UNCHANGED vars
           \/ \E j \in Jobs : Skip(j) \/ BreaksOff(j) \/ Schedule(j)
           \/ \E j \in Jobs, def \in Definitions : UpsertJob(j, def)
  <2>1. UNCHANGED <<open, work>>
    BY <1>2 DEF Wake, ListJobs, Sleep, TickFault, Minute, vars, table, Skip, BreaksOff, Schedule, UpsertJob
  <2>2. \A j \in Jobs : InCall(j)' \subseteq InCall(j)
    BY <2>1 DEF InCall
  <2> QED BY <2>1, <2>2, OpenUntouched
<1>3. ASSUME NEW a \in Actors, NEW j \in Jobs, NEW row \in Row, MarkRunning(a, j, row), UNCHANGED open
      PROVE  OpenCounted'
  <2>1. work'[a].pc = "record" /\ \A b \in Actors \ {a} : work'[b] = work[b]
    BY <1>3, MarkRunningShapes
  <2>2. \A i \in Jobs : InCall(i)' \subseteq InCall(i)
    BY <2>1 DEF InCall
  <2> QED BY <1>3, <2>2, OpenUntouched
<1>4. ASSUME NEW j \in Jobs, RunDue(j) PROVE OpenCounted'
  <2>1. tick.rows[j] \in Row /\ MarkRunning("scheduler", j, tick.rows[j]) /\ UNCHANGED open
    BY <1>4, ReachedScans DEF RunDue
  <2> QED BY <1>3, <2>1 DEF Actors
<1>5. ASSUME NEW m \in Managers, RunNowMark(m) PROVE OpenCounted'
  <2>1. work[m] \in WorkRow /\ m \in Actors
    BY <1>5 DEF Shapes, RunNowMark, At, Work, Resting, Actors
  <2>2. MarkRunning(m, work[m].job, work[m].row) /\ work[m].job \in Jobs /\ work[m].row \in Row
        /\ UNCHANGED open
    BY <1>5, <2>1 DEF RunNowMark, WorkRow
  <2> QED BY <1>3, <2>1, <2>2
<1>6. ASSUME NEW m \in Managers, NEW j \in Jobs, RunNow(m, j) PROVE OpenCounted'
  <2>1. m \in Actors /\ work'[m].pc = "mark" /\ \A b \in Actors \ {m} : work'[b] = work[b]
    BY <1>6 DEF RunNow, Actors, Shapes
  <2>2. \A i \in Jobs : InCall(i)' \subseteq InCall(i)
    BY <2>1 DEF InCall
  <2> QED BY <1>6, <2>2, OpenUntouched DEF RunNow, table
<1>7. ASSUME NEW a \in Actors, ExecutionFault(a) PROVE OpenCounted'
  <2>1. work[a] \in WorkRow /\ UNCHANGED open
    BY <1>7 DEF ExecutionFault, Shapes, Work, Resting, Executing, table
  <2>2. CASE work[a].pc = "result" /\ work[a].row.status = "succeeded"
    <3>1. work'[a].job = work[a].job /\ \A b \in Actors \ {a} : work'[b] = work[b]
      BY <1>7, <2>1, <2>2 DEF ExecutionFault, Shapes, WorkRow
    <3>2. \A i \in Jobs : InCall(i)' \subseteq InCall(i)
      BY <2>2, <3>1 DEF InCall
    <3> QED BY <2>1, <3>2, OpenUntouched
  <2>3. CASE ~(work[a].pc = "result" /\ work[a].row.status = "succeeded")
    <3>1. work'[a] = Resting /\ \A b \in Actors \ {a} : work'[b] = work[b]
      BY <1>7, <2>3 DEF ExecutionFault, GivesUp, Shapes
    <3>2. \A i \in Jobs : InCall(i)' \subseteq InCall(i)
      BY <3>1 DEF InCall, Resting
    <3> QED BY <2>1, <3>2, OpenUntouched
  <2> QED BY <2>2, <2>3
<1>8. CASE Crash
  <2>1. \A i \in Jobs : InCall(i)' \subseteq InCall(i)
    BY <1>8 DEF Crash, InCall, Resting
  <2> QED BY <1>8, <2>1, OpenUntouched DEF Crash, table
<1> QED
  BY <1>1, <1>2, <1>4, <1>5, <1>6, <1>7, <1>8 DEF Next, SchedulerStep, ManagerStep, Actors

-----------------------------------------------------------------------------
(* The limits of runs *)

\* Nobody has called run_now or saved the form.
Alone == bounds.run_now = 0 /\ bounds.edits = 0

\* The scheduler has begun a job as often as its row counts, and once more while
\* the row says that it is running; a row with a next run has a run left.
CountHolds(j) ==
  /\ started[j] <= job[j].total + (IF job[j].status = "running" THEN 1 ELSE 0)
  /\ job[j].next # Null => job[j].status # "running" /\ ~Over(job[j].def, job[j].total)
  /\ job[j].def.recurrence = "once" => started[j] <= 1
  /\ job[j].def.recurrence = "run_for" => started[j] <= job[j].def.limit

\* What the scheduler has read is what the table holds: of the jobs the tick has
\* yet to come to, and of the job it executes.
ListIsCurrent == tick.pc = "scan" => \A j \in tick.todo : tick.rows[j] = job[j]

WorkIsCurrent ==
  LET w == work["scheduler"]
  IN  w # Resting => /\ job[w.job].status = "running"
                     /\ w.row.def = job[w.job].def /\ w.row.total = job[w.job].total

LimitsHold ==
  Alone => /\ \A m \in Managers : work[m] = Resting
           /\ ListIsCurrent /\ WorkIsCurrent
           /\ \A j \in Jobs : CountHolds(j)

LEMMA AloneBefore == Shapes /\ [Next]_vars /\ Alone' => Alone /\ ~(\E j \in Jobs, def \in Definitions : UpsertJob(j, def))
                                               /\ ~(\E m \in Managers, j \in Jobs : RunNow(m, j))
<1> SUFFICES ASSUME Shapes, [Next]_vars, Alone'
             PROVE  Alone /\ ~(\E j \in Jobs, def \in Definitions : UpsertJob(j, def))
                          /\ ~(\E m \in Managers, j \in Jobs : RunNow(m, j))
  OBVIOUS
<1>1. bounds \in Counters
  BY DEF Shapes
<1>2. ASSUME NEW a \in Actors, Execute(a) PROVE UNCHANGED bounds
  BY <1>2 DEF Execute, Record, Call, WriteResult, Finish, At
<1>3. ASSUME NEW j \in Jobs, Skip(j) \/ Schedule(j) \/ BreaksOff(j) \/ RunDue(j) PROVE UNCHANGED bounds
  BY <1>3 DEF Skip, Schedule, BreaksOff, RunDue, Reached
<1>4. ASSUME NEW m \in Managers, RunNowMark(m) PROVE UNCHANGED bounds
  BY <1>4 DEF RunNowMark, At
<1>5. Wake \/ ListJobs \/ Sleep \/ Minute \/ UNCHANGED vars => UNCHANGED bounds
  BY DEF Wake, ListJobs, Sleep, Minute, vars
<1>6. ASSUME NEW j \in Jobs, NEW def \in Definitions, UpsertJob(j, def) PROVE FALSE
  BY <1>1, <1>6 DEF UpsertJob, Uses, Counters, Alone
<1>7. ASSUME NEW m \in Managers, NEW j \in Jobs, RunNow(m, j) PROVE FALSE
  BY <1>1, <1>7 DEF RunNow, Uses, Counters, Alone
<1>8. TickFault \/ Crash \/ (\E a \in Actors : ExecutionFault(a)) => Alone
  BY <1>1 DEF TickFault, Crash, ExecutionFault, Uses, Counters, Alone
<1>9. Alone
  BY <1>2, <1>3, <1>4, <1>5, <1>6, <1>7, <1>8 DEF Next, SchedulerStep, ManagerStep, Actors, Alone
<1> QED BY <1>6, <1>7, <1>9

LEMMA FinishCounts ==
  ASSUME Shapes, OutcomesKnown, SchedulerPlaced, WorkIsCurrent, ListIsCurrent,
         \A j \in Jobs : CountHolds(j),
         Finish("scheduler")
  PROVE  ListIsCurrent' /\ WorkIsCurrent' /\ \A j \in Jobs : CountHolds(j)'
<1> DEFINE a == "scheduler"
           w == work[a]
<1>0. a \in Actors
  BY DEF Actors
<1>1. /\ w \in WorkRow /\ w.job \in Jobs /\ w.row \in Row /\ w.at \in Nat /\ w # Resting
      /\ w.row.def \in Definition /\ w.row.total \in Nat
  BY <1>0 DEF Shapes, Finish, At, Work, WorkRow, Resting, Row
<1>2. CASE Raises(w.row.def, w.row.total + 1)
  <2>1. tick' = Asleep /\ work'[a] = Resting /\ UNCHANGED <<job, started>>
    BY <1>0, <1>2 DEF Finish, GivesUp, Shapes
  <2> QED BY <2>1 DEF ListIsCurrent, WorkIsCurrent, CountHolds, Asleep
<1>3. CASE ~Raises(w.row.def, w.row.total + 1)
  <2>0. PICK i \in Jobs : i = w.job
    BY <1>1
  <2>1. PICK row \in Row :
              /\ job' = [job EXCEPT ![w.job] = row]
              /\ row.def = job[w.job].def
              /\ row.status \in {"succeeded", "failed", "completed"}
              /\ row.total = w.row.total + 1
              /\ row.next = NextRun(w.row.def, w.row.total + 1, w.at)
    BY <1>0, <1>3, FinishRow
  <2>2. work' = [work EXCEPT ![a] = Resting] /\ UNCHANGED <<tick, started>>
    BY <1>0, <1>3, FinishRow
  <2>3. job'[w.job] = row /\ \A j \in Jobs \ {w.job} : job'[j] = job[j]
    BY <1>1, <2>1 DEF Shapes
  <2>4. ListIsCurrent'
    <3>1. w.job \notin tick.todo /\ tick.pc = "scan"
      BY <1>1 DEF SchedulerPlaced
    <3>2. tick.todo \subseteq Jobs
      BY <3>1 DEF Shapes, Tick, Asleep
    <3> QED BY <2>2, <2>3, <3>1, <3>2 DEF ListIsCurrent
  <2>5. WorkIsCurrent'
    BY <1>0, <2>2 DEF WorkIsCurrent, Shapes
  <2>6. CountHolds(i)'
    <3>1. job[i].status = "running" /\ w.row.def = job[i].def /\ w.row.total = job[i].total
      BY <1>1, <2>0 DEF WorkIsCurrent
    <3>2. row.next # Null => ~Over(row.def, row.total)
      BY <1>1, <2>0, <2>1, <3>1, NextRunSound
    <3>3. started[i] <= row.total
      BY <1>1, <2>0, <2>1, <3>1 DEF CountHolds
    <3>4. row.status # "running" /\ row.total \in Nat /\ started[i] \in Nat
      BY <1>1, <2>0, <2>1 DEF Row, Shapes
    <3>5. started[i] <= row.total + (IF row.status = "running" THEN 1 ELSE 0)
      BY <3>3, <3>4
    <3>6. /\ row.def.recurrence = "once" => started[i] <= 1
          /\ row.def.recurrence = "run_for" => started[i] <= row.def.limit
      BY <1>1, <2>0, <2>1 DEF CountHolds
    <3> QED BY <2>0, <2>2, <2>3, <3>2, <3>4, <3>5, <3>6 DEF CountHolds
  <2>7. \A j \in Jobs \ {i} : CountHolds(j)'
    BY <2>0, <2>2, <2>3 DEF CountHolds
  <2> QED BY <2>4, <2>5, <2>6, <2>7
<1> QED BY <1>2, <1>3

LEMMA ScheduleCounts ==
  ASSUME Shapes, WorkIsCurrent, ListIsCurrent, \A j \in Jobs : CountHolds(j),
         NEW i \in Jobs, Schedule(i)
  PROVE  ListIsCurrent' /\ WorkIsCurrent' /\ \A j \in Jobs : CountHolds(j)'
<1>1. /\ Reached(i) /\ Passed(i) /\ UNCHANGED <<work, started>> /\ work["scheduler"] = Resting
      /\ Runnable(tick.rows[i])
  BY DEF Schedule, Reached
<1>2. /\ tick.pc = "scan" /\ i \in tick.todo /\ tick.todo \subseteq Jobs /\ tick.at \in Nat
      /\ tick'.pc = "scan" /\ tick'.rows = tick.rows /\ tick'.todo = tick.todo \ {i}
  BY <1>1, ReachedScans
<1>3. tick.rows[i] = job[i] /\ job[i] \in Row /\ job[i].status # "running"
  BY <1>1, <1>2 DEF ListIsCurrent, Shapes, Runnable
<1>4. PICK row \in Row : /\ job' = [job EXCEPT ![i] = row]
                         /\ row.def = job[i].def /\ row.total = job[i].total
                         /\ row.status = job[i].status
                         /\ row.next = NextRun(job[i].def, job[i].total, tick.at)
  BY <1>3, ScheduleRow
<1>5. job'[i] = row /\ \A j \in Jobs \ {i} : job'[j] = job[j]
  BY <1>4 DEF Shapes
<1>6. ListIsCurrent'
  BY <1>2, <1>5 DEF ListIsCurrent
<1>7. WorkIsCurrent'
  BY <1>1 DEF WorkIsCurrent
<1>8. CountHolds(i)'
  <2>1. job[i].def \in Definition /\ job[i].total \in Nat
    BY <1>3 DEF Row
  <2>2. row.next # Null => ~Over(row.def, row.total)
    BY <1>2, <1>4, <2>1, NextRunSound
  <2> QED BY <1>1, <1>3, <1>4, <1>5, <2>2 DEF CountHolds
<1>9. \A j \in Jobs \ {i} : CountHolds(j)'
  BY <1>1, <1>5 DEF CountHolds
<1> QED BY <1>6, <1>7, <1>8, <1>9

LEMMA RunDueCounts ==
  ASSUME Shapes, ListIsCurrent, \A j \in Jobs : CountHolds(j), NEW i \in Jobs, RunDue(i)
  PROVE  ListIsCurrent' /\ WorkIsCurrent' /\ \A j \in Jobs : CountHolds(j)'
<1>1. /\ Reached(i) /\ Passed(i) /\ MarkRunning("scheduler", i, tick.rows[i])
      /\ tick.rows[i].next # Null
      /\ started' = [started EXCEPT ![i] = started[i] + 1]
  BY DEF RunDue
<1>2. /\ tick.pc = "scan" /\ i \in tick.todo /\ tick.todo \subseteq Jobs
      /\ tick'.pc = "scan" /\ tick'.rows = tick.rows /\ tick'.todo = tick.todo \ {i}
  BY <1>1, ReachedScans
<1>3. tick.rows[i] = job[i] /\ job[i] \in Row
  BY <1>2 DEF ListIsCurrent, Shapes
<1>4. /\ job'[i].status = "running" /\ job'[i].next = Null
      /\ job'[i].def = job[i].def /\ job'[i].total = job[i].total
      /\ \A j \in Jobs \ {i} : job'[j] = job[j]
      /\ work'["scheduler"].job = i /\ work'["scheduler"].row = job[i]
  BY <1>1, <1>3, MarkRunningShapes DEF Actors
<1>5. ListIsCurrent'
  BY <1>2, <1>4 DEF ListIsCurrent
<1>6. WorkIsCurrent'
  BY <1>4 DEF WorkIsCurrent
<1>7. /\ started[i] \in Nat /\ started'[i] = started[i] + 1
      /\ \A j \in Jobs \ {i} : started'[j] = started[j]
  BY <1>1 DEF Shapes
<1>8. CountHolds(i)'
  <2>1. job[i].status # "running" /\ ~Over(job[i].def, job[i].total) /\ started[i] <= job[i].total
    BY <1>1, <1>3 DEF CountHolds, Row
  <2>2. job[i].def \in Definition /\ job[i].total \in Nat
    BY <1>3 DEF Row
  <2>3. /\ job[i].def.recurrence = "once" => job[i].total < 1
        /\ job[i].def.recurrence = "run_for" => job[i].total < job[i].def.limit
        /\ job[i].def.limit \in Nat
    BY <2>1, <2>2 DEF Over, Definition
  <2>4. /\ started'[i] <= job[i].total + 1
        /\ job[i].def.recurrence = "once" => started'[i] <= 1
        /\ job[i].def.recurrence = "run_for" => started'[i] <= job[i].def.limit
    BY <1>7, <2>1, <2>2, <2>3
  <2> QED BY <1>4, <2>4 DEF CountHolds
<1>9. \A j \in Jobs \ {i} : CountHolds(j)'
  BY <1>4, <1>7 DEF CountHolds
<1> QED BY <1>5, <1>6, <1>8, <1>9

LEMMA LimitsKept ==
  Shapes /\ OutcomesKnown /\ SchedulerPlaced /\ LimitsHold /\ [Next]_vars => LimitsHold'
<1> SUFFICES ASSUME Shapes, OutcomesKnown, SchedulerPlaced, LimitsHold, [Next]_vars, Alone'
             PROVE  /\ \A m \in Managers : work'[m] = Resting
                    /\ ListIsCurrent' /\ WorkIsCurrent' /\ \A j \in Jobs : CountHolds(j)'
  BY DEF LimitsHold
<1> DEFINE s == "scheduler"
           Goal == /\ \A m \in Managers : work'[m] = Resting
                   /\ ListIsCurrent' /\ WorkIsCurrent' /\ \A j \in Jobs : CountHolds(j)'
<1>0. s \in Actors /\ s \notin Managers
  BY JobAssumption DEF Actors
<1>1. /\ \A m \in Managers : work[m] = Resting
      /\ ListIsCurrent /\ WorkIsCurrent /\ \A j \in Jobs : CountHolds(j)
      /\ ~(\E j \in Jobs, def \in Definitions : UpsertJob(j, def))
      /\ ~(\E m \in Managers, j \in Jobs : RunNow(m, j))
  BY AloneBefore DEF LimitsHold
<1>2. ASSUME Execute(s) PROVE Goal
  <2>1. \A m \in Managers : work'[m] = Resting
    BY <1>0, <1>1, <1>2, ExecutionStep DEF Actors
  <2>2. CASE Finish(s)
    BY <1>1, <2>1, <2>2, FinishCounts
  <2>3. CASE Record(s) \/ Call(s) \/ WriteResult(s)
    <3>1. UNCHANGED <<job, tick, started>>
      BY <2>3 DEF Record, Call, WriteResult, table
    <3>2. ~Finish(s)
      BY <2>3 DEF Record, Call, WriteResult, Finish, At
    <3>3. /\ work[s] # Resting /\ work'[s].job = work[s].job
          /\ work'[s].row.def = work[s].row.def /\ work'[s].row.total = work[s].row.total
      BY <1>0, <1>2, <3>2, ExecutionStep DEF Resting, Executing
    <3>4. ListIsCurrent' /\ WorkIsCurrent'
      BY <1>1, <3>1, <3>3 DEF ListIsCurrent, WorkIsCurrent
    <3> QED BY <1>1, <2>1, <3>1, <3>4 DEF CountHolds
  <2> QED BY <1>2, <2>2, <2>3 DEF Execute
<1>3. ASSUME NEW m \in Managers, Execute(m) \/ RunNowMark(m) PROVE FALSE
  BY <1>1, <1>3 DEF Execute, Record, Call, WriteResult, Finish, RunNowMark, At, Resting
<1>4. ASSUME Wake PROVE Goal
  BY <1>1, <1>4 DEF Wake, table, ListIsCurrent, WorkIsCurrent, CountHolds
<1>5. ASSUME ListJobs PROVE Goal
  BY <1>1, <1>5 DEF ListJobs, table, ListIsCurrent, WorkIsCurrent, CountHolds, Shapes
<1>6. ASSUME Sleep \/ TickFault PROVE Goal
  BY <1>1, <1>6 DEF Sleep, TickFault, table, ListIsCurrent, WorkIsCurrent, CountHolds, Asleep
<1>7. ASSUME NEW j \in Jobs, Skip(j) PROVE Goal
  <2>1. UNCHANGED <<job, work, started>> /\ Reached(j) /\ Passed(j)
    BY <1>7 DEF Skip, table
  <2>2. tick'.rows = tick.rows /\ tick'.todo \subseteq tick.todo /\ tick.pc = "scan"
    BY <2>1, ReachedScans
  <2> QED BY <1>1, <2>1, <2>2 DEF ListIsCurrent, WorkIsCurrent, CountHolds
<1>8. ASSUME NEW j \in Jobs, BreaksOff(j) PROVE Goal
  BY <1>1, <1>8 DEF BreaksOff, table, ListIsCurrent, WorkIsCurrent, CountHolds, Asleep
<1>9. ASSUME NEW j \in Jobs, Schedule(j) PROVE Goal
  BY <1>1, <1>9, ScheduleCounts DEF Schedule
<1>10. ASSUME NEW j \in Jobs, RunDue(j) PROVE Goal
  <2>1. tick.rows[j] \in Row /\ MarkRunning(s, j, tick.rows[j])
    BY <1>10, ReachedScans DEF RunDue
  <2>2. \A b \in Actors \ {s} : work'[b] = work[b]
    BY <1>0, <2>1, MarkRunningShapes
  <2> QED BY <1>0, <1>1, <1>10, <2>2, RunDueCounts DEF Actors
<1>11. ASSUME NEW a \in Actors, ExecutionFault(a) PROVE Goal
  <2>1. a = s /\ work[s] \in WorkRow /\ work[s] # Resting /\ work[s].row \in Row
    BY <1>1, <1>11 DEF ExecutionFault, Executing, Resting, Actors, Shapes, Work, WorkRow
  <2>2. UNCHANGED <<job, started>>
    BY <1>11 DEF ExecutionFault, table
  <2>3. CASE work[s].pc = "result" /\ work[s].row.status = "succeeded"
    <3>1. UNCHANGED tick /\ work' = [work EXCEPT ![s] = [work[s] EXCEPT !.row = [work[s].row EXCEPT !.status = "failed"]]]
      BY <1>11, <2>1, <2>3 DEF ExecutionFault, Shapes
    <3>2. work'[s] = [work[s] EXCEPT !.row = [work[s].row EXCEPT !.status = "failed"]]
          /\ \A b \in Actors \ {s} : work'[b] = work[b]
      BY <1>0, <3>1 DEF Shapes
    <3>3. /\ work'[s].job = work[s].job
          /\ work'[s].row.def = work[s].row.def /\ work'[s].row.total = work[s].row.total
      BY <2>1, <3>2 DEF WorkRow, Row
    <3>4. ListIsCurrent' /\ WorkIsCurrent'
      BY <1>1, <2>1, <2>2, <3>1, <3>3 DEF ListIsCurrent, WorkIsCurrent
    <3> QED BY <1>0, <1>1, <2>2, <3>2, <3>4 DEF CountHolds, Actors
  <2>4. CASE ~(work[s].pc = "result" /\ work[s].row.status = "succeeded")
    <3>1. tick' = Asleep /\ work' = [work EXCEPT ![s] = Resting]
      BY <1>11, <2>1, <2>4 DEF ExecutionFault, GivesUp
    <3>2. work'[s] = Resting /\ \A b \in Actors \ {s} : work'[b] = work[b]
      BY <1>0, <3>1 DEF Shapes
    <3> QED BY <1>0, <1>1, <2>2, <3>1, <3>2 DEF ListIsCurrent, WorkIsCurrent, CountHolds, Actors, Asleep
  <2> QED BY <2>3, <2>4
<1>12. ASSUME Crash PROVE Goal
  BY <1>0, <1>1, <1>12 DEF Crash, table, ListIsCurrent, WorkIsCurrent, CountHolds, Asleep, Actors
<1>13. ASSUME Minute \/ UNCHANGED vars PROVE Goal
  BY <1>1, <1>13 DEF Minute, vars, table, ListIsCurrent, WorkIsCurrent, CountHolds
<1>14. Next \/ UNCHANGED vars
  OBVIOUS
<1> HIDE DEF Goal
<1>15. Goal
  BY <1>1, <1>2, <1>3, <1>4, <1>5, <1>6, <1>7, <1>8, <1>9, <1>10, <1>11, <1>12, <1>13, <1>14
  DEF Next, SchedulerStep, ManagerStep
<1> QED BY <1>15 DEF Goal

-----------------------------------------------------------------------------
(* The theorems *)

JobInv ==
  /\ Shapes /\ OutcomesKnown /\ SchedulerPlaced
  /\ RunningIsExecuted /\ OpenCounted /\ LimitsHold

LEMMA JobInvStarts == Init => JobInv
<1> SUFFICES ASSUME Init PROVE JobInv
  OBVIOUS
<1>1. Shapes
  <2>1. job \in [Jobs -> Row]
    BY JobAssumption DEF Init, Row
  <2> QED BY <2>1, JobAssumption DEF Init, Shapes, Tick, Work, Counters
<1>2. OutcomesKnown /\ SchedulerPlaced /\ RunningIsExecuted
  BY DEF Init, OutcomesKnown, SchedulerPlaced, RunningIsExecuted, Resting, Actors
<1>3. OpenCounted
  <2>1. \A j \in Jobs : InCall(j) = {} /\ open[j] = 0
    BY DEF Init, InCall, Resting
  <2> QED BY <2>1, FS_EmptySet DEF OpenCounted
<1>4. LimitsHold
  <2>1. \A m \in Managers : work[m] = Resting
    BY DEF Init, Actors
  <2>2. ListIsCurrent /\ WorkIsCurrent
    BY DEF Init, ListIsCurrent, WorkIsCurrent, Asleep, Actors
  <2>3. ASSUME NEW j \in Jobs PROVE CountHolds(j)
    <3>1. /\ job[j] = [def |-> Defined[j], status |-> "idle", total |-> 0, next |-> Null]
          /\ started[j] = 0 /\ Defined[j].limit \in Nat
      BY JobAssumption DEF Init, Definition
    <3> QED BY <3>1 DEF CountHolds
  <2> QED BY <2>1, <2>2, <2>3 DEF LimitsHold
<1> QED BY <1>1, <1>2, <1>3, <1>4 DEF JobInv

LEMMA JobInvKept == JobInv /\ [Next]_vars => JobInv'
BY ShapesKept, OutcomesKept, SchedulerKept, RunningKept, OpenKept, LimitsKept DEF JobInv

\* The inductive invariant of the scheduler and of run_now, on every list of jobs.
THEOREM InvHolds == Spec => []JobInv
BY JobInvStarts, JobInvKept, PTL DEF Spec

\* Rows are well formed, no history row is closed twice, and a job that says it is
\* running is being executed, or an execution of it was cut short (_execute_job).
THEOREM JobsSound == Spec => []JobsAreSound
<1>1. JobInv => JobsAreSound
  <2> SUFFICES ASSUME JobInv PROVE JobsAreSound
    OBVIOUS
  <2>1. \A j \in Jobs : open[j] \in Nat
    <3> SUFFICES ASSUME NEW j \in Jobs PROVE open[j] \in Nat
      OBVIOUS
    <3>1. IsFiniteSet(InCall(j)) /\ Cardinality(InCall(j)) <= open[j] /\ open[j] \in Int
      BY DEF JobInv, OpenCounted, Shapes
    <3>2. Cardinality(InCall(j)) \in Nat
      BY <3>1, FS_CardinalityType
    <3> QED BY <3>1, <3>2
  <2>2. \A a \in Actors : work[a].pc \in Executing \cup {"rest", "mark"}
    BY DEF JobInv, Shapes, Work, WorkRow, Resting
  <2>3. tick.pc \in {"asleep", "list", "scan"}
    BY DEF JobInv, Shapes, Tick, Asleep
  <2>4. TypeOK
    BY <2>1, <2>2, <2>3 DEF TypeOK, JobInv, Shapes
  <2> QED BY <2>4 DEF JobsAreSound, JobInv
<1> QED BY <1>1, InvHolds, PTL

\* Without run_now and edits the scheduler begins a limited job as often as its limit
\* says, whatever executions and ticks break off and however often the server restarts.
THEOREM LimitsAreRespected == Spec => []RunsWithinLimit
<1>1. JobInv => RunsWithinLimit
  BY DEF JobInv, LimitsHold, Alone, CountHolds, RunsWithinLimit
<1> QED BY <1>1, InvHolds, PTL

(***************************************************************************)
(* StorageIndex: for every number of callers and users, every set of names,  *)
(* batches, moves and renames and every bound, the index of a user is        *)
(* repaired by a scan that nothing has disturbed.                            *)
(***************************************************************************)

-----------------------------------------------------------------------------
(* Sequences element by element *)

(* A set that has 0 and with a number the next has all up to n. *)
LEMMA UpTo ==
  ASSUME NEW n \in Nat, NEW T, 0 \in T, \A i \in 1 .. n : i - 1 \in T => i \in T
  PROVE  \A i \in 0 .. n : i \in T
  <1> SUFFICES ASSUME NEW j \in 0 .. n, j \notin T PROVE FALSE
    OBVIOUS
  <1> DEFINE F == {i \in 0 .. n : i \notin T}
  <1>1. PICK m \in F : \A i \in F : m <= i
    <2>1. F \subseteq Nat /\ F # {}
      OBVIOUS
    <2> QED
      BY <2>1, LeastExists
  <1>2. m \in 1 .. n /\ m - 1 \in 0 .. n /\ m - 1 < m
    OBVIOUS
  <1>3. m - 1 \in T
    BY <1>1, <1>2
  <1> QED
    BY <1>1, <1>2, <1>3

\* What F makes of the value before, beginning with b.
StepsTo(n, D, b, F) == \E p \in [0 .. n -> D] : p[0] = b /\ \A i \in 1 .. n : p[i] = F[p[i - 1], i]

(* A sequence can be worked through element by element. *)
LEMMA StepByStep ==
  ASSUME NEW n \in Nat, NEW D, NEW b \in D, NEW F \in [D \X (1 .. n) -> D]
  PROVE  StepsTo(n, D, b, F)
  <1> DEFINE Reaches(m) == \E p \in [0 .. m -> D] : p[0] = b /\ \A i \in 1 .. m : p[i] = F[p[i - 1], i]
             T == {m \in 0 .. n : Reaches(m)}
  <1>1. 0 \in T
    <2> DEFINE p == [i \in 0 .. 0 |-> b]
    <2>1. p \in [0 .. 0 -> D] /\ p[0] = b /\ \A i \in 1 .. 0 : p[i] = F[p[i - 1], i]
      OBVIOUS
    <2> HIDE DEF p
    <2>2. Reaches(0) /\ 0 \in 0 .. n
      BY <2>1
    <2> QED
      BY <2>2
  <1>2. ASSUME NEW m \in 1 .. n, m - 1 \in T PROVE m \in T
    <2>1. PICK p \in [0 .. m - 1 -> D] : p[0] = b /\ \A i \in 1 .. m - 1 : p[i] = F[p[i - 1], i]
      BY <1>2
    <2> DEFINE q == [i \in 0 .. m |-> IF i = m THEN F[p[m - 1], m] ELSE p[i]]
    <2>a. m - 1 \in 0 .. m - 1
      OBVIOUS
    <2>b. p[m - 1] \in D
      BY <2>1, <2>a
    <2>2. <<p[m - 1], m>> \in D \X (1 .. n) /\ F[p[m - 1], m] \in D
      BY <2>b
    <2>3. q \in [0 .. m -> D]
      <3>1. \A i \in 0 .. m : i # m => i \in 0 .. m - 1
        OBVIOUS
      <3> QED
        BY <2>1, <2>2, <3>1
    <2>4. q[0] = b
      <3>1. 0 \in 0 .. m /\ 0 # m
        OBVIOUS
      <3> QED
        BY <2>1, <3>1
    <2>5. \A i \in 1 .. m : q[i] = F[q[i - 1], i]
      <3> TAKE i \in 1 .. m
      <3>0. i - 1 \in 0 .. m /\ i - 1 # m /\ i \in 0 .. m
        OBVIOUS
      <3>1. q[i - 1] = p[i - 1] /\ q[i] = IF i = m THEN F[p[m - 1], m] ELSE p[i]
        BY <3>0
      <3> HIDE DEF q
      <3>2. CASE i = m
        BY <3>1, <3>2
      <3>3. CASE i # m
        <4>1. i \in 1 .. m - 1 /\ q[i] = p[i]
          BY <3>1, <3>3
        <4> QED
          BY <2>1, <3>1, <4>1
      <3> QED
        BY <3>2, <3>3
    <2> HIDE DEF q
    <2>6. Reaches(m)
      BY <2>3, <2>4, <2>5
    <2>7. m \in 0 .. n
      OBVIOUS
    <2> QED
      BY <2>6, <2>7
  <1> HIDE DEF T
  <1>3. \A i \in 0 .. n : i \in T
    BY <1>1, <1>2, UpTo
  <1>4. n \in T
    BY <1>3
  <1> QED
    BY <1>4 DEF T, StepsTo
(* An element appended is one element more. *)
LEMMA RangeAppended ==
  ASSUME NEW S, NEW s \in Seq(S), NEW e \in S
  PROVE  Append(s, e) \in Seq(S) /\ Range(Append(s, e)) = Range(s) \cup {e}
  <1> DEFINE t == Append(s, e)
             n == Len(s)
  <1>1. t \in Seq(S) /\ n \in Nat /\ Len(t) = n + 1 /\ DOMAIN s = 1 .. n /\ DOMAIN t = 1 .. n + 1
    OBVIOUS
  <1>2. t[n + 1] = e /\ \A i \in 1 .. n : t[i] = s[i]
    OBVIOUS
  <1> HIDE DEF t, n
  <1>3. 1 .. n + 1 = (1 .. n) \cup {n + 1}
    BY <1>1
  <1>4. Range(t) = Range(s) \cup {e}
    BY <1>1, <1>2, <1>3 DEF Range
  <1> QED
    BY <1>1, <1>4 DEF t

OnlyBy(s, T, p) == p = [i \in 0 .. Len(s) |-> IF i = 0 THEN <<>>
                          ELSE IF s[i] \in T THEN Append(p[i - 1], s[i]) ELSE p[i - 1]]

(* Only is a recursive function: it is chosen among those that go step by step. *)
LEMMA OnlyIsChosen ==
  ASSUME NEW s, NEW T
  PROVE  Only(s, T) = (CHOOSE p : OnlyBy(s, T, p))[Len(s)]
  BY Zenon DEF Only, OnlyBy

(* Only keeps the elements that are in T (the comprehensions of StorageModule). *)
LEMMA OnlyFacts ==
  ASSUME NEW S, NEW s \in Seq(S), NEW T
  PROVE  Only(s, T) \in Seq(S) /\ Range(Only(s, T)) = Range(s) \cap T
  <1> DEFINE n == Len(s)
             D == Seq(S)
             F == [x \in D \X (1 .. n) |-> IF s[x[2]] \in T THEN Append(x[1], s[x[2]]) ELSE x[1]]
  <1>1. n \in Nat /\ <<>> \in D /\ \A i \in 1 .. n : s[i] \in S
    OBVIOUS
  <1>2. F \in [D \X (1 .. n) -> D]
    <2> SUFFICES ASSUME NEW x \in D, NEW i \in 1 .. n
                 PROVE  (IF s[i] \in T THEN Append(x, s[i]) ELSE x) \in D
      OBVIOUS
    <2> QED
      BY <1>1
  <1>3. PICK p \in [0 .. n -> D] : p[0] = <<>> /\ \A i \in 1 .. n : p[i] = F[p[i - 1], i]
    <2>1. n \in Nat /\ <<>> \in D
      BY <1>1
    <2> HIDE DEF n, D, F
    <2>2. StepsTo(n, D, <<>>, F)
      BY <1>2, <2>1, StepByStep
    <2> QED
      BY <2>2 DEF StepsTo
  <1>4. \A i \in 1 .. n : p[i] = IF s[i] \in T THEN Append(p[i - 1], s[i]) ELSE p[i - 1]
    <2> TAKE i \in 1 .. n
    <2>1. i - 1 \in 0 .. n
      BY <1>1
    <2>2. <<p[i - 1], i>> \in D \X (1 .. n)
      BY <1>3, <2>1
    <2> QED
      BY <1>3, <2>2
  <1>5. OnlyBy(s, T, p)
    <2>1. p = [i \in 0 .. n |-> IF i = 0 THEN <<>>
                 ELSE IF s[i] \in T THEN Append(p[i - 1], s[i]) ELSE p[i - 1]]
      <3> HIDE DEF D, F
      <3>1. \A i \in 0 .. n : i # 0 => i \in 1 .. n
        OBVIOUS
      <3> QED
        BY <1>3, <1>4, <3>1
    <2> QED
      BY <2>1 DEF OnlyBy
  <1> DEFINE q == CHOOSE x : OnlyBy(s, T, x)
  <1>6. OnlyBy(s, T, q)
    BY <1>5
  <1> HIDE DEF q
  <1>7. q[0] = <<>> /\ \A i \in 1 .. n : q[i] = IF s[i] \in T THEN Append(q[i - 1], s[i]) ELSE q[i - 1]
    <2>1. 0 \in 0 .. n /\ \A i \in 1 .. n : i \in 0 .. n /\ i # 0
      BY <1>1
    <2>2. \A i \in 0 .. n : q[i] = IF i = 0 THEN <<>>
                 ELSE IF s[i] \in T THEN Append(q[i - 1], s[i]) ELSE q[i - 1]
      BY <1>6 DEF OnlyBy
    <2> HIDE DEF n
    <2> QED
      BY <2>1, <2>2
  <1> DEFINE Good(i) == q[i] \in D /\ Range(q[i]) = {s[j] : j \in 1 .. i} \cap T
             G == {i \in 0 .. n : Good(i)}
  <1>8. 0 \in G
    <2>1. Range(<<>>) = {}
      BY DEF Range
    <2>2. {s[j] : j \in 1 .. 0} = {}
      OBVIOUS
    <2>3. Good(0)
      BY <1>1, <1>7, <2>1, <2>2
    <2> QED
      BY <1>1, <2>3
  <1>9. ASSUME NEW i \in 1 .. n, i - 1 \in G PROVE i \in G
    <2> DEFINE before == {s[j] : j \in 1 .. i - 1}
    <2>1. {s[j] : j \in 1 .. i} = before \cup {s[i]}
      <3>1. 1 .. i = (1 .. i - 1) \cup {i}
        OBVIOUS
      <3> QED
        BY <3>1
    <2>2. q[i - 1] \in D /\ Range(q[i - 1]) = before \cap T
      BY <1>9
    <2>3. CASE s[i] \in T
      <3>1. q[i] = Append(q[i - 1], s[i]) /\ s[i] \in S
        BY <1>1, <1>7, <2>3
      <3>2. q[i] \in D /\ Range(q[i]) = Range(q[i - 1]) \cup {s[i]}
        BY <2>2, <3>1, RangeAppended
      <3>3. Good(i)
        BY <2>1, <2>2, <2>3, <3>2
      <3> QED
        BY <3>3
    <2>4. CASE s[i] \notin T
      <3>1. q[i] = q[i - 1]
        BY <1>7, <2>4
      <3>2. Good(i)
        BY <2>1, <2>2, <2>4, <3>1
      <3> QED
        BY <3>2
    <2> QED
      BY <2>3, <2>4
  <1>10. n \in G
    <2> HIDE DEF G, n
    <2>1. \A i \in 0 .. n : i \in G
      BY <1>1, <1>8, <1>9, UpTo
    <2> QED
      BY <1>1, <2>1
  <1>11. Range(s) = {s[j] : j \in 1 .. n}
    BY DEF Range
  <1>12. Only(s, T) = q[n]
    BY OnlyIsChosen DEF q
  <1> QED
    BY <1>10, <1>11, <1>12

(* Two sequences joined have the elements of both. *)
LEMMA RangeJoined ==
  ASSUME NEW S, NEW s \in Seq(S), NEW t \in Seq(S)
  PROVE  s \o t \in Seq(S) /\ Range(s \o t) = Range(s) \cup Range(t)
  <1> DEFINE u == s \o t
             m == Len(s)
             n == Len(t)
  <1>1. /\ u \in Seq(S) /\ m \in Nat /\ n \in Nat
        /\ DOMAIN s = 1 .. m /\ DOMAIN t = 1 .. n /\ DOMAIN u = 1 .. m + n
    OBVIOUS
  <1>2. /\ \A i \in 1 .. m : u[i] = s[i]
        /\ \A i \in 1 .. n : u[m + i] = t[i]
    OBVIOUS
  <1> HIDE DEF u, m, n
  <1>3. \A i \in 1 .. m + n : i \in 1 .. m \/ (i - m \in 1 .. n /\ i = m + (i - m))
    BY <1>1
  <1>4. \A i \in 1 .. m : i \in 1 .. m + n
    BY <1>1
  <1>5. \A i \in 1 .. n : m + i \in 1 .. m + n
    BY <1>1
  <1>6. ASSUME NEW e \in Range(u) PROVE e \in Range(s) \cup Range(t)
    <2>1. PICK i \in 1 .. m + n : e = u[i]
      BY <1>1, <1>6 DEF Range
    <2>2. CASE i \in 1 .. m
      BY <1>1, <1>2, <2>1, <2>2 DEF Range
    <2>3. CASE i - m \in 1 .. n /\ i = m + (i - m)
      <3>1. PICK j \in 1 .. n : i = m + j
        BY <2>3
      <3> QED
        BY <1>1, <1>2, <2>1, <3>1 DEF Range
    <2> QED
      BY <1>3, <2>2, <2>3
  <1>7. Range(s) \subseteq Range(u)
    BY <1>1, <1>2, <1>4 DEF Range
  <1>8. Range(t) \subseteq Range(u)
    <2> SUFFICES ASSUME NEW i \in 1 .. n PROVE t[i] \in Range(u)
      BY <1>1 DEF Range
    <2>1. m + i \in 1 .. m + n /\ t[i] = u[m + i]
      BY <1>2, <1>5
    <2>2. \A x \in 1 .. m + n : u[x] \in Range(u)
      BY <1>1 DEF Range
    <2> QED
      BY <2>1, <2>2
  <1>9. Range(u) = Range(s) \cup Range(t)
    BY <1>6, <1>7, <1>8
  <1> QED
    BY <1>1, <1>9 DEF u

OneAfterOtherBy(seqs, p) ==
  p = [i \in 0 .. Len(seqs) |-> IF i = 0 THEN <<>>
         ELSE p[i - 1] \o Only(seqs[i], Range(seqs[i]) \ Range(p[i - 1]))]

(* OneAfterOther is a recursive function, too. *)
LEMMA OneAfterOtherIsChosen ==
  ASSUME NEW seqs
  PROVE  OneAfterOther(seqs) = (CHOOSE p : OneAfterOtherBy(seqs, p))[Len(seqs)]
  BY Zenon DEF OneAfterOther, OneAfterOtherBy

(* Sequences one after the other have the elements of all: leaving out what an *)
(* earlier one has loses nothing (seen_folders of reindex).                    *)
LEMMA OneAfterOtherFacts ==
  ASSUME NEW S, NEW s \in Seq(Seq(S))
  PROVE  OneAfterOther(s) \in Seq(S) /\ Range(OneAfterOther(s)) = UNION {Range(s[i]) : i \in DOMAIN s}
  <1> DEFINE n == Len(s)
             D == Seq(S)
             F == [x \in D \X (1 .. n) |-> x[1] \o Only(s[x[2]], Range(s[x[2]]) \ Range(x[1]))]
  <1>1. n \in Nat /\ <<>> \in D /\ \A i \in 1 .. n : s[i] \in D
    OBVIOUS
  <1>2. ASSUME NEW x \in D, NEW i \in 1 .. n
        PROVE  LET new == x \o Only(s[i], Range(s[i]) \ Range(x))
               IN  new \in D /\ Range(new) = Range(x) \cup Range(s[i])
    <2> DEFINE y == Only(s[i], Range(s[i]) \ Range(x))
    <2>1. s[i] \in D
      BY <1>1
    <2>2. y \in D /\ Range(y) = Range(s[i]) \cap (Range(s[i]) \ Range(x))
      BY <2>1, OnlyFacts
    <2> HIDE DEF y
    <2>3. x \o y \in D /\ Range(x \o y) = Range(x) \cup Range(y)
      BY <2>2, RangeJoined
    <2>4. Range(x \o y) = Range(x) \cup Range(s[i])
      BY <2>2, <2>3
    <2> QED
      BY <2>3, <2>4 DEF y
  <1>3. F \in [D \X (1 .. n) -> D]
    <2>1. \A x \in D, i \in 1 .. n : x \o Only(s[i], Range(s[i]) \ Range(x)) \in D
      BY <1>2
    <2> HIDE DEF D
    <2> QED
      BY <2>1
  <1>4. PICK p \in [0 .. n -> D] : p[0] = <<>> /\ \A i \in 1 .. n : p[i] = F[p[i - 1], i]
    <2>1. n \in Nat /\ <<>> \in D
      BY <1>1
    <2> HIDE DEF n, D, F
    <2>2. StepsTo(n, D, <<>>, F)
      BY <1>3, <2>1, StepByStep
    <2> QED
      BY <2>2 DEF StepsTo
  <1>5. \A i \in 1 .. n : p[i] = p[i - 1] \o Only(s[i], Range(s[i]) \ Range(p[i - 1]))
    <2> TAKE i \in 1 .. n
    <2>1. i - 1 \in 0 .. n
      BY <1>1
    <2>2. <<p[i - 1], i>> \in D \X (1 .. n)
      BY <1>4, <2>1
    <2> QED
      BY <1>4, <2>2
  <1>6. OneAfterOtherBy(s, p)
    <2>1. p = [i \in 0 .. n |-> IF i = 0 THEN <<>>
                 ELSE p[i - 1] \o Only(s[i], Range(s[i]) \ Range(p[i - 1]))]
      <3> HIDE DEF D, F
      <3>1. \A i \in 0 .. n : i # 0 => i \in 1 .. n
        OBVIOUS
      <3> QED
        BY <1>4, <1>5, <3>1
    <2> QED
      BY <2>1 DEF OneAfterOtherBy
  <1> DEFINE q == CHOOSE x : OneAfterOtherBy(s, x)
  <1>7. OneAfterOtherBy(s, q)
    BY <1>6
  <1> HIDE DEF q
  <1>8. q[0] = <<>> /\ \A i \in 1 .. n : q[i] = q[i - 1] \o Only(s[i], Range(s[i]) \ Range(q[i - 1]))
    <2>1. 0 \in 0 .. n /\ \A i \in 1 .. n : i \in 0 .. n /\ i # 0
      BY <1>1
    <2>2. \A i \in 0 .. n : q[i] = IF i = 0 THEN <<>>
                 ELSE q[i - 1] \o Only(s[i], Range(s[i]) \ Range(q[i - 1]))
      BY <1>7 DEF OneAfterOtherBy
    <2> HIDE DEF n
    <2> QED
      BY <2>1, <2>2
  <1> DEFINE Good(i) == q[i] \in D /\ Range(q[i]) = UNION {Range(s[j]) : j \in 1 .. i}
             G == {i \in 0 .. n : Good(i)}
  <1>9. 0 \in G
    <2>1. Range(<<>>) = {}
      BY DEF Range
    <2>2. UNION {Range(s[j]) : j \in 1 .. 0} = {}
      OBVIOUS
    <2>3. Good(0)
      BY <1>1, <1>8, <2>1, <2>2
    <2> QED
      BY <1>1, <2>3
  <1>10. ASSUME NEW i \in 1 .. n, i - 1 \in G PROVE i \in G
    <2> DEFINE before == UNION {Range(s[j]) : j \in 1 .. i - 1}
    <2>1. UNION {Range(s[j]) : j \in 1 .. i} = before \cup Range(s[i])
      <3>1. 1 .. i = (1 .. i - 1) \cup {i}
        OBVIOUS
      <3> QED
        BY <3>1
    <2>2. q[i - 1] \in D /\ Range(q[i - 1]) = before
      BY <1>10
    <2>3. q[i] \in D /\ Range(q[i]) = Range(q[i - 1]) \cup Range(s[i])
      BY <1>2, <1>8, <2>2
    <2>4. Good(i)
      BY <2>1, <2>2, <2>3
    <2> QED
      BY <2>4
  <1>11. n \in G
    <2> HIDE DEF G, n
    <2>1. \A i \in 0 .. n : i \in G
      BY <1>1, <1>9, <1>10, UpTo
    <2> QED
      BY <1>1, <2>1
  <1>12. OneAfterOther(s) = q[n]
    BY OneAfterOtherIsChosen DEF q
  <1>13. DOMAIN s = 1 .. n
    OBVIOUS
  <1> QED
    BY <1>11, <1>12, <1>13

-----------------------------------------------------------------------------
(* The inductive invariant *)

Segments == UNION {Range(n) : n \in Names}

Statement == [do : {"upsert", "delete", "delete folder"}, user : Accounts, name : Seq(Segments), row : IndexRow]

FoundBlob == [name : Names, kind : Kinds \ {"none"}]

NoteFields == {"op", "user", "from", "to", "work", "todo", "rows", "one", "found", "left", "stale", "seen"}

IsNote(k) ==
  /\ DOMAIN k = NoteFields
  /\ k.from \in Seq(Segments) /\ k.to \in Seq(Segments)
  /\ k.work \in Seq(Names) /\ k.left \in Seq(Users) /\ k.seen \subseteq Users
  /\ k.todo \in Seq(Statement) /\ k.stale \in Seq(Statement)

Operating == {"put", "delete", "folder", "look up", "target", "rename", "copy", "unlink"}

Scanning == {"account", "cache", "scan"}

\* The statements a scan has still to run.
Ahead(k) == Range(k.todo) \cup Range(k.stale)

\* A scan comes to each user once, and has no statements for those it has not come to.
IsListing(k) ==
  /\ \A u \in Range(k.left) : u \in DOMAIN k.found /\ k.found[u] \in Seq(FoundBlob)
  /\ \A i, j \in DOMAIN k.left : k.left[i] = k.left[j] => i = j
  /\ k.seen \cap Range(k.left) = {}
  /\ \A w \in Ahead(k) : /\ w.user \notin Range(k.left)
                         /\ \/ w.do = "upsert" /\ w.row.kind # "none"
                            \/ w.do = "delete" /\ w.row = NoRow

\* What a caller knows at its step.
IsPlain(step, k) ==
  /\ IsNote(k)
  /\ step \in Operating => k.user \in Accounts /\ k.work # <<>>
  /\ step \in {"target", "rename"} \/ (step \in {"copy", "unlink"} /\ k.op # "move") =>
       k.rows \in [Names -> IndexRow]
  /\ step = "rows" => k.user \in Accounts /\ k.todo # <<>>
  /\ step = "user" => k.user \in Accounts /\ k.one
  /\ step \in {"user", "list"} => k.todo = <<>> /\ k.left = <<>> /\ k.stale = <<>> /\ k.seen = {}
  /\ step = "list" /\ k.one => k.user \in Accounts
  /\ step \in Scanning => IsListing(k)
  /\ step = "account" \/ step = "cache" => k.todo = <<>> /\ k.left # <<>>
  /\ step = "cache" => Head(k.left) \in Accounts
  /\ step = "scan" => k.todo # <<>>

\* The scan has listed what the user has.
Lists(found, u) ==
  /\ \A i \in DOMAIN found : blob[u][found[i].name] = found[i].kind
  /\ \A n \in Names : blob[u][n] # "none" => \E i \in DOMAIN found : found[i].name = n

Repairs(u, n, ahead) ==
  /\ ~IsFile(u, n) =>
       /\ rows[u][n].kind = "file" => \E w \in ahead : w.do = "delete" /\ w.user = u /\ w.name = n
       /\ \A w \in ahead : w.do = "upsert" /\ w.user = u /\ w.name = n => w.row.kind # "file"
  /\ IsFile(u, n) =>
       /\ \A w \in ahead : w.user = u /\ w.name = n => w.do = "upsert"
       /\ rows[u][n].kind # "none" \/ \E w \in ahead : w.user = u /\ w.name = n
  /\ IsFile(u, n) /\ ~IsFolder(u, n) =>
       /\ \A w \in ahead : w.user = u /\ w.name = n => w.row.kind = "file"
       /\ rows[u][n].kind = "file" \/ \E w \in ahead : w.user = u /\ w.name = n

\* An undisturbed scan lists what there is and, with its statements, repairs the rows
\* of the users it has seen.
ListsAgree(k) ==
  /\ \A u \in Range(k.left) : Lists(k.found[u], u)
  /\ \A u \in k.seen, n \in Names : Repairs(u, n, Ahead(k))

CallerOK(c) == IsPlain(pc[c], cur[c]) /\ (pc[c] \in Scanning /\ ~dirty[c] => ListsAgree(cur[c]))

StorageInv ==
  /\ IndexTypeOK
  /\ pc = [c \in Callers |-> pc[c]] /\ cur = [c \in Callers |-> cur[c]]
  /\ dirty = [c \in Callers |-> dirty[c]] /\ fresh = [u \in Users |-> fresh[u]]
  /\ \A c \in Callers : CallerOK(c)
  /\ \A u \in Users : fresh[u] => \A n \in Names : Repairs(u, n, {})

-----------------------------------------------------------------------------
(* Notes and statements *)

(* A sequence that is not empty has its head and the elements of its tail. *)
LEMMA HeadAndTail ==
  ASSUME NEW S, NEW s \in Seq(S), s # <<>>
  PROVE  /\ Head(s) \in S /\ Head(s) \in Range(s) /\ Tail(s) \in Seq(S)
         /\ Range(s) = {Head(s)} \cup Range(Tail(s))
  <1> DEFINE n == Len(s)
             t == Tail(s)
  <1>1. /\ n \in Nat /\ n > 0 /\ DOMAIN s = 1 .. n /\ Head(s) = s[1] /\ s[1] \in S
        /\ t \in Seq(S) /\ DOMAIN t = 1 .. n - 1 /\ \A i \in 1 .. n - 1 : t[i] = s[i + 1]
    OBVIOUS
  <1> HIDE DEF n, t
  <1>2. \A i \in 1 .. n : i = 1 \/ (i - 1 \in 1 .. n - 1 /\ i = (i - 1) + 1)
    BY <1>1
  <1>3. 1 \in 1 .. n /\ \A i \in 1 .. n - 1 : i + 1 \in 1 .. n
    BY <1>1
  <1>4. Range(s) \subseteq {s[1]} \cup Range(t)
    <2> SUFFICES ASSUME NEW i \in 1 .. n PROVE s[i] \in {s[1]} \cup Range(t)
      BY <1>1 DEF Range
    <2>1. CASE i = 1
      BY <2>1
    <2>2. CASE i - 1 \in 1 .. n - 1 /\ i = (i - 1) + 1
      <3>1. PICK j \in 1 .. n - 1 : i = j + 1
        BY <2>2
      <3> QED
        BY <1>1, <3>1 DEF Range
    <2> QED
      BY <1>2, <2>1, <2>2
  <1>5. Range(t) \subseteq Range(s)
    <2> SUFFICES ASSUME NEW j \in 1 .. n - 1 PROVE t[j] \in Range(s)
      BY <1>1 DEF Range
    <2>1. \A i \in 1 .. n : s[i] \in Range(s)
      BY <1>1 DEF Range
    <2> QED
      BY <1>1, <1>3, <2>1
  <1>6. s[1] \in Range(s)
    BY <1>1, <1>3 DEF Range
  <1> QED
    BY <1>1, <1>4, <1>5, <1>6 DEF t

(* The elements of short sequences. *)
LEMMA RangeFacts ==
  ASSUME NEW S
  PROVE  /\ <<>> \in Seq(S) /\ Range(<<>>) = {}
         /\ \A a \in S : <<a>> \in Seq(S) /\ Range(<<a>>) = {a}
         /\ \A a, b \in S : <<a, b>> \in Seq(S) /\ Range(<<a, b>>) = {a, b}
         /\ \A s \in Seq(S) : Range(s) \subseteq S
  <1>1. \A a \in S : <<a>> \in Seq(S) /\ DOMAIN <<a>> = {1} /\ <<a>>[1] = a
    OBVIOUS
  <1>2. \A a, b \in S : /\ <<a, b>> \in Seq(S) /\ DOMAIN <<a, b>> = {1, 2}
                        /\ <<a, b>>[1] = a /\ <<a, b>>[2] = b
    OBVIOUS
  <1>3. \A s \in Seq(S) : Range(s) \subseteq S
    BY DEF Range
  <1>4. <<>> \in Seq(S) /\ Range(<<>>) = {}
    BY DEF Range
  <1>5. \A a \in S : Range(<<a>>) = {a}
    BY <1>1 DEF Range
  <1>6. ASSUME NEW a \in S, NEW b \in S PROVE Range(<<a, b>>) = {a, b}
    <2> DEFINE p == <<a, b>>
    <2>1. DOMAIN p = {1, 2} /\ p[1] = a /\ p[2] = b
      BY <1>2
    <2> HIDE DEF p
    <2>2. Range(p) = {a, b}
      BY <2>1 DEF Range
    <2> QED
      BY <2>2 DEF p
  <1> QED
    BY <1>1, <1>2, <1>3, <1>4, <1>5, <1>6

(* A name is a sequence of segments. *)
LEMMA NameFacts ==
  ASSUME NEW n \in Names
  PROVE  n \in Seq(Segments)
  <1>1. n \in Seq(Range(n)) /\ Range(n) \subseteq Segments
    BY StorageAssumption DEF Segments
  <1> QED
    BY <1>1

(* So is a name that has been renamed (rename_file), indexed or not. *)
LEMMA RenamedIsName ==
  ASSUME NEW n \in Seq(Segments), NEW old \in Seq(Segments), NEW new \in Seq(Segments)
  PROVE  Renamed(n, old, new) \in Seq(Segments)
  <1>1. Len(old) + 1 \in Nat /\ Len(old) + 1 >= 1 /\ Len(n) \in Nat
    OBVIOUS
  <1>2. SubSeq(n, Len(old) + 1, Len(n)) \in Seq(Segments)
    BY <1>1, SubSeqProperties
  <1> QED
    BY <1>2 DEF Renamed

(* The statements of the model on rows of a user who has an account are well formed. *)
LEMMA StatementFacts ==
  ASSUME NEW u \in Accounts, NEW n \in Seq(Segments)
  PROVE  /\ NoRow \in IndexRow /\ FolderRow \in IndexRow
         /\ FileRow(TRUE) \in IndexRow /\ FileRow(FALSE) \in IndexRow
         /\ \A row \in IndexRow : Upsert(u, n, row) \in Statement
         /\ Delete(u, n) \in Statement /\ DeleteFolder(u, n) \in Statement
  BY DEF NoRow, FolderRow, FileRow, IndexRow, Kinds, Upsert, Delete, DeleteFolder, Statement

(* A caller that is idle, or that begins the scan of all users, knows nothing. *)
LEMMA NothingIsPlain ==
  ASSUME NEW step, step \notin Operating \cup Scanning \cup {"rows", "user"},
         step = "list" => ~Nothing.one
  PROVE  IsPlain(step, Nothing) /\ IsNote(Nothing)
  <1>1. IsNote(Nothing)
    BY RangeFacts DEF IsNote, Nothing, NoteFields
  <1> QED
    BY <1>1 DEF IsPlain, Operating, Scanning, Nothing

-----------------------------------------------------------------------------
(* What a step leaves alone *)

SameKinds == blob' = blob /\ \A u \in Users, n \in Names : rows'[u][n].kind = rows[u][n].kind

(* The rows of a user stay repaired while the blobs and the kinds of rows do not change. *)
LEMMA RepairsStays ==
  ASSUME NEW u \in Users, NEW n \in Names, NEW ahead, Repairs(u, n, ahead),
         blob'[u] = blob[u], rows'[u][n].kind = rows[u][n].kind
  PROVE  Repairs(u, n, ahead)'
  BY DEF Repairs, IsFile, IsFolder

(* What a scan has listed stays true, too. *)
LEMMA AgreesStays ==
  ASSUME NEW k, IsNote(k), ListsAgree(k), SameKinds
  PROVE  ListsAgree(k)'
  <1>1. Range(k.left) \subseteq Users /\ k.seen \subseteq Users
    BY DEF IsNote, Range
  <1>2. \A u \in Range(k.left) : Lists(k.found[u], u)'
    BY DEF ListsAgree, Lists, SameKinds
  <1>3. ASSUME NEW u \in k.seen, NEW n \in Names PROVE Repairs(u, n, Ahead(k))'
    <2>1. Repairs(u, n, Ahead(k)) /\ u \in Users
      BY <1>1 DEF ListsAgree
    <2> DEFINE ahead == Ahead(k)
    <2>2. Repairs(u, n, ahead)
      BY <2>1
    <2> HIDE DEF ahead
    <2>3. Repairs(u, n, ahead)'
      BY <2>1, <2>2, RepairsStays DEF SameKinds
    <2> QED
      BY <2>3 DEF ahead
  <1> QED
    BY <1>2, <1>3 DEF ListsAgree

(* Nothing a scan has listed has changed, or the scan is disturbed. *)
LEMMA CallerStays ==
  ASSUME NEW x, CallerOK(x), pc'[x] = pc[x], cur'[x] = cur[x],
         \/ SameKinds /\ dirty'[x] = dirty[x]
         \/ pc[x] \in Scanning => dirty'[x]
  PROVE  CallerOK(x)'
  <1> DEFINE k == cur[x]
  <1>1. IsPlain(pc[x], k) /\ IsNote(k)
    BY DEF CallerOK, IsPlain
  <1>2. IsPlain(pc[x], k)'
    BY <1>1 DEF IsPlain
  <1>3. ASSUME pc[x] \in Scanning, ~dirty'[x] PROVE ListsAgree(k)'
    <2>1. SameKinds /\ ~dirty[x] /\ ListsAgree(k)
      BY <1>3 DEF CallerOK
    <2> QED
      BY <1>1, <2>1, AgreesStays
  <1> QED
    BY <1>2, <1>3 DEF CallerOK

OtherScansStay(c) ==
  \A x \in Callers \ {c} : \/ SameKinds /\ dirty'[x] = dirty[x]
                           \/ pc[x] \in Scanning => dirty'[x]

(* A caller goes on as it should, and the step leaves the others as they should be. *)
LEMMA CallersStay ==
  ASSUME StorageInv, NEW c \in Callers, NEW step, NEW k, Goes(c, step, k), OtherScansStay(c),
         IsPlain(step, k), step \in Scanning /\ ~dirty'[c] => ListsAgree(k)'
  PROVE  /\ pc' = [x \in Callers |-> pc'[x]] /\ cur' = [x \in Callers |-> cur'[x]]
         /\ \A x \in Callers : CallerOK(x)'
  <1>1. /\ pc' = [x \in Callers |-> IF x = c THEN step ELSE pc[x]]
        /\ cur' = [x \in Callers |-> IF x = c THEN k ELSE cur[x]]
    BY DEF StorageInv, Goes
  <1>2. pc'[c] = step /\ cur'[c] = k
    BY <1>1
  <1>3. CallerOK(c)'
    <2>1. IsPlain(step, k)'
      OBVIOUS
    <2> QED
      BY <1>2, <2>1 DEF CallerOK
  <1>4. ASSUME NEW x \in Callers \ {c} PROVE CallerOK(x)'
    <2>1. pc'[x] = pc[x] /\ cur'[x] = cur[x] /\ CallerOK(x)
      BY <1>1 DEF StorageInv
    <2> QED
      BY <2>1, CallerStays DEF OtherScansStay
  <1> QED
    BY <1>1, <1>3, <1>4

\* The caller goes on to a step that is not part of a scan.
GoesPlainly(c) == \E step, k : Goes(c, step, k) /\ IsPlain(step, k) /\ step \notin Scanning

(* A step that changes neither blobs nor rows keeps the invariant. *)
LEMMA NothingChanges ==
  ASSUME StorageInv, NEW c \in Callers, GoesPlainly(c), UNCHANGED <<blob, rows, fresh, dirty>>
  PROVE  StorageInv'
  <1>1. PICK step, k : Goes(c, step, k) /\ IsPlain(step, k) /\ step \notin Scanning
    BY DEF GoesPlainly
  <1>2. OtherScansStay(c)
    BY DEF OtherScansStay, SameKinds
  <1>3. /\ pc' = [x \in Callers |-> pc'[x]] /\ cur' = [x \in Callers |-> cur'[x]]
        /\ \A x \in Callers : CallerOK(x)'
    BY <1>1, <1>2, CallersStay
  <1>4. ASSUME NEW u \in Users, fresh'[u], NEW n \in Names PROVE Repairs(u, n, {})'
    <2>1. Repairs(u, n, {})
      BY <1>4 DEF StorageInv
    <2> QED
      BY <2>1, RepairsStays
  <1>5. IndexTypeOK'
    BY DEF StorageInv, IndexTypeOK
  <1> QED
    BY <1>3, <1>4, <1>5 DEF StorageInv

\* Only what u has is changed, and the scans under way are disturbed.
ChangesOnly(c, u) ==
  /\ Changes(c, u)
  /\ IndexTypeOK'
  /\ \A v \in Users \ {u} : blob'[v] = blob[v] /\ rows'[v] = rows[v]

(* A step that changes what one user has keeps it: nothing vouches for that user's *)
(* rows any more, and the scans under way are disturbed.                           *)
LEMMA ChangeStep ==
  ASSUME StorageInv, NEW c \in Callers, GoesPlainly(c), NEW u \in Users, ChangesOnly(c, u)
  PROVE  StorageInv'
  <1>1. PICK step, k : Goes(c, step, k) /\ IsPlain(step, k) /\ step \notin Scanning
    BY DEF GoesPlainly
  <1>2. /\ dirty' = [x \in Callers |-> dirty[x] \/ x \in Reading \ {c}]
        /\ fresh' = [v \in Users |-> IF v = u THEN FALSE ELSE fresh[v]]
    BY DEF ChangesOnly, Changes, StorageInv
  <1>3. OtherScansStay(c)
    BY <1>2, Zenon DEF OtherScansStay, Reading, Scanning
  <1>4. /\ pc' = [x \in Callers |-> pc'[x]] /\ cur' = [x \in Callers |-> cur'[x]]
        /\ \A x \in Callers : CallerOK(x)'
    BY <1>1, <1>3, CallersStay
  <1>5. ASSUME NEW v \in Users, fresh'[v], NEW n \in Names PROVE Repairs(v, n, {})'
    <2>1. v # u /\ fresh[v]
      BY <1>2, <1>5
    <2>2. Repairs(v, n, {}) /\ blob'[v] = blob[v] /\ rows'[v] = rows[v]
      BY <2>1 DEF StorageInv, ChangesOnly
    <2> QED
      BY <2>2, RepairsStays
  <1>6. dirty' = [x \in Callers |-> dirty'[x]] /\ fresh' = [v \in Users |-> fresh'[v]]
    BY <1>2
  <1>7. IndexTypeOK'
    BY DEF ChangesOnly
  <1> QED
    BY <1>4, <1>5, <1>6, <1>7 DEF StorageInv

-----------------------------------------------------------------------------
(* Where operations go on *)

(* What an upload or a deletion is called with are names. *)
LEMMA BatchFacts ==
  /\ \A batch \in Batches : batch \in Seq(Names)
  /\ Files \subseteq Names /\ Folders \subseteq Names
  /\ \A f \in Folders : InitOf(f) \in Names
  /\ FileMoves \subseteq Names \X Names /\ Renames \subseteq Names \X Names
  <1>1. Files \subseteq Names /\ Folders \subseteq Names
    BY StorageAssumption
  <1>2. \A batch \in Batches : batch \in Seq(Files)
    BY StorageAssumption
  <1>3. \A batch \in Batches : batch \in Seq(Names)
    BY <1>1, <1>2
  <1>4. \A f \in Folders : InitOf(f) \in Names
    BY StorageAssumption DEF InitOf
  <1>5. FileMoves \subseteq Names \X Names /\ Renames \subseteq Names \X Names
    BY StorageAssumption
  <1> QED
    BY <1>1, <1>3, <1>4, <1>5

(* An operation goes on with its statements, or with the scan. *)
LEMMA ToRows ==
  ASSUME NEW c, NEW k, k.user \in Accounts, k.todo \in Seq(Statement), GoesToRows(c, k)
  PROVE  GoesPlainly(c)
  <1> DEFINE step == IF k.todo = <<>> THEN "user" ELSE "rows"
             note == [Nothing EXCEPT !.user = k.user, !.todo = k.todo]
  <1>1. Goes(c, step, note)
    BY DEF GoesToRows
  <1>2. IsNote(note) /\ note.user = k.user /\ note.todo = k.todo /\ note.one
        /\ note.left = <<>> /\ note.stale = <<>> /\ note.seen = {}
    BY RangeFacts DEF IsNote, Nothing, NoteFields
  <1>3. step \in {"user", "rows"} /\ (step = "user" => k.todo = <<>>) /\ (step = "rows" => k.todo # <<>>)
    OBVIOUS
  <1> HIDE DEF step, note
  <1>4. IsPlain(step, note) /\ step \notin Scanning
    BY <1>2, <1>3 DEF IsPlain, Operating, Scanning
  <1> QED
    BY <1>1, <1>4 DEF GoesPlainly

(* The provider goes on with the next name, or with the statements. *)
LEMMA ToWork ==
  ASSUME NEW c, NEW k, IsNote(k), k.user \in Accounts, NEW more \in {"put", "delete", "folder"},
         GoesToWork(c, more, k)
  PROVE  GoesPlainly(c)
  <1>1. CASE k.work = <<>>
    <2>1. GoesToRows(c, k)
      BY <1>1 DEF GoesToWork
    <2> QED
      BY <2>1, ToRows DEF IsNote
  <1>2. CASE k.work # <<>>
    <2>1. Goes(c, more, k)
      BY <1>2 DEF GoesToWork
    <2>2. IsPlain(more, k) /\ more \notin Scanning
      BY <1>2 DEF IsPlain, Operating, Scanning
    <2> QED
      BY <2>1, <2>2 DEF GoesPlainly
  <1> QED
    BY <1>1, <1>2

(* A caller that ends is idle. *)
LEMMA ToEnd ==
  ASSUME NEW c, Ends(c)
  PROVE  GoesPlainly(c)
  <1>1. IsPlain("idle", Nothing) /\ "idle" \notin Scanning
    BY NothingIsPlain DEF Operating, Scanning
  <1> QED
    BY <1>1 DEF GoesPlainly, Ends

(* The statements for an entry that is renamed are well formed (_update_cache_entry). *)
LEMMA EntryMovedFacts ==
  ASSUME NEW k, IsNote(k), k.user \in Accounts, k.rows \in [Names -> IndexRow], NEW n \in Names,
         NEW properties \in BOOLEAN
  PROVE  EntryMoved(k, n, properties) \in Seq(Statement)
  <1> DEFINE entry == k.rows[n]
             new == Renamed(n, k.from, k.to)
             row == [entry EXCEPT !.kind = IF properties THEN "file" ELSE entry.kind]
  <1>1. n \in Seq(Segments) /\ new \in Seq(Segments)
    BY NameFacts, RenamedIsName DEF IsNote
  <1>2. entry \in IndexRow
    OBVIOUS
  <1>3. row \in IndexRow
    BY <1>2 DEF IndexRow, Kinds
  <1>4. Delete(k.user, n) \in Statement /\ Upsert(k.user, new, row) \in Statement
    BY <1>1, <1>3, StatementFacts
  <1> DEFINE s == <<Delete(k.user, n)>>
             t == <<Upsert(k.user, new, row)>>
  <1>5. s \in Seq(Statement) /\ t \in Seq(Statement) /\ <<>> \in Seq(Statement)
    BY <1>4, RangeFacts
  <1>6. EntryMoved(k, n, properties) = s \o IF entry.kind = "none" THEN <<>> ELSE t
    BY DEF EntryMoved
  <1> HIDE DEF s, t
  <1> QED
    BY <1>5, <1>6

(* So are those for the entries that are left when the provider is done. *)
LEMMA EntriesLeftFacts ==
  ASSUME NEW k, IsNote(k), k.user \in Accounts, k.rows \in [Names -> IndexRow]
  PROVE  EntriesLeft(k) \in Seq(Statement)
  <1> DEFINE processed == {w.name : w \in {x \in Range(k.todo) : x.do = "delete"}}
             T == {n \in Names \ processed : IsPrefix(k.from, n) /\ k.rows[n].kind # "none"}
             left == Only(NameList, T)
             entries == [i \in 1 .. Len(left) |-> EntryMoved(k, left[i], FALSE)]
  <1>1. EntriesLeft(k) = OneAfterOther(entries)
    BY DEF EntriesLeft
  <1>2. left \in Seq(Names)
    <2> HIDE DEF T
    <2> QED
      BY StorageAssumption, OnlyFacts
  <1> HIDE DEF left
  <1>3. \A i \in 1 .. Len(left) : EntryMoved(k, left[i], FALSE) \in Seq(Statement)
    <2> TAKE i \in 1 .. Len(left)
    <2>1. left[i] \in Names
      BY <1>2
    <2> QED
      BY <2>1, EntryMovedFacts
  <1>4. entries \in Seq(Seq(Statement))
    <2>1. Len(left) \in Nat
      BY <1>2
    <2> DEFINE S == Seq(Statement)
    <2>2. entries \in [1 .. Len(left) -> S]
      BY <1>3
    <2> HIDE DEF S, entries
    <2>3. entries \in Seq(S)
      BY <2>1, <2>2, IsASeq
    <2> QED
      BY <2>3 DEF S
  <1> HIDE DEF entries
  <1> QED
    BY <1>1, <1>4, OneAfterOtherFacts

(* A rename goes on with the next name, or with the statements. *)
LEMMA ToRename ==
  ASSUME NEW c, NEW k, IsNote(k), k.user \in Accounts, k.rows \in [Names -> IndexRow], RenameGoesOn(c, k)
  PROVE  GoesPlainly(c)
  <1>1. CASE k.work # <<>>
    <2>1. Goes(c, "rename", k)
      BY <1>1 DEF RenameGoesOn
    <2>2. IsPlain("rename", k) /\ "rename" \notin Scanning
      BY <1>1 DEF IsPlain, Operating, Scanning
    <2> QED
      BY <2>1, <2>2 DEF GoesPlainly
  <1>2. CASE k.work = <<>>
    <2> DEFINE todo == IF k.op = "rename folder" THEN k.todo \o EntriesLeft(k) ELSE k.todo
               j == [k EXCEPT !.todo = todo]
    <2>1. GoesToRows(c, j)
      BY <1>2 DEF RenameGoesOn
    <2>2. todo \in Seq(Statement)
      <3>1. k.todo \in Seq(Statement) /\ EntriesLeft(k) \in Seq(Statement)
        BY EntriesLeftFacts DEF IsNote
      <3>2. k.todo \o EntriesLeft(k) \in Seq(Statement)
        BY <3>1, ConcatProperties
      <3> QED
        BY <3>1, <3>2
    <2>3. j.user = k.user /\ j.todo = todo
      BY DEF IsNote, NoteFields
    <2> HIDE DEF j, todo
    <2> QED
      BY <2>1, <2>2, <2>3, ToRows
  <1> QED
    BY <1>1, <1>2

(* The names that are still to be renamed are names of blobs. *)
LEMMA NextNameFacts ==
  ASSUME NEW k, IsNote(k), k.work # <<>>
  PROVE  /\ IsNote(NextName(k)) /\ NextName(k).user = k.user /\ NextName(k).rows = k.rows
         /\ NextName(k).op = k.op
  <1> DEFINE inside == {n \in Names : Inside(n, k.from)}
             there == {n \in Names : blob[k.user][n] # "none"}
             names == IF Head(k.work) = k.from /\ k.op = "rename folder" THEN Only(Blobs(k.user), inside)
                     ELSE Tail(k.work)
  <1>1. Blobs(k.user) \in Seq(Names)
    <2>1. Blobs(k.user) = Only(NameList, there)
      BY DEF Blobs
    <2> HIDE DEF there
    <2> QED
      BY <2>1, StorageAssumption, OnlyFacts
  <1>2. Only(Blobs(k.user), inside) \in Seq(Names)
    <2> HIDE DEF inside
    <2> QED
      BY <1>1, OnlyFacts
  <1>3. names \in Seq(Names)
    BY <1>2, HeadAndTail DEF IsNote
  <1>4. NextName(k) = [k EXCEPT !.work = names]
    BY DEF NextName
  <1> HIDE DEF names
  <1> QED
    BY <1>3, <1>4 DEF IsNote, NoteFields

-----------------------------------------------------------------------------
(* What operations change *)

(* A statement leaves rows that are well formed; an upsert and a deletion change the *)
(* row of one name.                                                                  *)
LEMMA WrittenFacts ==
  ASSUME NEW rs \in [Names -> IndexRow], NEW w \in Statement
  PROVE  /\ Written(rs, w) \in [Names -> IndexRow]
         /\ w.do = "upsert" => Written(rs, w) = [rs EXCEPT ![w.name] = w.row]
         /\ w.do = "delete" => Written(rs, w) = [rs EXCEPT ![w.name] = NoRow]
  <1>1. /\ w.do \in {"upsert", "delete", "delete folder"} /\ w.row \in IndexRow
        /\ NoRow \in IndexRow
    BY DEF Statement, NoRow, IndexRow, Kinds
  <1>2. CASE w.do = "upsert"
    BY <1>1, <1>2 DEF Written, UpsertRows
  <1>3. CASE w.do = "delete"
    BY <1>1, <1>3 DEF Written, DeleteRows
  <1>4. CASE w.do = "delete folder"
    BY <1>1, <1>4 DEF Written, DeleteFolderRows
  <1> QED
    BY <1>1, <1>2, <1>3, <1>4

(* A blob written changes what its owner has. *)
LEMMA BlobWritten ==
  ASSUME IndexTypeOK, NEW c, NEW u \in Users, NEW n, NEW kind \in Kinds, Changes(c, u),
         blob' = [blob EXCEPT ![u][n] = kind], UNCHANGED rows
  PROVE  ChangesOnly(c, u)
  <1>1. blob' \in [Users -> [Names -> Kinds]] /\ \A v \in Users \ {u} : blob'[v] = blob[v]
    BY DEF IndexTypeOK
  <1> QED
    BY <1>1 DEF ChangesOnly, IndexTypeOK

(* A statement changes the rows of one user, who has an account. *)
LEMMA RowsKept ==
  ASSUME IndexTypeOK, NEW u \in Accounts, NEW w \in Statement,
         rows' = [rows EXCEPT ![u] = Written(@, w)], UNCHANGED blob
  PROVE  IndexTypeOK' /\ \A v \in Users \ {u} : rows'[v] = rows[v]
  <1>1. u \in Users /\ Written(rows[u], w) \in [Names -> IndexRow]
    BY WrittenFacts, StorageAssumption DEF IndexTypeOK
  <1> DEFINE new == Written(rows[u], w)
  <1>2. rows' = [rows EXCEPT ![u] = new]
    OBVIOUS
  <1> HIDE DEF new
  <1>3. rows' \in [Users -> [Names -> IndexRow]] /\ \A v \in Users \ {u} : rows'[v] = rows[v]
    BY <1>1, <1>2 DEF IndexTypeOK, new
  <1>4. \A v \in Users \ Accounts, n \in Names : rows'[v][n] = NoRow
    BY <1>3 DEF IndexTypeOK
  <1> QED
    BY <1>3, <1>4 DEF IndexTypeOK

(* A statement of an operation changes what its user has. *)
LEMMA RowsWritten ==
  ASSUME IndexTypeOK, NEW c, NEW u \in Accounts, NEW w \in Statement, Changes(c, u),
         rows' = [rows EXCEPT ![u] = Written(@, w)], UNCHANGED blob
  PROVE  ChangesOnly(c, u)
  BY RowsKept DEF ChangesOnly

(* What the invariant says of a caller that works on the blobs. *)
LEMMA WorkerFacts ==
  ASSUME StorageInv, NEW c \in Callers
  PROVE  /\ IsPlain(pc[c], cur[c]) /\ IsNote(cur[c]) /\ IndexTypeOK
         /\ pc[c] \in Operating => /\ cur[c].user \in Accounts /\ cur[c].user \in Users
                                 /\ cur[c].work # <<>>
                                 /\ Head(cur[c].work) \in Names /\ Tail(cur[c].work) \in Seq(Names)
                                 /\ Head(cur[c].work) \in Seq(Segments)
  <1>1. IsPlain(pc[c], cur[c]) /\ IsNote(cur[c]) /\ IndexTypeOK
    BY DEF StorageInv, CallerOK, IsPlain
  <1>2. ASSUME pc[c] \in Operating
        PROVE  /\ cur[c].user \in Accounts /\ cur[c].user \in Users /\ cur[c].work # <<>>
               /\ Head(cur[c].work) \in Names /\ Tail(cur[c].work) \in Seq(Names)
               /\ Head(cur[c].work) \in Seq(Segments)
    <2>1. cur[c].user \in Accounts /\ cur[c].work # <<>> /\ cur[c].work \in Seq(Names)
      BY <1>1, <1>2 DEF IsPlain, IsNote
    <2>2. Head(cur[c].work) \in Names /\ Tail(cur[c].work) \in Seq(Names)
      BY <2>1, HeadAndTail
    <2> QED
      BY <2>1, <2>2, NameFacts, StorageAssumption
  <1> QED
    BY <1>1, <1>2

(* A statement noted for later. *)
LEMMA AppendedStatement ==
  ASSUME NEW k, IsNote(k), NEW w \in Statement
  PROVE  Append(k.todo, w) \in Seq(Statement)
  BY DEF IsNote

-----------------------------------------------------------------------------
(* upload_files, delete_files and delete_folder *)

(* upload_files and delete_files begin. *)
LEMMA UploadStep ==
  ASSUME StorageInv, NEW c \in Callers, NEW u \in Accounts, NEW files \in Batches,
         Upload(c, u, files) \/ DeleteFiles(c, u, files)
  PROVE  StorageInv'
  <1> DEFINE k(op) == [Nothing EXCEPT !.op = op, !.user = u, !.work = files]
  <1>1. GoesToWork(c, "put", k("upload")) \/ GoesToWork(c, "delete", k("delete"))
    BY DEF Upload, DeleteFiles
  <1>2. \A op : IsNote(k(op)) /\ k(op).user = u
    BY RangeFacts, BatchFacts DEF IsNote, Nothing, NoteFields
  <1> HIDE DEF k
  <1>3. GoesPlainly(c)
    <2>1. CASE GoesToWork(c, "put", k("upload"))
      BY <1>2, <2>1, ToWork
    <2>2. CASE GoesToWork(c, "delete", k("delete"))
      BY <1>2, <2>2, ToWork
    <2> QED
      BY <1>1, <2>1, <2>2
  <1>4. UNCHANGED <<blob, rows, fresh, dirty>>
    BY DEF Upload, DeleteFiles, StartsCall
  <1> QED
    BY <1>3, <1>4, NothingChanges

(* A file is uploaded. *)
LEMMA PutBlobStep ==
  ASSUME StorageInv, NEW c \in Callers, PutBlob(c)
  PROVE  StorageInv'
  <1> DEFINE k == cur[c]
             n == Head(k.work)
             w == Upsert(k.user, n, FileRow(FALSE))
             j == [k EXCEPT !.work = Tail(k.work), !.todo = Append(k.todo, w)]
  <1>1. /\ pc[c] \in Operating /\ Changes(c, k.user) /\ UNCHANGED rows
        /\ blob' = [blob EXCEPT ![k.user][n] = "file"] /\ GoesToWork(c, "put", j)
    BY DEF PutBlob, AtStep, Operating
  <1>2. /\ IsNote(k) /\ IndexTypeOK /\ k.user \in Accounts /\ k.user \in Users
        /\ Tail(k.work) \in Seq(Names) /\ n \in Seq(Segments)
    BY <1>1, WorkerFacts
  <1>3. w \in Statement
    BY <1>2, StatementFacts
  <1>4. Append(k.todo, w) \in Seq(Statement)
    BY <1>2, <1>3, AppendedStatement
  <1>5. IsNote(j) /\ j.user = k.user
    BY <1>2, <1>4 DEF IsNote, NoteFields
  <1> HIDE DEF j
  <1>6. GoesPlainly(c)
    BY <1>1, <1>2, <1>5, ToWork
  <1>7. ChangesOnly(c, k.user)
    BY <1>1, <1>2, BlobWritten DEF Kinds
  <1> QED
    BY <1>2, <1>6, <1>7, ChangeStep

(* delete_folder begins with the names it has listed. *)
LEMMA DeleteFolderCallStep ==
  ASSUME StorageInv, NEW c \in Callers, NEW u \in Accounts, NEW folder \in Folders,
         DeleteFolderCall(c, u, folder)
  PROVE  StorageInv'
  <1> DEFINE T == {n \in Names : StartsWith(n, folder)}
             there == {n \in Names : blob[u][n] # "none"}
             names == Only(Blobs(u), T)
             k == [Nothing EXCEPT !.op = "delete folder", !.user = u, !.work = names, !.to = folder]
             w == DeleteFolder(u, folder)
  <1>1. IF k.work = <<>> THEN GoesToRows(c, [k EXCEPT !.todo = <<w>>]) ELSE Goes(c, "delete", k)
    BY DEF DeleteFolderCall
  <1>2. names \in Seq(Names)
    <2>1. Blobs(u) = Only(NameList, there)
      BY DEF Blobs
    <2> HIDE DEF there, T
    <2>2. Blobs(u) \in Seq(Names)
      BY <2>1, StorageAssumption, OnlyFacts
    <2> QED
      BY <2>2, OnlyFacts
  <1>3. folder \in Seq(Segments)
    BY BatchFacts, NameFacts
  <1>4. <<w>> \in Seq(Statement)
    BY <1>3, StatementFacts, RangeFacts
  <1>5. IsNote(k) /\ k.user = u
    BY <1>2, <1>3, RangeFacts DEF IsNote, Nothing, NoteFields
  <1>6. [k EXCEPT !.todo = <<w>>].user = u /\ [k EXCEPT !.todo = <<w>>].todo = <<w>>
    BY <1>5 DEF IsNote, NoteFields
  <1> HIDE DEF k, w
  <1>7. CASE k.work = <<>>
    <2>1. GoesToRows(c, [k EXCEPT !.todo = <<w>>])
      BY <1>1, <1>7
    <2>2. GoesPlainly(c)
      BY <1>4, <1>6, <2>1, ToRows
    <2> QED
      BY <2>2, NothingChanges DEF DeleteFolderCall, StartsCall
  <1>8. CASE k.work # <<>>
    <2>1. Goes(c, "delete", k)
      BY <1>1, <1>8
    <2>2. IsPlain("delete", k) /\ "delete" \notin Scanning
      BY <1>5, <1>8 DEF IsPlain, Operating, Scanning
    <2>3. GoesPlainly(c)
      BY <2>1, <2>2 DEF GoesPlainly
    <2> QED
      BY <2>3, NothingChanges DEF DeleteFolderCall, StartsCall
  <1> QED
    BY <1>7, <1>8

(* After a deletion the names left are one fewer. *)
LEMMA AfterDeleteFacts ==
  ASSUME NEW k, IsNote(k), k.user \in Accounts, k.work # <<>>, NEW deleted \in BOOLEAN
  PROVE  IsNote(AfterDelete(k, deleted)) /\ AfterDelete(k, deleted).user = k.user
  <1> DEFINE one == Delete(k.user, Head(k.work))
             last == DeleteFolder(k.user, k.to)
             todo == IF deleted THEN Append(k.todo, one) ELSE k.todo
             all == IF Len(k.work) = 1 /\ k.op = "delete folder" THEN Append(todo, last) ELSE todo
  <1>1. Head(k.work) \in Seq(Segments) /\ Tail(k.work) \in Seq(Names) /\ k.to \in Seq(Segments)
    BY HeadAndTail, NameFacts DEF IsNote
  <1>2. one \in Statement /\ last \in Statement /\ k.todo \in Seq(Statement)
    BY <1>1, StatementFacts DEF IsNote
  <1>3. AfterDelete(k, deleted) = [k EXCEPT !.work = Tail(k.work), !.todo = all]
    BY DEF AfterDelete
  <1> HIDE DEF one, last
  <1>4. todo \in Seq(Statement)
    BY <1>2
  <1> HIDE DEF todo
  <1>a. Append(todo, last) \in Seq(Statement)
    BY <1>2, <1>4
  <1>5. all \in Seq(Statement)
    BY <1>4, <1>a
  <1> HIDE DEF all
  <1> QED
    BY <1>1, <1>3, <1>5 DEF IsNote, NoteFields

(* A blob is deleted. *)
LEMMA DeleteBlobStep ==
  ASSUME StorageInv, NEW c \in Callers, DeleteBlob(c)
  PROVE  StorageInv'
  <1> DEFINE k == cur[c]
             n == Head(k.work)
             there == blob[k.user][n] # "none"
  <1>1. /\ pc[c] \in Operating /\ UNCHANGED rows
        /\ blob' = [blob EXCEPT ![k.user][n] = "none"]
        /\ IF there THEN Changes(c, k.user) ELSE UNCHANGED <<fresh, dirty>>
        /\ GoesToWork(c, "delete", AfterDelete(k, there))
    BY DEF DeleteBlob, AtStep, Operating
  <1>2. /\ IsNote(k) /\ IndexTypeOK /\ k.user \in Accounts /\ k.user \in Users
        /\ k.work # <<>> /\ n \in Names
    BY <1>1, WorkerFacts
  <1>3. GoesPlainly(c)
    <2> DEFINE j == AfterDelete(k, there)
    <2>1. IsNote(j) /\ j.user = k.user
      BY <1>2, AfterDeleteFacts
    <2> HIDE DEF j
    <2> QED
      BY <1>1, <1>2, <2>1, ToWork DEF j
  <1>4. CASE there
    <2>1. ChangesOnly(c, k.user)
      BY <1>1, <1>2, <1>4, BlobWritten DEF Kinds
    <2> QED
      BY <1>2, <1>3, <2>1, ChangeStep
  <1>5. CASE ~there
    <2>1. blob' = blob
      BY <1>1, <1>2, <1>5 DEF IndexTypeOK
    <2> QED
      BY <1>1, <1>3, <1>5, <2>1, NothingChanges
  <1> QED
    BY <1>4, <1>5

(* An upload or a deletion fails and the next blob is taken. *)
LEMMA BlobFailsStep ==
  ASSUME StorageInv, NEW c \in Callers, BlobFails(c)
  PROVE  StorageInv'
  <1> DEFINE k == cur[c]
             j == [k EXCEPT !.work = Tail(k.work)]
  <1>1. /\ pc[c] \in Operating /\ UNCHANGED <<blob, rows, fresh, dirty>>
        /\ GoesToWork(c, "put", j) \/ GoesToWork(c, "delete", AfterDelete(k, FALSE))
    BY DEF BlobFails, Fails, Disturbs, Operating
  <1>2. /\ IsNote(k) /\ IndexTypeOK /\ k.user \in Accounts /\ k.work # <<>> /\ Tail(k.work) \in Seq(Names)
    BY <1>1, WorkerFacts
  <1>3. IsNote(j) /\ j.user = k.user
    BY <1>2 DEF IsNote, NoteFields
  <1>4. IsNote(AfterDelete(k, FALSE)) /\ AfterDelete(k, FALSE).user = k.user
    BY <1>2, AfterDeleteFacts
  <1> HIDE DEF j
  <1>5. GoesPlainly(c)
    <2> DEFINE d == AfterDelete(k, FALSE)
    <2> HIDE DEF d
    <2>1. CASE GoesToWork(c, "put", j)
      BY <1>2, <1>3, <2>1, ToWork
    <2>2. CASE GoesToWork(c, "delete", d)
      BY <1>2, <1>4, <2>2, ToWork DEF d
    <2> QED
      BY <1>1, <2>1, <2>2 DEF d
  <1> QED
    BY <1>1, <1>5, NothingChanges

-----------------------------------------------------------------------------
(* create_folder, move_file and rename_file *)

(* create_folder begins. *)
LEMMA CreateFolderStep ==
  ASSUME StorageInv, NEW c \in Callers, NEW u \in Accounts, NEW folder \in Folders,
         CreateFolder(c, u, folder)
  PROVE  StorageInv'
  <1> DEFINE names == <<folder, InitOf(folder)>>
             k == [Nothing EXCEPT !.op = "create", !.user = u, !.work = names]
  <1>1. Goes(c, "folder", k) /\ UNCHANGED <<blob, rows, fresh, dirty>>
    BY DEF CreateFolder, StartsCall
  <1>2. names \in Seq(Names) /\ names # <<>>
    <2>1. folder \in Names /\ InitOf(folder) \in Names
      BY BatchFacts
    <2> QED
      BY <2>1
  <1> HIDE DEF names
  <1>3. IsNote(k) /\ k.user = u /\ k.work = names
    BY <1>2, RangeFacts DEF IsNote, Nothing, NoteFields
  <1> HIDE DEF k
  <1>4. IsPlain("folder", k) /\ "folder" \notin Scanning
    BY <1>2, <1>3 DEF IsPlain, Operating, Scanning
  <1>5. GoesPlainly(c)
    BY <1>1, <1>4 DEF GoesPlainly
  <1> QED
    BY <1>1, <1>5, NothingChanges

(* The blob of a folder or its placeholder is written. *)
LEMMA PutFolderStep ==
  ASSUME StorageInv, NEW c \in Callers, PutFolder(c)
  PROVE  StorageInv'
  <1> DEFINE k == cur[c]
             n == Head(k.work)
             w == Upsert(k.user, n, FolderRow)
             todo == IF Len(k.work) = 2 THEN <<w>> ELSE k.todo
             j == [k EXCEPT !.work = Tail(k.work), !.todo = todo]
             kind == IF Len(k.work) = 2 THEN "folder" ELSE "file"
  <1>1. /\ pc[c] \in Operating /\ Changes(c, k.user) /\ UNCHANGED rows
        /\ blob' = [blob EXCEPT ![k.user][n] = kind] /\ GoesToWork(c, "folder", j)
    BY DEF PutFolder, AtStep, Operating
  <1>2. /\ IsNote(k) /\ IndexTypeOK /\ k.user \in Accounts /\ k.user \in Users
        /\ Tail(k.work) \in Seq(Names) /\ n \in Seq(Segments)
    BY <1>1, WorkerFacts
  <1>3. <<w>> \in Seq(Statement) /\ k.todo \in Seq(Statement)
    BY <1>2, StatementFacts, RangeFacts DEF IsNote
  <1>4. todo \in Seq(Statement)
    BY <1>3
  <1> HIDE DEF todo
  <1>5. IsNote(j) /\ j.user = k.user
    BY <1>2, <1>4 DEF IsNote, NoteFields
  <1> HIDE DEF j
  <1>6. GoesPlainly(c)
    BY <1>1, <1>2, <1>5, ToWork
  <1>7. kind \in Kinds
    BY DEF Kinds
  <1> HIDE DEF kind
  <1>8. ChangesOnly(c, k.user)
    BY <1>1, <1>2, <1>7, BlobWritten
  <1> QED
    BY <1>2, <1>6, <1>8, ChangeStep

(* create_folder or move_file returns with an error. *)
LEMMA EndsAtOnceStep ==
  ASSUME StorageInv, NEW c \in Callers, EndsAtOnce(c)
  PROVE  StorageInv'
  <1>1. Ends(c) /\ UNCHANGED <<blob, rows, fresh, dirty>>
    BY DEF EndsAtOnce, Disturbs
  <1> QED
    BY <1>1, ToEnd, NothingChanges

(* move_file or rename_file begins. *)
LEMMA MoveStep ==
  ASSUME StorageInv, NEW c \in Callers, NEW u \in Accounts, NEW src \in Names, NEW dst \in Names,
         Move(c, u, src, dst) \/ Rename(c, u, src, dst)
  PROVE  StorageInv'
  <1> DEFINE k(op) == [Nothing EXCEPT !.op = op, !.user = u, !.work = <<src>>, !.from = src, !.to = dst]
  <1>1. Goes(c, "copy", k("move")) \/ Goes(c, "look up", k("rename"))
    BY DEF Move, Rename
  <1>2. /\ <<src>> \in Seq(Names) /\ <<src>> # <<>>
        /\ src \in Seq(Segments) /\ dst \in Seq(Segments)
    BY NameFacts, RangeFacts
  <1>3. \A op : IsNote(k(op)) /\ k(op).user = u /\ k(op).op = op /\ k(op).work = <<src>>
    BY <1>2, RangeFacts DEF IsNote, Nothing, NoteFields
  <1> HIDE DEF k
  <1>4. /\ IsPlain("copy", k("move")) /\ "copy" \notin Scanning
        /\ IsPlain("look up", k("rename")) /\ "look up" \notin Scanning
    <2>1. ASSUME NEW j, IsNote(j), j.user = u, j.work = <<src>>
          PROVE  (j.op = "move" => IsPlain("copy", j)) /\ IsPlain("look up", j)
      BY <1>2, <2>1 DEF IsPlain, Operating, Scanning
    <2> QED
      BY <1>3, <2>1 DEF Scanning
  <1>5. GoesPlainly(c)
    BY <1>1, <1>4 DEF GoesPlainly
  <1>6. UNCHANGED <<blob, rows, fresh, dirty>>
    BY DEF Move, Rename, StartsCall
  <1> QED
    BY <1>5, <1>6, NothingChanges

(* rename_file lists the rows of the user. *)
LEMMA LookUpStep ==
  ASSUME StorageInv, NEW c \in Callers, LookUp(c)
  PROVE  StorageInv'
  <1> DEFINE k == cur[c]
             listed == Listed(rows[k.user])
             isFolder == \/ listed[k.from].kind = "folder"
                         \/ \E n \in Names : Inside(n, k.from) /\ listed[n].kind # "none"
             op == IF isFolder THEN "rename folder" ELSE "rename"
             step == IF isFolder THEN "target" ELSE "rename"
             j == [k EXCEPT !.rows = listed, !.op = op]
  <1>1. pc[c] \in Operating /\ Goes(c, step, j) /\ UNCHANGED <<blob, rows, fresh, dirty>>
    BY DEF LookUp, AtStep, Operating, history
  <1>2. IsNote(k) /\ IndexTypeOK /\ k.user \in Accounts /\ k.user \in Users /\ k.work # <<>>
    BY <1>1, WorkerFacts
  <1>3. listed \in [Names -> IndexRow]
    <2>1. rows[k.user] \in [Names -> IndexRow]
      BY <1>2 DEF IndexTypeOK
    <2>2. \A r \in IndexRow : [r EXCEPT !.reported = FALSE] \in IndexRow
      BY DEF IndexRow
    <2> QED
      BY <2>1, <2>2 DEF Listed
  <1>4. step \in {"target", "rename"}
    OBVIOUS
  <1> HIDE DEF step, op, listed
  <1>5. IsNote(j) /\ j.user = k.user /\ j.work = k.work /\ j.rows = listed
    BY <1>2 DEF IsNote, NoteFields
  <1> HIDE DEF j
  <1>6. IsPlain(step, j) /\ step \notin Scanning
    BY <1>2, <1>3, <1>4, <1>5 DEF IsPlain, Operating, Scanning
  <1>7. GoesPlainly(c)
    BY <1>1, <1>6 DEF GoesPlainly
  <1> QED
    BY <1>1, <1>7, NothingChanges

(* What the invariant says of a caller that renames. *)
LEMMA RenamerFacts ==
  ASSUME StorageInv, NEW c \in Callers, pc[c] \in {"target", "rename", "copy", "unlink"},
         pc[c] \in {"target", "rename"} \/ cur[c].op # "move"
  PROVE  cur[c].rows \in [Names -> IndexRow]
  BY WorkerFacts DEF IsPlain

(* rename_folder looks at the target. *)
LEMMA CheckTargetStep ==
  ASSUME StorageInv, NEW c \in Callers, CheckTarget(c)
  PROVE  StorageInv'
  <1> DEFINE k == cur[c]
             j == [k EXCEPT !.work = <<>>]
  <1>1. /\ pc[c] = "target" /\ UNCHANGED <<blob, rows, fresh, dirty>>
        /\ RenameGoesOn(c, j) \/ Goes(c, "rename", k)
    BY DEF CheckTarget, AtStep, Disturbs, history
  <1>2. IsNote(k) /\ k.user \in Accounts /\ k.work # <<>> /\ k.rows \in [Names -> IndexRow]
    BY <1>1, WorkerFacts, RenamerFacts DEF Operating
  <1>3. IsNote(j) /\ j.user = k.user /\ j.rows = k.rows
    BY <1>2, RangeFacts DEF IsNote, NoteFields
  <1> HIDE DEF j
  <1>4. IsPlain("rename", k) /\ "rename" \notin Scanning
    BY <1>2 DEF IsPlain, Operating, Scanning
  <1>5. GoesPlainly(c)
    <2>1. CASE RenameGoesOn(c, j)
      BY <1>2, <1>3, <2>1, ToRename
    <2>2. CASE Goes(c, "rename", k)
      BY <1>4, <2>2 DEF GoesPlainly
    <2> QED
      BY <1>1, <2>1, <2>2
  <1> QED
    BY <1>1, <1>5, NothingChanges

(* The next name, with statements for the last one. *)
LEMMA GoesOnRenaming ==
  ASSUME NEW c, NEW k, IsNote(k), k.user \in Accounts, k.rows \in [Names -> IndexRow], k.work # <<>>,
         \/ RenameGoesOn(c, NextName(k))
         \/ \E properties \in BOOLEAN :
              RenameGoesOn(c, NextName([k EXCEPT !.todo = k.todo \o EntryMoved(k, Head(k.work), properties)]))
  PROVE  GoesPlainly(c)
  <1>1. CASE RenameGoesOn(c, NextName(k))
    BY <1>1, NextNameFacts, ToRename
  <1>2. ASSUME NEW properties \in BOOLEAN,
               RenameGoesOn(c, NextName([k EXCEPT !.todo = k.todo \o EntryMoved(k, Head(k.work), properties)]))
        PROVE  GoesPlainly(c)
    <2> DEFINE new == EntryMoved(k, Head(k.work), properties)
               todo == k.todo \o new
               j == [k EXCEPT !.todo = todo]
    <2>1. new \in Seq(Statement)
      BY EntryMovedFacts, HeadAndTail DEF IsNote
    <2>2. k.todo \in Seq(Statement)
      BY DEF IsNote
    <2> HIDE DEF new
    <2>3. todo \in Seq(Statement)
      BY <2>1, <2>2
    <2> HIDE DEF todo
    <2>4. IsNote(j) /\ j.user = k.user /\ j.work = k.work /\ j.rows = k.rows
      BY <2>3 DEF IsNote, NoteFields
    <2>5. RenameGoesOn(c, NextName(j))
      BY <1>2 DEF todo, new
    <2> HIDE DEF j
    <2>6. IsNote(NextName(j)) /\ NextName(j).user = k.user /\ NextName(j).rows = k.rows
      BY <2>4, NextNameFacts
    <2> QED
      BY <2>5, <2>6, ToRename
  <1> QED
    BY <1>1, <1>2

(* rename_single looks at both names. *)
LEMMA RenameCheckStep ==
  ASSUME StorageInv, NEW c \in Callers, RenameCheck(c)
  PROVE  StorageInv'
  <1> DEFINE k == cur[c]
             n == Head(k.work)
  <1>1. /\ pc[c] = "rename" /\ UNCHANGED <<blob, rows, fresh, dirty>>
        /\ \/ RenameGoesOn(c, NextName([k EXCEPT !.todo = k.todo \o EntryMoved(k, n, FALSE)]))
           \/ RenameGoesOn(c, NextName(k))
           \/ Goes(c, "copy", k)
    BY DEF RenameCheck, AtStep, history
  <1>2. IsNote(k) /\ k.user \in Accounts /\ k.work # <<>> /\ k.rows \in [Names -> IndexRow]
    BY <1>1, WorkerFacts, RenamerFacts DEF Operating
  <1>3. IsPlain("copy", k) /\ "copy" \notin Scanning
    BY <1>2 DEF IsPlain, Operating, Scanning
  <1>4. GoesPlainly(c)
    <2>1. CASE Goes(c, "copy", k)
      BY <1>3, <2>1 DEF GoesPlainly
    <2>2. CASE ~Goes(c, "copy", k)
      BY <1>1, <1>2, <2>2, GoesOnRenaming
    <2> QED
      BY <2>1, <2>2
  <1> QED
    BY <1>1, <1>4, NothingChanges

(* A blob is copied to its new name. *)
LEMMA CopyBlobStep ==
  ASSUME StorageInv, NEW c \in Callers, CopyBlob(c)
  PROVE  StorageInv'
  <1> DEFINE k == cur[c]
             n == Head(k.work)
             new == Renamed(n, k.from, k.to)
  <1>1. /\ pc[c] = "copy" /\ Changes(c, k.user) /\ UNCHANGED rows
        /\ blob' = [blob EXCEPT ![k.user][new] = blob[k.user][n]] /\ Goes(c, "unlink", k)
    BY DEF CopyBlob, AtStep
  <1>2. /\ IsPlain("copy", k) /\ IsNote(k) /\ IndexTypeOK /\ k.user \in Accounts /\ k.user \in Users
        /\ n \in Names /\ k.work # <<>>
    BY <1>1, WorkerFacts DEF Operating
  <1>3. blob[k.user][n] \in Kinds
    BY <1>2 DEF IndexTypeOK
  <1>4. ChangesOnly(c, k.user)
    <2> DEFINE kind == blob[k.user][n]
    <2>1. kind \in Kinds /\ blob' = [blob EXCEPT ![k.user][new] = kind]
      BY <1>1, <1>3
    <2> HIDE DEF kind, new
    <2> QED
      BY <1>1, <1>2, <2>1, BlobWritten
  <1>5. IsPlain("unlink", k) /\ "unlink" \notin Scanning
    BY <1>2 DEF IsPlain, Operating, Scanning
  <1>6. GoesPlainly(c)
    BY <1>1, <1>5 DEF GoesPlainly
  <1> QED
    BY <1>2, <1>4, <1>6, ChangeStep

(* A blob that has been copied is deleted under its old name. *)
LEMMA UnlinkBlobStep ==
  ASSUME StorageInv, NEW c \in Callers, UnlinkBlob(c)
  PROVE  StorageInv'
  <1> DEFINE k == cur[c]
             n == Head(k.work)
             new == Renamed(n, k.from, k.to)
             isMove == k.op = "move"
             w == Delete(k.user, n)
             v == Upsert(k.user, new, FileRow(FALSE))
             j == [k EXCEPT !.work = <<>>, !.todo = <<w, v>>]
  <1>1. /\ pc[c] = "unlink" /\ Changes(c, k.user) /\ UNCHANGED rows
        /\ blob' = [blob EXCEPT ![k.user][n] = "none"]
        /\ isMove => GoesToRows(c, j)
        /\ ~isMove => RenameGoesOn(c, NextName([k EXCEPT !.todo = k.todo \o EntryMoved(k, n, TRUE)]))
    BY DEF UnlinkBlob, AtStep
  <1>2. /\ IsNote(k) /\ IndexTypeOK /\ k.user \in Accounts /\ k.user \in Users
        /\ n \in Names /\ n \in Seq(Segments) /\ k.work # <<>>
        /\ ~isMove => k.rows \in [Names -> IndexRow]
    BY <1>1, WorkerFacts, RenamerFacts DEF Operating
  <1>3. ChangesOnly(c, k.user)
    BY <1>1, <1>2, BlobWritten DEF Kinds
  <1>4. GoesPlainly(c)
    <2>1. CASE isMove
      <3>1. new \in Seq(Segments)
        BY <1>2, RenamedIsName DEF IsNote
      <3>2. <<w, v>> \in Seq(Statement)
        <4>1. w \in Statement /\ v \in Statement
          BY <1>2, <3>1, StatementFacts
        <4> HIDE DEF w, v
        <4> QED
          BY <4>1, RangeFacts
      <3>3. j.user = k.user /\ j.todo = <<w, v>>
        BY <1>2 DEF IsNote, NoteFields
      <3> HIDE DEF j, w, v
      <3> QED
        BY <1>1, <1>2, <2>1, <3>2, <3>3, ToRows
    <2>2. CASE ~isMove
      <3>1. RenameGoesOn(c, NextName([k EXCEPT !.todo = k.todo \o EntryMoved(k, Head(k.work), TRUE)]))
        BY <1>1, <2>2
      <3> QED
        BY <1>2, <2>2, <3>1, GoesOnRenaming
    <2> QED
      BY <2>1, <2>2
  <1> QED
    BY <1>2, <1>3, <1>4, ChangeStep

(* A rename fails and the next name is taken. *)
LEMMA RenameFailsStep ==
  ASSUME StorageInv, NEW c \in Callers, RenameFails(c)
  PROVE  StorageInv'
  <1> DEFINE k == cur[c]
  <1>1. /\ pc[c] \in {"rename", "copy", "unlink"} /\ k.op # "move"
        /\ UNCHANGED <<blob, rows, fresh, dirty>> /\ RenameGoesOn(c, NextName(k))
    BY DEF RenameFails, Fails, AtStep, Disturbs
  <1>2. IsNote(k) /\ k.user \in Accounts /\ k.work # <<>> /\ k.rows \in [Names -> IndexRow]
    BY <1>1, WorkerFacts, RenamerFacts DEF Operating
  <1>3. GoesPlainly(c)
    BY <1>1, <1>2, GoesOnRenaming
  <1> QED
    BY <1>1, <1>3, NothingChanges

(* A statement of an operation runs or fails. *)
LEMMA WriteRowStep ==
  ASSUME StorageInv, NEW c \in Callers, WriteRow(c) \/ RowFails(c)
  PROVE  StorageInv'
  <1> DEFINE k == cur[c]
             w == Head(k.todo)
             j == [k EXCEPT !.todo = Tail(k.todo)]
  <1>1. pc[c] = "rows" /\ GoesToRows(c, j)
    BY DEF WriteRow, RowFails, AtStep, Fails
  <1>2. /\ IsNote(k) /\ IndexTypeOK /\ k.user \in Accounts /\ k.user \in Users
        /\ k.todo \in Seq(Statement) /\ k.todo # <<>>
    BY <1>1, WorkerFacts, StorageAssumption DEF IsPlain, IsNote
  <1>3. w \in Statement /\ Tail(k.todo) \in Seq(Statement)
    BY <1>2, HeadAndTail
  <1>4. j.user = k.user /\ j.todo = Tail(k.todo)
    BY <1>2 DEF IsNote, NoteFields
  <1> HIDE DEF j
  <1>5. GoesPlainly(c)
    BY <1>1, <1>2, <1>3, <1>4, ToRows
  <1>6. CASE WriteRow(c)
    <2>1. Changes(c, k.user) /\ UNCHANGED blob /\ rows' = [rows EXCEPT ![k.user] = Written(@, w)]
      BY <1>6 DEF WriteRow
    <2>2. ChangesOnly(c, k.user)
      BY <1>2, <1>3, <2>1, RowsWritten
    <2> QED
      BY <1>2, <1>5, <2>2, ChangeStep
  <1>7. CASE RowFails(c)
    <2>1. UNCHANGED <<blob, rows, fresh, dirty>>
      BY <1>7 DEF RowFails, Disturbs
    <2> QED
      BY <1>5, <2>1, NothingChanges
  <1> QED
    BY <1>6, <1>7

-----------------------------------------------------------------------------
(* Scans *)

(* A finite set as a sequence without repetition. *)
LEMMA SetToSeqFacts ==
  ASSUME NEW S, IsFiniteSet(S)
  PROVE  LET s == SetToSeq(S)
         IN  /\ s \in Seq(S) /\ (S # {} => s # <<>>) /\ Range(s) = S
             /\ \A i, j \in DOMAIN s : s[i] = s[j] => i = j
  <1> DEFINE n == Cardinality(S)
             s == SetToSeq(S)
  <1>1. n \in Nat /\ ExistsBijection(1 .. n, S)
    BY FS_CardinalityType
  <1>2. \E f \in [1 .. n -> S] : IsInjective(f)
    BY <1>1 DEF ExistsBijection, Bijection, Injection
  <1>3. s \in [1 .. n -> S] /\ IsInjective(s)
    BY <1>2 DEF SetToSeq
  <1>4. S # {} => n # 0
    BY FS_EmptySet
  <1> HIDE DEF n, s
  <1>5. s \in Seq(S) /\ DOMAIN s = 1 .. n
    BY <1>1, <1>3
  <1>6. S # {} => s # <<>>
    <2> SUFFICES ASSUME S # {}, s = <<>> PROVE FALSE
      OBVIOUS
    <2>1. 1 \in 1 .. n /\ DOMAIN s = {}
      BY <1>1, <1>4
    <2> QED
      BY <1>5, <2>1
  <1>7. \A i, j \in DOMAIN s : s[i] = s[j] => i = j
    BY <1>3 DEF IsInjective
  <1>8. ASSUME NEW x \in S, x \notin Range(s) PROVE FALSE
    <2> DEFINE rest == S \ {x}
    <2>1. s \in [1 .. n -> rest]
      BY <1>3, <1>5, <1>8 DEF Range
    <2>2. IsFiniteSet(rest) /\ Cardinality(rest) = n - 1
      BY FS_RemoveElement DEF n
    <2>3. IsFiniteSet(1 .. n) /\ Cardinality(1 .. n) = n
      BY <1>1, FS_Interval
    <2> HIDE DEF rest
    <2>4. Cardinality(rest) < Cardinality(1 .. n)
      BY <1>1, <2>2, <2>3
    <2>5. \E i, j \in 1 .. n : i # j /\ s[i] = s[j]
      BY <2>1, <2>2, <2>3, <2>4, FS_PigeonHole
    <2> QED
      BY <1>5, <1>7, <2>5
  <1>9. Range(s) = S
    BY <1>5, <1>8, RangeFacts
  <1> QED
    BY <1>5, <1>6, <1>7, <1>9 DEF s

(* Without its head, a sequence without repetition does not have the head again. *)
LEMMA TailDistinct ==
  ASSUME NEW S, NEW s \in Seq(S), s # <<>>, \A i, j \in DOMAIN s : s[i] = s[j] => i = j
  PROVE  LET t == Tail(s)
         IN  /\ \A i, j \in DOMAIN t : t[i] = t[j] => i = j
             /\ Head(s) \notin Range(t)
  <1> DEFINE t == Tail(s)
             n == Len(s)
  <1>1. /\ n \in Nat /\ n > 0 /\ DOMAIN s = 1 .. n /\ Head(s) = s[1]
        /\ DOMAIN t = 1 .. n - 1 /\ \A i \in 1 .. n - 1 : t[i] = s[i + 1]
    OBVIOUS
  <1> HIDE DEF t, n
  <1>2. 1 \in 1 .. n /\ \A i \in 1 .. n - 1 : i + 1 \in 1 .. n /\ i + 1 # 1
    BY <1>1
  <1>3. ASSUME NEW i \in 1 .. n - 1, NEW j \in 1 .. n - 1, t[i] = t[j] PROVE i = j
    <2>1. i + 1 = j + 1
      BY <1>1, <1>2, <1>3
    <2> QED
      BY <1>1, <2>1
  <1>4. ASSUME NEW i \in 1 .. n - 1, t[i] = Head(s) PROVE FALSE
    BY <1>1, <1>2, <1>4
  <1> QED
    BY <1>1, <1>3, <1>4 DEF Range, t

(* A scan goes on with what it has listed, or ends. *)
LEMMA ScanGoesOnFacts ==
  ASSUME NEW c, NEW k, IsNote(k), IsListing(k), ScanGoesOn(c, k)
  PROVE  \E step, j : /\ Goes(c, step, j) /\ IsPlain(step, j)
                      /\ step \in Scanning => /\ j.left = k.left /\ j.seen = k.seen /\ j.found = k.found
                                              /\ Ahead(j) = Ahead(k) /\ j.one = k.one /\ j.user = k.user
                      /\ step \notin Scanning => step = "idle" /\ k.left = <<>> /\ Ahead(k) = {}
  <1> DEFINE all == k.todo \o k.stale
             i == [k EXCEPT !.todo = all, !.stale = <<>>]
             j == IF k.left = <<>> THEN i ELSE k
  <1>1. all \in Seq(Statement) /\ Range(all) = Range(k.todo) \cup Range(k.stale)
    BY RangeJoined DEF IsNote
  <1> HIDE DEF all
  <1>2. /\ IsNote(i) /\ i.left = k.left /\ i.seen = k.seen /\ i.found = k.found
        /\ i.todo = all /\ i.stale = <<>> /\ i.one = k.one /\ i.user = k.user
    BY <1>1, RangeFacts DEF IsNote, NoteFields
  <1>3. Ahead(i) = Ahead(k)
    BY <1>1, <1>2, RangeFacts DEF Ahead
  <1>4. \/ j.todo # <<>> /\ Goes(c, "scan", j)
        \/ j.todo = <<>> /\ j.left # <<>> /\ Goes(c, "account", j)
        \/ j.todo = <<>> /\ j.left = <<>> /\ Ends(c)
    BY DEF ScanGoesOn, all
  <1> HIDE DEF i
  <1>5. /\ IsNote(j) /\ j.left = k.left /\ j.seen = k.seen /\ j.found = k.found
        /\ Ahead(j) = Ahead(k) /\ j.one = k.one /\ j.user = k.user
        /\ k.left = <<>> => j.stale = <<>>
    BY <1>2, <1>3
  <1> HIDE DEF j
  <1>6. IsListing(j)
    BY <1>5 DEF IsListing
  <1>7. CASE j.todo # <<>> /\ Goes(c, "scan", j)
    <2>1. IsPlain("scan", j)
      BY <1>5, <1>6, <1>7 DEF IsPlain, Operating, Scanning
    <2> QED
      BY <1>5, <1>7, <2>1 DEF Scanning
  <1>8. CASE j.todo = <<>> /\ j.left # <<>> /\ Goes(c, "account", j)
    <2>1. IsPlain("account", j)
      BY <1>5, <1>6, <1>8 DEF IsPlain, Operating, Scanning
    <2> QED
      BY <1>5, <1>8, <2>1 DEF Scanning
  <1>9. CASE j.todo = <<>> /\ j.left = <<>> /\ Ends(c)
    <2>1. IsPlain("idle", Nothing) /\ "idle" \notin Scanning
      BY NothingIsPlain DEF Operating, Scanning
    <2>2. k.left = <<>> /\ Ahead(k) = {}
      BY <1>5, <1>9, RangeFacts DEF Ahead
    <2> QED
      BY <1>9, <2>1, <2>2 DEF Ends
  <1> QED
    BY <1>4, <1>7, <1>8, <1>9

(* The scan vouches for the users it has seen if it ends, and says nothing of those *)
(* it has just written rows of.                                                     *)
LEMMA ScanContinues ==
  ASSUME StorageInv, NEW c \in Callers, NEW k, IsNote(k), IsListing(k), ScanGoesOn(c, k),
         ~dirty[c] => ListsAgree(k)', ~dirty'[c] => ~dirty[c], OtherScansStay(c),
         dirty' = [x \in Callers |-> dirty'[x]],
         NEW writes, fresh' = Vouched(c, k, writes), IndexTypeOK',
         \A u \in Users \ writes : /\ blob'[u] = blob[u]
                                   /\ \A n \in Names : rows'[u][n].kind = rows[u][n].kind
  PROVE  StorageInv'
  <1>1. PICK step, j : /\ Goes(c, step, j) /\ IsPlain(step, j)
                       /\ step \in Scanning => /\ j.left = k.left /\ j.seen = k.seen /\ j.found = k.found
                                               /\ Ahead(j) = Ahead(k)
    BY ScanGoesOnFacts
  <1>2. step \in Scanning /\ ~dirty'[c] => ListsAgree(j)'
    BY <1>1 DEF ListsAgree
  <1>3. /\ pc' = [x \in Callers |-> pc'[x]] /\ cur' = [x \in Callers |-> cur'[x]]
        /\ \A x \in Callers : CallerOK(x)'
    BY <1>1, <1>2, CallersStay
  <1>4. ASSUME NEW u \in Users, fresh'[u], NEW n \in Names PROVE Repairs(u, n, {})'
    <2>1. \/ k.todo = <<>> /\ k.stale = <<>> /\ ~dirty[c] /\ u \in k.seen
          \/ fresh[u] /\ u \notin writes
      BY <1>4 DEF Vouched
    <2>2. CASE k.todo = <<>> /\ k.stale = <<>> /\ ~dirty[c] /\ u \in k.seen
      <3>1. Ahead(k) = {}
        BY <2>2, RangeFacts DEF Ahead
      <3>2. Repairs(u, n, Ahead(k))'
        BY <2>2 DEF ListsAgree
      <3> QED
        BY <3>1, <3>2
    <2>3. CASE fresh[u] /\ u \notin writes
      <3>1. Repairs(u, n, {})
        BY <2>3 DEF StorageInv
      <3> QED
        BY <2>3, <3>1, RepairsStays
    <2> QED
      BY <2>1, <2>2, <2>3
  <1>5. fresh' = [u \in Users |-> fresh'[u]]
    BY DEF Vouched
  <1> QED
    BY <1>3, <1>4, <1>5 DEF StorageInv

(* reindex begins. *)
LEMMA ScanStarts ==
  ASSUME StorageInv, NEW c \in Callers,
         ScanAll(c) \/ \E u \in Accounts : ScanUser(c, u)
  PROVE  StorageInv'
  <1>1. CASE ScanAll(c)
    <2> DEFINE k == [Nothing EXCEPT !.one = FALSE]
    <2>1. Goes(c, "list", k) /\ UNCHANGED <<blob, rows, fresh, dirty>>
      BY <1>1 DEF ScanAll, StartsCall
    <2>2. /\ IsNote(k) /\ k.todo = <<>> /\ k.left = <<>> /\ k.stale = <<>> /\ k.seen = {} /\ ~k.one
      BY RangeFacts DEF IsNote, Nothing, NoteFields
    <2> HIDE DEF k
    <2>3. IsPlain("list", k) /\ "list" \notin Scanning
      BY <2>2 DEF IsPlain, Operating, Scanning
    <2>4. GoesPlainly(c)
      BY <2>1, <2>3 DEF GoesPlainly
    <2> QED
      BY <2>1, <2>4, NothingChanges
  <1>2. ASSUME NEW u \in Accounts, ScanUser(c, u) PROVE StorageInv'
    <2> DEFINE k == [Nothing EXCEPT !.user = u]
    <2>1. Goes(c, "user", k) /\ UNCHANGED <<blob, rows, fresh, dirty>>
      BY <1>2 DEF ScanUser, StartsCall
    <2>2. /\ IsNote(k) /\ k.todo = <<>> /\ k.left = <<>> /\ k.stale = <<>> /\ k.seen = {} /\ k.one
          /\ k.user = u
      BY RangeFacts DEF IsNote, Nothing, NoteFields
    <2> HIDE DEF k
    <2>3. IsPlain("user", k) /\ "user" \notin Scanning
      BY <2>2 DEF IsPlain, Operating, Scanning
    <2>4. GoesPlainly(c)
      BY <2>1, <2>3 DEF GoesPlainly
    <2> QED
      BY <2>1, <2>4, NothingChanges
  <1> QED
    BY <1>1, <1>2

(* reindex asks for the account of its user. *)
LEMMA CheckUserStep ==
  ASSUME StorageInv, NEW c \in Callers, CheckUser(c)
  PROVE  StorageInv'
  <1> DEFINE k == cur[c]
  <1>1. /\ pc[c] = "user" /\ UNCHANGED <<blob, rows, fresh, dirty>>
        /\ Goes(c, "list", k) \/ Ends(c)
    BY DEF CheckUser, AtStep, history
  <1>2. IsPlain("user", k)
    BY <1>1, WorkerFacts
  <1>3. IsPlain("list", k) /\ "list" \notin Scanning
    BY <1>2 DEF IsPlain, Operating, Scanning
  <1>4. GoesPlainly(c)
    BY <1>1, <1>3, ToEnd DEF GoesPlainly
  <1> QED
    BY <1>1, <1>4, NothingChanges

(* A scan raises. *)
LEMMA ScanFailsStep ==
  ASSUME StorageInv, NEW c \in Callers, ScanFails(c)
  PROVE  StorageInv'
  <1>1. Ends(c) /\ UNCHANGED <<blob, rows, fresh, dirty>>
    BY DEF ScanFails
  <1> QED
    BY <1>1, ToEnd, NothingChanges

(* What the invariant says of a caller that scans. *)
LEMMA ScannerFacts ==
  ASSUME StorageInv, NEW c \in Callers, pc[c] \in Scanning
  PROVE  /\ IsNote(cur[c]) /\ IsListing(cur[c]) /\ IndexTypeOK
         /\ ~dirty[c] => ListsAgree(cur[c])
         /\ pc[c] \in {"account", "cache"} =>
              /\ cur[c].todo = <<>> /\ cur[c].left # <<>>
              /\ Head(cur[c].left) \in Users /\ Head(cur[c].left) \in Range(cur[c].left)
              /\ Tail(cur[c].left) \in Seq(Users) /\ Head(cur[c].left) \notin Range(Tail(cur[c].left))
              /\ Range(cur[c].left) = {Head(cur[c].left)} \cup Range(Tail(cur[c].left))
              /\ \A i, j \in DOMAIN Tail(cur[c].left) : Tail(cur[c].left)[i] = Tail(cur[c].left)[j] => i = j
         /\ pc[c] = "cache" => Head(cur[c].left) \in Accounts
         /\ pc[c] = "scan" => cur[c].todo # <<>>
  <1>1. /\ IsNote(cur[c]) /\ IsListing(cur[c]) /\ IndexTypeOK
        /\ ~dirty[c] => ListsAgree(cur[c])
        /\ pc[c] \in {"account", "cache"} => cur[c].todo = <<>> /\ cur[c].left # <<>>
        /\ pc[c] = "cache" => Head(cur[c].left) \in Accounts
        /\ pc[c] = "scan" => cur[c].todo # <<>>
    BY DEF StorageInv, CallerOK, IsPlain
  <1>2. ASSUME cur[c].left # <<>>
        PROVE  /\ Head(cur[c].left) \in Users /\ Head(cur[c].left) \in Range(cur[c].left)
               /\ Tail(cur[c].left) \in Seq(Users) /\ Head(cur[c].left) \notin Range(Tail(cur[c].left))
               /\ Range(cur[c].left) = {Head(cur[c].left)} \cup Range(Tail(cur[c].left))
               /\ \A i, j \in DOMAIN Tail(cur[c].left) : Tail(cur[c].left)[i] = Tail(cur[c].left)[j] => i = j
    <2> DEFINE s == cur[c].left
    <2>1. s \in Seq(Users) /\ \A i, j \in DOMAIN s : s[i] = s[j] => i = j
      BY <1>1 DEF IsNote, IsListing
    <2> HIDE DEF s
    <2>2. s # <<>>
      BY <1>2 DEF s
    <2> QED
      BY <2>1, <2>2, HeadAndTail, TailDistinct DEF s
  <1> QED
    BY <1>1, <1>2

(* A scan lists the blobs: it has not been disturbed yet. *)
LEMMA ListBlobsStep ==
  ASSUME StorageInv, NEW c \in Callers, ListBlobs(c)
  PROVE  StorageInv'
  <1> DEFINE k == cur[c]
             scope == {u \in Users : (k.one => u = k.user) /\ Blobs(u) # <<>>}
             entry(u, i) == [name |-> Blobs(u)[i], kind |-> blob[u][Blobs(u)[i]]]
             found == [u \in scope |-> [i \in DOMAIN Blobs(u) |-> entry(u, i)]]
             left == SetToSeq(scope)
             j == [k EXCEPT !.found = found, !.left = left]
             step == IF k.one THEN "cache" ELSE "account"
  <1>1. /\ pc[c] = "list" /\ UNCHANGED <<blob, rows, fresh>>
        /\ dirty' = [dirty EXCEPT ![c] = FALSE]
        /\ scope = {} => Ends(c)
        /\ scope # {} => Goes(c, step, j)
    BY DEF ListBlobs, AtStep
  <1>2. /\ IsNote(k) /\ k.todo = <<>> /\ k.left = <<>> /\ k.stale = <<>> /\ k.seen = {}
        /\ k.one => k.user \in Accounts
    BY <1>1, WorkerFacts DEF IsPlain
  <1>3. /\ dirty' = [x \in Callers |-> dirty'[x]] /\ \A x \in Callers \ {c} : dirty'[x] = dirty[x]
    BY <1>1 DEF StorageInv
  <1>4. OtherScansStay(c)
    BY <1>1, <1>3 DEF OtherScansStay, SameKinds
  <1>5. IndexTypeOK' /\ fresh' = [u \in Users |-> fresh'[u]]
    BY <1>1 DEF StorageInv, IndexTypeOK
  <1>6. ASSUME NEW u \in Users, fresh'[u], NEW n \in Names PROVE Repairs(u, n, {})'
    <2>1. Repairs(u, n, {})
      BY <1>1, <1>6 DEF StorageInv
    <2> QED
      BY <1>1, <2>1, RepairsStays
  <1>7. CASE scope = {}
    <2>1. Goes(c, "idle", Nothing) /\ IsPlain("idle", Nothing) /\ "idle" \notin Scanning
      BY <1>1, <1>7, NothingIsPlain DEF Ends, Operating, Scanning
    <2>2. /\ pc' = [x \in Callers |-> pc'[x]] /\ cur' = [x \in Callers |-> cur'[x]]
          /\ \A x \in Callers : CallerOK(x)'
      BY <1>4, <2>1, CallersStay
    <2> QED
      BY <1>3, <1>5, <1>6, <2>2 DEF StorageInv
  <1>8. CASE scope # {}
    <2>1. /\ left \in Seq(scope) /\ left # <<>>
          /\ \A a, b \in DOMAIN left : left[a] = left[b] => a = b
      <3>1. IsFiniteSet(scope)
        BY StorageAssumption, FS_Subset
      <3> HIDE DEF scope
      <3> QED
        BY <1>8, <3>1, SetToSeqFacts
    <2>2. \A u \in scope : /\ u \in Users /\ Blobs(u) \in Seq(Names)
                           /\ Range(Blobs(u)) = {n \in Names : blob[u][n] # "none"}
      <3> TAKE u \in scope
      <3> DEFINE there == {n \in Names : blob[u][n] # "none"}
      <3>1. Blobs(u) = Only(NameList, there)
        BY DEF Blobs
      <3>2. Range(NameList) \cap there = there
        BY DEF Names
      <3> HIDE DEF there
      <3>3. Blobs(u) \in Seq(Names) /\ Range(Blobs(u)) = there
        <4>1. NameList \in Seq(Names)
          BY StorageAssumption
        <4>2. PICK o : o = Only(NameList, there)
          OBVIOUS
        <4>3. Only(NameList, there) \in Seq(Names) /\ Range(Only(NameList, there)) = Range(NameList) \cap there
          BY <4>1, OnlyFacts
        <4>4. o \in Seq(Names) /\ Range(o) = there
          BY <3>2, <4>2, <4>3
        <4> QED
          BY <3>1, <4>2, <4>4
      <3> QED
        BY <3>3 DEF there
    <2>3. ASSUME NEW u \in scope
          PROVE  /\ found[u] \in Seq(FoundBlob) /\ u \in DOMAIN found
                 /\ Lists(found[u], u)
      <3> DEFINE s == Blobs(u)
                 t == found[u]
      <3>1. /\ s \in Seq(Names) /\ Range(s) = {n \in Names : blob[u][n] # "none"}
            /\ blob[u] \in [Names -> Kinds]
        BY <1>5, <2>2 DEF IndexTypeOK, StorageInv
      <3>2. t = [i \in DOMAIN s |-> [name |-> s[i], kind |-> blob[u][s[i]]]] /\ u \in DOMAIN found
        OBVIOUS
      <3> HIDE DEF s, found
      <3>3. \A i \in DOMAIN s : s[i] \in Names /\ blob[u][s[i]] \in Kinds \ {"none"}
        BY <3>1 DEF Range
      <3>4. \A i \in DOMAIN s : [name |-> s[i], kind |-> blob[u][s[i]]] \in FoundBlob
        BY <3>3 DEF FoundBlob
      <3>5. t \in Seq(FoundBlob)
        <4>1. Len(s) \in Nat /\ DOMAIN s = 1 .. Len(s)
          BY <3>1
        <4>2. PICK m \in Nat : DOMAIN s = 1 .. m
          BY <4>1
        <4>3. t \in [1 .. m -> FoundBlob]
          BY <3>2, <3>4, <4>2
        <4> QED
          BY <4>3
      <3>6. \A i \in DOMAIN t : blob[u][t[i].name] = t[i].kind
        BY <3>2
      <3>7. ASSUME NEW n \in Names, blob[u][n] # "none" PROVE \E i \in DOMAIN t : t[i].name = n
        <4>1. n \in Range(s)
          BY <3>1, <3>7
        <4>2. PICK i \in DOMAIN s : s[i] = n
          BY <4>1 DEF Range
        <4>3. i \in DOMAIN t /\ t[i].name = n
          BY <3>2, <4>2
        <4> QED
          BY <4>3
      <3> QED
        BY <3>2, <3>5, <3>6, <3>7 DEF Lists
    <2> HIDE DEF found, left
    <2>4. left \in Seq(Users) /\ Range(left) \subseteq scope /\ Head(left) \in scope
      <3>1. scope \subseteq Users
        OBVIOUS
      <3> HIDE DEF scope
      <3> QED
        BY <2>1, <3>1, HeadAndTail, RangeFacts
    <2>5. /\ IsNote(j) /\ j.left = left /\ j.found = found /\ j.seen = {}
          /\ j.todo = <<>> /\ j.stale = <<>>
      BY <1>2, <2>4 DEF IsNote, NoteFields
    <2>6. k.one => Head(left) \in Accounts
      BY <1>2, <2>4
    <2> HIDE DEF scope, j
    <2>14. PICK g : g = j
      OBVIOUS
    <2>15. PICK at : at = step
      OBVIOUS
    <2> HIDE DEF step
    <2>16. /\ IsNote(g) /\ g.left = left /\ g.found = found /\ g.seen = {}
           /\ g.todo = <<>> /\ g.stale = <<>>
      BY <2>5, <2>14
    <2>7. Ahead(g) = {}
      BY <2>16, RangeFacts DEF Ahead
    <2>8. IsListing(g)
      BY <2>1, <2>3, <2>4, <2>16, <2>7 DEF IsListing
    <2>9. IsPlain(at, g)
      BY <2>1, <2>16, <2>6, <2>8, <2>15 DEF step, IsPlain, Operating, Scanning
    <2>10. ListsAgree(g)
      BY <2>3, <2>4, <2>16 DEF ListsAgree
    <2>11. ListsAgree(g)'
      BY <1>1, <2>16, <2>10, AgreesStays DEF SameKinds
    <2>12. Goes(c, at, g)
      BY <1>1, <1>8, <2>14, <2>15
    <2>13. /\ pc' = [x \in Callers |-> pc'[x]] /\ cur' = [x \in Callers |-> cur'[x]]
           /\ \A x \in Callers : CallerOK(x)'
      BY <1>4, <2>9, <2>11, <2>12, CallersStay
    <2> QED
      BY <1>3, <1>5, <1>6, <2>13 DEF StorageInv
  <1> QED
    BY <1>7, <1>8

(* A user whose account the scan has not found is left out. *)
LEMMA SkipUserStep ==
  ASSUME StorageInv, NEW c \in Callers, pc[c] = "account", SkipUser(c), UNCHANGED <<blob, rows, dirty>>
  PROVE  StorageInv'
  <1> DEFINE k == cur[c]
             s == Tail(k.left)
             j == [k EXCEPT !.left = s]
  <1>1. /\ IsNote(k) /\ IsListing(k) /\ IndexTypeOK /\ k.todo = <<>>
        /\ ~dirty[c] => ListsAgree(k)
        /\ s \in Seq(Users) /\ Range(s) \subseteq Range(k.left)
        /\ \A x, y \in DOMAIN s : s[x] = s[y] => x = y
    BY ScannerFacts DEF Scanning
  <1> HIDE DEF s
  <1>2. PICK g : g = j
    OBVIOUS
  <1>3. /\ IsNote(g) /\ g.left = s /\ g.found = k.found /\ g.seen = k.seen
        /\ g.todo = k.todo /\ g.stale = k.stale
    BY <1>1, <1>2 DEF IsNote, NoteFields
  <1>4. ScanGoesOn(c, g) /\ fresh' = Vouched(c, g, {})
    BY <1>2 DEF SkipUser, s
  <1>5. Ahead(g) = Ahead(k)
    BY <1>3 DEF Ahead
  <1> HIDE DEF k
  <1>6. IsListing(g)
    BY <1>1, <1>3, <1>5 DEF IsListing
  <1>7. ASSUME ~dirty[c] PROVE ListsAgree(g)'
    <2>1. ListsAgree(g)
      BY <1>1, <1>3, <1>5, <1>7 DEF ListsAgree
    <2> QED
      BY <1>3, <2>1, AgreesStays DEF SameKinds
  <1>8. OtherScansStay(c) /\ IndexTypeOK'
    BY <1>1 DEF OtherScansStay, SameKinds, IndexTypeOK
  <1>9. dirty' = [x \in Callers |-> dirty'[x]]
    BY DEF StorageInv
  <1> QED
    BY <1>3, <1>4, <1>6, <1>7, <1>8, <1>9, ScanContinues

(* A scan asks for the account of the next user. *)
LEMMA CheckAccountStep ==
  ASSUME StorageInv, NEW c \in Callers, CheckAccount(c)
  PROVE  StorageInv'
  <1>1. pc[c] = "account" /\ UNCHANGED <<blob, rows, dirty>>
    BY DEF CheckAccount, AtStep
  <1>2. CASE SkipUser(c)
    BY <1>1, <1>2, SkipUserStep
  <1>3. CASE Head(cur[c].left) \in Accounts /\ Goes(c, "cache", cur[c]) /\ UNCHANGED fresh
    <2>1. PICK k : k = cur[c]
      OBVIOUS
    <2>2. IsPlain("account", k) /\ IsNote(k) /\ (~dirty[c] => ListsAgree(k))
      BY <1>1, <2>1 DEF StorageInv, CallerOK, IsPlain, Scanning
    <2>3. IsPlain("cache", k)
      BY <1>3, <2>1, <2>2 DEF IsPlain, Operating, Scanning
    <2>4. ~dirty'[c] => ListsAgree(k)'
      BY <1>1, <2>2, AgreesStays DEF SameKinds
    <2>5. OtherScansStay(c)
      BY <1>1 DEF OtherScansStay, SameKinds
    <2>6. Goes(c, "cache", k)
      BY <1>3, <2>1
    <2>7. /\ pc' = [x \in Callers |-> pc'[x]] /\ cur' = [x \in Callers |-> cur'[x]]
          /\ \A x \in Callers : CallerOK(x)'
      BY <2>3, <2>4, <2>5, <2>6, CallersStay
    <2>8. ASSUME NEW u \in Users, fresh'[u], NEW n \in Names PROVE Repairs(u, n, {})'
      <3>1. Repairs(u, n, {})
        BY <1>3, <2>8 DEF StorageInv
      <3> QED
        BY <1>1, <3>1, RepairsStays
    <2>9. IndexTypeOK' /\ dirty' = [x \in Callers |-> dirty'[x]] /\ fresh' = [u \in Users |-> fresh'[u]]
      BY <1>1, <1>3 DEF StorageInv, IndexTypeOK
    <2> QED
      BY <2>7, <2>8, <2>9 DEF StorageInv
  <1> QED
    BY <1>2, <1>3 DEF CheckAccount

(* A request for an account fails. *)
LEMMA CheckFailsStep ==
  ASSUME StorageInv, NEW c \in Callers, CheckFails(c)
  PROVE  StorageInv'
  <1>1. UNCHANGED <<blob, rows, dirty>>
    BY DEF CheckFails
  <1>2. CASE Ends(c) /\ UNCHANGED fresh
    BY <1>1, <1>2, ToEnd, NothingChanges
  <1>3. CASE pc[c] = "account" /\ SkipUser(c)
    BY <1>1, <1>3, SkipUserStep
  <1> QED
    BY <1>2, <1>3 DEF CheckFails, Fails

(* set_gallery and report_file leave the kinds of the rows alone. *)
LEMMA FlagStep ==
  ASSUME StorageInv, NEW u \in Accounts, NEW n \in Files,
         Report(u, n) \/ \E gallery \in BOOLEAN : SetGallery(u, n, gallery)
  PROVE  StorageInv'
  <1>1. u \in Users /\ n \in Names
    BY StorageAssumption
  <1>2. UNCHANGED <<blob, pc, cur, fresh, dirty>>
    BY DEF Report, SetGallery, Flags
  <1>3. /\ IndexTypeOK
        /\ \A x \in Callers : CallerOK(x)
    BY DEF StorageInv
  <1>4. PICK row : /\ rows' = [rows EXCEPT ![u][n] = row] /\ row \in IndexRow
                   /\ row.kind = rows[u][n].kind
    <2>1. rows[u][n] \in IndexRow
      BY <1>1, <1>3 DEF IndexTypeOK
    <2>2. CASE Report(u, n)
      <3> DEFINE row == [rows[u][n] EXCEPT !.reported = TRUE]
      <3>1. row \in IndexRow /\ row.kind = rows[u][n].kind
        BY <2>1 DEF IndexRow
      <3> QED
        BY <2>2, <3>1 DEF Report
    <2>3. ASSUME NEW gallery \in BOOLEAN, SetGallery(u, n, gallery)
          PROVE  \E row : /\ rows' = [rows EXCEPT ![u][n] = row] /\ row \in IndexRow
                          /\ row.kind = rows[u][n].kind
      <3> DEFINE row == [rows[u][n] EXCEPT !.public = gallery]
      <3>1. row \in IndexRow /\ row.kind = rows[u][n].kind
        BY <2>1 DEF IndexRow
      <3> QED
        BY <2>3, <3>1 DEF SetGallery
    <2> QED
      BY <2>2, <2>3
  <1>5. SameKinds /\ IndexTypeOK'
    BY <1>1, <1>2, <1>3, <1>4 DEF SameKinds, IndexTypeOK
  <1>6. ASSUME NEW x \in Callers PROVE CallerOK(x)'
    BY <1>2, <1>3, <1>5, CallerStays
  <1>7. ASSUME NEW v \in Users, fresh'[v], NEW m \in Names PROVE Repairs(v, m, {})'
    <2>1. Repairs(v, m, {})
      BY <1>2, <1>7 DEF StorageInv
    <2> QED
      BY <1>2, <1>5, <2>1, RepairsStays DEF SameKinds
  <1>8. /\ pc' = [x \in Callers |-> pc'[x]] /\ cur' = [x \in Callers |-> cur'[x]]
        /\ dirty' = [x \in Callers |-> dirty'[x]] /\ fresh' = [v \in Users |-> fresh'[v]]
    BY <1>2 DEF StorageInv
  <1> QED
    BY <1>5, <1>6, <1>7, <1>8 DEF StorageInv

(* A blob is inside the folders around it. *)
LEMMA OutermostFacts ==
  ASSUME NEW n \in Seq(Segments), NEW i \in 1 .. Len(n) - 1
  PROVE  SubSeq(n, 1, i) \in Seq(Segments) /\ Inside(n, SubSeq(n, 1, i))
  <1> DEFINE p == SubSeq(n, 1, i)
             m == Len(n)
             q == SubSeq(p, 1, i)
  <1>1. m \in Nat /\ i \in Nat /\ 1 <= i /\ i < m /\ \A x \in 1 .. i : n[x] \in Segments
    OBVIOUS
  <1>2. p \in Seq(Segments) /\ Len(p) = i /\ \A x \in 1 .. i : p[x] = n[x]
    BY <1>1, SubSeqProperties
  <1> HIDE DEF p, m
  <1>3. \A x \in 1 .. i : p[x] \in Segments
    BY <1>1, <1>2
  <1>4. q \in Seq(Segments) /\ Len(q) = i /\ \A x \in 1 .. i : q[x] = p[x]
    BY <1>1, <1>3, SubSeqProperties
  <1> HIDE DEF q
  <1>5. q = p
    BY <1>2, <1>4, SeqEqual
  <1>6. IsPrefix(p, n)
    BY <1>1, <1>2, <1>5 DEF IsPrefix, p, q, m
  <1>7. p # n
    BY <1>1, <1>2 DEF m
  <1> QED
    BY <1>2, <1>6, <1>7 DEF Inside, IsStrictPrefix, p

IsIndexedFile(b) == b.kind = "file" /\ Last(b.name) # Placeholder

\* What a scan writes for a blob b, with the flags of the rows it has read.
IsWriteFor(u, b, public, w) ==
  /\ w \in Statement /\ w.do = "upsert" /\ w.user = u
  /\ \/ w.row = FolderRow /\ Inside(b.name, w.name)
     \/ w.row = FolderRow /\ w.name = b.name /\ b.kind = "folder"
     \/ w.row = FileRow(b.name \in public) /\ w.name = b.name /\ IsIndexedFile(b)

(* What a scan writes for a blob: rows of folders the blob is in, of the folder it is, *)
(* or of the file it is, which is always among them.                                   *)
LEMMA WritesForFacts ==
  ASSUME NEW u \in Accounts, NEW b \in FoundBlob, NEW public
  PROVE  /\ WritesFor(u, b, public) \in Seq(Statement)
         /\ \A w \in Range(WritesFor(u, b, public)) : IsWriteFor(u, b, public, w)
         /\ IsIndexedFile(b) => \E w \in Range(WritesFor(u, b, public)) : w.name = b.name
  <1> DEFINE n == b.name
             depth == IF Len(n) - 1 < 4 THEN Len(n) - 1 ELSE 4
             outer(i) == Upsert(u, SubSeq(n, 1, i), FolderRow)
             around == [i \in 1 .. depth |-> outer(i)]
             file == Upsert(u, n, FileRow(n \in public))
             folder == Upsert(u, n, FolderRow)
             itself == IF b.kind = "folder" THEN <<folder>>
                       ELSE IF Last(n) = Placeholder THEN <<>> ELSE <<file>>
  <1>1. n \in Seq(Segments) /\ n \in Names /\ b.kind \in {"file", "folder"}
    BY NameFacts DEF FoundBlob, Kinds
  <1>2. WritesFor(u, b, public) = around \o itself
    BY DEF WritesFor
  <1>3. /\ file \in Statement /\ file.do = "upsert" /\ file.user = u /\ file.name = n
        /\ file.row = FileRow(n \in public)
    <2>1. FileRow(n \in public) \in IndexRow
      BY DEF FileRow, IndexRow, Kinds
    <2> QED
      BY <1>1, <2>1, StatementFacts DEF Upsert
  <1>4. /\ folder \in Statement /\ folder.do = "upsert" /\ folder.user = u /\ folder.name = n
        /\ folder.row = FolderRow
    BY <1>1, StatementFacts DEF Upsert
  <1>5. ASSUME NEW i \in 1 .. depth PROVE IsWriteFor(u, b, public, outer(i))
    <2>1. i \in 1 .. Len(n) - 1
      BY <1>1
    <2>2. SubSeq(n, 1, i) \in Seq(Segments) /\ Inside(n, SubSeq(n, 1, i))
      BY <1>1, <2>1, OutermostFacts
    <2>3. outer(i) \in Statement
      BY <2>2, StatementFacts
    <2> QED
      BY <2>2, <2>3 DEF IsWriteFor, Upsert
  <1>6. around \in Seq(Statement) /\ \A w \in Range(around) : IsWriteFor(u, b, public, w)
    <2>1. PICK d \in Nat : 1 .. depth = 1 .. d
      <3>1. Len(n) \in Nat
        BY <1>1
      <3>2. depth \in Nat \/ 1 .. depth = 1 .. 0
        BY <3>1
      <3> QED
        BY <3>2
    <2>2. \A i \in 1 .. d : outer(i) \in Statement
      BY <1>5, <2>1 DEF IsWriteFor
    <2>3. around = [i \in 1 .. d |-> outer(i)]
      BY <2>1
    <2> HIDE DEF depth
    <2>4. \A i \in 1 .. d : IsWriteFor(u, b, public, outer(i))
      BY <1>5, <2>1
    <2> HIDE DEF outer, around
    <2>5. around \in [1 .. d -> Statement]
      BY <2>2, <2>3
    <2>6. around \in Seq(Statement)
      BY <2>5
    <2>7. \A w \in Range(around) : IsWriteFor(u, b, public, w)
      BY <2>3, <2>4 DEF Range
    <2> QED
      BY <2>6, <2>7
  <1> HIDE DEF around, file, folder, depth
  <1>7. /\ itself \in Seq(Statement)
        /\ \A w \in Range(itself) : IsWriteFor(u, b, public, w)
        /\ IsIndexedFile(b) => \E w \in Range(itself) : w.name = n
    <2>1. CASE b.kind = "folder"
      <3>1. itself \in Seq(Statement) /\ Range(itself) = {folder}
        BY <1>4, <2>1, RangeFacts
      <3> QED
        BY <1>4, <2>1, <3>1 DEF IsWriteFor, IsIndexedFile
    <2>2. CASE b.kind = "file" /\ Last(n) = Placeholder
      <3>1. itself \in Seq(Statement) /\ Range(itself) = {}
        BY <2>2, RangeFacts
      <3> QED
        BY <2>2, <3>1 DEF IsIndexedFile
    <2>3. CASE b.kind = "file" /\ Last(n) # Placeholder
      <3>1. itself \in Seq(Statement) /\ Range(itself) = {file}
        BY <1>3, <2>3, RangeFacts
      <3> QED
        BY <1>3, <2>3, <3>1 DEF IsWriteFor, IsIndexedFile
    <2> QED
      BY <1>1, <2>1, <2>2, <2>3
  <1> HIDE DEF itself
  <1>8. around \o itself \in Seq(Statement) /\ Range(around \o itself) = Range(around) \cup Range(itself)
    BY <1>6, <1>7, RangeJoined
  <1> QED
    BY <1>2, <1>6, <1>7, <1>8

(* What a scan writes for all the blobs of a user. *)
LEMMA ScanWritesFacts ==
  ASSUME NEW u \in Accounts, NEW found \in Seq(FoundBlob), NEW public
  PROVE  /\ ScanWrites(u, found, public) \in Seq(Statement)
         /\ \A w \in Range(ScanWrites(u, found, public)) : \E i \in DOMAIN found : IsWriteFor(u, found[i], public, w)
         /\ \A i \in DOMAIN found : IsIndexedFile(found[i]) =>
              \E w \in Range(ScanWrites(u, found, public)) : w.name = found[i].name
  <1> DEFINE all == [i \in 1 .. Len(found) |-> WritesFor(u, found[i], public)]
  <1>1. ScanWrites(u, found, public) = OneAfterOther(all)
    BY DEF ScanWrites
  <1>2. /\ Len(found) \in Nat /\ DOMAIN found = 1 .. Len(found)
        /\ \A i \in 1 .. Len(found) : found[i] \in FoundBlob
    OBVIOUS
  <1>3. \A i \in 1 .. Len(found) :
          /\ WritesFor(u, found[i], public) \in Seq(Statement)
          /\ \A w \in Range(WritesFor(u, found[i], public)) : IsWriteFor(u, found[i], public, w)
          /\ IsIndexedFile(found[i]) => \E w \in Range(WritesFor(u, found[i], public)) : w.name = found[i].name
    BY <1>2, WritesForFacts
  <1>4. all \in Seq(Seq(Statement)) /\ DOMAIN all = 1 .. Len(found)
    <2>1. PICK m \in Nat : m = Len(found)
      BY <1>2
    <2>2. all \in [1 .. m -> Seq(Statement)]
      BY <1>3, <2>1
    <2> HIDE DEF all
    <2> QED
      BY <2>1, <2>2
  <1>5. /\ OneAfterOther(all) \in Seq(Statement)
        /\ Range(OneAfterOther(all)) = UNION {Range(all[i]) : i \in DOMAIN all}
    <2> HIDE DEF all
    <2> QED
      BY <1>4, OneAfterOtherFacts
  <1>6. \A i \in 1 .. Len(found) : all[i] = WritesFor(u, found[i], public)
    OBVIOUS
  <1> HIDE DEF all
  <1>7. \A w \in Range(OneAfterOther(all)) : \E i \in 1 .. Len(found) : w \in Range(all[i])
    BY <1>4, <1>5
  <1>8. \A i \in 1 .. Len(found) : Range(all[i]) \subseteq Range(OneAfterOther(all))
    BY <1>4, <1>5
  <1>9. ASSUME NEW w \in Range(OneAfterOther(all)) PROVE \E i \in DOMAIN found : IsWriteFor(u, found[i], public, w)
    BY <1>2, <1>3, <1>6, <1>7
  <1>10. ASSUME NEW i \in DOMAIN found, IsIndexedFile(found[i])
         PROVE  \E w \in Range(OneAfterOther(all)) : w.name = found[i].name
    <2>1. PICK w \in Range(WritesFor(u, found[i], public)) : w.name = found[i].name
      BY <1>2, <1>3, <1>10
    <2>2. w \in Range(OneAfterOther(all))
      BY <1>2, <1>6, <1>8, <2>1
    <2> QED
      BY <2>1, <2>2
  <1> QED
    BY <1>1, <1>5, <1>9, <1>10

FilesOf(found) == {found[i].name : i \in {j \in DOMAIN found : IsIndexedFile(found[j])}}

\* The rows of u that are indexed as files and are none of the files found.
GoneOf(u, found) == {n \in Names : rows[u][n].kind = "file"} \ FilesOf(found)

\* The statements ahead for u are those a scan makes of what it has found.
PlansFor(u, found, public, ahead) ==
  /\ Range(ScanWrites(u, found, public)) \subseteq ahead
  /\ \A n \in GoneOf(u, found) : Delete(u, n) \in ahead
  /\ \A w \in ahead : w.user = u => \/ w \in Range(ScanWrites(u, found, public))
                                   \/ \E n \in GoneOf(u, found) : w = Delete(u, n)

(* Once the statements a scan has made of what u has have run the rows are repaired. *)
LEMMA ListedIsRepaired ==
  ASSUME IndexTypeOK, NEW u \in Accounts, NEW found \in Seq(FoundBlob), Lists(found, u),
         NEW public, NEW ahead, PlansFor(u, found, public, ahead), NEW n \in Names
  PROVE  Repairs(u, n, ahead)
  <1> DEFINE files == FilesOf(found)
             gone == GoneOf(u, found)
  <1>0. /\ gone = {m \in Names : rows[u][m].kind = "file"} \ files
        /\ files = {found[i].name : i \in {j \in DOMAIN found : IsIndexedFile(found[j])}}
        /\ Range(ScanWrites(u, found, public)) \subseteq ahead
        /\ \A m \in gone : Delete(u, m) \in ahead
        /\ \A w \in ahead : w.user = u => \/ w \in Range(ScanWrites(u, found, public))
                                         \/ \E m \in gone : w = Delete(u, m)
    BY DEF PlansFor, GoneOf, FilesOf
  <1> HIDE DEF files, gone
  <1> DEFINE writes == Range(ScanWrites(u, found, public))
  <1>1. /\ DOMAIN found = 1 .. Len(found) /\ Len(found) \in Nat
        /\ \A i \in DOMAIN found : found[i] \in FoundBlob
    OBVIOUS
  <1>2. \A i \in DOMAIN found : /\ found[i].name \in Names
                                /\ found[i].kind \in {"file", "folder"}
                                /\ blob[u][found[i].name] = found[i].kind
    BY <1>1 DEF FoundBlob, Kinds, Lists
  <1>3. /\ \A w \in writes : \E i \in DOMAIN found : IsWriteFor(u, found[i], public, w)
        /\ \A i \in DOMAIN found : IsIndexedFile(found[i]) => \E w \in writes : w.name = found[i].name
    BY ScanWritesFacts
  <1> HIDE DEF writes
  <1>4. \A w \in writes : w \in ahead /\ w.do = "upsert" /\ w.user = u
    BY <1>0, <1>3 DEF IsWriteFor, writes
  <1>5. n \in files <=> IsFile(u, n)
    <2>1. ASSUME n \in files PROVE IsFile(u, n)
      <3>1. PICK i \in DOMAIN found : IsIndexedFile(found[i]) /\ found[i].name = n
        BY <1>0, <2>1
      <3> QED
        BY <1>2, <3>1 DEF IsFile, IsIndexedFile
    <2>2. ASSUME IsFile(u, n) PROVE n \in files
      <3>1. PICK i \in DOMAIN found : found[i].name = n
        BY <2>2 DEF IsFile, Lists
      <3>2. IsIndexedFile(found[i])
        BY <1>2, <2>2, <3>1 DEF IsFile, IsIndexedFile
      <3> QED
        BY <1>0, <3>1, <3>2
    <2> QED
      BY <2>1, <2>2
  <1>6. \A w \in ahead : w.user = u /\ w.name = n => w \in writes \/ (n \in gone /\ w = Delete(u, n))
    BY <1>0 DEF Delete, writes
  <1>7. ASSUME ~IsFile(u, n)
        PROVE  /\ rows[u][n].kind = "file" => \E w \in ahead : w.do = "delete" /\ w.user = u /\ w.name = n
               /\ \A w \in ahead : w.do = "upsert" /\ w.user = u /\ w.name = n => w.row.kind # "file"
    <2>1. ASSUME rows[u][n].kind = "file"
          PROVE  \E w \in ahead : w.do = "delete" /\ w.user = u /\ w.name = n
      <3>1. Delete(u, n) \in ahead
        BY <1>0, <1>5, <1>7, <2>1
      <3> QED
        BY <3>1 DEF Delete
    <2>2. ASSUME NEW w \in ahead, w.do = "upsert", w.user = u, w.name = n PROVE w.row.kind # "file"
      <3>1. w \in writes
        BY <1>6, <2>2 DEF Delete
      <3>2. PICK i \in DOMAIN found : IsWriteFor(u, found[i], public, w)
        BY <1>3, <3>1
      <3>3. found[i].name = n => ~IsIndexedFile(found[i])
        BY <1>2, <1>7 DEF IsFile, IsIndexedFile
      <3> QED
        BY <2>2, <3>2, <3>3 DEF IsWriteFor, FolderRow
    <2> QED
      BY <2>1, <2>2
  <1>8. ASSUME IsFile(u, n)
        PROVE  /\ \A w \in ahead : w.user = u /\ w.name = n => w \in writes
               /\ \E w \in ahead : w.user = u /\ w.name = n
    <2>1. n \notin gone
      BY <1>0, <1>5, <1>8
    <2>2. PICK i \in DOMAIN found : IsIndexedFile(found[i]) /\ found[i].name = n
      BY <1>0, <1>5, <1>8
    <2>3. PICK w \in writes : w.name = n
      BY <1>3, <2>2
    <2> QED
      BY <1>4, <1>6, <2>1, <2>3
  <1>9. ASSUME IsFile(u, n), ~IsFolder(u, n), NEW w \in ahead, w.user = u, w.name = n
        PROVE  w.row.kind = "file"
    <2>1. PICK i \in DOMAIN found : IsWriteFor(u, found[i], public, w)
      BY <1>3, <1>8, <1>9
    <2>2. ~Inside(found[i].name, n)
      BY <1>2, <1>9 DEF IsFolder
    <2>3. ~(found[i].name = n /\ found[i].kind = "folder")
      BY <1>2, <1>9 DEF IsFile
    <2> QED
      BY <1>9, <2>1, <2>2, <2>3 DEF IsWriteFor, FileRow
  <1> QED
    BY <1>4, <1>7, <1>8, <1>9 DEF Repairs

(* Statements for other users make no difference. *)
LEMMA RepairsOfOthers ==
  ASSUME NEW u, NEW n, NEW ahead, NEW more, Repairs(u, n, ahead), ahead \subseteq more,
         \A w \in more \ ahead : w.user # u
  PROVE  Repairs(u, n, more)
  <1>1. \A w \in more : w.user = u => w \in ahead
    OBVIOUS
  <1>2. ASSUME NEW w \in more, w.user = u PROVE w \in ahead
    BY <1>1, <1>2
  <1> QED
    BY <1>1 DEF Repairs

PublicOf(u) == {n \in Names : rows[u][n].kind = "file" /\ rows[u][n].public}

\* With g a scan that has known i has read the rows of u and planned its statements.
ReadsRows(i, u, found, g) ==
  /\ IsNote(g) /\ IsListing(g) /\ g.left = Tail(i.left) /\ g.one = i.one /\ g.user = i.user
  /\ g.seen \subseteq i.seen \cup {u} /\ i.todo = <<>>
  /\ \A v \in Range(g.left) : v # u /\ v \in Range(i.left) /\ g.found[v] = i.found[v]
  /\ Ahead(i) \cup Range(ScanWrites(u, found, PublicOf(u))) \subseteq Ahead(g)
  /\ \A w \in Ahead(g) : \/ w \in Ahead(i) /\ w.user # u
                         \/ w \in Range(ScanWrites(u, found, PublicOf(u))) /\ w.user = u
                         \/ \E n \in GoneOf(u, found) : w = Delete(u, n)
  /\ i.one \/ u \in g.seen => \A n \in GoneOf(u, found) : Delete(u, n) \in Ahead(g)

(* A scan reads the rows of the next user and plans its statements. *)
LEMMA ReadRowsFacts ==
  ASSUME StorageInv, NEW c \in Callers, ReadRows(c)
  PROVE  \E g : /\ ReadsRows(cur[c], Head(cur[c].left), cur[c].found[Head(cur[c].left)], g)
                /\ ScanGoesOn(c, g) /\ fresh' = Vouched(c, g, {})
  <1> DEFINE i == cur[c]
             u == Head(i.left)
             rest == Tail(i.left)
             found == i.found[u]
             indexed == {n \in Names : rows[u][n].kind = "file"}
             public == {n \in indexed : rows[u][n].public}
             files == {found[x].name : x \in {y \in DOMAIN found : /\ found[y].kind = "file"
                                                                   /\ Last(found[y].name) # Placeholder}}
             gone == indexed \ files
             stale == Only(NameList, gone)
             removes == i.one \/ files # {}
             deletes == [x \in DOMAIN stale |-> Delete(u, stale[x])]
             writes == ScanWrites(u, found, public)
             more == IF removes THEN deletes ELSE <<>>
             saw == IF removes THEN {u} ELSE {}
             k == [i EXCEPT !.left = rest, !.found = [@ EXCEPT ![u] = <<>>],
                            !.todo = writes, !.stale = @ \o more, !.seen = @ \cup saw]
  <1>1. /\ pc[c] = "cache" /\ ScanGoesOn(c, k) /\ fresh' = Vouched(c, k, {})
        /\ UNCHANGED <<blob, rows, dirty>>
    BY DEF ReadRows, AtStep
  <1>2. /\ IsNote(i) /\ IsListing(i) /\ IndexTypeOK /\ (~dirty[c] => ListsAgree(i))
        /\ i.todo = <<>> /\ u \in Accounts /\ u \in Users
        /\ rest \in Seq(Users) /\ u \notin Range(rest) /\ Range(i.left) = {u} \cup Range(rest)
        /\ \A x, y \in DOMAIN rest : rest[x] = rest[y] => x = y
    BY <1>1, ScannerFacts DEF Scanning
  <1>3. u \in DOMAIN i.found /\ found \in Seq(FoundBlob) /\ u \notin i.seen /\ i.seen \subseteq Users
    BY <1>2 DEF IsListing, IsNote
  <1>4. files = {found[x].name : x \in {y \in DOMAIN found : IsIndexedFile(found[y])}}
    BY DEF IsIndexedFile
  <1>5. gone \subseteq Names
    OBVIOUS
  <1>6. PICK g : g = k
    OBVIOUS
  <1>7. /\ DOMAIN g = NoteFields /\ g.from = i.from /\ g.to = i.to /\ g.work = i.work /\ g.left = rest
        /\ g.seen = i.seen \cup saw /\ g.todo = writes /\ g.stale = i.stale \o more
        /\ g.found = [i.found EXCEPT ![u] = <<>>] /\ g.one = i.one /\ g.user = i.user
    BY <1>2, <1>6 DEF IsNote, NoteFields
  <1>8. ScanGoesOn(c, g) /\ fresh' = Vouched(c, g, {})
    BY <1>1, <1>6
  <1> HIDE DEF k, rest, indexed, files, gone
  <1>9. stale \in Seq(Names) /\ Range(stale) = gone
    <2>1. NameList \in Seq(Names) /\ Range(NameList) \cap gone = gone
      BY <1>5, StorageAssumption DEF Names
    <2>2. Only(NameList, gone) \in Seq(Names) /\ Range(Only(NameList, gone)) = Range(NameList) \cap gone
      BY <2>1, OnlyFacts
    <2> QED
      BY <2>1, <2>2
  <1> HIDE DEF stale
  <1>10. deletes \in Seq(Statement) /\ Range(deletes) = {Delete(u, n) : n \in gone}
    <2>1. \A n \in Names : Delete(u, n) \in Statement
      BY <1>2, NameFacts, StatementFacts
    <2>2. PICK m \in Nat : DOMAIN stale = 1 .. m /\ \A x \in 1 .. m : stale[x] \in Names
      BY <1>9
    <2>3. deletes \in [1 .. m -> Statement]
      BY <2>1, <2>2
    <2>4. Range(deletes) = {Delete(u, stale[x]) : x \in DOMAIN stale}
      BY DEF Range
    <2>5. {Delete(u, stale[x]) : x \in DOMAIN stale} = {Delete(u, n) : n \in gone}
      BY <1>9 DEF Range
    <2> HIDE DEF deletes
    <2>6. deletes \in Seq(Statement)
      BY <2>3
    <2> QED
      BY <2>4, <2>5, <2>6
  <1>11. /\ writes \in Seq(Statement)
         /\ \A w \in Range(writes) : w \in Statement /\ w.do = "upsert" /\ w.user = u /\ w.row.kind # "none"
    <2>1. /\ writes \in Seq(Statement)
          /\ \A w \in Range(writes) : \E x \in DOMAIN found : IsWriteFor(u, found[x], public, w)
      BY <1>2, <1>3, ScanWritesFacts
    <2> HIDE DEF writes
    <2>2. \A flag : FolderRow.kind # "none" /\ FileRow(flag).kind # "none"
      BY DEF FolderRow, FileRow
    <2>3. \A b, w : IsWriteFor(u, b, public, w) =>
            w \in Statement /\ w.do = "upsert" /\ w.user = u /\ w.row.kind # "none"
      BY <2>2 DEF IsWriteFor
    <2> QED
      BY <2>1, <2>3
  <1> HIDE DEF writes, deletes
  <1>12. /\ more \in Seq(Statement) /\ Range(more) \subseteq {Delete(u, n) : n \in gone}
         /\ removes => Range(more) = {Delete(u, n) : n \in gone}
    BY <1>10, RangeFacts
  <1>13. /\ i.stale \o more \in Seq(Statement) /\ Range(i.stale \o more) = Range(i.stale) \cup Range(more)
    <2>1. i.stale \in Seq(Statement)
      BY <1>2 DEF IsNote
    <2> QED
      BY <1>12, <2>1, RangeJoined
  <1>14. saw \subseteq {u} /\ (saw # {} => removes)
    OBVIOUS
  <1> HIDE DEF more, saw, removes
  <1>15. IsNote(g)
    BY <1>2, <1>3, <1>7, <1>11, <1>13, <1>14 DEF IsNote
  <1>16. /\ Ahead(g) = Range(writes) \cup Range(i.stale) \cup Range(more)
         /\ Ahead(i) = Range(i.stale)
    BY <1>2, <1>7, <1>13, RangeFacts DEF Ahead
  <1>17. \A w \in Range(more) : w.do = "delete" /\ w.row = NoRow /\ w.user = u
    BY <1>12 DEF Delete
  <1>18. \A v \in Range(rest) : v # u /\ g.found[v] = i.found[v] /\ v \in DOMAIN g.found
    BY <1>2, <1>7 DEF IsListing
  <1>19. IsListing(g)
    <2>1. \A v \in Range(g.left) : v \in DOMAIN g.found /\ g.found[v] \in Seq(FoundBlob)
      BY <1>2, <1>7, <1>18 DEF IsListing
    <2>2. \A x, y \in DOMAIN g.left : g.left[x] = g.left[y] => x = y
      BY <1>2, <1>7
    <2>3. g.seen \cap Range(g.left) = {}
      BY <1>2, <1>7, <1>14 DEF IsListing
    <2>4. \A w \in Range(i.stale) : /\ w.user \notin Range(i.left)
                                    /\ \/ w.do = "upsert" /\ w.row.kind # "none"
                                       \/ w.do = "delete" /\ w.row = NoRow
      BY <1>2, <1>16 DEF IsListing
    <2>5. \A w \in Ahead(g) : /\ w.user \notin Range(g.left)
                              /\ \/ w.do = "upsert" /\ w.row.kind # "none"
                                 \/ w.do = "delete" /\ w.row = NoRow
      BY <1>2, <1>7, <1>11, <1>16, <1>17, <2>4
    <2> QED
      BY <2>1, <2>2, <2>3, <2>5 DEF IsListing
  <1>20. FilesOf(found) = files
    BY <1>4 DEF FilesOf
  <1>21. GoneOf(u, found) = gone /\ PublicOf(u) = public
    BY <1>20 DEF GoneOf, PublicOf, gone, indexed
  <1>22. i.one \/ u \in g.seen => Range(more) = {Delete(u, n) : n \in gone}
    <2>1. i.one => removes
      BY DEF removes
    <2> QED
      BY <1>3, <1>7, <1>12, <1>14, <2>1
  <1>23. PICK ws : ws = ScanWrites(u, found, PublicOf(u))
    OBVIOUS
  <1>24. writes = ws
    BY <1>21, <1>23 DEF writes
  <1> HIDE DEF gone, found, u, public
  <1>25. \A w \in Ahead(g) : \/ w \in Ahead(i) /\ w.user # u
                             \/ w \in Range(ws) /\ w.user = u
                             \/ \E n \in gone : w = Delete(u, n)
    <2>1. \A w \in Range(i.stale) : w.user # u
      BY <1>2, <1>16 DEF IsListing
    <2> QED
      BY <1>11, <1>12, <1>16, <1>24, <2>1
  <1>26. Ahead(i) \cup Range(ws) \subseteq Ahead(g)
    BY <1>16, <1>24
  <1>27. i.one \/ u \in g.seen => \A n \in gone : Delete(u, n) \in Ahead(g)
    BY <1>16, <1>22
  <1>28. \A v \in Range(g.left) : v # u /\ v \in Range(i.left) /\ g.found[v] = i.found[v]
    BY <1>2, <1>7, <1>18
  <1>29. g.left = Tail(i.left) /\ g.one = i.one /\ g.user = i.user /\ g.seen \subseteq i.seen \cup {u}
    BY <1>7, <1>14 DEF rest
  <1>30. ReadsRows(i, u, found, g)
    BY <1>2, <1>15, <1>19, <1>21, <1>23, <1>25, <1>26, <1>27, <1>28, <1>29 DEF ReadsRows
  <1> QED
    BY <1>8, <1>30 DEF u, found

(* The scan knows its blobs and repairs what it has seen also when it has read the rows. *)
LEMMA ReadRowsStep ==
  ASSUME StorageInv, NEW c \in Callers, ReadRows(c)
  PROVE  StorageInv'
  <1>1. PICK i, u, found : i = cur[c] /\ u = Head(i.left) /\ found = i.found[u]
    OBVIOUS
  <1>2. PICK g : ReadsRows(i, u, found, g) /\ ScanGoesOn(c, g) /\ fresh' = Vouched(c, g, {})
    BY <1>1, ReadRowsFacts
  <1>3. pc[c] = "cache" /\ UNCHANGED <<blob, rows, dirty>>
    BY DEF ReadRows, AtStep
  <1>4. /\ IsListing(i) /\ IndexTypeOK /\ (~dirty[c] => ListsAgree(i))
        /\ u \in Accounts /\ u \in Range(i.left)
    BY <1>1, <1>3, ScannerFacts DEF Scanning
  <1>5. found \in Seq(FoundBlob) /\ u \notin i.seen
    BY <1>1, <1>4 DEF IsListing
  <1>6. ASSUME ~dirty[c] PROVE ListsAgree(g)'
    <2>1. ListsAgree(i)
      BY <1>4, <1>6
    <2>2. \A v \in Range(g.left) : Lists(g.found[v], v)
      BY <1>2, <2>1 DEF ReadsRows, ListsAgree
    <2>3. ASSUME NEW v \in i.seen, NEW n \in Names PROVE Repairs(v, n, Ahead(g))
      <3>1. Repairs(v, n, Ahead(i)) /\ v # u
        BY <1>5, <2>1 DEF ListsAgree
      <3>2. \A m : Delete(u, m).user = u
        BY DEF Delete
      <3>3. Ahead(i) \subseteq Ahead(g) /\ \A w \in Ahead(g) \ Ahead(i) : w.user # v
        BY <1>2, <3>1, <3>2 DEF ReadsRows
      <3> QED
        BY <3>1, <3>3, RepairsOfOthers
    <2>4. ASSUME u \in g.seen, NEW n \in Names PROVE Repairs(u, n, Ahead(g))
      <3>1. Lists(found, u)
        BY <1>1, <1>4, <2>1 DEF ListsAgree
      <3>2. PlansFor(u, found, PublicOf(u), Ahead(g))
        BY <1>2, <2>4 DEF PlansFor, ReadsRows
      <3>3. PICK p, ahead : p = PublicOf(u) /\ ahead = Ahead(g)
        OBVIOUS
      <3>4. Repairs(u, n, ahead)
        BY <1>4, <1>5, <3>1, <3>2, <3>3, ListedIsRepaired
      <3> QED
        BY <3>3, <3>4
    <2>5. \A v \in g.seen, n \in Names : Repairs(v, n, Ahead(g))
      BY <1>2, <2>3, <2>4 DEF ReadsRows
    <2>6. ListsAgree(g)
      BY <2>2, <2>5 DEF ListsAgree
    <2> QED
      BY <1>2, <1>3, <2>6, AgreesStays DEF SameKinds, ReadsRows
  <1>7. OtherScansStay(c) /\ IndexTypeOK'
    BY <1>3, <1>4 DEF OtherScansStay, SameKinds, IndexTypeOK
  <1>8. dirty' = [x \in Callers |-> dirty'[x]]
    BY <1>3 DEF StorageInv
  <1> QED
    BY <1>2, <1>3, <1>6, <1>7, <1>8, ScanContinues DEF ReadsRows

(* A statement that has run is no longer ahead. *)
LEMMA StatementRuns ==
  ASSUME IndexTypeOK, NEW w \in Statement,
         \/ w.do = "upsert" /\ w.row.kind # "none"
         \/ w.do = "delete" /\ w.row = NoRow,
         rows' = [rows EXCEPT ![w.user] = Written(@, w)], UNCHANGED blob,
         NEW more, NEW v \in Users, NEW n \in Names, Repairs(v, n, {w} \cup more)
  PROVE  Repairs(v, n, more)'
  <1> DEFINE ahead == {w} \cup more
             new == Written(rows[w.user], w)
  <1>1. w.user \in Users
    BY StorageAssumption DEF Statement
  <1>2. rows[w.user] \in [Names -> IndexRow] /\ rows \in [Users -> [Names -> IndexRow]]
    BY <1>1 DEF IndexTypeOK
  <1>3. w.do \in {"upsert", "delete"} /\ new = [rows[w.user] EXCEPT ![w.name] = w.row]
    BY <1>2, WrittenFacts
  <1>4. rows' = [rows EXCEPT ![w.user] = new]
    OBVIOUS
  <1> HIDE DEF new
  <1>5. rows'[v][n] = IF v = w.user /\ n = w.name THEN w.row ELSE rows[v][n]
    BY <1>1, <1>2, <1>3, <1>4
  <1>6. more \subseteq ahead /\ w \in ahead /\ \A x \in ahead : x = w \/ x \in more
    OBVIOUS
  <1>7. Repairs(v, n, ahead)
    OBVIOUS
  <1> HIDE DEF ahead
  <1>8. CASE v = w.user /\ n = w.name
    <2>1. rows'[v][n] = w.row /\ NoRow.kind = "none"
      BY <1>5, <1>8 DEF NoRow
    <2> QED
      BY <1>6, <1>7, <1>8, <2>1 DEF Repairs, IsFile, IsFolder
  <1>9. CASE ~(v = w.user /\ n = w.name)
    <2>1. rows'[v][n] = rows[v][n]
      BY <1>5, <1>9
    <2>2. \A x \in ahead : x.user = v /\ x.name = n => x \in more
      BY <1>6, <1>9
    <2> QED
      BY <1>6, <1>7, <2>1, <2>2 DEF Repairs, IsFile, IsFolder
  <1> QED
    BY <1>8, <1>9

(* A scan writes or removes a row: other scans of it are disturbed. *)
LEMMA ScanWriteStep ==
  ASSUME StorageInv, NEW c \in Callers, ScanWrite(c)
  PROVE  StorageInv'
  <1> DEFINE i == cur[c]
             rest == Tail(i.todo)
             k == [i EXCEPT !.todo = rest]
  <1>1. PICK w : w = Head(i.todo)
    OBVIOUS
  <1>2. PICK g : g = k
    OBVIOUS
  <1>3. /\ pc[c] = "scan" /\ UNCHANGED blob
        /\ rows' = [rows EXCEPT ![w.user] = Written(@, w)]
        /\ ScanGoesOn(c, g) /\ fresh' = Vouched(c, g, {w.user})
        /\ dirty' = [x \in Callers |-> dirty[x] \/ x \in Reading \ {c}]
    BY <1>1, <1>2 DEF ScanWrite, AtStep
  <1>4. /\ IsNote(i) /\ IsListing(i) /\ IndexTypeOK /\ (~dirty[c] => ListsAgree(i))
        /\ i.todo \in Seq(Statement) /\ i.todo # <<>>
    BY <1>3, ScannerFacts DEF Scanning, IsNote
  <1>5. w \in Statement /\ rest \in Seq(Statement) /\ Range(i.todo) = {w} \cup Range(rest)
    BY <1>1, <1>4, HeadAndTail
  <1>6. w.user \in Accounts /\ w.user \in Users
    BY <1>5, StorageAssumption DEF Statement
  <1> HIDE DEF rest
  <1>7. /\ IsNote(g) /\ g.left = i.left /\ g.found = i.found /\ g.seen = i.seen
        /\ g.todo = rest /\ g.stale = i.stale
    BY <1>2, <1>4, <1>5 DEF IsNote, NoteFields
  <1> HIDE DEF k
  <1>8. Ahead(i) = {w} \cup Ahead(g)
    BY <1>5, <1>7 DEF Ahead
  <1>9. IsListing(g)
    BY <1>4, <1>7, <1>8 DEF IsListing
  <1>10. \/ w.do = "upsert" /\ w.row.kind # "none"
         \/ w.do = "delete" /\ w.row = NoRow
    BY <1>4, <1>8 DEF IsListing
  <1>11. ASSUME ~dirty[c] PROVE ListsAgree(g)'
    <2>1. ListsAgree(i)
      BY <1>4, <1>11
    <2>2. \A v \in Range(g.left) : Lists(g.found[v], v)'
      <3>1. \A v \in Range(g.left) : Lists(g.found[v], v)
        BY <1>7, <2>1 DEF ListsAgree
      <3> QED
        BY <1>3, <3>1 DEF Lists
    <2>3. ASSUME NEW v \in g.seen, NEW n \in Names PROVE Repairs(v, n, Ahead(g))'
      <3>1. PICK more : more = Ahead(g)
        OBVIOUS
      <3>2. Repairs(v, n, {w} \cup more) /\ v \in Users
        BY <1>4, <1>7, <1>8, <2>1, <3>1 DEF ListsAgree, IsNote
      <3>3. Repairs(v, n, more)'
        BY <1>3, <1>4, <1>5, <1>10, <3>2, StatementRuns
      <3> QED
        BY <3>1, <3>3 DEF Ahead
    <2> QED
      BY <2>2, <2>3 DEF ListsAgree
  <1>12. IndexTypeOK' /\ \A v \in Users \ {w.user} : rows'[v] = rows[v]
    BY <1>3, <1>4, <1>5, <1>6, RowsKept
  <1>13. (~dirty'[c] => ~dirty[c]) /\ dirty' = [x \in Callers |-> dirty'[x]]
    <2>1. dirty = [x \in Callers |-> dirty[x]]
      BY DEF StorageInv
    <2> QED
      BY <1>3, <2>1
  <1>14. OtherScansStay(c)
    BY <1>3, Zenon DEF OtherScansStay, Reading, Scanning
  <1>15. \A v \in Users \ {w.user} : blob'[v] = blob[v] /\ \A n \in Names : rows'[v][n].kind = rows[v][n].kind
    BY <1>3, <1>12
  <1>16. PICK writes : writes = {w.user}
    OBVIOUS
  <1>17. fresh' = Vouched(c, g, writes)
    BY <1>3, <1>16
  <1> HIDE DEF i
  <1> QED
    BY <1>3, <1>7, <1>9, <1>11, <1>12, <1>13, <1>14, <1>15, <1>16, <1>17, ScanContinues

(* The invariant holds to begin with: nothing has been scanned. *)
LEMMA StorageInitSound == StorageInit => StorageInv
  <1> SUFFICES ASSUME StorageInit PROVE StorageInv
    OBVIOUS
  <1>1. PICK st \in Stores :
          /\ blob = [u \in Users |-> IF u \in Accounts THEN Stored(st.files, st.folders) ELSE Stored(Files, {})]
          /\ rows = [u \in Users |-> IF u \in Accounts THEN Indexed(st) ELSE [n \in Names |-> NoRow]]
    BY DEF StorageInit
  <1>2. /\ pc = [c \in Callers |-> "idle"] /\ cur = [c \in Callers |-> Nothing]
        /\ fresh = [u \in Users |-> FALSE] /\ dirty = [c \in Callers |-> FALSE]
    BY DEF StorageInit
  <1>3. \A files, folders : Stored(files, folders) \in [Names -> Kinds]
    BY DEF Stored, Kinds
  <1>4. Indexed(st) \in [Names -> IndexRow] /\ [n \in Names |-> NoRow] \in [Names -> IndexRow]
    <2>1. /\ NoRow \in IndexRow /\ FolderRow \in IndexRow
          /\ \A n \in Names : FileRow(n \in st.gallery) \in IndexRow
      BY DEF NoRow, FolderRow, FileRow, IndexRow, Kinds
    <2> QED
      BY <2>1 DEF Indexed
  <1>5. IndexTypeOK
    <2>1. blob \in [Users -> [Names -> Kinds]]
      BY <1>1, <1>3
    <2>2. rows \in [Users -> [Names -> IndexRow]]
      BY <1>1, <1>4
    <2>3. \A u \in Users \ Accounts, n \in Names : rows[u][n] = NoRow
      BY <1>1
    <2> QED
      BY <2>1, <2>2, <2>3 DEF IndexTypeOK
  <1>6. ASSUME NEW c \in Callers PROVE CallerOK(c)
    <2>1. pc[c] = "idle" /\ cur[c] = Nothing
      BY <1>2
    <2>2. IsPlain("idle", Nothing) /\ "idle" \notin Scanning
      BY NothingIsPlain DEF Operating, Scanning
    <2> QED
      BY <2>1, <2>2 DEF CallerOK
  <1> QED
    BY <1>2, <1>5, <1>6 DEF StorageInv

(* Every step keeps it. *)
LEMMA StorageNextSound == StorageInv /\ [StorageNext]_storageVars => StorageInv'
  <1> SUFFICES ASSUME StorageInv, [StorageNext]_storageVars PROVE StorageInv'
    OBVIOUS
  <1>1. ASSUME NEW c \in Callers, NEW u \in Accounts, FileCalls(c, u) PROVE StorageInv'
    <2>1. FileMoves \cup Renames \subseteq Names \X Names
      BY StorageAssumption
    <2>2. ASSUME NEW names \in FileMoves, Move(c, u, names[1], names[2]) PROVE StorageInv'
      BY <2>1, <2>2, MoveStep
    <2>3. ASSUME NEW names \in Renames, Rename(c, u, names[1], names[2]) PROVE StorageInv'
      BY <2>1, <2>3, MoveStep
    <2> QED
      BY <1>1, <2>2, <2>3, UploadStep, CreateFolderStep, DeleteFolderCallStep, ScanStarts DEF FileCalls
  <1>2. ASSUME NEW c \in Callers, Steps(c) PROVE StorageInv'
    <2>1. CASE PutBlob(c)
      BY <2>1, PutBlobStep
    <2>2. CASE DeleteBlob(c)
      BY <2>2, DeleteBlobStep
    <2>3. CASE BlobFails(c)
      BY <2>3, BlobFailsStep
    <2>4. CASE PutFolder(c)
      BY <2>4, PutFolderStep
    <2>5. CASE EndsAtOnce(c)
      BY <2>5, EndsAtOnceStep
    <2>6. CASE LookUp(c)
      BY <2>6, LookUpStep
    <2>7. CASE CheckTarget(c)
      BY <2>7, CheckTargetStep
    <2>8. CASE RenameCheck(c)
      BY <2>8, RenameCheckStep
    <2>9. CASE CopyBlob(c)
      BY <2>9, CopyBlobStep
    <2>10. CASE UnlinkBlob(c)
      BY <2>10, UnlinkBlobStep
    <2>11. CASE RenameFails(c)
      BY <2>11, RenameFailsStep
    <2>12. CASE WriteRow(c) \/ RowFails(c)
      BY <2>12, WriteRowStep
    <2>13. CASE CheckUser(c)
      BY <2>13, CheckUserStep
    <2>14. CASE ListBlobs(c)
      BY <2>14, ListBlobsStep
    <2>15. CASE CheckAccount(c)
      BY <2>15, CheckAccountStep
    <2>16. CASE CheckFails(c)
      BY <2>16, CheckFailsStep
    <2>17. CASE ReadRows(c)
      BY <2>17, ReadRowsStep
    <2>18. CASE ScanWrite(c)
      BY <2>18, ScanWriteStep
    <2>19. CASE ScanFails(c)
      BY <2>19, ScanFailsStep
    <2> QED
      BY <1>2, <2>1, <2>2, <2>3, <2>4, <2>5, <2>6, <2>7, <2>8, <2>9, <2>10, <2>11, <2>12, <2>13,
         <2>14, <2>15, <2>16, <2>17, <2>18, <2>19 DEF Steps
  <1>3. ASSUME NEW c \in Callers, ScanAll(c) PROVE StorageInv'
    BY <1>3, ScanStarts
  <1>4. ASSUME NEW u \in Accounts, NEW n \in Files,
               Report(u, n) \/ \E gallery \in BOOLEAN : SetGallery(u, n, gallery)
        PROVE  StorageInv'
    BY <1>4, FlagStep
  <1>5. CASE UNCHANGED storageVars
    <2>1. UNCHANGED <<blob, rows, pc, cur, fresh, dirty>>
      BY <1>5 DEF storageVars, history
    <2>2. \A x \in Callers : CallerOK(x)'
      <3> TAKE x \in Callers
      <3>1. SameKinds /\ CallerOK(x)
        BY <2>1 DEF StorageInv, SameKinds
      <3> QED
        BY <2>1, <3>1, CallerStays
    <2>3. ASSUME NEW u \in Users, fresh'[u], NEW n \in Names PROVE Repairs(u, n, {})'
      <3>1. Repairs(u, n, {})
        BY <2>1, <2>3 DEF StorageInv
      <3> QED
        BY <2>1, <3>1, RepairsStays
    <2> QED
      BY <2>1, <2>2, <2>3 DEF StorageInv, IndexTypeOK
  <1> QED
    BY <1>1, <1>2, <1>3, <1>4, <1>5 DEF StorageNext

(* However operations, scans, flags and failing requests interleave, for every number of  *)
(* callers and users and every set of names: rows are well formed and kept only for users *)
(* who have an account, and after a scan that nothing has disturbed the index of every    *)
(* user it has seen repeats the files in storage (reindex).                               *)
THEOREM IndexStaysSound == StorageSpec => []IndexIsSound
  <1>1. StorageInv => IndexIsSound
    <2> SUFFICES ASSUME StorageInv PROVE IndexIsSound
      OBVIOUS
    <2>1. IndexTypeOK /\ \A u \in Users : fresh[u] => \A n \in Names : Repairs(u, n, {})
      BY DEF StorageInv
    <2>2. ScanRepairs
      BY <2>1 DEF ScanRepairs, Repairs
    <2> QED
      BY <2>1, <2>2 DEF IndexIsSound
  <1> QED
    BY <1>1, StorageInitSound, StorageNextSound, PTL DEF StorageSpec


-----------------------------------------------------------------------------
(* Names *)

(* A prefix has the first elements of the sequence. *)
LEMMA PrefixFacts ==
  ASSUME NEW S, NEW s \in Seq(S), NEW t \in Seq(S)
  PROVE  IsPrefix(s, t) <=> Len(s) <= Len(t) /\ \A i \in 1 .. Len(s) : s[i] = t[i]
  <1> DEFINE m == Len(s)
             p == SubSeq(s, 1, m)
             q == SubSeq(t, 1, m)
  <1>1. m \in Nat /\ Len(t) \in Nat /\ \A i \in 1 .. m : s[i] \in S
    OBVIOUS
  <1>2. p \in Seq(S) /\ Len(p) = m /\ \A i \in 1 .. m : p[i] = s[i]
    <2>1. m \in Int /\ 1 \in Int
      BY <1>1
    <2> HIDE DEF m
    <2> QED
      BY <1>1, <2>1, SubSeqProperties
  <1>3. ASSUME m <= Len(t)
        PROVE  q \in Seq(S) /\ Len(q) = m /\ \A i \in 1 .. m : q[i] = t[i]
    <2>1. m \in Int /\ 1 \in Int /\ \A i \in 1 .. m : t[i] \in S
      BY <1>1, <1>3
    <2> HIDE DEF m
    <2> QED
      BY <1>1, <2>1, SubSeqProperties
  <1>4. IsPrefix(s, t) <=> m <= Len(t) /\ p = q
    BY DEF IsPrefix
  <1> HIDE DEF m, p, q
  <1>5. ASSUME m <= Len(t), \A i \in 1 .. m : s[i] = t[i] PROVE p = q
    <2>1. Len(p) = Len(q) /\ \A i \in 1 .. Len(p) : p[i] = q[i]
      BY <1>2, <1>3, <1>5
    <2> QED
      BY <1>2, <1>3, <1>5, <2>1, SeqEqual
  <1>6. ASSUME m <= Len(t), p = q PROVE \A i \in 1 .. m : s[i] = t[i]
    BY <1>2, <1>3, <1>6
  <1> QED
    BY <1>4, <1>5, <1>6 DEF m

(* A folder inside a folder has only what the outer one has, and of two folders a  *)
(* name is in one is inside the other.                                             *)
LEMMA PrefixOrder ==
  ASSUME NEW S, NEW r \in Seq(S), NEW s \in Seq(S), NEW t \in Seq(S)
  PROVE  /\ IsPrefix(s, s)
         /\ IsPrefix(r, s) /\ IsPrefix(s, t) => IsPrefix(r, t)
         /\ IsPrefix(r, t) /\ IsPrefix(s, t) => IsPrefix(r, s) \/ IsPrefix(s, r)
  <1>1. Len(r) \in Nat /\ Len(s) \in Nat /\ Len(t) \in Nat
    OBVIOUS
  <1>2. IsPrefix(s, s)
    BY <1>1, PrefixFacts
  <1>3. ASSUME IsPrefix(r, s), IsPrefix(s, t) PROVE IsPrefix(r, t)
    <2>1. Len(r) <= Len(s) /\ \A i \in 1 .. Len(r) : r[i] = s[i]
      BY <1>3, PrefixFacts
    <2>2. Len(s) <= Len(t) /\ \A i \in 1 .. Len(s) : s[i] = t[i]
      BY <1>3, PrefixFacts
    <2>3. Len(r) <= Len(t) /\ \A i \in 1 .. Len(r) : r[i] = t[i]
      BY <1>1, <2>1, <2>2
    <2> QED
      BY <2>3, PrefixFacts
  <1>4. ASSUME IsPrefix(r, t), IsPrefix(s, t) PROVE IsPrefix(r, s) \/ IsPrefix(s, r)
    <2>1. \A i \in 1 .. Len(r) : r[i] = t[i]
      BY <1>4, PrefixFacts
    <2>2. \A i \in 1 .. Len(s) : s[i] = t[i]
      BY <1>4, PrefixFacts
    <2>3. CASE Len(r) <= Len(s)
      <3>1. \A i \in 1 .. Len(r) : r[i] = s[i]
        BY <1>1, <2>1, <2>2, <2>3
      <3> QED
        BY <2>3, <3>1, PrefixFacts
    <2>4. CASE Len(s) <= Len(r)
      <3>1. \A i \in 1 .. Len(s) : s[i] = r[i]
        BY <1>1, <2>1, <2>2, <2>4
      <3> QED
        BY <2>4, <3>1, PrefixFacts
    <2> QED
      BY <1>1, <2>3, <2>4
  <1> QED
    BY <1>2, <1>3, <1>4

(* A name inside old becomes one inside new, element by element. *)
LEMMA RenamedElements ==
  ASSUME NEW n \in Seq(Segments), NEW old \in Seq(Segments), NEW new \in Seq(Segments), IsPrefix(old, n)
  PROVE  LET r == Renamed(n, old, new)
         IN  /\ r \in Seq(Segments) /\ Len(r) = Len(new) + (Len(n) - Len(old))
             /\ \A i \in 1 .. Len(new) : r[i] = new[i]
             /\ \A i \in Len(old) + 1 .. Len(n) : r[Len(new) + (i - Len(old))] = n[i]
  <1> DEFINE rest == SubSeq(n, Len(old) + 1, Len(n))
             r == Renamed(n, old, new)
             a == Len(old)
             b == Len(n)
             d == Len(new)
  <1>1. a \in Nat /\ b \in Nat /\ d \in Nat /\ a <= b
    BY PrefixFacts
  <1>2. rest \in Seq(Segments) /\ Len(rest) = b - a /\ \A i \in 1 .. b - a : rest[i] = n[a + i]
    <2>1. a + 1 \in Int /\ b \in Int /\ \A i \in a + 1 .. b : n[i] \in Segments
      BY <1>1
    <2>2. /\ rest \in Seq(Segments) /\ Len(rest) = IF a + 1 <= b THEN b - (a + 1) + 1 ELSE 0
          /\ \A i \in 1 .. b - (a + 1) + 1 : rest[i] = n[(a + 1) + i - 1]
      <3> HIDE DEF a, b
      <3> QED
        BY <2>1, SubSeqProperties DEF a, b
    <2> HIDE DEF rest, a, b
    <2>3. b - (a + 1) + 1 = b - a
      BY <1>1
    <2>4. \A i \in 1 .. b - a : (a + 1) + i - 1 = a + i
      BY <1>1
    <2> QED
      BY <1>1, <2>2, <2>3, <2>4
  <1>3. r = new \o rest
    BY DEF Renamed
  <1> HIDE DEF rest, r
  <1>4. /\ r \in Seq(Segments) /\ Len(r) = d + (b - a)
        /\ \A i \in 1 .. d + (b - a) : r[i] = IF i <= d THEN new[i] ELSE rest[i - d]
    <2>1. /\ new \o rest \in Seq(Segments) /\ Len(new \o rest) = Len(new) + Len(rest)
          /\ \A i \in 1 .. Len(new) + Len(rest) :
               (new \o rest)[i] = IF i <= Len(new) THEN new[i] ELSE rest[i - Len(new)]
      BY <1>2, ConcatProperties
    <2> QED
      BY <1>2, <1>3, <2>1
  <1> HIDE DEF a, b, d
  <1>5. \A i \in 1 .. d : r[i] = new[i]
    BY <1>1, <1>4
  <1>6. ASSUME NEW i \in a + 1 .. b PROVE r[d + (i - a)] = n[i]
    <2>1. PICK j \in 1 .. b - a : j = i - a
      BY <1>1
    <2>2. d + j \in 1 .. d + (b - a) /\ ~(d + j <= d) /\ (d + j) - d = j /\ a + j = i
      BY <1>1, <2>1
    <2> QED
      BY <1>2, <1>4, <2>1, <2>2
  <1> QED
    BY <1>4, <1>5, <1>6 DEF a, b, d, r

(* Renaming keeps what is inside what, and gives two names two names. *)
LEMMA RenamedOrder ==
  ASSUME NEW n \in Seq(Segments), NEW m \in Seq(Segments), NEW old \in Seq(Segments), NEW new \in Seq(Segments),
         IsPrefix(old, n), IsPrefix(old, m)
  PROVE  /\ IsPrefix(new, Renamed(n, old, new))
         /\ IsPrefix(n, m) => IsPrefix(Renamed(n, old, new), Renamed(m, old, new))
         /\ Renamed(n, old, new) = Renamed(m, old, new) => n = m
         /\ Renamed(old, old, new) = new
  <1> DEFINE r(x) == Renamed(x, old, new)
             a == Len(old)
             d == Len(new)
  <1>1. /\ a \in Nat /\ d \in Nat /\ Len(n) \in Nat /\ Len(m) \in Nat /\ a <= Len(n) /\ a <= Len(m)
        /\ \A i \in 1 .. a : n[i] = old[i] /\ m[i] = old[i]
    BY PrefixFacts
  <1>2. \A x \in {n, m, old} : /\ r(x) \in Seq(Segments) /\ Len(r(x)) = d + (Len(x) - a)
                               /\ \A i \in 1 .. d : r(x)[i] = new[i]
                               /\ \A i \in a + 1 .. Len(x) : r(x)[d + (i - a)] = x[i]
    <2>1. IsPrefix(old, old)
      BY PrefixOrder
    <2>2. \A x \in Seq(Segments) : IsPrefix(old, x) =>
            /\ r(x) \in Seq(Segments) /\ Len(r(x)) = d + (Len(x) - a)
            /\ \A i \in 1 .. d : r(x)[i] = new[i]
            /\ \A i \in a + 1 .. Len(x) : r(x)[d + (i - a)] = x[i]
      BY RenamedElements
    <2> HIDE DEF r, a, d
    <2> QED
      BY <2>1, <2>2
  <1> HIDE DEF r
  <1>3. IsPrefix(new, r(n))
    <2>1. d <= Len(r(n)) /\ \A i \in 1 .. d : new[i] = r(n)[i]
      BY <1>1, <1>2
    <2> QED
      BY <1>2, <2>1, PrefixFacts
  <1>4. ASSUME NEW i \in Nat, d + 1 <= i, i <= d + (Len(n) - a)
        PROVE  /\ i - d + a \in a + 1 .. Len(n) /\ i = d + ((i - d + a) - a)
               /\ r(n)[i] = n[i - d + a]
    <2>1. PICK j : j = i - d + a
      OBVIOUS
    <2>2. j \in a + 1 .. Len(n) /\ i = d + (j - a)
      BY <1>1, <1>4, <2>1
    <2>3. r(n)[d + (j - a)] = n[j]
      BY <1>2, <2>2
    <2> QED
      BY <2>1, <2>2, <2>3
  <1>5. ASSUME IsPrefix(n, m) PROVE IsPrefix(r(n), r(m))
    <2>1. Len(n) <= Len(m) /\ \A i \in 1 .. Len(n) : n[i] = m[i]
      BY <1>5, PrefixFacts
    <2>2. Len(r(n)) <= Len(r(m))
      BY <1>1, <1>2, <2>1
    <2>3. ASSUME NEW i \in 1 .. Len(r(n)) PROVE r(n)[i] = r(m)[i]
      <3>1. CASE i <= d
        BY <1>1, <1>2, <3>1
      <3>2. CASE ~(i <= d)
        <4>1. PICK j \in a + 1 .. Len(n) : i = d + (j - a)
          <5>1. i - d + a \in a + 1 .. Len(n) /\ i = d + ((i - d + a) - a)
            BY <1>1, <1>2, <3>2
          <5> QED
            BY <5>1
        <4>2. r(n)[d + (j - a)] = n[j] /\ r(m)[d + (j - a)] = m[j]
          BY <1>1, <1>2, <2>1
        <4>3. n[j] = m[j]
          BY <1>1, <2>1
        <4> QED
          BY <4>1, <4>2, <4>3
      <3> QED
        BY <3>1, <3>2
    <2> QED
      BY <1>2, <2>2, <2>3, PrefixFacts
  <1>6. ASSUME r(n) = r(m) PROVE n = m
    <2>1. Len(n) = Len(m)
      BY <1>1, <1>2, <1>6
    <2>2. ASSUME NEW i \in 1 .. Len(n) PROVE n[i] = m[i]
      <3>1. CASE i <= a
        BY <1>1, <3>1
      <3>2. CASE ~(i <= a)
        <4>1. i \in a + 1 .. Len(n) /\ i \in a + 1 .. Len(m)
          BY <1>1, <2>1, <3>2
        <4>2. r(n)[d + (i - a)] = n[i] /\ r(m)[d + (i - a)] = m[i]
          BY <1>2, <4>1
        <4> QED
          BY <1>6, <4>2
      <3> QED
        BY <3>1, <3>2
    <2> QED
      BY <2>1, <2>2, SeqEqual
  <1>7. r(old) = new
    <2>1. Len(r(old)) = d /\ \A i \in 1 .. Len(r(old)) : r(old)[i] = new[i]
      BY <1>1, <1>2
    <2> QED
      BY <1>2, <2>1, SeqEqual DEF d
  <1> QED
    BY <1>3, <1>5, <1>6, <1>7 DEF r

(* What rename_file makes of the names it is for. *)
LEMMA RenamesFacts ==
  ASSUME NEW from, NEW to, <<from, to>> \in Renames, NEW n \in Names, IsPrefix(from, n)
  PROVE  /\ from \in Names /\ to \in Names /\ from \in Seq(Segments) /\ to \in Seq(Segments)
         /\ Renamed(n, from, to) \in Names /\ IsPrefix(to, Renamed(n, from, to))
         /\ IsPrefix(from, from) /\ IsPrefix(to, to) /\ Renamed(from, from, to) = to
         /\ \A m \in Names : IsPrefix(from, m) /\ Renamed(m, from, to) = Renamed(n, from, to) => m = n
         /\ Renamed(n, from, to) \in Innermost => n \in Innermost
  <1> DEFINE r(x) == Renamed(x, from, to)
  <1>1. /\ from \in Names /\ to \in Names /\ from \in Seq(Segments) /\ to \in Seq(Segments)
        /\ n \in Seq(Segments)
    BY BatchFacts, NameFacts
  <1>2. \A x \in Names : IsPrefix(from, x) => r(x) \in Names
    BY StorageAssumption
  <1>3. IsPrefix(from, from) /\ IsPrefix(to, to)
    BY <1>1, PrefixOrder
  <1>4. IsPrefix(to, r(n)) /\ r(from) = to
    BY <1>1, RenamedOrder
  <1>5. \A m \in Names : IsPrefix(from, m) /\ r(m) = r(n) => m = n
    BY <1>1, NameFacts, RenamedOrder
  <1>6. ASSUME n \notin Innermost PROVE r(n) \notin Innermost
    <2>1. PICK m \in Names : IsPrefix(n, m) /\ n # m
      BY <1>6 DEF Innermost, Inside, IsStrictPrefix
    <2>2. m \in Seq(Segments) /\ IsPrefix(from, m)
      <3>1. m \in Seq(Segments)
        BY NameFacts
      <3> QED
        BY <1>1, <2>1, <3>1, PrefixOrder
    <2>3. IsPrefix(r(n), r(m)) /\ r(n) # r(m)
      BY <1>1, <2>1, <2>2, RenamedOrder
    <2>4. r(m) \in Names
      BY <1>2, <2>2
    <2> HIDE DEF r
    <2> QED
      BY <2>3, <2>4 DEF Innermost, Inside, IsStrictPrefix
  <1> QED
    BY <1>1, <1>2, <1>3, <1>4, <1>5, <1>6

-----------------------------------------------------------------------------
(* The gallery: the inductive invariant, in terms of what one user has (the blobs b, *)
(* the flags w asked for, the rows rs) and of what the caller k at work for that      *)
(* user knows at its step.                                                            *)

FileIn(b, n) == b[n] = "file" /\ Last(n) # Placeholder

HasBlobs(b) == \E m \in Names : b[m] # "none"

\* The rows that say of a file what its owner asked for, and those that also name no
\* file that is not there.
GoodRows(b, w, n) == {row \in IndexRow : FileIn(b, n) => row.kind = "file" /\ row.public = w[n]}

FitRows(b, w, n) == {row \in GoodRows(b, w, n) : b[n] = "none" /\ HasBlobs(b) => row.kind # "file"}

\* Whether a statement changes the row of a name, and what it leaves there.
Hits(s, n) == IF s.do = "delete folder" THEN IsPrefix(s.name, n) ELSE s.name = n

Leaves(s) == IF s.do = "upsert" THEN s.row ELSE NoRow

\* The row is good, or one of the statements ahead will change it, and each of these
\* leaves a good one.
Comes(good, rs, ahead, n) ==
  /\ \A s \in ahead : Hits(s, n) => Leaves(s) \in good
  /\ rs[n] \in good \/ \E s \in ahead : Hits(s, n)

GoodAhead(b, w, rs, ahead, X) == \A n \in Innermost \ X : Comes(GoodRows(b, w, n), rs, ahead, n)

FitAhead(b, w, rs, ahead) == \A n \in Innermost : Comes(FitRows(b, w, n), rs, ahead, n)

Settled(b, w, rs) == FitAhead(b, w, rs, {})

NewName(k) == Renamed(Head(k.work), k.from, k.to)

AllUploaded(todo) == \A s \in Range(todo) : s.do = "upsert" /\ s.row.kind = "file" /\ s.row.public = FALSE

MakesFolder(k) == \E f \in Folders : \/ k.work = <<f, InitOf(f)>> /\ k.todo = <<>>
                                     \/ k.work = <<InitOf(f)>>

\* delete_folder still has to delete every blob there is in the folder.
DeletesAll(b, k) ==
  k.op = "delete folder" => \A n \in Names : IsPrefix(k.to, n) /\ b[n] # "none" => n \in Range(k.work)

Renaming == {"look up", "target", "rename", "copy", "unlink"}

\* rename_file with a file, and up to its look at the target also with a folder.
Single(b, w, rs, step, k) ==
  /\ k.work = <<k.from>> /\ k.todo = <<>> /\ <<k.from, k.to>> \in Renames /\ k.from # k.to
  /\ step # "look up" => k.rows = Listed(rs)
  /\ step = "target" => k.op = "rename folder"
  /\ step \in {"rename", "copy", "unlink"} => k.rows[k.from].kind # "folder"
  /\ step \in {"look up", "target", "rename"} => Settled(b, w, rs)
  /\ step = "copy" => GoodAhead(b, w, rs, {}, {})
  /\ step = "unlink" => GoodAhead(b, w, rs, {}, {NewName(k)}) /\ b[NewName(k)] = b[k.from]

\* No name is in the old folder and in the new one, or there is nothing in the old one.
Apart(b, k) ==
  \A n, m \in Names : IsPrefix(k.from, n) /\ IsPrefix(k.to, n) /\ IsPrefix(k.from, m) => b[m] = "none"

\* What there is in the folder: its rows are good; what has not been renamed is still
\* to come, and its new name is free.
OldNames(b, w, rs, k, X) ==
  \A n \in Innermost : IsPrefix(k.from, n) =>
    /\ rs[n] \in GoodRows(b, w, n)
    /\ b[n] # "none" => n \in Range(k.work) \/ k.from \in Range(k.work)
    /\ b[n] # "none" /\ Renamed(n, k.from, k.to) \notin X => b[Renamed(n, k.from, k.to)] = "none"

\* What has been renamed: no statement is for the new name of what has not, and the
\* row of what has says what was asked for.
NewNames(b, w, rs, k, X) ==
  \A n \in Names : IsPrefix(k.from, n) =>
    /\ b[n] # "none" => \A s \in Range(k.todo) : ~Hits(s, Renamed(n, k.from, k.to))
    /\ Renamed(n, k.from, k.to) \in Innermost \ X /\ FileIn(b, Renamed(n, k.from, k.to)) =>
         rs[n].kind = "file" /\ rs[n].public = w[Renamed(n, k.from, k.to)]

\* rename_file with a folder; X has the new name of the blob that is copied and not
\* yet deleted.
FolderMoves(b, w, rs, k, X) ==
  /\ k.rows = Listed(rs) /\ <<k.from, k.to>> \in Renames /\ k.from # k.to /\ k.op = "rename folder"
  /\ GoodAhead(b, w, rs, Range(k.todo), X)
  /\ \A n \in Range(k.work) : IsPrefix(k.from, n)
  /\ Apart(b, k) /\ OldNames(b, w, rs, k, X) /\ NewNames(b, w, rs, k, X)

\* A scan that has not come to the user knows the blobs; one that has leaves rows that fit.
ListsOf(b, found) ==
  /\ \A i \in DOMAIN found : b[found[i].name] = found[i].kind
  /\ \A n \in Names : b[n] # "none" => \E i \in DOMAIN found : found[i].name = n

Until(b, w, rs, k) == IF k.one THEN GoodAhead(b, w, rs, {}, {}) ELSE Settled(b, w, rs)

ScanComes(b, w, rs, u, k) ==
  IF u \in Range(k.left) THEN ListsOf(b, k.found[u]) /\ Until(b, w, rs, k)
  ELSE FitAhead(b, w, rs, {s \in Ahead(k) : s.user = u})

Renames2(b, w, rs, step, k) ==
  IF step \in {"look up", "target"} \/ k.op = "rename" THEN Single(b, w, rs, step, k)
  ELSE /\ FolderMoves(b, w, rs, k, IF step = "unlink" THEN {NewName(k)} ELSE {})
       /\ step = "unlink" => b[NewName(k)] = b[Head(k.work)]

On(b, w, rs, u, step, k) ==
  /\ step = "idle" => Settled(b, w, rs)
  /\ step \in {"put", "delete", "folder", "rows"} => GoodAhead(b, w, rs, Range(k.todo), {})
  /\ step = "put" => AllUploaded(k.todo)
  /\ step = "delete" => DeletesAll(b, k)
  /\ step = "folder" => MakesFolder(k)
  /\ step \in Renaming => IF step \in {"copy", "unlink"} /\ k.op = "move"
                           THEN GoodAhead(b, w, rs, {}, IF step = "copy" THEN {} ELSE {NewName(k)})
                           ELSE Renames2(b, w, rs, step, k)
  /\ step = "user" => GoodAhead(b, w, rs, {}, {})
  /\ step = "list" => Until(b, w, rs, k)
  /\ step \in Scanning => ScanComes(b, w, rs, u, k)

\* A call for one user has to do with that user only.
Minds(step, k) ==
  /\ step # "idle" /\ ~k.one => step \in {"list"} \cup Scanning
  /\ step \in Scanning /\ k.one => Range(k.left) \subseteq {k.user} /\ \A s \in Ahead(k) : s.user = k.user

OnFor(c, u) == On(blob[u], wish[u], rows[u], u, pc[c], cur[c])

\* Undisturbed, one caller at most is at work for the user, and the rows come out
\* right when it ends.
Calm(u) == ~disturbed[u] =>
  /\ \A c, d \in Busy(u) : c = d
  /\ Busy(u) = {} => Settled(blob[u], wish[u], rows[u])
  /\ \A c \in Busy(u) : OnFor(c, u)

GalleryInv ==
  /\ wish \in [Users -> [Names -> BOOLEAN]]
  /\ disturbed = [u \in Users |-> disturbed[u]]
  /\ \A c \in Callers : Minds(pc[c], cur[c])
  /\ \A u \in Accounts : Calm(u)

-----------------------------------------------------------------------------
(* A step of one caller *)

Untouched(u) == UNCHANGED <<blob[u], wish[u], rows[u]>> /\ (disturbed'[u] <=> disturbed[u])

\* Only c moves, and minds what it should; the histories are well formed.
Turned(c) ==
  /\ \A x \in Callers \ {c} : pc'[x] = pc[x] /\ cur'[x] = cur[x]
  /\ Minds(pc'[c], cur'[c])
  /\ wish' \in [Users -> [Names -> BOOLEAN]] /\ disturbed' = [u \in Users |-> disturbed'[u]]

(* A caller goes on with its call, or ends: it is enough to look at the users the call *)
(* is for, as long as they are undisturbed.                                            *)
LEMMA CallGoesOn ==
  ASSUME GalleryInv, NEW c \in Callers, pc[c] # "idle", Turned(c),
         pc'[c] # "idle" => (cur'[c].one <=> cur[c].one) /\ cur'[c].user = cur[c].user,
         \A u \in Accounts : c \notin Busy(u) => Untouched(u),
         \A u \in Accounts : c \in Busy(u) /\ ~disturbed'[u] => ~disturbed[u] /\ (OnFor(c, u) => OnFor(c, u)')
  PROVE  GalleryInv'
  <1>1. /\ wish' \in [Users -> [Names -> BOOLEAN]] /\ disturbed' = [u \in Users |-> disturbed'[u]]
        /\ \A x \in Callers : Minds(pc[x], cur[x])'
    BY DEF GalleryInv, Turned
  <1>2. ASSUME NEW u \in Accounts, ~disturbed'[u], c \in Busy(u) PROVE Calm(u)'
    <2>1. ~disturbed[u] /\ Calm(u)
      BY <1>2 DEF GalleryInv
    <2>2. (\A x \in Busy(u) : x = c) /\ OnFor(c, u)'
      BY <1>2, <2>1 DEF Calm
    <2>3. \A x \in Busy(u)' : x = c
      BY <2>2 DEF Busy, Turned
    <2>4. pc'[c] # "idle" => c \in Busy(u)'
      BY <1>2 DEF Busy
    <2>5. pc'[c] = "idle" => Settled(blob[u], wish[u], rows[u])'
      BY <2>2 DEF OnFor, On
    <2> QED
      BY <2>2, <2>3, <2>4, <2>5 DEF Calm
  <1>3. ASSUME NEW u \in Accounts, ~disturbed'[u], c \notin Busy(u) PROVE Calm(u)'
    <2>1. ~disturbed[u] /\ Calm(u) /\ blob'[u] = blob[u] /\ wish'[u] = wish[u] /\ rows'[u] = rows[u]
      BY <1>3 DEF GalleryInv, Untouched
    <2>2. Busy(u)' = Busy(u)
      BY <1>3 DEF Busy, Turned
    <2>3. ASSUME NEW x \in Busy(u) PROVE OnFor(x, u)'
      <3>1. OnFor(x, u) /\ x # c /\ x \in Callers
        BY <1>3, <2>1, <2>3 DEF Calm, Busy
      <3>2. pc'[x] = pc[x] /\ cur'[x] = cur[x]
        BY <3>1 DEF Turned
      <3> QED
        BY <2>1, <3>1, <3>2 DEF OnFor
    <2>4. Busy(u)' = {} => Settled(blob[u], wish[u], rows[u])'
      BY <2>1, <2>2 DEF Calm
    <2> QED
      BY <2>1, <2>2, <2>3, <2>4 DEF Calm
  <1>4. \A u \in Accounts : Calm(u)'
    BY <1>2, <1>3 DEF Calm
  <1> QED
    BY <1>1, <1>4 DEF GalleryInv

(* A caller begins a call: while another is at work for the same user that is a *)
(* disturbance.                                                                 *)
LEMMA CallBegins ==
  ASSUME GalleryInv, NEW c \in Callers, pc[c] = "idle", Turned(c), pc'[c] # "idle",
         UNCHANGED <<blob, wish, rows>>, NEW scope \in SUBSET Users,
         disturbed' = [u \in Users |-> disturbed[u] \/ (u \in scope /\ Busy(u) # {})],
         \A u \in Users : u \in scope <=> cur'[c].user = u \/ ~cur'[c].one,
         \A u \in Accounts : u \in scope /\ Settled(blob[u], wish[u], rows[u]) => OnFor(c, u)'
  PROVE  GalleryInv'
  <1>1. /\ wish' \in [Users -> [Names -> BOOLEAN]] /\ disturbed' = [u \in Users |-> disturbed'[u]]
        /\ \A x \in Callers : Minds(pc[x], cur[x])'
    BY DEF GalleryInv, Turned
  <1>2. ASSUME NEW u \in Accounts, ~disturbed'[u], u \in scope PROVE Calm(u)'
    <2>1. ~disturbed[u] /\ Busy(u) = {} /\ Calm(u)
      BY <1>2 DEF GalleryInv
    <2>2. OnFor(c, u)'
      BY <1>2, <2>1 DEF Calm
    <2>3. Busy(u)' = {c}
      <3>1. \A x \in Callers \ {c} : x \notin Busy(u)'
        BY <2>1 DEF Busy, Turned
      <3>2. c \in Busy(u)'
        BY <1>2 DEF Busy
      <3> QED
        BY <3>1, <3>2 DEF Busy
    <2> QED
      BY <2>2, <2>3 DEF Calm
  <1>3. ASSUME NEW u \in Accounts, ~disturbed'[u], u \notin scope PROVE Calm(u)'
    <2>1. ~disturbed[u] /\ Calm(u) /\ u \in Users
      BY <1>3, StorageAssumption DEF GalleryInv
    <2>2. Busy(u)' = Busy(u)
      BY <1>3, <2>1 DEF Busy, Turned
    <2>3. ASSUME NEW x \in Busy(u) PROVE OnFor(x, u)'
      <3>1. OnFor(x, u) /\ x # c /\ x \in Callers
        BY <2>1, <2>3 DEF Calm, Busy
      <3>2. pc'[x] = pc[x] /\ cur'[x] = cur[x]
        BY <3>1 DEF Turned
      <3> QED
        BY <3>1, <3>2 DEF OnFor
    <2> QED
      BY <2>1, <2>2, <2>3 DEF Calm
  <1>4. \A u \in Accounts : Calm(u)'
    BY <1>2, <1>3 DEF Calm
  <1> QED
    BY <1>1, <1>4 DEF GalleryInv

-----------------------------------------------------------------------------
(* Rows and statements *)

(* What statements leave are rows; any row will do for what is no file. *)
LEMMA LeavesFacts ==
  /\ \A s \in Statement : Leaves(s) \in IndexRow
  /\ \A b, w, n : FitRows(b, w, n) \subseteq GoodRows(b, w, n) /\ GoodRows(b, w, n) \subseteq IndexRow
  /\ \A b, w, n : ~FileIn(b, n) => GoodRows(b, w, n) = IndexRow
  <1>1. NoRow \in IndexRow
    BY DEF NoRow, IndexRow, Kinds
  <1> QED
    BY <1>1 DEF Leaves, Statement, FitRows, GoodRows

(* A statement that runs leaves what it should in the rows it changes. *)
LEMMA WrittenRow ==
  ASSUME NEW rs \in [Names -> IndexRow], NEW s \in Statement, NEW n \in Names
  PROVE  Written(rs, s)[n] = IF Hits(s, n) THEN Leaves(s) ELSE rs[n]
  <1>1. s.do \in {"upsert", "delete", "delete folder"}
    BY DEF Statement
  <1>2. CASE s.do = "upsert"
    BY <1>2, WrittenFacts DEF Hits, Leaves
  <1>3. CASE s.do = "delete"
    BY <1>3, WrittenFacts DEF Hits, Leaves
  <1>4. CASE s.do = "delete folder"
    BY <1>4 DEF Hits, Leaves, Written, DeleteFolderRows
  <1> QED
    BY <1>1, <1>2, <1>3, <1>4

(* A statement that has run is no longer ahead. *)
LEMMA ComesRuns ==
  ASSUME NEW rs \in [Names -> IndexRow], NEW s \in Statement, NEW n \in Names, NEW good, NEW ahead, NEW more,
         Comes(good, rs, ahead, n), ahead = {s} \cup more
  PROVE  Comes(good, Written(rs, s), more, n)
  BY WrittenRow DEF Comes

(* What comes out as it should does so with fewer demands, too. *)
LEMMA ComesWeaker ==
  ASSUME NEW good, NEW better, better \subseteq good, NEW rs, NEW ahead, NEW n, Comes(better, rs, ahead, n)
  PROVE  Comes(good, rs, ahead, n)
  BY DEF Comes

(* Rows that fit are good. *)
LEMMA SettledIsGood ==
  ASSUME NEW b, NEW w, NEW rs, Settled(b, w, rs)
  PROVE  GoodAhead(b, w, rs, {}, {}) /\ \A n \in Innermost : rs[n] \in FitRows(b, w, n)
  BY LeavesFacts, ComesWeaker DEF Settled, FitAhead, GoodAhead, Comes

(* For what is no file everything is good. *)
LEMMA NoFileComes ==
  ASSUME NEW b, NEW w, NEW rs \in [Names -> IndexRow], NEW n \in Names, ~FileIn(b, n),
         NEW ahead, ahead \subseteq Statement
  PROVE  Comes(GoodRows(b, w, n), rs, ahead, n)
  BY LeavesFacts DEF Comes

(* Blobs and flags change for the names in Z, and statements are noted: it is enough to *)
(* look at these names and at those the statements are for.                              *)
SameBut(Z, b, w, b2, w2) == \A n \in Names \ Z : b2[n] = b[n] /\ w2[n] = w[n]

Grows(b2, w2, rs, ahead, more, Z, Y) ==
  \A n \in Innermost \ Y :
    IF n \in Z THEN Comes(GoodRows(b2, w2, n), rs, ahead \cup more, n)
    ELSE \A s \in more : Hits(s, n) => Leaves(s) \in GoodRows(b2, w2, n)

LEMMA GoodGrows ==
  ASSUME NEW b, NEW w, NEW rs, NEW ahead, NEW X, GoodAhead(b, w, rs, ahead, X),
         NEW b2, NEW w2, NEW more, NEW Z, NEW Y, X \subseteq Z,
         SameBut(Z, b, w, b2, w2), Grows(b2, w2, rs, ahead, more, Z, Y)
  PROVE  GoodAhead(b2, w2, rs, ahead \cup more, Y)
  <1> SUFFICES ASSUME NEW n \in Innermost \ Y PROVE Comes(GoodRows(b2, w2, n), rs, ahead \cup more, n)
    BY DEF GoodAhead
  <1>1. CASE n \in Z
    BY <1>1 DEF Grows
  <1>2. CASE n \notin Z
    <2>1. n \in Names /\ b2[n] = b[n] /\ w2[n] = w[n]
      BY <1>2 DEF Innermost, SameBut
    <2>2. GoodRows(b2, w2, n) = GoodRows(b, w, n)
      BY <2>1 DEF GoodRows, FileIn
    <2>3. Comes(GoodRows(b, w, n), rs, ahead, n)
      BY <1>2 DEF GoodAhead
    <2>4. \A s \in more : Hits(s, n) => Leaves(s) \in GoodRows(b2, w2, n)
      BY <1>2 DEF Grows
    <2> HIDE DEF GoodRows
    <2> QED
      BY <2>2, <2>3, <2>4 DEF Comes
  <1> QED
    BY <1>1, <1>2

(* The statements of the model and what they do. *)
IsUpsert(s, n, row) ==
  s \in Statement /\ Leaves(s) = row /\ s.do = "upsert" /\ s.row = row /\ \A m : Hits(s, m) <=> m = n

IsDelete(s, n) ==
  s \in Statement /\ Leaves(s) = NoRow /\ \A m : Hits(s, m) <=> m = n

IsDeleteFolder(s, n) ==
  s \in Statement /\ Leaves(s) = NoRow /\ \A m : Hits(s, m) <=> IsPrefix(n, m)

LEMMA UpsertFacts ==
  ASSUME NEW u \in Accounts, NEW n \in Seq(Segments), NEW row \in IndexRow
  PROVE  IsUpsert(Upsert(u, n, row), n, row)
  BY StatementFacts DEF Upsert, Leaves, Hits, IsUpsert

LEMMA DeleteFacts ==
  ASSUME NEW u \in Accounts, NEW n \in Seq(Segments)
  PROVE  IsDelete(Delete(u, n), n) /\ IsDeleteFolder(DeleteFolder(u, n), n)
  BY StatementFacts DEF Delete, DeleteFolder, Leaves, Hits, IsDelete, IsDeleteFolder

-----------------------------------------------------------------------------
(* Operations that upload, delete and move *)

(* An upload: what is noted for the blob is what it is. *)
LEMMA PutOn ==
  ASSUME NEW b \in [Names -> Kinds], NEW w, NEW rs \in [Names -> IndexRow], NEW todo \in Seq(Statement),
         NEW n \in Names, GoodAhead(b, w, rs, Range(todo), {}), AllUploaded(todo),
         NEW b2, NEW w2, b2[n] = "file", w2[n] = FALSE, SameBut({n}, b, w, b2, w2),
         NEW row \in IndexRow, row.kind = "file", row.public = FALSE, NEW s, IsUpsert(s, n, row)
  PROVE  /\ GoodAhead(b2, w2, rs, Range(Append(todo, s)), {}) /\ AllUploaded(Append(todo, s))
         /\ Append(todo, s) \in Seq(Statement)
  <1> DEFINE ahead == Range(todo)
  <1>1. /\ s \in Statement /\ Leaves(s) = row /\ s.do = "upsert" /\ s.row = row
        /\ \A m : Hits(s, m) <=> m = n
    BY DEF IsUpsert
  <1>3. Range(Append(todo, s)) = ahead \cup {s} /\ Append(todo, s) \in Seq(Statement)
    BY <1>1, RangeAppended
  <1>4. \A t \in ahead \cup {s} : t.do = "upsert" /\ t.row.kind = "file" /\ t.row.public = FALSE /\ Leaves(t) = t.row
    BY <1>1 DEF AllUploaded, Leaves
  <1>2. \A t \in ahead \cup {s} : t.row \in IndexRow
    <2>1. ahead \subseteq Statement
      BY RangeFacts
    <2> QED
      BY <1>1, <2>1 DEF Statement
  <1>7. GoodAhead(b, w, rs, ahead, {})
    OBVIOUS
  <1> HIDE DEF ahead
  <1>5. \A t \in ahead \cup {s} : Leaves(t) \in GoodRows(b2, w2, n)
    BY <1>2, <1>4 DEF GoodRows
  <1>6. Comes(GoodRows(b2, w2, n), rs, ahead \cup {s}, n)
    BY <1>1, <1>5 DEF Comes
  <1>8. GoodAhead(b2, w2, rs, ahead \cup {s}, {})
    <2>2. Grows(b2, w2, rs, ahead, {s}, {n}, {})
      BY <1>1, <1>6 DEF Grows
    <2> QED
      BY <1>7, <2>2, GoodGrows
  <1> QED
    BY <1>3, <1>4, <1>8 DEF AllUploaded

(* Statements that only change rows of names that are no files do no harm. *)
HarmsNoFile(b, more, X) == \A s \in more, n \in Innermost \ X : Hits(s, n) => ~FileIn(b, n)

LEMMA HarmlessGrows ==
  ASSUME NEW b, NEW w, NEW rs, NEW ahead, NEW X, GoodAhead(b, w, rs, ahead, X),
         NEW more, more \subseteq Statement, HarmsNoFile(b, more, X)
  PROVE  GoodAhead(b, w, rs, ahead \cup more, X)
  <1>1. SameBut(X, b, w, b, w)
    BY DEF SameBut
  <1>2. Grows(b, w, rs, ahead, more, X, X)
    <2> SUFFICES ASSUME NEW n \in Innermost \ X, NEW s \in more, Hits(s, n)
                 PROVE  Leaves(s) \in GoodRows(b, w, n)
      BY DEF Grows
    <2>1. ~FileIn(b, n)
      BY DEF HarmsNoFile
    <2> QED
      BY <2>1, LeavesFacts
  <1> QED
    BY <1>1, <1>2, GoodGrows

OnlyFor(more, n) == more \subseteq Statement /\ \A s \in more, m \in Names : Hits(s, m) => m = n

(* A blob that is no file, or no more: its name may have any row. *)
LEMMA GoneGrows ==
  ASSUME NEW b, NEW w, NEW rs \in [Names -> IndexRow], NEW ahead, ahead \subseteq Statement,
         NEW X, GoodAhead(b, w, rs, ahead, X),
         NEW n, X \subseteq {n}, NEW b2, NEW w2, SameBut({n}, b, w, b2, w2), ~FileIn(b2, n),
         NEW more, OnlyFor(more, n)
  PROVE  GoodAhead(b2, w2, rs, ahead \cup more, {})
  <1>1. ASSUME n \in Names PROVE Comes(GoodRows(b2, w2, n), rs, ahead \cup more, n)
    BY <1>1, NoFileComes DEF OnlyFor
  <1>2. Grows(b2, w2, rs, ahead, more, {n}, {})
    <2>1. Innermost \subseteq Names
      BY DEF Innermost
    <2> QED
      BY <1>1, <2>1 DEF Grows, OnlyFor
  <1> QED
    BY <1>2, GoodGrows

(* delete_files and delete_folder: what is deleted needs no row. *)
LEMMA DeleteOn ==
  ASSUME NEW b, NEW w, NEW rs \in [Names -> IndexRow], NEW todo \in Seq(Statement),
         GoodAhead(b, w, rs, Range(todo), {}),
         NEW n, NEW b2, NEW w2, SameBut({n}, b, w, b2, w2), ~FileIn(b2, n),
         NEW s, IsDelete(s, n)
  PROVE  GoodAhead(b2, w2, rs, Range(todo), {}) /\ GoodAhead(b2, w2, rs, Range(Append(todo, s)), {})
  <1>1. s \in Statement /\ \A m \in Names : Hits(s, m) => m = n
    BY DEF IsDelete
  <1>2. Range(todo) \subseteq Statement
    BY RangeFacts
  <1>3. Range(Append(todo, s)) = Range(todo) \cup {s}
    BY <1>1, RangeAppended
  <1> DEFINE ahead == Range(todo)
  <1>4. ahead \subseteq Statement /\ GoodAhead(b, w, rs, ahead, {})
    BY <1>2
  <1> HIDE DEF ahead
  <1>8. OnlyFor({s}, n) /\ OnlyFor({}, n)
    BY <1>1 DEF OnlyFor
  <1>5. GoodAhead(b2, w2, rs, ahead \cup {s}, {})
    BY <1>4, <1>8, GoneGrows
  <1>6. GoodAhead(b2, w2, rs, ahead \cup {}, {})
    BY <1>4, <1>8, GoneGrows
  <1>7. ahead \cup {} = ahead
    OBVIOUS
  <1> QED
    BY <1>3, <1>5, <1>6, <1>7 DEF ahead

(* move_file: the copy has no row yet. *)
LEMMA CopyOn ==
  ASSUME NEW b, NEW w, NEW rs, NEW ahead, GoodAhead(b, w, rs, ahead, {}),
         NEW n, NEW b2, SameBut({n}, b, w, b2, w)
  PROVE  GoodAhead(b2, w, rs, ahead, {n})
  <1>1. Grows(b2, w, rs, ahead, {}, {n}, {n})
    BY DEF Grows
  <1>2. ahead \cup {} = ahead
    OBVIOUS
  <1>3. GoodAhead(b2, w, rs, ahead \cup {}, {n})
    BY <1>1, GoodGrows
  <1> QED
    BY <1>2, <1>3

(* Then the row of the old name is deleted and one of the new name written. *)
LEMMA MoveOn ==
  ASSUME NEW b, NEW w, NEW rs \in [Names -> IndexRow], NEW n, NEW new, GoodAhead(b, w, rs, {}, {new}),
         NEW b2, NEW w2, SameBut({n, new}, b, w, b2, w2), b2[n] = "none", new \in Names => w2[new] = FALSE,
         NEW row \in IndexRow, row.kind = "file", row.public = FALSE, 
         NEW s, IsDelete(s, n), NEW t, IsUpsert(t, new, row)
  PROVE  GoodAhead(b2, w2, rs, {s, t}, {})
  <1>1. /\ s \in Statement /\ t \in Statement /\ Leaves(t) = row
        /\ \A m : (Hits(s, m) <=> m = n) /\ (Hits(t, m) <=> m = new)
    BY DEF IsDelete, IsUpsert
  <1>2. ~FileIn(b2, n)
    BY DEF FileIn
  <1>3. ASSUME n \in Names PROVE Comes(GoodRows(b2, w2, n), rs, {s, t}, n)
    BY <1>1, <1>2, <1>3, NoFileComes
  <1>4. ASSUME new \in Names PROVE Comes(GoodRows(b2, w2, new), rs, {s, t}, new)
    <2>1. CASE new = n
      BY <1>3, <1>4, <2>1
    <2>2. CASE new # n
      <3>1. row \in GoodRows(b2, w2, new)
        BY <1>4 DEF GoodRows
      <3> QED
        BY <1>1, <2>2, <3>1 DEF Comes
    <2> QED
      BY <2>1, <2>2
  <1>5. Grows(b2, w2, rs, {}, {s, t}, {n, new}, {})
    <2>1. Innermost \subseteq Names /\ {} \cup {s, t} = {s, t}
      BY DEF Innermost
    <2>2. ASSUME NEW m \in Innermost \ {}, m \in {n, new} PROVE Comes(GoodRows(b2, w2, m), rs, {} \cup {s, t}, m)
      BY <1>3, <1>4, <2>1, <2>2
    <2>3. ASSUME NEW m \in Innermost \ {}, m \notin {n, new}, NEW x \in {s, t}, Hits(x, m) PROVE FALSE
      BY <1>1, <2>3
    <2> QED
      BY <2>2, <2>3 DEF Grows
  <1>6. {} \cup {s, t} = {s, t}
    OBVIOUS
  <1>7. GoodAhead(b2, w2, rs, {} \cup {s, t}, {})
    BY <1>5, GoodGrows
  <1> QED
    BY <1>6, <1>7

-----------------------------------------------------------------------------
(* Where calls go on, and what the gallery needs there *)

\* At step the caller c knows k, a note of a call for u.
GoesFor(c, u, step, k) ==
  Goes(c, step, k) /\ step \notin Scanning /\ (step # "idle" => k.one /\ k.user = u)

OnlyTouches(u) ==
  /\ \A v \in Users \ {u} : Untouched(v)
  /\ wish' \in [Users -> [Names -> BOOLEAN]] /\ disturbed' = [v \in Users |-> disturbed'[v]]

(* An operation goes on: only its user has to be looked at. *)
LEMMA OperationGoesOn ==
  ASSUME StorageInv, GalleryInv, NEW c \in Callers, pc[c] \in Operating \cup {"rows", "user"},
         NEW u, u = cur[c].user, NEW step, NEW k, GoesFor(c, u, step, k), OnlyTouches(u),
         ~disturbed'[u] => ~disturbed[u] /\ (OnFor(c, u) => On(blob'[u], wish'[u], rows'[u], u, step, k))
  PROVE  GalleryInv'
  <1>1. /\ pc' = [x \in Callers |-> IF x = c THEN step ELSE pc[x]]
        /\ cur' = [x \in Callers |-> IF x = c THEN k ELSE cur[x]]
    BY DEF StorageInv, GoesFor, Goes
  <1>2. pc'[c] = step /\ cur'[c] = k /\ \A x \in Callers \ {c} : pc'[x] = pc[x] /\ cur'[x] = cur[x]
    BY <1>1
  <1>3. pc[c] # "idle" /\ pc[c] # "list" /\ pc[c] \notin Scanning
    BY DEF Operating, Scanning
  <1>4. cur[c].one
    BY <1>3 DEF GalleryInv, Minds
  <1>5. Minds(pc'[c], cur'[c])
    BY <1>2 DEF Minds, GoesFor
  <1>6. Turned(c)
    BY <1>2, <1>5 DEF Turned, OnlyTouches
  <1>7. \A v \in Accounts : c \in Busy(v) <=> v = u
    BY <1>3, <1>4 DEF Busy
  <1>8. \A v \in Accounts : c \notin Busy(v) => Untouched(v)
    BY <1>7, StorageAssumption DEF OnlyTouches
  <1>9. ASSUME NEW v \in Accounts, c \in Busy(v), ~disturbed'[v]
        PROVE  ~disturbed[v] /\ (OnFor(c, v) => OnFor(c, v)')
    <2>1. v = u
      BY <1>7, <1>9
    <2>2. OnFor(c, u)' = On(blob'[u], wish'[u], rows'[u], u, pc'[c], cur'[c])
      BY <2>1 DEF OnFor
    <2> QED
      BY <1>2, <1>9, <2>1, <2>2
  <1>10. pc'[c] # "idle" => (cur'[c].one <=> cur[c].one) /\ cur'[c].user = cur[c].user
    BY <1>2, <1>4 DEF GoesFor
  <1> QED
    BY <1>3, <1>6, <1>8, <1>9, <1>10, CallGoesOn

(* The operation goes on with its statements or, without any, with the scan. *)
LEMMA OnToRows ==
  ASSUME NEW c, NEW k, GoesToRows(c, k)
  PROVE  \E step, j : /\ GoesFor(c, k.user, step, j)
                      /\ \A b, w, rs, u : GoodAhead(b, w, rs, Range(k.todo), {}) => On(b, w, rs, u, step, j)
  <1>1. PICK j : j = [Nothing EXCEPT !.user = k.user, !.todo = k.todo]
    OBVIOUS
  <1>2. j.user = k.user /\ j.one /\ j.todo = k.todo
    BY <1>1 DEF Nothing
  <1>3. PICK step : step = IF k.todo = <<>> THEN "user" ELSE "rows"
    OBVIOUS
  <1>4. Goes(c, step, j)
    BY <1>1, <1>3 DEF GoesToRows
  <1>5. step \in {"user", "rows"} /\ (step = "user" => k.todo = <<>>)
    BY <1>3
  <1>6. GoesFor(c, k.user, step, j)
    BY <1>2, <1>4, <1>5 DEF GoesFor, Scanning
  <1>7. ASSUME NEW b, NEW w, NEW rs, NEW u, GoodAhead(b, w, rs, Range(k.todo), {})
        PROVE  On(b, w, rs, u, step, j)
    <2>1. CASE step = "rows"
      BY <1>2, <1>7, <2>1 DEF On, Scanning, Renaming
    <2>2. CASE step = "user"
      <3>1. Range(k.todo) = {}
        BY <1>5, <2>2 DEF Range
      <3>2. GoodAhead(b, w, rs, {}, {})
        BY <1>7, <3>1
      <3> QED
        BY <2>2, <3>2 DEF On, Scanning, Renaming
    <2> QED
      BY <1>5, <2>1, <2>2
  <1> QED
    BY <1>6, <1>7

\* What the next name of an operation needs.
WorkOn(b, step, k) ==
  k.work # <<>> => /\ step = "put" => AllUploaded(k.todo)
                   /\ step = "delete" => DeletesAll(b, k)
                   /\ step = "folder" => MakesFolder(k)

(* The operation goes on with its next name, or with its statements. *)
LEMMA OnToWork ==
  ASSUME NEW c, NEW k, k.one, NEW more \in {"put", "delete", "folder"}, GoesToWork(c, more, k)
  PROVE  \E step, j : /\ GoesFor(c, k.user, step, j)
                      /\ \A b, w, rs, u : GoodAhead(b, w, rs, Range(k.todo), {}) /\ WorkOn(b, more, k) =>
                           On(b, w, rs, u, step, j)
  <1>1. CASE k.work = <<>>
    BY <1>1, OnToRows DEF GoesToWork
  <1>2. CASE k.work # <<>>
    <2>1. Goes(c, more, k)
      BY <1>2 DEF GoesToWork
    <2>2. GoesFor(c, k.user, more, k)
      BY <2>1 DEF GoesFor, Scanning
    <2>3. ASSUME NEW b, NEW w, NEW rs, NEW u, GoodAhead(b, w, rs, Range(k.todo), {}), WorkOn(b, more, k)
          PROVE  On(b, w, rs, u, more, k)
      BY <1>2, <2>3 DEF On, WorkOn, Scanning, Renaming
    <2> QED
      BY <2>2, <2>3
  <1> QED
    BY <1>1, <1>2

(* After the only element nothing is left. *)
LEMMA TailOfOne ==
  ASSUME NEW S, NEW s \in Seq(S), Len(s) = 1
  PROVE  Range(Tail(s)) = {} /\ Tail(s) = <<>>
  <1>1. PICK t : t = Tail(s)
    OBVIOUS
  <1>2. t \in Seq(S) /\ Len(t) = 0
    <2>1. s # <<>>
      OBVIOUS
    <2> QED
      BY <1>1, <2>1
  <1>3. DOMAIN t = {} /\ t = <<>>
    BY <1>2
  <1> QED
    BY <1>1, <1>3 DEF Range

(* What the invariants say of an operation. *)
LEMMA OperationFacts ==
  ASSUME StorageInv, GalleryInv, NEW c \in Callers, pc[c] \in Operating \cup {"rows", "user"}
  PROVE  /\ IsNote(cur[c]) /\ cur[c].one /\ cur[c].user \in Accounts /\ cur[c].user \in Users
         /\ cur[c].todo \in Seq(Statement)
         /\ blob[cur[c].user] \in [Names -> Kinds] /\ rows[cur[c].user] \in [Names -> IndexRow]
         /\ wish \in [Users -> [Names -> BOOLEAN]] /\ disturbed = [v \in Users |-> disturbed[v]]
  <1>1. IsPlain(pc[c], cur[c]) /\ IsNote(cur[c]) /\ IndexTypeOK
    BY WorkerFacts
  <1>2. cur[c].user \in Accounts
    BY <1>1 DEF IsPlain
  <1>3. cur[c].user \in Users
    BY <1>2, StorageAssumption
  <1>4. pc[c] # "idle" /\ pc[c] # "list" /\ pc[c] \notin Scanning
    BY DEF Operating, Scanning
  <1>5. cur[c].one
    BY <1>4 DEF GalleryInv, Minds
  <1>6. blob[cur[c].user] \in [Names -> Kinds] /\ rows[cur[c].user] \in [Names -> IndexRow]
    BY <1>1, <1>3 DEF IndexTypeOK
  <1>7. wish \in [Users -> [Names -> BOOLEAN]] /\ disturbed = [v \in Users |-> disturbed[v]]
    BY DEF GalleryInv
  <1> QED
    BY <1>1, <1>2, <1>3, <1>5, <1>6, <1>7 DEF IsNote

(* A file is uploaded: the flag is off, and so is that of the row noted. *)
LEMMA PutBlobKeeps ==
  ASSUME StorageInv, GalleryInv, NEW c \in Callers, PutBlob(c)
  PROVE  GalleryInv'
  <1>1. PICK k : k = cur[c]
    OBVIOUS
  <1>2. PICK u : u = k.user
    OBVIOUS
  <1>3. PICK n : n = Head(k.work)
    OBVIOUS
  <1>4. PICK row : row = FileRow(FALSE)
    OBVIOUS
  <1>5. row \in IndexRow /\ row.kind = "file" /\ row.public = FALSE
    BY <1>4 DEF FileRow, IndexRow, Kinds
  <1>6. PICK s : s = Upsert(u, n, row)
    OBVIOUS
  <1>7. PICK j : j = [k EXCEPT !.work = Tail(k.work), !.todo = Append(k.todo, s)]
    OBVIOUS
  <1>8. /\ pc[c] = "put" /\ pc[c] \in Operating /\ UNCHANGED <<rows, disturbed>>
        /\ blob' = [blob EXCEPT ![u][n] = "file"] /\ wish' = [wish EXCEPT ![u][n] = FALSE]
        /\ GoesToWork(c, "put", j)
    BY <1>1, <1>2, <1>3, <1>4, <1>6, <1>7 DEF PutBlob, AtStep, Operating
  <1>9. /\ IsNote(k) /\ k.one /\ u \in Accounts /\ u \in Users /\ n \in Names /\ k.todo \in Seq(Statement)
        /\ wish \in [Users -> [Names -> BOOLEAN]] /\ disturbed = [v \in Users |-> disturbed[v]]
        /\ blob[u] \in [Names -> Kinds] /\ rows[u] \in [Names -> IndexRow] /\ IndexTypeOK
    BY <1>1, <1>2, <1>3, <1>8, OperationFacts, WorkerFacts
  <1>10. /\ OnlyTouches(u)
         /\ blob'[u] = [blob[u] EXCEPT ![n] = "file"] /\ wish'[u] = [wish[u] EXCEPT ![n] = FALSE]
    BY <1>8, <1>9 DEF IndexTypeOK, Untouched, OnlyTouches
  <1>11. j.one /\ j.user = u /\ j.todo = Append(k.todo, s)
    BY <1>2, <1>7, <1>9 DEF IsNote, NoteFields
  <1>12. PICK step, i : /\ GoesFor(c, u, step, i)
                        /\ \A b, w, rs, v : GoodAhead(b, w, rs, Range(j.todo), {}) /\ WorkOn(b, "put", j) =>
                             On(b, w, rs, v, step, i)
    BY <1>8, <1>11, OnToWork
  <1>13. ASSUME OnFor(c, u) PROVE On(blob'[u], wish'[u], rows'[u], u, step, i)
    <2>1. PICK b2, w2 : b2 = [blob[u] EXCEPT ![n] = "file"] /\ w2 = [wish[u] EXCEPT ![n] = FALSE]
      OBVIOUS
    <2>2. b2[n] = "file" /\ w2[n] = FALSE /\ SameBut({n}, blob[u], wish[u], b2, w2)
      BY <1>9, <2>1 DEF SameBut
    <2>3. GoodAhead(blob[u], wish[u], rows[u], Range(k.todo), {}) /\ AllUploaded(k.todo)
      BY <1>1, <1>8, <1>13 DEF OnFor, On
    <2>4. IsUpsert(s, n, row)
      BY <1>5, <1>6, <1>9, UpsertFacts, NameFacts
    <2>7. PICK todo \in Seq(Statement) : todo = k.todo
      BY <1>9
    <2>8. PICK b, w, rs : b = blob[u] /\ w = wish[u] /\ rs = rows[u]
      OBVIOUS
    <2>9. GoodAhead(b, w, rs, Range(todo), {}) /\ AllUploaded(todo) /\ SameBut({n}, b, w, b2, w2)
      BY <2>2, <2>3, <2>7, <2>8
    <2>a. b \in [Names -> Kinds] /\ rs \in [Names -> IndexRow]
      BY <1>9, <2>8
    <2>b. GoodAhead(b2, w2, rs, Range(Append(todo, s)), {}) /\ AllUploaded(Append(todo, s))
      BY <1>5, <1>9, <2>2, <2>4, <2>9, <2>a, PutOn
    <2>5. GoodAhead(b2, w2, rows[u], Range(j.todo), {}) /\ AllUploaded(j.todo)
      BY <1>11, <2>7, <2>8, <2>b
    <2>6. On(b2, w2, rows[u], u, step, i)
      BY <1>12, <2>5 DEF WorkOn
    <2> QED
      BY <1>8, <1>10, <2>1, <2>6
  <1>14. ~disturbed'[u] => ~disturbed[u] /\ (OnFor(c, u) => On(blob'[u], wish'[u], rows'[u], u, step, i))
    BY <1>8, <1>13
  <1> QED
    BY <1>1, <1>2, <1>8, <1>10, <1>12, <1>14, OperationGoesOn

(* A blob is deleted, and its row with it; delete_folder deletes the rows of the folder *)
(* when it has deleted the last blob of it.                                             *)
LEMMA DeleteBlobKeeps ==
  ASSUME StorageInv, GalleryInv, NEW c \in Callers, DeleteBlob(c)
  PROVE  GalleryInv'
  <1>1. PICK k : k = cur[c]
    OBVIOUS
  <1>2. PICK u : u = k.user
    OBVIOUS
  <1>3. PICK n : n = Head(k.work)
    OBVIOUS
  <1>4. PICK there \in BOOLEAN : there = (blob[u][n] # "none")
    OBVIOUS
  <1>5. PICK j : j = AfterDelete(k, there)
    OBVIOUS
  <1>6. /\ pc[c] = "delete" /\ pc[c] \in Operating /\ UNCHANGED <<rows, disturbed>>
        /\ blob' = [blob EXCEPT ![u][n] = "none"] /\ wish' = [wish EXCEPT ![u][n] = FALSE]
        /\ GoesToWork(c, "delete", j)
    <2>1. GoesToWork(c, "delete", AfterDelete(k, blob[u][n] # "none"))
      BY <1>1, <1>2, <1>3 DEF DeleteBlob
    <2>2. GoesToWork(c, "delete", j)
      BY <1>4, <1>5, <2>1
    <2> QED
      BY <1>1, <1>2, <1>3, <2>2 DEF DeleteBlob, AtStep, Operating
  <1>7. /\ IsNote(k) /\ k.one /\ u \in Accounts /\ u \in Users /\ n \in Names /\ k.todo \in Seq(Statement)
        /\ wish \in [Users -> [Names -> BOOLEAN]] /\ disturbed = [v \in Users |-> disturbed[v]]
        /\ blob[u] \in [Names -> Kinds] /\ rows[u] \in [Names -> IndexRow] /\ IndexTypeOK
        /\ k.work # <<>> /\ n \in Seq(Segments)
    BY <1>1, <1>2, <1>3, <1>6, OperationFacts, WorkerFacts
  <1>8. /\ OnlyTouches(u)
        /\ blob'[u] = [blob[u] EXCEPT ![n] = "none"] /\ wish'[u] = [wish[u] EXCEPT ![n] = FALSE]
    BY <1>6, <1>7 DEF IndexTypeOK, Untouched, OnlyTouches
  <1>9. PICK s, d : s = Delete(u, n) /\ d = DeleteFolder(u, k.to)
    OBVIOUS
  <1>10. PICK todo \in Seq(Statement) : todo = IF there THEN Append(k.todo, s) ELSE k.todo
    <2>1. s \in Statement
      BY <1>7, <1>9, DeleteFacts DEF IsDelete
    <2>2. Append(k.todo, s) \in Seq(Statement)
      BY <1>7, <2>1
    <2> QED
      BY <1>7, <2>2
  <1>11. PICK all : all = IF Len(k.work) = 1 /\ k.op = "delete folder" THEN Append(todo, d) ELSE todo
    OBVIOUS
  <1>12. j = [k EXCEPT !.work = Tail(k.work), !.todo = all]
    BY <1>2, <1>3, <1>5, <1>9, <1>10, <1>11 DEF AfterDelete
  <1>13. j.one /\ j.user = u /\ j.todo = all /\ j.work = Tail(k.work) /\ j.op = k.op /\ j.to = k.to
    BY <1>2, <1>7, <1>12 DEF IsNote, NoteFields
  <1>14. PICK step, i : /\ GoesFor(c, u, step, i)
                        /\ \A b, w, rs, v : GoodAhead(b, w, rs, Range(j.todo), {}) /\ WorkOn(b, "delete", j) =>
                             On(b, w, rs, v, step, i)
    BY <1>6, <1>13, OnToWork
  <1>15. ASSUME OnFor(c, u) PROVE On(blob'[u], wish'[u], rows'[u], u, step, i)
    <2>1. PICK b, w, rs : b = blob[u] /\ w = wish[u] /\ rs = rows[u]
      OBVIOUS
    <2>2. PICK b2, w2 : b2 = [b EXCEPT ![n] = "none"] /\ w2 = [w EXCEPT ![n] = FALSE]
      OBVIOUS
    <2>3. /\ b \in [Names -> Kinds] /\ rs \in [Names -> IndexRow] /\ w \in [Names -> BOOLEAN]
      BY <1>7, <2>1
    <2>4. b2[n] = "none" /\ SameBut({n}, b, w, b2, w2) /\ \A m \in Names \ {n} : b2[m] = b[m]
      BY <1>7, <2>2, <2>3 DEF SameBut
    <2>5. GoodAhead(b, w, rs, Range(k.todo), {}) /\ DeletesAll(b, k)
      BY <1>1, <1>6, <1>15, <2>1 DEF OnFor, On
    <2>6. IsDelete(s, n) /\ IsDeleteFolder(d, k.to)
      BY <1>7, <1>9, DeleteFacts DEF IsNote
    <2>7. ~FileIn(b2, n)
      BY <2>4 DEF FileIn
    <2>8. GoodAhead(b2, w2, rs, Range(k.todo), {}) /\ GoodAhead(b2, w2, rs, Range(Append(k.todo, s)), {})
      BY <1>7, <2>3, <2>4, <2>5, <2>6, <2>7, DeleteOn
    <2>9. GoodAhead(b2, w2, rs, Range(todo), {})
      BY <1>10, <2>8
    <2>10. DeletesAll(b2, j)
      <3> SUFFICES ASSUME k.op = "delete folder", NEW m \in Names, IsPrefix(k.to, m), b2[m] # "none"
                   PROVE  m \in Range(Tail(k.work))
        BY <1>13 DEF DeletesAll
      <3>1. m # n /\ b[m] # "none"
        BY <2>4
      <3>2. m \in Range(k.work)
        BY <2>5, <3>1 DEF DeletesAll
      <3>3. k.work \in Seq(Names)
        BY <1>7 DEF IsNote
      <3>4. Range(k.work) = {n} \cup Range(Tail(k.work))
        BY <1>3, <1>7, <3>3, HeadAndTail
      <3> QED
        BY <3>1, <3>2, <3>4
    <2>11. GoodAhead(b2, w2, rs, Range(all), {})
      <3>1. CASE Len(k.work) = 1 /\ k.op = "delete folder"
        <4>1. k.work \in Seq(Names) /\ Len(k.work) = 1
          BY <1>7, <3>1 DEF IsNote
        <4>3. Range(Tail(k.work)) = {}
          BY <4>1, TailOfOne
        <4>4. \A m \in Names : IsPrefix(k.to, m) => b2[m] = "none"
          BY <1>13, <2>10, <3>1, <4>3 DEF DeletesAll
        <4>5. HarmsNoFile(b2, {d}, {})
          <5>1. \A m \in Innermost : Hits(d, m) => ~FileIn(b2, m)
            BY <2>6, <4>4 DEF IsDeleteFolder, FileIn, Innermost
          <5> QED
            BY <5>1 DEF HarmsNoFile
        <4>6. d \in Statement
          BY <2>6 DEF IsDeleteFolder
        <4>7. PICK ahead : ahead = Range(todo)
          OBVIOUS
        <4>8. GoodAhead(b2, w2, rs, ahead \cup {d}, {})
          <5>1. {d} \subseteq Statement /\ GoodAhead(b2, w2, rs, ahead, {})
            BY <2>9, <4>6, <4>7
          <5> QED
            BY <4>5, <5>1, HarmlessGrows
        <4>9. Range(Append(todo, d)) = Range(todo) \cup {d}
          BY <4>6, RangeAppended
        <4> QED
          BY <1>11, <3>1, <4>7, <4>8, <4>9
      <3>2. CASE ~(Len(k.work) = 1 /\ k.op = "delete folder")
        BY <1>11, <2>9, <3>2
      <3> QED
        BY <3>1, <3>2
    <2>12. On(b2, w2, rs, u, step, i)
      BY <1>13, <1>14, <2>10, <2>11 DEF WorkOn
    <2> QED
      BY <1>6, <1>8, <2>1, <2>2, <2>12
  <1>16. ~disturbed'[u] => ~disturbed[u] /\ (OnFor(c, u) => On(blob'[u], wish'[u], rows'[u], u, step, i))
    BY <1>6, <1>15
  <1> QED
    BY <1>1, <1>2, <1>6, <1>8, <1>14, <1>16, OperationGoesOn

(* create_folder: neither blob is a file, and the row of the folder is that of no file. *)
LEMMA PutFolderKeeps ==
  ASSUME StorageInv, GalleryInv, NEW c \in Callers, PutFolder(c)
  PROVE  GalleryInv'
  <1>1. PICK k : k = cur[c]
    OBVIOUS
  <1>2. PICK u : u = k.user
    OBVIOUS
  <1>3. PICK n : n = Head(k.work)
    OBVIOUS
  <1>4. PICK row : row = FolderRow
    OBVIOUS
  <1>5. PICK s : s = Upsert(u, n, row)
    OBVIOUS
  <1>6. PICK kind : kind = IF Len(k.work) = 2 THEN "folder" ELSE "file"
    OBVIOUS
  <1>7. PICK todo : todo = IF Len(k.work) = 2 THEN <<s>> ELSE k.todo
    OBVIOUS
  <1>8. PICK j : j = [k EXCEPT !.work = Tail(k.work), !.todo = todo]
    OBVIOUS
  <1>9. /\ pc[c] = "folder" /\ pc[c] \in Operating /\ UNCHANGED <<rows, wish, disturbed>>
        /\ blob' = [blob EXCEPT ![u][n] = kind]
        /\ GoesToWork(c, "folder", j)
    BY <1>1, <1>2, <1>3, <1>4, <1>5, <1>6, <1>7, <1>8 DEF PutFolder, AtStep, Operating
  <1>10. /\ IsNote(k) /\ k.one /\ u \in Accounts /\ u \in Users /\ n \in Names /\ k.todo \in Seq(Statement)
         /\ wish \in [Users -> [Names -> BOOLEAN]] /\ disturbed = [v \in Users |-> disturbed[v]]
         /\ blob[u] \in [Names -> Kinds] /\ rows[u] \in [Names -> IndexRow] /\ IndexTypeOK
         /\ n \in Seq(Segments)
    BY <1>1, <1>2, <1>3, <1>9, OperationFacts, WorkerFacts
  <1>11. OnlyTouches(u) /\ blob'[u] = [blob[u] EXCEPT ![n] = kind]
    BY <1>9, <1>10 DEF IndexTypeOK, Untouched, OnlyTouches
  <1>12. j.one /\ j.user = u /\ j.todo = todo /\ j.work = Tail(k.work)
    BY <1>2, <1>8, <1>10 DEF IsNote, NoteFields
  <1>13. PICK step, i : /\ GoesFor(c, u, step, i)
                        /\ \A b, w, rs, v : GoodAhead(b, w, rs, Range(j.todo), {}) /\ WorkOn(b, "folder", j) =>
                             On(b, w, rs, v, step, i)
    BY <1>9, <1>12, OnToWork
  <1>14. ASSUME OnFor(c, u) PROVE On(blob'[u], wish'[u], rows'[u], u, step, i)
    <2>1. PICK b, w, rs : b = blob[u] /\ w = wish[u] /\ rs = rows[u]
      OBVIOUS
    <2>2. PICK b2 : b2 = [b EXCEPT ![n] = kind]
      OBVIOUS
    <2>3. b \in [Names -> Kinds] /\ rs \in [Names -> IndexRow]
      BY <1>10, <2>1
    <2>4. b2[n] = kind /\ SameBut({n}, b, w, b2, w)
      BY <1>10, <2>2, <2>3 DEF SameBut
    <2>5. GoodAhead(b, w, rs, Range(k.todo), {}) /\ MakesFolder(k)
      BY <1>1, <1>9, <1>14, <2>1 DEF OnFor, On
    <2>6. IsUpsert(s, n, row)
      BY <1>4, <1>5, <1>10, StatementFacts, UpsertFacts
    <2>7. PICK f \in Folders : (k.work = <<f, InitOf(f)>> /\ k.todo = <<>>) \/ k.work = <<InitOf(f)>>
      BY <2>5 DEF MakesFolder
    <2>8. s \in Statement
      BY <2>6 DEF IsUpsert
    <2>9. GoodAhead(b2, w, rs, Range(todo), {}) /\ (j.work # <<>> => MakesFolder(j))
      <3>1. CASE k.work = <<f, InitOf(f)>> /\ k.todo = <<>>
        <4>1. n = f /\ Len(k.work) = 2 /\ Tail(k.work) = <<InitOf(f)>>
          BY <1>3, <3>1
        <4>2. kind = "folder" /\ todo = <<s>>
          BY <1>6, <1>7, <4>1
        <4>3. ~FileIn(b2, n)
          BY <2>4, <4>2 DEF FileIn
        <4>4. Range(todo) = {s} /\ Range(k.todo) = {}
          BY <2>8, <3>1, <4>2, RangeFacts
        <4>5. OnlyFor({s}, n)
          BY <2>6 DEF IsUpsert, OnlyFor
        <4>6. PICK ahead : ahead = Range(k.todo)
          OBVIOUS
        <4>7. ahead \subseteq Statement /\ GoodAhead(b, w, rs, ahead, {})
          BY <2>5, <4>4, <4>6
        <4>8. GoodAhead(b2, w, rs, ahead \cup {s}, {})
          BY <2>3, <2>4, <4>3, <4>5, <4>7, GoneGrows
        <4>9. ahead \cup {s} = Range(todo)
          BY <4>4, <4>6
        <4> QED
          BY <1>12, <4>1, <4>8, <4>9 DEF MakesFolder
      <3>2. CASE k.work = <<InitOf(f)>>
        <4>1. n = InitOf(f) /\ Len(k.work) = 1 /\ Tail(k.work) = <<>>
          BY <1>3, <3>2
        <4>2. todo = k.todo
          BY <1>7, <4>1
        <4>3. Last(n) = Placeholder
          <5>1. f \in Seq(Segments)
            BY BatchFacts, NameFacts
          <5>2. n = Append(f, Placeholder)
            BY <4>1 DEF InitOf
          <5>3. Len(n) = Len(f) + 1 /\ n[Len(f) + 1] = Placeholder
            BY <5>1, <5>2
          <5> QED
            BY <5>3 DEF Last
        <4>4. ~FileIn(b2, n)
          BY <4>3 DEF FileIn
        <4>5. OnlyFor({}, n)
          BY DEF OnlyFor
        <4>6. PICK ahead : ahead = Range(k.todo)
          OBVIOUS
        <4>7. ahead \subseteq Statement /\ GoodAhead(b, w, rs, ahead, {})
          BY <1>10, <2>5, <4>6, RangeFacts
        <4>8. GoodAhead(b2, w, rs, ahead \cup {}, {})
          BY <2>3, <2>4, <4>4, <4>5, <4>7, GoneGrows
        <4>9. ahead \cup {} = Range(todo)
          BY <4>2, <4>6
        <4> QED
          BY <1>12, <4>1, <4>8, <4>9
      <3> QED
        BY <2>7, <3>1, <3>2
    <2>10. On(b2, w, rs, u, step, i)
      BY <1>12, <1>13, <2>9 DEF WorkOn
    <2> QED
      BY <1>9, <1>11, <2>1, <2>2, <2>10
  <1>15. ~disturbed'[u] => ~disturbed[u] /\ (OnFor(c, u) => On(blob'[u], wish'[u], rows'[u], u, step, i))
    BY <1>9, <1>14
  <1> QED
    BY <1>1, <1>2, <1>9, <1>11, <1>13, <1>15, OperationGoesOn

(* A failure disturbs the user the call is for. *)
LEMMA FailureKeeps ==
  ASSUME StorageInv, GalleryInv, NEW c \in Callers, pc[c] \in Operating \cup {"rows", "user"},
         NEW u, u = cur[c].user, NEW step, NEW k, GoesFor(c, u, step, k), Disturbs(u), UNCHANGED <<blob, rows>>
  PROVE  GalleryInv'
  <1>1. /\ u \in Users /\ wish \in [Users -> [Names -> BOOLEAN]] /\ disturbed = [v \in Users |-> disturbed[v]]
    BY OperationFacts
  <1>2. disturbed'[u] /\ disturbed' = [v \in Users |-> disturbed'[v]] /\ wish' = wish
        /\ \A v \in Users \ {u} : disturbed'[v] = disturbed[v]
    BY <1>1 DEF Disturbs
  <1>3. OnlyTouches(u)
    BY <1>1, <1>2 DEF OnlyTouches, Untouched
  <1> QED
    BY <1>2, <1>3, OperationGoesOn

(* An upload or a deletion fails. *)
LEMMA BlobFailsKeeps ==
  ASSUME StorageInv, GalleryInv, NEW c \in Callers, BlobFails(c)
  PROVE  GalleryInv'
  <1>1. PICK k : k = cur[c]
    OBVIOUS
  <1>2. /\ pc[c] \in Operating /\ Disturbs(k.user) /\ UNCHANGED <<blob, rows>>
        /\ \/ GoesToWork(c, "put", [k EXCEPT !.work = Tail(k.work)])
           \/ GoesToWork(c, "delete", AfterDelete(k, FALSE))
    BY <1>1 DEF BlobFails, Fails, Operating
  <1>3. IsNote(k) /\ k.one
    BY <1>1, <1>2, OperationFacts
  <1>4. \E more \in {"put", "delete"} : \E j : GoesToWork(c, more, j) /\ j.one /\ j.user = k.user
    <2>1. [k EXCEPT !.work = Tail(k.work)].one /\ [k EXCEPT !.work = Tail(k.work)].user = k.user
      BY <1>3 DEF IsNote, NoteFields
    <2>2. AfterDelete(k, FALSE).one /\ AfterDelete(k, FALSE).user = k.user
      BY <1>3 DEF AfterDelete, IsNote, NoteFields
    <2> QED
      BY <1>2, <2>1, <2>2
  <1>5. \E step, i : GoesFor(c, k.user, step, i)
    BY <1>4, OnToWork
  <1> QED
    BY <1>1, <1>2, <1>5, FailureKeeps

(* create_folder or move_file returns with an error. *)
LEMMA EndsAtOnceKeeps ==
  ASSUME StorageInv, GalleryInv, NEW c \in Callers, EndsAtOnce(c)
  PROVE  GalleryInv'
  <1>1. Ends(c) /\ pc[c] \in Operating /\ Disturbs(cur[c].user) /\ UNCHANGED <<blob, rows>>
    BY DEF EndsAtOnce, Fails, AtStep, Operating
  <1>2. GoesFor(c, cur[c].user, "idle", Nothing)
    BY <1>1 DEF GoesFor, Ends, Scanning
  <1> QED
    BY <1>1, <1>2, FailureKeeps

(* A statement of an operation runs or fails. *)
LEMMA WriteRowKeeps ==
  ASSUME StorageInv, GalleryInv, NEW c \in Callers, WriteRow(c) \/ RowFails(c)
  PROVE  GalleryInv'
  <1>1. PICK k : k = cur[c]
    OBVIOUS
  <1>2. PICK u : u = k.user
    OBVIOUS
  <1>3. PICK s : s = Head(k.todo)
    OBVIOUS
  <1>4. PICK j : j = [k EXCEPT !.todo = Tail(k.todo)]
    OBVIOUS
  <1>5. pc[c] = "rows" /\ GoesToRows(c, j)
    BY <1>1, <1>4 DEF WriteRow, RowFails, AtStep, Fails
  <1>6. /\ IsNote(k) /\ k.one /\ u \in Accounts /\ u \in Users /\ k.todo \in Seq(Statement)
        /\ wish \in [Users -> [Names -> BOOLEAN]] /\ disturbed = [v \in Users |-> disturbed[v]]
        /\ rows[u] \in [Names -> IndexRow] /\ IndexTypeOK
    BY <1>1, <1>2, <1>5, OperationFacts, WorkerFacts
  <1>7. k.todo # <<>>
    BY <1>1, <1>5, WorkerFacts DEF IsPlain
  <1>8. s \in Statement /\ Tail(k.todo) \in Seq(Statement) /\ Range(k.todo) = {s} \cup Range(Tail(k.todo))
    BY <1>3, <1>6, <1>7, HeadAndTail
  <1>9. j.user = u /\ j.todo = Tail(k.todo)
    BY <1>2, <1>4, <1>6 DEF IsNote, NoteFields
  <1>10. PICK step, i : /\ GoesFor(c, u, step, i)
                        /\ \A b, w, rs, v : GoodAhead(b, w, rs, Range(j.todo), {}) => On(b, w, rs, v, step, i)
    BY <1>5, <1>9, OnToRows
  <1>11. CASE WriteRow(c)
    <2>1. /\ rows' = [rows EXCEPT ![u] = Written(rows[u], s)] /\ UNCHANGED <<blob, wish, disturbed>>
      BY <1>1, <1>2, <1>3, <1>11 DEF WriteRow
    <2>2. OnlyTouches(u) /\ rows'[u] = Written(rows[u], s)
      BY <1>6, <2>1 DEF IndexTypeOK, OnlyTouches, Untouched
    <2>3. ASSUME OnFor(c, u) PROVE On(blob'[u], wish'[u], rows'[u], u, step, i)
      <3>1. PICK b, w, rs : b = blob[u] /\ w = wish[u] /\ rs = rows[u]
        OBVIOUS
      <3>2. GoodAhead(b, w, rs, Range(k.todo), {}) /\ rs \in [Names -> IndexRow]
        BY <1>1, <1>5, <1>6, <2>3, <3>1 DEF OnFor, On
      <3>3. PICK rs2 : rs2 = Written(rs, s)
        OBVIOUS
      <3>4. ASSUME NEW n \in Innermost PROVE Comes(GoodRows(b, w, n), rs2, Range(j.todo), n)
        <4>1. Comes(GoodRows(b, w, n), rs, Range(k.todo), n) /\ n \in Names
          BY <3>2 DEF GoodAhead, Innermost
        <4> QED
          BY <1>8, <1>9, <3>2, <3>3, <4>1, ComesRuns
      <3>5. On(b, w, rs2, u, step, i)
        BY <1>10, <3>4 DEF GoodAhead
      <3> QED
        BY <2>1, <2>2, <3>1, <3>3, <3>5
    <2>4. ~disturbed'[u] => ~disturbed[u] /\ (OnFor(c, u) => On(blob'[u], wish'[u], rows'[u], u, step, i))
      BY <2>1, <2>3
    <2> QED
      BY <1>1, <1>2, <1>5, <1>10, <2>2, <2>4, OperationGoesOn
  <1>12. CASE RowFails(c)
    <2>1. Disturbs(u) /\ UNCHANGED <<blob, rows>>
      BY <1>1, <1>2, <1>12 DEF RowFails
    <2> QED
      BY <1>1, <1>2, <1>5, <1>10, <2>1, FailureKeeps
  <1> QED
    BY <1>11, <1>12

(* A file is copied to its new name (move_file). *)
LEMMA MoveCopyKeeps ==
  ASSUME StorageInv, GalleryInv, NEW c \in Callers, CopyBlob(c), cur[c].op = "move"
  PROVE  GalleryInv'
  <1>1. PICK k : k = cur[c]
    OBVIOUS
  <1>2. PICK u : u = k.user
    OBVIOUS
  <1>3. PICK n, kind : n = NewName(k) /\ kind = blob[u][Head(k.work)]
    OBVIOUS
  <1>4. /\ pc[c] = "copy" /\ pc[c] \in Operating /\ UNCHANGED <<rows, wish, disturbed>>
        /\ blob' = [blob EXCEPT ![u][n] = kind] /\ Goes(c, "unlink", k)
    BY <1>1, <1>2, <1>3 DEF CopyBlob, AtStep, Operating, NewName
  <1>5. /\ k.one /\ u \in Users /\ IndexTypeOK /\ blob[u] \in [Names -> Kinds]
        /\ wish \in [Users -> [Names -> BOOLEAN]] /\ disturbed = [v \in Users |-> disturbed[v]]
    BY <1>1, <1>2, <1>4, OperationFacts, WorkerFacts
  <1>6. OnlyTouches(u) /\ blob'[u] = [blob[u] EXCEPT ![n] = kind]
    BY <1>4, <1>5 DEF IndexTypeOK, Untouched, OnlyTouches
  <1>7. GoesFor(c, u, "unlink", k)
    BY <1>2, <1>4, <1>5 DEF GoesFor, Scanning
  <1>8. ASSUME OnFor(c, u) PROVE On(blob'[u], wish'[u], rows'[u], u, "unlink", k)
    <2>1. PICK b, w, rs : b = blob[u] /\ w = wish[u] /\ rs = rows[u]
      OBVIOUS
    <2>2. PICK b2 : b2 = [b EXCEPT ![n] = kind]
      OBVIOUS
    <2>3. SameBut({n}, b, w, b2, w)
      BY <1>5, <2>1, <2>2 DEF SameBut
    <2>4. GoodAhead(b, w, rs, {}, {})
      BY <1>1, <1>4, <1>8, <2>1 DEF OnFor, On, Renaming
    <2>5. GoodAhead(b2, w, rs, {}, {n})
      BY <2>3, <2>4, CopyOn
    <2>6. On(b2, w, rs, u, "unlink", k)
      BY <1>1, <1>3, <2>5 DEF On, Renaming, Scanning
    <2> QED
      BY <1>4, <1>6, <2>1, <2>2, <2>6
  <1>9. ~disturbed'[u] => ~disturbed[u] /\ (OnFor(c, u) => On(blob'[u], wish'[u], rows'[u], u, "unlink", k))
    BY <1>4, <1>8
  <1> QED
    BY <1>1, <1>2, <1>4, <1>6, <1>7, <1>9, OperationGoesOn

\* The blob n of u is deleted; the flag of new is set, or that of n goes over to it.
Unlinks(c, u, n, new, moves) ==
  /\ pc[c] = "unlink" /\ pc[c] \in Operating /\ UNCHANGED rows /\ OnlyTouches(u)
  /\ blob[u][n] # "none" /\ blob'[u] = [blob[u] EXCEPT ![n] = "none"]
  /\ wish'[u] \in [Names -> BOOLEAN]
  /\ \A m \in Names \ {n, new} : wish'[u][m] = wish[u][m]
  /\ new \in Names /\ moves => wish'[u][new] = FALSE
  /\ new \in Names /\ ~moves => wish'[u][new] = wish[u][n]
  /\ ~disturbed'[u] => ~disturbed[u]
  /\ ~disturbed'[u] /\ ~moves /\ Last(new) # Placeholder => Last(n) # Placeholder

(* A blob that has been copied is deleted; the flag goes over to the new name only if *)
(* it is renamed.                                                                     *)
LEMMA UnlinkFacts ==
  ASSUME StorageInv, GalleryInv, NEW c \in Callers, UnlinkBlob(c),
         NEW k, k = cur[c], NEW u, u = k.user, NEW n, n = Head(k.work), NEW new, new = NewName(k)
  PROVE  Unlinks(c, u, n, new, k.op = "move")
  <1>1. /\ pc[c] = "unlink" /\ pc[c] \in Operating /\ UNCHANGED rows
        /\ blob[u][n] # "none" /\ blob' = [blob EXCEPT ![u][n] = "none"]
    BY DEF UnlinkBlob, AtStep, Operating
  <1>2. /\ u \in Users /\ IndexTypeOK /\ blob[u] \in [Names -> Kinds] /\ n \in Names
        /\ wish \in [Users -> [Names -> BOOLEAN]] /\ disturbed = [v \in Users |-> disturbed[v]]
    BY <1>1, OperationFacts, WorkerFacts
  <1>3. PICK g : g = (~(k.op = "move") /\ wish[u][n])
    OBVIOUS
  <1>4. g \in BOOLEAN /\ g = IF k.op = "move" THEN FALSE ELSE wish[u][n]
    <2>1. wish[u][n] \in BOOLEAN
      BY <1>2
    <2> QED
      BY <1>3, <2>1
  <1>5. wish' = [wish EXCEPT ![u] = [wish[u] EXCEPT ![n] = FALSE, ![new] = g]]
    BY <1>3, Zenon DEF UnlinkBlob, NewName
  <1>6. PICK w2 : w2 = [wish[u] EXCEPT ![n] = FALSE, ![new] = g]
    OBVIOUS
  <1>7. /\ w2 \in [Names -> BOOLEAN] /\ (new \in Names => w2[new] = g)
        /\ \A m \in Names \ {n, new} : w2[m] = wish[u][m]
    BY <1>2, <1>4, <1>6
  <1>8. wish' = [wish EXCEPT ![u] = w2]
    BY <1>5, <1>6
  <1>9. wish'[u] = w2 /\ wish' \in [Users -> [Names -> BOOLEAN]] /\ \A v \in Users \ {u} : wish'[v] = wish[v]
    BY <1>2, <1>7, <1>8
  <1>10. PICK d : d = (disturbed[u] \/ (~(k.op = "move") /\ Last(n) = Placeholder /\ Last(new) # Placeholder))
    OBVIOUS
  <1>11. disturbed' = [disturbed EXCEPT ![u] = d]
    BY <1>10, Zenon DEF UnlinkBlob, NewName
  <1>12. /\ disturbed' = [v \in Users |-> disturbed'[v]] /\ disturbed'[u] = d
         /\ \A v \in Users \ {u} : disturbed'[v] = disturbed[v]
    BY <1>2, <1>11
  <1>13. OnlyTouches(u) /\ blob'[u] = [blob[u] EXCEPT ![n] = "none"]
    BY <1>1, <1>2, <1>9, <1>12 DEF IndexTypeOK, Untouched, OnlyTouches
  <1>14. ~d => ~disturbed[u] /\ (k.op # "move" /\ Last(new) # Placeholder => Last(n) # Placeholder)
    BY <1>10
  <1> QED
    BY <1>1, <1>4, <1>7, <1>9, <1>12, <1>13, <1>14 DEF Unlinks

(* The file is deleted under its old name (move_file): the moved file is not in the gallery. *)
LEMMA MoveUnlinkKeeps ==
  ASSUME StorageInv, GalleryInv, NEW c \in Callers, UnlinkBlob(c), cur[c].op = "move"
  PROVE  GalleryInv'
  <1>1. PICK k : k = cur[c]
    OBVIOUS
  <1>2. PICK u : u = k.user
    OBVIOUS
  <1>3. PICK n, new : n = Head(k.work) /\ new = NewName(k)
    OBVIOUS
  <1>4. PICK row : row = FileRow(FALSE)
    OBVIOUS
  <1>5. row \in IndexRow /\ row.kind = "file" /\ row.public = FALSE
    BY <1>4 DEF FileRow, IndexRow, Kinds
  <1>6. PICK s, t : s = Delete(u, n) /\ t = Upsert(u, new, row)
    OBVIOUS
  <1>7. PICK j : j = [k EXCEPT !.work = <<>>, !.todo = <<s, t>>]
    OBVIOUS
  <1>8. GoesToRows(c, j)
    <2>1. GoesToRows(c, [k EXCEPT !.work = <<>>,
                           !.todo = <<Delete(k.user, Head(k.work)), Upsert(k.user, NewName(k), FileRow(FALSE))>>])
      BY <1>1 DEF UnlinkBlob, NewName
    <2> QED
      BY <1>2, <1>3, <1>4, <1>6, <1>7, <2>1
  <1>10. PICK w2 : w2 = wish'[u]
    OBVIOUS
  <1>13. /\ pc[c] = "unlink" /\ pc[c] \in Operating /\ UNCHANGED rows /\ OnlyTouches(u)
         /\ blob'[u] = [blob[u] EXCEPT ![n] = "none"]
         /\ (new \in Names => w2[new] = FALSE) /\ \A m \in Names \ {n, new} : w2[m] = wish[u][m]
         /\ ~disturbed'[u] => ~disturbed[u]
    <2>1. /\ pc[c] = "unlink" /\ pc[c] \in Operating /\ UNCHANGED rows /\ OnlyTouches(u)
          /\ blob'[u] = [blob[u] EXCEPT ![n] = "none"]
          /\ (new \in Names /\ k.op = "move" => wish'[u][new] = FALSE)
          /\ (~disturbed'[u] => ~disturbed[u])
          /\ \A m \in Names \ {n, new} : wish'[u][m] = wish[u][m]
      <3>1. Unlinks(c, u, n, new, k.op = "move")
        BY <1>1, <1>2, <1>3, UnlinkFacts
      <3> QED
        BY <3>1 DEF Unlinks
    <2> QED
      BY <1>1, <1>10, <2>1
  <1>9. /\ IsNote(k) /\ k.one /\ u \in Accounts /\ u \in Users /\ IndexTypeOK
        /\ blob[u] \in [Names -> Kinds] /\ rows[u] \in [Names -> IndexRow]
        /\ n \in Names /\ n \in Seq(Segments)
    BY <1>1, <1>2, <1>3, <1>13, OperationFacts, WorkerFacts
  <1>14. j.user = u /\ j.todo = <<s, t>>
    BY <1>2, <1>7, <1>9 DEF IsNote, NoteFields
  <1>15. PICK step, i : /\ GoesFor(c, u, step, i)
                        /\ \A b, w, rs, v : GoodAhead(b, w, rs, Range(j.todo), {}) => On(b, w, rs, v, step, i)
    BY <1>8, <1>14, OnToRows
  <1>16. ASSUME OnFor(c, u) PROVE On(blob'[u], wish'[u], rows'[u], u, step, i)
    <2>1. PICK b, w, rs : b = blob[u] /\ w = wish[u] /\ rs = rows[u]
      OBVIOUS
    <2>2. PICK b2 : b2 = [b EXCEPT ![n] = "none"]
      OBVIOUS
    <2>3. SameBut({n, new}, b, w, b2, w2) /\ b2[n] = "none"
      BY <1>9, <1>13, <2>1, <2>2 DEF SameBut
    <2>4. GoodAhead(b, w, rs, {}, {new}) /\ rs \in [Names -> IndexRow]
      BY <1>1, <1>3, <1>9, <1>13, <1>16, <2>1 DEF OnFor, On, Renaming
    <2>5. new \in Seq(Segments)
      BY <1>3, <1>9, RenamedIsName DEF NewName, IsNote
    <2>6. IsDelete(s, n) /\ IsUpsert(t, new, row)
      BY <1>5, <1>6, <1>9, <2>5, DeleteFacts, UpsertFacts
    <2>7. Range(j.todo) = {s, t}
      <3>1. s \in Statement /\ t \in Statement
        BY <2>6 DEF IsDelete, IsUpsert
      <3> QED
        BY <1>14, <3>1, RangeFacts
    <2>8. GoodAhead(b2, w2, rs, {s, t}, {})
      BY <1>5, <1>13, <2>3, <2>4, <2>6, MoveOn
    <2>9. On(b2, w2, rs, u, step, i)
      BY <1>15, <2>7, <2>8
    <2> QED
      BY <1>10, <1>13, <2>1, <2>2, <2>9
  <1>17. ~disturbed'[u] => ~disturbed[u] /\ (OnFor(c, u) => On(blob'[u], wish'[u], rows'[u], u, step, i))
    BY <1>13, <1>16
  <1> QED
    BY <1>1, <1>2, <1>13, <1>15, <1>17, OperationGoesOn

-----------------------------------------------------------------------------
(* rename_file: the statements for an entry *)

\* The entry of n is deleted and, if there is one, written for the new name.
MovesRow(more, n, new, entry, kind) ==
  /\ more \subseteq Statement
  /\ \A s \in more : \/ IsDelete(s, n)
                     \/ IsUpsert(s, new, s.row) /\ s.row.kind = kind /\ s.row.public = entry.public
                        /\ entry.kind # "none"
  /\ entry.kind # "none" => \E s \in more : Hits(s, new)

KindOf(entry, properties) == IF properties THEN "file" ELSE entry.kind

LEMMA EntryMoves ==
  ASSUME NEW k, IsNote(k), k.user \in Accounts, k.rows \in [Names -> IndexRow], NEW n \in Names,
         NEW properties \in BOOLEAN
  PROVE  MovesRow(Range(EntryMoved(k, n, properties)), n, Renamed(n, k.from, k.to), k.rows[n],
               KindOf(k.rows[n], properties))
  <1>1. PICK entry \in IndexRow : entry = k.rows[n]
    OBVIOUS
  <1>2. PICK new \in Seq(Segments) : new = Renamed(n, k.from, k.to)
    <2>1. n \in Seq(Segments)
      BY NameFacts
    <2>2. Renamed(n, k.from, k.to) \in Seq(Segments)
      BY <2>1, RenamedIsName DEF IsNote
    <2> QED
      BY <2>2
  <1>3. PICK kind \in Kinds : kind = KindOf(entry, properties)
    BY <1>1 DEF IndexRow, Kinds, KindOf
  <1>4. PICK row : row = [entry EXCEPT !.kind = kind]
    OBVIOUS
  <1>5. row \in IndexRow /\ row.kind = kind /\ row.public = entry.public
    BY <1>1, <1>3, <1>4 DEF IndexRow
  <1>6. PICK s, t : s = Delete(k.user, n) /\ t = Upsert(k.user, new, row)
    OBVIOUS
  <1>7. IsDelete(s, n) /\ IsUpsert(t, new, row)
    BY <1>2, <1>5, <1>6, NameFacts, DeleteFacts, UpsertFacts
  <1>8. s \in Statement /\ t \in Statement /\ IsUpsert(t, new, t.row) /\ t.row = row /\ Hits(t, new)
    BY <1>7 DEF IsDelete, IsUpsert
  <1>9. PICK all : all = EntryMoved(k, n, properties)
    OBVIOUS
  <1>10. all = <<s>> \o IF entry.kind = "none" THEN <<>> ELSE <<t>>
    BY <1>1, <1>2, <1>3, <1>4, <1>6, <1>9 DEF EntryMoved, KindOf
  <1>11. CASE entry.kind = "none"
    <2>1. all = <<s>>
      BY <1>10, <1>11
    <2>2. Range(all) = {s}
      BY <1>8, <2>1, RangeFacts
    <2> QED
      BY <1>1, <1>2, <1>3, <1>7, <1>8, <1>9, <1>11, <2>2 DEF MovesRow
  <1>12. CASE entry.kind # "none"
    <2> DEFINE p == <<s>>
               q == <<t>>
    <2>1. all = p \o q
      BY <1>10, <1>12
    <2>2. Range(all) = {s, t}
      <3>1. p \in Seq(Statement) /\ q \in Seq(Statement) /\ Range(p) = {s} /\ Range(q) = {t}
        BY <1>8, RangeFacts
      <3> HIDE DEF p, q
      <3>2. Range(all) = Range(p) \cup Range(q)
        BY <2>1, <3>1, RangeJoined
      <3> QED
        BY <3>1, <3>2
    <2>3. MovesRow(Range(all), n, new, entry, kind)
      BY <1>5, <1>7, <1>8, <1>12, <2>2 DEF MovesRow
    <2> QED
      BY <1>1, <1>2, <1>3, <1>9, <2>3
  <1> QED
    BY <1>11, <1>12

\* Each statement is one for the entry of a name in the folder.
MovesOf(more, k) ==
  \A s \in more : \E n \in Names, ss \in SUBSET Statement :
    s \in ss /\ IsPrefix(k.from, n) /\ MovesRow(ss, n, Renamed(n, k.from, k.to), k.rows[n], k.rows[n].kind)

LEMMA EntriesMove ==
  ASSUME NEW k, IsNote(k), k.user \in Accounts, k.rows \in [Names -> IndexRow]
  PROVE  MovesOf(Range(EntriesLeft(k)), k) /\ EntriesLeft(k) \in Seq(Statement)
  <1> DEFINE processed == {w.name : w \in {x \in Range(k.todo) : x.do = "delete"}}
             T == {n \in Names \ processed : IsPrefix(k.from, n) /\ k.rows[n].kind # "none"}
             left == Only(NameList, T)
             entries == [i \in 1 .. Len(left) |-> EntryMoved(k, left[i], FALSE)]
  <1>1. EntriesLeft(k) = OneAfterOther(entries)
    BY DEF EntriesLeft
  <1>2. left \in Seq(Names) /\ Range(left) \subseteq T
    <2> HIDE DEF T
    <2> QED
      BY StorageAssumption, OnlyFacts
  <1>3. \A n \in T : n \in Names /\ IsPrefix(k.from, n)
    OBVIOUS
  <1> HIDE DEF left, T
  <1>4. \A i \in 1 .. Len(left) : left[i] \in Names /\ IsPrefix(k.from, left[i])
    <2>1. \A i \in 1 .. Len(left) : left[i] \in Range(left)
      BY <1>2 DEF Range
    <2> QED
      BY <1>2, <1>3, <2>1
  <1>5. \A i \in 1 .. Len(left) : EntryMoved(k, left[i], FALSE) \in Seq(Statement)
    BY <1>4, EntryMovedFacts
  <1>6. entries \in Seq(Seq(Statement)) /\ DOMAIN entries = 1 .. Len(left)
    <2>1. Len(left) \in Nat
      BY <1>2
    <2> DEFINE S == Seq(Statement)
    <2>2. entries \in [1 .. Len(left) -> S]
      BY <1>5
    <2> HIDE DEF S
    <2>4. DOMAIN entries = 1 .. Len(left)
      OBVIOUS
    <2> HIDE DEF entries
    <2>3. entries \in Seq(S)
      BY <2>1, <2>2, IsASeq
    <2> QED
      BY <2>3, <2>4 DEF S
  <1>7. \A i \in 1 .. Len(left) : entries[i] = EntryMoved(k, left[i], FALSE)
    OBVIOUS
  <1> HIDE DEF entries
  <1>8. /\ OneAfterOther(entries) \in Seq(Statement)
        /\ Range(OneAfterOther(entries)) = UNION {Range(entries[i]) : i \in DOMAIN entries}
    BY <1>6, OneAfterOtherFacts
  <1>9. ASSUME NEW s \in Range(OneAfterOther(entries))
        PROVE  \E n \in Names, ss \in SUBSET Statement :
                 s \in ss /\ IsPrefix(k.from, n) /\ MovesRow(ss, n, Renamed(n, k.from, k.to), k.rows[n], k.rows[n].kind)
    <2>1. PICK i \in 1 .. Len(left) : s \in Range(entries[i])
      BY <1>6, <1>8
    <2>2. PICK n \in Names : n = left[i] /\ IsPrefix(k.from, n)
      BY <1>4
    <2>3. PICK ss : ss = Range(EntryMoved(k, n, FALSE))
      OBVIOUS
    <2>4. s \in ss
      BY <1>7, <2>1, <2>2, <2>3
    <2>5. MovesRow(ss, n, Renamed(n, k.from, k.to), k.rows[n], KindOf(k.rows[n], FALSE))
      BY <2>3, EntryMoves
    <2>6. KindOf(k.rows[n], FALSE) = k.rows[n].kind
      BY DEF KindOf
    <2>7. ss \in SUBSET Statement
      BY <2>5 DEF MovesRow
    <2> QED
      BY <2>2, <2>4, <2>5, <2>6, <2>7
  <1> QED
    BY <1>1, <1>8, <1>9 DEF MovesOf

-----------------------------------------------------------------------------
(* rename_file: a name *)

\* What the entry of a name says is what its row says.
Says(entry, row) == entry.kind = row.kind /\ entry.public = row.public

(* A blob is deleted under its old name: what is noted for the new name says of it what *)
(* its row has said.                                                                     *)
LEMMA RenameOn ==
  ASSUME NEW b, NEW w, NEW rs \in [Names -> IndexRow], NEW ahead, ahead \subseteq Statement,
         NEW n \in Names, NEW new \in Names, GoodAhead(b, w, rs, ahead, {new}), n # new,
         b[new] = b[n], \A s \in ahead : ~Hits(s, new),
         new \in Innermost => n \in Innermost, n \in Innermost => rs[n] \in GoodRows(b, w, n),
         Last(new) # Placeholder => Last(n) # Placeholder,
         NEW entry, Says(entry, rs[n]), NEW more, MovesRow(more, n, new, entry, "file"),
         NEW b2, NEW w2, SameBut({n, new}, b, w, b2, w2), b2[n] = "none", b2[new] = b[new], w2[new] = w[n]
  PROVE  GoodAhead(b2, w2, rs, ahead \cup more, {})
  <1>1. /\ more \subseteq Statement
        /\ \A s \in more : \/ IsDelete(s, n)
                           \/ IsUpsert(s, new, s.row) /\ s.row.kind = "file" /\ s.row.public = entry.public
        /\ entry.kind # "none" => \E s \in more : Hits(s, new)
    BY DEF MovesRow
  <1>2. Comes(GoodRows(b2, w2, n), rs, ahead \cup more, n)
    BY <1>1, NoFileComes DEF FileIn
  <1>3. ASSUME new \in Innermost PROVE Comes(GoodRows(b2, w2, new), rs, ahead \cup more, new)
    <2>1. CASE ~FileIn(b2, new)
      BY <1>1, <2>1, NoFileComes
    <2>2. CASE FileIn(b2, new)
      <3>1. FileIn(b, n)
        BY <2>2 DEF FileIn
      <3>2. rs[n].kind = "file" /\ rs[n].public = w[n]
        BY <1>3, <3>1 DEF GoodRows
      <3>3. ASSUME NEW s \in more, Hits(s, new) PROVE Leaves(s) \in GoodRows(b2, w2, new)
        <4>1. IsUpsert(s, new, s.row) /\ s.row.kind = "file" /\ s.row.public = entry.public
          BY <1>1, <3>3 DEF IsDelete
        <4>2. Leaves(s) = s.row /\ s.row \in IndexRow
          BY <1>1, <4>1, LeavesFacts DEF IsUpsert
        <4> QED
          BY <3>2, <4>1, <4>2 DEF GoodRows, Says
      <3>4. \E s \in more : Hits(s, new)
        BY <1>1, <3>2 DEF Says
      <3> QED
        BY <3>3, <3>4 DEF Comes
    <2> QED
      BY <2>1, <2>2
  <1>4. ASSUME NEW m \in Innermost, m \notin {n, new}, NEW s \in more, Hits(s, m) PROVE FALSE
    BY <1>1, <1>4 DEF IsDelete, IsUpsert
  <1>5. Grows(b2, w2, rs, ahead, more, {n, new}, {})
    BY <1>2, <1>3, <1>4 DEF Grows
  <1> QED
    BY <1>5, GoodGrows

(* There is no blob of the name: its entry is renamed. *)
LEMMA EntryOn ==
  ASSUME NEW b, NEW w, NEW rs, NEW ahead, GoodAhead(b, w, rs, ahead, {}),
         NEW n \in Names, NEW new, b[n] = "none", NEW entry,
         new \in Innermost /\ FileIn(b, new) /\ entry.kind # "none" =>
           entry.kind = "file" /\ entry.public = w[new],
         NEW more, MovesRow(more, n, new, entry, entry.kind)
  PROVE  GoodAhead(b, w, rs, ahead \cup more, {})
  <1>1. SameBut({}, b, w, b, w)
    BY DEF SameBut
  <1>2. ASSUME NEW m \in Innermost, NEW s \in more, Hits(s, m) PROVE Leaves(s) \in GoodRows(b, w, m)
    <2>1. s \in Statement /\ Leaves(s) \in IndexRow
      BY LeavesFacts DEF MovesRow
    <2>2. CASE ~FileIn(b, m)
      BY <2>1, <2>2, LeavesFacts
    <2>3. CASE FileIn(b, m)
      <3>1. m # n
        BY <2>3 DEF FileIn
      <3>2. /\ IsUpsert(s, new, s.row) /\ s.row.kind = entry.kind /\ s.row.public = entry.public
            /\ entry.kind # "none"
        BY <1>2, <3>1 DEF MovesRow, IsDelete
      <3>3. m = new /\ Leaves(s) = s.row
        BY <1>2, <3>2 DEF IsUpsert
      <3> QED
        BY <2>1, <2>3, <3>2, <3>3 DEF GoodRows
    <2> QED
      BY <2>2, <2>3
  <1>3. Grows(b, w, rs, ahead, more, {}, {})
    BY <1>2 DEF Grows
  <1> QED
    BY <1>1, <1>3, GoodGrows

(* The row of a name that is listed says what the row does. *)
LEMMA ListedSays ==
  ASSUME NEW rs \in [Names -> IndexRow], NEW n \in Names
  PROVE  Says(Listed(rs)[n], rs[n]) /\ Listed(rs) \in [Names -> IndexRow]
  BY DEF Says, Listed, IndexRow

(* A row that fits says of no file that is not there. *)
LEMMA FitSays ==
  ASSUME NEW b, NEW w, NEW rs, Settled(b, w, rs), NEW n \in Innermost, b[n] = "none", HasBlobs(b)
  PROVE  rs[n].kind # "file"
  BY SettledIsGood DEF FitRows

-----------------------------------------------------------------------------
(* rename_file with a folder *)

\* k still has what j has not come to, after n.
WorkLeft(b, j, n, left) ==
  /\ \A m \in Range(left) : IsPrefix(j.from, m)
  /\ \A m \in Names : /\ IsPrefix(j.from, m) /\ m # n /\ b[m] # "none"
                      /\ m \in Range(j.work) \/ j.from \in Range(j.work)
                      => m \in Range(left) \/ j.from \in Range(left)

SameFolder(g, k) == g.from = k.from /\ g.to = k.to /\ g.op = k.op /\ g.rows = k.rows

(* What renames_folder does with a name of the folder concerns no other: nor does it *)
(* put a blob into the folder.                                                       *)
LEMMA FolderFacts ==
  ASSUME NEW b, NEW k, <<k.from, k.to>> \in Renames, k.from # k.to, Apart(b, k),
         NEW n \in Names, IsPrefix(k.from, n)
  PROVE  /\ Renamed(n, k.from, k.to) \in Names /\ (Renamed(n, k.from, k.to) \in Innermost => n \in Innermost)
         /\ b[n] # "none" => ~IsPrefix(k.from, Renamed(n, k.from, k.to)) /\ Renamed(n, k.from, k.to) # n
         /\ \A m \in Names : IsPrefix(k.from, m) =>
              /\ Renamed(m, k.from, k.to) = Renamed(n, k.from, k.to) => m = n
              /\ b[m] # "none" => Renamed(m, k.from, k.to) # n
  <1>1. \A m \in Names : IsPrefix(k.from, m) =>
          /\ Renamed(m, k.from, k.to) \in Names /\ IsPrefix(k.to, Renamed(m, k.from, k.to))
          /\ (Renamed(m, k.from, k.to) = Renamed(n, k.from, k.to) => m = n)
    BY RenamesFacts
  <1>2. Renamed(n, k.from, k.to) \in Innermost => n \in Innermost
    BY RenamesFacts
  <1>3. ASSUME NEW m \in Names, IsPrefix(k.from, m), b[m] # "none", NEW x \in Names, IsPrefix(k.to, x)
        PROVE  ~IsPrefix(k.from, x)
    BY <1>3 DEF Apart
  <1> QED
    BY <1>1, <1>2, <1>3

(* A name without a blob, or whose new name is taken, is passed over; its entry may *)
(* be renamed.                                                                       *)
LEMMA FolderPasses ==
  ASSUME NEW b, NEW w, NEW rs \in [Names -> IndexRow], NEW k, FolderMoves(b, w, rs, k, {}),
         NEW n \in Names, IsPrefix(k.from, n), NEW g, SameFolder(g, k), WorkLeft(b, k, n, g.work),
         NEW more, Range(g.todo) = Range(k.todo) \cup more,
         \/ more = {} /\ b[Renamed(n, k.from, k.to)] # "none"
         \/ MovesRow(more, n, Renamed(n, k.from, k.to), k.rows[n], k.rows[n].kind) /\ b[n] = "none"
  PROVE  FolderMoves(b, w, rs, g, {})
  <1> DEFINE r(m) == Renamed(m, k.from, k.to)
  <1>1. /\ k.rows = Listed(rs) /\ <<k.from, k.to>> \in Renames /\ k.from # k.to /\ k.op = "rename folder"
        /\ GoodAhead(b, w, rs, Range(k.todo), {})
        /\ Apart(b, k) /\ OldNames(b, w, rs, k, {}) /\ NewNames(b, w, rs, k, {})
    BY DEF FolderMoves
  <1>2. PICK from, to : from = k.from /\ to = k.to
    OBVIOUS
  <1>3. g.from = from /\ g.to = to /\ g.op = k.op /\ g.rows = k.rows
    BY <1>2 DEF SameFolder
  <1>4. Says(k.rows[n], rs[n])
    BY <1>1, ListedSays
  <1>5. GoodAhead(b, w, rs, Range(g.todo), {})
    <2>1. CASE more = {}
      <3>1. Range(g.todo) = Range(k.todo)
        BY <2>1
      <3> QED
        BY <1>1, <3>1
    <2>2. CASE more # {}
      <3>1. MovesRow(more, n, r(n), k.rows[n], k.rows[n].kind) /\ b[n] = "none"
        BY <2>2
      <3>2. r(n) \in Innermost /\ FileIn(b, r(n)) => rs[n].kind = "file" /\ rs[n].public = w[r(n)]
        BY <1>1 DEF NewNames
      <3>3. r(n) \in Innermost /\ FileIn(b, r(n)) /\ k.rows[n].kind # "none" =>
              k.rows[n].kind = "file" /\ k.rows[n].public = w[r(n)]
        BY <1>4, <3>2 DEF Says
      <3> DEFINE ahead == Range(k.todo)
      <3>4. GoodAhead(b, w, rs, ahead, {}) /\ Range(g.todo) = ahead \cup more
        BY <1>1
      <3> HIDE DEF ahead
      <3>5. PICK new, entry : new = r(n) /\ entry = k.rows[n]
        OBVIOUS
      <3>6. MovesRow(more, n, new, entry, entry.kind) /\ b[n] = "none"
        BY <3>1, <3>5
      <3>7. new \in Innermost /\ FileIn(b, new) /\ entry.kind # "none" => entry.kind = "file" /\ entry.public = w[new]
        BY <3>3, <3>5
      <3>8. GoodAhead(b, w, rs, ahead \cup more, {})
        BY <3>4, <3>6, <3>7, EntryOn
      <3> QED
        BY <3>4, <3>8
    <2> QED
      BY <2>1, <2>2
  <1>6. Apart(b, g)
    BY <1>1, <1>2, <1>3 DEF Apart
  <1>7. ASSUME n \in Innermost PROVE b[n] = "none"
    <2>1. b[n] # "none" => b[r(n)] = "none"
      BY <1>1, <1>7 DEF OldNames
    <2> QED
      BY <2>1
  <1>8. OldNames(b, w, rs, g, {})
    <2> SUFFICES ASSUME NEW m \in Innermost, IsPrefix(from, m)
                 PROVE  /\ rs[m] \in GoodRows(b, w, m)
                        /\ b[m] # "none" => m \in Range(g.work) \/ from \in Range(g.work)
                        /\ b[m] # "none" /\ Renamed(m, from, to) \notin {} => b[Renamed(m, from, to)] = "none"
      BY <1>3 DEF OldNames
    <2>1. /\ rs[m] \in GoodRows(b, w, m)
          /\ b[m] # "none" => m \in Range(k.work) \/ k.from \in Range(k.work)
          /\ b[m] # "none" /\ Renamed(m, from, to) \notin {} => b[Renamed(m, from, to)] = "none"
      BY <1>1, <1>2 DEF OldNames
    <2>2. ASSUME b[m] # "none" PROVE m \in Range(g.work) \/ from \in Range(g.work)
      <3>1. m \in Names /\ m # n
        BY <1>7, <2>2 DEF Innermost
      <3> QED
        BY <1>2, <2>1, <2>2, <3>1 DEF WorkLeft
    <2> QED
      BY <2>1, <2>2
  <1>9. NewNames(b, w, rs, g, {})
    <2> SUFFICES ASSUME NEW m \in Names, IsPrefix(from, m)
                 PROVE  /\ b[m] # "none" => \A s \in Range(g.todo) : ~Hits(s, Renamed(m, from, to))
                        /\ Renamed(m, from, to) \in Innermost \ {} /\ FileIn(b, Renamed(m, from, to)) =>
                             rs[m].kind = "file" /\ rs[m].public = w[Renamed(m, from, to)]
      BY <1>3 DEF NewNames
    <2>1. /\ b[m] # "none" => \A s \in Range(k.todo) : ~Hits(s, Renamed(m, from, to))
          /\ Renamed(m, from, to) \in Innermost \ {} /\ FileIn(b, Renamed(m, from, to)) =>
               rs[m].kind = "file" /\ rs[m].public = w[Renamed(m, from, to)]
      BY <1>1, <1>2 DEF NewNames
    <2>2. ASSUME b[m] # "none", NEW s \in more, Hits(s, r(m)) PROVE FALSE
      <3>1. MovesRow(more, n, r(n), k.rows[n], k.rows[n].kind) /\ b[n] = "none"
        BY <2>2
      <3>2. r(m) = n \/ r(m) = r(n)
        BY <2>2, <3>1 DEF MovesRow, IsDelete, IsUpsert
      <3>3. r(m) # n /\ (r(m) = r(n) => m = n)
        <4>1. m \in Names /\ IsPrefix(k.from, m)
          BY <1>2
        <4>2. /\ Renamed(m, k.from, k.to) = Renamed(n, k.from, k.to) => m = n
              /\ b[m] # "none" => Renamed(m, k.from, k.to) # n
          <5>1. /\ <<k.from, k.to>> \in Renames /\ k.from # k.to /\ Apart(b, k)
                /\ n \in Names /\ IsPrefix(k.from, n)
            BY <1>1
          <5> QED
            BY <4>1, <5>1, FolderFacts
        <4> QED
          BY <2>2, <4>2
      <3> QED
        BY <2>2, <3>1, <3>2, <3>3
    <2> QED
      BY <1>2, <2>1, <2>2
  <1>10. <<g.from, g.to>> \in Renames /\ g.from # g.to /\ g.op = "rename folder" /\ g.rows = Listed(rs)
    BY <1>1, <1>2, <1>3
  <1>11. \A m \in Range(g.work) : IsPrefix(g.from, m)
    BY <1>2, <1>3 DEF WorkLeft
  <1> QED
    BY <1>5, <1>6, <1>8, <1>9, <1>10, <1>11 DEF FolderMoves

(* All names of the folder have been handled: the entries that are left follow. *)
LEMMA FolderDone ==
  ASSUME NEW b, NEW w, NEW rs \in [Names -> IndexRow], NEW k, FolderMoves(b, w, rs, k, {}), Range(k.work) = {},
         NEW more, more \subseteq Statement, MovesOf(more, k)
  PROVE  GoodAhead(b, w, rs, Range(k.todo) \cup more, {})
  <1> DEFINE ahead == Range(k.todo)
  <1>1. /\ k.rows = Listed(rs) /\ GoodAhead(b, w, rs, ahead, {})
        /\ OldNames(b, w, rs, k, {}) /\ NewNames(b, w, rs, k, {})
    BY DEF FolderMoves
  <1> HIDE DEF ahead
  <1>2. ASSUME NEW m \in Innermost, NEW s \in more, Hits(s, m) PROVE Leaves(s) \in GoodRows(b, w, m)
    <2>1. Leaves(s) \in IndexRow
      BY LeavesFacts
    <2>2. CASE ~FileIn(b, m)
      BY <2>1, <2>2, LeavesFacts
    <2>3. CASE FileIn(b, m)
      <3>1. PICK n \in Names, ss \in SUBSET Statement :
              s \in ss /\ IsPrefix(k.from, n) /\ MovesRow(ss, n, Renamed(n, k.from, k.to), k.rows[n], k.rows[n].kind)
        BY DEF MovesOf
      <3>2. PICK new : new = Renamed(n, k.from, k.to)
        OBVIOUS
      <3>3. /\ rs[n] \in GoodRows(b, w, n) \/ n \notin Innermost
            /\ b[n] = "none" \/ n \notin Innermost
        BY <1>1, <3>1 DEF OldNames
      <3>4. m # n
        BY <2>3, <3>3 DEF FileIn
      <3>5. IsUpsert(s, new, s.row) /\ s.row.kind = k.rows[n].kind /\ s.row.public = k.rows[n].public
        BY <1>2, <3>1, <3>2, <3>4 DEF MovesRow, IsDelete
      <3>6. m = new /\ Leaves(s) = s.row
        BY <1>2, <3>5 DEF IsUpsert
      <3>7. rs[n].kind = "file" /\ rs[n].public = w[new]
        BY <1>1, <2>3, <3>1, <3>2, <3>6 DEF NewNames
      <3>8. Says(k.rows[n], rs[n])
        BY <1>1, ListedSays
      <3> QED
        BY <2>1, <3>5, <3>6, <3>7, <3>8 DEF Says, GoodRows
    <2> QED
      BY <2>2, <2>3
  <1>3. Grows(b, w, rs, ahead, more, {}, {}) /\ SameBut({}, b, w, b, w)
    BY <1>2 DEF Grows, SameBut
  <1>4. GoodAhead(b, w, rs, ahead \cup more, {})
    BY <1>1, <1>3, GoodGrows
  <1> QED
    BY <1>4 DEF ahead

(* A blob of the folder has been copied to its new name. *)
LEMMA FolderCopied ==
  ASSUME NEW b, NEW w, NEW rs, NEW k, FolderMoves(b, w, rs, k, {}),
         NEW n \in Names, IsPrefix(k.from, n), b[n] # "none", NEW new, new = Renamed(n, k.from, k.to),
         NEW b2, SameBut({new}, b, w, b2, w)
  PROVE  FolderMoves(b2, w, rs, k, {new})
  <1>1. /\ k.rows = Listed(rs) /\ <<k.from, k.to>> \in Renames /\ k.from # k.to /\ k.op = "rename folder"
        /\ GoodAhead(b, w, rs, Range(k.todo), {})
        /\ \A m \in Range(k.work) : IsPrefix(k.from, m)
        /\ Apart(b, k) /\ OldNames(b, w, rs, k, {}) /\ NewNames(b, w, rs, k, {})
    BY DEF FolderMoves
  <1>2. new \in Names /\ ~IsPrefix(k.from, new)
    BY <1>1, FolderFacts
  <1>3. \A m \in Names : IsPrefix(k.from, m) => m # new /\ b2[m] = b[m]
    BY <1>2 DEF SameBut
  <1>4. Apart(b2, k)
    BY <1>1, <1>3 DEF Apart
  <1>5. OldNames(b2, w, rs, k, {new})
    <2> SUFFICES ASSUME NEW m \in Innermost, IsPrefix(k.from, m)
                 PROVE  /\ rs[m] \in GoodRows(b2, w, m)
                        /\ b2[m] # "none" => m \in Range(k.work) \/ k.from \in Range(k.work)
                        /\ b2[m] # "none" /\ Renamed(m, k.from, k.to) \notin {new} =>
                             b2[Renamed(m, k.from, k.to)] = "none"
      BY DEF OldNames
    <2>1. /\ rs[m] \in GoodRows(b, w, m)
          /\ b[m] # "none" => m \in Range(k.work) \/ k.from \in Range(k.work)
          /\ b[m] # "none" => b[Renamed(m, k.from, k.to)] = "none"
      BY <1>1 DEF OldNames
    <2>2. m \in Names /\ b2[m] = b[m] /\ Renamed(m, k.from, k.to) \in Names
      BY <1>1, <1>3, FolderFacts DEF Innermost
    <2>3. GoodRows(b2, w, m) = GoodRows(b, w, m)
      BY <2>2 DEF GoodRows, FileIn
    <2> QED
      BY <2>1, <2>2, <2>3 DEF SameBut
  <1>6. NewNames(b2, w, rs, k, {new})
    <2> SUFFICES ASSUME NEW m \in Names, IsPrefix(k.from, m)
                 PROVE  /\ b2[m] # "none" => \A s \in Range(k.todo) : ~Hits(s, Renamed(m, k.from, k.to))
                        /\ /\ Renamed(m, k.from, k.to) \in Innermost \ {new}
                           /\ FileIn(b2, Renamed(m, k.from, k.to))
                           => rs[m].kind = "file" /\ rs[m].public = w[Renamed(m, k.from, k.to)]
      BY DEF NewNames
    <2>1. /\ b[m] # "none" => \A s \in Range(k.todo) : ~Hits(s, Renamed(m, k.from, k.to))
          /\ Renamed(m, k.from, k.to) \in Innermost \ {} /\ FileIn(b, Renamed(m, k.from, k.to)) =>
               rs[m].kind = "file" /\ rs[m].public = w[Renamed(m, k.from, k.to)]
      BY <1>1 DEF NewNames
    <2>2. Renamed(m, k.from, k.to) # new => b2[Renamed(m, k.from, k.to)] = b[Renamed(m, k.from, k.to)]
      BY <1>1, FolderFacts DEF SameBut
    <2> QED
      BY <1>3, <2>1, <2>2 DEF FileIn
  <1>7. GoodAhead(b2, w, rs, Range(k.todo), {new})
    BY <1>1, CopyOn
  <1> QED
    BY <1>1, <1>4, <1>5, <1>6, <1>7 DEF FolderMoves

(* The copied blob is deleted under its old name: the flag goes over to the new one, *)
(* and so does the entry.                                                             *)
LEMMA FolderUnlinked ==
  ASSUME NEW b, NEW w, NEW rs \in [Names -> IndexRow], NEW k, k.todo \in Seq(Statement),
         NEW n \in Names, IsPrefix(k.from, n), b[n] # "none", NEW new, new = Renamed(n, k.from, k.to),
         FolderMoves(b, w, rs, k, {new}), b[new] = b[n],
         Last(new) # Placeholder => Last(n) # Placeholder,
         NEW b2, NEW w2, SameBut({n, new}, b, w, b2, w2), b2[n] = "none", b2[new] = b[new], w2[new] = w[n],
         NEW g, SameFolder(g, k), WorkLeft(b, k, n, g.work),
         NEW more, Range(g.todo) = Range(k.todo) \cup more, MovesRow(more, n, new, k.rows[n], "file")
  PROVE  FolderMoves(b2, w2, rs, g, {})
  <1>1. /\ k.rows = Listed(rs) /\ <<k.from, k.to>> \in Renames /\ k.from # k.to /\ k.op = "rename folder"
        /\ GoodAhead(b, w, rs, Range(k.todo), {new})
        /\ Apart(b, k) /\ OldNames(b, w, rs, k, {new}) /\ NewNames(b, w, rs, k, {new})
    BY DEF FolderMoves
  <1>2. PICK from, to : from = k.from /\ to = k.to
    OBVIOUS
  <1>3. g.from = from /\ g.to = to /\ g.op = k.op /\ g.rows = k.rows
    BY <1>2 DEF SameFolder
  <1>4. PICK entry : entry = k.rows[n]
    OBVIOUS
  <1>5. Says(entry, rs[n])
    BY <1>1, <1>4, ListedSays
  <1>6. /\ new \in Names /\ (new \in Innermost => n \in Innermost) /\ ~IsPrefix(from, new) /\ new # n
        /\ \A m \in Names : IsPrefix(from, m) =>
             /\ Renamed(m, from, to) \in Names
             /\ Renamed(m, from, to) = new => m = n
             /\ b[m] # "none" => Renamed(m, from, to) # n
    <2>1. \A m \in Names : IsPrefix(k.from, m) => Renamed(m, k.from, k.to) \in Names
      BY <1>1, FolderFacts
    <2>2. /\ new \in Names /\ (new \in Innermost => n \in Innermost) /\ ~IsPrefix(k.from, new) /\ new # n
          /\ \A m \in Names : IsPrefix(k.from, m) =>
               /\ Renamed(m, k.from, k.to) = new => m = n
               /\ b[m] # "none" => Renamed(m, k.from, k.to) # n
      <3>1. /\ <<k.from, k.to>> \in Renames /\ k.from # k.to /\ Apart(b, k)
            /\ n \in Names /\ IsPrefix(k.from, n)
        BY <1>1
      <3> QED
        BY <3>1, FolderFacts
    <2> QED
      BY <1>2, <2>1, <2>2
  <1>7. \A m \in Names : IsPrefix(from, m) /\ m # n => m # new /\ b2[m] = b[m] /\ w2[m] = w[m]
    BY <1>6 DEF SameBut
  <1>8. Apart(b2, g)
    BY <1>1, <1>2, <1>3, <1>7 DEF Apart
  <1>9. MovesRow(more, n, new, entry, "file") /\ \A s \in more : \A m \in Names : Hits(s, m) => m \in {n, new}
    BY <1>4 DEF MovesRow, IsDelete, IsUpsert
  <1>10. GoodAhead(b2, w2, rs, Range(g.todo), {})
    <2> DEFINE ahead == Range(k.todo)
    <2>1. ahead \subseteq Statement
      BY RangeFacts
    <2>2. \A s \in ahead : ~Hits(s, new)
      BY <1>1 DEF NewNames
    <2>3. n \in Innermost => rs[n] \in GoodRows(b, w, n)
      BY <1>1 DEF OldNames
    <2>4. GoodAhead(b, w, rs, ahead, {new}) /\ Range(g.todo) = ahead \cup more
      BY <1>1
    <2> HIDE DEF ahead
    <2>5. GoodAhead(b2, w2, rs, ahead \cup more, {})
      BY <1>5, <1>6, <1>9, <2>1, <2>2, <2>3, <2>4, RenameOn
    <2> QED
      BY <2>4, <2>5
  <1>11. OldNames(b2, w2, rs, g, {})
    <2> SUFFICES ASSUME NEW m \in Innermost, IsPrefix(from, m)
                 PROVE  /\ rs[m] \in GoodRows(b2, w2, m)
                        /\ b2[m] # "none" => m \in Range(g.work) \/ from \in Range(g.work)
                        /\ b2[m] # "none" => b2[Renamed(m, from, to)] = "none"
      BY <1>3 DEF OldNames
    <2>1. /\ rs[m] \in GoodRows(b, w, m)
          /\ b[m] # "none" => m \in Range(k.work) \/ from \in Range(k.work)
          /\ b[m] # "none" /\ Renamed(m, from, to) \notin {new} => b[Renamed(m, from, to)] = "none"
      BY <1>1, <1>2 DEF OldNames
    <2>2. m \in Names
      BY DEF Innermost
    <2>3. CASE m = n
      <3>1. rs[m] \in IndexRow /\ ~FileIn(b2, m)
        BY <2>2, <2>3 DEF FileIn
      <3> QED
        BY <2>3, <3>1, LeavesFacts
    <2>4. CASE m # n
      <3>1. b2[m] = b[m] /\ w2[m] = w[m]
        BY <1>7, <2>2, <2>4
      <3>2. GoodRows(b2, w2, m) = GoodRows(b, w, m)
        BY <3>1 DEF GoodRows, FileIn
      <3>3. ASSUME b2[m] # "none" PROVE m \in Range(g.work) \/ from \in Range(g.work)
        BY <1>2, <2>1, <2>2, <2>4, <3>1, <3>3 DEF WorkLeft
      <3>4. ASSUME b2[m] # "none" PROVE b2[Renamed(m, from, to)] = "none"
        <4>1. Renamed(m, from, to) # new /\ Renamed(m, from, to) # n /\ Renamed(m, from, to) \in Names
          BY <1>6, <2>2, <2>4, <3>1, <3>4
        <4>2. b2[Renamed(m, from, to)] = b[Renamed(m, from, to)]
          BY <4>1 DEF SameBut
        <4> QED
          BY <2>1, <3>1, <3>4, <4>1, <4>2
      <3> QED
        BY <2>1, <3>2, <3>3, <3>4
    <2> QED
      BY <2>3, <2>4
  <1>12. NewNames(b2, w2, rs, g, {})
    <2> SUFFICES ASSUME NEW m \in Names, IsPrefix(from, m)
                 PROVE  /\ b2[m] # "none" => \A s \in Range(g.todo) : ~Hits(s, Renamed(m, from, to))
                        /\ Renamed(m, from, to) \in Innermost \ {} /\ FileIn(b2, Renamed(m, from, to)) =>
                             rs[m].kind = "file" /\ rs[m].public = w2[Renamed(m, from, to)]
      BY <1>3 DEF NewNames
    <2>1. /\ b[m] # "none" => \A s \in Range(k.todo) : ~Hits(s, Renamed(m, from, to))
          /\ Renamed(m, from, to) \in Innermost \ {new} /\ FileIn(b, Renamed(m, from, to)) =>
               rs[m].kind = "file" /\ rs[m].public = w[Renamed(m, from, to)]
      BY <1>1, <1>2 DEF NewNames
    <2>2. ASSUME b2[m] # "none", NEW s \in Range(g.todo) PROVE ~Hits(s, Renamed(m, from, to))
      <3>1. m # n /\ b[m] # "none"
        BY <1>7, <2>2
      <3>2. Renamed(m, from, to) # new /\ Renamed(m, from, to) # n /\ Renamed(m, from, to) \in Names
        BY <1>6, <3>1
      <3> QED
        BY <1>9, <2>1, <2>2, <3>1, <3>2
    <2>3. ASSUME Renamed(m, from, to) \in Innermost, FileIn(b2, Renamed(m, from, to))
          PROVE  rs[m].kind = "file" /\ rs[m].public = w2[Renamed(m, from, to)]
      <3>1. CASE Renamed(m, from, to) = new
        <4>1. m = n /\ n \in Innermost
          BY <1>6, <2>3, <3>1
        <4>2. FileIn(b, n)
          BY <2>3, <3>1 DEF FileIn
        <4>3. rs[n] \in GoodRows(b, w, n)
          BY <1>1, <4>1 DEF OldNames
        <4> QED
          BY <3>1, <4>1, <4>2, <4>3 DEF GoodRows
      <3>2. CASE Renamed(m, from, to) # new
        <4>1. Renamed(m, from, to) \in Names /\ Renamed(m, from, to) # n
          BY <1>6, <2>3 DEF FileIn
        <4>2. FileIn(b, Renamed(m, from, to)) /\ w2[Renamed(m, from, to)] = w[Renamed(m, from, to)]
          BY <2>3, <3>2, <4>1 DEF SameBut, FileIn
        <4> QED
          BY <2>1, <2>3, <3>2, <4>2
      <3> QED
        BY <3>1, <3>2
    <2> QED
      BY <2>2, <2>3
  <1>13. <<g.from, g.to>> \in Renames /\ g.from # g.to /\ g.op = "rename folder" /\ g.rows = Listed(rs)
    BY <1>1, <1>2, <1>3
  <1>14. \A m \in Range(g.work) : IsPrefix(g.from, m)
    BY <1>2, <1>3 DEF WorkLeft
  <1> QED
    BY <1>8, <1>10, <1>11, <1>12, <1>13, <1>14 DEF FolderMoves

-----------------------------------------------------------------------------
(* rename_file goes on *)

(* The next name: what is inside the folder is listed after the folder itself. *)
LEMMA NextNameGoes ==
  ASSUME NEW k, IsNote(k), k.work # <<>>, NEW n, n = Head(k.work), NEW g, g = NextName(k)
  PROVE  /\ IsNote(g) /\ g.user = k.user /\ g.todo = k.todo /\ SameFolder(g, k) /\ (g.one <=> k.one)
         /\ k.op # "rename folder" => g.work = Tail(k.work)
         /\ k.op = "rename folder" /\ (\A m \in Range(k.work) : IsPrefix(k.from, m)) =>
              WorkLeft(blob[k.user], k, n, g.work)
  <1> DEFINE inside == {m \in Names : Inside(m, k.from)}
             there == {m \in Names : blob[k.user][m] # "none"}
             names == IF n = k.from /\ k.op = "rename folder" THEN Only(Blobs(k.user), inside) ELSE Tail(k.work)
  <1>1. g = [k EXCEPT !.work = names]
    BY DEF NextName
  <1> HIDE DEF names
  <1>2. g.work = names /\ g.user = k.user /\ g.todo = k.todo /\ SameFolder(g, k) /\ g.one = k.one
    BY <1>1 DEF IsNote, NoteFields, SameFolder
  <1>3. IsNote(g)
    BY NextNameFacts
  <1>4. ASSUME k.op # "rename folder" PROVE g.work = Tail(k.work)
    BY <1>2, <1>4 DEF names
  <1>5. ASSUME k.op = "rename folder", \A m \in Range(k.work) : IsPrefix(k.from, m)
        PROVE  WorkLeft(blob[k.user], k, n, names)
    <2>1. k.work \in Seq(Names) /\ Range(k.work) = {n} \cup Range(Tail(k.work))
      BY HeadAndTail DEF IsNote
    <2>2. CASE n # k.from
      <3>1. names = Tail(k.work)
        BY <2>2 DEF names
      <3>2. Range(names) \subseteq Range(k.work) /\ \A m \in Range(k.work) : m = n \/ m \in Range(names)
        BY <2>1, <3>1
      <3>3. k.from \in Range(k.work) => k.from \in Range(names)
        BY <2>2, <3>2
      <3> QED
        BY <1>5, <3>2, <3>3 DEF WorkLeft
    <2>3. CASE n = k.from
      <3>1. names = Only(Blobs(k.user), inside)
        BY <1>5, <2>3 DEF names
      <3>2. Blobs(k.user) \in Seq(Names) /\ Range(Blobs(k.user)) = there
        <4>1. Blobs(k.user) = Only(NameList, there)
          BY DEF Blobs
        <4>2. there \subseteq Names
          OBVIOUS
        <4> HIDE DEF there
        <4>3. Blobs(k.user) \in Seq(Names) /\ Range(Blobs(k.user)) = Range(NameList) \cap there
          BY <4>1, StorageAssumption, OnlyFacts
        <4> QED
          BY <4>2, <4>3 DEF Names
      <3> DEFINE some == inside
      <3>3. Range(names) = there \cap inside
        <4> HIDE DEF inside, there
        <4> QED
          BY <3>1, <3>2, OnlyFacts
      <3>4. ASSUME NEW m \in Names, IsPrefix(k.from, m), m # n, blob[k.user][m] # "none" PROVE m \in Range(names)
        BY <2>3, <3>3, <3>4 DEF Inside, IsStrictPrefix
      <3>5. ASSUME NEW m \in Range(names) PROVE IsPrefix(k.from, m)
        BY <3>3, <3>5 DEF Inside, IsStrictPrefix
      <3> QED
        BY <3>4, <3>5 DEF WorkLeft
    <2> QED
      BY <2>2, <2>3
  <1> QED
    BY <1>2, <1>3, <1>4, <1>5

\* What the next name of a rename needs.
RenameStays(b, w, rs, g) ==
  IF g.op = "rename folder" THEN FolderMoves(b, w, rs, g, {})
  ELSE g.work = <<>> /\ GoodAhead(b, w, rs, Range(g.todo), {})

(* The operation renames the next name, or goes on with its statements. *)
LEMMA OnToRename ==
  ASSUME NEW c, NEW g, IsNote(g), g.one, g.user \in Accounts, g.rows \in [Names -> IndexRow], RenameGoesOn(c, g)
  PROVE  \E step, j : /\ GoesFor(c, g.user, step, j)
                      /\ \A b, w, u : \A rs \in [Names -> IndexRow] :
                           RenameStays(b, w, rs, g) => On(b, w, rs, u, step, j)
  <1>1. CASE g.work # <<>>
    <2>1. Goes(c, "rename", g)
      BY <1>1 DEF RenameGoesOn
    <2>2. GoesFor(c, g.user, "rename", g)
      BY <2>1 DEF GoesFor, Scanning
    <2>3. ASSUME NEW b, NEW w, NEW u, NEW rs, RenameStays(b, w, rs, g) PROVE On(b, w, rs, u, "rename", g)
      <3>1. g.op = "rename folder" /\ FolderMoves(b, w, rs, g, {})
        BY <1>1, <2>3 DEF RenameStays
      <3>2. Renames2(b, w, rs, "rename", g)
        BY <3>1 DEF Renames2
      <3> QED
        BY <3>2 DEF On, Scanning, Renaming
    <2> QED
      BY <2>2, <2>3
  <1>2. CASE g.work = <<>>
    <2> DEFINE todo == IF g.op = "rename folder" THEN g.todo \o EntriesLeft(g) ELSE g.todo
    <2>1. PICK h : h = [g EXCEPT !.todo = todo]
      OBVIOUS
    <2>2. GoesToRows(c, h)
      BY <1>2, <2>1 DEF RenameGoesOn
    <2>3. h.user = g.user /\ h.todo = todo
      BY <2>1 DEF IsNote, NoteFields
    <2>4. PICK step, j : /\ GoesFor(c, g.user, step, j)
                         /\ \A b, w, rs, u : GoodAhead(b, w, rs, Range(todo), {}) => On(b, w, rs, u, step, j)
      BY <2>2, <2>3, OnToRows
    <2> HIDE DEF todo
    <2>5. ASSUME NEW b, NEW w, NEW u, NEW rs \in [Names -> IndexRow], RenameStays(b, w, rs, g)
          PROVE  GoodAhead(b, w, rs, Range(todo), {})
      <3>1. CASE g.op # "rename folder"
        BY <2>5, <3>1 DEF RenameStays, todo
      <3>2. CASE g.op = "rename folder"
        <4>1. FolderMoves(b, w, rs, g, {}) /\ todo = g.todo \o EntriesLeft(g)
          BY <2>5, <3>2 DEF RenameStays, todo
        <4>2. PICK all : all = EntriesLeft(g)
          OBVIOUS
        <4>3. MovesOf(Range(all), g) /\ all \in Seq(Statement) /\ g.todo \in Seq(Statement)
          BY <4>2, EntriesMove DEF IsNote
        <4>4. Range(todo) = Range(g.todo) \cup Range(all) /\ Range(all) \subseteq Statement
          BY <4>1, <4>2, <4>3, RangeJoined, RangeFacts
        <4>5. Range(g.work) = {}
          BY <1>2, RangeFacts
        <4> QED
          BY <4>1, <4>3, <4>4, <4>5, FolderDone
      <3> QED
        BY <3>1, <3>2
    <2> QED
      BY <2>4, <2>5
  <1> QED
    BY <1>1, <1>2

(* A rename fails: it goes on, disturbed. *)
LEMMA RenameFailsKeeps ==
  ASSUME StorageInv, GalleryInv, NEW c \in Callers, RenameFails(c)
  PROVE  GalleryInv'
  <1>1. PICK k : k = cur[c]
    OBVIOUS
  <1>2. PICK g : g = NextName(k)
    OBVIOUS
  <1>3. /\ pc[c] \in {"rename", "copy", "unlink"} /\ pc[c] \in Operating /\ k.op # "move"
        /\ RenameGoesOn(c, g) /\ Disturbs(k.user) /\ UNCHANGED <<blob, rows>>
    BY <1>1, <1>2 DEF RenameFails, Fails, AtStep, Operating
  <1>4. IsNote(k) /\ k.one /\ k.user \in Accounts /\ k.work # <<>> /\ k.rows \in [Names -> IndexRow]
    BY <1>1, <1>3, OperationFacts, WorkerFacts, RenamerFacts
  <1>5. IsNote(g) /\ g.one /\ g.user = k.user /\ g.rows = k.rows
    BY <1>2, <1>4, NextNameGoes DEF SameFolder
  <1>6. \E step, j : GoesFor(c, k.user, step, j)
    BY <1>3, <1>4, <1>5, OnToRename
  <1> QED
    BY <1>1, <1>3, <1>6, FailureKeeps

-----------------------------------------------------------------------------
(* rename_file up to the copy *)

(* A name is looked up in the index. *)
LEMMA LookUpKeeps ==
  ASSUME StorageInv, GalleryInv, NEW c \in Callers, LookUp(c)
  PROVE  GalleryInv'
  <1>1. PICK k : k = cur[c]
    OBVIOUS
  <1>2. PICK u : u = k.user
    OBVIOUS
  <1>3. PICK listed : listed = Listed(rows[u])
    OBVIOUS
  <1>4. PICK isFolder \in BOOLEAN :
          isFolder = (\/ listed[k.from].kind = "folder"
                      \/ \E n \in Names : Inside(n, k.from) /\ listed[n].kind # "none")
    OBVIOUS
  <1>5. PICK op, step : /\ op = IF isFolder THEN "rename folder" ELSE "rename"
                        /\ step = IF isFolder THEN "target" ELSE "rename"
    OBVIOUS
  <1>6. PICK j : j = [k EXCEPT !.rows = listed, !.op = op]
    OBVIOUS
  <1>7. pc[c] = "look up" /\ pc[c] \in Operating /\ UNCHANGED <<blob, rows, wish, disturbed>> /\ Goes(c, step, j)
    BY <1>1, <1>2, <1>3, <1>4, <1>5, <1>6 DEF LookUp, AtStep, Operating, history
  <1>8. /\ IsNote(k) /\ k.one /\ wish \in [Users -> [Names -> BOOLEAN]]
        /\ disturbed = [v \in Users |-> disturbed[v]]
    BY <1>1, <1>7, OperationFacts
  <1>9. /\ j.user = u /\ j.one /\ j.work = k.work /\ j.todo = k.todo /\ j.from = k.from /\ j.to = k.to
        /\ j.rows = listed /\ j.op = op
    BY <1>2, <1>6, <1>8 DEF IsNote, NoteFields
  <1>10. OnlyTouches(u) /\ GoesFor(c, u, step, j)
    BY <1>5, <1>7, <1>8, <1>9 DEF OnlyTouches, Untouched, GoesFor, Scanning
  <1>11. ASSUME NEW b, NEW w, NEW rs, rs = rows[u], On(b, w, rs, u, "look up", k) PROVE On(b, w, rs, u, step, j)
    <2>1. Single(b, w, rs, "look up", k)
      BY <1>11 DEF On, Renaming, Renames2
    <2>2. /\ k.work = <<k.from>> /\ k.todo = <<>> /\ <<k.from, k.to>> \in Renames /\ k.from # k.to
          /\ Settled(b, w, rs)
      BY <2>1 DEF Single
    <2>3. CASE isFolder
      <3>1. step = "target" /\ op = "rename folder"
        BY <1>5, <2>3
      <3>2. Single(b, w, rs, "target", j)
        BY <1>3, <1>9, <1>11, <2>2, <3>1 DEF Single
      <3>3. Renames2(b, w, rs, "target", j)
        BY <3>2 DEF Renames2
      <3> QED
        BY <3>1, <3>3 DEF On, Renaming, Scanning
    <2>4. CASE ~isFolder
      <3>1. step = "rename" /\ op = "rename" /\ listed[k.from].kind # "folder"
        BY <1>4, <1>5, <2>4
      <3>2. Single(b, w, rs, "rename", j)
        BY <1>3, <1>9, <1>11, <2>2, <3>1 DEF Single
      <3>3. Renames2(b, w, rs, "rename", j)
        BY <1>9, <3>1, <3>2 DEF Renames2
      <3> QED
        BY <3>1, <3>3 DEF On, Renaming, Scanning
    <2> QED
      BY <1>4, <2>3, <2>4
  <1>12. ~disturbed'[u] => ~disturbed[u] /\ (OnFor(c, u) => On(blob'[u], wish'[u], rows'[u], u, step, j))
    BY <1>1, <1>7, <1>11 DEF OnFor
  <1> QED
    BY <1>1, <1>2, <1>7, <1>10, <1>12, OperationGoesOn

(* There is nothing where the folder goes. *)
LEMMA FolderBegins ==
  ASSUME NEW b, NEW w, NEW rs, NEW k, Single(b, w, rs, "target", k), ~Inside(k.to, k.from),
         \A n \in Names : IsPrefix(k.to, n) => b[n] = "none"
  PROVE  FolderMoves(b, w, rs, k, {})
  <1>1. /\ k.work = <<k.from>> /\ k.todo = <<>> /\ <<k.from, k.to>> \in Renames /\ k.from # k.to
        /\ k.rows = Listed(rs) /\ k.op = "rename folder" /\ Settled(b, w, rs)
    BY DEF Single
  <1>2. /\ k.from \in Names /\ k.to \in Names /\ k.from \in Seq(Segments) /\ k.to \in Seq(Segments)
        /\ IsPrefix(k.from, k.from)
    <2>1. k.from \in Names /\ k.from \in Seq(Segments)
      BY <1>1, StorageAssumption, NameFacts
    <2>2. IsPrefix(k.from, k.from)
      BY <2>1, PrefixOrder
    <2> QED
      BY <1>1, <2>1, <2>2, RenamesFacts
  <1>3. \A n \in Names : IsPrefix(k.from, n) =>
          Renamed(n, k.from, k.to) \in Names /\ b[Renamed(n, k.from, k.to)] = "none"
    BY <1>1, RenamesFacts
  <1>4. Range(k.work) = {k.from} /\ Range(k.todo) = {}
    BY <1>1, <1>2, RangeFacts
  <1>5. GoodAhead(b, w, rs, Range(k.todo), {}) /\ \A n \in Innermost : rs[n] \in GoodRows(b, w, n)
    BY <1>1, <1>4, SettledIsGood, LeavesFacts
  <1>6. Apart(b, k)
    <2> SUFFICES ASSUME NEW n \in Names, NEW m \in Names,
                        IsPrefix(k.from, n), IsPrefix(k.to, n), IsPrefix(k.from, m)
                 PROVE  b[m] = "none"
      BY DEF Apart
    <2>1. n \in Seq(Segments) /\ m \in Seq(Segments)
      BY NameFacts
    <2>2. IsPrefix(k.from, k.to) \/ IsPrefix(k.to, k.from)
      BY <1>2, <2>1, PrefixOrder
    <2>3. IsPrefix(k.to, k.from)
      BY <1>1, <2>2 DEF Inside, IsStrictPrefix
    <2>4. IsPrefix(k.to, m)
      BY <1>2, <2>1, <2>3, PrefixOrder
    <2> QED
      BY <2>4
  <1>7. OldNames(b, w, rs, k, {})
    <2>1. Innermost \subseteq Names
      BY DEF Innermost
    <2> QED
      BY <1>3, <1>4, <1>5, <2>1 DEF OldNames
  <1>8. NewNames(b, w, rs, k, {})
    BY <1>3, <1>4 DEF NewNames, FileIn
  <1>9. \A m \in Range(k.work) : IsPrefix(k.from, m)
    BY <1>2, <1>4
  <1> QED
    BY <1>1, <1>5, <1>6, <1>7, <1>8, <1>9 DEF FolderMoves

(* rename_folder looks at the target. *)
LEMMA CheckTargetKeeps ==
  ASSUME StorageInv, GalleryInv, NEW c \in Callers, CheckTarget(c)
  PROVE  GalleryInv'
  <1>1. PICK k : k = cur[c]
    OBVIOUS
  <1>2. PICK u : u = k.user
    OBVIOUS
  <1>3. pc[c] = "target" /\ pc[c] \in Operating /\ UNCHANGED <<blob, rows>>
    BY DEF CheckTarget, AtStep, Operating
  <1>4. /\ IsNote(k) /\ k.one /\ u \in Accounts /\ k.rows \in [Names -> IndexRow]
        /\ wish \in [Users -> [Names -> BOOLEAN]] /\ disturbed = [v \in Users |-> disturbed[v]]
    BY <1>1, <1>2, <1>3, OperationFacts, RenamerFacts
  <1>5. CASE TargetTaken(u, k.from, k.to)
    <2>1. PICK j : j = [k EXCEPT !.work = <<>>]
      OBVIOUS
    <2>2. RenameGoesOn(c, j) /\ Disturbs(u)
      BY <1>1, <1>2, <1>5, <2>1 DEF CheckTarget
    <2>3. IsNote(j) /\ j.one /\ j.user = u /\ j.rows = k.rows
      BY <1>2, <1>4, <2>1, RangeFacts DEF IsNote, NoteFields
    <2>4. \E step, i : GoesFor(c, u, step, i)
      BY <1>4, <2>2, <2>3, OnToRename
    <2> QED
      BY <1>1, <1>2, <1>3, <2>2, <2>4, FailureKeeps
  <1>6. CASE ~TargetTaken(u, k.from, k.to)
    <2>1. Goes(c, "rename", k) /\ UNCHANGED <<wish, disturbed>>
      BY <1>1, <1>2, <1>6 DEF CheckTarget, history
    <2>2. OnlyTouches(u) /\ GoesFor(c, u, "rename", k)
      BY <1>2, <1>3, <1>4, <2>1 DEF OnlyTouches, Untouched, GoesFor, Scanning
    <2>3. ASSUME NEW b, NEW w, NEW rs, b = blob[u], On(b, w, rs, u, "target", k) PROVE On(b, w, rs, u, "rename", k)
      <3>1. Single(b, w, rs, "target", k)
        BY <2>3 DEF On, Renaming, Renames2
      <3>2. FolderMoves(b, w, rs, k, {})
        BY <1>6, <2>3, <3>1, FolderBegins DEF TargetTaken
      <3>3. Renames2(b, w, rs, "rename", k)
        BY <3>2 DEF Renames2, FolderMoves
      <3> QED
        BY <3>3 DEF On, Renaming, Scanning
    <2>4. ~disturbed'[u] => ~disturbed[u] /\ (OnFor(c, u) => On(blob'[u], wish'[u], rows'[u], u, "rename", k))
      BY <1>1, <1>3, <2>1, <2>3 DEF OnFor
    <2> QED
      BY <1>1, <1>2, <1>3, <2>2, <2>4, OperationGoesOn
  <1> QED
    BY <1>5, <1>6

(* A file without a blob, or whose new name is taken, is passed over; its entry may *)
(* be renamed.                                                                       *)
LEMMA SinglePasses ==
  ASSUME NEW b, NEW w, NEW rs \in [Names -> IndexRow], NEW k, Single(b, w, rs, "rename", k),
         NEW more,
         \/ more = {}
         \/ MovesRow(more, k.from, k.to, k.rows[k.from], k.rows[k.from].kind) /\ b[k.from] = "none"
  PROVE  GoodAhead(b, w, rs, more, {})
  <1>1. /\ <<k.from, k.to>> \in Renames /\ k.rows = Listed(rs) /\ Settled(b, w, rs)
        /\ k.rows[k.from].kind # "folder"
    BY DEF Single
  <1>2. GoodAhead(b, w, rs, {}, {})
    BY <1>1, SettledIsGood
  <1>3. k.from \in Names /\ k.to \in Names /\ (k.to \in Innermost => k.from \in Innermost)
    <2>1. k.from \in Names /\ k.from \in Seq(Segments)
      BY <1>1, StorageAssumption, NameFacts
    <2>2. IsPrefix(k.from, k.from)
      BY <2>1, PrefixOrder
    <2>3. Renamed(k.from, k.from, k.to) = k.to
      BY <1>1, <2>1, <2>2, RenamesFacts
    <2> QED
      BY <1>1, <2>1, <2>2, <2>3, RenamesFacts
  <1>4. CASE more = {}
    BY <1>2, <1>4
  <1>5. CASE MovesRow(more, k.from, k.to, k.rows[k.from], k.rows[k.from].kind) /\ b[k.from] = "none"
    <2>1. PICK entry, from, to : entry = k.rows[k.from] /\ from = k.from /\ to = k.to
      OBVIOUS
    <2>2. Says(entry, rs[from]) /\ Listed(rs) \in [Names -> IndexRow]
      BY <1>1, <1>3, <2>1, ListedSays
    <2>3. entry.kind \in Kinds /\ entry.kind # "folder"
      BY <1>1, <1>3, <2>1, <2>2 DEF IndexRow
    <2>4. ASSUME to \in Innermost, FileIn(b, to) PROVE entry.kind = "none"
      <3>1. from \in Innermost /\ HasBlobs(b) /\ b[from] = "none"
        BY <1>3, <1>5, <2>1, <2>4 DEF FileIn, HasBlobs
      <3>2. rs[from].kind # "file"
        BY <1>1, <3>1, FitSays
      <3> QED
        BY <2>2, <2>3, <3>2 DEF Says, Kinds
    <2>5. MovesRow(more, from, to, entry, entry.kind) /\ b[from] = "none" /\ from \in Names
      BY <1>3, <1>5, <2>1
    <2>6. GoodAhead(b, w, rs, {} \cup more, {})
      BY <1>2, <2>4, <2>5, EntryOn
    <2>7. {} \cup more = more
      OBVIOUS
    <2> QED
      BY <2>6, <2>7
  <1> QED
    BY <1>4, <1>5

(* What is passed over leaves things as they should be. *)
LEMMA RenamePasses ==
  ASSUME NEW k, IsNote(k), k.user \in Accounts, k.work # <<>>, NEW n, n = Head(k.work),
         NEW b, b = blob[k.user], NEW w, NEW rs \in [Names -> IndexRow], Renames2(b, w, rs, "rename", k),
         NEW g, g.work = NextName(k).work, SameFolder(g, k),
         NEW more, Range(g.todo) = Range(k.todo) \cup more,
         \/ more = {} /\ b[Renamed(n, k.from, k.to)] # "none"
         \/ MovesRow(more, n, Renamed(n, k.from, k.to), k.rows[n], k.rows[n].kind) /\ b[n] = "none"
  PROVE  RenameStays(b, w, rs, g)
  <1>1. PICK i : i = NextName(k)
    OBVIOUS
  <1>2. /\ k.op # "rename folder" => g.work = Tail(k.work)
        /\ k.op = "rename folder" /\ (\A m \in Range(k.work) : IsPrefix(k.from, m)) => WorkLeft(b, k, n, g.work)
    BY <1>1, NextNameGoes
  <1>3. CASE k.op = "rename"
    <2>1. Single(b, w, rs, "rename", k)
      BY <1>3 DEF Renames2
    <2>2. k.work = <<k.from>> /\ k.todo = <<>> /\ <<k.from, k.to>> \in Renames
      BY <2>1 DEF Single
    <2>3. k.from \in Names /\ k.from \in Seq(Segments)
      BY <2>2, StorageAssumption, NameFacts
    <2>4. IsPrefix(k.from, k.from)
      BY <2>3, PrefixOrder
    <2>5. n = k.from /\ Renamed(n, k.from, k.to) = k.to
      BY <2>2, <2>3, <2>4, RenamesFacts
    <2>6. GoodAhead(b, w, rs, more, {})
      BY <2>1, <2>5, SinglePasses
    <2>7. Range(g.todo) = more
      BY <2>2, RangeFacts
    <2>8. g.work = <<>> /\ g.op # "rename folder"
      <3>1. k.work \in Seq(Names) /\ Len(k.work) = 1
        BY <2>2 DEF IsNote
      <3>2. Tail(k.work) = <<>>
        BY <3>1, TailOfOne
      <3> QED
        BY <1>2, <1>3, <3>2 DEF SameFolder
    <2> QED
      BY <2>6, <2>7, <2>8 DEF RenameStays
  <1>4. CASE k.op # "rename"
    <2>1. FolderMoves(b, w, rs, k, {}) /\ k.op = "rename folder" /\ \A m \in Range(k.work) : IsPrefix(k.from, m)
      BY <1>4 DEF Renames2, FolderMoves
    <2>2. n \in Names /\ IsPrefix(k.from, n)
      <3>1. k.work \in Seq(Names)
        BY DEF IsNote
      <3>2. n \in Names /\ n \in Range(k.work)
        BY <3>1, HeadAndTail
      <3> QED
        BY <2>1, <3>2
    <2>3. WorkLeft(b, k, n, g.work)
      BY <1>2, <2>1
    <2>4. FolderMoves(b, w, rs, g, {})
      BY <2>1, <2>2, <2>3, FolderPasses
    <2> QED
      BY <2>1, <2>4 DEF RenameStays, SameFolder
  <1> QED
    BY <1>3, <1>4

(* rename_single looks at both names. *)
LEMMA RenameCheckKeeps ==
  ASSUME StorageInv, GalleryInv, NEW c \in Callers, RenameCheck(c)
  PROVE  GalleryInv'
  <1>1. PICK k : k = cur[c]
    OBVIOUS
  <1>2. PICK u : u = k.user
    OBVIOUS
  <1>3. PICK n : n = Head(k.work)
    OBVIOUS
  <1>4. PICK new : new = Renamed(n, k.from, k.to)
    OBVIOUS
  <1>5. pc[c] = "rename" /\ pc[c] \in Operating /\ UNCHANGED <<blob, rows, wish, disturbed>>
    BY DEF RenameCheck, AtStep, Operating, history
  <1>6. /\ IsNote(k) /\ k.one /\ u \in Accounts /\ k.work # <<>> /\ k.rows \in [Names -> IndexRow]
        /\ wish \in [Users -> [Names -> BOOLEAN]] /\ disturbed = [v \in Users |-> disturbed[v]]
        /\ rows[u] \in [Names -> IndexRow] /\ n \in Names /\ k.todo \in Seq(Statement)
    BY <1>1, <1>2, <1>3, <1>5, OperationFacts, WorkerFacts, RenamerFacts
  <1>7. OnlyTouches(u)
    BY <1>5, <1>6 DEF OnlyTouches, Untouched
  <1>8. ASSUME OnFor(c, u) PROVE Renames2(blob[u], wish[u], rows[u], "rename", k)
    BY <1>1, <1>5, <1>8 DEF OnFor, On, Renaming
  <1>9. CASE blob[u][n] # "none" /\ blob[u][new] = "none"
    <2>1. Goes(c, "copy", k)
      BY <1>1, <1>2, <1>3, <1>4, <1>9 DEF RenameCheck
    <2>2. GoesFor(c, u, "copy", k)
      BY <1>2, <1>6, <2>1 DEF GoesFor, Scanning
    <2>3. ASSUME NEW b, NEW w, NEW rs, Renames2(b, w, rs, "rename", k) PROVE On(b, w, rs, u, "copy", k)
      <3>1. CASE k.op = "rename"
        <4>1. Single(b, w, rs, "rename", k)
          BY <2>3, <3>1 DEF Renames2
        <4>2. Single(b, w, rs, "copy", k)
          BY <4>1, SettledIsGood DEF Single
        <4>3. Renames2(b, w, rs, "copy", k)
          BY <3>1, <4>2 DEF Renames2
        <4> QED
          BY <3>1, <4>3 DEF On, Renaming, Scanning
      <3>2. CASE k.op # "rename"
        <4>1. FolderMoves(b, w, rs, k, {}) /\ k.op = "rename folder"
          BY <2>3, <3>2 DEF Renames2, FolderMoves
        <4>2. Renames2(b, w, rs, "copy", k)
          BY <4>1 DEF Renames2
        <4> QED
          BY <4>1, <4>2 DEF On, Renaming, Scanning
      <3> QED
        BY <3>1, <3>2
    <2>4. ~disturbed'[u] => ~disturbed[u] /\ (OnFor(c, u) => On(blob'[u], wish'[u], rows'[u], u, "copy", k))
      BY <1>5, <1>8, <2>3
    <2> QED
      BY <1>1, <1>2, <1>5, <1>7, <2>2, <2>4, OperationGoesOn
  <1>10. CASE ~(blob[u][n] # "none" /\ blob[u][new] = "none")
    <2>1. PICK there \in BOOLEAN : there = (blob[u][n] # "none")
      OBVIOUS
    <2>2. PICK all : all = EntryMoved(k, n, FALSE)
      OBVIOUS
    <2>3. all \in Seq(Statement) /\ MovesRow(Range(all), n, new, k.rows[n], k.rows[n].kind)
      <3>1. all \in Seq(Statement)
        BY <1>2, <1>6, <2>2, EntryMovedFacts
      <3>2. MovesRow(Range(all), n, new, k.rows[n], KindOf(k.rows[n], FALSE))
        BY <1>2, <1>4, <1>6, <2>2, EntryMoves
      <3> QED
        BY <3>1, <3>2 DEF KindOf
    <2>4. PICK todo : todo = IF there THEN k.todo ELSE k.todo \o all
      OBVIOUS
    <2>5. PICK more : more = IF there THEN {} ELSE Range(all)
      OBVIOUS
    <2>6. Range(todo) = Range(k.todo) \cup more /\ todo \in Seq(Statement)
      BY <1>6, <2>3, <2>4, <2>5, RangeJoined
    <2>7. PICK j : j = [k EXCEPT !.todo = todo]
      OBVIOUS
    <2>8. /\ IsNote(j) /\ j.work = k.work /\ j.user = u /\ j.one /\ j.todo = todo /\ j.from = k.from /\ j.to = k.to
          /\ j.op = k.op /\ j.rows = k.rows
      BY <1>2, <1>6, <2>6, <2>7 DEF IsNote, NoteFields
    <2>9. PICK g : g = IF there THEN NextName(k) ELSE NextName(j)
      OBVIOUS
    <2>10. RenameGoesOn(c, g)
      <3>1. CASE there
        BY <1>1, <1>2, <1>3, <1>4, <1>10, <2>1, <2>9, <3>1 DEF RenameCheck
      <3>2. CASE ~there
        <4>1. RenameGoesOn(c, NextName([k EXCEPT !.todo = k.todo \o EntryMoved(k, Head(k.work), FALSE)]))
          BY <1>1, <1>2, <1>3, <2>1, <3>2 DEF RenameCheck
        <4> QED
          BY <1>3, <2>2, <2>4, <2>7, <2>9, <3>2, <4>1
      <3> QED
        BY <2>1, <3>1, <3>2
    <2>11. IsNote(g) /\ g.user = u /\ g.todo = todo /\ SameFolder(g, k) /\ g.one /\ g.work = NextName(k).work
      <3>1. CASE there
        BY <1>2, <1>6, <2>4, <2>9, <3>1, NextNameGoes
      <3>2. CASE ~there
        <4>1. IsNote(g) /\ g.user = u /\ g.todo = todo /\ SameFolder(g, j) /\ g.one
          BY <1>6, <2>8, <2>9, <3>2, NextNameGoes
        <4>2. DOMAIN k = NoteFields /\ DOMAIN j = NoteFields
          BY <1>6, <2>8 DEF IsNote
        <4>3. g.work = NextName(k).work
          BY <1>2, <2>8, <2>9, <3>2, <4>2 DEF NextName, NoteFields
        <4> QED
          BY <2>8, <4>1, <4>3 DEF SameFolder
      <3> QED
        BY <2>1, <3>1, <3>2
    <2>12. g.rows \in [Names -> IndexRow]
      BY <1>6, <2>11 DEF SameFolder
    <2>13. PICK step, i : /\ GoesFor(c, u, step, i)
                          /\ \A b, w, v : \A rs \in [Names -> IndexRow] :
                               RenameStays(b, w, rs, g) => On(b, w, rs, v, step, i)
      BY <1>6, <2>10, <2>11, <2>12, OnToRename
    <2>14. ASSUME OnFor(c, u) PROVE On(blob[u], wish[u], rows[u], u, step, i)
      <3>1. PICK b, w, rs : b = blob[u] /\ w = wish[u] /\ rs = rows[u]
        OBVIOUS
      <3>2. rs \in [Names -> IndexRow] /\ Renames2(b, w, rs, "rename", k) /\ b = blob[k.user]
        BY <1>2, <1>6, <1>8, <2>14, <3>1
      <3>3. \/ more = {} /\ b[new] # "none"
            \/ MovesRow(more, n, new, k.rows[n], k.rows[n].kind) /\ b[n] = "none"
        BY <1>10, <2>1, <2>3, <2>5, <3>1
      <3>4. RenameStays(b, w, rs, g)
        <4>1. Range(g.todo) = Range(k.todo) \cup more /\ k.user \in Accounts
          BY <1>2, <1>6, <2>6, <2>11
        <4>2. \/ more = {} /\ b[Renamed(n, k.from, k.to)] # "none"
              \/ MovesRow(more, n, Renamed(n, k.from, k.to), k.rows[n], k.rows[n].kind) /\ b[n] = "none"
          BY <1>4, <3>3
        <4> QED
          BY <1>3, <1>6, <2>11, <3>2, <4>1, <4>2, RenamePasses
      <3>5. On(b, w, rs, u, step, i)
        BY <2>13, <3>2, <3>4
      <3> QED
        BY <3>1, <3>5
    <2>15. ~disturbed'[u] => ~disturbed[u] /\ (OnFor(c, u) => On(blob'[u], wish'[u], rows'[u], u, step, i))
      BY <1>5, <2>14
    <2> QED
      BY <1>1, <1>2, <1>5, <1>7, <2>13, <2>15, OperationGoesOn
  <1> QED
    BY <1>9, <1>10

-----------------------------------------------------------------------------
(* rename_file copies a blob and deletes it under its old name *)

(* The name that is handled, and its new one. *)
LEMMA RenamedFacts ==
  ASSUME NEW k, IsNote(k), k.work # <<>>, NEW n, n = Head(k.work), NEW b, NEW w, NEW rs,
         NEW step \in {"copy", "unlink"}, Renames2(b, w, rs, step, k)
  PROVE  /\ n \in Names /\ IsPrefix(k.from, n) /\ <<k.from, k.to>> \in Renames
         /\ k.op = "rename" => n = k.from /\ Renamed(n, k.from, k.to) = k.to
  <1>1. k.work \in Seq(Names) /\ n \in Names /\ n \in Range(k.work)
    <2>1. k.work \in Seq(Names)
      BY DEF IsNote
    <2> QED
      BY <2>1, HeadAndTail
  <1>2. CASE k.op = "rename"
    <2>1. k.work = <<k.from>> /\ <<k.from, k.to>> \in Renames
      BY <1>2 DEF Renames2, Single
    <2>2. n = k.from /\ n \in Seq(Segments)
      BY <1>1, <2>1, NameFacts
    <2>3. IsPrefix(k.from, n)
      BY <2>2, PrefixOrder
    <2> QED
      BY <1>1, <2>1, <2>2, <2>3, RenamesFacts
  <1>3. CASE k.op # "rename"
    <2>1. <<k.from, k.to>> \in Renames /\ \A m \in Range(k.work) : IsPrefix(k.from, m)
      BY <1>3 DEF Renames2, FolderMoves
    <2> QED
      BY <1>1, <1>3, <2>1
  <1> QED
    BY <1>2, <1>3

LEMMA RenameCopied ==
  ASSUME NEW k, IsNote(k), k.work # <<>>, NEW n, n = Head(k.work), NEW new, new = NewName(k),
         NEW b \in [Names -> Kinds], NEW w, NEW rs, Renames2(b, w, rs, "copy", k), b[n] # "none",
         NEW b2, b2 = [b EXCEPT ![new] = b[n]]
  PROVE  Renames2(b2, w, rs, "unlink", k)
  <1>1. /\ n \in Names /\ IsPrefix(k.from, n) /\ <<k.from, k.to>> \in Renames
        /\ k.op = "rename" => n = k.from /\ Renamed(n, k.from, k.to) = k.to
    BY RenamedFacts
  <1>2. new = Renamed(n, k.from, k.to) /\ new \in Names
    BY <1>1, RenamesFacts DEF NewName
  <1>3. SameBut({new}, b, w, b2, w) /\ b2[new] = b[n]
    BY <1>2 DEF SameBut
  <1>4. CASE k.op = "rename"
    <2>1. Single(b, w, rs, "copy", k)
      BY <1>4 DEF Renames2
    <2>2. GoodAhead(b, w, rs, {}, {})
      BY <2>1 DEF Single
    <2>3. GoodAhead(b2, w, rs, {}, {new})
      BY <1>3, <2>2, CopyOn
    <2>4. n = k.from /\ new = k.to /\ k.from # k.to
      BY <1>1, <1>2, <1>4, <2>1 DEF Single
    <2>5. b2[new] = b2[k.from]
      BY <1>1, <1>3, <2>4 DEF SameBut
    <2>6. Single(b2, w, rs, "unlink", k)
      BY <2>1, <2>3, <2>5 DEF Single
    <2> QED
      BY <1>4, <2>6 DEF Renames2
  <1>5. CASE k.op # "rename"
    <2>1. FolderMoves(b, w, rs, k, {})
      BY <1>5 DEF Renames2
    <2>2. FolderMoves(b2, w, rs, k, {new})
      BY <1>1, <1>2, <1>3, <2>1, FolderCopied
    <2>3. new # n
      <3>1. k.from # k.to /\ Apart(b, k)
        BY <2>1 DEF FolderMoves
      <3> QED
        BY <1>1, <1>2, <3>1, FolderFacts
    <2>4. b2[new] = b2[n]
      BY <1>1, <1>3, <2>3 DEF SameBut
    <2> QED
      BY <1>5, <2>2, <2>4 DEF Renames2
  <1> QED
    BY <1>4, <1>5

LEMMA RenameUnlinked ==
  ASSUME NEW k, IsNote(k), k.work # <<>>, NEW n, n = Head(k.work), NEW new, new = NewName(k),
         NEW b, b = blob[k.user], NEW w, NEW rs \in [Names -> IndexRow], Renames2(b, w, rs, "unlink", k),
         b[n] # "none", Last(new) # Placeholder => Last(n) # Placeholder,
         NEW b2, NEW w2, SameBut({n, new}, b, w, b2, w2), b2[n] = "none",
         new \in Names /\ new # n => b2[new] = b[new] /\ w2[new] = w[n],
         NEW g, g.work = NextName(k).work, SameFolder(g, k),
         NEW more, Range(g.todo) = Range(k.todo) \cup more, MovesRow(more, n, new, k.rows[n], "file")
  PROVE  RenameStays(b2, w2, rs, g)
  <1>1. /\ n \in Names /\ IsPrefix(k.from, n) /\ <<k.from, k.to>> \in Renames
        /\ k.op = "rename" => n = k.from /\ Renamed(n, k.from, k.to) = k.to
    BY RenamedFacts
  <1>2. new = Renamed(n, k.from, k.to) /\ new \in Names /\ (new \in Innermost => n \in Innermost)
    BY <1>1, RenamesFacts DEF NewName
  <1>3. PICK i : i = NextName(k)
    OBVIOUS
  <1>4. /\ k.op # "rename folder" => g.work = Tail(k.work)
        /\ k.op = "rename folder" /\ (\A m \in Range(k.work) : IsPrefix(k.from, m)) => WorkLeft(b, k, n, g.work)
    BY <1>3, NextNameGoes
  <1>5. k.todo \in Seq(Statement)
    BY DEF IsNote
  <1>6. CASE k.op = "rename"
    <2>1. Single(b, w, rs, "unlink", k)
      BY <1>6 DEF Renames2
    <2>2. /\ k.work = <<k.from>> /\ k.todo = <<>> /\ k.rows = Listed(rs)
          /\ n = k.from /\ new = k.to /\ new # n
          /\ GoodAhead(b, w, rs, {}, {new}) /\ b[new] = b[n]
      BY <1>1, <1>2, <1>6, <2>1 DEF Single
    <2>3. PICK entry : entry = k.rows[n]
      OBVIOUS
    <2>4. Says(entry, rs[n]) /\ MovesRow(more, n, new, entry, "file")
      BY <1>1, <2>2, <2>3, ListedSays
    <2>5. n \in Innermost => rs[n] \in GoodRows(b, w, n)
      BY <2>2 DEF GoodAhead, Comes
    <2>6. GoodAhead(b2, w2, rs, {} \cup more, {})
      BY <1>1, <1>2, <2>2, <2>4, <2>5, RenameOn
    <2>7. {} \cup more = more /\ Range(g.todo) = more
      BY <2>2, RangeFacts
    <2>8. g.work = <<>> /\ g.op # "rename folder"
      <3>1. k.work \in Seq(Names) /\ Len(k.work) = 1
        BY <2>2 DEF IsNote
      <3>2. Tail(k.work) = <<>>
        BY <3>1, TailOfOne
      <3> QED
        BY <1>4, <1>6, <3>2 DEF SameFolder
    <2> QED
      BY <2>6, <2>7, <2>8 DEF RenameStays
  <1>7. CASE k.op # "rename"
    <2>1. FolderMoves(b, w, rs, k, {new}) /\ b[new] = b[n]
      BY <1>7 DEF Renames2
    <2>2. k.op = "rename folder" /\ \A m \in Range(k.work) : IsPrefix(k.from, m)
      BY <2>1 DEF FolderMoves
    <2>3. WorkLeft(b, k, n, g.work)
      BY <1>4, <2>2
    <2>4. new # n
      <3>1. k.from # k.to /\ Apart(b, k)
        BY <2>1 DEF FolderMoves
      <3> QED
        BY <1>1, <1>2, <3>1, FolderFacts
    <2>5. b2[new] = b[new] /\ w2[new] = w[n]
      BY <1>2, <2>4
    <2>6. FolderMoves(b2, w2, rs, g, {})
      BY <1>1, <1>2, <1>5, <2>1, <2>3, <2>5, FolderUnlinked
    <2> QED
      BY <2>2, <2>6 DEF RenameStays, SameFolder
  <1> QED
    BY <1>6, <1>7

(* A blob is copied to its new name. *)
LEMMA RenameCopyKeeps ==
  ASSUME StorageInv, GalleryInv, NEW c \in Callers, CopyBlob(c), cur[c].op # "move"
  PROVE  GalleryInv'
  <1>1. PICK k : k = cur[c]
    OBVIOUS
  <1>2. PICK u : u = k.user
    OBVIOUS
  <1>3. PICK n, new : n = Head(k.work) /\ new = NewName(k)
    OBVIOUS
  <1>4. /\ pc[c] = "copy" /\ pc[c] \in Operating /\ UNCHANGED <<rows, wish, disturbed>> /\ blob[u][n] # "none"
        /\ blob' = [blob EXCEPT ![u][new] = blob[u][n]] /\ Goes(c, "unlink", k)
    BY <1>1, <1>2, <1>3 DEF CopyBlob, AtStep, Operating, NewName
  <1>5. /\ IsNote(k) /\ k.one /\ k.work # <<>> /\ u \in Users /\ IndexTypeOK /\ blob[u] \in [Names -> Kinds]
        /\ wish \in [Users -> [Names -> BOOLEAN]] /\ disturbed = [v \in Users |-> disturbed[v]]
    BY <1>1, <1>2, <1>4, OperationFacts, WorkerFacts
  <1>6. OnlyTouches(u) /\ blob'[u] = [blob[u] EXCEPT ![new] = blob[u][n]]
    BY <1>4, <1>5 DEF IndexTypeOK, Untouched, OnlyTouches
  <1>7. GoesFor(c, u, "unlink", k)
    BY <1>2, <1>4, <1>5 DEF GoesFor, Scanning
  <1>8. ASSUME OnFor(c, u) PROVE On(blob'[u], wish'[u], rows'[u], u, "unlink", k)
    <2>1. PICK b, w, rs : b = blob[u] /\ w = wish[u] /\ rs = rows[u]
      OBVIOUS
    <2>2. PICK b2 : b2 = [b EXCEPT ![new] = b[n]]
      OBVIOUS
    <2>3. Renames2(b, w, rs, "copy", k) /\ b \in [Names -> Kinds] /\ b[n] # "none"
      BY <1>1, <1>4, <1>5, <1>8, <2>1 DEF OnFor, On, Renaming
    <2>4. Renames2(b2, w, rs, "unlink", k)
      BY <1>3, <1>5, <2>2, <2>3, RenameCopied
    <2>5. On(b2, w, rs, u, "unlink", k)
      BY <1>1, <2>4 DEF On, Renaming, Scanning
    <2> QED
      BY <1>4, <1>6, <2>1, <2>2, <2>5
  <1>9. ~disturbed'[u] => ~disturbed[u] /\ (OnFor(c, u) => On(blob'[u], wish'[u], rows'[u], u, "unlink", k))
    BY <1>4, <1>8
  <1> QED
    BY <1>1, <1>2, <1>4, <1>6, <1>7, <1>9, OperationGoesOn

(* The blob is deleted under its old name; its flag and its entry go over to the new one. *)
LEMMA RenameUnlinkKeeps ==
  ASSUME StorageInv, GalleryInv, NEW c \in Callers, UnlinkBlob(c), cur[c].op # "move"
  PROVE  GalleryInv'
  <1>1. PICK k : k = cur[c]
    OBVIOUS
  <1>2. PICK u : u = k.user
    OBVIOUS
  <1>3. PICK n, new : n = Head(k.work) /\ new = NewName(k)
    OBVIOUS
  <1>4. Unlinks(c, u, n, new, k.op = "move") /\ k.op # "move"
    BY <1>1, <1>2, <1>3, UnlinkFacts
  <1>5. PICK w2 : w2 = wish'[u]
    OBVIOUS
  <1>6. /\ pc[c] = "unlink" /\ pc[c] \in Operating /\ UNCHANGED rows /\ OnlyTouches(u) /\ blob[u][n] # "none"
        /\ blob'[u] = [blob[u] EXCEPT ![n] = "none"]
        /\ (new \in Names => w2[new] = wish[u][n]) /\ \A m \in Names \ {n, new} : w2[m] = wish[u][m]
        /\ ~disturbed'[u] => ~disturbed[u] /\ (Last(new) # Placeholder => Last(n) # Placeholder)
    BY <1>4, <1>5 DEF Unlinks
  <1>7. /\ IsNote(k) /\ k.one /\ u \in Accounts /\ k.work # <<>> /\ k.rows \in [Names -> IndexRow]
        /\ blob[u] \in [Names -> Kinds] /\ rows[u] \in [Names -> IndexRow] /\ k.todo \in Seq(Statement)
        /\ n \in Names
    BY <1>1, <1>2, <1>3, <1>4, <1>6, OperationFacts, WorkerFacts, RenamerFacts
  <1>8. PICK all : all = EntryMoved(k, n, TRUE)
    OBVIOUS
  <1>9. all \in Seq(Statement) /\ MovesRow(Range(all), n, new, k.rows[n], "file")
    <2>1. all \in Seq(Statement)
      BY <1>2, <1>7, <1>8, EntryMovedFacts
    <2>2. MovesRow(Range(all), n, Renamed(n, k.from, k.to), k.rows[n], KindOf(k.rows[n], TRUE))
      BY <1>2, <1>7, <1>8, EntryMoves
    <2> QED
      BY <1>3, <2>1, <2>2 DEF KindOf, NewName
  <1>10. PICK todo : todo = k.todo \o all
    OBVIOUS
  <1>11. PICK more : more = Range(all)
    OBVIOUS
  <1>12. Range(todo) = Range(k.todo) \cup more /\ todo \in Seq(Statement)
    BY <1>7, <1>9, <1>10, <1>11, RangeJoined
  <1>13. PICK j : j = [k EXCEPT !.todo = todo]
    OBVIOUS
  <1>14. /\ IsNote(j) /\ j.work = k.work /\ j.user = u /\ j.one /\ j.todo = todo /\ j.from = k.from /\ j.to = k.to
         /\ j.op = k.op /\ j.rows = k.rows
    BY <1>2, <1>7, <1>12, <1>13 DEF IsNote, NoteFields
  <1>15. PICK g : g = NextName(j)
    OBVIOUS
  <1>16. RenameGoesOn(c, g)
    <2>1. RenameGoesOn(c, NextName([k EXCEPT !.todo = k.todo \o EntryMoved(k, Head(k.work), TRUE)]))
      BY <1>1, <1>4 DEF UnlinkBlob
    <2> QED
      BY <1>3, <1>8, <1>10, <1>13, <1>15, <2>1
  <1>17. IsNote(g) /\ g.user = u /\ g.todo = todo /\ SameFolder(g, k) /\ g.one /\ g.work = NextName(k).work
    <2>1. IsNote(g) /\ g.user = u /\ g.todo = todo /\ SameFolder(g, j) /\ g.one
      BY <1>7, <1>14, <1>15, NextNameGoes
    <2>2. DOMAIN k = NoteFields /\ DOMAIN j = NoteFields
      BY <1>7, <1>14 DEF IsNote
    <2>3. g.work = NextName(k).work
      BY <1>2, <1>14, <1>15, <2>2 DEF NextName, NoteFields
    <2> QED
      BY <1>14, <2>1, <2>3 DEF SameFolder
  <1>18. PICK step, i : /\ GoesFor(c, u, step, i)
                        /\ \A b, w, v : \A rs \in [Names -> IndexRow] :
                             RenameStays(b, w, rs, g) => On(b, w, rs, v, step, i)
    <2>1. g.rows \in [Names -> IndexRow]
      BY <1>7, <1>17 DEF SameFolder
    <2> QED
      BY <1>7, <1>16, <1>17, <2>1, OnToRename
  <1>19. ASSUME OnFor(c, u), ~disturbed'[u] PROVE On(blob'[u], wish'[u], rows'[u], u, step, i)
    <2>1. PICK b, w, rs : b = blob[u] /\ w = wish[u] /\ rs = rows[u]
      OBVIOUS
    <2>2. PICK b2 : b2 = [b EXCEPT ![n] = "none"]
      OBVIOUS
    <2>3. /\ rs \in [Names -> IndexRow] /\ Renames2(b, w, rs, "unlink", k) /\ b = blob[k.user] /\ b[n] # "none"
          /\ Last(new) # Placeholder => Last(n) # Placeholder
      BY <1>1, <1>2, <1>4, <1>6, <1>7, <1>19, <2>1 DEF OnFor, On, Renaming
    <2>4. /\ SameBut({n, new}, b, w, b2, w2) /\ b2[n] = "none"
          /\ new \in Names /\ new # n => b2[new] = b[new] /\ w2[new] = w[n]
      BY <1>6, <1>7, <2>1, <2>2 DEF SameBut
    <2>5. Range(g.todo) = Range(k.todo) \cup more /\ MovesRow(more, n, new, k.rows[n], "file")
      BY <1>9, <1>11, <1>12, <1>17
    <2>6. RenameStays(b2, w2, rs, g)
      BY <1>3, <1>7, <1>17, <2>3, <2>4, <2>5, RenameUnlinked
    <2>7. On(b2, w2, rs, u, step, i)
      BY <1>18, <2>3, <2>6
    <2> QED
      BY <1>5, <1>6, <2>1, <2>2, <2>7
  <1>20. ~disturbed'[u] => ~disturbed[u] /\ (OnFor(c, u) => On(blob'[u], wish'[u], rows'[u], u, step, i))
    BY <1>6, <1>19
  <1> QED
    BY <1>1, <1>2, <1>6, <1>18, <1>20, OperationGoesOn

-----------------------------------------------------------------------------
(* Scans *)

(* reindex has its account. *)
LEMMA CheckUserKeeps ==
  ASSUME StorageInv, GalleryInv, NEW c \in Callers, CheckUser(c)
  PROVE  GalleryInv'
  <1>1. PICK k, u : k = cur[c] /\ u = k.user
    OBVIOUS
  <1>2. pc[c] = "user" /\ UNCHANGED <<blob, rows, wish, disturbed>>
    BY DEF CheckUser, AtStep, history
  <1>3. /\ k.one /\ u \in Accounts
        /\ wish \in [Users -> [Names -> BOOLEAN]] /\ disturbed = [v \in Users |-> disturbed[v]]
    BY <1>1, <1>2, OperationFacts
  <1>4. Goes(c, "list", k)
    BY <1>1, <1>3 DEF CheckUser
  <1>5. GoesFor(c, u, "list", k) /\ OnlyTouches(u)
    BY <1>1, <1>2, <1>3, <1>4 DEF GoesFor, OnlyTouches, Untouched, Scanning
  <1>6. ASSUME OnFor(c, u) PROVE On(blob[u], wish[u], rows[u], u, "list", k)
    <2>1. GoodAhead(blob[u], wish[u], rows[u], {}, {})
      BY <1>2, <1>6 DEF OnFor, On
    <2>2. Until(blob[u], wish[u], rows[u], k)
      BY <1>3, <2>1 DEF Until
    <2> QED
      BY <2>2 DEF On, Renaming, Scanning
  <1> QED
    BY <1>1, <1>2, <1>5, <1>6, OperationGoesOn

\* Users the call of c is not for are left alone; the histories are well formed.
Spares(c) ==
  /\ \A u \in Accounts : c \notin Busy(u) => Untouched(u)
  /\ wish' \in [Users -> [Names -> BOOLEAN]] /\ disturbed' = [u \in Users |-> disturbed'[u]]

(* A scan goes on, or ends: only the users it is for have to be looked at. *)
LEMMA ScannerGoesOn ==
  ASSUME StorageInv, GalleryInv, NEW c \in Callers, pc[c] \in Scanning \cup {"list"},
         NEW step, NEW j, Goes(c, step, j), Minds(step, j), Spares(c),
         step # "idle" => (j.one <=> cur[c].one) /\ j.user = cur[c].user,
         \A u \in Accounts : c \in Busy(u) /\ ~disturbed'[u] =>
           ~disturbed[u] /\ (OnFor(c, u) => On(blob'[u], wish'[u], rows'[u], u, step, j))
  PROVE  GalleryInv'
  <1>1. /\ pc' = [x \in Callers |-> IF x = c THEN step ELSE pc[x]]
        /\ cur' = [x \in Callers |-> IF x = c THEN j ELSE cur[x]]
    BY DEF StorageInv, Goes
  <1>2. pc'[c] = step /\ cur'[c] = j /\ \A x \in Callers \ {c} : pc'[x] = pc[x] /\ cur'[x] = cur[x]
    BY <1>1
  <1>3. pc[c] # "idle"
    BY DEF Scanning
  <1>4. Turned(c)
    BY <1>2 DEF Turned, Spares
  <1>5. \A u \in Accounts : c \notin Busy(u) => Untouched(u)
    BY DEF Spares
  <1>6. ASSUME NEW u \in Accounts, c \in Busy(u), ~disturbed'[u]
        PROVE  ~disturbed[u] /\ (OnFor(c, u) => OnFor(c, u)')
    <2>1. OnFor(c, u)' = On(blob'[u], wish'[u], rows'[u], u, pc'[c], cur'[c])
      BY DEF OnFor
    <2> QED
      BY <1>2, <1>6, <2>1
  <1>7. pc'[c] # "idle" => (cur'[c].one <=> cur[c].one) /\ cur'[c].user = cur[c].user
    BY <1>2
  <1> QED
    BY <1>3, <1>4, <1>5, <1>6, <1>7, CallGoesOn

\* What the scan k makes of the rows of the users it is for.
ScanBrings(c, k) ==
  \A u \in Accounts : c \in Busy(u) /\ ~disturbed'[u] =>
    ~disturbed[u] /\ (OnFor(c, u) => ScanComes(blob'[u], wish'[u], rows'[u], u, k))

(* When the scan ends, what it has brought about is settled. *)
LEMMA ScanKeeps ==
  ASSUME StorageInv, GalleryInv, NEW c \in Callers, pc[c] \in Scanning, NEW k, IsNote(k), IsListing(k),
         ScanGoesOn(c, k), k.one <=> cur[c].one, k.user = cur[c].user, Minds("scan", k), Spares(c),
         ScanBrings(c, k)
  PROVE  GalleryInv'
  <1>1. PICK step, j : /\ Goes(c, step, j)
                       /\ step \in Scanning => /\ j.left = k.left /\ j.seen = k.seen /\ j.found = k.found
                                               /\ Ahead(j) = Ahead(k) /\ j.one = k.one /\ j.user = k.user
                       /\ step \notin Scanning => step = "idle" /\ k.left = <<>> /\ Ahead(k) = {}
    BY ScanGoesOnFacts
  <1>2. Minds(step, j)
    BY <1>1 DEF Minds, Scanning
  <1>3. step # "idle" => (j.one <=> cur[c].one) /\ j.user = cur[c].user
    BY <1>1
  <1>4. ASSUME NEW b, NEW w, NEW rs, NEW u, ScanComes(b, w, rs, u, k) PROVE On(b, w, rs, u, step, j)
    <2>1. CASE step \in Scanning
      <3>1. ScanComes(b, w, rs, u, j)
        BY <1>1, <1>4, <2>1 DEF ScanComes, Until
      <3> QED
        BY <2>1, <3>1 DEF On, Scanning, Renaming
    <2>2. CASE step \notin Scanning
      <3>1. step = "idle" /\ Range(k.left) = {} /\ Ahead(k) = {}
        BY <1>1, <2>2, RangeFacts
      <3>2. {s \in Ahead(k) : s.user = u} = {}
        BY <3>1
      <3>3. Settled(b, w, rs)
        BY <1>4, <3>1, <3>2 DEF ScanComes, Settled
      <3> QED
        BY <3>1, <3>3 DEF On, Scanning, Renaming
    <2> QED
      BY <2>1, <2>2
  <1>5. \A u \in Accounts : c \in Busy(u) /\ ~disturbed'[u] =>
          ~disturbed[u] /\ (OnFor(c, u) => On(blob'[u], wish'[u], rows'[u], u, step, j))
    BY <1>4 DEF ScanBrings
  <1> QED
    BY <1>1, <1>2, <1>3, <1>5, ScannerGoesOn

(* What a caller that scans says of its users. *)
LEMMA ScannerSays ==
  ASSUME StorageInv, GalleryInv, NEW c \in Callers, pc[c] \in Scanning
  PROVE  /\ Minds("scan", cur[c])
         /\ wish \in [Users -> [Names -> BOOLEAN]] /\ disturbed = [u \in Users |-> disturbed[u]]
         /\ \A u \in Accounts : /\ u \in Users
                                /\ c \in Busy(u) <=> cur[c].user = u \/ ~cur[c].one
                                /\ OnFor(c, u) => ScanComes(blob[u], wish[u], rows[u], u, cur[c])
  <1>1. Minds(pc[c], cur[c]) /\ pc[c] # "idle"
    BY DEF GalleryInv, Scanning
  <1>2. Minds("scan", cur[c])
    BY <1>1 DEF Minds, Scanning
  <1> QED
    BY <1>1, <1>2, StorageAssumption DEF GalleryInv, Busy, OnFor, On

(* A scan leaves out a user without an account. *)
LEMMA SkipUserKeeps ==
  ASSUME StorageInv, GalleryInv, NEW c \in Callers, pc[c] = "account", SkipUser(c), UNCHANGED <<blob, rows, wish>>,
         \/ disturbed' = disturbed /\ Head(cur[c].left) \notin Accounts
         \/ disturbed' = [u \in Users |-> disturbed[u] \/ (cur[c].one => u = cur[c].user)]
  PROVE  GalleryInv'
  <1>1. PICK k, s : k = cur[c] /\ s = Tail(k.left)
    OBVIOUS
  <1>2. PICK g : g = [k EXCEPT !.left = s]
    OBVIOUS
  <1>3. /\ IsNote(k) /\ IsListing(k) /\ s \in Seq(Users) /\ Range(k.left) = {Head(k.left)} \cup Range(s)
        /\ \A x, y \in DOMAIN s : s[x] = s[y] => x = y
    BY <1>1, ScannerFacts DEF Scanning
  <1>4. /\ IsNote(g) /\ g.left = s /\ g.found = k.found /\ g.seen = k.seen
        /\ g.todo = k.todo /\ g.stale = k.stale /\ g.one = k.one /\ g.user = k.user
    BY <1>2, <1>3 DEF IsNote, NoteFields
  <1>5. ScanGoesOn(c, g) /\ pc[c] \in Scanning
    BY <1>1, <1>2 DEF SkipUser, Scanning
  <1>6. Ahead(g) = Ahead(k) /\ Range(g.left) \subseteq Range(k.left)
    BY <1>3, <1>4 DEF Ahead
  <1>7. IsListing(g)
    BY <1>3, <1>4, <1>6 DEF IsListing
  <1>8. /\ Minds("scan", k) /\ wish \in [Users -> [Names -> BOOLEAN]] /\ disturbed = [u \in Users |-> disturbed[u]]
        /\ \A u \in Accounts : /\ u \in Users /\ (c \in Busy(u) <=> k.user = u \/ ~k.one)
                               /\ OnFor(c, u) => ScanComes(blob[u], wish[u], rows[u], u, k)
    BY <1>1, <1>5, ScannerSays
  <1>9. Minds("scan", g)
    BY <1>4, <1>6, <1>8 DEF Minds, Scanning
  <1>10. Spares(c) /\ ScanBrings(c, g)
    <2>1. CASE disturbed' = disturbed /\ Head(k.left) \notin Accounts
      <3>1. \A u \in Accounts : u \in Range(g.left) <=> u \in Range(k.left)
        BY <1>3, <1>4, <2>1
      <3>2. ASSUME NEW u \in Accounts, NEW b, NEW w, NEW rs, ScanComes(b, w, rs, u, k)
            PROVE  ScanComes(b, w, rs, u, g)
        BY <1>4, <1>6, <3>1, <3>2 DEF ScanComes, Until
      <3>3. \A u \in Accounts : OnFor(c, u) => ScanComes(blob[u], wish[u], rows[u], u, g)
        BY <1>8, <3>2
      <3>4. ScanBrings(c, g)
        BY <2>1, <3>3 DEF ScanBrings
      <3> QED
        BY <1>8, <2>1, <3>4 DEF Spares, Untouched
    <2>2. CASE disturbed' = [u \in Users |-> disturbed[u] \/ (k.one => u = k.user)]
      <3>1. \A u \in Accounts : IF c \in Busy(u) THEN disturbed'[u] ELSE disturbed'[u] <=> disturbed[u]
        BY <1>8, <2>2
      <3>2. disturbed' = [u \in Users |-> disturbed'[u]]
        BY <2>2
      <3> QED
        BY <1>8, <3>1, <3>2 DEF Spares, Untouched, ScanBrings
    <2> QED
      BY <1>1, <2>1, <2>2
  <1> QED
    BY <1>1, <1>4, <1>5, <1>7, <1>9, <1>10, ScanKeeps

(* A scan asks for the account of the next user. *)
LEMMA CheckAccountKeeps ==
  ASSUME StorageInv, GalleryInv, NEW c \in Callers, CheckAccount(c)
  PROVE  GalleryInv'
  <1>1. pc[c] = "account" /\ UNCHANGED <<blob, rows, wish, disturbed>>
    BY DEF CheckAccount, AtStep
  <1>2. CASE Head(cur[c].left) \notin Accounts /\ SkipUser(c)
    BY <1>1, <1>2, SkipUserKeeps
  <1>3. CASE Head(cur[c].left) \in Accounts /\ Goes(c, "cache", cur[c])
    <2>1. PICK k : k = cur[c]
      OBVIOUS
    <2>2. pc[c] \in Scanning
      BY <1>1 DEF Scanning
    <2>3. /\ Minds("scan", k) /\ wish \in [Users -> [Names -> BOOLEAN]] /\ disturbed = [u \in Users |-> disturbed[u]]
          /\ \A u \in Accounts : OnFor(c, u) => ScanComes(blob[u], wish[u], rows[u], u, k)
      BY <2>1, <2>2, ScannerSays
    <2>4. Minds("cache", k) /\ Spares(c)
      BY <1>1, <2>3 DEF Minds, Scanning, Spares, Untouched
    <2>5. \A u \in Accounts : OnFor(c, u) => On(blob[u], wish[u], rows[u], u, "cache", k)
      BY <2>3 DEF On, Renaming, Scanning
    <2> QED
      BY <1>1, <1>3, <2>1, <2>2, <2>4, <2>5, ScannerGoesOn
  <1> QED
    BY <1>2, <1>3 DEF CheckAccount

(* A request of a scan fails: the users it is for are disturbed. *)
LEMMA ScanFailureKeeps ==
  ASSUME StorageInv, GalleryInv, NEW c \in Callers, CheckFails(c) \/ ScanFails(c)
  PROVE  GalleryInv'
  <1>1. PICK k : k = cur[c]
    OBVIOUS
  <1>2. /\ UNCHANGED <<blob, rows, wish>>
        /\ disturbed' = [u \in Users |-> disturbed[u] \/ (k.one => u = k.user)]
    BY <1>1 DEF CheckFails, ScanFails
  <1>3. CASE pc[c] \in Scanning \cup {"user", "list"} /\ Ends(c)
    <2>1. /\ pc' = [x \in Callers |-> IF x = c THEN "idle" ELSE pc[x]]
          /\ cur' = [x \in Callers |-> IF x = c THEN Nothing ELSE cur[x]]
      BY <1>3 DEF StorageInv, Ends, Goes
    <2>2. pc[c] # "idle" /\ pc'[c] = "idle" /\ Minds(pc'[c], cur'[c])
      BY <1>3, <2>1 DEF Minds, Scanning
    <2>3. disturbed' = [u \in Users |-> disturbed'[u]] /\ wish \in [Users -> [Names -> BOOLEAN]]
      BY <1>2 DEF GalleryInv
    <2>4. Turned(c)
      BY <1>2, <2>1, <2>2, <2>3 DEF Turned
    <2>5. ASSUME NEW u \in Accounts
          PROVE  IF c \in Busy(u) THEN disturbed'[u] ELSE disturbed'[u] <=> disturbed[u]
      <3>1. u \in Users /\ (c \in Busy(u) <=> k.user = u \/ ~k.one)
        BY <1>1, <2>2, StorageAssumption DEF Busy
      <3> QED
        BY <1>2, <3>1
    <2>6. \A u \in Accounts : c \notin Busy(u) => Untouched(u)
      BY <1>2, <2>5 DEF Untouched
    <2> QED
      BY <2>2, <2>4, <2>5, <2>6, CallGoesOn
  <1>4. CASE pc[c] = "account" /\ SkipUser(c)
    BY <1>1, <1>2, <1>4, SkipUserKeeps
  <1> QED
    BY <1>3, <1>4 DEF CheckFails, ScanFails, Fails, Scanning

(* The blobs of a user as a sequence. *)
LEMMA BlobsFacts ==
  ASSUME NEW u
  PROVE  Blobs(u) \in Seq(Names) /\ Range(Blobs(u)) = {n \in Names : blob[u][n] # "none"}
  <1> DEFINE there == {n \in Names : blob[u][n] # "none"}
  <1>1. Blobs(u) = Only(NameList, there) /\ there \subseteq Names
    BY DEF Blobs
  <1> HIDE DEF there
  <1>2. Blobs(u) \in Seq(Names) /\ Range(Blobs(u)) = Range(NameList) \cap there
    BY <1>1, StorageAssumption, OnlyFacts
  <1> QED
    BY <1>1, <1>2 DEF Names, there

(* Of a user without any blobs the rows are settled before the scan. *)
LEMMA NoBlobsSettled ==
  ASSUME NEW b, NEW w, NEW rs, NEW k, ~HasBlobs(b), Until(b, w, rs, k)
  PROVE  Settled(b, w, rs)
  <1>1. CASE ~k.one
    BY <1>1 DEF Until
  <1>2. CASE k.one
    <2>1. \A n : FitRows(b, w, n) = GoodRows(b, w, n)
      BY DEF FitRows
    <2> QED
      BY <1>2, <2>1 DEF Until, Settled, FitAhead, GoodAhead
  <1> QED
    BY <1>1, <1>2

(* A scan lists the blobs of all it is for. *)
LEMMA ListBlobsKeeps ==
  ASSUME StorageInv, StorageInv', GalleryInv, NEW c \in Callers, ListBlobs(c)
  PROVE  GalleryInv'
  <1>1. PICK k : k = cur[c]
    OBVIOUS
  <1>2. PICK scope : scope = {u \in Users : (k.one => u = k.user) /\ Blobs(u) # <<>>}
    OBVIOUS
  <1>3. PICK left : left = SetToSeq(scope)
    OBVIOUS
  <1>4. PICK found : found = [u \in scope |-> [i \in DOMAIN Blobs(u) |->
                                [name |-> Blobs(u)[i], kind |-> blob[u][Blobs(u)[i]]]]]
    OBVIOUS
  <1>5. PICK j : j = [k EXCEPT !.found = found, !.left = left]
    OBVIOUS
  <1>6. PICK step : step = IF k.one THEN "cache" ELSE "account"
    OBVIOUS
  <1>7. /\ pc[c] = "list" /\ UNCHANGED <<blob, rows, wish, disturbed>>
        /\ dirty' = [dirty EXCEPT ![c] = FALSE]
        /\ IF scope = {} THEN Ends(c) ELSE Goes(c, step, j)
    BY <1>1, <1>2, <1>3, <1>4, <1>5, <1>6 DEF ListBlobs, AtStep
  <1>8. /\ IsNote(k) /\ k.todo = <<>> /\ k.left = <<>> /\ k.stale = <<>>
    BY <1>1, <1>7, WorkerFacts DEF IsPlain
  <1>9. /\ j.left = left /\ j.found = found /\ j.one = k.one /\ j.user = k.user
        /\ j.todo = <<>> /\ j.stale = <<>>
    BY <1>5, <1>8 DEF IsNote, NoteFields
  <1>10. Range(left) = scope
    <2>1. IsFiniteSet(scope)
      BY <1>2, StorageAssumption, FS_Subset
    <2> QED
      BY <1>3, <2>1, SetToSeqFacts
  <1>11. Ahead(j) = {}
    BY <1>9, RangeFacts DEF Ahead
  <1>12. step \in Scanning
    BY <1>6 DEF Scanning
  <1>13. /\ wish \in [Users -> [Names -> BOOLEAN]] /\ disturbed = [u \in Users |-> disturbed[u]]
    BY DEF GalleryInv
  <1>14. Spares(c)
    BY <1>7, <1>13 DEF Spares, Untouched
  <1>15. ASSUME NEW u \in Accounts, c \in Busy(u), OnFor(c, u)
         PROVE  /\ Until(blob[u], wish[u], rows[u], k)
                /\ u \notin scope => Settled(blob[u], wish[u], rows[u])
    <2>1. Until(blob[u], wish[u], rows[u], k)
      BY <1>1, <1>7, <1>15 DEF OnFor, On
    <2>2. ASSUME u \notin scope PROVE ~HasBlobs(blob[u])
      <3>1. u \in Users /\ (k.one => u = k.user)
        BY <1>1, <1>15, StorageAssumption DEF Busy
      <3>2. Range(Blobs(u)) = {}
        BY <1>2, <2>2, <3>1, RangeFacts
      <3> QED
        BY <3>2, BlobsFacts DEF HasBlobs
    <2> QED
      BY <2>1, <2>2, NoBlobsSettled
  <1>16. CASE scope = {}
    <2>1. Goes(c, "idle", Nothing) /\ Minds("idle", Nothing)
      BY <1>7, <1>16 DEF Ends, Minds, Scanning
    <2>2. \A u \in Accounts : c \in Busy(u) /\ OnFor(c, u) => On(blob[u], wish[u], rows[u], u, "idle", Nothing)
      BY <1>15, <1>16 DEF On, Renaming, Scanning
    <2> QED
      BY <1>7, <1>14, <2>1, <2>2, ScannerGoesOn
  <1>17. CASE scope # {}
    <2>1. Goes(c, step, j)
      BY <1>7, <1>17
    <2>2. Minds(step, j)
      BY <1>2, <1>9, <1>10, <1>11, <1>12 DEF Minds
    <2>3. pc'[c] = step /\ cur'[c] = j /\ dirty'[c] = FALSE
      BY <1>7, <2>1 DEF StorageInv, Goes
    <2>4. ListsAgree(j)'
      BY <1>12, <2>3 DEF StorageInv, CallerOK
    <2>5. \A u \in scope : ListsOf(blob[u], found[u])
      BY <1>7, <1>9, <1>10, <2>4 DEF ListsAgree, Lists, ListsOf
    <2>6. ASSUME NEW u \in Accounts, c \in Busy(u), OnFor(c, u)
          PROVE  On(blob[u], wish[u], rows[u], u, step, j)
      <3>1. PICK b, w, rs : b = blob[u] /\ w = wish[u] /\ rs = rows[u]
        OBVIOUS
      <3>2. Until(b, w, rs, j) /\ (u \notin scope => Settled(b, w, rs))
        BY <1>9, <1>15, <2>6, <3>1 DEF Until
      <3>3. {s \in Ahead(j) : s.user = u} = {}
        BY <1>11
      <3>4. ScanComes(b, w, rs, u, j)
        BY <1>9, <1>10, <2>5, <3>1, <3>2, <3>3 DEF ScanComes, Settled
      <3>5. On(b, w, rs, u, step, j)
        BY <1>6, <3>4 DEF On, Renaming, Scanning
      <3> QED
        BY <3>1, <3>5
    <2> QED
      BY <1>1, <1>7, <1>9, <1>14, <2>1, <2>2, <2>6, ScannerGoesOn
  <1> QED
    BY <1>16, <1>17

\* A statement planned for u, and what is planned at least when the scan is for u only.
PlannedFor(u, found, s) ==
  \/ s \in Range(ScanWrites(u, found, PublicOf(u)))
  \/ \E n \in GoneOf(u, found) : s = Delete(u, n)

RemovesGone(u, found, ahead) == \A n \in GoneOf(u, found) : Delete(u, n) \in ahead

(* What a scan has planned for a user leaves rows that fit. *)
LEMMA PlannedFits ==
  ASSUME NEW u \in Accounts, NEW found \in Seq(FoundBlob), NEW b, NEW w, NEW rs, rs = rows[u],
         rs \in [Names -> IndexRow], ListsOf(b, found), NEW k, Until(b, w, rs, k), NEW ahead,
         \A s \in ahead : PlannedFor(u, found, s), k.one => RemovesGone(u, found, ahead)
  PROVE  FitAhead(b, w, rs, ahead)
  <1>1. \A n \in Innermost : n \in Names /\ rs[n] \in GoodRows(b, w, n)
    <2>1. GoodAhead(b, w, rs, {}, {})
      BY SettledIsGood DEF Until
    <2> QED
      BY <2>1 DEF GoodAhead, Comes, Innermost
  <1>2. \A x \in DOMAIN found : found[x] \in FoundBlob /\ found[x].name \in Names
    <2>1. \A x \in DOMAIN found : found[x] \in FoundBlob
      OBVIOUS
    <2> QED
      BY <2>1 DEF FoundBlob
  <1>3. PICK public, writes, gone : /\ public = PublicOf(u) /\ writes = ScanWrites(u, found, public)
                                    /\ gone = GoneOf(u, found)
    OBVIOUS
  <1>4. \A s \in ahead : s \in Range(writes) \/ \E n \in gone : s = Delete(u, n)
    BY <1>3 DEF PlannedFor
  <1>5. \A s \in Range(writes) : \E x \in DOMAIN found : IsWriteFor(u, found[x], public, s)
    BY <1>3, ScanWritesFacts
  <1>6. \A n \in gone : n \in Names /\ rs[n].kind = "file" /\ ~FileIn(b, n)
    <2>1. ASSUME NEW n \in gone, FileIn(b, n) PROVE FALSE
      <3>1. PICK x \in DOMAIN found : found[x].name = n /\ found[x].kind = "file"
        BY <1>3, <2>1 DEF ListsOf, FileIn, GoneOf
      <3>2. n \in FilesOf(found)
        BY <2>1, <3>1 DEF FilesOf, IsIndexedFile, FileIn
      <3> QED
        BY <1>3, <2>1, <3>2 DEF GoneOf
    <2> QED
      BY <1>3, <2>1 DEF GoneOf
  <1>7. ASSUME NEW n \in Names, b[n] = "none", rs[n].kind = "file" PROVE n \in gone
    <2>1. n \notin FilesOf(found)
      BY <1>7 DEF FilesOf, IsIndexedFile, ListsOf
    <2> QED
      BY <1>3, <1>7, <2>1 DEF GoneOf
  <1>8. ASSUME NEW n \in Innermost, NEW s \in Range(writes), Hits(s, n) PROVE Leaves(s) \in FitRows(b, w, n)
    <2>1. PICK x \in DOMAIN found : IsWriteFor(u, found[x], public, s)
      BY <1>5, <1>8
    <2>2. PICK name, kind : name = found[x].name /\ kind = found[x].kind /\ name \in Names /\ b[name] = kind
      BY <1>2 DEF ListsOf
    <2>3. s \in Statement /\ s.do = "upsert"
      BY <2>1 DEF IsWriteFor
    <2>4. s.name = n /\ Leaves(s) = s.row /\ Leaves(s) \in IndexRow
      BY <1>8, <2>3, LeavesFacts DEF Hits, Leaves
    <2>5. ~Inside(name, n)
      BY <1>8, <2>2 DEF Innermost
    <2>6. \/ s.row = FolderRow /\ n = name /\ kind = "folder"
          \/ s.row = FileRow(n \in public) /\ n = name /\ kind = "file"
      BY <2>1, <2>2, <2>4, <2>5 DEF IsWriteFor, IsIndexedFile
    <2>7. CASE s.row = FolderRow /\ n = name /\ kind = "folder"
      BY <2>2, <2>4, <2>7 DEF FitRows, GoodRows, FileIn
    <2>8. CASE s.row = FileRow(n \in public) /\ n = name /\ kind = "file"
      <3>1. s.row.kind = "file" /\ s.row.public = (n \in public)
        BY <2>8 DEF FileRow
      <3>2. ASSUME FileIn(b, n) PROVE s.row.public = w[n]
        <4>1. rs[n].kind = "file" /\ rs[n].public = w[n] /\ rs[n] \in IndexRow /\ n \in Names
          BY <1>1, <1>8, <3>2 DEF GoodRows
        <4>2. rs[n].public \in BOOLEAN
          BY <4>1 DEF IndexRow
        <4>3. n \in public <=> rs[n].public
          BY <1>3, <4>1 DEF PublicOf
        <4>4. (n \in public) = rs[n].public
          BY <4>2, <4>3
        <4> QED
          BY <3>1, <4>1, <4>4
      <3>3. b[n] # "none"
        BY <2>2, <2>8
      <3> QED
        BY <2>4, <3>1, <3>2, <3>3 DEF FitRows, GoodRows
    <2> QED
      BY <2>6, <2>7, <2>8
  <1>9. ASSUME NEW n \in Innermost, NEW m \in gone, Hits(Delete(u, m), n)
        PROVE  Leaves(Delete(u, m)) \in FitRows(b, w, n)
    <2>1. m = n /\ Leaves(Delete(u, m)) = NoRow
      BY <1>9 DEF Hits, Leaves, Delete
    <2>2. NoRow \in IndexRow /\ NoRow.kind # "file"
      BY DEF NoRow, IndexRow, Kinds
    <2> QED
      BY <1>6, <2>1, <2>2 DEF FitRows, GoodRows
  <1>10. ASSUME NEW n \in Innermost PROVE rs[n] \in FitRows(b, w, n) \/ \E s \in ahead : Hits(s, n)
    <2>1. CASE ~k.one
      BY <2>1, SettledIsGood DEF Until
    <2>2. CASE k.one
      <3>1. ASSUME rs[n] \notin FitRows(b, w, n) PROVE Delete(u, n) \in ahead
        <4>1. b[n] = "none" /\ rs[n].kind = "file" /\ n \in Names
          BY <1>1, <1>10, <3>1 DEF FitRows
        <4> QED
          BY <1>3, <1>7, <2>2, <4>1 DEF RemovesGone
      <3>2. Hits(Delete(u, n), n)
        BY DEF Hits, Delete
      <3> QED
        BY <3>1, <3>2
    <2> QED
      BY <2>1, <2>2
  <1>11. \A n \in Innermost, s \in ahead : Hits(s, n) => Leaves(s) \in FitRows(b, w, n)
    BY <1>4, <1>8, <1>9
  <1> QED
    BY <1>10, <1>11 DEF FitAhead, Comes

(* A scan reads the rows of a user: what it plans lets the rows come out right. *)
LEMMA ReadRowsKeeps ==
  ASSUME StorageInv, GalleryInv, NEW c \in Callers, ReadRows(c)
  PROVE  GalleryInv'
  <1>1. PICK i, u, found : i = cur[c] /\ u = Head(i.left) /\ found = i.found[u]
    OBVIOUS
  <1>2. PICK g : ReadsRows(i, u, found, g) /\ ScanGoesOn(c, g)
    BY <1>1, ReadRowsFacts
  <1>3. pc[c] = "cache" /\ pc[c] \in Scanning /\ UNCHANGED <<blob, rows, wish, disturbed>>
    BY DEF ReadRows, AtStep, Scanning
  <1>4. /\ IsListing(i) /\ u \in Accounts /\ u \in Range(i.left) /\ IndexTypeOK
        /\ Range(i.left) = {u} \cup Range(Tail(i.left))
    BY <1>1, <1>3, ScannerFacts
  <1>5. /\ Minds("scan", i) /\ wish \in [Users -> [Names -> BOOLEAN]] /\ disturbed = [v \in Users |-> disturbed[v]]
        /\ \A v \in Accounts : v \in Users /\ (OnFor(c, v) => ScanComes(blob[v], wish[v], rows[v], v, i))
    BY <1>1, <1>3, ScannerSays
  <1>6. /\ IsNote(g) /\ IsListing(g) /\ (g.one <=> i.one) /\ g.user = i.user /\ Range(g.left) = Range(Tail(i.left))
        /\ u \notin Range(g.left) /\ \A v \in Range(g.left) : g.found[v] = i.found[v]
    BY <1>2 DEF ReadsRows
  <1>7. \A s \in Ahead(i) : s \in Ahead(g) /\ s.user # u
    BY <1>2, <1>4 DEF ReadsRows, IsListing
  <1>8. \A s \in Ahead(g) : s \in Ahead(i) \/ (PlannedFor(u, found, s) /\ s.user = u)
    <2>1. \A n : Delete(u, n).user = u
      BY DEF Delete
    <2> QED
      BY <1>2, <2>1 DEF ReadsRows, PlannedFor
  <1>9. Minds("scan", g)
    BY <1>4, <1>5, <1>6, <1>8 DEF Minds, Scanning
  <1>10. Spares(c)
    BY <1>3, <1>5 DEF Spares, Untouched
  <1>11. ASSUME NEW v \in Accounts, v # u, NEW b, NEW w, NEW rs, ScanComes(b, w, rs, v, i)
         PROVE  ScanComes(b, w, rs, v, g)
    <2>1. v \in Range(g.left) <=> v \in Range(i.left)
      BY <1>4, <1>6, <1>11
    <2>2. {s \in Ahead(g) : s.user = v} = {s \in Ahead(i) : s.user = v}
      BY <1>7, <1>8, <1>11
    <2> QED
      BY <1>6, <1>11, <2>1, <2>2 DEF ScanComes, Until
  <1>12. ASSUME ScanComes(blob[u], wish[u], rows[u], u, i) PROVE ScanComes(blob[u], wish[u], rows[u], u, g)
    <2>1. PICK b, w, rs : b = blob[u] /\ w = wish[u] /\ rs = rows[u]
      OBVIOUS
    <2>2. ListsOf(b, found) /\ Until(b, w, rs, i)
      BY <1>1, <1>4, <1>12, <2>1 DEF ScanComes
    <2>3. PICK ahead : ahead = {s \in Ahead(g) : s.user = u}
      OBVIOUS
    <2>4. \A s \in ahead : PlannedFor(u, found, s)
      BY <1>7, <1>8, <2>3
    <2>5. i.one => RemovesGone(u, found, ahead)
      BY <1>2, <2>3 DEF ReadsRows, RemovesGone, Delete
    <2>6. rs \in [Names -> IndexRow] /\ found \in Seq(FoundBlob)
      BY <1>1, <1>4, <1>5, <2>1 DEF IndexTypeOK, IsListing
    <2>7. FitAhead(b, w, rs, ahead)
      BY <1>4, <2>1, <2>2, <2>4, <2>5, <2>6, PlannedFits
    <2> QED
      BY <1>6, <2>1, <2>3, <2>7 DEF ScanComes
  <1>13. ScanBrings(c, g)
    BY <1>3, <1>5, <1>11, <1>12 DEF ScanBrings
  <1> QED
    BY <1>1, <1>2, <1>3, <1>6, <1>9, <1>10, <1>13, ScanKeeps

(* A statement of a scan runs. *)
LEMMA ScanWriteKeeps ==
  ASSUME StorageInv, GalleryInv, NEW c \in Callers, ScanWrite(c)
  PROVE  GalleryInv'
  <1>1. PICK i, s, rest : i = cur[c] /\ s = Head(i.todo) /\ rest = Tail(i.todo)
    OBVIOUS
  <1>2. PICK g : g = [i EXCEPT !.todo = rest]
    OBVIOUS
  <1>3. /\ pc[c] = "scan" /\ pc[c] \in Scanning /\ UNCHANGED <<blob, wish, disturbed>>
        /\ rows' = [rows EXCEPT ![s.user] = Written(@, s)] /\ ScanGoesOn(c, g)
    BY <1>1, <1>2 DEF ScanWrite, AtStep, Scanning
  <1>4. IsNote(i) /\ IsListing(i) /\ IndexTypeOK /\ i.todo \in Seq(Statement) /\ i.todo # <<>>
    BY <1>1, <1>3, ScannerFacts DEF IsNote
  <1>5. s \in Statement /\ rest \in Seq(Statement) /\ Range(i.todo) = {s} \cup Range(rest)
    BY <1>1, <1>4, HeadAndTail
  <1>6. s.user \in Accounts /\ s.user \in Users
    BY <1>5, StorageAssumption DEF Statement
  <1>7. /\ IsNote(g) /\ g.left = i.left /\ g.found = i.found /\ g.seen = i.seen
        /\ g.todo = rest /\ g.stale = i.stale /\ g.one = i.one /\ g.user = i.user
    BY <1>2, <1>4, <1>5 DEF IsNote, NoteFields
  <1>8. Ahead(i) = {s} \cup Ahead(g)
    BY <1>5, <1>7 DEF Ahead
  <1>9. IsListing(g)
    BY <1>4, <1>7, <1>8 DEF IsListing
  <1>10. /\ Minds("scan", i) /\ wish \in [Users -> [Names -> BOOLEAN]] /\ disturbed = [u \in Users |-> disturbed[u]]
         /\ \A u \in Accounts : /\ u \in Users /\ (c \in Busy(u) <=> i.user = u \/ ~i.one)
                                /\ OnFor(c, u) => ScanComes(blob[u], wish[u], rows[u], u, i)
    BY <1>1, <1>3, ScannerSays
  <1>11. Minds("scan", g) /\ (i.one => s.user = i.user)
    BY <1>7, <1>8, <1>10 DEF Minds, Scanning
  <1>12. rows'[s.user] = Written(rows[s.user], s) /\ \A u \in Users \ {s.user} : rows'[u] = rows[u]
    BY <1>3, <1>4, <1>6 DEF IndexTypeOK
  <1>13. Spares(c)
    <2>1. \A u \in Accounts : c \notin Busy(u) => u \in Users \ {s.user}
      BY <1>10, <1>11
    <2> QED
      BY <1>3, <1>10, <1>12, <2>1 DEF Spares, Untouched
  <1>14. s.user \notin Range(i.left)
    BY <1>4, <1>8 DEF IsListing
  <1>15. ASSUME NEW u \in Accounts, u # s.user, NEW b, NEW w, NEW rs, ScanComes(b, w, rs, u, i)
         PROVE  ScanComes(b, w, rs, u, g)
    <2>1. {x \in Ahead(i) : x.user = u} = {x \in Ahead(g) : x.user = u}
      BY <1>8, <1>15
    <2> QED
      BY <1>7, <1>15, <2>1 DEF ScanComes, Until
  <1>16. ASSUME NEW b, NEW w, NEW rs \in [Names -> IndexRow], ScanComes(b, w, rs, s.user, i)
         PROVE  ScanComes(b, w, Written(rs, s), s.user, g)
    <2>1. PICK ahead, more : /\ ahead = {x \in Ahead(i) : x.user = s.user}
                             /\ more = {x \in Ahead(g) : x.user = s.user}
      OBVIOUS
    <2>2. ahead = {s} \cup more
      BY <1>8, <2>1
    <2>3. FitAhead(b, w, rs, ahead)
      BY <1>14, <1>16, <2>1 DEF ScanComes
    <2>4. ASSUME NEW n \in Innermost PROVE Comes(FitRows(b, w, n), Written(rs, s), more, n)
      <3>1. Comes(FitRows(b, w, n), rs, ahead, n) /\ n \in Names
        BY <2>3 DEF FitAhead, Innermost
      <3> QED
        BY <1>5, <1>16, <2>2, <3>1, ComesRuns
    <2>5. FitAhead(b, w, Written(rs, s), more)
      BY <2>4 DEF FitAhead
    <2> QED
      BY <1>7, <1>14, <2>1, <2>5 DEF ScanComes
  <1>17. ScanBrings(c, g)
    <2>1. ASSUME NEW u \in Accounts, OnFor(c, u) PROVE ScanComes(blob[u], wish[u], rows'[u], u, g)
      <3>1. ScanComes(blob[u], wish[u], rows[u], u, i) /\ u \in Users
        BY <1>10, <2>1
      <3>2. CASE u # s.user
        BY <1>12, <1>15, <3>1, <3>2
      <3>3. CASE u = s.user
        <4>1. rows[u] \in [Names -> IndexRow]
          BY <1>4, <3>1 DEF IndexTypeOK
        <4>2. PICK b, w, rs : b = blob[u] /\ w = wish[u] /\ rs = rows[u]
          OBVIOUS
        <4>3. ScanComes(b, w, Written(rs, s), u, g)
          BY <1>16, <3>1, <3>3, <4>1, <4>2
        <4> QED
          BY <1>12, <3>3, <4>2, <4>3
      <3> QED
        BY <3>2, <3>3
    <2> QED
      BY <1>3, <2>1 DEF ScanBrings
  <1> QED
    BY <1>1, <1>3, <1>7, <1>9, <1>11, <1>13, <1>17, ScanKeeps

-----------------------------------------------------------------------------
(* Calls begin *)

(* An operation begins: it is enough to look at its user when the rows are settled. *)
LEMMA OperationBegins ==
  ASSUME StorageInv, GalleryInv, NEW c \in Callers, NEW u \in Accounts, NEW op, StartsCall(c, op, {u}),
         UNCHANGED <<blob, rows>>, NEW step, NEW k, GoesFor(c, u, step, k), step # "idle",
         Settled(blob[u], wish[u], rows[u]) => On(blob[u], wish[u], rows[u], u, step, k)
  PROVE  GalleryInv'
  <1>1. /\ pc' = [x \in Callers |-> IF x = c THEN step ELSE pc[x]]
        /\ cur' = [x \in Callers |-> IF x = c THEN k ELSE cur[x]]
    BY DEF StorageInv, GoesFor, Goes
  <1>2. pc'[c] = step /\ cur'[c] = k /\ \A x \in Callers \ {c} : pc'[x] = pc[x] /\ cur'[x] = cur[x]
    BY <1>1
  <1>3. k.one /\ k.user = u /\ step \notin Scanning /\ u \in Users
    BY StorageAssumption DEF GoesFor
  <1>4. PICK scope : scope = {u} /\ scope \in SUBSET Users
    BY <1>3
  <1>5. /\ pc[c] = "idle" /\ wish' = wish
        /\ disturbed' = [v \in Users |-> disturbed[v] \/ (v \in scope /\ Busy(v) # {})]
    BY <1>4 DEF StartsCall
  <1>6. disturbed' = [v \in Users |-> disturbed'[v]] /\ wish' \in [Users -> [Names -> BOOLEAN]]
    BY <1>5 DEF GalleryInv
  <1>7. Minds(pc'[c], cur'[c])
    BY <1>2, <1>3 DEF Minds
  <1>8. Turned(c)
    BY <1>2, <1>6, <1>7 DEF Turned
  <1>9. \A v \in Users : v \in scope <=> cur'[c].user = v \/ ~cur'[c].one
    BY <1>2, <1>3, <1>4
  <1>10. ASSUME NEW v \in Accounts, v \in scope, Settled(blob[v], wish[v], rows[v]) PROVE OnFor(c, v)'
    <2>1. v = u
      BY <1>4, <1>10
    <2>2. On(blob[u], wish[u], rows[u], u, step, k)
      BY <1>10, <2>1
    <2>3. OnFor(c, u)' = On(blob'[u], wish'[u], rows'[u], u, pc'[c], cur'[c])
      BY <2>1 DEF OnFor
    <2> QED
      BY <1>2, <1>5, <2>1, <2>2, <2>3
  <1> QED
    BY <1>2, <1>4, <1>5, <1>8, <1>9, <1>10, CallBegins

(* upload_files, delete_files and delete_folder begin. *)
LEMMA BatchBegins ==
  ASSUME StorageInv, GalleryInv, NEW c \in Callers, NEW u \in Accounts, NEW batch \in Batches,
         Upload(c, u, batch) \/ DeleteFiles(c, u, batch)
  PROVE  GalleryInv'
  <1>1. PICK op, more, k : /\ k = [Nothing EXCEPT !.op = op, !.user = u, !.work = batch]
                           /\ op \in {"upload", "delete"} /\ more \in {"put", "delete"}
                           /\ StartsCall(c, op, {u}) /\ GoesToWork(c, more, k)
    BY DEF Upload, DeleteFiles
  <1>2. k.op # "delete folder" /\ k.user = u /\ k.todo = <<>> /\ k.one
    BY <1>1 DEF Nothing
  <1>3. PICK step, j : /\ GoesFor(c, u, step, j)
                       /\ \A b, w, rs, v : GoodAhead(b, w, rs, Range(k.todo), {}) /\ WorkOn(b, more, k) =>
                            On(b, w, rs, v, step, j)
    <2>1. more \in {"put", "delete", "folder"} /\ k.one /\ GoesToWork(c, more, k)
      BY <1>1, <1>2
    <2>2. \E step, j : /\ GoesFor(c, k.user, step, j)
                      /\ \A b, w, rs, v : GoodAhead(b, w, rs, Range(k.todo), {}) /\ WorkOn(b, more, k) =>
                           On(b, w, rs, v, step, j)
      BY <2>1, OnToWork
    <2> QED
      BY <1>2, <2>2
  <1>4. Range(k.todo) = {}
    BY <1>2, RangeFacts
  <1>5. \A b : WorkOn(b, more, k)
    BY <1>1, <1>2, <1>4 DEF WorkOn, AllUploaded, DeletesAll
  <1>6. Settled(blob[u], wish[u], rows[u]) => On(blob[u], wish[u], rows[u], u, step, j)
    BY <1>3, <1>4, <1>5, SettledIsGood
  <1>7. step # "idle"
    <2>1. PICK s, i : Goes(c, s, i) /\ s \in {"user", "rows", "put", "delete"}
      BY <1>1 DEF GoesToWork, GoesToRows
    <2>2. pc'[c] = s /\ pc'[c] = step
      BY <1>3, <2>1 DEF Goes, GoesFor, StorageInv
    <2> QED
      BY <2>1, <2>2
  <1>8. UNCHANGED <<blob, rows>>
    BY DEF Upload, DeleteFiles
  <1> QED
    BY <1>1, <1>3, <1>6, <1>7, <1>8, OperationBegins

(* delete_folder begins: it has every blob of the folder to delete, or there is none. *)
LEMMA DeleteFolderBegins ==
  ASSUME StorageInv, GalleryInv, NEW c \in Callers, NEW u \in Accounts, NEW folder \in Folders,
         DeleteFolderCall(c, u, folder)
  PROVE  GalleryInv'
  <1>1. PICK b, w, rs : b = blob[u] /\ w = wish[u] /\ rs = rows[u]
    OBVIOUS
  <1>2. PICK inside : inside = {n \in Names : StartsWith(n, folder)}
    OBVIOUS
  <1>3. PICK found : found = Only(Blobs(u), inside)
    OBVIOUS
  <1>4. PICK k : k = [Nothing EXCEPT !.op = "delete folder", !.user = u, !.work = found, !.to = folder]
    OBVIOUS
  <1>5. PICK j : j = [k EXCEPT !.todo = <<DeleteFolder(u, folder)>>]
    OBVIOUS
  <1>6. /\ StartsCall(c, "delete folder", {u}) /\ UNCHANGED <<blob, rows>>
        /\ IF k.work = <<>> THEN GoesToRows(c, j) ELSE Goes(c, "delete", k)
    <2>1. k = [Nothing EXCEPT !.op = "delete folder", !.user = u,
                              !.work = Only(Blobs(u), {n \in Names : StartsWith(n, folder)}), !.to = folder]
      BY <1>2, <1>3, <1>4
    <2> QED
      BY <1>5, <2>1 DEF DeleteFolderCall
  <1>7. /\ k.op = "delete folder" /\ k.user = u /\ k.work = found /\ k.to = folder /\ k.todo = <<>> /\ k.one
        /\ j.user = u /\ j.todo = <<DeleteFolder(u, folder)>>
    BY <1>4, <1>5 DEF Nothing
  <1>8. found \in Seq(Names) /\ \A n \in Names : IsPrefix(folder, n) /\ b[n] # "none" => n \in Range(found)
    <2>1. Blobs(u) \in Seq(Names) /\ Range(Blobs(u)) = {n \in Names : b[n] # "none"}
      BY <1>1, BlobsFacts
    <2>2. Range(found) = Range(Blobs(u)) \cap inside /\ found \in Seq(Names)
      BY <1>3, <2>1, OnlyFacts
    <2>3. \A n \in Names : IsPrefix(folder, n) => n \in inside
      BY <1>2 DEF StartsWith
    <2> QED
      BY <2>1, <2>2, <2>3
  <1>9. CASE found # <<>>
    <2>1. GoesFor(c, u, "delete", k)
      BY <1>6, <1>7, <1>9 DEF GoesFor, Scanning
    <2>2. ASSUME Settled(b, w, rs) PROVE On(b, w, rs, u, "delete", k)
      <3>0. Range(k.todo) = {}
        BY <1>7, RangeFacts
      <3>1. GoodAhead(b, w, rs, Range(k.todo), {})
        BY <2>2, <3>0, SettledIsGood
      <3>2. DeletesAll(b, k)
        BY <1>7, <1>8 DEF DeletesAll
      <3> QED
        BY <3>1, <3>2 DEF On, Renaming, Scanning
    <2> QED
      BY <1>1, <1>6, <2>1, <2>2, OperationBegins
  <1>10. CASE found = <<>>
    <2>1. GoesToRows(c, j)
      BY <1>6, <1>7, <1>10
    <2>2. PICK step, i : /\ GoesFor(c, u, step, i)
                         /\ \A b2, w2, rs2, v : GoodAhead(b2, w2, rs2, Range(j.todo), {}) =>
                              On(b2, w2, rs2, v, step, i)
      BY <1>7, <2>1, OnToRows
    <2>3. PICK s : s = DeleteFolder(u, folder)
      OBVIOUS
    <2>4. Range(j.todo) = {s}
      BY <1>7, <2>3, RangeFacts
    <2>5. folder \in Seq(Segments)
      BY StorageAssumption, NameFacts
    <2>6. IsDeleteFolder(s, folder)
      BY <2>3, <2>5, DeleteFacts
    <2>7. HarmsNoFile(b, {s}, {})
      <3>1. \A n \in Names : IsPrefix(folder, n) => b[n] = "none"
        BY <1>8, <1>10, RangeFacts
      <3> QED
        BY <2>6, <3>1 DEF HarmsNoFile, IsDeleteFolder, FileIn, Innermost
    <2>8. ASSUME Settled(b, w, rs) PROVE On(b, w, rs, u, step, i)
      <3>1. GoodAhead(b, w, rs, {}, {}) /\ {s} \subseteq Statement
        BY <2>6, <2>8, SettledIsGood DEF IsDeleteFolder
      <3>2. GoodAhead(b, w, rs, {} \cup {s}, {})
        BY <2>7, <3>1, HarmlessGrows
      <3>3. {} \cup {s} = {s}
        OBVIOUS
      <3> QED
        BY <2>2, <2>4, <3>2, <3>3
    <2>9. step # "idle"
      <3>1. PICK x, y : Goes(c, x, y) /\ x \in {"user", "rows"}
        BY <2>1 DEF GoesToRows
      <3>2. pc'[c] = x /\ pc'[c] = step
        BY <2>2, <3>1 DEF Goes, GoesFor, StorageInv
      <3> QED
        BY <3>1, <3>2
    <2> QED
      BY <1>1, <1>6, <2>2, <2>8, <2>9, OperationBegins
  <1> QED
    BY <1>9, <1>10

(* create_folder, move_file, rename_file and the scan of one user begin. *)
LEMMA CallOfOneBegins ==
  ASSUME StorageInv, GalleryInv, NEW c \in Callers, NEW u \in Accounts,
         \/ \E folder \in Folders : CreateFolder(c, u, folder)
         \/ \E names \in FileMoves : Move(c, u, names[1], names[2])
         \/ \E names \in Renames : Rename(c, u, names[1], names[2])
         \/ ScanUser(c, u)
  PROVE  GalleryInv'
  <1>1. ASSUME NEW op, NEW step, NEW k, StartsCall(c, op, {u}), Goes(c, step, k), UNCHANGED <<blob, rows>>,
               k.one, k.user = u, k.todo = <<>>, step \in {"folder", "copy", "look up", "user"},
               step = "folder" => MakesFolder(k), step = "copy" => k.op = "move",
               step = "look up" => k.work = <<k.from>> /\ <<k.from, k.to>> \in Renames /\ k.from # k.to
        PROVE  GalleryInv'
    <2>1. GoesFor(c, u, step, k) /\ step # "idle"
      BY <1>1 DEF GoesFor, Scanning
    <2>2. ASSUME NEW b, NEW w, NEW rs, Settled(b, w, rs) PROVE On(b, w, rs, u, step, k)
      <3>1. GoodAhead(b, w, rs, {}, {}) /\ Range(k.todo) = {}
        BY <1>1, <2>2, SettledIsGood, RangeFacts
      <3>2. CASE step = "look up"
        <4>1. Single(b, w, rs, step, k)
          BY <1>1, <2>2, <3>2 DEF Single
        <4>2. Renames2(b, w, rs, step, k)
          BY <3>2, <4>1 DEF Renames2
        <4> QED
          BY <3>2, <4>2 DEF On, Renaming, Scanning
      <3>3. CASE step # "look up"
        BY <1>1, <3>1, <3>3 DEF On, Renaming, Scanning
      <3> QED
        BY <3>2, <3>3
    <2> QED
      BY <1>1, <2>1, <2>2, OperationBegins
  <1>2. ASSUME NEW folder \in Folders, CreateFolder(c, u, folder) PROVE GalleryInv'
    <2>1. PICK k : k = [Nothing EXCEPT !.op = "create", !.user = u, !.work = <<folder, InitOf(folder)>>]
      OBVIOUS
    <2>2. /\ k.one /\ k.user = u /\ k.todo = <<>> /\ k.work = <<folder, InitOf(folder)>>
          /\ StartsCall(c, "create", {u}) /\ Goes(c, "folder", k) /\ UNCHANGED <<blob, rows>>
      BY <1>2, <2>1 DEF CreateFolder, Nothing
    <2>3. MakesFolder(k)
      BY <2>2 DEF MakesFolder
    <2> QED
      BY <1>1, <2>2, <2>3
  <1>3. ASSUME NEW src, NEW dst, Move(c, u, src, dst) PROVE GalleryInv'
    <2>1. PICK k : k = [Nothing EXCEPT !.op = "move", !.user = u, !.work = <<src>>, !.from = src, !.to = dst]
      OBVIOUS
    <2>2. /\ k.one /\ k.user = u /\ k.todo = <<>> /\ k.op = "move"
          /\ StartsCall(c, "move", {u}) /\ Goes(c, "copy", k) /\ UNCHANGED <<blob, rows>>
      BY <1>3, <2>1 DEF Move, Nothing
    <2> QED
      BY <1>1, <2>2
  <1>4. ASSUME NEW old, NEW new, <<old, new>> \in Renames, Rename(c, u, old, new) PROVE GalleryInv'
    <2>1. PICK k : k = [Nothing EXCEPT !.op = "rename", !.user = u, !.work = <<old>>, !.from = old, !.to = new]
      OBVIOUS
    <2>2. /\ k.one /\ k.user = u /\ k.todo = <<>> /\ k.work = <<k.from>> /\ k.from = old /\ k.to = new /\ old # new
          /\ StartsCall(c, "rename", {u}) /\ Goes(c, "look up", k) /\ UNCHANGED <<blob, rows>>
      BY <1>4, <2>1 DEF Rename, Nothing
    <2> QED
      BY <1>1, <1>4, <2>2
  <1>5. CASE ScanUser(c, u)
    <2>1. PICK k : k = [Nothing EXCEPT !.user = u]
      OBVIOUS
    <2>2. /\ k.one /\ k.user = u /\ k.todo = <<>>
          /\ StartsCall(c, "scan", {u}) /\ Goes(c, "user", k) /\ UNCHANGED <<blob, rows>>
      BY <1>5, <2>1 DEF ScanUser, Nothing
    <2> QED
      BY <1>1, <2>2
  <1>6. ASSUME NEW names \in Renames PROVE <<names[1], names[2]>> \in Renames
    <2>1. names \in Names \X Names
      BY StorageAssumption
    <2>2. names = <<names[1], names[2]>>
      BY <2>1
    <2> QED
      BY <2>2
  <1> QED
    BY <1>2, <1>3, <1>4, <1>5, <1>6

(* The scan of all users begins. *)
LEMMA ScanAllBegins ==
  ASSUME StorageInv, GalleryInv, NEW c \in Callers, ScanAll(c)
  PROVE  GalleryInv'
  <1>1. PICK k : k = [Nothing EXCEPT !.one = FALSE]
    OBVIOUS
  <1>2. /\ ~k.one /\ StartsCall(c, "scan", Users) /\ Goes(c, "list", k) /\ UNCHANGED <<blob, rows>>
    BY <1>1 DEF ScanAll, Nothing
  <1>3. /\ pc[c] = "idle" /\ wish' = wish
        /\ disturbed' = [v \in Users |-> disturbed[v] \/ (v \in Users /\ Busy(v) # {})]
    BY <1>2 DEF StartsCall
  <1>4. disturbed' = [v \in Users |-> disturbed'[v]] /\ wish' \in [Users -> [Names -> BOOLEAN]]
    BY <1>3 DEF GalleryInv
  <1>5. /\ pc' = [x \in Callers |-> IF x = c THEN "list" ELSE pc[x]]
        /\ cur' = [x \in Callers |-> IF x = c THEN k ELSE cur[x]]
    BY <1>2 DEF StorageInv, Goes
  <1>6. pc'[c] = "list" /\ cur'[c] = k /\ \A x \in Callers \ {c} : pc'[x] = pc[x] /\ cur'[x] = cur[x]
    BY <1>5
  <1>7. Minds(pc'[c], cur'[c])
    BY <1>2, <1>6 DEF Minds, Scanning
  <1>8. Turned(c)
    BY <1>4, <1>6, <1>7 DEF Turned
  <1>9. ASSUME NEW u \in Accounts, Settled(blob[u], wish[u], rows[u]) PROVE OnFor(c, u)'
    <2>1. PICK b, w, rs : b = blob[u] /\ w = wish[u] /\ rs = rows[u]
      OBVIOUS
    <2>2. Until(b, w, rs, k)
      BY <1>2, <1>9, <2>1 DEF Until
    <2>3. On(b, w, rs, u, "list", k)
      BY <2>2 DEF On, Renaming, Scanning
    <2>4. OnFor(c, u)' = On(blob'[u], wish'[u], rows'[u], u, pc'[c], cur'[c])
      BY DEF OnFor
    <2> QED
      BY <1>2, <1>3, <1>6, <2>1, <2>3, <2>4
  <1>10. \A v \in Users : v \in Users <=> cur'[c].user = v \/ ~cur'[c].one
    BY <1>2, <1>6
  <1>11. PICK scope \in SUBSET Users : scope = Users
    OBVIOUS
  <1> QED
    BY <1>2, <1>3, <1>6, <1>8, <1>9, <1>10, <1>11, CallBegins

-----------------------------------------------------------------------------
(* Flags, the beginning, and every step *)

(* A flag that is set, or a report, leaves the rows settled. *)
LEMMA FlagFits ==
  ASSUME NEW b, NEW w, NEW rs \in [Names -> IndexRow], Settled(b, w, rs), NEW n \in Names,
         NEW row \in IndexRow, row.kind = rs[n].kind, NEW w2, SameBut({n}, b, w, b, w2),
         row.public = w2[n] \/ (row.public = rs[n].public /\ w2[n] = w[n])
  PROVE  Settled(b, w2, [rs EXCEPT ![n] = row])
  <1>1. PICK rs2 : rs2 = [rs EXCEPT ![n] = row]
    OBVIOUS
  <1>2. ASSUME NEW m \in Innermost PROVE rs2[m] \in FitRows(b, w2, m)
    <2>1. m \in Names /\ rs[m] \in FitRows(b, w, m)
      BY <1>2, SettledIsGood DEF Innermost
    <2>2. rs2[m] = IF m = n THEN row ELSE rs[m]
      BY <1>1, <2>1
    <2>3. m # n => w2[m] = w[m]
      BY <2>1 DEF SameBut
    <2> QED
      BY <2>1, <2>2, <2>3 DEF FitRows, GoodRows
  <1> QED
    BY <1>1, <1>2 DEF Settled, FitAhead, Comes

(* set_gallery and report_file: alone for the user, or a disturbance. *)
LEMMA FlagKeeps ==
  ASSUME StorageInv, GalleryInv, NEW u \in Accounts, NEW n \in Files,
         Report(u, n) \/ \E gallery \in BOOLEAN : SetGallery(u, n, gallery)
  PROVE  GalleryInv'
  <1>1. u \in Users /\ n \in Names
    BY StorageAssumption
  <1>2. UNCHANGED <<blob, pc, cur>> /\ disturbed' = [disturbed EXCEPT ![u] = disturbed[u] \/ Busy(u) # {}]
    BY DEF Report, SetGallery, Flags
  <1>3. /\ rows \in [Users -> [Names -> IndexRow]]
        /\ wish \in [Users -> [Names -> BOOLEAN]] /\ disturbed = [v \in Users |-> disturbed[v]]
    BY DEF StorageInv, IndexTypeOK, GalleryInv
  <1>4. PICK row, flag : /\ rows' = [rows EXCEPT ![u][n] = row] /\ row \in IndexRow /\ row.kind = rows[u][n].kind
                         /\ wish' = [wish EXCEPT ![u][n] = flag] /\ flag \in BOOLEAN
                         /\ row.public = flag \/ (row.public = rows[u][n].public /\ flag = wish[u][n])
    <2>1. rows[u][n] \in IndexRow /\ wish[u][n] \in BOOLEAN
      BY <1>1, <1>3
    <2>2. CASE Report(u, n)
      <3>1. PICK row : row = [rows[u][n] EXCEPT !.reported = TRUE]
        OBVIOUS
      <3>2. row \in IndexRow /\ row.kind = rows[u][n].kind /\ row.public = rows[u][n].public
        BY <2>1, <3>1 DEF IndexRow
      <3>3. rows' = [rows EXCEPT ![u][n] = row] /\ wish' = wish
        BY <2>2, <3>1 DEF Report
      <3>4. wish = [wish EXCEPT ![u][n] = wish[u][n]]
        BY <1>1, <1>3
      <3> QED
        BY <2>1, <3>2, <3>3, <3>4
    <2>3. ASSUME NEW gallery \in BOOLEAN, SetGallery(u, n, gallery)
          PROVE  \E row, flag :
                   /\ rows' = [rows EXCEPT ![u][n] = row] /\ row \in IndexRow /\ row.kind = rows[u][n].kind
                   /\ wish' = [wish EXCEPT ![u][n] = flag] /\ flag \in BOOLEAN
                   /\ row.public = flag \/ (row.public = rows[u][n].public /\ flag = wish[u][n])
      <3>1. PICK row : row = [rows[u][n] EXCEPT !.public = gallery]
        OBVIOUS
      <3>2. row \in IndexRow /\ row.kind = rows[u][n].kind /\ row.public = gallery
        BY <2>1, <3>1 DEF IndexRow
      <3>3. rows' = [rows EXCEPT ![u][n] = row] /\ wish' = [wish EXCEPT ![u][n] = gallery]
        BY <2>3, <3>1 DEF SetGallery
      <3> QED
        BY <3>2, <3>3
    <2> QED
      BY <2>2, <2>3
  <1>5. PICK rs, w : rs = rows[u] /\ w = wish[u]
    OBVIOUS
  <1>6. PICK rs2, w2 : rs2 = [rs EXCEPT ![n] = row] /\ w2 = [w EXCEPT ![n] = flag]
    OBVIOUS
  <1>7. /\ rows'[u] = rs2 /\ wish'[u] = w2 /\ rs \in [Names -> IndexRow] /\ w \in [Names -> BOOLEAN]
        /\ \A v \in Users \ {u} : rows'[v] = rows[v] /\ wish'[v] = wish[v]
    BY <1>1, <1>3, <1>4, <1>5, <1>6
  <1>8. wish' \in [Users -> [Names -> BOOLEAN]] /\ disturbed' = [v \in Users |-> disturbed'[v]]
    <2>1. wish' \in [Users -> [Names -> BOOLEAN]]
      BY <1>1, <1>3, <1>4
    <2> QED
      BY <1>2, <1>3, <2>1
  <1>9. \A c \in Callers : Minds(pc[c], cur[c])'
    BY <1>2 DEF GalleryInv
  <1>10. \A v \in Accounts : Busy(v)' = Busy(v)
    BY <1>2 DEF Busy
  <1>11. \A v \in Users \ {u} : disturbed'[v] = disturbed[v]
    BY <1>2, <1>3
  <1>12. ~disturbed'[u] => ~disturbed[u] /\ Busy(u) = {}
    BY <1>1, <1>2, <1>3
  <1>13. ASSUME NEW v \in Accounts, v # u, ~disturbed'[v] PROVE Calm(v)'
    <2>1. v \in Users \ {u}
      BY <1>13, StorageAssumption
    <2>2. Calm(v) /\ ~disturbed[v] /\ blob'[v] = blob[v] /\ rows'[v] = rows[v] /\ wish'[v] = wish[v]
      BY <1>2, <1>7, <1>11, <1>13, <2>1 DEF GalleryInv
    <2>3. \A c \in Busy(v) : OnFor(c, v)'
      BY <1>2, <2>2 DEF Calm, OnFor
    <2> QED
      BY <1>10, <2>2, <2>3 DEF Calm
  <1>14. ASSUME ~disturbed'[u] PROVE Calm(u)'
    <2>1. Busy(u) = {} /\ Settled(blob[u], w, rs)
      BY <1>5, <1>12, <1>14 DEF GalleryInv, Calm
    <2>2. PICK b : b = blob[u]
      OBVIOUS
    <2>3. SameBut({n}, b, w, b, w2) /\ w2[n] = flag
      BY <1>1, <1>6, <1>7 DEF SameBut
    <2>4. Settled(b, w2, rs2)
      BY <1>1, <1>4, <1>5, <1>6, <1>7, <2>1, <2>2, <2>3, FlagFits
    <2>5. Settled(blob'[u], wish'[u], rows'[u])
      BY <1>2, <1>7, <2>2, <2>4
    <2>6. Busy(u)' = {}
      BY <1>10, <2>1
    <2> QED
      BY <2>5, <2>6 DEF Calm
  <1>15. \A v \in Accounts : Calm(v)'
    BY <1>13, <1>14 DEF Calm
  <1> QED
    BY <1>8, <1>9, <1>15 DEF GalleryInv

(* What is stored and indexed to begin with is settled. *)
LEMMA GalleryInvInit == StorageInit => GalleryInv
  <1> SUFFICES ASSUME StorageInit PROVE GalleryInv
    OBVIOUS
  <1>1. PICK st \in Stores :
          /\ blob = [u \in Users |-> IF u \in Accounts THEN Stored(st.files, st.folders) ELSE Stored(Files, {})]
          /\ rows = [u \in Users |-> IF u \in Accounts THEN Indexed(st) ELSE [n \in Names |-> NoRow]]
          /\ wish = [u \in Users |-> [n \in Names |-> u \in Accounts /\ n \in st.gallery]]
    BY DEF StorageInit
  <1>2. /\ pc = [c \in Callers |-> "idle"] /\ cur = [c \in Callers |-> Nothing]
        /\ disturbed = [u \in Users |-> FALSE]
    BY DEF StorageInit
  <1>3. \A c \in Callers : Minds(pc[c], cur[c])
    BY <1>2 DEF Minds, Scanning
  <1>4. wish \in [Users -> [Names -> BOOLEAN]] /\ disturbed = [u \in Users |-> disturbed[u]]
    BY <1>1, <1>2
  <1>5. \A u \in Accounts : Busy(u) = {}
    BY <1>2 DEF Busy
  <1>6. ASSUME NEW u \in Accounts PROVE Settled(blob[u], wish[u], rows[u])
    <2>1. PICK b, w, rs : b = blob[u] /\ w = wish[u] /\ rs = rows[u]
      OBVIOUS
    <2>2. b = Stored(st.files, st.folders) /\ rs = Indexed(st) /\ \A n \in Names : w[n] <=> n \in st.gallery
      BY <1>1, <2>1, StorageAssumption
    <2>3. w \in [Names -> BOOLEAN]
      BY <1>4, <2>1, StorageAssumption
    <2>4. ASSUME NEW n \in Names PROVE rs[n] \in FitRows(b, w, n)
      <3>1. \A f \in st.folders : Last(InitOf(f)) = Placeholder
        <4>1. ASSUME NEW f \in Seq(Segments) PROVE Last(Append(f, Placeholder)) = Placeholder
          BY DEF Last
        <4>2. \A f \in st.folders : f \in Seq(Segments)
          BY StorageAssumption, NameFacts
        <4> QED
          BY <4>1, <4>2 DEF InitOf
      <3>2. b[n] = IF n \in st.files \/ n \in {InitOf(f) : f \in st.folders} THEN "file"
                   ELSE IF n \in st.folders THEN "folder" ELSE "none"
        BY <2>2 DEF Stored
      <3>3. rs[n] = IF n \in st.files THEN FileRow(n \in st.gallery)
                    ELSE IF n \in st.folders \cup Around(st.files) THEN FolderRow ELSE NoRow
        BY <2>2 DEF Indexed
      <3>4. /\ NoRow \in IndexRow /\ FolderRow \in IndexRow /\ FileRow(n \in st.gallery) \in IndexRow
            /\ NoRow.kind # "file" /\ FolderRow.kind # "file"
            /\ FileRow(n \in st.gallery).kind = "file" /\ FileRow(n \in st.gallery).public = (n \in st.gallery)
        BY DEF NoRow, FolderRow, FileRow, IndexRow, Kinds
      <3>5. w[n] = (n \in st.gallery)
        BY <2>2, <2>3
      <3>6. CASE n \in st.files
        <4>1. b[n] = "file" /\ rs[n] = FileRow(n \in st.gallery)
          BY <3>2, <3>3, <3>6
        <4> QED
          BY <3>4, <3>5, <4>1 DEF FitRows, GoodRows
      <3>7. CASE n \notin st.files
        <4>1. rs[n] \in {FolderRow, NoRow}
          BY <3>3, <3>7
        <4>2. ~FileIn(b, n)
          BY <3>1, <3>2, <3>7 DEF FileIn
        <4> QED
          BY <3>4, <4>1, <4>2 DEF FitRows, GoodRows
      <3> QED
        BY <3>6, <3>7
    <2>5. \A n \in Innermost : n \in Names
      BY DEF Innermost
    <2>6. Settled(b, w, rs)
      BY <2>4, <2>5 DEF Settled, FitAhead, Comes
    <2> QED
      BY <2>1, <2>6
  <1>7. \A u \in Accounts : Calm(u)
    BY <1>5, <1>6 DEF Calm
  <1> QED
    BY <1>3, <1>4, <1>7 DEF GalleryInv

(* Every step keeps it. *)
LEMMA GalleryInvNext ==
  StorageInv /\ StorageInv' /\ GalleryInv /\ [StorageNext]_storageVars => GalleryInv'
  <1> SUFFICES ASSUME StorageInv, StorageInv', GalleryInv, [StorageNext]_storageVars PROVE GalleryInv'
    OBVIOUS
  <1>1. ASSUME NEW c \in Callers, NEW u \in Accounts, FileCalls(c, u) PROVE GalleryInv'
    BY <1>1, BatchBegins, DeleteFolderBegins, CallOfOneBegins DEF FileCalls
  <1>2. ASSUME NEW c \in Callers, Steps(c) PROVE GalleryInv'
    <2>1. CASE PutBlob(c)
      BY <2>1, PutBlobKeeps
    <2>2. CASE DeleteBlob(c)
      BY <2>2, DeleteBlobKeeps
    <2>3. CASE BlobFails(c)
      BY <2>3, BlobFailsKeeps
    <2>4. CASE PutFolder(c)
      BY <2>4, PutFolderKeeps
    <2>5. CASE EndsAtOnce(c)
      BY <2>5, EndsAtOnceKeeps
    <2>6. CASE LookUp(c)
      BY <2>6, LookUpKeeps
    <2>7. CASE CheckTarget(c)
      BY <2>7, CheckTargetKeeps
    <2>8. CASE RenameCheck(c)
      BY <2>8, RenameCheckKeeps
    <2>9. CASE CopyBlob(c)
      BY <2>9, MoveCopyKeeps, RenameCopyKeeps
    <2>10. CASE UnlinkBlob(c)
      BY <2>10, MoveUnlinkKeeps, RenameUnlinkKeeps
    <2>11. CASE RenameFails(c)
      BY <2>11, RenameFailsKeeps
    <2>12. CASE WriteRow(c) \/ RowFails(c)
      BY <2>12, WriteRowKeeps
    <2>13. CASE CheckUser(c)
      BY <2>13, CheckUserKeeps
    <2>14. CASE ListBlobs(c)
      BY <2>14, ListBlobsKeeps
    <2>15. CASE CheckAccount(c)
      BY <2>15, CheckAccountKeeps
    <2>16. CASE CheckFails(c) \/ ScanFails(c)
      BY <2>16, ScanFailureKeeps
    <2>17. CASE ReadRows(c)
      BY <2>17, ReadRowsKeeps
    <2>18. CASE ScanWrite(c)
      BY <2>18, ScanWriteKeeps
    <2> QED
      BY <1>2, <2>1, <2>2, <2>3, <2>4, <2>5, <2>6, <2>7, <2>8, <2>9, <2>10, <2>11, <2>12, <2>13,
         <2>14, <2>15, <2>16, <2>17, <2>18 DEF Steps
  <1>3. ASSUME NEW c \in Callers, ScanAll(c) PROVE GalleryInv'
    BY <1>3, ScanAllBegins
  <1>4. ASSUME NEW u \in Accounts, NEW n \in Files,
               Report(u, n) \/ \E gallery \in BOOLEAN : SetGallery(u, n, gallery)
        PROVE  GalleryInv'
    BY <1>4, FlagKeeps
  <1>5. CASE UNCHANGED storageVars
    <2>1. UNCHANGED <<blob, rows, pc, cur, wish, disturbed>>
      BY <1>5 DEF storageVars, history
    <2>2. \A u : Busy(u)' = Busy(u)
      BY <2>1 DEF Busy
    <2>3. \A u \in Accounts : Calm(u)'
      BY <2>1, <2>2 DEF GalleryInv, Calm, OnFor
    <2> QED
      BY <2>1, <2>3 DEF GalleryInv
  <1> QED
    BY <1>1, <1>2, <1>3, <1>4, <1>5 DEF StorageNext

(* For every number of callers and users, every set of names and every sequence of calls: *)
(* as long as the calls for a user come one after the other and none is refused or fails, *)
(* the flag of each file says, between the calls, what its owner asked for: through       *)
(* uploads of other files, moves, renames of the file or of its folder, deletions, and    *)
(* scans (reindex, rename_file and set_gallery).                                          *)
THEOREM GalleryStays == StorageSpec => []GalleryIsKept
  <1>1. ASSUME GalleryInv PROVE GalleryIsKept
    <2>1. ASSUME NEW u \in Accounts, Busy(u) = {}, ~disturbed[u], NEW n \in Innermost, IsFile(u, n)
          PROVE  rows[u][n].public = wish[u][n]
      <3>1. Settled(blob[u], wish[u], rows[u])
        BY <1>1, <2>1 DEF GalleryInv, Calm
      <3>2. rows[u][n] \in FitRows(blob[u], wish[u], n)
        BY <3>1, SettledIsGood
      <3> QED
        BY <2>1, <3>2 DEF FitRows, GoodRows, FileIn, IsFile
    <2> QED
      BY <2>1 DEF GalleryIsKept
  <1>2. StorageInit => StorageInv /\ GalleryInv
    BY StorageInitSound, GalleryInvInit
  <1>3. (StorageInv /\ GalleryInv) /\ [StorageNext]_storageVars => (StorageInv /\ GalleryInv)'
    BY StorageNextSound, GalleryInvNext
  <1>4. StorageInv /\ GalleryInv => GalleryIsKept
    BY <1>1
  <1> QED
    BY <1>2, <1>3, <1>4, PTL DEF StorageSpec

=================================================================================
