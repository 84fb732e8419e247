------------------------------ MODULE FinanceOffice ------------------------------
(***************************************************************************)
(* What the finance administrator sets up, as the finance module does it:    *)
(* the fiscal calendar, the ledgers, the configurations that say to which    *)
(* journal a product's purchases are posted, and the settings of the billing *)
(* pipelines with their cache.                                               *)
(*                                                                          *)
(* A function of the module checks with one statement and writes with        *)
(* another; each statement is an action, so that the functions called at the *)
(* same time interleave there.  A behaviour is about one of the matters.     *)
(***************************************************************************)
EXTENDS Integers, FiniteSets

CONSTANTS
  Clerks,         \* callers of the module
  OfficeScenes,   \* the matter, its clerks, the bounds of their calls and of the
                  \* requests that fail, the weeks a calendar may begin early or late
  Years,          \* fiscal years
  Assignments,    \* identifiers of product journal configurations
  Products,       \* what they are for: a category in a period
  Ledgers,        \* identifiers of ledgers
  SettingKeys            \* keys of the pipeline settings

ASSUME OfficeAssumption ==
  /\ \A sc \in OfficeScenes :
       sc.matter \in {"calendar", "assignments", "ledgers", "settings"} /\ sc.clerks \subseteq Clerks
       /\ sc.weeks \subseteq Int
  /\ Years \subseteq Nat \ {0}
  /\ 0 \notin Products

VARIABLES
  office,         \* the scene
  periods,        \* finance_periods: by year and number
  assignments,    \* finance_product_journal_config: product and status, by recid
  books,          \* finance_ledgers, with the journals on them
  settings,       \* finance_pipeline_config: a value or 0, by key
  cached,         \* _pipeline_config_cache: a value or 0, by key
  call,           \* what each clerk is doing
  calls, mishaps,
  overlapped      \* history: what calls at the same time may have confused

officeVars == <<office, periods, assignments, books, settings, cached, call, calls, mishaps, overlapped>>

-----------------------------------------------------------------------------
(* Calls *)

Idle == [op |-> "none", step |-> "none", id |-> 0, value |-> 0, n |-> 0]

Calls(c, matter, op, step, id, value, n) ==
  /\ office.matter = matter /\ c \in office.clerks /\ call[c] = Idle
  /\ calls < office.calls /\ calls' = calls + 1
  /\ call' = [call EXCEPT ![c] = [op |-> op, step |-> step, id |-> id, value |-> value, n |-> n]]
  /\ UNCHANGED <<office, mishaps>>

Working(c, op, step) == call[c].op = op /\ call[c].step = step /\ UNCHANGED <<office, calls, mishaps>>
Proceeds(c, step) == call' = [call EXCEPT ![c].step = step]
Returns(c) == call' = [call EXCEPT ![c] = Idle]

Others(c) == {call[d] : d \in Clerks \ {c}} \ {Idle}

-----------------------------------------------------------------------------
(* The fiscal calendar *)

\* date.toordinal of 28 December; the multiples of seven are Sundays.
Dec28(year) == 365 * year + year \div 4 - year \div 100 + year \div 400 - 3

Distance(a, b) == IF a < b THEN b - a ELSE a - b

\* _nearest_sunday_for_fiscal_year; of two as near, the earlier.
NearestSunday(year) ==
  LET target == Dec28(year - 1)
      candidates == {d \in (target - 6)..(target + 6) : d % 7 = 0}
  IN CHOOSE d \in candidates :
       \A e \in candidates : \/ Distance(d, target) < Distance(e, target)
                             \/ Distance(d, target) = Distance(e, target) /\ d <= e

\* The length of a year that begins on the day, up to where the next one should.
YearLength(year, start) == NearestSunday(year + 1) - start

\* Every fourth of the sixteen periods is a closing week.
\* Mutant: a year of 53 weeks closes as one of 52.
PeriodLength52(n, length) == IF n % 4 # 0 THEN 28 ELSE 7

PeriodLength(n, length) == IF n % 4 # 0 THEN 28 ELSE IF n = 16 /\ length = 371 THEN 14 ELSE 7

NoPeriod == [from |-> 0, to |-> 0, status |-> "none"]

\* MERGE on the year and the number: a period that is there is written again, as an
\* open one.
UpsertPeriodV1(year, n, from, to) ==
  periods' = [periods EXCEPT ![year][n] = [from |-> from, to |-> to, status |-> "open"]]

DeletePeriodV1(year, n) == periods' = [periods EXCEPT ![year][n] = NoPeriod]

\* start is 0, for the nearest Sunday, or a Sunday.
GenerateCalendar(c, year, start) ==
  /\ Calls(c, "calendar", "generate", "exists", year, start, 0)
  /\ UNCHANGED <<periods, assignments, books, settings, cached, overlapped>>

ListPeriodsByYear(c) ==
  /\ Working(c, "generate", "exists")
  /\ LET year == call[c].id
         start == IF call[c].value = 0 THEN NearestSunday(year) ELSE call[c].value
     IN IF /\ \A n \in 1..16 : periods[year][n] = NoPeriod
           /\ YearLength(year, start) \in {364, 371}
        THEN call' = [call EXCEPT ![c].step = "write", ![c].value = start, ![c].n = 1]
        ELSE Returns(c)
  /\ UNCHANGED <<periods, assignments, books, settings, cached, overlapped>>

\* The day on which the n-th period of a year begins.
PeriodStart(n, start) == start + 28 * (n - 1 - (n - 1) \div 4) + 7 * ((n - 1) \div 4)

\* overlapped: another generation of the year is writing from another start.
GeneratePeriod(c) ==
  /\ Working(c, "generate", "write")
  /\ LET year == call[c].id  start == call[c].value  n == call[c].n
         from == PeriodStart(n, start)
     IN /\ UpsertPeriodV1(year, n, from, from + PeriodLength(n, YearLength(year, start)) - 1)
        /\ overlapped' = IF \E o \in Others(c) : o.op = "generate" /\ o.id = year /\ o.step = "write"
                                                 /\ o.value # start
                         THEN overlapped \cup {year} ELSE overlapped
        /\ IF n = 16 THEN Returns(c) ELSE call' = [call EXCEPT ![c].n = n + 1]
  /\ UNCHANGED <<assignments, books, settings, cached>>

DeletePeriod(year, n) ==
  /\ office.matter = "calendar" /\ periods[year][n] # NoPeriod
  /\ calls < office.calls /\ calls' = calls + 1
  /\ DeletePeriodV1(year, n)
  /\ UNCHANGED <<office, assignments, books, settings, cached, call, mishaps, overlapped>>

-----------------------------------------------------------------------------
(* Product journal configurations *)

Draft == 0
Approved == 1
Active == 2
Ended == 3

Absent == [product |-> 0, status |-> 9]

\* MERGE on the recid, with whatever product and status the caller sends.
ConfigUpsertV1(id, product, status) ==
  assignments' = [assignments EXCEPT ![id] = [product |-> product, status |-> status]]

ConfigApproveV1(id) ==
  assignments[id].status = Draft /\ assignments' = [assignments EXCEPT ![id].status = Approved]

ConfigActivateV1(id) == assignments' = [assignments EXCEPT ![id].status = Active]

ConfigCloseV1(id) ==
  assignments[id].status = Active /\ assignments' = [assignments EXCEPT ![id].status = Ended]

\* An activation of the configuration that is under way.
Aims(k, id) == k.op = "activate" /\ k.id = id

\* The page only makes drafts; the function takes any status, and a recid that is
\* there.  overlapped: the statement makes the configuration active itself, or takes
\* it to another product under an activation.
UpsertProductJournalConfig(id, product, status) ==
  /\ office.matter = "assignments"
  /\ ConfigUpsertV1(id, product, status)
  /\ overlapped' = IF status = Active \/ \E c \in Clerks : Aims(call[c], id) /\ call[c].value # product
                   THEN overlapped \cup {id} ELSE overlapped
  /\ UNCHANGED <<office, periods, books, settings, cached, call, calls, mishaps>>

\* The statements that refuse a configuration in another status.
ConfigStep(id) ==
  /\ office.matter = "assignments"
  /\ ConfigApproveV1(id) \/ ConfigCloseV1(id)
  /\ UNCHANGED <<office, periods, books, settings, cached, call, calls, mishaps, overlapped>>

\* value is the product the configuration was for when the function read it.
ActivateProductJournalConfig(c, id) ==
  /\ assignments[id] # Absent
  /\ Calls(c, "assignments", "activate", "list", id, assignments[id].product, 0)
  /\ UNCHANGED <<periods, assignments, books, settings, cached, overlapped>>

\* Mutant: any configuration may be activated.
AnotherActiveNone(id, product) == FALSE

AnotherActive(id, product) ==
  \E other \in Assignments \ {id} : assignments[other].status = Active /\ assignments[other].product = product

ListActive(c) ==
  /\ Working(c, "activate", "list")
  /\ IF AnotherActive(call[c].id, call[c].value) THEN Returns(c) ELSE Proceeds(c, "update")
  /\ UNCHANGED <<periods, assignments, books, settings, cached, overlapped>>

\* overlapped: another activation for the product has looked and is yet to write.
Activate(c) ==
  /\ Working(c, "activate", "update")
  /\ IF assignments[call[c].id].status = Approved
     THEN /\ ConfigActivateV1(call[c].id)
          /\ overlapped' = overlapped \cup {o.id : o \in {p \in Others(c) : /\ p.op = "activate" /\ p.step = "update"
                                                                            /\ p.value = call[c].value}}
     ELSE UNCHANGED <<assignments, overlapped>>
  /\ Returns(c)
  /\ UNCHANGED <<periods, books, settings, cached>>

-----------------------------------------------------------------------------
(* Ledgers *)

NoLedger == [name |-> 0, active |-> FALSE, journals |-> 0]

Named(name) == {id \in Ledgers : books[id].name = name}

\* element_name is UNIQUE: a name taken meanwhile makes the statement fail.
LedgerCreateV1(id, name) == books' = [books EXCEPT ![id] = [name |-> name, active |-> TRUE, journals |-> 0]]

LedgerRenameV1(id, name, active) == books' = [books EXCEPT ![id].name = name, ![id].active = active]

LedgerSoftDeleteV1(id) == books' = [books EXCEPT ![id].active = FALSE]

\* create_ledger and update_ledger; value is the name, which an inactive ledger keeps,
\* and n the status the page shows.
SaveLedger(c, id, name) ==
  /\ Calls(c, "ledgers", "save", "validate", id, name, IF books[id] = NoLedger \/ books[id].active THEN 1 ELSE 0)
  /\ UNCHANGED <<periods, assignments, books, settings, cached, overlapped>>

ValidateLedgerName(c) ==
  /\ Working(c, "save", "validate")
  /\ IF Named(call[c].value) \subseteq {call[c].id} THEN Proceeds(c, "write") ELSE Returns(c)
  /\ UNCHANGED <<periods, assignments, books, settings, cached, overlapped>>

\* overlapped: a status shown before takes the ledger out of use.
WriteLedger(c) ==
  /\ Working(c, "save", "write")
  /\ LET id == call[c].id  name == call[c].value  active == call[c].n = 1 IN
       /\ CASE ~(Named(name) \subseteq {id}) -> UNCHANGED books
            [] Named(name) \subseteq {id} /\ books[id] = NoLedger -> LedgerCreateV1(id, name)
            [] Named(name) \subseteq {id} /\ books[id] # NoLedger -> LedgerRenameV1(id, name, active)
       /\ overlapped' = IF books[id].active /\ ~active THEN overlapped \cup {id} ELSE overlapped
  /\ Returns(c)
  /\ UNCHANGED <<periods, assignments, settings, cached>>

DeleteLedger(c, id) ==
  /\ books[id] # NoLedger
  /\ Calls(c, "ledgers", "delete", "count", id, 0, 0)
  /\ UNCHANGED <<periods, assignments, books, settings, cached, overlapped>>

JournalReferenceCount(id) == books[id].journals

CountJournals(c) ==
  /\ Working(c, "delete", "count")
  /\ IF JournalReferenceCount(call[c].id) > 0 THEN Returns(c) ELSE Proceeds(c, "write")
  /\ UNCHANGED <<periods, assignments, books, settings, cached, overlapped>>

SoftDelete(c) ==
  /\ Working(c, "delete", "write")
  /\ LedgerSoftDeleteV1(call[c].id)
  /\ Returns(c)
  /\ UNCHANGED <<periods, assignments, settings, cached, overlapped>>

\* create_journal does not look at the ledger.  overlapped: it is being deleted, or
\* has been.
CreateJournalOn(id) ==
  /\ office.matter = "ledgers" /\ books[id] # NoLedger
  /\ calls < office.calls /\ calls' = calls + 1
  /\ books' = [books EXCEPT ![id].journals = @ + 1]
  /\ overlapped' = IF ~books[id].active \/ \E c \in Clerks : call[c].op = "delete" /\ call[c].id = id
                                                            /\ call[c].step = "write"
                   THEN overlapped \cup {id} ELSE overlapped
  /\ UNCHANGED <<office, periods, assignments, settings, cached, call, mishaps>>

-----------------------------------------------------------------------------
(* Settings of the pipelines *)

PipelineUpsertV1(key, value) == settings' = [settings EXCEPT ![key] = value]

PipelineDeleteV1(key) == settings' = [settings EXCEPT ![key] = 0]

\* overlapped: another call about the key is under way, and one of them writes.
Confuses(c, key, writes) ==
  overlapped' = IF \E o \in Others(c) : o.id = key /\ (writes \/ o.op # "get")
                THEN overlapped \cup {key} ELSE overlapped

\* A key that is cached is answered at once.
GetPipelineConfig(c, key) ==
  /\ cached[key] = 0
  /\ Calls(c, "settings", "get", "read", key, 0, 0)
  /\ Confuses(c, key, FALSE)
  /\ UNCHANGED <<periods, assignments, books, settings, cached>>

ReadPipelineConfig(c) ==
  /\ Working(c, "get", "read")
  /\ IF settings[call[c].id] = 0 THEN Returns(c)
     ELSE call' = [call EXCEPT ![c].step = "cache", ![c].value = settings[call[c].id]]
  /\ UNCHANGED <<periods, assignments, books, settings, cached, overlapped>>

UpsertPipelineConfig(c, key, value) ==
  /\ Calls(c, "settings", "upsert", "write", key, value, 0)
  /\ Confuses(c, key, TRUE)
  /\ UNCHANGED <<periods, assignments, books, settings, cached>>

WritePipelineConfig(c) ==
  /\ Working(c, "upsert", "write")
  /\ PipelineUpsertV1(call[c].id, call[c].value)
  /\ Proceeds(c, "cache")
  /\ UNCHANGED <<periods, assignments, books, cached, overlapped>>

\* Mutant: the cache is filled by reading only.
CachedReads(c) == IF call[c].op = "get" THEN [cached EXCEPT ![call[c].id] = call[c].value] ELSE cached

\* What a call leaves in the cache.
Cached(c) == [cached EXCEPT ![call[c].id] = call[c].value]

FillCache(c) ==
  /\ call[c].op \in {"get", "upsert", "remove"} /\ Working(c, call[c].op, "cache")
  /\ cached' = Cached(c)
  /\ Returns(c)
  /\ UNCHANGED <<periods, assignments, books, settings, overlapped>>

\* The row is looked up by its identifier to know its key; both statements come
\* before the key is dropped from the cache.
DeletePipelineConfig(c, key) ==
  /\ settings[key] # 0
  /\ Calls(c, "settings", "remove", "delete", key, 0, 0)
  /\ Confuses(c, key, TRUE)
  /\ UNCHANGED <<periods, assignments, books, settings, cached>>

DeleteSetting(c) ==
  /\ Working(c, "remove", "delete")
  /\ PipelineDeleteV1(call[c].id)
  /\ Proceeds(c, "cache")
  /\ UNCHANGED <<periods, assignments, books, cached, overlapped>>

\* An upsert of a row under another key leaves the old key in the cache.
RenamePipelineConfig(key, new, value) ==
  /\ office.matter = "settings" /\ settings[key] # 0 /\ settings[new] = 0 /\ key # new
  /\ calls < office.calls /\ calls' = calls + 1
  /\ settings' = [settings EXCEPT ![key] = 0, ![new] = value]
  /\ cached' = [cached EXCEPT ![new] = value]
  /\ overlapped' = overlapped \cup {key} \cup {o.id : o \in {call[d] : d \in Clerks} \ {Idle}}
  /\ UNCHANGED <<office, periods, assignments, books, call, mishaps>>

-----------------------------------------------------------------------------

\* A request fails, before it is served or with its answer: what the call wrote
\* stays, and the rest is not done.
Mishap(c) ==
  /\ call[c] # Idle
  /\ mishaps < office.mishaps /\ mishaps' = mishaps + 1
  /\ Returns(c)
  /\ overlapped' = IF office.matter = "settings" THEN overlapped \cup {call[c].id} ELSE overlapped
  /\ UNCHANGED <<office, periods, assignments, books, settings, cached, calls>>

OfficeInit(scene) ==
  /\ office = scene
  /\ periods = [y \in Years |-> [n \in 1..16 |-> NoPeriod]]
  /\ assignments = [id \in Assignments |-> Absent]
  /\ books = [id \in Ledgers |-> NoLedger]
  /\ settings = [k \in SettingKeys |-> 0] /\ cached = [k \in SettingKeys |-> 0]
  /\ call = [c \in Clerks |-> Idle]
  /\ calls = 0 /\ mishaps = 0 /\ overlapped = {}

\* The start days given, of the scene: none, or a Sunday some weeks off the nearest.
Starts(year) == {0} \cup {NearestSunday(year) + 7 * weeks : weeks \in office.weeks}

Arranges(c) ==
  \/ \E year \in Years : \E start \in Starts(year) : GenerateCalendar(c, year, start)
  \/ ListPeriodsByYear(c) \/ GeneratePeriod(c)
  \/ \E id \in Assignments : ActivateProductJournalConfig(c, id)
  \/ ListActive(c) \/ Activate(c)
  \/ \E id \in Ledgers : DeleteLedger(c, id) \/ \E name \in {1, 2} : SaveLedger(c, id, name)
  \/ ValidateLedgerName(c) \/ WriteLedger(c) \/ CountJournals(c) \/ SoftDelete(c)
  \/ \E k \in SettingKeys : \/ GetPipelineConfig(c, k) \/ DeletePipelineConfig(c, k)
                            \/ UpsertPipelineConfig(c, k, calls + 1)
  \/ ReadPipelineConfig(c) \/ WritePipelineConfig(c) \/ FillCache(c) \/ DeleteSetting(c)
  \/ Mishap(c)

OfficeNext ==
  \/ \E c \in office.clerks : Arranges(c)
  \/ \E year \in Years : \E n \in 1..16 : DeletePeriod(year, n)
  \/ \E id \in Assignments : \/ ConfigStep(id)
                             \/ \E product \in Products, status \in {Draft, Approved, Active, Ended} :
                                  UpsertProductJournalConfig(id, product, status)
  \/ \E id \in Ledgers : CreateJournalOn(id)
  \/ \E k, new \in SettingKeys : RenamePipelineConfig(k, new, calls + 1)

-----------------------------------------------------------------------------
(* Properties *)

WholeYear(year) == year \notin overlapped /\ \A n \in 1..16 : periods[year][n] # NoPeriod

\* The periods of a year follow each other without a gap, up to the day on which the
\* next year begins: whatever failed and was deleted before, and however many
\* generations run at the same time, unless they begin on different days.
\* generate_calendar
PeriodsFollowEachOther ==
  \A year \in Years : WholeYear(year) =>
    /\ \A n \in 1..15 : periods[year][n + 1].from = periods[year][n].to + 1
    /\ periods[year][16].to + 1 = NearestSunday(year + 1)

\* Purchases of a category in a period are posted to one journal: two configurations
\* for it are active only if the activation of the one was not finished when the
\* other looked, or if the upsert, which looks at nothing, made one of them active or
\* moved it under its activation.  activate_product_journal_config
OneIsActive ==
  \A a, b \in Assignments :
    (/\ a # b /\ assignments[a].status = Active /\ assignments[b].status = Active
     /\ assignments[a].product = assignments[b].product) => {a, b} \cap overlapped # {}

\* A ledger with journals is not deleted, unless the journal was written on a
\* deleted ledger or between the count and the deletion, or an edit of it still
\* showed it as deleted.  delete_ledger, update_ledger
LedgersInUseAreKept ==
  \A id \in Ledgers : (books[id].journals > 0 /\ ~books[id].active) => id \in overlapped

\* What a function looked up before it wrote still holds when it has written,
\* unless another one overlapped it, or wrote without looking.
ChecksHold == OneIsActive /\ LedgersInUseAreKept

\* A cached setting is the one in the table when no call about it is under way,
\* unless calls about it overlapped or failed or its row was given another key.
\* get_pipeline_config, upsert_pipeline_config, delete_pipeline_config
CacheFollowsTable ==
  \A k \in SettingKeys \ overlapped :
    (\A c \in Clerks : call[c].id # k \/ call[c] = Idle) => cached[k] \in {0, settings[k]}

=============================================================================
