# TheOracleRPC: specifications

TLA+ models of the stateful parts of TheOracleRPC, the server behind elideusgroup, and of
the pages of its browser client: the persistent task engine, the finance modules, the batch
scheduler, the storage index, the Discord bot, roles, accounts, sessions and the MCP gateway,
the wiki, and the administration pages. TLC checks each model on small instances; TLAPS proves
what matters most of them for all instances.

The paths below are relative to the repository (`src/...`). `PROJECT.json` maps every
definition that models code to the lines it models, lists the runs, the theorems and
the hazards, and says of every component how far it is modelled.

## 1. The system

One Python process runs FastAPI, a Discord bot and a set of modules on one asyncio
event loop, over one SQL database. The layers:

| layer | directory | role |
|---|---|---|
| clients | `src/frontend`, Discord, MCP | the browser client keeps lists, forms and open editors, and sends what they show |
| input shims, RPC dispatch | `src/server`, `src/rpc` | turn a URN such as `urn:finance:journals:post:1` into one handler call; stateless |
| modules | `src/server/modules`, `src/server/jobs` | the operations; each request is a coroutine, some modules keep a background coroutine |
| query registry | `src/queryregistry` | one function per SQL statement |
| providers | `src/server/modules/providers`, `src/queryregistry/providers` | database, Azure, language models, social networks |

What makes the modules hard to test is how they use the database. Each query registry
call is **one SQL statement (or one batch) that commits by itself**; no operation holds a
transaction across two calls. An operation is therefore a coroutine that reads, checks, and writes
in separate statements, and between any two of them other coroutines run theirs. Most
updates are unconditional: they overwrite what was there. Any call may raise, and the
process may stop between two statements. The handlers of the browser client are built the
same way over requests to the server. The models take exactly this as their grain:

> **One action = one SQL statement, or one awaited request, together with the code up to the next `await`.**

### Inventory

*Async task engine* (`async_task_module.py`). State: rows of `system_async_tasks`
(status, step index, context, retry count, timeout) and their events; a tick coroutine
with a snapshot of the active rows; registered handlers. Operations: submit, cancel,
retry, resolve_callback; the tick starts, polls, steps and times out tasks. Interacts
with the modules that submit tasks (billing import, storage reindex) and the handlers
it calls. Hard: the tick writes back rows it read many awaits ago, beside cancels and
retries; steps run again after a restart; one failing task breaks off a tick; handlers are
registered after the loop starts. Correct when: a pipeline's context matches its step
index, no step is lost or repeated without cause, a final status is stable once nobody
holds an older copy and is in the audit trail, every task settles.

*Number sequences* (`finance_module.py`, `finance_numbers`). State: rows with series,
last number, maximum and status per scope. Operations: numbering by scope with
rollover, next_number, shift, the edit form, deletion. Used by journals and credit
lots. Hard: racing rollovers and shifts of one scope; the close and insert of a
rollover are two statements; forms with old values. Correct when: no identifier is
given twice, one active sequence per scope.

*Journals and fiscal periods* (`finance_module.py`). State: journals (status, links to
and from a reversal), their lines, period statuses. Operations: create, submit,
approve, reject, post, reverse, purchases that append lines; close, reopen, lock, unlock.
Hard: check-then-write across three or four statements; lines written one by one after
their journal; two reversals at once. Correct when: what is posted balanced and, where its lines can
tell, is complete; a reversed journal is cancelled by the one it names.

*Credit lots and wallet* (`finance_module.py`). State: lots and their events, the
wallet in `users_credits`, deferred and recognised revenue. Operations: create_lot,
purchase_product (credits), consume_credits, expire_lot, set_credits by an administrator.
Hard: consumption goes lot by lot with copies read at its start; the wallet is a sum
written later; any step may fail. Correct when: each credit is accounted for by an
event, revenue follows consumption, the wallet follows the lots.

*Staging imports and billing pipeline* (`billing_import_module.py`,
`billing_import_pipeline.py`, `finance_module.py`, `rpc/finance/staging`). State:
imports and line items, promotion tasks of the task engine, cached pipeline settings. Operations:
import from Azure, payment request, approve, reject, delete, promote. Hard: approvers see an import
while it is still written; two promotions of one import; a restart between posting and recording
the step. Correct when: a promoted import was approved and is in the books, once.

*Batch job scheduler* (`batch_job_module.py`). State: job rows (status, run count, next
run), history rows, a scheduler coroutine. Operations: tick, execution, run_now, the
edit form. Hard: run_now beside the scheduler, run counts computed from rows read
before, restarts during an execution, jobs whose cron expression does not parse.
Correct when: a limited job runs as often as its limit says, no due job waits for ever.

*Finance administration* (`finance_module.py`). State: the fiscal calendar (16 periods a
year), ledgers, one active product journal configuration per category and period, pipeline settings
with a cache. Hard: generation period by period; checks and writes in two statements; the cache is
filled after an await. Correct when: periods follow each other, one configuration is active, a ledger
in use is not deleted, the cache follows the table.

*Products and enablements* (`finance_module.py`). State: catalogue, a bit mask per user.
Hard: a purchase reads the mask and writes it back whole.

*Module manager* (`server/modules/__init__.py`). State: readiness events. Operations:
start all, shut down all. Hard: startups await each other's readiness; one may raise or give up.
Correct when: nothing is served before its modules are ready, and startups never wait in a circle.

*Discord* (`discord_bot_module.py`, `discord_input_provider.py`, `discord_output_module.py`,
`discord_chat_module.py`, `openai_module.py`). State: the bot's connection, a queue of messages with its
worker and a send lock, stored conversations. Operations: the bot's commands, direct and queued messages,
drain, shutdown, deletion of conversations. Hard: commands run beside each other, while the server starts and
while it stops; messages are cut into chunks that are awaited one by one; sends fail. Correct when: messages arrive
whole, every command is answered, an answer stored follows its question.

*Roles* (`role_module.py`, `role_admin_module.py`, `identity/roles`). State: names and masks of roles with two
copies in memory, masks of users with a cache. Hard: a mask read before a change and cached after the refresh.
Correct when: the copies follow the tables and changes by several administrators all count.

*Accounts, sessions and tokens* (`oauth_module.py`, `auth_module.py`, `session_module.py`, `identity/auth`,
`identity/sessions`). State: accounts, the identifiers to sign in with, devices with rotation keys. Operations:
sign-in, creation, link, unlink, refresh, invalidation. Hard: look-up and creation, comparison and renewal are separate
statements. Correct when: every account can be reached, replaced keys stay replaced.

*MCP gateway* (`mcp_gateway_module.py`). State: request times per address, switches in memory and in the table, agents,
codes, tokens. Hard: the edges of two sliding windows; exchange, renewal and revocation overlap; a switch is written twice.
Correct when: the limits hold in every window, what is off stays off, tokens are used as granted.

*Storage index* (`storage_module.py`, `jobs/storage_reindex.py`). State: blobs, and the table that indexes them.
Operations: upload, delete, move, rename, folders, flags, scans. Hard: blobs and table know nothing of each other, and a scan
works from a listing that users change meanwhile. Correct when: an undisturbed scan repairs the index, flags stay with their files.

*Wiki and content pages* (`content_wiki_module.py`, `content_pages_module.py`, `WikiPage.tsx`, `ContentPage.tsx`).
State: versions of pages; in the browser the page shown, the open editor, the history. Hard: several editors; visitors
who go on to another page while requests are under way. Correct when: histories stay as they were written, a text is saved
on its own page, the page shown is that of the address.

*Administration pages* (`src/frontend/src/pages`). State: a table; in each tab the list shown, forms, a busy flag.
Hard: answers that overtake each other, failures, forms older than the list, two tabs. Correct when: a page at rest
shows the table and what was entered is there.

*RPC dispatch*, *query registry and providers*, *Azure providers*, *database command line*:
stateless, I/O, or run by hand; not modelled as components, though the statements of the registry
are inside the modules' actions.

## 2. Modules

| module | models | uses |
|---|---|---|
| `AsyncTask` | the task engine | |
| `NumberDispenser` | what numbering promises: one atomic step hands out the next identifier of a scope | |
| `NumberSequence` | rows, rollover, shift, edits; implements `NumberDispenser` | `NumberDispenser` |
| `Journal` | journals and their periods | |
| `CreditLots` | credit lots, revenue, wallet | |
| `BatchJob` | the scheduler | |
| `ImportPromotion` | staging imports and their promotion by tasks | |
| `StorageIndex` | blobs and the table that indexes them | |
| `ModuleStartup` | the module manager and the readiness of the modules | |
| `DiscordOutput` | the queue, its worker, direct sends, chunks | `ModuleStartup` |
| `DiscordChat` | the commands and the conversations, from startup to shutdown | `DiscordOutput` |
| `Roles` | roles, masks, their copies | |
| `Accounts` | accounts and identifiers | `Roles` |
| `Sessions` | devices and rotation keys | `Accounts` |
| `McpGateway` | limiters, switches, codes and tokens; the composition of the four | `Sessions` |
| `ContentVersions` | wiki and content pages with their tabs | |
| `AdminPages` | the pages that show and edit a table | |
| `FinanceOffice` | calendar, configurations, ledgers, settings | |
| `Office` | the three before, one of which a behaviour is about | `ContentVersions`, `AdminPages`, `FinanceOffice` |
| `Sums` | what the sums of the community modules are | TLAPS |
| `NumberSequenceProofs` | the theorems of numbering | `NumberSequence`, TLAPS |
| `OperationsProofs` | the theorems of the long tasks and of what accountants set up: `AsyncTask` and `FinanceOffice`, one part each | these two, TLAPS |
| `JournalProofs`, `CreditLotsProofs` | the theorems of the modules they are named after, where amounts are added up | that module, `Sums` |
| `BackOfficeProofs` | the theorems of the scheduled jobs and of the files of the users: `BatchJob` and `StorageIndex`, one part each | these two, TLAPS |
| `AdministrationProofs` | the theorems of what users and administrators see on pages and import: `ContentVersions`, `ImportPromotion` and `AdminPages`, one part each | these three, TLAPS |
| `AccessProofs` | the theorems of the ways in: `McpGateway` with the modules below it, and `DiscordChat` with the modules below it | these two, TLAPS |
| `MC...` | constants for TLC of the module they are named after | that module |

Conventions. `pc[c]` says between which two statements coroutine `c` is, `cur[c]` (or `call[c]`,
`work[a]`, `requests[t]`) what it remembers: the rows it read, which may be out of date when it writes. Variables
marked *history* (`issued`, `tampered`, `runs`, `overlapped`, `lagging`, ...) are read by properties
and by no guard. A restart empties the memory of coroutines and keeps the tables. A `Fail` action, or a lost
request, is a call that raises, or a process that stops, anywhere in an operation. Bounds (`Max...`)
occur only in guards of the actions they limit. Where several groups of operations share one run, a *scene*,
chosen in the initial state, says which group a behaviour is about and how many calls it makes.

**AsyncTask.** `task` is `system_async_tasks`; `pc`, `cur`, `todo`, `snap` are the tick
coroutine, `req` the requests. `TickBegin` is `list_tasks`, `TickNow` takes the time; `Skip`, `TimeOut`,
`StartPipeline`, `StartJob`, `CheckJob`, `PastLastStep`, `StepMarked`, ... are the branches
of `tick_once`, `_start_task`, `_process_poll_task` and `_process_pipeline_task`, one per statement. The
context is abstracted to the set of steps whose output it holds. Handlers return, complete or fail as they
like; `Poison` names the tasks whose handler is gone, or whose `start` or `check` may raise, on every tick if it comes to that. `Expire` is time passing a deadline.

**NumberSequence.** One action per statement of `_next_formatted_number` and `_rollover_number_sequence`
(`NextNumberByScope`, `ReadCurrent`, `Close`, `ReadReplacement`, `Insert`, `ReadBack`, `Retry`), of
`shift_sequence` (`ShiftRead`, `ShiftClose`, `ShiftInsert`) and of the edit form
(`EditRead`, `EditCheck`, `EditWrite`). `Take` is the one conditional UPDATE with OUTPUT
that gives a block out; `Upsert` the MERGE on prefix, account number and series.
`tampered` are the scopes in which an administrator saved an old form or deleted a row:
the properties exclude them, because the form really does set `last_number` back.

**Journal.** `Create`, `Lookup`, `Insert`, `InsertLine` are create_journal;
`PostRead`, `PostPeriod`, `PostLines`, `PostWrite` are `post_journal`, which other operations
enter too; the reversal and the approval operations likewise. A posting key is an event's key and
the number of `REV-` before it. A line is its debit minus its credit, in units of the 0.0001 that both are rounded to, so the
tolerance of 0.00001 never decides. Costs may be zero or negative, as in the billing import: the lines of an event are any integers.

**BatchJob.** `tick` is the scheduler's list, `work[a]` the execution an actor is in. Time
is counted in minutes; a cron expression is the set of minutes it matches. `Horizon`
stands for the 400000 minutes `_compute_next_run` looks ahead.

**CreditLots.** A lot carries what its events add up to. `Take` is one lot's conditional UPDATE in
`consume_credits` with `RecognizeRevenue` and `ConsumeEvent` behind it, `SumLots` and
`SetWallet` are `_sync_wallet`. Amounts are in units of 0.00001: `UnitPrice` rounds to five places, `Round4` is what `create_journal` makes of the lines of a
consumption, and the purchase credits all that was paid. One user's lots are modelled: no statement relates two users.

**ImportPromotion.** The pipeline's four steps as statements of the tick: `Validate`,
`Classify`, `CreateJournal` with its lines, `PostJournal`, `MarkPromoted`, then
`StepRecorded`, which is the task engine's write of the step's end. The engine is taken from `AsyncTask`
in its part for tasks with `max_retries = 0`. `EvenParts[i]` says after how many debit lines those of import `i` add up to nothing: then a journal that is
not yet whole passes the checks of `post_journal` (`Balances`).

**StorageIndex.** `blob[u][n]` is what Azure holds under the name of user `u`, `rows[u][n]` the row of
`users_storage_cache`. A name is a sequence of segments; `TextPrefixes` says where the text of one begins that of
another, because `delete_folder` lists by text. An operation changes blobs one request at a time, then the rows, then goes through
the scan of its user (`reindex`): the listing, one write for each folder and file, and the removal of rows without a
blob. `fresh[u]` is history: an undisturbed scan has come last. Selections and concatenations of lists (`Only`, `OneAfterOther`) are recursive
functions of the module, so that the proofs can say what they give.

**ModuleStartup, DiscordOutput, DiscordChat.** `at[m]` is how far the startup of module `m` is among the modules it
awaits; `Needs` are those of the source. The server serves when every startup has returned. Messages wait in `queue`;
`sending[s]` is what the worker or a command is sending, `lock` whose chunks go out now; `_yield_chunks` is a function on
sequences of characters; its loops are recursive functions of the number of rounds, each over what the Python loop keeps (chunks, buffer, line), so that the proofs can say what they give. `cmd[c]` is a command with the awaited steps of its kind - the persona workflow, a summary, or one of those that
dispatch a single operation - from the registration of the commands to the shutdown; `rows` is the table of conversations, a function from its recids
(`inserted` is the last one given out). The run's text is cut into two chunks Discord takes; that every
text arrives whole, also when a chunk is too long and refused, is proved (section 5).

**Roles, Accounts, Sessions, McpGateway.** One set of callers runs the operations of all four. `defs` and `mask` are
`system_roles` and `users_roles`; `roles`, `domains` and `cache` the copies in memory; a query and the assignment of its answer are
two actions (`Asks...`, then the step that assigns). `accounts` and `auth` are `account_users` and `users_auth`. A sign-in goes from the look-up of its identifier
through the creation of the account to the session; `devices[u, f]` has the rotation key. The gateway has the two deques of its
limiters in `windows`, the switch in memory and in the table in `dcr` and `dcrRow`, codes and tokens. A key is the number of its making.

**ContentVersions, AdminPages, FinanceOffice, Office.** `library[s]` is the page of a slug with its versions;
`tab[t]` the React state of `WikiPage` or `ContentPage`, `requests[t]` what its handlers await. The administration pages differ in a few
traits (what an edit sends, when it is shown, whether the list is loaded afterwards, what a busy page disables), so `Pages` is a table of
these traits, one record per page of the source (two or three for a page with several ways to edit), and the handlers are written once. What is particular to one page
is an action of its own: `RenameRole`, `EmptyCategory`, `PauseJob`. `call[c]` is a function of the finance module between its check
and its write. The three share no table, so `Office` opens one of them in each behaviour.

### What is assumed

* One statement is atomic. A MERGE finds at most one row, because its key is unique.
* `UQ_finance_numbers_account` (`v0.11.0.0_20260326.sql:566`) is taken as dropped:
  with it every rollover would fail, as a rollover inserts a second series of an account.
* Every scope has account numbers of its own (`AccountAssumption`): the MERGE does
  not compare scopes.
* Posting keys and journal names are unique (`:567`).
* The view `vw_finance_period_close_blockers` and the procedures `auth_oauth_relink` and
  `auth_unlink_last_provider` are code outside `src/`: modelled from how their callers use them.
* `delete_import` is one batch of statements, sent as one. UPDATE-else-INSERT of `upsert_role` is one statement.
* `create_session_v1` is one transaction, and two of them come one after the other. Two first sign-ins of a user that overlap may leave two session rows, which no index
  forbids; the model has the devices and no session row, so it cannot tell.
* Batch status 4 and Paused have no writer; `delete_job` is left out.
* A listing of blob storage is read at once; folders are at most four deep; a missing container holds nothing.
* Keys, codes and tokens do not run out: one that has is as if it were not there.
* Signed tokens and states are genuine; what identity providers, the language model and Discord answer is arbitrary.

## 3. What the runs check

| run | instance | result |
|---|---|---|
| `async_tasks` | a pipeline of two steps with a timeout; two requests at a time, one retry by the count, one restart, one tick that breaks off | `ContextMatchesStep`, `ExecutionsAreAccountedFor`, `RetryBudget`, `FinalStatusIsLogged`, `StepNeverGoesBack`, `QuietIsStable` |
| `async_settles` | a pipeline behind a newer poll task, whose start and check may raise on every tick and which has a timeout; behind both a callback task whose start may raise as often and which has none; one request at a time; fairness | `EveryTaskSettles` |
| `async_cancel_is_final` | one pipeline, one request | `CancelIsFinal` is violated |
| `numbers` | three callers, four calls, one edit or deletion, one failure; every sequence has one number | `OneActiveSequence`, `InactiveOnlyWhileReplaced`, refinement `DispensesNumbers` |
| `journal_books` | all operations, three callers, four calls, one failure; a journal of three lines, one of a cost, its refund and nothing, one purchases append to, one that does not balance; reversals | `BooksAreSound`, `BalancesInTheEnd` |
| `batch_jobs` | the scheduler with a job limited to one run and one that does not parse; one run_now, one edit, one failing call, one restart; fairness | `RunsWithinLimit`, `JobsAreSound`, `DueJobRuns` |
| `credit_lots` | two callers, four calls, two lots (two credits for 0.00025; one free), needs of 1 and 2, one failure, one administrator's edit | `LotsAreSound`, `AccountsFollowLots` |
| `import_promotion` | an Azure import with two line items, of which the first costs nothing, and a payment request, two promotion tasks, one restart | `PromotionsAreSound`, `PromotedFromApproved` |
| `storage_index` | two calls on a user's files in and beside two folders whose names begin alike, and on those of a user whose account is gone; one failing request, one flag or report | `IndexIsSound`, `GalleryIsKept` |
| `discord` | two commands of six kinds on the modules they need, and every other module with its needs; one startup or one request fails; a text of two chunks, of four characters at most; one deletion | `StartupIsSound`, `MessagesArriveWhole`, `QueueIsSound`, `ConversationsAreSound`, `CommandsAreAnswered` |
| `identity` | five scenes of three or four calls by two callers: roles and members; first sign-ins and linking; sessions; the switch and the limiters with two addresses, three seconds and a restart; codes and tokens; one failure | `RolesAreSound`, `EveryAccountHasAnIdentifier`, `OldKeysStayOld`, `LimitsAreKept`, `SwitchedOffStaysOff`, `TokensFollowGrants` |
| `office` | scenes of the wiki and content pages with one tab that walks over two pages or two that edit one; every administration page in one and in two tabs; each matter of the finance office with two callers; one failure | `HistoryIsKept`, `EditsStayOnTheirPage`, `ShownFollowsTheAddress`, `OwnEditsAreKept`, `RestingPageShowsTheTable`, `PeriodsFollowEachOther`, `ChecksHold`, `CacheFollowsTable` |

A property that is a conjunction of named parts is one entry here; its parts are defined beside it: `ExecutionsAreAccountedFor` is
`CompletedRanEveryStep` and `RerunsAreAccountedFor`, `BooksAreSound` is `PostedIsComplete` and `ReversedIsCancelled`, and so on.
Types are part of the soundness properties (`JobsAreSound`, `LotsAreSound`, ...); those of the engine and of the sequences are proved (section 5).

*Why the bounds are enough for what they show.* The races in this code are between two
coroutines over one row: one reads, the other writes, the first writes. A third actor
matters where two racing calls leave something behind for another to find, so numbers and journals
have three; four calls let a call follow the race. A sequence has one
number, so that each call rolls over. A pipeline has two steps so that there is one before and one
after a switch; three tasks, one of each kind, make the order of the snapshot matter. Two lots let a consumption
go on from one to the next; 0.00025 for two credits makes a unit price of 0.00013 that
leaves a remainder, and journals of 0.00013 and 0.00026 that are rounded down and up. One
restart or failure at any point covers the code, which keeps no memory of how often it failed.
A scan, an operation and a file in each of two folders let a listing be out of date in every way; a walker over two addresses is
late in both directions; a page in two tabs shows rows that are gone or newer. A window of two seconds has an edge, a middle and a
second edge within the three seconds the clock runs. Scenes join the operations that write what the others read; operations of
different scenes share no row, or only the roles' cache, which every scene of sessions fills by its requests. Callers, requests
and commands are symmetric.

*What the instances leave out.* In the calendar scene with two callers all generations of a year begin on the same
day: generations from different days mix their periods, which `overlapped` would except, and their 2^16 mixtures say nothing more. The page
sends no start day. Generations by one caller begin up to a week early or late.

*Where the properties come with conditions*, these are what the code needs:
`OneActiveSequence` and the refinement hold outside scopes an administrator set back;
`EveryTaskSettles` for tasks with no newer one, and not themselves ones, that
raise for ever without a timeout (`Starved`); `RetryBudget` holds for tasks no retry was granted twice on the same
count (`doubled`), since two overlapping retries are both granted; `RunsWithinLimit` while neither run_now nor an edit has been used;
`BooksAreSound` promises a posted journal all its lines where no first part of them balances (`Telling`), and otherwise a part that did; journals that purchases append to have no
lines to be complete by; so too `PromotionsAreSound`. The accounts of credit lots agree when no call was
cut short by a failure of its own - one that raises for want of credits is counted in - and `CreditsAreAccountedFor` always. `GalleryIsKept` is about calls one after the other, on files whose names are not those of folders, `ScanRepairs` about scans nothing disturbs.
Copies of roles may lag when their last read was older than the last change or their refresh failed (`lagging`), a purchase may write a mask from an old read
(`reverted`), a compared key may be put back (`restored`, `revived`). What a page shows is excepted when another tab, a failure, a renamed role or an answer out of order has
interfered (`stray`, `swapped`, `spoilt`), what was entered when it was refused, failed or is of a kind no statement writes; and each of these is a real behaviour of the code that TLC finds when the exception is taken away.
`overlapped` in the finance office marks calls that were between check and write at the same time, and configurations the upsert made active or moved under an activation.
Where an exception is the very race a hazard of `PROJECT.json` names, the note of that hazard says so: the property then speaks of all the rest.

### Disagreements between code and text

* `async_cancel_is_final`. `RPC.md:204` has cancel for a running task, but the write that ends a step in flight
  (`async_task_module.py:282`) sets the task running or completed again.

Observations of the same kind that are not kept as runs:

*Tasks, numbers, journals, jobs, lots, imports*

* A failed task can be cancelled (`async_task_module.py:148`, `RPC.md:204`). A retried task past its deadline
  times out before its failed step runs again (`:175`).
* A task whose `start` or `check` raises on every tick (`:252`), or whose handler is no longer registered, ends each tick before the older tasks (`:196-215`). Without a timeout it
  does so until somebody cancels it, and nothing older than it is started, polled or timed out.
* A rollover closes a sequence that an edit has just given room (`finance_module.py:949`). The edit form can save
  `last_number` above `max_number` (`:860`).
* "Cannot post to closed period" (`finance_module.py:1571`) guards an unconditional write
  two statements later (`:1724`); a period closed in between has a posted journal.
* A late rejection turns a posted journal back into a draft (`:1764`); a late post overwrites a reversed one
  (`:1724`); a posted journal is out of balance between the two lines a purchase appends (`:1925`), and purchases go on appending to a reversed one.
* `post_journal` checks that the lines add up to nothing and that there are some (`:1573-1604`), not how many. The billing import writes its costs as they are, `element_amount or '0'`
  (`billing_import_pipeline.py:206-240`): when the first of them are zero, or a cost and its refund, a journal that another call posts in between, or that a failure cut short, is in the
  books with a part of its lines. A step taken up after that takes the posting key it finds for its own whole journal.
* A "Run Count Limit" job runs more often than its limit when run_now overlaps the scheduler, since both write
  the count they read before plus one (`batch_job_module.py:288`). The scheduler starts a job that run_now has set
  Running after the list was read, against "Skip Running and Paused" (`:208`).
* consume_credits raises "insufficient" after it has taken from some lots, without events, revenue or wallet for
  them (`finance_module.py:2155`). An expired lot can still be consumed by a call that listed it before, and two
  expire_lot calls write two events. What is left of a price that does not divide - 10.00 for 3 credits is 3 times 3.33333 - and the price of credits a raising call took stay in the deferred account for good
  (`:2048`, `:1978`). Welcome credits (`oauth_module.py:369`) and the wallet set by an administrator
  (`user_admin_module.py:53`) have no lots behind them.
* An approved import can be deleted while its pipeline runs; a journal of one zero line is then posted. A restart after
  posting leaves the import approved, and every later promotion fails on the posting key. The last write of
  create_payment_request (`:1244`) overwrites an early approval or rejection.

*Finance administration*

* A generation that fails midway leaves a year that can only be generated again when its periods have been deleted one by
  one. A start day of one's own leaves a gap to, or an overlap with, the year before. upsert_period sets a closed period to open.
* Two activations that look at the same time both activate (`finance_module.py:1450`). The upsert of configurations (`product_journal_config/mssql.py:96`) asks for ROLE_FINANCE_APPR alone, as the page's own
  commands do, and writes whatever category, period and status it is sent over whatever is there: two active ones are one call away. The page only sends new drafts. A journal can be written on a ledger that is being, or has been,
  deleted; the names of inactive ledgers stay taken.
* A pipeline setting renamed under its recid stays cached under the old key; a get answered late caches an old value (`:1293`).

*Storage*

* Listings are made without `include=["metadata"]` (`azure_blob_provider.py:94`), so their metadata is empty; nothing modelled reads it.
* A scan resets `reported` (`storage_module.py:292`), which `:413` describes as "files that have been reported for moderation review".
* A refused folder rename still moves the rows; `delete_folder` deletes a neighbour whose name begins with the folder's; moving a file onto itself deletes it. Folder rows and
  the rows of a user whose last blob has gone survive every scan.

*Discord*

* In a second worker process the bot module is ready without a connection (`discord_bot_module.py:79`), so the input provider raises
  (`discord_input_provider.py:30`), and with it the startup. When the authentication providers fail, the startup waits for ever.
* A line longer than the limit after a short one gives a chunk above Discord's limit, and the rest of the message is dropped.
* A failed summary sends its notice twice. The persona's notice goes past the queue and is lost while the output module has no bot.
  `wait_for_drain` does not return after a shutdown with messages queued.

*Identity*

* unlink_provider resets `users_roles` and no code refreshes the cached mask. Unlinking the default provider without naming another commits and then
  raises, and the account is invisible in `vw_account_user_profile` until a sign-in adopts it.
* `update_if_unedited` overwrites edited names and addresses at every sign-in with the default provider. set_user_default_provider does not ask whether the provider is linked.
* get_session always raises, because its operation has no registered domain (`session_module.py:198`); the branch for soft-deleted accounts in resolve_user is never taken.
* A registration counts twice in the rate limit (`oauth_router.py:98`, `mcp_gateway_module.py:208`). A renewal overlapped by an exchange stores a revoked refresh token again (`:375`).
* `ROLE_DISCORD_BOT` bought while the mask changes writes the old mask back (`finance_module.py:1996`).

*Pages*

* The base version of an edit is not checked: the last writer wins, and the history keeps both. A restore answered late replaces the page under an open
  editor, whose text is then saved on the wrong page. A save whose reload fails reports "Unable to save". A slug that fails to load keeps the page before it on the screen.
* The jobs page says "Job paused", but `upsert_job_v1` does not write the status (`SystemBatchJobsPage.tsx:209`). Clearing a page's category sends null, which the update ignores
  (`ServicePagesPage.tsx:78`).
* Editing a key column (a route's path, a role's name) leaves the old row, which the page shows again after its next load. Whole rows sent from an older list put other fields back; a row deleted meanwhile is inserted again.
  Two links in flight on the user page lose one from the list shown. The end of a ledger's deletion frees the page while another command runs.

## 4. Fairness

Only two runs check liveness.

* `AsyncTask!Fairness`: the tick coroutine goes on (the event loop runs ready coroutines, database calls
  and handlers return), handlers get registered, requests go on, and a
  deadline passes some day. Nothing forces a handler to complete, a request to be made or an exception to stop
  recurring: the tasks in `Poison` may raise on every tick, and the older ones are looked at again only because a timeout settles them; without one the code promises nothing, and neither does the property. That handlers return is an
  assumption on them and not on the engine: a step that never returns stops the loop, and the timeout is only looked
  at by the tick.
* `BatchJob!Fairness`: the scheduler coroutine goes on and minutes pass up to the bound. Executions return or raise. The
  same is assumed of run_now, though nothing the scheduler does waits for it.

That startups do not wait for each other in a circle, and that no command is stuck, are stated as invariants: in every state something
can go on. `StartupsNeverStall` spells out what a startup can do; `CommandsGoOn`, the half of `CommandsAreAnswered` about commands under way, says it with
ENABLED. Deadlock is checked for the scheduler, which always has a next wake-up. The other models may come to rest when no request is left.

## 5. What is proved

TLAPS proves, for any number of tasks, callers, scopes, jobs, imports, journals, lots, files, editors, clients, commands, restarts and calls, with the
constants bound only by the named assumptions of their modules (`TaskAssumption`, `SequenceAssumption`, `AccountAssumption`,
`ConfiguredAssumption`, `JournalAssumption`, `JobAssumption`, `CreditLotsAssumption`, `ImportAssumption`, `ContentAssumption`,
`PageAssumption`, `OfficeAssumption`, `StorageAssumption`, `RolesAssumption`, `AccountsAssumption`, `SessionsAssumption`, `McpGatewayAssumption`, `StartupAssumption`, `OutputAssumption`, `ChatAssumption`).
These say that bounds are numbers and sets of callers, where something is summed over them, finite; that what a data set names is in it; that texts are of
the characters of the model and a chunk may have at least one (`configure_message_window` refuses a limit that is not positive); that the modules
installed are those of the source, the authentication with the OAuth module that it starts with, and the input module with the three that its commands use; and that account numbers are of one scope, as section 2 says. TLC evaluates them for every instance.

| module | theorem | statement |
|---|---|---|
| `OperationsProofs` | `InvHolds` | the inductive invariant of the engine |
| | `TypeCorrect` | `TypeOK`; so stored retry counts stay within `max_retries`, also with overlapping requests |
| | `ContextCorrect` | `ContextMatchesStep` |
| | `StepIndexMonotone` | `StepNeverGoesBack` |
| | `QuietStable` | `QuietIsStable` |
| | `BudgetKept` | `RetryBudget` |
| | `FinalStatusLogged` | `FinalStatusIsLogged` |
| | `ExecutionsAccounted` | `ExecutionsAreAccountedFor` |
| | `OfficeChecksHold` | `ChecksHold`, under the operations of the finance office; so the next two |
| | `PeriodsStayInOrder` | `PeriodsFollowEachOther` |
| | `CacheStaysFresh` | `CacheFollowsTable` |
| `NumberSequenceProofs` | `InvHolds` | the inductive invariant of numbering |
| | `TypeCorrect` | `TypeOK` |
| | `NumbersUnique` | `NumbersGoForward` |
| | `ActiveUnique` | `OneActiveSequence` |
| | `AlwaysReplaced` | `InactiveOnlyWhileReplaced` |
| | `SequencesDispense` | `DispensesNumbers`: `NumberSequence` implements `NumberDispenser` |
| `JournalProofs` | `InvHolds` | the inductive invariant of journals |
| | `BooksSound` | `BooksAreSound` |
| | `JournalsBalance` | `BalancesInTheEnd` |
| `AdministrationProofs` | `InvHolds` | the inductive invariant of imports and their promotion |
| | `PromotionsSound` | `PromotionsAreSound` |
| | `PromotedOnlyFromApproved` | `PromotedFromApproved` |
| | `HistoriesKept`, `EditsKeepTheirPage` | `HistoryIsKept`, `EditsStayOnTheirPage`, under the operations of the wiki; so the next |
| | `ShownStaysAtTheAddress` | `ShownFollowsTheAddress` |
| | `OwnEditsStayKept` | `OwnEditsAreKept`, under the operations of the administration pages |
| `BackOfficeProofs` | `InvHolds` | the inductive invariant of the scheduler |
| | `JobsSound` | `JobsAreSound` |
| | `LimitsAreRespected` | `RunsWithinLimit` |
| | `IndexStaysSound` | `IndexIsSound` |
| | `GalleryStays` | `GalleryIsKept` |
| `CreditLotsProofs` | `InvHolds` | the inductive invariant of the lots |
| | `LotsStaySound` | `LotsAreSound` |
| | `AccountsStayInStep` | `AccountsFollowLots` |
| `AccessProofs` | `AccountsAreReached` | `EveryAccountHasAnIdentifier` |
| | `KeysStayOld` | `OldKeysStayOld` |
| | `SwitchStaysOff` | `SwitchedOffStaysOff` |
| | `TokensKeepToGrants` | `TokensFollowGrants` |
| | `RolesStaySound` | `RolesAreSound` |
| | `LimitsStayKept` | `LimitsAreKept` |
| | `StartupsAreSound` | `StartupIsSound` |
| | `QueueStaysSound` | `QueueIsSound` |
| | `ConversationsStaySound` | `ConversationsAreSound` |
| | `AnswersStayTried` | `AnswersAreTried`, a half of `CommandsAreAnswered` |
| | `ChunksArriveTogether` | `ChunksStayTogether`, a half of `MessagesArriveWhole` |
| | `MessagesComeWhole` | `MessagesArriveWhole` |
| | `CommandsFindTheirModules` | while the server serves, every command given finds the modules ready that its steps wait for: why `CommandsGoOn` holds, without ENABLED |

`FinanceOffice`, `ContentVersions` and `AdminPages` have no specification of their own for TLC, which runs them inside `Office`; `OfficeSpec`,
`ContentSpec` and `PageSpec`, stated in the proof modules, are their initial states and actions alone. In `Office` every step of one leaves the
variables of the others unchanged. The theorems about Discord are about `ChatSpec`.

*The engine.* The tick writes `step_index` and context from its snapshot, which looks as if a stale copy could
take a pipeline back. `Inv` adds to `TypeOK` why it cannot: only the tick moves `step_index`, and it works on a
task at most once per snapshot, so for tasks still to do, and for the one at work, the snapshot's step is the row's (`SnapshotFresh`);
each row and each copy fits the handler type of its task (`RowsRouted`), and so do the place of the tick (`TickRouted`)
and the requests (`RequestsRouted`), so no callback or poll write hits a pipeline. `StepNeverGoesBack` and
`QuietIsStable` are action properties proved from `Inv` with one step per action; `RetryBudget` needs one conjunct more, that the
stored count is the number of retries granted (`BudgetInv`). For the audit trail, `NothingOwed` says that the tick owes no event while a handler
runs; every step that writes a final status owes its event then, and what is owed is written or lost with the actor that owes it.
`ExecutionsAreAccountedFor` needs to know the place of each task (`RunsInv`, `PlaceInv`): what lies behind `step_index` was run, what lies ahead
was not, and the step at hand may be run again only when its earlier executions are already paid for by a retry, a restart or a broken-off tick.

*Numbering.* `KeyInv` is `TypeOK` with what each caller remembers: the scope, account and series of a row never
change, because the MERGE only finds rows of the same account number and account numbers belong to one scope. `ScopeInv`
is about the scopes nobody set back: the active row has the highest series; a caller about to insert has closed
the highest series, so that no row is active and it is the only such caller; every block handed out is covered by a row of its series
with `last_number` at or above it; blocks are in order. `NumbersGoForward` alone is not inductive, since a new block is above the others
only as the active row is the newest and covers what was given out. The refinement maps a scope to the last block given out in it: `Take`
is the dispenser's step, every other action a stutter. For `InactiveOnlyWhileReplaced` the edit form matters too (`ReplacedInv`): in a scope nobody set back a
form that is open on an active row shows it as active, so saving it closes nothing.

*Journals.* `BooksAreSound` speaks of rows; what makes it true is also in the memory of callers (`MemoryHolds`): what each one knows of its
journal at its step, that the rows on record and the lines still to be written are together those of the event, and that only the caller that
created a journal writes lines to it (`Writes`; journals that collect purchases are excepted). `RowHolds` says that the lines of a journal are a
first part of its event's (`Part`), that a first part of them balances once it is in the books (`Whole`), and that a reversed row names a reversal of which the same holds. A post may look between
two lines, and the rest be written after it: what it saw to balance is then a first part of what is there (`BalancedOnceKept`). That a journal whose lines tell is complete follows at the end (`BalancedIsWhole`),
and so does that its reversal has the opposite lines. `BalancesInTheEnd` speaks of
the end only; `BalanceInv` says of every moment that the lines of a journal and those that callers have yet to write to it, several at once where purchases
append, add up to zero.

*Sums.* The sums of the community modules are recursive functions on finite sets. That there is such a function, and that a sum goes up by what one
summand goes up by, is induction over data, for which the library's induction theorems cannot be used here. `Sums` proves it by a least counterexample: of the finite
sets for which the statement fails take one with the fewest elements (`SmallestSet`, from the well-foundedness of the numbers). It is done once, for sums of numbers over
finite sets and sequences; the books and the lots cite it.

*Credit lots.* `AccountsFollowLots` speaks of calls at rest. Between two statements the accounts lag behind the lots by exactly what the calls have in hand, and `Inv`
says by how much: the deferred account has what was paid but for the purchases not yet booked (`DeferredKept`), the recognised revenue is ahead of the events by the takings of calls about to write
them (`RevenueKept`), a lot that has expired is explained by an event or by a call about to write it that has read at least as much as remains
(`ExpiryKept`), and a wallet that differs from its lots has a call that will set it (`WalletKept`). `CreditsAreAccountedFor` needs no exception for calls cut
short: what such a call had in hand is counted as lost, lot by lot. Two summations meet at rest: what each lot keeps of its price, and what rounding may have done in as many journals as there were
(`RoundedAlways`).

*Imports.* `PromotionInv`: an import that can be approved with its row count set has all its items (`ImportHolds`); a journal exists only for a
validated import and carries all its amounts (`JournalHolds`); what the place of a task and of the tick says of its import and journal,
which balances once the task is past it (`TaskHolds`); at most one task of an import is past its journal (`OnlyOnePast`), and none is past one whose lines are still written (`LinesAreEarly`). That a posting key is taken once carries the argument over a restart:
the second task of an import, or the same one again, fails on it instead of promoting twice.

*The scheduler.* `JobInv`: besides types, what an execution that writes its result knows of its outcome (`OutcomesKnown`), where the tick is
(`SchedulerPlaced`), that a running job is being executed or was cut off (`RunningIsExecuted`), that no more executions will close a
history row than are open (`OpenCounted`), and, while there was no run_now and no edit, that a job was begun as often as its row counts, and
once more while it runs, and that the scheduler's copies are the rows (`LimitsHold`).

*Finance office.* `OfficeInv`: while an activation has looked and not written, another configuration of its product becomes active only with a trace in `overlapped`
(`LookHolds`), and its own is moved to another product only with one (`AimHolds`); and so for journals on a ledger whose deletion has counted (`JournalsCounted`). For the cache (`CacheInv`): while the calls about a key do not overlap,
what is about to be cached is the row, and a copy that is not the row has a writer about to renew it. For the calendar (`CalendarInv`): all that is there of a year, and
all that calls will write, are periods of a year that begins on one day; that the sixteen such periods follow each other and end where the next year begins is arithmetic
on the lengths of periods (three of four weeks, a closing week, and in a year of 53 weeks a last one of two) and the Sunday nearest to the
28th of December (lemma `GeneratedFollow`).

*The storage index.* `IndexIsSound` speaks of scans that have ended. `StorageInv` says of a scan on its way, as long as nothing has disturbed it, that what it has listed of the
users still to come is what they have (`Lists`), and that the rows of the users it has been through are right once its statements have run (`Repairs`): a row
for a file that is gone has a deletion ahead, a file has a row or an upsert ahead, and nothing ahead undoes either. The scan comes to each user once, so statements for
one user never meet the rows of another (`IsListing`). A step of an operation changes what one user has and disturbs every scan that has listed;
a flag or a report changes no row's kind. When the last statement has run nothing is ahead, and `Repairs` is `ScanRepairs`. Looking for the proof showed
what no instance had: where a file has the name of a folder other blobs are in, both are one row (`upsert_v1` looks for path and name alone), and whether that says file or folder is a matter
of the order of the listing; `ScanRepairs` says so.

*The gallery.* `GalleryIsKept` speaks of users nobody works for at the moment; between, a file may lack its row for as long as its upsert is to come, and `rename_file` with a
folder copies and deletes blob by blob before it writes a single row. `GalleryInv` says of every user whose calls nothing has disturbed: at most one caller is at work for the user, and
from where it is (`On`) the rows come out right. For most steps that is `GoodAhead`: the row of every file says what the owner asked for, or one of the statements ahead changes it, and each of
these leaves it so, whatever their order. A rename of a folder needs more (`FolderMoves`): the rows read at its start are still those of the table, what has not been renamed is
still on its list and has its new name free (`OldNames`), and the old row of what has been renamed holds the flag its new row is to get (`NewNames`). That neither folder lies in the
other, or nothing is there to rename (`Apart`), is what the look at the target is for. A scan of all users reads the flags user by user while others use their files: until it comes to a user it must know the blobs (`ListsOf`), which it does because any
operation since would have disturbed it, and this is where the proof needs `StorageInv` (lemma `ListBlobsKeeps`); after that its statements leave rows that fit (`FitRows`). The attempt showed
two more cases that no instance had. A file whose name was ever that of a folder shares its row with the folder, so the property is about names no other name of
the data set is inside (`Innermost`); and a placeholder, which is never indexed, that is renamed to a file arrives without a row, which `disturbed` now notes.

*The wiki.* `ContentInv`: versions are numbered from 1 without a gap, each with a text begun on its page unless swapped; an INSERT carries a
number at most one above those of the page it is for; an open editor holds a text of the page shown unless an answer has swapped it; a tab awaits one load
at most, and no editor is open meanwhile. `ShownInv` adds what is under way: an answer carries the page of the address its handler began at, in a version no older than the one
that handler has written; while a page loads, every other handler belongs to an earlier address; and a tab that awaits nothing shows its page in at least its own newest version.

*Administration pages.* The proof is about the traits of a page and not about the 28 entries of `Pages`: `Plausible` says which traits occur together, `EditsOf`
which statement belongs to which, and the rest is done once. `EntriesInv`: what was entered in a tab is with the newest of its handlers that will
write that field, or, if there is none, in the table (`Kept`); so a request that arrives in its turn carries the entry into the table, and one that was overtaken takes it
back. It needs that no identifier is known anywhere before it is issued (`IdsKnown`), or an insertion might hit an entry for a row that is to come. A renamed role is sent under a name that is in no list of the tab, which takes back what
was entered under that name before (`RenamePages`); the status of a job and an emptied category are entries of their own that are never expected (`PauseStarts`, `EmptyStarts`).

*Accounts, sessions and the gateway.* `IdentityInv`, for the whole of `McpGateway!Spec`: what a call knows at the steps where it matters (`CallHolds`), that
identifiers name guids (`AccountsHold`), that devices and the keys due to them are of the same devices (`KeysHold`). A call that makes a session is a
sign-in's, whose key is due from then on, or a refresh that has compared its key, also while it waits for the roles of its user (`then`). `AccountsAssumption` enters
at the start: one identifier per account, as the unique index has it. `GrantsInv` adds the gateway's rows: a code's agent is linked to the code's user or
was linked again (`CodesFollow`); a call on its way from a code to its token has consumed the code, is the only one of that code,
and finds no token of that grant yet, so the token it makes is the first and its grant is not among those ended (`CallsFollow`, `TokensFollow`).
`RolesInv`: a copy of the definitions, or of a user's mask, that is not what its table holds is marked as lagging or has a call on its way that will renew it
(`CopiesRenewed`), and such calls name users that there are. `WindowsInv`: there is an assignment of the requests let through in the last window to entries of their deques, each its own
(`Tracks`), so the deques are never shorter than what they must refuse by; popping old entries and the limit on a new one then bound every window, not
only the ones that end now.

*Startup.* The modules of the source are of six levels, and each waits for modules of lower levels only (`NeedsAreLower`): so of the startups
that have not returned one of the least level waits for nothing that is still to come. `StartupsHold` says what a startup that has gone on need not wait for any
more; the one exception is the authentication that gives up, which `StartupIsSound` names.

*Discord.* `QueueInv` counts: `unfinished` is the messages in the queue and the one the worker has. `ThreadsHold` says of a command before its question is stored that
its thread is empty, and after it that it has the question, or lost it to a failure or a deletion, and no answer yet. `AnswersHold` follows a command to its end:
each of its ways out has queued or sent something of its own, and what is queued or sent stays so, is delivered or is dropped. For `ChunksStayTogether` every message has a number that is given out once
(`NumbersGoOn`), so no message is at two places; only the holder of the lock has begun to send its message, and what it has sent of it are the last chunks of all (`ChunksInTurn`).
For `TextsArriveWhole` what was sent of a message and what is left to send say together what its text says (`SayTogether`), and a delivered message is over: neither queued nor
being sent. That the chunks say what the text says (`ChunksSayTheText`) is about the two loops, one inside the other, whatever the text and the limit: what has been made into chunks, the buffer and the line
at hand say together the same before and after each round (`CutOffTells`, `WrapTells`, `AddLineTells`), and only white space and separator lines are left out. The loops are recursive functions, of which
`StepByStep` shows that they go round by round and `UpTo` what holds after every round.
What is **only model-checked**, and why:

* `EveryTaskSettles` and `DueJobRuns` are liveness; `CommandsGoOn` has ENABLED.
* `RestingPageShowsTheTable`: what a list shows while handlers that load no list, handlers that do, and renamed rows overlap has no invariant here yet.

No module here has a RECURSIVE operator.

## 6. Not modelled

Left out for good, because they keep no state that decides anything or are run by hand: RPC dispatch, the query registry as a
component of its own, database and Azure providers, the database command line and the schema scripts, and of the client
its layout, navigation, login buttons, gallery and static pages.

Within components: `delete_job` and the arithmetic of cron expressions; `create_lines` with several lines and `delete_journal_lines`, which nothing
calls; prices and validation of product rows; the purge log of staging and the check for invoices imported before; the procedures that
delete accounts, which are not in the repository; `update_session`, `get_session` and `list_snapshots`, which nothing calls or which always raise; the
record of Discord guilds, counters that are only logged, and `send_sys_message`; `restart_module`, which has no caller; the expiry of tokens. The
handlers the engine calls are arbitrary.

Two hazards have no property, because none holds: a step or handler that never returns stops the tick loop
(`async_task_module.py:271`), which the fairness of section 4 assumes away; and a period is closed by another statement than
the one that lists its blockers (`finance_module.py:562`), so a journal can end up in a closed period.

## 7. What remains

* Proofs: `RestingPageShowsTheTable`; the two liveness properties and `CommandsGoOn`, should a prover for them be had.
* Abstract specifications: the books (a journal is posted in one step) for `Journal`; one atomic consumption for `CreditLots`; a map from names to files for
  `StorageIndex` between scans.
* Compositions: `ImportPromotion` with the operations of `Journal` in place of its own three; a purchase through numbers, lots and journals together; the scan of
  `StorageIndex` as a pipeline of `AsyncTask`.
