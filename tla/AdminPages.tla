------------------------------- MODULE AdminPages -------------------------------
(***************************************************************************)
(* The pages on which administrators and users change tables: a list of     *)
(* rows, what can be done to one, and handlers that await the server and     *)
(* then load the list again.  The pages differ in what a handler does before *)
(* it awaits, in what it sends - the row as shown when it was clicked, one   *)
(* field, a form filled from the row earlier - and in what follows; a page   *)
(* is a record of these traits.  The tables differ in what their statement   *)
(* does with a row that has gone meanwhile.                                  *)
(*                                                                          *)
(* A behaviour is about one page, open in several tabs.  A request of a      *)
(* handler is served by one action; the list it loads is read by one action  *)
(* and shown by another, because answers may overtake each other and other   *)
(* handlers run in between.                                                  *)
(***************************************************************************)
EXTENDS Integers, FiniteSets, Sequences, FiniteSetsExt

CONSTANTS
  Desks,          \* browser tabs
  PageScenes,     \* the page, the tabs it is open in, the bounds of the commands
                  \* given and of the requests that fail
  MaxRuns         \* bound: handlers of a tab under way at the same time

VARIABLES
  desk,           \* the scene
  rows,           \* the table of the page: a function from identifiers to rows
  issued,         \* identifiers handed out
  view,           \* the state of the page in each tab
  runs,           \* the handlers of each tab under way, in the order of their clicks
  served,         \* commands served so far
  commands, losses

pageVars == <<desk, rows, issued, view, runs, served, commands, losses>>

-----------------------------------------------------------------------------
(* The pages *)

\* edit is what a handler sends of an edited row: "row", the whole row as shown;
\* "cell", one field; "form", a copy that was edited apart; "step", a command that
\* advances its status; or nothing.  shows: when the edit is shown, "before" it is
\* sent (and put back if that fails: "undone"), "after" the answer, or once "loaded".
\* reloads: the list is loaded after an edit.  clears: a list that fails to load is
\* emptied.  holds: the commands disabled while the page is busy.  ops: the others.
Page(edit, shows, reloads, clears, holds, ops) ==
  [edit |-> edit, shows |-> shows, reloads |-> reloads, clears |-> clears, holds |-> holds, ops |-> ops]

ServiceRoutesPage == Page("row", "before", TRUE, TRUE, {}, {"add", "drop"})

SystemModelsPage == Page("row", "before", TRUE, TRUE, {}, {"add", "drop"})

DiscordPersonasPage == Page("row", "before", TRUE, TRUE, {}, {"add", "drop"})

\* The list is loaded after an addition or a deletion, not after an edit, of whatever
\* column.  An arrow moves a role with the one it changes places with: two edits, sent
\* together.
ServiceRolesPage == Page("row", "before", FALSE, TRUE, {}, {"add", "drop", "rename"})

\* One request for every key pressed.
SystemConfigPage == Page("cell", "before", FALSE, TRUE, {}, {})

DiscordGuildsPage == Page("cell", "before", TRUE, TRUE, {}, {"load"})

ServicePagesPage == Page("cell", "loaded", TRUE, TRUE, {}, {"add", "drop"})

\* The check box of a job sends all of it; so does the button that is to pause it.
JobButtons == Page("row", "loaded", TRUE, FALSE, {}, {"drop"})

JobForm == Page("form", "loaded", TRUE, FALSE, {}, {"add"})

ServiceRenewalsPage == Page("form", "loaded", TRUE, FALSE, {}, {"add", "drop", "load"})

AccountRolesPage == Page("none", "loaded", TRUE, TRUE, {}, {"add", "drop"})

\* The list is loaded every ten seconds as long as a task is active.
SystemAsyncTasksPage == Page("step", "loaded", TRUE, FALSE, {}, {"load"})

FileManager == Page("cell", "loaded", TRUE, TRUE, {}, {"drop"})

\* One page of a user's: the profile is loaded again when the name or the default
\* provider has been set, which shows all four; when that fails nothing is shown.
UserDisplayName == Page("cell", "before", TRUE, TRUE, {}, {"load"})

UserEmailDisplay == Page("cell", "before", FALSE, TRUE, {}, {"load"})

UserDefaultProvider == Page("cell", "undone", TRUE, TRUE, {}, {"load"})

\* The new list is made of the one shown at the click.
UserProviders == Page("none", "after", FALSE, TRUE, {}, {"add", "drop", "load"})

ProductsPage == Page("step", "loaded", TRUE, FALSE, {"edit"}, {})

AdminLedgers == Page("form", "loaded", TRUE, FALSE, {"edit", "add"}, {"add", "drop"})

AdminProducts == Page("form", "loaded", TRUE, FALSE, {"edit", "add", "drop"}, {"add", "drop"})

AdminPeriods == Page("step", "loaded", TRUE, FALSE, {}, {})

AdminVendors == Page("form", "loaded", TRUE, FALSE, {}, {"add"})

AdminMappings == Page("form", "loaded", TRUE, FALSE, {}, {"add", "drop"})

AccountantImports == Page("none", "loaded", TRUE, FALSE, {}, {"add", "drop"})

AccountantJournals == Page("step", "loaded", TRUE, FALSE, {}, {"load"})

AccountantLots == Page("step", "loaded", TRUE, FALSE, {}, {"add", "load"})

AccountantNumbers == Page("form", "loaded", TRUE, FALSE, {}, {"add", "drop", "load"})

ManagerQueue == Page("step", "loaded", TRUE, FALSE, {}, {"load"})

Pages ==
  [routes |-> ServiceRoutesPage, models |-> SystemModelsPage, personas |-> DiscordPersonasPage,
   roles |-> ServiceRolesPage, config |-> SystemConfigPage, guilds |-> DiscordGuildsPage,
   contents |-> ServicePagesPage, jobs |-> JobButtons, jobForm |-> JobForm,
   renewals |-> ServiceRenewalsPage, members |-> AccountRolesPage, tasks |-> SystemAsyncTasksPage,
   files |-> FileManager, names |-> UserDisplayName, emails |-> UserEmailDisplay, provider |-> UserDefaultProvider,
   providers |-> UserProviders, shop |-> ProductsPage, ledgers |-> AdminLedgers,
   products |-> AdminProducts, periods |-> AdminPeriods, vendors |-> AdminVendors,
   mappings |-> AdminMappings, imports |-> AccountantImports, journals |-> AccountantJournals,
   lots |-> AccountantLots, numbers |-> AccountantNumbers, queue |-> ManagerQueue]

ASSUME PageAssumption ==
  /\ \A sc \in PageScenes : /\ sc.page \in DOMAIN Pages /\ sc.tabs \subseteq Desks
                            /\ sc.commands \in Nat /\ sc.losses \in Nat
  /\ MaxRuns \in Nat

This == Pages[desk.page]

\* The fields that can be edited; a is the status where a command advances it, and the
\* category of a content page.
Editable == CASE desk.page \in {"config", "guilds", "names", "emails", "provider", "jobs"} -> {"a"}
              [] desk.page = "ledgers" -> {"b"}
              [] OTHER -> {"a", "b"}

\* The rows of these are identified by what the user enters, not by a number.
Keyed == desk.page \in {"routes", "roles", "members", "providers"}
Keys == {1, 2}

-----------------------------------------------------------------------------
(* The statements *)

Row(a, b) == [a |-> a, b |-> b]
Blank == Row(0, 0)

\* The row at the key, there or not.
PutAt(key, row) == /\ rows' = [k \in DOMAIN rows \cup {key} |-> IF k = key THEN row ELSE rows[k]]
                   /\ issued' = Max({issued, key})

\* The row with the identifier; if it has gone, a new row with another one.
PutOrInsert(id, row) == IF id \in DOMAIN rows THEN PutAt(id, row) ELSE PutAt(issued + 1, row)

\* Nothing, if the row has gone.
PutField(id, f, value) ==
  /\ rows' = IF id \in DOMAIN rows THEN [rows EXCEPT ![id][f] = value] ELSE rows
  /\ UNCHANGED issued

TakeAway(id) == rows' = [k \in DOMAIN rows \ {id} |-> rows[k]] /\ UNCHANGED issued

UpsertRouteV1(id, row) == PutAt(id, row)

UpsertRoleRow(id, row) == PutAt(id, row)

UpsertConfigV1(id, value) == PutAt(id, Row(value, 1))

ModelsUpsertV1(id, row) == PutOrInsert(id, row)

UpsertPersonaV1(id, row) == PutOrInsert(id, row)

\* The status that is sent with a job is not written.
UpsertJobV1(id, row) == PutOrInsert(id, row)

UpsertRenewalV1(id, row) == PutOrInsert(id, row)

ProductsUpsertV1(id, row) == PutOrInsert(id, row)

UpsertVendorV1(id, row) == PutOrInsert(id, row)

UpsertAccountMapV1(id, row) == PutOrInsert(id, row)

UpsertNumberV1(id, row) == PutOrInsert(id, row)

UpdateCreditsV1(id, value) == PutField(id, "a", value)

\* A column for which nothing is sent stays as it was.
PageUpdateV1(id, f, value) == IF value = 0 THEN UNCHANGED <<rows, issued>> ELSE PutField(id, f, value)

SetProfileField(id, f, value) == PutField(id, f, value)

LedgerUpdateV1(id, row) == PutAt(id, row)

\* A deleted ledger stays in the table, inactive.
LedgerDeleteV1(id) == rows' = [rows EXCEPT ![id].a = 0] /\ UNCHANGED issued

Advance(id, from) == PutField(id, "a", from + 1)

Update(r) ==
  LET row == r.row  value == r.row[r.f] IN
  \/ desk.page = "routes" /\ UpsertRouteV1(r.id, row)
  \/ desk.page = "roles" /\ UpsertRoleRow(r.id, row)
  \/ desk.page = "models" /\ ModelsUpsertV1(r.id, row)
  \/ desk.page = "personas" /\ UpsertPersonaV1(r.id, row)
  \/ desk.page \in {"jobs", "jobForm"} /\ UpsertJobV1(r.id, row)
  \/ desk.page = "renewals" /\ UpsertRenewalV1(r.id, row)
  \/ desk.page = "products" /\ ProductsUpsertV1(r.id, row)
  \/ desk.page = "vendors" /\ UpsertVendorV1(r.id, row)
  \/ desk.page = "mappings" /\ UpsertAccountMapV1(r.id, row)
  \/ desk.page = "numbers" /\ UpsertNumberV1(r.id, row)
  \/ desk.page = "ledgers" /\ LedgerUpdateV1(r.id, row)
  \/ desk.page = "config" /\ UpsertConfigV1(r.id, value)
  \/ desk.page = "guilds" /\ UpdateCreditsV1(r.id, value)
  \/ desk.page \in {"names", "emails", "provider"} /\ SetProfileField(r.id, r.f, value)
  \/ desk.page \in {"contents", "files"} /\ PageUpdateV1(r.id, r.f, value)
  \/ This.edit = "step" /\ Advance(r.id, row.a)

\* A command on a status other than the one it is for, on a ledger that has gone,
\* or for an identity that is linked already is refused.
Declined(r) ==
  \/ r.op = "edit" /\ This.edit = "step" /\ ~(r.id \in DOMAIN rows /\ rows[r.id].a = r.row.a)
  \/ desk.page = "ledgers" /\ r.op \in {"edit", "drop"} /\ r.id \notin DOMAIN rows
  \/ desk.page = "providers" /\ (r.op = "add") = (r.id \in DOMAIN rows)

Executes(r) ==
  \/ r.op = "edit" /\ Update(r)
  \/ r.op = "add" /\ PutAt(IF Keyed THEN r.id ELSE issued + 1, r.row)
  \/ r.op = "rename" /\ UpsertRoleRow(r.id, r.row)
  \/ r.op = "drop" /\ desk.page = "ledgers" /\ LedgerDeleteV1(r.id)
  \/ r.op = "drop" /\ desk.page # "ledgers" /\ TakeAway(r.id)

-----------------------------------------------------------------------------
(* A tab *)

Closed == [id |-> 0, row |-> Blank]

\* Besides its state, what the properties are about: at and best, when the list
\* shown and the newest list shown were read; spoilt, when something happened that
\* the tab does not know of; typed, what was entered in this tab and not replaced
\* since, by another tab or by an older row this one has sent.
FirstView(list) ==
  [list |-> list, form |-> Closed, busy |-> FALSE, at |-> 0, best |-> 0, spoilt |-> 0,
   typed |-> [k \in 1..(desk.commands + 2) |-> Blank]]

PageInit(scene) ==
  /\ desk = scene
  /\ rows = [k \in {1} |-> Row(1, 1)] /\ issued = 1
  /\ view = [t \in Desks |-> FirstView(rows)]
  /\ runs = [t \in Desks |-> {}]
  /\ served = 0 /\ commands = 0 /\ losses = 0

Now == served + losses

Knows(t, id) == id \in DOMAIN view[t].list

\* Mutant: the buttons stay enabled while the page is busy.
HeldNone(t, op) == FALSE

\* isBusy, busySku
Held(t, op) == op \in This.holds /\ view[t].busy

\* A handler begins: op, and the row it is about.
Begins(t, op, id, f, row) ==
  /\ ~Held(t, op)
  /\ Cardinality(runs[t]) < MaxRuns
  /\ commands < desk.commands /\ commands' = commands + 1
  /\ runs' = [runs EXCEPT ![t] = @ \cup
                {[n |-> commands + 1, op |-> op, step |-> IF op = "load" THEN "read" ELSE "send",
                  id |-> id, f |-> f, row |-> row, was |-> view[t].list, list |-> <<>>, at |-> 0]}]
  /\ UNCHANGED <<desk, rows, issued, served, losses>>

Fresh == commands + 2

\* What is entered, and what the whole row sent with it takes back.
Enters(t, id, f, row) ==
  IF This.edit # "cell" /\ \E g \in {"a", "b"} \ {f} : view[t].typed[id][g] \notin {0, row[g]}
  THEN [view[t].typed EXCEPT ![id] = [Blank EXCEPT ![f] = Fresh]]
  ELSE [view[t].typed EXCEPT ![id][f] = Fresh]

EditRow(t, id, f) ==
  /\ This.edit \in {"row", "cell"} /\ Knows(t, id) /\ f \in Editable
  /\ LET row == [view[t].list[id] EXCEPT ![f] = Fresh] IN
       /\ Begins(t, "edit", id, f, row)
       /\ view' = [view EXCEPT ![t].typed = Enters(t, id, f, row),
                               ![t].list = IF This.shows \in {"before", "undone"}
                                           THEN [@ EXCEPT ![id] = row] ELSE @]

\* What a row sent as shown takes back of what was entered.
TakesBack(t, id) ==
  IF \E g \in {"a", "b"} : view[t].typed[id][g] \notin {0, view[t].list[id][g]}
  THEN [view[t].typed EXCEPT ![id] = Blank] ELSE view[t].typed

\* The button sends the row with another status.
PauseJob(t, id) ==
  /\ desk.page = "jobs" /\ Knows(t, id)
  /\ Begins(t, "edit", id, "a", view[t].list[id])
  /\ view' = [view EXCEPT ![t].typed = TakesBack(t, id)]

\* A category that is emptied is sent as nothing.
EmptyCategory(t, id) ==
  /\ desk.page = "contents" /\ Knows(t, id)
  /\ Begins(t, "edit", id, "a", [view[t].list[id] EXCEPT !.a = 0])
  /\ view' = [view EXCEPT ![t].typed[id].a = 0]

\* A role is sent under the name entered and shown under it; the row with the old name
\* stays in the table.
RenameRole(t, id, name) ==
  /\ "rename" \in This.ops /\ Knows(t, id) /\ name \in Keys \ DOMAIN view[t].list
  /\ Begins(t, "rename", name, "a", view[t].list[id])
  /\ view' = [view EXCEPT ![t].typed[name] = Blank,
                          ![t].list = [k \in (DOMAIN @ \ {id}) \cup {name} |->
                                         IF k = name THEN view[t].list[id] ELSE @[k]]]

\* The forms of these are dialogs: nothing else can be clicked.
Modal(t) == desk.page \in {"ledgers", "products"} /\ view[t].form # Closed

OpenForm(t, id) ==
  /\ This.edit = "form" /\ ~Modal(t) /\ Knows(t, id)
  /\ view' = [view EXCEPT ![t].form = [id |-> id, row |-> view[t].list[id]]]
  /\ UNCHANGED <<desk, rows, issued, runs, served, commands, losses>>

SaveForm(t, f) ==
  /\ view[t].form # Closed /\ f \in Editable
  /\ LET id == view[t].form.id
         row == [view[t].form.row EXCEPT ![f] = Fresh]
     IN /\ Begins(t, "edit", id, f, row)
        /\ view' = [view EXCEPT ![t].typed = Enters(t, id, f, row), ![t].form.row = row,
                                ![t].busy = TRUE]

Command(t, id) ==
  /\ This.edit = "step" /\ Knows(t, id)
  /\ Begins(t, "edit", id, "a", view[t].list[id])
  /\ view' = [view EXCEPT ![t].busy = TRUE]

HandleDelete(t, id) ==
  /\ "drop" \in This.ops /\ Knows(t, id)
  /\ ~Modal(t)
  /\ Begins(t, "drop", id, "a", Blank)
  /\ view' = [view EXCEPT ![t].typed[id] = Blank, ![t].busy = TRUE]

HandleAdd(t, id) ==
  /\ "add" \in This.ops
  /\ ~Modal(t)
  /\ IF Keyed THEN id \in Keys \ DOMAIN view[t].list ELSE id = 0
  /\ Begins(t, "add", id, "a", Row(Fresh, Fresh))
  /\ view' = [view EXCEPT ![t].typed = IF Keyed THEN [@ EXCEPT ![id] = Row(Fresh, Fresh)] ELSE @,
                          ![t].busy = TRUE]

\* A button, or the timer of the tasks page.
Load(t) ==
  /\ "load" \in This.ops
  /\ Begins(t, "load", 0, "a", Blank)
  /\ UNCHANGED view

-----------------------------------------------------------------------------
(* The requests of a handler *)

Has(t, r, step) == r \in runs[t] /\ r.step = step /\ UNCHANGED <<desk, commands>>
Turns(t, r, new) == runs' = [runs EXCEPT ![t] = (@ \ {r}) \cup {new}]
Leaves(t, r) == runs' = [runs EXCEPT ![t] = @ \ {r}]

\* Mutant: no list is loaded after an edit.
NextStepAnswer(r) == "answer"

NextStep(r) ==
  IF r.op = "rename" \/ (r.op = "edit" /\ ~This.reloads) \/ This.shows = "after" THEN "answer" ELSE "read"

\* Another command on the row, given earlier, has yet to arrive.
Overtakes(t, r) ==
  \E q \in runs[t] : q.step = "send" /\ q.n < r.n /\ q.id = r.id /\ (This.edit = "cell" => q.f = r.f)

Forgets(typed, r) ==
  IF r.id \notin DOMAIN typed THEN typed
  ELSE IF This.edit = "cell" /\ r.op = "edit" THEN [typed EXCEPT ![r.id][r.f] = 0]
  ELSE [typed EXCEPT ![r.id] = Blank]

\* A form is closed when what it sent has arrived, or at the end of its handler.
ClosesLate == desk.page \in {"jobForm", "renewals"}
FormAfter(t, r, late) ==
  IF This.edit = "form" /\ r.op = "edit" /\ ClosesLate = late THEN Closed ELSE view[t].form

\* A handler that loads no list may leave one that lacks its change: it was read before
\* the change was served and is yet to be shown.  A renamed role's old row is lacking
\* as well.
Lacks(t, r) == NextStep(r) = "answer" /\ (r.op = "rename" \/ \E q \in runs[t] : q.step = "show")

\* The same: the change is yet to be served, or its answer to replace the list.
LackedBy(t) ==
  \E q \in runs[t] : \/ q.step = "send" /\ NextStep(q) = "answer"
                     \/ q.step = "answer" /\ This.shows = "after"

OneAtATime == {"edit"} \cup This.ops \subseteq This.holds

Serve(t, r) ==
  /\ Has(t, r, "send")
  /\ ~Declined(r)
  /\ Executes(r)
  /\ served' = served + 1
  /\ Turns(t, r, [r EXCEPT !.step = NextStep(r)])
  /\ view' = [d \in Desks |->
       IF d # t THEN [view[d] EXCEPT !.spoilt = Now + 1, !.typed = Forgets(@, r)]
       ELSE [view[d] EXCEPT !.form = FormAfter(t, r, FALSE),
                            !.spoilt = IF Overtakes(t, r) \/ Lacks(t, r) THEN Now + 1 ELSE @,
                            !.typed = IF Overtakes(t, r) /\ ~OneAtATime THEN Forgets(@, r) ELSE @]]
  /\ UNCHANGED losses

Decline(t, r) ==
  /\ Has(t, r, "send")
  /\ Declined(r)
  /\ Leaves(t, r)
  /\ view' = [view EXCEPT ![t].busy = FALSE, ![t].typed = Forgets(@, r)]
  /\ UNCHANGED <<rows, issued, served, losses>>

\* The end of a handler that loads no list.
Finish(t, r) ==
  /\ Has(t, r, "answer")
  /\ Leaves(t, r)
  /\ view' = [view EXCEPT
       ![t].list = CASE This.shows = "after" /\ r.op = "add" ->
                          [k \in DOMAIN r.was \cup {r.id} |-> IF k = r.id THEN r.row ELSE r.was[k]]
                     [] This.shows = "after" /\ r.op = "drop" ->
                          [k \in DOMAIN r.was \ {r.id} |-> r.was[k]]
                     [] OTHER -> @,
       ![t].busy = FALSE,
       ![t].spoilt = IF This.shows = "after" /\ r.was # view[t].list THEN Now + 1 ELSE @]
  /\ UNCHANGED <<rows, issued, served, losses>>

ReadList(t, r) ==
  /\ Has(t, r, "read")
  /\ Turns(t, r, [r EXCEPT !.step = "show", !.list = rows, !.at = Now])
  /\ UNCHANGED <<rows, issued, view, served, losses>>

ShowList(t, r) ==
  /\ Has(t, r, "show")
  /\ Leaves(t, r)
  /\ view' = [view EXCEPT ![t].list = r.list, ![t].at = r.at, ![t].best = Max({@, r.at}),
                          ![t].busy = FALSE, ![t].form = FormAfter(t, r, TRUE),
                          ![t].spoilt = IF LackedBy(t) THEN Max({@, r.at + 1}) ELSE @]
  /\ UNCHANGED <<rows, issued, served, losses>>

\* What a failure in the handler leaves of what was shown before the edit.
PutBack(t, r) ==
  IF This.shows = "undone" /\ r.op = "edit" THEN [view[t].list EXCEPT ![r.id] = r.was[r.id]] ELSE view[t].list

\* A request fails: before it was served, or with its answer.
Lose(t, r) ==
  /\ Has(t, r, r.step)
  /\ losses < desk.losses /\ losses' = losses + 1
  /\ Leaves(t, r)
  /\ \E empties \in {This.clears /\ r.step \in {"read", "show"}, FALSE} :
       view' = [view EXCEPT
         ![t].list = IF empties THEN <<>> ELSE PutBack(t, r),
         ![t].busy = FALSE,
         ![t].typed = IF r.op # "load" /\ r.step = "send" THEN Forgets(@, r) ELSE @,
         ![t].spoilt = Now + 1]
  /\ UNCHANGED <<rows, issued, served>>

-----------------------------------------------------------------------------

Clicks(t) ==
  \/ \E id \in DOMAIN view[t].list : \/ \E f \in {"a", "b"} : EditRow(t, id, f)
                                     \/ OpenForm(t, id) \/ Command(t, id) \/ HandleDelete(t, id)
                                     \/ PauseJob(t, id) \/ EmptyCategory(t, id)
                                     \/ \E name \in Keys : RenameRole(t, id, name)
  \/ \E f \in {"a", "b"} : SaveForm(t, f)
  \/ \E id \in Keys \cup {0} : HandleAdd(t, id)
  \/ Load(t)

Runs(t) == \E r \in runs[t] : \/ Serve(t, r) \/ Decline(t, r) \/ Finish(t, r)
                              \/ ReadList(t, r) \/ ShowList(t, r) \/ Lose(t, r)

PageNext == \E t \in desk.tabs : Clicks(t) \/ Runs(t)

-----------------------------------------------------------------------------
(* Properties *)

Whole(t) == runs[t] = {} /\ view[t].at = view[t].best /\ view[t].spoilt <= view[t].at

\* A page at rest shows the table as it is, whatever its handlers did meanwhile,
\* unless since its list was read another tab has changed the table, a request has
\* failed, commands or answers have arrived in another order than they were sent, a
\* role was renamed, or a handler that loads no list changed a row while a list was on
\* its way.  And its buttons are enabled.  load, isBusy
RestingPageShowsTheTable ==
  \A t \in desk.tabs :
    Whole(t) => view[t].list = rows /\ ~view[t].busy

\* What was entered in a tab is in the table when its handlers have ended: until
\* another tab writes the row, the same tab sends an older copy of it, or, unless
\* the page allows one command at a time, an earlier command arrives late.  Not what
\* was refused or failed to arrive, nor what no statement writes: the status of a job
\* and a category that is emptied.
\* updateRoute, updateItem, save, updatePage, saveForm
OwnEditsAreKept ==
  \A t \in desk.tabs : runs[t] = {} =>
    \A id \in DOMAIN rows \cap DOMAIN view[t].typed : \A f \in {"a", "b"} :
      view[t].typed[id][f] \in {0, rows[id][f]}

=============================================================================
