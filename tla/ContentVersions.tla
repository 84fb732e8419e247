----------------------------- MODULE ContentVersions -----------------------------
(***************************************************************************)
(* Pages with a history of versions, and the browser tabs that show and     *)
(* edit them.  The wiki (WikiPage.tsx, rpc/*/wiki, content_wiki) and the    *)
(* content pages (ContentPage.tsx, rpc/*/pages, content_pages) are the same *)
(* program over two pairs of tables; site tells which one a behaviour is    *)
(* about.  They differ in who makes a page: any visitor of a missing wiki   *)
(* page, an administrator of the content pages.                             *)
(*                                                                          *)
(* A handler of a page awaits several requests.  Each request is an action  *)
(* and so is what the handler does with its answer, because the visitor can *)
(* go on to another page, and other handlers can run, in between.  A text   *)
(* is told apart by the page on which its editing began.                    *)
(***************************************************************************)
EXTENDS Integers, FiniteSets, Sequences, FiniteSetsExt

CONSTANTS
  Tabs,           \* browser tabs, each of a user of its own
  Owner, Admins,  \* the tab of who made the first pages; those of administrators
  Slugs,          \* addresses
  ContentScenes,  \* which site, the tabs open and the addresses that have a page
                  \* at the start, the tabs whose users go to other addresses and
                  \* open the history, and the bounds of the times an address is
                  \* gone to and a save, a restore or a creation is asked for
  MaxAwaited,     \* bound: handlers of a tab awaiting a request at the same time
  MaxFaults       \* bound: requests that fail

ASSUME ContentAssumption ==
  /\ Owner \in Tabs /\ Admins \subseteq Tabs
  /\ \A sc \in ContentScenes : /\ sc.site \in {"wiki", "pages"}
                               /\ sc.walkers \subseteq sc.tabs /\ sc.tabs \subseteq Tabs
                               /\ sc.slugs \subseteq Slugs
                               /\ sc.visits \in Nat /\ sc.writes \in Nat
  /\ MaxAwaited \in Nat /\ MaxFaults \in Nat

VARIABLES
  site,           \* the scene
  library,        \* content_wiki or content_pages with their versions, by slug
  tab,            \* the state of the page component in each tab
  requests,       \* what the handlers of each tab are awaiting
  visits, writes, faults

contentVars == <<site, library, tab, requests, visits, writes, faults>>

-----------------------------------------------------------------------------
(* Tables *)

None == "none"
NoRow == [made |-> FALSE, active |-> FALSE, owner |-> None, versions |-> <<>>]

\* swapped is history: the text was saved after another page had replaced the one
\* it was begun on under the open editor.
Version(number, of, swapped) == [number |-> number, of |-> of, swapped |-> swapped]

\* The page with its first version, in one batch; the slug is UNIQUE.
NewRow(slug, by) == [made |-> TRUE, active |-> TRUE, owner |-> by,
                     versions |-> <<Version(1, slug, FALSE)>>]

WikiCreateV1(slug, by) == library' = [library EXCEPT ![slug] = NewRow(slug, by)]

PagesCreateV1(slug, by) == library' = [library EXCEPT ![slug] = NewRow(slug, by)]

\* OUTER APPLY of the version with the highest number.
Latest(slug) == Max({library[slug].versions[i].number : i \in DOMAIN library[slug].versions})

NextNumber(slug) == Latest(slug) + 1

UpdateV1(slug, active) == library' = [library EXCEPT ![slug].active = active]

DeleteV1(slug) == library' = [library EXCEPT ![slug].active = FALSE]

InsertVersion(slug, version) == library' = [library EXCEPT ![slug].versions = Append(@, version)]

ListVersionsV1(slug) == {library[slug].versions[i].number : i \in DOMAIN library[slug].versions}

\* Mutant: the constraint on versions is missing.
TakenByNone(slug, number) == FALSE

\* UNIQUE (pages_recid, element_version), and the same for the wiki.
Taken(slug, number) == number \in ListVersionsV1(slug)

-----------------------------------------------------------------------------
(* The server's answers *)

CheckContentAccess(t, slug) == t \in Admins \/ t = library[slug].owner

\* 404 unless the page exists and is active.
NoPage == [slug |-> None, version |-> 0, may |-> FALSE]

GetPage(t, slug) == IF library[slug].active
                    THEN [slug |-> slug, version |-> Latest(slug), may |-> CheckContentAccess(t, slug)]
                    ELSE NoPage

\* An editable page need not be active.
ResolveEditablePage(t, slug) == library[slug].made /\ CheckContentAccess(t, slug)

-----------------------------------------------------------------------------
(* A tab *)

NoList == [of |-> None, numbers |-> {}]

\* stray and own are history: whether the page or the list shown was set by an
\* answer to a handler of an earlier address, or by one that was overtaken by the
\* answer to a later handler; and the newest version a handler of this tab has
\* written and shown, by slug.
FirstTab(slug) ==
  [slug |-> slug, page |-> NoPage, isLoading |-> TRUE, error |-> None,
   isEditing |-> FALSE, editing |-> None, swapped |-> FALSE,
   isSaving |-> FALSE, isCreating |-> FALSE, isCreatingSaving |-> FALSE,
   isRestoring |-> 0, versions |-> NoList, showVersions |-> FALSE,
   stray |-> FALSE, own |-> [s \in Slugs |-> 0]]

\* at is the address and target the page's slug when the handler began; left is
\* history: the visitor has gone to another address since.
Request(op, step, t) ==
  [op |-> op, step |-> step, at |-> tab[t].slug, target |-> tab[t].page.slug,
   of |-> tab[t].editing, swapped |-> tab[t].swapped, number |-> 0, page |-> NoPage, left |-> FALSE]

Loading(slug) == [op |-> "load", step |-> "reload", at |-> slug, target |-> None, of |-> None,
                  swapped |-> FALSE, number |-> 0, page |-> NoPage, left |-> FALSE]

ContentInit(scene) ==
  /\ site = scene
  /\ library = [s \in Slugs |-> IF s \in scene.slugs THEN NewRow(s, Owner) ELSE NoRow]
  /\ \E s \in Slugs : /\ tab = [t \in Tabs |-> FirstTab(IF t \in scene.tabs THEN s ELSE CHOOSE a \in Slugs : TRUE)]
                     /\ requests = [t \in Tabs |-> IF t \in scene.tabs THEN {Loading(s)} ELSE {}]
  /\ visits = 0 /\ writes = 0 /\ faults = 0

Sets(t, new) == tab' = [tab EXCEPT ![t] = new]

\* The request r of tab t becomes new, or is over.
Goes(t, r, new) == requests' = [requests EXCEPT ![t] = (@ \ {r}) \cup {new}]
Ends(t, r) == requests' = [requests EXCEPT ![t] = @ \ {r}]
Asks(t, new) == /\ Cardinality(requests[t]) < MaxAwaited
                /\ requests' = [requests EXCEPT ![t] = @ \cup {new}]

At(t, r, step) == r \in requests[t] /\ r.step = step /\ UNCHANGED <<site, visits, writes, faults>>

Writes == writes < site.writes /\ writes' = writes + 1 /\ UNCHANGED <<site, visits, faults, library>>

-----------------------------------------------------------------------------
(* Going to an address *)

\* Mutant: an open editor stays open on the next page.
EnteredKeepsEditor(t, slug) ==
  [tab[t] EXCEPT !.slug = slug, !.isLoading = TRUE, !.error = None, !.versions = NoList,
                 !.showVersions = FALSE, !.isCreating = FALSE, !.stray = FALSE]

\* The effect of a new slug keeps the page shown until the next one is loaded.
Entered(t, slug) ==
  [tab[t] EXCEPT !.slug = slug, !.isLoading = TRUE, !.error = None,
                 !.isEditing = FALSE, !.editing = None, !.swapped = FALSE,
                 !.versions = NoList, !.showVersions = FALSE, !.isCreating = FALSE,
                 !.stray = FALSE]

\* Mutant: the answer to an abandoned load is still used.
AbandonedNone(t) == requests[t]

\* What the effect's cleanup does: the answer to its load is ignored from now on.
Abandoned(t) == {r \in requests[t] : r.op # "load"}

Navigate(t, slug) ==
  /\ t \in site.walkers /\ slug # tab[t].slug
  /\ Sets(t, Entered(t, slug))
  /\ requests' = [requests EXCEPT ![t] = {[r EXCEPT !.left = TRUE] : r \in Abandoned(t)} \cup {Loading(slug)}]
  /\ visits < site.visits /\ visits' = visits + 1
  /\ UNCHANGED <<site, library, writes, faults>>

\* rpc/public get_page: the effect's load, or the reload at the end of a handler.
ReadPage(t, r) ==
  /\ At(t, r, "reload")
  /\ Goes(t, r, [r EXCEPT !.step = "answer", !.page = GetPage(t, r.at)])
  /\ UNCHANGED <<library, tab>>

\* The end of the effect.
ShowLoaded(t, r) ==
  /\ At(t, r, "answer") /\ r.op = "load"
  /\ IF r.page = NoPage
     THEN Sets(t, [tab[t] EXCEPT !.error = "missing", !.isLoading = FALSE])
     ELSE Sets(t, [tab[t] EXCEPT !.page = r.page, !.isLoading = FALSE])
  /\ Ends(t, r)
  /\ UNCHANGED library

-----------------------------------------------------------------------------
(* Editing *)

\* What the rendered component offers.
Shows(t) == ~tab[t].isLoading /\ tab[t].page # NoPage
OffersEdit(t) == Shows(t) /\ tab[t].page.may /\ ~tab[t].isEditing
OffersSave(t) == Shows(t) /\ tab[t].isEditing /\ ~tab[t].isSaving
OffersHistory(t) == Shows(t) /\ ~tab[t].isEditing /\ tab[t].page.may

HandleStartEdit(t) ==
  /\ OffersEdit(t)
  /\ Sets(t, [tab[t] EXCEPT !.isEditing = TRUE, !.editing = tab[t].page.slug, !.swapped = FALSE])
  /\ UNCHANGED <<site, library, requests, visits, writes, faults>>

\* The button at the page's title is not disabled during a save.
HandleCancelEdit(t) ==
  /\ Shows(t) /\ tab[t].isEditing
  /\ Sets(t, [tab[t] EXCEPT !.isEditing = FALSE, !.editing = None, !.swapped = FALSE])
  /\ UNCHANGED <<site, library, requests, visits, writes, faults>>

HandleSave(t) ==
  /\ OffersSave(t)
  /\ Writes
  /\ Sets(t, [tab[t] EXCEPT !.isSaving = TRUE, !.error = None])
  /\ Asks(t, Request("save", "resolve", t))

\* rpc/users create_version: the page, and the next number of the INSERT, which is
\* read before the row is in the table.
ReadNextNumber(t, r) ==
  /\ At(t, r, "resolve")
  /\ ResolveEditablePage(t, r.target)
  /\ Goes(t, r, [r EXCEPT !.step = "insert", !.number = NextNumber(r.target)])
  /\ UNCHANGED <<library, tab>>

CreateVersion(t, r) ==
  /\ At(t, r, "insert")
  /\ ~Taken(r.target, r.number)
  /\ InsertVersion(r.target, Version(r.number, r.of, r.swapped))
  /\ Goes(t, r, [r EXCEPT !.step = "reload"])
  /\ UNCHANGED tab

-----------------------------------------------------------------------------
(* What a handler does with the page it has reloaded *)

\* History: a late answer, or one older than a version this tab has shown as its own.
Late(t, r) == r.left \/ r.page.version < tab[t].own[r.at]

Own(t, r) == IF r.left \/ r.at # r.target THEN tab[t].own
             ELSE [tab[t].own EXCEPT ![r.at] = Max({@, r.number})]

Swaps(t, r) == tab[t].swapped \/ (tab[t].isEditing /\ r.page.slug # tab[t].page.slug)

AfterSave(t, r) ==
  [tab[t] EXCEPT !.page = r.page, !.isEditing = FALSE, !.editing = None, !.swapped = FALSE,
                 !.versions = NoList, !.isSaving = FALSE,
                 !.stray = Late(t, r), !.own = Own(t, r)]

\* The editor stays as it is.
AfterRestore(t, r) ==
  [tab[t] EXCEPT !.page = r.page, !.swapped = Swaps(t, r),
                 !.versions = NoList, !.showVersions = FALSE, !.isRestoring = 0,
                 !.stray = Late(t, r), !.own = Own(t, r)]

AfterCreate(t, r) ==
  [tab[t] EXCEPT !.page = r.page, !.swapped = Swaps(t, r),
                 !.isCreating = FALSE, !.isCreatingSaving = FALSE,
                 !.stray = @ \/ Late(t, r), !.own = Own(t, r)]

\* catch and finally of the handler of r; an answer of 404 raises as well.
AfterFailure(t, r) ==
  CASE r.op = "load" -> [tab[t] EXCEPT !.error = "failed", !.isLoading = FALSE]
    [] r.op = "save" -> [tab[t] EXCEPT !.error = "failed", !.isSaving = FALSE]
    [] r.op = "restore" -> [tab[t] EXCEPT !.error = "failed", !.isRestoring = 0]
    [] r.op = "create" -> [tab[t] EXCEPT !.error = "failed", !.isCreatingSaving = FALSE]
    [] r.op = "list" -> [tab[t] EXCEPT !.error = "failed"]

ShowReloaded(t, r) ==
  /\ At(t, r, "answer") /\ r.op \in {"save", "restore", "create"}
  /\ Sets(t, CASE r.page = NoPage -> AfterFailure(t, r)
               [] r.page # NoPage /\ r.op = "save" -> AfterSave(t, r)
               [] r.page # NoPage /\ r.op = "restore" -> AfterRestore(t, r)
               [] r.page # NoPage /\ r.op = "create" -> AfterCreate(t, r))
  /\ Ends(t, r)
  /\ UNCHANGED library

\* A request the server refuses: the number has been taken by another save, the
\* page by another creation, or there is no such page or version.
Refused(t, r) ==
  \/ r.step = "insert" /\ Taken(r.target, r.number)
  \/ r.step = "make" /\ library[r.at].made
  \/ r.step = "check" /\ library[r.at].made
  \/ r.step = "fetch" /\ ~(ResolveEditablePage(t, r.target) /\ r.number \in ListVersionsV1(r.target))
  \/ r.step \in {"resolve", "list"} /\ ~ResolveEditablePage(t, r.target)

Refuse(t, r) ==
  /\ At(t, r, r.step)
  /\ Refused(t, r)
  /\ Sets(t, AfterFailure(t, r))
  /\ Ends(t, r)
  /\ UNCHANGED library

Fail(t, r) ==
  /\ r.step # "answer"
  /\ faults < MaxFaults /\ faults' = faults + 1
  /\ Sets(t, AfterFailure(t, r))
  /\ Ends(t, r)
  /\ UNCHANGED <<site, library, visits, writes>>

-----------------------------------------------------------------------------
(* The history of a page *)

\* The list is asked for unless there is one.
HandleToggleVersions(t) ==
  /\ t \in site.walkers /\ OffersHistory(t)
  /\ Sets(t, [tab[t] EXCEPT !.showVersions = ~@])
  /\ IF ~tab[t].showVersions /\ tab[t].versions = NoList
     THEN Asks(t, [Request("list", "list", t) EXCEPT !.of = None, !.swapped = FALSE])
     ELSE UNCHANGED requests
  /\ UNCHANGED <<site, library, visits, writes, faults>>

ListVersions(t, r) ==
  /\ At(t, r, "list")
  /\ ResolveEditablePage(t, r.target)
  /\ Goes(t, r, [r EXCEPT !.step = "answer", !.number = Cardinality(ListVersionsV1(r.target))])
  /\ UNCHANGED <<library, tab>>

ShowVersions(t, r) ==
  /\ At(t, r, "answer") /\ r.op = "list"
  /\ Sets(t, [tab[t] EXCEPT !.versions = [of |-> r.target, numbers |-> 1..r.number],
                            !.stray = @ \/ r.left \/ r.target # tab[t].page.slug])
  /\ Ends(t, r)
  /\ UNCHANGED library

\* The button of a version is disabled while that version is being restored, not
\* those of the others; the model has one at a time.
HandleRestoreVersion(t, number) ==
  /\ OffersHistory(t) /\ tab[t].showVersions
  /\ number \in tab[t].versions.numbers /\ number # tab[t].page.version
  /\ tab[t].isRestoring = 0 /\ ~\E r \in requests[t] : r.op = "restore"
  /\ Writes
  /\ Sets(t, [tab[t] EXCEPT !.isRestoring = number, !.error = None])
  /\ Asks(t, [Request("restore", "fetch", t) EXCEPT !.number = number, !.of = None, !.swapped = FALSE])

\* rpc/users get_version
GetVersion(t, r) ==
  /\ At(t, r, "fetch")
  /\ ResolveEditablePage(t, r.target)
  /\ \E i \in DOMAIN library[r.target].versions :
        LET v == library[r.target].versions[i] IN
          /\ v.number = r.number
          /\ Goes(t, r, [r EXCEPT !.step = "resolve", !.of = v.of, !.swapped = v.swapped])
  /\ UNCHANGED <<library, tab>>

-----------------------------------------------------------------------------
(* Making a page *)

StartCreate(t) ==
  /\ site.site = "wiki" /\ ~tab[t].isLoading /\ tab[t].error = "missing" /\ tab[t].page = NoPage
  /\ ~tab[t].isCreating
  /\ Sets(t, [tab[t] EXCEPT !.isCreating = TRUE])
  /\ UNCHANGED <<site, library, requests, visits, writes, faults>>

HandleCreate(t) ==
  /\ site.site = "wiki" /\ ~tab[t].isLoading /\ tab[t].error = "missing" /\ tab[t].page = NoPage
  /\ tab[t].isCreating /\ ~tab[t].isCreatingSaving
  /\ Writes
  /\ Sets(t, [tab[t] EXCEPT !.isCreatingSaving = TRUE, !.error = None])
  /\ Asks(t, Request("create", "check", t))

\* rpc/users create_page looks whether there is a page and then makes it.
CheckNoPage(t, r) ==
  /\ At(t, r, "check")
  /\ ~library[r.at].made
  /\ Goes(t, r, [r EXCEPT !.step = "make", !.target = r.at])
  /\ UNCHANGED <<library, tab>>

CreatePage(t, r) ==
  /\ At(t, r, "make")
  /\ ~library[r.at].made
  /\ WikiCreateV1(r.at, t)
  /\ Goes(t, r, [r EXCEPT !.step = "reload", !.number = 1])
  /\ UNCHANGED tab

\* The administrator's service functions; the slug of another page is refused.
ServicePagesCreate(t, slug) ==
  /\ site.site = "pages" /\ t \in Admins /\ ~library[slug].made
  /\ PagesCreateV1(slug, t)
  /\ UNCHANGED <<site, tab, requests, visits, writes, faults>>

ServicePagesUpdate(slug) ==
  /\ site.site = "pages" /\ library[slug].made /\ ~library[slug].active
  /\ UpdateV1(slug, TRUE)
  /\ UNCHANGED <<site, tab, requests, visits, writes, faults>>

ServicePagesDelete(slug) ==
  /\ site.site = "pages" /\ library[slug].active
  /\ DeleteV1(slug)
  /\ UNCHANGED <<site, tab, requests, visits, writes, faults>>

-----------------------------------------------------------------------------

Visits(t) ==
  \/ \E slug \in Slugs : Navigate(t, slug)
  \/ HandleStartEdit(t) \/ HandleCancelEdit(t) \/ HandleSave(t)
  \/ HandleToggleVersions(t) \/ \E n \in 1..(site.writes + 1) : HandleRestoreVersion(t, n)
  \/ StartCreate(t) \/ HandleCreate(t)

Continues(t) ==
  \E r \in requests[t] :
    \/ ReadPage(t, r) \/ ShowLoaded(t, r)
    \/ ReadNextNumber(t, r) \/ CreateVersion(t, r) \/ ShowReloaded(t, r)
    \/ ListVersions(t, r) \/ ShowVersions(t, r) \/ GetVersion(t, r)
    \/ CheckNoPage(t, r) \/ CreatePage(t, r)
    \/ Refuse(t, r) \/ Fail(t, r)

Administers ==
  \E slug \in Slugs : \/ \E t \in Tabs : ServicePagesCreate(t, slug)
                      \/ ServicePagesUpdate(slug) \/ ServicePagesDelete(slug)

ContentNext == \/ \E t \in Tabs : Visits(t) \/ Continues(t)
               \/ Administers

-----------------------------------------------------------------------------
(* Properties *)

\* The versions of a page are numbered without a gap or a repetition, in the order
\* in which they were saved: two saves, restores or creations at the same time
\* cannot take the same number or the same address.  CreateVersion, CreatePage
HistoryIsKept ==
  \A s \in Slugs : \A i \in DOMAIN library[s].versions : library[s].versions[i].number = i

\* A version of a page is a text whose editing began on that page, whatever pages
\* the visitor has gone to during the requests: unless the page was replaced under
\* the open editor, by the answer to a restore that was begun elsewhere.
\* HandleSave, Navigate
EditsStayOnTheirPage ==
  \A s \in Slugs : \A i \in DOMAIN library[s].versions :
    library[s].versions[i].of = s \/ library[s].versions[i].swapped

\* A tab at rest shows the page of its address and the history of that page, and no
\* version older than one it has written itself; unless an answer came late, to a
\* handler of an earlier address or after the answer to a later request.
\* loadPage, the effect of a new slug
ShownFollowsTheAddress ==
  \A t \in site.tabs :
    (requests[t] = {} /\ tab[t].error = None /\ ~tab[t].stray) =>
      /\ tab[t].page.slug = tab[t].slug
      /\ tab[t].page.version >= tab[t].own[tab[t].slug]
      /\ tab[t].versions # NoList => tab[t].versions.of = tab[t].page.slug

=============================================================================
