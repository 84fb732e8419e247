-------------------------- MODULE AdministrationProofs --------------------------
(***************************************************************************)
(* Proofs about what users and administrators see and edit on their pages,   *)
(* and about what they import, for every value of the constants:             *)
(* ContentVersions, ImportPromotion and AdminPages, which share no variable. *)
(***************************************************************************)
EXTENDS ContentVersions, AdminPages, ImportPromotion, FiniteSetTheorems, TLAPS

(***************************************************************************)
(* ContentVersions: the versions of a page are numbered in the order of their*)
(* saving, and each is a text that was begun on its page.                   *)
(***************************************************************************)

ContentSpec == (\E sc \in ContentScenes : ContentInit(sc)) /\ [][ContentNext]_contentVars

-----------------------------------------------------------------------------
(* The inductive invariant *)

IsHistory(v) == v \in Seq({v[i] : i \in DOMAIN v})

\* A page has versions once it is made, numbered from 1.
IsRow(s, x) ==
  /\ x = [made |-> x.made, active |-> x.active, owner |-> x.owner, versions |-> x.versions]
  /\ IsHistory(x.versions)
  /\ x.active => x.made
  /\ x.made => Len(x.versions) > 0
  /\ ~x.made => Len(x.versions) = 0
  /\ \A i \in DOMAIN x.versions : /\ x.versions[i].number = i
                                  /\ x.versions[i].of = s \/ x.versions[i].swapped

PageOK(p) == p = NoPage \/ p.slug \in Slugs

RequestFields == {"op", "step", "at", "target", "of", "swapped", "number", "page", "left"}

IsRequest(r) == DOMAIN r = RequestFields

\* What a request that is awaited knows: a save the text and its page, an INSERT the
\* number it read, which nobody may have taken yet.
RequestOK(r) ==
  /\ IsRequest(r) /\ r.at \in Slugs
  /\ r.step \in {"reload", "answer", "resolve", "insert", "check", "make", "fetch", "list"}
  /\ r.op \in {"load", "save", "restore", "create", "list"}
  /\ r.op = "load" => r.step \in {"reload", "answer"}
  /\ r.step = "fetch" => r.target \in Slugs
  /\ r.step \in {"resolve", "insert"} => r.target \in Slugs /\ (r.of = r.target \/ r.swapped)
  /\ r.step = "insert" => /\ library[r.target].made
                          /\ r.number \in 1 .. Len(library[r.target].versions) + 1
  /\ PageOK(r.page)

TabFields == {"slug", "page", "isLoading", "error", "isEditing", "editing", "swapped", "isSaving",
              "isCreating", "isCreatingSaving", "isRestoring", "versions", "showVersions", "stray",
              "own"}

IsTab(x) == DOMAIN x = TabFields

\* An open editor holds a text of the page shown, unless that was swapped under it.
TabOK(x) ==
  /\ IsTab(x) /\ x.slug \in Slugs /\ PageOK(x.page)
  /\ x.isEditing => ~x.isLoading /\ (x.editing = x.page.slug \/ x.swapped)

\* A tab awaits one load at most, and only while it shows that it is loading.
LoadsOK(t) ==
  /\ \A r \in requests[t] : r.op = "load" => tab[t].isLoading
  /\ \A r, q \in requests[t] : r.op = "load" /\ q.op = "load" => r = q

LibraryOK == library = [s \in Slugs |-> library[s]] /\ \A s \in Slugs : IsRow(s, library[s])

ContentShape ==
  /\ LibraryOK
  /\ tab = [t \in Tabs |-> tab[t]] /\ \A t \in Tabs : TabOK(tab[t])
  /\ requests = [t \in Tabs |-> requests[t]] /\ \A t \in Tabs : \A r \in requests[t] : RequestOK(r)

ContentInv == ContentShape /\ \A t \in Tabs : LoadsOK(t)

-----------------------------------------------------------------------------
(* Histories *)

LEMMA HistoryFacts ==
  ASSUME NEW v, IsHistory(v)
  PROVE  DOMAIN v = 1 .. Len(v) /\ Len(v) \in Nat
  BY DEF IsHistory

LEMMA HistoryAppended ==
  ASSUME NEW v, IsHistory(v), NEW e
  PROVE  LET new == Append(v, e)
         IN  /\ IsHistory(new) /\ Len(new) = Len(v) + 1
             /\ \A i \in 1 .. Len(v) : new[i] = v[i]
             /\ new[Len(v) + 1] = e
  <1> DEFINE S == {v[i] : i \in DOMAIN v} \cup {e}
             new == Append(v, e)
  <1>1. v \in Seq(S) /\ e \in S
    BY DEF IsHistory
  <1> HIDE DEF S
  <1>2. /\ new \in Seq(S) /\ Len(new) = Len(v) + 1
        /\ \A i \in 1 .. Len(v) : new[i] = v[i]
        /\ new[Len(v) + 1] = e
    BY <1>1
  <1> HIDE DEF new
  <1>3. IsHistory(new)
    BY <1>2 DEF IsHistory
  <1> QED
    BY <1>2, <1>3 DEF new

\* The newest version of a page is the last one.
LEMMA LatestIsLast ==
  ASSUME NEW s \in Slugs, IsRow(s, library[s]), library[s].made
  PROVE  /\ Latest(s) = Len(library[s].versions) /\ Latest(s) \in Nat
         /\ ListVersionsV1(s) = 1 .. Len(library[s].versions)
  <1> DEFINE v == library[s].versions
             S == {v[i].number : i \in DOMAIN v}
  <1>1. DOMAIN v = 1 .. Len(v) /\ Len(v) \in Nat /\ Len(v) > 0
    BY HistoryFacts DEF IsRow
  <1>2. S = 1 .. Len(v)
    BY <1>1 DEF IsRow
  <1>3. ListVersionsV1(s) = S /\ Latest(s) = Max(S)
    BY DEF ListVersionsV1, Latest
  <1> HIDE DEF S, v
  <1>4. Max(S) = Len(v)
    BY <1>1, <1>2 DEF Max
  <1> QED
    BY <1>1, <1>2, <1>3, <1>4 DEF v

-----------------------------------------------------------------------------
(* The tables *)

\* No page is unmade and no version lost.
Grows == \A s \in Slugs : library[s].made => /\ library'[s].made
                                             /\ Len(library[s].versions) <= Len(library'[s].versions)

LEMMA RequestStays ==
  ASSUME LibraryOK, LibraryOK', Grows, NEW r, RequestOK(r)
  PROVE  RequestOK(r)'
  <1>1. CASE r.step # "insert"
    BY <1>1 DEF RequestOK
  <1>2. CASE r.step = "insert"
    <2>1. r.target \in Slugs /\ library[r.target].made
      BY <1>2 DEF RequestOK
    <2>2. /\ Len(library[r.target].versions) \in Nat /\ Len(library'[r.target].versions) \in Nat
          /\ library'[r.target].made
          /\ Len(library[r.target].versions) <= Len(library'[r.target].versions)
      BY <2>1, HistoryFacts DEF LibraryOK, IsRow, Grows
    <2>a. r.number \in 1 .. Len(library[r.target].versions) + 1
      BY <1>2 DEF RequestOK
    <2>3. r.number \in 1 .. Len(library'[r.target].versions) + 1
      <3>1. PICK m : m = Len(library[r.target].versions)
        OBVIOUS
      <3>2. PICK n : n = Len(library'[r.target].versions)
        OBVIOUS
      <3>3. m \in Nat /\ n \in Nat /\ m <= n /\ r.number \in 1 .. m + 1
        BY <2>2, <2>a, <3>1, <3>2
      <3>4. r.number \in 1 .. n + 1
        BY <3>3
      <3> QED
        BY <3>2, <3>4
    <2> QED
      BY <1>2, <2>2, <2>3 DEF RequestOK
  <1> QED
    BY <1>1, <1>2

LEMMA LibraryStays ==
  ASSUME LibraryOK, UNCHANGED library
  PROVE  LibraryOK' /\ Grows
  <1>1. \A s \in Slugs : Len(library[s].versions) \in Nat
    BY HistoryFacts DEF LibraryOK, IsRow
  <1> QED
    BY <1>1 DEF LibraryOK, Grows

\* One row is replaced.
LEMMA RowReplaced ==
  ASSUME LibraryOK, NEW s \in Slugs, NEW x, library' = [library EXCEPT ![s] = x], IsRow(s, x),
         library[s].made => x.made /\ Len(library[s].versions) <= Len(x.versions)
  PROVE  LibraryOK' /\ Grows
  <1>1. library'[s] = x /\ \A q \in Slugs \ {s} : library'[q] = library[q]
    BY DEF LibraryOK
  <1>2. library' = [q \in Slugs |-> library'[q]]
    BY DEF LibraryOK
  <1>3. \A q \in Slugs : Len(library[q].versions) \in Nat
    BY HistoryFacts DEF LibraryOK, IsRow
  <1>4. \A q \in Slugs : IsRow(q, library'[q])
    BY <1>1 DEF LibraryOK
  <1>5. Grows
    BY <1>1, <1>3 DEF Grows
  <1> QED
    BY <1>2, <1>4, <1>5 DEF LibraryOK

LEMMA NewRowOK ==
  ASSUME NEW s, NEW by
  PROVE  IsRow(s, NewRow(s, by)) /\ NewRow(s, by).made
  <1> DEFINE v == <<Version(1, s, FALSE)>>
  <1>1. IsHistory(v) /\ Len(v) = 1 /\ DOMAIN v = {1} /\ v[1].number = 1 /\ v[1].of = s
    <2> DEFINE e == Version(1, s, FALSE)
    <2>1. e.number = 1 /\ e.of = s
      BY DEF Version
    <2> HIDE DEF e
    <2>2. <<e>> \in Seq({e}) /\ Len(<<e>>) = 1 /\ DOMAIN <<e>> = {1} /\ <<e>>[1] = e
      OBVIOUS
    <2>3. {<<e>>[i] : i \in DOMAIN <<e>>} = {e}
      BY <2>2
    <2> QED
      BY <2>1, <2>2, <2>3 DEF IsHistory, e
  <1> HIDE DEF v
  <1>2. NewRow(s, by) = [made |-> TRUE, active |-> TRUE, owner |-> by, versions |-> v]
    BY DEF NewRow, v
  <1> QED
    BY <1>1, <1>2 DEF IsRow

LEMMA PageMade ==
  ASSUME LibraryOK, NEW s \in Slugs, NEW by, ~library[s].made,
         library' = [library EXCEPT ![s] = NewRow(s, by)]
  PROVE  LibraryOK' /\ Grows
  BY NewRowOK, RowReplaced

LEMMA ActiveSet ==
  ASSUME LibraryOK, NEW s \in Slugs, NEW active \in BOOLEAN, active => library[s].made,
         library' = [library EXCEPT ![s].active = active]
  PROVE  LibraryOK' /\ Grows
  <1> DEFINE old == library[s]
             x == [old EXCEPT !.active = active]
  <1>1. library' = [library EXCEPT ![s] = x]
    OBVIOUS
  <1>2. IsRow(s, old) /\ Len(old.versions) \in Nat
    BY HistoryFacts DEF LibraryOK, IsRow
  <1>3. x = [made |-> old.made, active |-> active, owner |-> old.owner, versions |-> old.versions]
    BY <1>2 DEF IsRow
  <1>4. x.made = old.made /\ x.active = active /\ x.versions = old.versions /\ x.owner = old.owner
    BY <1>3
  <1>5. active => old.made
    OBVIOUS
  <1> HIDE DEF x, old
  <1>6. IsRow(s, x)
    BY <1>2, <1>3, <1>4, <1>5 DEF IsRow
  <1> QED
    <2>1. library[s].made => x.made /\ Len(library[s].versions) <= Len(x.versions)
      BY <1>2, <1>4 DEF old
    <2> QED
      BY <1>1, <1>6, <2>1, RowReplaced

LEMMA VersionInserted ==
  ASSUME LibraryOK, NEW t \in Tabs, NEW r, RequestOK(r), CreateVersion(t, r)
  PROVE  LibraryOK' /\ Grows
  <1> DEFINE s == r.target
             old == library[s]
             e == Version(r.number, r.of, r.swapped)
             x == [old EXCEPT !.versions = Append(@, e)]
  <1>1. /\ r.step = "insert" /\ s \in Slugs /\ (r.of = s \/ r.swapped) /\ old.made
        /\ r.number \in 1 .. Len(old.versions) + 1
        /\ library' = [library EXCEPT ![s] = x]
    BY DEF CreateVersion, At, RequestOK, InsertVersion
  <1>2. IsRow(s, old)
    BY <1>1 DEF LibraryOK
  <1>3. ~(r.number \in 1 .. Len(old.versions)) /\ Len(old.versions) \in Nat
    BY <1>1, <1>2, LatestIsLast, HistoryFacts DEF CreateVersion, Taken, IsRow
  <1>4. r.number = Len(old.versions) + 1
    BY <1>1, <1>3
  <1>5. e.number = r.number /\ e.of = r.of /\ e.swapped = r.swapped
    BY DEF Version
  <1> DEFINE v == Append(old.versions, e)
  <1>6. /\ IsHistory(v) /\ Len(v) = Len(old.versions) + 1
        /\ \A i \in 1 .. Len(old.versions) : v[i] = old.versions[i]
        /\ v[Len(old.versions) + 1] = e
    BY <1>2, HistoryAppended DEF IsRow
  <1> HIDE DEF v
  <1>7. x = [made |-> old.made, active |-> old.active, owner |-> old.owner, versions |-> v]
    BY <1>2 DEF IsRow, v
  <1> HIDE DEF x, e
  <1>8. \A i \in DOMAIN v : v[i].number = i /\ (v[i].of = s \/ v[i].swapped)
    <2> SUFFICES ASSUME NEW i \in DOMAIN v PROVE v[i].number = i /\ (v[i].of = s \/ v[i].swapped)
      OBVIOUS
    <2>1. i \in 1 .. Len(old.versions) \/ i = Len(old.versions) + 1
      BY <1>3, <1>6, HistoryFacts
    <2>2. CASE i \in 1 .. Len(old.versions)
      BY <1>2, <1>6, <2>2, HistoryFacts DEF IsRow
    <2>3. CASE i = Len(old.versions) + 1
      BY <1>1, <1>4, <1>5, <1>6, <2>3
    <2> QED
      BY <2>1, <2>2, <2>3
  <1>9. x.made = old.made /\ x.active = old.active /\ x.owner = old.owner /\ x.versions = v
    BY <1>7
  <1>10. IsRow(s, x)
    BY <1>1, <1>2, <1>3, <1>6, <1>7, <1>8, <1>9 DEF IsRow
  <1> QED
    <2>1. x.made /\ Len(old.versions) <= Len(x.versions)
      BY <1>1, <1>3, <1>6, <1>9
    <2> QED
      BY <1>1, <1>10, <2>1, RowReplaced

-----------------------------------------------------------------------------
(* Tabs *)

LEMMA EnteredOK ==
  ASSUME NEW t \in Tabs, TabOK(tab[t]), NEW slug \in Slugs
  PROVE  TabOK(Entered(t, slug)) /\ Entered(t, slug).isLoading
  <1> DEFINE new == Entered(t, slug)
  <1>1. IsTab(new)
    BY DEF TabOK, IsTab, TabFields, Entered
  <1>2. new.slug = slug /\ new.page = tab[t].page /\ new.isLoading = TRUE /\ new.isEditing = FALSE
    BY DEF TabOK, IsTab, TabFields, Entered
  <1> QED
    BY <1>1, <1>2 DEF TabOK

\* The fields the invariant looks at, in a tab some others of whose fields are set.
SameView(new, old) ==
  /\ IsTab(new) /\ new.slug = old.slug /\ new.page = old.page /\ new.isLoading = old.isLoading
  /\ new.isEditing = old.isEditing /\ new.editing = old.editing /\ new.swapped = old.swapped

LEMMA SameViewOK ==
  ASSUME NEW old, TabOK(old), NEW new, SameView(new, old)
  PROVE  TabOK(new) /\ new.isLoading = old.isLoading
  BY DEF TabOK, SameView

LEMMA ButtonsSet ==
  ASSUME NEW old, TabOK(old), NEW a, NEW b
  PROVE  /\ SameView([old EXCEPT !.isSaving = a, !.error = b], old)
         /\ SameView([old EXCEPT !.showVersions = a], old)
         /\ SameView([old EXCEPT !.isRestoring = a, !.error = b], old)
         /\ SameView([old EXCEPT !.isCreating = a], old)
         /\ SameView([old EXCEPT !.isCreatingSaving = a, !.error = b], old)
         /\ SameView([old EXCEPT !.versions = a, !.stray = b], old)
         /\ SameView([old EXCEPT !.error = a], old)
         /\ SameView([old EXCEPT !.error = a, !.isSaving = b], old)
         /\ SameView([old EXCEPT !.error = a, !.isRestoring = b], old)
         /\ SameView([old EXCEPT !.error = a, !.isCreatingSaving = b], old)
  BY DEF TabOK, IsTab, TabFields, SameView

LEMMA EditorOpened ==
  ASSUME NEW old, TabOK(old), ~old.isLoading
  PROVE  LET new == [old EXCEPT !.isEditing = TRUE, !.editing = old.page.slug, !.swapped = FALSE]
         IN  TabOK(new) /\ new.isLoading = old.isLoading
  <1> DEFINE new == [old EXCEPT !.isEditing = TRUE, !.editing = old.page.slug, !.swapped = FALSE]
  <1>1. IsTab(new) /\ new.slug = old.slug /\ new.page = old.page /\ new.isLoading = old.isLoading
        /\ new.editing = old.page.slug
    BY DEF TabOK, IsTab, TabFields
  <1> HIDE DEF new
  <1> QED
    BY <1>1 DEF TabOK, new

LEMMA EditorClosed ==
  ASSUME NEW old, TabOK(old)
  PROVE  LET new == [old EXCEPT !.isEditing = FALSE, !.editing = None, !.swapped = FALSE]
         IN  TabOK(new) /\ new.isLoading = old.isLoading
  <1> DEFINE new == [old EXCEPT !.isEditing = FALSE, !.editing = None, !.swapped = FALSE]
  <1>1. IsTab(new) /\ new.slug = old.slug /\ new.page = old.page /\ new.isLoading = old.isLoading
        /\ new.isEditing = FALSE
    BY DEF TabOK, IsTab, TabFields
  <1> HIDE DEF new
  <1> QED
    BY <1>1 DEF TabOK, new

LEMMA AfterSaveOK ==
  ASSUME NEW t \in Tabs, TabOK(tab[t]), NEW r, PageOK(r.page)
  PROVE  TabOK(AfterSave(t, r)) /\ AfterSave(t, r).isLoading = tab[t].isLoading
  <1> DEFINE new == AfterSave(t, r)
  <1>1. IsTab(new) /\ new.slug = tab[t].slug /\ new.page = r.page /\ new.isLoading = tab[t].isLoading
        /\ new.isEditing = FALSE
    BY DEF TabOK, IsTab, TabFields, AfterSave
  <1> HIDE DEF new
  <1> QED
    BY <1>1 DEF TabOK, new

\* A page that replaces the one under an open editor leaves a trace in history.
LEMMA AfterRestoreOK ==
  ASSUME NEW t \in Tabs, TabOK(tab[t]), NEW r, PageOK(r.page)
  PROVE  /\ TabOK(AfterRestore(t, r)) /\ AfterRestore(t, r).isLoading = tab[t].isLoading
         /\ TabOK(AfterCreate(t, r)) /\ AfterCreate(t, r).isLoading = tab[t].isLoading
  <1> DEFINE new == AfterRestore(t, r)
             made == AfterCreate(t, r)
  <1>1. IsTab(new) /\ new.slug = tab[t].slug /\ new.page = r.page /\ new.isLoading = tab[t].isLoading
        /\ new.isEditing = tab[t].isEditing /\ new.editing = tab[t].editing
        /\ new.swapped = Swaps(t, r)
    BY DEF TabOK, IsTab, TabFields, AfterRestore
  <1>2. IsTab(made) /\ made.slug = tab[t].slug /\ made.page = r.page /\ made.isLoading = tab[t].isLoading
        /\ made.isEditing = tab[t].isEditing /\ made.editing = tab[t].editing
        /\ made.swapped = Swaps(t, r)
    BY DEF TabOK, IsTab, TabFields, AfterCreate
  <1> HIDE DEF new, made
  <1>3. TabOK(new)
    BY <1>1 DEF TabOK, Swaps
  <1>4. TabOK(made)
    BY <1>2 DEF TabOK, Swaps
  <1> QED
    BY <1>1, <1>2, <1>3, <1>4 DEF new, made

LEMMA AfterFailureOK ==
  ASSUME NEW t \in Tabs, TabOK(tab[t]), NEW r, RequestOK(r), r.op = "load" => tab[t].isLoading
  PROVE  /\ TabOK(AfterFailure(t, r))
         /\ r.op # "load" => AfterFailure(t, r).isLoading = tab[t].isLoading
  <1>1. CASE r.op = "load"
    <2> DEFINE new == [tab[t] EXCEPT !.error = "failed", !.isLoading = FALSE]
    <2>1. AfterFailure(t, r) = new
      BY <1>1 DEF AfterFailure
    <2>2. IsTab(new) /\ new.slug = tab[t].slug /\ new.page = tab[t].page
          /\ new.isEditing = tab[t].isEditing
      BY DEF TabOK, IsTab, TabFields
    <2> HIDE DEF new
    <2>3. TabOK(new)
      BY <1>1, <2>2 DEF TabOK
    <2> QED
      BY <1>1, <2>1, <2>3
  <1>2. CASE r.op # "load"
    <2>0. r.op \in {"save", "restore", "create", "list"}
      BY <1>2 DEF RequestOK
    <2>1. SameView(AfterFailure(t, r), tab[t])
      BY <2>0, ButtonsSet DEF AfterFailure
    <2> QED
      BY <1>2, <2>1, SameViewOK
  <1> QED
    BY <1>1, <1>2

LEMMA LoadedOK ==
  ASSUME NEW old, TabOK(old), old.isLoading, NEW page, PageOK(page), NEW error
  PROVE  /\ TabOK([old EXCEPT !.page = page, !.isLoading = FALSE])
         /\ TabOK([old EXCEPT !.error = error, !.isLoading = FALSE])
  <1> DEFINE new == [old EXCEPT !.page = page, !.isLoading = FALSE]
             missed == [old EXCEPT !.error = error, !.isLoading = FALSE]
  <1>1. /\ IsTab(new) /\ new.slug = old.slug /\ new.page = page /\ new.isEditing = old.isEditing
        /\ IsTab(missed) /\ missed.slug = old.slug /\ missed.page = old.page
        /\ missed.isEditing = old.isEditing
    BY DEF TabOK, IsTab, TabFields
  <1> HIDE DEF new, missed
  <1> QED
    BY <1>1 DEF TabOK, new, missed

-----------------------------------------------------------------------------
(* Steps *)

\* A step of one tab, with what it awaits from then on.
LEMMA StepOfTab ==
  ASSUME ContentInv, LibraryOK', Grows, NEW t \in Tabs,
         NEW x, TabOK(x), tab' = [tab EXCEPT ![t] = x],
         NEW Q, requests' = [requests EXCEPT ![t] = Q], \A q \in Q : RequestOK(q)',
         \A q \in Q : q.op = "load" => x.isLoading,
         \A q, p \in Q : q.op = "load" /\ p.op = "load" => q = p
  PROVE  ContentInv'
  <1>1. /\ tab' = [u \in Tabs |-> tab'[u]] /\ tab'[t] = x /\ \A u \in Tabs \ {t} : tab'[u] = tab[u]
        /\ requests' = [u \in Tabs |-> requests'[u]] /\ requests'[t] = Q
        /\ \A u \in Tabs \ {t} : requests'[u] = requests[u]
    BY DEF ContentInv, ContentShape
  <1>2. \A u \in Tabs : TabOK(tab'[u])
    BY <1>1 DEF ContentInv, ContentShape
  <1>3. \A u \in Tabs : \A q \in requests'[u] : RequestOK(q)'
    <2> SUFFICES ASSUME NEW u \in Tabs, NEW q \in requests'[u] PROVE RequestOK(q)'
      OBVIOUS
    <2>1. CASE u = t
      BY <1>1, <2>1
    <2>2. CASE u # t
      <3>1. RequestOK(q) /\ LibraryOK
        BY <1>1, <2>2 DEF ContentInv, ContentShape
      <3> QED
        BY <3>1, RequestStays
    <2> QED
      BY <2>1, <2>2
  <1>4. \A u \in Tabs : LoadsOK(u)'
    BY <1>1 DEF ContentInv, LoadsOK
  <1>5. (\A u \in Tabs : TabOK(tab[u]))'
    BY <1>2
  <1> QED
    BY <1>1, <1>3, <1>4, <1>5 DEF ContentInv, ContentShape

LEMMA InvParts ==
  ASSUME ContentInv
  PROVE  /\ LibraryOK
         /\ \A t \in Tabs : TabOK(tab[t]) /\ tab = [tab EXCEPT ![t] = tab[t]]
                           /\ requests = [requests EXCEPT ![t] = requests[t]]
         /\ \A t \in Tabs : \A r \in requests[t] :
              RequestOK(r) /\ (r.op = "load" => tab[t].isLoading)
         /\ \A t \in Tabs : \A r, q \in requests[t] : r.op = "load" /\ q.op = "load" => r = q
  BY DEF ContentInv, ContentShape, LoadsOK

\* Only the tables change.
LEMMA OnlyTables ==
  ASSUME ContentInv, LibraryOK', Grows, UNCHANGED <<tab, requests>>
  PROVE  ContentInv'
  <1>1. \A u \in Tabs : \A q \in requests[u] : RequestOK(q)'
    BY InvParts, RequestStays
  <1> QED
    BY <1>1 DEF ContentInv, ContentShape, LoadsOK, TabOK, IsTab, PageOK

\* A button of a tab.
LEMMA Pressed ==
  ASSUME ContentInv, NEW t \in Tabs, UNCHANGED <<library, requests>>,
         NEW x, TabOK(x), x.isLoading = tab[t].isLoading, Sets(t, x)
  PROVE  ContentInv'
  <1>1. LibraryOK' /\ Grows
    BY InvParts, LibraryStays
  <1>2. \A q \in requests[t] : RequestOK(q)'
    BY <1>1, InvParts, RequestStays
  <1>3. tab' = [tab EXCEPT ![t] = x] /\ requests' = [requests EXCEPT ![t] = requests[t]]
    BY InvParts DEF Sets
  <1> DEFINE Q == requests[t]
  <1>4. /\ \A q \in Q : q.op = "load" => x.isLoading
        /\ \A q, p \in Q : q.op = "load" /\ p.op = "load" => q = p
    BY InvParts
  <1> HIDE DEF Q
  <1>5. requests' = [requests EXCEPT ![t] = Q] /\ \A q \in Q : RequestOK(q)'
    BY <1>2, <1>3 DEF Q
  <1> QED
    BY <1>1, <1>3, <1>4, <1>5, StepOfTab

\* A button that makes a request.
LEMMA AsksFor ==
  ASSUME ContentInv, NEW t \in Tabs, UNCHANGED library,
         NEW x, TabOK(x), x.isLoading = tab[t].isLoading, Sets(t, x),
         NEW new, RequestOK(new), new.op # "load", Asks(t, new)
  PROVE  ContentInv'
  <1> DEFINE Q == requests[t] \cup {new}
  <1>1. LibraryOK' /\ Grows
    BY InvParts, LibraryStays
  <1>2. \A q \in Q : RequestOK(q)'
    BY <1>1, InvParts, RequestStays
  <1>3. tab' = [tab EXCEPT ![t] = x] /\ requests' = [requests EXCEPT ![t] = Q]
    BY DEF Sets, Asks
  <1>4. /\ \A q \in Q : q.op = "load" => x.isLoading
        /\ \A q, p \in Q : q.op = "load" /\ p.op = "load" => q = p
    BY InvParts
  <1> HIDE DEF Q
  <1> QED
    BY <1>1, <1>2, <1>3, <1>4, StepOfTab

\* A request is served and the next one of its handler awaited.
LEMMA GoesOn ==
  ASSUME ContentInv, LibraryOK', Grows, NEW t \in Tabs, UNCHANGED tab,
         NEW r \in requests[t], NEW new, RequestOK(new)', new.op = r.op, Goes(t, r, new)
  PROVE  ContentInv'
  <1> DEFINE Q == (requests[t] \ {r}) \cup {new}
             x == tab[t]
  <1>1. \A q \in Q : RequestOK(q)'
    BY InvParts, RequestStays
  <1>2. tab' = [tab EXCEPT ![t] = x] /\ requests' = [requests EXCEPT ![t] = Q]
    BY InvParts DEF Goes
  <1>3. /\ \A q \in Q : q.op = "load" => x.isLoading
        /\ \A q, p \in Q : q.op = "load" /\ p.op = "load" => q = p
    BY InvParts
  <1>4. TabOK(x)
    BY InvParts
  <1> HIDE DEF Q, x
  <1> QED
    BY <1>1, <1>2, <1>3, <1>4, StepOfTab

\* A handler returns.
LEMMA HandlerEnds ==
  ASSUME ContentInv, NEW t \in Tabs, UNCHANGED library, NEW r \in requests[t], Ends(t, r),
         NEW x, TabOK(x), r.op # "load" => x.isLoading = tab[t].isLoading, Sets(t, x)
  PROVE  ContentInv'
  <1> DEFINE Q == requests[t] \ {r}
  <1>1. LibraryOK' /\ Grows
    BY InvParts, LibraryStays
  <1>2. \A q \in Q : RequestOK(q)'
    BY <1>1, InvParts, RequestStays
  <1>3. tab' = [tab EXCEPT ![t] = x] /\ requests' = [requests EXCEPT ![t] = Q]
    BY DEF Sets, Ends
  <1>4. /\ \A q \in Q : q.op = "load" => x.isLoading
        /\ \A q, p \in Q : q.op = "load" /\ p.op = "load" => q = p
    BY InvParts
  <1> HIDE DEF Q
  <1> QED
    BY <1>1, <1>2, <1>3, <1>4, StepOfTab

-----------------------------------------------------------------------------
(* What a visitor does *)

\* The request a handler begins with.
LEMMA FirstRequest ==
  ASSUME NEW t \in Tabs, TabOK(tab[t]), NEW op, NEW step,
         \/ op = "save" /\ step = "resolve" /\ tab[t].page # NoPage /\ tab[t].isEditing
         \/ op = "create" /\ step = "check"
  PROVE  RequestOK(Request(op, step, t)) /\ Request(op, step, t).op = op
  <1> DEFINE new == Request(op, step, t)
  <1>1. /\ IsRequest(new) /\ new.op = op /\ new.step = step /\ new.at = tab[t].slug
        /\ new.target = tab[t].page.slug /\ new.of = tab[t].editing /\ new.swapped = tab[t].swapped
        /\ new.page = NoPage
    BY DEF IsRequest, RequestFields, Request
  <1> HIDE DEF new
  <1>2. RequestOK(new)
    BY <1>1 DEF RequestOK, TabOK, PageOK
  <1> QED
    BY <1>1, <1>2 DEF new

LEMMA HistoryRequest ==
  ASSUME NEW t \in Tabs, TabOK(tab[t]), tab[t].page # NoPage, NEW number
  PROVE  /\ RequestOK([Request("list", "list", t) EXCEPT !.of = None, !.swapped = FALSE])
         /\ [Request("list", "list", t) EXCEPT !.of = None, !.swapped = FALSE].op = "list"
         /\ RequestOK([Request("restore", "fetch", t) EXCEPT !.number = number, !.of = None, !.swapped = FALSE])
         /\ [Request("restore", "fetch", t) EXCEPT !.number = number, !.of = None, !.swapped = FALSE].op = "restore"
  <1> DEFINE a == [Request("list", "list", t) EXCEPT !.of = None, !.swapped = FALSE]
             b == [Request("restore", "fetch", t) EXCEPT !.number = number, !.of = None, !.swapped = FALSE]
  <1>1. IsRequest(a) /\ a.op = "list" /\ a.step = "list" /\ a.at = tab[t].slug /\ a.page = NoPage
    BY DEF IsRequest, RequestFields, Request
  <1>2. /\ IsRequest(b) /\ b.op = "restore" /\ b.step = "fetch" /\ b.at = tab[t].slug
        /\ b.target = tab[t].page.slug /\ b.page = NoPage
    BY DEF IsRequest, RequestFields, Request
  <1> HIDE DEF a, b
  <1>3. RequestOK(a)
    BY <1>1 DEF RequestOK, TabOK, PageOK
  <1>4. RequestOK(b)
    BY <1>2 DEF RequestOK, TabOK, PageOK
  <1> QED
    BY <1>1, <1>2, <1>3, <1>4 DEF a, b

LEMMA LoadingOK ==
  ASSUME NEW slug \in Slugs
  PROVE  RequestOK(Loading(slug)) /\ Loading(slug).op = "load"
  <1> DEFINE new == Loading(slug)
  <1>1. IsRequest(new) /\ new.op = "load" /\ new.step = "reload" /\ new.at = slug /\ new.page = NoPage
    BY DEF IsRequest, RequestFields, Loading
  <1> HIDE DEF new
  <1> QED
    BY <1>1 DEF RequestOK, PageOK, new

LEMMA LeftOK ==
  ASSUME NEW r, RequestOK(r)
  PROVE  RequestOK([r EXCEPT !.left = TRUE]) /\ [r EXCEPT !.left = TRUE].op = r.op
  <1> DEFINE new == [r EXCEPT !.left = TRUE]
  <1>1. /\ IsRequest(new) /\ new.op = r.op /\ new.step = r.step /\ new.at = r.at
        /\ new.target = r.target /\ new.of = r.of /\ new.swapped = r.swapped
        /\ new.number = r.number /\ new.page = r.page
    BY DEF RequestOK, IsRequest, RequestFields
  <1> HIDE DEF new
  <1> QED
    BY <1>1 DEF RequestOK, new

LEMMA NavigateKeeps ==
  ASSUME ContentInv, NEW t \in Tabs, NEW slug \in Slugs, Navigate(t, slug)
  PROVE  ContentInv'
  <1> DEFINE Q == {[r EXCEPT !.left = TRUE] : r \in Abandoned(t)} \cup {Loading(slug)}
             x == Entered(t, slug)
  <1>1. LibraryOK' /\ Grows
    BY InvParts, LibraryStays DEF Navigate
  <1>2. \A r \in Abandoned(t) : RequestOK(r) /\ r.op # "load"
    BY InvParts DEF Abandoned
  <1>3. \A q \in Q : RequestOK(q) /\ (q.op = "load" => q = Loading(slug))
    <2> SUFFICES ASSUME NEW q \in Q PROVE RequestOK(q) /\ (q.op = "load" => q = Loading(slug))
      OBVIOUS
    <2>1. CASE q = Loading(slug)
      BY <2>1, LoadingOK
    <2>2. CASE q # Loading(slug)
      <3>1. PICK r \in Abandoned(t) : q = [r EXCEPT !.left = TRUE]
        BY <2>2
      <3> QED
        BY <1>2, <3>1, LeftOK
    <2> QED
      BY <2>1, <2>2
  <1>4. TabOK(x) /\ x.isLoading
    BY InvParts, EnteredOK
  <1>5. tab' = [tab EXCEPT ![t] = x] /\ requests' = [requests EXCEPT ![t] = Q]
    BY DEF Navigate, Sets
  <1> HIDE DEF Q, x
  <1>6. \A q \in Q : RequestOK(q)'
    BY <1>1, <1>3, InvParts, RequestStays
  <1> QED
    BY <1>1, <1>3, <1>4, <1>5, <1>6, StepOfTab

LEMMA VisitKeeps ==
  ASSUME ContentInv, NEW t \in Tabs, Visits(t)
  PROVE  ContentInv'
  <1>0. TabOK(tab[t])
    BY InvParts
  <1>1. ASSUME NEW slug \in Slugs, Navigate(t, slug) PROVE ContentInv'
    BY <1>1, NavigateKeeps
  <1>2. CASE HandleStartEdit(t)
    BY <1>0, <1>2, EditorOpened, Pressed DEF HandleStartEdit, OffersEdit, Shows
  <1>3. CASE HandleCancelEdit(t)
    BY <1>0, <1>3, EditorClosed, Pressed DEF HandleCancelEdit
  <1>4. CASE HandleSave(t)
    <2> DEFINE x == [tab[t] EXCEPT !.isSaving = TRUE, !.error = None]
               new == Request("save", "resolve", t)
    <2>1. TabOK(x) /\ x.isLoading = tab[t].isLoading
      BY <1>0, ButtonsSet, SameViewOK
    <2>2. RequestOK(new) /\ new.op # "load"
      BY <1>0, <1>4, FirstRequest DEF HandleSave, OffersSave, Shows
    <2>3. UNCHANGED library /\ Sets(t, x) /\ Asks(t, new)
      BY <1>4 DEF HandleSave, Writes
    <2> HIDE DEF x, new
    <2> QED
      BY <2>1, <2>2, <2>3, AsksFor
  <1>5. CASE HandleToggleVersions(t)
    <2> DEFINE shown == ~tab[t].showVersions
               x == [tab[t] EXCEPT !.showVersions = shown]
               new == [Request("list", "list", t) EXCEPT !.of = None, !.swapped = FALSE]
    <2>0. Sets(t, x)
      BY <1>5 DEF HandleToggleVersions
    <2> HIDE DEF shown
    <2>1. TabOK(x) /\ x.isLoading = tab[t].isLoading
      BY <1>0, ButtonsSet, SameViewOK
    <2>2. RequestOK(new) /\ new.op # "load"
      BY <1>0, <1>5, HistoryRequest DEF HandleToggleVersions, OffersHistory, Shows
    <2>3. UNCHANGED library /\ (Asks(t, new) \/ UNCHANGED requests)
      BY <1>5 DEF HandleToggleVersions
    <2> HIDE DEF x, new
    <2> QED
      BY <2>0, <2>1, <2>2, <2>3, AsksFor, Pressed
  <1>6. ASSUME NEW n \in 1 .. (site.writes + 1), HandleRestoreVersion(t, n) PROVE ContentInv'
    <2> DEFINE x == [tab[t] EXCEPT !.isRestoring = n, !.error = None]
               new == [Request("restore", "fetch", t) EXCEPT !.number = n, !.of = None, !.swapped = FALSE]
    <2>1. TabOK(x) /\ x.isLoading = tab[t].isLoading
      BY <1>0, ButtonsSet, SameViewOK
    <2>2. RequestOK(new) /\ new.op # "load"
      BY <1>0, <1>6, HistoryRequest DEF HandleRestoreVersion, OffersHistory, Shows
    <2>3. UNCHANGED library /\ Sets(t, x) /\ Asks(t, new)
      BY <1>6 DEF HandleRestoreVersion, Writes
    <2> HIDE DEF x, new
    <2> QED
      BY <2>1, <2>2, <2>3, AsksFor
  <1>7. CASE StartCreate(t)
    BY <1>0, <1>7, ButtonsSet, SameViewOK, Pressed DEF StartCreate
  <1>8. CASE HandleCreate(t)
    <2> DEFINE x == [tab[t] EXCEPT !.isCreatingSaving = TRUE, !.error = None]
               new == Request("create", "check", t)
    <2>1. TabOK(x) /\ x.isLoading = tab[t].isLoading
      BY <1>0, ButtonsSet, SameViewOK
    <2>2. RequestOK(new) /\ new.op # "load"
      BY <1>0, FirstRequest
    <2>3. UNCHANGED library /\ Sets(t, x) /\ Asks(t, new)
      BY <1>8 DEF HandleCreate, Writes
    <2> HIDE DEF x, new
    <2> QED
      BY <2>1, <2>2, <2>3, AsksFor
  <1> QED
    BY <1>1, <1>2, <1>3, <1>4, <1>5, <1>6, <1>7, <1>8 DEF Visits

-----------------------------------------------------------------------------
(* What the handlers do with the answers *)

LEMMA AnswersKeep ==
  ASSUME ContentInv, NEW t \in Tabs, NEW r \in requests[t],
         ReadPage(t, r) \/ ListVersions(t, r) \/ GetVersion(t, r) \/ CheckNoPage(t, r)
         \/ ReadNextNumber(t, r)
  PROVE  ContentInv'
  <1>0. LibraryOK /\ LibraryOK' /\ Grows /\ RequestOK(r)
    BY InvParts, LibraryStays DEF ReadPage, ListVersions, GetVersion, CheckNoPage, ReadNextNumber
  <1>1. ASSUME NEW new, RequestOK(new), new.op = r.op, Goes(t, r, new), UNCHANGED tab
        PROVE  ContentInv'
    BY <1>0, <1>1, RequestStays, GoesOn
  <1>2. CASE ReadPage(t, r)
    <2> DEFINE page == GetPage(t, r.at)
               new == [r EXCEPT !.step = "answer", !.page = page]
    <2>1. PageOK(page)
      <3>1. CASE library[r.at].active
        BY <1>0, <3>1 DEF GetPage, PageOK, RequestOK
      <3>2. CASE ~library[r.at].active
        BY <3>2 DEF GetPage, PageOK
      <3> QED
        BY <3>1, <3>2
    <2> HIDE DEF page
    <2>2. /\ IsRequest(new) /\ new.op = r.op /\ new.step = "answer" /\ new.at = r.at /\ new.page = page
      BY <1>0 DEF RequestOK, IsRequest, RequestFields
    <2>3. Goes(t, r, new) /\ UNCHANGED tab
      BY <1>2 DEF ReadPage, page
    <2> HIDE DEF new
    <2>4. RequestOK(new)
      BY <1>0, <2>1, <2>2 DEF RequestOK
    <2> QED
      BY <1>1, <2>2, <2>3, <2>4
  <1>3. CASE ListVersions(t, r)
    <2> DEFINE n == Cardinality(ListVersionsV1(r.target))
               new == [r EXCEPT !.step = "answer", !.number = n]
    <2>1. /\ IsRequest(new) /\ new.op = r.op /\ new.step = "answer" /\ new.at = r.at
          /\ new.page = r.page
      BY <1>0 DEF RequestOK, IsRequest, RequestFields
    <2>2. Goes(t, r, new) /\ UNCHANGED tab
      BY <1>3 DEF ListVersions
    <2> HIDE DEF new
    <2>3. RequestOK(new)
      BY <1>0, <2>1 DEF RequestOK
    <2> QED
      BY <1>1, <2>1, <2>2, <2>3
  <1>4. CASE GetVersion(t, r)
    <2>1. r.target \in Slugs /\ r.step = "fetch"
      BY <1>0, <1>4 DEF RequestOK, GetVersion, At
    <2>2. PICK i \in DOMAIN library[r.target].versions :
            LET v == library[r.target].versions[i]
            IN  Goes(t, r, [r EXCEPT !.step = "resolve", !.of = v.of, !.swapped = v.swapped])
      BY <1>4 DEF GetVersion
    <2> DEFINE v == library[r.target].versions[i]
               new == [r EXCEPT !.step = "resolve", !.of = v.of, !.swapped = v.swapped]
    <2>3. v.of = r.target \/ v.swapped
      BY <1>0, <2>1 DEF LibraryOK, IsRow
    <2> HIDE DEF v
    <2>4. /\ IsRequest(new) /\ new.op = r.op /\ new.step = "resolve" /\ new.at = r.at
          /\ new.target = r.target /\ new.of = v.of /\ new.swapped = v.swapped /\ new.page = r.page
      BY <1>0 DEF RequestOK, IsRequest, RequestFields
    <2>5. Goes(t, r, new) /\ UNCHANGED tab
      BY <1>4, <2>2 DEF GetVersion, v
    <2> HIDE DEF new
    <2>6. RequestOK(new)
      BY <1>0, <2>1, <2>3, <2>4 DEF RequestOK
    <2> QED
      BY <1>1, <2>4, <2>5, <2>6
  <1>5. CASE CheckNoPage(t, r)
    <2> DEFINE new == [r EXCEPT !.step = "make", !.target = r.at]
    <2>1. /\ IsRequest(new) /\ new.op = r.op /\ new.step = "make" /\ new.at = r.at
          /\ new.page = r.page
      BY <1>0 DEF RequestOK, IsRequest, RequestFields
    <2>2. Goes(t, r, new) /\ UNCHANGED tab /\ r.step = "check"
      BY <1>5 DEF CheckNoPage, At
    <2> HIDE DEF new
    <2>3. RequestOK(new)
      BY <1>0, <2>1, <2>2 DEF RequestOK
    <2> QED
      BY <1>1, <2>1, <2>2, <2>3
  <1>6. CASE ReadNextNumber(t, r)
    <2> DEFINE n == NextNumber(r.target)
               new == [r EXCEPT !.step = "insert", !.number = n]
    <2>1. r.step = "resolve" /\ r.target \in Slugs /\ library[r.target].made
          /\ (r.of = r.target \/ r.swapped)
      BY <1>0, <1>6 DEF RequestOK, ReadNextNumber, At, ResolveEditablePage
    <2>2. n \in 1 .. Len(library[r.target].versions) + 1
      <3>1. IsRow(r.target, library[r.target])
        BY <1>0, <2>1 DEF LibraryOK
      <3>2. Len(library[r.target].versions) \in Nat
        BY <3>1, HistoryFacts DEF IsRow
      <3> QED
        BY <2>1, <3>1, <3>2, LatestIsLast DEF NextNumber
    <2> HIDE DEF n
    <2>3. /\ IsRequest(new) /\ new.op = r.op /\ new.step = "insert" /\ new.at = r.at
          /\ new.target = r.target /\ new.of = r.of /\ new.swapped = r.swapped /\ new.page = r.page
          /\ new.number = n
      BY <1>0 DEF RequestOK, IsRequest, RequestFields
    <2>4. Goes(t, r, new) /\ UNCHANGED tab
      BY <1>6 DEF ReadNextNumber, n
    <2> HIDE DEF new
    <2>5. RequestOK(new)
      BY <1>0, <2>1, <2>2, <2>3 DEF RequestOK
    <2> QED
      BY <1>1, <2>3, <2>4, <2>5
  <1> QED
    BY <1>2, <1>3, <1>4, <1>5, <1>6

\* The INSERT of a version and the creation of a page.
LEMMA WritesKeep ==
  ASSUME ContentInv, NEW t \in Tabs, NEW r \in requests[t], CreateVersion(t, r) \/ CreatePage(t, r)
  PROVE  ContentInv'
  <1>0. LibraryOK /\ RequestOK(r)
    BY InvParts
  <1>1. LibraryOK' /\ Grows
    <2>1. CASE CreateVersion(t, r)
      BY <1>0, <2>1, VersionInserted
    <2>2. CASE CreatePage(t, r)
      BY <1>0, <2>2, PageMade DEF CreatePage, WikiCreateV1, RequestOK
    <2> QED
      BY <2>1, <2>2
  <1>2. PICK n : Goes(t, r, [r EXCEPT !.step = "reload", !.number = n]) \/ Goes(t, r, [r EXCEPT !.step = "reload"])
    BY DEF CreateVersion, CreatePage
  <1>3. ASSUME NEW new, IsRequest(new), new.op = r.op, new.step = "reload", new.at = r.at,
               new.page = r.page, Goes(t, r, new)
        PROVE  ContentInv'
    <2>1. RequestOK(new)
      BY <1>0, <1>3 DEF RequestOK
    <2>2. RequestOK(new)' /\ UNCHANGED tab
      BY <1>0, <1>1, <2>1, RequestStays DEF CreateVersion, CreatePage
    <2> QED
      BY <1>1, <1>3, <2>2, GoesOn
  <1> DEFINE a == [r EXCEPT !.step = "reload", !.number = n]
             b == [r EXCEPT !.step = "reload"]
  <1>4. IsRequest(a) /\ a.op = r.op /\ a.step = "reload" /\ a.at = r.at /\ a.page = r.page
    BY <1>0 DEF RequestOK, IsRequest, RequestFields
  <1>5. IsRequest(b) /\ b.op = r.op /\ b.step = "reload" /\ b.at = r.at /\ b.page = r.page
    BY <1>0 DEF RequestOK, IsRequest, RequestFields
  <1>6. Goes(t, r, a) \/ Goes(t, r, b)
    BY <1>2
  <1> HIDE DEF a, b
  <1> QED
    BY <1>3, <1>4, <1>5, <1>6

LEMMA ReturnsKeep ==
  ASSUME ContentInv, NEW t \in Tabs, NEW r \in requests[t],
         ShowLoaded(t, r) \/ ShowReloaded(t, r) \/ ShowVersions(t, r) \/ Refuse(t, r) \/ Fail(t, r)
  PROVE  ContentInv'
  <1>0. /\ TabOK(tab[t]) /\ RequestOK(r) /\ (r.op = "load" => tab[t].isLoading) /\ PageOK(r.page)
    BY InvParts DEF RequestOK
  <1>1. UNCHANGED library /\ Ends(t, r)
    BY DEF ShowLoaded, ShowReloaded, ShowVersions, Refuse, Fail
  <1>2. ASSUME NEW x, TabOK(x), r.op # "load" => x.isLoading = tab[t].isLoading, Sets(t, x)
        PROVE  ContentInv'
    BY <1>1, <1>2, HandlerEnds
  <1>3. CASE Sets(t, AfterFailure(t, r))
    BY <1>0, <1>2, <1>3, AfterFailureOK
  <1>4. CASE ShowLoaded(t, r)
    <2>1. r.op = "load" /\ tab[t].isLoading
      BY <1>0, <1>4 DEF ShowLoaded
    <2>2. CASE Sets(t, [tab[t] EXCEPT !.error = "missing", !.isLoading = FALSE])
      BY <1>0, <1>2, <2>1, <2>2, LoadedOK
    <2>3. CASE Sets(t, [tab[t] EXCEPT !.page = r.page, !.isLoading = FALSE])
      BY <1>0, <1>2, <2>1, <2>3, LoadedOK
    <2> QED
      BY <1>4, <2>2, <2>3 DEF ShowLoaded
  <1>5. CASE ShowReloaded(t, r)
    <2>1. CASE Sets(t, AfterSave(t, r))
      BY <1>0, <1>2, <2>1, AfterSaveOK
    <2>2. CASE Sets(t, AfterRestore(t, r)) \/ Sets(t, AfterCreate(t, r))
      BY <1>0, <1>2, <2>2, AfterRestoreOK
    <2>3. r.op = "save" \/ r.op = "restore" \/ r.op = "create"
      BY <1>5 DEF ShowReloaded
    <2> QED
      BY <1>3, <1>5, <2>1, <2>2, <2>3 DEF ShowReloaded
  <1>6. CASE ShowVersions(t, r)
    <2> DEFINE stray == tab[t].stray \/ r.left \/ r.target # tab[t].page.slug
               list == [of |-> r.target, numbers |-> 1..r.number]
               x == [tab[t] EXCEPT !.versions = list, !.stray = stray]
    <2>1. Sets(t, x)
      BY <1>6 DEF ShowVersions
    <2> HIDE DEF stray, list
    <2>2. TabOK(x) /\ x.isLoading = tab[t].isLoading
      BY <1>0, ButtonsSet, SameViewOK
    <2> QED
      BY <1>2, <2>1, <2>2
  <1> QED
    BY <1>3, <1>4, <1>5, <1>6 DEF Refuse, Fail

LEMMA TablesAdministered ==
  ASSUME LibraryOK, Administers
  PROVE  LibraryOK' /\ Grows
  <1>1. ASSUME NEW slug \in Slugs, NEW t \in Tabs, ServicePagesCreate(t, slug)
        PROVE  LibraryOK' /\ Grows
    BY <1>1, PageMade DEF ServicePagesCreate, PagesCreateV1
  <1>2. ASSUME NEW slug \in Slugs, ServicePagesUpdate(slug)
        PROVE  LibraryOK' /\ Grows
    BY <1>2, ActiveSet DEF ServicePagesUpdate, UpdateV1
  <1>3. ASSUME NEW slug \in Slugs, ServicePagesDelete(slug)
        PROVE  LibraryOK' /\ Grows
    BY <1>3, ActiveSet DEF ServicePagesDelete, DeleteV1
  <1> QED
    BY <1>1, <1>2, <1>3 DEF Administers

LEMMA AdministersKeep ==
  ASSUME ContentInv, Administers
  PROVE  ContentInv'
  <1>1. LibraryOK /\ UNCHANGED <<tab, requests>>
    BY InvParts DEF Administers, ServicePagesCreate, ServicePagesUpdate, ServicePagesDelete
  <1>2. LibraryOK' /\ Grows
    BY <1>1, TablesAdministered
  <1> QED
    BY <1>1, <1>2, OnlyTables

LEMMA ContentStep == ContentInv /\ [ContentNext]_contentVars => ContentInv'
  <1> SUFFICES ASSUME ContentInv, [ContentNext]_contentVars PROVE ContentInv'
    OBVIOUS
  <1>1. CASE UNCHANGED contentVars
    <2>1. UNCHANGED <<library, tab, requests>>
      BY <1>1 DEF contentVars
    <2> QED
      BY <2>1, InvParts, LibraryStays, OnlyTables
  <1>2. ASSUME NEW t \in Tabs, Continues(t) PROVE ContentInv'
    BY <1>2, AnswersKeep, WritesKeep, ReturnsKeep DEF Continues
  <1> QED
    BY <1>1, <1>2, VisitKeeps, AdministersKeep DEF ContentNext

\* At the start each page has one version and each open tab awaits one load.
LEMMA ContentStart == (\E sc \in ContentScenes : ContentInit(sc)) => ContentInv
  <1> SUFFICES ASSUME NEW sc \in ContentScenes, ContentInit(sc) PROVE ContentInv
    OBVIOUS
  <1>1. LibraryOK
    <2>1. library = [s \in Slugs |-> IF s \in sc.slugs THEN NewRow(s, Owner) ELSE NoRow]
      BY DEF ContentInit
    <2>2. \A s \in Slugs : IsRow(s, NoRow)
      <3>1. <<>> \in Seq({}) /\ Len(<<>>) = 0 /\ DOMAIN <<>> = {}
        OBVIOUS
      <3>2. IsHistory(<<>>)
        BY <3>1 DEF IsHistory
      <3> QED
        BY <3>1, <3>2 DEF IsRow, NoRow
    <2> QED
      BY <2>1, <2>2, NewRowOK DEF LibraryOK
  <1>2. PICK s \in Slugs :
          /\ tab = [t \in Tabs |-> FirstTab(IF t \in sc.tabs THEN s ELSE CHOOSE a \in Slugs : TRUE)]
          /\ requests = [t \in Tabs |-> IF t \in sc.tabs THEN {Loading(s)} ELSE {}]
    BY DEF ContentInit
  <1>3. \A slug \in Slugs : TabOK(FirstTab(slug)) /\ FirstTab(slug).isLoading
    <2> SUFFICES ASSUME NEW slug \in Slugs PROVE TabOK(FirstTab(slug)) /\ FirstTab(slug).isLoading
      OBVIOUS
    <2> DEFINE x == FirstTab(slug)
    <2>1. IsTab(x) /\ x.slug = slug /\ x.page = NoPage /\ x.isLoading = TRUE /\ x.isEditing = FALSE
      BY DEF FirstTab, IsTab, TabFields
    <2> HIDE DEF x
    <2>2. TabOK(x)
      BY <2>1 DEF TabOK, PageOK
    <2> QED
      BY <2>1, <2>2 DEF x
  <1>4. (CHOOSE a \in Slugs : TRUE) \in Slugs
    OBVIOUS
  <1>5. \A t \in Tabs : TabOK(tab[t]) /\ tab[t].isLoading
    BY <1>2, <1>3, <1>4
  <1>6. \A t \in Tabs : \A r \in requests[t] : r = Loading(s) /\ RequestOK(r)
    BY <1>2, LoadingOK
  <1>7. \A t \in Tabs : LoadsOK(t)
    BY <1>5, <1>6 DEF LoadsOK
  <1> QED
    BY <1>1, <1>2, <1>5, <1>6, <1>7 DEF ContentInv, ContentShape

-----------------------------------------------------------------------------
(* Theorems *)

\* However many tabs save, restore and create at the same time, the versions of a page
\* are numbered in the order of their saving.  CreateVersion, CreatePage
THEOREM HistoriesKept == ContentSpec => []HistoryIsKept
  <1>1. ContentInv => HistoryIsKept
    BY DEF ContentInv, ContentShape, LibraryOK, IsRow, HistoryIsKept
  <1> QED
    BY <1>1, ContentStart, ContentStep, PTL DEF ContentSpec

\* However late an answer comes, a saved version is a text begun on its page, unless
\* the page was swapped under the open editor.  HandleSave, Navigate
THEOREM EditsKeepTheirPage == ContentSpec => []EditsStayOnTheirPage
  <1>1. ContentInv => EditsStayOnTheirPage
    BY DEF ContentInv, ContentShape, LibraryOK, IsRow, EditsStayOnTheirPage
  <1> QED
    BY <1>1, ContentStart, ContentStep, PTL DEF ContentSpec


-----------------------------------------------------------------------------
(* What a tab shows *)

WriterOps == {"save", "restore", "create"}

\* A handler of this address that will show a page, or an error, when it returns.
Awaits(Q) == \E q \in Q : q.op \in WriterOps /\ ~q.left

\* A tab that has loaded its page and awaits nothing shows it.
TabShows(x, Q) ==
  /\ x.own = [s \in Slugs |-> x.own[s]]
  /\ \A s \in Slugs : x.own[s] \in Nat /\ x.own[s] <= Len(library[s].versions)
  /\ ~x.isLoading /\ x.error = None /\ ~x.stray /\ ~Awaits(Q) =>
       x.page.slug = x.slug /\ x.page.version >= x.own[x.slug]
  /\ ~x.stray /\ x.versions # NoList => x.page # NoPage /\ x.versions.of = x.page.slug
  /\ x.isLoading => x.versions = NoList \/ x.stray

\* An answer carries the page of the address its handler began at, at least as new
\* as what the handler has written.  While a page loads, all other handlers belong
\* to earlier addresses.
RequestShows(x, r) ==
  /\ ~r.left => r.at = x.slug
  /\ r.page = NoPage \/ (r.page.slug = r.at /\ r.page.version \in Nat)
  /\ r.step # "answer" => r.page = NoPage
  /\ r.op = "load" => ~r.left /\ (r.page # NoPage => r.page.version >= x.own[r.at])
  /\ x.isLoading => r.op = "load" \/ r.left
  /\ r.op = "list" /\ ~r.left => x.page # NoPage
  /\ r.op = "create" /\ ~r.left /\ ~x.stray => x.page = NoPage \/ x.page.slug = x.slug
  /\ r.op \in WriterOps =>
       /\ r.step # "list" /\ r.number \in Nat
       /\ r.step \in {"reload", "answer"} /\ r.at = r.target =>
            /\ r.number <= Len(library[r.at].versions)
            /\ r.page # NoPage => r.number <= r.page.version

\* An open tab that shows that it is loading awaits its page.
LoadAwaited(t) == t \in site.tabs /\ tab[t].isLoading => \E q \in requests[t] : q.op = "load"

ShownInv ==
  /\ ContentInv /\ site.tabs \subseteq Tabs
  /\ \A t \in Tabs : /\ TabShows(tab[t], requests[t]) /\ LoadAwaited(t)
                     /\ \A r \in requests[t] : RequestShows(tab[t], r)

LEMMA HistoriesGrow ==
  ASSUME LibraryOK, LibraryOK', Grows
  PROVE  \A s \in Slugs : /\ Len(library[s].versions) \in Nat /\ Len(library'[s].versions) \in Nat
                          /\ Len(library[s].versions) <= Len(library'[s].versions)
  <1> SUFFICES ASSUME NEW s \in Slugs
               PROVE  /\ Len(library[s].versions) \in Nat /\ Len(library'[s].versions) \in Nat
                      /\ Len(library[s].versions) <= Len(library'[s].versions)
    OBVIOUS
  <1>1. Len(library[s].versions) \in Nat /\ Len(library'[s].versions) \in Nat
    BY HistoryFacts DEF LibraryOK, IsRow
  <1>2. ~library[s].made => Len(library[s].versions) = 0
    BY DEF LibraryOK, IsRow
  <1> QED
    BY <1>1, <1>2 DEF Grows

LEMMA StillShows ==
  ASSUME LibraryOK, LibraryOK', Grows, NEW x, NEW Q, TabShows(x, Q)
  PROVE  TabShows(x, Q)'
  <1>1. \A s \in Slugs : x.own[s] \in Nat /\ x.own[s] <= Len(library'[s].versions)
    BY HistoriesGrow DEF TabShows
  <1> QED
    BY <1>1 DEF TabShows, Awaits

LEMMA RequestStillShows ==
  ASSUME LibraryOK, LibraryOK', Grows, NEW x, NEW r, r.at \in Slugs, RequestShows(x, r)
  PROVE  RequestShows(x, r)'
  <1>1. /\ Len(library[r.at].versions) \in Nat /\ Len(library'[r.at].versions) \in Nat
        /\ Len(library[r.at].versions) <= Len(library'[r.at].versions)
    BY HistoriesGrow
  <1>2. ASSUME r.op \in WriterOps, r.step \in {"reload", "answer"}, r.at = r.target
        PROVE  r.number <= Len(library'[r.at].versions) /\ (r.page # NoPage => r.number <= r.page.version)
    <2>1. r.number \in Nat /\ r.number <= Len(library[r.at].versions) /\ (r.page # NoPage => r.number <= r.page.version)
      BY <1>2 DEF RequestShows
    <2> QED
      BY <1>1, <2>1
  <1> QED
    BY <1>2 DEF RequestShows

LEMMA ShownParts ==
  ASSUME ShownInv
  PROVE  /\ ContentInv /\ LibraryOK
         /\ \A t \in Tabs : /\ TabOK(tab[t]) /\ TabShows(tab[t], requests[t]) /\ LoadAwaited(t)
                            /\ tab = [tab EXCEPT ![t] = tab[t]]
                            /\ requests = [requests EXCEPT ![t] = requests[t]]
         /\ \A t \in Tabs : \A r \in requests[t] :
              RequestOK(r) /\ r.at \in Slugs /\ RequestShows(tab[t], r) /\ (r.op = "load" => tab[t].isLoading)
  BY InvParts DEF ShownInv, RequestOK

\* A step of one tab.
LEMMA TabStep ==
  ASSUME ShownInv, ContentInv', LibraryOK', Grows, UNCHANGED site, NEW t \in Tabs,
         NEW x, tab' = [tab EXCEPT ![t] = x],
         NEW Q, requests' = [requests EXCEPT ![t] = Q],
         TabShows(x, Q)', \A q \in Q : RequestShows(x, q)',
         t \in site.tabs /\ x.isLoading => \E q \in Q : q.op = "load"
  PROVE  ShownInv'
  <1>1. /\ tab'[t] = x /\ \A u \in Tabs \ {t} : tab'[u] = tab[u]
        /\ requests'[t] = Q /\ \A u \in Tabs \ {t} : requests'[u] = requests[u]
    BY ShownParts DEF ContentInv, ContentShape
  <1>2. ASSUME NEW u \in Tabs
        PROVE  /\ TabShows(tab[u], requests[u])' /\ LoadAwaited(u)'
               /\ (\A r \in requests[u] : RequestShows(tab[u], r))'
    <2>1. CASE u = t
      <3>1. TabShows(tab[t], requests[t])' /\ (\A r \in requests[t] : RequestShows(tab[t], r))'
        BY <1>1
      <3>2. LoadAwaited(t)'
        BY <1>1 DEF LoadAwaited
      <3> QED
        BY <2>1, <3>1, <3>2
    <2>2. CASE u # t
      <3>0. PICK y, P : y = tab[u] /\ P = requests[u]
        OBVIOUS
      <3>1. tab'[u] = y /\ requests'[u] = P
        BY <1>1, <2>2, <3>0
      <3>2. TabShows(y, P) /\ LibraryOK /\ \A r \in P : r.at \in Slugs /\ RequestShows(y, r)
        BY <3>0, ShownParts
      <3>3. LoadAwaited(u)'
        BY <3>0, <3>1, ShownParts DEF LoadAwaited
      <3>4. TabShows(y, P)' /\ \A r \in P : RequestShows(y, r)'
        BY <3>2, StillShows, RequestStillShows
      <3>5. TabShows(tab[u], requests[u])' /\ (\A r \in requests[u] : RequestShows(tab[u], r))'
        BY <3>1, <3>4
      <3> QED
        BY <3>3, <3>5
    <2> QED
      BY <2>1, <2>2
  <1> QED
    BY <1>2 DEF ShownInv

\* A button that leaves what is shown.
SameShow(x, old) ==
  /\ x.slug = old.slug /\ x.page = old.page /\ x.isLoading = old.isLoading
  /\ x.stray = old.stray /\ x.own = old.own /\ x.versions = old.versions

LEMMA ButtonShown ==
  ASSUME ShownInv, ContentInv', NEW t \in Tabs, UNCHANGED <<library, requests, site>>,
         NEW x, SameShow(x, tab[t]), x.error = tab[t].error, Sets(t, x)
  PROVE  ShownInv'
  <1>1. LibraryOK' /\ Grows
    BY ShownParts, LibraryStays
  <1>0. PICK Q : Q = requests[t]
    OBVIOUS
  <1>2. TabShows(x, Q)
    BY <1>0, ShownParts DEF TabShows, SameShow
  <1>3. \A q \in Q : q.at \in Slugs /\ RequestShows(x, q)
    <2>1. \A q \in Q : q.at \in Slugs /\ RequestShows(tab[t], q)
      BY <1>0, ShownParts
    <2> QED
      BY <2>1 DEF RequestShows, SameShow
  <1>4. tab' = [tab EXCEPT ![t] = x] /\ requests' = [requests EXCEPT ![t] = Q]
    BY <1>0, ShownParts DEF Sets
  <1>5. t \in site.tabs /\ x.isLoading => \E q \in Q : q.op = "load"
    BY <1>0, ShownParts DEF LoadAwaited, SameShow
  <1>6. TabShows(x, Q)' /\ \A q \in Q : RequestShows(x, q)'
    BY <1>1, <1>2, <1>3, ShownParts, StillShows, RequestStillShows
  <1> QED
    BY <1>1, <1>4, <1>5, <1>6, TabStep

\* A button that makes a request.
LEMMA AskedShown ==
  ASSUME ShownInv, ContentInv', NEW t \in Tabs, UNCHANGED <<library, site>>, ~tab[t].isLoading,
         NEW x, SameShow(x, tab[t]), Sets(t, x),
         NEW new, Asks(t, new), new.at = x.slug, ~new.left, new.page = NoPage, new.at \in Slugs,
         new.step \notin {"reload", "answer"},
         \/ new.op = "list" /\ x.page # NoPage /\ x.error = tab[t].error
         \/ new.op \in {"save", "restore"} /\ new.step # "list" /\ new.number \in Nat
         \/ new.op = "create" /\ x.page = NoPage /\ new.step # "list" /\ new.number \in Nat
  PROVE  ShownInv'
  <1>1. LibraryOK' /\ Grows
    BY ShownParts, LibraryStays
  <1>0. PICK Q : Q = requests[t] \cup {new}
    OBVIOUS
  <1>2. TabShows(x, Q)
    <2>1. TabShows(tab[t], requests[t])
      BY ShownParts
    <2>2. Awaits(requests[t]) => Awaits(Q)
      BY <1>0 DEF Awaits
    <2>3. Awaits(Q) \/ x.error = tab[t].error
      BY <1>0 DEF Awaits, WriterOps
    <2> QED
      BY <2>1, <2>2, <2>3 DEF TabShows, SameShow
  <1>3. \A q \in Q : q.at \in Slugs /\ RequestShows(x, q)
    <2>1. \A q \in requests[t] : q.at \in Slugs /\ RequestShows(tab[t], q)
      BY ShownParts
    <2>2. \A q \in requests[t] : q.at \in Slugs /\ RequestShows(x, q)
      BY <2>1 DEF RequestShows, SameShow
    <2>3. RequestShows(x, new)
      BY DEF RequestShows, SameShow, WriterOps
    <2> QED
      BY <1>0, <2>2, <2>3
  <1>4. tab' = [tab EXCEPT ![t] = x] /\ requests' = [requests EXCEPT ![t] = Q]
    BY <1>0 DEF Sets, Asks
  <1>5. ~x.isLoading
    BY DEF SameShow
  <1>6. TabShows(x, Q)' /\ \A q \in Q : RequestShows(x, q)'
    BY <1>1, <1>2, <1>3, ShownParts, StillShows, RequestStillShows
  <1> QED
    BY <1>1, <1>4, <1>5, <1>6, TabStep

\* A request is served and the next one of its handler awaited.
LEMMA GoesOnShown ==
  ASSUME ShownInv, ContentInv', LibraryOK', Grows, NEW t \in Tabs, UNCHANGED <<tab, site>>,
         NEW r \in requests[t], NEW x, x = tab[t],
         NEW new, new.op = r.op, new.left = r.left, RequestShows(x, new)', Goes(t, r, new)
  PROVE  ShownInv'
  <1>0. PICK Q : Q = (requests[t] \ {r}) \cup {new}
    OBVIOUS
  <1>1. TabShows(x, Q)
    <2>1. TabShows(x, requests[t])
      BY ShownParts
    <2>2. Awaits(requests[t]) => Awaits(Q)
      BY <1>0 DEF Awaits
    <2> QED
      BY <2>1, <2>2 DEF TabShows
  <1>2. \A q \in Q \ {new} : q.at \in Slugs /\ RequestShows(x, q)
    BY <1>0, ShownParts
  <1>3. TabShows(x, Q)' /\ \A q \in Q : RequestShows(x, q)'
    BY <1>1, <1>2, ShownParts, StillShows, RequestStillShows
  <1>4. tab' = [tab EXCEPT ![t] = x] /\ requests' = [requests EXCEPT ![t] = Q]
    BY <1>0, ShownParts DEF Goes
  <1>5. t \in site.tabs /\ x.isLoading => \E q \in Q : q.op = "load"
    BY <1>0, ShownParts DEF LoadAwaited
  <1> QED
    BY <1>3, <1>4, <1>5, TabStep

\* A handler returns.
LEMMA EndsShown ==
  ASSUME ShownInv, ContentInv', NEW t \in Tabs, UNCHANGED <<library, site>>,
         NEW r \in requests[t], Ends(t, r), NEW x, Sets(t, x),
         TabShows(x, requests[t] \ {r}), \A q \in requests[t] \ {r} : RequestShows(x, q),
         r.op = "load" => ~x.isLoading, r.op # "load" => x.isLoading = tab[t].isLoading
  PROVE  ShownInv'
  <1>1. LibraryOK' /\ Grows
    BY ShownParts, LibraryStays
  <1>0. PICK Q : Q = requests[t] \ {r}
    OBVIOUS
  <1>2. \A q \in Q : q.at \in Slugs /\ RequestShows(x, q)
    BY <1>0, ShownParts
  <1>3. TabShows(x, Q)' /\ \A q \in Q : RequestShows(x, q)'
    BY <1>0, <1>1, <1>2, ShownParts, StillShows, RequestStillShows
  <1>4. tab' = [tab EXCEPT ![t] = x] /\ requests' = [requests EXCEPT ![t] = Q]
    BY <1>0 DEF Sets, Ends
  <1>5. t \in site.tabs /\ x.isLoading => \E q \in Q : q.op = "load"
    BY <1>0, ShownParts DEF LoadAwaited
  <1> QED
    BY <1>1, <1>3, <1>4, <1>5, TabStep

-----------------------------------------------------------------------------
(* What each step shows *)

\* The fields the next lemmas look at.
LEMMA ShownFields ==
  ASSUME NEW old, TabOK(old), NEW a, NEW b
  PROVE  /\ SameShow([old EXCEPT !.showVersions = a], old)
         /\ [old EXCEPT !.showVersions = a].error = old.error
         /\ SameShow([old EXCEPT !.isCreating = a], old)
         /\ [old EXCEPT !.isCreating = a].error = old.error
         /\ SameShow([old EXCEPT !.isSaving = a, !.error = b], old)
         /\ SameShow([old EXCEPT !.isRestoring = a, !.error = b], old)
         /\ SameShow([old EXCEPT !.isCreatingSaving = a, !.error = b], old)
         /\ SameShow([old EXCEPT !.error = b], old) /\ [old EXCEPT !.error = b].error = b
         /\ SameShow([old EXCEPT !.error = b, !.isSaving = a], old)
         /\ [old EXCEPT !.error = b, !.isSaving = a].error = b
         /\ SameShow([old EXCEPT !.error = b, !.isRestoring = a], old)
         /\ [old EXCEPT !.error = b, !.isRestoring = a].error = b
         /\ SameShow([old EXCEPT !.error = b, !.isCreatingSaving = a], old)
         /\ [old EXCEPT !.error = b, !.isCreatingSaving = a].error = b
  BY DEF TabOK, IsTab, TabFields, SameShow

LEMMA NavigateShows ==
  ASSUME ShownInv, ContentInv', NEW t \in Tabs, NEW slug \in Slugs, Navigate(t, slug)
  PROVE  ShownInv'
  <1>0. PICK x, Q : /\ x = Entered(t, slug)
                    /\ Q = {[r EXCEPT !.left = TRUE] : r \in Abandoned(t)} \cup {Loading(slug)}
    OBVIOUS
  <1>1. LibraryOK' /\ Grows /\ UNCHANGED site
    BY ShownParts, LibraryStays DEF Navigate
  <1>2. tab' = [tab EXCEPT ![t] = x] /\ requests' = [requests EXCEPT ![t] = Q]
    BY <1>0 DEF Navigate, Sets
  <1>3. /\ x.slug = slug /\ x.isLoading /\ x.versions = NoList /\ x.own = tab[t].own
        /\ x.stray = FALSE
    <2>1. TabOK(tab[t])
      BY ShownParts
    <2> QED
      BY <1>0, <2>1 DEF Entered, TabOK, IsTab, TabFields
  <1>4. TabShows(x, Q)
    <2>1. TabShows(tab[t], requests[t])
      BY ShownParts
    <2> QED
      BY <1>3, <2>1 DEF TabShows
  <1>5. Loading(slug) \in Q /\ Loading(slug).op = "load"
    BY <1>0 DEF Loading
  <1>6. \A q \in Q : q.at \in Slugs /\ RequestShows(x, q)
    <2> SUFFICES ASSUME NEW q \in Q PROVE q.at \in Slugs /\ RequestShows(x, q)
      OBVIOUS
    <2>1. CASE q = Loading(slug)
      <3>1. /\ q.op = "load" /\ q.step = "reload" /\ q.at = slug /\ q.page = NoPage /\ q.left = FALSE
        BY <2>1 DEF Loading
      <3> QED
        BY <1>3, <3>1 DEF RequestShows, WriterOps
    <2>2. CASE q # Loading(slug)
      <3>1. PICK r \in requests[t] : r.op # "load" /\ q = [r EXCEPT !.left = TRUE]
        BY <1>0, <2>2 DEF Abandoned
      <3>2. RequestOK(r) /\ r.at \in Slugs /\ RequestShows(tab[t], r)
        BY ShownParts
      <3>3. /\ q.op = r.op /\ q.step = r.step /\ q.at = r.at /\ q.target = r.target
            /\ q.number = r.number /\ q.page = r.page /\ q.left = TRUE
        BY <3>1, <3>2 DEF RequestOK, IsRequest, RequestFields
      <3> QED
        BY <1>3, <3>1, <3>2, <3>3 DEF RequestShows
    <2> QED
      BY <2>1, <2>2
  <1>7. TabShows(x, Q)' /\ \A q \in Q : RequestShows(x, q)'
    BY <1>1, <1>4, <1>6, ShownParts, StillShows, RequestStillShows
  <1> QED
    BY <1>1, <1>2, <1>5, <1>7, TabStep

LEMMA VisitShows ==
  ASSUME ShownInv, ContentInv', NEW t \in Tabs, Visits(t)
  PROVE  ShownInv'
  <1>0. TabOK(tab[t]) /\ tab[t].slug \in Slugs
    BY ShownParts DEF TabOK
  <1>1. ASSUME NEW slug \in Slugs, Navigate(t, slug) PROVE ShownInv'
    BY <1>1, NavigateShows
  <1>2. CASE HandleStartEdit(t)
    <2>0. PICK x : x = [tab[t] EXCEPT !.isEditing = TRUE, !.editing = tab[t].page.slug, !.swapped = FALSE]
      OBVIOUS
    <2>1. Sets(t, x) /\ UNCHANGED <<library, requests, site>>
      BY <1>2, <2>0 DEF HandleStartEdit
    <2>2. SameShow(x, tab[t]) /\ x.error = tab[t].error
      BY <1>0, <2>0 DEF TabOK, IsTab, TabFields, SameShow
    <2> QED
      BY <2>1, <2>2, ButtonShown
  <1>3. CASE HandleCancelEdit(t)
    <2>0. PICK x : x = [tab[t] EXCEPT !.isEditing = FALSE, !.editing = None, !.swapped = FALSE]
      OBVIOUS
    <2>1. Sets(t, x) /\ UNCHANGED <<library, requests, site>>
      BY <1>3, <2>0 DEF HandleCancelEdit
    <2>2. SameShow(x, tab[t]) /\ x.error = tab[t].error
      BY <1>0, <2>0 DEF TabOK, IsTab, TabFields, SameShow
    <2> QED
      BY <2>1, <2>2, ButtonShown
  <1>4. CASE HandleSave(t)
    <2>0. PICK x, new : x = [tab[t] EXCEPT !.isSaving = TRUE, !.error = None] /\ new = Request("save", "resolve", t)
      OBVIOUS
    <2>1. Sets(t, x) /\ Asks(t, new) /\ UNCHANGED <<library, site>> /\ ~tab[t].isLoading
      BY <1>4, <2>0 DEF HandleSave, Writes, OffersSave, Shows
    <2>2. SameShow(x, tab[t])
      BY <1>0, <2>0, ShownFields
    <2>3. /\ new.op = "save" /\ new.step = "resolve" /\ new.at = tab[t].slug
          /\ new.number = 0 /\ new.page = NoPage /\ new.left = FALSE
      BY <2>0 DEF Request
    <2>4. new.at = x.slug
      BY <2>2, <2>3 DEF SameShow
    <2> QED
      BY <1>0, <2>1, <2>2, <2>3, <2>4, AskedShown
  <1>5. CASE HandleToggleVersions(t)
    <2>0. PICK shown : shown = ~tab[t].showVersions
      OBVIOUS
    <2>1. PICK x, new : /\ x = [tab[t] EXCEPT !.showVersions = shown]
                        /\ new = [Request("list", "list", t) EXCEPT !.of = None, !.swapped = FALSE]
      OBVIOUS
    <2>2. /\ Sets(t, x) /\ (Asks(t, new) \/ UNCHANGED requests) /\ UNCHANGED <<library, site>>
          /\ ~tab[t].isLoading /\ tab[t].page # NoPage
      BY <1>5, <2>0, <2>1 DEF HandleToggleVersions, OffersHistory, Shows
    <2>3. SameShow(x, tab[t]) /\ x.error = tab[t].error
      BY <1>0, <2>1, ShownFields
    <2>4. /\ new.op = "list" /\ new.step = "list" /\ new.at = tab[t].slug
          /\ new.page = NoPage /\ new.left = FALSE
      BY <2>1 DEF Request
    <2>5. new.at = x.slug /\ x.page # NoPage
      BY <2>2, <2>3, <2>4 DEF SameShow
    <2>6. CASE Asks(t, new)
      BY <1>0, <2>2, <2>3, <2>4, <2>5, <2>6, AskedShown
    <2>7. CASE UNCHANGED requests
      BY <2>2, <2>3, <2>7, ButtonShown
    <2> QED
      BY <2>2, <2>6, <2>7
  <1>6. ASSUME NEW n \in 1 .. (site.writes + 1), HandleRestoreVersion(t, n) PROVE ShownInv'
    <2>0. PICK x, new : /\ x = [tab[t] EXCEPT !.isRestoring = n, !.error = None]
                        /\ new = [Request("restore", "fetch", t) EXCEPT !.number = n, !.of = None, !.swapped = FALSE]
      OBVIOUS
    <2>1. Sets(t, x) /\ Asks(t, new) /\ UNCHANGED <<library, site>> /\ ~tab[t].isLoading
      BY <1>6, <2>0 DEF HandleRestoreVersion, Writes, OffersHistory, Shows
    <2>2. SameShow(x, tab[t])
      BY <1>0, <2>0, ShownFields
    <2>3. /\ new.op = "restore" /\ new.step = "fetch" /\ new.at = tab[t].slug
          /\ new.number = n /\ new.page = NoPage /\ new.left = FALSE
      BY <2>0 DEF Request
    <2>4. new.at = x.slug /\ n \in Nat
      BY <2>2, <2>3 DEF SameShow
    <2> QED
      BY <1>0, <2>1, <2>2, <2>3, <2>4, AskedShown
  <1>7. CASE StartCreate(t)
    <2>0. PICK x : x = [tab[t] EXCEPT !.isCreating = TRUE]
      OBVIOUS
    <2>1. Sets(t, x) /\ UNCHANGED <<library, requests, site>>
      BY <1>7, <2>0 DEF StartCreate
    <2>2. SameShow(x, tab[t]) /\ x.error = tab[t].error
      BY <1>0, <2>0, ShownFields
    <2> QED
      BY <2>1, <2>2, ButtonShown
  <1>8. CASE HandleCreate(t)
    <2>0. PICK x, new : x = [tab[t] EXCEPT !.isCreatingSaving = TRUE, !.error = None] /\ new = Request("create", "check", t)
      OBVIOUS
    <2>1. /\ Sets(t, x) /\ Asks(t, new) /\ UNCHANGED <<library, site>>
          /\ ~tab[t].isLoading /\ tab[t].page = NoPage
      BY <1>8, <2>0 DEF HandleCreate, Writes
    <2>2. SameShow(x, tab[t])
      BY <1>0, <2>0, ShownFields
    <2>3. /\ new.op = "create" /\ new.step = "check" /\ new.at = tab[t].slug
          /\ new.number = 0 /\ new.page = NoPage /\ new.left = FALSE
      BY <2>0 DEF Request
    <2>4. new.at = x.slug /\ x.page = NoPage
      BY <2>1, <2>2, <2>3 DEF SameShow
    <2> QED
      BY <1>0, <2>1, <2>2, <2>3, <2>4, AskedShown
  <1> QED
    BY <1>1, <1>2, <1>3, <1>4, <1>5, <1>6, <1>7, <1>8 DEF Visits

\* What is read is the newest version, which no version of the tab's own is above.
LEMMA PageRead ==
  ASSUME LibraryOK, NEW t \in Tabs, NEW slug \in Slugs, NEW page, page = GetPage(t, slug), page # NoPage
  PROVE  /\ page.slug = slug /\ page.version \in Nat
         /\ page.version = Len(library[slug].versions)
  <1>1. IsRow(slug, library[slug])
    BY DEF LibraryOK
  <1>2. library[slug].active /\ library[slug].made
    BY <1>1 DEF GetPage, IsRow
  <1> QED
    BY <1>1, <1>2, LatestIsLast DEF GetPage

LEMMA AnswersShow ==
  ASSUME ShownInv, ContentInv', NEW t \in Tabs, NEW r \in requests[t],
         ReadPage(t, r) \/ ListVersions(t, r) \/ GetVersion(t, r) \/ CheckNoPage(t, r)
         \/ ReadNextNumber(t, r)
  PROVE  ShownInv'
  <1>0. PICK x : x = tab[t]
    OBVIOUS
  <1>1. /\ LibraryOK /\ RequestOK(r) /\ r.at \in Slugs /\ IsRequest(r)
        /\ TabShows(x, requests[t]) /\ RequestShows(x, r)
    BY <1>0, ShownParts DEF RequestOK
  <1>2. UNCHANGED <<library, tab, site>>
    BY DEF ReadPage, ListVersions, GetVersion, CheckNoPage, ReadNextNumber, At
  <1>3. ASSUME NEW new, new.op = r.op, new.left = r.left, new.at = r.at, RequestShows(x, new), Goes(t, r, new)
        PROVE  ShownInv'
    <2>1. LibraryOK' /\ Grows
      BY <1>1, <1>2, LibraryStays
    <2>2. RequestShows(x, new)'
      BY <1>1, <1>3, <2>1, RequestStillShows
    <2> QED
      BY <1>0, <1>2, <1>3, <2>1, <2>2, GoesOnShown
  <1>4. CASE ReadPage(t, r)
    <2>0. PICK page : page = GetPage(t, r.at)
      OBVIOUS
    <2>1. PICK new : new = [r EXCEPT !.step = "answer", !.page = page]
      OBVIOUS
    <2>2. /\ new.op = r.op /\ new.step = "answer" /\ new.at = r.at /\ new.page = page
          /\ new.left = r.left /\ new.target = r.target /\ new.number = r.number
      BY <1>1, <2>1 DEF IsRequest, RequestFields
    <2>3. Goes(t, r, new) /\ r.step = "reload"
      BY <1>4, <2>0, <2>1 DEF ReadPage, At
    <2>4. page # NoPage => /\ page.slug = r.at /\ page.version \in Nat
                           /\ page.version = Len(library[r.at].versions)
      BY <1>1, <2>0, PageRead
    <2>5. x.own[r.at] \in Nat /\ x.own[r.at] <= Len(library[r.at].versions)
      BY <1>1 DEF TabShows
    <2>6. page # NoPage => page.version >= x.own[r.at]
      BY <2>4, <2>5
    <2>7. RequestShows(x, new)
      BY <1>1, <2>2, <2>3, <2>4, <2>6 DEF RequestShows
    <2> QED
      BY <1>3, <2>2, <2>3, <2>7
  <1>5. CASE ListVersions(t, r)
    <2>0. PICK n : n = Cardinality(ListVersionsV1(r.target))
      OBVIOUS
    <2>1. PICK new : new = [r EXCEPT !.step = "answer", !.number = n]
      OBVIOUS
    <2>2. /\ new.op = r.op /\ new.step = "answer" /\ new.at = r.at /\ new.page = r.page
          /\ new.left = r.left /\ new.target = r.target
      BY <1>1, <2>1 DEF IsRequest, RequestFields
    <2>3. Goes(t, r, new) /\ r.step = "list"
      BY <1>5, <2>0, <2>1 DEF ListVersions, At
    <2>4. r.op \notin WriterOps /\ r.page = NoPage
      BY <1>1, <2>3 DEF RequestShows
    <2>5. RequestShows(x, new)
      BY <1>1, <2>2, <2>4 DEF RequestShows
    <2> QED
      BY <1>3, <2>2, <2>3, <2>5
  <1>6. CASE GetVersion(t, r)
    <2>1. PICK a, b : Goes(t, r, [r EXCEPT !.step = "resolve", !.of = a, !.swapped = b])
      BY <1>6 DEF GetVersion
    <2>2. PICK new : new = [r EXCEPT !.step = "resolve", !.of = a, !.swapped = b]
      OBVIOUS
    <2>3. /\ new.op = r.op /\ new.step = "resolve" /\ new.at = r.at /\ new.page = r.page
          /\ new.left = r.left /\ new.target = r.target /\ new.number = r.number
      BY <1>1, <2>2 DEF IsRequest, RequestFields
    <2>4. Goes(t, r, new) /\ r.step = "fetch"
      BY <1>6, <2>1, <2>2 DEF GetVersion, At
    <2>5. RequestShows(x, new)
      BY <1>1, <2>3, <2>4 DEF RequestShows
    <2> QED
      BY <1>3, <2>3, <2>4, <2>5
  <1>7. CASE CheckNoPage(t, r)
    <2>1. PICK new : new = [r EXCEPT !.step = "make", !.target = r.at]
      OBVIOUS
    <2>2. /\ new.op = r.op /\ new.step = "make" /\ new.at = r.at /\ new.page = r.page
          /\ new.left = r.left /\ new.number = r.number
      BY <1>1, <2>1 DEF IsRequest, RequestFields
    <2>3. Goes(t, r, new) /\ r.step = "check"
      BY <1>7, <2>1 DEF CheckNoPage, At
    <2>4. RequestShows(x, new)
      BY <1>1, <2>2, <2>3 DEF RequestShows
    <2> QED
      BY <1>3, <2>2, <2>3, <2>4
  <1>8. CASE ReadNextNumber(t, r)
    <2>0. PICK n : n = NextNumber(r.target)
      OBVIOUS
    <2>1. r.step = "resolve" /\ r.target \in Slugs /\ library[r.target].made
      BY <1>1, <1>8 DEF RequestOK, ReadNextNumber, At, ResolveEditablePage
    <2>2. n \in Nat
      <3>1. IsRow(r.target, library[r.target])
        BY <1>1, <2>1 DEF LibraryOK
      <3> QED
        BY <2>0, <2>1, <3>1, LatestIsLast DEF NextNumber
    <2>3. PICK new : new = [r EXCEPT !.step = "insert", !.number = n]
      OBVIOUS
    <2>4. /\ new.op = r.op /\ new.step = "insert" /\ new.at = r.at /\ new.page = r.page
          /\ new.left = r.left /\ new.target = r.target /\ new.number = n
      BY <1>1, <2>3 DEF IsRequest, RequestFields
    <2>5. Goes(t, r, new)
      BY <1>8, <2>0, <2>3 DEF ReadNextNumber
    <2>6. RequestShows(x, new)
      BY <1>1, <2>1, <2>2, <2>4 DEF RequestShows
    <2> QED
      BY <1>3, <2>4, <2>5, <2>6
  <1> QED
    BY <1>4, <1>5, <1>6, <1>7, <1>8

\* A version or a page is in its table when its handler reads the page again.
LEMMA WritesShow ==
  ASSUME ShownInv, ContentInv', NEW t \in Tabs, NEW r \in requests[t], CreateVersion(t, r) \/ CreatePage(t, r)
  PROVE  ShownInv'
  <1>0. PICK x : x = tab[t]
    OBVIOUS
  <1>1. /\ LibraryOK /\ RequestOK(r) /\ r.at \in Slugs /\ IsRequest(r) /\ RequestShows(x, r)
    BY <1>0, ShownParts DEF RequestOK
  <1>2. UNCHANGED <<tab, site>>
    BY DEF CreateVersion, CreatePage, At
  <1>3. CASE CreateVersion(t, r)
    <2>1. PICK new : new = [r EXCEPT !.step = "reload"]
      OBVIOUS
    <2>2. /\ new.op = r.op /\ new.step = "reload" /\ new.at = r.at /\ new.page = r.page
          /\ new.left = r.left /\ new.target = r.target /\ new.number = r.number
      BY <1>1, <2>1 DEF IsRequest, RequestFields
    <2>3. Goes(t, r, new) /\ r.step = "insert"
      BY <1>3, <2>1 DEF CreateVersion, At
    <2>4. LibraryOK' /\ Grows
      BY <1>1, <1>3, VersionInserted
    <2>5. r.number <= Len(library'[r.target].versions)
      <3>0. PICK v, e : v = library[r.target].versions /\ e = Version(r.number, r.of, r.swapped)
        OBVIOUS
      <3>1. r.target \in Slugs /\ r.number \in 1 .. Len(v) + 1 /\ library' = [library EXCEPT ![r.target].versions = Append(v, e)]
        BY <1>1, <1>3, <2>3, <3>0 DEF RequestOK, CreateVersion, InsertVersion
      <3>2. IsHistory(v) /\ IsRow(r.target, library[r.target])
        BY <1>1, <3>0, <3>1 DEF LibraryOK, IsRow
      <3>3. library'[r.target].versions = Append(v, e)
        BY <1>1, <3>1, <3>2 DEF LibraryOK, IsRow
      <3>4. Len(v) \in Nat /\ Len(Append(v, e)) = Len(v) + 1
        BY <3>2, HistoryFacts, HistoryAppended
      <3> QED
        BY <3>1, <3>3, <3>4
    <2>6. r.page = NoPage
      BY <1>1, <2>3 DEF RequestShows
    <2>7. RequestShows(x, new)'
      BY <1>1, <2>2, <2>5, <2>6 DEF RequestShows
    <2> QED
      BY <1>0, <1>2, <2>2, <2>3, <2>4, <2>7, GoesOnShown
  <1>4. CASE CreatePage(t, r)
    <2>1. PICK new : new = [r EXCEPT !.step = "reload", !.number = 1]
      OBVIOUS
    <2>2. /\ new.op = r.op /\ new.step = "reload" /\ new.at = r.at /\ new.page = r.page
          /\ new.left = r.left /\ new.target = r.target /\ new.number = 1
      BY <1>1, <2>1 DEF IsRequest, RequestFields
    <2>3. Goes(t, r, new) /\ r.step = "make"
      BY <1>4, <2>1 DEF CreatePage, At
    <2>4. /\ ~library[r.at].made /\ library' = [library EXCEPT ![r.at] = NewRow(r.at, t)]
      BY <1>4 DEF CreatePage, WikiCreateV1
    <2>5. LibraryOK' /\ Grows
      BY <1>1, <2>4, PageMade
    <2>6. library'[r.at].made /\ Len(library'[r.at].versions) > 0 /\ Len(library'[r.at].versions) \in Nat
      <3>1. library'[r.at] = NewRow(r.at, t)
        BY <1>1, <2>4 DEF LibraryOK
      <3> QED
        BY <3>1, NewRowOK, HistoryFacts DEF IsRow
    <2>7. r.page = NoPage
      BY <1>1, <2>3 DEF RequestShows
    <2>8. 1 <= Len(library'[r.at].versions)
      BY <2>6
    <2>9. RequestShows(x, new)'
      BY <1>1, <2>2, <2>7, <2>8 DEF RequestShows
    <2> QED
      BY <1>0, <1>2, <2>2, <2>3, <2>5, <2>9, GoesOnShown
  <1> QED
    BY <1>3, <1>4

-----------------------------------------------------------------------------
(* What a handler leaves when it returns *)

\* An error is shown in place of the page that is missing.
LEMMA FailureShows ==
  ASSUME ShownInv, NEW t \in Tabs, NEW r \in requests[t],
         NEW x, x.slug = tab[t].slug, x.page = tab[t].page, x.stray = tab[t].stray, x.own = tab[t].own,
         x.versions = tab[t].versions, x.error # None,
         x.isLoading = FALSE \/ x.isLoading = tab[t].isLoading
  PROVE  TabShows(x, requests[t] \ {r}) /\ \A q \in requests[t] \ {r} : RequestShows(x, q)
  <1>1. TabShows(tab[t], requests[t]) /\ \A q \in requests[t] : RequestShows(tab[t], q)
    BY ShownParts
  <1>2. TabShows(x, requests[t] \ {r})
    BY <1>1 DEF TabShows
  <1>3. ASSUME NEW q \in requests[t] \ {r} PROVE RequestShows(x, q)
    <2>1. RequestShows(tab[t], q)
      BY <1>1
    <2> QED
      BY <2>1 DEF RequestShows
  <1> QED
    BY <1>2, <1>3

LEMMA FailureEnds ==
  ASSUME ShownInv, ContentInv', NEW t \in Tabs, NEW r \in requests[t], UNCHANGED <<library, site>>,
         Ends(t, r), Sets(t, AfterFailure(t, r))
  PROVE  ShownInv'
  <1>0. PICK x : x = AfterFailure(t, r)
    OBVIOUS
  <1>1. TabOK(tab[t]) /\ RequestOK(r)
    BY ShownParts
  <1>2. /\ x.slug = tab[t].slug /\ x.page = tab[t].page /\ x.stray = tab[t].stray /\ x.own = tab[t].own
        /\ x.versions = tab[t].versions /\ x.error = "failed"
        /\ r.op = "load" => x.isLoading = FALSE
        /\ r.op # "load" => x.isLoading = tab[t].isLoading
    <2>1. CASE r.op = "load"
      <3>1. x = [tab[t] EXCEPT !.error = "failed", !.isLoading = FALSE]
        BY <1>0, <2>1 DEF AfterFailure
      <3> QED
        BY <1>1, <2>1, <3>1 DEF TabOK, IsTab, TabFields
    <2>2. CASE r.op = "save"
      <3>1. x = [tab[t] EXCEPT !.error = "failed", !.isSaving = FALSE]
        BY <1>0, <2>2 DEF AfterFailure
      <3> QED
        BY <1>1, <2>2, <3>1 DEF TabOK, IsTab, TabFields
    <2>3. CASE r.op = "restore"
      <3>1. x = [tab[t] EXCEPT !.error = "failed", !.isRestoring = 0]
        BY <1>0, <2>3 DEF AfterFailure
      <3> QED
        BY <1>1, <2>3, <3>1 DEF TabOK, IsTab, TabFields
    <2>4. CASE r.op = "create"
      <3>1. x = [tab[t] EXCEPT !.error = "failed", !.isCreatingSaving = FALSE]
        BY <1>0, <2>4 DEF AfterFailure
      <3> QED
        BY <1>1, <2>4, <3>1 DEF TabOK, IsTab, TabFields
    <2>5. CASE r.op = "list"
      <3>1. x = [tab[t] EXCEPT !.error = "failed"]
        BY <1>0, <2>5 DEF AfterFailure
      <3> QED
        BY <1>1, <2>5, <3>1 DEF TabOK, IsTab, TabFields
    <2> QED
      BY <1>1, <2>1, <2>2, <2>3, <2>4, <2>5 DEF RequestOK
  <1>3. x.error # None
    BY <1>2 DEF None
  <1>4. TabShows(x, requests[t] \ {r}) /\ \A q \in requests[t] \ {r} : RequestShows(x, q)
    BY <1>2, <1>3, FailureShows
  <1> QED
    BY <1>0, <1>2, <1>4, EndsShown

LEMMA LoadedShows ==
  ASSUME ShownInv, ContentInv', NEW t \in Tabs, NEW r \in requests[t], ShowLoaded(t, r)
  PROVE  ShownInv'
  <1>1. /\ TabOK(tab[t]) /\ TabShows(tab[t], requests[t]) /\ RequestShows(tab[t], r)
        /\ \A q \in requests[t] : RequestShows(tab[t], q)
        /\ r.op = "load" /\ tab[t].isLoading /\ Ends(t, r) /\ UNCHANGED <<library, site>>
    BY ShownParts DEF ShowLoaded, At
  <1>2. CASE r.page = NoPage
    <2>0. PICK x : x = [tab[t] EXCEPT !.error = "missing", !.isLoading = FALSE]
      OBVIOUS
    <2>1. Sets(t, x)
      BY <1>2, <2>0 DEF ShowLoaded
    <2>2. /\ x.slug = tab[t].slug /\ x.page = tab[t].page /\ x.stray = tab[t].stray /\ x.own = tab[t].own
          /\ x.versions = tab[t].versions /\ x.error = "missing" /\ x.isLoading = FALSE
      BY <1>1, <2>0 DEF TabOK, IsTab, TabFields
    <2>3. x.error # None
      BY <2>2 DEF None
    <2>4. TabShows(x, requests[t] \ {r}) /\ \A q \in requests[t] \ {r} : RequestShows(x, q)
      BY <2>2, <2>3, FailureShows
    <2> QED
      BY <1>1, <2>1, <2>2, <2>4, EndsShown
  <1>3. CASE r.page # NoPage
    <2>0. PICK x : x = [tab[t] EXCEPT !.page = r.page, !.isLoading = FALSE]
      OBVIOUS
    <2>1. Sets(t, x)
      BY <1>3, <2>0 DEF ShowLoaded
    <2>2. /\ x.slug = tab[t].slug /\ x.page = r.page /\ x.stray = tab[t].stray /\ x.own = tab[t].own
          /\ x.versions = tab[t].versions /\ x.isLoading = FALSE
      BY <1>1, <2>0 DEF TabOK, IsTab, TabFields
    <2>3. ~r.left /\ r.at = x.slug /\ x.page.slug = x.slug /\ x.page.version >= x.own[x.slug]
      BY <1>1, <1>3, <2>2 DEF RequestShows
    <2>4. x.stray \/ x.versions = NoList
      BY <1>1, <2>2 DEF TabShows
    <2>5. TabShows(x, requests[t] \ {r})
      BY <1>1, <2>2, <2>3, <2>4 DEF TabShows
    <2>6. ASSUME NEW q \in requests[t] \ {r} PROVE RequestShows(x, q)
      <3>1. RequestShows(tab[t], q)
        BY <1>1
      <3> QED
        BY <1>3, <2>2, <2>3, <3>1 DEF RequestShows
    <2> QED
      BY <1>1, <2>1, <2>2, <2>5, <2>6, EndsShown
  <1> QED
    BY <1>2, <1>3

\* The page a handler has reloaded is the one of its address and has its version.
LEMMA ReloadedShows ==
  ASSUME ShownInv, NEW t \in Tabs, NEW r \in requests[t], r.op \in WriterOps, r.step = "answer",
         r.page # NoPage,
         NEW x, x.slug = tab[t].slug, x.page = r.page, x.isLoading = tab[t].isLoading, x.own = Own(t, r),
         \/ x.versions = NoList /\ x.stray = Late(t, r)
         \/ r.op = "create" /\ x.versions = tab[t].versions /\ x.stray = (tab[t].stray \/ Late(t, r))
  PROVE  TabShows(x, requests[t] \ {r}) /\ \A q \in requests[t] \ {r} : RequestShows(x, q)
  <1>1. /\ TabShows(tab[t], requests[t]) /\ RequestShows(tab[t], r) /\ r.at \in Slugs
        /\ \A q \in requests[t] : RequestShows(tab[t], q) /\ (q.op = "load" => tab[t].isLoading)
        /\ LibraryOK
    BY ShownParts
  <1>2. CASE r.left
    <2>1. x.stray /\ x.own = tab[t].own
      BY <1>2 DEF Late, Own
    <2>2. TabShows(x, requests[t] \ {r})
      BY <1>1, <2>1 DEF TabShows
    <2>3. ASSUME NEW q \in requests[t] \ {r} PROVE RequestShows(x, q)
      <3>1. RequestShows(tab[t], q)
        BY <1>1
      <3> QED
        BY <2>1, <3>1 DEF RequestShows
    <2> QED
      BY <2>2, <2>3
  <1>3. CASE ~r.left
    <2>1. /\ ~tab[t].isLoading /\ r.at = x.slug /\ x.page.slug = x.slug /\ x.page.version \in Nat
          /\ r.number \in Nat
      BY <1>1, <1>3 DEF RequestShows, WriterOps
    <2>2. r.at = r.target => r.number <= Len(library[r.at].versions) /\ r.number <= x.page.version
      BY <1>1 DEF RequestShows
    <2>3. PICK old : old = tab[t].own
      OBVIOUS
    <2>4. /\ old = [s \in Slugs |-> old[s]]
          /\ \A s \in Slugs : old[s] \in Nat /\ old[s] <= Len(library[s].versions)
      BY <1>1, <2>3 DEF TabShows
    <2>5. /\ x.own = [s \in Slugs |-> x.own[s]]
          /\ \A s \in Slugs : x.own[s] \in Nat /\ x.own[s] <= Len(library[s].versions)
          /\ x.page.version >= old[x.slug] => x.page.version >= x.own[x.slug]
      <3>1. CASE r.at # r.target
        BY <1>3, <2>1, <2>3, <2>4, <3>1 DEF Own
      <3>2. CASE r.at = r.target
        <4>0. PICK m : m = Max({old[r.at], r.number})
          OBVIOUS
        <4>1. old[r.at] \in Nat
          BY <1>1, <2>4
        <4>2. m \in {old[r.at], r.number}
          BY <2>1, <4>0, <4>1 DEF Max
        <4>3. m \in Nat /\ m <= Len(library[r.at].versions)
              /\ (x.page.version >= old[r.at] => x.page.version >= m)
          <5>1. CASE m = old[r.at]
            BY <1>1, <2>4, <5>1
          <5>2. CASE m = r.number
            BY <2>1, <2>2, <3>2, <5>2
          <5> QED
            BY <4>2, <5>1, <5>2
        <4>4. x.own = [old EXCEPT ![r.at] = m]
          BY <1>3, <2>3, <3>2, <4>0 DEF Own
        <4>5. x.own[r.at] = m /\ \A s \in Slugs \ {r.at} : x.own[s] = old[s]
          BY <1>1, <2>4, <4>4
        <4>6. x.own = [s \in Slugs |-> x.own[s]]
          BY <2>4, <4>4
        <4> QED
          BY <2>1, <2>4, <4>3, <4>5, <4>6
      <3> QED
        BY <3>1, <3>2
    <2>6. x.stray \/ x.page.version >= x.own[x.slug]
      <3>1. old[x.slug] \in Nat
        BY <1>1, <2>1, <2>4
      <3>2. x.stray \/ ~(x.page.version < old[x.slug])
        BY <2>1, <2>3 DEF Late
      <3> QED
        BY <2>1, <2>5, <3>1, <3>2
    <2>7. ~x.stray /\ x.versions # NoList => x.page # NoPage /\ x.versions.of = x.page.slug
      <3> SUFFICES ASSUME ~x.stray, x.versions # NoList PROVE x.versions.of = x.page.slug
        OBVIOUS
      <3>1. r.op = "create" /\ x.versions = tab[t].versions /\ ~tab[t].stray
        OBVIOUS
      <3>2. tab[t].page # NoPage /\ tab[t].versions.of = tab[t].page.slug
        BY <1>1, <3>1 DEF TabShows
      <3>3. tab[t].page.slug = tab[t].slug
        BY <1>1, <1>3, <3>1, <3>2 DEF RequestShows
      <3> QED
        BY <2>1, <3>1, <3>2, <3>3
    <2>8. TabShows(x, requests[t] \ {r})
      BY <2>1, <2>5, <2>6, <2>7 DEF TabShows
    <2>9. ASSUME NEW q \in requests[t] \ {r} PROVE RequestShows(x, q)
      <3>1. RequestShows(tab[t], q) /\ q.op # "load"
        BY <1>1, <2>1
      <3> QED
        BY <2>1, <3>1 DEF RequestShows
    <2> QED
      BY <2>8, <2>9
  <1> QED
    BY <1>2, <1>3

LEMMA KeptFields ==
  ASSUME NEW t \in Tabs, TabOK(tab[t]), NEW r, NEW x \in {AfterSave(t, r), AfterRestore(t, r)}
  PROVE  /\ x.slug = tab[t].slug /\ x.page = r.page /\ x.isLoading = tab[t].isLoading /\ x.own = Own(t, r)
         /\ x.versions = NoList /\ x.stray = Late(t, r)
  <1>0. PICK late, own, swaps : late = Late(t, r) /\ own = Own(t, r) /\ swaps = Swaps(t, r)
    OBVIOUS
  <1>1. CASE x = AfterSave(t, r)
    BY <1>0, <1>1 DEF AfterSave, TabOK, IsTab, TabFields
  <1>2. CASE x = AfterRestore(t, r)
    BY <1>0, <1>2 DEF AfterRestore, TabOK, IsTab, TabFields
  <1> QED
    BY <1>1, <1>2

LEMMA MadeFields ==
  ASSUME NEW t \in Tabs, TabOK(tab[t]), NEW r, NEW x, x = AfterCreate(t, r)
  PROVE  /\ x.slug = tab[t].slug /\ x.page = r.page /\ x.isLoading = tab[t].isLoading /\ x.own = Own(t, r)
         /\ x.versions = tab[t].versions /\ x.stray = (tab[t].stray \/ Late(t, r))
  <1>0. PICK late, own, swaps : late = Late(t, r) /\ own = Own(t, r) /\ swaps = Swaps(t, r)
    OBVIOUS
  <1> QED
    BY <1>0 DEF AfterCreate, TabOK, IsTab, TabFields

LEMMA ReturnsShow ==
  ASSUME ShownInv, ContentInv', NEW t \in Tabs, NEW r \in requests[t],
         ShowLoaded(t, r) \/ ShowReloaded(t, r) \/ ShowVersions(t, r) \/ Refuse(t, r) \/ Fail(t, r)
  PROVE  ShownInv'
  <1>1. /\ TabOK(tab[t]) /\ TabShows(tab[t], requests[t]) /\ RequestShows(tab[t], r) /\ RequestOK(r)
        /\ \A q \in requests[t] : RequestShows(tab[t], q)
    BY ShownParts
  <1>2. Ends(t, r) /\ UNCHANGED <<library, site>>
    BY DEF ShowLoaded, ShowReloaded, ShowVersions, Refuse, Fail, At
  <1>3. CASE Sets(t, AfterFailure(t, r))
    BY <1>2, <1>3, FailureEnds
  <1>4. CASE ShowReloaded(t, r) /\ r.page # NoPage
    <2>1. r.op \in WriterOps /\ r.op # "load" /\ r.step = "answer"
      BY <1>4 DEF ShowReloaded, At, WriterOps
    <2>2. ASSUME NEW x, Sets(t, x), x.slug = tab[t].slug, x.page = r.page,
                 x.isLoading = tab[t].isLoading, x.own = Own(t, r),
                 \/ x.versions = NoList /\ x.stray = Late(t, r)
                 \/ r.op = "create" /\ x.versions = tab[t].versions /\ x.stray = (tab[t].stray \/ Late(t, r))
          PROVE  ShownInv'
      <3>1. TabShows(x, requests[t] \ {r}) /\ \A q \in requests[t] \ {r} : RequestShows(x, q)
        BY <1>4, <2>1, <2>2, ReloadedShows
      <3> QED
        BY <1>2, <2>1, <2>2, <3>1, EndsShown
    <2>3. CASE r.op \in {"save", "restore"}
      <3>1. PICK x : Sets(t, x) /\ x \in {AfterSave(t, r), AfterRestore(t, r)}
        BY <1>4, <2>3 DEF ShowReloaded
      <3>2. /\ x.slug = tab[t].slug /\ x.page = r.page /\ x.isLoading = tab[t].isLoading /\ x.own = Own(t, r)
            /\ x.versions = NoList /\ x.stray = Late(t, r)
        BY <1>1, <3>1, KeptFields
      <3> QED
        BY <2>2, <3>1, <3>2
    <2>4. CASE r.op = "create"
      <3>1. PICK x : Sets(t, x) /\ x = AfterCreate(t, r)
        BY <1>4, <2>4 DEF ShowReloaded
      <3>2. /\ x.slug = tab[t].slug /\ x.page = r.page /\ x.isLoading = tab[t].isLoading /\ x.own = Own(t, r)
            /\ x.versions = tab[t].versions /\ x.stray = (tab[t].stray \/ Late(t, r))
        BY <1>1, <3>1, MadeFields
      <3> QED
        BY <2>2, <2>4, <3>1, <3>2
    <2> QED
      BY <2>1, <2>3, <2>4 DEF WriterOps
  <1>5. CASE ShowVersions(t, r)
    <2>0. PICK stray, list : /\ stray = (tab[t].stray \/ r.left \/ r.target # tab[t].page.slug)
                             /\ list = [of |-> r.target, numbers |-> 1..r.number]
      OBVIOUS
    <2>1. PICK x : x = [tab[t] EXCEPT !.versions = list, !.stray = stray]
      OBVIOUS
    <2>2. Sets(t, x) /\ r.op = "list"
      BY <1>5, <2>0, <2>1 DEF ShowVersions
    <2>3. /\ x.slug = tab[t].slug /\ x.page = tab[t].page /\ x.isLoading = tab[t].isLoading
          /\ x.own = tab[t].own /\ x.error = tab[t].error /\ x.versions = list /\ x.stray = stray
      BY <1>1, <2>1 DEF TabOK, IsTab, TabFields
    <2>4. list.of = r.target
      BY <2>0
    <2>5. Awaits(requests[t]) => Awaits(requests[t] \ {r})
      BY <2>2 DEF Awaits, WriterOps
    <2>6. x.isLoading => r.left
      BY <1>1, <2>2, <2>3 DEF RequestShows
    <2>7. ~r.left => x.page # NoPage
      BY <1>1, <2>2, <2>3 DEF RequestShows
    <2>8. TabShows(x, requests[t] \ {r})
      BY <1>1, <2>0, <2>3, <2>4, <2>5, <2>6, <2>7 DEF TabShows
    <2>9. ASSUME NEW q \in requests[t] \ {r} PROVE RequestShows(x, q)
      <3>1. RequestShows(tab[t], q)
        BY <1>1
      <3> QED
        BY <2>0, <2>3, <3>1 DEF RequestShows
    <2> QED
      BY <1>2, <2>2, <2>3, <2>8, <2>9, EndsShown
  <1>6. CASE ShowReloaded(t, r) /\ r.page = NoPage
    BY <1>3, <1>6 DEF ShowReloaded
  <1> QED
    BY <1>3, <1>4, <1>5, <1>6, LoadedShows DEF Refuse, Fail

-----------------------------------------------------------------------------
(* Every step *)

LEMMA TablesShow ==
  ASSUME ShownInv, ContentInv', LibraryOK', Grows, UNCHANGED <<tab, requests, site>>
  PROVE  ShownInv'
  <1>1. ASSUME NEW u \in Tabs
        PROVE  /\ TabShows(tab[u], requests[u])' /\ LoadAwaited(u)'
               /\ (\A r \in requests[u] : RequestShows(tab[u], r))'
    <2>0. PICK y, P : y = tab[u] /\ P = requests[u]
      OBVIOUS
    <2>1. TabShows(y, P) /\ LibraryOK /\ \A r \in P : r.at \in Slugs /\ RequestShows(y, r)
      BY <2>0, ShownParts
    <2>2. TabShows(y, P)' /\ \A r \in P : RequestShows(y, r)'
      BY <2>1, StillShows, RequestStillShows
    <2>3. tab'[u] = y /\ requests'[u] = P
      BY <2>0
    <2>4. LoadAwaited(u)'
      BY ShownParts DEF LoadAwaited
    <2>5. TabShows(tab[u], requests[u])' /\ (\A r \in requests[u] : RequestShows(tab[u], r))'
      BY <2>2, <2>3
    <2> QED
      BY <2>4, <2>5
  <1> QED
    BY <1>1 DEF ShownInv

LEMMA AdministersShow ==
  ASSUME ShownInv, ContentInv', Administers
  PROVE  ShownInv'
  <1>1. LibraryOK /\ UNCHANGED <<tab, requests, site>>
    BY ShownParts DEF Administers, ServicePagesCreate, ServicePagesUpdate, ServicePagesDelete
  <1>2. LibraryOK' /\ Grows
    BY <1>1, TablesAdministered
  <1> QED
    BY <1>1, <1>2, TablesShow

LEMMA ShownStep == ShownInv /\ [ContentNext]_contentVars => ShownInv'
  <1> SUFFICES ASSUME ShownInv, [ContentNext]_contentVars PROVE ShownInv'
    OBVIOUS
  <1>0. ContentInv'
    BY ContentStep DEF ShownInv
  <1>1. CASE UNCHANGED contentVars
    <2>1. UNCHANGED <<library, tab, requests, site>>
      BY <1>1 DEF contentVars
    <2> QED
      BY <1>0, <2>1, ShownParts, LibraryStays, TablesShow
  <1>2. ASSUME NEW t \in Tabs, Continues(t) PROVE ShownInv'
    BY <1>0, <1>2, AnswersShow, WritesShow, ReturnsShow DEF Continues
  <1> QED
    BY <1>0, <1>1, <1>2, VisitShows, AdministersShow DEF ContentNext

LEMMA ShownStart == (\E sc \in ContentScenes : ContentInit(sc)) => ShownInv
  <1> SUFFICES ASSUME NEW sc \in ContentScenes, ContentInit(sc) PROVE ShownInv
    OBVIOUS
  <1>1. ContentInv /\ site.tabs \subseteq Tabs
    BY ContentStart, ContentAssumption DEF ContentInit
  <1>2. PICK s \in Slugs :
          /\ tab = [t \in Tabs |-> FirstTab(IF t \in sc.tabs THEN s ELSE CHOOSE a \in Slugs : TRUE)]
          /\ requests = [t \in Tabs |-> IF t \in sc.tabs THEN {Loading(s)} ELSE {}]
    BY DEF ContentInit
  <1>3. \A u \in Slugs : Len(library[u].versions) \in Nat
    BY <1>1, HistoryFacts DEF ContentInv, ContentShape, LibraryOK, IsRow
  <1>4. ASSUME NEW t \in Tabs
        PROVE  /\ TabShows(tab[t], requests[t]) /\ LoadAwaited(t)
               /\ \A r \in requests[t] : RequestShows(tab[t], r)
    <2>1. PICK slug : tab[t] = FirstTab(slug) /\ (t \in sc.tabs => slug = s)
      BY <1>2
    <2>2. /\ tab[t].slug = slug /\ tab[t].isLoading = TRUE /\ tab[t].versions = NoList
          /\ tab[t].stray = FALSE /\ tab[t].own = [u \in Slugs |-> 0]
      BY <2>1 DEF FirstTab
    <2>3. TabShows(tab[t], requests[t])
      BY <1>3, <2>2 DEF TabShows
    <2>4. LoadAwaited(t)
      BY <1>2 DEF LoadAwaited, Loading, ContentInit
    <2>5. ASSUME NEW r \in requests[t] PROVE RequestShows(tab[t], r)
      <3>1. r = Loading(s) /\ tab[t].slug = s
        BY <1>2, <2>1, <2>2
      <3>2. r.op = "load" /\ r.step = "reload" /\ r.at = s /\ r.page = NoPage /\ r.left = FALSE
        BY <3>1 DEF Loading
      <3> QED
        BY <3>1, <3>2 DEF RequestShows, WriterOps
    <2> QED
      BY <2>3, <2>4, <2>5
  <1> QED
    BY <1>1, <1>4 DEF ShownInv

\* However the requests of a tab interleave with the visits of other addresses and with
\* the work of others, a tab at rest shows the page of its address, its history and at
\* least the tab's own newest version, unless an answer came late.  loadPage
THEOREM ShownStaysAtTheAddress == ContentSpec => []ShownFollowsTheAddress
  <1>1. ShownInv => ShownFollowsTheAddress
    <2> SUFFICES ASSUME ShownInv, NEW t \in site.tabs,
                        requests[t] = {}, tab[t].error = None, ~tab[t].stray
                 PROVE  /\ tab[t].page.slug = tab[t].slug
                        /\ tab[t].page.version >= tab[t].own[tab[t].slug]
                        /\ tab[t].versions # NoList => tab[t].versions.of = tab[t].page.slug
      BY DEF ShownFollowsTheAddress
    <2>1. t \in Tabs
      BY DEF ShownInv
    <2>2. ~tab[t].isLoading
      BY <2>1, ShownParts DEF LoadAwaited
    <2>3. ~Awaits(requests[t]) /\ TabShows(tab[t], requests[t])
      BY <2>1, ShownParts DEF Awaits
    <2> QED
      BY <2>2, <2>3 DEF TabShows
  <1> QED
    BY <1>1, ShownStart, ShownStep, PTL DEF ContentSpec

(***************************************************************************)
(* ImportPromotion: what is promoted was approved and is in the books, once and*)
(* whole, with any number of line items, promotion tasks and restarts.      *)
(***************************************************************************)

-----------------------------------------------------------------------------
(* The inductive invariant *)

Statements(step) ==
  CASE step = 1 -> {"validate_import", "record"}
    [] step = 2 -> {"classify_costs", "record"}
    [] step = 3 -> {"create_journal", "lines", "post", "record"}
    [] OTHER -> {"mark_promoted", "record"}

\* The tick rests, or is at a statement of the step its task is at.
TickShape ==
  \/ tick = NoTick
  \/ \E t \in DOMAIN task :
       /\ tick = [on |-> {t}, at |-> tick.at, rows |-> tick.rows, carries |-> tick.carries]
       /\ tick.rows \in Nat /\ tick.carries \in Nat
       /\ task[t].status = "running" /\ task[t].step \in 1 .. 4
       /\ tick.at \in Statements(task[t].step)

Shapes ==
  /\ imports \in [Imports -> ImportRow]
  /\ importer \in [Imports -> {"new", "at_work", "done"}]
  /\ deleting \subseteq Imports
  /\ journal \in [Imports -> JournalRow]
  /\ DOMAIN task \subseteq Tasks
  /\ \A t \in DOMAIN task : task[t] \in TaskRow
  /\ TickShape
  /\ crashes \in 0 .. MaxCrashes

\* An import that has its rows counted while it can be approved has all its line
\* items; none is counted before its importer is done.
ImportHolds(i) ==
  /\ imports[i].items <= Items[i]
  /\ importer[i] = "new" => ~Exists(i)
  /\ importer[i] # "done" => imports[i].rows = 0
  /\ imports[i].rows > 0 /\ imports[i].status \in {"pending_approval", "approved"} =>
       imports[i].items = Items[i]

\* What validation has established for good: nobody but a promotion or a deletion
\* will change the import.
Imported(i) ==
  /\ importer[i] = "done"
  /\ Exists(i) => imports[i].status \in {"approved", "promoted"} /\ imports[i].items = Items[i]

\* Amounts added up from all the line items of an import that is still there.
Carried(i, carries) == carries <= Items[i] /\ (Exists(i) => carries = Items[i])

JournalHolds(i) ==
  /\ journal[i].carries <= Items[i] /\ journal[i].lines <= journal[i].carries + 1
  /\ journal[i].status # "absent" => Imported(i) /\ Carried(i, journal[i].carries)

\* Step n of task t is over, recorded or not.
Over(t, n) == task[t].step > n \/ (t \in tick.on /\ tick.at = "record" /\ task[t].step = n)

TaskHolds(t) ==
  /\ task[t].status = "running" => task[t].step <= 4
  /\ task[t].status = "completed" => task[t].step > 4
  /\ task[t].carries <= Items[task[t].on]
  /\ t \in tick.on => tick.carries <= Items[task[t].on]
  /\ Over(t, 1) => Imported(task[t].on)
  /\ task[t].step > 2 => Carried(task[t].on, task[t].carries)
  /\ t \in tick.on /\ Over(t, 2) => Carried(task[t].on, tick.carries)
  /\ t \in tick.on /\ tick.at = "lines" =>
       /\ journal[task[t].on].status # "absent"
       /\ journal[task[t].on].lines <= journal[task[t].on].carries
  /\ Over(t, 3) => journal[task[t].on].status = "posted" /\ Balances(task[t].on)
  /\ Over(t, 4) => imports[task[t].on].status \in {"promoted", "absent"}

OnlyOnePast ==
  \A t, u \in DOMAIN task : t # u /\ task[t].on = task[u].on => ~(Over(t, 3) /\ Over(u, 3))

\* The journal whose lines are written may be posted meanwhile, but no task is past it.
LinesAreEarly ==
  \A t \in tick.on : tick.at = "lines" =>
    /\ imports[task[t].on].status # "promoted"
    /\ \A u \in DOMAIN task : task[u].on = task[t].on => ~Over(u, 3)

PromotionInv ==
  /\ Shapes
  /\ \A i \in Imports : ImportHolds(i) /\ JournalHolds(i)
  /\ \A t \in DOMAIN task : TaskHolds(t)
  /\ OnlyOnePast /\ LinesAreEarly
  /\ PromotedIsInTheBooks

-----------------------------------------------------------------------------
(* Importers and approvers *)

\* A change of imports keeps the invariant if it leaves validated imports as
\* they are, or deletes them, and promotes none.
LEMMA ImportsChange ==
  ASSUME PromotionInv, UNCHANGED pipeline,
         imports' \in [Imports -> ImportRow], importer' \in [Imports -> {"new", "at_work", "done"}],
         deleting' \subseteq Imports, crashes' \in 0 .. MaxCrashes,
         \A i \in Imports : ImportHolds(i)',
         \A i \in Imports : Imported(i) => \/ imports'[i] = imports[i] /\ importer'[i] = "done"
                                           \/ imports'[i].status = "absent" /\ importer'[i] = "done",
         \A i \in Imports : imports'[i].status = "promoted" => imports[i].status = "promoted"
  PROVE  PromotionInv'
<1>1. Shapes'
  BY DEF PromotionInv, Shapes, TickShape, pipeline
<1>2. \A i \in Imports : Imported(i) => Imported(i)' /\ (Exists(i)' => Exists(i))
  BY DEF Imported, Exists
<1>3. \A i \in Imports : JournalHolds(i)'
  BY <1>2 DEF PromotionInv, JournalHolds, Carried, pipeline
<1>4. \A t \in DOMAIN task : TaskHolds(t)'
  <2> SUFFICES ASSUME NEW t \in DOMAIN task PROVE TaskHolds(t)'
    OBVIOUS
  <2>1. TaskHolds(t) /\ task[t].on \in Imports
    BY DEF PromotionInv, Shapes, TaskRow
  <2>2. task[t].step \in Nat
    BY DEF PromotionInv, Shapes, TaskRow
  <2>3. \A n \in 1 .. 4 : Over(t, n)' = Over(t, n)
    BY DEF Over, pipeline
  <2>4. Over(t, 2) \/ task[t].step > 2 \/ Over(t, 4) => Over(t, 1)
    BY <2>2 DEF Over
  <2>5. Over(t, 4) => imports'[task[t].on].status \in {"promoted", "absent"}
    BY <2>1, <2>4 DEF TaskHolds
  <2> QED BY <1>2, <2>1, <2>3, <2>4, <2>5 DEF TaskHolds, Carried, pipeline, Balances, Complete
<1>5. OnlyOnePast' /\ LinesAreEarly'
  <2>1. \A t \in tick.on : task[t].on \in Imports
    BY DEF PromotionInv, Shapes, TickShape, NoTick, TaskRow
  <2> QED BY <2>1 DEF PromotionInv, OnlyOnePast, LinesAreEarly, Over, pipeline
<1>6. PromotedIsInTheBooks'
  BY DEF PromotionInv, PromotedIsInTheBooks, pipeline, Balances, Complete
<1>7. DOMAIN task' = DOMAIN task
  BY DEF pipeline
<1> QED BY <1>1, <1>3, <1>4, <1>5, <1>6, <1>7 DEF PromotionInv

\* A change of one import that is not validated.
LEMMA OneImportChanges ==
  ASSUME PromotionInv, NEW i \in Imports, NEW row \in ImportRow, NEW stage \in {"new", "at_work", "done"},
         UNCHANGED <<deleting, pipeline, crashes>>,
         imports' = [imports EXCEPT ![i] = row], importer' = [importer EXCEPT ![i] = stage],
         ~Imported(i), row.status # "promoted",
         row.items <= Items[i], stage # "new", stage # "done" => row.rows = 0,
         row.rows > 0 /\ row.status \in {"pending_approval", "approved"} => row.items = Items[i]
  PROVE  PromotionInv'
<1>1. /\ imports'[i] = row /\ \A j \in Imports \ {i} : imports'[j] = imports[j]
      /\ importer'[i] = stage /\ \A j \in Imports \ {i} : importer'[j] = importer[j]
      /\ imports' \in [Imports -> ImportRow] /\ importer' \in [Imports -> {"new", "at_work", "done"}]
  BY DEF PromotionInv, Shapes
<1>2. \A j \in Imports : ImportHolds(j)'
  BY <1>1 DEF PromotionInv, ImportHolds, Exists
<1>3. \A j \in Imports : Imported(j) => imports'[j] = imports[j] /\ importer'[j] = "done"
  BY <1>1 DEF Imported
<1>4. \A j \in Imports : imports'[j].status = "promoted" => imports[j].status = "promoted"
  BY <1>1
<1>5. deleting' \subseteq Imports /\ crashes' \in 0 .. MaxCrashes
  BY DEF PromotionInv, Shapes
<1> QED BY <1>1, <1>2, <1>3, <1>4, <1>5, ImportsChange

LEMMA CreateImportKeeps ==
  ASSUME PromotionInv, NEW i \in Imports, CreateImport(i) PROVE PromotionInv'
<1> DEFINE status == IF i \in PaymentRequests THEN "pending_approval" ELSE "pending"
           row == [status |-> status, rows |-> 0, items |-> 0]
<1>0. [NoImport EXCEPT !.status = status] = row
  BY DEF NoImport
<1>1. imports' = [imports EXCEPT ![i] = row] /\ importer' = [importer EXCEPT ![i] = "at_work"]
  <2>1. imports' = [imports EXCEPT ![i] = [NoImport EXCEPT !.status = status]]
    BY DEF CreateImport
  <2> QED BY <1>0, <2>1, Zenon DEF CreateImport
<1>2. row \in ImportRow
  BY DEF ImportRow, Statuses
<1>3. ~Imported(i)
  BY DEF CreateImport, Imported
<1>4. Items[i] \in Nat
  BY ImportAssumption
<1>5. row.items <= Items[i] /\ row.rows = 0 /\ ~(row.rows > 0) /\ row.status # "promoted"
  BY <1>4
<1> HIDE DEF row
<1> QED BY <1>1, <1>2, <1>3, <1>5, OneImportChanges DEF CreateImport

LEMMA InsertLineItemKeeps ==
  ASSUME PromotionInv, NEW i \in Imports, InsertLineItem(i) PROVE PromotionInv'
<1>1. imports[i] \in ImportRow /\ Items[i] \in Nat
  BY ImportAssumption DEF PromotionInv, Shapes
<1> DEFINE row == [imports[i] EXCEPT !.items = imports[i].items + 1]
<1>2. /\ row \in ImportRow /\ row.status = imports[i].status
      /\ row.rows = imports[i].rows /\ row.items = imports[i].items + 1
  BY <1>1 DEF ImportRow
<1>3. imports' = [imports EXCEPT ![i] = row] /\ importer' = [importer EXCEPT ![i] = "at_work"]
  BY DEF InsertLineItem, PromotionInv, Shapes
<1>4. importer[i] = "at_work" /\ imports[i].items < Items[i] /\ imports[i].items \in Nat
  BY <1>1 DEF InsertLineItem, ImportRow
<1>5. imports[i].rows = 0 /\ ~Imported(i)
  BY <1>4 DEF PromotionInv, ImportHolds, Imported
<1>6. ImportHolds(i) /\ JournalHolds(i) /\ PromotedIsInTheBooks
  BY DEF PromotionInv
<1>7. imports[i].status # "promoted"
  <2>1. imports[i].status = "promoted" => journal[i].status # "absent"
    BY <1>6 DEF PromotedIsInTheBooks
  <2> QED BY <1>5, <1>6, <2>1 DEF JournalHolds
<1> HIDE DEF row
<1>8. row.items <= Items[i] /\ row.rows = 0 /\ ~(row.rows > 0) /\ row.status # "promoted"
  BY <1>1, <1>2, <1>4, <1>5, <1>7
<1> QED BY <1>2, <1>3, <1>5, <1>8, OneImportChanges DEF InsertLineItem

\* The importer writes the status it ends with.
LEMMA ImportEnds ==
  ASSUME PromotionInv, NEW i \in Imports, importer[i] = "at_work",
         NEW status \in {"pending_approval", "failed"}, NEW counted \in Nat,
         WriteStatus(i, status, counted) \/ UNCHANGED imports,
         Exists(i) /\ status = "pending_approval" => imports[i].items = Items[i],
         importer' = [importer EXCEPT ![i] = "done"],
         UNCHANGED <<deleting, pipeline, crashes>>
  PROVE  PromotionInv'
<1>1. imports[i] \in ImportRow /\ Items[i] \in Nat /\ ImportHolds(i) /\ JournalHolds(i)
  BY ImportAssumption DEF PromotionInv, Shapes
<1>2. /\ imports[i].rows = 0 /\ ~(imports[i].rows > 0) /\ ~Imported(i)
      /\ imports[i].items <= Items[i] /\ imports[i].status # "promoted"
  BY <1>1 DEF PromotionInv, ImportHolds, JournalHolds, Imported, PromotedIsInTheBooks
<1>3. CASE UNCHANGED imports
  <2>1. imports' = [imports EXCEPT ![i] = imports[i]]
    BY <1>3 DEF PromotionInv, Shapes
  <2> QED BY <1>1, <1>2, <2>1, OneImportChanges
<1>4. CASE WriteStatus(i, status, counted) /\ ~Exists(i)
  <2>1. imports' = imports
    BY <1>4 DEF WriteStatus
  <2> QED BY <1>3, <2>1
<1>5. CASE WriteStatus(i, status, counted) /\ Exists(i)
  <2> DEFINE row == [imports[i] EXCEPT !.status = status, !.rows = counted]
  <2>1. row \in ImportRow /\ row.status = status /\ row.rows = counted /\ row.items = imports[i].items
    BY <1>1 DEF ImportRow, Statuses
  <2>2. imports' = [imports EXCEPT ![i] = row]
    BY <1>5 DEF WriteStatus, PromotionInv, Shapes
  <2> HIDE DEF row
  <2>3. row.status # "promoted" /\ row.items <= Items[i]
        /\ (row.rows > 0 /\ row.status \in {"pending_approval", "approved"} => row.items = Items[i])
    BY <1>2, <1>5, <2>1
  <2> QED BY <1>2, <2>1, <2>2, <2>3, OneImportChanges
<1> QED BY <1>3, <1>4, <1>5

LEMMA ImportDoneKeeps ==
  ASSUME PromotionInv, NEW i \in Imports, ImportDone(i) \/ ImportRaises(i) PROVE PromotionInv'
<1>1. importer[i] = "at_work" /\ importer' = [importer EXCEPT ![i] = "done"]
      /\ UNCHANGED <<deleting, pipeline, crashes>>
  BY DEF ImportDone, ImportRaises
<1>2. CASE ImportDone(i)
  BY <1>1, <1>2, ImportEnds, ImportAssumption DEF ImportDone
<1>3. CASE ImportRaises(i)
  <2>1. imports[i].items \in Nat
    BY DEF PromotionInv, Shapes, ImportRow
  <2>2. UNCHANGED imports \/ \E counted \in Nat : WriteStatus(i, "failed", counted)
    BY <1>3, <2>1 DEF ImportRaises
  <2> QED BY <1>1, <2>2, ImportEnds
<1> QED BY <1>2, <1>3

LEMMA DecideKeeps ==
  ASSUME PromotionInv, NEW i \in Imports, ApproveImport(i) \/ RejectImport(i) PROVE PromotionInv'
<1>1. PICK status \in {"approved", "rejected"} : Decide(i, status)
  BY DEF ApproveImport, RejectImport
<1>2. imports[i] \in ImportRow /\ ImportHolds(i) /\ imports[i].status = "pending_approval" /\ importer[i] # "new"
      /\ importer[i] \in {"new", "at_work", "done"}
  BY <1>1 DEF PromotionInv, Shapes, Decide, ImportHolds, Exists
<1> DEFINE row == [imports[i] EXCEPT !.status = status]
<1>3. row \in ImportRow /\ row.status = status /\ row.rows = imports[i].rows /\ row.items = imports[i].items
  BY <1>2 DEF ImportRow, Statuses
<1>4. imports' = [imports EXCEPT ![i] = row] /\ importer' = [importer EXCEPT ![i] = importer[i]]
  BY <1>1 DEF Decide, PromotionInv, Shapes
<1>5. ~Imported(i)
  BY <1>2 DEF Imported, Exists
<1> HIDE DEF row
<1>6. /\ row.status # "promoted" /\ row.items <= Items[i] /\ (importer[i] # "done" => row.rows = 0)
      /\ (row.rows > 0 /\ row.status \in {"pending_approval", "approved"} => row.items = Items[i])
  BY <1>2, <1>3 DEF ImportHolds
<1> QED BY <1>1, <1>2, <1>3, <1>4, <1>5, <1>6, OneImportChanges DEF Decide

LEMMA DeleteKeeps ==
  ASSUME PromotionInv, NEW i \in Imports, DeleteCheck(i) \/ DeleteImport(i) PROVE PromotionInv'
<1>1. CASE DeleteCheck(i)
  <2>1. UNCHANGED <<imports, importer, pipeline, crashes>> /\ deleting' \subseteq Imports
    BY <1>1 DEF DeleteCheck, PromotionInv, Shapes
  <2>2. \A j \in Imports : ImportHolds(j)'
    BY <2>1 DEF PromotionInv, ImportHolds, Exists
  <2> QED BY <2>1, <2>2, ImportsChange DEF PromotionInv, Shapes, Imported
<1>2. CASE DeleteImport(i)
  <2>1. /\ imports' = [imports EXCEPT ![i] = NoImport] /\ UNCHANGED <<importer, pipeline, crashes>>
        /\ deleting' \subseteq Imports
    BY <1>2 DEF DeleteImport, PromotionInv, Shapes
  <2>2. NoImport \in ImportRow /\ NoImport.status = "absent" /\ NoImport.rows = 0 /\ NoImport.items = 0
    BY DEF NoImport, ImportRow, Statuses
  <2>3. /\ imports'[i] = NoImport /\ \A j \in Imports \ {i} : imports'[j] = imports[j]
        /\ imports' \in [Imports -> ImportRow]
    BY <2>1, <2>2 DEF PromotionInv, Shapes
  <2>4. \A j \in Imports : ImportHolds(j)'
    BY <2>1, <2>2, <2>3, ImportAssumption DEF PromotionInv, ImportHolds, Exists
  <2>5. \A j \in Imports : Imported(j) => \/ imports'[j] = imports[j] /\ importer'[j] = "done"
                                          \/ imports'[j].status = "absent" /\ importer'[j] = "done"
    BY <2>1, <2>2, <2>3 DEF Imported
  <2>6. \A j \in Imports : imports'[j].status = "promoted" => imports[j].status = "promoted"
    BY <2>2, <2>3
  <2> QED BY <2>1, <2>3, <2>4, <2>5, <2>6, ImportsChange DEF PromotionInv, Shapes
<1> QED BY <1>1, <1>2

-----------------------------------------------------------------------------
(* Tasks and the tick *)

LEMMA TickAt ==
  ASSUME PromotionInv, NEW t, t \in tick.on
  PROVE  /\ t \in DOMAIN task /\ t \in Tasks /\ tick.on = {t}
         /\ tick = [on |-> {t}, at |-> tick.at, rows |-> tick.rows, carries |-> tick.carries]
         /\ tick.rows \in Nat /\ tick.carries \in Nat
         /\ task[t] \in TaskRow /\ task[t].on \in Imports
         /\ task[t].status = "running" /\ task[t].step \in 1 .. 4
         /\ tick.at \in Statements(task[t].step)
         /\ TaskHolds(t)
<1>1. PICK u \in DOMAIN task :
       /\ tick = [on |-> {u}, at |-> tick.at, rows |-> tick.rows, carries |-> tick.carries]
       /\ tick.rows \in Nat /\ tick.carries \in Nat
       /\ task[u].status = "running" /\ task[u].step \in 1 .. 4
       /\ tick.at \in Statements(task[u].step)
  BY DEF PromotionInv, Shapes, TickShape, NoTick
<1>2. tick.on = {u} /\ t = u
  BY <1>1
<1> QED BY <1>1, <1>2 DEF PromotionInv, Shapes, TaskRow

\* At most one task is at work.
LEMMA TickAlone == PromotionInv => tick.on = {} \/ \E t \in DOMAIN task : tick.on = {t}
BY DEF PromotionInv, Shapes, TickShape, NoTick

\* What holds of a task whatever the tick is at.
RowHolds(t) ==
  /\ task[t].status = "running" => task[t].step <= 4
  /\ task[t].status = "completed" => task[t].step > 4
  /\ task[t].carries <= Items[task[t].on]
  /\ task[t].step > 1 => Imported(task[t].on)
  /\ task[t].step > 2 => Carried(task[t].on, task[t].carries)
  /\ task[t].step > 3 => journal[task[t].on].status = "posted" /\ Balances(task[t].on)
  /\ task[t].step > 4 => imports[task[t].on].status \in {"promoted", "absent"}

LEMMA RowsHold == ASSUME PromotionInv, NEW t \in DOMAIN task PROVE RowHolds(t)
BY DEF PromotionInv, TaskHolds, RowHolds, Over

LEMMA RestingHolds == ASSUME NEW t, t \notin tick.on, RowHolds(t) PROVE TaskHolds(t)
BY DEF TaskHolds, RowHolds, Over

Stands(i) ==
  journal[i].status = "posted" /\ Balances(i) => journal'[i].status = "posted" /\ Balances(i)'

\* What is validated stays so, the journal a task is past stays posted and balanced.
Settled ==
  /\ \A i \in Imports : Imported(i) => Imported(i)' /\ (Exists(i)' => Exists(i))
  /\ \A i \in Imports : Imported(i) /\ imports[i].status \in {"promoted", "absent"} =>
       imports'[i].status \in {"promoted", "absent"}
  /\ \A t \in DOMAIN task : Over(t, 3) => Stands(task[t].on)

LEMMA RowKept ==
  ASSUME PromotionInv, Settled, NEW t \in DOMAIN task, task'[t] = task[t]
  PROVE  RowHolds(t)'
<1>1. RowHolds(t) /\ task[t].on \in Imports /\ task[t].step \in Nat
  BY RowsHold DEF PromotionInv, Shapes, TaskRow
<1>2. task[t].step > 4 => task[t].step > 1
  BY <1>1
<1>3. task[t].step > 2 => task[t].step > 1
  BY <1>1
<1>4. task[t].step > 3 => journal'[task[t].on].status = "posted" /\ Balances(task[t].on)'
  BY <1>1 DEF RowHolds, Settled, Stands, Over
<1> QED BY <1>1, <1>2, <1>3, <1>4 DEF RowHolds, Settled, Carried, Balances

LEMMA JournalsStand == UNCHANGED journal => \A i : Stands(i)
BY DEF Stands, Balances, Complete

LEMMA ImportsStand ==
  ASSUME PromotionInv, UNCHANGED <<imports, importer>>,
         \A t \in DOMAIN task : Over(t, 3) => Stands(task[t].on)
  PROVE  Settled /\ \A i \in Imports : ImportHolds(i)'
BY DEF Settled, Imported, Exists, PromotionInv, ImportHolds

\* No further task has got past its journal.
LEMMA OnePastKept ==
  ASSUME PromotionInv,
         \A t \in DOMAIN task' : Over(t, 3)' => t \in DOMAIN task /\ Over(t, 3) /\ task'[t].on = task[t].on
  PROVE  OnlyOnePast'
BY DEF PromotionInv, OnlyOnePast

\* The tasks' rows and the tick change, nothing else.
LEMMA TasksChange ==
  ASSUME PromotionInv, UNCHANGED <<imports, importer, journal>>,
         deleting' \subseteq Imports, crashes' \in 0 .. MaxCrashes,
         DOMAIN task' \subseteq Tasks, \A t \in DOMAIN task' : task'[t] \in TaskRow,
         TickShape', tick' = NoTick \/ (UNCHANGED tick /\ \A t \in tick.on : task'[t] = task[t]),
         \A t \in DOMAIN task' : TaskHolds(t)',
         \A t \in DOMAIN task' : Over(t, 3)' => t \in DOMAIN task /\ Over(t, 3) /\ task'[t].on = task[t].on
  PROVE  PromotionInv'
<1>1. Shapes'
  BY DEF PromotionInv, Shapes
<1>2. \A i \in Imports : ImportHolds(i)' /\ JournalHolds(i)'
  BY DEF PromotionInv, ImportHolds, JournalHolds, Imported, Carried, Exists
<1>3. OnlyOnePast' /\ LinesAreEarly'
  BY OnePastKept DEF PromotionInv, LinesAreEarly, NoTick
<1>4. PromotedIsInTheBooks'
  BY DEF PromotionInv, PromotedIsInTheBooks, Balances, Complete
<1> QED BY <1>1, <1>2, <1>3, <1>4 DEF PromotionInv

LEMMA StepsAre ==
  /\ Len(Steps) = 4
  /\ Steps[1] = "validate_import" /\ Steps[2] = "classify_costs"
  /\ Steps[3] = "create_journal" /\ Steps[4] = "mark_promoted"
BY DEF Steps

LEMMA PromoteKeeps ==
  ASSUME PromotionInv, NEW t \in Tasks, NEW i \in Imports, Promote(t, i) PROVE PromotionInv'
<1> DEFINE row == [on |-> i, status |-> "running", step |-> 1, rows |-> 0, carries |-> 0]
<1>1. row \in TaskRow
  BY StepsAre DEF TaskRow
<1>2. /\ t \notin DOMAIN task /\ DOMAIN task' = DOMAIN task \cup {t} /\ task'[t] = row
      /\ \A u \in DOMAIN task : task'[u] = task[u]
      /\ UNCHANGED <<imports, importer, deleting, journal, tick, crashes>>
  BY DEF Promote
<1>3. /\ row.on = i /\ row.status = "running" /\ row.step = 1 /\ row.carries = 0
  OBVIOUS
<1> HIDE DEF row
<1>4. DOMAIN task' \subseteq Tasks /\ \A u \in DOMAIN task' : task'[u] \in TaskRow
  BY <1>1, <1>2 DEF PromotionInv, Shapes
<1>5. TickShape'
  BY <1>2 DEF PromotionInv, Shapes, TickShape
<1>6. t \notin tick.on
  BY <1>2, TickAt
<1>7. TaskHolds(t)'
  <2>1. RowHolds(t)'
    BY <1>2, <1>3, ImportAssumption DEF RowHolds
  <2> QED BY <1>2, <1>6, <2>1 DEF TaskHolds, RowHolds, Over
<1>8. \A u \in DOMAIN task : TaskHolds(u)'
  <2> SUFFICES ASSUME NEW u \in DOMAIN task PROVE TaskHolds(u)'
    OBVIOUS
  <2> QED BY <1>2 DEF PromotionInv, TaskHolds, Over, Imported, Carried, Exists, Balances, Complete
<1>9. \A u \in DOMAIN task' : Over(u, 3)' => u \in DOMAIN task /\ Over(u, 3) /\ task'[u].on = task[u].on
  BY <1>2, <1>3, <1>6 DEF Over
<1>10. \A u \in tick.on : task'[u] = task[u]
  BY <1>2, TickAt
<1> QED BY <1>2, <1>4, <1>5, <1>7, <1>8, <1>9, <1>10, TasksChange DEF PromotionInv, Shapes

\* A task's row changes, and the tick rests or is at another task.
LEMMA TaskEnds ==
  ASSUME PromotionInv, NEW t \in DOMAIN task, NEW status \in {"failed", "stopped"},
         task' = [task EXCEPT ![t].status = status],
         tick' = NoTick \/ (UNCHANGED tick /\ t \notin tick.on),
         UNCHANGED <<imports, importer, journal, deleting, crashes>>
  PROVE  PromotionInv'
<1>1. task[t] \in TaskRow /\ RowHolds(t) /\ task[t].on \in Imports
  BY RowsHold DEF PromotionInv, Shapes, TaskRow
<1> DEFINE row == [task[t] EXCEPT !.status = status]
<1>2. /\ row \in TaskRow /\ row.on = task[t].on /\ row.step = task[t].step
      /\ row.carries = task[t].carries /\ row.status = status
  BY <1>1 DEF TaskRow
<1>3. DOMAIN task' = DOMAIN task /\ task'[t] = row /\ \A u \in DOMAIN task \ {t} : task'[u] = task[u]
  OBVIOUS
<1> HIDE DEF row
<1>4. t \notin tick'.on /\ \A u : u \in tick'.on => u \in tick.on /\ UNCHANGED tick
  BY DEF NoTick
<1>5. TickShape'
  <2>1. CASE tick' = NoTick
    BY <2>1 DEF TickShape
  <2>2. CASE UNCHANGED tick /\ t \notin tick.on
    BY <1>3, <2>2 DEF PromotionInv, Shapes, TickShape
  <2> QED BY <2>1, <2>2
<1>6. TaskHolds(t)'
  <2>1. RowHolds(t)'
    BY <1>1, <1>2, <1>3 DEF RowHolds, Imported, Carried, Exists, Balances, Complete
  <2> QED BY <1>4, <2>1 DEF TaskHolds, RowHolds, Over
<1>7. Settled
  BY ImportsStand, JournalsStand
<1>8. \A u \in DOMAIN task \ {t} : TaskHolds(u)'
  <2> SUFFICES ASSUME NEW u \in DOMAIN task \ {t} PROVE TaskHolds(u)'
    OBVIOUS
  <2>1. CASE u \notin tick'.on
    <3>1. RowHolds(u)'
      BY <1>3, <1>7, RowKept
    <3> QED BY <2>1, <3>1 DEF TaskHolds, RowHolds, Over
  <2>2. CASE u \in tick'.on
    BY <1>3, <1>4, <2>2 DEF PromotionInv, TaskHolds, Over, Imported, Carried, Exists, Balances, Complete
  <2> QED BY <2>1, <2>2
<1>9. \A u \in DOMAIN task' : Over(u, 3)' => u \in DOMAIN task /\ Over(u, 3) /\ task'[u].on = task[u].on
  BY <1>2, <1>3, <1>4 DEF Over
<1>10. DOMAIN task' \subseteq Tasks /\ \A u \in DOMAIN task' : task'[u] \in TaskRow
  BY <1>2, <1>3 DEF PromotionInv, Shapes
<1>11. \A u \in DOMAIN task' : TaskHolds(u)'
  BY <1>3, <1>6, <1>8
<1>12. tick' = NoTick \/ (UNCHANGED tick /\ \A u \in tick.on : task'[u] = task[u])
  BY <1>3, TickAt
<1> QED BY <1>5, <1>9, <1>10, <1>11, <1>12, TasksChange DEF PromotionInv, Shapes

LEMMA StopKeeps == ASSUME PromotionInv, NEW t \in Tasks, Stop(t) \/ StepRaises(t) PROVE PromotionInv'
<1>1. CASE Stop(t)
  <2>1. t \notin tick.on
    BY <1>1, TickAt DEF Stop
  <2> QED BY <1>1, <2>1, TaskEnds DEF Stop
<1>2. CASE StepRaises(t)
  BY <1>2, TickAt, TaskEnds DEF StepRaises, OthersStand
<1> QED BY <1>1, <1>2

\* A statement of a step: the tick goes on, or rests, with the task's row as it was.
LEMMA StatementRuns ==
  ASSUME PromotionInv, NEW t \in DOMAIN task, UNCHANGED task, Settled, TickShape', tick'.on \subseteq {t},
         imports' \in [Imports -> ImportRow], UNCHANGED importer, deleting' \subseteq Imports,
         journal' \in [Imports -> JournalRow], crashes' \in 0 .. MaxCrashes,
         \A i \in Imports : ImportHolds(i)' /\ JournalHolds(i)',
         TaskHolds(t)', OnlyOnePast', LinesAreEarly', PromotedIsInTheBooks'
  PROVE  PromotionInv'
<1>1. Shapes'
  BY DEF PromotionInv, Shapes
<1>2. \A u \in DOMAIN task \ {t} : TaskHolds(u)'
  <2> SUFFICES ASSUME NEW u \in DOMAIN task \ {t} PROVE TaskHolds(u)'
    OBVIOUS
  <2>1. RowHolds(u)' /\ u \notin tick'.on
    BY RowKept
  <2> QED BY <2>1 DEF TaskHolds, RowHolds, Over
<1> QED BY <1>1, <1>2 DEF PromotionInv

\* The same when only the tick changes.
LEMMA TickMoves ==
  ASSUME PromotionInv, NEW t \in DOMAIN task, UNCHANGED <<imports, importer, deleting, journal, task, crashes>>,
         TickShape', tick'.on \subseteq {t}, tick'.at # "lines", TaskHolds(t)', Over(t, 3)' => Over(t, 3)
  PROVE  PromotionInv'
<1>1. Settled /\ \A i \in Imports : ImportHolds(i)'
  BY ImportsStand, JournalsStand
<1>2. \A i \in Imports : JournalHolds(i)'
  BY DEF PromotionInv, JournalHolds, Imported, Carried, Exists
<1>3. \A u \in DOMAIN task' : Over(u, 3)' => u \in DOMAIN task /\ Over(u, 3) /\ task'[u].on = task[u].on
  BY DEF Over
<1>4. OnlyOnePast' /\ LinesAreEarly' /\ PromotedIsInTheBooks'
  BY <1>3, OnePastKept DEF PromotionInv, PromotedIsInTheBooks, Balances, Complete, LinesAreEarly
<1> QED BY <1>1, <1>2, <1>4, StatementRuns DEF PromotionInv, Shapes

LEMMA StepBeginsKeeps == ASSUME PromotionInv, NEW t \in Tasks, StepBegins(t) PROVE PromotionInv'
<1>1. /\ t \in DOMAIN task /\ task[t].status = "running" /\ task[t] \in TaskRow
      /\ tick = NoTick /\ tick.on = {}
      /\ tick' = [on |-> {t}, at |-> Steps[task[t].step], rows |-> task[t].rows, carries |-> task[t].carries]
      /\ UNCHANGED <<imports, importer, deleting, journal, task, crashes>>
  BY DEF StepBegins, PromotionInv, Shapes, NoTick
<1>2. RowHolds(t) /\ task[t].step \in 1 .. 4 /\ task[t].on \in Imports
  <2>1. RowHolds(t)
    BY <1>1, RowsHold
  <2> QED BY <1>1, <2>1 DEF RowHolds, TaskRow
<1>3. Steps[task[t].step] \in Statements(task[t].step) /\ Steps[task[t].step] \notin {"record", "lines"}
  BY <1>2, StepsAre DEF Statements
<1>4. TickShape'
  BY <1>1, <1>2, <1>3 DEF TickShape, TaskRow
<1>5. TaskHolds(t)'
  <2>1. tick'.on = {t} /\ tick'.at \notin {"record", "lines"} /\ tick'.carries = task[t].carries
    BY <1>1, <1>3
  <2>2. RowHolds(t)'
    BY <1>1, <1>2 DEF RowHolds, Imported, Carried, Exists, Balances, Complete
  <2> QED BY <1>1, <2>1, <2>2 DEF TaskHolds, RowHolds, Over
<1>6. Over(t, 3)' => Over(t, 3)
  BY <1>1, <1>3 DEF Over
<1>7. tick'.on \subseteq {t} /\ tick'.at # "lines"
  BY <1>1, <1>3
<1> QED BY <1>1, <1>4, <1>5, <1>6, <1>7, TickMoves

LEMMA ValidateKeeps == ASSUME PromotionInv, NEW t \in Tasks, Validate(t) PROVE PromotionInv'
<1>1. t \in tick.on /\ tick.at = "validate_import"
  BY DEF Validate, AtWork
<1>2. /\ t \in DOMAIN task /\ tick.on = {t} /\ task[t] \in TaskRow /\ task[t].on \in Imports
      /\ tick = [on |-> {t}, at |-> tick.at, rows |-> tick.rows, carries |-> tick.carries]
      /\ tick.carries \in Nat
      /\ task[t].status = "running" /\ TaskHolds(t)
      /\ tick.at \in Statements(task[t].step) /\ task[t].step \in 1 .. 4
  BY <1>1, TickAt
<1>3. task[t].step = 1
  BY <1>1, <1>2 DEF Statements
<1> DEFINE i == task[t].on
<1>4. /\ imports[i].status = "approved" /\ imports[i].rows > 0
      /\ tick' = [tick EXCEPT !.at = "record", !.rows = imports[i].rows]
      /\ UNCHANGED <<imports, importer, deleting, journal, task, crashes>>
  BY DEF Validate, OthersStand
<1>5. imports[i] \in ImportRow /\ ImportHolds(i) /\ importer[i] \in {"new", "at_work", "done"}
  BY <1>2 DEF PromotionInv, Shapes
<1>6. Imported(i)
  <2>1. imports[i].rows # 0
    BY <1>4
  <2> QED BY <1>4, <1>5, <2>1 DEF ImportHolds, Imported, Exists
<1>7. tick' = [on |-> {t}, at |-> "record", rows |-> imports[i].rows, carries |-> tick.carries]
      /\ imports[i].rows \in Nat
  BY <1>2, <1>4, <1>5 DEF ImportRow
<1>8. TickShape'
  BY <1>2, <1>3, <1>4, <1>7 DEF TickShape, Statements
<1>9. TaskHolds(t)'
  <2>1. tick'.on = {t} /\ tick'.at = "record" /\ tick'.carries = tick.carries
    BY <1>7
  <2> QED BY <1>1, <1>2, <1>3, <1>4, <1>6, <2>1 DEF TaskHolds, Over, Imported, Exists
<1>10. Over(t, 3)' => Over(t, 3)
  BY <1>3, <1>4 DEF Over
<1>11. tick'.on \subseteq {t} /\ tick'.at # "lines"
  BY <1>7
<1> QED BY <1>2, <1>4, <1>8, <1>9, <1>10, <1>11, TickMoves

LEMMA ClassifyKeeps == ASSUME PromotionInv, NEW t \in Tasks, Classify(t) PROVE PromotionInv'
<1>1. t \in tick.on /\ tick.at = "classify_costs"
  BY DEF Classify, AtWork
<1>2. /\ t \in DOMAIN task /\ tick.on = {t} /\ task[t] \in TaskRow /\ task[t].on \in Imports
      /\ tick = [on |-> {t}, at |-> tick.at, rows |-> tick.rows, carries |-> tick.carries]
      /\ tick.rows \in Nat
      /\ task[t].status = "running" /\ TaskHolds(t)
      /\ tick.at \in Statements(task[t].step) /\ task[t].step \in 1 .. 4
  BY <1>1, TickAt
<1>3. task[t].step = 2
  BY <1>1, <1>2 DEF Statements
<1> DEFINE i == task[t].on
<1>4. /\ tick' = [tick EXCEPT !.at = "record", !.carries = imports[i].items]
      /\ UNCHANGED <<imports, importer, deleting, journal, task, crashes>>
  BY DEF Classify, OthersStand
<1>5. imports[i].items \in Nat /\ ImportHolds(i) /\ Imported(i)
  BY <1>2, <1>3 DEF PromotionInv, Shapes, ImportRow, TaskHolds, Over
<1>6. Carried(i, imports[i].items)
  BY <1>5 DEF Carried, ImportHolds, Imported
<1>7. tick' = [on |-> {t}, at |-> "record", rows |-> tick.rows, carries |-> imports[i].items]
  BY <1>2, <1>4
<1>8. TickShape'
  BY <1>2, <1>3, <1>4, <1>5, <1>7 DEF TickShape, Statements
<1>9. TaskHolds(t)'
  <2>1. tick'.on = {t} /\ tick'.at = "record" /\ tick'.carries = imports[i].items
    BY <1>7
  <2> QED BY <1>1, <1>2, <1>3, <1>4, <1>5, <1>6, <2>1 DEF TaskHolds, Over, Imported, Exists, Carried
<1>10. Over(t, 3)' => Over(t, 3)
  BY <1>3, <1>4 DEF Over
<1>11. tick'.on \subseteq {t} /\ tick'.at # "lines"
  BY <1>7
<1> QED BY <1>2, <1>4, <1>8, <1>9, <1>10, <1>11, TickMoves

\* The statements of the third step find the import validated and its amounts added up.
LEMMA ThirdStep ==
  ASSUME PromotionInv, NEW t, t \in tick.on, tick.at \in {"create_journal", "lines", "post"}
  PROVE  /\ t \in DOMAIN task /\ tick.on = {t} /\ task[t] \in TaskRow /\ task[t].on \in Imports
         /\ tick = [on |-> {t}, at |-> tick.at, rows |-> tick.rows, carries |-> tick.carries]
         /\ tick.rows \in Nat /\ tick.carries \in Nat
         /\ task[t].status = "running" /\ TaskHolds(t) /\ task[t].step = 3
         /\ Imported(task[t].on) /\ Carried(task[t].on, tick.carries)
         /\ journal[task[t].on] \in JournalRow /\ JournalHolds(task[t].on)
         /\ Items[task[t].on] \in Nat
<1>1. /\ t \in DOMAIN task /\ tick.on = {t} /\ task[t] \in TaskRow /\ task[t].on \in Imports
      /\ tick = [on |-> {t}, at |-> tick.at, rows |-> tick.rows, carries |-> tick.carries]
      /\ tick.rows \in Nat /\ tick.carries \in Nat
      /\ task[t].status = "running" /\ TaskHolds(t)
      /\ tick.at \in Statements(task[t].step) /\ task[t].step \in 1 .. 4
  BY TickAt
<1>2. task[t].step = 3
  BY <1>1 DEF Statements
<1>3. Imported(task[t].on) /\ Carried(task[t].on, tick.carries)
  BY <1>1, <1>2 DEF TaskHolds, Over
<1> QED BY <1>1, <1>2, <1>3, ImportAssumption DEF PromotionInv, Shapes

\* A journal is made or gets a line while no task is past it, or is posted as it is.
LEMMA JournalChanges ==
  ASSUME PromotionInv, NEW i \in Imports, NEW row \in JournalRow,
         UNCHANGED <<imports, importer>>, journal' = [journal EXCEPT ![i] = row],
         row.status # "absent", Imported(i), Carried(i, row.carries), row.lines <= row.carries + 1,
         \/ /\ imports[i].status # "promoted"
            /\ \A u \in DOMAIN task : task[u].on = i => ~Over(u, 3)
         \/ row.status = "posted" /\ row.carries = journal[i].carries /\ row.lines = journal[i].lines
  PROVE  /\ journal' \in [Imports -> JournalRow] /\ Settled
         /\ journal'[i] = row /\ \A j \in Imports \ {i} : journal'[j] = journal[j]
         /\ \A j \in Imports : ImportHolds(j)' /\ JournalHolds(j)'
         /\ PromotedIsInTheBooks'
<1>1. /\ journal' \in [Imports -> JournalRow]
      /\ journal'[i] = row /\ \A j \in Imports \ {i} : journal'[j] = journal[j]
  BY DEF PromotionInv, Shapes
<1>2. Settled /\ \A j \in Imports : ImportHolds(j)'
  <2>1. \A j \in Imports \ {i} : Stands(j)
    BY <1>1 DEF Stands, Balances, Complete
  <2>2. CASE \A u \in DOMAIN task : task[u].on = i => ~Over(u, 3)
    <3>1. \A u \in DOMAIN task : Over(u, 3) => Stands(task[u].on)
      BY <2>1, <2>2 DEF PromotionInv, Shapes, TaskRow
    <3> QED BY <3>1, ImportsStand
  <2>3. CASE row.status = "posted" /\ row.carries = journal[i].carries /\ row.lines = journal[i].lines
    <3>1. Stands(i)
      BY <1>1, <2>3 DEF Stands, Balances, Complete
    <3>2. \A u \in DOMAIN task : Over(u, 3) => Stands(task[u].on)
      BY <2>1, <3>1 DEF PromotionInv, Shapes, TaskRow
    <3> QED BY <3>2, ImportsStand
  <2> QED BY <2>2, <2>3
<1>3. JournalHolds(i)'
  <2>1. row.carries <= Items[i]
    BY DEF Carried
  <2> QED BY <1>1, <2>1 DEF JournalHolds, Imported, Carried, Exists
<1>4. \A j \in Imports \ {i} : JournalHolds(j)'
  BY <1>1 DEF PromotionInv, JournalHolds, Imported, Carried, Exists
<1>5. PromotedIsInTheBooks'
  BY <1>1 DEF PromotionInv, PromotedIsInTheBooks, Balances, Complete
<1> QED BY <1>1, <1>2, <1>3, <1>4, <1>5

\* The tick goes on to a statement of the step.
LEMMA TickGoesOn ==
  ASSUME NEW t \in DOMAIN task, UNCHANGED task, task[t].status = "running", task[t].step \in 1 .. 4,
         NEW at \in {"create_journal", "lines", "post", "record"}, NEW counted \in Nat, NEW carries \in Nat,
         task[t].step = 3 \/ at = "record", tick' = [on |-> {t}, at |-> at, rows |-> counted, carries |-> carries]
  PROVE  TickShape'
<1>1. /\ tick' = [on |-> {t}, at |-> tick'.at, rows |-> tick'.rows, carries |-> tick'.carries]
      /\ tick'.rows \in Nat /\ tick'.carries \in Nat /\ tick'.at = at
  OBVIOUS
<1>2. t \in DOMAIN task' /\ task'[t].status = "running" /\ task'[t].step \in 1 .. 4
  OBVIOUS
<1>3. tick'.at \in Statements(task'[t].step)
  BY <1>1 DEF Statements
<1> QED BY <1>1, <1>2, <1>3 DEF TickShape

LEMMA CreateJournalKeeps == ASSUME PromotionInv, NEW t \in Tasks, CreateJournal(t) PROVE PromotionInv'
<1>1. t \in tick.on /\ tick.at = "create_journal"
  BY DEF CreateJournal, AtWork
<1> DEFINE i == task[t].on
<1>2. /\ t \in DOMAIN task /\ tick.on = {t} /\ i \in Imports /\ task[t] \in TaskRow
      /\ tick = [on |-> {t}, at |-> tick.at, rows |-> tick.rows, carries |-> tick.carries]
      /\ tick.rows \in Nat /\ tick.carries \in Nat
      /\ task[t].status = "running" /\ TaskHolds(t) /\ task[t].step = 3
      /\ Imported(i) /\ Carried(i, tick.carries) /\ journal[i] \in JournalRow /\ Items[i] \in Nat
  BY <1>1, ThirdStep
<1>3. UNCHANGED <<imports, importer, deleting, task, crashes>>
  BY DEF CreateJournal, OthersStand
<1>4. CASE journal[i].status # "absent"
  <2>1. UNCHANGED journal /\ tick' = [tick EXCEPT !.at = "post"]
    BY <1>4 DEF CreateJournal
  <2>2. tick' = [on |-> {t}, at |-> "post", rows |-> tick.rows, carries |-> tick.carries]
    BY <1>2, <2>1
  <2>3. TickShape'
    BY <1>2, <1>3, <2>2, TickGoesOn
  <2>4. tick'.on = {t} /\ tick'.at = "post" /\ tick'.carries = tick.carries
    BY <2>2
  <2>5. TaskHolds(t)' /\ (Over(t, 3)' => Over(t, 3))
    BY <1>1, <1>2, <1>3, <2>1, <2>4 DEF TaskHolds, Over, Imported, Exists, Carried, Balances, Complete
  <2> QED BY <1>2, <1>3, <2>1, <2>3, <2>4, <2>5, TickMoves
<1>5. CASE journal[i].status = "absent"
  <2> DEFINE row == [status |-> "draft", carries |-> tick.carries, lines |-> 0]
  <2>1. journal' = [journal EXCEPT ![i] = row] /\ tick' = [tick EXCEPT !.at = "lines"]
    BY <1>5 DEF CreateJournal
  <2>2. row \in JournalRow
    BY <1>2 DEF JournalRow
  <2>3. row.status = "draft" /\ row.carries = tick.carries /\ row.lines = 0
    OBVIOUS
  <2> HIDE DEF row
  <2>4. tick' = [on |-> {t}, at |-> "lines", rows |-> tick.rows, carries |-> tick.carries]
    BY <1>2, <2>1
  <2>5. TickShape'
    BY <1>2, <1>3, <2>4, TickGoesOn
  <2>6. tick'.on = {t} /\ tick'.at = "lines" /\ tick'.carries = tick.carries
    BY <2>4
  <2>7. row.lines <= row.carries /\ row.lines <= row.carries + 1
    BY <1>2, <2>3
  <2>8. /\ Carried(i, row.carries) /\ row.status # "absent" /\ imports[i].status # "promoted"
        /\ \A u \in DOMAIN task : task[u].on = i => ~Over(u, 3)
    BY <1>2, <1>5, <2>3 DEF PromotionInv, PromotedIsInTheBooks, TaskHolds
  <2>9. /\ journal' \in [Imports -> JournalRow] /\ Settled
        /\ journal'[i] = row
        /\ \A j \in Imports : ImportHolds(j)' /\ JournalHolds(j)'
        /\ PromotedIsInTheBooks'
    BY <1>2, <1>3, <2>1, <2>2, <2>7, <2>8, JournalChanges
  <2>10. TaskHolds(t)'
    BY <1>1, <1>2, <1>3, <2>3, <2>6, <2>7, <2>9 DEF TaskHolds, Over, Imported, Exists, Carried
  <2>11. OnlyOnePast' /\ LinesAreEarly'
    <3>1. \A u \in DOMAIN task' : Over(u, 3)' => u \in DOMAIN task /\ Over(u, 3) /\ task'[u].on = task[u].on
      BY <1>3, <2>6 DEF Over
    <3> QED BY <1>3, <2>6, <2>8, <3>1, OnePastKept DEF LinesAreEarly
  <2> QED BY <1>2, <1>3, <2>5, <2>6, <2>9, <2>10, <2>11, StatementRuns DEF PromotionInv, Shapes
<1> QED BY <1>4, <1>5

LEMMA InsertJournalLineKeeps ==
  ASSUME PromotionInv, NEW t \in Tasks, InsertJournalLine(t) PROVE PromotionInv'
<1>1. t \in tick.on /\ tick.at = "lines"
  BY DEF InsertJournalLine, AtWork
<1> DEFINE i == task[t].on
<1>2. /\ t \in DOMAIN task /\ tick.on = {t} /\ i \in Imports /\ task[t] \in TaskRow
      /\ tick = [on |-> {t}, at |-> tick.at, rows |-> tick.rows, carries |-> tick.carries]
      /\ tick.rows \in Nat /\ tick.carries \in Nat
      /\ task[t].status = "running" /\ TaskHolds(t) /\ task[t].step = 3
      /\ Imported(i) /\ Carried(i, tick.carries) /\ journal[i] \in JournalRow /\ JournalHolds(i) /\ Items[i] \in Nat
  BY <1>1, ThirdStep
<1>3. UNCHANGED <<imports, importer, deleting, task, crashes>>
  BY DEF InsertJournalLine, OthersStand
<1>4. /\ journal[i].status # "absent" /\ journal[i].lines <= journal[i].carries
      /\ journal[i].lines \in Nat /\ journal[i].carries \in Nat
      /\ imports[i].status # "promoted" /\ \A u \in DOMAIN task : task[u].on = i => ~Over(u, 3)
  BY <1>1, <1>2 DEF TaskHolds, JournalRow, PromotionInv, LinesAreEarly
<1> DEFINE row == [journal[i] EXCEPT !.lines = journal[i].lines + 1]
<1>5. /\ row \in JournalRow /\ row.status = journal[i].status /\ row.carries = journal[i].carries
      /\ row.lines = journal[i].lines + 1
  BY <1>2, <1>4 DEF JournalRow
<1>6. journal' = [journal EXCEPT ![i] = row]
  BY <1>2 DEF InsertJournalLine, PromotionInv, Shapes
<1> HIDE DEF row
<1>7. row.lines <= row.carries + 1 /\ Carried(i, row.carries) /\ row.status # "absent"
  BY <1>2, <1>4, <1>5 DEF JournalHolds
<1>8. /\ journal' \in [Imports -> JournalRow] /\ Settled
      /\ journal'[i] = row
      /\ \A j \in Imports : ImportHolds(j)' /\ JournalHolds(j)'
      /\ PromotedIsInTheBooks'
  BY <1>2, <1>3, <1>4, <1>5, <1>6, <1>7, JournalChanges
<1>9. /\ tick'.on = {t} /\ tick'.carries = tick.carries /\ tick'.at \in {"lines", "post"}
      /\ tick' = [on |-> {t}, at |-> tick'.at, rows |-> tick.rows, carries |-> tick.carries]
      /\ (tick'.at = "lines" => ~Complete(row))
  <2>1. tick' = IF Complete(journal'[i]) THEN [tick EXCEPT !.at = "post"] ELSE tick
    BY DEF InsertJournalLine
  <2>2. CASE Complete(row)
    <3>1. tick' = [on |-> {t}, at |-> "post", rows |-> tick.rows, carries |-> tick.carries]
      BY <1>2, <1>8, <2>1, <2>2
    <3> QED BY <2>2, <3>1
  <2>3. CASE ~Complete(row)
    <3>1. tick' = tick
      BY <1>8, <2>1, <2>3
    <3> QED BY <1>1, <1>2, <2>3, <3>1
  <2> QED BY <2>2, <2>3
<1>10. TickShape'
  BY <1>2, <1>3, <1>9 DEF TickShape, Statements
<1>11. tick'.at = "lines" => row.lines <= row.carries
  BY <1>4, <1>5, <1>9 DEF Complete
<1>12. TaskHolds(t)'
  BY <1>1, <1>2, <1>3, <1>5, <1>8, <1>9, <1>11 DEF TaskHolds, Over, Imported, Exists, Carried
<1>13. OnlyOnePast' /\ LinesAreEarly'
  <2>1. \A u \in DOMAIN task' : Over(u, 3)' => u \in DOMAIN task /\ Over(u, 3) /\ task'[u].on = task[u].on
    BY <1>3, <1>9 DEF Over
  <2> QED BY <1>3, <1>4, <1>9, <2>1, OnePastKept DEF LinesAreEarly
<1> QED BY <1>2, <1>3, <1>8, <1>9, <1>10, <1>12, <1>13, StatementRuns DEF PromotionInv, Shapes

\* Posting needs a draft: no task that promotes the import is past its journal yet.
LEMMA PostJournalKeeps == ASSUME PromotionInv, NEW t \in Tasks, PostJournal(t) PROVE PromotionInv'
<1>1. t \in tick.on /\ tick.at = "post"
  BY DEF PostJournal, AtWork
<1> DEFINE i == task[t].on
<1>2. /\ t \in DOMAIN task /\ tick.on = {t} /\ i \in Imports /\ task[t] \in TaskRow
      /\ tick = [on |-> {t}, at |-> tick.at, rows |-> tick.rows, carries |-> tick.carries]
      /\ tick.rows \in Nat /\ tick.carries \in Nat
      /\ task[t].status = "running" /\ TaskHolds(t) /\ task[t].step = 3
      /\ Imported(i) /\ Carried(i, tick.carries) /\ journal[i] \in JournalRow /\ JournalHolds(i) /\ Items[i] \in Nat
  BY <1>1, ThirdStep
<1>3. UNCHANGED <<imports, importer, deleting, task, crashes>>
  BY DEF PostJournal, OthersStand
<1>4. journal[i].status = "draft" /\ Balances(i)
      /\ journal[i].lines \in Nat /\ journal[i].carries \in Nat
  BY <1>1, <1>2 DEF PostJournal, Postable, JournalRow
<1> DEFINE row == [journal[i] EXCEPT !.status = "posted"]
<1>5. /\ row \in JournalRow /\ row.status = "posted" /\ row.carries = journal[i].carries
      /\ row.lines = journal[i].lines
  BY <1>2, <1>4 DEF JournalRow
<1>6. journal' = [journal EXCEPT ![i] = row]
  BY <1>2 DEF PostJournal, PromotionInv, Shapes
<1> HIDE DEF row
<1>7. row.lines <= row.carries + 1 /\ Carried(i, row.carries) /\ row.status # "absent"
  BY <1>2, <1>4, <1>5 DEF JournalHolds
<1>8. /\ journal' \in [Imports -> JournalRow] /\ Settled
      /\ journal'[i] = row
      /\ \A j \in Imports : ImportHolds(j)' /\ JournalHolds(j)'
      /\ PromotedIsInTheBooks'
  BY <1>2, <1>3, <1>5, <1>6, <1>7, JournalChanges
<1>9. tick' = [on |-> {t}, at |-> "record", rows |-> tick.rows, carries |-> tick.carries]
  <2>1. tick' = [tick EXCEPT !.at = "record"]
    BY DEF PostJournal
  <2> QED BY <1>2, <2>1
<1>10. TickShape'
  BY <1>2, <1>3, <1>9, TickGoesOn
<1>11. tick'.on = {t} /\ tick'.at = "record" /\ tick'.carries = tick.carries
  BY <1>9
<1>12. TaskHolds(t)'
  BY <1>1, <1>2, <1>3, <1>4, <1>5, <1>8, <1>11
     DEF TaskHolds, Over, Imported, Exists, Carried, Balances, Complete
<1>13. OnlyOnePast' /\ LinesAreEarly'
  <2>1. \A u \in DOMAIN task \ {t} : task[u].on = i => ~Over(u, 3)
    BY <1>4 DEF PromotionInv, TaskHolds
  <2>2. \A u \in DOMAIN task \ {t} : Over(u, 3)' => Over(u, 3)
    BY <1>3, <1>11 DEF Over
  <2> QED BY <1>3, <1>11, <2>1, <2>2 DEF PromotionInv, OnlyOnePast, LinesAreEarly
<1> QED BY <1>2, <1>3, <1>8, <1>10, <1>11, <1>12, <1>13, StatementRuns DEF PromotionInv, Shapes

LEMMA AdminPostsKeeps == ASSUME PromotionInv, NEW i \in Imports, AdminPosts(i) PROVE PromotionInv'
<1>1. /\ UNCHANGED <<imports, importer, deleting, task, tick, crashes>>
      /\ journal[i].status = "draft"
  BY DEF AdminPosts, Postable, OthersStand
<1>2. journal[i] \in JournalRow /\ JournalHolds(i) /\ Imported(i) /\ Carried(i, journal[i].carries)
  BY <1>1 DEF PromotionInv, Shapes, JournalHolds
<1> DEFINE row == [journal[i] EXCEPT !.status = "posted"]
<1>3. /\ row \in JournalRow /\ row.status = "posted" /\ row.carries = journal[i].carries
      /\ row.lines = journal[i].lines
  BY <1>2 DEF JournalRow
<1>4. journal' = [journal EXCEPT ![i] = row]
  BY DEF AdminPosts, PromotionInv, Shapes
<1> HIDE DEF row
<1>5. row.lines <= row.carries + 1 /\ Carried(i, row.carries) /\ row.status # "absent"
  BY <1>1, <1>2, <1>3 DEF JournalHolds
<1>6. /\ journal' \in [Imports -> JournalRow] /\ Settled
      /\ journal'[i] = row /\ \A j \in Imports \ {i} : journal'[j] = journal[j]
      /\ \A j \in Imports : ImportHolds(j)' /\ JournalHolds(j)'
      /\ PromotedIsInTheBooks'
  BY <1>1, <1>2, <1>3, <1>4, <1>5, JournalChanges
<1>7. \A u \in DOMAIN task : TaskHolds(u)'
  <2> SUFFICES ASSUME NEW u \in DOMAIN task PROVE TaskHolds(u)'
    OBVIOUS
  <2>1. RowHolds(u)'
    BY <1>1, <1>6, RowKept
  <2>2. TaskHolds(u) /\ task[u].on \in Imports /\ journal[i].carries \in Nat
    BY <1>2 DEF PromotionInv, Shapes, TaskRow, JournalRow
  <2>3. CASE u \notin tick.on
    BY <1>1, <2>1, <2>3 DEF TaskHolds, RowHolds, Over
  <2>4. CASE u \in tick.on
    <3>1. tick.at = "lines" => /\ journal'[task[u].on].status # "absent"
                               /\ journal'[task[u].on].lines <= journal'[task[u].on].carries
      BY <1>3, <1>6, <2>2, <2>4 DEF TaskHolds
    <3>2. Over(u, 3) => journal'[task[u].on].status = "posted" /\ Balances(task[u].on)'
      BY <2>2, <1>6 DEF Settled, Stands, TaskHolds
    <3> QED BY <1>1, <2>2, <2>4, <3>1, <3>2 DEF TaskHolds, Over, Imported, Exists, Carried, Balances
  <2> QED BY <2>3, <2>4
<1>8. OnlyOnePast' /\ LinesAreEarly' /\ TickShape'
  BY <1>1 DEF PromotionInv, Shapes, OnlyOnePast, Over, TickShape, LinesAreEarly
<1> QED BY <1>1, <1>6, <1>7, <1>8 DEF PromotionInv, Shapes

LEMMA MarkPromotedKeeps == ASSUME PromotionInv, NEW t \in Tasks, MarkPromoted(t) PROVE PromotionInv'
<1>1. t \in tick.on /\ tick.at = "mark_promoted"
  BY DEF MarkPromoted, AtWork
<1> DEFINE i == task[t].on
<1>2. /\ t \in DOMAIN task /\ tick.on = {t} /\ i \in Imports /\ task[t] \in TaskRow
      /\ tick = [on |-> {t}, at |-> tick.at, rows |-> tick.rows, carries |-> tick.carries]
      /\ tick.rows \in Nat /\ tick.carries \in Nat
      /\ task[t].status = "running" /\ TaskHolds(t)
      /\ tick.at \in Statements(task[t].step) /\ task[t].step \in 1 .. 4
  BY <1>1, TickAt
<1>3. task[t].step = 4 /\ Over(t, 3) /\ Over(t, 1)
  BY <1>1, <1>2 DEF Statements, Over
<1>4. Imported(i) /\ journal[i].status = "posted" /\ Balances(i) /\ JournalHolds(i) /\ ImportHolds(i)
      /\ imports[i] \in ImportRow
  BY <1>2, <1>3 DEF TaskHolds, PromotionInv, Shapes
<1>5. UNCHANGED <<importer, deleting, journal, task, crashes>>
  BY DEF MarkPromoted, OthersStand
<1>6. tick' = [on |-> {t}, at |-> "record", rows |-> tick.rows, carries |-> tick.carries]
  <2>1. tick' = [tick EXCEPT !.at = "record"]
    BY DEF MarkPromoted
  <2> QED BY <1>2, <2>1
<1>7. tick'.on = {t} /\ tick'.at = "record" /\ tick'.carries = tick.carries
  BY <1>6
<1> DEFINE row == IF Exists(i) THEN [imports[i] EXCEPT !.status = "promoted", !.rows = tick.rows]
                  ELSE imports[i]
<1>8. /\ row \in ImportRow /\ row.items = imports[i].items
      /\ (Exists(i) => row.status = "promoted") /\ (~Exists(i) => row = imports[i])
  BY <1>2, <1>4 DEF ImportRow, Statuses
<1>9. imports' = [imports EXCEPT ![i] = row]
  <2>1. imports \in [Imports -> ImportRow] /\ WriteStatus(i, "promoted", tick.rows)
    BY DEF MarkPromoted, PromotionInv, Shapes
  <2>2. CASE Exists(i)
    BY <1>2, <2>1, <2>2 DEF WriteStatus
  <2>3. CASE ~Exists(i)
    BY <1>2, <2>1, <2>3 DEF WriteStatus
  <2> QED BY <2>2, <2>3
<1> HIDE DEF row
<1>10. /\ imports' \in [Imports -> ImportRow] /\ imports'[i] = row
       /\ \A j \in Imports \ {i} : imports'[j] = imports[j]
  BY <1>2, <1>8, <1>9 DEF PromotionInv, Shapes
<1>11. row.status \in {"promoted", "absent"}
  BY <1>8 DEF Exists
<1>12. Settled
  BY <1>4, <1>5, <1>8, <1>10, <1>11, JournalsStand DEF Settled, Imported, Exists
<1>13. \A j \in Imports : ImportHolds(j)'
  <2>1. ImportHolds(i)'
    BY <1>4, <1>5, <1>8, <1>10, <1>11 DEF ImportHolds, Exists, Imported
  <2> QED BY <1>5, <1>10, <2>1 DEF PromotionInv, ImportHolds, Exists
<1>14. \A j \in Imports : JournalHolds(j)'
  BY <1>5, <1>12 DEF PromotionInv, JournalHolds, Settled, Carried
<1>15. PromotedIsInTheBooks'
  <2>1. Exists(i) => journal[i].carries = Items[i]
    BY <1>4 DEF JournalHolds, Carried
  <2>2. imports'[i].status = "promoted" => Exists(i)
    BY <1>8, <1>10 DEF Exists
  <2> QED BY <1>4, <1>5, <1>10, <2>1, <2>2 DEF PromotionInv, PromotedIsInTheBooks, Balances, Complete
<1>16. TickShape'
  BY <1>2, <1>5, <1>6, TickGoesOn
<1>17. TaskHolds(t)'
  <2>0. PICK j \in Imports : j = i
    BY <1>2
  <2>1. Imported(j)' /\ (Exists(j)' => Exists(j))
    BY <1>4, <1>12, <2>0 DEF Settled
  <2> QED BY <1>1, <1>2, <1>3, <1>4, <1>5, <1>7, <1>10, <1>11, <2>0, <2>1
          DEF TaskHolds, Over, Carried, Balances, Complete
<1>18. OnlyOnePast' /\ LinesAreEarly'
  <2>1. \A u \in DOMAIN task' : Over(u, 3)' => u \in DOMAIN task /\ Over(u, 3) /\ task'[u].on = task[u].on
    BY <1>3, <1>5, <1>7 DEF Over
  <2> QED BY <1>7, <2>1, OnePastKept DEF LinesAreEarly
<1> QED BY <1>2, <1>5, <1>7, <1>10, <1>12, <1>13, <1>14, <1>15, <1>16, <1>17, <1>18, StatementRuns
     DEF PromotionInv, Shapes

\* The end of a step is written: what the tick has found is now the task's.
LEMMA StepRecordedKeeps == ASSUME PromotionInv, NEW t \in Tasks, StepRecorded(t) PROVE PromotionInv'
<1>1. t \in tick.on /\ tick.at = "record"
  BY DEF StepRecorded, AtWork
<1>2. /\ t \in DOMAIN task /\ tick.on = {t} /\ task[t] \in TaskRow /\ task[t].on \in Imports
      /\ tick.rows \in Nat /\ tick.carries \in Nat
      /\ task[t].status = "running" /\ TaskHolds(t) /\ task[t].step \in 1 .. 4
  BY <1>1, TickAt
<1> DEFINE status == IF task[t].step = Len(Steps) THEN "completed" ELSE "running"
           row == [on |-> task[t].on, step |-> task[t].step + 1, rows |-> tick.rows,
                   carries |-> tick.carries, status |-> status]
<1>3. /\ row \in TaskRow /\ row.on = task[t].on /\ row.step = task[t].step + 1
      /\ row.carries = tick.carries /\ row.status \in {"running", "completed"}
      /\ (row.status = "completed" <=> task[t].step = 4)
  <2>1. status \in {"running", "completed"} /\ (status = "completed" <=> task[t].step = 4)
    BY StepsAre
  <2>2. task[t].step + 1 \in 1 .. Len(Steps) + 1
    BY <1>2, StepsAre
  <2> HIDE DEF status
  <2> QED BY <1>2, <2>1, <2>2 DEF TaskRow
<1>4. /\ task' = [task EXCEPT ![t] = row] /\ tick' = NoTick
      /\ UNCHANGED <<imports, importer, deleting, journal, crashes>>
  BY DEF StepRecorded, OthersStand
<1> HIDE DEF row
<1>5. DOMAIN task' = DOMAIN task /\ task'[t] = row /\ \A u \in DOMAIN task \ {t} : task'[u] = task[u]
  BY <1>2, <1>4
<1>6. tick'.on = {}
  BY <1>4 DEF NoTick
<1>7. /\ row.step \in 2 .. 5 /\ (row.step > 1 => Over(t, 1)) /\ (row.step > 2 => Over(t, 2))
      /\ (row.step > 3 => Over(t, 3)) /\ (row.step > 4 => Over(t, 4))
  BY <1>1, <1>2, <1>3 DEF Over
<1>8. RowHolds(t)'
  BY <1>1, <1>2, <1>3, <1>4, <1>5, <1>7
     DEF TaskHolds, RowHolds, Imported, Carried, Exists, Balances, Complete
<1>9. TaskHolds(t)'
  BY <1>6, <1>8 DEF TaskHolds, RowHolds, Over
<1>10. Settled
  BY <1>4, ImportsStand, JournalsStand
<1>11. \A u \in DOMAIN task \ {t} : TaskHolds(u)'
  <2> SUFFICES ASSUME NEW u \in DOMAIN task \ {t} PROVE TaskHolds(u)'
    OBVIOUS
  <2>1. RowHolds(u)'
    BY <1>5, <1>10, RowKept
  <2> QED BY <1>6, <2>1 DEF TaskHolds, RowHolds, Over
<1>12. \A u \in DOMAIN task' : Over(u, 3)' => u \in DOMAIN task /\ Over(u, 3) /\ task'[u].on = task[u].on
  BY <1>3, <1>5, <1>6, <1>7 DEF Over
<1>13. DOMAIN task' \subseteq Tasks /\ \A u \in DOMAIN task' : task'[u] \in TaskRow
  BY <1>3, <1>5 DEF PromotionInv, Shapes
<1>14. TickShape'
  BY <1>4 DEF TickShape
<1>15. \A u \in DOMAIN task' : TaskHolds(u)'
  BY <1>5, <1>9, <1>11
<1> QED BY <1>4, <1>12, <1>13, <1>14, <1>15, TasksChange DEF PromotionInv, Shapes

\* The tick rests with every row as it was: what it has done is done again.
LEMMA TickRests ==
  ASSUME PromotionInv, tick' = NoTick, UNCHANGED <<imports, journal, task>>,
         deleting' \subseteq Imports, crashes' \in 0 .. MaxCrashes,
         importer' \in [Imports -> {"new", "at_work", "done"}],
         \A i \in Imports : (importer[i] = "new" <=> importer'[i] = "new")
                          /\ (importer[i] = "done" => importer'[i] = "done")
  PROVE  PromotionInv'
<1>1. tick'.on = {} /\ TickShape'
  BY DEF NoTick, TickShape
<1>2. Shapes'
  BY <1>1 DEF PromotionInv, Shapes
<1>3. Settled
  BY JournalsStand DEF Settled, Imported, Exists
<1>4. \A i \in Imports : ImportHolds(i)'
  BY DEF PromotionInv, ImportHolds, Exists
<1>5. \A i \in Imports : JournalHolds(i)'
  BY <1>3 DEF PromotionInv, JournalHolds, Settled, Carried
<1>6. \A t \in DOMAIN task : TaskHolds(t)'
  <2> SUFFICES ASSUME NEW t \in DOMAIN task PROVE TaskHolds(t)'
    OBVIOUS
  <2>1. RowHolds(t)'
    BY <1>3, RowKept
  <2> QED BY <1>1, <2>1 DEF TaskHolds, RowHolds, Over
<1>7. \A t \in DOMAIN task' : Over(t, 3)' => t \in DOMAIN task /\ Over(t, 3) /\ task'[t].on = task[t].on
  BY <1>1 DEF Over
<1>8. OnlyOnePast' /\ LinesAreEarly' /\ PromotedIsInTheBooks'
  BY <1>1, <1>7, OnePastKept DEF PromotionInv, PromotedIsInTheBooks, Balances, Complete, LinesAreEarly
<1> QED BY <1>2, <1>4, <1>5, <1>6, <1>8 DEF PromotionInv

LEMMA CrashKeeps ==
  ASSUME PromotionInv, Crash \/ \E t \in Tasks : StepUnrecorded(t) PROVE PromotionInv'
<1>1. CASE \E t \in Tasks : StepUnrecorded(t)
  BY <1>1, TickRests DEF StepUnrecorded, OthersStand, PromotionInv, Shapes
<1>2. CASE Crash
  <2>1. /\ tick' = NoTick /\ UNCHANGED <<imports, journal, task>> /\ deleting' \subseteq Imports
        /\ crashes' \in 0 .. MaxCrashes
    BY <1>2, ImportAssumption DEF Crash, PromotionInv, Shapes
  <2>2. /\ importer \in [Imports -> {"new", "at_work", "done"}]
        /\ importer' = [i \in Imports |-> IF importer[i] = "at_work" THEN "done" ELSE importer[i]]
    BY <1>2 DEF Crash, PromotionInv, Shapes
  <2>3. /\ importer' \in [Imports -> {"new", "at_work", "done"}]
        /\ \A i \in Imports : (importer[i] = "new" <=> importer'[i] = "new")
                             /\ (importer[i] = "done" => importer'[i] = "done")
    BY <2>2
  <2> QED BY <2>1, <2>3, TickRests
<1> QED BY <1>1, <1>2

-----------------------------------------------------------------------------
(* The theorems *)

LEMMA InitHolds == Init => PromotionInv
<1> SUFFICES ASSUME Init PROVE PromotionInv
  OBVIOUS
<1>1. \A i \in Imports : /\ imports[i] = NoImport /\ importer[i] = "new"
                         /\ journal[i] = [status |-> "absent", carries |-> 0, lines |-> 0]
  BY DEF Init
<1>2. NoImport \in ImportRow /\ NoImport.status = "absent" /\ NoImport.rows = 0 /\ NoImport.items = 0
  BY DEF NoImport, ImportRow, Statuses
<1>3. DOMAIN task = {}
  BY DEF Init
<1>4. Shapes
  BY <1>2, <1>3, ImportAssumption DEF Init, Shapes, JournalRow, TickShape
<1>5. \A i \in Imports : ImportHolds(i) /\ JournalHolds(i)
  BY <1>1, <1>2, ImportAssumption DEF ImportHolds, JournalHolds, Exists
<1>6. PromotedIsInTheBooks
  BY <1>1, <1>2 DEF PromotedIsInTheBooks
<1>7. tick.on = {}
  BY DEF Init, NoTick
<1> QED BY <1>3, <1>4, <1>5, <1>6, <1>7 DEF PromotionInv, OnlyOnePast, LinesAreEarly

LEMMA NextKeeps == PromotionInv /\ [Next]_vars => PromotionInv'
<1> SUFFICES ASSUME PromotionInv, [Next]_vars PROVE PromotionInv'
  OBVIOUS
<1>1. CASE UNCHANGED vars
  <2>1. UNCHANGED <<imports, importer, deleting, pipeline, crashes>>
    BY <1>1 DEF vars, pipeline
  <2>2. \A i \in Imports : ImportHolds(i)'
    BY <2>1 DEF PromotionInv, ImportHolds, Exists
  <2> QED BY <2>1, <2>2, ImportsChange DEF PromotionInv, Shapes, Imported
<1>2. ASSUME NEW i \in Imports,
             \/ CreateImport(i) \/ InsertLineItem(i) \/ ImportDone(i) \/ ImportRaises(i)
             \/ ApproveImport(i) \/ RejectImport(i) \/ DeleteCheck(i) \/ DeleteImport(i)
             \/ AdminPosts(i) \/ \E t \in Tasks : Promote(t, i)
      PROVE  PromotionInv'
  BY <1>2, CreateImportKeeps, InsertLineItemKeeps, ImportDoneKeeps, DecideKeeps, DeleteKeeps,
     AdminPostsKeeps, PromoteKeeps
<1>3. ASSUME NEW t \in Tasks,
             \/ Stop(t) \/ StepBegins(t) \/ StepRaises(t) \/ Validate(t) \/ Classify(t)
             \/ CreateJournal(t) \/ InsertJournalLine(t) \/ PostJournal(t) \/ MarkPromoted(t)
             \/ StepRecorded(t)
      PROVE  PromotionInv'
  BY <1>3, StopKeeps, StepBeginsKeeps, ValidateKeeps, ClassifyKeeps, CreateJournalKeeps,
     InsertJournalLineKeeps, PostJournalKeeps, MarkPromotedKeeps, StepRecordedKeeps
<1>4. CASE Crash \/ \E t \in Tasks : StepUnrecorded(t)
  BY <1>4, CrashKeeps
<1> QED BY <1>1, <1>2, <1>3, <1>4 DEF Next

\* The inductive invariant holds in every reachable state, for any number of
\* imports, line items, tasks and restarts.
THEOREM InvHolds == Spec => []PromotionInv
BY InitHolds, NextKeeps, PTL DEF Spec

\* What is promoted is in the books once and whole, and the task that says so has
\* done it (import_cost_details to mark_promoted).
THEOREM PromotionsSound == Spec => []PromotionsAreSound
<1>1. PromotionInv => PromotionsAreSound
  <2> SUFFICES ASSUME PromotionInv PROVE PromotionsAreSound
    OBVIOUS
  <2>1. tick.on \subseteq DOMAIN task /\ Cardinality(tick.on) <= 1
    <3>1. CASE tick.on = {}
      BY <3>1, FS_EmptySet
    <3>2. CASE \E t \in DOMAIN task : tick.on = {t}
      <4>1. PICK t \in DOMAIN task : tick.on = {t}
        BY <3>2
      <4>2. Cardinality({t}) = 1
        BY FS_Singleton
      <4> QED BY <4>1, <4>2
    <3> QED BY <3>1, <3>2, TickAlone
  <2>2. \A i \in Imports : imports[i].items <= Items[i] /\ journal[i].lines <= Items[i] + 1
    <3> SUFFICES ASSUME NEW i \in Imports
                 PROVE  imports[i].items <= Items[i] /\ journal[i].lines <= Items[i] + 1
      OBVIOUS
    <3>1. ImportHolds(i) /\ JournalHolds(i) /\ journal[i] \in JournalRow /\ Items[i] \in Nat
      BY ImportAssumption DEF PromotionInv, Shapes
    <3> QED BY <3>1 DEF ImportHolds, JournalHolds, JournalRow
  <2>3. TypeOK
    BY <2>1, <2>2 DEF PromotionInv, Shapes, TypeOK
  <2>4. OneTaskPromotes
    BY DEF PromotionInv, OnlyOnePast, Over, OneTaskPromotes
  <2>5. CompletedIsPromoted
    <3> SUFFICES ASSUME NEW t \in DOMAIN task, task[t].status = "completed"
                 PROVE  imports[task[t].on].status \in {"promoted", "absent"}
      BY DEF CompletedIsPromoted
    <3> QED BY RowsHold DEF RowHolds
  <2> QED BY <2>3, <2>4, <2>5 DEF PromotionInv, PromotionsAreSound
<1> QED BY <1>1, InvHolds, PTL

\* An import is promoted from approved, whatever was written to it since it was
\* validated (mark_promoted overwrites the status it finds).
THEOREM PromotedOnlyFromApproved == Spec => PromotedFromApproved
<1>1. PromotionInv /\ PromotionInv' /\ [Next]_vars =>
        [\A i \in Imports : imports'[i].status = "promoted" =>
           imports[i].status \in {"approved", "promoted"}]_vars
  <2> SUFFICES ASSUME PromotionInv, [Next]_vars, NEW i \in Imports, imports'[i].status = "promoted",
                      imports[i].status \notin {"approved", "promoted"}
               PROVE  FALSE
    OBVIOUS
  <2>1. \A j \in Imports : imports[j] \in ImportRow
    BY DEF PromotionInv, Shapes
  <2>2. CASE \E t \in Tasks : MarkPromoted(t)
    <3>1. PICK t \in Tasks : MarkPromoted(t)
      BY <2>2
    <3>2. t \in tick.on /\ tick.at = "mark_promoted" /\ WriteStatus(task[t].on, "promoted", tick.rows)
      BY <3>1 DEF MarkPromoted, AtWork
    <3>3. /\ task[t].on \in Imports /\ task[t].step \in 1 .. 4 /\ tick.at \in Statements(task[t].step)
          /\ TaskHolds(t)
      BY <3>2, TickAt
    <3>4. task[t].step = 4
      BY <3>2, <3>3 DEF Statements
    <3>5. Imported(task[t].on)
      BY <3>3, <3>4 DEF TaskHolds, Over
    <3> QED BY <2>1, <3>2, <3>3, <3>5 DEF WriteStatus, Imported, Exists, PromotionInv, Shapes
  <2>3. CASE ~\E t \in Tasks : MarkPromoted(t)
    <3>1. imports' # imports
      OBVIOUS
    <3>2. PICK j \in Imports :
            \/ CreateImport(j) \/ InsertLineItem(j) \/ ImportDone(j) \/ ImportRaises(j)
            \/ ApproveImport(j) \/ RejectImport(j) \/ DeleteImport(j)
      <4>1. ASSUME NEW t \in Tasks PROVE
              ~(Stop(t) \/ StepBegins(t) \/ StepRaises(t) \/ Validate(t) \/ Classify(t) \/ CreateJournal(t)
                \/ InsertJournalLine(t) \/ PostJournal(t) \/ StepRecorded(t) \/ StepUnrecorded(t))
        BY <3>1 DEF Stop, StepBegins, StepRaises, Validate, Classify, CreateJournal, InsertJournalLine,
           PostJournal, StepRecorded, StepUnrecorded
      <4>2. ~Crash /\ \A j \in Imports : ~(DeleteCheck(j) \/ AdminPosts(j) \/ \E t \in Tasks : Promote(t, j))
        BY <3>1 DEF Crash, DeleteCheck, AdminPosts, Promote
      <4> QED BY <2>3, <3>1, <4>1, <4>2 DEF Next, vars
    <3>3. imports'[i].status # "promoted" \/ imports'[i].status = imports[i].status
      <4>0. imports \in [Imports -> ImportRow]
        BY DEF PromotionInv, Shapes
      <4>1. CASE CreateImport(j)
        BY <4>0, <4>1 DEF CreateImport, NoImport
      <4>2. CASE InsertLineItem(j)
        BY <4>0, <4>2 DEF InsertLineItem, ImportRow
      <4>3. ASSUME NEW status \in {"pending_approval", "failed"}, NEW counted,
                   WriteStatus(j, status, counted) \/ UNCHANGED imports
            PROVE  imports'[i].status # "promoted" \/ imports'[i].status = imports[i].status
        BY <4>0, <4>3 DEF WriteStatus, ImportRow
      <4>4. CASE ImportDone(j)
        BY <4>3, <4>4 DEF ImportDone
      <4>5. CASE ImportRaises(j)
        BY <4>3, <4>5 DEF ImportRaises
      <4>6. CASE ApproveImport(j) \/ RejectImport(j)
        BY <4>0, <4>6 DEF ApproveImport, RejectImport, Decide, ImportRow
      <4>7. CASE DeleteImport(j)
        BY <4>0, <4>7 DEF DeleteImport, NoImport
      <4> QED BY <3>2, <4>1, <4>2, <4>4, <4>5, <4>6, <4>7
    <3> QED BY <3>3
  <2> QED BY <2>2, <2>3
<1> QED BY <1>1, InvHolds, PTL DEF Spec, PromotedFromApproved

(***************************************************************************)
(* AdminPages: what was entered in a tab is in the table when its handlers   *)
(* have ended.                                                               *)
(***************************************************************************)

PageSpec == (\E sc \in PageScenes : PageInit(sc)) /\ [][PageNext]_pageVars

Fields == {"a", "b"}
Record == [a : Nat, b : Nat]
Lists == UNION {[K -> Record] : K \in SUBSET Nat}
PageOps == {"edit", "add", "drop", "load", "rename"}
PageSteps == {"send", "read", "answer", "show"}

\* A handler and the state of a tab.
Handler == [n : Nat, op : PageOps, step : PageSteps, id : Nat, f : Fields, row : Record,
            was : Lists, list : Lists, at : Nat]

TabState(ids) == [list : Lists, form : [id : Nat, row : Record], busy : BOOLEAN, at : Nat,
                  best : Nat, spoilt : Nat, typed : [ids -> Record]]

Typeable == 1 .. (desk.commands + 2)

PageShape ==
  /\ desk \in PageScenes
  /\ rows \in Lists /\ issued \in Nat
  /\ view \in [Desks -> TabState(Typeable)]
  /\ runs \in [Desks -> SUBSET Handler]
  /\ served \in Nat /\ commands \in Nat /\ losses \in Nat

LEMMA ListMaking ==
  ASSUME NEW K \in SUBSET Nat, NEW L, L \in [K -> Record]
  PROVE  L \in Lists
BY DEF Lists

LEMMA ListParts ==
  ASSUME NEW L \in Lists
  PROVE  DOMAIN L \in SUBSET Nat /\ L \in [DOMAIN L -> Record]
BY DEF Lists

LEMMA ListSet ==
  ASSUME NEW L \in Lists, NEW id, NEW row \in Record
  PROVE  [L EXCEPT ![id] = row] \in Lists /\ DOMAIN [L EXCEPT ![id] = row] = DOMAIN L
<1>1. DOMAIN L \in SUBSET Nat /\ L \in [DOMAIN L -> Record]
  BY ListParts
<1>2. [L EXCEPT ![id] = row] \in [DOMAIN L -> Record]
  BY <1>1
<1> QED BY <1>1, <1>2, ListMaking

LEMMA ListPut ==
  ASSUME NEW L \in Lists, NEW id \in Nat, NEW row \in Record
  PROVE  [k \in DOMAIN L \cup {id} |-> IF k = id THEN row ELSE L[k]] \in Lists
<1>1. DOMAIN L \in SUBSET Nat /\ L \in [DOMAIN L -> Record]
  BY ListParts
<1>2. [k \in DOMAIN L \cup {id} |-> IF k = id THEN row ELSE L[k]] \in [DOMAIN L \cup {id} -> Record]
  BY <1>1
<1>3. DOMAIN L \cup {id} \in SUBSET Nat
  BY <1>1
<1> QED BY <1>2, <1>3, ListMaking

LEMMA ListDrop ==
  ASSUME NEW L \in Lists, NEW id
  PROVE  [k \in DOMAIN L \ {id} |-> L[k]] \in Lists
<1>1. DOMAIN L \in SUBSET Nat /\ L \in [DOMAIN L -> Record]
  BY ListParts
<1>2. [k \in DOMAIN L \ {id} |-> L[k]] \in [DOMAIN L \ {id} -> Record]
  BY <1>1
<1>3. DOMAIN L \ {id} \in SUBSET Nat
  BY <1>1
<1> QED BY <1>2, <1>3, ListMaking

LEMMA EmptyList == <<>> \in Lists /\ DOMAIN <<>> = {}
<1>1. <<>> \in [{} -> Record] /\ DOMAIN <<>> = {}
  OBVIOUS
<1> QED BY <1>1, ListMaking

LEMMA RecordSet ==
  ASSUME NEW row \in Record, NEW f \in Fields, NEW v \in Nat
  PROVE  /\ [row EXCEPT ![f] = v] \in Record
         /\ [row EXCEPT ![f] = v][f] = v
         /\ \A g \in Fields \ {f} : [row EXCEPT ![f] = v][g] = row[g]
<1>1. CASE f = "a"
  BY <1>1 DEF Record, Fields
<1>2. CASE f = "b"
  BY <1>2 DEF Record, Fields
<1> QED BY <1>1, <1>2 DEF Fields

LEMMA RecordParts ==
  ASSUME NEW row \in Record
  PROVE  \A f \in Fields : row[f] \in Nat
BY DEF Record, Fields

LEMMA RowRecord ==
  ASSUME NEW a \in Nat, NEW b \in Nat
  PROVE  Row(a, b) \in Record /\ Blank \in Record /\ \A f \in Fields : Blank[f] = 0
BY DEF Row, Blank, Record, Fields

LEMMA MaxOfTwo ==
  ASSUME NEW x \in Nat, NEW y \in Nat
  PROVE  Max({x, y}) \in {x, y} /\ x <= Max({x, y}) /\ y <= Max({x, y})
<1> DEFINE largest == IF x >= y THEN x ELSE y
<1>1. largest \in {x, y} /\ \A z \in {x, y} : largest >= z
  OBVIOUS
<1>2. \E m \in {x, y} : \A z \in {x, y} : m >= z
  BY <1>1
<1>3. Max({x, y}) = CHOOSE m \in {x, y} : \A z \in {x, y} : m >= z
  BY DEF Max
<1>4. Max({x, y}) \in {x, y} /\ \A z \in {x, y} : Max({x, y}) >= z
  BY <1>2, <1>3
<1> QED BY <1>4

-----------------------------------------------------------------------------
(* The pages *)

LEMMA PageKnown == ASSUME desk \in PageScenes PROVE desk.page \in DOMAIN Pages /\ desk.commands \in Nat
BY PageAssumption

\* What pages have in common.
Plausible(page) ==
  /\ page.edit \in {"row", "cell", "form", "step", "none"}
  /\ page.shows \in {"before", "undone", "after", "loaded"}
  /\ page.ops \subseteq {"add", "drop", "load", "rename"}
  /\ page.edit = "none" => page.shows \in {"loaded", "after"}
  /\ page.shows = "before" => page.edit \in {"row", "cell"}
  /\ page.reloads \in BOOLEAN /\ page.clears \in BOOLEAN
  /\ {"edit"} \cup page.ops \subseteq page.holds => page.edit \in {"form", "step"} /\ "load" \notin page.ops
  /\ page.shows = "undone" => page.edit = "cell"

LEMMA Traits == ASSUME desk \in PageScenes PROVE Plausible(This)
<1>1. /\ Plausible(ServiceRoutesPage)
      /\ Plausible(SystemModelsPage)
      /\ Plausible(DiscordPersonasPage)
      /\ Plausible(ServiceRolesPage)
      /\ Plausible(SystemConfigPage)
      /\ Plausible(DiscordGuildsPage)
      /\ Plausible(ServicePagesPage)
      /\ Plausible(JobButtons)
      /\ Plausible(JobForm)
  BY DEF Plausible, Page, ServiceRoutesPage, SystemModelsPage, DiscordPersonasPage, ServiceRolesPage, SystemConfigPage, DiscordGuildsPage, ServicePagesPage, JobButtons, JobForm
<1>2. /\ Plausible(ServiceRenewalsPage)
      /\ Plausible(AccountRolesPage)
      /\ Plausible(SystemAsyncTasksPage)
      /\ Plausible(FileManager)
      /\ Plausible(UserDisplayName)
      /\ Plausible(UserEmailDisplay)
      /\ Plausible(UserDefaultProvider)
      /\ Plausible(UserProviders)
      /\ Plausible(ProductsPage)
      /\ Plausible(AdminLedgers)
  BY DEF Plausible, Page, ServiceRenewalsPage, AccountRolesPage, SystemAsyncTasksPage, FileManager, UserDisplayName, UserEmailDisplay, UserDefaultProvider, UserProviders, ProductsPage, AdminLedgers
<1>3. /\ Plausible(AdminProducts)
      /\ Plausible(AdminPeriods)
      /\ Plausible(AdminVendors)
      /\ Plausible(AdminMappings)
      /\ Plausible(AccountantImports)
      /\ Plausible(AccountantJournals)
      /\ Plausible(AccountantLots)
      /\ Plausible(AccountantNumbers)
      /\ Plausible(ManagerQueue)
  BY DEF Plausible, Page, AdminProducts, AdminPeriods, AdminVendors, AdminMappings, AccountantImports, AccountantJournals, AccountantLots, AccountantNumbers, ManagerQueue
<1>4. desk.page \in DOMAIN Pages
  BY PageKnown
<1>5. \A p \in DOMAIN Pages : Plausible(Pages[p])
  BY <1>1, <1>2, <1>3 DEF Pages
<1> QED BY <1>4, <1>5 DEF This

-----------------------------------------------------------------------------
(* Types *)

LEMMA DeskParts ==
  ASSUME PageShape
  PROVE  /\ desk.page \in DOMAIN Pages /\ desk.tabs \subseteq Desks /\ desk.commands \in Nat
         /\ Plausible(This) /\ Now \in Nat /\ Fresh \in Nat
BY PageAssumption, Traits DEF PageShape, Now, Fresh

LEMMA TabParts ==
  ASSUME PageShape, NEW t \in Desks
  PROVE  /\ view[t] \in TabState(Typeable) /\ runs[t] \in SUBSET Handler
         /\ view[t].list \in Lists /\ view[t].form \in [id : Nat, row : Record]
         /\ view[t].busy \in BOOLEAN /\ view[t].at \in Nat /\ view[t].best \in Nat
         /\ view[t].spoilt \in Nat /\ view[t].typed \in [Typeable -> Record]
BY DEF PageShape, TabState

LEMMA HandlerParts ==
  ASSUME NEW r \in Handler
  PROVE  /\ r.n \in Nat /\ r.op \in PageOps /\ r.step \in PageSteps /\ r.id \in Nat /\ r.f \in Fields
         /\ r.row \in Record /\ r.was \in Lists /\ r.list \in Lists /\ r.at \in Nat
BY DEF Handler

LEMMA RowParts ==
  ASSUME NEW L \in Lists, NEW id \in DOMAIN L
  PROVE  L[id] \in Record /\ id \in Nat
BY DEF Lists

\* What a click adds to the handlers of its tab.
Begun(t, op, id, f, row) ==
  [n |-> commands + 1, op |-> op, step |-> IF op = "load" THEN "read" ELSE "send",
   id |-> id, f |-> f, row |-> row, was |-> view[t].list, list |-> <<>>, at |-> 0]

LEMMA BeginsRun ==
  ASSUME PageShape, NEW t \in Desks, NEW op \in PageOps, NEW id \in Nat, NEW f \in Fields,
         NEW row \in Record, Begins(t, op, id, f, row)
  PROVE  /\ runs' \in [Desks -> SUBSET Handler]
         /\ runs'[t] = runs[t] \cup {Begun(t, op, id, f, row)}
         /\ \A d \in Desks \ {t} : runs'[d] = runs[d]
         /\ Begun(t, op, id, f, row) \in Handler
         /\ commands' = commands + 1
         /\ UNCHANGED <<desk, rows, issued, served, losses>>
<1> DEFINE new == Begun(t, op, id, f, row)
<1>1. new \in Handler
  BY TabParts, EmptyList DEF Begun, Handler, PageOps, PageSteps, PageShape
<1>2. runs' = [runs EXCEPT ![t] = @ \cup {new}]
  BY DEF Begins, Begun
<1>3. runs \in [Desks -> SUBSET Handler]
  BY DEF PageShape
<1> HIDE DEF new
<1>4. runs' \in [Desks -> SUBSET Handler] /\ runs'[t] = runs[t] \cup {new}
      /\ \A d \in Desks \ {t} : runs'[d] = runs[d]
  BY <1>1, <1>2, <1>3
<1> QED BY <1>1, <1>4 DEF Begins, new

\* A click of tab t: what it begins, what it enters, and what it shows at once.
Clicked(t, op, id, f, row, typed, list) ==
  /\ op \in PageOps /\ id \in Nat /\ f \in Fields /\ row \in Record
  /\ Begun(t, op, id, f, row) \in Handler
  /\ runs'[t] = runs[t] \cup {Begun(t, op, id, f, row)}
  /\ \A d \in Desks \ {t} : runs'[d] = runs[d] /\ view'[d] = view[d]
  /\ commands' = commands + 1
  /\ UNCHANGED <<desk, rows, issued, served, losses>>
  /\ view'[t].typed = typed /\ view'[t].list = list
  /\ view'[t].at = view[t].at /\ view'[t].best = view[t].best /\ view'[t].spoilt = view[t].spoilt
  /\ PageShape'

LEMMA EntersTyped ==
  ASSUME PageShape, NEW t \in Desks, NEW id \in Nat, NEW f \in Fields, NEW row \in Record
  PROVE  /\ Enters(t, id, f, row) \in [Typeable -> Record]
         /\ \A k \in Typeable \ {id} : Enters(t, id, f, row)[k] = view[t].typed[k]
         /\ id \in Typeable =>
              /\ Enters(t, id, f, row)[id][f] = Fresh
              /\ \A g \in Fields \ {f} :
                   /\ This.edit # "cell" => Enters(t, id, f, row)[id][g] \in {0, row[g]}
                   /\ Enters(t, id, f, row)[id][g] \in {0, view[t].typed[id][g]}
                   /\ This.edit = "cell" => Enters(t, id, f, row)[id][g] = view[t].typed[id][g]
<1> DEFINE typed == view[t].typed
<1>1. typed \in [Typeable -> Record] /\ Fresh \in Nat
  BY TabParts, DeskParts
<1>2. Blank \in Record /\ \A g \in Fields : Blank[g] = 0
  BY RowRecord
<1> HIDE DEF typed
<1>3. CASE This.edit # "cell" /\ \E g \in Fields \ {f} : typed[id][g] \notin {0, row[g]}
  <2>1. Enters(t, id, f, row) = [typed EXCEPT ![id] = [Blank EXCEPT ![f] = Fresh]]
    BY <1>3 DEF Enters, typed, Fields
  <2>2. /\ [Blank EXCEPT ![f] = Fresh] \in Record /\ [Blank EXCEPT ![f] = Fresh][f] = Fresh
        /\ \A g \in Fields \ {f} : [Blank EXCEPT ![f] = Fresh][g] = 0
    BY <1>1, <1>2, RecordSet
  <2> DEFINE put == [Blank EXCEPT ![f] = Fresh]
  <2> HIDE DEF put
  <2>3. Enters(t, id, f, row) = [typed EXCEPT ![id] = put] /\ put \in Record /\ put[f] = Fresh
        /\ \A g \in Fields \ {f} : put[g] = 0
    BY <2>1, <2>2 DEF put
  <2> QED BY <1>1, <1>3, <2>3 DEF typed
<1>4. CASE ~(This.edit # "cell" /\ \E g \in Fields \ {f} : typed[id][g] \notin {0, row[g]})
  <2>1. Enters(t, id, f, row) = [typed EXCEPT ![id][f] = Fresh]
    BY <1>4 DEF Enters, typed, Fields
  <2>2. CASE id \in Typeable
    <3>1. typed[id] \in Record
      BY <1>1, <2>2
    <3> DEFINE put == [typed[id] EXCEPT ![f] = Fresh]
    <3>2. put \in Record /\ put[f] = Fresh /\ \A g \in Fields \ {f} : put[g] = typed[id][g]
      BY <1>1, <3>1, RecordSet
    <3>3. Enters(t, id, f, row) = [typed EXCEPT ![id] = put]
      BY <2>1
    <3> HIDE DEF put
    <3> QED BY <1>1, <1>4, <2>2, <3>2, <3>3 DEF typed
  <2>3. CASE id \notin Typeable
    <3>1. [typed EXCEPT ![id][f] = Fresh] = typed
      BY <1>1, <2>3
    <3> QED BY <1>1, <2>1, <2>3, <3>1 DEF typed
  <2> QED BY <2>2, <2>3
<1> QED BY <1>3, <1>4

-----------------------------------------------------------------------------
(* Clicks *)

\* A tab's state with another list, form, busy flag and entries.
LEMMA ViewSet ==
  ASSUME PageShape, NEW t \in Desks, NEW new \in TabState(Typeable),
         view' = [view EXCEPT ![t] = new]
  PROVE  /\ view' \in [Desks -> TabState(Typeable)] /\ view'[t] = new
         /\ \A d \in Desks \ {t} : view'[d] = view[d]
BY DEF PageShape

LEMMA TabSet ==
  ASSUME PageShape, NEW t \in Desks, NEW list \in Lists, NEW form \in [id : Nat, row : Record],
         NEW busy \in BOOLEAN, NEW typed \in [Typeable -> Record],
         NEW at \in Nat, NEW best \in Nat, NEW spoilt \in Nat
  PROVE  [view[t] EXCEPT !.list = list, !.form = form, !.busy = busy, !.typed = typed,
                         !.at = at, !.best = best, !.spoilt = spoilt] \in TabState(Typeable)
BY TabParts DEF TabState

LEMMA EditRowClicks ==
  ASSUME PageShape, NEW t \in Desks, NEW id \in DOMAIN view[t].list, NEW f \in Fields, EditRow(t, id, f)
  PROVE  \E row \in Record :
           /\ row[f] = Fresh /\ f \in Editable /\ This.edit \in {"row", "cell"}
           /\ row = [view[t].list[id] EXCEPT ![f] = Fresh]
           /\ Clicked(t, "edit", id, f, row, Enters(t, id, f, row),
                      IF This.shows \in {"before", "undone"} THEN [view[t].list EXCEPT ![id] = row]
                      ELSE view[t].list)
<1> DEFINE row == [view[t].list[id] EXCEPT ![f] = Fresh]
           typed == Enters(t, id, f, row)
           list == IF This.shows \in {"before", "undone"} THEN [view[t].list EXCEPT ![id] = row]
                   ELSE view[t].list
<1>1. id \in Nat /\ view[t].list[id] \in Record /\ view[t].list \in Lists /\ Fresh \in Nat
  BY RowParts, TabParts, DeskParts
<1>2. row \in Record /\ row[f] = Fresh
  BY <1>1, RecordSet
<1>3. Begins(t, "edit", id, f, row) /\ f \in Editable /\ This.edit \in {"row", "cell"}
  BY DEF EditRow
<1>4. view' = [view EXCEPT ![t].typed = typed, ![t].list = list]
  BY DEF EditRow
<1> HIDE DEF row
<1>5. typed \in [Typeable -> Record] /\ list \in Lists
  BY <1>1, <1>2, EntersTyped, ListSet
<1> HIDE DEF typed, list
<1>6. view' = [view EXCEPT ![t] = [view[t] EXCEPT !.typed = typed, !.list = list]]
      /\ [view[t] EXCEPT !.typed = typed, !.list = list] \in TabState(Typeable)
  BY <1>4, <1>5, TabParts DEF PageShape, TabState
<1>7. /\ view' \in [Desks -> TabState(Typeable)]
      /\ view'[t] = [view[t] EXCEPT !.typed = typed, !.list = list]
      /\ \A d \in Desks \ {t} : view'[d] = view[d]
  BY <1>6, ViewSet
<1>8. view'[t].typed = typed /\ view'[t].list = list /\ view'[t].at = view[t].at
      /\ view'[t].best = view[t].best /\ view'[t].spoilt = view[t].spoilt
  BY <1>7, TabParts DEF TabState
<1>9. /\ runs' \in [Desks -> SUBSET Handler]
      /\ runs'[t] = runs[t] \cup {Begun(t, "edit", id, f, row)}
      /\ \A d \in Desks \ {t} : runs'[d] = runs[d]
      /\ Begun(t, "edit", id, f, row) \in Handler
      /\ commands' = commands + 1
      /\ UNCHANGED <<desk, rows, issued, served, losses>>
  BY <1>1, <1>2, <1>3, BeginsRun DEF PageOps
<1>10. PageShape'
  BY <1>7, <1>9 DEF PageShape, Typeable
<1>11. Clicked(t, "edit", id, f, row, typed, list)
  BY <1>1, <1>2, <1>7, <1>8, <1>9, <1>10 DEF Clicked, PageOps
<1> QED BY <1>2, <1>3, <1>11 DEF row, typed, list

LEMMA SaveFormClicks ==
  ASSUME PageShape, NEW t \in Desks, NEW f \in Fields, SaveForm(t, f)
  PROVE  \E row \in Record :
           /\ row[f] = Fresh /\ f \in Editable
           /\ Clicked(t, "edit", view[t].form.id, f, row, Enters(t, view[t].form.id, f, row), view[t].list)
           /\ view'[t].form.id = view[t].form.id /\ view'[t].busy
<1> DEFINE id == view[t].form.id
           row == [view[t].form.row EXCEPT ![f] = Fresh]
           typed == Enters(t, id, f, row)
<1>1. id \in Nat /\ view[t].form.row \in Record /\ Fresh \in Nat
  BY TabParts, DeskParts
<1>2. row \in Record /\ row[f] = Fresh
  BY <1>1, RecordSet
<1>3. Begins(t, "edit", id, f, row) /\ f \in Editable
  BY DEF SaveForm
<1>4. view' = [view EXCEPT ![t].typed = typed, ![t].form.row = row, ![t].busy = TRUE]
  BY DEF SaveForm
<1> HIDE DEF row
<1>5. typed \in [Typeable -> Record]
  BY <1>1, <1>2, EntersTyped
<1> HIDE DEF typed
<1> DEFINE new == [view[t] EXCEPT !.typed = typed, !.form.row = row, !.busy = TRUE]
<1>6. view' = [view EXCEPT ![t] = new] /\ new \in TabState(Typeable)
  BY <1>2, <1>4, <1>5, TabParts DEF PageShape, TabState
<1>7. new.typed = typed /\ new.list = view[t].list /\ new.at = view[t].at
      /\ new.best = view[t].best /\ new.spoilt = view[t].spoilt /\ new.form.id = view[t].form.id /\ new.busy
  BY TabParts DEF TabState
<1> HIDE DEF new
<1>8. /\ view' \in [Desks -> TabState(Typeable)]
      /\ view'[t] = new
      /\ \A d \in Desks \ {t} : view'[d] = view[d]
  BY <1>6, ViewSet
<1>9. /\ runs' \in [Desks -> SUBSET Handler]
      /\ runs'[t] = runs[t] \cup {Begun(t, "edit", id, f, row)}
      /\ \A d \in Desks \ {t} : runs'[d] = runs[d]
      /\ Begun(t, "edit", id, f, row) \in Handler
      /\ commands' = commands + 1
      /\ UNCHANGED <<desk, rows, issued, served, losses>>
  BY <1>1, <1>2, <1>3, BeginsRun DEF PageOps
<1>10. PageShape'
  BY <1>8, <1>9 DEF PageShape, Typeable
<1>11. Clicked(t, "edit", id, f, row, typed, view[t].list)
  BY <1>1, <1>2, <1>7, <1>8, <1>9, <1>10 DEF Clicked, PageOps
<1> QED BY <1>2, <1>3, <1>7, <1>8, <1>11 DEF typed

\* The clicks that change the entries at most, and make the page busy.
LEMMA PlainClick ==
  ASSUME PageShape, NEW t \in Desks, NEW op \in PageOps, NEW id \in Nat, NEW f \in Fields,
         NEW row \in Record, Begins(t, op, id, f, row), NEW typed \in [Typeable -> Record],
         NEW busy \in BOOLEAN, view' = [view EXCEPT ![t].typed = typed, ![t].busy = busy]
  PROVE  /\ Clicked(t, op, id, f, row, typed, view[t].list)
         /\ view'[t].form = view[t].form /\ view'[t].busy = busy
<1> DEFINE new == [view[t] EXCEPT !.typed = typed, !.busy = busy]
<1>6. view' = [view EXCEPT ![t] = new] /\ new \in TabState(Typeable)
  BY TabParts DEF PageShape, TabState
<1>7. new.typed = typed /\ new.list = view[t].list /\ new.at = view[t].at
      /\ new.best = view[t].best /\ new.spoilt = view[t].spoilt /\ new.form = view[t].form
      /\ new.busy = busy
  BY TabParts DEF TabState
<1> HIDE DEF new
<1>8. /\ view' \in [Desks -> TabState(Typeable)]
      /\ view'[t] = new
      /\ \A d \in Desks \ {t} : view'[d] = view[d]
  BY <1>6, ViewSet
<1>9. /\ runs' \in [Desks -> SUBSET Handler]
      /\ runs'[t] = runs[t] \cup {Begun(t, op, id, f, row)}
      /\ \A d \in Desks \ {t} : runs'[d] = runs[d]
      /\ Begun(t, op, id, f, row) \in Handler
      /\ commands' = commands + 1
      /\ UNCHANGED <<desk, rows, issued, served, losses>>
  BY BeginsRun
<1>10. PageShape'
  BY <1>8, <1>9 DEF PageShape, Typeable
<1> QED BY <1>7, <1>8, <1>9, <1>10 DEF Clicked

LEMMA CommandClicks ==
  ASSUME PageShape, NEW t \in Desks, NEW id \in DOMAIN view[t].list, Command(t, id)
  PROVE  /\ This.edit = "step"
         /\ Clicked(t, "edit", id, "a", view[t].list[id], view[t].typed, view[t].list)
         /\ view'[t].form = view[t].form /\ view'[t].busy
<1>1. id \in Nat /\ view[t].list[id] \in Record
  BY RowParts, TabParts
<1>2. view[t].typed \in [Typeable -> Record]
      /\ view' = [view EXCEPT ![t].typed = view[t].typed, ![t].busy = TRUE]
  BY TabParts DEF Command, PageShape, TabState
<1>3. Begins(t, "edit", id, "a", view[t].list[id]) /\ This.edit = "step"
  BY DEF Command
<1>4. "edit" \in PageOps /\ "a" \in Fields
  BY DEF PageOps, Fields
<1> QED BY <1>1, <1>2, <1>3, <1>4, PlainClick

LEMMA DeleteClicks ==
  ASSUME PageShape, NEW t \in Desks, NEW id \in DOMAIN view[t].list, HandleDelete(t, id)
  PROVE  /\ "drop" \in This.ops
         /\ Clicked(t, "drop", id, "a", Blank, [view[t].typed EXCEPT ![id] = Blank], view[t].list)
         /\ view'[t].form = view[t].form /\ view'[t].busy
<1>1. id \in Nat /\ Blank \in Record
  BY RowParts, TabParts, RowRecord
<1>2. [view[t].typed EXCEPT ![id] = Blank] \in [Typeable -> Record]
  BY <1>1, TabParts
<1>3. Begins(t, "drop", id, "a", Blank) /\ "drop" \in This.ops
      /\ view' = [view EXCEPT ![t].typed = [view[t].typed EXCEPT ![id] = Blank], ![t].busy = TRUE]
  BY TabParts DEF HandleDelete, PageShape, TabState
<1>4. "drop" \in PageOps /\ "a" \in Fields
  BY DEF PageOps, Fields
<1> QED BY <1>1, <1>2, <1>3, <1>4, PlainClick

LEMMA AddClicks ==
  ASSUME PageShape, NEW t \in Desks, NEW id \in Keys \cup {0}, HandleAdd(t, id)
  PROVE  /\ "add" \in This.ops
         /\ IF Keyed THEN id \in Keys \ DOMAIN view[t].list ELSE id = 0
         /\ Clicked(t, "add", id, "a", Row(Fresh, Fresh),
                    IF Keyed THEN [view[t].typed EXCEPT ![id] = Row(Fresh, Fresh)] ELSE view[t].typed,
                    view[t].list)
         /\ view'[t].form = view[t].form /\ view'[t].busy
<1> DEFINE typed == IF Keyed THEN [view[t].typed EXCEPT ![id] = Row(Fresh, Fresh)] ELSE view[t].typed
<1>1. id \in Nat /\ Row(Fresh, Fresh) \in Record
  BY DeskParts, RowRecord DEF Keys
<1>2. typed \in [Typeable -> Record]
  BY <1>1, TabParts
<1>3. /\ Begins(t, "add", id, "a", Row(Fresh, Fresh)) /\ "add" \in This.ops
      /\ IF Keyed THEN id \in Keys \ DOMAIN view[t].list ELSE id = 0
      /\ view' = [view EXCEPT ![t].typed = typed, ![t].busy = TRUE]
  BY TabParts DEF HandleAdd, PageShape, TabState
<1>4. "add" \in PageOps /\ "a" \in Fields
  BY DEF PageOps, Fields
<1> HIDE DEF typed
<1>5. Clicked(t, "add", id, "a", Row(Fresh, Fresh), typed, view[t].list)
      /\ view'[t].form = view[t].form /\ view'[t].busy
  BY <1>1, <1>2, <1>3, <1>4, PlainClick
<1> QED BY <1>3, <1>5 DEF typed

LEMMA LoadClicks ==
  ASSUME PageShape, NEW t \in Desks, Load(t)
  PROVE  /\ Clicked(t, "load", 0, "a", Blank, view[t].typed, view[t].list)
         /\ view'[t].form = view[t].form /\ view'[t].busy = view[t].busy
<1>1. Blank \in Record /\ "load" \in PageOps /\ "a" \in Fields
  BY RowRecord DEF PageOps, Fields
<1>2. /\ view[t].typed \in [Typeable -> Record] /\ view[t].busy \in BOOLEAN
      /\ view' = [view EXCEPT ![t].typed = view[t].typed, ![t].busy = view[t].busy]
      /\ Begins(t, "load", 0, "a", Blank)
  BY TabParts DEF Load, PageShape, TabState
<1> QED BY <1>1, <1>2, PlainClick

-----------------------------------------------------------------------------
(* The statements of a handler *)

RowPages == {"routes", "roles", "models", "personas", "jobs", "jobForm", "renewals", "products",
             "vendors", "mappings", "numbers", "ledgers"}
CellPages == {"config", "guilds", "names", "emails", "provider", "contents", "files"}
StepPages == {"tasks", "shop", "periods", "journals", "lots", "queue"}

\* Which statement a page's edits are.
LEMMA EditsOf ==
  ASSUME desk \in PageScenes
  PROVE  /\ This.edit \in {"row", "form"} => desk.page \in RowPages
         /\ This.edit = "cell" => desk.page \in CellPages
         /\ This.edit = "step" => desk.page \in StepPages
         /\ desk.page \in RowPages => This.edit \in {"row", "form"}
         /\ desk.page \in CellPages => This.edit = "cell"
         /\ desk.page = "ledgers" => This.edit = "form"
         /\ This.shows = "after" => desk.page = "providers"
         /\ "rename" \in This.ops => desk.page = "roles"
<1> DEFINE usual(page) == page.shows # "after" /\ "rename" \notin page.ops
<1>1. /\ usual(ServiceRoutesPage) /\ ServiceRoutesPage.edit \in {"row", "form"}
      /\ usual(SystemModelsPage) /\ SystemModelsPage.edit \in {"row", "form"}
      /\ usual(DiscordPersonasPage) /\ DiscordPersonasPage.edit \in {"row", "form"}
      /\ ServiceRolesPage.edit \in {"row", "form"}
      /\ usual(SystemConfigPage) /\ SystemConfigPage.edit \in {"cell"}
      /\ usual(DiscordGuildsPage) /\ DiscordGuildsPage.edit \in {"cell"}
      /\ usual(ServicePagesPage) /\ ServicePagesPage.edit \in {"cell"}
      /\ usual(JobButtons) /\ JobButtons.edit \in {"row", "form"}
      /\ usual(JobForm) /\ JobForm.edit \in {"row", "form"}
  BY DEF Page, ServiceRoutesPage, SystemModelsPage, DiscordPersonasPage, ServiceRolesPage, SystemConfigPage, DiscordGuildsPage, ServicePagesPage, JobButtons, JobForm
<1>2. /\ usual(ServiceRenewalsPage) /\ ServiceRenewalsPage.edit \in {"row", "form"}
      /\ usual(AccountRolesPage) /\ AccountRolesPage.edit \in {"none"}
      /\ usual(SystemAsyncTasksPage) /\ SystemAsyncTasksPage.edit \in {"step"}
      /\ usual(FileManager) /\ FileManager.edit \in {"cell"}
      /\ usual(UserDisplayName) /\ UserDisplayName.edit \in {"cell"}
      /\ usual(UserEmailDisplay) /\ UserEmailDisplay.edit \in {"cell"}
      /\ usual(UserDefaultProvider) /\ UserDefaultProvider.edit \in {"cell"}
      /\ UserProviders.edit \in {"none"}
      /\ usual(ProductsPage) /\ ProductsPage.edit \in {"step"}
      /\ usual(AdminLedgers) /\ AdminLedgers.edit \in {"row", "form"}
  BY DEF Page, ServiceRenewalsPage, AccountRolesPage, SystemAsyncTasksPage, FileManager, UserDisplayName, UserEmailDisplay, UserDefaultProvider, UserProviders, ProductsPage, AdminLedgers
<1>3. /\ usual(AdminProducts) /\ AdminProducts.edit \in {"row", "form"}
      /\ usual(AdminPeriods) /\ AdminPeriods.edit \in {"step"}
      /\ usual(AdminVendors) /\ AdminVendors.edit \in {"row", "form"}
      /\ usual(AdminMappings) /\ AdminMappings.edit \in {"row", "form"}
      /\ usual(AccountantImports) /\ AccountantImports.edit \in {"none"}
      /\ usual(AccountantJournals) /\ AccountantJournals.edit \in {"step"}
      /\ usual(AccountantLots) /\ AccountantLots.edit \in {"step"}
      /\ usual(AccountantNumbers) /\ AccountantNumbers.edit \in {"row", "form"}
      /\ usual(ManagerQueue) /\ ManagerQueue.edit \in {"step"}
  BY DEF Page, AdminProducts, AdminPeriods, AdminVendors, AdminMappings, AccountantImports, AccountantJournals, AccountantLots, AccountantNumbers, ManagerQueue
<1>4. desk.page \in DOMAIN Pages
  BY PageKnown
<1>5. \A p \in DOMAIN Pages :
        /\ Pages[p].edit \in {"row", "form"} => p \in RowPages
        /\ Pages[p].edit = "cell" => p \in CellPages
        /\ Pages[p].edit = "step" => p \in StepPages
        /\ p \in RowPages => Pages[p].edit \in {"row", "form"}
        /\ p \in CellPages => Pages[p].edit = "cell"
        /\ p \notin {"roles", "providers"} => usual(Pages[p])
  BY <1>1, <1>2, <1>3 DEF Pages, RowPages, CellPages, StepPages
<1>6. Pages["ledgers"].edit = "form" /\ Pages["roles"].shows # "after" /\ "rename" \notin Pages["providers"].ops
  BY DEF Pages, AdminLedgers, ServiceRolesPage, UserProviders, Page
<1> QED BY <1>4, <1>5, <1>6 DEF This

\* What a statement does to the table: a whole row, one field, or a deletion.
WritesRow(r) ==
  \/ (Keyed \/ r.op = "edit") /\ PutAt(r.id, r.row)
  \/ ~Keyed /\ (r.op = "edit" => r.id \notin DOMAIN rows) /\ PutAt(issued + 1, r.row)

WritesField(r) ==
  \/ PutField(r.id, r.f, r.row[r.f])
  \/ r.row[r.f] = 0 /\ UNCHANGED <<rows, issued>>
  \/ Editable = {"a"} /\ PutAt(r.id, Row(r.row[r.f], 1))

Removes(r) == TakeAway(r.id) \/ (This.edit = "form" /\ ~Keyed /\ r.id \in DOMAIN rows /\ LedgerDeleteV1(r.id))

\* What a handler is for is something the page does.
Apt(r) ==
  /\ r.op = "load" => r.step # "send" /\ "load" \in This.ops
  /\ r.op = "edit" => This.edit # "none" /\ r.f \in Editable
  /\ r.op \in {"add", "drop", "rename"} => r.op \in This.ops
  /\ r.op = "add" /\ ~Keyed => r.id = 0
  /\ This.shows = "undone" /\ r.op = "edit" => r.id \in DOMAIN r.was

LEMMA UpdateWrites ==
  ASSUME PageShape, NEW r \in Handler, r.op = "edit", Apt(r), Update(r)
  PROVE  /\ This.edit \in {"row", "form"} => WritesRow(r)
         /\ This.edit = "cell" => WritesField(r)
         /\ This.edit = "step" => Advance(r.id, r.row.a)
<1> DEFINE row == r.row
           value == r.row[r.f]
<1>1. desk \in PageScenes /\ This.edit \in {"row", "cell", "form", "step"}
  BY DeskParts DEF PageShape, Plausible, Apt
<1>2. CASE This.edit \in {"row", "form"}
  <2>1. desk.page \in RowPages
    BY <1>1, <1>2, EditsOf
  <2>2. PutAt(r.id, r.row) \/ (~Keyed /\ PutOrInsert(r.id, r.row))
    <3>1. CASE desk.page = "routes"
      <4>1. UpsertRouteV1(r.id, r.row)
        BY <1>2, <3>1 DEF Update
      <4> QED BY <3>1, <4>1 DEF UpsertRouteV1, Keyed
    <3>2. CASE desk.page = "roles"
      <4>1. UpsertRoleRow(r.id, r.row)
        BY <1>2, <3>2 DEF Update
      <4> QED BY <3>2, <4>1 DEF UpsertRoleRow, Keyed
    <3>3. CASE desk.page = "models"
      <4>1. ModelsUpsertV1(r.id, r.row)
        BY <1>2, <3>3 DEF Update
      <4> QED BY <3>3, <4>1 DEF ModelsUpsertV1, Keyed
    <3>4. CASE desk.page = "personas"
      <4>1. UpsertPersonaV1(r.id, r.row)
        BY <1>2, <3>4 DEF Update
      <4> QED BY <3>4, <4>1 DEF UpsertPersonaV1, Keyed
    <3>5. CASE desk.page = "jobs"
      <4>1. UpsertJobV1(r.id, r.row)
        BY <1>2, <3>5 DEF Update
      <4> QED BY <3>5, <4>1 DEF UpsertJobV1, Keyed
    <3>6. CASE desk.page = "jobForm"
      <4>1. UpsertJobV1(r.id, r.row)
        BY <1>2, <3>6 DEF Update
      <4> QED BY <3>6, <4>1 DEF UpsertJobV1, Keyed
    <3>7. CASE desk.page = "renewals"
      <4>1. UpsertRenewalV1(r.id, r.row)
        BY <1>2, <3>7 DEF Update
      <4> QED BY <3>7, <4>1 DEF UpsertRenewalV1, Keyed
    <3>8. CASE desk.page = "products"
      <4>1. ProductsUpsertV1(r.id, r.row)
        BY <1>2, <3>8 DEF Update
      <4> QED BY <3>8, <4>1 DEF ProductsUpsertV1, Keyed
    <3>9. CASE desk.page = "vendors"
      <4>1. UpsertVendorV1(r.id, r.row)
        BY <1>2, <3>9 DEF Update
      <4> QED BY <3>9, <4>1 DEF UpsertVendorV1, Keyed
    <3>10. CASE desk.page = "mappings"
      <4>1. UpsertAccountMapV1(r.id, r.row)
        BY <1>2, <3>10 DEF Update
      <4> QED BY <3>10, <4>1 DEF UpsertAccountMapV1, Keyed
    <3>11. CASE desk.page = "numbers"
      <4>1. UpsertNumberV1(r.id, r.row)
        BY <1>2, <3>11 DEF Update
      <4> QED BY <3>11, <4>1 DEF UpsertNumberV1, Keyed
    <3>12. CASE desk.page = "ledgers"
      <4>1. LedgerUpdateV1(r.id, r.row)
        BY <1>2, <3>12 DEF Update
      <4> QED BY <3>12, <4>1 DEF LedgerUpdateV1, Keyed
    <3> QED BY <2>1, <3>1, <3>2, <3>3, <3>4, <3>5, <3>6, <3>7, <3>8, <3>9, <3>10, <3>11, <3>12 DEF RowPages
  <2>3. PutOrInsert(r.id, r.row) => PutAt(r.id, r.row) \/ (r.id \notin DOMAIN rows /\ PutAt(issued + 1, r.row))
    BY DEF PutOrInsert
  <2> QED BY <1>2, <2>2, <2>3 DEF WritesRow
<1>3. CASE This.edit = "cell"
  <2>1. desk.page \in CellPages
    BY <1>1, <1>3, EditsOf
  <2>2. r.f \in Editable
    BY DEF Apt
  <2>3. CASE desk.page = "config"
    BY <1>3, <2>3 DEF Update, UpsertConfigV1, WritesField, Editable
  <2>4. CASE desk.page = "guilds"
    <3>1. r.f = "a"
      BY <2>2, <2>4 DEF Editable
    <3>2. UpdateCreditsV1(r.id, value)
      BY <1>3, <2>4 DEF Update
    <3> QED BY <1>3, <3>1, <3>2 DEF UpdateCreditsV1, WritesField
  <2>5. CASE desk.page \in {"names", "emails", "provider", "contents", "files"}
    <3>1. SetProfileField(r.id, r.f, value) \/ PageUpdateV1(r.id, r.f, value)
      BY <1>3, <2>5 DEF Update
    <3> QED BY <1>3, <3>1 DEF SetProfileField, PageUpdateV1, WritesField
  <2> QED BY <2>1, <2>3, <2>4, <2>5 DEF CellPages
<1>4. CASE This.edit = "step"
  <2>1. desk.page \in StepPages
    BY <1>1, <1>4, EditsOf
  <2> QED BY <1>4, <2>1 DEF Update, StepPages
<1> QED BY <1>1, <1>2, <1>3, <1>4

LEMMA PutShape ==
  ASSUME PageShape, NEW id \in Nat, NEW row \in Record, PutAt(id, row)
  PROVE  /\ rows' \in Lists /\ issued' \in Nat /\ issued <= issued' /\ id <= issued'
         /\ issued' \in {issued, id}
         /\ DOMAIN rows' = DOMAIN rows \cup {id} /\ rows'[id] = row
         /\ \A k \in DOMAIN rows \ {id} : rows'[k] = rows[k]
BY ListPut, MaxOfTwo DEF PutAt, PageShape

LEMMA FieldShape ==
  ASSUME PageShape, NEW id \in Nat, NEW f \in Fields, NEW value \in Nat, PutField(id, f, value)
  PROVE  /\ rows' \in Lists /\ issued' = issued
         /\ DOMAIN rows' = DOMAIN rows
         /\ \A k \in DOMAIN rows \ {id} : rows'[k] = rows[k]
         /\ id \in DOMAIN rows =>
              rows'[id][f] = value /\ \A g \in Fields \ {f} : rows'[id][g] = rows[id][g]
<1>1. rows \in Lists
  BY DEF PageShape
<1>2. CASE id \in DOMAIN rows
  <2> DEFINE row == [rows[id] EXCEPT ![f] = value]
  <2>1. rows[id] \in Record
    BY <1>1, <1>2, RowParts
  <2>2. row \in Record /\ row[f] = value /\ \A g \in Fields \ {f} : row[g] = rows[id][g]
    BY <2>1, RecordSet
  <2>3. rows' = [rows EXCEPT ![id] = row] /\ issued' = issued
    BY <1>2 DEF PutField
  <2> HIDE DEF row
  <2>4. rows' \in Lists /\ DOMAIN rows' = DOMAIN rows
    BY <1>1, <2>2, <2>3, ListSet
  <2>5. rows \in [DOMAIN rows -> Record]
    BY <1>1, ListParts
  <2>6. rows'[id] = row /\ \A k \in DOMAIN rows \ {id} : rows'[k] = rows[k]
    BY <1>2, <2>3, <2>5
  <2> QED BY <2>2, <2>3, <2>4, <2>6
<1>3. CASE id \notin DOMAIN rows
  BY <1>1, <1>3 DEF PutField
<1> QED BY <1>2, <1>3

LEMMA TakeShape ==
  ASSUME PageShape, NEW id, TakeAway(id)
  PROVE  /\ rows' \in Lists /\ issued' = issued /\ DOMAIN rows' = DOMAIN rows \ {id}
         /\ \A k \in DOMAIN rows \ {id} : rows'[k] = rows[k]
BY ListDrop DEF TakeAway, PageShape

LEMMA LedgerShape ==
  ASSUME PageShape, NEW id \in DOMAIN rows, LedgerDeleteV1(id)
  PROVE  /\ rows' \in Lists /\ issued' = issued /\ DOMAIN rows' = DOMAIN rows
         /\ \A k \in DOMAIN rows \ {id} : rows'[k] = rows[k]
<1>1. rows \in Lists /\ rows \in [DOMAIN rows -> Record] /\ rows[id] \in Record
  BY ListParts, RowParts DEF PageShape
<1> DEFINE row == [rows[id] EXCEPT !.a = 0]
<1>2. row \in Record /\ rows' = [rows EXCEPT ![id] = row] /\ issued' = issued
  BY <1>1 DEF LedgerDeleteV1, Record
<1> HIDE DEF row
<1>3. rows' \in Lists /\ DOMAIN rows' = DOMAIN rows
  BY <1>1, <1>2, ListSet
<1>4. \A k \in DOMAIN rows \ {id} : rows'[k] = rows[k]
  BY <1>1, <1>2
<1> QED BY <1>2, <1>3, <1>4

LEMMA RenamePages ==
  ASSUME PageShape, "rename" \in This.ops
  PROVE  Keyed /\ This.edit = "row"
<1>1. desk.page = "roles"
  BY EditsOf DEF PageShape
<1> QED BY <1>1 DEF Keyed, This, Pages, ServiceRolesPage, Page

LEMMA ExecutesWrites ==
  ASSUME PageShape, NEW r \in Handler, r.step = "send", Apt(r), ~Declined(r), Executes(r)
  PROVE  \/ /\ r.op = "edit" /\ This.edit \in {"row", "form"} /\ WritesRow(r)
         \/ /\ r.op = "edit" /\ This.edit = "cell" /\ WritesField(r)
         \/ /\ r.op = "edit" /\ This.edit = "step" /\ Advance(r.id, r.row.a)
         \/ /\ r.op \in {"add", "rename"} /\ WritesRow(r)
         \/ /\ r.op = "drop" /\ Removes(r)
<1>1. r.op \in {"edit", "add", "drop", "rename"}
  BY DEF Handler, PageOps, Apt
<1>2. CASE r.op = "edit"
  <2>1. Update(r)
    BY <1>2 DEF Executes
  <2>2. This.edit \in {"row", "cell", "form", "step"}
    BY <1>2, DeskParts DEF Apt, Plausible
  <2> QED BY <1>2, <2>1, <2>2, UpdateWrites
<1>3. CASE r.op = "add"
  <2>1. PutAt(IF Keyed THEN r.id ELSE issued + 1, r.row)
    BY <1>3 DEF Executes
  <2> QED BY <1>3, <2>1 DEF WritesRow
<1>5. CASE r.op = "rename"
  <2>1. UpsertRoleRow(r.id, r.row)
    BY <1>5 DEF Executes
  <2>2. Keyed
    BY <1>5, RenamePages DEF Apt
  <2> QED BY <1>5, <2>1, <2>2 DEF UpsertRoleRow, WritesRow
<1>4. CASE r.op = "drop"
  <2>1. CASE desk.page = "ledgers"
    <3>1. LedgerDeleteV1(r.id) /\ r.id \in DOMAIN rows
      BY <1>4, <2>1 DEF Executes, Declined
    <3>2. This.edit = "form"
      BY <1>4, <2>1, EditsOf DEF PageShape, Apt
    <3>3. ~Keyed
      BY <2>1 DEF Keyed
    <3> QED BY <1>4, <3>1, <3>2, <3>3 DEF Removes
  <2>2. CASE desk.page # "ledgers"
    BY <1>4, <2>2 DEF Executes, Removes
  <2> QED BY <2>1, <2>2
<1> QED BY <1>1, <1>2, <1>3, <1>4, <1>5

LEMMA ExecutesShape ==
  ASSUME PageShape, NEW r \in Handler, r.step = "send", Apt(r), ~Declined(r), Executes(r)
  PROVE  rows' \in Lists /\ issued' \in Nat /\ issued <= issued'
<1>1. issued \in Nat /\ r.id \in Nat /\ r.f \in Fields /\ r.row \in Record /\ r.row[r.f] \in Nat
      /\ r.row.a + 1 \in Nat /\ "a" \in Fields
  BY HandlerParts, RecordParts DEF PageShape, Fields, Record
<1>2. Row(r.row[r.f], 1) \in Record
  BY <1>1, RowRecord
<1> DEFINE Fits == rows' \in Lists /\ issued' \in Nat /\ issued <= issued'
<1>3. ASSUME WritesRow(r) PROVE Fits
  <2>1. CASE PutAt(r.id, r.row)
    BY <1>1, <2>1, PutShape
  <2>2. CASE PutAt(issued + 1, r.row)
    <3>1. issued + 1 \in Nat
      BY <1>1
    <3> QED BY <1>1, <2>2, <3>1, PutShape
  <2> QED BY <1>3, <2>1, <2>2 DEF WritesRow
<1>4. ASSUME WritesField(r) PROVE Fits
  <2>1. CASE PutField(r.id, r.f, r.row[r.f])
    BY <1>1, <2>1, FieldShape
  <2>2. CASE PutAt(r.id, Row(r.row[r.f], 1))
    BY <1>1, <1>2, <2>2, PutShape
  <2>3. CASE UNCHANGED <<rows, issued>>
    BY <1>1, <2>3 DEF PageShape
  <2> QED BY <1>4, <2>1, <2>2, <2>3 DEF WritesField
<1>5. ASSUME Advance(r.id, r.row.a) PROVE Fits
  <2>1. PutField(r.id, "a", r.row.a + 1)
    BY <1>5 DEF Advance
  <2> QED BY <1>1, <2>1, FieldShape
<1>6. ASSUME Removes(r) PROVE Fits
  <2>1. CASE TakeAway(r.id)
    <3>1. rows' \in Lists /\ issued' = issued
      BY <2>1, ListDrop DEF TakeAway, PageShape
    <3> QED BY <1>1, <3>1
  <2>2. CASE r.id \in DOMAIN rows /\ LedgerDeleteV1(r.id)
    BY <1>1, <2>2, LedgerShape
  <2> QED BY <1>6, <2>1, <2>2 DEF Removes
<1> QED BY <1>3, <1>4, <1>5, <1>6, ExecutesWrites

-----------------------------------------------------------------------------
(* The invariant *)

\* A handler yet to be served that will write the field of the row.
WillWrite(r, id, f) ==
  /\ r.step = "send" /\ r.id = id /\ r.op \in {"edit", "add", "drop", "rename"}
  /\ This.edit = "cell" => r.op = "edit" /\ r.f = f

Newest(r, R, id, f) == \A q \in R : WillWrite(q, id, f) => q.n <= r.n

\* What was entered is with the newest of the handlers that will write the field,
\* or in the table.
Kept(v, R, id, f) ==
  \/ v = 0
  \/ \E r \in R : WillWrite(r, id, f) /\ r.op # "drop" /\ r.row[f] = v /\ Newest(r, R, id, f)
  \/ (\A q \in R : ~WillWrite(q, id, f)) /\ (id \in DOMAIN rows => rows[id][f] = v)

EntriesKept ==
  \A t \in Desks : \A id \in Typeable, f \in Fields : Kept(view[t].typed[id][f], runs[t], id, f)

\* No identifier beyond the last one issued is known to anyone.
IdsKnown ==
  ~Keyed =>
    /\ \A k \in DOMAIN rows : k <= issued
    /\ \A t \in Desks : /\ \A k \in DOMAIN view[t].list : k <= issued
                        /\ view[t].form.id <= issued
                        /\ \A r \in runs[t] : r.id <= issued /\ \A k \in DOMAIN r.list : k <= issued
                        /\ \A k \in Typeable, f \in Fields : k > issued => view[t].typed[k][f] = 0

\* What can be entered on the pages that edit cells, forms or nothing.
EntriesKnown ==
  \A t \in Desks :
    /\ This.edit # "form" => view[t].form = Closed
    /\ This.edit = "step" => \A k \in Typeable, f \in Fields : view[t].typed[k][f] = 0
    /\ This.edit = "cell" => \A k \in Typeable, f \in Fields \ Editable : view[t].typed[k][f] = 0

\* Handlers are numbered, and for what the page does.
HandlersKnown ==
  \A t \in Desks :
    /\ \A r \in runs[t] : r.n <= commands /\ Apt(r)
    /\ \A q, r \in runs[t] : q.n = r.n => q = r
    /\ runs[t] = {} => ~view[t].busy
    /\ OneAtATime => /\ \A q, r \in runs[t] : q = r
                     /\ runs[t] # {} => view[t].busy

-----------------------------------------------------------------------------
(* The requests of a handler *)

\* A handler r of tab t leaves, or goes on as one of those in next.
Turned(t, r, next) ==
  /\ runs'[t] = (runs[t] \ {r}) \cup next
  /\ next \subseteq Handler
  /\ \A d \in Desks \ {t} : runs'[d] = runs[d]
  /\ UNCHANGED <<desk, commands>>
  /\ PageShape'

\* The state of a tab that no other tab looks at.
OthersView(t) == \A d \in Desks \ {t} : view'[d] = view[d]

LEMMA TurnsRuns ==
  ASSUME PageShape, NEW t \in Desks, NEW r \in runs[t], NEW new \in Handler, Turns(t, r, new)
  PROVE  /\ runs' \in [Desks -> SUBSET Handler] /\ runs'[t] = (runs[t] \ {r}) \cup {new}
         /\ \A d \in Desks \ {t} : runs'[d] = runs[d]
BY DEF Turns, PageShape

LEMMA LeavesRuns ==
  ASSUME PageShape, NEW t \in Desks, NEW r \in runs[t], Leaves(t, r)
  PROVE  /\ runs' \in [Desks -> SUBSET Handler] /\ runs'[t] = (runs[t] \ {r}) \cup {}
         /\ \A d \in Desks \ {t} : runs'[d] = runs[d]
BY DEF Leaves, PageShape

LEMMA ForgetsTyped ==
  ASSUME PageShape, NEW typed \in [Typeable -> Record], NEW r \in Handler
  PROVE  /\ Forgets(typed, r) \in [Typeable -> Record]
         /\ \A k \in Typeable : \A g \in Fields :
              /\ Forgets(typed, r)[k][g] \in {0, typed[k][g]}
              /\ WillWrite(r, k, g) => Forgets(typed, r)[k][g] = 0
<1>1. Blank \in Record /\ \A g \in Fields : Blank[g] = 0
  BY RowRecord
<1>2. r.f \in Fields
  BY HandlerParts
<1>3. CASE r.id \notin DOMAIN typed
  BY <1>3 DEF Forgets, WillWrite
<1>4. CASE r.id \in DOMAIN typed /\ This.edit = "cell" /\ r.op = "edit"
  <2> DEFINE put == [typed[r.id] EXCEPT ![r.f] = 0]
  <2>1. typed[r.id] \in Record
    BY <1>4
  <2>2. put \in Record /\ put[r.f] = 0 /\ \A g \in Fields \ {r.f} : put[g] = typed[r.id][g]
    BY <1>2, <2>1, RecordSet
  <2>3. Forgets(typed, r) = [typed EXCEPT ![r.id] = put]
    BY <1>4 DEF Forgets
  <2> HIDE DEF put
  <2> QED BY <1>4, <2>2, <2>3 DEF WillWrite
<1>5. CASE r.id \in DOMAIN typed /\ ~(This.edit = "cell" /\ r.op = "edit")
  <2>1. Forgets(typed, r) = [typed EXCEPT ![r.id] = Blank]
    BY <1>5 DEF Forgets
  <2> QED BY <1>1, <1>5, <2>1 DEF WillWrite
<1> QED BY <1>3, <1>4, <1>5

LEMMA FormAfterForm ==
  ASSUME PageShape, NEW t \in Desks, NEW r, NEW late
  PROVE  FormAfter(t, r, late) \in {view[t].form, Closed} /\ Closed \in [id : Nat, row : Record]
BY RowRecord DEF FormAfter, Closed

\* The tab state with all that a handler may change of it.
LEMMA TabSets ==
  ASSUME PageShape, NEW t \in Desks, NEW list \in Lists, NEW form \in [id : Nat, row : Record],
         NEW busy \in BOOLEAN, NEW at \in Nat, NEW best \in Nat, NEW spoilt \in Nat,
         NEW typed \in [Typeable -> Record]
  PROVE  \E new \in TabState(Typeable) :
           /\ new = [view[t] EXCEPT !.list = list, !.form = form, !.busy = busy, !.at = at, !.best = best,
                                    !.spoilt = spoilt, !.typed = typed]
           /\ new.list = list /\ new.form = form /\ new.busy = busy /\ new.at = at /\ new.best = best
           /\ new.spoilt = spoilt /\ new.typed = typed
<1> DEFINE new == [view[t] EXCEPT !.list = list, !.form = form, !.busy = busy, !.at = at, !.best = best,
                                  !.spoilt = spoilt, !.typed = typed]
<1>1. view[t] \in TabState(Typeable)
  BY TabParts
<1>2. /\ new.list = list /\ new.form = form /\ new.busy = busy /\ new.at = at /\ new.best = best
      /\ new.spoilt = spoilt /\ new.typed = typed
  BY <1>1 DEF TabState
<1>3. new \in TabState(Typeable)
  BY <1>1 DEF TabState
<1> QED BY <1>2, <1>3

\* The statement is executed; the other tabs do not know.
LEMMA ServeParts ==
  ASSUME PageShape, NEW t \in Desks, NEW r \in runs[t], Apt(r), Serve(t, r)
  PROVE  LET new == [r EXCEPT !.step = NextStep(r)]
             spoils == Overtakes(t, r) \/ Lacks(t, r)
         IN /\ Turned(t, r, {new}) /\ r.step = "send" /\ ~Declined(r) /\ Executes(r)
            /\ served' = served + 1 /\ UNCHANGED losses
            /\ view'[t].list = view[t].list /\ view'[t].at = view[t].at /\ view'[t].best = view[t].best
            /\ view'[t].busy = view[t].busy /\ view'[t].form \in {view[t].form, Closed}
            /\ view'[t].spoilt = IF spoils THEN Now + 1 ELSE view[t].spoilt
            /\ view'[t].typed = IF Overtakes(t, r) /\ ~OneAtATime THEN Forgets(view[t].typed, r) ELSE view[t].typed
            /\ \A d \in Desks \ {t} :
                 /\ view'[d].list = view[d].list /\ view'[d].at = view[d].at /\ view'[d].best = view[d].best
                 /\ view'[d].busy = view[d].busy /\ view'[d].form = view[d].form
                 /\ view'[d].spoilt = Now + 1 /\ view'[d].typed = Forgets(view[d].typed, r)
<1> DEFINE new == [r EXCEPT !.step = NextStep(r)]
           form == FormAfter(t, r, FALSE)
           spoils == Overtakes(t, r) \/ Lacks(t, r)
           spoilt == IF spoils THEN Now + 1 ELSE view[t].spoilt
           typed == IF Overtakes(t, r) /\ ~OneAtATime THEN Forgets(view[t].typed, r) ELSE view[t].typed
           here == [view[t] EXCEPT !.form = form, !.spoilt = spoilt, !.typed = typed]
           there(d) == [view[d] EXCEPT !.spoilt = Now + 1, !.typed = Forgets(view[d].typed, r)]
<1>1. r \in Handler /\ new \in Handler
  BY TabParts DEF Handler, PageSteps, NextStep
<1>2. Now + 1 \in Nat
  BY DeskParts
<1>3. form \in {view[t].form, Closed} /\ form \in [id : Nat, row : Record]
  BY FormAfterForm, TabParts
<1>4. spoilt \in Nat /\ typed \in [Typeable -> Record]
  BY <1>1, <1>2, TabParts, ForgetsTyped
<1>5. view' = [d \in Desks |-> IF d # t THEN there(d) ELSE here]
  BY DEF Serve
<1>6. Turns(t, r, new) /\ desk' = desk /\ commands' = commands /\ r.step = "send" /\ ~Declined(r)
      /\ Executes(r) /\ served' = served + 1 /\ losses' = losses
  BY DEF Serve, Has
<1> HIDE DEF new, form, spoilt, typed
<1>7. /\ here \in TabState(Typeable)
      /\ here.list = view[t].list /\ here.at = view[t].at /\ here.best = view[t].best
      /\ here.busy = view[t].busy /\ here.form = form /\ here.spoilt = spoilt /\ here.typed = typed
  BY <1>3, <1>4, TabParts DEF TabState
<1>8. ASSUME NEW d \in Desks
      PROVE  /\ there(d) \in TabState(Typeable)
             /\ there(d).list = view[d].list /\ there(d).at = view[d].at /\ there(d).best = view[d].best
             /\ there(d).busy = view[d].busy /\ there(d).form = view[d].form
             /\ there(d).spoilt = Now + 1 /\ there(d).typed = Forgets(view[d].typed, r)
  <2>1. Forgets(view[d].typed, r) \in [Typeable -> Record] /\ view[d] \in TabState(Typeable)
    BY <1>1, TabParts, ForgetsTyped
  <2> DEFINE forgotten == Forgets(view[d].typed, r)
  <2> HIDE DEF forgotten
  <2>2. /\ [view[d] EXCEPT !.spoilt = Now + 1, !.typed = forgotten] \in TabState(Typeable)
    BY <1>2, <2>1 DEF TabState, forgotten
  <2> QED BY <2>1, <2>2 DEF TabState, forgotten
<1> HIDE DEF here, there
<1>9. view' \in [Desks -> TabState(Typeable)] /\ view'[t] = here /\ \A d \in Desks \ {t} : view'[d] = there(d)
  BY <1>5, <1>7, <1>8
<1>10. rows' \in Lists /\ issued' \in Nat
  BY <1>1, <1>6, ExecutesShape
<1>11. /\ runs' \in [Desks -> SUBSET Handler] /\ runs'[t] = (runs[t] \ {r}) \cup {new}
       /\ \A d \in Desks \ {t} : runs'[d] = runs[d]
  BY <1>1, <1>6, TurnsRuns
<1>12. PageShape'
  BY <1>6, <1>9, <1>10, <1>11 DEF PageShape, Typeable
<1>13. Turned(t, r, {new})
  BY <1>1, <1>6, <1>11, <1>12 DEF Turned
<1> QED BY <1>3, <1>6, <1>7, <1>8, <1>9, <1>13 DEF new, spoilt, typed

\* A handler that leaves, or takes its next step, without a change to the table.
Passed(t, r, next) ==
  /\ Turned(t, r, next) /\ UNCHANGED <<rows, issued, served>>
  /\ OthersView(t)

\* A request is refused.
LEMMA DeclineParts ==
  ASSUME PageShape, NEW t \in Desks, NEW r \in runs[t], Decline(t, r)
  PROVE  /\ Passed(t, r, {}) /\ r.step = "send" /\ Declined(r) /\ UNCHANGED losses
         /\ view'[t].list = view[t].list /\ view'[t].at = view[t].at /\ view'[t].best = view[t].best
         /\ ~view'[t].busy /\ view'[t].form = view[t].form /\ view'[t].spoilt = view[t].spoilt
         /\ view'[t].typed = Forgets(view[t].typed, r)
<1> DEFINE typed == Forgets(view[t].typed, r)
           new == [view[t] EXCEPT !.busy = FALSE, !.typed = typed]
<1>1. r \in Handler
  BY TabParts
<1>2. typed \in [Typeable -> Record]
  BY <1>1, TabParts, ForgetsTyped
<1>3. view' = [view EXCEPT ![t].busy = FALSE, ![t].typed = typed]
  BY TabParts DEF Decline, PageShape, TabState
<1>4. /\ Leaves(t, r) /\ UNCHANGED <<rows, issued, served, losses, desk, commands>>
      /\ r.step = "send" /\ Declined(r)
  BY DEF Decline, Has
<1> HIDE DEF typed
<1>5. view' = [view EXCEPT ![t] = new]
  BY <1>3 DEF PageShape
<1>6. /\ new \in TabState(Typeable)
      /\ new.list = view[t].list /\ new.at = view[t].at /\ new.best = view[t].best /\ ~new.busy
      /\ new.form = view[t].form /\ new.spoilt = view[t].spoilt /\ new.typed = typed
  BY <1>2, TabParts DEF TabState
<1> HIDE DEF new
<1>7. /\ view' \in [Desks -> TabState(Typeable)] /\ view'[t] = new
      /\ \A d \in Desks \ {t} : view'[d] = view[d]
  BY <1>5, <1>6, ViewSet
<1>8. /\ runs' \in [Desks -> SUBSET Handler] /\ runs'[t] = (runs[t] \ {r}) \cup {}
      /\ \A d \in Desks \ {t} : runs'[d] = runs[d]
  BY <1>4, LeavesRuns
<1>9. PageShape'
  BY <1>4, <1>7, <1>8 DEF PageShape, Typeable
<1>10. Passed(t, r, {})
  BY <1>4, <1>7, <1>8, <1>9 DEF Passed, Turned, OthersView
<1> QED BY <1>4, <1>6, <1>7, <1>10 DEF typed

\* What UserProviders shows at the end of a handler.
Result(r) ==
  CASE r.op = "add" -> [k \in DOMAIN r.was \cup {r.id} |-> IF k = r.id THEN r.row ELSE r.was[k]]
    [] OTHER -> [k \in DOMAIN r.was \ {r.id} |-> r.was[k]]

LEMMA ResultList ==
  ASSUME NEW r \in Handler
  PROVE  /\ Result(r) \in Lists
         /\ r.op = "add" => /\ DOMAIN Result(r) = DOMAIN r.was \cup {r.id} /\ Result(r)[r.id] = r.row
                            /\ \A k \in DOMAIN r.was \ {r.id} : Result(r)[k] = r.was[k]
         /\ r.op # "add" => /\ DOMAIN Result(r) = DOMAIN r.was \ {r.id}
                            /\ \A k \in DOMAIN r.was \ {r.id} : Result(r)[k] = r.was[k]
<1>1. r.was \in Lists /\ r.id \in Nat /\ r.row \in Record
  BY HandlerParts
<1>2. CASE r.op = "add"
  <2>1. Result(r) = [k \in DOMAIN r.was \cup {r.id} |-> IF k = r.id THEN r.row ELSE r.was[k]]
    BY <1>2 DEF Result
  <2> QED BY <1>1, <1>2, <2>1, ListPut
<1>3. CASE r.op # "add"
  <2>1. Result(r) = [k \in DOMAIN r.was \ {r.id} |-> r.was[k]]
    BY <1>3 DEF Result
  <2> QED BY <1>1, <1>3, <2>1, ListDrop
<1> QED BY <1>2, <1>3

\* A handler that loads no list ends.
LEMMA FinishParts ==
  ASSUME PageShape, NEW t \in Desks, NEW r \in runs[t], Apt(r), Finish(t, r)
  PROVE  /\ Passed(t, r, {}) /\ r.step = "answer" /\ UNCHANGED losses
         /\ view'[t].list \in Lists
         /\ This.shows # "after" => view'[t].list = view[t].list
         /\ This.shows = "after" /\ r.op \in {"add", "drop"} => view'[t].list = Result(r)
         /\ view'[t].at = view[t].at /\ view'[t].best = view[t].best
         /\ ~view'[t].busy /\ view'[t].form = view[t].form
         /\ view'[t].spoilt = IF This.shows = "after" /\ r.was # view[t].list THEN Now + 1 ELSE view[t].spoilt
         /\ view'[t].typed = view[t].typed
<1> DEFINE list == CASE This.shows = "after" /\ r.op = "add" ->
                          [k \in DOMAIN r.was \cup {r.id} |-> IF k = r.id THEN r.row ELSE r.was[k]]
                     [] This.shows = "after" /\ r.op = "drop" -> [k \in DOMAIN r.was \ {r.id} |-> r.was[k]]
                     [] OTHER -> view[t].list
           spoilt == IF This.shows = "after" /\ r.was # view[t].list THEN Now + 1 ELSE view[t].spoilt
           new == [view[t] EXCEPT !.list = list, !.busy = FALSE, !.spoilt = spoilt]
<1>1. r \in Handler /\ Now + 1 \in Nat /\ view[t].list \in Lists
  BY TabParts, DeskParts
<1>2. This.shows # "after" => list = view[t].list
  OBVIOUS
<1>3. This.shows = "after" /\ r.op = "add" => list = Result(r)
  BY DEF Result
<1>4. This.shows = "after" /\ r.op = "drop" => list = Result(r)
  BY DEF Result
<1>5. list \in Lists
  <2>1. CASE This.shows = "after" /\ r.op \notin {"add", "drop"}
    BY <1>1, <2>1
  <2> QED BY <1>1, <1>2, <1>3, <1>4, <2>1, ResultList
<1>6. spoilt \in Nat
  BY <1>1, TabParts
<1>7. view' = [view EXCEPT ![t].list = list, ![t].busy = FALSE, ![t].spoilt = spoilt]
  BY TabParts DEF Finish, PageShape, TabState
<1>8. /\ Leaves(t, r) /\ UNCHANGED <<rows, issued, served, losses, desk, commands>> /\ r.step = "answer"
  BY DEF Finish, Has
<1> HIDE DEF list, spoilt
<1>9. view' = [view EXCEPT ![t] = new]
  BY <1>7 DEF PageShape
<1>10. /\ new \in TabState(Typeable)
       /\ new.list = list /\ new.at = view[t].at /\ new.best = view[t].best /\ ~new.busy
       /\ new.form = view[t].form /\ new.spoilt = spoilt /\ new.typed = view[t].typed
  BY <1>5, <1>6, TabParts DEF TabState
<1> HIDE DEF new
<1>11. /\ view' \in [Desks -> TabState(Typeable)] /\ view'[t] = new
       /\ \A d \in Desks \ {t} : view'[d] = view[d]
  BY <1>9, <1>10, ViewSet
<1>12. /\ runs' \in [Desks -> SUBSET Handler] /\ runs'[t] = (runs[t] \ {r}) \cup {}
       /\ \A d \in Desks \ {t} : runs'[d] = runs[d]
  BY <1>8, LeavesRuns
<1>13. PageShape'
  BY <1>8, <1>11, <1>12 DEF PageShape, Typeable
<1>14. Passed(t, r, {})
  BY <1>8, <1>11, <1>12, <1>13 DEF Passed, Turned, OthersView
<1>15. This.shows = "after" /\ r.op \in {"add", "drop"} => list = Result(r)
  BY <1>3, <1>4
<1> QED BY <1>2, <1>5, <1>8, <1>10, <1>11, <1>14, <1>15 DEF spoilt

\* The list is read.
LEMMA ReadParts ==
  ASSUME PageShape, NEW t \in Desks, NEW r \in runs[t], ReadList(t, r)
  PROVE  LET new == [r EXCEPT !.step = "show", !.list = rows, !.at = Now]
         IN /\ Passed(t, r, {new}) /\ r.step = "read" /\ UNCHANGED <<losses, view>>
            /\ new.n = r.n /\ new.op = r.op /\ new.step = "show" /\ new.id = r.id /\ new.f = r.f
            /\ new.row = r.row /\ new.was = r.was /\ new.list = rows /\ new.at = Now
<1> DEFINE new == [r EXCEPT !.step = "show", !.list = rows, !.at = Now]
<1>1. r \in Handler /\ rows \in Lists /\ Now \in Nat
  BY TabParts, DeskParts DEF PageShape
<1>2. /\ new \in Handler
      /\ new.n = r.n /\ new.op = r.op /\ new.step = "show" /\ new.id = r.id /\ new.f = r.f
      /\ new.row = r.row /\ new.was = r.was /\ new.list = rows /\ new.at = Now
  BY <1>1 DEF Handler, PageSteps
<1>3. Turns(t, r, new) /\ UNCHANGED <<rows, issued, view, served, losses, desk, commands>> /\ r.step = "read"
  BY DEF ReadList, Has
<1> HIDE DEF new
<1>4. /\ runs' \in [Desks -> SUBSET Handler] /\ runs'[t] = (runs[t] \ {r}) \cup {new}
      /\ \A d \in Desks \ {t} : runs'[d] = runs[d]
  BY <1>2, <1>3, TurnsRuns
<1>5. PageShape'
  BY <1>3, <1>4 DEF PageShape, Typeable
<1>6. Passed(t, r, {new})
  BY <1>2, <1>3, <1>4, <1>5 DEF Passed, Turned, OthersView
<1> QED BY <1>2, <1>3, <1>6 DEF new

\* The list is shown.
LEMMA ShowParts ==
  ASSUME PageShape, NEW t \in Desks, NEW r \in runs[t], ShowList(t, r)
  PROVE  /\ Passed(t, r, {}) /\ r.step = "show" /\ UNCHANGED losses
         /\ view'[t].list = r.list /\ view'[t].at = r.at
         /\ view'[t].best \in {view[t].best, r.at} /\ view'[t].best >= view[t].best /\ view'[t].best >= r.at
         /\ ~view'[t].busy /\ view'[t].form \in {view[t].form, Closed}
         /\ view'[t].spoilt >= view[t].spoilt
         /\ LackedBy(t) => view'[t].spoilt > r.at
         /\ view'[t].typed = view[t].typed
<1> DEFINE best == Max({view[t].best, r.at})
           form == FormAfter(t, r, TRUE)
           spoilt == IF LackedBy(t) THEN Max({view[t].spoilt, r.at + 1}) ELSE view[t].spoilt
           new == [view[t] EXCEPT !.list = r.list, !.at = r.at, !.best = best, !.busy = FALSE,
                                  !.form = form, !.spoilt = spoilt]
<1>1. r \in Handler /\ r.list \in Lists /\ r.at \in Nat /\ r.at + 1 \in Nat
  BY TabParts, HandlerParts
<1>2. view[t].best \in Nat /\ view[t].spoilt \in Nat
  BY TabParts
<1>3. best \in {view[t].best, r.at} /\ best >= view[t].best /\ best >= r.at /\ best \in Nat
  BY <1>1, <1>2, MaxOfTwo
<1>4. /\ Max({view[t].spoilt, r.at + 1}) \in {view[t].spoilt, r.at + 1}
      /\ Max({view[t].spoilt, r.at + 1}) >= view[t].spoilt /\ Max({view[t].spoilt, r.at + 1}) >= r.at + 1
  BY <1>1, <1>2, MaxOfTwo
<1>5. spoilt \in Nat /\ spoilt >= view[t].spoilt /\ (LackedBy(t) => spoilt > r.at)
  BY <1>1, <1>2, <1>4
<1>6. form \in {view[t].form, Closed} /\ form \in [id : Nat, row : Record]
  BY FormAfterForm, TabParts
<1>7. view' = [view EXCEPT ![t].list = r.list, ![t].at = r.at, ![t].best = best, ![t].busy = FALSE,
                           ![t].form = form, ![t].spoilt = spoilt]
  BY TabParts DEF ShowList, PageShape, TabState
<1>8. /\ Leaves(t, r) /\ UNCHANGED <<rows, issued, served, losses, desk, commands>> /\ r.step = "show"
  BY DEF ShowList, Has
<1> HIDE DEF best, form, spoilt
<1>9. view' = [view EXCEPT ![t] = new]
  BY <1>7 DEF PageShape
<1>10. /\ new \in TabState(Typeable)
       /\ new.list = r.list /\ new.at = r.at /\ new.best = best /\ ~new.busy
       /\ new.form = form /\ new.spoilt = spoilt /\ new.typed = view[t].typed
  BY <1>1, <1>3, <1>5, <1>6, TabParts DEF TabState
<1> HIDE DEF new
<1>11. /\ view' \in [Desks -> TabState(Typeable)] /\ view'[t] = new
       /\ \A d \in Desks \ {t} : view'[d] = view[d]
  BY <1>9, <1>10, ViewSet
<1>12. /\ runs' \in [Desks -> SUBSET Handler] /\ runs'[t] = (runs[t] \ {r}) \cup {}
       /\ \A d \in Desks \ {t} : runs'[d] = runs[d]
  BY <1>8, LeavesRuns
<1>13. PageShape'
  BY <1>8, <1>11, <1>12 DEF PageShape, Typeable
<1>14. Passed(t, r, {})
  BY <1>8, <1>11, <1>12, <1>13 DEF Passed, Turned, OthersView
<1> QED BY <1>3, <1>5, <1>6, <1>8, <1>10, <1>11, <1>14

\* A request fails.
LEMMA LoseParts ==
  ASSUME PageShape, NEW t \in Desks, NEW r \in runs[t], Apt(r), Lose(t, r)
  PROVE  /\ Passed(t, r, {}) /\ losses' = losses + 1
         /\ view'[t].list \in Lists
         /\ \/ view'[t].list = <<>> /\ r.step \in {"read", "show"}
            \/ view'[t].list = PutBack(t, r)
         /\ view'[t].at = view[t].at /\ view'[t].best = view[t].best
         /\ ~view'[t].busy /\ view'[t].form = view[t].form
         /\ view'[t].spoilt = Now + 1
         /\ view'[t].typed = IF r.step = "send" THEN Forgets(view[t].typed, r) ELSE view[t].typed
<1>1. r \in Handler /\ Now + 1 \in Nat
  BY TabParts, DeskParts
<1>2. r.op = "load" => r.step # "send"
  BY DEF Apt
<1>3. PICK empties \in {This.clears /\ r.step \in {"read", "show"}, FALSE} :
       view' = [view EXCEPT
         ![t].list = IF empties THEN <<>> ELSE PutBack(t, r),
         ![t].busy = FALSE,
         ![t].typed = IF r.op # "load" /\ r.step = "send" THEN Forgets(@, r) ELSE @,
         ![t].spoilt = Now + 1]
  BY DEF Lose
<1> DEFINE list == IF empties THEN <<>> ELSE PutBack(t, r)
           typed == IF r.step = "send" THEN Forgets(view[t].typed, r) ELSE view[t].typed
           spoilt == Now + 1
           new == [view[t] EXCEPT !.list = list, !.busy = FALSE, !.typed = typed, !.spoilt = spoilt]
<1>4. view' = [view EXCEPT ![t].list = list, ![t].busy = FALSE, ![t].typed = typed, ![t].spoilt = spoilt]
  BY <1>2, <1>3, TabParts DEF PageShape, TabState
<1>5. PutBack(t, r) \in Lists
  <2>1. CASE ~(This.shows = "undone" /\ r.op = "edit")
    BY <2>1, TabParts DEF PutBack
  <2>2. CASE This.shows = "undone" /\ r.op = "edit" /\ r.id \in DOMAIN r.was
    <3>1. r.was[r.id] \in Record
      BY <1>1, <2>2, HandlerParts, RowParts
    <3> QED BY <2>2, <3>1, TabParts, ListSet DEF PutBack
  <2>3. This.shows = "undone" /\ r.op = "edit" => r.id \in DOMAIN r.was
    BY DEF Apt
  <2> QED BY <2>1, <2>2, <2>3
<1>6. list \in Lists /\ ((list = <<>> /\ r.step \in {"read", "show"}) \/ list = PutBack(t, r))
  BY <1>3, <1>5, EmptyList
<1>7. typed \in [Typeable -> Record] /\ spoilt \in Nat
  BY <1>1, TabParts, ForgetsTyped
<1>8. /\ Leaves(t, r) /\ UNCHANGED <<rows, issued, served, desk, commands>> /\ losses' = losses + 1
  BY DEF Lose, Has
<1> HIDE DEF list, typed, spoilt
<1>9. view' = [view EXCEPT ![t] = new]
  BY <1>4 DEF PageShape
<1>10. /\ new \in TabState(Typeable)
       /\ new.list = list /\ new.at = view[t].at /\ new.best = view[t].best /\ ~new.busy
       /\ new.form = view[t].form /\ new.spoilt = spoilt /\ new.typed = typed
  BY <1>6, <1>7, TabParts DEF TabState
<1> HIDE DEF new
<1>11. /\ view' \in [Desks -> TabState(Typeable)] /\ view'[t] = new
       /\ \A d \in Desks \ {t} : view'[d] = view[d]
  BY <1>9, <1>10, ViewSet
<1>12. /\ runs' \in [Desks -> SUBSET Handler] /\ runs'[t] = (runs[t] \ {r}) \cup {}
       /\ \A d \in Desks \ {t} : runs'[d] = runs[d]
  BY <1>8, LeavesRuns
<1>13. losses + 1 \in Nat
  BY DEF PageShape
<1>14. PageShape'
  BY <1>8, <1>11, <1>12, <1>13 DEF PageShape, Typeable
<1>15. Passed(t, r, {})
  BY <1>8, <1>11, <1>12, <1>14 DEF Passed, Turned, OthersView
<1> QED BY <1>6, <1>8, <1>10, <1>11, <1>15 DEF typed, spoilt

-----------------------------------------------------------------------------
(* What the clicks have in common *)

\* What the click enters is what it sends, or was there.
ClickEnters(t, new) ==
  \A k \in Typeable : \A g \in Fields :
    \/ view'[t].typed[k][g] = 0
    \/ WillWrite(new, k, g) /\ new.op # "drop" /\ view'[t].typed[k][g] = new.row[g] /\ This.edit # "step"
    \/ view'[t].typed[k][g] = view[t].typed[k][g] /\ (WillWrite(new, k, g) => This.edit = "step")

\* Tab t begins the handler new.
Starts(t, new) ==
  /\ new \in Handler /\ new.n = commands + 1 /\ Apt(new) /\ ~Held(t, new.op)
  /\ new.step = IF new.op = "load" THEN "read" ELSE "send"
  /\ new.was = view[t].list /\ new.list = <<>>
  /\ runs'[t] = runs[t] \cup {new}
  /\ \A d \in Desks \ {t} : runs'[d] = runs[d] /\ view'[d] = view[d]
  /\ commands' = commands + 1
  /\ UNCHANGED <<desk, rows, issued, served, losses>>
  /\ PageShape'
  /\ view'[t].at = view[t].at /\ view'[t].best = view[t].best /\ view'[t].spoilt = view[t].spoilt
  /\ OneAtATime => view'[t].busy
  /\ view'[t].form = view[t].form \/ (This.edit = "form" /\ view'[t].form.id = view[t].form.id)
  /\ ClickEnters(t, new)
  /\ ~Keyed => new.id <= issued /\ DOMAIN view'[t].list \subseteq DOMAIN view[t].list

LEMMA BegunParts ==
  ASSUME NEW t, NEW op, NEW id, NEW f, NEW row
  PROVE  /\ Begun(t, op, id, f, row).n = commands + 1 /\ Begun(t, op, id, f, row).op = op
         /\ Begun(t, op, id, f, row).step = IF op = "load" THEN "read" ELSE "send"
         /\ Begun(t, op, id, f, row).id = id /\ Begun(t, op, id, f, row).f = f
         /\ Begun(t, op, id, f, row).row = row /\ Begun(t, op, id, f, row).was = view[t].list
         /\ Begun(t, op, id, f, row).list = <<>> /\ Begun(t, op, id, f, row).at = 0
BY DEF Begun

\* What follows of every click from what it begins.
LEMMA StartsFrom ==
  ASSUME PageShape, NEW t \in Desks, NEW op, NEW id, NEW f, NEW row, NEW typed, NEW list,
         Clicked(t, op, id, f, row, typed, list),
         Apt(Begun(t, op, id, f, row)), ~Held(t, op),
         OneAtATime => view'[t].busy,
         view'[t].form = view[t].form \/ (This.edit = "form" /\ view'[t].form.id = view[t].form.id),
         ClickEnters(t, Begun(t, op, id, f, row)),
         ~Keyed => id <= issued /\ DOMAIN view'[t].list \subseteq DOMAIN view[t].list
  PROVE  \E new \in Handler : Starts(t, new)
<1> DEFINE new == Begun(t, op, id, f, row)
<1>1. /\ new.n = commands + 1 /\ new.op = op /\ new.step = IF op = "load" THEN "read" ELSE "send"
      /\ new.id = id /\ new.was = view[t].list /\ new.list = <<>>
  BY BegunParts
<1>2. Apt(new) /\ ClickEnters(t, new)
  OBVIOUS
<1>3. /\ new \in Handler /\ runs'[t] = runs[t] \cup {new}
      /\ \A d \in Desks \ {t} : runs'[d] = runs[d] /\ view'[d] = view[d]
      /\ commands' = commands + 1 /\ UNCHANGED <<desk, rows, issued, served, losses>> /\ PageShape'
      /\ view'[t].at = view[t].at /\ view'[t].best = view[t].best /\ view'[t].spoilt = view[t].spoilt
  BY DEF Clicked
<1> HIDE DEF new
<1>4. Starts(t, new)
  BY <1>1, <1>2, <1>3 DEF Starts
<1> QED BY <1>3, <1>4

LEMMA OneFreely ==
  ASSUME PageShape, OneAtATime
  PROVE  This.edit \in {"form", "step"} /\ "load" \notin This.ops
BY DeskParts DEF Plausible, OneAtATime

LEMMA KeyedPages ==
  ASSUME PageShape, Keyed
  PROVE  This.edit # "cell" /\ This.edit # "step"
BY EditsOf DEF PageShape, Keyed, CellPages, StepPages

LEMMA EditRowStarts ==
  ASSUME PageShape, IdsKnown, EntriesKnown, NEW t \in Desks, NEW id \in DOMAIN view[t].list, NEW f \in Fields,
         EditRow(t, id, f)
  PROVE  \E new \in Handler : Starts(t, new)
<1>1. PICK row \in Record :
           /\ row[f] = Fresh /\ f \in Editable /\ This.edit \in {"row", "cell"}
           /\ row = [view[t].list[id] EXCEPT ![f] = Fresh]
           /\ Clicked(t, "edit", id, f, row, Enters(t, id, f, row),
                      IF This.shows \in {"before", "undone"} THEN [view[t].list EXCEPT ![id] = row]
                      ELSE view[t].list)
  BY EditRowClicks
<1> DEFINE new == Begun(t, "edit", id, f, row)
           typed == Enters(t, id, f, row)
<1>2. /\ new.op = "edit" /\ new.step = "send" /\ new.id = id /\ new.f = f /\ new.row = row
      /\ new.was = view[t].list
  BY BegunParts
<1>3. Begins(t, "edit", id, f, row)
  BY <1>1 DEF EditRow
<1>4. ~Held(t, "edit")
  BY <1>3 DEF Begins
<1>5. ~OneAtATime /\ This.edit # "none" /\ This.edit # "step"
  BY <1>1, OneFreely
<1>6. view'[t].form = view[t].form
  BY TabParts DEF EditRow, PageShape, TabState
<1>7. view'[t].typed = typed
      /\ view'[t].list = IF This.shows \in {"before", "undone"} THEN [view[t].list EXCEPT ![id] = row]
                         ELSE view[t].list
  BY <1>1 DEF Clicked
<1>8. id \in Nat
  BY RowParts, TabParts
<1>9. Apt(new)
  BY <1>1, <1>2, <1>5 DEF Apt
<1>10. ClickEnters(t, new)
  <2> SUFFICES ASSUME NEW k \in Typeable, NEW g \in Fields
               PROVE  \/ view'[t].typed[k][g] = 0
                      \/ WillWrite(new, k, g) /\ new.op # "drop" /\ view'[t].typed[k][g] = new.row[g] /\ This.edit # "step"
                      \/ view'[t].typed[k][g] = view[t].typed[k][g] /\ (WillWrite(new, k, g) => This.edit = "step")
    BY DEF ClickEnters
  <2> HIDE DEF new, typed
  <2>1. WillWrite(new, k, g) <=> k = id /\ (This.edit = "cell" => g = f)
    BY <1>2 DEF WillWrite
  <2>2. CASE k # id
    BY <1>1, <1>7, <1>8, <2>1, <2>2, EntersTyped DEF typed
  <2>3. CASE k = id /\ g = f
    BY <1>1, <1>2, <1>5, <1>7, <1>8, <2>1, <2>3, EntersTyped DEF typed
  <2>4. CASE k = id /\ g # f
    <3>1. CASE This.edit = "cell"
      BY <1>1, <1>7, <1>8, <2>1, <2>4, <3>1, EntersTyped DEF typed
    <3>2. CASE This.edit = "row"
      <4>1. WillWrite(new, k, g) /\ new.op # "drop" /\ new.row[g] = row[g]
        BY <1>2, <2>1, <2>4, <3>2
      <4>2. typed[k][g] \in {0, row[g]}
        BY <1>1, <1>8, <2>4, <3>2, EntersTyped DEF typed
      <4> QED BY <1>5, <1>7, <4>1, <4>2
    <3> QED BY <1>1, <3>1, <3>2
  <2> QED BY <2>2, <2>3, <2>4
<1>11. ~Keyed => id <= issued /\ DOMAIN view'[t].list \subseteq DOMAIN view[t].list
  BY <1>7 DEF IdsKnown
<1> QED BY <1>1, <1>4, <1>5, <1>6, <1>9, <1>10, <1>11, StartsFrom

LEMMA SaveFormStarts ==
  ASSUME PageShape, IdsKnown, EntriesKnown, NEW t \in Desks, NEW f \in Fields, SaveForm(t, f)
  PROVE  \E new \in Handler : Starts(t, new)
<1> DEFINE id == view[t].form.id
<1>1. PICK row \in Record :
           /\ row[f] = Fresh /\ f \in Editable
           /\ Clicked(t, "edit", id, f, row, Enters(t, id, f, row), view[t].list)
           /\ view'[t].form.id = id /\ view'[t].busy
  BY SaveFormClicks
<1> DEFINE new == Begun(t, "edit", id, f, row)
           typed == Enters(t, id, f, row)
<1>2. /\ new.op = "edit" /\ new.step = "send" /\ new.id = id /\ new.f = f /\ new.row = row
      /\ new.was = view[t].list
  BY BegunParts
<1>3. This.edit = "form"
  BY DEF SaveForm, EntriesKnown
<1>4. ~Held(t, "edit")
  BY DEF SaveForm, Begins
<1>5. This.shows \notin {"before", "undone"}
  BY <1>3, DeskParts DEF Plausible
<1>6. view'[t].typed = typed /\ view'[t].list = view[t].list
  BY <1>1 DEF Clicked
<1>7. id \in Nat
  BY TabParts
<1>8. Apt(new)
  BY <1>1, <1>2, <1>3, <1>5 DEF Apt
<1>9. ClickEnters(t, new)
  <2> SUFFICES ASSUME NEW k \in Typeable, NEW g \in Fields
               PROVE  \/ view'[t].typed[k][g] = 0
                      \/ WillWrite(new, k, g) /\ new.op # "drop" /\ view'[t].typed[k][g] = new.row[g] /\ This.edit # "step"
                      \/ view'[t].typed[k][g] = view[t].typed[k][g] /\ (WillWrite(new, k, g) => This.edit = "step")
    BY DEF ClickEnters
  <2> HIDE DEF new, typed, id
  <2>1. WillWrite(new, k, g) <=> k = id
    BY <1>2, <1>3 DEF WillWrite
  <2>2. CASE k # id
    BY <1>1, <1>6, <1>7, <2>1, <2>2, EntersTyped DEF typed
  <2>3. CASE k = id /\ g = f
    BY <1>1, <1>2, <1>3, <1>6, <1>7, <2>1, <2>3, EntersTyped DEF typed
  <2>4. CASE k = id /\ g # f
    BY <1>1, <1>2, <1>3, <1>6, <1>7, <2>1, <2>4, EntersTyped DEF typed
  <2> QED BY <2>2, <2>3, <2>4
<1>10. ~Keyed => id <= issued /\ DOMAIN view'[t].list \subseteq DOMAIN view[t].list
  BY <1>6 DEF IdsKnown
<1> QED BY <1>1, <1>3, <1>4, <1>8, <1>9, <1>10, StartsFrom

LEMMA CommandStarts ==
  ASSUME PageShape, IdsKnown, EntriesKnown, NEW t \in Desks, NEW id \in DOMAIN view[t].list, Command(t, id)
  PROVE  \E new \in Handler : Starts(t, new)
<1> DEFINE row == view[t].list[id]
           new == Begun(t, "edit", id, "a", row)
<1>1. /\ This.edit = "step" /\ Clicked(t, "edit", id, "a", row, view[t].typed, view[t].list)
      /\ view'[t].form = view[t].form /\ view'[t].busy
  BY CommandClicks
<1>2. /\ new.op = "edit" /\ new.step = "send" /\ new.id = id /\ new.f = "a" /\ new.row = row
      /\ new.was = view[t].list
  BY BegunParts
<1>3. ~Held(t, "edit")
  BY DEF Command, Begins
<1>4. This.shows \notin {"before", "undone"}
  BY <1>1, DeskParts DEF Plausible
<1>5. view'[t].typed = view[t].typed /\ view'[t].list = view[t].list
  BY <1>1 DEF Clicked
<1>6. "a" \in Editable
  BY <1>1, EditsOf DEF PageShape, StepPages, Editable
<1> HIDE DEF new
<1>7. Apt(new)
  BY <1>1, <1>2, <1>4, <1>6 DEF Apt
<1>8. ClickEnters(t, new)
  BY <1>1, <1>5 DEF ClickEnters
<1>9. ~Keyed => id <= issued /\ DOMAIN view'[t].list \subseteq DOMAIN view[t].list
  BY <1>5 DEF IdsKnown
<1> QED BY <1>1, <1>3, <1>7, <1>8, <1>9, StartsFrom DEF new

LEMMA DeleteStarts ==
  ASSUME PageShape, IdsKnown, EntriesKnown, NEW t \in Desks, NEW id \in DOMAIN view[t].list, HandleDelete(t, id)
  PROVE  \E new \in Handler : Starts(t, new)
<1> DEFINE new == Begun(t, "drop", id, "a", Blank)
           typed == [view[t].typed EXCEPT ![id] = Blank]
<1>1. /\ "drop" \in This.ops /\ Clicked(t, "drop", id, "a", Blank, typed, view[t].list)
      /\ view'[t].form = view[t].form /\ view'[t].busy
  BY DeleteClicks
<1>2. /\ new.op = "drop" /\ new.step = "send" /\ new.id = id /\ new.was = view[t].list
  BY BegunParts
<1>3. ~Held(t, "drop")
  BY DEF HandleDelete, Begins
<1>5. view'[t].typed = typed /\ view'[t].list = view[t].list
  BY <1>1 DEF Clicked
<1>6. Apt(new)
  BY <1>1, <1>2 DEF Apt
<1> HIDE DEF new
<1>7. ClickEnters(t, new)
  <2>1. Blank \in Record /\ \A g \in Fields : Blank[g] = 0
    BY RowRecord
  <2>2. view[t].typed \in [Typeable -> Record]
    BY TabParts
  <2>3. \A k \in Typeable : \A g \in Fields : WillWrite(new, k, g) => k = id
    BY <1>2 DEF WillWrite
  <2> QED BY <1>5, <2>1, <2>2, <2>3 DEF ClickEnters
<1>8. ~Keyed => id <= issued /\ DOMAIN view'[t].list \subseteq DOMAIN view[t].list
  BY <1>5 DEF IdsKnown
<1> QED BY <1>1, <1>3, <1>6, <1>7, <1>8, StartsFrom DEF new

LEMMA AddStarts ==
  ASSUME PageShape, IdsKnown, EntriesKnown, NEW t \in Desks, NEW id \in Keys \cup {0}, HandleAdd(t, id)
  PROVE  \E new \in Handler : Starts(t, new)
<1> DEFINE row == Row(Fresh, Fresh)
           new == Begun(t, "add", id, "a", row)
           typed == IF Keyed THEN [view[t].typed EXCEPT ![id] = Row(Fresh, Fresh)] ELSE view[t].typed
<1>1. /\ "add" \in This.ops /\ Clicked(t, "add", id, "a", row, typed, view[t].list)
      /\ IF Keyed THEN id \in Keys \ DOMAIN view[t].list ELSE id = 0
      /\ view'[t].form = view[t].form /\ view'[t].busy
  BY AddClicks
<1>2. /\ new.op = "add" /\ new.step = "send" /\ new.id = id /\ new.row = row /\ new.was = view[t].list
  BY BegunParts
<1>3. ~Held(t, "add")
  BY DEF HandleAdd, Begins
<1>5. view'[t].typed = typed /\ view'[t].list = view[t].list
  BY <1>1 DEF Clicked
<1>6. Apt(new)
  BY <1>1, <1>2 DEF Apt
<1>7. row \in Record
  BY DeskParts, RowRecord
<1>8. view[t].typed \in [Typeable -> Record] /\ issued \in Nat
  BY TabParts DEF PageShape
<1> HIDE DEF new, row
<1>9. ClickEnters(t, new)
  <2> SUFFICES ASSUME NEW k \in Typeable, NEW g \in Fields
               PROVE  \/ view'[t].typed[k][g] = 0
                      \/ WillWrite(new, k, g) /\ new.op # "drop" /\ view'[t].typed[k][g] = new.row[g] /\ This.edit # "step"
                      \/ view'[t].typed[k][g] = view[t].typed[k][g] /\ (WillWrite(new, k, g) => This.edit = "step")
    BY DEF ClickEnters
  <2>1. CASE ~Keyed
    <3>1. ~WillWrite(new, k, g)
      BY <1>1, <1>2, <2>1 DEF WillWrite, Typeable
    <3> QED BY <1>5, <2>1, <3>1
  <2>2. CASE Keyed /\ k # id
    BY <1>2, <1>5, <1>8, <2>2 DEF WillWrite
  <2>3. CASE Keyed /\ k = id
    <3>1. view'[t].typed[k] = row
      BY <1>5, <1>8, <2>3 DEF row
    <3>2. WillWrite(new, k, g) /\ This.edit # "step"
      BY <1>2, <2>3, KeyedPages DEF WillWrite
    <3> QED BY <1>2, <3>1, <3>2
  <2> QED BY <2>1, <2>2, <2>3
<1>10. ~Keyed => id <= issued /\ DOMAIN view'[t].list \subseteq DOMAIN view[t].list
  BY <1>1, <1>5, <1>8
<1> QED BY <1>1, <1>3, <1>6, <1>9, <1>10, StartsFrom DEF new, row

LEMMA LoadStarts ==
  ASSUME PageShape, IdsKnown, EntriesKnown, NEW t \in Desks, Load(t)
  PROVE  \E new \in Handler : Starts(t, new)
<1> DEFINE new == Begun(t, "load", 0, "a", Blank)
<1>1. /\ Clicked(t, "load", 0, "a", Blank, view[t].typed, view[t].list)
      /\ view'[t].form = view[t].form
  BY LoadClicks
<1>2. /\ new.op = "load" /\ new.step = "read" /\ new.id = 0 /\ new.was = view[t].list
  BY BegunParts
<1>3. ~Held(t, "load") /\ "load" \in This.ops
  BY DEF Load, Begins
<1>5. view'[t].typed = view[t].typed /\ view'[t].list = view[t].list
  BY <1>1 DEF Clicked
<1>6. Apt(new)
  BY <1>2, <1>3 DEF Apt
<1> HIDE DEF new
<1>7. ClickEnters(t, new)
  BY <1>2, <1>5 DEF ClickEnters, WillWrite
<1>8. ~OneAtATime
  BY <1>3, OneFreely
<1>9. ~Keyed => 0 <= issued /\ DOMAIN view'[t].list \subseteq DOMAIN view[t].list
  BY <1>5 DEF PageShape
<1> QED BY <1>1, <1>3, <1>6, <1>7, <1>8, <1>9, StartsFrom DEF new

LEMMA PauseStarts ==
  ASSUME PageShape, IdsKnown, EntriesKnown, NEW t \in Desks, NEW id \in DOMAIN view[t].list, PauseJob(t, id)
  PROVE  \E new \in Handler : Starts(t, new)
<1> DEFINE row == view[t].list[id]
           new == Begun(t, "edit", id, "a", row)
           typed == TakesBack(t, id)
<1>1. /\ Begins(t, "edit", id, "a", row) /\ desk.page = "jobs"
      /\ view' = [view EXCEPT ![t].typed = typed, ![t].busy = view[t].busy]
  BY TabParts DEF PauseJob, PageShape, TabState
<1>2. /\ new.op = "edit" /\ new.step = "send" /\ new.id = id /\ new.f = "a" /\ new.row = row
      /\ new.was = view[t].list
  BY BegunParts
<1>3. This.edit = "row" /\ This.shows = "loaded" /\ Editable = {"a"} /\ ~OneAtATime
  BY <1>1 DEF This, Pages, JobButtons, Page, Editable, OneAtATime
<1>4. id \in Nat /\ row \in Record /\ "edit" \in PageOps /\ "a" \in Fields /\ view[t].busy \in BOOLEAN
      /\ view[t].typed \in [Typeable -> Record]
  BY RowParts, TabParts DEF PageOps, Fields
<1>5. Blank \in Record /\ \A g \in Fields : Blank[g] = 0
  BY RowRecord
<1> HIDE DEF row
<1>6. /\ typed \in [Typeable -> Record]
      /\ \A k \in Typeable \ {id} : typed[k] = view[t].typed[k]
      /\ id \in Typeable => \A g \in Fields : typed[id][g] \in {0, row[g]}
  <2>1. CASE \E g \in {"a", "b"} : view[t].typed[id][g] \notin {0, view[t].list[id][g]}
    <3>1. typed = [view[t].typed EXCEPT ![id] = Blank]
      BY <2>1 DEF TakesBack
    <3> QED BY <1>4, <1>5, <3>1
  <2>2. CASE ~\E g \in {"a", "b"} : view[t].typed[id][g] \notin {0, view[t].list[id][g]}
    <3>1. typed = view[t].typed
      BY <2>2 DEF TakesBack
    <3> QED BY <1>4, <2>2, <3>1 DEF row, Fields
  <2> QED BY <2>1, <2>2
<1> HIDE DEF typed
<1>7. /\ Clicked(t, "edit", id, "a", row, typed, view[t].list)
      /\ view'[t].form = view[t].form
  BY <1>1, <1>4, <1>6, PlainClick DEF row
<1>8. view'[t].typed = typed /\ view'[t].list = view[t].list
  BY <1>7 DEF Clicked
<1> HIDE DEF new
<1>9. Apt(new)
  BY <1>2, <1>3 DEF Apt
<1>10. ClickEnters(t, new)
  <2>1. \A k, g : WillWrite(new, k, g) <=> k = id
    BY <1>2, <1>3 DEF WillWrite
  <2> QED BY <1>2, <1>3, <1>6, <1>8, <2>1 DEF ClickEnters
<1>11. ~Keyed => id <= issued /\ DOMAIN view'[t].list \subseteq DOMAIN view[t].list
  BY <1>8 DEF IdsKnown
<1>12. ~Held(t, "edit")
  BY <1>1 DEF Begins
<1> QED BY <1>3, <1>7, <1>9, <1>10, <1>11, <1>12, StartsFrom DEF new

LEMMA EmptyStarts ==
  ASSUME PageShape, IdsKnown, EntriesKnown, NEW t \in Desks, NEW id \in DOMAIN view[t].list, EmptyCategory(t, id)
  PROVE  \E new \in Handler : Starts(t, new)
<1> DEFINE row == [view[t].list[id] EXCEPT !.a = 0]
           new == Begun(t, "edit", id, "a", row)
           typed == Forgets(view[t].typed, new)
<1>1. Begins(t, "edit", id, "a", row) /\ desk.page = "contents"
  BY DEF EmptyCategory
<1>2. /\ new.op = "edit" /\ new.step = "send" /\ new.id = id /\ new.f = "a" /\ new.row = row
      /\ new.was = view[t].list
  BY BegunParts
<1>3. This.edit = "cell" /\ "a" \in Editable /\ ~OneAtATime /\ This.shows = "loaded"
  BY <1>1 DEF This, Pages, ServicePagesPage, Page, Editable, OneAtATime
<1>4. id \in Nat /\ view[t].list[id] \in Record /\ "edit" \in PageOps /\ "a" \in Fields /\ view[t].busy \in BOOLEAN
      /\ view[t].typed \in [Typeable -> Record]
  BY RowParts, TabParts DEF PageOps, Fields
<1>5. row \in Record
  BY <1>4 DEF Record
<1>6. new \in Handler
  BY <1>1, <1>4, <1>5, BeginsRun
<1> HIDE DEF row, new
<1>7. view' = [view EXCEPT ![t].typed = typed, ![t].busy = view[t].busy]
  <2>1. view' = [view EXCEPT ![t].typed[id].a = 0]
    BY DEF EmptyCategory
  <2>2. CASE id \in Typeable
    <3>1. typed = [view[t].typed EXCEPT ![id].a = 0]
      BY <1>2, <1>3, <1>4, <2>2 DEF Forgets
    <3> QED BY <2>1, <3>1, TabParts DEF PageShape, TabState
  <2>3. CASE id \notin Typeable
    <3>1. typed = view[t].typed
      BY <1>2, <1>4, <2>3 DEF Forgets
    <3>2. [view[t].typed EXCEPT ![id].a = 0] = view[t].typed
      BY <1>4, <2>3
    <3> QED BY <2>1, <3>1, <3>2, TabParts DEF PageShape, TabState
  <2> QED BY <2>2, <2>3
<1>8. /\ typed \in [Typeable -> Record]
      /\ \A k \in Typeable : \A g \in Fields : /\ typed[k][g] \in {0, view[t].typed[k][g]}
                                               /\ WillWrite(new, k, g) => typed[k][g] = 0
  BY <1>4, <1>6, ForgetsTyped
<1> HIDE DEF typed
<1>9. /\ Clicked(t, "edit", id, "a", row, typed, view[t].list)
      /\ view'[t].form = view[t].form
  BY <1>1, <1>4, <1>5, <1>7, <1>8, PlainClick
<1>10. view'[t].typed = typed /\ view'[t].list = view[t].list
  BY <1>9 DEF Clicked
<1>11. Apt(new)
  BY <1>2, <1>3 DEF Apt
<1>12. ClickEnters(t, new)
  BY <1>8, <1>10 DEF ClickEnters
<1>13. ~Keyed => id <= issued /\ DOMAIN view'[t].list \subseteq DOMAIN view[t].list
  BY <1>10 DEF IdsKnown
<1>14. ~Held(t, "edit")
  BY <1>1 DEF Begins
<1> QED BY <1>3, <1>9, <1>11, <1>12, <1>13, <1>14, StartsFrom DEF new

LEMMA RenameStarts ==
  ASSUME PageShape, IdsKnown, EntriesKnown, NEW t \in Desks, NEW id \in DOMAIN view[t].list, NEW name \in Keys,
         RenameRole(t, id, name)
  PROVE  \E new \in Handler : Starts(t, new)
<1> DEFINE row == view[t].list[id]
           new == Begun(t, "rename", name, "a", row)
           typed == [view[t].typed EXCEPT ![name] = Blank]
           list == [k \in (DOMAIN view[t].list \ {id}) \cup {name} |-> IF k = name THEN row ELSE view[t].list[k]]
<1>1. Begins(t, "rename", name, "a", row) /\ "rename" \in This.ops
  BY DEF RenameRole
<1>2. /\ new.op = "rename" /\ new.step = "send" /\ new.id = name /\ new.row = row
  BY BegunParts
<1>3. Keyed /\ This.edit = "row"
  BY <1>1, RenamePages
<1>4. name \in Nat /\ row \in Record /\ view[t].list \in Lists /\ "rename" \in PageOps /\ "a" \in Fields
  BY RowParts, TabParts DEF PageOps, Fields, Keys
<1>5. Blank \in Record /\ (\A g \in Fields : Blank[g] = 0) /\ view[t].typed \in [Typeable -> Record]
  BY RowRecord, TabParts
<1>6. view' = [view EXCEPT ![t] = [view[t] EXCEPT !.typed = typed, !.list = list]]
  BY TabParts DEF RenameRole, PageShape, TabState
<1> HIDE DEF row
<1>7. list \in Lists
  <2>1. DOMAIN view[t].list \in SUBSET Nat /\ view[t].list \in [DOMAIN view[t].list -> Record]
    BY <1>4, ListParts
  <2>2. (DOMAIN view[t].list \ {id}) \cup {name} \in SUBSET Nat
    BY <1>4, <2>1
  <2>3. list \in [(DOMAIN view[t].list \ {id}) \cup {name} -> Record]
    BY <1>4, <2>1
  <2> QED BY <2>2, <2>3, ListMaking
<1> HIDE DEF list, new
<1>8. typed \in [Typeable -> Record]
  BY <1>5
<1>9. \A k \in Typeable : typed[k] = IF k = name THEN Blank ELSE view[t].typed[k]
  BY <1>5
<1> HIDE DEF typed
<1>10. [view[t] EXCEPT !.typed = typed, !.list = list] \in TabState(Typeable)
  BY <1>7, <1>8, TabParts DEF TabState
<1>11. /\ view' \in [Desks -> TabState(Typeable)]
       /\ view'[t] = [view[t] EXCEPT !.typed = typed, !.list = list]
       /\ \A d \in Desks \ {t} : view'[d] = view[d]
  BY <1>6, <1>10, ViewSet
<1>12. view'[t].typed = typed /\ view'[t].list = list /\ view'[t].at = view[t].at /\ view'[t].form = view[t].form
       /\ view'[t].best = view[t].best /\ view'[t].spoilt = view[t].spoilt
  BY <1>11, TabParts DEF TabState
<1>13. /\ runs' \in [Desks -> SUBSET Handler]
       /\ runs'[t] = runs[t] \cup {new}
       /\ \A d \in Desks \ {t} : runs'[d] = runs[d]
       /\ new \in Handler
       /\ commands' = commands + 1
       /\ UNCHANGED <<desk, rows, issued, served, losses>>
  BY <1>1, <1>4, BeginsRun DEF new
<1>14. PageShape'
  BY <1>11, <1>13 DEF PageShape, Typeable
<1>15. Clicked(t, "rename", name, "a", row, typed, list)
  BY <1>4, <1>11, <1>12, <1>13, <1>14 DEF Clicked, new
<1>16. Apt(new)
  BY <1>1, <1>2 DEF Apt
<1>17. ClickEnters(t, new)
  <2>1. \A k, g : WillWrite(new, k, g) => k = name
    BY <1>2 DEF WillWrite
  <2> QED BY <1>5, <1>9, <1>12, <2>1 DEF ClickEnters
<1>18. ~OneAtATime
  BY <1>3, OneFreely
<1>19. ~Held(t, "rename")
  BY <1>1 DEF Begins
<1> QED BY <1>3, <1>12, <1>15, <1>16, <1>17, <1>18, <1>19, StartsFrom DEF new

\* A dialog opens.
Opens(t) ==
  /\ This.edit = "form"
  /\ UNCHANGED <<desk, rows, issued, runs, served, commands, losses>>
  /\ PageShape'
  /\ \A d \in Desks \ {t} : view'[d] = view[d]
  /\ view'[t].list = view[t].list /\ view'[t].at = view[t].at /\ view'[t].best = view[t].best
  /\ view'[t].busy = view[t].busy /\ view'[t].spoilt = view[t].spoilt /\ view'[t].typed = view[t].typed
  /\ view'[t].form.id \in DOMAIN view[t].list

LEMMA OpenFormOpens ==
  ASSUME PageShape, NEW t \in Desks, NEW id \in DOMAIN view[t].list, OpenForm(t, id)
  PROVE  Opens(t)
<1> DEFINE form == [id |-> id, row |-> view[t].list[id]]
           new == [view[t] EXCEPT !.form = form]
<1>1. form \in [id : Nat, row : Record] /\ form.id = id
  BY RowParts, TabParts
<1>2. view' = [view EXCEPT ![t].form = form] /\ This.edit = "form"
      /\ UNCHANGED <<desk, rows, issued, runs, served, commands, losses>>
  BY DEF OpenForm
<1> HIDE DEF form
<1>3. view' = [view EXCEPT ![t] = new] /\ new \in TabState(Typeable)
  BY <1>1, <1>2, TabParts DEF PageShape, TabState
<1>4. new.list = view[t].list /\ new.at = view[t].at /\ new.best = view[t].best /\ new.busy = view[t].busy
      /\ new.spoilt = view[t].spoilt /\ new.typed = view[t].typed /\ new.form = form
  BY TabParts DEF TabState
<1> HIDE DEF new
<1>5. /\ view' \in [Desks -> TabState(Typeable)] /\ view'[t] = new
      /\ \A d \in Desks \ {t} : view'[d] = view[d]
  BY <1>3, ViewSet
<1>6. PageShape'
  BY <1>2, <1>5 DEF PageShape, Typeable
<1> QED BY <1>1, <1>2, <1>4, <1>5, <1>6 DEF Opens

LEMMA ClickKinds ==
  ASSUME PageShape, IdsKnown, EntriesKnown, NEW t \in Desks, Clicks(t)
  PROVE  Opens(t) \/ \E new \in Handler : Starts(t, new)
<1>1. CASE \E id \in DOMAIN view[t].list : \/ \E f \in {"a", "b"} : EditRow(t, id, f)
                                           \/ OpenForm(t, id) \/ Command(t, id) \/ HandleDelete(t, id)
                                           \/ PauseJob(t, id) \/ EmptyCategory(t, id)
                                           \/ \E name \in Keys : RenameRole(t, id, name)
  BY <1>1, EditRowStarts, OpenFormOpens, CommandStarts, DeleteStarts, PauseStarts, EmptyStarts, RenameStarts DEF Fields
<1>2. CASE \E f \in {"a", "b"} : SaveForm(t, f)
  BY <1>2, SaveFormStarts DEF Fields
<1>3. CASE \E id \in Keys \cup {0} : HandleAdd(t, id)
  BY <1>3, AddStarts
<1>4. CASE Load(t)
  BY <1>4, LoadStarts
<1> QED BY <1>1, <1>2, <1>3, <1>4 DEF Clicks

-----------------------------------------------------------------------------
(* What was entered is kept *)

LEMMA SameDesk ==
  ASSUME UNCHANGED desk
  PROVE  /\ This' = This /\ Typeable' = Typeable /\ (Keyed' <=> Keyed) /\ Editable' = Editable
         /\ (OneAtATime' <=> OneAtATime)
BY DEF This, Typeable, Keyed, Editable, OneAtATime

\* What the statement of a handler leaves in a field of the table.
TableAfter(r, k, g) ==
  \/ ~Keyed /\ k = issued + 1
  \/ This.edit = "cell" /\ g \notin Editable
  \/ This.edit = "step"
  \/ WillWrite(r, k, g) /\ (r.op # "drop" /\ r.row[g] # 0 => rows'[k][g] = r.row[g])
  \/ ~WillWrite(r, k, g) /\ k \in DOMAIN rows /\ rows'[k][g] = rows[k][g]

LEMMA TableChanges ==
  ASSUME PageShape, NEW r \in Handler, r.step = "send", Apt(r), ~Declined(r), Executes(r),
         NEW k \in DOMAIN rows', k # 0, NEW g \in Fields
  PROVE  TableAfter(r, k, g)
<1>1. issued \in Nat /\ issued + 1 \in Nat /\ r.id \in Nat /\ r.f \in Fields /\ r.row \in Record /\ r.row[r.f] \in Nat
  BY HandlerParts, RecordParts DEF PageShape
<1>2. CASE (r.op \in {"add", "rename"} \/ (r.op = "edit" /\ This.edit \in {"row", "form"})) /\ WritesRow(r)
  <2>1. CASE (Keyed \/ r.op = "edit") /\ PutAt(r.id, r.row)
    <3>1. /\ DOMAIN rows' = DOMAIN rows \cup {r.id} /\ rows'[r.id] = r.row
          /\ \A j \in DOMAIN rows \ {r.id} : rows'[j] = rows[j]
      BY <1>1, <2>1, PutShape
    <3>2. This.edit # "cell"
      BY <1>2, <2>1, KeyedPages
    <3>3. WillWrite(r, k, g) <=> k = r.id
      BY <1>2, <3>2 DEF WillWrite
    <3> QED BY <3>1, <3>3 DEF TableAfter
  <2>2. CASE ~Keyed /\ (r.op = "edit" => r.id \notin DOMAIN rows) /\ PutAt(issued + 1, r.row)
    <3>1. /\ DOMAIN rows' = DOMAIN rows \cup {issued + 1}
          /\ \A j \in DOMAIN rows \ {issued + 1} : rows'[j] = rows[j]
      BY <1>1, <2>2, PutShape
    <3>2. CASE k = issued + 1
      BY <2>2, <3>2 DEF TableAfter
    <3>3. CASE k # issued + 1
      <4>1. k \in DOMAIN rows /\ rows'[k] = rows[k]
        BY <3>1, <3>3
      <4>2. r.op # "rename" /\ (r.op = "add" => r.id = 0)
        BY <2>2, RenamePages DEF Apt
      <4>3. ~WillWrite(r, k, g)
        BY <1>2, <2>2, <4>1, <4>2 DEF WillWrite
      <4> QED BY <4>1, <4>3 DEF TableAfter
    <3> QED BY <3>2, <3>3
  <2> QED BY <1>2, <2>1, <2>2 DEF WritesRow
<1>3. CASE r.op = "edit" /\ This.edit = "cell" /\ WritesField(r)
  <2>1. WillWrite(r, k, g) <=> k = r.id /\ g = r.f
    BY <1>3 DEF WillWrite
  <2>2. CASE PutField(r.id, r.f, r.row[r.f])
    <3>1. /\ DOMAIN rows' = DOMAIN rows
          /\ \A j \in DOMAIN rows \ {r.id} : rows'[j] = rows[j]
          /\ r.id \in DOMAIN rows =>
               rows'[r.id][r.f] = r.row[r.f] /\ \A h \in Fields \ {r.f} : rows'[r.id][h] = rows[r.id][h]
      BY <1>1, <2>2, FieldShape
    <3> QED BY <2>1, <3>1 DEF TableAfter
  <2>3. CASE Editable = {"a"} /\ PutAt(r.id, Row(r.row[r.f], 1))
    <3>1. r.f = "a"
      BY <1>3, <2>3 DEF Apt
    <3>2. Row(r.row[r.f], 1) \in Record
      BY <1>1, RowRecord
    <3>3. /\ DOMAIN rows' = DOMAIN rows \cup {r.id} /\ rows'[r.id] = Row(r.row[r.f], 1)
          /\ \A j \in DOMAIN rows \ {r.id} : rows'[j] = rows[j]
      BY <1>1, <2>3, <3>2, PutShape
    <3>4. CASE g = "b"
      BY <1>3, <2>3, <3>4 DEF TableAfter
    <3>5. CASE g = "a" /\ k = r.id
      <4>1. rows'[k]["a"] = r.row["a"]
        BY <3>1, <3>3, <3>5 DEF Row
      <4> QED BY <2>1, <3>1, <3>5, <4>1 DEF TableAfter
    <3>6. CASE k # r.id
      BY <2>1, <3>3, <3>6 DEF TableAfter
    <3> QED BY <3>4, <3>5, <3>6 DEF Fields
  <2>4. CASE r.row[r.f] = 0 /\ UNCHANGED <<rows, issued>>
    BY <2>1, <2>4 DEF TableAfter
  <2> QED BY <1>3, <2>2, <2>3, <2>4 DEF WritesField
<1>4. CASE This.edit = "step"
  BY <1>4 DEF TableAfter
<1>5. CASE r.op = "drop" /\ Removes(r)
  <2>1. CASE TakeAway(r.id)
    <3>1. DOMAIN rows' = DOMAIN rows \ {r.id} /\ \A j \in DOMAIN rows \ {r.id} : rows'[j] = rows[j]
      BY <2>1, TakeShape
    <3>2. k # r.id
      BY <3>1
    <3>3. ~WillWrite(r, k, g)
      BY <3>2 DEF WillWrite
    <3> QED BY <3>1, <3>2, <3>3 DEF TableAfter
  <2>2. CASE This.edit = "form" /\ r.id \in DOMAIN rows /\ LedgerDeleteV1(r.id)
    <3>1. DOMAIN rows' = DOMAIN rows /\ \A j \in DOMAIN rows \ {r.id} : rows'[j] = rows[j]
      BY <2>2, LedgerShape
    <3>2. WillWrite(r, k, g) <=> k = r.id
      BY <1>5, <2>2 DEF WillWrite
    <3> QED BY <1>5, <3>1, <3>2 DEF TableAfter
  <2> QED BY <1>5, <2>1, <2>2 DEF Removes
<1> QED BY <1>2, <1>3, <1>4, <1>5, ExecutesWrites

\* A new identifier is the next one.
LEMMA TableIds ==
  ASSUME PageShape, IdsKnown, NEW r \in Handler, r.step = "send", Apt(r), ~Declined(r), Executes(r),
         ~Keyed, r.id <= issued
  PROVE  \A k \in DOMAIN rows' : k <= issued'
<1>1. issued \in Nat /\ issued + 1 \in Nat /\ r.id \in Nat /\ r.f \in Fields /\ r.row \in Record /\ r.row[r.f] \in Nat
  BY HandlerParts, RecordParts DEF PageShape
<1>2. \A k \in DOMAIN rows : k \in Nat /\ k <= issued
  BY ListParts DEF IdsKnown, PageShape
<1> DEFINE Fits == \A k \in DOMAIN rows' : k <= issued'
<1>3. ASSUME NEW id \in Nat, NEW row \in Record, PutAt(id, row) PROVE Fits
  <2>1. issued' \in Nat /\ issued <= issued' /\ id <= issued' /\ DOMAIN rows' = DOMAIN rows \cup {id}
    BY <1>3, PutShape
  <2> QED BY <1>1, <1>2, <2>1
<1>4. ASSUME issued' = issued, DOMAIN rows' \subseteq DOMAIN rows PROVE Fits
  BY <1>2, <1>4
<1>5. WritesRow(r) => Fits
  BY <1>1, <1>3 DEF WritesRow
<1>6. ASSUME NEW f \in Fields, NEW v \in Nat, PutField(r.id, f, v) PROVE Fits
  <2>1. issued' = issued /\ DOMAIN rows' = DOMAIN rows
    BY <1>1, <1>6, FieldShape
  <2> QED BY <1>4, <2>1
<1>7. Row(r.row[r.f], 1) \in Record
  BY <1>1, RowRecord
<1>8. WritesField(r) => Fits
  BY <1>1, <1>2, <1>3, <1>6, <1>7 DEF WritesField
<1>9. Advance(r.id, r.row.a) => Fits
  <2>1. r.row.a + 1 \in Nat /\ "a" \in Fields
    BY <1>1 DEF Record, Fields
  <2> QED BY <1>6, <2>1 DEF Advance
<1>10. ASSUME Removes(r) PROVE Fits
  <2>1. CASE TakeAway(r.id)
    <3>1. issued' = issued /\ DOMAIN rows' = DOMAIN rows \ {r.id}
      BY <2>1, TakeShape
    <3> QED BY <1>4, <3>1
  <2>2. CASE r.id \in DOMAIN rows /\ LedgerDeleteV1(r.id)
    <3>1. issued' = issued /\ DOMAIN rows' = DOMAIN rows
      BY <2>2, LedgerShape
    <3> QED BY <1>4, <3>1
  <2> QED BY <1>10, <2>1, <2>2 DEF Removes
<1> QED BY <1>5, <1>8, <1>9, <1>10, ExecutesWrites

-----------------------------------------------------------------------------
(* Handlers that pass on without a change to the table *)

\* What becomes of handler r.
Follows(r, next) ==
  /\ \A p, q \in next : p = q
  /\ \A q \in next : /\ q.n = r.n /\ q.id = r.id /\ q.step # "send" /\ Apt(q)
                     /\ DOMAIN q.list \subseteq DOMAIN r.list \cup DOMAIN rows

Passes(t, r, next) ==
  /\ Passed(t, r, next) /\ Follows(r, next)
  /\ next = {} => ~view'[t].busy
  /\ next # {} => view'[t].busy = view[t].busy
  /\ view'[t].form \in {view[t].form, Closed}
  /\ ~Keyed => DOMAIN view'[t].list \subseteq DOMAIN view[t].list \cup DOMAIN r.list
  /\ \A k \in Typeable : \A g \in Fields :
       /\ view'[t].typed[k][g] \in {0, view[t].typed[k][g]}
       /\ WillWrite(r, k, g) => view'[t].typed[k][g] = 0

LEMMA PassesForgetting ==
  ASSUME PageShape, NEW t \in Desks, NEW r \in runs[t], Passed(t, r, {}), ~view'[t].busy,
         view'[t].form \in {view[t].form, Closed},
         ~Keyed => DOMAIN view'[t].list \subseteq DOMAIN view[t].list \cup DOMAIN r.list,
         \/ view'[t].typed = view[t].typed /\ r.step # "send"
         \/ view'[t].typed = Forgets(view[t].typed, r)
  PROVE  Passes(t, r, {})
<1>1. r \in Handler /\ view[t].typed \in [Typeable -> Record]
  BY TabParts
<1>2. \A k \in Typeable : \A g \in Fields :
         /\ view'[t].typed[k][g] \in {0, view[t].typed[k][g]}
         /\ WillWrite(r, k, g) => view'[t].typed[k][g] = 0
  <2>1. CASE view'[t].typed = view[t].typed /\ r.step # "send"
    BY <2>1 DEF WillWrite
  <2>2. CASE view'[t].typed = Forgets(view[t].typed, r)
    BY <1>1, <2>2, ForgetsTyped
  <2> QED BY <2>1, <2>2
<1> QED BY <1>2 DEF Passes, Follows

LEMMA PassKinds ==
  ASSUME PageShape, NEW t \in Desks, NEW r \in runs[t], Apt(r),
         Decline(t, r) \/ Finish(t, r) \/ ReadList(t, r) \/ ShowList(t, r) \/ Lose(t, r)
  PROVE  \E next \in SUBSET Handler : Passes(t, r, next)
<1>1. CASE Decline(t, r)
  BY <1>1, DeclineParts, PassesForgetting
<1>2. CASE Finish(t, r)
  <2>1. /\ Passed(t, r, {}) /\ r.step = "answer"
        /\ This.shows # "after" => view'[t].list = view[t].list
        /\ ~view'[t].busy /\ view'[t].form = view[t].form /\ view'[t].typed = view[t].typed
    BY <1>2, FinishParts
  <2>2. This.shows = "after" => Keyed
    BY EditsOf DEF PageShape, Keyed
  <2> QED BY <2>1, <2>2, PassesForgetting
<1>3. CASE ReadList(t, r)
  <2> DEFINE new == [r EXCEPT !.step = "show", !.list = rows, !.at = Now]
  <2>1. /\ Passed(t, r, {new}) /\ r.step = "read" /\ UNCHANGED view
        /\ new.n = r.n /\ new.op = r.op /\ new.step = "show" /\ new.id = r.id /\ new.f = r.f
        /\ new.row = r.row /\ new.was = r.was /\ new.list = rows
    BY <1>3, ReadParts
  <2>2. new \in Handler
    BY <2>1 DEF Passed, Turned
  <2> HIDE DEF new
  <2>3. Apt(new)
    BY <2>1 DEF Apt
  <2>4. Follows(r, {new})
    BY <2>1, <2>3 DEF Follows
  <2>5. Passes(t, r, {new})
    BY <2>1, <2>4 DEF Passes, WillWrite
  <2> QED BY <2>2, <2>5
<1>4. CASE ShowList(t, r)
  BY <1>4, ShowParts, PassesForgetting
<1>5. CASE Lose(t, r)
  <2>1. /\ Passed(t, r, {}) /\ ~view'[t].busy /\ view'[t].form = view[t].form
        /\ view'[t].list = <<>> \/ view'[t].list = PutBack(t, r)
        /\ view'[t].typed = IF r.step = "send" THEN Forgets(view[t].typed, r) ELSE view[t].typed
    BY <1>5, LoseParts
  <2>2. DOMAIN view'[t].list \subseteq DOMAIN view[t].list
    BY <2>1, EmptyList DEF PutBack
  <2> QED BY <2>1, <2>2, PassesForgetting
<1> QED BY <1>1, <1>2, <1>3, <1>4, <1>5

LEMMA PassesHandlers ==
  ASSUME PageShape, HandlersKnown, NEW t \in Desks, NEW r \in runs[t], NEW next \in SUBSET Handler,
         Passes(t, r, next)
  PROVE  HandlersKnown'
<1>1. /\ runs'[t] = (runs[t] \ {r}) \cup next /\ UNCHANGED <<desk, commands>>
      /\ \A d \in Desks \ {t} : runs'[d] = runs[d] /\ view'[d] = view[d]
  BY DEF Passes, Passed, Turned, OthersView
<1>2. This' = This /\ (OneAtATime' <=> OneAtATime) /\ Editable' = Editable /\ (Keyed' <=> Keyed)
  BY <1>1, SameDesk
<1>3. /\ \A q \in next : q.n = r.n /\ Apt(q)
      /\ \A p, q \in next : p = q
      /\ next = {} => ~view'[t].busy
      /\ next # {} => view'[t].busy = view[t].busy
  BY DEF Passes, Follows
<1> SUFFICES ASSUME NEW d \in Desks
             PROVE  /\ \A q \in runs'[d] : q.n <= commands' /\ Apt(q)
                    /\ \A p, q \in runs'[d] : p.n = q.n => p = q
                    /\ runs'[d] = {} => ~view'[d].busy
                    /\ OneAtATime => /\ \A p, q \in runs'[d] : p = q
                                     /\ runs'[d] # {} => view'[d].busy
  BY <1>2 DEF HandlersKnown, Apt
<1>4. /\ \A q \in runs[d] : q.n <= commands /\ Apt(q)
      /\ \A p, q \in runs[d] : p.n = q.n => p = q
      /\ runs[d] = {} => ~view[d].busy
      /\ OneAtATime => (\A p, q \in runs[d] : p = q) /\ (runs[d] # {} => view[d].busy)
  BY DEF HandlersKnown
<1>5. CASE d # t
  BY <1>1, <1>4, <1>5
<1>6. CASE d = t
  <2>1. \A q \in runs'[t] : q.n <= commands' /\ Apt(q)
    BY <1>1, <1>3, <1>4, <1>6
  <2>2. \A p, q \in runs'[t] : p.n = q.n => p = q
    BY <1>1, <1>3, <1>4, <1>6
  <2>3. runs'[t] = {} => ~view'[t].busy
    BY <1>1, <1>3
  <2>4. OneAtATime => (\A p, q \in runs'[t] : p = q) /\ (runs'[t] # {} => view'[t].busy)
    BY <1>1, <1>3, <1>4, <1>6
  <2> QED BY <1>6, <2>1, <2>2, <2>3, <2>4
<1> QED BY <1>5, <1>6

LEMMA PassesEntries ==
  ASSUME PageShape, HandlersKnown, EntriesKnown, IdsKnown, EntriesKept, NEW t \in Desks, NEW r \in runs[t],
         NEW next \in SUBSET Handler, Passes(t, r, next)
  PROVE  EntriesKnown' /\ IdsKnown' /\ EntriesKept'
<1>1. /\ runs'[t] = (runs[t] \ {r}) \cup next /\ UNCHANGED <<desk, commands, rows, issued>>
      /\ \A d \in Desks \ {t} : runs'[d] = runs[d] /\ view'[d] = view[d]
  BY DEF Passes, Passed, Turned, OthersView
<1>2. This' = This /\ Editable' = Editable /\ (Keyed' <=> Keyed) /\ Typeable' = Typeable
  BY <1>1, SameDesk
<1>3. /\ \A q \in next : q.id = r.id /\ q.step # "send" /\ DOMAIN q.list \subseteq DOMAIN r.list \cup DOMAIN rows
      /\ view'[t].form \in {view[t].form, Closed}
      /\ ~Keyed => DOMAIN view'[t].list \subseteq DOMAIN view[t].list \cup DOMAIN r.list
  BY DEF Passes, Follows
<1>4. \A k \in Typeable : \A g \in Fields :
         /\ view'[t].typed[k][g] \in {0, view[t].typed[k][g]}
         /\ WillWrite(r, k, g) => view'[t].typed[k][g] = 0
  BY DEF Passes
<1>5. EntriesKnown'
  BY <1>1, <1>2, <1>3, <1>4 DEF EntriesKnown
<1>6. Closed.id <= issued
  BY DEF Closed, PageShape
<1>7. IdsKnown'
  <2> SUFFICES ASSUME ~Keyed
               PROVE  /\ \A k \in DOMAIN rows : k <= issued
                      /\ \A d \in Desks :
                           /\ \A k \in DOMAIN view'[d].list : k <= issued
                           /\ view'[d].form.id <= issued
                           /\ \A q \in runs'[d] : q.id <= issued /\ \A k \in DOMAIN q.list : k <= issued
                           /\ \A k \in Typeable, f \in Fields : k > issued => view'[d].typed[k][f] = 0
    BY <1>1, <1>2 DEF IdsKnown
  <2>1. /\ \A k \in DOMAIN rows : k <= issued
        /\ \A d \in Desks : /\ \A k \in DOMAIN view[d].list : k <= issued
                            /\ view[d].form.id <= issued
                            /\ \A q \in runs[d] : q.id <= issued /\ \A k \in DOMAIN q.list : k <= issued
                            /\ \A k \in Typeable, f \in Fields : k > issued => view[d].typed[k][f] = 0
    BY DEF IdsKnown
  <2>2. /\ \A k \in DOMAIN view'[t].list : k <= issued
        /\ view'[t].form.id <= issued
    BY <1>3, <1>6, <2>1
  <2>3. \A q \in runs'[t] : q.id <= issued /\ \A k \in DOMAIN q.list : k <= issued
    BY <1>1, <1>3, <2>1
  <2>4. \A k \in Typeable, f \in Fields : k > issued => view'[t].typed[k][f] = 0
    BY <1>4, <2>1
  <2> QED BY <1>1, <2>1, <2>2, <2>3, <2>4
<1>8. EntriesKept'
  <2> SUFFICES ASSUME NEW d \in Desks, NEW k \in Typeable, NEW g \in Fields
               PROVE  LET v == view'[d].typed[k][g]
                          R == runs'[d]
                      IN \/ v = 0
                         \/ \E q \in R : WillWrite(q, k, g) /\ q.op # "drop" /\ q.row[g] = v
                                         /\ \A p \in R : WillWrite(p, k, g) => p.n <= q.n
                         \/ (\A q \in R : ~WillWrite(q, k, g)) /\ (k \in DOMAIN rows => rows[k][g] = v)
    BY <1>1, <1>2 DEF EntriesKept, Kept, Newest, WillWrite
  <2>1. Kept(view[d].typed[k][g], runs[d], k, g)
    BY DEF EntriesKept
  <2>2. CASE d # t
    BY <1>1, <2>1, <2>2 DEF Kept, Newest
  <2>3. CASE d = t
    <3>1. CASE view'[t].typed[k][g] = 0
      BY <2>3, <3>1
    <3>2. CASE view'[t].typed[k][g] # 0
      <4>1. view'[t].typed[k][g] = view[t].typed[k][g] /\ ~WillWrite(r, k, g)
        BY <1>4, <3>2
      <4>2. \A q \in next : ~WillWrite(q, k, g)
        BY <1>3 DEF WillWrite
      <4>3. \A q : q \in runs'[t] /\ WillWrite(q, k, g) <=> q \in runs[t] /\ WillWrite(q, k, g)
        BY <1>1, <4>1, <4>2
      <4> QED BY <2>1, <2>3, <3>2, <4>1, <4>3 DEF Kept, Newest
    <3> QED BY <3>1, <3>2
  <2> QED BY <2>2, <2>3
<1> QED BY <1>5, <1>7, <1>8

-----------------------------------------------------------------------------
(* Clicks keep what was entered *)

LEMMA OpensEntries ==
  ASSUME PageShape, HandlersKnown, EntriesKnown, IdsKnown, EntriesKept, NEW t \in Desks, Opens(t)
  PROVE  HandlersKnown' /\ EntriesKnown' /\ IdsKnown' /\ EntriesKept'
<1>1. /\ UNCHANGED <<desk, rows, issued, runs, commands>> /\ This.edit = "form"
      /\ \A d \in Desks \ {t} : view'[d] = view[d]
      /\ view'[t].list = view[t].list /\ view'[t].busy = view[t].busy /\ view'[t].typed = view[t].typed
      /\ view'[t].form.id \in DOMAIN view[t].list
  BY DEF Opens
<1>2. This' = This /\ Editable' = Editable /\ (Keyed' <=> Keyed) /\ Typeable' = Typeable
      /\ (OneAtATime' <=> OneAtATime)
  BY <1>1, SameDesk
<1>3. \A d \in Desks : view'[d].list = view[d].list /\ view'[d].busy = view[d].busy /\ view'[d].typed = view[d].typed
  BY <1>1
<1>4. HandlersKnown'
  BY <1>1, <1>2, <1>3 DEF HandlersKnown, Apt
<1>5. EntriesKnown'
  BY <1>1, <1>2, <1>3 DEF EntriesKnown
<1>6. IdsKnown'
  BY <1>1, <1>2, <1>3 DEF IdsKnown
<1>7. EntriesKept'
  BY <1>1, <1>2, <1>3 DEF EntriesKept, Kept, Newest, WillWrite
<1> QED BY <1>4, <1>5, <1>6, <1>7

LEMMA StartsHandlers ==
  ASSUME PageShape, HandlersKnown, NEW t \in Desks, NEW new \in Handler, Starts(t, new)
  PROVE  HandlersKnown'
<1>1. /\ runs'[t] = runs[t] \cup {new} /\ UNCHANGED desk /\ commands' = commands + 1
      /\ new.n = commands + 1 /\ Apt(new)
      /\ \A d \in Desks \ {t} : runs'[d] = runs[d] /\ view'[d] = view[d]
      /\ OneAtATime => view'[t].busy
  BY DEF Starts
<1>2. This' = This /\ (OneAtATime' <=> OneAtATime) /\ Editable' = Editable /\ (Keyed' <=> Keyed)
  BY <1>1, SameDesk
<1>3. commands \in Nat /\ \A d \in Desks : \A q \in runs[d] : q.n \in Nat
  BY TabParts, HandlerParts DEF PageShape
<1>4. OneAtATime => new.op \in This.holds
  <2>1. new.op \in PageOps
    BY HandlerParts
  <2>2. OneAtATime => "load" \notin This.ops /\ {"edit"} \cup This.ops \subseteq This.holds
    BY OneFreely DEF OneAtATime
  <2>3. CASE new.op = "load"
    <3>1. "load" \in This.ops \/ ~OneAtATime
      BY <1>1, <2>3 DEF Apt
    <3> QED BY <2>2, <3>1
  <2> QED BY <1>1, <2>1, <2>2, <2>3 DEF Apt, PageOps
<1>5. OneAtATime => ~view[t].busy
  BY <1>4 DEF Starts, Held
<1> SUFFICES ASSUME NEW d \in Desks
             PROVE  /\ \A q \in runs'[d] : q.n <= commands + 1 /\ Apt(q)
                    /\ \A p, q \in runs'[d] : p.n = q.n => p = q
                    /\ runs'[d] = {} => ~view'[d].busy
                    /\ OneAtATime => /\ \A p, q \in runs'[d] : p = q
                                     /\ runs'[d] # {} => view'[d].busy
  BY <1>1, <1>2 DEF HandlersKnown, Apt
<1>6. /\ \A q \in runs[d] : q.n <= commands /\ Apt(q)
      /\ \A p, q \in runs[d] : p.n = q.n => p = q
      /\ runs[d] = {} => ~view[d].busy
      /\ OneAtATime => (\A p, q \in runs[d] : p = q) /\ (runs[d] # {} => view[d].busy)
  BY DEF HandlersKnown
<1>7. CASE d # t
  BY <1>1, <1>3, <1>6, <1>7
<1>8. CASE d = t
  <2>1. \A q \in runs'[t] : q.n <= commands + 1 /\ Apt(q)
    BY <1>1, <1>3, <1>6, <1>8
  <2>2. \A p, q \in runs'[t] : p.n = q.n => p = q
    BY <1>1, <1>3, <1>6, <1>8
  <2>3. runs'[t] # {}
    BY <1>1
  <2>4. OneAtATime => (\A p, q \in runs'[t] : p = q) /\ view'[t].busy
    BY <1>1, <1>5, <1>6, <1>8
  <2> QED BY <1>8, <2>1, <2>2, <2>3, <2>4
<1> QED BY <1>7, <1>8

LEMMA StartsEntries ==
  ASSUME PageShape, HandlersKnown, EntriesKnown, IdsKnown, EntriesKept, NEW t \in Desks, NEW new \in Handler,
         Starts(t, new)
  PROVE  EntriesKnown' /\ IdsKnown' /\ EntriesKept'
<1>1. /\ runs'[t] = runs[t] \cup {new} /\ UNCHANGED <<desk, rows, issued>>
      /\ new.n = commands + 1 /\ Apt(new) /\ new.list = <<>>
      /\ \A d \in Desks \ {t} : runs'[d] = runs[d] /\ view'[d] = view[d]
      /\ view'[t].form = view[t].form \/ (This.edit = "form" /\ view'[t].form.id = view[t].form.id)
      /\ ~Keyed => new.id <= issued /\ DOMAIN view'[t].list \subseteq DOMAIN view[t].list
  BY DEF Starts
<1>2. This' = This /\ Editable' = Editable /\ (Keyed' <=> Keyed) /\ Typeable' = Typeable
  BY <1>1, SameDesk
<1>3. \A k \in Typeable : \A g \in Fields :
         \/ view'[t].typed[k][g] = 0
         \/ WillWrite(new, k, g) /\ new.op # "drop" /\ view'[t].typed[k][g] = new.row[g] /\ This.edit # "step"
         \/ view'[t].typed[k][g] = view[t].typed[k][g] /\ (WillWrite(new, k, g) => This.edit = "step")
  BY DEF Starts, ClickEnters
<1>4. EntriesKnown'
  <2>1. This.edit = "step" => \A k \in Typeable, g \in Fields : view'[t].typed[k][g] = 0
    BY <1>3 DEF EntriesKnown
  <2>2. ASSUME This.edit = "cell", NEW k \in Typeable, NEW g \in Fields \ Editable PROVE view'[t].typed[k][g] = 0
    <3>1. ~WillWrite(new, k, g)
      BY <1>1, <2>2 DEF Apt, WillWrite
    <3> QED BY <1>3, <2>2, <3>1 DEF EntriesKnown
  <2>3. This.edit # "form" => view'[t].form = Closed
    BY <1>1 DEF EntriesKnown
  <2> QED BY <1>1, <1>2, <2>1, <2>2, <2>3 DEF EntriesKnown
<1>5. IdsKnown'
  <2> SUFFICES ASSUME ~Keyed
               PROVE  /\ \A k \in DOMAIN rows : k <= issued
                      /\ \A d \in Desks :
                           /\ \A k \in DOMAIN view'[d].list : k <= issued
                           /\ view'[d].form.id <= issued
                           /\ \A q \in runs'[d] : q.id <= issued /\ \A k \in DOMAIN q.list : k <= issued
                           /\ \A k \in Typeable, f \in Fields : k > issued => view'[d].typed[k][f] = 0
    BY <1>1, <1>2 DEF IdsKnown
  <2>1. /\ \A k \in DOMAIN rows : k <= issued
        /\ \A d \in Desks : /\ \A k \in DOMAIN view[d].list : k <= issued
                            /\ view[d].form.id <= issued
                            /\ \A q \in runs[d] : q.id <= issued /\ \A k \in DOMAIN q.list : k <= issued
                            /\ \A k \in Typeable, f \in Fields : k > issued => view[d].typed[k][f] = 0
    BY DEF IdsKnown
  <2>2. view'[t].form.id <= issued /\ \A k \in DOMAIN view'[t].list : k <= issued
    BY <1>1, <2>1
  <2>3. \A q \in runs'[t] : q.id <= issued /\ \A k \in DOMAIN q.list : k <= issued
    BY <1>1, <2>1, EmptyList
  <2>4. ASSUME NEW k \in Typeable, NEW g \in Fields, k > issued PROVE view'[t].typed[k][g] = 0
    <3>1. new.id <= issued /\ issued \in Nat /\ new.id \in Nat /\ k \in Int
      BY <1>1, HandlerParts DEF PageShape, Typeable
    <3>2. k # new.id
      BY <2>4, <3>1
    <3>3. ~WillWrite(new, k, g)
      BY <3>2 DEF WillWrite
    <3> QED BY <1>3, <2>1, <2>4, <3>3
  <2> QED BY <1>1, <2>1, <2>2, <2>3, <2>4
<1>6. EntriesKept'
  <2> SUFFICES ASSUME NEW d \in Desks, NEW k \in Typeable, NEW g \in Fields
               PROVE  LET v == view'[d].typed[k][g]
                          R == runs'[d]
                      IN \/ v = 0
                         \/ \E q \in R : WillWrite(q, k, g) /\ q.op # "drop" /\ q.row[g] = v
                                         /\ \A p \in R : WillWrite(p, k, g) => p.n <= q.n
                         \/ (\A q \in R : ~WillWrite(q, k, g)) /\ (k \in DOMAIN rows => rows[k][g] = v)
    BY <1>1, <1>2 DEF EntriesKept, Kept, Newest, WillWrite
  <2>1. Kept(view[d].typed[k][g], runs[d], k, g)
    BY DEF EntriesKept
  <2>2. CASE d # t
    BY <1>1, <2>1, <2>2 DEF Kept, Newest
  <2>3. CASE d = t
    <3>1. CASE view'[t].typed[k][g] = 0
      BY <2>3, <3>1
    <3>2. CASE WillWrite(new, k, g) /\ new.op # "drop" /\ view'[t].typed[k][g] = new.row[g]
      <4>1. \A q \in runs'[t] : q.n \in Nat /\ q.n <= new.n
        BY <1>1, <2>3, TabParts, HandlerParts DEF HandlersKnown, PageShape
      <4> QED BY <1>1, <2>3, <3>2, <4>1
    <3>3. CASE view'[t].typed[k][g] = view[t].typed[k][g] /\ ~WillWrite(new, k, g)
      <4>1. \A q : q \in runs'[t] /\ WillWrite(q, k, g) <=> q \in runs[t] /\ WillWrite(q, k, g)
        BY <1>1, <3>3
      <4> QED BY <2>1, <2>3, <3>3, <4>1 DEF Kept, Newest
    <3>4. CASE view'[t].typed[k][g] = view[t].typed[k][g] /\ This.edit = "step"
      BY <2>3, <3>4 DEF EntriesKnown
    <3> QED BY <1>3, <3>1, <3>2, <3>3, <3>4
  <2> QED BY <2>2, <2>3
<1> QED BY <1>4, <1>5, <1>6

-----------------------------------------------------------------------------
(* Serving keeps what was entered *)

LEMMA ServeNew ==
  ASSUME PageShape, NEW t \in Desks, NEW r \in runs[t], Apt(r), r.step = "send"
  PROVE  LET new == [r EXCEPT !.step = NextStep(r)]
         IN /\ new.n = r.n /\ new.op = r.op /\ new.step = NextStep(r) /\ new.step \in {"answer", "read"}
            /\ new.id = r.id /\ new.f = r.f /\ new.row = r.row /\ new.was = r.was /\ new.list = r.list
            /\ new.at = r.at /\ Apt(new)
<1> DEFINE new == [r EXCEPT !.step = NextStep(r)]
<1>1. r \in Handler
  BY TabParts
<1>2. /\ new.n = r.n /\ new.op = r.op /\ new.step = NextStep(r)
      /\ new.id = r.id /\ new.f = r.f /\ new.row = r.row /\ new.was = r.was /\ new.list = r.list
      /\ new.at = r.at
  BY <1>1 DEF Handler
<1>3. NextStep(r) \in {"answer", "read"}
  BY DEF NextStep
<1> HIDE DEF new
<1>4. Apt(new)
  BY <1>2, <1>3 DEF Apt
<1> QED BY <1>2, <1>3, <1>4 DEF new

\* Serve, for the entries and the handlers.
Serves(t, r, new) ==
  /\ runs'[t] = (runs[t] \ {r}) \cup {new} /\ UNCHANGED <<desk, commands>>
  /\ \A d \in Desks \ {t} : runs'[d] = runs[d]
  /\ new.n = r.n /\ new.id = r.id /\ new.step # "send" /\ new.list = r.list /\ Apt(new)
  /\ \A d \in Desks : /\ view'[d].busy = view[d].busy /\ view'[d].list = view[d].list
                      /\ view'[d].form \in {view[d].form, Closed}
  /\ \A d \in Desks, k \in Typeable, g \in Fields :
       /\ view'[d].typed[k][g] \in {0, view[d].typed[k][g]}
       /\ d # t /\ WillWrite(r, k, g) => view'[d].typed[k][g] = 0
       /\ Overtakes(t, r) /\ ~OneAtATime /\ WillWrite(r, k, g) => view'[t].typed[k][g] = 0

LEMMA ServeServes ==
  ASSUME PageShape, NEW t \in Desks, NEW r \in runs[t], Apt(r), Serve(t, r)
  PROVE  Serves(t, r, [r EXCEPT !.step = NextStep(r)])
<1> DEFINE new == [r EXCEPT !.step = NextStep(r)]
<1>1. /\ Turned(t, r, {new}) /\ r.step = "send"
      /\ view'[t].list = view[t].list /\ view'[t].busy = view[t].busy /\ view'[t].form \in {view[t].form, Closed}
      /\ view'[t].typed = IF Overtakes(t, r) /\ ~OneAtATime THEN Forgets(view[t].typed, r) ELSE view[t].typed
      /\ \A d \in Desks \ {t} :
           /\ view'[d].list = view[d].list /\ view'[d].busy = view[d].busy /\ view'[d].form = view[d].form
           /\ view'[d].typed = Forgets(view[d].typed, r)
  BY ServeParts
<1>2. new.n = r.n /\ new.id = r.id /\ new.step # "send" /\ new.list = r.list /\ Apt(new)
  BY <1>1, ServeNew
<1> HIDE DEF new
<1>3. r \in Handler
  BY TabParts
<1>4. ASSUME NEW d \in Desks, NEW k \in Typeable, NEW g \in Fields
      PROVE  /\ view'[d].typed[k][g] \in {0, view[d].typed[k][g]}
             /\ d # t /\ WillWrite(r, k, g) => view'[d].typed[k][g] = 0
             /\ Overtakes(t, r) /\ ~OneAtATime /\ WillWrite(r, k, g) => view'[t].typed[k][g] = 0
  <2>1. \A e \in Desks : /\ Forgets(view[e].typed, r)[k][g] \in {0, view[e].typed[k][g]}
                         /\ WillWrite(r, k, g) => Forgets(view[e].typed, r)[k][g] = 0
    BY <1>3, TabParts, ForgetsTyped
  <2>2. CASE d = t
    BY <1>1, <2>1, <2>2
  <2>3. CASE d # t
    BY <1>1, <2>1, <2>3
  <2> QED BY <2>2, <2>3
<1>5. \A d \in Desks : /\ view'[d].busy = view[d].busy /\ view'[d].list = view[d].list
                       /\ view'[d].form \in {view[d].form, Closed}
  BY <1>1
<1> QED BY <1>1, <1>2, <1>4, <1>5 DEF Serves, Turned, new

LEMMA ServeHandlers ==
  ASSUME PageShape, HandlersKnown, NEW t \in Desks, NEW r \in runs[t], NEW new, Serves(t, r, new)
  PROVE  HandlersKnown'
<1>1. /\ runs'[t] = (runs[t] \ {r}) \cup {new} /\ UNCHANGED <<desk, commands>>
      /\ \A d \in Desks \ {t} : runs'[d] = runs[d]
      /\ \A d \in Desks : view'[d].busy = view[d].busy
      /\ new.n = r.n /\ Apt(new)
  BY DEF Serves
<1>2. This' = This /\ (OneAtATime' <=> OneAtATime) /\ Editable' = Editable /\ (Keyed' <=> Keyed)
  BY <1>1, SameDesk
<1> SUFFICES ASSUME NEW d \in Desks
             PROVE  /\ \A q \in runs'[d] : q.n <= commands' /\ Apt(q)
                    /\ \A p, q \in runs'[d] : p.n = q.n => p = q
                    /\ runs'[d] = {} => ~view'[d].busy
                    /\ OneAtATime => /\ \A p, q \in runs'[d] : p = q
                                     /\ runs'[d] # {} => view'[d].busy
  BY <1>2 DEF HandlersKnown, Apt
<1>4. /\ \A q \in runs[d] : q.n <= commands /\ Apt(q)
      /\ \A p, q \in runs[d] : p.n = q.n => p = q
      /\ runs[d] = {} => ~view[d].busy
      /\ OneAtATime => (\A p, q \in runs[d] : p = q) /\ (runs[d] # {} => view[d].busy)
  BY DEF HandlersKnown
<1>5. CASE d # t
  BY <1>1, <1>4, <1>5
<1>6. CASE d = t
  <2>1. \A q \in runs'[t] : q.n <= commands' /\ Apt(q)
    BY <1>1, <1>4, <1>6
  <2>2. \A p, q \in runs'[t] : p.n = q.n => p = q
    BY <1>1, <1>4, <1>6
  <2>3. runs'[t] # {} /\ runs[t] # {}
    BY <1>1
  <2>4. OneAtATime => (\A p, q \in runs'[t] : p = q) /\ (runs'[t] # {} => view'[t].busy)
    BY <1>1, <1>4, <1>6
  <2> QED BY <1>6, <2>1, <2>2, <2>3, <2>4
<1> QED BY <1>5, <1>6

LEMMA ServeKnown ==
  ASSUME PageShape, EntriesKnown, IdsKnown, NEW t \in Desks, NEW r \in runs[t], NEW new, Serves(t, r, new),
         issued' \in Nat, issued <= issued', ~Keyed => \A k \in DOMAIN rows' : k <= issued'
  PROVE  EntriesKnown' /\ IdsKnown'
<1>1. /\ runs'[t] = (runs[t] \ {r}) \cup {new} /\ UNCHANGED desk
      /\ \A d \in Desks \ {t} : runs'[d] = runs[d]
      /\ \A d \in Desks : view'[d].list = view[d].list /\ view'[d].form \in {view[d].form, Closed}
      /\ new.id = r.id /\ new.list = r.list
      /\ \A d \in Desks, k \in Typeable, g \in Fields : view'[d].typed[k][g] \in {0, view[d].typed[k][g]}
  BY DEF Serves
<1>2. This' = This /\ Editable' = Editable /\ (Keyed' <=> Keyed) /\ Typeable' = Typeable
  BY <1>1, SameDesk
<1>3. EntriesKnown'
  BY <1>1, <1>2 DEF EntriesKnown
<1>4. IdsKnown'
  <2> SUFFICES ASSUME ~Keyed, NEW d \in Desks
               PROVE  /\ \A k \in DOMAIN view'[d].list : k <= issued'
                      /\ view'[d].form.id <= issued'
                      /\ \A q \in runs'[d] : q.id <= issued' /\ \A k \in DOMAIN q.list : k <= issued'
                      /\ \A k \in Typeable, f \in Fields : k > issued' => view'[d].typed[k][f] = 0
    BY <1>2 DEF IdsKnown
  <2>1. \A j \in Nat : j <= issued => j <= issued'
    BY DEF PageShape
  <2>2. /\ \A k \in DOMAIN view[d].list : k <= issued
        /\ view[d].form.id <= issued
        /\ \A q \in runs[d] : q.id <= issued /\ \A k \in DOMAIN q.list : k <= issued
        /\ \A k \in Typeable, f \in Fields : k > issued => view[d].typed[k][f] = 0
    BY DEF IdsKnown
  <2>3. /\ DOMAIN view[d].list \subseteq Nat /\ view[d].form.id \in Nat
        /\ \A q \in runs[d] : q.id \in Nat /\ DOMAIN q.list \subseteq Nat
    BY TabParts, HandlerParts, ListParts
  <2>4. \A k \in DOMAIN view'[d].list : k <= issued'
    BY <1>1, <2>1, <2>2, <2>3
  <2>5. view'[d].form.id <= issued'
    BY <1>1, <2>1, <2>2, <2>3 DEF Closed
  <2>6. \A q \in runs[d] : q.id <= issued' /\ \A k \in DOMAIN q.list : k <= issued'
    BY <2>1, <2>2, <2>3
  <2>7. \A q \in runs'[d] : q.id <= issued' /\ \A k \in DOMAIN q.list : k <= issued'
    BY <1>1, <2>6
  <2>8. \A k \in Typeable, f \in Fields : k > issued' => view'[d].typed[k][f] = 0
    <3> SUFFICES ASSUME NEW k \in Typeable, NEW f \in Fields, k > issued' PROVE view'[d].typed[k][f] = 0
      OBVIOUS
    <3>1. k > issued
      BY DEF PageShape, Typeable
    <3> QED BY <1>1, <2>2, <3>1
  <2> QED BY <2>4, <2>5, <2>7, <2>8
<1> QED BY <1>3, <1>4

LEMMA ServeKept ==
  ASSUME PageShape, HandlersKnown, EntriesKnown, IdsKnown, EntriesKept, NEW t \in Desks, NEW r \in runs[t],
         NEW new, Serves(t, r, new), r.step = "send", ~Declined(r), Executes(r)
  PROVE  EntriesKept'
<1>1. /\ runs'[t] = (runs[t] \ {r}) \cup {new} /\ UNCHANGED desk
      /\ \A d \in Desks \ {t} : runs'[d] = runs[d]
      /\ new.step # "send"
      /\ \A d \in Desks, k \in Typeable, g \in Fields :
           /\ view'[d].typed[k][g] \in {0, view[d].typed[k][g]}
           /\ d # t /\ WillWrite(r, k, g) => view'[d].typed[k][g] = 0
           /\ Overtakes(t, r) /\ ~OneAtATime /\ WillWrite(r, k, g) => view'[t].typed[k][g] = 0
  BY DEF Serves
<1>2. This' = This /\ Typeable' = Typeable
  BY <1>1, SameDesk
<1> SUFFICES ASSUME NEW d \in Desks, NEW k \in Typeable, NEW g \in Fields, view'[d].typed[k][g] # 0
             PROVE  LET v == view'[d].typed[k][g]
                        R == runs'[d]
                    IN \/ \E q \in R : WillWrite(q, k, g) /\ q.op # "drop" /\ q.row[g] = v
                                       /\ \A p \in R : WillWrite(p, k, g) => p.n <= q.n
                       \/ (\A q \in R : ~WillWrite(q, k, g)) /\ (k \in DOMAIN rows' => rows'[k][g] = v)
  BY <1>1, <1>2 DEF EntriesKept, Kept, Newest, WillWrite
<1> DEFINE v == view'[d].typed[k][g]
<1>3. v = view[d].typed[k][g] /\ Kept(v, runs[d], k, g)
  BY <1>1 DEF EntriesKept
<1> HIDE DEF v
<1>4. r \in Handler /\ Apt(r) /\ \A p, q \in runs[t] : (p.n = q.n => p = q) /\ p.n \in Nat
  BY TabParts, HandlerParts DEF HandlersKnown
\* What was there stays, unless this handler writes it.
<1>5. ASSUME k \in DOMAIN rows'
      PROVE  \/ WillWrite(r, k, g) /\ (r.op # "drop" /\ r.row[g] # 0 => rows'[k][g] = r.row[g])
             \/ ~WillWrite(r, k, g) /\ k \in DOMAIN rows /\ rows'[k][g] = rows[k][g]
  <2>1. k # 0
    BY DEF Typeable
  <2>2. TableAfter(r, k, g)
    BY <1>4, <1>5, <2>1, TableChanges
  <2>3. ~(~Keyed /\ k = issued + 1)
    <3>1. ~Keyed /\ k > issued => view[d].typed[k][g] = 0
      BY DEF IdsKnown
    <3> QED BY <1>3, <3>1 DEF v, PageShape
  <2>4. ~(This.edit = "cell" /\ g \notin Editable) /\ This.edit # "step"
    BY <1>3 DEF EntriesKnown, v
  <2> QED BY <2>2, <2>3, <2>4 DEF TableAfter
<1>6. ~WillWrite(new, k, g)
  BY <1>1 DEF WillWrite
<1>7. CASE d # t
  <2>1. ~WillWrite(r, k, g) /\ runs'[d] = runs[d]
    BY <1>1, <1>7
  <2> QED BY <1>3, <1>5, <2>1 DEF Kept, Newest, v
<1>8. CASE d = t /\ ~WillWrite(r, k, g)
  <2>1. \A q : q \in runs'[t] /\ WillWrite(q, k, g) <=> q \in runs[t] /\ WillWrite(q, k, g)
    BY <1>1, <1>6, <1>8
  <2> QED BY <1>3, <1>5, <1>8, <2>1 DEF Kept, Newest, v
<1>9. CASE d = t /\ WillWrite(r, k, g)
  <2>1. PICK s \in runs[t] : /\ WillWrite(s, k, g) /\ s.op # "drop" /\ s.row[g] = v
                             /\ \A q \in runs[t] : WillWrite(q, k, g) => q.n <= s.n
    BY <1>3, <1>9 DEF Kept, Newest, v
  <2>2. CASE s # r
    <3>1. s \in runs'[t] /\ \A q \in runs'[t] : WillWrite(q, k, g) => q.n <= s.n
      BY <1>1, <1>6, <2>1, <2>2
    <3> QED BY <1>9, <2>1, <3>1 DEF v
  <2>3. CASE s = r
    <3>1. \A q \in runs[t] : WillWrite(q, k, g) => q = r
      <4> SUFFICES ASSUME NEW q \in runs[t], WillWrite(q, k, g), q # r PROVE FALSE
        OBVIOUS
      <4>1. q.n < r.n
        BY <1>4, <2>1, <2>3
      <4>2. Overtakes(t, r)
        BY <1>9, <4>1 DEF Overtakes, WillWrite
      <4>3. OneAtATime
        BY <1>1, <1>9, <4>2
      <4> QED BY <4>3 DEF HandlersKnown
    <3>2. \A q \in runs'[t] : ~WillWrite(q, k, g)
      BY <1>1, <1>6, <3>1
    <3>3. v # 0
      BY DEF v
    <3> QED BY <1>5, <1>9, <2>1, <2>3, <3>2, <3>3 DEF v
  <2> QED BY <2>2, <2>3
<1> QED BY <1>7, <1>8, <1>9

LEMMA ServeEntries ==
  ASSUME PageShape, HandlersKnown, EntriesKnown, IdsKnown, EntriesKept, NEW t \in Desks, NEW r \in runs[t],
         Serve(t, r)
  PROVE  HandlersKnown' /\ EntriesKnown' /\ IdsKnown' /\ EntriesKept'
<1> DEFINE new == [r EXCEPT !.step = NextStep(r)]
<1>1. r \in Handler /\ Apt(r)
  BY TabParts DEF HandlersKnown
<1>2. r.step = "send" /\ ~Declined(r) /\ Executes(r)
  BY <1>1, ServeParts
<1>3. Serves(t, r, new)
  BY <1>1, ServeServes
<1> HIDE DEF new
<1>4. issued' \in Nat /\ issued <= issued'
  BY <1>1, <1>2, ExecutesShape
<1>5. ~Keyed => \A k \in DOMAIN rows' : k <= issued'
  <2>1. ~Keyed => r.id <= issued
    BY DEF IdsKnown
  <2> QED BY <1>1, <1>2, <2>1, TableIds
<1>6. HandlersKnown'
  BY <1>3, ServeHandlers
<1>7. EntriesKnown' /\ IdsKnown'
  BY <1>3, <1>4, <1>5, ServeKnown
<1>8. EntriesKept'
  BY <1>2, <1>3, ServeKept
<1> QED BY <1>6, <1>7, <1>8

EntriesInv == PageShape /\ HandlersKnown /\ EntriesKnown /\ IdsKnown /\ EntriesKept

LEMMA PageStarts ==
  ASSUME NEW sc \in PageScenes, PageInit(sc)
  PROVE  /\ PageShape /\ rows = [k \in {1} |-> Row(1, 1)] /\ Row(1, 1) \in Record /\ Row(1, 1).b = 1
         /\ \A t \in Desks : /\ runs[t] = {} /\ view[t].list = rows /\ view[t].form = Closed /\ ~view[t].busy
                             /\ view[t].at = 0 /\ view[t].best = 0 /\ view[t].spoilt = 0
                             /\ \A k \in Typeable, f \in Fields : view[t].typed[k][f] = 0
         /\ issued = 1 /\ commands = 0 /\ Now = 0
<1>1. /\ desk = sc /\ rows = [k \in {1} |-> Row(1, 1)] /\ issued = 1
      /\ view = [t \in Desks |-> FirstView(rows)] /\ runs = [t \in Desks |-> {}]
      /\ served = 0 /\ commands = 0 /\ losses = 0
  BY DEF PageInit
<1>2. Row(1, 1) \in Record /\ Row(1, 1).b = 1 /\ Blank \in Record /\ \A f \in Fields : Blank[f] = 0
  BY RowRecord DEF Row
<1>3. rows \in Lists
  <2>1. {1} \in SUBSET Nat /\ [k \in {1} |-> Row(1, 1)] \in [{1} -> Record]
    BY <1>2
  <2> QED BY <1>1, <2>1, ListMaking
<1>4. Closed \in [id : Nat, row : Record]
  BY <1>2 DEF Closed
<1> DEFINE first == FirstView(rows)
<1>5. /\ first \in TabState(Typeable)
      /\ first.list = rows /\ first.form = Closed /\ ~first.busy /\ first.at = 0 /\ first.best = 0
      /\ first.spoilt = 0 /\ first.typed = [k \in Typeable |-> Blank]
  BY <1>2, <1>3, <1>4 DEF FirstView, TabState, Typeable
<1> HIDE DEF first
<1>6. view = [t \in Desks |-> first]
  BY <1>1 DEF first
<1>7. PageShape
  BY <1>1, <1>3, <1>5, <1>6 DEF PageShape
<1>8. Now = 0
  BY <1>1 DEF Now
<1> QED BY <1>1, <1>2, <1>5, <1>6, <1>7, <1>8

LEMMA EntriesStart ==
  ASSUME NEW sc \in PageScenes, PageInit(sc)
  PROVE  EntriesInv
<1>1. /\ PageShape /\ rows = [k \in {1} |-> Row(1, 1)]
      /\ \A t \in Desks : /\ runs[t] = {} /\ view[t].list = rows /\ view[t].form = Closed /\ ~view[t].busy
                          /\ \A k \in Typeable, f \in Fields : view[t].typed[k][f] = 0
      /\ issued = 1 /\ commands = 0
  BY PageStarts
<1>2. HandlersKnown
  BY <1>1 DEF HandlersKnown
<1>3. EntriesKnown
  BY <1>1 DEF EntriesKnown
<1>4. IdsKnown
  BY <1>1 DEF IdsKnown, Closed
<1>5. EntriesKept
  BY <1>1 DEF EntriesKept, Kept
<1> QED BY <1>1, <1>2, <1>3, <1>4, <1>5 DEF EntriesInv

\* A step of a page is a click, the serving of a request, or the passing on of a handler.
LEMMA PageSteps3 ==
  ASSUME EntriesInv, PageNext
  PROVE  \E t \in Desks :
           \/ Opens(t)
           \/ \E new \in Handler : Starts(t, new)
           \/ \E r \in runs[t] : Serve(t, r) \/ Decline(t, r) \/ Finish(t, r) \/ ReadList(t, r)
                                 \/ ShowList(t, r) \/ Lose(t, r)
<1>1. PICK t \in desk.tabs : Clicks(t) \/ Runs(t)
  BY DEF PageNext
<1>2. t \in Desks
  BY DeskParts DEF EntriesInv
<1>3. CASE Clicks(t)
  BY <1>2, <1>3, ClickKinds DEF EntriesInv
<1>4. CASE Runs(t)
  BY <1>2, <1>4 DEF Runs
<1> QED BY <1>1, <1>3, <1>4

LEMMA EntriesStep ==
  ASSUME EntriesInv, PageNext
  PROVE  EntriesInv'
<1>1. PICK t \in Desks :
           \/ Opens(t)
           \/ \E new \in Handler : Starts(t, new)
           \/ \E r \in runs[t] : Serve(t, r) \/ Decline(t, r) \/ Finish(t, r) \/ ReadList(t, r)
                                 \/ ShowList(t, r) \/ Lose(t, r)
  BY PageSteps3
<1> USE DEF EntriesInv
<1>2. CASE Opens(t)
  <2>1. PageShape'
    BY <1>2 DEF Opens
  <2> QED BY <1>2, <2>1, OpensEntries
<1>3. ASSUME NEW new \in Handler, Starts(t, new) PROVE EntriesInv'
  <2>1. PageShape'
    BY <1>3 DEF Starts
  <2> QED BY <1>3, <2>1, StartsHandlers, StartsEntries
<1>4. ASSUME NEW r \in runs[t], Serve(t, r) PROVE EntriesInv'
  <2>1. Apt(r)
    BY DEF HandlersKnown
  <2>2. PageShape'
    BY <1>4, <2>1, ServeParts DEF Turned
  <2> QED BY <1>4, <2>2, ServeEntries
<1>5. ASSUME NEW r \in runs[t],
             Decline(t, r) \/ Finish(t, r) \/ ReadList(t, r) \/ ShowList(t, r) \/ Lose(t, r)
      PROVE  EntriesInv'
  <2>1. Apt(r)
    BY DEF HandlersKnown
  <2>2. PICK next \in SUBSET Handler : Passes(t, r, next)
    BY <1>5, <2>1, PassKinds
  <2>3. PageShape'
    BY <2>2 DEF Passes, Passed, Turned
  <2> QED BY <2>2, <2>3, PassesHandlers, PassesEntries
<1> QED BY <1>1, <1>2, <1>3, <1>4, <1>5

LEMMA EntriesStutter ==
  ASSUME EntriesInv, UNCHANGED pageVars
  PROVE  EntriesInv'
<1>1. UNCHANGED <<desk, rows, issued, view, runs, served, commands, losses>>
  BY DEF pageVars
<1>2. /\ This' = This /\ Typeable' = Typeable /\ (Keyed' <=> Keyed) /\ Editable' = Editable
      /\ (OneAtATime' <=> OneAtATime)
  BY <1>1, SameDesk
<1>3. PageShape'
  BY <1>1 DEF EntriesInv, PageShape, Typeable
<1>4. HandlersKnown'
  BY <1>1, <1>2 DEF EntriesInv, HandlersKnown, Apt
<1>5. EntriesKnown' /\ IdsKnown'
  BY <1>1, <1>2 DEF EntriesInv, EntriesKnown, IdsKnown
<1>6. EntriesKept'
  BY <1>1, <1>2 DEF EntriesInv, EntriesKept, Kept, Newest, WillWrite
<1> QED BY <1>3, <1>4, <1>5, <1>6 DEF EntriesInv

LEMMA EntriesAreKept ==
  ASSUME EntriesInv
  PROVE  OwnEditsAreKept
<1> SUFFICES ASSUME NEW t \in desk.tabs, runs[t] = {},
                    NEW id \in DOMAIN rows \cap DOMAIN view[t].typed, NEW f \in Fields
             PROVE  view[t].typed[id][f] \in {0, rows[id][f]}
  BY DEF OwnEditsAreKept, Fields
<1>1. t \in Desks
  BY DeskParts DEF EntriesInv
<1>2. DOMAIN view[t].typed = Typeable
  BY <1>1, TabParts DEF EntriesInv
<1>3. Kept(view[t].typed[id][f], runs[t], id, f)
  BY <1>1, <1>2 DEF EntriesInv, EntriesKept
<1> QED BY <1>3 DEF Kept

\* What is entered in a tab of any page is in the table when the handlers of the tab
\* have ended - until another tab writes the row, the same tab sends an older copy of
\* it, removes it or renames another to it, or an earlier command arrives late -
\* whatever the clicks of all tabs, the order in which requests arrive and answers are
\* shown, and which of them fail.  Not what was refused or failed to arrive, nor what
\* no statement writes: the status of a job and a category that is emptied.
\* updateRoute, updateItem, save, updatePage, saveForm
THEOREM OwnEditsStayKept == PageSpec => []OwnEditsAreKept
<1>1. (\E sc \in PageScenes : PageInit(sc)) => EntriesInv
  BY EntriesStart
<1>2. EntriesInv /\ [PageNext]_pageVars => EntriesInv'
  BY EntriesStep, EntriesStutter
<1>3. EntriesInv => OwnEditsAreKept
  BY EntriesAreKept
<1> QED BY <1>1, <1>2, <1>3, PTL DEF PageSpec

================================================================================
