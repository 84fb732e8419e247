-------------------------------- MODULE MCOffice --------------------------------
(* Small instances of Office: each scene is one site, page or matter. *)
EXTENDS Office

Content(where, open, from, pages, navigations, changes) ==
  [site |-> where, tabs |-> open, walkers |-> from, slugs |-> pages, visits |-> navigations, writes |-> changes]

\* One tab walks over two pages and edits them; or two tabs edit the same page.
MCContentScenes == {
  Content("wiki", {"t1"}, {"t1"}, {"a", "b"}, 2, 1),
  Content("wiki", {"t1"}, {"t1"}, {"a", "b"}, 1, 2),
  Content("wiki", {"t1", "t2"}, {}, {"a"}, 0, 3),
  Content("pages", {"t1"}, {"t1"}, {"a"}, 1, 1),
  Content("pages", {"t1", "t2"}, {}, {"a"}, 0, 2)}

Desktop(page, open, given, lost) ==
  [page |-> page, tabs |-> open, commands |-> given, losses |-> lost]

\* Every page in one tab, where a request may fail, and in two tabs.
MCPageScenes ==
  UNION {{Desktop(p, {"d1"}, 3, 1), Desktop(p, {"d1", "d2"}, 2, 0)} : p \in DOMAIN Pages}

Matter(matter, callers, made, weeks) ==
  [matter |-> matter, clerks |-> callers, calls |-> made, mishaps |-> 1, weeks |-> weeks]

MCOfficeScenes == {
  Matter("calendar", {"c1", "c2"}, 3, {}),
  Matter("calendar", {"c1"}, 3, {-1, 0, 1}),
  Matter("assignments", {"c1", "c2"}, 3, {}),
  Matter("ledgers", {"c1", "c2"}, 4, {}),
  Matter("settings", {"c1", "c2"}, 4, {})}

=============================================================================
