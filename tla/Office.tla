--------------------------------- MODULE Office ---------------------------------
(***************************************************************************)
(* What people see and set up in the browser: the wiki and content pages     *)
(* with their versions, the tables of the administration pages, and the      *)
(* finance module's calendar, configurations, ledgers and settings.          *)
(*                                                                          *)
(* The three share no table, so a behaviour is about one of them: its scene  *)
(* is chosen at the start and the other two are closed.                      *)
(***************************************************************************)
EXTENDS ContentVersions, AdminPages, FinanceOffice

ClosedSite == [site |-> "wiki", tabs |-> {}, walkers |-> {}, slugs |-> {}, visits |-> 0, writes |-> 0]
ClosedDesk == [page |-> "routes", tabs |-> {}, commands |-> 0, losses |-> 0]
ClosedOffice == [matter |-> "calendar", clerks |-> {}, calls |-> 0, mishaps |-> 0, weeks |-> {}]

Init ==
  \/ \E sc \in ContentScenes : ContentInit(sc) /\ PageInit(ClosedDesk) /\ OfficeInit(ClosedOffice)
  \/ \E sc \in PageScenes : ContentInit(ClosedSite) /\ PageInit(sc) /\ OfficeInit(ClosedOffice)
  \/ \E sc \in OfficeScenes : ContentInit(ClosedSite) /\ PageInit(ClosedDesk) /\ OfficeInit(sc)

Next ==
  \/ ContentNext /\ UNCHANGED <<pageVars, officeVars>>
  \/ PageNext /\ UNCHANGED <<contentVars, officeVars>>
  \/ OfficeNext /\ UNCHANGED <<contentVars, pageVars>>

=============================================================================
