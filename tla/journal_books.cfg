SPECIFICATION Spec
CONSTANTS
  c1 = c1
  c2 = c2
  c3 = c3
  import = import
  credit = credit
  sales = sales
  typo = typo
  january = january
  Callers = {c1, c2, c3}
  Keys = {import, credit, sales, typo}
  Periods = {january}
  PeriodOf <- AllInJanuary
  LinesOf <- LinesOfKeys
  Collecting = {sales}
  Operations = {"create", "system", "submit", "approve", "reject", "reverse", "append", "close", "reopen", "lock", "unlock"}
  MaxCalls = 4
  MaxReversals = 1
  MaxFailures = 1
SYMMETRY CallerSymmetry
INVARIANTS
  BooksAreSound
  BalancesInTheEnd
CHECK_DEADLOCK FALSE
