SPECIFICATION StorageSpec
CONSTANTS
  c1 = c1
  c2 = c2
  Callers <- MCCallers
  Users <- MCUsers
  Accounts <- MCAccounts
  NameList <- MCNameList
  Batches <- MCBatches
  FileMoves <- MCMoves
  Renames <- MCRenames
  Folders <- MCFolders
  Stores <- MCStores
  Placeholder = ".init"
  TextPrefixes <- MCTextPrefixes
  MaxCalls = 2
  MaxFlags = 1
  MaxErrors = 1
SYMMETRY MCSymmetry
INVARIANTS
  IndexIsSound
  GalleryIsKept
\* No call is left once MaxCalls have ended.
CHECK_DEADLOCK FALSE
