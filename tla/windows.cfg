SPECIFICATION Spec
CONSTANTS
  Keys = {k}
  Positions = {0, 1}
  MaxWindows = 2
  MaxChanges <- Changes
  MaxEdits <- Edits
INVARIANTS
  ListsAgree
  ReadersAgree
  KeysReleased
CHECK_DEADLOCK TRUE
