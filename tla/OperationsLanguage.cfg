\* Root changes the language during an operation, then quits.
SPECIFICATION Spec
CONSTANTS
  MaxAttempts = 2
  Elevates = FALSE
  MaxLanguage = 1
INVARIANTS
  QuitAlwaysWaits
CHECK_DEADLOCK FALSE
