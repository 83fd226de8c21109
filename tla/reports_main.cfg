\* Every history of up to four executions of two assets.
CONSTANTS
  Assets = {"btc", "eth"}
  Fills <- MCFills
  Marks = {1, 3}
  MaxFills = 4
SPECIFICATION Spec
INVARIANTS LotsAreFirstInFirstOut JournalAgreesWithLots DeclineIsTheWorst
CHECK_DEADLOCK FALSE
