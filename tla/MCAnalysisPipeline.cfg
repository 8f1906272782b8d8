CONSTANTS
  c1 = c1
  c2 = c2
  Unstated = Unstated
  NoneFound = NoneFound
  NoEntry = NoEntry
  Crashes = {c1, c2}
  DumpOf <- MCDumpOf
  Commands <- MCCommands
  Phase1Objects <- MCPhase1Objects
  Phase2Objects <- MCPhase2Objects
SPECIFICATION Spec
INVARIANTS
  TypeOK
  NoPatchWithoutGrounds
  OutageVerdict
  RoundsSettle
PROPERTY OutageForgotten
