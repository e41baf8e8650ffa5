SPECIFICATION ConsoleSpec
CONSTANTS
  old = old
  new = new
  plain = plain
  tuned = tuned
  r1 = r1
  r2 = r2
  Request = {r1, r2}
  List = {old, new}
  Settings = {plain, tuned}
  Bodies <- TwoBrowsers
  Reports = {"running"}
  MaxStarts = 2
  NoUpdate = NoUpdate
  NoOne = NoOne
INVARIANTS
  ConsoleInv
  OneRuntime
  StatusOfThisRuntime
PROPERTIES
  SectionsKept
  SavedListsApplied
  RequestsAnswered
