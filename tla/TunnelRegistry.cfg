CONSTANTS
  Keys = {k1}
  Targets = {t1}
  Clients = {c1, c2}
  Cleaner = cleaner
  MaxTime = 1
  Faults = {c1, cleaner}
  NoRecord = NoRecord
  Never = Never
  NoKey = NoKey
  Missing = Missing
  Blank = Blank
  Torn = Torn
SPECIFICATION FairSpec
VIEW View
INVARIANTS FileWhole DiskExact
PROPERTIES LiveRecordKept ExpiredLeaves
