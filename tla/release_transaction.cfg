SPECIFICATION Spec
CONSTANTS
  Versions = {v1, v2}
  Platforms = {arm, x86}
  None = None
  Operators = {op}
  Repairs = {"recover", "abort"}
  MaxRows = 3
  MaxCrashes = 2
  Edits = {"between", "during"}
SYMMETRY Symmetric
INVARIANTS TypeOK RecordIsWhole LogIsAChain
PROPERTIES NothingBeforeJournal JournalOutlivesOperation ImplementsRecord
