CONSTANTS
  Null = Null
  r1 = r1
  r2 = r2
  P = P
  Q = Q
  ann = ann
  Requests = {r1, r2}
  Codes = {P, Q}
  Table <- Rows1
  Fields <- Fields1
  Related <- Related1
  DpUsers <- Users1
  UserOf <- AllBy
  Members <- Members1
  FirstRole <- Roles1
  Asked <- Asked1
  MaxChange = 1
  Selected <- Select
  Counted <- Total
  Workbook <- WorkbookOf
  Undefined <- AsksUndefined
  Misquoted <- AsksMisquoted
SPECIFICATION GuardSpec
INVARIANTS
  WithinPartition
  SelectsWhatIsMeant
  OnlyNullsDivide
  ExportShowsEveryValue
CHECK_DEADLOCK FALSE
