\* Two invoices and two requests with every call and fault; the other parts beside them.
SPECIFICATION FacturaSpec
CONSTANTS
  Invoice = {i1, i2}
  Req = {r1, r2}
  Calls = {"submit", "annul", "confirm", "cancel", "edit", "remove"}
  Faults = {"reject", "lost", "crash", "slow", "error", "hasty"}
  Repeats = TRUE
  MaxStamp = 3
  MaxEdits = 1
  None = None
  Row = {"expense", "period"}
  Periods = {"period"}
  Key = {i1, i2}
  Caller = {r1, r2}
  NoKey = NoKey
SYMMETRY Symmetry
CONSTRAINT ShortAfterPeril
INVARIANT TypeOK
 
 
INVARIANT InvoiceSound
INVARIANT YearAddsUp
 
INVARIANT MistypedIsFound
CHECK_DEADLOCK FALSE
