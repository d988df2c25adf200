SPECIFICATION Spec
CONSTANTS
  i1 = i1 i2 = i2 h1 = h1 h2 = h2 c1 = c1 w1 = w1 w2 = w2 NoJob = NoJob
  Queues = {"orders"}
  Ids = {i1, i2}
  Handlers = {h1, h2}
  Callers = {c1}
  Workers = {w1, w2}
  Backoffs = {"ok", "bad"}
  MaxAttempts = 2
  MaxAdds = 2
  MaxRetries = 1
  Uses = {"retry", "clean", "clear", "close", "wait", "cancel"}
  FreshIds = TRUE
SYMMETRY Symmetry
INVARIANTS TypeOK BooksAgree ActiveHasRunner BackendAgrees
PROPERTIES JobsProceed
CHECK_DEADLOCK FALSE
