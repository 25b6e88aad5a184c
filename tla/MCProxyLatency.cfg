SPECIFICATION Spec
CONSTANTS
  Conns = {c1}
  ClOrdIDs = {i1, i2}
  MaxMsgs = 3
  NoId = NoId
SYMMETRY MCAlike
INVARIANTS TypeOK ReportedOrdersMeasured OrderLatencyExact
CHECK_DEADLOCK FALSE
