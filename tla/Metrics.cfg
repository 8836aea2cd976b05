SPECIFICATION FairSpec
CONSTANTS
  BatchSize = 2
  MaxRecords = 4
  ChanSize = 2
  MaxConns = 4
  Workloads <- MCWorkloads
INVARIANTS TypeOK EachOnce ClosedDelivers GaugeNeverLow
PROPERTIES RecordedArrives CloseReturns GaugeCatchesUp
