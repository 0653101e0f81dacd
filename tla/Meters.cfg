\* A few edits and deliveries, and every report after each of them.
SPECIFICATION Spec
CONSTANTS
  Null = Null
  Blank = Blank
  NoData = NoData
  Failed = Failed
  Unknown = Unknown
  UnknownRegion = UnknownRegion
  Import = "00100000"
  Mapping <- MCMapping
  Lower <- MCLower
  Upper <- MCUpper
  PeriodStart <- MCPeriodStart
  ServiceAreas <- MCServiceAreas
  InitMeters <- MCInitMeters
  InitFeeders <- MCInitFeeders
  InitDaily <- MCInitDaily
  MeterInputs <- MCMeterInputs
  FeederInputs <- MCFeederInputs
  Readings <- MCReadings
  Registers <- MCRegisters
  Queries <- MCQueries
  Callers = {root, guest, Null}
  NotifyEmails = {root}
  MaxMeters = 5
  MaxFeeders = 2
  MaxDaily = 8
  MaxEdits = 1
CHECK_DEADLOCK FALSE
INVARIANTS
  TypeOK
  ConsumptionAgrees
  StatusAgrees
  MapsAgree
  BalanceAgrees
PROPERTIES
  RetiringKeepsReports
