SPECIFICATION OperationsSpec
CONSTANTS
  sub1 = sub1
  pay1 = pay1
  Timelines = {premium}
  Sources <- TwoSources
  Durations = {2}
  MaxTime = 2
  Horizon = 3
  MaxWindows = 3
  Plans = {p1, p2}
  MaxAttempts = 2
  MaxMoves = 4
  MaxErrors = 1
  Charges = {1, 2}
  Price = 2
  Admins = {a1}
  MaxRefunds = 2
  MaxRefundFaults = 1
  Payments = {1, 2, 3}
  MaxSlips = 2
  MaxDeliveries = 6
  MaxCleanings = 2
  OwnerOf <- ThreeOwners
  DayOf <- ThreeDays
  Occurrences <- FiveOccurrences
  Events = {e1, e2, e3}
  KindChoices <- TwoKindChoices
  e1 = e1
  e2 = e2
  e3 = e3
  MaxRecords = 3
  TrimTarget = 2
  FlushLimit = 2
  MaxLogFaults = 2
INVARIANTS
  NoOverlap
  LocalCancelIsRemote
  RefundsWithinCharge
  OneJobPerEvent
  AcceptedIsQueued
  LoggedIsKept
PROPERTIES
  KeepsHistory
  EndIsMirrored
  CancelIsHonoured
  DisputeEndsOwner
  RefundIsRecorded
  SpoolDrains
CHECK_DEADLOCK FALSE
