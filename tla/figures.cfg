SPECIFICATION Spec
CONSTANTS
  None = None
  PerCent = 3
  Today = 5
  MaxRange = 3
  MockRates <- MCMockRates
  Contains <- MCContains
  MinHistory = 3
  MinCost = 2
  MinPercent = 2000
  Scores <- MCScores
  MinObservations = 4
  RecentDays = 3
  FullHistory = 5
  Root <- MCRoot
  Horizons <- MCHorizons
  MinDays = 2
  Fraction = 2
  FirstDays = {3}
  BillDays = {1, 2, 3, 4}
  Services = {1, 2}
  Amounts <- MCAmounts
  Accounts <- MCAccounts
  Charges <- MCCharges
  TopN = 2
  LargeImpact = 10
  EventPercent = 4000
  EventAmount = 5
  MaxEvents = 1
  Lookback = 4
  AlertHorizon = 2
  Costs3 = {0, 2, 3, 7, 20}
  BudgetCosts = {0, 20}
  MonthlyCosts = {0, 900, 1100, 4000}
  Lengths = {3, 4, 5}
  Months = {8, 9}
INVARIANTS
  BillAccounted
  ChangeIsExplained
  LargestChangesTold
  CostlierStaysRaised
  CostlierNoMilder
  SpikeForgiven
  OutlierHeightIgnored
  BandHolds
  PartsAddUp
  RisingStaysUrgent
  ForecastNoMilder
  ForecastReachesMonthEnd
CHECK_DEADLOCK FALSE
