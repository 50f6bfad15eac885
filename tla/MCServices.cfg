SPECIFICATION ServicesSpec
CONSTANTS
  Recharges = {r1, r2}
  Clients = {p1, p2}
  Total = 2
  Adjustments <- TwoAndOne
  MaxAdjustments = 1
  MaxRefundTries = 1
  MaxResettled = 1
  MaxWalletFaults = 1
  Visitors = {q1, q2, q3}
  MaxPolls = 1
  MaxHitches = 2
  Earnings = {m1, m2}
  Withdrawals = {w1, w2}
  Workers = {p1, p2}
  Share = 2
  Payout = 3
  MaxBrokerageFaults = 1
  Calls = {q1, q2, q3}
  MaxSends = 2
  MaxTransferFaults = 1
  Members = {m1, m2}
  Takers = {p1, p2}
  Buyers = {u1}
  TotalCount = 1
  TakeLimit = 1
  MaxCoupons = 2
  Scenes = {m1, m2}
  Senders = {p1, p2}
  Guessers = {w1, w2}
  MaxPerDay = 3
  MaxCodes = 4
  MaxSmsFaults = 2
  Devices = {q1, q2}
  MaxGrants = 3
  Handlers = {m1, m2}
  Admins = {p1, p2}
  MaxJobs = 2
  MaxSchedulingFaults = 2
  Signers = {p1, p2}
  ConfigDays = 2
  LastDate = 3
  MaxSignIns = 3
  MaxSignInFaults = 1
  Adjusters = {p1, p2}
  ItemPrices <- Uneven
  Changes <- UpAndDown
  MaxChanges = 3
  MaxPriceFaults = 1
  People = {f1, f2, f3}
  Binders = {p1, p2}
  MaxHops = 3
  MaxBinds = 3
  SkuPrice <- Dear
  GiveIntegral <- OwnPoints
  Baskets <- SomeBaskets
  ActivityUnits = {0, 2}
  Offers <- EachOffer
  Levels = {100, 60}
  Campaigns <- TwoCampaigns
  Vouchers <- TwoVouchers
  PointBalances = {1, 3}
  PointUnits = {1}
  MaxDeduct = 2
  Freights <- TwoTemplates
  GiveRate = 2
  Skus = {m1, m2}
  FirstSkus = {m1}
  Orders = {p1, p2}
  Editors = {w1}
  Renamers = {q1}
  MaxStock = 1
  MaxEdits = 1
  MaxRenames = 1
  MaxMoves = 2
  Taps = {p1, p2}
  Wares = {m1, m2}
  MaxAsked = 2
  MaxTaps = 3
  MaxTapFaults = 1
INVARIANTS WalletsExplained BrokerageExplained CodeServesOnce SessionEndsOnce
           ScheduleSettled SignInExplained PricesAgree  PriceAddsUp
PROPERTIES WalletAccounted TransferExplained CouponsExplained StockExplained CartExplained
SYMMETRY Alike
CHECK_DEADLOCK FALSE
