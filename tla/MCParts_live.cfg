SPECIFICATION FairPartsSpec
CONSTANTS
  Parts = {"storage", "sending", "provider", "browser"}
  MaxGets = 1 DbAttempts = 2 DbStores = {"wallets"}
  Tabs = {1, 2} Addrs <- MCAddrs Phrase <- MCPhrase HdIndex <- MCHdIndex RawKey = "raw"
  Slot <- MCSlot Hint <- MCSlot
  Pins = {"p", "q"} Nobody = "nobody" MaxTasks = 2 Earlier <- MCEarlier
  Senders = {"A", "B"} WatchOnly = {"B"} Recipients = {"X", "A"} Typed <- MCTyped RawAmount <- MCRawAmount
  BigAmount = 1000000000 MaxWallets = 2 MaxFetches = 1 MaxSends = 2 MaxStaged = 1
  NetUrl <- MCNetUrl Presets = {"devnet", "mainnet"} TypedUrls <- MCTypedUrls NoUrl <- MCNoUrl
  PageIsHttps = FALSE CspAllowsHttp = TRUE MaxWrites = 2
  Owners = {"A", "B"} NoOne = "no one" MaxTurns = 2 Funds = 3 OpFee = 1 OpAmounts = {1} MaxOps = 2
  MaxCalls = 2
  Contracts <- MCContracts Deployed = {"d"} Symbols = {"a", "d"} StartBalance <- MCStartBalance
  MaxBalance = 2 ProbeChunk = 2 MaxRetries = 1 MaxChunkFailures = 1 TokenJobs = {1} MaxJobs = 2 MaxHad = 2
  Nets = {1, 2} HoldsIn = {1} MaxPanelTasks = 3
  Asks = {"a", "ping"} Pings = {"ping"} Hello = "hello" MaxPorts = 2
  HistOwners = {"a", "b"} Confirmed <- MCConfirmed Rejected <- MCRejected PageSize = 2
  MaxArrivals = 1 MaxLoads = 2 HistShapes = {"envelope", "no metadata", "bare"}
  MaxAttempts = 2 Lockout = 2 MaxClock = 4
  Circles = {"open", "sealed"} SealedOnes = {"sealed"} Documents <- MCDocuments Styles <- MCStyles
  Programs <- MCJss TypedAddresses <- MCTypedAddresses Favourites <- MCFavourites
  OctDecimals = 2 MAX_U128 = 900 MAX_DECIMALS = 4 DISPLAY_DECIMALS = 2 MaxRaw = 1200 TypedTexts <- MCTypedTexts
  PROTOCOL_VERSION = 1 MIN_PROTOCOL_VERSION = 1 MaxWords = 4
  ByteBase = 4 DigitBase = 3 HashLength = 3 ADDRESS_PAYLOAD_LENGTH = 4
  SignRequests <- MCSignRequests Signer = "me" GoodAddresses = {"me", "oct1"} HeadShown = 2 TailShown = 1 IntegerKeys <- MCIntegerKeys MaxSigned = 2
  AbiOf <- MCAbiOf CtAccounts = {"A", "B"} CtMethods = {"x"} MaxCtTurns = 3 MaxCtJobs = 2
  PwAccounts <- MCPwAccounts WantedCaps = {} WalletCaps = {"read"} PinTries = 1 MaxAsked = 2 MaxLocks = 1
  PpWallets = {"A", "B"} PpStart <- MCPpStart PpMost = 3 PpFee = 1 MaxPpReads = 2 MaxPpTurns = 2 MaxPpJobs = 2
  PpTyped = {"1"} PpFollowed = {"validate", "nonce", "submit", "cache"} StealthTexts <- MCStealthTexts
  WordBits = 2 WordCounts = {3, 6} Sha256 <- MCSha256 ByteValues = 8 QuizLengths = {1, 2, 3, 5} QUIZ_WORDS = 3 MaxDraws = 4
  KsPhrases <- MCKsPhrases KsSeeds <- MCKsSeeds KsPins = {"p", "q"} IndexRange = 4 KsIndexes = {0, 1, 2, 4, 5, 6}
  Quarter = 2 MaxBytes = 3 UriAmounts <- MCUriAmounts CsvCells <- MCCsvCells
  MaxScans = 3
  MaxFrameScripts = 2 MaxRenders = 2
PROPERTIES GetDbSettles GivesWayToUpgrade SendSettles RequestsSettle 
CHECK_DEADLOCK FALSE
