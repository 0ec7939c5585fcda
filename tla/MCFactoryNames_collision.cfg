\* Two pairs whose names run together to the same key.
SPECIFICATION MessagesSpec
CONSTANTS
  None = None
  Alice = Alice
  Bob = Bob
  Users = {Bob}
  FactoryAddr = FactoryAddr
  Inj = Inj
  Usd = Usd
  Cw = Cw
  Short = Short
  Long = Long
  Natives = {Inj, Usd, Short, Long}
  Cw20s = {}
  Bytes <- NestedNames
  Creator <- NoCreator
  Malformed = {}
  Cw20Decimals <- Six
  FeeDenom = Inj
  FeeAmount = 1
  FirstDeposits <- Deposits
  Funds <- SentAlong
  LeastProduct = 1
  GreatestProduct = 1
  Decimals = {6}
  CodeIds = {1}
  Wallets = {3}
  Burners = {1}
  Genesis <- Purses
  MaxLimit = 2
  DefaultLimit = 1
  MaxPairs = 2
INVARIANTS
  QueryAnswersAskedPair
CHECK_DEADLOCK FALSE
