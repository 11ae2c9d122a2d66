SPECIFICATION Spec
CONSTANTS
  ReceiveAddress <- MCAddresses
  MinName = 2
  MaxName = 3
  Sat = 2
  ARKADE_MIN_SENDABLE_MSATS = 4
  RelayTexts = {"one", "slash", "two", "three", "local", "broken"}
  RelayUrls = {"one", "two", "three", "local"}
  RelayUrl <- MCRelayUrl
  Public = {"one", "two", "three"}
  MAX_RELAYS = 2
  Texts <- MCTexts
  Configs <- MCConfigs
  Amounts = {1, 2, 3, 4, 5, 6}
  Requests <- MCRequests
  Domain = "here"
  Domains = {"here", "there"}
  Purchases = {p}
  MaxSigned = 1
  None = none
INVARIANTS
  IInv
  OfferHonoured
  VerifyUrlStable
  NamesReachTheirTargets
  NamesAreSigned
  StoredZapsPublishable
  AnswersTrue
PROPERTIES
  AnswersFresh
CHECK_DEADLOCK FALSE
