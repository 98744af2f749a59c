\* Durations of five bits, signed, and up to seven attempts in a row; and
\* domains and hosts of up to five labels, two specs of tokens.
CONSTANTS
  Top = 15
  Durations <- MCDurations
  DefaultInitial = 2
  DefaultMax = 9
  MaxAttempts = 7
  Label <- MCLabel
  Empty = ""
  Lower <- MCLower
  ValidName = {"app", "base"}
  Domains <- MCDomains
  TokenId = {"default", "next"}
  DefaultId = "default"
  TokenValue = {"old", "new"}
  NoValue = "no"
  MaxSpecs = 2
SPECIFICATION MCSpec
INVARIANTS
  BackoffInv
  AdvertisedURLRoutes
  LastSpecDecides
CHECK_DEADLOCK FALSE
