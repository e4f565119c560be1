SPECIFICATION AdminSpec
CONSTANTS
  AllowLegacy = FALSE
  Secret = "dev-secret"
  Issuer = "kd39"
  Audience = "clients"
  Bytes = {0, 64, 128}
  MaxBytes = 3
  MaxNow = 1
  Admins = {a1}
  Tokens <- MCTokensOfAnyLength
  Updates <- MCUpdates
  Started <- MCStarted
INVARIANT
  GenuineTokenAccepted
