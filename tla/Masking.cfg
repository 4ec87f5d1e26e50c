CONSTANTS
  c1 = c1  c2 = c2  c3 = c3  c4 = c4  quote = quote  backslash = backslash  surrogate = surrogate
  ESC = backslash  Surrogates = {surrogate}  MaxFound = 3
  SecretKinds <- MCSecretKinds  IdentityKinds <- MCIdentityKinds  ContactKinds <- MCContactKinds
  Scanners <- MCScanners  Detectable <- MCDetectable  Escaped <- MCEscaped
  Bodies <- MCBodies  Files <- MCFiles
SPECIFICATION Spec
CHECK_DEADLOCK FALSE
INVARIANTS TypeOK VaultIsBijective EarliestLongestWins ProtectedNeverWhole CleanRoundTrip AuditMatchesBody
