CONSTANTS
  c1 = c1  c2 = c2  c3 = c3  c4 = c4  quote = quote  backslash = backslash  surrogate = surrogate
  ESC = backslash  Surrogates = {surrogate}  MaxFound = 2
  SecretKinds <- MCSecretKinds  IdentityKinds <- MCIdentityKinds  ContactKinds <- MCContactKinds
  Scanners <- MCScanners  Detectable <- MCDetectable  Escaped <- MCEscaped
  Bodies <- EscapedBodies  Files <- DefaultFile
SPECIFICATION Spec
CHECK_DEADLOCK FALSE
INVARIANT RoundTripsExactly
