CONSTANTS
  r1 = r1  r2 = r2  k1 = k1  k2 = k2  card = card  mail = mail  word = word
  Requests = {r1, r2}  Prose <- MCProse  Rewritten = word
  SecretKinds <- MCSecretKinds  IdentityKinds <- MCIdentityKinds  ContactKinds <- MCContactKinds
  Kind <- MCKind  PolicyFile <- MCPolicyFile  Bodies <- MCBodies  Guesses <- MCGuesses
  LocalModel = TRUE  NoRestore = TRUE  Inspect = FALSE
  PoolSize = 1  MaxAnswer = 1  MaxCrashes = 1
SPECIFICATION Spec
CHECK_DEADLOCK FALSE
INVARIANT EveryResponseClosed
