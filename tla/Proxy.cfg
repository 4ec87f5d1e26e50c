CONSTANTS
  r1 = r1  r2 = r2  k1 = k1  k2 = k2  card = card  mail = mail  word = word
  Requests = {r1, r2}  Prose <- MCLiteral  Rewritten <- Literal
  SecretKinds <- MCSecretKinds  IdentityKinds <- MCIdentityKinds  ContactKinds <- MCContactKinds
  Kind <- MCKind  PolicyFile <- MCPolicyFile  Bodies <- MCBodies  Guesses <- MCGuesses
  LocalModel = FALSE  NoRestore = FALSE  Inspect = TRUE
  PoolSize = 2  MaxAnswer = 2  MaxCrashes = 1
SYMMETRY Symmetric
SPECIFICATION Spec
CHECK_DEADLOCK FALSE
INVARIANTS TypeOK Isolation AuditedBeforeEgress EchoRoundTrips ConnectionsAccounted InspectionIsTrue
PROPERTIES IsPrivacyGateway
