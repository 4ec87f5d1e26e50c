CONSTANTS
  n1 = n1  n2 = n2  s1 = s1  s2 = s2  None = None
  certA = certA  certF = certF  mine = mine  other = other
  Challenges = {n1, n2}  Servers = {s1, s2}
  Call <- MCCall  Configs <- MCConfigs  Inquiries <- MCInquiries  Forms <- MCForms
  MaxInquiries = 1  MaxRestarts = 1
SYMMETRY Symmetric
SPECIFICATION Spec
CHECK_DEADLOCK FALSE
INVARIANTS TypeOK TrustIsEarned QuotesAreOwn HonestIsTrusted
