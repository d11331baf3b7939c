SPECIFICATION NodeSpec
CONSTANTS
  url = url
  bad = bad
  token = token
  envToken = envToken
  label = label
  c1 = c1
  c2 = c2
  s1 = s1
  q1 = q1
  Urls = {url}
  BadUrls = {bad}
  Tokens = {token, envToken}
  Labels = {label}
  Profile <- NoProfile
  Env <- OnlyToken
  Calls = {c1, c2}
  Wishes <- OneEach
  Files <- Saved
  Slots = {h1, h2}
  NodeIds = {n1, n2}
  Overlap = FALSE
  Questions = {q1}
  Sessions = {s1}
  SessionOf <- OneSession
INVARIANT NodeTypeOK
INVARIANT Agreement
INVARIANT OneNode
INVARIANT SameIdentity
INVARIANT NoStrayQuestion
PROPERTY CallsEnd
