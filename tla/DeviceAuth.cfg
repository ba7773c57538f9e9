SPECIFICATION Spec
CONSTANTS
  None = None
  Accounts = {a1, a2}
  Keys = {k1, k2}
  Texts = {t1, t2}
  Nonces = {n1, n2, n3}
  Handlers = {h1, h2}
SYMMETRY Symmetry
INVARIANTS
  Inv
  ChallengeOnce
  SessionOwned
  RevokedRefused
  NameOwned
PROPERTIES
  ChallengeIsOneShot
