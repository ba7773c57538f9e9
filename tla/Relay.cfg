SPECIFICATION Spec
CONSTANTS
  None = None
  Boxes = {x1}
  Accounts = {a1}
  Blobs = {b1, b2, b3}
  Handlers = {h1, h2}
SYMMETRY Symmetry
INVARIANTS
  Inv
  ReadsCurrent
  KeyWithItsSalt
PROPERTIES
  BlobIsOneShot
