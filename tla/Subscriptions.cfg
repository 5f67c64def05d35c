\* Two publications and two accounts: sign-ins alternate, and four records are
\* enough for a duplicate made by another device.
CONSTANTS
  Publications = {p1, p2}
  Accounts = {a, b}
  SignedOut = SignedOut
  NoTarget = NoTarget
  MaxKeys = 4
SPECIFICATION Spec
SYMMETRY Symmetry
INVARIANTS
  TypeOK
  Mirrored
PROPERTIES
  UnfollowDeletesItsOwn
  LinkedOrAsked
