\* One publication and one account are enough to answer the prompt late.
CONSTANTS
  Publications = {p1}
  Accounts = {a}
  SignedOut = SignedOut
  NoTarget = NoTarget
  MaxKeys = 2
SPECIFICATION Spec
PROPERTIES
  SubscribesLocalOnly
