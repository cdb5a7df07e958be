CONSTANTS
  Chains <- MCChains
  OwnerKeys <- MCOwnerKeys
  NamedOwners <- MCNamedOwners
  Alphabet <- MCAlphabet
  MaxWordLen <- MCMaxWordLen
  NoKey = NoKey
  NoName = NoName
SPECIFICATION Spec
\* A verification call returns once; there is nothing after it.
CHECK_DEADLOCK FALSE
INVARIANT
  NamedOwnerWithinRootScope
