\* A fault after the owner's commit leaves the device with a credential the owner no longer holds.
SPECIFICATION Spec
CONSTANTS
  NumTo1 <- MCNumTo1
  BypassURLs = 0
  RvChoices <- MCRvChoices
  RvOnlyFlags <- MCNoRvOnly
  Faults <- MCAllFaults
  MaxRuns <- MCMaxRuns
INVARIANT
  CredentialInSync
