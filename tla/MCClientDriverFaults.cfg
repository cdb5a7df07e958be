\* The client under every fault: killed at any step, Done2 lost, saveBlob failing, with and without -rv-only.
SPECIFICATION Spec
CONSTANTS
  NumTo1 <- MCNumTo1
  BypassURLs = 1
  RvChoices <- MCRvChoices
  RvOnlyFlags <- MCRvOnlyFlags
  Faults <- MCAllFaults
  MaxRuns <- MCMaxRuns
INVARIANTS
  TypeOK
  DiskNeverTorn
  ExitOkInSync
PROPERTIES
  Termination
