\* The earlier client's directive walk against failing rendezvous and owners.
SPECIFICATION Spec
CONSTANTS
  DirChoices <- MCDirChoices
  MaxAddrs <- MCMaxAddrs
  RvOnly = FALSE
INVARIANTS
  TypeOK
PROPERTIES
  Termination
