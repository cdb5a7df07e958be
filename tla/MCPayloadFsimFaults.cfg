CONSTANTS
  MaxPayloads <- MCMaxPayloads
  MaxPayloadSize <- MCMaxPayloadSize
  DefaultChunkSize <- MCDefaultChunkSize
  MTU <- MCMTU
  KVOverhead <- MCKVOverhead
  ChunkSizes <- MCChunkSizes
  ProduceCallsPerTurn <- MCOnePerTurn
  HandlerFaults <- MCAllFaults
  ErrorCores <- MCErrorCores
SPECIFICATION Spec
INVARIANTS
  TypeOK
  AppliedInOrder
  NoAbortWithoutFault
  CompleteOnDone
PROPERTIES
  Termination
