CONSTANTS
  MaxPayloads <- MCMaxPayloads
  MaxPayloadSize <- MCMaxPayloadSize
  DefaultChunkSize <- MCDefaultChunkSize
  MTU <- MCSmallMTU
  KVOverhead <- MCKVOverhead
  ChunkSizes <- MCAnyChunkSizes
  ProduceCallsPerTurn <- MCUntilFull
  HandlerFaults <- MCAllFaults
  ErrorCores <- MCErrorCores
SPECIFICATION Spec
INVARIANTS
  AppliedInOrder
  
  DataChunksNonEmpty
PROPERTIES
  Termination
