CONSTANTS
  MaxPayloads <- MCMaxPayloads
  MaxPayloadSize <- MCMaxPayloadSize
  DefaultChunkSize <- MCDefaultChunkSize
  MTU <- MCMTU
  KVOverhead <- MCKVOverhead
  ChunkSizes <- MCChunkSizes
  ProduceCallsPerTurn <- MCUntilFull
  HandlerFaults <- MCNoFaults
  ErrorCores <- MCAbortingCore
SPECIFICATION Spec
INVARIANT
  NoAbortWithoutFault
