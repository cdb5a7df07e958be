CONSTANTS
  MaxPayloads <- MCMaxPayloads
  MaxPayloadSize <- MCMaxPayloadSize
  DefaultChunkSize <- MCDefaultChunkSize
  MTU <- MCMTU
  KVOverhead <- MCKVOverhead
  ChunkSizes <- MCChunkSizes
  ProduceCallsPerTurn <- MCOnePerTurn
  HandlerFaults <- MCChunkFault
  ErrorCores <- MCAbortingCore
SPECIFICATION Spec
INVARIANT
  HandlerClosedWhenIdle
