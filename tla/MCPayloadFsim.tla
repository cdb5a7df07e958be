---------------------------- MODULE MCPayloadFsim ----------------------------
(* Model-checking instance of PayloadFsim: up to three payloads of up to   *)
(* three bytes, so that a payload needs a partial last chunk, an empty one *)
(* omits its size, and a later payload follows a completed one.            *)
EXTENDS PayloadFsim

\* Scaled-down sizes: one unit stands for a fixed number of bytes.
MCMaxPayloads == 3
MCMaxPayloadSize == 3
MCKVOverhead == 1
MCMTU == 4
\* An MTU smaller than the default chunk plus its KV overhead.
MCSmallMTU == 3

\* SetChunkSize(2) (two chunks for a 3-byte payload) or SetChunkSize(3).
MCChunkSizes == {2, 3}
\* SetChunkSize never called (the default, larger than the MTU allows:
\* 4096 against the 1200-1500 byte MTUs of spec §4.6), 2, 3, and a
\* negative size SetChunkSize also accepts.
MCAnyChunkSizes == {-1, 0, 2, 3}
MCDefaultChunkSize == 4

\* go-fdo's owner calls ProduceInfo once per message; spec §4.6 has it called
\* until the message is full or the modules block or finish.
MCOnePerTurn == 1
MCUntilFull == 3

MCNoFaults == {}
MCAllFaults == {"nohandler", "mime", "begin", "chunk", "apply"}
MCChunkFault == {"chunk"}

\* Device cores that abort on a module error, and ones that send its error KV.
MCErrorCores == BOOLEAN
MCAbortingCore == {FALSE}
=============================================================================
