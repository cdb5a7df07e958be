----------------------------- MODULE PayloadFsim -----------------------------
(***************************************************************************)
(* The fdo.payload ServiceInfo module pair during TO2:                     *)
(*   - the owner module PayloadOwner   (src/fsim/payload_owner.go),        *)
(*   - the device module Payload       (src/unnamed/part_001),             *)
(*   - the device application's PayloadHandler callbacks (environment),    *)
(* composed through the turn-by-turn ServiceInfo exchange of spec §4.6.    *)
(* The exchange itself (serviceinfo.Producer, the module scheduler) is not *)
(* under src/ and is modelled from the spec.                               *)
(*                                                                         *)
(* Data abstraction: byte i of payload k is the pair <<k, i>>, so a chunk  *)
(* is the sequence of the bytes it carries and a mis-sliced, skipped or    *)
(* repeated byte is visible.  CBOR encoding, MIME types, names, metadata   *)
(* and logging are left out: no property tells them apart.                 *)
(***************************************************************************)
EXTENDS Integers, Sequences, SequencesExt, FiniteSets

CONSTANTS
  MaxPayloads,         \* most payloads the owner was given with AddPayload
  MaxPayloadSize,      \* largest payload, in bytes
  ChunkSizes,          \* values of SetChunkSize before the session (0: never called;
                       \* SetChunkSize takes any int)
  DefaultChunkSize,    \* the chunk size produceInfo falls back to (4096 in the code)
  MTU,                 \* bytes one ServiceInfo message may carry (spec §4.6)
  KVOverhead,          \* bytes a KV costs beyond its value
  ProduceCallsPerTurn, \* ProduceInfo calls the owner scheduler makes per turn
  HandlerFaults,       \* PayloadHandler failures the device application may show
  ErrorCores           \* device cores: TRUE sends the error KV of a failing module

ASSUME MaxPayloads \in Nat /\ MaxPayloadSize \in Nat
ASSUME ChunkSizes \subseteq Int /\ DefaultChunkSize \in Nat \ {0}
ASSUME MTU \in Nat /\ KVOverhead \in Nat
ASSUME ProduceCallsPerTurn \in Nat \ {0}
ASSUME HandlerFaults \subseteq {"nohandler", "mime", "begin", "chunk", "apply"}
ASSUME ErrorCores \subseteq BOOLEAN

VARIABLES
  payloads,       \* PayloadOwner.payloads: the sizes, in AddPayload order
  current,        \* PayloadOwner.currentPayload # nil (it then points at payloads[currentIndex])
  currentIndex,   \* PayloadOwner.currentIndex
  bytesSent,      \* PayloadOwner.bytesSent
  chunkSize,      \* PayloadOwner.chunkSize
  waitingForAck,  \* PayloadOwner.waitingForAck
  receiving,      \* Payload.receiving
  totalBytes,     \* Payload.totalBytes
  expectedSize,   \* Payload.expectedSize
  handler,        \* the PayloadHandler: "none" (nil), "idle" or "open" (begun, not ended or cancelled)
  hbuf,           \* bytes handed to the handler by ReceiveChunk since BeginPayload
  applied,        \* history: the byte sequences the handler finalised with EndPayload
  turn,           \* whose ServiceInfo turn it is: "owner" or "device"
  o2d,            \* KVs of the owner's ServiceInfo message (being built, then in flight)
  d2o,            \* KVs of the device's ServiceInfo message (replies written via respond)
  calls,          \* ProduceInfo calls made in the owner's current turn
  stopped,        \* the owner's message is closed: ProduceInfo blocked or finished, or it is full
  carry,          \* a KV that did not fit in the closed message, opening the next one
  ownerDone,      \* the owner module reported moduleDone
  phase,          \* the TO2 session: "running", "done" or "aborted"
  faults,         \* history: handler failures injected so far
  lastError,      \* PayloadOwner.lastError: the code of the device's error (0: nil)
  ownerActive,    \* the owner module has not been switched off by Transition(false)
  errorsDelivered \* the device core sends a failing module's error KV (see FailReceive)

ownerVars   == <<payloads, current, currentIndex, bytesSent, chunkSize, waitingForAck>>
deviceVars  == <<receiving, totalBytes, expectedSize>>
handlerVars == <<handler, hbuf, applied>>
xchgVars    == <<turn, o2d, d2o, calls, stopped, carry, ownerDone, phase, faults>>
errVars     == <<lastError, ownerActive, errorsDelivered>>
vars        == <<ownerVars, deviceVars, handlerVars, xchgVars, errVars>>

KV(k, v) == [key |-> k, val |-> v]

\* The codes Payload.sendError uses (1 Unknown MIME Type, 4 Unable to Apply,
\* 6 Transfer Error); the decoder (code 2) never fails on what the owner sends.
ErrorCodes == {1, 4, 6}

\* The bytes of payload k (1-based; the code's payloads[k-1]).
PayloadData(k) == [i \in 1..payloads[k] |-> <<k, i>>]

Bytes == {<<k, i>> : k \in 1..MaxPayloads, i \in 1..MaxPayloadSize}

IsByteSeq(s) == Len(s) <= MaxPayloadSize /\ Range(s) \subseteq Bytes

IsKV(kv) ==
  \/ kv.key \in {"begin", "ack"} /\ kv.val \in 0..MaxPayloadSize
  \/ kv.key = "data" /\ IsByteSeq(kv.val)
  \/ kv.key \in {"end", "ready"} /\ kv.val = TRUE
  \/ kv.key = "result" /\ kv.val \in BOOLEAN
  \/ kv.key = "error" /\ kv.val \in ErrorCodes

-----------------------------------------------------------------------------
(* The ServiceInfo producer (spec §4.6, modelled from the spec).           *)

\* Serialized size of a KV: only data values are large.
KVSize(kv) == KVOverhead + (IF kv.key = "data" THEN Len(kv.val) ELSE 0)

MsgSize(msg) == FoldLeft(LAMBDA acc, kv : acc + KVSize(kv), 0, msg)

\* producer.WriteChunk of a control KV (begin, end): a few bytes, far below
\* any MTU, so it always joins the message being built.
WriteControl(kv) ==
  /\ o2d' = Append(o2d, kv)
  /\ UNCHANGED <<phase, stopped, carry>>

\* producer.WriteChunk of a data KV: it joins the owner's message while it fits in the
\* MTU; one that does not closes the message and opens the next one; one
\* larger than the MTU can never be sent and is a module error, which aborts
\* the session (spec §4.5).
WriteChunk(kv) ==
  \/ /\ MsgSize(o2d) + KVSize(kv) <= MTU
     /\ o2d' = Append(o2d, kv)
     /\ UNCHANGED <<phase, stopped, carry>>
  \/ /\ MsgSize(o2d) + KVSize(kv) > MTU /\ KVSize(kv) <= MTU
     /\ carry' = <<kv>>
     /\ stopped' = TRUE
     /\ UNCHANGED <<o2d, phase>>
  \/ /\ KVSize(kv) > MTU
     /\ phase' = "aborted"
     /\ UNCHANGED <<o2d, stopped, carry>>

-----------------------------------------------------------------------------
(* PayloadOwner.produceInfo, one action per outcome of a call.             *)

OwnerMayProduce ==
  /\ phase = "running" /\ turn = "owner" /\ d2o = <<>>
  /\ ~stopped /\ ~ownerDone /\ calls < ProduceCallsPerTurn

\* Waiting for an acknowledgment: return blockPeer.
ProduceBlocked ==
  /\ OwnerMayProduce
  /\ waitingForAck
  /\ stopped' = TRUE
  /\ calls' = calls + 1
  /\ UNCHANGED <<ownerVars, deviceVars, handlerVars, turn, o2d, d2o, carry, ownerDone, phase, faults, errVars>>

\* Faulty variant (mutation analysis): done one payload early.
ProduceDoneEarly ==
  /\ OwnerMayProduce
  /\ ~waitingForAck /\ ~current
  /\ currentIndex >= Len(payloads) - 1
  /\ ownerDone' = TRUE
  /\ stopped' = TRUE
  /\ calls' = calls + 1
  /\ UNCHANGED <<ownerVars, deviceVars, handlerVars, turn, o2d, d2o, carry, phase, faults, errVars>>

\* No current payload and none left: return moduleDone.
ProduceDone ==
  /\ OwnerMayProduce
  /\ ~waitingForAck /\ ~current
  /\ currentIndex >= Len(payloads)
  /\ ownerDone' = TRUE
  /\ stopped' = TRUE
  /\ calls' = calls + 1
  /\ UNCHANGED <<ownerVars, deviceVars, handlerVars, turn, o2d, d2o, carry, phase, faults, errVars>>

\* Faulty variant (mutation analysis): the 4096 default is not applied, so an
\* unset chunk size stays 0.
ProduceBeginNoDefault ==
  /\ OwnerMayProduce
  /\ ~waitingForAck /\ ~current
  /\ currentIndex < Len(payloads)
  /\ current' = TRUE
  /\ bytesSent' = 0
  /\ WriteControl(KV("begin", payloads[currentIndex + 1]))
  /\ calls' = calls + 1
  /\ UNCHANGED <<payloads, currentIndex, chunkSize, waitingForAck, deviceVars, handlerVars,
                 turn, d2o, ownerDone, faults, errVars>>

\* Start the next payload: the begin KV carries its size, omitted (0) when empty.
ProduceBegin ==
  /\ OwnerMayProduce
  /\ ~waitingForAck /\ ~current
  /\ currentIndex < Len(payloads)
  /\ current' = TRUE
  /\ bytesSent' = 0
  /\ chunkSize' = IF chunkSize = 0 THEN DefaultChunkSize ELSE chunkSize
  /\ WriteControl(KV("begin", payloads[currentIndex + 1]))
  /\ calls' = calls + 1
  /\ UNCHANGED <<payloads, currentIndex, waitingForAck, deviceVars, handlerVars,
                 turn, d2o, ownerDone, faults, errVars>>

\* Length of the next data chunk: chunkSize, cut to what remains.
ChunkLen ==
  LET remaining == payloads[currentIndex + 1] - bytesSent
  IN  IF chunkSize > remaining THEN remaining ELSE chunkSize

\* Faulty variant (mutation analysis): slicing from the start of the payload.
ChunkFromStart(len) == SubSeq(PayloadData(currentIndex + 1), 1, len)

\* The bytes data[bytesSent : bytesSent+chunkLen] of the current payload.
Chunk(len) == SubSeq(PayloadData(currentIndex + 1), bytesSent + 1, bytesSent + len)

\* Faulty variant (mutation analysis): bytesSent advanced by the uncut chunkSize.
ProduceDataUncut ==
  /\ OwnerMayProduce
  /\ ~waitingForAck /\ current
  /\ bytesSent < payloads[currentIndex + 1]
  /\ WriteChunk(KV("data", Chunk(ChunkLen)))
  /\ bytesSent' = bytesSent + chunkSize
  /\ waitingForAck' = TRUE
  /\ calls' = calls + 1
  /\ UNCHANGED <<payloads, current, currentIndex, chunkSize, deviceVars, handlerVars,
                 turn, d2o, ownerDone, faults, errVars>>

\* Send the next chunk and wait for its acknowledgment.
ProduceData ==
  /\ OwnerMayProduce
  /\ ~waitingForAck /\ current
  /\ bytesSent < payloads[currentIndex + 1]
  /\ ChunkLen >= 0
  /\ WriteChunk(KV("data", Chunk(ChunkLen)))
  /\ bytesSent' = bytesSent + ChunkLen
  /\ waitingForAck' = TRUE
  /\ calls' = calls + 1
  /\ UNCHANGED <<payloads, current, currentIndex, chunkSize, deviceVars, handlerVars,
                 turn, d2o, ownerDone, faults, errVars>>

\* A negative chunkSize (SetChunkSize took it as it was) makes the slice
\* data[bytesSent : bytesSent+chunkLen] run backwards: the Go runtime
\* panics inside produceInfo and the TO2 session is lost.
ProduceDataPanics ==
  /\ OwnerMayProduce
  /\ ~waitingForAck /\ current
  /\ bytesSent < payloads[currentIndex + 1]
  /\ ChunkLen < 0
  /\ phase' = "aborted"
  /\ UNCHANGED <<ownerVars, deviceVars, handlerVars, turn, o2d, d2o, calls, stopped,
                 carry, ownerDone, faults, errVars>>

\* All data sent: send end (no state records that it was sent).
ProduceEnd ==
  /\ OwnerMayProduce
  /\ ~waitingForAck /\ current
  /\ bytesSent >= payloads[currentIndex + 1]
  /\ WriteControl(KV("end", TRUE))
  /\ calls' = calls + 1
  /\ UNCHANGED <<ownerVars, deviceVars, handlerVars, turn, d2o, ownerDone, faults, errVars>>

\* The scheduler ends the owner's turn and sends its message.
OwnerSend ==
  /\ phase = "running" /\ turn = "owner" /\ d2o = <<>>
  /\ stopped \/ ownerDone \/ calls = ProduceCallsPerTurn
  /\ turn' = "device"
  /\ calls' = 0
  /\ stopped' = FALSE
  /\ UNCHANGED <<ownerVars, deviceVars, handlerVars, o2d, d2o, carry, ownerDone, phase, faults, errVars>>

-----------------------------------------------------------------------------
(* PayloadOwner.receive (HandleInfo), one action per key the device sends. *)

OwnerMayHandle(key) ==
  /\ phase = "running" /\ turn = "owner"
  /\ d2o # <<>> /\ Head(d2o).key = key
  /\ d2o' = Tail(d2o)

HandleReady ==
  /\ OwnerMayHandle("ready")
  /\ UNCHANGED <<ownerVars, deviceVars, handlerVars, turn, o2d, calls, stopped, carry, ownerDone, phase, faults, errVars>>

\* Faulty variant (mutation analysis): the ack does not clear waitingForAck.
HandleAckKeepsWaiting ==
  /\ OwnerMayHandle("ack")
  /\ phase' = IF Head(d2o).val # bytesSent THEN "aborted" ELSE phase
  /\ UNCHANGED <<ownerVars, deviceVars, handlerVars,
                 turn, o2d, calls, stopped, carry, ownerDone, faults, errVars>>

\* waitingForAck is cleared before the count is compared with bytesSent.
HandleAck ==
  /\ OwnerMayHandle("ack")
  /\ waitingForAck' = FALSE
  /\ phase' = IF Head(d2o).val # bytesSent THEN "aborted" ELSE phase
  /\ UNCHANGED <<payloads, current, currentIndex, bytesSent, chunkSize, deviceVars, handlerVars,
                 turn, o2d, calls, stopped, carry, ownerDone, faults, errVars>>

\* Whatever the success flag, move to the next payload.
HandleResult ==
  /\ OwnerMayHandle("result")
  /\ current' = FALSE
  /\ currentIndex' = currentIndex + 1
  /\ bytesSent' = 0
  /\ UNCHANGED <<payloads, chunkSize, waitingForAck, deviceVars, handlerVars,
                 turn, o2d, calls, stopped, carry, ownerDone, phase, faults, errVars>>

\* error: the device's code becomes lastError (GetLastError), the current
\* payload is dropped, and the module error ends TO2.
HandleError ==
  /\ OwnerMayHandle("error")
  /\ lastError' = Head(d2o).val
  /\ current' = FALSE
  /\ bytesSent' = 0
  /\ phase' = "aborted"
  /\ UNCHANGED <<payloads, currentIndex, chunkSize, waitingForAck, deviceVars, handlerVars,
                 turn, o2d, calls, stopped, carry, ownerDone, faults,
                 ownerActive, errorsDelivered>>

\* Transition(false), which spec §4.6 permits once the module is done:
\* reset() clears the transfer state and lastError.
OwnerDeactivate ==
  /\ phase = "running" /\ ownerDone /\ ownerActive
  /\ current' = FALSE
  /\ currentIndex' = 0
  /\ bytesSent' = 0
  /\ waitingForAck' = FALSE
  /\ lastError' = 0
  /\ ownerActive' = FALSE
  /\ UNCHANGED <<payloads, chunkSize, deviceVars, handlerVars, xchgVars, errorsDelivered>>

-----------------------------------------------------------------------------
(* Payload.Receive on the device: receive, and reset() when it fails.      *)

DeviceMayReceive(key) ==
  /\ phase = "running" /\ turn = "device"
  /\ o2d # <<>> /\ Head(o2d).key = key
  /\ o2d' = Tail(o2d)

\* Payload.sendError writes an error KV through respond and receive returns
\* an error.  A core that aborts on a module error (spec §4.5, §7) never
\* sends that KV; a core that sends what the module wrote delivers it in the
\* device's next message and leaves the session to the owner's answer.
SendError(fault, code) ==
  /\ faults' = faults \cup fault
  /\ IF errorsDelivered
     THEN /\ d2o' = Append(d2o, KV("error", code))
          /\ UNCHANGED phase
     ELSE /\ phase' = "aborted"
          /\ UNCHANGED d2o

\* receive returned an error: Receive calls reset(), which cancels the
\* handler only if receiving is still set.
FailReceive(recv, fault, code) ==
  /\ handler' = IF recv /\ handler # "none" THEN "idle" ELSE handler
  /\ hbuf' = IF recv /\ handler # "none" THEN <<>> ELSE hbuf
  /\ receiving' = FALSE
  /\ totalBytes' = 0
  /\ expectedSize' = 0
  /\ SendError(fault, code)
  /\ UNCHANGED <<ownerVars, applied, turn, calls, stopped, carry, ownerDone,
                 lastError, ownerActive, errorsDelivered>>

\* begin: no handler, unsupported MIME type or failing BeginPayload is an
\* error; otherwise the handler is opened and the device answers ready.
ReceiveBegin ==
  /\ DeviceMayReceive("begin")
  /\ \/ /\ handler = "none"
        /\ FailReceive(receiving, {}, 4)
     \/ /\ handler # "none" /\ "mime" \in HandlerFaults
        /\ FailReceive(receiving, {"mime"}, 1)
     \/ /\ handler # "none" /\ "begin" \in HandlerFaults
        /\ FailReceive(receiving, {"begin"}, 4)
     \/ /\ handler # "none"
        /\ handler' = "open"
        /\ hbuf' = <<>>
        /\ receiving' = TRUE
        /\ totalBytes' = 0
        /\ expectedSize' = Head(o2d).val
        /\ d2o' = Append(d2o, KV("ready", TRUE))
        /\ UNCHANGED <<ownerVars, applied, turn, calls, stopped, carry, ownerDone, phase, faults, errVars>>

\* Faulty variant (mutation analysis): the ack carries the chunk's length, not the total.
ReceiveDataAckChunk ==
  /\ DeviceMayReceive("data")
  /\ \/ /\ ~receiving
        /\ FailReceive(FALSE, {}, 6)
     \/ /\ receiving /\ "chunk" \in HandlerFaults
        /\ FailReceive(FALSE, {"chunk"}, 4)
     \/ /\ receiving
        /\ hbuf' = hbuf \o Head(o2d).val
        /\ totalBytes' = totalBytes + Len(Head(o2d).val)
        /\ d2o' = Append(d2o, KV("ack", Len(Head(o2d).val)))
        /\ UNCHANGED <<ownerVars, receiving, expectedSize, handler, applied,
                       turn, calls, stopped, carry, ownerDone, phase, faults, errVars>>

\* data: rejected when not receiving; a failing ReceiveChunk clears receiving
\* before the error; otherwise the bytes go to the handler and are acked.
ReceiveData ==
  /\ DeviceMayReceive("data")
  /\ \/ /\ ~receiving
        /\ FailReceive(FALSE, {}, 6)
     \/ /\ receiving /\ "chunk" \in HandlerFaults
        /\ FailReceive(FALSE, {"chunk"}, 4)
     \/ /\ receiving
        /\ hbuf' = hbuf \o Head(o2d).val
        /\ totalBytes' = totalBytes + Len(Head(o2d).val)
        /\ d2o' = Append(d2o, KV("ack", totalBytes + Len(Head(o2d).val)))
        /\ UNCHANGED <<ownerVars, receiving, expectedSize, handler, applied,
                       turn, calls, stopped, carry, ownerDone, phase, faults, errVars>>

\* end: rejected when not receiving or when a announced size was not met
\* (receiving cleared first); otherwise EndPayload finalises the handler and
\* its outcome goes back as result, or as an error when it fails.
ReceiveEnd ==
  /\ DeviceMayReceive("end")
  /\ \/ /\ ~receiving
        /\ FailReceive(FALSE, {}, 6)
     \/ /\ receiving
        /\ expectedSize > 0 /\ totalBytes # expectedSize
        /\ FailReceive(FALSE, {}, 6)
     \/ /\ receiving
        /\ expectedSize = 0 \/ totalBytes = expectedSize
        /\ handler' = "idle"
        /\ hbuf' = <<>>
        /\ \/ /\ "apply" \in HandlerFaults
              /\ applied' = applied
              /\ receiving' = FALSE
              /\ totalBytes' = 0
              /\ expectedSize' = 0
              /\ SendError({"apply"}, 4)
           \/ /\ applied' = Append(applied, hbuf)
              /\ receiving' = FALSE
              /\ \E success \in BOOLEAN : d2o' = Append(d2o, KV("result", success))
              /\ UNCHANGED <<totalBytes, expectedSize, phase, faults, errVars>>
        /\ UNCHANGED <<ownerVars, turn, calls, stopped, carry, ownerDone,
                       lastError, ownerActive, errorsDelivered>>

\* The device's turn ends: Payload.Yield has nothing to add.  The session is
\* over when the owner is done and the device has nothing more to say.
DeviceSend ==
  /\ phase = "running" /\ turn = "device" /\ o2d = <<>>
  /\ IF ownerDone /\ d2o = <<>> /\ carry = <<>>
     THEN phase' = "done" /\ turn' = turn
     ELSE phase' = phase /\ turn' = "owner"
  /\ o2d' = carry
  /\ carry' = <<>>
  /\ UNCHANGED <<ownerVars, deviceVars, handlerVars, d2o, calls, stopped, ownerDone, faults, errVars>>

\* A finished session stays finished.
Finished ==
  /\ phase # "running"
  /\ UNCHANGED vars

-----------------------------------------------------------------------------

Init ==
  /\ payloads \in BoundedSeq(0..MaxPayloadSize, MaxPayloads)
  /\ current = FALSE
  /\ currentIndex = 0
  /\ bytesSent = 0
  /\ chunkSize \in ChunkSizes
  /\ waitingForAck = FALSE
  /\ receiving = FALSE
  /\ totalBytes = 0
  /\ expectedSize = 0
  /\ handler \in IF "nohandler" \in HandlerFaults THEN {"none", "idle"} ELSE {"idle"}
  /\ hbuf = <<>>
  /\ applied = <<>>
  /\ turn = "owner"
  /\ o2d = <<>>
  /\ d2o = <<>>
  /\ calls = 0
  /\ stopped = FALSE
  /\ carry = <<>>
  /\ ownerDone = FALSE
  /\ phase = "running"
  /\ faults = IF handler = "none" THEN {"nohandler"} ELSE {}
  /\ lastError = 0
  /\ ownerActive = TRUE
  /\ errorsDelivered \in ErrorCores

OwnerStep ==
  \/ HandleReady \/ HandleAck \/ HandleResult \/ HandleError \/ OwnerDeactivate
  \/ ProduceBlocked \/ ProduceDone \/ ProduceBegin \/ ProduceData \/ ProduceDataPanics
  \/ ProduceEnd
  \/ OwnerSend

DeviceStep == ReceiveBegin \/ ReceiveData \/ ReceiveEnd \/ DeviceSend

Next == OwnerStep \/ DeviceStep \/ Finished

\* Each side handles a message as soon as it has it: the session is a
\* request/response loop with no other work to wait for.
Spec == Init /\ [][Next]_vars /\ WF_vars(OwnerStep) /\ WF_vars(DeviceStep)

-----------------------------------------------------------------------------
(* Properties.                                                             *)

TypeOK ==
  /\ payloads \in BoundedSeq(0..MaxPayloadSize, MaxPayloads)
  /\ current \in BOOLEAN /\ waitingForAck \in BOOLEAN
  /\ currentIndex \in 0..MaxPayloads /\ bytesSent \in 0..MaxPayloadSize
  /\ chunkSize \in ChunkSizes \cup {DefaultChunkSize}
  /\ receiving \in BOOLEAN /\ totalBytes \in 0..MaxPayloadSize /\ expectedSize \in 0..MaxPayloadSize
  /\ handler \in {"none", "idle", "open"}
  /\ IsByteSeq(hbuf)
  /\ Len(applied) <= MaxPayloads /\ \A j \in 1..Len(applied) : IsByteSeq(applied[j])
  /\ turn \in {"owner", "device"}
  /\ \A j \in 1..Len(o2d) : IsKV(o2d[j])
  /\ \A j \in 1..Len(d2o) : IsKV(d2o[j])
  /\ calls \in 0..ProduceCallsPerTurn
  /\ stopped \in BOOLEAN /\ ownerDone \in BOOLEAN
  /\ Len(carry) <= 1 /\ \A j \in 1..Len(carry) : IsKV(carry[j])
  /\ phase \in {"running", "done", "aborted"}
  /\ faults \subseteq HandlerFaults
  /\ lastError \in {0} \cup ErrorCodes
  /\ ownerActive \in BOOLEAN /\ errorsDelivered \in ErrorCores

\* Every payload the device application finalises with EndPayload is exactly
\* the bytes the owner was given for it, in AddPayload order: no chunk of
\* produceInfo's slicing is skipped, repeated or cut at the wrong offset,
\* and no payload is skipped or delivered twice.
AppliedInOrder ==
  \A j \in 1..Len(applied) : applied[j] = PayloadData(j)

\* With a handler that never fails, the payload exchange never aborts TO2:
\* owner and device agree on every ack count, chunk size and key sequence.
NoAbortWithoutFault ==
  phase = "aborted" => faults # {}

\* Every data KV on its way to the device (in the message being built or
\* carried into the next one) holds at least one byte and no more than the
\* chunk size in force: SetChunkSize(0) is replaced by the default at the
\* next begin, and produceInfo sends data only while bytes remain, so the
\* device is never sent an empty chunk it would acknowledge forever.
DataChunksNonEmpty ==
  \A kv \in ToSet(o2d) \cup ToSet(carry) :
    kv.key = "data" => 1 <= Len(kv.val) /\ Len(kv.val) <= chunkSize

\* When TO2 ends normally, every payload has been finalised on the device
\* and the handler is not left open.
CompleteOnDone ==
  phase = "done" =>
    /\ Len(applied) = Len(payloads)
    /\ handler # "open"

\* The handler is open only while the device module is receiving: every
\* way out of a transfer (end, an error, reset) either finalises or
\* cancels it (PayloadHandler contract, spec scenario 6).
HandlerClosedWhenIdle ==
  handler = "open" => receiving

\* The payload exchange always ends: produceInfo never blocks on an ack
\* that will not come, and end/result always follow the last chunk.
Termination ==
  <>(phase # "running")

=============================================================================
