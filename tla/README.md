# TLA+ models of go-fdo (bkgoodman fork)

This directory holds TLA+ models of the parts of this go-fdo tree that carry
state or make non-trivial decisions, the TLC configurations that check them,
and `PROJECT.json`, which records every component, run, mutant, source mapping,
finding and hazard. The FIDO Device Onboard protocol engine (DI/TO0/TO1/TO2,
vouchers, the `serviceinfo` package) is **not** under `src/`. What this tree
contains is:

- the delegate-certificate verifier;
- the ServiceInfo modules (FSIMs);
- the COSE header codec pieces;
- signature-option selection;
- example client/server drivers.

Where a model needs behaviour of the engine, it is taken from `spec.md` and is
marked `spec_modelled` in the map.

## 1. Inventory of the system

| Component | Source | State it keeps | Operations | Interacts with |
|---|---|---|---|---|
| fdo.payload owner module | `fsim/payload_owner.go` | payloads, currentPayload, currentIndex, bytesSent, chunkSize, waitingForAck, lastError | AddPayload, SetChunkSize, ProduceInfo (begin / data / end / blocked / done), HandleInfo (active, ready, ack, result, error), Transition/reset | the device module, through the ServiceInfo exchange |
| fdo.payload device module | `unnamed/part_001` | receiving, totalBytes, expectedSize, buffer; Handler, Active | Receive (active, begin, data, end), reset on error, sendError, Yield (no-op), Transition | the owner module; the application's PayloadHandler (SupportsMimeType, BeginPayload, ReceiveChunk, EndPayload, CancelPayload) |
| ServiceInfo exchange | not in `src/` (spec §4.6) | the message being built, the MTU, whose turn it is, done flags | WriteChunk, one turn per side, ProduceInfo calls per turn, termination | all modules |
| Delegate verifier | `delegate.go` | none (pure); the chain after the ephemeral root is appended | processDelegateChain (VerifyDelegateChain / PrintDelegateChain), IsPermittedIdentifierRule, IsPermittedIdentifier, accessors, GenerateDelegate | TO2's owner-key check (not in `src/`), the delegate CLI |
| fdo.ssh modules | `fsim/ssh_owner.go`, `fsim/ssh_device.go` | keyIndex, pendingResponse; hostKeysSent, pendingError | add-key per ProduceInfo, host-keys reply, error | each other; the Linux example callbacks (authorized_keys, sudoers, host keys, known_hosts) |
| BKGcred (fdo.wget) modules | `fsim/ssh_owner.go` (appended), `fsim/bkgcred_device.go` (two variants) | sent, done; Sent, Name | active/bkg from the owner, d2o/done from the device | each other |
| Example client | `examples/cmd/client.go`, `unnamed/part_004` | the credential blob file | DI, TO1 loop over RV addresses, TO2 loop over owner addresses, saveBlob | rendezvous and owner servers |
| COSE headers | `unnamed/part_005` | none | Header marshal/unmarshal, Label marshal/unmarshal, omitEmpty, Algorithm | every signed structure |
| Signature options | `unnamed/part_000` | none | sigInfoFor, signOptsFor | signing |

### Hard behaviours

- **Interleaving of two modules over one message channel.**
  - Each side's turn may carry several KVs.
  - A module's state can be read by the next ProduceInfo call before the peer's answer to the previous KV has arrived.
- **Failures in the middle of a transfer.**
  - A handler callback may fail at begin, at a chunk, or when applying.
  - Every failure is fatal to the session (spec §4.5 and §7).
  - What the device application is left holding afterwards depends on which error path ran.
- **Resource bounds.** The MTU limits each message. Chunk sizes have to fit within it.
- **Adjacency checks of the delegate walk.**
  - The walk only compares each certificate with its parent.
  - Together these checks must guarantee the whole-chain properties that spec §3.3 states.
  - The owner key enters the walk only through a synthesized certificate.

### Properties that make each part correct

- **Payload:**
  - every payload the device application applies holds exactly the owner's bytes, in order;
  - the session aborts only when something actually failed;
  - normal completion means every payload was applied;
  - the exchange always ends;
  - a begun handler transfer is always either finished or cancelled;
  - no data chunk in flight is empty or larger than the chunk size in force.
- **Delegate:**
  - an accepted chain keeps its leaf inside every declared scope;
  - an accepted chain is anchored at the owner key;
  - the named-owner check is the one spec §4.4 describes.
- **fdo.ssh with BKGcred in one session:**
  - a session that ends done has installed every key and delivered the host keys;
  - BKGcred reports done only after it has the name, and reports once;
  - the owner's known_hosts always holds an in-order prefix of the device's host keys, and all of them when the session ends done;
  - the session ends.
- **Client driver:**
  - the credential blob is never torn;
  - after a successful transfer the device's credential matches the owner's voucher;
  - every run ends, and so does the older directive walk.
- **COSE headers:** a header marshalled by the sender is the header the receiver unmarshals, and the algorithm the receiver reads is the one the sender set.

## 2. Modules

### `PayloadFsim.tla`: the fdo.payload FSIM pair over the ServiceInfo exchange

The module has three groups of state variables:

- **Owner (PayloadOwner):**
  - `current`, which stands for `currentPayload != nil`;
  - `currentIndex`, `bytesSent`, `chunkSize`, `waitingForAck`;
  - `payloads`, the sizes given to AddPayload.
- **Device (Payload):** `receiving`, `totalBytes`, `expectedSize`.
- **Environment:**
  - the application handler: `handler` (none / idle / open) and `hbuf`, the bytes handed to ReceiveChunk;
  - the history `applied`, the byte sequences finalised by EndPayload;
  - the exchange: `turn`, `o2d`, `d2o`, `calls`, `stopped`, `carry`, `ownerDone`, `phase`;
  - the fault history `faults`.

Byte *i* of payload *k* is the pair `<<k, i>>`, so a chunk cut at the wrong offset, a skipped chunk and a repeated chunk are all visible.

**Owner actions.**

- `ProduceInfo` is split into one action per outcome:
  - `ProduceBlocked`: waiting for an ack, so the call returns blockPeer;
  - `ProduceDone`: no payload left, so the call returns moduleDone;
  - `ProduceBegin`: starts the next payload;
  - `ProduceData`: sends one chunk;
  - `ProduceEnd`: all data sent, sends end.
- `HandleInfo` has one action per key the device sends: `HandleReady`, `HandleAck`, `HandleResult`, `HandleError`. `HandleError` records the device's code in `lastError` (what `GetLastError` returns), drops the current payload and returns an error, which aborts TO2.
- `OwnerDeactivate` is `Transition(false)` once the module is done: it clears the transfer state and `lastError`.

**Device actions.**

- `Receive` has one action per key the owner sends: `ReceiveBegin`, `ReceiveData`, `ReceiveEnd`. Each one includes its error paths, the `reset()` that `Receive` runs after an error (`FailReceive`), and the handler callbacks.
- Every error path calls `sendError` with the code the code uses (1 unsupported MIME type, 4 handler failure, 6 no active transfer or size mismatch). What happens to that error KV is decided by the device core, which is not under `src/`: `errorsDelivered`, chosen at Init from `ErrorCores`, says whether the error KV reaches the owner (the session goes on) or the module error aborts TO2 first (spec §4.5).
- `DeviceSend` ends the device's turn. `Yield` adds nothing to it.

**Exchange (spec_modelled).**

- Each turn carries one message.
- `OwnerSend` ends the owner's turn after at most `ProduceCallsPerTurn` calls of ProduceInfo, or as soon as a call blocks or finishes.
- `WriteChunk` applies the MTU:
  - a data KV that does not fit closes the current message and opens the next one;
  - a KV larger than the MTU is a module error, which aborts the session (spec §4.6, §7).
  - Control KVs (begin, end) are a few bytes and always fit.
- The session ends when the owner's module is done and the device has nothing to send.

**Left out.**

- CBOR encoding, MIME types, names and metadata.
- Logging.
- The owner's `active` arm, which only logs; the owner never sends `active` anyway.

### `DelegateChain.tla`: the delegate-chain verifier

A certificate is modelled as a record of the fields the verifier reads:

- key and signer;
- subject and issuer CommonNames;
- the function-OID extension;
- the KeyUsage bits, `IsCA` and `BasicConstraintsValid`;
- the `Identifier` and `IdentifierConstraints` extensions.

An identifier string is the sequence of its comma-separated terms. A term is a sequence over `{a, b, *}`.

The operators, in the order the code runs:

- `GlobMatch` translates the regex that `IsPermittedIdentifierRule` builds.
- `EphemeralRoot` / `WithOwnerRoot` append the owner root, built as `GenerateDelegate` builds it.
- `CertOk` covers one iteration of the walk. `prevOwner` is the previous entry's constrs.
- `RootScopeOk` is the namedOwner check (lines 322-333).
- `ProcessDelegateChainOk` combines all of these.

The verifier returns the first error it meets, but it has no side effects, so which error comes first does not change the outcome. A quantifier over the chain's entries therefore stands for the early-return loop.

The state machine has one step, `VerifyDelegateChain`, over arguments chosen in `Init`.

`Expand`, `NamesOf` and `Within` give an independent reference semantics: the concrete names a pattern stands for, generated rather than matched. The properties are stated against this reference.


`PayloadFsim` also has `ProduceDataPanics`. `SetChunkSize` stores any int, so a negative chunk size slices backwards at `payload_owner.go:149`. That Go panic loses the session.

### `FsimSession.tla`: fdo.ssh and BKGcred in one TO2 session

Both module pairs run over one exchange. KVs carry their module name.

Owner turn:
- `HandleInfo` is routed by module: `HandleHostKeys` (with a failing `OnHostKeys`), `HandleD2O`, `HandleDone`.
- `ProduceInfo` is then called on each module not yet done, in order:
  - `ProduceAddKey`: `keyIndex` is advanced and the key written;
  - `ProduceSshDone`;
  - `ProduceBkgSend`: active and bkg, then `sent`;
  - `ProduceBkgWait`: moduleDone is `w.done`.
- `OwnerSend` sends the message.

Device turn:
- Each KV goes to its module:
  - `ReceiveAddKey`: a missing or failing `InstallAuthorizedKey` is an error, after which `reset()` clears `hostKeysSent`;
  - `ReceiveActive`: `Transition(true)` runs `reset()`;
  - `ReceiveBkg`.
- Then `Yield` is called on each module:
  - `SshYield`: host keys once, where a missing or failing `GetHostKeys` or an empty list aborts;
  - `BkgYield`.
- `DeviceSend` ends TO2 when every owner module is done and the message is empty.

A constant and an Init choice pick the code under test:
- `Variant` picks one of the two `BKGcred` device variants in `bkgcred_device.go`.
  - Variant 1 sends d2o and done once.
  - Variant 2 sends d2o on the first call and done on every later call.
- `yieldOnlyActive`, chosen at Init from `YieldModes`, picks one of two readings of the device core, which is not under `src/`.
  - In one reading, Yield is called only on modules an `active` KV has switched on.
  - In the other, it is called on every module.

`SSHOwner` never sends `fdo.ssh:active`. So under the first reading SSH.Yield is never called (`SshYieldSkipped`).

The SSH device callbacks are the Linux example implementation appended to `ssh_device.go`, modelled by what it does to the device's and the owner's files:
- `ResolveUser`: the add-key's username, else `DefaultUsername`, else `SUDO_USER`/`USER` (`linuxDefault`), else root.
- `InstallAuthorizedKey`: a user without a home directory (`homes`) or a failing file step ("fs") is an error; otherwise the key is appended to authorized_keys, and then, if the key asks for sudo, `GrantSudoAccess` writes the sudoers drop-in, which may fail ("sudo") after the key is already installed.
- `GetHostKeys`: reads the `.pub` files in `HostKeyPaths` order (`ReadHostKeys`, skipping missing and blank files); with `generate` set it first runs ssh-keygen for each missing file (`Generated`), which may fail ("keygen"); an empty result is an error.
- `OnHostKeys` on the owner: opening known_hosts may fail ("khopen"), and a write may fail after a prefix of the keys was written ("khwrite"); otherwise every key is appended to `knownHosts`.

The exchange helpers (`After`, `OwnerSend`, `DeviceSend`, `AllDone`, `DeviceMayYield`) are spec_modelled from §4.6. The pendingResponse/pendingError paths of the SSH modules are not modelled: nothing in `src/` sets them.

### `CoseHeader.tla`: COSE header encoding (`unnamed/part_005`)

A sender-to-receiver pipeline of one header:
- `MarshalHeader` is `Header.MarshalCBOR`: `newRawHeaderMap` marshals each value, `LabelMarshal` each label (an int label as its int; a text label as `cbor.Marshal(l.String)`, the method value, which has no encoding), the protected map goes through `omitEmpty` (`newEmptyOrSerializedMap`), and the pair is an array;
- `UnmarshalHeader` is `Header.UnmarshalCBOR`: the protected bstr (empty, or a serialized map), the unprotected map, `LabelUnmarshal` of each key. `BstrSkipsEmpty` covers both things the cbor package may do with an empty bstr;
- `ReadAlgorithm` is `Header.Algorithm` through `HeaderMap.Parse`.

The cbor package is not under `src/`. `Enc`/`Dec` are a canonical encoder and decoder over a small CBOR data model (ints, text and byte strings, arrays, maps; shortest heads, sorted map keys), spec_modelled from §4.1. `MCCoseHeader` checks as an ASSUME that they are inverse on every value used.

### `ClientDriver.tla`: the example client, run after run

The state has three parts:
- **Files:** `disk` is the content of blobPath and `tmp` the temp file of saveBlob. Each holds nothing, an empty file, a torn encoding, or a credential GUID.
- **The client process:** `pc`, `exit`, `cred`, `newCred`, `to1d`, `i`, `j`, `to2URLs`, `rvOnly`.
- **The server's view:** `ownerGUID` (the voucher it holds) and `nextGUID`.

The actions follow `client()` in order:
- `Start`: `-di` when there is no blob, and the operator may pass `-rv-only`;
- `DIFail`, `DIOk`;
- `OpenBlob`, where a missing or torn blob is an error;
- `TO1Fail`, `TO1Ok`, `TO1Exhausted`: each TO1 URL once. `TO1Ok` turns the To1d's RV addresses into URLs with `Usable`/`ToURL`: DNS before IP, the protocol's default port, and skips;
- `RvOnlyStop`: prints `to1d.Payload.Val`, which panics on a nil To1d;
- `GoTO2`, `TO2Fail`, `TO2Ok`, `TO2LostDone2`, `TO2Exhausted`: each TO2 URL once;
- `SaveCreate`, `SaveEncode`, `SaveRename`: each step can fail;
- `Kill`: the process is killed between any two steps.

The server side is not under src/ and is spec_modelled:
- DI stores a voucher for a fresh GUID (spec §4.5).
- TO2 succeeds only for the GUID the owner holds (spec §4.5).
- The owner replaces that voucher before it sends Done2. This is an assumption about the owner server, not a statement of spec.md: §4.5 step 7 only says that the device commits the new credential after Done2. The `client_desync` finding depends on it: with an owner that commits only after the device does, a lost Done2 would not desynchronise the two.

### `LegacyTransfer.tla`: the earlier client's directive walk (`unnamed/part_004`)

The walk goes over the RV directives in order:
- `SkipDirective`: the protocol is missing, not a uint8 or not HTTP, or there is neither DNS nor IP;
- `StartDirective`;
- `TO1Dns`: an error continues with the next directive, and an empty answer falls through to the IP;
- `TO1Ip`;
- `CheckAddrs`: no addresses, or `-rv-only`, continues;
- `TO2`: each address once, and the first credential returns;
- `Exhausted`.

### MC modules

- `MCPayloadFsim.tla`: the scaled-down sizes, chunk sizes (unset, negative, 2, 3), MTUs, scheduling modes and fault sets.
- `MCDelegateChain.tla` builds the candidate chains:
  - well-formed chains of 1-3 certificates with varied identifiers;
  - chains with one broken field per certificate;
  - in both sets, the root is signed by the owner key, by itself, or by an outside CA.
- `MCFsimSession.tla`:
  - up to two keys, each either for user `admin` with sudo or for no user without sudo;
  - the default user unset or `admin` (`SUDO_USER`), and no `DefaultUsername`;
  - every subset of the two SSH device callbacks;
  - every callback failure: no home directory (only root has one), a file error, a failing sudoers write, a failing ssh-keygen, a failing known_hosts open or write;
  - two host-key files (rsa, ed25519) in four combinations of present, blank and missing, and generation on or off.
- `MCCoseHeader.tla`: labels alg (1), kid (4), a negative private label and the text label `"a"`; values an int, a text string and an empty byte string; up to two entries per map.
- `MCClientDriver.tla`:
  - two TO1 URLs;
  - three To1d address lists covering every skip (no host, a non-HTTP protocol) and every port rule;
  - three client runs: DI, a transfer, and a run after it;
  - every fault, and both `-rv-only` settings.
- `MCLegacyTransfer.tla`: every list of up to two directives over every protocol/DNS/IP case, and up to two TO2 addresses.

## 3. Runs

| Run | Config | Expect | What it shows |
|---|---|---|---|
| payload_faults | `MCPayloadFsimFaults.cfg` | pass | go-fdo's scheduling (one ProduceInfo call per turn), with every handler failure possible and both device cores (error KV delivered or module error fatal). A session aborts only after a failure, never applies a corrupted payload, applies every payload when it ends done, and ends. |
| payload_batched | `MCPayloadFsimBatched.cfg` | pass | ProduceInfo is called until the message is full (spec §4.6), with a small MTU. Chunk sizes are unset, negative or above the MTU. KVs carry over; whatever aborts, nothing corrupted is applied, no empty or oversized data chunk is sent, and the session ends. |
| payload_cancel | `MCPayloadFsimCancel.cfg` | violation | `HandlerClosedWhenIdle`: after a ReceiveChunk failure the handler stays begun and is never cancelled. |
| payload_until_full | `MCPayloadFsimUntilFull.cfg` | violation | `NoAbortWithoutFault`: under the spec's scheduling the owner sends `end` twice and the device aborts TO2. |
| delegate_verify | `MCDelegateChain.cfg` | pass | An accepted chain scopes its leaf within every constrained CA, and is anchored at the owner key. |
| delegate_named_owner | `MCDelegateChainNamedOwner.cfg` | violation | `NamedOwnerWithinRootScope`: the root-scope check runs with swapped arguments; root scope `a` accepts named owner `*`. |
| session_cores | `MCFsimSessionCores.cfg` | pass | Both device cores, with BKGcred variant 1 and the Linux callbacks under every failure. Every session ends. The owner's known_hosts is always an in-order prefix of the device's host keys, whatever callback fails. Under the core that yields only to activated modules, done follows the name and d2o is reported once. Under the core that yields to every module, a session that ends done has every key, and the owner's known_hosts holds exactly the device's host keys. |
| session_livelock | `MCFsimSessionLivelock.cfg` | violation | `Termination`: BKGcred variant 2 writes done on every Yield, so TO2 never ends. |
| client_faults | `MCClientDriverFaults.cfg` | pass | Three runs under every fault, each with or without `-rv-only`. The blob is never torn, a transferring run that exits 0 leaves the device in sync with the owner, and every run ends. |
| client_desync | `MCClientDriverDesync.cfg` | violation | `CredentialInSync`: TO2 commits at the owner, then CreateTemp fails (or the process dies, or Done2 is lost). The device keeps a GUID the owner has replaced. |
| legacy_walk | `MCLegacyTransfer.cfg` | pass | The older walk, over every directive shape and every TO1/TO2 outcome, always returns. |
| cose_labels | `MCCoseHeaderLabels.cfg` | violation | `RoundTrip`: `Label.MarshalCBOR` marshals the method value `l.String` instead of its result, so no header with a text label can be marshalled. |

Some disagreements were found while modelling and are not kept as runs. They are recorded as hazards in `PROJECT.json`:
- the default chunk size ignores the MTU;
- SetChunkSize(-1) panics;
- `-rv-only` with no To1d panics;
- SSH callbacks are required although the file's notes describe defaults;
- `SSHOwner` never activates fdo.ssh;
- BKGcred variant 1 reports done before the name under an eager core;
- the older walk skips the IP after a DNS TO1 error, although its comment at `part_004:225` says "Try DNS then IP" (`part_004:237`);
- a key asking for sudo stays installed without sudo when the sudoers write fails, and TO2 aborts, although the comment at `ssh_device.go:272` says sudo setup is best-effort and only logged.

These two are not stated as properties of the passing runs: a passing property there would hide the disagreement, and a violation run for each needs a run slot.

### Properties

- **`AppliedInOrder`.** Each entry of `applied` is exactly the bytes of the payload with the same index. It spans begin, every data/ack round and end, over several turns of both sides.
- **`NoAbortWithoutFault`.** The session aborts only if the handler failed. This needs owner and device to agree on every ack count, on the chunk sizes, and on the order of the keys.
- **`CompleteOnDone`.** A normal end means every payload was applied and the handler is not left open.
- **`DataChunksNonEmpty`.** Every data KV in flight holds at least one byte and at most the chunk size in force. It depends on `SetChunkSize(0)` being replaced by the default at the next begin, a step taken long before the chunk is cut (`payload_owner.go:303`).
- **`Termination`.** The exchange, the session, the client run, or the walk always ends.
- **`HandlerClosedWhenIdle`.** The handler is open only while the device module is receiving.
- **`ScopedLeafPermitted`.** When a chain is accepted, the leaf's names lie within those of every CA that declares constraints. The code only compares adjacent entries, and compares patterns with patterns.
- **`AnchoredAtOwnerKey`.** When a chain is accepted, each certificate is signed by the next one, and the root is signed by the owner key. The code only establishes the second part through the ephemeral certificate.
- **`NamedOwnerWithinRootScope`.** Spec §4.4 step 4.
- **`SshCompleteOnDone`.** Under the core that yields to every module, a session that ends done has installed every key, and the owner has the host keys.
- **`NameBeforeDone`.** Under the core that yields only to activated modules, the owner sees BKGcred's done only after the device has the bkg name.
- **`ReportedOnce`.** Under that core, d2o reaches the owner at most once.
- **`DiskNeverTorn`.** blobPath never holds a partial encoding, whenever the process dies.
- **`ExitOkInSync`.** A run without `-rv-only` that exits 0 leaves the blob naming the owner's voucher.
- **`CredentialInSync`.** Whenever no client runs, a saved credential is the one the owner holds.
- **`HostKeysRecorded`.** In every state the owner's known_hosts holds a prefix of the device's host keys in path order: `OnHostKeys` writes one line per key and stops at the first failing write (`ssh_device.go:436`). Under the core that yields to every module, a session that ends done leaves the owner's known_hosts holding exactly the keys the device's `.pub` files hold, in order: a generated key included, a blank file skipped, none written twice.
- **`RoundTrip`.** A header with int and text labels marshals, the receiver unmarshals the same header, and reads the sender's algorithm.

Each property of a passing run has a mutant in `PROJECT.json`: a plausible bug in the code it talks about, which TLC finds.

### Bounds

- **Payload model.**
  - Three payloads of up to three bytes cover:
    - an empty payload, whose size is omitted from begin, so the size check is skipped;
    - a payload that needs a partial last chunk (3 bytes, chunk 2);
    - a payload that fits in one chunk;
    - a payload following a completed one.
  - The MTU is 4 units with 1 unit of KV overhead, and the small MTU is 3. With these, a data KV either fits, overflows into the next message, or cannot be sent at all.
  - `ProduceCallsPerTurn = 3` is enough to batch begin+data and to repeat `end`.
- **Delegate model.**
  - Chains of 1-3 certificates cover leaf-only, leaf+root, and leaf+intermediate+root, each with and without the ephemeral owner root.
  - The identifier set has:
    - literal terms;
    - a trailing wildcard (`a*`) and a leading wildcard (`*b`);
    - the universal `*`;
    - a two-term list.
  - These give narrowing, widening and wildcard-on-wildcard comparisons.
  - Names up to length 3 over `{a, b}` tell these patterns apart.
- **Session model.** Two keys give an add-key after another and a done after the last. `reports` is bounded by the property checked: one report more breaks it. Two users (root and admin) with one of them possibly homeless, two host-key files, and four combinations of present, blank and missing files cover every branch of resolveUser, InstallAuthorizedKey, readHostKeys and generateHostKeys, including a generated key next to a present one.
- **COSE model.** One int label, one text label and the alg label, with up to two entries per map, give an empty protected map, a map with alg, and a map mixing label kinds; TLC meets the text label in the first header it builds with one.
- **Client model.** Three runs are the smallest number that shows a run after a failed save: DI, the transfer, and the next attempt. Two TO1 URLs give a retry after a failure.
- **Legacy model.** Two directives give a failure of one followed by the next.

### Fairness

- **Payload and session models.** They assume weak fairness of the owner's steps and of the device's steps. Each side of a TO2 session is a request/response loop that handles a message as soon as it has one, and nothing else in the session competes with it. Handler and callback failures are not fair choices: they are nondeterministic outcomes inside the actions.
- **Client model.** It assumes weak fairness of `ClientStep`: a running client proceeds. `Kill` and `Start` are not fair, because the process may or may not be killed, and the operator may stop starting it (`Stopped`).
- **Legacy model.** It assumes weak fairness of the walk's steps.

The delegate model is a single call. Its configurations use `CHECK_DEADLOCK FALSE` because the call really does return and stop. The client model stops after `MaxRuns` runs with a stuttering `Stopped` step, and the legacy walk with `Returned`.

## 4. Not modelled, and why

- The DI/TO0/TO1/TO2 engine, vouchers, the `serviceinfo` package and the `cbor` package are not in `src/`. The ServiceInfo exchange, DI, the owner's TO2 commit and the CBOR codec are modelled from the spec and marked spec_modelled.
- `HashAlg.String`, `HmacVerify`, `sshErrorString` and `signOptsFor` are table lookups and a comparison, with no state. `sigInfoFor` hands `signOptsFor`'s result to `cose.SignatureAlgorithmFor`, which is not under `src/`.
- The capability flags (`capability_flags.go`) are a CBOR codec with no state. Its one doubtful step, decoding `VendorUnique` with a second decoder over the same reader and ignoring the error, depends on how the cbor package buffers its input, which is not under `src/`.
- `fdo.go` declares types only. `part_009` holds the device credential and Signer stubs, all `panic("unimplemented")`.
- The delegate CLI (`examples/cmd/delegate.go`) does not compile against `delegate.go`: it calls `GenerateDelegate` with 5 of its 8 arguments and `VerifyDelegateChain` with 3 of its 4. There is no behaviour of this tree to model there; the verifier it would call is `DelegateChain.tla`.
- The example server (`examples/cmd/server.go`) wires HTTP handlers, a database and the FSIMs. The one decision it makes for the device, the RV directive (DNS or IP from the host flag, the port, bypass), produces shapes that `LegacyTransfer`'s directive choices already enumerate.
- The fdo.ssh implementation guide appended to `ssh_owner.go` is a document.
- In `delegate.go`, `IsPermittedIdentifier` is called nowhere in `src/`, and `DelegateOIDtoString`, `KeyUsageToString`, `CertToString` and the other printers only format text for messages.
- saveBlob's durability on power loss (no fsync before rename) is not modelled. `DiskNeverTorn` covers a process crash between the file steps.
- The SSH modules' `pendingResponse`/`pendingError` paths are dead: nothing sets them.
- The example client's upload file system (`fsVar`) is path-name lookup with no state, and the fdo.upload module that calls it is not under `src/`. Reading it shows two things a unit test reaches directly: a request for a file inside a registered directory opens the directory itself (`client.go:109`), and a directory registered by absolute path is never found, because request paths cannot start with `/`.

## 5. Plan for the remaining work

The project is at the limit of twelve runs. What is left of `src/` is either covered above or listed under section 4 with the reason it is not modelled. Two things would each need a run slot:

1. A violation run for the sudo atomicity disagreement (`ssh_device.go:271`).
2. A violation run for the upload file system's directory lookup (`client.go:109`).
