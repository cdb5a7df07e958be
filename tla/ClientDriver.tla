---------------------------- MODULE ClientDriver ----------------------------
(***************************************************************************)
(* The example device client, src/examples/cmd/client.go: client(),        *)
(* saveBlob, di and transferOwnership, run again and again against one     *)
(* owner/manufacturer server.                                              *)
(*                                                                         *)
(* The device's credential blob is a file: it holds the GUID of a device   *)
(* credential, nothing, or a torn encoding.  A run of the client           *)
(*   - with -di (the operator's first run, when there is no blob) calls    *)
(*     DeviceInitialize and saves the credential it returns;               *)
(*   - otherwise opens and decodes the blob, tries TO1 on each TO1 URL     *)
(*     once, turns the To1d's RV addresses into TO2 URLs, and tries TO2 on *)
(*     each URL once; a new credential is saved with saveBlob (CreateTemp, *)
(*     Encode, Close, Rename).                                             *)
(* The server side is not under src/: DI stores a voucher for a fresh     *)
(* GUID and TO2 succeeds only for the GUID the owner holds a voucher for   *)
(* (spec §4.5).  That the owner replaces its voucher with one for a fresh  *)
(* GUID before it answers Done with Done2 is an assumption about the owner *)
(* server: spec §4.5 step 7 only says the device commits after Done2, and  *)
(* says nothing of when the owner does.                                    *)
(* fdo.BaseHTTP is outside src/ too: NumTo1 is the number                  *)
(* of TO1 URLs it yields and BypassURLs the TO2 URLs of RV bypass entries. *)
(* The process may be killed at any step (Faults).                         *)
(***************************************************************************)
EXTENDS Integers, Sequences, SequencesExt

CONSTANTS
  NumTo1,       \* TO1 URLs from fdo.BaseHTTP(cred.RvInfo)
  BypassURLs,   \* TO2 URLs from fdo.BaseHTTP (RV bypass entries)
  RvChoices,    \* possible RV lists of the To1d the rendezvous returns
  RvOnlyFlags,  \* the -rv-only settings the operator may start a run with
  Faults,       \* subset of {"crash", "lostdone2", "createfail",
                \*            "encodefail", "renamefail"}
  MaxRuns       \* bound on the client runs the operator starts

ASSUME NumTo1 \in Nat /\ RvOnlyFlags \subseteq BOOLEAN /\ MaxRuns \in Nat \ {0}
ASSUME Faults \subseteq {"crash", "lostdone2", "createfail", "encodefail", "renamefail"}

\* An RvTO2Addr: which of DNSAddress and IPAddress are set, its
\* TransportProtocol and its Port (0 when absent).
Addrs == [host : {"dns", "ip", "both", "none"}, proto : {"http", "https", "tcp"},
          port : {0, 8080}]
ASSUME RvChoices \subseteq Seq(Addrs)

\* A TO2 base URL: scheme, which host it names, port.
URLs == [scheme : {"http://", "https://"}, host : {"dns", "ip"}, port : {80, 443, 8080}]

VARIABLES
  disk,       \* content of blobPath: NoFile, Torn or a credential GUID
  tmp,        \* content of the temp file of saveBlob
  pc,         \* where the client process is; "idle" when none runs
  exit,       \* how the last run ended: "none", "ok", "err", "panic", "killed"
  cred,       \* GUID of the credential the run decoded
  newCred,    \* GUID of the credential DI or TO2 returned, 0 for nil
  to1d,       \* TO1 returned a To1d (to1d != nil)
  i, j,       \* next TO1 URL, next TO2 URL
  to2URLs,    \* the TO2 URLs the run will try
  rvOnly,     \* the run was started with -rv-only
  ownerGUID,  \* GUID of the voucher the server holds for this device (0: none)
  nextGUID,   \* the next fresh GUID the server hands out
  runs        \* client runs started

vars == <<disk, tmp, pc, exit, cred, newCred, to1d, i, j, to2URLs, rvOnly, ownerGUID, nextGUID, runs>>
runVars == <<cred, newCred, to1d, i, j, to2URLs, rvOnly>>

GUIDs == 1..MaxRuns

\* File contents other than a credential: no file, an empty one, a torn
\* encoding.
NoFile == 0
Empty == -1
Torn == -2

-----------------------------------------------------------------------------
(* transferOwnership: the To1d's addresses become TO2 URLs.                *)

\* An address with neither DNS nor IP, or with another protocol, is skipped.
Usable(a) == a.host # "none" /\ a.proto \in {"http", "https"}

\* DNSAddress is preferred to IPAddress; the protocol picks scheme and
\* default port, and a non-zero Port replaces the default.
ToURL(a) ==
  [scheme |-> IF a.proto = "http" THEN "http://" ELSE "https://",
   host   |-> IF a.host \in {"dns", "both"} THEN "dns" ELSE "ip",
   port   |-> IF a.port # 0 THEN a.port ELSE IF a.proto = "http" THEN 80 ELSE 443]

\* The TO2 URLs fdo.BaseHTTP gives for RV bypass entries.
BypassList == [k \in 1..BypassURLs |-> [scheme |-> "http://", host |-> "ip", port |-> 80]]

TO2URLsOf(rv) == [k \in 1..Len(SelectSeq(rv, Usable)) |-> ToURL(SelectSeq(rv, Usable)[k])]

-----------------------------------------------------------------------------
(* Ending a run: client() returns (or panics), the process exits.          *)

Exit(how) ==
  /\ pc' = "idle"
  /\ exit' = how

\* The operator starts the client: with -di when there is no blob yet.
Start ==
  /\ pc = "idle" /\ runs < MaxRuns
  /\ pc' = IF disk = NoFile THEN "di" ELSE "open"
  /\ runs' = runs + 1
  /\ newCred' = 0 /\ to1d' = FALSE /\ i' = 1 /\ j' = 1 /\ to2URLs' = <<>>
  /\ rvOnly' \in RvOnlyFlags
  /\ UNCHANGED <<disk, tmp, exit, cred, ownerGUID, nextGUID>>

\* di: DeviceInitialize fails, or the manufacturer stores a voucher for a
\* fresh GUID and the credential is saved.
DIFail ==
  /\ pc = "di"
  /\ Exit("err")
  /\ UNCHANGED <<disk, tmp, runVars, ownerGUID, nextGUID, runs>>

DIOk ==
  /\ pc = "di"
  /\ ownerGUID' = nextGUID /\ newCred' = nextGUID /\ nextGUID' = nextGUID + 1
  /\ pc' = "create"
  /\ UNCHANGED <<rvOnly, disk, tmp, exit, cred, to1d, i, j, to2URLs, runs>>

\* client: the blob is opened and decoded; a missing or torn blob is an error.
OpenBlob ==
  /\ pc = "open"
  /\ \/ /\ disk \in {NoFile, Torn}
        /\ Exit("err")
        /\ UNCHANGED cred
     \/ /\ disk \in GUIDs
        /\ cred' = disk
        /\ pc' = "to1"
        /\ UNCHANGED exit
  /\ UNCHANGED <<rvOnly, disk, tmp, newCred, to1d, i, j, to2URLs, ownerGUID, nextGUID, runs>>

\* Faulty variant (mutation analysis): the loop does not stop at the last URL.
TO1FailUnbounded ==
  /\ pc = "to1"
  /\ i' = i + 1
  /\ UNCHANGED <<rvOnly, disk, tmp, pc, exit, cred, newCred, to1d, j, to2URLs, ownerGUID, nextGUID, runs>>

\* transferOwnership: TO1 on URL i fails, and the loop goes on.
TO1Fail ==
  /\ pc = "to1" /\ i <= NumTo1
  /\ i' = i + 1
  /\ UNCHANGED <<rvOnly, disk, tmp, pc, exit, cred, newCred, to1d, j, to2URLs, ownerGUID, nextGUID, runs>>

\* TO1 on URL i returns a To1d: the loop stops and its addresses are turned
\* into TO2 URLs after the bypass ones.
TO1Ok ==
  /\ pc = "to1" /\ i <= NumTo1
  /\ to1d' = TRUE
  /\ \E rv \in RvChoices : to2URLs' = BypassList \o TO2URLsOf(rv)
  /\ pc' = "rv"
  /\ UNCHANGED <<rvOnly, disk, tmp, exit, cred, newCred, i, j, ownerGUID, nextGUID, runs>>

\* Every TO1 URL failed.
TO1Exhausted ==
  /\ pc = "to1" /\ i > NumTo1
  /\ pc' = "rv"
  /\ to2URLs' = BypassList
  /\ UNCHANGED <<rvOnly, disk, tmp, exit, cred, newCred, to1d, i, j, ownerGUID, nextGUID, runs>>

\* -rv-only prints to1d.Payload.Val and returns: a nil to1d is dereferenced.
RvOnlyStop ==
  /\ pc = "rv" /\ rvOnly
  /\ \/ to1d /\ Exit("ok")
     \/ ~to1d /\ Exit("panic")
  /\ UNCHANGED <<disk, tmp, runVars, ownerGUID, nextGUID, runs>>

GoTO2 ==
  /\ pc = "rv" /\ ~rvOnly
  /\ pc' = "to2"
  /\ UNCHANGED <<disk, tmp, exit, runVars, ownerGUID, nextGUID, runs>>

\* Faulty variant (mutation analysis): a failed URL is tried again.
TO2FailRetry ==
  /\ pc = "to2" /\ j <= Len(to2URLs)
  /\ UNCHANGED <<rvOnly, disk, tmp, pc, exit, cred, newCred, to1d, i, j, to2URLs, ownerGUID, nextGUID, runs>>

\* TO2 on URL j fails before Done (network, or the owner holds no voucher
\* for cred): the loop goes on with the next URL.
TO2Fail ==
  /\ pc = "to2" /\ j <= Len(to2URLs)
  /\ j' = j + 1
  /\ UNCHANGED <<rvOnly, disk, tmp, pc, exit, cred, newCred, to1d, i, to2URLs, ownerGUID, nextGUID, runs>>

\* TO2 completes: the owner has replaced its voucher before Done2, and the
\* new credential is saved.
TO2Ok ==
  /\ pc = "to2" /\ j <= Len(to2URLs)
  /\ cred = ownerGUID
  /\ ownerGUID' = nextGUID /\ newCred' = nextGUID /\ nextGUID' = nextGUID + 1
  /\ pc' = "create"
  /\ UNCHANGED <<rvOnly, disk, tmp, exit, cred, to1d, i, j, to2URLs, runs>>

\* The owner commits (the assumption above) and Done2 is lost: TransferOwnership2 returns an
\* error and the loop goes on with the next URL.
TO2LostDone2 ==
  /\ pc = "to2" /\ j <= Len(to2URLs)
  /\ "lostdone2" \in Faults /\ cred = ownerGUID
  /\ ownerGUID' = nextGUID /\ nextGUID' = nextGUID + 1
  /\ j' = j + 1
  /\ UNCHANGED <<rvOnly, disk, tmp, pc, exit, cred, newCred, to1d, i, to2URLs, runs>>

\* Every TO2 URL failed: "transfer of ownership not successful".
TO2Exhausted ==
  /\ pc = "to2" /\ j > Len(to2URLs)
  /\ Exit("err")
  /\ UNCHANGED <<disk, tmp, runVars, ownerGUID, nextGUID, runs>>

-----------------------------------------------------------------------------
(* saveBlob: CreateTemp, Encode, Close, Rename to blobPath.                *)

SaveCreate ==
  /\ pc = "create"
  /\ \/ /\ "createfail" \in Faults
        /\ Exit("err")
        /\ UNCHANGED tmp
     \/ /\ tmp' = Empty
        /\ pc' = "encode"
        /\ UNCHANGED exit
  /\ UNCHANGED <<disk, runVars, ownerGUID, nextGUID, runs>>

\* Faulty variant (mutation analysis): the credential is encoded straight
\* into blobPath.
SaveEncodeInPlace ==
  /\ pc = "encode"
  /\ disk' = Torn /\ tmp' = newCred
  /\ pc' = "rename"
  /\ UNCHANGED <<exit, runVars, ownerGUID, nextGUID, runs>>

SaveEncode ==
  /\ pc = "encode"
  /\ \/ /\ "encodefail" \in Faults
        /\ tmp' = Torn
        /\ Exit("err")
     \/ /\ tmp' = newCred
        /\ pc' = "rename"
        /\ UNCHANGED exit
  /\ UNCHANGED <<disk, runVars, ownerGUID, nextGUID, runs>>

\* Faulty variant (mutation analysis): the Rename error is dropped.
SaveRenameIgnoreError ==
  /\ pc = "rename"
  /\ \/ /\ "renamefail" \in Faults
        /\ UNCHANGED <<disk, tmp>>
     \/ /\ disk' = tmp /\ tmp' = NoFile
  /\ Exit("ok")
  /\ UNCHANGED <<runVars, ownerGUID, nextGUID, runs>>

SaveRename ==
  /\ pc = "rename"
  /\ \/ /\ "renamefail" \in Faults
        /\ Exit("err")
        /\ UNCHANGED <<disk, tmp>>
     \/ /\ disk' = tmp /\ tmp' = NoFile
        /\ Exit("ok")
  /\ UNCHANGED <<runVars, ownerGUID, nextGUID, runs>>

\* The process is killed between two steps.
Kill ==
  /\ pc # "idle" /\ "crash" \in Faults
  /\ Exit("killed")
  /\ UNCHANGED <<disk, tmp, runVars, ownerGUID, nextGUID, runs>>

\* The operator has started every run the model allows.
Stopped ==
  /\ pc = "idle" /\ runs = MaxRuns
  /\ UNCHANGED vars

-----------------------------------------------------------------------------

Init ==
  /\ disk = NoFile /\ tmp = NoFile
  /\ pc = "idle" /\ exit = "none"
  /\ cred = 0 /\ newCred = 0 /\ to1d = FALSE /\ i = 1 /\ j = 1 /\ to2URLs = <<>> /\ rvOnly = FALSE
  /\ ownerGUID = 0 /\ nextGUID = 1 /\ runs = 0

\* The steps of a running client; they are taken as long as it runs.
ClientStep ==
  \/ DIFail \/ DIOk \/ OpenBlob
  \/ TO1Fail \/ TO1Ok \/ TO1Exhausted \/ RvOnlyStop \/ GoTO2
  \/ TO2Fail \/ TO2Ok \/ TO2LostDone2 \/ TO2Exhausted
  \/ SaveCreate \/ SaveEncode \/ SaveRename

Next == Start \/ ClientStep \/ Kill \/ Stopped

Spec == Init /\ [][Next]_vars /\ WF_vars(ClientStep)

-----------------------------------------------------------------------------
(* Properties.                                                             *)

TypeOK ==
  /\ disk \in {NoFile, Torn} \cup GUIDs
  /\ tmp \in {NoFile, Empty, Torn} \cup GUIDs
  /\ pc \in {"idle", "di", "open", "to1", "rv", "to2", "create", "encode", "rename"}
  /\ exit \in {"none", "ok", "err", "panic", "killed"}
  /\ cred \in {0} \cup GUIDs /\ newCred \in {0} \cup GUIDs
  /\ to1d \in BOOLEAN /\ i \in 1..NumTo1 + 1
  /\ to2URLs \in Seq(URLs) /\ j \in 1..Len(to2URLs) + 1
  /\ ownerGUID \in {0} \cup GUIDs /\ nextGUID \in 1..MaxRuns + 1
  /\ runs \in 0..MaxRuns /\ rvOnly \in BOOLEAN

\* saveBlob writes a temp file and renames it: whenever the process is
\* killed, blobPath holds a whole credential or none.
DiskNeverTorn ==
  disk # Torn

\* When a transferring run (no -rv-only) of client() has returned nil, the
\* blob holds the credential of the voucher the owner now holds: the device
\* can onboard again.  (-rv-only returns nil without transferring.)
ExitOkInSync ==
  pc = "idle" /\ exit = "ok" /\ ~rvOnly => disk = ownerGUID

\* Whenever no client runs, a saved credential is the one the owner holds a
\* voucher for (spec §8.5: after commit the device holds the new GUID).
CredentialInSync ==
  pc = "idle" /\ disk \in GUIDs => disk = ownerGUID

\* Every run of the client ends: each loop tries each URL once.
Termination ==
  pc # "idle" ~> pc = "idle"

=============================================================================
