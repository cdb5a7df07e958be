----------------------------- MODULE FsimSession -----------------------------
(***************************************************************************)
(* A TO2 ServiceInfo session with two modules registered on each side, in  *)
(* this order:                                                             *)
(*   fdo.ssh   SSHOwner (src/fsim/ssh_owner.go) and SSH                    *)
(*             (src/fsim/ssh_device.go),                                   *)
(*   fdo.wget  BKGcred_owner (appended to src/fsim/ssh_owner.go) and       *)
(*             BKGcred (src/fsim/bkgcred_device.go, two variants: 1 at     *)
(*             lines 21-85, 2 at lines 106-165).                           *)
(* The core that composes them is not under src/ and follows spec §4.6:    *)
(*   - KVs are routed to the module named in their key;                    *)
(*   - the device speaks first (it is the transport's client, spec §6);    *)
(*   - an owner turn handles the device's KVs, then calls ProduceInfo once *)
(*     on each module not yet done, in registration order;                 *)
(*   - a device turn hands each KV to Receive, or to Transition for an     *)
(*     active KV that flips the module, then calls Yield on each module    *)
(*     (yieldOnlyActive: only on modules an active KV has switched on);    *)
(*   - any module error aborts TO2 (spec §4.5, §7);                        *)
(*   - TO2 ends when every owner module is done and the device's message   *)
(*     is empty.                                                           *)
(* Every message fits: SSHOwner writes one add-key per ProduceInfo call   *)
(* and BKGcred two small KVs, far below any MTU.                          *)
(***************************************************************************)
EXTENDS Naturals, Sequences, SequencesExt

CONSTANTS
  MaxKeys,          \* most entries of SSHOwner.AuthorizedKeys
  CallbackSets,     \* sets of SSH device callbacks the application may set
  CallbackFaults,   \* SSH callback failures the applications may show
  Variant,          \* which BKGcred device variant is built: 1 or 2
  YieldModes,       \* device cores checked: TRUE yields only to activated modules
  HostKeyPaths,     \* the default host key files of LinuxSSHHostKeys, in order (by key type)
  KeyInfos,         \* [user, sudo] records an AuthorizedKeys entry may carry
  LinuxDefaults,    \* LinuxSSHInstaller.DefaultUsername values
  SshDefaultUsername, \* SSH.DefaultUsername
  HostFileStates    \* the device's host key files before TO2 (HostKeyPaths -> state)

ASSUME MaxKeys \in Nat
ASSUME CallbackSets \subseteq SUBSET {"install", "hostkeys"}
ASSUME CallbackFaults \subseteq {"nohome", "fs", "sudo", "keygen", "khopen", "khwrite"}
ASSUME Variant \in {1, 2} /\ YieldModes \subseteq BOOLEAN

VARIABLES
  keys, keyIndex,          \* len(SSHOwner.AuthorizedKeys), SSHOwner.keyIndex
  callbacks, hostKeysSent, \* the SSH callbacks set, SSH.hostKeysSent
  installed, ownerHostKeys,\* history: keys installed; OnHostKeys accepted host keys
  sent, done, reports,     \* BKGcred_owner.sent and .done; history: d2o KVs handled
  Sent, Name, active,      \* BKGcred.Sent and .Name; the core's active flag for fdo.wget
  sshDone, bkgDone,        \* the owner modules reported moduleDone
  turn,                    \* "owner" or "device"
  pos,                     \* owner scheduler: next module to call, or "send"
  ystage,                  \* device scheduler: next module to Yield
  o2d, d2o,                \* KVs of the message being handled or built
  phase, faults,
  yieldOnlyActive,         \* the core of this session yields only to activated modules
  keyInfo,                 \* SSHOwner.AuthorizedKeys[k-1].Username and .Sudo
  linuxDefault,            \* LinuxSSHInstaller.DefaultUsername
  homes,                   \* users whose home directory exists on the device
  sudoFails,               \* writing /etc/sudoers.d fails on the device
  sudoers,                 \* users granted sudo by grantSudoAccess
  hostFiles,               \* host key type -> its .pub file: "absent", "empty" or "key"
  generate,                \* LinuxSSHHostKeys.GenerateIfMissing
  keygenFails,             \* key types ssh-keygen fails to generate
  knownHosts               \* host key lines OnHostKeys appended to known_hosts, in order

sshVars  == <<keys, keyIndex, callbacks, hostKeysSent, installed, ownerHostKeys>>
bkgVars  == <<sent, done, reports, Sent, Name, active>>
xchgVars == <<sshDone, bkgDone, turn, pos, ystage, o2d, d2o, phase, faults>>
linuxVars == <<keyInfo, linuxDefault, homes, sudoFails, sudoers,
              hostFiles, generate, keygenFails, knownHosts>>
vars     == <<sshVars, bkgVars, xchgVars, yieldOnlyActive, linuxVars>>

KV(m, k, v) == [mod |-> m, key |-> k, val |-> v]

\* The module the owner scheduler calls after module m, or "send".
After(m) == IF m = "ssh" /\ ~bkgDone THEN "bkg" ELSE "send"

-----------------------------------------------------------------------------
(* The example Linux callbacks (appended to src/fsim/ssh_device.go):      *)
(* LinuxSSHInstaller, LinuxSSHHostKeys and LinuxKnownHostsWriter.  A file *)
(* is abstracted to what the code tests of it; a key to its key type.      *)

\* The username InstallAuthorizedKey acts on: the add-key's, else
\* SSH.DefaultUsername (receiveAddKey), else the installer's default, else root.
ResolveUser(u) ==
  LET v == IF u # "" THEN u ELSE SshDefaultUsername
  IN  IF v # "" THEN v ELSE IF linuxDefault # "" THEN linuxDefault ELSE "root"

\* The host keys read from the .pub files: missing and blank files skipped.
ReadHostKeys(files) == SelectSeq(HostKeyPaths, LAMBDA t : files[t] = "key")

\* generateHostKeys: ssh-keygen runs for every key type whose file does not
\* exist (an existing empty file is skipped); a failure is remembered and
\* the loop goes on.
Generated(files) ==
  [t \in DOMAIN files |-> IF files[t] = "absent" /\ t \notin keygenFails THEN "key" ELSE files[t]]

GenerateFailed(files) == \E t \in DOMAIN files : files[t] = "absent" /\ t \in keygenFails

\* LinuxSSHHostKeys.GetHostKeys: the files after the call, and the keys
\* returned (<<>> with an error).  With none found and GenerateIfMissing,
\* any failed ssh-keygen run is an error even when others produced keys;
\* otherwise the files are read again.
GetHostKeys(files) ==
  IF ReadHostKeys(files) # <<>> \/ ~generate
  THEN [files |-> files, keys |-> ReadHostKeys(files)]
  ELSE IF GenerateFailed(files)
       THEN [files |-> Generated(files), keys |-> <<>>]
       ELSE [files |-> Generated(files), keys |-> ReadHostKeys(Generated(files))]

-----------------------------------------------------------------------------
(* Owner turn: HandleInfo for each device KV, routed by module.            *)

OwnerMayHandle(m, k) ==
  /\ phase = "running" /\ turn = "owner"
  /\ d2o # <<>> /\ Head(d2o).mod = m /\ Head(d2o).key = k
  /\ d2o' = Tail(d2o)

\* Faulty variant (mutation analysis): only the first host key is written.
OnHostKeysFirstOnly(hk) ==
  \/ /\ "khopen" \in CallbackFaults
     /\ phase' = "aborted" /\ faults' = faults \cup {"khopen"}
     /\ UNCHANGED <<knownHosts, ownerHostKeys>>
  \/ /\ knownHosts' = knownHosts \o SubSeq(hk, 1, 1)
     /\ ownerHostKeys' = TRUE
     /\ UNCHANGED <<phase, faults>>

\* LinuxKnownHostsWriter.OnHostKeys: opening known_hosts may fail; a write
\* may fail after some lines were appended; both are errors.
OnHostKeys(hk) ==
  \/ /\ "khopen" \in CallbackFaults
     /\ phase' = "aborted" /\ faults' = faults \cup {"khopen"}
     /\ UNCHANGED <<knownHosts, ownerHostKeys>>
  \/ /\ "khwrite" \in CallbackFaults
     /\ \E n \in 0..Len(hk) - 1 : knownHosts' = knownHosts \o SubSeq(hk, 1, n)
     /\ phase' = "aborted" /\ faults' = faults \cup {"khwrite"}
     /\ UNCHANGED ownerHostKeys
  \/ /\ knownHosts' = knownHosts \o hk
     /\ ownerHostKeys' = TRUE
     /\ UNCHANGED <<phase, faults>>

\* SSHOwner.handleHostKeys: an empty list is an error; OnHostKeys may fail,
\* a module error.
HandleHostKeys ==
  /\ OwnerMayHandle("ssh", "host-keys")
  /\ \/ /\ Head(d2o).val = <<>>
        /\ phase' = "aborted"
        /\ UNCHANGED <<faults, knownHosts, ownerHostKeys>>
     \/ /\ Head(d2o).val # <<>>
        /\ OnHostKeys(Head(d2o).val)
  /\ UNCHANGED <<keys, keyIndex, callbacks, hostKeysSent, installed, bkgVars,
                 sshDone, bkgDone, turn, pos, ystage, o2d,
                 keyInfo, linuxDefault, homes, sudoFails, sudoers, hostFiles, generate, keygenFails>>

\* BKGcred_owner d2o: logged.
HandleD2O ==
  /\ UNCHANGED linuxVars
  /\ OwnerMayHandle("bkg", "d2o")
  /\ reports' = reports + 1
  /\ UNCHANGED <<sshVars, sent, done, Sent, Name, active, sshDone, bkgDone,
                 turn, pos, ystage, o2d, phase, faults>>

\* BKGcred_owner done: w.done is set.
HandleDone ==
  /\ UNCHANGED linuxVars
  /\ OwnerMayHandle("bkg", "done")
  /\ done' = TRUE
  /\ UNCHANGED <<sshVars, sent, reports, Sent, Name, active, sshDone, bkgDone,
                 turn, pos, ystage, o2d, phase, faults>>

-----------------------------------------------------------------------------
(* Owner turn: ProduceInfo on each module not yet done, then send.         *)

OwnerMayProduce(m) ==
  /\ phase = "running" /\ turn = "owner" /\ d2o = <<>> /\ pos = m

\* SSHOwner: the next add-key, keyIndex advanced first.
ProduceAddKey ==
  /\ UNCHANGED linuxVars
  /\ OwnerMayProduce("ssh")
  /\ keyIndex < keys
  /\ keyIndex' = keyIndex + 1
  /\ o2d' = Append(o2d, KV("ssh", "add-key", keyIndex + 1))
  /\ pos' = After("ssh")
  /\ UNCHANGED <<keys, callbacks, hostKeysSent, installed, ownerHostKeys, bkgVars,
                 sshDone, bkgDone, turn, ystage, d2o, phase, faults>>

\* Faulty variant (mutation analysis): done one key early.
ProduceSshDoneEarly ==
  /\ UNCHANGED linuxVars
  /\ OwnerMayProduce("ssh")
  /\ keyIndex + 1 >= keys
  /\ sshDone' = TRUE
  /\ pos' = After("ssh")
  /\ UNCHANGED <<sshVars, bkgVars, bkgDone, turn, ystage, o2d, d2o, phase, faults>>

\* SSHOwner: every key written, moduleDone.
ProduceSshDone ==
  /\ UNCHANGED linuxVars
  /\ OwnerMayProduce("ssh")
  /\ keyIndex >= keys
  /\ sshDone' = TRUE
  /\ pos' = After("ssh")
  /\ UNCHANGED <<sshVars, bkgVars, bkgDone, turn, ystage, o2d, d2o, phase, faults>>

\* Faulty variant (mutation analysis): sent is not latched.
ProduceBkgResend ==
  /\ UNCHANGED linuxVars
  /\ OwnerMayProduce("bkg")
  /\ o2d' = o2d \o <<KV("bkg", "active", TRUE), KV("bkg", "bkg", "bkg")>>
  /\ pos' = "send"
  /\ UNCHANGED <<sshVars, bkgVars, sshDone, bkgDone, turn, ystage, d2o, phase, faults>>

\* BKGcred_owner, first call: active and bkg are written, sent is set.
ProduceBkgSend ==
  /\ UNCHANGED linuxVars
  /\ OwnerMayProduce("bkg")
  /\ ~sent
  /\ o2d' = o2d \o <<KV("bkg", "active", TRUE), KV("bkg", "bkg", "bkg")>>
  /\ sent' = TRUE
  /\ pos' = "send"
  /\ UNCHANGED <<sshVars, done, reports, Sent, Name, active, sshDone, bkgDone,
                 turn, ystage, d2o, phase, faults>>

\* Faulty variant (mutation analysis): moduleDone never reported.
ProduceBkgWaitNeverDone ==
  /\ UNCHANGED linuxVars
  /\ OwnerMayProduce("bkg")
  /\ sent
  /\ pos' = "send"
  /\ UNCHANGED <<sshVars, bkgVars, sshDone, bkgDone, turn, ystage, o2d, d2o, phase, faults>>

\* BKGcred_owner, later calls: nothing written, moduleDone = w.done.
ProduceBkgWait ==
  /\ UNCHANGED linuxVars
  /\ OwnerMayProduce("bkg")
  /\ sent
  /\ bkgDone' = done
  /\ pos' = "send"
  /\ UNCHANGED <<sshVars, bkgVars, sshDone, turn, ystage, o2d, d2o, phase, faults>>

\* The owner's message goes out; the device starts with its first module.
OwnerSend ==
  /\ UNCHANGED linuxVars
  /\ phase = "running" /\ turn = "owner" /\ d2o = <<>> /\ pos = "send"
  /\ turn' = "device"
  /\ ystage' = "ssh"
  /\ UNCHANGED <<sshVars, bkgVars, sshDone, bkgDone, pos, o2d, d2o, phase, faults>>

-----------------------------------------------------------------------------
(* Device turn: Receive (or Transition) for each owner KV.                 *)

DeviceMayReceive(m, k) ==
  /\ phase = "running" /\ turn = "device"
  /\ o2d # <<>> /\ Head(o2d).mod = m /\ Head(o2d).key = k
  /\ o2d' = Tail(o2d)

\* grantSudoAccess: writing the user's /etc/sudoers.d file succeeds.
GrantSudoAccess(u) == ~sudoFails

\* LinuxSSHInstaller.InstallAuthorizedKey for key k and user u: no home
\* directory, or a failing MkdirAll/OpenFile/WriteString ("fs"), is an
\* error with nothing written; otherwise the key line is appended, and a
\* requested sudo that fails to be granted is an error after that.
InstallAuthorizedKey(k, u) ==
  \/ /\ u \notin homes
     /\ phase' = "aborted" /\ faults' = faults \cup {"nohome"}
     /\ UNCHANGED <<installed, sudoers>>
  \/ /\ u \in homes /\ "fs" \in CallbackFaults
     /\ phase' = "aborted" /\ faults' = faults \cup {"fs"}
     /\ UNCHANGED <<installed, sudoers>>
  \/ /\ u \in homes
     /\ installed' = Append(installed, k)
     /\ IF keyInfo[k].sudo /\ ~GrantSudoAccess(u)
        THEN phase' = "aborted" /\ faults' = faults \cup {"sudo"} /\ UNCHANGED sudoers
        ELSE /\ sudoers' = IF keyInfo[k].sudo THEN sudoers \cup {u} ELSE sudoers
             /\ UNCHANGED <<phase, faults>>

\* SSH.Receive(add-key): without the InstallAuthorizedKey callback, or when
\* it fails, receive returns an error; reset() then clears hostKeysSent and
\* TO2 aborts.
ReceiveAddKey ==
  /\ DeviceMayReceive("ssh", "add-key")
  /\ \/ /\ "install" \notin callbacks
        /\ phase' = "aborted"
        /\ UNCHANGED <<installed, faults, sudoers>>
     \/ /\ "install" \in callbacks
        /\ InstallAuthorizedKey(Head(o2d).val, ResolveUser(keyInfo[Head(o2d).val].user))
  /\ hostKeysSent' = (hostKeysSent /\ phase' = "running")
  /\ UNCHANGED <<keys, keyIndex, callbacks, ownerHostKeys, bkgVars,
                 sshDone, bkgDone, turn, pos, ystage, d2o,
                 keyInfo, linuxDefault, homes, sudoFails, hostFiles, generate, keygenFails, knownHosts>>

\* The only active KV for fdo.wget flips it on: Transition(true) runs
\* reset(), clearing Name and Sent.
ReceiveActive ==
  /\ UNCHANGED linuxVars
  /\ DeviceMayReceive("bkg", "active")
  /\ active' = TRUE
  /\ Sent' = FALSE
  /\ Name' = ""
  /\ UNCHANGED <<sshVars, sent, done, reports, sshDone, bkgDone,
                 turn, pos, ystage, d2o, phase, faults>>

\* Faulty variant (mutation analysis): the bkg KV is left unhandled.
ReceiveBkgIgnored ==
  /\ UNCHANGED linuxVars
  /\ DeviceMayReceive("bkg", "bkg")
  /\ UNCHANGED <<sshVars, bkgVars, sshDone, bkgDone, turn, pos, ystage, d2o, phase, faults>>

\* BKGcred.Receive(bkg): the name is decoded into d.Name.
ReceiveBkg ==
  /\ UNCHANGED linuxVars
  /\ DeviceMayReceive("bkg", "bkg")
  /\ Name' = Head(o2d).val
  /\ UNCHANGED <<sshVars, sent, done, reports, Sent, active, sshDone, bkgDone,
                 turn, pos, ystage, d2o, phase, faults>>

-----------------------------------------------------------------------------
(* Device turn: Yield on each module, then the message goes out.           *)

DeviceMayYield(m) ==
  /\ phase = "running" /\ turn = "device" /\ o2d = <<>> /\ ystage = m

\* SSH.Yield is not called: no active KV ever switches fdo.ssh on.
SshYieldSkipped ==
  /\ UNCHANGED linuxVars
  /\ DeviceMayYield("ssh")
  /\ yieldOnlyActive
  /\ ystage' = "bkg"
  /\ UNCHANGED <<sshVars, bkgVars, sshDone, bkgDone, turn, pos, o2d, d2o, phase, faults>>

\* SSH.Yield returns an error (GetHostKeys missing or failing): TO2 aborts.
YieldFails(fs) ==
  /\ phase' = "aborted"
  /\ faults' = faults \cup fs
  /\ UNCHANGED <<hostKeysSent, ystage, d2o>>

\* SSH.Yield: host keys once, through sendHostKeys; a missing GetHostKeys,
\* one that fails, or an empty list is an error that aborts TO2.  The
\* files GetHostKeys generated stay on the device either way.
SshYield ==
  /\ DeviceMayYield("ssh")
  /\ ~yieldOnlyActive
  /\ \/ /\ hostKeysSent
        /\ ystage' = "bkg"
        /\ UNCHANGED <<hostKeysSent, d2o, phase, faults, hostFiles>>
     \/ /\ ~hostKeysSent /\ "hostkeys" \notin callbacks
        /\ YieldFails({})
        /\ UNCHANGED hostFiles
     \/ /\ ~hostKeysSent /\ "hostkeys" \in callbacks
        /\ LET r == GetHostKeys(hostFiles)
           IN  /\ hostFiles' = r.files
               /\ IF r.keys = <<>>
                  THEN YieldFails(IF GenerateFailed(hostFiles) /\ generate THEN {"keygen"} ELSE {})
                  ELSE /\ d2o' = Append(d2o, KV("ssh", "host-keys", r.keys))
                       /\ hostKeysSent' = TRUE
                       /\ ystage' = "bkg"
                       /\ UNCHANGED <<phase, faults>>
  /\ UNCHANGED <<keys, keyIndex, callbacks, installed, ownerHostKeys, bkgVars,
                 sshDone, bkgDone, turn, pos, o2d,
                 keyInfo, linuxDefault, homes, sudoFails, sudoers, generate, keygenFails, knownHosts>>

\* Faulty variant (mutation analysis): variant 1 without its Sent check.
BkgYieldOutUnlatched ==
  IF Variant = 1
  THEN <<KV("bkg", "d2o", TRUE), KV("bkg", "done", TRUE)>>
  ELSE IF Sent THEN <<KV("bkg", "done", TRUE)>> ELSE <<KV("bkg", "d2o", TRUE)>>

\* What BKGcred.Yield writes: variant 1 sends d2o and done once; variant 2
\* sends d2o on its first call and done on every call after it.
BkgYieldOut ==
  IF Variant = 1
  THEN IF Sent THEN <<>> ELSE <<KV("bkg", "d2o", TRUE), KV("bkg", "done", TRUE)>>
  ELSE IF Sent THEN <<KV("bkg", "done", TRUE)>> ELSE <<KV("bkg", "d2o", TRUE)>>

AllDone(out) == sshDone /\ bkgDone /\ d2o \o out = <<>>

\* The device's message goes out with out appended; TO2 ends when every
\* owner module is done and the message is empty.
DeviceSend(out) ==
  /\ \/ /\ AllDone(out)
        /\ phase' = "done"
        /\ UNCHANGED turn
     \/ /\ ~AllDone(out)
        /\ turn' = "owner"
        /\ UNCHANGED phase
  /\ d2o' = d2o \o out
  /\ pos' = IF ~sshDone THEN "ssh" ELSE IF ~bkgDone THEN "bkg" ELSE "send"

\* BKGcred.Yield (when the core calls it), then the message goes out.
BkgYield ==
  /\ UNCHANGED linuxVars
  /\ DeviceMayYield("bkg")
  /\ \/ /\ yieldOnlyActive /\ ~active
        /\ DeviceSend(<<>>)
        /\ UNCHANGED Sent
     \/ /\ ~yieldOnlyActive \/ active
        /\ DeviceSend(BkgYieldOut)
        /\ Sent' = TRUE
  /\ UNCHANGED <<sshVars, sent, done, reports, Name, active, sshDone, bkgDone,
                 ystage, o2d, faults>>

\* A finished or aborted session stays as it is.
Finished ==
  /\ phase # "running"
  /\ UNCHANGED vars

-----------------------------------------------------------------------------

Init ==
  /\ keys \in 0..MaxKeys /\ keyIndex = 0
  /\ callbacks \in CallbackSets /\ hostKeysSent = FALSE
  /\ installed = <<>> /\ ownerHostKeys = FALSE
  /\ sent = FALSE /\ done = FALSE /\ reports = 0
  /\ Sent = FALSE /\ Name = "" /\ active = FALSE
  /\ sshDone = FALSE /\ bkgDone = FALSE
  /\ turn = "device" /\ pos = "ssh" /\ ystage = "ssh"
  /\ o2d = <<>> /\ d2o = <<>>
  /\ phase = "running" /\ faults = {}
  /\ yieldOnlyActive \in YieldModes
  /\ keyInfo \in [1..keys -> KeyInfos]
  /\ linuxDefault \in LinuxDefaults
  /\ homes \in IF "nohome" \in CallbackFaults THEN {{"root"}, {"root", "admin"}} ELSE {{"root", "admin"}}
  /\ sudoFails \in IF "sudo" \in CallbackFaults THEN BOOLEAN ELSE {FALSE}
  /\ sudoers = {}
  /\ hostFiles \in HostFileStates
  /\ generate \in BOOLEAN
  /\ keygenFails \in IF "keygen" \in CallbackFaults THEN {{}, {HostKeyPaths[1]}} ELSE {{}}
  /\ knownHosts = <<>>

OwnerStep ==
  /\ UNCHANGED yieldOnlyActive
  /\ \/ HandleHostKeys \/ HandleD2O \/ HandleDone
     \/ ProduceAddKey \/ ProduceSshDone \/ ProduceBkgSend \/ ProduceBkgWait
     \/ OwnerSend

DeviceStep ==
  /\ UNCHANGED yieldOnlyActive
  /\ \/ ReceiveAddKey \/ ReceiveActive \/ ReceiveBkg
     \/ SshYieldSkipped \/ SshYield \/ BkgYield

Next == OwnerStep \/ DeviceStep \/ Finished

\* Each side handles a message as soon as it has it (request/response loop).
Spec == Init /\ [][Next]_vars /\ WF_vars(OwnerStep) /\ WF_vars(DeviceStep)

-----------------------------------------------------------------------------
(* Properties.                                                             *)

TypeOK ==
  /\ keys \in 0..MaxKeys /\ keyIndex \in 0..MaxKeys
  /\ callbacks \in CallbackSets /\ hostKeysSent \in BOOLEAN
  /\ installed \in BoundedSeq(1..MaxKeys, MaxKeys) /\ ownerHostKeys \in BOOLEAN
  /\ sent \in BOOLEAN /\ done \in BOOLEAN /\ reports \in 0..2
  /\ Sent \in BOOLEAN /\ Name \in {"", "bkg"} /\ active \in BOOLEAN
  /\ sshDone \in BOOLEAN /\ bkgDone \in BOOLEAN
  /\ turn \in {"owner", "device"}
  /\ pos \in {"ssh", "bkg", "send"} /\ ystage \in {"ssh", "bkg"}
  /\ Len(o2d) <= 3 /\ Len(d2o) <= 3
  /\ phase \in {"running", "done", "aborted"}
  /\ faults \subseteq CallbackFaults
  /\ yieldOnlyActive \in YieldModes
  /\ keyInfo \in [1..keys -> KeyInfos] /\ linuxDefault \in LinuxDefaults
  /\ homes \subseteq {"root", "admin"} /\ sudoers \subseteq {"root", "admin"}
  /\ sudoFails \in BOOLEAN /\ generate \in BOOLEAN
  /\ hostFiles \in [Range(HostKeyPaths) -> {"absent", "empty", "key"}]
  /\ keygenFails \subseteq Range(HostKeyPaths)
  /\ knownHosts \in Seq(Range(HostKeyPaths)) /\ Len(knownHosts) <= Len(HostKeyPaths)

\* When TO2 ends normally under a core that yields to every module, fdo.ssh
\* has done its work: every key installed and the device's host keys
\* accepted by OnHostKeys. (A core yielding only to activated modules never
\* calls SSH.Yield, since SSHOwner sends no active KV.)
SshCompleteOnDone ==
  ~yieldOnlyActive /\ phase = "done" => Len(installed) = keys /\ ownerHostKeys

\* Under a core that yields only to activated modules, BKGcred_owner takes
\* the device's done as completion only once the device module holds the
\* name sent in bkg. (An eager core lets variant 1 answer before the name.)
NameBeforeDone ==
  yieldOnlyActive /\ done => Name = "bkg"

\* Under a core that yields only to activated modules, the owner is told
\* d2o once per session, although Transition(true) resets the device's Sent
\* flag when the active KV arrives.
ReportedOnce ==
  yieldOnlyActive => reports <= 1

\* Whatever happens to the session, the owner's known_hosts holds a prefix
\* of the host keys on the device's disk, in path order (a failed write
\* leaves the lines written before it); when TO2 ends normally under a core
\* that yields to every module, it holds all of them: those GetHostKeys
\* found, or generated when none were there, each written once.
HostKeysRecorded ==
  /\ IsPrefix(knownHosts, ReadHostKeys(hostFiles))
  /\ ~yieldOnlyActive /\ phase = "done" => knownHosts = ReadHostKeys(hostFiles)

\* The session ends, normally or by an abort.
Termination ==
  <>(phase # "running")

=============================================================================
