---------------------------- MODULE MCFsimSession ----------------------------
(* Model values for FsimSession: up to two authorized keys, every callback *)
(* set the SSH device may have, every callback failure, and the example    *)
(* Linux callbacks on a device with one user besides root and two host key *)
(* types.                                                                  *)
EXTENDS FsimSession

MCMaxKeys == 2
MCAnyCallbacks == SUBSET {"install", "hostkeys"}
MCAllCallbacks == {{"install", "hostkeys"}}
MCAllFaults == {"nohome", "fs", "sudo", "keygen", "khopen", "khwrite"}
MCNoFaults == {}
MCBothCores == BOOLEAN
MCActiveCore == {TRUE}

MCHostKeyPaths == <<"rsa", "ed25519">>
\* An entry for admin with sudo, and one without username or sudo.
MCKeyInfos == {[user |-> "admin", sudo |-> TRUE], [user |-> "", sudo |-> FALSE]}
MCLinuxDefaults == {"", "admin"}
MCSshDefaultUsername == ""
\* Both keys present; one key and one blank file; a blank file and a missing
\* one; no files at all.
MCHostFileStates ==
  {[t \in {"rsa", "ed25519"} |-> "key"],
   [rsa |-> "empty", ed25519 |-> "key"],
   [rsa |-> "empty", ed25519 |-> "absent"],
   [t \in {"rsa", "ed25519"} |-> "absent"]}
MCOneHostFileState == {[t \in {"rsa", "ed25519"} |-> "key"]}
====
