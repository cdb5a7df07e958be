\* fdo.ssh with fdo.wget (BKGcred variant 1) under both device cores: one that
\* yields only to activated modules and one that yields to every module.
SPECIFICATION Spec
CONSTANTS
  MaxKeys <- MCMaxKeys
  CallbackSets <- MCAnyCallbacks
  CallbackFaults <- MCAllFaults
  Variant = 1
  YieldModes <- MCBothCores
  HostKeyPaths <- MCHostKeyPaths
  KeyInfos <- MCKeyInfos
  LinuxDefaults <- MCLinuxDefaults
  SshDefaultUsername <- MCSshDefaultUsername
  HostFileStates <- MCHostFileStates
INVARIANTS
  TypeOK
  NameBeforeDone
  ReportedOnce
  SshCompleteOnDone
  HostKeysRecorded
PROPERTIES
  Termination
