\* BKGcred variant 2 writes done on every Yield: the device message is never empty.
SPECIFICATION Spec
CONSTANTS
  MaxKeys <- MCMaxKeys
  CallbackSets <- MCAllCallbacks
  CallbackFaults <- MCNoFaults
  Variant = 2
  YieldModes <- MCActiveCore
  HostKeyPaths <- MCHostKeyPaths
  KeyInfos <- MCKeyInfos
  LinuxDefaults <- MCLinuxDefaults
  SshDefaultUsername <- MCSshDefaultUsername
  HostFileStates <- MCOneHostFileState
PROPERTY
  Termination
