CONSTANTS
  Actions = {"passwd_user", "smbpasswd_user", "zfs_create_enc_prompt", "zfs_unlock_enc_prompt"}
  Users = {"root", "toor", "administrator"}
  UidZero = {"root", "toor"}
  Backends = {"unix", "solaris", "windows"}
  Capacity = 4
  Keep = 2
  MaxOutput = 3
SPECIFICATION FairSpec
INVARIANTS TypeOK OkMeansAchieved SecretOnlyWhenAsked FailMarkerFails ExitCodeDecides
PROPERTY RequestEnds
