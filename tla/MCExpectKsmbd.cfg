CONSTANTS
  Actions = {"ksmbd_user"}
  Users = {"root", "alice"}
  UidZero = {"root"}
  Backends = {"unix"}
  Capacity = 4
  Keep = 2
  MaxOutput = 2
SPECIFICATION Spec
INVARIANT RootIsRefused
