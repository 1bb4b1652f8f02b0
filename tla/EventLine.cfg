SPECIFICATION FairSpec
CONSTANTS
  Word = 2048
  Half = 512
  Table <- VmiSyscallTable
  PyTable <- SYSCALL_TABLE
  Returns <- MCReturns
  MaxErrno = 5
  PointerLike = 4
INVARIANTS
  LoggedAlike
  ShownAsReturned
PROPERTIES
  LookupEnds
