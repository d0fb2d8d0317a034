\* The kernel of lab 2 with its tasks and servers.
SPECIFICATION ServersSpec
CONSTANTS
  MM = MM
  FS = FS
  SYSTASK = SYSTASK
  CLOCK = CLOCK
  DISK = DISK
  ANY = ANY
  HARDWARE = HARDWARE
  IDLE = IDLE
  SIGTRAP = SIGTRAP
  SIGALRM = SIGALRM
  SIGPIPE = SIGPIPE
  Tasks = {SYSTASK, CLOCK, DISK}
  Servers = {MM, FS}
  Users <- MCUsers
  InitProc = 2
  Signals = {SIGTRAP, SIGALRM, SIGPIPE}
  Texts <- Said
  Calls <- MCCalls
  MaxPend = 6
INVARIANT
  RequestKept
PROPERTIES
  RefinesProcesses
  CallsAnswered
  SignalsFinished
VIEW Unread
