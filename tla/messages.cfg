\* The kernel of lab 2 under arbitrary programs.
SPECIFICATION Spec
CONSTANTS
  MM = MM
  FS = FS
  SYSTASK = SYSTASK
  ANY = ANY
  HARDWARE = HARDWARE
  IDLE = IDLE
  SIGTRAP = SIGTRAP
  Tasks = {SYSTASK}
  Servers = {MM, FS}
  Users <- MCUsers
  InitProc = 2
  Signals = {SIGTRAP}
  Texts = {"text"}
  Calls <- MCCalls
  MaxPend = 2
INVARIANTS
  QueuesExact
  NoSendCycle
  ReadyExact
  RunningIsFirst
  NoMessageLeft
  SignalsExact
VIEW Unread
