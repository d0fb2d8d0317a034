--------------------------- MODULE MCKernelProcesses --------------------------
(***************************************************************************)
(* An instance of KernelProcesses for TLC: the system task, MM and FS,     *)
(* INIT and one more slot.                                                 *)
(***************************************************************************)
EXTENDS KernelProcesses

CONSTANT FS

MCUsers == {2, 3}

\* Users call MM, which answers; a chain of calls leads from MM to FS, the
\* task and back, and two processes call each other.
MCCalls ==
  {<<MM, FS>>, <<FS, SYSTASK>>, <<SYSTASK, MM>>, <<MM, SYSTASK>>,
   <<2, MM>>, <<3, MM>>, <<MM, 2>>, <<MM, 3>>}

\* The kernel without what no step reads: the contents of messages, and
\* p_getfrom and p_sendto of a process that does not wait.
Unread ==
  [f \in DOMAIN kernel \ {"messbuf"} |->
     CASE f = "getfrom" -> [p \in Procs |-> IF Receiving(kernel, p) THEN kernel.getfrom[p] ELSE MM]
       [] f = "sendto"  -> [p \in Procs |-> IF Sending(kernel, p) THEN kernel.sendto[p] ELSE MM]
       [] OTHER         -> kernel[f]]

=============================================================================
