---------------------------- MODULE MCKernelServers ----------------------------
(***************************************************************************)
(* An instance of KernelServers for TLC: INIT and one more slot.           *)
(***************************************************************************)
EXTENDS KernelServers

MCUsers == {2, 3}

MCCalls == {c \in Procs \X Procs : c[1] # c[2] /\ ~ (c[1] \in Users /\ c[2] \in Users)}

ASSUME ClosedAssumption == Closed

HasMessage(p) == p \in hears /\ ~ Receiving(kernel, p)

\* Processes of which the request in the buffer is still read, by the one
\* they send to or by RequestKept
HasRequest(p) ==
  Sending(kernel, p) \/ (HasMessage(SYSTASK) /\ Waits(kernel, p, SYSTASK))

\* The state without what no step and no property reads: other messages,
\* and p_getfrom and p_sendto of a process that does not wait.
Unread ==
  <<[f \in DOMAIN kernel |->
       CASE f = "getfrom" -> [p \in {q \in Procs : Receiving(kernel, q)} |-> kernel.getfrom[p]]
         [] f = "sendto"  -> [p \in {q \in Procs : Sending(kernel, q)} |-> kernel.sendto[p]]
         [] f = "messbuf" ->
           <<[p \in {q \in Procs : HasMessage(q)} |-> kernel.messbuf[p]],
             [p \in {q \in Procs : HasRequest(q)} |-> kernel.messbuf[p].body]>>
         [] OTHER         -> kernel[f]],
    script, hears, alarm, busy>>

=============================================================================
