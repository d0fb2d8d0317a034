--------------------------- MODULE KernelProcesses ----------------------------
(***************************************************************************)
(* Lab 2: the kernel under programs of which no more is known than what    *)
(* the kernel trusts them with.  The process that proc_ptr names makes any *)
(* call it may make; interrupts come between calls; tasks cause signals;   *)
(* the system task carries out requests in any order.  Trusted are         *)
(*   - tasks and servers: they do not call themselves, and send to a user  *)
(*     process only the answer it waits for;                               *)
(*   - MM: a process that forks or executes waits for MM, one that is      *)
(*     resumed is stopped, and a signal is finished after MM knows it.     *)
(***************************************************************************)
EXTENDS KernelCalls

CONSTANTS
  Calls,    \* pairs of a process and one it sends to or waits for
  MaxPend   \* bound of p_pendcount

ASSUME ProcessesAssumption ==
  /\ Calls \subseteq {c \in Procs \X Procs : c[1] # c[2]}
  /\ MaxPend \in Nat
  /\ Texts # {}

VARIABLE kernel

Init ==
  \E tasks \in Orders(Tasks), servers \in Orders(Servers) :
    kernel = Booted(tasks, servers)

Runs(p) == kernel.proc_ptr = p

Writes(p, text) == [kernel EXCEPT !.messbuf[p].body = text]

-----------------------------------------------------------------------------
(* Calls of the running process *)

Send(p, d) ==
  /\ p \notin Users /\ <<p, d>> \in Calls
  /\ Runs(p)
  /\ d \in Users => Waits(kernel, d, p)
  /\ \E text \in Texts : kernel' = MiniSend(Writes(p, text), p, d)

Receive(p, src) ==
  /\ p \notin Users
  /\ Runs(p)
  /\ \/ src = ANY
     \/ src = HARDWARE /\ p \in Tasks
     \/ <<p, src>> \in Calls
  /\ kernel' = MiniRec(kernel, p, src)

Both(p, d) ==
  /\ <<p, d>> \in Calls /\ d \notin Users
  /\ Runs(p)
  /\ \E text \in Texts : kernel' = SendRec(Writes(p, text), p, d)

\* lock_sched of the clock task, whatever the groups
Sched(t) ==
  /\ t \in Tasks
  /\ Runs(t)
  /\ \E group \in [Users -> Groups] :
       kernel' = PickProc([kernel EXCEPT !.rdy["USER_Q"] = Scheduled(@, group)])

Signal(t, u, sig) ==
  /\ t \in Tasks
  /\ Runs(t)
  /\ u \notin kernel.empty /\ kernel.pendcount[u] < MaxPend
  /\ kernel' = CauseSig(kernel, u, sig)

Interrupted(t) ==
  /\ t \in Tasks
  /\ kernel' = Interrupt(kernel, t)

-----------------------------------------------------------------------------
(* Requests that the running system task carries out *)

AwaitsMM(u) == u \notin kernel.empty /\ Waits(kernel, u, MM)

Fork(p, c) ==
  /\ Runs(SYSTASK)
  /\ AwaitsMM(p) /\ c \in kernel.empty
  /\ kernel' = DoFork(kernel, p, c)

Newmap(u) ==
  /\ Runs(SYSTASK)
  /\ u \notin kernel.empty
  /\ kernel' = DoNewmap(kernel, u)

Exec(u, traced) ==
  /\ Runs(SYSTASK)
  /\ AwaitsMM(u)
  /\ traced => kernel.pendcount[u] < MaxPend
  /\ kernel' = DoExec(kernel, u, traced)

Xit(u) ==
  /\ Runs(SYSTASK)
  /\ u \notin kernel.empty
  /\ kernel' = DoXit(kernel, u)

Endsig(u) ==
  /\ Runs(SYSTASK)
  /\ kernel.pendcount[u] > Cardinality(kernel.pending[u]) \/ u \in kernel.empty
  /\ kernel' = DoEndsig(kernel, u)

Stop(u) ==
  /\ Runs(SYSTASK)
  /\ kernel' = DoStop(kernel, u)

Resume(u) ==
  /\ Runs(SYSTASK)
  /\ "P_STOP" \in kernel.flags[u] \/ u \in kernel.empty
  /\ kernel' = DoResume(kernel, u)

Next ==
  \/ \E p, d \in Procs : Send(p, d) \/ Both(p, d)
  \/ \E p \in Procs, src \in Procs \cup {ANY, HARDWARE} : Receive(p, src)
  \/ \E t \in Tasks : Sched(t) \/ Interrupted(t)
  \/ \E t \in Tasks, u \in Users, sig \in Signals : Signal(t, u, sig)
  \/ \E p, c \in Users : Fork(p, c)
  \/ \E u \in Users, traced \in BOOLEAN : Exec(u, traced)
  \/ \E u \in Users :
       Newmap(u) \/ Xit(u) \/ Endsig(u) \/ Stop(u) \/ Resume(u)

Spec == Init /\ [][Next]_kernel

-----------------------------------------------------------------------------
(* Properties *)

TypeOK == kernel \in Kernels

\* The processes in the caller queues are the blocked senders, each in the
\* queue of the one it sends to, once.  It stays true when a process is
\* killed while it is queued, and when one is forked, which copies p_callerq.
QueuesExact == CallersExact(kernel)

\* No processes wait in a circle for each other to receive.
NoSendCycle == Acyclic(kernel)

\* A process is in its ready queue, once, exactly if it lives and p_flags
\* is 0, although six flags are set and cleared in a dozen places.
ReadyExact == ReadyQueuesExact(kernel)

\* proc_ptr is never stale: the process that runs is the first of the
\* highest queue that is not empty, although ready and unready choose a new
\* one only in some cases.
RunningIsFirst == kernel.proc_ptr = FirstReady(kernel)

\* No process sleeps on a message that is there: none that it may take is
\* queued, and no interrupt for it has come before.
NoMessageLeft == NothingLeft(kernel)

\* sig_procs, p_pendcount and the flags agree on the signals, and MM never
\* waits for new work while a process has a signal that MM does not know.
SignalsExact == SignalCounts(kernel)

=============================================================================
