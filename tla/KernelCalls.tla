------------------------------ MODULE KernelCalls -----------------------------
(***************************************************************************)
(* Lab 2: what the kernel does with its table of processes when a message  *)
(* is sent or received, an interrupt or a signal comes, and the system     *)
(* task works for MM.  The table, the ready queues and proc_ptr are one    *)
(* record k; an operator maps the record before a call of the code to the  *)
(* record after it, so that calls compose as they do in the code.          *)
(*                                                                         *)
(*   k.flags, getfrom, sendto, callerq, messbuf, pending, pendcount        *)
(*               the fields p_... of proc; callerq in the order of         *)
(*               p_sendlink, messbuf the message in the buffer             *)
(*   k.intBlocked  tasks with p_int_blocked                                *)
(*   k.empty       slots of users with p_priority = PPRI_NONE              *)
(*   k.rdy         the ready queues from rdy_head to rdy_tail              *)
(*   k.proc_ptr, sig_procs                                                 *)
(*                                                                         *)
(* p_int_held, switching and groups are in GroupScheduler.                 *)
(***************************************************************************)
EXTENDS GroupQueue, FiniteSets

CONSTANTS
  Tasks, Servers,          \* besides Users, the processes
  MM, SYSTASK,             \* the memory manager, the system task
  ANY, HARDWARE, IDLE,
  Signals, SIGTRAP,        \* the signals that tasks and FS cause
  Texts                    \* what messages say

Procs == Tasks \cup Servers \cup Users

Senders == Procs \cup {HARDWARE}

ASSUME KernelAssumption ==
  /\ IsFiniteSet(Procs)
  /\ Users \subseteq Nat  \* slots
  /\ MM \in Servers /\ SYSTASK \in Tasks
  /\ Tasks \cap Servers = {} /\ Tasks \cap Users = {} /\ Servers \cap Users = {}
  /\ \A n \in {ANY, HARDWARE, IDLE} : n \notin Procs
  /\ ANY # HARDWARE
  /\ SIGTRAP \in Signals /\ IsFiniteSet(Signals)

Flags == {"NO_MAP", "SENDING", "RECEIVING", "PENDING", "SIG_PENDING", "P_STOP"}

Queues == {"TASK_Q", "SERVER_Q", "USER_Q"}

\* A message of a program, of an interrupt, of inform.
Bodies ==
  Texts \cup {<<"HARD_INT">>} \cup ({"KSIG"} \X Users \X SUBSET Signals)

Messages == [source : Senders, body : Bodies]

Kernels ==
  [flags : [Senders -> SUBSET Flags],
   getfrom : [Procs -> Senders \cup {ANY}],
   sendto : [Senders -> Procs],
   callerq : [Procs -> Seq(Senders)],
   messbuf : [Procs -> Messages],
   intBlocked : SUBSET Tasks,
   empty : SUBSET Users,
   rdy : [Queues -> Seq(Procs)],
   proc_ptr : Procs \cup {IDLE},
   pending : [Users -> SUBSET Signals],
   pendcount : [Users -> Nat],
   sig_procs : Int]

-----------------------------------------------------------------------------
(* The ready queues *)

QueueOf(p) ==
  IF p \in Users THEN "USER_Q" ELSE IF p \in Servers THEN "SERVER_Q" ELSE "TASK_Q"

FirstReady(k) ==
  IF k.rdy["TASK_Q"] # << >> THEN Head(k.rdy["TASK_Q"])
  ELSE IF k.rdy["SERVER_Q"] # << >> THEN Head(k.rdy["SERVER_Q"])
  ELSE IF k.rdy["USER_Q"] # << >> THEN Head(k.rdy["USER_Q"])
  ELSE IDLE

\* pick_proc
PickProc(k) == [k EXCEPT !.proc_ptr = FirstReady(k)]

\* A faulty variant: a task that gets ready does not run at once.
ReadyLater(k, p) ==
  [k EXCEPT
    !.rdy[QueueOf(p)] = IF p \in Users THEN AtFront(@, p) ELSE Append(@, p)]

\* A faulty variant: a task that gets ready runs before another task.
ReadyBefore(k, p) ==
  [k EXCEPT
    !.rdy[QueueOf(p)] = IF p \in Servers THEN Append(@, p) ELSE AtFront(@, p),
    !.proc_ptr = IF p \in Tasks THEN p ELSE @]

\* ready: users to the front, the others to the end; a task runs at once
\* unless another task does.
Ready(k, p) ==
  [k EXCEPT
    !.rdy[QueueOf(p)] = IF p \in Users THEN AtFront(@, p) ELSE Append(@, p),
    !.proc_ptr = IF QueueOf(p) = "TASK_Q" /\ k.rdy["TASK_Q"] = << >>
                 THEN p ELSE @]

\* unready: proc_ptr changes if the head of the queue goes.
Unready(k, p) ==
  LET q    == k.rdy[QueueOf(p)]
      rest == [k EXCEPT !.rdy[QueueOf(p)] = Without(q, p)]
  IN  IF q # << >> /\ Head(q) = p /\ (QueueOf(p) = "TASK_Q" => p = k.proc_ptr)
      THEN PickProc(rest)
      ELSE rest

\* p_flags |= f, p_flags &= ~f, and what the code does before and after
Block(k, p, f) ==
  LET stopped == IF k.flags[p] = {} THEN Unready(k, p) ELSE k
  IN  [stopped EXCEPT !.flags[p] = @ \cup f]

Unblock(k, p, f) ==
  LET cleared == [k EXCEPT !.flags[p] = @ \ f]
  IN  IF cleared.flags[p] = {} THEN Ready(cleared, p) ELSE cleared

\* At the end of main: all tasks and servers and INIT are ready, and what
\* nobody has set is 0, the number of MM.
Booted(tasks, servers) ==
  LET queues == [q \in Queues |-> CASE q = "TASK_Q"   -> tasks
                                    [] q = "SERVER_Q" -> servers
                                    [] q = "USER_Q"   -> <<InitProc>>]
  IN  PickProc(
        [flags |-> [p \in Senders |-> {}],
         getfrom |-> [p \in Procs |-> MM],
         sendto |-> [p \in Senders |-> MM],
         callerq |-> [p \in Procs |-> << >>],
         messbuf |-> [p \in Procs |-> [source |-> MM, body |-> CHOOSE t \in Texts : TRUE]],
         intBlocked |-> {},
         empty |-> Users \ {InitProc},
         rdy |-> queues,
         proc_ptr |-> IDLE,
         pending |-> [u \in Users |-> {}],
         pendcount |-> [u \in Users |-> 0],
         sig_procs |-> 0])

Orders(S) == {q \in [1..Cardinality(S) -> S] : QueuedOnce(q)}

-----------------------------------------------------------------------------
(* Messages *)

\* Process d waits for a message of s and can take it.
Waits(k, d, s) ==
  /\ "RECEIVING" \in k.flags[d] /\ "SENDING" \notin k.flags[d]
  /\ k.getfrom[d] \in {ANY, s}

SendsWithin(k, S) == \A p \in S : "SENDING" \in k.flags[p] => k.sendto[p] \in S

\* A faulty variant: only two processes that send to each other are found.
LockedPair(k, c, d) == "SENDING" \in k.flags[d] /\ k.sendto[d] = c

\* The chain of p_sendto that starts at d leads to c: c is in every set that
\* has p_sendto of d and that the senders in it do not leave.
Locked(k, c, d) ==
  /\ "SENDING" \in k.flags[d]
  /\ \A S \in SUBSET Procs : k.sendto[d] \in S /\ SendsWithin(k, S) => c \in S

\* The error returns of mini_send.
Refused(k, c, d) ==
  \/ c \in Users /\ d \notin Servers
  \/ d \in k.empty
  \/ Locked(k, c, d)

\* What is in the buffer of c; inform uses the buffer of the system task.
Message(k, c) == k.messbuf[IF c = HARDWARE THEN SYSTASK ELSE c].body

\* mini_send
MiniSend(k, c, d) ==
  CASE Refused(k, c, d) -> k
    [] ~ Refused(k, c, d) /\ Waits(k, d, c) ->
         Unblock([k EXCEPT !.messbuf[d] = [source |-> c, body |-> Message(k, c)]],
                 d, {"RECEIVING"})
    [] OTHER ->
         [Block(k, c, {"SENDING"}) EXCEPT !.sendto[c] = d,
                                          !.callerq[d] = Append(@, c)]

\* The next process with a signal for MM: servers have none.
FirstPending(k) ==
  CHOOSE u \in Users :
    /\ "PENDING" \in k.flags[u]
    /\ \A v \in Users : "PENDING" \in k.flags[v] => u <= v

\* inform: the message is made in the buffer of the system task.
Inform(k) ==
  IF \E u \in Users : "PENDING" \in k.flags[u]
  THEN LET u    == FirstPending(k)
           made == [k EXCEPT !.messbuf[SYSTASK].body = <<"KSIG", u, k.pending[u]>>,
                             !.sig_procs = @ - 1]
       IN  PickProc([MiniSend(made, HARDWARE, MM) EXCEPT
                       !.pending[u] = {}, !.flags[u] = @ \ {"PENDING"}])
  ELSE k

\* A faulty variant: only the first message in the queue is looked at.
OffersFirst(k, c, src) ==
  {i \in DOMAIN k.callerq[c] : i = 1 /\ src \in {ANY, k.callerq[c][i]}}

\* Places in the queue of c of messages it may take.
Offers(k, c, src) ==
  {i \in DOMAIN k.callerq[c] : src \in {ANY, k.callerq[c][i]}}

FirstOffer(k, c, src) ==
  k.callerq[c][CHOOSE i \in Offers(k, c, src) :
                 \A j \in Offers(k, c, src) : i <= j]

\* The message of a queued sender is taken, and the sender goes on.
TakeFrom(k, c, s) ==
  Unblock([k EXCEPT !.messbuf[c] = [source |-> s, body |-> Message(k, s)],
                    !.callerq[c] = Without(@, s)],
          s, {"SENDING"})

\* A faulty variant: MM is not told when it blocks.
SleepUninformed(k, c, src) ==
  [Block(k, c, {"RECEIVING"}) EXCEPT !.getfrom[c] = src]

\* No message is there: c blocks, and MM may hear of a signal at once.
Sleep(k, c, src) ==
  LET blocked == [Block(k, c, {"RECEIVING"}) EXCEPT !.getfrom[c] = src]
  IN  IF c = MM /\ src = ANY /\ k.sig_procs > 0 THEN Inform(blocked) ELSE blocked

\* mini_rec
MiniRec(k, c, src) ==
  CASE "SENDING" \notin k.flags[c] /\ Offers(k, c, src) # {} ->
         TakeFrom(k, c, FirstOffer(k, c, src))
    [] /\ "SENDING" \notin k.flags[c] /\ Offers(k, c, src) = {}
       /\ c \in k.intBlocked /\ src \in {ANY, HARDWARE} ->
         [k EXCEPT !.messbuf[c] = [source |-> HARDWARE, body |-> <<"HARD_INT">>],
                   !.intBlocked = @ \ {c}]
    [] OTHER -> Sleep(k, c, src)

\* sys_call with BOTH; with SEND or RECEIVE it is one of the above.
SendRec(k, c, d) ==
  IF Refused(k, c, d) THEN k ELSE MiniRec(MiniSend(k, c, d), c, d)

\* A faulty variant: an interrupt for a busy task is not noted.
InterruptLost(k, t) ==
  IF Waits(k, t, HARDWARE)
  THEN Ready([k EXCEPT !.messbuf[t] = [source |-> HARDWARE, body |-> <<"HARD_INT">>],
                       !.flags[t] = @ \ {"RECEIVING"}], t)
  ELSE k

\* interrupt
Interrupt(k, t) ==
  IF Waits(k, t, HARDWARE)
  THEN Ready([k EXCEPT !.messbuf[t] = [source |-> HARDWARE, body |-> <<"HARD_INT">>],
                       !.flags[t] = @ \ {"RECEIVING"},
                       !.intBlocked = @ \ {t}], t)
  ELSE [k EXCEPT !.intBlocked = @ \cup {t}]

-----------------------------------------------------------------------------
(* Signals, and what the system task does for MM and FS *)

\* cause_sig
CauseSig(k, u, sig) ==
  LET noted  == [k EXCEPT !.pending[u] = @ \cup {sig}, !.pendcount[u] = @ + 1]
      raised == [Block(noted, u, {"PENDING", "SIG_PENDING"}) EXCEPT !.sig_procs = @ + 1]
  IN  CASE sig \in k.pending[u] -> k
        [] sig \notin k.pending[u] /\ "PENDING" \in k.flags[u] -> noted
        [] OTHER ->
             IF "RECEIVING" \in k.flags[MM] /\ k.getfrom[MM] = ANY
             THEN Inform(raised)
             ELSE raised

\* A faulty variant: the process gets ready whatever else stops it.
DoEndsigReady(k, u) ==
  LET counted == [k EXCEPT !.pendcount[u] = @ - 1]
  IN  CASE u \in k.empty \/ k.pendcount[u] = 0 -> k
        [] u \notin k.empty /\ k.pendcount[u] = 1 ->
             Ready([counted EXCEPT !.flags[u] = @ \ {"SIG_PENDING"}], u)
        [] OTHER -> counted

\* do_endsig
DoEndsig(k, u) ==
  LET counted == [k EXCEPT !.pendcount[u] = @ - 1]
  IN  CASE u \in k.empty \/ k.pendcount[u] = 0 -> k
        [] u \notin k.empty /\ k.pendcount[u] = 1 ->
             Unblock(counted, u, {"SIG_PENDING"})
        [] OTHER -> counted

\* do_fork: the child is a copy of its parent that must not run yet.
DoFork(k, p, c) ==
  [k EXCEPT !.empty = @ \ {c},
            !.flags[c] = (k.flags[p] \ {"PENDING", "SIG_PENDING", "P_STOP"})
                           \cup {"NO_MAP"},
            !.getfrom[c] = k.getfrom[p],
            !.sendto[c] = k.sendto[p],
            !.callerq[c] = k.callerq[p],
            !.messbuf[c] = k.messbuf[p],
            !.pending[c] = {},
            !.pendcount[c] = 0]

\* do_newmap
DoNewmap(k, u) ==
  IF k.flags[u] = {} THEN k ELSE Unblock(k, u, {"NO_MAP"})

\* do_exec: MM does not answer this call.
DoExec(k, u, traced) ==
  Unblock(IF traced THEN CauseSig(k, u, SIGTRAP) ELSE k, u, {"RECEIVING"})

\* A faulty variant: the process stays in the queue of its callee.
DoXitQueued(k, u) ==
  LET gone == IF k.flags[u] = {} THEN Unready(k, u) ELSE k
  IN  [gone EXCEPT
        !.sig_procs = IF "PENDING" \in k.flags[u] THEN @ - 1 ELSE @,
        !.pending[u] = {},
        !.pendcount[u] = 0,
        !.flags[u] = {},
        !.empty = @ \cup {u}]

\* do_xit: u leaves the ready queue, or the queue of the process it calls.
DoXit(k, u) ==
  LET gone == IF k.flags[u] = {} THEN Unready(k, u) ELSE k
  IN  [gone EXCEPT
        !.callerq = IF "SENDING" \in k.flags[u]
                    THEN [p \in Procs |-> Without(@[p], u)] ELSE @,
        !.sig_procs = IF "PENDING" \in k.flags[u] THEN @ - 1 ELSE @,
        !.pending[u] = {},
        !.pendcount[u] = 0,
        !.flags[u] = {},
        !.empty = @ \cup {u}]

\* do_trace: T_STOP, and T_RESUME or T_STEP
DoStop(k, u) == IF u \in k.empty THEN k ELSE Block(k, u, {"P_STOP"})

DoResume(k, u) == IF u \in k.empty THEN k ELSE Unblock(k, u, {"P_STOP"})

-----------------------------------------------------------------------------
(* What a consistent kernel is *)

Sending(k, p) == "SENDING" \in k.flags[p]

Receiving(k, p) == "RECEIVING" \in k.flags[p]

\* A process that is blocked sending is in the caller queue of the process
\* it sends to, once, and in no other; nobody else is in a queue.
CallersExact(k) ==
  \A p \in Procs :
    /\ QueuedOnce(k.callerq[p])
    /\ \A q \in Senders :
         q \in Members(k.callerq[p]) <=> Sending(k, q) /\ k.sendto[q] = p

\* In every set of processes one does not send to another of the set.
Acyclic(k) ==
  \A S \in SUBSET Procs : S # {} =>
    \E p \in S : ~ (Sending(k, p) /\ k.sendto[p] \in S)

\* A ready queue has the living processes of its kind of which p_flags is
\* 0, each of them once.
ReadyQueuesExact(k) ==
  \A q \in Queues :
    /\ QueuedOnce(k.rdy[q])
    /\ Members(k.rdy[q]) =
         {p \in Procs \ k.empty : QueueOf(p) = q /\ k.flags[p] = {}}

\* Nobody waits for a message or an interrupt that is there.
NothingLeft(k) ==
  \A p \in Procs : Receiving(k, p) /\ ~ Sending(k, p) =>
    /\ \A q \in Members(k.callerq[p]) : k.getfrom[p] \notin {ANY, q}
    /\ p \in k.intBlocked => k.getfrom[p] \notin {ANY, HARDWARE}

Pending(k) == {u \in Users : "PENDING" \in k.flags[u]}

\* The counts of signals are exact, and MM knows of one when it is free.
SignalCounts(k) ==
  /\ k.sig_procs = Cardinality(Pending(k))
  /\ Receiving(k, MM) /\ k.getfrom[MM] = ANY => k.sig_procs = 0
  /\ \A u \in Users :
       /\ "PENDING" \in k.flags[u] <=> k.pending[u] # {}
       /\ "SIG_PENDING" \in k.flags[u] <=> k.pendcount[u] > 0

=============================================================================
