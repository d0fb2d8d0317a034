---------------------------- MODULE KernelInvariants ----------------------------
(***************************************************************************)
(* The inductive invariants of KernelProcesses and of KernelServers, and   *)
(* the relations between states of the kernel that KernelProofs needs to   *)
(* prove them.  A kernel is k, or r after a change; s, h and a stand for   *)
(* script, hears and alarm.                                                *)
(***************************************************************************)
EXTENDS KernelServers

-----------------------------------------------------------------------------
(* What the kernel keeps *)

WellQueued(k) ==
  \A q \in Queues :
    /\ QueuedOnce(k.rdy[q])
    /\ \A p \in Members(k.rdy[q]) : QueueOf(p) = q

InQueue(k, p) == p \in Members(k.rdy[QueueOf(p)])

RunsFirst(k) == k.proc_ptr = FirstReady(k)

\* Tasks and servers are never stopped or signalled; a slot that is not in
\* use has no flags, and neither has the sender of interrupts.
KindsKept(k) ==
  /\ k.flags[HARDWARE] = {}
  /\ \A p \in Tasks \cup Servers : k.flags[p] \subseteq {"SENDING", "RECEIVING"}
  /\ \A u \in k.empty : k.flags[u] = {}

\* A process that is blocked sending calls a task or server, of which it
\* will wait for the answer, if it does.
CallsServers(k) ==
  \A p \in Procs : Sending(k, p) =>
    /\ k.sendto[p] \notin Users
    /\ Receiving(k, p) => k.getfrom[p] = k.sendto[p]

Linked(k) ==
  CallersExact(k) /\ Acyclic(k) /\ NothingLeft(k) /\ CallsServers(k)

\* SignalCounts, as long as MM has not been told, and a process of which MM
\* has not been told is not finished with its signals.
Counted(k) ==
  /\ k.sig_procs = Cardinality(Pending(k))
  /\ \A u \in Users :
       /\ "PENDING" \in k.flags[u] <=> k.pending[u] # {}
       /\ "SIG_PENDING" \in k.flags[u] <=> k.pendcount[u] > 0
       /\ k.pending[u] # {} => k.pendcount[u] > 0

Informed(k) ==
  Receiving(k, MM) /\ k.getfrom[MM] = ANY => k.sig_procs = 0

\* Between two calls of the kernel also Informed and RunsFirst hold.
Consistent(k) ==
  /\ k \in Kernels
  /\ KindsKept(k) /\ Linked(k) /\ Counted(k)
  /\ ReadyQueuesExact(k)

Stable(k) == Consistent(k) /\ Informed(k) /\ RunsFirst(k)

\* What holds between two calls is the inductive invariant.
IInv == Stable(kernel)

-----------------------------------------------------------------------------
(* What a program has read, and what it still does *)

\* What the scripts have
Entries ==
  {Request(d, body) : d \in Programs, body \in Texts}
    \cup {Answer(p) : p \in Procs}
    \cup {Cause(u, sig) : u \in Users, sig \in Signals}
    \cup {AwaitInterrupt}

\* Program p has a message that it has not read.
Heard(k, h, p) == p \in h /\ ~ Receiving(k, p)

HeardFrom(k, h, d, p) == Heard(k, h, d) /\ k.messbuf[d].source = p

\* Process p has called d, and d has the message.
Awaits(k, p, d) == Receiving(k, p) /\ ~ Sending(k, p) /\ k.getfrom[p] = d

AwaitsAlive(k, u, d) == u \notin k.empty /\ Awaits(k, u, d)

\* Server s waits for the answer of d.
Due(k, h, s, d) == s \notin h /\ Awaits(k, s, d)

\* Server p has made a call that the other program has not read.
Undone(k, h, p) ==
  /\ p \notin h /\ Receiving(k, p)
  /\ Sending(k, p) \/ HeardFrom(k, h, k.getfrom[p], p)

\* What server p still does for the last message: its script, and before it
\* the call that it has made and nobody has carried out.
Todo(k, s, h, p) ==
  IF Undone(k, h, p)
  THEN <<Request(k.getfrom[p], k.messbuf[p].body)>> \o s[p]
  ELSE s[p]

-----------------------------------------------------------------------------
(* The loops of the programs *)

\* Who has called receive has done its script and waits for any message; in
\* between tasks do not block, but for a driver that waits for its device,
\* and servers wait for the answer of another program.
LoopsKept(k, s, h) ==
  \A p \in Programs :
    /\ p \in h => s[p] = << >>
    /\ p \in h /\ Receiving(k, p) => k.getfrom[p] = ANY
    /\ p \notin h /\ Receiving(k, p) =>
         \/ p = DISK /\ k.getfrom[p] = HARDWARE
         \/ p \in Servers /\ k.getfrom[p] \in Programs \ {MM}
    /\ Sending(k, p) => p = MM /\ MM \notin h /\ Receiving(k, MM) /\ k.getfrom[MM] = FS

\* A user process makes the calls of the servers.
UsersCall(k) ==
  \A u \in Users :
    /\ Receiving(k, u) => k.getfrom[u] \in Servers
    /\ Sending(k, u) =>
         Receiving(k, u) /\ <<k.getfrom[u], k.messbuf[u].body>> \in UserCalls

\* Until the request of a server has been read, the server waits and has it
\* in its own buffer as well.
RequestsHeld(k, h) ==
  \A d \in Programs, p \in Servers : HeardFrom(k, h, d, p) =>
    Due(k, h, p, d) /\ k.messbuf[d].body = k.messbuf[p].body

SysTaskServes(k, s, h) ==
  /\ Heard(k, h, SYSTASK) => k.messbuf[SYSTASK].source \in Servers
  /\ s[SYSTASK] # << >> =>
       /\ Len(s[SYSTASK]) = 1
       /\ \E p \in Servers : s[SYSTASK][1] = Answer(p) /\ Due(k, h, p, SYSTASK)

ClockServes(k, s, h, a) ==
  /\ Heard(k, h, CLOCK) =>
       \/ k.messbuf[CLOCK].source = MM
       \/ k.messbuf[CLOCK].source = HARDWARE /\ k.messbuf[CLOCK].body = <<"HARD_INT">>
  /\ \/ Len(s[CLOCK]) = 1 /\ s[CLOCK][1] = Answer(MM) /\ Due(k, h, MM, CLOCK)
     \/ \A i \in 1..Len(s[CLOCK]) :
          \E u \in Users \ k.empty : s[CLOCK][i] = Cause(u, SIGALRM)
  /\ a \subseteq Users \ k.empty

DiskServes(k, s, h) ==
  /\ Heard(k, h, DISK) => k.messbuf[DISK].source \in Servers \cup {HARDWARE}
  /\ s[DISK] # << >> =>
       /\ \/ Len(s[DISK]) = 2 /\ s[DISK][1] = AwaitInterrupt /\ s[DISK][2] = Answer(FS)
          \/ Len(s[DISK]) = 1 /\ s[DISK][1] = Answer(FS)
       /\ Due(k, h, FS, DISK)
  /\ DISK \notin h /\ Receiving(k, DISK) => Len(s[DISK]) = 1

-----------------------------------------------------------------------------
(* The jobs of the servers *)

\* Of the signals of v MM knows n.
Knows(k, v, n) == k.pendcount[v] = Cardinality(k.pending[v]) + n

\* MM has not finished n signals of u, and it knows of no other signal.
Told(k, u, n) ==
  \A v \in Users \ k.empty : Knows(k, v, IF v = u THEN n ELSE 0)

NoneTold(k) == \A v \in Users \ k.empty : Knows(k, v, 0)

Stopped(k, u) == "SIG_PENDING" \in k.flags[u] \/ Awaits(k, u, MM)

\* FS has no message of u and will have none.
FarFromFS(k, u) == ~ (Receiving(k, u) /\ k.getfrom[u] = FS)

Before(q, u, v) == \A i, j \in DOMAIN q : q[i] = u /\ q[j] = v => i < j

\* The end of u, of which m requests are left, and of the signals that MM
\* has been told of.
SignalJob(k, h, t, u, m) ==
  /\ m <= Len(t) /\ Len(t) - m <= Cardinality(Signals)
  /\ \A i \in 1..Len(t) :
       t[i] = IF i > m THEN Request(SYSTASK, <<"SYS_ENDSIG", u>>)
              ELSE IF i = m THEN Request(SYSTASK, <<"SYS_XIT", u>>)
              ELSE Request(FS, <<"EXIT", u>>)
  /\ Told(k, u, Len(t) - m)
  /\ m > 0 => u \notin k.empty /\ Stopped(k, u)
  /\ m = 1 => FarFromFS(k, u)
  /\ m = 2 =>
       /\ HeardFrom(k, h, FS, MM) => FarFromFS(k, u)
       /\ Sending(k, MM) => Before(k.callerq[FS], u, MM)

\* A call of u, and what is left of it when it is fork
CallJob(k, t, u) ==
  \/ Len(t) = 1 /\ t[1] = Answer(u)
  \/ Len(t) = 1 /\ t[1] = Request(SYSTASK, <<"SYS_EXEC", u>>)
  \/ Len(t) = 2 /\ t[1] = Request(CLOCK, <<"SET_ALARM", u>>) /\ t[2] = Answer(u)

ForkJob(k, t, u, c) ==
  \/ /\ Len(t) = 4 /\ c \in k.empty
     /\ t[1] = Request(SYSTASK, <<"SYS_FORK", u, c>>)
     /\ t[2] = Request(SYSTASK, <<"SYS_NEWMAP", c>>)
     /\ t[3] = Answer(c) /\ t[4] = Answer(u)
  \/ /\ Len(t) = 3 /\ AwaitsAlive(k, c, MM)
     /\ t[1] = Request(SYSTASK, <<"SYS_NEWMAP", c>>)
     /\ t[2] = Answer(c) /\ t[3] = Answer(u)
  \/ /\ Len(t) = 2 /\ AwaitsAlive(k, c, MM)
     /\ t[1] = Answer(c) /\ t[2] = Answer(u)

MMJob(k, h, t) ==
  \/ \E u \in Users, m \in 0..2 : SignalJob(k, h, t, u, m)
  \/ \E u \in Users :
       /\ NoneTold(k) /\ AwaitsAlive(k, u, MM)
       /\ CallJob(k, t, u) \/ \E c \in Users \ {u} : ForkJob(k, t, u, c)

MMMessage(k) ==
  \/ \E u \in Users :
       /\ k.messbuf[MM].source = u /\ <<MM, k.messbuf[MM].body>> \in UserCalls
       /\ AwaitsAlive(k, u, MM) /\ NoneTold(k)
  \/ \E u \in Users \ k.empty, sigs \in SUBSET Signals :
       /\ k.messbuf[MM].source = HARDWARE
       /\ k.messbuf[MM].body = <<"KSIG", u, sigs>>
       /\ "SIG_PENDING" \in k.flags[u] /\ Told(k, u, Cardinality(sigs))

MMServes(k, s, h) ==
  IF Heard(k, h, MM) THEN MMMessage(k) ELSE MMJob(k, h, Todo(k, s, h, MM))

FSJob(k, h, t) ==
  \/ t = << >>
  \/ Len(t) = 1 /\ t[1] = Answer(MM) /\ Due(k, h, MM, FS)
  \/ \E u \in Users :
       /\ AwaitsAlive(k, u, FS)
       /\ \/ Len(t) = 1 /\ t[1] = Answer(u)
          \/ Len(t) = 2 /\ t[1] = Request(DISK, <<"read">>) /\ t[2] = Answer(u)
          \/ Len(t) = 2 /\ t[1] = Request(SYSTASK, <<"SYS_KILL", u>>) /\ t[2] = Answer(u)

FSMessage(k) ==
  \/ k.messbuf[FS].source = MM
  \/ \E u \in Users :
       /\ k.messbuf[FS].source = u /\ <<FS, k.messbuf[FS].body>> \in UserCalls
       /\ AwaitsAlive(k, u, FS)

\* Nobody waits for FS of whom FS does not know.
FSKnows(k, s, h) ==
  \A u \in Users : Awaits(k, u, FS) =>
    \/ HeardFrom(k, h, FS, u)
    \/ LET t == Todo(k, s, h, FS) IN t # << >> /\ t[Len(t)] = Answer(u)

FSServes(k, s, h) ==
  /\ IF Heard(k, h, FS) THEN FSMessage(k) ELSE FSJob(k, h, Todo(k, s, h, FS))
  /\ FSKnows(k, s, h)

-----------------------------------------------------------------------------
(* All of it *)

\* What holds while a call is carried out, too
Serving(k, s, h, a) ==
  /\ s \in [Programs -> Seq(Entries)] /\ h \subseteq Programs
  /\ SYSTASK \notin k.intBlocked
  /\ LoopsKept(k, s, h) /\ UsersCall(k) /\ RequestsHeld(k, h)
  /\ SysTaskServes(k, s, h) /\ ClockServes(k, s, h, a) /\ DiskServes(k, s, h)
  /\ MMServes(k, s, h) /\ FSServes(k, s, h)

\* No task loses the processor while it has something to do.
TasksAtWork(k, s, h) ==
  /\ Heard(k, h, SYSTASK) \/ s[SYSTASK] # << >> => k.proc_ptr = SYSTASK
  /\ s[CLOCK] # << >> => k.proc_ptr = CLOCK

Serves(k, s, h, a) == Serving(k, s, h, a) /\ TasksAtWork(k, s, h)

\* What the programs keep, between any two calls
Served == IInv /\ Serves(kernel, script, hears, alarm)

-----------------------------------------------------------------------------
(* What a call of the kernel changes *)

\* Everything but the flags, the ready queues and proc_ptr.
SameButFlags(k, r) ==
  /\ r.getfrom = k.getfrom /\ r.sendto = k.sendto
  /\ r.callerq = k.callerq /\ r.messbuf = k.messbuf
  /\ r.intBlocked = k.intBlocked /\ r.empty = k.empty
  /\ r.pending = k.pending /\ r.pendcount = k.pendcount
  /\ r.sig_procs = k.sig_procs

SameTable(k, r) == r.flags = k.flags /\ SameButFlags(k, r)

\* Nobody's signals change, and no slot.
SameSignals(k, r) ==
  r.empty = k.empty /\ r.pending = k.pending /\ r.pendcount = k.pendcount

\* Only the buffer of p has changed.
SameButBuffer(k, r, p) ==
  /\ r.flags = k.flags /\ r.getfrom = k.getfrom /\ r.callerq = k.callerq
  /\ r.intBlocked = k.intBlocked /\ r.proc_ptr = k.proc_ptr
  /\ SameSignals(k, r)
  /\ \A q \in Procs \ {p} : r.messbuf[q] = k.messbuf[q]

\* What mini_send does when the message cannot be delivered.
SendQueued(k, c, d) ==
  [Block(k, c, {"SENDING"}) EXCEPT !.sendto[c] = d, !.callerq[d] = Append(@, c)]

WithCaller(k, d, c) == [k.callerq EXCEPT ![d] = Append(@, c)]

\* A caller is queued at a process that is ready: mini_rec with ANY takes the
\* message of the first one, and it goes on unless it waits for an answer.
Takes(k, r, c, s) ==
  /\ s \in Procs /\ Sending(k, s) /\ k.sendto[s] = c /\ s # c
  /\ r.flags = [k.flags EXCEPT ![s] = @ \ {"SENDING"}]
  /\ r.messbuf = [k.messbuf EXCEPT ![c] = [source |-> s, body |-> k.messbuf[s].body]]
  /\ r.callerq = [k.callerq EXCEPT ![c] = Without(@, s)]
  /\ r.getfrom = k.getfrom /\ r.sendto = k.sendto
  /\ r.intBlocked = k.intBlocked
  /\ SameSignals(k, r)

\* MM gets a message about the signals of u.
TellsMM(k, r, u) ==
  LET body == <<"KSIG", u, k.pending[u]>>
  IN  /\ "PENDING" \in k.flags[u]
      /\ r.flags = [k.flags EXCEPT ![MM] = @ \ {"RECEIVING"}, ![u] = @ \ {"PENDING"}]
      /\ r.messbuf = [k.messbuf EXCEPT
                        ![SYSTASK] = [k.messbuf[SYSTASK] EXCEPT !.body = body],
                        ![MM] = [source |-> HARDWARE, body |-> body]]
      /\ r.pending = [k.pending EXCEPT ![u] = {}]
      /\ r.pendcount = k.pendcount /\ r.empty = k.empty
      /\ r.getfrom = k.getfrom /\ r.sendto = k.sendto
      /\ r.callerq = k.callerq /\ r.intBlocked = k.intBlocked
      /\ r.rdy["TASK_Q"] = k.rdy["TASK_Q"]

\* A signal of u is noted, and u is stopped.
NotesSignal(k, r, u, sig) ==
  /\ r.flags = [k.flags EXCEPT ![u] = @ \cup {"PENDING", "SIG_PENDING"}]
  /\ r.pending = [k.pending EXCEPT ![u] = @ \cup {sig}]
  /\ r.pendcount = [k.pendcount EXCEPT ![u] = @ + 1]
  /\ r.messbuf = k.messbuf /\ r.empty = k.empty
  /\ r.getfrom = k.getfrom /\ r.sendto = k.sendto
  /\ r.callerq = k.callerq /\ r.intBlocked = k.intBlocked
  /\ r.rdy["TASK_Q"] = k.rdy["TASK_Q"]

\* What p_flags |= and &= of user u leave alone
ReleaseOf(k, r, u) ==
  /\ \A q \in Senders \ {u} : r.flags[q] = k.flags[q]
  /\ r.messbuf = k.messbuf /\ r.getfrom = k.getfrom /\ r.sendto = k.sendto
  /\ r.callerq = k.callerq /\ r.intBlocked = k.intBlocked
  /\ r.empty = k.empty /\ r.pending = k.pending
  /\ r.rdy["TASK_Q"] = k.rdy["TASK_Q"]

\* Slot c of r is a copy of that of u, and nothing else has changed.
Copied(k, r, u, c) ==
  /\ \A q \in Senders \ {c} : r.flags[q] = k.flags[q]
  /\ r.flags[c] = (k.flags[u] \ {"PENDING", "SIG_PENDING", "P_STOP"}) \cup {"NO_MAP"}
  /\ \A q \in Procs \ {c} :
       /\ r.messbuf[q] = k.messbuf[q] /\ r.getfrom[q] = k.getfrom[q]
       /\ r.callerq[q] = k.callerq[q]
  /\ \A q \in Senders \ {c} : r.sendto[q] = k.sendto[q]
  /\ r.getfrom[c] = k.getfrom[u] /\ r.messbuf[c] = k.messbuf[u]
  /\ r.intBlocked = k.intBlocked /\ r.empty = k.empty \ {c}
  /\ r.pending = [k.pending EXCEPT ![c] = {}]
  /\ r.pendcount = [k.pendcount EXCEPT ![c] = 0]
  /\ r.rdy = k.rdy

-----------------------------------------------------------------------------
(* What leaves the job of a server alone *)

\* MM knows of as many signals as before.
KnowledgeKept(k, r) ==
  \A v \in Users \ k.empty, n \in Int : Knows(k, v, n) => Knows(r, v, n)

\* Process u is stopped, and MM is behind it in the queue of FS.
InOrder(k, u) ==
  Stopped(k, u) /\ (Sending(k, MM) => Before(k.callerq[FS], u, MM))

\* What a step may change while MM does its job
MMFrame(k, s, h, r, s2, h2) ==
  /\ Heard(r, h2, MM) <=> Heard(k, h, MM)
  /\ Heard(k, h, MM) => r.messbuf[MM] = k.messbuf[MM]
  /\ ~ Heard(k, h, MM) => Todo(r, s2, h2, MM) = Todo(k, s, h, MM)
  /\ r.empty = k.empty /\ KnowledgeKept(k, r)
  /\ HeardFrom(r, h2, FS, MM) =>
       \/ HeardFrom(k, h, FS, MM)
       \/ \A u \in Users \ k.empty : InOrder(k, u) => FarFromFS(r, u)
  /\ Sending(r, MM) =>
       \A u \in Users \ k.empty : InOrder(k, u) => Before(r.callerq[FS], u, MM)
  /\ \A u \in Users \ k.empty :
       /\ Awaits(k, u, MM) => Awaits(r, u, MM)
       /\ "SIG_PENDING" \in k.flags[u] => "SIG_PENDING" \in r.flags[u]
       /\ Stopped(k, u) /\ FarFromFS(k, u) => FarFromFS(r, u)

FSFrame(k, s, h, r, s2, h2) ==
  /\ Heard(r, h2, FS) <=> Heard(k, h, FS)
  /\ Heard(k, h, FS) => r.messbuf[FS] = k.messbuf[FS]
  /\ Todo(r, s2, h2, FS) = Todo(k, s, h, FS)
  /\ Due(k, h, MM, FS) => Due(r, h2, MM, FS)
  /\ \A u \in Users : AwaitsAlive(k, u, FS) => AwaitsAlive(r, u, FS)
  /\ \A u \in Users : Awaits(r, u, FS) => Awaits(k, u, FS)

\* Nothing happens to tasks and servers.
ProgramsKept(k, r) ==
  /\ \A p \in Programs : /\ r.flags[p] = k.flags[p]
                         /\ r.messbuf[p] = k.messbuf[p]
                         /\ r.getfrom[p] = k.getfrom[p]
  /\ r.intBlocked = k.intBlocked

-----------------------------------------------------------------------------
(* What holds when a program calls, reads or answers *)

\* Program p is done with its script, and nobody waits for it or for a task
\* that works.
Idle(k, s, h, p) ==
  /\ s[SYSTASK] = << >> /\ s[CLOCK] = << >> /\ ~ Heard(k, h, SYSTASK)
  /\ ~ Receiving(k, p) /\ ~ Sending(k, p) /\ k.flags[p] = {} /\ p \notin k.empty
  /\ p \in Procs /\ p \in Senders /\ p \notin Users /\ p # ANY /\ p # HARDWARE
  /\ Todo(k, s, h, p) = << >>
  /\ \A d \in Programs : p \in Servers => ~ HeardFrom(k, h, d, p)
  /\ \A e : ~ Awaits(k, p, e)
  /\ p = MM => NoneTold(k)
  /\ p = FS => \A u \in Users : ~ Awaits(k, u, FS)
  /\ p \in Servers => \A t \in Tasks : Receiving(k, t)

\* Who calls whom
CallsOf(p) == IF p = MM THEN {FS, SYSTASK, CLOCK} ELSE {DISK, SYSTASK}

\* An answer goes to somebody that waits for it.
AnswerAwaited(k, p, e) ==
  \E d \in Procs : e = Answer(d) /\ d # p /\ Awaits(k, d, p) /\ (d \in Users => d \notin k.empty)

\* What Serving says of the programs alone
ProgramsServe(k, s, h) ==
  /\ s \in [Programs -> Seq(Entries)] /\ h \subseteq Programs
  /\ SYSTASK \notin k.intBlocked
  /\ LoopsKept(k, s, h) /\ RequestsHeld(k, h)
  /\ SysTaskServes(k, s, h) /\ DiskServes(k, s, h)

\* Program p has read its message and begins with its job: what holds then.  The
\* call of a server that it has read is no longer among what that server still does.
JobBegun(k, s, h, a, p, job, s2, h2) ==
  /\ s2 \in [Programs -> Seq(Entries)] /\ h2 \subseteq Programs
  /\ s2[p] = job /\ \A q \in Programs \ {p} : s2[q] = s[q]
  /\ LoopsKept(k, s2, h2) /\ RequestsHeld(k, h2)
  /\ p # SYSTASK => SysTaskServes(k, s2, h2)
  /\ p # DISK => DiskServes(k, s2, h2)
  /\ p # CLOCK => ClockServes(k, s2, h2, a)
  /\ \A q \in Programs : Heard(k, h2, q) <=> Heard(k, h, q) /\ q # p
  /\ \A d : \A q : HeardFrom(k, h2, d, q) <=> HeardFrom(k, h, d, q) /\ d # p
  /\ \A q \in Servers : \A d : Due(k, h, q, d) => Due(k, h2, q, d)
  /\ p \in Servers => Todo(k, s2, h2, p) = job
  /\ \A q \in Servers : HeardFrom(k, h, p, q) =>
       /\ q # p /\ Due(k, h2, q, p) /\ Undone(k, h, q)
       /\ Todo(k, s, h, q) = <<Request(p, k.messbuf[p].body)>> \o s[q]
       /\ Todo(k, s2, h2, q) = s[q]
  /\ \A q \in Servers : ~ HeardFrom(k, h, p, q) /\ q # p =>
       Todo(k, s2, h2, q) = Todo(k, s, h, q)
  /\ p # MM /\ ~ HeardFrom(k, h, p, MM) => MMServes(k, s2, h2)
  /\ p # FS /\ ~ HeardFrom(k, h, p, FS) => FSServes(k, s2, h2)

\* What the rest of fork is when the system task has the request of it
ForkLeft(k, q, body, u, c) ==
  \/ /\ body = <<"SYS_FORK", u, c>> /\ c \in k.empty
     /\ Len(q) = 3 /\ q[1] = Request(SYSTASK, <<"SYS_NEWMAP", c>>)
     /\ q[2] = Answer(c) /\ q[3] = Answer(u)
  \/ /\ body = <<"SYS_NEWMAP", c>> /\ AwaitsAlive(k, c, MM)
     /\ Len(q) = 2 /\ q[1] = Answer(c) /\ q[2] = Answer(u)

\* The requests of MM, with what MM does after them
MMRequest(k, q, body) ==
  \E u \in Users :
    \/ /\ body = <<"SYS_ENDSIG", u>> /\ Len(q) < Cardinality(Signals)
       /\ \A i \in 1..Len(q) : q[i] = Request(SYSTASK, <<"SYS_ENDSIG", u>>)
       /\ Told(k, u, Len(q) + 1)
    \/ /\ body = <<"SYS_XIT", u>> /\ Len(q) <= Cardinality(Signals)
       /\ \A i \in 1..Len(q) : q[i] = Request(SYSTASK, <<"SYS_ENDSIG", u>>)
       /\ Told(k, u, Len(q)) /\ u \notin k.empty /\ FarFromFS(k, u)
    \/ /\ NoneTold(k) /\ AwaitsAlive(k, u, MM)
       /\ \/ body = <<"SYS_EXEC", u>> /\ q = << >>
          \/ \E c \in Users \ {u} : ForkLeft(k, q, body, u, c)

\* A call that program d has is the next thing that server p does.
NextCall(k, s, h, d, p) ==
  LET t == Todo(k, s, h, p)
  IN  /\ t[1] = Request(d, k.messbuf[d].body)
      /\ p \notin h /\ ~ Heard(k, h, p) /\ Due(k, h, p, d)
      /\ s[p] \in Seq(Entries) /\ Len(s[p]) \in Nat
      /\ Len(t) = 1 => s[p] = << >>
      /\ Len(t) = 2 => Len(s[p]) = 1 /\ t[2] = s[p][1]
      /\ Len(t) = Len(s[p]) + 1
      /\ \A i \in 1..Len(s[p]) : t[i + 1] = s[p][i]
      /\ p = MM => MMJob(k, h, t)
      /\ p = FS => FSJob(k, h, t)

=============================================================================
