----------------------------- MODULE KernelServers -----------------------------
(***************************************************************************)
(* Lab 2: the kernel with the programs that use it: the system task and    *)
(* the clock task, and, as far as the kernel shows them, MM, FS, a disk    *)
(* driver and user processes.  A program of a task or server receives a    *)
(* message and makes a script of it, the calls that it makes before it     *)
(* receives the next one.                                                  *)
(***************************************************************************)
EXTENDS KernelProcesses, FiniteSetsExt

CONSTANTS FS, CLOCK, DISK, SIGALRM, SIGPIPE

Programs == Tasks \cup Servers

\* What these programs and users say
Said ==
  {<<"OK">>, <<"fork">>, <<"exit">>, <<"exec">>, <<"alarm">>, <<"read">>, <<"write">>}
    \cup ({"SYS_FORK"} \X Users \X Users)
    \cup ({"SYS_NEWMAP", "SYS_EXEC", "SYS_XIT", "SYS_KILL", "SYS_ENDSIG",
           "SET_ALARM", "EXIT"} \X Users)

\* KernelProcesses with these programs, each of which may call every other:
\* what it has to know of them.
Closed ==
  /\ Tasks = {SYSTASK, CLOCK, DISK} /\ Cardinality(Tasks) = 3
  /\ Servers = {MM, FS} /\ MM # FS
  /\ {SIGALRM, SIGPIPE} \subseteq Signals
  /\ Said \subseteq Texts
  /\ Calls = {c \in Procs \X Procs :
                /\ c[1] # c[2]
                /\ ~ (c[1] \in Users /\ c[2] \in Users)}
  /\ MaxPend = 2 * Cardinality(Signals)

VARIABLES
  script,   \* what a task or server still does for the last message
  hears,    \* programs that have called receive and not read the message
  alarm,    \* users with p_alarm
  busy      \* whether the disk will interrupt

vars == <<kernel, script, hears, alarm, busy>>

\* Entries of scripts
Request(d, body) == [do |-> "call", to |-> d, body |-> body]
Answer(d)        == [do |-> "answer", to |-> d]
Cause(u, sig)    == [do |-> "signal", to |-> u, sig |-> sig]
AwaitInterrupt   == [do |-> "await", to |-> HARDWARE]

ServersInit ==
  /\ Init
  /\ script = [p \in Programs |-> << >>]
  /\ hears = {}
  /\ alarm = {}
  /\ busy = FALSE

Received(p) == kernel.messbuf[p]

-----------------------------------------------------------------------------
(* Programs of tasks and servers *)

\* receive(ANY), the top of every main loop
Listen(p) ==
  /\ Runs(p) /\ script[p] = << >> /\ p \notin hears
  /\ kernel' = MiniRec(kernel, p, ANY)
  /\ hears' = hears \cup {p}
  /\ UNCHANGED <<script, alarm, busy>>

Starts(p, job) ==
  /\ hears' = hears \ {p}
  /\ script' = [script EXCEPT ![p] = job]

\* The next call of the script
Proceed(p) ==
  /\ Runs(p) /\ script[p] # << >>
  /\ LET call == Head(script[p])
     IN  kernel' = CASE call.do = "call"   -> SendRec(Writes(p, call.body), p, call.to)
                     [] call.do = "answer" -> MiniSend(Writes(p, <<"OK">>), p, call.to)
                     [] call.do = "signal" -> CauseSig(kernel, call.to, call.sig)
                     [] call.do = "await"  -> MiniRec(kernel, p, HARDWARE)
  /\ script' = [script EXCEPT ![p] = Tail(@)]
  /\ UNCHANGED <<hears, alarm, busy>>

Handled(request) ==
  CASE request[1] = "SYS_FORK"   -> DoFork(kernel, request[2], request[3])
    [] request[1] = "SYS_NEWMAP" -> DoNewmap(kernel, request[2])
    [] request[1] = "SYS_EXEC"   -> DoExec(kernel, request[2], FALSE)
    [] request[1] = "SYS_XIT"    -> DoXit(kernel, request[2])
    [] request[1] = "SYS_KILL"   -> CauseSig(kernel, request[2], SIGPIPE)
    [] request[1] = "SYS_ENDSIG" -> DoEndsig(kernel, request[2])

\* A faulty variant: the process of the request is answered.
SysTaskToProcess ==
  /\ kernel' = Handled(Received(SYSTASK).body)
  /\ Starts(SYSTASK, <<Answer(Received(SYSTASK).body[2])>>)
  /\ UNCHANGED <<alarm, busy>>

\* sys_task: the function of the request works on the buffer of the message;
\* the answer goes to m_source of that buffer.
SysTask ==
  LET request == Received(SYSTASK).body
  IN  /\ kernel' = Handled(request)
      /\ Starts(SYSTASK, <<Answer(kernel'.messbuf[SYSTASK].source)>>)
      /\ alarm' = CASE request[1] = "SYS_XIT" -> alarm \ {request[2]}
                    [] request[1] = "SYS_FORK" /\ request[2] \in alarm ->
                         alarm \cup {request[3]}
                    [] OTHER -> alarm
      /\ UNCHANGED busy

\* clock_task: some alarms are due after an interrupt; SET_ALARM
ClockTask ==
  LET message == Received(CLOCK)
  IN  \/ /\ message.body = <<"HARD_INT">>
         /\ \E due \in SUBSET alarm : \E order \in Orders(due) :
              /\ \A i, j \in DOMAIN order : i < j => order[i] < order[j]
              /\ Starts(CLOCK, [i \in DOMAIN order |-> Cause(order[i], SIGALRM)])
              /\ alarm' = alarm \ due
         /\ UNCHANGED <<kernel, busy>>
      \/ /\ message.body # <<"HARD_INT">>
         /\ Starts(CLOCK, <<Answer(message.source)>>)
         /\ alarm' = alarm \cup {message.body[2]}
         /\ UNCHANGED <<kernel, busy>>

\* A driver starts its device and waits for it before it answers.
DiskTask ==
  LET source == Received(DISK).source
  IN  /\ source \in Servers
      /\ Starts(DISK, <<AwaitInterrupt, Answer(source)>>)
      /\ busy' = TRUE
      /\ UNCHANGED <<kernel, alarm>>

Death(u) == <<Request(FS, <<"EXIT", u>>), Request(SYSTASK, <<"SYS_XIT", u>>)>>

\* MM finishes every signal it is told of, with a handler or with death.
Signalled(u, sigs, dies) ==
  IF u \in kernel.empty THEN << >>
  ELSE (IF dies THEN Death(u) ELSE << >>)
         \o [i \in 1..Cardinality(sigs) |-> Request(SYSTASK, <<"SYS_ENDSIG", u>>)]

Forked(u) ==
  IF kernel.empty = {} THEN <<Answer(u)>>
  ELSE LET c == Min(kernel.empty)
       IN  <<Request(SYSTASK, <<"SYS_FORK", u, c>>),
             Request(SYSTASK, <<"SYS_NEWMAP", c>>), Answer(c), Answer(u)>>

MMServer ==
  LET message == Received(MM)
      u       == message.source
  IN  /\ CASE message.body[1] = "KSIG" ->
                \E dies \in BOOLEAN :
                  Starts(MM, Signalled(message.body[2], message.body[3], dies))
           [] message.body[1] = "fork"  -> Starts(MM, Forked(u))
           [] message.body[1] = "exit"  -> Starts(MM, Death(u))
           [] message.body[1] = "exec"  ->
                Starts(MM, <<Request(SYSTASK, <<"SYS_EXEC", u>>)>>)
           [] message.body[1] = "alarm" ->
                Starts(MM, <<Request(CLOCK, <<"SET_ALARM", u>>), Answer(u)>>)
      /\ UNCHANGED <<kernel, alarm, busy>>

FSServer ==
  LET message == Received(FS)
      u       == message.source
  IN  /\ CASE message.body[1] = "EXIT"  -> Starts(FS, <<Answer(MM)>>)
           [] message.body[1] = "read"  ->
                Starts(FS, <<Request(DISK, <<"read">>), Answer(u)>>)
           [] message.body[1] = "write" ->
                Starts(FS, <<Request(SYSTASK, <<"SYS_KILL", u>>), Answer(u)>>)
      /\ UNCHANGED <<kernel, alarm, busy>>

Program(p) ==
  \/ Listen(p)
  \/ Proceed(p)
  \/ /\ Runs(p) /\ p \in hears
     /\ \/ p = SYSTASK /\ SysTask
        \/ p = CLOCK /\ ClockTask
        \/ p = DISK /\ DiskTask
        \/ p = MM /\ MMServer
        \/ p = FS /\ FSServer

-----------------------------------------------------------------------------
(* Users and devices *)

UserCalls ==
  ({MM} \X {<<"fork">>, <<"exit">>, <<"exec">>, <<"alarm">>})
    \cup ({FS} \X {<<"read">>, <<"write">>})

User(u) ==
  /\ Runs(u)
  /\ \E call \in UserCalls :
       /\ u = InitProc => call[2] # <<"exit">>
       /\ kernel' = SendRec(Writes(u, call[2]), u, call[1])
  /\ UNCHANGED <<script, hears, alarm, busy>>

Tick ==
  /\ kernel' = Interrupt(kernel, CLOCK)
  /\ UNCHANGED <<script, hears, alarm, busy>>

\* The disk interrupts once for a request, maybe before the driver waits.
DiskReady ==
  /\ busy /\ busy' = FALSE
  /\ kernel' = Interrupt(kernel, DISK)
  /\ UNCHANGED <<script, hears, alarm>>

ServersNext ==
  \/ \E p \in Programs : Program(p)
  \/ \E u \in Users : User(u)
  \/ Tick
  \/ DiskReady

\* A task or server that gets the processor again and again goes on, and a
\* request to the disk is answered.
Fairness ==
  /\ \A p \in Programs : SF_vars(Program(p))
  /\ WF_vars(DiskReady)

ServersSpec == ServersInit /\ [][ServersNext]_vars /\ Fairness

-----------------------------------------------------------------------------
(* Properties *)

\* These programs are worth the trust of the kernel: all they do is what
\* KernelProcesses allows, so that all that is proved of it holds here.
\* Answers to users in particular never go to a process that does not wait
\* for them, because it has died or its slot has a new process.
RefinesProcesses == Spec

\* The system task keeps its request in the buffer that inform overwrites
\* for any task that causes a signal.  Until it has read the request it is
\* what the server that waits for the answer has sent.
RequestKept ==
  SYSTASK \in hears /\ ~ Receiving(kernel, SYSTASK) =>
    LET source == Received(SYSTASK).source
    IN  /\ source \in Servers /\ Waits(kernel, source, SYSTASK)
        /\ Received(SYSTASK).body = Received(source).body

\* Ticks are so far apart that the clock task is done before the next one.
TicksApart == []<>Waits(kernel, CLOCK, HARDWARE)

Calling(p) == kernel.flags[p] \cap {"SENDING", "RECEIVING"} # {}

\* Whoever calls a server is answered, executes or dies: no circle of calls
\* and no lost message or interrupt leaves it blocked.
CallsAnswered ==
  TicksApart => \A u \in Users : Calling(u) ~> ~ Calling(u)

\* A process with a signal is released or dies, unless MM always has calls
\* of users to serve first.
SignalsFinished ==
  TicksApart /\ []<>Waits(kernel, MM, HARDWARE) =>
    \A u \in Users : kernel.pendcount[u] > 0 ~> kernel.pendcount[u] = 0

=============================================================================
