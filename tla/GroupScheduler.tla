---------------------------- MODULE GroupScheduler ----------------------------
(***************************************************************************)
(* Lab 2: how MINIX shares the processor among user processes of the       *)
(* groups A, B and C.  Three activities interleave:                        *)
(*   - the clock interrupt (clock_handler), which counts the quantum down  *)
(*     and decides whether the clock task has to run;                      *)
(*   - the clock task (do_clocktick), which calls sched when a process has *)
(*     used up its quantum; an interrupt may come between any two of its   *)
(*     steps and changes the same variables without a lock;                *)
(*   - user processes, servers and the other tasks, which make user        *)
(*     processes ready or not ready and change groups.                     *)
(* Everything in TASK_Q and SERVER_Q but the clock task is one flag,       *)
(* system: what matters here is only that it is not a user process.        *)
(***************************************************************************)
EXTENDS GroupQueue

CONSTANTS
  SchedRate,      \* SCHED_RATE, in ticks (6)
  Disturbances,   \* what may happen besides ticks; see Disturbance
  MaxLateTicks    \* bound: ticks while the clock task resets the quantum

Disturbance == {"alarm", "request", "block", "device", "fork", "setgroup"}

ASSUME SchedulerAssumption ==
  /\ SchedRate \in Nat \ {0}
  /\ MaxLateTicks \in Nat
  /\ Disturbances \subseteq Disturbance

IDLE == "IDLE"       \* slot of the idle task
NoOne == "NIL_PROC"

VARIABLES
  queue,       \* USER_Q
  group,       \* proc.group
  free,        \* slots that are not in use (PPRI_NONE)
  system,      \* TASK_Q or SERVER_Q holds another process than CLOCK
  clock,       \* where the clock task is; "receive" if it waits for a message
  reg,         \* value do_clocktick has read of sched_ticks
  intBlocked,  \* p_int_blocked of CLOCK
  intHeld,     \* p_int_held of CLOCK
  callers,     \* another task is queued to send to CLOCK
  bill,        \* bill_ptr
  prev,        \* prev_ptr
  schedTicks   \* sched_ticks

queueVars == <<queue, group, free>>
clockVars == <<clock, reg, intBlocked, intHeld, callers>>
quantumVars == <<prev, schedTicks>>
vars == <<queueVars, system, clockVars, bill, quantumVars>>

\* ready      HARD_INT received: TASK_Q holds CLOCK; alarms are looked at
\* store      sched_ticks is read, to be written back decremented
\* expired    it is 0: bill_ptr is compared with prev_ptr
\* switching  in lock_sched: interrupts of tasks are held
\* reset      sched_ticks is about to be reset
\* prev       prev_ptr is about to be set
\* done       do_clocktick returns, receive is next
\* request    a message of another task is served
ClockPlaces == {"receive", "ready", "store", "expired", "switching",
                "reset", "prev", "done", "request"}

quant_multip == [g \in Groups |-> IF g = 2 THEN 2 ELSE 1]

ProcPtr ==
  CASE clock # "receive" -> "CLOCK"
    [] clock = "receive" /\ system -> "system"
    [] clock = "receive" /\ ~ system /\ queue # << >> -> Head(queue)
    [] OTHER -> IDLE

\* Quantum of a process about to be measured: only a process with a pid,
\* that is, a user process, has a multiple of SCHED_RATE.
Quantum(p) ==
  IF p \in Users THEN SchedRate * quant_multip[group[p]] ELSE SchedRate

\* pick_proc sets bill_ptr only if neither a task nor a server is ready.
Billed(q, otherReady) ==
  IF otherReady THEN bill ELSE IF q = << >> THEN IDLE ELSE Head(q)

\* main.c: INIT is ready, so are the tasks and servers; bill_ptr "has to
\* point somewhere", prev_ptr is a null pointer.
Init ==
  /\ queue = <<InitProc>>
  /\ group = [u \in Users |-> 0]
  /\ free = Users \ {InitProc}
  /\ system = TRUE
  /\ clock = "receive"
  /\ reg = 0
  /\ intBlocked = FALSE /\ intHeld = FALSE /\ callers = FALSE
  /\ bill = IDLE
  /\ prev = NoOne
  /\ schedTicks = SchedRate

-----------------------------------------------------------------------------
(* The clock interrupt *)

\* interrupt(CLOCK)
Interrupt ==
  /\ clock' = IF clock = "receive" THEN "ready" ELSE clock
  /\ intHeld' = (intHeld \/ clock = "switching")
  /\ intBlocked' = (clock \notin {"receive", "switching"}
                     \/ (intBlocked /\ clock # "receive"))
  /\ UNCHANGED <<reg, callers>>

QuantumExpires == schedTicks = 1 /\ bill = prev /\ queue # << >>

\* Interrupts are disabled between the end of a system call and unhold.
InterruptsEnabled == ~ (clock = "receive" /\ intHeld)

Tick(alarm) ==
  /\ InterruptsEnabled
  /\ schedTicks > - MaxLateTicks
  /\ alarm => "alarm" \in Disturbances
  /\ IF alarm \/ QuantumExpires
     THEN Interrupt /\ UNCHANGED quantumVars
     ELSE /\ UNCHANGED clockVars
          /\ IF schedTicks = 1
             THEN schedTicks' = Quantum(ProcPtr) /\ prev' = bill
             ELSE schedTicks' = schedTicks - 1 /\ UNCHANGED prev
  /\ UNCHANGED <<queueVars, system, bill>>

\* unhold, at the first return to a process after lock_sched: held
\* interrupts are given again.
Unhold ==
  /\ intHeld /\ clock # "switching"
  /\ intHeld' = FALSE
  /\ clock' = IF clock = "receive" THEN "ready" ELSE clock
  /\ intBlocked' = (clock # "receive")
  /\ UNCHANGED <<queueVars, system, reg, callers, bill, quantumVars>>

-----------------------------------------------------------------------------
(* The clock task *)

At(place) == clock = place

GoTo(place) == clock' = place

\* An alarm of a user process: cause_sig stops it and, unless MM is busy,
\* tells MM.
AlarmSignal(u) ==
  /\ At("ready") /\ "alarm" \in Disturbances
  /\ u \in Members(queue)
  /\ queue' = Without(queue, u)
  /\ system' \in {TRUE, system}
  /\ UNCHANGED <<group, free, clockVars, bill, quantumVars>>

Load ==
  /\ At("ready")
  /\ reg' = schedTicks
  /\ GoTo("store")
  /\ UNCHANGED <<queueVars, system, intBlocked, intHeld, callers, bill,
                 quantumVars>>

Store ==
  /\ At("store")
  /\ schedTicks' = reg - 1
  /\ reg' = 0
  /\ GoTo(IF reg = 1 THEN "expired" ELSE "done")
  /\ UNCHANGED <<queueVars, system, intBlocked, intHeld, callers, bill, prev>>

\* A faulty variant: the first quantum is followed by another one.
CompareNever ==
  /\ At("expired")
  /\ GoTo("reset")
  /\ UNCHANGED <<queueVars, system, reg, intBlocked, intHeld, callers, bill,
                 quantumVars>>

Compare ==
  /\ At("expired")
  /\ GoTo(IF bill = prev THEN "switching" ELSE "reset")
  /\ UNCHANGED <<queueVars, system, reg, intBlocked, intHeld, callers, bill,
                 quantumVars>>

\* sched ends with pick_proc, which picks CLOCK: bill_ptr stays as it is.
SchedEnds ==
  /\ At("switching")
  /\ queue' = Scheduled(queue, group)
  /\ GoTo("reset")
  /\ UNCHANGED <<group, free, system, reg, intBlocked, intHeld, callers, bill,
                 quantumVars>>

\* A faulty variant: sched_ticks is only set when another process follows.
ResetSkipped ==
  /\ At("reset")
  /\ schedTicks' = IF Len(queue) > 1 THEN Quantum(ProcPtr) ELSE schedTicks
  /\ GoTo("prev")
  /\ UNCHANGED <<queueVars, system, reg, intBlocked, intHeld, callers, bill,
                 prev>>

\* A faulty variant (or a repaired one): the first quantum of a turn is that
\* of the group of the next process.
ResetForNext ==
  /\ At("reset")
  /\ schedTicks' = IF queue = << >> THEN SchedRate ELSE Quantum(Head(queue))
  /\ GoTo("prev")
  /\ UNCHANGED <<queueVars, system, reg, intBlocked, intHeld, callers, bill,
                 prev>>

\* proc_ptr is CLOCK here, which has no pid.
Reset ==
  /\ At("reset")
  /\ schedTicks' = Quantum(ProcPtr)
  /\ GoTo("prev")
  /\ UNCHANGED <<queueVars, system, reg, intBlocked, intHeld, callers, bill,
                 prev>>

SetPrev ==
  /\ At("prev")
  /\ prev' = bill
  /\ GoTo("done")
  /\ UNCHANGED <<queueVars, system, reg, intBlocked, intHeld, callers, bill,
                 schedTicks>>

\* A faulty variant: p_int_blocked is not looked at.
ReceiveForgetsBlocked ==
  /\ At("done")
  /\ GoTo(IF callers THEN "request" ELSE "receive")
  /\ callers' = FALSE
  /\ bill' = IF callers THEN bill ELSE Billed(queue, system)
  /\ UNCHANGED <<queueVars, system, reg, intBlocked, intHeld, quantumVars>>

\* receive(ANY): a queued sender comes first, then a blocked interrupt;
\* else CLOCK blocks and pick_proc picks who runs.
Receive ==
  /\ At("done")
  /\ \/ /\ callers
        /\ callers' = FALSE
        /\ GoTo("request")
        /\ UNCHANGED <<intBlocked, bill>>
     \/ /\ ~ callers /\ intBlocked
        /\ intBlocked' = FALSE
        /\ GoTo("ready")
        /\ UNCHANGED <<callers, bill>>
     \/ /\ ~ callers /\ ~ intBlocked
        /\ GoTo("receive")
        /\ bill' = Billed(queue, system)
        /\ UNCHANGED <<callers, intBlocked>>
  /\ UNCHANGED <<queueVars, system, reg, intHeld, quantumVars>>

\* GET_UPTIME, SET_ALARM and so on; the reply makes the caller ready.
Serve ==
  /\ At("request")
  /\ GoTo("done")
  /\ system' = TRUE
  /\ UNCHANGED <<queueVars, reg, intBlocked, intHeld, callers, bill,
                 quantumVars>>

-----------------------------------------------------------------------------
(* User processes, servers and the other tasks *)

\* The running process is a user process and no interrupt is due.
UserRuns == At("receive") /\ ~ intHeld /\ ~ system /\ queue # << >>

\* A server or another task runs.
SystemRuns ==
  \/ At("receive") /\ ~ intHeld /\ system
  \/ At("ready") /\ system

\* A faulty variant: unready does not pick the next process.
UserCallUnpicked ==
  /\ UserRuns /\ "block" \in Disturbances
  /\ queue' = Tail(queue)
  /\ system' \in BOOLEAN
  /\ UNCHANGED <<group, free, clockVars, bill, quantumVars>>

\* The running user process calls MM or FS and waits.  The server may be
\* busy, so that another user process runs meanwhile.
UserCall ==
  /\ UserRuns /\ "block" \in Disturbances
  /\ queue' = Tail(queue)
  /\ system' \in BOOLEAN
  /\ bill' = Billed(queue', system')
  /\ UNCHANGED <<group, free, clockVars, quantumVars>>

\* An interrupt of another device, or a server that is made ready by it.
DeviceInterrupt ==
  /\ "device" \in Disturbances
  /\ ~ system
  /\ ~ intHeld
  /\ system' = TRUE
  /\ UNCHANGED <<queueVars, clockVars, bill, quantumVars>>

\* The last of the other tasks and servers blocks.
SystemBlocks ==
  /\ SystemRuns
  /\ system' = FALSE
  /\ bill' = Billed(queue, At("ready"))
  /\ UNCHANGED <<queueVars, clockVars, quantumVars>>

\* A task calls the clock task: as soon as CLOCK waits, or after it.
ClockRequest ==
  /\ SystemRuns /\ "request" \in Disturbances
  /\ ~ callers
  /\ IF At("receive")
     THEN GoTo("request") /\ UNCHANGED callers
     ELSE callers' = TRUE /\ UNCHANGED clock
  /\ system' \in BOOLEAN
  /\ UNCHANGED <<queueVars, reg, intBlocked, intHeld, bill, quantumVars>>

\* A reply to a user process, the end of a signal, or a new map: ready.
MakeReady(u) ==
  /\ SystemRuns /\ "block" \in Disturbances
  /\ u \notin Members(queue) /\ u \notin free
  /\ queue' = AtFront(queue, u)
  /\ UNCHANGED <<group, free, system, clockVars, bill, quantumVars>>

\* do_fork: the child is in group A and waits for do_newmap.
Fork(u) ==
  /\ SystemRuns /\ "fork" \in Disturbances
  /\ u \in free
  /\ free' = free \ {u}
  /\ group' = [group EXCEPT ![u] = 0]
  /\ UNCHANGED <<queue, system, clockVars, bill, quantumVars>>

\* do_xit, also of a process that is killed while it is ready.
Exit(u) ==
  /\ SystemRuns /\ "fork" \in Disturbances
  /\ u \notin free /\ u # InitProc
  /\ free' = free \cup {u}
  /\ queue' = Without(queue, u)
  /\ UNCHANGED <<group, system, clockVars, bill, quantumVars>>

do_setProcGroup(u, g) ==
  /\ SystemRuns /\ "setgroup" \in Disturbances
  /\ u \notin free
  /\ group' = [group EXCEPT ![u] = g]
  /\ UNCHANGED <<queue, free, system, clockVars, bill, quantumVars>>

-----------------------------------------------------------------------------

ClockTask ==
  \/ Load \/ Store \/ Compare \/ SchedEnds \/ Reset \/ SetPrev
  \/ Receive \/ Serve \/ Unhold

Others ==
  \/ UserCall \/ DeviceInterrupt \/ SystemBlocks \/ ClockRequest
  \/ \E u \in Users :
       \/ AlarmSignal(u) \/ MakeReady(u) \/ Fork(u) \/ Exit(u)
       \/ \E g \in Groups : do_setProcGroup(u, g)

Ticks == Tick(FALSE) \/ Tick(TRUE)

Next == Ticks \/ ClockTask \/ Others

Spec == Init /\ [][Next]_vars

\* Time passes and the clock task runs when it is in TASK_Q; nothing is
\* assumed about the user processes, the servers and the other tasks.
LiveSpec ==
  /\ Spec
  /\ WF_vars(Ticks)
  /\ WF_vars(ClockTask)

-----------------------------------------------------------------------------
(* Properties *)

TypeOK ==
  /\ queue \in Seq(Users) /\ QueuedOnce(queue)
  /\ group \in [Users -> Groups]
  /\ free \subseteq Users \ Members(queue)
  /\ system \in BOOLEAN
  /\ clock \in ClockPlaces
  /\ reg \in Int
  /\ intBlocked \in BOOLEAN /\ intHeld \in BOOLEAN /\ callers \in BOOLEAN
  /\ bill \in Users \cup {IDLE}
  /\ prev \in Users \cup {IDLE, NoOne}
  /\ schedTicks \in Int

\* While the clock task waits, a quantum is running: sched_ticks has not
\* been left at 0 or below, from where it would count down for ever, by
\* the unlocked updates of the interrupt handler and the clock task.
QuantumRestored ==
  clock = "receive" => schedTicks \in 1..(2 * SchedRate)

\* The clock task does not wait while an interrupt for it or a caller is
\* blocked: an alarm or an expired quantum is not forgotten because CLOCK
\* was busy when it came.
NoInterruptLost == clock = "receive" => ~ intBlocked /\ ~ callers

\* When no task and no server runs, the running process is the one that is
\* billed: the two samples of bill_ptr that sched depends on are samples
\* of the process that used the time between them.
RunningIsBilled ==
  clock = "receive" /\ ~ intHeld /\ ~ system => bill = ProcPtr

\* No process keeps the processor for ever while others are ready, whatever
\* alarms, devices and tasks do in between.
HeadMovesOn ==
  \A u \in Users :
    (queue # << >> /\ Head(queue) = u /\ Len(queue) > 1)
      ~> (queue = << >> \/ Head(queue) # u \/ Len(queue) = 1)

=============================================================================
