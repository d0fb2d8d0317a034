------------------------------ MODULE KernelProofs ------------------------------
(***************************************************************************)
(* Lab 2: the kernel stays consistent under any programs that keep to what *)
(* it trusts them with, for any number of processes, any calls between     *)
(* them and any signals; and the programs of KernelServers do keep to it.  *)
(*                                                                         *)
(* The invariants are in KernelInvariants.  First comes what ready,        *)
(* unready and the setting of flags do to the ready queues, then what each *)
(* call of the kernel keeps, and the theorems about KernelProcesses.  Then *)
(* comes what the tasks and servers keep, what each call of the kernel     *)
(* does to that, and the theorems about KernelServers.                     *)
(***************************************************************************)
EXTENDS KernelInvariants, QueueProofs, FiniteSetTheorems, TLAPS

-----------------------------------------------------------------------------
(* ready, unready and pick_proc *)

\* Every process has a queue, by its kind.
LEMMA QueueOfKind ==
  ASSUME NEW p \in Procs
  PROVE  /\ QueueOf(p) \in Queues
         /\ QueueOf(p) = "TASK_Q" <=> p \in Tasks
         /\ QueueOf(p) = "SERVER_Q" <=> p \in Servers
         /\ QueueOf(p) = "USER_Q" <=> p \in Users
BY KernelAssumption DEF QueueOf, Queues, Procs

\* The same as ReadyQueuesExact, process by process.
LEMMA ReadyByProcess ==
  ASSUME NEW k \in Kernels
  PROVE  ReadyQueuesExact(k) <=>
           /\ WellQueued(k)
           /\ \A p \in Procs :
                InQueue(k, p) <=> p \notin k.empty /\ k.flags[p] = {}
<1>1. \A q \in Queues : Members(k.rdy[q]) \subseteq Procs
  <2>1. \A q \in Queues : k.rdy[q] \in Seq(Procs)
    BY DEF Kernels
  <2> QED  BY <2>1 DEF Members
<1>2. ASSUME ReadyQueuesExact(k)
      PROVE  /\ WellQueued(k)
             /\ \A p \in Procs :
                  InQueue(k, p) <=> p \notin k.empty /\ k.flags[p] = {}
  BY <1>2, QueueOfKind DEF ReadyQueuesExact, WellQueued, InQueue
<1>3. ASSUME WellQueued(k),
             \A p \in Procs : InQueue(k, p) <=> p \notin k.empty /\ k.flags[p] = {}
      PROVE  ReadyQueuesExact(k)
  <2> SUFFICES ASSUME NEW q \in Queues
               PROVE  /\ QueuedOnce(k.rdy[q])
                      /\ Members(k.rdy[q]) =
                           {p \in Procs \ k.empty : QueueOf(p) = q /\ k.flags[p] = {}}
    BY DEF ReadyQueuesExact
  <2> QED  BY <1>1, <1>3 DEF WellQueued, InQueue
<1> QED
  BY <1>2, <1>3

\* pick_proc
LEMMA PickProcResult ==
  ASSUME NEW k \in Kernels
  PROVE  /\ PickProc(k) \in Kernels
         /\ SameTable(k, PickProc(k)) /\ PickProc(k).rdy = k.rdy
         /\ RunsFirst(PickProc(k))
<1>1. \A q \in Queues : k.rdy[q] \in Seq(Procs)
  BY DEF Kernels
<1>2. FirstReady(k) \in Procs \cup {IDLE}
  BY <1>1, HeadIsMember DEF FirstReady, Queues
<1>3. PickProc(k) \in Kernels
  BY <1>2 DEF PickProc, Kernels
<1>4. SameTable(k, PickProc(k)) /\ PickProc(k).rdy = k.rdy
      /\ PickProc(k).proc_ptr = FirstReady(k)
  BY DEF PickProc, Kernels, SameTable, SameButFlags
<1> QED
  BY <1>3, <1>4 DEF RunsFirst, FirstReady

\* ready puts a process into its queue.
LEMMA ReadyResult ==
  ASSUME NEW k \in Kernels, NEW p \in Procs, WellQueued(k), ~ InQueue(k, p)
  PROVE  /\ Ready(k, p) \in Kernels
         /\ SameTable(k, Ready(k, p))
         /\ WellQueued(Ready(k, p))
         /\ \A r \in Procs : InQueue(Ready(k, p), r) <=> InQueue(k, r) \/ r = p
         /\ \A q \in Queues : q # QueueOf(p) => Ready(k, p).rdy[q] = k.rdy[q]
         /\ p \notin Users /\ k.rdy[QueueOf(p)] # << >> =>
              /\ Head(Ready(k, p).rdy[QueueOf(p)]) = Head(k.rdy[QueueOf(p)])
              /\ Ready(k, p).proc_ptr = k.proc_ptr
         /\ p \notin Tasks => Ready(k, p).proc_ptr = k.proc_ptr
         /\ /\ RunsFirst(k)
            /\ p \in Tasks \/ k.rdy["TASK_Q"] # << >> \/ k.rdy["SERVER_Q"] # << >>
            => RunsFirst(Ready(k, p))
<1> DEFINE Q == QueueOf(p)
           q == k.rdy[Q]
           n == IF p \in Users THEN AtFront(q, p) ELSE Append(q, p)
           r == Ready(k, p)
<1>1. Q \in Queues /\ q \in Seq(Procs) /\ QueuedOnce(q) /\ p \notin Members(q)
  BY QueueOfKind DEF Kernels, WellQueued, InQueue
<1>2. /\ n \in Seq(Procs) /\ QueuedOnce(n) /\ Members(n) = Members(q) \cup {p}
      /\ n # << >>
      /\ p \notin Users => Head(n) = IF q = << >> THEN p ELSE Head(q)
  <2>1. CASE p \in Users
    <3>1. /\ AtFront(q, p) \in Seq(Procs) /\ QueuedOnce(AtFront(q, p))
          /\ Members(AtFront(q, p)) = Members(q) \cup {p}
      BY <1>1, AtFrontAdds
    <3>2. AtFront(q, p) # << >>
      BY <3>1, NoMembers
    <3> QED  BY <2>1, <3>1, <3>2
  <2>2. CASE p \notin Users
    BY <1>1, <2>2, AppendAdds
  <2> QED  BY <2>1, <2>2
<1>3. r.rdy = [k.rdy EXCEPT ![Q] = n] /\ SameTable(k, r)
      /\ r.proc_ptr = IF Q = "TASK_Q" /\ q = << >> THEN p ELSE k.proc_ptr
  BY DEF Ready, Kernels, SameTable, SameButFlags
<1>4. r \in Kernels
  <2>1. [k.rdy EXCEPT ![Q] = n] \in [Queues -> Seq(Procs)]
    BY <1>1, <1>2 DEF Kernels
  <2>2. (IF Q = "TASK_Q" /\ q = << >> THEN p ELSE k.proc_ptr) \in Procs \cup {IDLE}
    BY DEF Kernels
  <2> HIDE DEF Q, q, n
  <2>3. r = [k EXCEPT !.rdy = [k.rdy EXCEPT ![Q] = n],
                      !.proc_ptr = IF Q = "TASK_Q" /\ q = << >> THEN p ELSE k.proc_ptr]
    BY DEF Ready, Kernels, Q, q, n
  <2> QED  BY <2>1, <2>2, <2>3 DEF Kernels
<1> HIDE DEF r, n, q, Q
<1>5. /\ r.rdy[Q] = n
      /\ \A o \in Queues \ {Q} : r.rdy[o] = k.rdy[o]
      /\ \A o \in Queues : r.rdy[o] \in Seq(Procs) /\ k.rdy[o] \in Seq(Procs)
  BY <1>1, <1>2, <1>3, <1>4 DEF Kernels
<1>6. WellQueued(r)
  BY <1>2, <1>5 DEF WellQueued, Q, q
<1>7. \A s \in Procs : InQueue(r, s) <=> InQueue(k, s) \/ s = p
  BY <1>2, <1>5, QueueOfKind DEF InQueue, Q, q
<1>8. ASSUME RunsFirst(k),
             p \in Tasks \/ k.rdy["TASK_Q"] # << >> \/ k.rdy["SERVER_Q"] # << >>
      PROVE  RunsFirst(r)
  <2>1. CASE p \in Tasks
    <3>1. Q = "TASK_Q" /\ p \notin Users
      BY <2>1, QueueOfKind DEF Q
    <3> QED  BY <1>2, <1>3, <1>5, <1>8, <3>1 DEF RunsFirst, FirstReady, q
  <2>2. CASE p \in Servers
    <3>1. Q = "SERVER_Q" /\ p \notin Users /\ p \notin Tasks /\ "TASK_Q" \in Queues
      BY <2>2, QueueOfKind DEF Q, Queues
    <3> QED  BY <1>2, <1>3, <1>5, <1>8, <3>1 DEF RunsFirst, FirstReady, q
  <2>3. CASE p \in Users
    <3>1. Q = "USER_Q" /\ p \notin Tasks /\ "TASK_Q" \in Queues /\ "SERVER_Q" \in Queues
      BY <2>3, QueueOfKind DEF Q, Queues
    <3> QED  BY <1>3, <1>5, <1>8, <3>1 DEF RunsFirst, FirstReady
  <2> QED  BY <2>1, <2>2, <2>3 DEF Procs
<1> QED
  BY <1>2, <1>3, <1>4, <1>5, <1>6, <1>7, <1>8, QueueOfKind DEF r, q, Q

\* unready takes a process out of its queue; proc_ptr stays right.
LEMMA UnreadyResult ==
  ASSUME NEW k \in Kernels, NEW p \in Procs, WellQueued(k)
  PROVE  /\ Unready(k, p) \in Kernels
         /\ SameTable(k, Unready(k, p))
         /\ WellQueued(Unready(k, p))
         /\ \A r \in Procs : InQueue(Unready(k, p), r) <=> InQueue(k, r) /\ r # p
         /\ RunsFirst(k) => RunsFirst(Unready(k, p))
         /\ /\ k.rdy[QueueOf(p)] # << >> /\ Head(k.rdy[QueueOf(p)]) = p
            /\ p \in Tasks => k.proc_ptr = p
            => RunsFirst(Unready(k, p))
<1> DEFINE Q == QueueOf(p)
           q == k.rdy[Q]
           n == Without(q, p)
           rest == [k EXCEPT !.rdy[Q] = n]
           first == q # << >> /\ Head(q) = p /\ (Q = "TASK_Q" => p = k.proc_ptr)
           r == Unready(k, p)
<1>1. Q \in Queues /\ q \in Seq(Procs) /\ QueuedOnce(q)
  BY QueueOfKind DEF Kernels, WellQueued
<1>2. n \in Seq(Procs) /\ QueuedOnce(n) /\ Members(n) = Members(q) \ {p}
  BY <1>1, WithoutKeepsOthers
<1>3. r = IF first THEN PickProc(rest) ELSE rest
  BY DEF Unready
<1>4. /\ rest \in Kernels /\ SameTable(k, rest) /\ rest.proc_ptr = k.proc_ptr
      /\ rest.rdy = [k.rdy EXCEPT ![Q] = n]
  <2>1. [k.rdy EXCEPT ![Q] = n] \in [Queues -> Seq(Procs)]
    BY <1>1, <1>2 DEF Kernels
  <2> HIDE DEF n, Q, q
  <2>2. rest = [k EXCEPT !.rdy = [k.rdy EXCEPT ![Q] = n]]
    BY DEF Kernels
  <2> QED  BY <2>1, <2>2 DEF Kernels, SameTable, SameButFlags
<1> HIDE DEF rest, n, r
<1>5. r \in Kernels /\ SameTable(k, r) /\ r.rdy = rest.rdy
  BY <1>3, <1>4, PickProcResult DEF SameTable, SameButFlags
<1>6. /\ r.rdy[Q] = n
      /\ \A o \in Queues \ {Q} : r.rdy[o] = k.rdy[o]
      /\ \A o \in Queues : k.rdy[o] \in Seq(Procs)
  BY <1>1, <1>4, <1>5 DEF Kernels
<1>7. WellQueued(r)
  BY <1>2, <1>6 DEF WellQueued
<1>8. \A s \in Procs : InQueue(r, s) <=> InQueue(k, s) /\ s # p
  BY <1>2, <1>6, QueueOfKind DEF InQueue
<1>9. first => RunsFirst(r)
  BY <1>3, <1>4, PickProcResult
<1>10. ASSUME RunsFirst(k), ~ first
       PROVE  RunsFirst(r)
  <2>1. q = << >> \/ Head(q) # p
    <3>1. CASE Q = "TASK_Q"
      <4>1. q # << >> => k.proc_ptr = Head(q)
        BY <1>10, <3>1 DEF RunsFirst, FirstReady
      <4> QED  BY <1>10, <4>1
    <3>2. CASE Q # "TASK_Q"
      BY <1>10, <3>2
    <3> QED  BY <3>1, <3>2
  <2>2. (n = << >> <=> q = << >>) /\ (q # << >> => Head(n) = Head(q))
    <3>1. CASE q = << >>
      <4>1. Members(n) = {}
        BY <1>1, <1>2, <3>1, NoMembers
      <4> QED  BY <1>2, <3>1, <4>1, NoMembers
    <3>2. CASE q # << >>
      BY <1>1, <2>1, <3>2, WithoutKeepsHead DEF n
    <3> QED  BY <3>1, <3>2
  <2>3. \A o \in Queues : /\ r.rdy[o] = << >> <=> k.rdy[o] = << >>
                          /\ k.rdy[o] # << >> => Head(r.rdy[o]) = Head(k.rdy[o])
    BY <1>6, <2>2
  <2>4. r.proc_ptr = k.proc_ptr
    BY <1>3, <1>4, <1>10
  <2>5. "TASK_Q" \in Queues /\ "SERVER_Q" \in Queues /\ "USER_Q" \in Queues
    BY DEF Queues
  <2> QED  BY <1>10, <2>3, <2>4, <2>5 DEF RunsFirst, FirstReady
<1>11. (Q = "TASK_Q") = (p \in Tasks)
  BY QueueOfKind
<1> QED
  BY <1>5, <1>7, <1>8, <1>9, <1>10, <1>11 DEF r

-----------------------------------------------------------------------------
(* Setting and clearing flags *)

\* A process that blocks leaves its ready queue.
LEMMA BlockResult ==
  ASSUME NEW k \in Kernels, ReadyQueuesExact(k),
         NEW p \in Procs, p \notin k.empty,
         NEW f \in SUBSET Flags, f # {}
  PROVE  LET r == Block(k, p, f)
         IN  /\ r \in Kernels
             /\ r.flags = [k.flags EXCEPT ![p] = @ \cup f] /\ SameButFlags(k, r)
             /\ ReadyQueuesExact(r)
             /\ RunsFirst(k) => RunsFirst(r)
             /\ /\ k.flags[p] = {}
                /\ Head(k.rdy[QueueOf(p)]) = p
                /\ p \in Tasks => k.proc_ptr = p
                => RunsFirst(r)
<1> DEFINE u == IF k.flags[p] = {} THEN Unready(k, p) ELSE k
           g == [k.flags EXCEPT ![p] = @ \cup f]
           r == Block(k, p, f)
<1>1. WellQueued(k) /\ \A s \in Procs :
        InQueue(k, s) <=> s \notin k.empty /\ k.flags[s] = {}
  BY ReadyByProcess
<1>2. /\ u \in Kernels /\ SameTable(k, u) /\ WellQueued(u)
      /\ \A s \in Procs : InQueue(u, s) <=> InQueue(k, s) /\ s # p
      /\ RunsFirst(k) => RunsFirst(u)
      /\ /\ k.flags[p] = {}
         /\ Head(k.rdy[QueueOf(p)]) = p
         /\ p \in Tasks => k.proc_ptr = p
         => RunsFirst(u)
  <2>1. CASE k.flags[p] # {}
    BY <1>1, <2>1 DEF SameTable, SameButFlags
  <2>2. CASE k.flags[p] = {}
    <3>1. InQueue(k, p)
      BY <1>1, <2>2
    <3>2. k.rdy[QueueOf(p)] # << >>
      BY <3>1 DEF InQueue, Members
    <3> QED  BY <1>1, <2>2, <3>2, UnreadyResult
  <2> QED  BY <2>1, <2>2
<1>3. g \in [Senders -> SUBSET Flags]
  BY DEF Kernels
<1>4. r = [u EXCEPT !.flags = g]
  <2>1. u.flags = k.flags
    BY <1>2 DEF SameTable
  <2> HIDE DEF u
  <2>2. r = [u EXCEPT !.flags = [u.flags EXCEPT ![p] = @ \cup f]]
    BY <1>2 DEF Block, Kernels, u
  <2> QED  BY <2>1, <2>2
<1> HIDE DEF u, g, r
<1>5. /\ r \in Kernels /\ r.flags = g /\ r.rdy = u.rdy /\ r.proc_ptr = u.proc_ptr
      /\ r.empty = k.empty
      /\ SameButFlags(k, r)
  BY <1>2, <1>3, <1>4 DEF Kernels, SameTable, SameButFlags
<1>6. WellQueued(r) /\ \A s \in Procs : InQueue(r, s) <=> InQueue(u, s)
  BY <1>2, <1>5 DEF WellQueued, InQueue
<1>7. \A s \in Procs : r.flags[s] = IF s = p THEN k.flags[s] \cup f ELSE k.flags[s]
  BY <1>5 DEF g, Kernels, Senders
<1>8. \A s \in Procs : InQueue(r, s) <=> s \notin r.empty /\ r.flags[s] = {}
  BY <1>1, <1>2, <1>5, <1>6, <1>7
<1>9. RunsFirst(u) => RunsFirst(r)
  BY <1>5 DEF RunsFirst, FirstReady
<1> QED
  BY <1>2, <1>5, <1>6, <1>8, <1>9, ReadyByProcess DEF r, g

\* A process of which the last flag is cleared gets into its ready queue.
LEMMA UnblockResult ==
  ASSUME NEW k \in Kernels, ReadyQueuesExact(k),
         NEW p \in Procs, p \notin k.empty, k.flags[p] # {},
         NEW f
  PROVE  LET r == Unblock(k, p, f)
         IN  /\ r \in Kernels
             /\ r.flags = [k.flags EXCEPT ![p] = @ \ f] /\ SameButFlags(k, r)
             /\ ReadyQueuesExact(r)
             /\ /\ RunsFirst(k)
                /\ p \in Tasks \/ k.rdy["TASK_Q"] # << >> \/ k.rdy["SERVER_Q"] # << >>
                => RunsFirst(r)
             /\ \A q \in Queues : q # QueueOf(p) => r.rdy[q] = k.rdy[q]
             /\ p \notin Users /\ k.rdy[QueueOf(p)] # << >> =>
                  /\ Head(r.rdy[QueueOf(p)]) = Head(k.rdy[QueueOf(p)])
                  /\ r.proc_ptr = k.proc_ptr
             /\ p \notin Tasks => r.proc_ptr = k.proc_ptr
<1> DEFINE g == [k.flags EXCEPT ![p] = @ \ f]
           c == [k EXCEPT !.flags[p] = @ \ f]
           r == Unblock(k, p, f)
<1>1. WellQueued(k) /\ \A s \in Procs :
        InQueue(k, s) <=> s \notin k.empty /\ k.flags[s] = {}
  BY ReadyByProcess
<1>2. g \in [Senders -> SUBSET Flags] /\ p \in Senders
  BY DEF Kernels, Senders
<1>3. c = [k EXCEPT !.flags = g]
  BY DEF Kernels
<1> HIDE DEF c, g
<1>4. /\ c \in Kernels /\ c.flags = g /\ c.rdy = k.rdy /\ c.proc_ptr = k.proc_ptr
      /\ c.empty = k.empty
      /\ SameButFlags(k, c)
  BY <1>2, <1>3 DEF Kernels, SameTable, SameButFlags
<1>5. WellQueued(c) /\ \A s \in Procs : InQueue(c, s) <=> InQueue(k, s)
  BY <1>1, <1>4 DEF WellQueued, InQueue
<1>6. \A s \in Procs : c.flags[s] = IF s = p THEN k.flags[s] \ f ELSE k.flags[s]
  BY <1>4 DEF g, Kernels, Senders
<1>7. RunsFirst(k) => RunsFirst(c)
  BY <1>4 DEF RunsFirst, FirstReady
<1>8. r = IF c.flags[p] = {} THEN Ready(c, p) ELSE c
  BY DEF r, c, Unblock
<1> HIDE DEF r
<1>9. CASE c.flags[p] = {}
  <2>1. ~ InQueue(c, p)
    BY <1>1, <1>5
  <2>2. /\ r \in Kernels /\ SameTable(c, r) /\ WellQueued(r)
        /\ \A s \in Procs : InQueue(r, s) <=> InQueue(c, s) \/ s = p
        /\ \A q \in Queues : q # QueueOf(p) => r.rdy[q] = c.rdy[q]
        /\ p \notin Users /\ c.rdy[QueueOf(p)] # << >> =>
             /\ Head(r.rdy[QueueOf(p)]) = Head(c.rdy[QueueOf(p)])
             /\ r.proc_ptr = c.proc_ptr
        /\ p \notin Tasks => r.proc_ptr = c.proc_ptr
        /\ /\ RunsFirst(c)
           /\ p \in Tasks \/ c.rdy["TASK_Q"] # << >> \/ c.rdy["SERVER_Q"] # << >>
           => RunsFirst(r)
    BY <1>4, <1>5, <1>8, <1>9, <2>1, ReadyResult
  <2>3. SameButFlags(k, r)
    BY <1>4, <2>2 DEF SameTable, SameButFlags
  <2>4. \A s \in Procs : InQueue(r, s) <=> s \notin r.empty /\ r.flags[s] = {}
    <3>1. r.flags = c.flags /\ r.empty = k.empty
      BY <1>4, <2>2 DEF SameTable, SameButFlags
    <3>2. \A s \in Procs : InQueue(r, s) <=> InQueue(k, s) \/ s = p
      BY <1>5, <2>2
    <3> QED  BY <1>1, <1>6, <1>9, <3>1, <3>2
  <2>5. ReadyQueuesExact(r)
    BY <2>2, <2>4, ReadyByProcess
  <2>6. r.flags = [k.flags EXCEPT ![p] = @ \ f]
    BY <1>4, <2>2 DEF SameTable, g
  <2>7. RunsFirst(k) => RunsFirst(c)
    BY <1>7
  <2> QED  BY <1>4, <2>2, <2>3, <2>5, <2>6, <2>7 DEF r
<1>10. CASE c.flags[p] # {}
  <2>1. \A s \in Procs : InQueue(c, s) <=> s \notin c.empty /\ c.flags[s] = {}
    BY <1>1, <1>4, <1>5, <1>6, <1>10
  <2>2. ReadyQueuesExact(c)
    BY <1>4, <1>5, <2>1, ReadyByProcess
  <2> QED  BY <1>4, <1>7, <1>8, <1>10, <2>2 DEF r, g
<1> QED
  BY <1>9, <1>10

-----------------------------------------------------------------------------
(* Changes that keep parts of it *)

\* Nobody starts or ends sending, or starts to wait for what is there.
LEMMA LinkedKept ==
  ASSUME NEW k \in Kernels, NEW r \in Kernels, Linked(k),
         r.callerq = k.callerq, r.sendto = k.sendto,
         \A p \in Senders : Sending(r, p) <=> Sending(k, p),
         \A p \in Procs :
           Receiving(r, p) => Receiving(k, p) /\ r.getfrom[p] = k.getfrom[p],
         \A p \in r.intBlocked : p \in k.intBlocked \/ ~ Waits(r, p, HARDWARE)
  PROVE  Linked(r)
<1>1. \A p \in Procs : p \in Senders
  BY DEF Senders
<1>2. CallersExact(r)
  BY DEF Linked, CallersExact
<1>3. Acyclic(r)
  BY <1>1 DEF Linked, Acyclic
<1>4. NothingLeft(r)
  BY <1>1 DEF Linked, NothingLeft, Waits, Receiving, Sending
<1>5. CallsServers(r)
  BY <1>1 DEF Linked, CallsServers
<1> QED
  BY <1>2, <1>3, <1>4, <1>5 DEF Linked

\* No signal is caused, told to MM or finished.
LEMMA CountedKept ==
  ASSUME NEW k, NEW r, Counted(k),
         r.pending = k.pending, r.pendcount = k.pendcount, r.sig_procs = k.sig_procs,
         \A u \in Users, f \in {"PENDING", "SIG_PENDING"} :
           f \in r.flags[u] <=> f \in k.flags[u]
  PROVE  Counted(r)
<1>1. Pending(r) = Pending(k)
  BY DEF Pending
<1> QED
  BY <1>1 DEF Counted

\* A program writes into its buffer.
LEMMA WritingKeeps ==
  ASSUME NEW k, Consistent(k), NEW m \in [Procs -> Messages]
  PROVE  LET r == [k EXCEPT !.messbuf = m]
         IN  /\ Consistent(r)
             /\ Informed(r) <=> Informed(k)
             /\ RunsFirst(r) <=> RunsFirst(k)
<1> DEFINE r == [k EXCEPT !.messbuf = m]
<1>1. /\ k \in Kernels /\ r \in Kernels
      /\ r.rdy = k.rdy /\ r.proc_ptr = k.proc_ptr
  BY DEF Consistent, Kernels
<1>2. /\ r.flags = k.flags /\ r.getfrom = k.getfrom /\ r.sendto = k.sendto
      /\ r.callerq = k.callerq /\ r.intBlocked = k.intBlocked /\ r.empty = k.empty
      /\ r.pending = k.pending /\ r.pendcount = k.pendcount
      /\ r.sig_procs = k.sig_procs
  BY DEF Consistent, Kernels
<1> HIDE DEF r
<1>3. KindsKept(r)
  BY <1>2 DEF Consistent, KindsKept
<1>4. Linked(r)
  BY <1>1, <1>2, LinkedKept DEF Consistent, Sending, Receiving
<1>5. Counted(r)
  BY <1>2, CountedKept DEF Consistent
<1>6. ReadyQueuesExact(r)
  BY <1>1, <1>2 DEF Consistent, ReadyQueuesExact
<1>7. (Informed(r) <=> Informed(k)) /\ (RunsFirst(r) <=> RunsFirst(k))
  BY <1>1, <1>2 DEF Informed, Receiving, RunsFirst, FirstReady
<1> QED
  BY <1>1, <1>3, <1>4, <1>5, <1>6, <1>7 DEF Consistent, r

\* pick_proc
LEMMA PickProcKeeps ==
  ASSUME NEW k, Consistent(k)
  PROVE  /\ Consistent(PickProc(k)) /\ RunsFirst(PickProc(k))
         /\ Informed(PickProc(k)) <=> Informed(k)
<1> DEFINE r == PickProc(k)
<1>1. r \in Kernels /\ SameTable(k, r) /\ r.rdy = k.rdy /\ RunsFirst(r)
  BY PickProcResult DEF Consistent
<1> HIDE DEF r
<1>2. KindsKept(r)
  BY <1>1 DEF Consistent, KindsKept, SameTable, SameButFlags
<1>3. Linked(r)
  BY <1>1, LinkedKept DEF Consistent, Sending, Receiving, SameTable, SameButFlags
<1>4. Counted(r)
  BY <1>1, CountedKept DEF Consistent, SameTable, SameButFlags
<1>5. ReadyQueuesExact(r)
  BY <1>1 DEF Consistent, ReadyQueuesExact, SameTable, SameButFlags
<1>6. Informed(r) <=> Informed(k)
  BY <1>1 DEF Informed, Receiving, SameTable, SameButFlags
<1> QED
  BY <1>1, <1>2, <1>3, <1>4, <1>5, <1>6 DEF Consistent, r

\* A process gets rid of something that blocks it, other than sending.
LEMMA UnblockKeeps ==
  ASSUME NEW k \in Kernels, KindsKept(k), Linked(k), ReadyQueuesExact(k),
         NEW p \in Procs, k.flags[p] # {}, NEW f, "SENDING" \notin f
  PROVE  LET r == Unblock(k, p, f)
         IN  /\ r \in Kernels
             /\ KindsKept(r) /\ Linked(r) /\ ReadyQueuesExact(r)
             /\ Counted(k) /\ f \cap {"PENDING", "SIG_PENDING"} = {} => Counted(r)
             /\ Informed(k) => Informed(r)
<1> DEFINE r == Unblock(k, p, f)
<1>1. p \notin k.empty
  BY DEF KindsKept
<1>2. /\ r \in Kernels /\ ReadyQueuesExact(r)
      /\ r.flags = [k.flags EXCEPT ![p] = @ \ f] /\ SameButFlags(k, r)
  BY <1>1, UnblockResult
<1> HIDE DEF r
<1>3. k.flags \in [Senders -> SUBSET Flags] /\ p \in Senders
  BY DEF Kernels, Senders
<1>4. \A s \in Senders : r.flags[s] = IF s = p THEN k.flags[s] \ f ELSE k.flags[s]
  BY <1>2, <1>3
<1>5. KindsKept(r)
  <2>1. r.empty = k.empty /\ k.empty \subseteq Users
    BY <1>2 DEF SameButFlags, Kernels
  <2> QED  BY <1>4, <2>1 DEF KindsKept, Senders, Procs
<1>6. Linked(r)
  <2>1. \A s \in Senders : Sending(r, s) <=> Sending(k, s)
    BY <1>4 DEF Sending
  <2>2. \A s \in Procs : Receiving(r, s) => Receiving(k, s)
    BY <1>4 DEF Receiving, Senders
  <2> QED  BY <1>2, <2>1, <2>2, LinkedKept DEF SameButFlags
<1>7. ASSUME Counted(k), f \cap {"PENDING", "SIG_PENDING"} = {}
      PROVE  Counted(r)
  <2>1. \A u \in Users, e \in {"PENDING", "SIG_PENDING"} :
          e \in r.flags[u] <=> e \in k.flags[u]
    BY <1>4, <1>7 DEF Senders, Procs
  <2> QED  BY <1>2, <1>7, <2>1, CountedKept DEF SameButFlags
<1>8. Informed(k) => Informed(r)
  BY <1>2, <1>4, KernelAssumption DEF Informed, Receiving, SameButFlags, Senders, Procs
<1> QED
  BY <1>2, <1>5, <1>6, <1>7, <1>8 DEF r

\* The process that runs is ready, and the first of its queue.
LEMMA RunningIsReady ==
  ASSUME NEW k \in Kernels, ReadyQueuesExact(k), RunsFirst(k),
         NEW p \in Procs, k.proc_ptr = p
  PROVE  /\ k.flags[p] = {} /\ p \notin k.empty
         /\ k.rdy[QueueOf(p)] # << >> /\ Head(k.rdy[QueueOf(p)]) = p
<1>1. /\ "TASK_Q" \in Queues /\ "SERVER_Q" \in Queues /\ "USER_Q" \in Queues
      /\ \A q \in Queues : k.rdy[q] \in Seq(Procs)
  BY DEF Queues, Kernels
<1>2. \A q \in Queues : k.rdy[q] # << >> => Head(k.rdy[q]) \in Members(k.rdy[q])
  BY <1>1, HeadIsMember
<1>3. PICK q \in Queues : k.rdy[q] # << >> /\ Head(k.rdy[q]) = p
  BY <1>1, KernelAssumption DEF RunsFirst, FirstReady
<1>4. QueueOf(p) = q /\ k.flags[p] = {} /\ p \notin k.empty
  BY <1>2, <1>3 DEF ReadyQueuesExact
<1> QED
  BY <1>3, <1>4

-----------------------------------------------------------------------------
(* Telling MM of a signal *)

\* The scan of inform finds a process with a signal.
LEMMA FirstPendingFound ==
  ASSUME NEW k, Pending(k) # {}
  PROVE  FirstPending(k) \in Users /\ "PENDING" \in k.flags[FirstPending(k)]
<1>1. Pending(k) \in SUBSET Nat
  BY KernelAssumption DEF Pending
<1>2. PICK u \in Pending(k) : \A v \in Pending(k) : u <= v
  BY <1>1, FirstPosition
<1> QED
  BY <1>2 DEF Pending, FirstPending

\* The number of processes with signals that MM does not know.
LEMMA PendingFinite ==
  ASSUME NEW k
  PROVE  /\ IsFiniteSet(Pending(k)) /\ Cardinality(Pending(k)) \in Nat
         /\ Cardinality(Pending(k)) = 0 <=> Pending(k) = {}
<1>1. Pending(k) \subseteq Procs
  BY DEF Pending, Procs
<1>2. IsFiniteSet(Pending(k))
  BY <1>1, KernelAssumption, FS_Subset
<1> QED
  BY <1>2, FS_CardinalityType, FS_EmptySet

\* MM waits for any message: inform gives it one at once, about a process
\* that stays blocked by SIG_PENDING.
LEMMA InformResult ==
  ASSUME NEW k, Consistent(k),
         Receiving(k, MM), k.getfrom[MM] = ANY, Pending(k) # {}
  PROVE  /\ Stable(Inform(k))
         /\ \E u \in Users :
              /\ "PENDING" \in k.flags[u]
              /\ Inform(k).flags = [k.flags EXCEPT ![MM] = @ \ {"RECEIVING"},
                                                   ![u] = @ \ {"PENDING"}]
         /\ Inform(k).getfrom = k.getfrom /\ Inform(k).empty = k.empty
<1> DEFINE u    == FirstPending(k)
           body == <<"KSIG", u, k.pending[u]>>
           made == [k EXCEPT !.messbuf[SYSTASK].body = body, !.sig_procs = @ - 1]
           m    == [source |-> HARDWARE, body |-> Message(made, HARDWARE)]
           w    == [made EXCEPT !.messbuf[MM] = m]
           v    == Unblock(w, MM, {"RECEIVING"})
           x    == [v EXCEPT !.pending[u] = {}, !.flags[u] = @ \ {"PENDING"}]
<1>1. /\ u \in Users /\ "PENDING" \in k.flags[u]
      /\ MM \in Procs /\ MM \in Senders /\ u \in Senders /\ MM # u
      /\ MM \notin Users /\ HARDWARE \notin Users /\ SYSTASK \in Procs
      /\ k \in Kernels
  BY FirstPendingFound, KernelAssumption DEF Consistent, Procs, Senders
<1>2. "SENDING" \notin k.flags[MM] /\ MM \notin k.empty /\ k.flags[MM] # {}
  <2>1. ~ Sending(k, MM)
    <3>1. k.sendto[MM] \in Procs
      BY <1>1 DEF Kernels
    <3> QED  BY <1>1, <3>1, KernelAssumption DEF Consistent, Linked, CallsServers
  <2> QED  BY <1>1, <2>1 DEF Sending, Receiving, Kernels
<1>3. /\ made \in Kernels
      /\ made.flags = k.flags /\ made.getfrom = k.getfrom /\ made.empty = k.empty
  <2>1. body \in Bodies
    <3>1. k.pending[u] \in SUBSET Signals
      BY <1>1 DEF Kernels
    <3> QED  BY <1>1, <3>1 DEF Bodies
  <2> HIDE DEF body, u
  <2> DEFINE e == [k.messbuf[SYSTASK] EXCEPT !.body = body]
             b == [k.messbuf EXCEPT ![SYSTASK] = e]
             c == k.sig_procs - 1
  <2>2. e \in Messages
    <3>1. k.messbuf[SYSTASK] \in [source : Senders, body : Bodies]
      BY <1>1 DEF Kernels, Messages
    <3> QED  BY <2>1, <3>1 DEF Messages
  <2>3. made = [k EXCEPT !.messbuf = b, !.sig_procs = c]
    BY <1>1 DEF Kernels
  <2> HIDE DEF e, made
  <2>4. b \in [Procs -> Messages] /\ c \in Int
    BY <1>1, <2>2 DEF Kernels
  <2> HIDE DEF b, c
  <2> QED  BY <1>1, <2>3, <2>4 DEF Kernels
<1> HIDE DEF u
<1>4. MiniSend(made, HARDWARE, MM) = v
  <2> HIDE DEF made
  <2>1. ~ Refused(made, HARDWARE, MM)
    BY <1>1, <1>2, <1>3 DEF Refused, Locked
  <2>2. Waits(made, MM, HARDWARE)
    BY <1>2, <1>3 DEF Waits, Receiving
  <2> QED  BY <2>1, <2>2 DEF MiniSend
<1>5. Inform(k) = PickProc(x)
  BY <1>1, <1>4 DEF Inform, u
<1>6. /\ w \in Kernels /\ w.flags = k.flags /\ w.getfrom = k.getfrom
      /\ w.sendto = k.sendto /\ w.callerq = k.callerq
      /\ w.intBlocked = k.intBlocked /\ w.empty = k.empty
      /\ w.rdy = k.rdy /\ w.pending = k.pending /\ w.pendcount = k.pendcount
      /\ w.sig_procs = k.sig_procs - 1
  <2>1. /\ made.sendto = k.sendto /\ made.callerq = k.callerq
        /\ made.intBlocked = k.intBlocked /\ made.rdy = k.rdy
        /\ made.pending = k.pending /\ made.pendcount = k.pendcount
        /\ made.sig_procs = k.sig_procs - 1
    BY <1>1 DEF Kernels
  <2> HIDE DEF made
  <2>2. m \in Messages
    <3>1. made.messbuf[SYSTASK] \in Messages
      BY <1>1, <1>3 DEF Kernels
    <3> QED  BY <3>1 DEF Message, Messages, Senders
  <2> HIDE DEF m
  <2>3. [made.messbuf EXCEPT ![MM] = m] \in [Procs -> Messages]
    BY <1>1, <1>3, <2>2 DEF Kernels
  <2>4. w = [made EXCEPT !.messbuf = [made.messbuf EXCEPT ![MM] = m]]
    BY <1>3 DEF Kernels
  <2> HIDE DEF w
  <2> QED  BY <1>3, <2>1, <2>3, <2>4 DEF Kernels
<1> HIDE DEF made, m, w
<1>7. KindsKept(w) /\ Linked(w) /\ ReadyQueuesExact(w)
  <2>1. KindsKept(w)
    BY <1>6 DEF Consistent, KindsKept
  <2>2. Linked(w)
    BY <1>1, <1>6, LinkedKept DEF Consistent, Sending, Receiving
  <2>3. ReadyQueuesExact(w)
    BY <1>6 DEF Consistent, ReadyQueuesExact
  <2> QED  BY <2>1, <2>2, <2>3
<1>8. /\ v \in Kernels /\ KindsKept(v) /\ Linked(v) /\ ReadyQueuesExact(v)
      /\ v.flags = [k.flags EXCEPT ![MM] = @ \ {"RECEIVING"}] /\ SameButFlags(w, v)
  BY <1>1, <1>2, <1>6, <1>7, UnblockKeeps, UnblockResult
<1> HIDE DEF v
<1> DEFINE g == [v.flags EXCEPT ![u] = @ \ {"PENDING"}]
           n == [v.pending EXCEPT ![u] = {}]
<1>9. /\ g \in [Senders -> SUBSET Flags] /\ n \in [Users -> SUBSET Signals]
      /\ x = [v EXCEPT !.pending = n, !.flags = g]
  BY <1>1, <1>8 DEF Kernels
<1>10. \A s \in Senders :
         /\ v.flags[s] = IF s = MM THEN k.flags[s] \ {"RECEIVING"} ELSE k.flags[s]
         /\ g[s] = IF s = u THEN v.flags[s] \ {"PENDING"} ELSE v.flags[s]
  BY <1>1, <1>8 DEF Kernels
<1> HIDE DEF x, g, n
<1>11. /\ x \in Kernels /\ x.flags = g /\ x.pending = n
       /\ x.getfrom = v.getfrom /\ x.sendto = v.sendto /\ x.callerq = v.callerq
       /\ x.intBlocked = v.intBlocked /\ x.empty = v.empty /\ x.rdy = v.rdy
       /\ x.pendcount = k.pendcount /\ x.sig_procs = k.sig_procs - 1
  BY <1>6, <1>8, <1>9 DEF Kernels, SameButFlags
<1>12. KindsKept(x)
  <2>1. k.empty \subseteq Users /\ v.empty = k.empty
    BY <1>1, <1>6, <1>8 DEF Kernels, SameButFlags
  <2> QED  BY ZenonT(40), <1>8, <1>10, <1>11, <2>1 DEF KindsKept, Senders, Procs
<1>13. Linked(x)
  BY ZenonT(40), <1>8, <1>10, <1>11, LinkedKept DEF Sending, Receiving, Senders
<1>14. ReadyQueuesExact(x)
  <2>1. "SIG_PENDING" \in k.flags[u]
    BY <1>1 DEF Consistent, Counted
  <2>2. "SIG_PENDING" \in x.flags[u] /\ "SIG_PENDING" \in v.flags[u]
    BY <1>1, <1>10, <1>11, <2>1
  <2>3. \A s \in Procs : x.flags[s] = {} <=> v.flags[s] = {}
    BY <1>10, <1>11, <2>2 DEF Senders
  <2> QED  BY <1>8, <1>11, <2>3 DEF ReadyQueuesExact
<1>15. Counted(x)
  <2>1. \A s \in Users :
          x.flags[s] = IF s = u THEN k.flags[s] \ {"PENDING"} ELSE k.flags[s]
    BY <1>1, <1>10, <1>11 DEF Senders, Procs
  <2>2. \A s \in Users : x.pending[s] = IF s = u THEN {} ELSE k.pending[s]
    BY <1>6, <1>8, <1>11 DEF n, SameButFlags, Kernels
  <2>3. Pending(k) = Pending(x) \cup {u} /\ u \notin Pending(x)
    BY <1>1, <2>1 DEF Pending
  <2>4. Cardinality(Pending(k)) = Cardinality(Pending(x)) + 1
    BY <2>3, PendingFinite, FS_AddElement
  <2>5. x.sig_procs = Cardinality(Pending(x))
    BY <1>11, <2>4, PendingFinite DEF Consistent, Counted
  <2> QED  BY <1>11, <2>1, <2>2, <2>5 DEF Consistent, Counted
<1>16. Consistent(x) /\ Informed(x)
  BY <1>1, <1>10, <1>11, <1>12, <1>13, <1>14, <1>15
  DEF Consistent, Informed, Receiving, Senders
<1>17. /\ x.flags = [k.flags EXCEPT ![MM] = @ \ {"RECEIVING"}, ![u] = @ \ {"PENDING"}]
       /\ x.getfrom = k.getfrom /\ x.empty = k.empty
  <2>1. v.flags = [k.flags EXCEPT ![MM] = @ \ {"RECEIVING"}]
    BY <1>8
  <2>2. g = [k.flags EXCEPT ![MM] = @ \ {"RECEIVING"}, ![u] = @ \ {"PENDING"}]
    BY <2>1 DEF g
  <2> QED  BY <1>6, <1>8, <1>11, <2>2 DEF SameButFlags
<1>18. SameTable(x, PickProc(x))
  BY <1>11, PickProcResult
<1>19. Stable(PickProc(x))
  BY <1>16, PickProcKeeps DEF Stable
<1> QED
  BY <1>1, <1>5, <1>17, <1>18, <1>19 DEF SameTable, SameButFlags

-----------------------------------------------------------------------------
(* Messages *)

\* c blocks and is queued at d, of which no chain of senders leads to c.
LEMMA SendBlocks ==
  ASSUME NEW k, Consistent(k), NEW c \in Procs, NEW d \in Procs, c # d,
         k.flags[c] = {}, c \notin k.empty, d \notin Users,
         ~ Locked(k, c, d), ~ Waits(k, d, c)
  PROVE  LET r == SendQueued(k, c, d)
         IN  /\ Consistent(r)
             /\ Informed(k) => Informed(r)
             /\ RunsFirst(k) => RunsFirst(r)
             /\ r.flags[c] = {"SENDING"} /\ r.sendto[c] = d /\ r.empty = k.empty
<1> DEFINE b == Block(k, c, {"SENDING"})
           q == Append(k.callerq[d], c)
           to == [k.sendto EXCEPT ![c] = d]
           cq == [k.callerq EXCEPT ![d] = q]
           r == SendQueued(k, c, d)
<1>1. k \in Kernels /\ c \in Senders /\ ReadyQueuesExact(k)
  BY DEF Consistent, Senders
<1>2. /\ b \in Kernels /\ ReadyQueuesExact(b) /\ SameButFlags(k, b)
      /\ b.flags = [k.flags EXCEPT ![c] = @ \cup {"SENDING"}]
      /\ RunsFirst(k) => RunsFirst(b)
  <2>1. {"SENDING"} \in SUBSET Flags /\ {"SENDING"} # {}
    BY DEF Flags
  <2> QED  BY <1>1, <2>1, BlockResult
<1>3. r = [b EXCEPT !.sendto[c] = d, !.callerq[d] = Append(@, c)]
  BY DEF SendQueued
<1> HIDE DEF b, r
<1>4. r = [b EXCEPT !.sendto = to, !.callerq = cq]
  BY <1>2, <1>3 DEF SameButFlags, Kernels
<1>5. /\ q \in Seq(Senders) /\ QueuedOnce(q)
      /\ Members(q) = Members(k.callerq[d]) \cup {c}
  <2>1. k.callerq[d] \in Seq(Senders)
    BY <1>1 DEF Kernels
  <2>2. QueuedOnce(k.callerq[d]) /\ c \notin Members(k.callerq[d])
    BY <1>1 DEF Consistent, Linked, CallersExact, Sending
  <2> QED  BY <1>1, <2>1, <2>2, AppendAdds
<1> HIDE DEF q
<1>6. /\ to \in [Senders -> Procs] /\ cq \in [Procs -> Seq(Senders)]
      /\ \A s \in Senders : to[s] = IF s = c THEN d ELSE k.sendto[s]
      /\ \A p \in Procs : cq[p] = IF p = d THEN q ELSE k.callerq[p]
  BY <1>1, <1>5 DEF Kernels
<1> HIDE DEF to, cq
<1>7. /\ r \in Kernels /\ r.sendto = to /\ r.callerq = cq /\ r.flags = b.flags
      /\ r.rdy = b.rdy /\ r.proc_ptr = b.proc_ptr
      /\ r.getfrom = k.getfrom /\ r.intBlocked = k.intBlocked /\ r.empty = k.empty
      /\ r.pending = k.pending /\ r.pendcount = k.pendcount
      /\ r.sig_procs = k.sig_procs
  BY <1>2, <1>4, <1>6 DEF Kernels, SameButFlags
<1>8. \A s \in Senders :
        r.flags[s] = IF s = c THEN {"SENDING"} ELSE k.flags[s]
  <2>1. \A s \in Senders :
          r.flags[s] = IF s = c THEN k.flags[s] \cup {"SENDING"} ELSE k.flags[s]
    BY ZenonT(40), <1>1, <1>2, <1>7 DEF Kernels
  <2>2. k.flags[c] \cup {"SENDING"} = {"SENDING"}
    OBVIOUS
  <2> QED  BY <2>1, <2>2
<1>9. \A s \in Senders : Sending(r, s) <=> Sending(k, s) \/ s = c
  BY <1>8 DEF Sending
<1>10. \A s \in Senders : Receiving(r, s) <=> Receiving(k, s)
  BY <1>8 DEF Receiving
<1>11. \A p \in Procs : p \in Senders
  BY DEF Senders
<1>12. /\ CallersExact(k) /\ Acyclic(k) /\ NothingLeft(k) /\ CallsServers(k)
       /\ KindsKept(k) /\ Counted(k) /\ ~ Sending(k, c)
  BY DEF Consistent, Linked, Sending
<1>13. CallersExact(r)
  <2> SUFFICES ASSUME NEW p \in Procs
               PROVE  /\ QueuedOnce(r.callerq[p])
                      /\ \A s \in Senders :
                           s \in Members(r.callerq[p]) <=> Sending(r, s) /\ r.sendto[s] = p
    BY DEF CallersExact
  <2>1. /\ QueuedOnce(k.callerq[p])
        /\ \A s \in Senders :
             s \in Members(k.callerq[p]) <=> Sending(k, s) /\ k.sendto[s] = p
    BY <1>12 DEF CallersExact
  <2>2. CASE p = d
    BY SMTT(20), <1>5, <1>6, <1>7, <1>9, <1>12, <2>1, <2>2
  <2>3. CASE p # d
    BY <1>6, <1>7, <1>9, <1>12, <2>1, <2>3
  <2> QED  BY <2>2, <2>3
<1>14. Acyclic(r)
  <2> SUFFICES ASSUME NEW S \in SUBSET Procs, S # {},
                      \A p \in S : Sending(r, p) /\ r.sendto[p] \in S
               PROVE  FALSE
    BY DEF Acyclic
  <2>1. \A p \in S \ {c} : Sending(k, p) /\ k.sendto[p] \in S
    BY <1>6, <1>7, <1>9, <1>11
  <2>2. c \in S
    BY <1>12, <2>1 DEF Acyclic
  <2>3. d \in S /\ Sending(k, d) /\ k.sendto[d] \in S
    BY <1>1, <1>6, <1>7, <2>1, <2>2
  <2>4. PICK T \in SUBSET Procs : k.sendto[d] \in T /\ SendsWithin(k, T) /\ c \notin T
    BY <2>3 DEF Locked, Sending
  <2>5. \A p \in S \cap T : Sending(k, p) /\ k.sendto[p] \in S \cap T
    BY <2>1, <2>4 DEF SendsWithin, Sending
  <2> QED  BY <1>12, <2>3, <2>4, <2>5 DEF Acyclic
<1>15. NothingLeft(r)
  <2>1. ~ (Receiving(k, d) /\ ~ Sending(k, d) /\ k.getfrom[d] \in {ANY, c})
    BY DEF Waits, Receiving, Sending
  <2> QED  BY ZenonT(40), <1>5, <1>6, <1>7, <1>9, <1>10, <1>11, <1>12, <2>1 DEF NothingLeft
<1>16. CallsServers(r)
  <2>1. ~ Receiving(r, c)
    BY <1>1, <1>8 DEF Receiving
  <2> QED  BY <1>6, <1>7, <1>9, <1>10, <1>11, <1>12, <2>1 DEF CallsServers
<1>17. KindsKept(r)
  <2>1. HARDWARE # c
    BY KernelAssumption
  <2> QED  BY ZenonT(40), <1>7, <1>8, <1>12, <2>1 DEF KindsKept, Senders, Procs, Kernels
<1>18. Counted(r)
  <2>1. \A u \in Users, e \in {"PENDING", "SIG_PENDING"} :
          e \in r.flags[u] <=> e \in k.flags[u]
    BY <1>8 DEF Senders, Procs
  <2> QED  BY <1>7, <1>12, <2>1, CountedKept
<1>19. ReadyQueuesExact(r)
  BY <1>2, <1>7 DEF ReadyQueuesExact, SameButFlags
<1>20. Informed(k) => Informed(r)
  BY <1>7, <1>10, <1>11, KernelAssumption DEF Informed, Procs
<1>21. RunsFirst(b) => RunsFirst(r)
  BY <1>7 DEF RunsFirst, FirstReady
<1>22. Linked(r)
  BY <1>13, <1>14, <1>15, <1>16 DEF Linked
<1>23. Consistent(r)
  BY <1>7, <1>17, <1>18, <1>19, <1>22 DEF Consistent
<1>24. r.flags[c] = {"SENDING"} /\ r.sendto[c] = d
  BY <1>1, <1>6, <1>7, <1>8
<1> QED
  BY <1>2, <1>7, <1>20, <1>21, <1>23, <1>24 DEF r

\* The running process c takes the message of the first sender it may take
\* one of; the sender may go on to wait for the answer.
LEMMA TakeKeeps ==
  ASSUME NEW k, Stable(k), NEW c \in Procs, k.flags[c] = {}, c \notin k.empty,
         NEW s \in Senders, s \in Members(k.callerq[c])
  PROVE  Stable(TakeFrom(k, c, s))
<1> DEFINE m == [source |-> s, body |-> Message(k, s)]
           mb == [k.messbuf EXCEPT ![c] = m]
           q == Without(k.callerq[c], s)
           cq == [k.callerq EXCEPT ![c] = q]
           w == [k EXCEPT !.messbuf[c] = m, !.callerq[c] = q]
           r == Unblock(w, s, {"SENDING"})
<1>1. /\ k \in Kernels /\ ReadyQueuesExact(k) /\ Informed(k) /\ RunsFirst(k)
      /\ CallersExact(k) /\ Acyclic(k) /\ NothingLeft(k) /\ CallsServers(k)
      /\ KindsKept(k) /\ Counted(k)
  BY DEF Stable, Consistent, Linked
<1>2. /\ Sending(k, s) /\ k.sendto[s] = c
      /\ s \in Procs /\ c \in Senders /\ s # c /\ s \notin k.empty
      /\ c \notin Users
  <2>1. Sending(k, s) /\ k.sendto[s] = c
    BY <1>1 DEF CallersExact
  <2>2. s # HARDWARE /\ s # c /\ s \notin k.empty
    BY <1>1, <2>1 DEF KindsKept, Sending
  <2> QED  BY <1>1, <2>1, <2>2 DEF Senders, CallsServers
<1>3. /\ q \in Seq(Senders) /\ QueuedOnce(q)
      /\ Members(q) = Members(k.callerq[c]) \ {s}
  <2>1. k.callerq[c] \in Seq(Senders) /\ QueuedOnce(k.callerq[c])
    BY <1>1 DEF Kernels, CallersExact
  <2> QED  BY <2>1, WithoutKeepsOthers
<1>4. m \in Messages
  <2>1. k.messbuf[s] \in Messages /\ s # HARDWARE
    BY <1>1, <1>2, KernelAssumption DEF Kernels
  <2> QED  BY <2>1 DEF Message, Messages
<1>5. w = [k EXCEPT !.messbuf = mb, !.callerq = cq]
  BY <1>1 DEF Kernels
<1> HIDE DEF q, w, m
<1>6. /\ mb \in [Procs -> Messages] /\ cq \in [Procs -> Seq(Senders)]
      /\ \A p \in Procs : cq[p] = IF p = c THEN q ELSE k.callerq[p]
  BY <1>1, <1>3, <1>4 DEF Kernels
<1> HIDE DEF mb, cq
<1>7. /\ w \in Kernels /\ w.callerq = cq /\ w.flags = k.flags /\ w.rdy = k.rdy
      /\ w.proc_ptr = k.proc_ptr
      /\ w.getfrom = k.getfrom /\ w.sendto = k.sendto /\ w.intBlocked = k.intBlocked
      /\ w.empty = k.empty /\ w.pending = k.pending /\ w.pendcount = k.pendcount
      /\ w.sig_procs = k.sig_procs
  BY <1>1, <1>5, <1>6 DEF Kernels
<1>8. ReadyQueuesExact(w) /\ RunsFirst(w)
  BY <1>1, <1>7 DEF ReadyQueuesExact, RunsFirst, FirstReady
<1>9. s \in Tasks \/ w.rdy["TASK_Q"] # << >> \/ w.rdy["SERVER_Q"] # << >>
  <2>1. c \in Members(k.rdy[QueueOf(c)])
    BY <1>1, QueueOfKind DEF ReadyQueuesExact
  <2>2. QueueOf(c) \in {"TASK_Q", "SERVER_Q"} /\ k.rdy[QueueOf(c)] # << >>
    BY <1>2, <2>1, QueueOfKind DEF Members, Queues
  <2> QED  BY <1>7, <2>2
<1>10. /\ r \in Kernels /\ ReadyQueuesExact(r) /\ RunsFirst(r)
       /\ r.flags = [k.flags EXCEPT ![s] = @ \ {"SENDING"}] /\ SameButFlags(w, r)
  <2>1. k.flags[s] # {}
    BY <1>2 DEF Sending
  <2> QED  BY <1>2, <1>7, <1>8, <1>9, <2>1, UnblockResult
<1> HIDE DEF r
<1>11. \A p \in Senders :
         r.flags[p] = IF p = s THEN k.flags[p] \ {"SENDING"} ELSE k.flags[p]
  BY <1>1, <1>10 DEF Kernels
<1>12. \A p \in Senders : /\ Sending(r, p) <=> Sending(k, p) /\ p # s
                          /\ Receiving(r, p) <=> Receiving(k, p)
  BY <1>11 DEF Sending, Receiving
<1>13. \A p \in Procs : p \in Senders
  BY DEF Senders
<1>14. /\ r.callerq = cq /\ r.getfrom = k.getfrom /\ r.sendto = k.sendto
       /\ r.intBlocked = k.intBlocked /\ r.empty = k.empty
       /\ r.pending = k.pending /\ r.pendcount = k.pendcount
       /\ r.sig_procs = k.sig_procs
  BY <1>7, <1>10 DEF SameButFlags
<1>15. CallersExact(r)
  <2> SUFFICES ASSUME NEW p \in Procs
               PROVE  /\ QueuedOnce(r.callerq[p])
                      /\ \A t \in Senders :
                           t \in Members(r.callerq[p]) <=> Sending(r, t) /\ r.sendto[t] = p
    BY DEF CallersExact
  <2>1. /\ QueuedOnce(k.callerq[p])
        /\ \A t \in Senders :
             t \in Members(k.callerq[p]) <=> Sending(k, t) /\ k.sendto[t] = p
    BY <1>1 DEF CallersExact
  <2>2. CASE p = c
    BY <1>3, <1>6, <1>12, <1>14, <2>1, <2>2
  <2>3. CASE p # c
    BY <1>2, <1>6, <1>12, <1>14, <2>1, <2>3
  <2> QED  BY <2>2, <2>3
<1>16. Acyclic(r)
  BY <1>1, <1>12, <1>13, <1>14 DEF Acyclic
<1>17. NothingLeft(r)
  <2> SUFFICES ASSUME NEW p \in Procs, Receiving(r, p), ~ Sending(r, p)
               PROVE  /\ \A t \in Members(r.callerq[p]) : r.getfrom[p] \notin {ANY, t}
                      /\ p \in r.intBlocked => r.getfrom[p] \notin {ANY, HARDWARE}
    BY DEF NothingLeft
  <2>1. p # c /\ r.callerq[p] = k.callerq[p]
    BY <1>2, <1>6, <1>11, <1>14 DEF Receiving
  <2>2. CASE p = s
    <3>1. k.getfrom[s] = c
      BY <1>1, <1>2, <1>12, <2>2 DEF CallsServers
    <3>2. c \notin Members(k.callerq[p])
      BY <1>1, <1>2 DEF CallersExact, Sending
    <3>3. c \notin {ANY, HARDWARE}
      BY KernelAssumption
    <3> QED  BY <1>14, <2>1, <2>2, <3>1, <3>2, <3>3
  <2>3. CASE p # s
    BY <1>1, <1>12, <1>13, <1>14, <2>1, <2>3 DEF NothingLeft
  <2> QED  BY <2>2, <2>3
<1>18. CallsServers(r)
  BY <1>1, <1>12, <1>13, <1>14 DEF CallsServers
<1>19. KindsKept(r)
  BY ZenonT(40), <1>1, <1>2, <1>11, <1>14 DEF KindsKept, Senders, Procs, Kernels
<1>20. Counted(r)
  <2>1. \A u \in Users, e \in {"PENDING", "SIG_PENDING"} :
          e \in r.flags[u] <=> e \in k.flags[u]
    BY <1>11 DEF Senders, Procs
  <2> QED  BY <1>1, <1>14, <2>1, CountedKept
<1>21. Informed(r)
  BY <1>1, <1>12, <1>13, <1>14, KernelAssumption DEF Informed, Procs
<1>22. Stable(r)
  BY <1>10, <1>15, <1>16, <1>17, <1>18, <1>19, <1>20, <1>21
  DEF Stable, Consistent, Linked
<1> QED
  BY <1>22 DEF r, w, q, m, TakeFrom

\* c waits for a message that is not there, or for the answer to the message
\* that it is still sending.
LEMMA SleepKeeps ==
  ASSUME NEW k, Consistent(k), Informed(k), NEW c \in Procs, c \notin k.empty,
         NEW src \in Procs \cup {ANY, HARDWARE},
         RunsFirst(k) \/ (c \notin Tasks /\ Head(k.rdy[QueueOf(c)]) = c /\ k.flags[c] = {}),
         \/ /\ k.flags[c] = {}
            /\ \A q \in Members(k.callerq[c]) : src \notin {ANY, q}
            /\ c \in k.intBlocked => src \notin {ANY, HARDWARE}
         \/ k.flags[c] = {"SENDING"} /\ src = k.sendto[c]
  PROVE  Stable(Sleep(k, c, src))
<1> DEFINE b == Block(k, c, {"RECEIVING"})
           from == [k.getfrom EXCEPT ![c] = src]
           r == [b EXCEPT !.getfrom[c] = src]
<1>1. /\ k \in Kernels /\ c \in Senders /\ ReadyQueuesExact(k)
      /\ CallersExact(k) /\ Acyclic(k) /\ NothingLeft(k) /\ CallsServers(k)
      /\ KindsKept(k) /\ Counted(k)
  BY DEF Consistent, Linked, Senders
<1>2. /\ b \in Kernels /\ ReadyQueuesExact(b) /\ SameButFlags(k, b)
      /\ b.flags = [k.flags EXCEPT ![c] = @ \cup {"RECEIVING"}]
      /\ RunsFirst(b)
  <2>1. {"RECEIVING"} \in SUBSET Flags /\ {"RECEIVING"} # {}
    BY DEF Flags
  <2> QED  BY <1>1, <2>1, BlockResult
<1> HIDE DEF b
<1>3. from \in [Procs -> Senders \cup {ANY}]
  BY <1>1 DEF Kernels, Senders
<1>4. /\ r = [b EXCEPT !.getfrom = from]
      /\ \A p \in Procs : from[p] = IF p = c THEN src ELSE k.getfrom[p]
  BY <1>1, <1>2 DEF SameButFlags, Kernels
<1> HIDE DEF r, from
<1>5. /\ r \in Kernels /\ r.getfrom = from /\ r.flags = b.flags
      /\ r.rdy = b.rdy /\ r.proc_ptr = b.proc_ptr
      /\ r.sendto = k.sendto /\ r.callerq = k.callerq
      /\ r.intBlocked = k.intBlocked /\ r.empty = k.empty
      /\ r.pending = k.pending /\ r.pendcount = k.pendcount
      /\ r.sig_procs = k.sig_procs
  BY <1>2, <1>3, <1>4 DEF Kernels, SameButFlags
<1>6. \A p \in Senders :
        r.flags[p] = IF p = c THEN k.flags[p] \cup {"RECEIVING"} ELSE k.flags[p]
  BY ZenonT(40), <1>1, <1>2, <1>5 DEF Kernels
<1>7. \A p \in Senders : /\ Sending(r, p) <=> Sending(k, p)
                         /\ Receiving(r, p) <=> Receiving(k, p) \/ p = c
  <2>1. ASSUME NEW p \in Senders
        PROVE  "SENDING" \in r.flags[p] <=> "SENDING" \in k.flags[p]
    <3>1. r.flags[p] \in {k.flags[p] \cup {"RECEIVING"}, k.flags[p]}
      BY <1>6
    <3>2. "SENDING" \in k.flags[p] \cup {"RECEIVING"} <=> "SENDING" \in k.flags[p]
      OBVIOUS
    <3> QED  BY <3>1, <3>2
  <2>2. \A p \in Senders :
          "RECEIVING" \in r.flags[p] <=> "RECEIVING" \in k.flags[p] \/ p = c
    BY <1>6
  <2> QED  BY <2>1, <2>2 DEF Sending, Receiving
<1>8. \A p \in Procs : p \in Senders
  BY DEF Senders
<1>9. CallersExact(r) /\ Acyclic(r)
  BY <1>1, <1>5, <1>7, <1>8 DEF CallersExact, Acyclic
<1>10. NothingLeft(r)
  <2> SUFFICES ASSUME NEW p \in Procs, Receiving(r, p), ~ Sending(r, p)
               PROVE  /\ \A t \in Members(r.callerq[p]) : r.getfrom[p] \notin {ANY, t}
                      /\ p \in r.intBlocked => r.getfrom[p] \notin {ANY, HARDWARE}
    BY DEF NothingLeft
  <2>1. CASE p = c
    <3>1. ~ Sending(k, c)
      BY <1>7, <1>8, <2>1
    <3>2. k.flags[c] = {}
      BY <3>1 DEF Sending
    <3> QED  BY <1>4, <1>5, <2>1, <3>2
  <2>2. CASE p # c
    BY <1>1, <1>4, <1>5, <1>7, <1>8, <2>2 DEF NothingLeft
  <2> QED  BY <2>1, <2>2
<1>11. CallsServers(r)
  <2>1. k.flags[c] = {} => ~ Sending(k, c)
    BY DEF Sending
  <2> QED  BY <1>1, <1>4, <1>5, <1>7, <1>8, <2>1 DEF CallsServers
<1>12. KindsKept(r)
  <2>1. HARDWARE # c /\ c \notin r.empty
    BY <1>5, KernelAssumption
  <2>2. r.flags[HARDWARE] = {}
    BY <1>1, <1>6, <2>1 DEF KindsKept, Senders
  <2>3. \A p \in Tasks \cup Servers : r.flags[p] \subseteq {"SENDING", "RECEIVING"}
    BY <1>1, <1>6 DEF KindsKept, Senders, Procs
  <2>4. \A u \in r.empty : u \in Senders /\ u # c
    BY <1>1, <1>5, <2>1 DEF Kernels, Senders, Procs
  <2> QED  BY <1>1, <1>5, <1>6, <2>2, <2>3, <2>4 DEF KindsKept
<1>13. Counted(r)
  <2>1. \A u \in Users, e \in {"PENDING", "SIG_PENDING"} :
          e \in r.flags[u] <=> e \in k.flags[u]
    BY <1>6 DEF Senders, Procs
  <2> QED  BY <1>1, <1>5, <2>1, CountedKept
<1>14. ReadyQueuesExact(r) /\ RunsFirst(r)
  BY <1>2, <1>5 DEF ReadyQueuesExact, SameButFlags, RunsFirst, FirstReady
<1>15. Consistent(r)
  BY <1>5, <1>9, <1>10, <1>11, <1>12, <1>13, <1>14 DEF Consistent, Linked
<1>16. Receiving(r, c) /\ r.getfrom[c] = src
  BY <1>1, <1>4, <1>5, <1>7
<1>17. k.sig_procs = Cardinality(Pending(k)) /\ r.sig_procs = Cardinality(Pending(r))
  BY <1>1, <1>13 DEF Counted
<1>18. CASE c = MM /\ src = ANY /\ k.sig_procs > 0
  <2>1. Pending(r) # {}
    BY <1>5, <1>17, <1>18, PendingFinite
  <2>2. Stable(Inform(r))
    BY <1>15, <1>16, <1>18, <2>1, InformResult
  <2> QED  BY <1>18, <2>2 DEF Sleep, r, b
<1>19. CASE ~ (c = MM /\ src = ANY /\ k.sig_procs > 0)
  <2>1. k.sig_procs > 0 \/ k.sig_procs = 0
    BY <1>17, PendingFinite
  <2>2. Informed(r)
    <3>1. CASE c = MM
      BY <1>5, <1>16, <1>19, <2>1, <3>1 DEF Informed
    <3>2. CASE c # MM
      BY <1>4, <1>5, <1>7, <1>8, <3>2, KernelAssumption DEF Informed, Procs
    <3> QED  BY <3>1, <3>2
  <2>3. Stable(r)
    BY <1>14, <1>15, <2>2 DEF Stable
  <2> QED  BY <1>19, <2>3 DEF Sleep, r, b
<1> QED
  BY <1>18, <1>19

\* mini_rec, of a process that runs or has just sent a message
LEMMA MiniRecKeeps ==
  ASSUME NEW k, Consistent(k), Informed(k), NEW c \in Procs, c \notin k.empty,
         NEW src \in Procs \cup {ANY, HARDWARE},
         \/ k.flags[c] = {} /\ RunsFirst(k)
         \/ k.flags[c] = {} /\ c \in Users /\ Head(k.rdy[QueueOf(c)]) = c
         \/ k.flags[c] = {"SENDING"} /\ src = k.sendto[c] /\ RunsFirst(k)
  PROVE  Stable(MiniRec(k, c, src))
<1>1. k \in Kernels /\ CallersExact(k) /\ CallsServers(k) /\ KindsKept(k)
  BY DEF Consistent, Linked
<1>2. k.callerq[c] \in Seq(Senders) /\ DOMAIN k.callerq[c] \in SUBSET Nat
  BY <1>1 DEF Kernels
<1>3. CASE "SENDING" \notin k.flags[c] /\ Offers(k, c, src) # {}
  <2>1. Offers(k, c, src) \in SUBSET Nat
    BY <1>2 DEF Offers
  <2>2. PICK i \in Offers(k, c, src) : \A j \in Offers(k, c, src) : i <= j
    BY <1>3, <2>1, FirstPosition
  <2>3. \E j \in Offers(k, c, src) : FirstOffer(k, c, src) = k.callerq[c][j]
    BY <2>2 DEF FirstOffer
  <2>4. FirstOffer(k, c, src) \in Members(k.callerq[c])
    BY <2>3 DEF Offers, Members
  <2>5. FirstOffer(k, c, src) \in Senders
    BY <1>2, <2>4 DEF Members
  <2>6. c \notin Users
    <3>1. /\ Sending(k, FirstOffer(k, c, src))
          /\ k.sendto[FirstOffer(k, c, src)] = c
      BY <1>1, <2>4, <2>5 DEF CallersExact
    <3>2. FirstOffer(k, c, src) \in Procs
      BY <1>1, <2>5, <3>1 DEF KindsKept, Sending, Senders
    <3> QED  BY <1>1, <3>1, <3>2 DEF CallsServers
  <2>7. Stable(k) /\ k.flags[c] = {}
    BY <1>3, <2>6 DEF Stable
  <2>8. Stable(TakeFrom(k, c, FirstOffer(k, c, src)))
    BY <2>4, <2>5, <2>7, TakeKeeps
  <2> QED  BY <1>3, <2>8 DEF MiniRec
<1>4. CASE /\ "SENDING" \notin k.flags[c] /\ Offers(k, c, src) = {}
           /\ c \in k.intBlocked /\ src \in {ANY, HARDWARE}
  <2> DEFINE mb == [k.messbuf EXCEPT ![c] = [source |-> HARDWARE, body |-> <<"HARD_INT">>]]
             w  == [k EXCEPT !.messbuf = mb]
             r  == [w EXCEPT !.intBlocked = @ \ {c}]
  <2>1. mb \in [Procs -> Messages]
    BY <1>1 DEF Kernels, Messages, Bodies, Senders
  <2> HIDE DEF mb
  <2>2. Consistent(w) /\ (Informed(w) <=> Informed(k)) /\ (RunsFirst(w) <=> RunsFirst(k))
    BY <2>1, WritingKeeps
  <2>3. c \in Tasks /\ RunsFirst(k)
    BY <1>1, <1>4, KernelAssumption DEF Kernels
  <2>4. MiniRec(k, c, src) = r
    BY <1>1, <1>4 DEF MiniRec, Kernels, mb
  <2> HIDE DEF w
  <2>5. /\ w \in Kernels /\ r \in Kernels
        /\ r.flags = w.flags /\ r.getfrom = w.getfrom /\ r.sendto = w.sendto
        /\ r.callerq = w.callerq /\ r.empty = w.empty /\ r.rdy = w.rdy
        /\ r.proc_ptr = w.proc_ptr /\ r.pending = w.pending
        /\ r.pendcount = w.pendcount /\ r.sig_procs = w.sig_procs
        /\ r.intBlocked = w.intBlocked \ {c}
    BY <2>2 DEF Consistent, Kernels
  <2> HIDE DEF r
  <2>6. KindsKept(r) /\ ReadyQueuesExact(r)
    BY <2>2, <2>5 DEF Consistent, KindsKept, ReadyQueuesExact
  <2>7. Linked(r)
    BY <2>2, <2>5, LinkedKept DEF Consistent, Sending, Receiving
  <2>8. Counted(r)
    BY <2>2, <2>5, CountedKept DEF Consistent
  <2>9. Informed(r) /\ RunsFirst(r)
    BY <2>2, <2>3, <2>5 DEF Informed, Receiving, RunsFirst, FirstReady
  <2> QED  BY <2>4, <2>5, <2>6, <2>7, <2>8, <2>9 DEF Stable, Consistent
<1>5. CASE /\ ~ ("SENDING" \notin k.flags[c] /\ Offers(k, c, src) # {})
           /\ ~ (/\ "SENDING" \notin k.flags[c] /\ Offers(k, c, src) = {}
                 /\ c \in k.intBlocked /\ src \in {ANY, HARDWARE})
  <2>1. MiniRec(k, c, src) = Sleep(k, c, src)
    BY <1>5 DEF MiniRec
  <2>2. k.flags[c] = {} => /\ \A q \in Members(k.callerq[c]) : src \notin {ANY, q}
                           /\ c \in k.intBlocked => src \notin {ANY, HARDWARE}
    BY <1>5 DEF Offers, Members
  <2>3. c \in Users => c \notin Tasks
    BY KernelAssumption
  <2> QED  BY <2>1, <2>2, <2>3, SleepKeeps
<1> QED
  BY <1>3, <1>4, <1>5

\* mini_send by the running process.  A user process that has sent runs on
\* only to wait for the answer, even if a server that was idle is ready now.
LEMMA MiniSendKeeps ==
  ASSUME NEW k, Stable(k), NEW c \in Procs, k.proc_ptr = c,
         NEW d \in Procs, c # d, d \in Users => Waits(k, d, c)
  PROVE  LET r == MiniSend(k, c, d)
         IN  /\ Consistent(r) /\ Informed(r) /\ r.empty = k.empty
             /\ c \notin Users => RunsFirst(r)
             /\ ~ Refused(k, c, d) =>
                  \/ r.flags[c] = {} /\ RunsFirst(r)
                  \/ r.flags[c] = {} /\ c \in Users /\ Head(r.rdy[QueueOf(c)]) = c
                  \/ r.flags[c] = {"SENDING"} /\ d = r.sendto[c] /\ RunsFirst(r)
<1> DEFINE r == MiniSend(k, c, d)
<1>1. /\ k \in Kernels /\ Consistent(k) /\ Informed(k) /\ RunsFirst(k)
      /\ ReadyQueuesExact(k) /\ KindsKept(k)
  BY DEF Stable, Consistent
<1>2. /\ k.flags[c] = {} /\ c \notin k.empty
      /\ k.rdy[QueueOf(c)] # << >> /\ Head(k.rdy[QueueOf(c)]) = c
  BY <1>1, RunningIsReady
<1>3. CASE Refused(k, c, d)
  <2>1. r = k
    BY <1>3 DEF MiniSend
  <2> QED  BY <1>1, <1>3, <2>1
<1>4. CASE ~ Refused(k, c, d) /\ Waits(k, d, c)
  <2> DEFINE mb == [k.messbuf EXCEPT ![d] = [source |-> c, body |-> Message(k, c)]]
             w  == [k EXCEPT !.messbuf = mb]
             v  == Unblock(w, d, {"RECEIVING"})
  <2>1. mb \in [Procs -> Messages]
    <3>1. k.messbuf[c] \in Messages /\ c # HARDWARE
      BY <1>1, KernelAssumption DEF Kernels
    <3>2. [source |-> c, body |-> Message(k, c)] \in Messages
      BY <3>1 DEF Message, Messages, Senders
    <3> QED  BY <1>1, <3>2 DEF Kernels
  <2>2. r = v
    BY <1>1, <1>4 DEF MiniSend, Kernels
  <2> HIDE DEF mb
  <2>3. Consistent(w) /\ Informed(w) /\ RunsFirst(w)
    BY <1>1, <2>1, WritingKeeps
  <2>4. w.flags = k.flags /\ w.rdy = k.rdy /\ w.empty = k.empty /\ w.proc_ptr = k.proc_ptr
    BY <1>1 DEF Kernels
  <2> HIDE DEF w, r
  <2>5. /\ w \in Kernels /\ KindsKept(w) /\ Linked(w) /\ Counted(w)
        /\ ReadyQueuesExact(w)
    BY <2>3 DEF Consistent
  <2>6. w.flags[d] # {} /\ d \notin w.empty
    BY <1>1, <1>4, <2>4 DEF Waits, KindsKept
  <2>7. Consistent(v) /\ Informed(v)
    BY <2>3, <2>5, <2>6, UnblockKeeps DEF Consistent
  <2>8. /\ v.flags = [k.flags EXCEPT ![d] = @ \ {"RECEIVING"}] /\ SameButFlags(w, v)
        /\ d \in Tasks \/ k.rdy["TASK_Q"] # << >> \/ k.rdy["SERVER_Q"] # << >>
           => RunsFirst(v)
        /\ \A q \in Queues : q # QueueOf(d) => v.rdy[q] = k.rdy[q]
    BY <2>3, <2>4, <2>5, <2>6, UnblockResult
  <2>9. v.flags[c] = {} /\ v.empty = k.empty
    BY <1>1, <1>2, <2>4, <2>8 DEF Kernels, Senders, SameButFlags
  <2>10. CASE c \notin Users
    <3>1. QueueOf(c) \in {"TASK_Q", "SERVER_Q"}
      BY <2>10, QueueOfKind DEF Queues
    <3>2. RunsFirst(v)
      BY <1>2, <2>8, <3>1
    <3> QED  BY <2>2, <2>7, <2>9, <2>10, <3>2 DEF r
  <2>11. CASE c \in Users
    <3>1. d \in Servers
      BY <1>4, <2>11 DEF Refused
    <3>2. QueueOf(c) \in Queues /\ QueueOf(c) # QueueOf(d)
      BY <2>11, <3>1, QueueOfKind, KernelAssumption
    <3>3. Head(v.rdy[QueueOf(c)]) = c
      BY <1>2, <2>8, <3>2
    <3> QED  BY <2>2, <2>7, <2>9, <2>11, <3>3 DEF r
  <2> QED  BY <2>10, <2>11
<1>5. CASE ~ Refused(k, c, d) /\ ~ Waits(k, d, c)
  <2>1. d \notin Users /\ ~ Locked(k, c, d)
    BY <1>5 DEF Refused
  <2> DEFINE x == SendQueued(k, c, d)
  <2>2. r = x
    BY <1>5 DEF MiniSend, SendQueued
  <2> HIDE DEF r
  <2>3. /\ Consistent(x) /\ Informed(x) /\ RunsFirst(x)
        /\ x.flags[c] = {"SENDING"} /\ x.sendto[c] = d /\ x.empty = k.empty
    BY <1>1, <1>2, <1>5, <2>1, SendBlocks
  <2> HIDE DEF x
  <2> QED  BY <2>2, <2>3 DEF r
<1> QED
  BY <1>3, <1>4, <1>5

\* sys_call with BOTH
LEMMA SendRecKeeps ==
  ASSUME NEW k, Stable(k), NEW c \in Procs, k.proc_ptr = c,
         NEW d \in Procs, c # d, d \notin Users
  PROVE  Stable(SendRec(k, c, d))
<1>1. CASE Refused(k, c, d)
  BY <1>1 DEF SendRec
<1>2. CASE ~ Refused(k, c, d)
  <2> DEFINE s == MiniSend(k, c, d)
  <2>1. /\ Consistent(s) /\ Informed(s) /\ s.empty = k.empty
        /\ \/ s.flags[c] = {} /\ RunsFirst(s)
           \/ s.flags[c] = {} /\ c \in Users /\ Head(s.rdy[QueueOf(c)]) = c
           \/ s.flags[c] = {"SENDING"} /\ d = s.sendto[c] /\ RunsFirst(s)
    BY <1>2, MiniSendKeeps
  <2>2. c \notin s.empty
    BY <2>1, RunningIsReady DEF Stable, Consistent
  <2> HIDE DEF s
  <2>3. Stable(MiniRec(s, c, d))
    BY <2>1, <2>2, MiniRecKeeps
  <2> QED  BY <1>2, <2>3 DEF SendRec, s
<1> QED
  BY <1>1, <1>2

\* interrupt, at any time
LEMMA InterruptKeeps ==
  ASSUME NEW k, Stable(k), NEW t \in Tasks
  PROVE  Stable(Interrupt(k, t))
<1>1. /\ k \in Kernels /\ Consistent(k) /\ Informed(k) /\ RunsFirst(k)
      /\ ReadyQueuesExact(k) /\ KindsKept(k) /\ Linked(k) /\ Counted(k)
      /\ t \in Procs /\ t \in Senders
  BY DEF Stable, Consistent, Procs, Senders
<1>2. CASE Waits(k, t, HARDWARE)
  <2> DEFINE mb == [k.messbuf EXCEPT ![t] = [source |-> HARDWARE, body |-> <<"HARD_INT">>]]
             fl == [k.flags EXCEPT ![t] = @ \ {"RECEIVING"}]
             w  == [k EXCEPT !.messbuf = mb, !.intBlocked = @ \ {t}]
             v  == [w EXCEPT !.flags = fl]
  <2>1. mb \in [Procs -> Messages]
    BY <1>1 DEF Kernels, Messages, Bodies, Senders
  <2>2. k.flags[t] = {"RECEIVING"} /\ fl[t] = {}
    <3>1. k.flags[t] = {"RECEIVING"}
      BY <1>1, <1>2 DEF Waits, KindsKept
    <3> QED  BY <1>1, <3>1 DEF Kernels
  <2>3. Interrupt(k, t) = Ready(v, t)
    BY <1>1, <1>2 DEF Interrupt, Kernels
  <2>4. v = [w EXCEPT !.flags[t] = @ \ {"RECEIVING"}] /\ v.flags[t] = {}
    BY <1>1, <2>2 DEF Kernels
  <2>5. Unblock(w, t, {"RECEIVING"}) = Ready(v, t)
    <3> HIDE DEF v, w
    <3> QED  BY <2>4 DEF Unblock
  <2> HIDE DEF mb, v
  <2>6. /\ w \in Kernels
        /\ w.flags = k.flags /\ w.getfrom = k.getfrom /\ w.sendto = k.sendto
        /\ w.callerq = k.callerq /\ w.empty = k.empty /\ w.rdy = k.rdy
        /\ w.proc_ptr = k.proc_ptr /\ w.pending = k.pending
        /\ w.pendcount = k.pendcount /\ w.sig_procs = k.sig_procs
        /\ w.intBlocked = k.intBlocked \ {t}
    BY <1>1, <2>1 DEF Kernels
  <2> HIDE DEF w
  <2>7. KindsKept(w) /\ ReadyQueuesExact(w) /\ Informed(w) /\ RunsFirst(w)
    BY <1>1, <2>6
    DEF KindsKept, ReadyQueuesExact, Informed, Receiving, RunsFirst, FirstReady
  <2>8. Linked(w)
    BY <1>1, <2>6, LinkedKept DEF Sending, Receiving
  <2>9. Counted(w)
    BY <1>1, <2>6, CountedKept
  <2>10. t \notin w.empty /\ w.flags[t] # {}
    BY <2>2, <2>6, <2>7 DEF KindsKept
  <2>11. Consistent(Ready(v, t)) /\ Informed(Ready(v, t))
    BY <1>1, <2>5, <2>6, <2>7, <2>8, <2>9, <2>10, UnblockKeeps DEF Consistent
  <2>12. RunsFirst(Unblock(w, t, {"RECEIVING"}))
    BY <1>1, <2>6, <2>7, <2>10, UnblockResult
  <2> QED  BY <2>3, <2>5, <2>11, <2>12 DEF Stable
<1>3. CASE ~ Waits(k, t, HARDWARE)
  <2> DEFINE r == [k EXCEPT !.intBlocked = @ \cup {t}]
  <2>1. Interrupt(k, t) = r
    BY <1>3 DEF Interrupt
  <2>2. /\ r \in Kernels
        /\ r.flags = k.flags /\ r.getfrom = k.getfrom /\ r.sendto = k.sendto
        /\ r.callerq = k.callerq /\ r.empty = k.empty /\ r.rdy = k.rdy
        /\ r.proc_ptr = k.proc_ptr /\ r.pending = k.pending
        /\ r.pendcount = k.pendcount /\ r.sig_procs = k.sig_procs
        /\ r.intBlocked = k.intBlocked \cup {t}
    BY <1>1 DEF Kernels
  <2> HIDE DEF r
  <2>3. KindsKept(r) /\ ReadyQueuesExact(r) /\ Informed(r) /\ RunsFirst(r)
    BY <1>1, <2>2
    DEF KindsKept, ReadyQueuesExact, Informed, Receiving, RunsFirst, FirstReady
  <2>4. ~ Waits(r, t, HARDWARE)
    BY <1>3, <2>2 DEF Waits
  <2>5. Linked(r)
    BY <1>1, <2>2, <2>4, LinkedKept DEF Sending, Receiving
  <2>6. Counted(r)
    BY <1>1, <2>2, CountedKept
  <2> QED  BY <2>1, <2>2, <2>3, <2>5, <2>6 DEF Stable, Consistent
<1> QED
  BY <1>2, <1>3

-----------------------------------------------------------------------------
(* Signals *)

\* The running task is ready.
LEMMA TaskRuns ==
  ASSUME NEW k, Stable(k), NEW t \in Tasks, k.proc_ptr = t
  PROVE  k.rdy["TASK_Q"] # << >> /\ k.flags[t] = {}
<1>1. t \in Procs /\ QueueOf(t) = "TASK_Q"
  BY QueueOfKind DEF Procs
<1> QED
  BY <1>1, RunningIsReady DEF Stable, Consistent

\* cause_sig.  Tasks are as before, and a process that receives still does,
\* unless it is MM.
LEMMA CauseSigKeeps ==
  ASSUME NEW k, Stable(k), NEW u \in Users, u \notin k.empty, NEW sig \in Signals
  PROVE  LET r == CauseSig(k, u, sig)
         IN  /\ Stable(r) /\ r.empty = k.empty
             /\ \A t \in Tasks : r.flags[t] = k.flags[t]
             /\ Receiving(k, u) => Receiving(r, u)
<1> DEFINE pg == [k.pending EXCEPT ![u] = @ \cup {sig}]
           pc == [k.pendcount EXCEPT ![u] = @ + 1]
           noted == [k EXCEPT !.pending[u] = @ \cup {sig}, !.pendcount[u] = @ + 1]
           b == Block(noted, u, {"PENDING", "SIG_PENDING"})
           raised == [b EXCEPT !.sig_procs = @ + 1]
           r == CauseSig(k, u, sig)
<1>1. /\ k \in Kernels /\ Consistent(k) /\ Informed(k) /\ RunsFirst(k)
      /\ ReadyQueuesExact(k) /\ KindsKept(k) /\ Linked(k) /\ Counted(k)
      /\ u \in Procs /\ u \in Senders /\ u # MM /\ MM \in Procs /\ u \notin Tasks
      /\ MM \notin Tasks /\ \A t \in Tasks : t \in Senders
  BY KernelAssumption DEF Stable, Consistent, Procs, Senders
<1>2. /\ r = CASE sig \in k.pending[u] -> k
               [] sig \notin k.pending[u] /\ "PENDING" \in k.flags[u] -> noted
               [] OTHER -> IF "RECEIVING" \in k.flags[MM] /\ k.getfrom[MM] = ANY
                           THEN Inform(raised) ELSE raised
      /\ noted = [k EXCEPT !.pending = pg, !.pendcount = pc]
  BY <1>1 DEF CauseSig, Kernels
<1> HIDE DEF noted, r
<1>3. /\ pg \in [Users -> SUBSET Signals] /\ pc \in [Users -> Nat]
      /\ \A v \in Users : /\ pg[v] = IF v = u THEN k.pending[v] \cup {sig} ELSE k.pending[v]
                          /\ pc[v] = IF v = u THEN k.pendcount[v] + 1 ELSE k.pendcount[v]
  <2>1. /\ pg \in [Users -> SUBSET Signals]
        /\ \A v \in Users : pg[v] = IF v = u THEN k.pending[v] \cup {sig} ELSE k.pending[v]
    BY <1>1 DEF Kernels
  <2>2. k.pendcount \in [Users -> Nat] /\ k.pendcount[u] + 1 \in Nat
    BY <1>1 DEF Kernels
  <2>3. /\ pc \in [Users -> Nat]
        /\ \A v \in Users : pc[v] = IF v = u THEN k.pendcount[v] + 1 ELSE k.pendcount[v]
    BY <2>2
  <2> QED  BY <2>1, <2>3
<1> HIDE DEF pg, pc
<1>4. /\ noted \in Kernels /\ noted.pending = pg /\ noted.pendcount = pc
      /\ noted.flags = k.flags /\ noted.getfrom = k.getfrom
      /\ noted.sendto = k.sendto /\ noted.callerq = k.callerq
      /\ noted.intBlocked = k.intBlocked /\ noted.empty = k.empty
      /\ noted.rdy = k.rdy /\ noted.proc_ptr = k.proc_ptr
      /\ noted.sig_procs = k.sig_procs
  BY <1>1, <1>2, <1>3 DEF Kernels
<1>5. /\ KindsKept(noted) /\ ReadyQueuesExact(noted) /\ Informed(noted)
      /\ RunsFirst(noted)
  BY <1>1, <1>4 DEF KindsKept, ReadyQueuesExact, Informed, Receiving, RunsFirst, FirstReady
<1>6. Linked(noted)
  BY <1>1, <1>4, LinkedKept DEF Sending, Receiving
<1>7. CASE sig \in k.pending[u]
  BY <1>1, <1>2, <1>7 DEF r
<1>8. CASE sig \notin k.pending[u] /\ "PENDING" \in k.flags[u]
  <2>1. r = noted
    BY <1>2, <1>8
  <2>2. Pending(noted) = Pending(k)
    BY <1>4 DEF Pending
  <2>3. \A v \in Users : k.pendcount[v] \in Nat
    BY <1>1 DEF Kernels
  <2>4. Counted(noted)
    BY <1>1, <1>3, <1>4, <1>8, <2>2, <2>3 DEF Counted
  <2>5. Stable(noted)
    BY <1>4, <1>5, <1>6, <2>4 DEF Stable, Consistent
  <2> QED  BY <1>4, <2>1, <2>5 DEF r, Receiving
<1>9. CASE sig \notin k.pending[u] /\ "PENDING" \notin k.flags[u]
  <2>1. r = IF Receiving(k, MM) /\ k.getfrom[MM] = ANY THEN Inform(raised) ELSE raised
    BY <1>2, <1>9 DEF Receiving
  <2>2. /\ b \in Kernels /\ ReadyQueuesExact(b) /\ RunsFirst(b)
        /\ b.flags = [k.flags EXCEPT ![u] = @ \cup {"PENDING", "SIG_PENDING"}]
        /\ SameButFlags(noted, b)
    <3>1. /\ {"PENDING", "SIG_PENDING"} \in SUBSET Flags
          /\ {"PENDING", "SIG_PENDING"} # {} /\ u \notin noted.empty
      BY <1>4 DEF Flags
    <3> QED  BY <1>1, <1>4, <1>5, <3>1, BlockResult
  <2> DEFINE n == b.sig_procs + 1
  <2>3. n = k.sig_procs + 1 /\ n \in Int
    BY <1>1, <1>4, <2>2 DEF Kernels, SameButFlags
  <2>4. raised = [b EXCEPT !.sig_procs = n]
    OBVIOUS
  <2> HIDE DEF b, n, raised
  <2>5. /\ raised \in Kernels /\ raised.flags = b.flags /\ raised.rdy = b.rdy
        /\ raised.proc_ptr = b.proc_ptr /\ raised.sig_procs = k.sig_procs + 1
        /\ raised.pending = pg /\ raised.pendcount = pc
        /\ raised.getfrom = k.getfrom /\ raised.sendto = k.sendto
        /\ raised.callerq = k.callerq /\ raised.intBlocked = k.intBlocked
        /\ raised.empty = k.empty
    BY <1>4, <2>2, <2>3, <2>4 DEF Kernels, SameButFlags
  <2>6. \A p \in Senders :
          raised.flags[p] = IF p = u THEN k.flags[p] \cup {"PENDING", "SIG_PENDING"}
                            ELSE k.flags[p]
    BY ZenonT(40), <1>1, <2>2, <2>5 DEF Kernels
  <2>7. \A p \in Senders : /\ Sending(raised, p) <=> Sending(k, p)
                           /\ Receiving(raised, p) <=> Receiving(k, p)
    <3>1. \A e \in {"SENDING", "RECEIVING"} : e \notin {"PENDING", "SIG_PENDING"}
      OBVIOUS
    <3> QED  BY <2>6, <3>1 DEF Sending, Receiving
  <2>8. Linked(raised)
    BY <1>1, <2>5, <2>7, LinkedKept DEF Senders
  <2>9. KindsKept(raised)
    <3>1. \A p \in Tasks \cup Servers : p \in Senders /\ p # u
      BY KernelAssumption DEF Senders, Procs
    <3>2. HARDWARE \in Senders /\ HARDWARE # u
      BY <1>1, KernelAssumption DEF Senders
    <3>3. \A v \in raised.empty : v \in Senders /\ v # u
      BY <1>1, <2>5 DEF Kernels, Senders, Procs
    <3> QED  BY <1>1, <2>5, <2>6, <3>1, <3>2, <3>3 DEF KindsKept
  <2>10. ReadyQueuesExact(raised) /\ RunsFirst(raised)
    BY <1>4, <2>2, <2>5 DEF ReadyQueuesExact, RunsFirst, FirstReady, SameButFlags
  <2>11. Pending(raised) = Pending(k) \cup {u} /\ u \notin Pending(k)
    <3>1. \A v \in Users : v \in Senders
      BY DEF Senders, Procs
    <3> QED  BY <1>9, <2>6, <3>1 DEF Pending
  <2>12. Counted(raised)
    <3>1. raised.sig_procs = Cardinality(Pending(raised))
      BY ZenonT(40), <1>1, <2>5, <2>11, PendingFinite, FS_AddElement DEF Counted
    <3>2. \A v \in Users :
            /\ "PENDING" \in raised.flags[v] <=> raised.pending[v] # {}
            /\ "SIG_PENDING" \in raised.flags[v] <=> raised.pendcount[v] > 0
            /\ raised.pending[v] # {} => raised.pendcount[v] > 0
      <4> SUFFICES ASSUME NEW v \in Users
                   PROVE  /\ "PENDING" \in raised.flags[v] <=> raised.pending[v] # {}
                          /\ "SIG_PENDING" \in raised.flags[v] <=> raised.pendcount[v] > 0
                          /\ raised.pending[v] # {} => raised.pendcount[v] > 0
        OBVIOUS
      <4>1. v \in Senders /\ k.pendcount[v] \in Nat
        BY <1>1 DEF Senders, Procs, Kernels
      <4>2. CASE v = u
        <5>1. raised.flags[v] = k.flags[v] \cup {"PENDING", "SIG_PENDING"}
          BY <2>6, <4>1, <4>2
        <5>2. sig \in raised.pending[v] /\ raised.pendcount[v] > 0
          BY <1>3, <2>5, <4>1, <4>2
        <5> QED  BY <5>1, <5>2
      <4>3. CASE v # u
        BY <1>1, <1>3, <2>5, <2>6, <4>1, <4>3 DEF Counted
      <4> QED  BY <4>2, <4>3
    <3> QED  BY <3>1, <3>2 DEF Counted
  <2>13. Consistent(raised)
    BY <2>5, <2>8, <2>9, <2>10, <2>12 DEF Consistent
  <2>14. CASE Receiving(k, MM) /\ k.getfrom[MM] = ANY
    <3>1. Receiving(raised, MM) /\ raised.getfrom[MM] = ANY /\ Pending(raised) # {}
      BY <1>1, <2>5, <2>7, <2>11, <2>14 DEF Senders
    <3>2. /\ Stable(Inform(raised)) /\ Inform(raised).empty = raised.empty
          /\ \E v \in Users : Inform(raised).flags =
               [raised.flags EXCEPT ![MM] = @ \ {"RECEIVING"}, ![v] = @ \ {"PENDING"}]
      BY <2>13, <3>1, InformResult
    <3>3. PICK v \in Users : Inform(raised).flags =
            [raised.flags EXCEPT ![MM] = @ \ {"RECEIVING"}, ![v] = @ \ {"PENDING"}]
      BY <3>2
    <3>4. /\ v # MM /\ v \notin Tasks /\ v \in Senders
          /\ raised.flags \in [Senders -> SUBSET Flags]
      BY <2>5, KernelAssumption DEF Senders, Procs, Kernels
    <3>5. \A t \in Tasks : Inform(raised).flags[t] = k.flags[t]
      BY <1>1, <2>6, <3>3, <3>4
    <3>6. Receiving(k, u) => Receiving(Inform(raised), u)
      <4>1. /\ "RECEIVING" \notin {"PENDING"} 
            /\ Inform(raised).flags[u] \in {raised.flags[u], raised.flags[u] \ {"PENDING"}}
        BY <1>1, <3>3, <3>4
      <4> QED  BY <1>1, <2>7, <4>1 DEF Receiving
    <3> QED  BY <2>1, <2>5, <2>14, <3>2, <3>5, <3>6 DEF r
  <2>15. CASE ~ (Receiving(k, MM) /\ k.getfrom[MM] = ANY)
    <3>1. Stable(raised)
      BY <1>1, <2>5, <2>7, <2>10, <2>13, <2>15 DEF Stable, Informed, Senders
    <3> QED  BY <1>1, <2>1, <2>5, <2>6, <2>7, <2>15, <3>1 DEF r
  <2> QED  BY <2>14, <2>15
<1> QED
  BY <1>7, <1>8, <1>9

-----------------------------------------------------------------------------
(* What the system task does for MM.  It is a task and runs. *)

\* A process gets rid of a flag that has nothing to do with calls it makes or
\* with signals.
LEMMA ReleaseKeeps ==
  ASSUME NEW k, Stable(k), k.rdy["TASK_Q"] # << >>,
         NEW p \in Procs, k.flags[p] # {},
         NEW f \in SUBSET {"RECEIVING", "NO_MAP", "P_STOP"}
  PROVE  Stable(Unblock(k, p, f))
<1>1. /\ k \in Kernels /\ ReadyQueuesExact(k) /\ KindsKept(k) /\ Linked(k)
      /\ Counted(k) /\ Informed(k) /\ RunsFirst(k)
  BY DEF Stable, Consistent
<1>2. "SENDING" \notin f /\ f \cap {"PENDING", "SIG_PENDING"} = {}
  OBVIOUS
<1>3. p \notin k.empty
  BY <1>1 DEF KindsKept
<1>4. Consistent(Unblock(k, p, f)) /\ Informed(Unblock(k, p, f))
  BY <1>1, <1>2, UnblockKeeps DEF Consistent
<1>5. RunsFirst(Unblock(k, p, f))
  BY <1>1, <1>3, UnblockResult
<1> QED
  BY <1>4, <1>5 DEF Stable

\* do_newmap
LEMMA DoNewmapKeeps ==
  ASSUME NEW k, Stable(k), k.rdy["TASK_Q"] # << >>, NEW u \in Users
  PROVE  Stable(DoNewmap(k, u))
BY ReleaseKeeps DEF DoNewmap, Procs

\* do_exec, of a process that waits for MM
LEMMA DoExecKeeps ==
  ASSUME NEW k, Stable(k), k.proc_ptr = SYSTASK,
         NEW u \in Users, u \notin k.empty, Waits(k, u, MM), NEW traced \in BOOLEAN
  PROVE  Stable(DoExec(k, u, traced))
<1> DEFINE r == IF traced THEN CauseSig(k, u, SIGTRAP) ELSE k
<1>1. SYSTASK \in Tasks /\ SYSTASK \in Procs /\ u \in Procs /\ SIGTRAP \in Signals
  BY KernelAssumption DEF Procs
<1>2. Stable(r) /\ r.flags[SYSTASK] = {} /\ Receiving(r, u) /\ r.empty = k.empty
  <2>1. k.flags[SYSTASK] = {} /\ Receiving(k, u)
    BY <1>1, TaskRuns DEF Waits, Receiving
  <2> QED  BY <1>1, <2>1, CauseSigKeeps
<1> HIDE DEF r
<1>3. r.rdy["TASK_Q"] # << >>
  <2>1. SYSTASK \notin r.empty /\ QueueOf(SYSTASK) = "TASK_Q"
    BY <1>1, <1>2, QueueOfKind, KernelAssumption DEF Stable, Consistent, Kernels
  <2>2. SYSTASK \in Members(r.rdy["TASK_Q"])
    BY <1>1, <1>2, <2>1 DEF Stable, Consistent, ReadyQueuesExact, Queues
  <2> QED  BY <2>2 DEF Members
<1>4. r.flags[u] # {}
  BY <1>2 DEF Receiving
<1> QED
  BY <1>1, <1>2, <1>3, <1>4, ReleaseKeeps DEF DoExec, r

\* T_STOP
LEMMA DoStopKeeps ==
  ASSUME NEW k, Stable(k), NEW u \in Users
  PROVE  Stable(DoStop(k, u))
<1>1. CASE u \in k.empty
  BY <1>1 DEF DoStop
<1>2. CASE u \notin k.empty
  <2> DEFINE r == Block(k, u, {"P_STOP"})
  <2>1. /\ k \in Kernels /\ ReadyQueuesExact(k) /\ KindsKept(k) /\ Linked(k)
        /\ Counted(k) /\ Informed(k) /\ RunsFirst(k) /\ u \in Procs /\ u \in Senders
    BY DEF Stable, Consistent, Procs, Senders
  <2>2. /\ r \in Kernels /\ ReadyQueuesExact(r) /\ RunsFirst(r)
        /\ r.flags = [k.flags EXCEPT ![u] = @ \cup {"P_STOP"}] /\ SameButFlags(k, r)
    <3>1. {"P_STOP"} \in SUBSET Flags /\ {"P_STOP"} # {}
      BY DEF Flags
    <3> QED  BY <1>2, <2>1, <3>1, BlockResult
  <2> HIDE DEF r
  <2>3. \A p \in Senders :
          r.flags[p] = IF p = u THEN k.flags[p] \cup {"P_STOP"} ELSE k.flags[p]
    BY <2>1, <2>2 DEF Kernels
  <2>4. ASSUME NEW p \in Senders, NEW e, e # "P_STOP"
        PROVE  e \in r.flags[p] <=> e \in k.flags[p]
    <3>1. r.flags[p] \in {k.flags[p] \cup {"P_STOP"}, k.flags[p]}
      BY <2>3
    <3> QED  BY <2>4, <3>1
  <2>5. \A p \in Senders : /\ Sending(r, p) <=> Sending(k, p)
                           /\ Receiving(r, p) <=> Receiving(k, p)
    BY <2>4 DEF Sending, Receiving
  <2>6. Linked(r)
    BY <2>1, <2>2, <2>5, LinkedKept DEF SameButFlags, Senders
  <2>7. Counted(r)
    <3>1. \A v \in Users, e \in {"PENDING", "SIG_PENDING"} :
            e \in r.flags[v] <=> e \in k.flags[v]
      BY <2>4 DEF Senders, Procs
    <3> QED  BY <2>1, <2>2, <3>1, CountedKept DEF SameButFlags
  <2>8. KindsKept(r)
    <3>1. /\ \A p \in Tasks \cup Servers : p \in Senders /\ p # u
          /\ HARDWARE \in Senders /\ HARDWARE # u
      BY <2>1, KernelAssumption DEF Senders, Procs
    <3>2. \A v \in r.empty : v \in Senders /\ v # u /\ v \in k.empty
      BY <1>2, <2>1, <2>2 DEF SameButFlags, Kernels, Senders, Procs
    <3> QED  BY <2>1, <2>3, <3>1, <3>2 DEF KindsKept
  <2>9. Informed(r)
    BY <2>1, <2>2, <2>5, KernelAssumption DEF Informed, SameButFlags, Senders, Procs
  <2> QED  BY <1>2, <2>2, <2>6, <2>7, <2>8, <2>9 DEF Stable, Consistent, DoStop, r
<1> QED
  BY <1>1, <1>2

\* T_RESUME, of a process that is stopped
LEMMA DoResumeKeeps ==
  ASSUME NEW k, Stable(k), k.rdy["TASK_Q"] # << >>,
         NEW u \in Users, "P_STOP" \in k.flags[u] \/ u \in k.empty
  PROVE  Stable(DoResume(k, u))
<1>1. u \in Procs
  BY DEF Procs
<1> QED
  BY <1>1, ReleaseKeeps DEF DoResume

\* do_endsig, of a signal that MM knows
LEMMA DoEndsigKeeps ==
  ASSUME NEW k, Stable(k), k.rdy["TASK_Q"] # << >>, NEW u \in Users,
         k.pendcount[u] > Cardinality(k.pending[u]) \/ u \in k.empty
  PROVE  Stable(DoEndsig(k, u))
<1> DEFINE n  == k.pendcount[u] - 1
           pc == [k.pendcount EXCEPT ![u] = n]
           w  == [k EXCEPT !.pendcount[u] = @ - 1]
           v  == Unblock(w, u, {"SIG_PENDING"})
<1>1. /\ k \in Kernels /\ ReadyQueuesExact(k) /\ KindsKept(k) /\ Linked(k)
      /\ Counted(k) /\ Informed(k) /\ RunsFirst(k) /\ u \in Procs /\ u \in Senders
      /\ k.pendcount[u] \in Nat
  BY DEF Stable, Consistent, Procs, Senders, Kernels
<1>2. CASE u \in k.empty \/ k.pendcount[u] = 0
  BY <1>2 DEF DoEndsig
<1>3. CASE u \notin k.empty /\ k.pendcount[u] # 0
  <2>1. n \in Nat /\ w = [k EXCEPT !.pendcount = pc]
    BY <1>1, <1>3 DEF Kernels
  <2>2. DoEndsig(k, u) = IF k.pendcount[u] = 1 THEN v ELSE w
    BY <1>3 DEF DoEndsig
  <2>3. /\ (n > 0 <=> k.pendcount[u] # 1) /\ (n = 0 <=> k.pendcount[u] = 1)
    BY <1>1, <1>3
  <2> HIDE DEF n
  <2>4. /\ pc \in [Users -> Nat]
        /\ \A s \in Users : pc[s] = IF s = u THEN n ELSE k.pendcount[s]
    BY <1>1, <2>1 DEF Kernels
  <2> HIDE DEF w, pc
  <2>5. /\ w \in Kernels /\ w.pendcount = pc /\ w.flags = k.flags
        /\ w.getfrom = k.getfrom /\ w.sendto = k.sendto /\ w.callerq = k.callerq
        /\ w.intBlocked = k.intBlocked /\ w.empty = k.empty
        /\ w.rdy = k.rdy /\ w.proc_ptr = k.proc_ptr /\ w.pending = k.pending
        /\ w.sig_procs = k.sig_procs
    BY <1>1, <2>1, <2>4 DEF Kernels
  <2>6. KindsKept(w) /\ ReadyQueuesExact(w) /\ Informed(w) /\ RunsFirst(w)
    BY <1>1, <2>5
    DEF KindsKept, ReadyQueuesExact, Informed, Receiving, RunsFirst, FirstReady
  <2>7. Linked(w)
    BY <1>1, <2>5, LinkedKept DEF Sending, Receiving
  <2>8. CASE k.pendcount[u] # 1
    <3>1. Pending(w) = Pending(k)
      BY <2>5 DEF Pending
    <3>2. k.pendcount[u] > 0
      BY <1>1, <1>3
    <3>3. Counted(w)
      BY <1>1, <2>3, <2>4, <2>5, <2>8, <3>1, <3>2 DEF Counted
    <3> QED  BY <2>2, <2>5, <2>6, <2>7, <2>8, <3>3 DEF Stable, Consistent
  <2>9. CASE k.pendcount[u] = 1
    <3>1. k.pending[u] = {}
      <4>1. IsFiniteSet(k.pending[u])
        <5>1. k.pending[u] \subseteq Signals
          BY <1>1 DEF Kernels
        <5> QED  BY <5>1, FS_Subset, KernelAssumption
      <4>2. Cardinality(k.pending[u]) = 0
        BY <1>3, <2>9, <4>1, FS_CardinalityType
      <4> QED  BY <4>1, <4>2, FS_EmptySet
    <3>2. "SIG_PENDING" \in k.flags[u] /\ "PENDING" \notin k.flags[u]
      BY <1>1, <2>9, <3>1 DEF Counted
    <3>3. /\ v \in Kernels /\ KindsKept(v) /\ Linked(v) /\ ReadyQueuesExact(v)
          /\ Informed(v) /\ RunsFirst(v)
          /\ v.flags = [k.flags EXCEPT ![u] = @ \ {"SIG_PENDING"}] /\ SameButFlags(w, v)
      <4>1. w.flags[u] # {} /\ u \notin w.empty
        BY <1>3, <2>5, <3>2
      <4> QED  BY <1>1, <2>5, <2>6, <2>7, <4>1, UnblockKeeps, UnblockResult
    <3> HIDE DEF v
    <3>4. \A s \in Users :
            v.flags[s] = IF s = u THEN k.flags[s] \ {"SIG_PENDING"} ELSE k.flags[s]
      BY <1>1, <3>3 DEF Kernels, Senders, Procs
    <3>5. Pending(v) = Pending(k)
      BY <3>4 DEF Pending
    <3>6. Counted(v)
      <4>1. /\ v.sig_procs = k.sig_procs /\ v.pending = k.pending /\ v.pendcount = pc
        BY <2>5, <3>3 DEF SameButFlags
      <4>2. "PENDING" \notin v.flags[u] /\ "SIG_PENDING" \notin v.flags[u] /\ pc[u] = 0
        BY <2>3, <2>4, <2>9, <3>2, <3>4
      <4>3. ASSUME NEW s \in Users
            PROVE  /\ "PENDING" \in v.flags[s] <=> v.pending[s] # {}
                   /\ "SIG_PENDING" \in v.flags[s] <=> v.pendcount[s] > 0
                   /\ v.pending[s] # {} => v.pendcount[s] > 0
        <5>1. CASE s = u
          BY <3>1, <4>1, <4>2, <5>1
        <5>2. CASE s # u
          BY <1>1, <2>4, <3>4, <4>1, <5>2 DEF Counted
        <5> QED  BY <5>1, <5>2
      <4> QED  BY <1>1, <3>5, <4>1, <4>3 DEF Counted
    <3> QED  BY <2>2, <2>9, <3>3, <3>6 DEF Stable, Consistent
  <2> QED  BY <2>8, <2>9
<1> QED
  BY <1>2, <1>3

\* do_fork, of a process that waits for MM
LEMMA DoForkKeeps ==
  ASSUME NEW k, Stable(k), NEW p \in Users, NEW c \in k.empty,
         p \notin k.empty, Waits(k, p, MM)
  PROVE  Stable(DoFork(k, p, c))
<1> DEFINE f  == (k.flags[p] \ {"PENDING", "SIG_PENDING", "P_STOP"}) \cup {"NO_MAP"}
           fl == [k.flags EXCEPT ![c] = f]
           gf == [k.getfrom EXCEPT ![c] = k.getfrom[p]]
           to == [k.sendto EXCEPT ![c] = k.sendto[p]]
           mb == [k.messbuf EXCEPT ![c] = k.messbuf[p]]
           pg == [k.pending EXCEPT ![c] = {}]
           pc == [k.pendcount EXCEPT ![c] = 0]
           r  == DoFork(k, p, c)
<1>1. /\ k \in Kernels /\ ReadyQueuesExact(k) /\ KindsKept(k) /\ Linked(k)
      /\ Counted(k) /\ Informed(k) /\ RunsFirst(k)
      /\ CallersExact(k) /\ Acyclic(k) /\ NothingLeft(k) /\ CallsServers(k)
      /\ c \in Users /\ c \in Procs /\ c \in Senders /\ p \in Procs /\ p \in Senders
      /\ MM # c /\ c \notin Tasks /\ c \notin Servers
  BY KernelAssumption DEF Stable, Consistent, Linked, Kernels, Procs, Senders
<1>2. /\ k.flags[c] = {} /\ ~ Sending(k, c) /\ ~ Sending(k, p)
      /\ "SENDING" \notin f /\ "PENDING" \notin f /\ "SIG_PENDING" \notin f
      /\ f \in SUBSET Flags /\ f # {}
  BY <1>1 DEF KindsKept, Sending, Waits, Kernels, Flags
<1>3. \A u \in Users : Members(k.callerq[u]) = {} /\ k.callerq[u] = << >>
  <2> SUFFICES ASSUME NEW u \in Users
               PROVE  Members(k.callerq[u]) = {} /\ k.callerq[u] = << >>
    OBVIOUS
  <2>1. u \in Procs /\ k.callerq[u] \in Seq(Senders)
    BY <1>1 DEF Procs, Kernels
  <2>2. ASSUME NEW s \in Senders, s \in Members(k.callerq[u])
        PROVE  FALSE
    <3>1. Sending(k, s) /\ k.sendto[s] = u
      BY <1>1, <2>1, <2>2 DEF CallersExact
    <3>2. s \in Procs
      BY <1>1, <3>1 DEF KindsKept, Sending, Senders
    <3> QED  BY <1>1, <3>1, <3>2 DEF CallsServers
  <2>3. Members(k.callerq[u]) \subseteq Senders
    BY <2>1 DEF Members
  <2> QED  BY <2>1, <2>2, <2>3, NoMembers
<1>4. r = [k EXCEPT !.empty = k.empty \ {c}, !.flags = fl, !.getfrom = gf,
                    !.sendto = to, !.callerq = k.callerq, !.messbuf = mb,
                    !.pending = pg, !.pendcount = pc]
  <2>1. [k.callerq EXCEPT ![c] = k.callerq[p]] = k.callerq
    <3>1. k.callerq \in [Procs -> Seq(Senders)] /\ k.callerq[c] = k.callerq[p]
      BY <1>1, <1>3 DEF Kernels
    <3> QED  BY <1>1, <3>1
  <2> QED  BY <1>1, <2>1 DEF DoFork, Kernels
<1> HIDE DEF f, r
<1>5. /\ fl \in [Senders -> SUBSET Flags] /\ gf \in [Procs -> Senders \cup {ANY}]
      /\ to \in [Senders -> Procs] /\ mb \in [Procs -> Messages]
      /\ pg \in [Users -> SUBSET Signals] /\ pc \in [Users -> Nat]
  BY <1>1, <1>2 DEF Kernels
<1>6. /\ \A s \in Senders : /\ fl[s] = IF s = c THEN f ELSE k.flags[s]
                            /\ to[s] = IF s = c THEN k.sendto[p] ELSE k.sendto[s]
      /\ \A s \in Procs : gf[s] = IF s = c THEN k.getfrom[p] ELSE k.getfrom[s]
      /\ \A u \in Users : /\ pg[u] = IF u = c THEN {} ELSE k.pending[u]
                          /\ pc[u] = IF u = c THEN 0 ELSE k.pendcount[u]
  BY <1>1 DEF Kernels
<1> HIDE DEF fl, gf, to, mb, pg, pc
<1>7. /\ r \in Kernels /\ r.flags = fl /\ r.getfrom = gf /\ r.sendto = to
      /\ r.callerq = k.callerq /\ r.intBlocked = k.intBlocked
      /\ r.empty = k.empty \ {c} /\ r.rdy = k.rdy /\ r.proc_ptr = k.proc_ptr
      /\ r.pending = pg /\ r.pendcount = pc /\ r.sig_procs = k.sig_procs
  BY <1>1, <1>4, <1>5 DEF Kernels
<1>8. \A s \in Senders : /\ Sending(r, s) <=> Sending(k, s)
                         /\ s # c => (Receiving(r, s) <=> Receiving(k, s))
  BY <1>2, <1>6, <1>7 DEF Sending, Receiving
<1>9. \A s \in Procs : s \in Senders
  BY DEF Senders
<1>10. CallersExact(r) /\ Acyclic(r) /\ CallsServers(r)
  <2>1. \A s \in Senders : Sending(k, s) => r.sendto[s] = k.sendto[s]
    BY <1>2, <1>6, <1>7
  <2>2. CallersExact(r)
    BY <1>1, <1>7, <1>8, <2>1 DEF CallersExact
  <2>3. Acyclic(r)
    BY <1>1, <1>8, <1>9, <2>1 DEF Acyclic
  <2>4. CallsServers(r)
    <3>1. \A s \in Procs : Sending(k, s) => s # c
      BY <1>2
    <3> QED  BY <1>1, <1>6, <1>7, <1>8, <1>9, <2>1, <3>1 DEF CallsServers
  <2> QED  BY <2>2, <2>3, <2>4
<1>11. NothingLeft(r)
  <2> SUFFICES ASSUME NEW s \in Procs, Receiving(r, s), ~ Sending(r, s)
               PROVE  /\ \A t \in Members(r.callerq[s]) : r.getfrom[s] \notin {ANY, t}
                      /\ s \in r.intBlocked => r.getfrom[s] \notin {ANY, HARDWARE}
    BY DEF NothingLeft
  <2>1. CASE s = c
    <3>1. c \notin k.intBlocked
      BY <1>1 DEF Kernels
    <3> QED  BY <1>1, <1>3, <1>7, <2>1, <3>1
  <2>2. CASE s # c
    BY <1>1, <1>6, <1>7, <1>8, <1>9, <2>2 DEF NothingLeft
  <2> QED  BY <2>1, <2>2
<1>12. KindsKept(r)
  <2>1. /\ \A s \in Tasks \cup Servers : s \in Senders /\ s # c
        /\ HARDWARE \in Senders /\ HARDWARE # c
    BY <1>1, KernelAssumption DEF Senders, Procs
  <2>2. \A v \in r.empty : v \in Senders /\ v # c /\ v \in k.empty
    BY <1>1, <1>7 DEF Kernels, Senders, Procs
  <2> QED  BY <1>1, <1>6, <1>7, <2>1, <2>2 DEF KindsKept
<1>13. ReadyQueuesExact(r)
  <2>1. \A s \in Procs : s \notin r.empty /\ r.flags[s] = {}
                           <=> s \notin k.empty /\ k.flags[s] = {}
    BY <1>2, <1>6, <1>7, <1>9
  <2>2. ASSUME NEW q \in Queues
        PROVE  /\ QueuedOnce(r.rdy[q])
               /\ Members(r.rdy[q]) =
                    {s \in Procs \ r.empty : QueueOf(s) = q /\ r.flags[s] = {}}
    <3>1. /\ QueuedOnce(k.rdy[q])
          /\ Members(k.rdy[q]) =
               {s \in Procs \ k.empty : QueueOf(s) = q /\ k.flags[s] = {}}
      BY <1>1 DEF ReadyQueuesExact
    <3> QED  BY <1>7, <2>1, <3>1
  <2> QED  BY <2>2 DEF ReadyQueuesExact
<1>14. Counted(r)
  <2>1. \A u \in Users : u \in Senders
    BY DEF Senders, Procs
  <2>2. Pending(r) = Pending(k)
    BY <1>2, <1>6, <1>7, <2>1 DEF Pending
  <2>3. ASSUME NEW u \in Users
        PROVE  /\ "PENDING" \in r.flags[u] <=> r.pending[u] # {}
               /\ "SIG_PENDING" \in r.flags[u] <=> r.pendcount[u] > 0
               /\ r.pending[u] # {} => r.pendcount[u] > 0
    <3>1. CASE u = c
      BY <1>2, <1>6, <1>7, <2>1, <3>1
    <3>2. CASE u # c
      BY <1>1, <1>6, <1>7, <2>1, <3>2 DEF Counted
    <3> QED  BY <3>1, <3>2
  <2> QED  BY <1>1, <1>7, <2>2, <2>3 DEF Counted
<1>15. Informed(r)
  BY <1>1, <1>6, <1>7, <1>8, <1>9, KernelAssumption DEF Informed, Procs
<1>16. RunsFirst(r)
  BY <1>1, <1>7 DEF RunsFirst, FirstReady
<1> QED
  BY <1>7, <1>10, <1>11, <1>12, <1>13, <1>14, <1>15, <1>16
  DEF Stable, Consistent, Linked, r

\* do_xit, of a process in any state: ready, waiting, queued, signalled
LEMMA DoXitKeeps ==
  ASSUME NEW k, Stable(k), NEW u \in Users, u \notin k.empty
  PROVE  Stable(DoXit(k, u))
<1> DEFINE gone == IF k.flags[u] = {} THEN Unready(k, u) ELSE k
           cq == IF "SENDING" \in k.flags[u]
                 THEN [p \in Procs |-> Without(k.callerq[p], u)] ELSE k.callerq
           n  == IF "PENDING" \in k.flags[u] THEN k.sig_procs - 1 ELSE k.sig_procs
           fl == [k.flags EXCEPT ![u] = {}]
           pg == [k.pending EXCEPT ![u] = {}]
           pc == [k.pendcount EXCEPT ![u] = 0]
           r  == DoXit(k, u)
<1>1. /\ k \in Kernels /\ ReadyQueuesExact(k) /\ KindsKept(k) /\ Linked(k)
      /\ Counted(k) /\ Informed(k) /\ RunsFirst(k)
      /\ CallersExact(k) /\ Acyclic(k) /\ NothingLeft(k) /\ CallsServers(k)
      /\ u \in Procs /\ u \in Senders
      /\ MM # u /\ u \notin Tasks /\ u \notin Servers
  BY KernelAssumption DEF Stable, Consistent, Linked, Procs, Senders
<1>2. WellQueued(k) /\ \A s \in Procs :
        InQueue(k, s) <=> s \notin k.empty /\ k.flags[s] = {}
  BY <1>1, ReadyByProcess
<1>3. /\ gone \in Kernels /\ SameTable(k, gone) /\ WellQueued(gone)
      /\ \A s \in Procs : InQueue(gone, s) <=> InQueue(k, s) /\ s # u
      /\ RunsFirst(gone)
  <2>1. CASE k.flags[u] = {}
    BY <1>1, <1>2, <2>1, UnreadyResult
  <2>2. CASE k.flags[u] # {}
    BY <1>1, <1>2, <2>2 DEF SameTable, SameButFlags
  <2> QED  BY <2>1, <2>2
<1>4. r = [gone EXCEPT !.callerq = cq, !.sig_procs = n, !.pending = pg,
                       !.pendcount = pc, !.flags = fl, !.empty = k.empty \cup {u}]
  <2>1. /\ gone.callerq = k.callerq /\ gone.sig_procs = k.sig_procs
        /\ gone.pending = k.pending /\ gone.pendcount = k.pendcount
        /\ gone.flags = k.flags /\ gone.empty = k.empty
    BY <1>3 DEF SameTable, SameButFlags
  <2>2. r = [gone EXCEPT
               !.callerq = IF "SENDING" \in k.flags[u]
                           THEN [p \in Procs |-> Without(gone.callerq[p], u)]
                           ELSE gone.callerq,
               !.sig_procs = IF "PENDING" \in k.flags[u]
                             THEN gone.sig_procs - 1 ELSE gone.sig_procs,
               !.pending = [gone.pending EXCEPT ![u] = {}],
               !.pendcount = [gone.pendcount EXCEPT ![u] = 0],
               !.flags = [gone.flags EXCEPT ![u] = {}],
               !.empty = gone.empty \cup {u}]
    <3> HIDE DEF gone
    <3> QED  BY <1>3 DEF DoXit, Kernels, gone
  <2> HIDE DEF gone, r
  <2> QED  BY <2>1, <2>2
<1> HIDE DEF gone, r
<1>5. /\ cq \in [Procs -> Seq(Senders)]
      /\ \A p \in Procs : /\ QueuedOnce(cq[p])
                          /\ Members(cq[p]) = Members(k.callerq[p]) \ {u}
  <2>1. \A p \in Procs : k.callerq[p] \in Seq(Senders) /\ QueuedOnce(k.callerq[p])
    BY <1>1 DEF Kernels, CallersExact
  <2>2. CASE "SENDING" \in k.flags[u]
    <3>1. \A p \in Procs : /\ Without(k.callerq[p], u) \in Seq(Senders)
                           /\ QueuedOnce(Without(k.callerq[p], u))
                           /\ Members(Without(k.callerq[p], u)) = Members(k.callerq[p]) \ {u}
      BY <2>1, WithoutKeepsOthers
    <3> QED  BY <2>2, <3>1
  <2>3. CASE "SENDING" \notin k.flags[u]
    <3>1. \A p \in Procs : u \notin Members(k.callerq[p])
      BY <1>1, <2>3 DEF CallersExact, Sending
    <3> QED  BY <1>1, <2>1, <2>3, <3>1 DEF Kernels
  <2> QED  BY <2>2, <2>3
<1>6. /\ fl \in [Senders -> SUBSET Flags]
      /\ pg \in [Users -> SUBSET Signals] /\ pc \in [Users -> Nat]
      /\ \A s \in Senders : fl[s] = IF s = u THEN {} ELSE k.flags[s]
      /\ \A s \in Users : /\ pg[s] = IF s = u THEN {} ELSE k.pending[s]
                          /\ pc[s] = IF s = u THEN 0 ELSE k.pendcount[s]
  BY <1>1 DEF Kernels
<1>7. n \in Int
  BY <1>1 DEF Kernels
<1> HIDE DEF cq, n, fl, pg, pc
<1>8. /\ r \in Kernels /\ r.callerq = cq /\ r.sig_procs = n /\ r.pending = pg
      /\ r.pendcount = pc /\ r.flags = fl /\ r.empty = k.empty \cup {u}
      /\ r.getfrom = k.getfrom /\ r.sendto = k.sendto /\ r.intBlocked = k.intBlocked
      /\ r.rdy = gone.rdy /\ r.proc_ptr = gone.proc_ptr
  BY <1>1, <1>3, <1>4, <1>5, <1>6, <1>7 DEF Kernels, SameTable, SameButFlags
<1>9. \A s \in Senders : /\ Sending(r, s) <=> Sending(k, s) /\ s # u
                         /\ Receiving(r, s) <=> Receiving(k, s) /\ s # u
  BY <1>6, <1>8 DEF Sending, Receiving
<1>10. \A s \in Procs : s \in Senders
  BY DEF Senders
<1>11. CallersExact(r)
  <2> SUFFICES ASSUME NEW p \in Procs
               PROVE  /\ QueuedOnce(r.callerq[p])
                      /\ \A s \in Senders :
                           s \in Members(r.callerq[p]) <=> Sending(r, s) /\ r.sendto[s] = p
    BY DEF CallersExact
  <2>1. \A s \in Senders :
          s \in Members(k.callerq[p]) <=> Sending(k, s) /\ k.sendto[s] = p
    BY <1>1 DEF CallersExact
  <2> QED  BY <1>5, <1>8, <1>9, <2>1
<1>12. Acyclic(r) /\ CallsServers(r)
  BY <1>1, <1>8, <1>9, <1>10 DEF Acyclic, CallsServers
<1>13. NothingLeft(r)
  BY <1>1, <1>5, <1>8, <1>9, <1>10 DEF NothingLeft
<1>14. KindsKept(r)
  <2>1. /\ \A s \in Tasks \cup Servers : s \in Senders /\ s # u
        /\ HARDWARE \in Senders /\ HARDWARE # u
    BY <1>1, KernelAssumption DEF Senders, Procs
  <2>2. \A v \in r.empty : v \in Senders /\ (v = u \/ v \in k.empty)
    BY <1>1, <1>8 DEF Kernels, Senders, Procs
  <2> QED  BY <1>1, <1>6, <1>8, <2>1, <2>2 DEF KindsKept
<1>15. ReadyQueuesExact(r)
  <2>1. WellQueued(r) /\ \A s \in Procs : InQueue(r, s) <=> InQueue(gone, s)
    BY <1>3, <1>8 DEF WellQueued, InQueue
  <2>2. \A s \in Procs : InQueue(r, s) <=> s \notin r.empty /\ r.flags[s] = {}
    BY <1>2, <1>3, <1>6, <1>8, <1>10, <2>1
  <2> QED  BY <1>8, <2>1, <2>2, ReadyByProcess
<1>16. Pending(r) = Pending(k) \ {u}
  <2>1. \A s \in Users : s \in Senders
    BY DEF Senders, Procs
  <2> QED  BY <1>6, <1>8, <2>1 DEF Pending
<1>17. n = Cardinality(Pending(r))
  <2>1. CASE "PENDING" \in k.flags[u]
    <3>1. Pending(k) = Pending(r) \cup {u} /\ u \notin Pending(r)
      BY <1>16, <2>1 DEF Pending
    <3>2. Cardinality(Pending(k)) = Cardinality(Pending(r)) + 1
      BY <3>1, PendingFinite, FS_AddElement
    <3> QED  BY <1>1, <2>1, <3>2, PendingFinite DEF Counted, n
  <2>2. CASE "PENDING" \notin k.flags[u]
    <3>1. Pending(r) = Pending(k)
      BY <1>16, <2>2 DEF Pending
    <3> QED  BY <1>1, <2>2, <3>1 DEF Counted, n
  <2> QED  BY <2>1, <2>2
<1>18. Counted(r)
  <2>1. ASSUME NEW s \in Users
        PROVE  /\ "PENDING" \in r.flags[s] <=> r.pending[s] # {}
               /\ "SIG_PENDING" \in r.flags[s] <=> r.pendcount[s] > 0
               /\ r.pending[s] # {} => r.pendcount[s] > 0
    <3>1. s \in Senders
      BY DEF Senders, Procs
    <3>2. CASE s = u
      BY <1>6, <1>8, <3>1, <3>2
    <3>3. CASE s # u
      BY <1>1, <1>6, <1>8, <3>1, <3>3 DEF Counted
    <3> QED  BY <3>2, <3>3
  <2> QED  BY <1>8, <1>17, <2>1 DEF Counted
<1>19. Informed(r)
  <2> SUFFICES ASSUME Receiving(r, MM), r.getfrom[MM] = ANY
               PROVE  r.sig_procs = 0
    BY DEF Informed
  <2>1. MM \in Senders
    BY KernelAssumption DEF Senders, Procs
  <2>2. k.sig_procs = 0
    BY <1>1, <1>8, <1>9, <2>1 DEF Informed
  <2>3. Pending(k) = {}
    BY <1>1, <2>2, PendingFinite DEF Counted
  <2>4. Pending(r) = {}
    BY <1>16, <2>3
  <2> QED  BY <1>8, <1>17, <2>4, PendingFinite
<1>20. RunsFirst(r)
  BY <1>3, <1>8 DEF RunsFirst, FirstReady
<1>21. Consistent(r)
  BY <1>8, <1>11, <1>12, <1>13, <1>14, <1>15, <1>18 DEF Consistent, Linked
<1> QED
  BY <1>19, <1>20, <1>21 DEF Stable, r

-----------------------------------------------------------------------------
(* The end of a quantum *)

\* sched, whatever the groups of the processes are
LEMMA SchedKeeps ==
  ASSUME NEW k, Stable(k), NEW group \in [Users -> Groups]
  PROVE  Stable(PickProc([k EXCEPT !.rdy["USER_Q"] = Scheduled(@, group)]))
<1> DEFINE q == k.rdy["USER_Q"]
           s == Scheduled(q, group)
           y == [k.rdy EXCEPT !["USER_Q"] = s]
           x == [k EXCEPT !.rdy["USER_Q"] = Scheduled(@, group)]
<1>1. /\ k \in Kernels /\ ReadyQueuesExact(k) /\ KindsKept(k) /\ Linked(k)
      /\ Counted(k) /\ Informed(k) /\ "USER_Q" \in Queues
  BY DEF Stable, Consistent, Queues
<1>2. q \in Seq(Users) /\ QueuedOnce(q)
  <2>1. q \in Seq(Procs) /\ QueuedOnce(q)
    BY <1>1 DEF Kernels, ReadyQueuesExact
  <2>2. \A i \in 1..Len(q) : q[i] \in Members(q)
    BY <2>1 DEF Members
  <2>3. \A i \in 1..Len(q) : q[i] \in Users
    BY <1>1, <2>2, QueueOfKind DEF ReadyQueuesExact
  <2>4. q \in [1..Len(q) -> Users] /\ Len(q) \in Nat
    BY <2>1, <2>3
  <2> QED  BY <2>1, <2>4, IsASeq
<1>3. s \in Seq(Users) /\ QueuedOnce(s) /\ Members(s) = Members(q)
  BY <1>2, SchedPreempts
<1>4. s \in Seq(Procs)
  <2>1. \A i \in 1..Len(s) : s[i] \in Procs
    BY <1>3 DEF Procs
  <2>2. s \in [1..Len(s) -> Procs] /\ Len(s) \in Nat
    BY <1>3, <2>1
  <2> QED  BY <2>2, IsASeq
<1>5. x = [k EXCEPT !.rdy = y]
  BY <1>1 DEF Kernels
<1> HIDE DEF s, x
<1>6. /\ y \in [Queues -> Seq(Procs)]
      /\ \A o \in Queues : y[o] = IF o = "USER_Q" THEN s ELSE k.rdy[o]
  BY <1>1, <1>4 DEF Kernels
<1> HIDE DEF y
<1>7. /\ x \in Kernels /\ x.rdy = y
      /\ x.flags = k.flags /\ x.getfrom = k.getfrom /\ x.sendto = k.sendto
      /\ x.callerq = k.callerq /\ x.intBlocked = k.intBlocked /\ x.empty = k.empty
      /\ x.pending = k.pending /\ x.pendcount = k.pendcount
      /\ x.sig_procs = k.sig_procs
  BY <1>1, <1>5, <1>6 DEF Kernels
<1>8. ReadyQueuesExact(x)
  BY <1>1, <1>3, <1>6, <1>7 DEF ReadyQueuesExact
<1>9. KindsKept(x) /\ Informed(x)
  BY <1>1, <1>7 DEF KindsKept, Informed, Receiving
<1>10. Linked(x)
  BY <1>1, <1>7, LinkedKept DEF Sending, Receiving
<1>11. Counted(x)
  BY <1>1, <1>7, CountedKept
<1>12. Consistent(x)
  BY <1>7, <1>8, <1>9, <1>10, <1>11 DEF Consistent
<1>13. Stable(PickProc(x))
  BY <1>9, <1>12, PickProcKeeps DEF Stable
<1> QED
  BY <1>13 DEF x

-----------------------------------------------------------------------------
(* The start *)

\* An order of a set has all of its members.
LEMMA OrderHasAll ==
  ASSUME NEW S, IsFiniteSet(S), NEW q \in Orders(S)
  PROVE  q \in Seq(S) /\ QueuedOnce(q) /\ Members(q) = S
<1> DEFINE n == Cardinality(S)
<1>1. n \in Nat
  BY FS_CardinalityType
<1> HIDE DEF n
<1>2. q \in [1..n -> S] /\ QueuedOnce(q)
  BY DEF Orders, n
<1>3. q \in Injection(1..n, S)
  BY <1>2 DEF Injection, IsInjective, QueuedOnce
<1>4. Cardinality(1..n) = n /\ IsFiniteSet(1..n)
  BY <1>1, FS_Interval
<1>5. q \in Surjection(1..n, S)
  BY <1>3, <1>4, FS_Injection DEF n
<1>6. Members(q) = S
  BY <1>2, <1>5 DEF Surjection, Members
<1> QED
  BY <1>1, <1>2, <1>6

\* main leaves a consistent kernel, whatever the order of the tasks.
LEMMA BootedStable ==
  ASSUME NEW tasks \in Orders(Tasks), NEW servers \in Orders(Servers)
  PROVE  Stable(Booted(tasks, servers))
<1> DEFINE body   == CHOOSE t \in Texts : TRUE
           queues == [q \in Queues |-> CASE q = "TASK_Q"   -> tasks
                                         [] q = "SERVER_Q" -> servers
                                         [] q = "USER_Q"   -> <<InitProc>>]
           k == [flags |-> [p \in Senders |-> {}],
                 getfrom |-> [p \in Procs |-> MM],
                 sendto |-> [p \in Senders |-> MM],
                 callerq |-> [p \in Procs |-> << >>],
                 messbuf |-> [p \in Procs |-> [source |-> MM, body |-> body]],
                 intBlocked |-> {},
                 empty |-> Users \ {InitProc},
                 rdy |-> queues,
                 proc_ptr |-> IDLE,
                 pending |-> [u \in Users |-> {}],
                 pendcount |-> [u \in Users |-> 0],
                 sig_procs |-> 0]
<1>1. Booted(tasks, servers) = PickProc(k)
  BY DEF Booted
<1>2. body \in Texts
  BY ProcessesAssumption
<1> HIDE DEF body
<1>3. MM \in Procs /\ MM \in Senders
  BY KernelAssumption DEF Procs, Senders
<1>4. /\ tasks \in Seq(Tasks) /\ QueuedOnce(tasks) /\ Members(tasks) = Tasks
      /\ servers \in Seq(Servers) /\ QueuedOnce(servers) /\ Members(servers) = Servers
  <2>1. IsFiniteSet(Tasks) /\ IsFiniteSet(Servers)
    BY KernelAssumption, FS_Subset DEF Procs
  <2> QED  BY <2>1, OrderHasAll
<1>5. /\ <<InitProc>> \in Seq(Users) /\ QueuedOnce(<<InitProc>>)
      /\ Members(<<InitProc>>) = {InitProc}
  BY InitProcAssumption DEF QueuedOnce, Members
<1>6. /\ queues["TASK_Q"] = tasks /\ queues["SERVER_Q"] = servers
      /\ queues["USER_Q"] = <<InitProc>>
      /\ queues \in [Queues -> Seq(Procs)]
  <2>1. tasks \in Seq(Procs) /\ servers \in Seq(Procs) /\ <<InitProc>> \in Seq(Procs)
    BY <1>4, <1>5, InitProcAssumption DEF Procs
  <2> QED  BY <2>1 DEF Queues
<1> HIDE DEF queues
<1>7. k \in Kernels
  <2>1. k.messbuf \in [Procs -> Messages]
    BY <1>2, <1>3 DEF Messages, Bodies
  <2>2. /\ k.flags \in [Senders -> SUBSET Flags]
        /\ k.getfrom \in [Procs -> Senders \cup {ANY}]
        /\ k.sendto \in [Senders -> Procs]
        /\ k.callerq \in [Procs -> Seq(Senders)]
    BY <1>3
  <2>3. /\ k.pending \in [Users -> SUBSET Signals] /\ k.pendcount \in [Users -> Nat]
        /\ k.sig_procs \in Int /\ k.empty \in SUBSET Users
        /\ k.intBlocked \in SUBSET Tasks /\ k.proc_ptr \in Procs \cup {IDLE}
    OBVIOUS
  <2> QED  BY <1>6, <2>1, <2>2, <2>3 DEF Kernels
<1>8. /\ \A p \in Senders : k.flags[p] = {}
      /\ \A p \in Procs : k.callerq[p] = << >>
      /\ \A u \in Users : k.pending[u] = {} /\ k.pendcount[u] = 0
      /\ k.sig_procs = 0 /\ k.empty = Users \ {InitProc} /\ k.rdy = queues
  OBVIOUS
<1> HIDE DEF k
<1>9. KindsKept(k)
  BY <1>8 DEF KindsKept, Senders, Procs
<1>10. Linked(k)
  <2>1. CallersExact(k)
    BY <1>8 DEF CallersExact, Sending, QueuedOnce, Members
  <2>2. Acyclic(k) /\ NothingLeft(k) /\ CallsServers(k)
    BY <1>8 DEF Acyclic, NothingLeft, CallsServers, Sending, Receiving, Senders
  <2> QED  BY <2>1, <2>2 DEF Linked
<1>11. Counted(k)
  <2>1. Pending(k) = {}
    BY <1>8 DEF Pending, Senders, Procs
  <2> QED  BY <1>8, <2>1, FS_EmptySet DEF Counted, Senders, Procs
<1>12. ReadyQueuesExact(k)
  <2>1. \A p \in Procs : QueueOf(p) = "TASK_Q" <=> p \in Tasks
    BY QueueOfKind
  <2>2. \A p \in Procs : QueueOf(p) = "SERVER_Q" <=> p \in Servers
    BY QueueOfKind
  <2>3. \A p \in Procs : QueueOf(p) = "USER_Q" <=> p \in Users
    BY QueueOfKind
  <2>4. \A p \in Procs : k.flags[p] = {}
    BY <1>8 DEF Senders
  <2>5. /\ Tasks = {p \in Procs \ k.empty : QueueOf(p) = "TASK_Q"}
        /\ Servers = {p \in Procs \ k.empty : QueueOf(p) = "SERVER_Q"}
        /\ {InitProc} = {p \in Procs \ k.empty : QueueOf(p) = "USER_Q"}
    BY <2>1, <2>2, <2>3, <1>8, KernelAssumption, InitProcAssumption DEF Procs
  <2> QED  BY <1>4, <1>5, <1>6, <1>8, <2>4, <2>5 DEF ReadyQueuesExact, Queues
<1>13. Informed(k)
  BY <1>8 DEF Informed
<1> QED
  BY <1>1, <1>7, <1>9, <1>10, <1>11, <1>12, <1>13, PickProcKeeps DEF Consistent, Stable

-----------------------------------------------------------------------------
(* The steps *)

\* The running process writes the message that it sends.
LEMMA WritesKeeps ==
  ASSUME IInv, NEW p \in Procs, NEW text \in Texts
  PROVE  /\ Stable(Writes(p, text))
         /\ Writes(p, text).proc_ptr = kernel.proc_ptr
         /\ Writes(p, text).flags = kernel.flags
         /\ Writes(p, text).getfrom = kernel.getfrom
<1> DEFINE m == [kernel.messbuf EXCEPT ![p].body = text]
<1>1. kernel \in Kernels
  BY DEF IInv, Stable, Consistent
<1>2. m \in [Procs -> Messages]
  <2>1. kernel.messbuf \in [Procs -> Messages]
    BY <1>1 DEF Kernels
  <2>2. [kernel.messbuf[p] EXCEPT !.body = text] \in Messages
    BY <2>1 DEF Messages, Bodies
  <2> QED  BY <2>1, <2>2
<1>3. Writes(p, text) = [kernel EXCEPT !.messbuf = m]
  BY <1>1 DEF Writes, Kernels
<1> HIDE DEF m
<1>4. Stable([kernel EXCEPT !.messbuf = m])
  BY <1>2, WritingKeeps DEF IInv, Stable
<1> QED
  BY <1>1, <1>3, <1>4 DEF Kernels

\* Calls of the running process keep the invariant.
LEMMA CallsPreserveIInv ==
  ASSUME IInv, NEW p \in Procs
  PROVE  /\ \A d \in Procs : Send(p, d) \/ Both(p, d) => IInv'
         /\ \A src \in Procs \cup {ANY, HARDWARE} : Receive(p, src) => IInv'
<1>1. ASSUME NEW d \in Procs, Send(p, d)
      PROVE  IInv'
  <2>1. PICK text \in Texts : kernel' = MiniSend(Writes(p, text), p, d)
    BY <1>1 DEF Send
  <2>2. /\ p # d /\ p \notin Users
        /\ Writes(p, text).proc_ptr = p
        /\ d \in Users => Waits(Writes(p, text), d, p)
    BY <1>1, WritesKeeps, ProcessesAssumption DEF Send, Runs, Waits
  <2>3. Stable(MiniSend(Writes(p, text), p, d))
    BY <2>2, WritesKeeps, MiniSendKeeps DEF Stable
  <2> QED  BY <2>1, <2>3 DEF IInv
<1>2. ASSUME NEW d \in Procs, Both(p, d)
      PROVE  IInv'
  <2>1. PICK text \in Texts : kernel' = SendRec(Writes(p, text), p, d)
    BY <1>2 DEF Both
  <2>2. p # d /\ d \notin Users /\ Writes(p, text).proc_ptr = p
    BY <1>2, WritesKeeps, ProcessesAssumption DEF Both, Runs
  <2>3. Stable(SendRec(Writes(p, text), p, d))
    BY <2>2, WritesKeeps, SendRecKeeps
  <2> QED  BY <2>1, <2>3 DEF IInv
<1>3. ASSUME NEW src \in Procs \cup {ANY, HARDWARE}, Receive(p, src)
      PROVE  IInv'
  <2>1. kernel.flags[p] = {} /\ p \notin kernel.empty
    BY <1>3, RunningIsReady DEF Receive, Runs, IInv, Stable, Consistent
  <2>2. Stable(MiniRec(kernel, p, src))
    BY <2>1, MiniRecKeeps DEF IInv, Stable
  <2> QED  BY <1>3, <2>2 DEF Receive, IInv
<1> QED
  BY <1>1, <1>2, <1>3

\* Interrupts and what tasks do to the kernel keep the invariant.
LEMMA TasksPreserveIInv ==
  ASSUME IInv, NEW t \in Tasks
  PROVE  /\ Sched(t) \/ Interrupted(t) => IInv'
         /\ \A u \in Users, sig \in Signals : Signal(t, u, sig) => IInv'
<1>1. ASSUME Sched(t)
      PROVE  IInv'
  BY <1>1, SchedKeeps DEF Sched, IInv
<1>2. ASSUME Interrupted(t)
      PROVE  IInv'
  BY <1>2, InterruptKeeps DEF Interrupted, IInv
<1>3. ASSUME NEW u \in Users, NEW sig \in Signals, Signal(t, u, sig)
      PROVE  IInv'
  BY <1>3, CauseSigKeeps DEF Signal, IInv
<1> QED
  BY <1>1, <1>2, <1>3

\* The requests that the system task carries out keep the invariant.
LEMMA RequestsPreserveIInv ==
  ASSUME IInv, NEW u \in Users
  PROVE  /\ \A c \in Users : Fork(u, c) => IInv'
         /\ \A traced \in BOOLEAN : Exec(u, traced) => IInv'
         /\ Newmap(u) \/ Xit(u) \/ Endsig(u) \/ Stop(u) \/ Resume(u) => IInv'
<1>1. Runs(SYSTASK) => kernel.rdy["TASK_Q"] # << >>
  BY TaskRuns, KernelAssumption DEF Runs, IInv
<1>2. ASSUME NEW c \in Users, Fork(u, c)
      PROVE  IInv'
  BY <1>2, DoForkKeeps DEF Fork, AwaitsMM, IInv
<1>3. ASSUME NEW traced \in BOOLEAN, Exec(u, traced)
      PROVE  IInv'
  BY <1>3, DoExecKeeps DEF Exec, Runs, AwaitsMM, IInv
<1>4. ASSUME Newmap(u)
      PROVE  IInv'
  BY <1>1, <1>4, DoNewmapKeeps DEF Newmap, IInv
<1>5. ASSUME Xit(u)
      PROVE  IInv'
  BY <1>5, DoXitKeeps DEF Xit, IInv
<1>6. ASSUME Endsig(u)
      PROVE  IInv'
  BY <1>1, <1>6, DoEndsigKeeps DEF Endsig, IInv
<1>7. ASSUME Stop(u)
      PROVE  IInv'
  BY <1>7, DoStopKeeps DEF Stop, IInv
<1>8. ASSUME Resume(u)
      PROVE  IInv'
  BY <1>1, <1>8, DoResumeKeeps DEF Resume, IInv
<1> QED
  BY <1>2, <1>3, <1>4, <1>5, <1>6, <1>7, <1>8

\* The kernel is consistent between any two calls.
THEOREM KernelInvariance == Spec => []IInv
<1>1. Init => IInv
  BY BootedStable DEF Init, IInv
<1>2. IInv /\ [Next]_kernel => IInv'
  <2> SUFFICES ASSUME IInv, [Next]_kernel
               PROVE  IInv'
    OBVIOUS
  <2>1. ASSUME NEW p \in Procs, NEW d \in Procs, Send(p, d) \/ Both(p, d)
        PROVE  IInv'
    BY <2>1, CallsPreserveIInv
  <2>2. ASSUME NEW p \in Procs, NEW src \in Procs \cup {ANY, HARDWARE}, Receive(p, src)
        PROVE  IInv'
    BY <2>2, CallsPreserveIInv
  <2>3. ASSUME NEW t \in Tasks, Sched(t) \/ Interrupted(t)
        PROVE  IInv'
    BY <2>3, TasksPreserveIInv
  <2>4. ASSUME NEW t \in Tasks, NEW u \in Users, NEW sig \in Signals, Signal(t, u, sig)
        PROVE  IInv'
    BY <2>4, TasksPreserveIInv
  <2>5. ASSUME NEW p \in Users, NEW c \in Users, Fork(p, c)
        PROVE  IInv'
    BY <2>5, RequestsPreserveIInv
  <2>6. ASSUME NEW u \in Users, NEW traced \in BOOLEAN, Exec(u, traced)
        PROVE  IInv'
    BY <2>6, RequestsPreserveIInv
  <2>7. ASSUME NEW u \in Users,
               Newmap(u) \/ Xit(u) \/ Endsig(u) \/ Stop(u) \/ Resume(u)
        PROVE  IInv'
    BY <2>7, RequestsPreserveIInv
  <2>8. CASE UNCHANGED kernel
    BY <2>8 DEF IInv
  <2> QED
    BY <2>1, <2>2, <2>3, <2>4, <2>5, <2>6, <2>7, <2>8 DEF Next
<1> QED
  BY <1>1, <1>2, PTL DEF Spec

-----------------------------------------------------------------------------
(* What follows from it *)

\* Every field of the table of processes keeps its type.
THEOREM KernelTypeCorrect == Spec => []TypeOK
<1>1. IInv => TypeOK
  BY DEF IInv, Stable, Consistent, TypeOK
<1> QED
  BY <1>1, KernelInvariance, PTL

\* The caller queues of mini_send and mini_rec have the blocked senders, each
\* in one queue, once, whoever is killed or forked meanwhile.
THEOREM CallersQueued == Spec => []QueuesExact
<1>1. IInv => QueuesExact
  BY DEF IInv, Stable, Consistent, Linked, QueuesExact
<1> QED
  BY <1>1, KernelInvariance, PTL

\* The walk of mini_send along p_sendto refuses every circle of senders, of
\* any length, so none ever forms.
THEOREM SendersDoNotDeadlock == Spec => []NoSendCycle
<1>1. IInv => NoSendCycle
  BY DEF IInv, Stable, Consistent, Linked, NoSendCycle
<1> QED
  BY <1>1, KernelInvariance, PTL

\* A ready queue has exactly the processes that nothing blocks, once.
THEOREM ReadyQueued == Spec => []ReadyExact
<1>1. IInv => ReadyExact
  BY DEF IInv, Stable, Consistent, ReadyExact
<1> QED
  BY <1>1, KernelInvariance, PTL

\* proc_ptr is the first process of the highest queue that has one.
THEOREM RunningNotStale == Spec => []RunningIsFirst
<1>1. IInv => RunningIsFirst
  BY DEF IInv, Stable, RunsFirst, RunningIsFirst
<1> QED
  BY <1>1, KernelInvariance, PTL

\* Nobody is blocked for a message or an interrupt that is there.
THEOREM MessagesNotLeft == Spec => []NoMessageLeft
<1>1. IInv => NoMessageLeft
  BY DEF IInv, Stable, Consistent, Linked, NoMessageLeft
<1> QED
  BY <1>1, KernelInvariance, PTL

\* sig_procs, p_pendcount and the flags count the signals, and MM does not
\* wait for work while there is a signal to tell it of.
THEOREM SignalsCounted == Spec => []SignalsExact
<1>1. IInv => SignalsExact
  BY DEF IInv, Stable, Consistent, Counted, Informed, SignalsExact, SignalCounts
<1> QED
  BY <1>1, KernelInvariance, PTL

-----------------------------------------------------------------------------
(* What the calls of the kernel do to the processes *)

\* mini_send to a process that waits: it has the message, and only it goes on.
LEMMA Delivered ==
  ASSUME NEW k, Stable(k), NEW c \in Procs, k.proc_ptr = c,
         NEW d \in Procs, c # d, Waits(k, d, c), ~ Refused(k, c, d)
  PROVE  LET r == MiniSend(k, c, d)
         IN  /\ r.flags = [k.flags EXCEPT ![d] = @ \ {"RECEIVING"}]
             /\ r.messbuf = [k.messbuf EXCEPT
                               ![d] = [source |-> c, body |-> k.messbuf[c].body]]
             /\ r.getfrom = k.getfrom /\ r.sendto = k.sendto
             /\ r.callerq = k.callerq /\ r.intBlocked = k.intBlocked
             /\ SameSignals(k, r)
             /\ \A q \in Queues : q # QueueOf(d) => r.rdy[q] = k.rdy[q]
<1> DEFINE mb == [k.messbuf EXCEPT ![d] = [source |-> c, body |-> k.messbuf[c].body]]
           w  == [k EXCEPT !.messbuf = mb]
           r  == MiniSend(k, c, d)
<1>1. /\ k \in Kernels /\ Consistent(k) /\ ReadyQueuesExact(k) /\ KindsKept(k)
      /\ c # HARDWARE
  BY KernelAssumption DEF Stable, Consistent
<1>2. r = Unblock(w, d, {"RECEIVING"})
  BY <1>1 DEF MiniSend, Message, Kernels
<1>3. mb \in [Procs -> Messages]
  <2>1. k.messbuf[c] \in Messages
    BY <1>1 DEF Kernels
  <2>2. [source |-> c, body |-> k.messbuf[c].body] \in Messages
    BY <2>1 DEF Messages, Senders
  <2> QED  BY <1>1, <2>2 DEF Kernels
<1>4. w.messbuf = mb
  BY <1>1 DEF Kernels
<1> HIDE DEF mb
<1>5. Consistent(w)
  BY <1>1, <1>3, WritingKeeps
<1>6. /\ w.flags = k.flags /\ w.rdy = k.rdy /\ w.empty = k.empty
      /\ w.getfrom = k.getfrom /\ w.sendto = k.sendto /\ w.callerq = k.callerq
      /\ w.intBlocked = k.intBlocked /\ w.pending = k.pending
      /\ w.pendcount = k.pendcount
  BY <1>1 DEF Kernels
<1> HIDE DEF w, r
<1>7. w \in Kernels /\ ReadyQueuesExact(w) /\ w.flags[d] # {} /\ d \notin w.empty
  BY <1>1, <1>5, <1>6 DEF Consistent, Waits, KindsKept
<1>8. /\ r.flags = [k.flags EXCEPT ![d] = @ \ {"RECEIVING"}] /\ SameButFlags(w, r)
      /\ \A q \in Queues : q # QueueOf(d) => r.rdy[q] = k.rdy[q]
  BY <1>2, <1>6, <1>7, UnblockResult
<1> QED
  BY <1>4, <1>6, <1>8 DEF SameButFlags, SameSignals, r, mb

\* mini_send to a process that does not wait: the sender is queued.
LEMMA Queued ==
  ASSUME NEW k, Stable(k), NEW c \in Procs, k.proc_ptr = c,
         NEW d \in Procs, c # d, ~ Waits(k, d, c), ~ Refused(k, c, d)
  PROVE  LET r == MiniSend(k, c, d)
         IN  /\ r.flags = [k.flags EXCEPT ![c] = {"SENDING"}]
             /\ r.callerq = [k.callerq EXCEPT ![d] = Append(@, c)]
             /\ r.sendto = [k.sendto EXCEPT ![c] = d]
             /\ r.messbuf = k.messbuf /\ r.getfrom = k.getfrom
             /\ r.intBlocked = k.intBlocked
             /\ SameSignals(k, r)
<1> DEFINE b == Block(k, c, {"SENDING"})
           r == MiniSend(k, c, d)
<1>1. /\ k \in Kernels /\ ReadyQueuesExact(k) /\ c \notin k.empty /\ k.flags[c] = {}
      /\ c \in Senders
  BY RunningIsReady DEF Stable, Consistent, Senders
<1>2. b \in Kernels /\ b.flags = [k.flags EXCEPT ![c] = @ \cup {"SENDING"}] /\ SameButFlags(k, b)
  BY <1>1, BlockResult DEF Flags
<1>3. r = [b EXCEPT !.sendto[c] = d, !.callerq[d] = Append(@, c)]
  BY DEF MiniSend
<1> HIDE DEF b, r
<1>4. /\ r.flags = b.flags /\ r.getfrom = b.getfrom /\ r.messbuf = b.messbuf
      /\ r.intBlocked = b.intBlocked /\ r.empty = b.empty /\ r.pending = b.pending
      /\ r.pendcount = b.pendcount
      /\ r.sendto = [b.sendto EXCEPT ![c] = d]
      /\ r.callerq = [b.callerq EXCEPT ![d] = Append(@, c)]
  BY <1>2, <1>3 DEF Kernels
<1>5. b.flags = [k.flags EXCEPT ![c] = {"SENDING"}]
  BY <1>1, <1>2 DEF Kernels
<1> QED
  BY <1>2, <1>4, <1>5 DEF SameButFlags, SameSignals, r

\* The second half of sys_call with BOTH: the caller waits for the answer.
LEMMA SleepsFor ==
  ASSUME NEW k, k \in Kernels, ReadyQueuesExact(k), NEW c \in Procs, c \notin k.empty,
         NEW d \in Procs \cup {HARDWARE, ANY},
         c = MM => d # ANY \/ k.sig_procs <= 0
  PROVE  LET r == Sleep(k, c, d)
         IN  /\ r.flags = [k.flags EXCEPT ![c] = @ \cup {"RECEIVING"}]
             /\ r.getfrom = [k.getfrom EXCEPT ![c] = d]
             /\ r.callerq = k.callerq /\ r.sendto = k.sendto /\ r.messbuf = k.messbuf
             /\ r.intBlocked = k.intBlocked
             /\ SameSignals(k, r)
<1> DEFINE b == Block(k, c, {"RECEIVING"})
           r == Sleep(k, c, d)
<1>1. b \in Kernels /\ b.flags = [k.flags EXCEPT ![c] = @ \cup {"RECEIVING"}] /\ SameButFlags(k, b)
  BY BlockResult DEF Flags
<1>2. r = [b EXCEPT !.getfrom[c] = d]
  <2>1. ~ (c = MM /\ d = ANY /\ k.sig_procs > 0)
    BY DEF Kernels
  <2> QED  BY <2>1 DEF Sleep
<1> HIDE DEF b, r
<1>3. /\ r.flags = b.flags /\ r.sendto = b.sendto /\ r.messbuf = b.messbuf
      /\ r.callerq = b.callerq
      /\ r.intBlocked = b.intBlocked /\ r.empty = b.empty /\ r.pending = b.pending
      /\ r.pendcount = b.pendcount
      /\ r.getfrom = [b.getfrom EXCEPT ![c] = d]
  BY <1>1, <1>2 DEF Kernels
<1> QED
  BY <1>1, <1>3 DEF SameButFlags, SameSignals, r

\* sys_call with BOTH to a process that waits
LEMMA CallDelivered ==
  ASSUME NEW k, Stable(k), NEW c \in Procs, k.proc_ptr = c,
         NEW d \in Procs, c # d, d \notin Users, Waits(k, d, c), ~ Refused(k, c, d)
  PROVE  LET r == SendRec(k, c, d)
         IN  /\ Stable(r)
             /\ r.flags = [k.flags EXCEPT ![d] = @ \ {"RECEIVING"}, ![c] = {"RECEIVING"}]
             /\ r.getfrom = [k.getfrom EXCEPT ![c] = d]
             /\ r.messbuf = [k.messbuf EXCEPT
                               ![d] = [source |-> c, body |-> k.messbuf[c].body]]
             /\ r.callerq = k.callerq /\ r.sendto = k.sendto
             /\ r.intBlocked = k.intBlocked
             /\ SameSignals(k, r)
<1> DEFINE m == MiniSend(k, c, d)
           r == SendRec(k, c, d)
<1>1. /\ k \in Kernels /\ CallersExact(k) /\ k.flags[c] = {}
      /\ c \in Senders /\ d \in Senders /\ d \notin {ANY, HARDWARE}
  BY RunningIsReady, KernelAssumption DEF Stable, Consistent, Linked, Senders
<1>2. /\ m.flags = [k.flags EXCEPT ![d] = @ \ {"RECEIVING"}]
      /\ m.messbuf = [k.messbuf EXCEPT
                        ![d] = [source |-> c, body |-> k.messbuf[c].body]]
      /\ m.getfrom = k.getfrom /\ m.sendto = k.sendto
      /\ m.callerq = k.callerq /\ m.intBlocked = k.intBlocked
      /\ SameSignals(k, m)
  BY Delivered
<1>3. m \in Kernels /\ ReadyQueuesExact(m) /\ m.empty = k.empty
  BY MiniSendKeeps DEF Consistent
<1>4. r = MiniRec(m, c, d)
  BY DEF SendRec
<1> HIDE DEF m, r
<1>5. c \notin m.empty
  BY <1>3, RunningIsReady DEF Stable, Consistent
<1>6. m.flags[c] = {}
  BY <1>1, <1>2 DEF Kernels
<1>7. Offers(m, c, d) = {}
  <2>1. d \notin Members(k.callerq[c])
    BY <1>1 DEF CallersExact, Waits, Sending
  <2> QED  BY <1>1, <1>2, <2>1 DEF Offers, Members
<1>8. r = Sleep(m, c, d)
  BY <1>1, <1>4, <1>6, <1>7 DEF MiniRec
<1>9. /\ r.flags = [m.flags EXCEPT ![c] = @ \cup {"RECEIVING"}]
      /\ r.getfrom = [m.getfrom EXCEPT ![c] = d]
      /\ r.callerq = m.callerq /\ r.sendto = m.sendto /\ r.messbuf = m.messbuf
      /\ r.intBlocked = m.intBlocked
      /\ SameSignals(m, r)
  BY <1>1, <1>3, <1>5, <1>8, SleepsFor
<1>10. r.flags = [k.flags EXCEPT ![d] = @ \ {"RECEIVING"}, ![c] = {"RECEIVING"}]
  <2>1. m.flags[c] \cup {"RECEIVING"} = {"RECEIVING"}
    BY <1>6
  <2>2. r.flags = [m.flags EXCEPT ![c] = {"RECEIVING"}]
    BY <1>9, <2>1, Zenon
  <2> QED  BY <1>2, <2>2, Zenon
<1>11. Stable(r)
  BY SendRecKeeps DEF r
<1> QED
  BY <1>2, <1>9, <1>10, <1>11 DEF SameSignals, r

\* sys_call with BOTH to a process that does not wait
LEMMA CallQueued ==
  ASSUME NEW k, Stable(k), NEW c \in Procs, k.proc_ptr = c,
         NEW d \in Procs, c # d, d \notin Users, ~ Waits(k, d, c), ~ Refused(k, c, d)
  PROVE  LET r == SendRec(k, c, d)
         IN  /\ Stable(r)
             /\ r.flags = [k.flags EXCEPT ![c] = {"SENDING", "RECEIVING"}]
             /\ r.getfrom = [k.getfrom EXCEPT ![c] = d]
             /\ r.callerq = WithCaller(k, d, c)
             /\ r.sendto = [k.sendto EXCEPT ![c] = d]
             /\ r.messbuf = k.messbuf /\ r.intBlocked = k.intBlocked
             /\ SameSignals(k, r)
<1> DEFINE m == MiniSend(k, c, d)
           r == SendRec(k, c, d)
<1>1. /\ k \in Kernels /\ c \in Senders /\ d \notin {ANY, HARDWARE}
  BY KernelAssumption DEF Stable, Consistent, Senders
<1>2. /\ m.flags = [k.flags EXCEPT ![c] = {"SENDING"}]
      /\ m.callerq = [k.callerq EXCEPT ![d] = Append(@, c)]
      /\ m.sendto = [k.sendto EXCEPT ![c] = d]
      /\ m.messbuf = k.messbuf /\ m.getfrom = k.getfrom
      /\ m.intBlocked = k.intBlocked
      /\ SameSignals(k, m)
  BY Queued
<1>3. m \in Kernels /\ ReadyQueuesExact(m) /\ m.empty = k.empty
  BY MiniSendKeeps DEF Consistent
<1>4. r = MiniRec(m, c, d)
  BY DEF SendRec
<1> HIDE DEF m, r
<1>5. c \notin m.empty
  BY <1>3, RunningIsReady DEF Stable, Consistent
<1>6. m.flags[c] = {"SENDING"}
  BY <1>1, <1>2 DEF Kernels
<1>7. r = Sleep(m, c, d)
  BY <1>4, <1>6 DEF MiniRec
<1>8. /\ r.flags = [m.flags EXCEPT ![c] = @ \cup {"RECEIVING"}]
      /\ r.getfrom = [m.getfrom EXCEPT ![c] = d]
      /\ r.callerq = m.callerq /\ r.sendto = m.sendto /\ r.messbuf = m.messbuf
      /\ r.intBlocked = m.intBlocked
      /\ SameSignals(m, r)
  BY <1>1, <1>3, <1>5, <1>7, SleepsFor
<1>9. r.flags = [k.flags EXCEPT ![c] = {"SENDING", "RECEIVING"}]
  <2>1. m.flags[c] \cup {"RECEIVING"} = {"SENDING", "RECEIVING"}
    BY <1>6
  <2>2. r.flags = [m.flags EXCEPT ![c] = {"SENDING", "RECEIVING"}]
    BY <1>8, <2>1, Zenon
  <2>3. k.flags \in [Senders -> SUBSET Flags]
    BY <1>1 DEF Kernels
  <2> QED  BY <1>2, <2>2, <2>3
<1>10. Stable(r)
  BY SendRecKeeps DEF r
<1> QED
  BY <1>2, <1>8, <1>9, <1>10 DEF SameSignals, WithCaller, r

\* A program that takes the first of its senders gets that message, and the
\* sender no longer sends.
LEMMA Taken ==
  ASSUME NEW k, Stable(k), NEW c \in Procs, k.flags[c] = {}, k.callerq[c] # << >>
  PROVE  Takes(k, MiniRec(k, c, ANY), c, Head(k.callerq[c]))
<1> DEFINE s == Head(k.callerq[c])
           m == [source |-> s, body |-> k.messbuf[s].body]
           mb == [k.messbuf EXCEPT ![c] = m]
           q == Without(k.callerq[c], s)
           cq == [k.callerq EXCEPT ![c] = q]
           w == [k EXCEPT !.messbuf[c] = m, !.callerq[c] = q]
           r == MiniRec(k, c, ANY)
<1>1. /\ k \in Kernels /\ ReadyQueuesExact(k) /\ CallersExact(k) /\ KindsKept(k)
      /\ k.callerq[c] \in Seq(Senders) /\ QueuedOnce(k.callerq[c])
  BY DEF Stable, Consistent, Linked, CallersExact, Kernels
<1>2. s \in Members(k.callerq[c]) /\ s \in Senders
  BY <1>1, HeadIsMember
<1>3. /\ Sending(k, s) /\ k.sendto[s] = c /\ s \in Procs /\ s # HARDWARE /\ s # c
      /\ s \notin k.empty
  <2>1. Sending(k, s) /\ k.sendto[s] = c
    BY <1>1, <1>2 DEF CallersExact
  <2>2. s # HARDWARE /\ s # c /\ s \notin k.empty
    BY <1>1, <2>1 DEF KindsKept, Sending
  <2> QED  BY <1>2, <2>1, <2>2 DEF Senders
<1>4. FirstOffer(k, c, ANY) = s /\ Offers(k, c, ANY) # {}
  <2>1. /\ 1 \in DOMAIN k.callerq[c] /\ s = k.callerq[c][1]
        /\ \A i \in DOMAIN k.callerq[c] : i \in Nat /\ 1 <= i
    BY <1>1, EmptySeq
  <2>2. Offers(k, c, ANY) = DOMAIN k.callerq[c]
    BY DEF Offers
  <2> HIDE DEF s
  <2>3. \A i \in Offers(k, c, ANY) :
          (\A j \in Offers(k, c, ANY) : i <= j) <=> i = 1
    BY <2>1, <2>2
  <2> QED  BY <2>1, <2>2, <2>3 DEF FirstOffer
<1>5. r = Unblock(w, s, {"SENDING"})
  <2>1. r = TakeFrom(k, c, s)
    BY <1>4 DEF MiniRec
  <2> QED  BY <1>3, <2>1 DEF TakeFrom, Message
<1>6. m \in Messages
  <2>1. k.messbuf[s] \in Messages
    BY <1>1, <1>3 DEF Kernels
  <2> QED  BY <1>2, <2>1 DEF Messages
<1>7. w = [k EXCEPT !.messbuf = mb, !.callerq = cq] /\ q \in Seq(Senders)
  BY <1>1, WithoutKeepsOthers DEF Kernels
<1> HIDE DEF q, w, m, s
<1>8. mb \in [Procs -> Messages] /\ cq \in [Procs -> Seq(Senders)]
  BY <1>1, <1>6, <1>7 DEF Kernels
<1> HIDE DEF mb, cq
<1>9. /\ w \in Kernels /\ w.messbuf = mb /\ w.callerq = cq
      /\ w.flags = k.flags /\ w.rdy = k.rdy
      /\ w.getfrom = k.getfrom /\ w.sendto = k.sendto /\ w.intBlocked = k.intBlocked
      /\ SameSignals(k, w)
  BY <1>1, <1>7, <1>8 DEF Kernels, SameSignals
<1>10. ReadyQueuesExact(w)
  BY <1>1, <1>9 DEF ReadyQueuesExact, SameSignals
<1>11. r.flags = [k.flags EXCEPT ![s] = @ \ {"SENDING"}] /\ SameButFlags(w, r)
  <2>1. k.flags[s] # {} /\ s \notin w.empty
    BY <1>3, <1>9 DEF Sending, SameSignals
  <2> QED  BY <1>3, <1>5, <1>9, <1>10, <2>1, UnblockResult
<1> QED
  BY <1>3, <1>9, <1>11 DEF SameButFlags, SameSignals, Takes, r, cq, mb, q, m, s

\* Nobody is queued, and the interrupt of a task has come before.
LEMMA InterruptTaken ==
  ASSUME NEW k, k \in Kernels, NEW c \in Procs, k.flags[c] = {},
         NEW src \in {ANY, HARDWARE}, k.callerq[c] = << >>, c \in k.intBlocked
  PROVE  LET r == MiniRec(k, c, src)
         IN  /\ r.messbuf = [k.messbuf EXCEPT
                               ![c] = [source |-> HARDWARE, body |-> <<"HARD_INT">>]]
             /\ r.flags = k.flags /\ r.getfrom = k.getfrom /\ r.sendto = k.sendto
             /\ r.callerq = k.callerq /\ r.intBlocked = k.intBlocked \ {c}
             /\ r.proc_ptr = k.proc_ptr
             /\ SameSignals(k, r)
<1>1. Offers(k, c, src) = {}
  BY DEF Offers
<1>2. MiniRec(k, c, src) =
        [k EXCEPT !.messbuf[c] = [source |-> HARDWARE, body |-> <<"HARD_INT">>],
                  !.intBlocked = @ \ {c}]
  BY <1>1 DEF MiniRec
<1> QED
  BY <1>2 DEF Kernels, SameSignals

\* No message is there: the process sleeps.
LEMMA NothingTaken ==
  ASSUME NEW k, k \in Kernels, NEW c \in Procs,
         NEW src \in {ANY, HARDWARE}, k.callerq[c] = << >>, c \notin k.intBlocked
  PROVE  MiniRec(k, c, src) = Sleep(k, c, src)
<1>1. Offers(k, c, src) = {}
  BY DEF Offers
<1> QED
  BY <1>1 DEF MiniRec

\* inform tells it of a process that has some.
LEMMA InformTells ==
  ASSUME NEW k, k \in Kernels, ReadyQueuesExact(k),
         MM \notin k.empty, Receiving(k, MM), ~ Sending(k, MM), k.getfrom[MM] = ANY,
         Pending(k) # {}
  PROVE  \E u \in Users : TellsMM(k, Inform(k), u)
<1> DEFINE u    == FirstPending(k)
           body == <<"KSIG", u, k.pending[u]>>
           e    == [k.messbuf[SYSTASK] EXCEPT !.body = body]
           b    == [k.messbuf EXCEPT ![SYSTASK] = e]
           made == [k EXCEPT !.messbuf[SYSTASK].body = body, !.sig_procs = @ - 1]
           n    == k.sig_procs - 1
           m    == [source |-> HARDWARE, body |-> body]
           mb   == [b EXCEPT ![MM] = m]
           w    == [made EXCEPT !.messbuf = mb]
           v    == Unblock(w, MM, {"RECEIVING"})
           x    == [v EXCEPT !.pending[u] = {}, !.flags[u] = @ \ {"PENDING"}]
<1>1. /\ u \in Users /\ "PENDING" \in k.flags[u]
      /\ MM \in Procs /\ MM \in Senders /\ u \in Senders /\ MM # u
      /\ MM \notin Users /\ HARDWARE \notin Users /\ SYSTASK \in Procs /\ SYSTASK # MM
  BY FirstPendingFound, KernelAssumption DEF Procs, Senders
<1>2. body \in Bodies
  <2>1. k.pending[u] \in SUBSET Signals
    BY <1>1 DEF Kernels
  <2> QED  BY <1>1, <2>1 DEF Bodies
<1> HIDE DEF u, body
<1>3. e \in Messages /\ m \in Messages /\ e.body = body
  <2>1. k.messbuf[SYSTASK] \in [source : Senders, body : Bodies]
    BY <1>1 DEF Kernels, Messages
  <2> QED  BY <1>2, <2>1 DEF Messages, Senders
<1>4. b \in [Procs -> Messages] /\ b[SYSTASK] = e
  BY <1>1, <1>3 DEF Kernels
<1>5. mb \in [Procs -> Messages]
  BY <1>1, <1>3, <1>4
<1>6. made = [k EXCEPT !.messbuf = b, !.sig_procs = n]
  BY <1>1 DEF Kernels
<1> HIDE DEF e, m, made
<1>7. /\ made \in Kernels /\ made.messbuf = b
      /\ made.flags = k.flags /\ made.getfrom = k.getfrom /\ made.sendto = k.sendto
      /\ made.callerq = k.callerq /\ made.intBlocked = k.intBlocked
      /\ made.rdy = k.rdy /\ SameSignals(k, made)
  <2>1. n \in Int
    BY DEF Kernels
  <2> HIDE DEF b, n
  <2> QED  BY <1>4, <1>6, <2>1 DEF Kernels, SameSignals
<1> HIDE DEF b, mb
<1>8. MiniSend(made, HARDWARE, MM) = v
  <2>1. ~ Refused(made, HARDWARE, MM)
    BY <1>1, <1>7 DEF Refused, Locked, Sending, SameSignals
  <2>2. Waits(made, MM, HARDWARE)
    BY <1>7 DEF Waits, Receiving, Sending
  <2>3. Message(made, HARDWARE) = body
    BY <1>3, <1>4, <1>7 DEF Message
  <2>4. [made EXCEPT !.messbuf[MM] = [source |-> HARDWARE, body |-> body]] = w
    BY <1>7 DEF mb, m, Kernels
  <2> HIDE DEF w
  <2> QED  BY <2>1, <2>2, <2>3, <2>4 DEF MiniSend
<1>9. Inform(k) = PickProc(x)
  BY <1>1, <1>8 DEF Inform, u, body, made
<1>10. /\ w \in Kernels /\ w.messbuf = mb
       /\ w.flags = k.flags /\ w.getfrom = k.getfrom /\ w.sendto = k.sendto
       /\ w.callerq = k.callerq /\ w.intBlocked = k.intBlocked
       /\ w.rdy = k.rdy /\ SameSignals(k, w)
  BY <1>5, <1>7 DEF Kernels, SameSignals
<1> HIDE DEF w
<1>11. ReadyQueuesExact(w) /\ MM \notin w.empty /\ w.flags[MM] # {}
  BY <1>10 DEF ReadyQueuesExact, Receiving, SameSignals
<1>12. /\ v \in Kernels
       /\ v.flags = [k.flags EXCEPT ![MM] = @ \ {"RECEIVING"}] /\ SameButFlags(w, v)
       /\ v.rdy["TASK_Q"] = k.rdy["TASK_Q"]
  <2>1. "TASK_Q" \in Queues /\ "TASK_Q" # QueueOf(MM)
    BY <1>1, QueueOfKind, KernelAssumption DEF Queues
  <2> QED  BY <1>1, <1>10, <1>11, <2>1, UnblockResult
<1> HIDE DEF v
<1>13. x = [v EXCEPT !.pending = [v.pending EXCEPT ![u] = {}],
                     !.flags = [v.flags EXCEPT ![u] = @ \ {"PENDING"}]]
  BY <1>12 DEF Kernels
<1> HIDE DEF x
<1>14. x \in Kernels
  <2>1. [v.flags EXCEPT ![u] = @ \ {"PENDING"}] \in [Senders -> SUBSET Flags]
    BY <1>1, <1>12 DEF Kernels
  <2>2. [v.pending EXCEPT ![u] = {}] \in [Users -> SUBSET Signals]
    BY <1>1, <1>12 DEF Kernels
  <2> QED  BY <1>12, <1>13, <2>1, <2>2 DEF Kernels
<1>15. /\ x.flags = [v.flags EXCEPT ![u] = @ \ {"PENDING"}]
       /\ x.pending = [v.pending EXCEPT ![u] = {}]
       /\ x.messbuf = v.messbuf
       /\ x.getfrom = v.getfrom /\ x.sendto = v.sendto /\ x.callerq = v.callerq
       /\ x.intBlocked = v.intBlocked /\ x.empty = v.empty /\ x.rdy = v.rdy
       /\ x.pendcount = v.pendcount
  BY <1>12, <1>13 DEF Kernels
<1>16. SameTable(x, PickProc(x)) /\ PickProc(x).rdy = x.rdy
  BY <1>14, PickProcResult
<1>17. x.flags = [k.flags EXCEPT ![MM] = @ \ {"RECEIVING"}, ![u] = @ \ {"PENDING"}]
  BY <1>1, <1>12, <1>15 DEF Kernels
<1>18. mb = [k.messbuf EXCEPT ![SYSTASK] = [k.messbuf[SYSTASK] EXCEPT !.body = body],
                              ![MM] = [source |-> HARDWARE, body |-> body]]
  BY Zenon DEF mb, b, e, m
<1> HIDE DEF w, v, x
<1>19. Inform(k).messbuf = mb
  BY <1>9, <1>10, <1>12, <1>15, <1>16 DEF SameTable, SameButFlags
<1>20. TellsMM(k, Inform(k), u)
  BY <1>1, <1>9, <1>10, <1>12, <1>15, <1>16, <1>17, <1>18, <1>19
  DEF SameTable, SameButFlags, SameSignals, body, TellsMM
<1> QED
  BY <1>1, <1>20

\* A user process that is blocked leaves the queue of tasks as it is.
LEMMA UnreadyKeepsTasks ==
  ASSUME NEW k, k \in Kernels, NEW u \in Users
  PROVE  Unready(k, u).rdy["TASK_Q"] = k.rdy["TASK_Q"]
<1> DEFINE rest == [k EXCEPT !.rdy[QueueOf(u)] = Without(k.rdy[QueueOf(u)], u)]
<1>1. QueueOf(u) = "USER_Q" /\ "USER_Q" \in Queues /\ "TASK_Q" \in Queues
  BY QueueOfKind DEF Procs, Queues
<1>2. rest.rdy["TASK_Q"] = k.rdy["TASK_Q"]
  BY <1>1 DEF Kernels
<1>3. PickProc(rest).rdy = rest.rdy
  BY DEF PickProc, Kernels
<1>4. Unready(k, u) \in {PickProc(rest), rest}
  BY DEF Unready
<1> HIDE DEF rest
<1> QED
  BY <1>2, <1>3, <1>4

\* A user that is blocked leaves the queue of the tasks as it is.
LEMMA BlockKeepsTasks ==
  ASSUME NEW k, k \in Kernels, NEW u \in Users, ReadyQueuesExact(k), NEW f
  PROVE  Block(k, u, f).rdy["TASK_Q"] = k.rdy["TASK_Q"]
<1> DEFINE s == IF k.flags[u] = {} THEN Unready(k, u) ELSE k
<1>1. u \in Procs /\ WellQueued(k)
  BY ReadyByProcess DEF Procs
<1>2. s \in Kernels /\ s.rdy["TASK_Q"] = k.rdy["TASK_Q"]
  BY <1>1, UnreadyResult, UnreadyKeepsTasks
<1>3. Block(k, u, f) = [s EXCEPT !.flags[u] = @ \cup f]
  BY DEF Block
<1> HIDE DEF s
<1> QED
  BY <1>2, <1>3 DEF Kernels

\* The task that runs goes on as long as the queue of tasks does not change.
LEMMA TaskGoesOn ==
  ASSUME NEW k, Stable(k), NEW r, Stable(r), NEW t \in Tasks, k.proc_ptr = t,
         r.rdy["TASK_Q"] = k.rdy["TASK_Q"]
  PROVE  r.proc_ptr = t
BY TaskRuns DEF Stable, RunsFirst, FirstReady

\* cause_sig notes a new signal, and may tell MM of one.
LEMMA CauseSigNotes ==
  ASSUME NEW k, Stable(k), NEW u \in Users, u \notin k.empty, NEW sig \in Signals,
         sig \notin k.pending[u]
  PROVE  LET r == CauseSig(k, u, sig)
         IN  \/ NotesSignal(k, r, u, sig)
             \/ /\ Receiving(k, MM) /\ k.getfrom[MM] = ANY
                /\ \E n \in Kernels, v \in Users : NotesSignal(k, n, u, sig) /\ TellsMM(n, r, v)
<1> DEFINE pg == [k.pending EXCEPT ![u] = @ \cup {sig}]
           pc == [k.pendcount EXCEPT ![u] = @ + 1]
           f  == {"PENDING", "SIG_PENDING"}
           noted == [k EXCEPT !.pending[u] = @ \cup {sig}, !.pendcount[u] = @ + 1]
           b == Block(noted, u, f)
           raised == [b EXCEPT !.sig_procs = @ + 1]
           r == CauseSig(k, u, sig)
<1>1. /\ k \in Kernels /\ ReadyQueuesExact(k) /\ Counted(k) /\ KindsKept(k)
      /\ CallsServers(k)
      /\ u \in Procs /\ u \in Senders /\ u # MM /\ MM \in Procs
      /\ MM \in Senders /\ MM \notin Users
  BY KernelAssumption DEF Stable, Consistent, Linked, Procs, Senders
<1>2. /\ r = IF "PENDING" \in k.flags[u] THEN noted
             ELSE IF "RECEIVING" \in k.flags[MM] /\ k.getfrom[MM] = ANY
             THEN Inform(raised) ELSE raised
      /\ noted = [k EXCEPT !.pending = pg, !.pendcount = pc]
  BY <1>1 DEF CauseSig, Kernels
<1> HIDE DEF noted, r
<1>3. pg \in [Users -> SUBSET Signals] /\ pc \in [Users -> Nat]
  BY <1>1 DEF Kernels
<1> HIDE DEF pg, pc
<1>4. /\ noted \in Kernels /\ noted.pending = pg /\ noted.pendcount = pc
      /\ noted.flags = k.flags /\ noted.getfrom = k.getfrom
      /\ noted.sendto = k.sendto /\ noted.callerq = k.callerq
      /\ noted.intBlocked = k.intBlocked /\ noted.empty = k.empty
      /\ noted.rdy = k.rdy /\ noted.messbuf = k.messbuf
  BY <1>1, <1>2, <1>3 DEF Kernels
<1>5. ReadyQueuesExact(noted)
  BY <1>1, <1>4 DEF ReadyQueuesExact
<1>6. ASSUME "PENDING" \in k.flags[u]
      PROVE  NotesSignal(k, r, u, sig)
  <2>1. "SIG_PENDING" \in k.flags[u]
    BY <1>1, <1>6 DEF Counted
  <2>2. k.flags[u] \cup {"PENDING", "SIG_PENDING"} = k.flags[u]
    BY <1>6, <2>1
  <2>3. k.flags = [k.flags EXCEPT ![u] = @ \cup {"PENDING", "SIG_PENDING"}]
    BY <1>1, <2>2 DEF Kernels
  <2> QED  BY <1>2, <1>4, <1>6, <2>3 DEF NotesSignal, pg, pc
<1>7. f \in SUBSET Flags /\ f # {}
  BY DEF Flags
<1> HIDE DEF f
<1>8. /\ b \in Kernels /\ SameButFlags(noted, b) /\ ReadyQueuesExact(b)
      /\ b.flags = [k.flags EXCEPT ![u] = @ \cup f]
      /\ b.rdy["TASK_Q"] = k.rdy["TASK_Q"]
  BY <1>1, <1>4, <1>5, <1>7, BlockResult, BlockKeepsTasks
<1> HIDE DEF b
<1>9. /\ raised \in Kernels /\ raised.flags = b.flags /\ raised.pending = pg
      /\ raised.pendcount = pc /\ raised.getfrom = k.getfrom
      /\ raised.sendto = k.sendto /\ raised.callerq = k.callerq
      /\ raised.intBlocked = k.intBlocked /\ raised.empty = k.empty
      /\ raised.rdy = b.rdy /\ raised.messbuf = k.messbuf
  <2>1. b.sig_procs + 1 \in Int
    BY <1>8 DEF Kernels
  <2>2. raised = [b EXCEPT !.sig_procs = b.sig_procs + 1]
    OBVIOUS
  <2> HIDE DEF raised
  <2> DEFINE n == b.sig_procs + 1
  <2> HIDE DEF n
  <2>3. n \in Int /\ raised = [b EXCEPT !.sig_procs = n]
    BY <2>1, <2>2 DEF n
  <2> QED  BY <1>4, <1>8, <2>3 DEF Kernels, SameButFlags
<1> HIDE DEF raised
<1>10. NotesSignal(k, raised, u, sig)
  BY <1>8, <1>9 DEF NotesSignal, pg, pc, f
<1>11. ASSUME Receiving(k, MM), k.getfrom[MM] = ANY
       PROVE  \E v \in Users : TellsMM(raised, Inform(raised), v)
  <2>1. raised.flags[MM] = k.flags[MM] /\ "PENDING" \in raised.flags[u]
    BY <1>1, <1>8, <1>9 DEF Kernels, f
  <2>2. ~ Sending(k, MM)
    <3>1. k.sendto[MM] \in Procs
      BY <1>1 DEF Kernels
    <3> QED  BY <1>1, <1>11, <3>1, KernelAssumption DEF CallsServers
  <2>3. MM \notin raised.empty
    BY <1>1, <1>9 DEF Kernels
  <2>4. ReadyQueuesExact(raised)
    BY <1>4, <1>8, <1>9 DEF ReadyQueuesExact, SameButFlags
  <2>5. Receiving(raised, MM) /\ ~ Sending(raised, MM) /\ raised.getfrom[MM] = ANY
    BY <1>9, <1>11, <2>1, <2>2 DEF Receiving, Sending
  <2>6. Pending(raised) # {}
    BY <2>1 DEF Pending
  <2> QED  BY <1>9, <2>3, <2>4, <2>5, <2>6, InformTells
<1> QED
  BY <1>2, <1>6, <1>9, <1>10, <1>11 DEF Receiving, r

\* interrupt: the task has the message, if it waits for one; a task that runs
\* goes on.
LEMMA InterruptDelivers ==
  ASSUME NEW k, Stable(k), NEW t \in Tasks
  PROVE  LET r == Interrupt(k, t)
         IN  /\ Stable(r)
             /\ \A p \in Tasks : k.proc_ptr = p => r.proc_ptr = p
             /\ r.getfrom = k.getfrom /\ r.sendto = k.sendto
             /\ r.callerq = k.callerq /\ SameSignals(k, r)
             /\ r.intBlocked \subseteq k.intBlocked \cup {t}
             /\ \/ /\ Waits(k, t, HARDWARE)
                   /\ r.flags = [k.flags EXCEPT ![t] = @ \ {"RECEIVING"}]
                   /\ r.messbuf = [k.messbuf EXCEPT
                                     ![t] = [source |-> HARDWARE, body |-> <<"HARD_INT">>]]
                \/ r.flags = k.flags /\ r.messbuf = k.messbuf
<1> DEFINE m == [source |-> HARDWARE, body |-> <<"HARD_INT">>]
           w == [k EXCEPT !.messbuf = [k.messbuf EXCEPT ![t] = m],
                          !.flags = [k.flags EXCEPT ![t] = @ \ {"RECEIVING"}],
                          !.intBlocked = @ \ {t}]
           r == Interrupt(k, t)
<1>1. k \in Kernels /\ Stable(r)
  BY InterruptKeeps DEF Stable, Consistent
<1>2. CASE ~ Waits(k, t, HARDWARE)
  <2>1. r = [k EXCEPT !.intBlocked = @ \cup {t}]
    BY <1>2 DEF Interrupt
  <2> QED  BY <1>1, <2>1 DEF Kernels, SameSignals
<1>3. CASE Waits(k, t, HARDWARE)
  <2>1. r = Ready(w, t)
    BY <1>1, <1>3 DEF Interrupt, Kernels
  <2>2. /\ w.messbuf = [k.messbuf EXCEPT ![t] = m]
        /\ w.flags = [k.flags EXCEPT ![t] = @ \ {"RECEIVING"}]
        /\ w.intBlocked = k.intBlocked \ {t}
        /\ w.getfrom = k.getfrom /\ w.sendto = k.sendto
        /\ w.callerq = k.callerq /\ SameSignals(k, w)
        /\ w.rdy = k.rdy /\ w.proc_ptr = k.proc_ptr
        /\ DOMAIN w = DOMAIN k
    BY <1>1 DEF Kernels, SameSignals
  <2>3. DOMAIN k = {"flags", "getfrom", "sendto", "callerq", "messbuf", "intBlocked",
                    "empty", "rdy", "proc_ptr", "pending", "pendcount", "sig_procs"}
    BY <1>1 DEF Kernels
  <2> HIDE DEF w, m
  <2>4. /\ r.messbuf = w.messbuf /\ r.flags = w.flags /\ r.intBlocked = w.intBlocked
        /\ r.getfrom = w.getfrom /\ r.sendto = w.sendto
        /\ r.callerq = w.callerq /\ SameSignals(w, r)
        /\ w.rdy["TASK_Q"] # << >> => r.proc_ptr = w.proc_ptr
    BY <2>1, <2>2, <2>3 DEF Ready, SameSignals
  <2>5. \A p \in Tasks : k.proc_ptr = p => k.rdy["TASK_Q"] # << >>
    BY TaskRuns
  <2> HIDE DEF r
  <2>6. \A p \in Tasks : k.proc_ptr = p => r.proc_ptr = p
    BY <2>2, <2>4, <2>5
  <2> QED  BY <1>1, <1>3, <2>2, <2>4, <2>6 DEF SameSignals, r, m
<1> QED
  BY <1>2, <1>3

\* A flag that is taken from a user changes nothing else that programs see.
LEMMA UnblockReleases ==
  ASSUME NEW k, k \in Kernels, ReadyQueuesExact(k), NEW u \in Users, u \notin k.empty,
         k.flags[u] # {}, NEW f
  PROVE  LET r == Unblock(k, u, f)
         IN  /\ ReleaseOf(k, r, u) /\ r.flags[u] = k.flags[u] \ f
             /\ r.pendcount = k.pendcount
<1> DEFINE r == Unblock(k, u, f)
<1>1. /\ u \in Procs /\ u \in Senders /\ "TASK_Q" \in Queues /\ QueueOf(u) # "TASK_Q"
      /\ k.flags \in [Senders -> SUBSET Flags]
  BY QueueOfKind, KernelAssumption DEF Procs, Senders, Queues, Kernels
<1>2. /\ r.flags = [k.flags EXCEPT ![u] = @ \ f] /\ SameButFlags(k, r)
      /\ r.rdy["TASK_Q"] = k.rdy["TASK_Q"]
  BY <1>1, UnblockResult
<1> HIDE DEF r
<1> QED
  BY <1>1, <1>2 DEF SameButFlags, ReleaseOf, r

\* do_newmap
LEMMA NewmapReleases ==
  ASSUME NEW k, Stable(k), NEW u \in Users, u \notin k.empty
  PROVE  LET r == DoNewmap(k, u)
         IN  /\ ReleaseOf(k, r, u) /\ r.flags[u] = k.flags[u] \ {"NO_MAP"}
             /\ r.pendcount = k.pendcount
<1>1. k \in Kernels /\ ReadyQueuesExact(k)
  BY DEF Stable, Consistent
<1>2. CASE k.flags[u] = {}
  BY <1>2 DEF DoNewmap, ReleaseOf
<1>3. CASE k.flags[u] # {}
  BY <1>1, <1>3, UnblockReleases DEF DoNewmap
<1> QED
  BY <1>2, <1>3

\* do_exec without T_EXEC
LEMMA ExecReleases ==
  ASSUME NEW k, Stable(k), NEW u \in Users, u \notin k.empty, Receiving(k, u)
  PROVE  LET r == DoExec(k, u, FALSE)
         IN  /\ ReleaseOf(k, r, u) /\ r.flags[u] = k.flags[u] \ {"RECEIVING"}
             /\ r.pendcount = k.pendcount
<1>1. k \in Kernels /\ ReadyQueuesExact(k) /\ k.flags[u] # {}
  BY DEF Stable, Consistent, Receiving
<1> QED
  BY <1>1, UnblockReleases DEF DoExec

\* do_endsig of a signal that MM knows
LEMMA EndsigReleases ==
  ASSUME NEW k, Stable(k), NEW u \in Users, u \notin k.empty, k.pendcount[u] > 0
  PROVE  LET r == DoEndsig(k, u)
         IN  /\ ReleaseOf(k, r, u)
             /\ r.flags[u] \in {k.flags[u], k.flags[u] \ {"SIG_PENDING"}}
             /\ r.pendcount = [k.pendcount EXCEPT ![u] = @ - 1]
<1> DEFINE pc == [k.pendcount EXCEPT ![u] = @ - 1]
           w  == [k EXCEPT !.pendcount[u] = @ - 1]
           r  == DoEndsig(k, u)
<1>1. k \in Kernels /\ ReadyQueuesExact(k) /\ Counted(k) /\ k.pendcount[u] \in Nat
  BY DEF Stable, Consistent, Kernels
<1>2. pc \in [Users -> Nat] /\ w = [k EXCEPT !.pendcount = pc]
  BY <1>1 DEF Kernels
<1>3. r = IF k.pendcount[u] = 1 THEN Unblock(w, u, {"SIG_PENDING"}) ELSE w
  BY <1>1 DEF DoEndsig
<1> HIDE DEF pc, w
<1>4. /\ w \in Kernels /\ w.pendcount = pc /\ w.flags = k.flags /\ w.rdy = k.rdy
      /\ w.getfrom = k.getfrom /\ w.sendto = k.sendto /\ w.callerq = k.callerq
      /\ w.intBlocked = k.intBlocked /\ w.empty = k.empty /\ w.messbuf = k.messbuf
      /\ w.pending = k.pending
  BY <1>1, <1>2 DEF Kernels
<1>5. ReadyQueuesExact(w) /\ w.flags[u] # {}
  BY <1>1, <1>4 DEF ReadyQueuesExact, Counted
<1> HIDE DEF r
<1>6. CASE k.pendcount[u] = 1
  <2>1. /\ ReleaseOf(w, r, u) /\ r.flags[u] = w.flags[u] \ {"SIG_PENDING"}
        /\ r.pendcount = w.pendcount
    BY <1>3, <1>4, <1>5, <1>6, UnblockReleases
  <2> QED  BY <1>4, <2>1 DEF ReleaseOf, r, pc
<1>7. CASE k.pendcount[u] # 1
  BY <1>3, <1>4, <1>7 DEF ReleaseOf, r, pc
<1> QED
  BY <1>6, <1>7

\* do_xit: the slot of u is free, and nobody has u in its queue.
LEMMA XitFrees ==
  ASSUME NEW k, Stable(k), NEW u \in Users, u \notin k.empty
  PROVE  LET r == DoXit(k, u)
         IN  /\ r.flags = [k.flags EXCEPT ![u] = {}]
             /\ r.empty = k.empty \cup {u}
             /\ r.messbuf = k.messbuf /\ r.getfrom = k.getfrom /\ r.sendto = k.sendto
             /\ r.intBlocked = k.intBlocked
             /\ r.pending = [k.pending EXCEPT ![u] = {}]
             /\ r.pendcount = [k.pendcount EXCEPT ![u] = 0]
             /\ r.rdy["TASK_Q"] = k.rdy["TASK_Q"]
<1> DEFINE g  == IF k.flags[u] = {} THEN Unready(k, u) ELSE k
           cq == IF "SENDING" \in k.flags[u]
                 THEN [p \in Procs |-> Without(g.callerq[p], u)] ELSE g.callerq
           n  == IF "PENDING" \in k.flags[u] THEN g.sig_procs - 1 ELSE g.sig_procs
           r  == DoXit(k, u)
<1>1. k \in Kernels /\ WellQueued(k) /\ u \in Procs
  BY ReadyByProcess DEF Stable, Consistent, Procs
<1>2. g \in Kernels /\ SameTable(k, g) /\ g.rdy["TASK_Q"] = k.rdy["TASK_Q"]
  <2>1. CASE k.flags[u] = {}
    BY <1>1, <2>1, UnreadyResult, UnreadyKeepsTasks
  <2>2. CASE k.flags[u] # {}
    BY <1>1, <2>2 DEF SameTable, SameButFlags
  <2> QED  BY <2>1, <2>2
<1>3. /\ g.flags = k.flags
      /\ r = [g EXCEPT !.callerq = cq, !.sig_procs = n, !.pending[u] = {},
                       !.pendcount[u] = 0, !.flags[u] = {}, !.empty = @ \cup {u}]
  BY <1>2 DEF SameTable, DoXit
<1> HIDE DEF g, cq, n, r
<1>4. /\ r.flags = [g.flags EXCEPT ![u] = {}] /\ r.empty = g.empty \cup {u}
      /\ r.messbuf = g.messbuf /\ r.getfrom = g.getfrom /\ r.sendto = g.sendto
      /\ r.intBlocked = g.intBlocked
      /\ r.pending = [g.pending EXCEPT ![u] = {}]
      /\ r.pendcount = [g.pendcount EXCEPT ![u] = 0]
      /\ r.rdy = g.rdy
  BY <1>2, <1>3 DEF Kernels
<1> QED
  BY <1>2, <1>4 DEF SameTable, SameButFlags, r

\* do_fork: c is a copy of p without its signals.
LEMMA ForkCopies ==
  ASSUME NEW k, Stable(k), NEW p \in Users, NEW c \in Users
  PROVE  Copied(k, DoFork(k, p, c), p, c)
<1>1. k \in Kernels /\ c \in Procs /\ c \in Senders
  BY DEF Stable, Consistent, Procs, Senders
<1> DEFINE r == DoFork(k, p, c)
<1>2. /\ r.flags = [k.flags EXCEPT
                      ![c] = (k.flags[p] \ {"PENDING", "SIG_PENDING", "P_STOP"}) \cup {"NO_MAP"}]
      /\ r.messbuf = [k.messbuf EXCEPT ![c] = k.messbuf[p]]
      /\ r.getfrom = [k.getfrom EXCEPT ![c] = k.getfrom[p]]
      /\ r.sendto = [k.sendto EXCEPT ![c] = k.sendto[p]]
      /\ r.callerq = [k.callerq EXCEPT ![c] = k.callerq[p]]
      /\ r.intBlocked = k.intBlocked /\ r.empty = k.empty \ {c}
      /\ r.pending = [k.pending EXCEPT ![c] = {}]
      /\ r.pendcount = [k.pendcount EXCEPT ![c] = 0]
      /\ r.rdy = k.rdy
  BY <1>1 DEF DoFork, Kernels
<1> HIDE DEF r
<1>3. Copied(k, r, p, c)
  BY <1>1, <1>2 DEF Copied, Kernels
<1> QED
  BY <1>3, Zenon DEF r

-----------------------------------------------------------------------------
(* The programs, and what they still do *)

\* The five programs are different, and none is a user or a device.
LEMMA ProgramKinds ==
  ASSUME Closed
  PROVE  /\ Programs = {SYSTASK, CLOCK, DISK, MM, FS}
         /\ Tasks = {SYSTASK, CLOCK, DISK} /\ Servers = {MM, FS}
         /\ SYSTASK # CLOCK /\ SYSTASK # DISK /\ CLOCK # DISK
         /\ MM # FS /\ MM \notin Tasks /\ FS \notin Tasks
         /\ \A u \in Users : u \notin Programs /\ u \in Procs
         /\ \A p \in Programs : p \in Procs
         /\ \A p \in Procs : p \notin {ANY, HARDWARE} /\ p \in Senders
         /\ HARDWARE # ANY /\ HARDWARE \in Senders
<1>1. \A a, b : Cardinality({a, b}) # 3
  <2> SUFFICES ASSUME NEW a, NEW b PROVE Cardinality({a, b}) # 3
    OBVIOUS
  <2>1. IsFiniteSet({a}) /\ Cardinality({a}) = 1
    BY FS_Singleton
  <2>2. {a, b} = {a} \cup {b}
    OBVIOUS
  <2> QED  BY <2>1, <2>2, FS_AddElement
<1>2. SYSTASK # CLOCK
  <2>1. SYSTASK = CLOCK => {SYSTASK, CLOCK, DISK} = {CLOCK, DISK}
    OBVIOUS
  <2> QED  BY <1>1, <2>1 DEF Closed
<1>3. SYSTASK # DISK
  <2>1. SYSTASK = DISK => {SYSTASK, CLOCK, DISK} = {CLOCK, DISK}
    OBVIOUS
  <2> QED  BY <1>1, <2>1 DEF Closed
<1>4. CLOCK # DISK
  <2>1. CLOCK = DISK => {SYSTASK, CLOCK, DISK} = {SYSTASK, DISK}
    OBVIOUS
  <2> QED  BY <1>1, <2>1 DEF Closed
<1>5. Programs = {SYSTASK, CLOCK, DISK, MM, FS}
  BY DEF Closed, Programs
<1>6. /\ MM # FS /\ MM \notin Tasks /\ FS \notin Tasks
      /\ \A u \in Users : u \notin Programs /\ u \in Procs
      /\ \A p \in Programs : p \in Procs
  BY KernelAssumption DEF Closed, Programs, Procs
<1>7. /\ \A p \in Procs : p \notin {ANY, HARDWARE} /\ p \in Senders
      /\ HARDWARE # ANY /\ HARDWARE \in Senders
  BY KernelAssumption DEF Senders
<1>8. Tasks = {SYSTASK, CLOCK, DISK} /\ Servers = {MM, FS}
  BY DEF Closed
<1> QED
  BY <1>2, <1>3, <1>4, <1>5, <1>6, <1>7, <1>8

\* What a server still does, entry by entry
LEMMA TodoEntries ==
  ASSUME NEW k, NEW s \in [Programs -> Seq(Entries)], NEW h, NEW p \in Programs
  PROVE  LET t == Todo(k, s, h, p)
         IN  /\ Len(s[p]) \in Nat /\ Len(t) \in Nat
             /\ s[p] = << >> <=> Len(s[p]) = 0
             /\ Undone(k, h, p) =>
                  /\ t = <<Request(k.getfrom[p], k.messbuf[p].body)>> \o s[p]
                  /\ t[1] = Request(k.getfrom[p], k.messbuf[p].body)
                  /\ Len(t) = Len(s[p]) + 1
                  /\ \A i \in 1..Len(s[p]) : t[i + 1] = s[p][i]
             /\ ~ Undone(k, h, p) => t = s[p]
<1>1. s[p] \in Seq(Entries)
  OBVIOUS
<1>2. Len(s[p]) \in Nat /\ (s[p] = << >> <=> Len(s[p]) = 0)
  BY <1>1, EmptySeq, LenProperties
<1> QED
  BY <1>1, <1>2, Prepended DEF Todo

-----------------------------------------------------------------------------
(* Steps that leave the job of a server alone *)

\* MM is told what it was told, when it still knows of as many signals.
LEMMA ToldKept ==
  ASSUME NEW k, NEW r, KnowledgeKept(k, r), r.empty = k.empty
  PROVE  /\ \A u : \A n \in Int : Told(k, u, n) => Told(r, u, n)
         /\ NoneTold(k) => NoneTold(r)
<1>1. \A u : \A n \in Int : Told(k, u, n) => Told(r, u, n)
  <2> SUFFICES ASSUME NEW u, NEW n \in Int, Told(k, u, n), NEW v \in Users \ k.empty
               PROVE  Knows(r, v, IF v = u THEN n ELSE 0)
    BY DEF Told
  <2>1. (IF v = u THEN n ELSE 0) \in Int
    OBVIOUS
  <2>2. Knows(k, v, IF v = u THEN n ELSE 0)
    BY DEF Told
  <2> QED  BY <2>1, <2>2 DEF KnowledgeKept
<1> QED
  BY <1>1 DEF NoneTold, KnowledgeKept

\* MM is served as before, when what its job is about stays.
LEMMA MMKept ==
  ASSUME NEW k, NEW s \in [Programs -> Seq(Entries)], NEW h, NEW r, NEW s2, NEW h2,
         MM \in Programs, MMServes(k, s, h), MMFrame(k, s, h, r, s2, h2)
  PROVE  MMServes(r, s2, h2)
<1> DEFINE t == Todo(k, s, h, MM)
<1>0. r.empty = k.empty /\ KnowledgeKept(k, r)
  BY DEF MMFrame
<1>1. /\ \A u : \A n \in Int : Told(k, u, n) => Told(r, u, n)
      /\ NoneTold(k) => NoneTold(r)
  BY <1>0, ToldKept
<1>2. \A u \in Users \ k.empty :
        /\ AwaitsAlive(k, u, MM) => AwaitsAlive(r, u, MM)
        /\ Stopped(k, u) => Stopped(r, u)
  BY DEF MMFrame, AwaitsAlive, Stopped
<1>3. ASSUME Heard(k, h, MM), MMMessage(k)
      PROVE  MMMessage(r)
  <2>1. r.messbuf[MM] = k.messbuf[MM]
    BY <1>3 DEF MMFrame
  <2>2. ASSUME NEW u \in Users,
               k.messbuf[MM].source = u, <<MM, k.messbuf[MM].body>> \in UserCalls,
               AwaitsAlive(k, u, MM), NoneTold(k)
        PROVE  MMMessage(r)
    <3>1. AwaitsAlive(r, u, MM)
      BY <1>2, <2>2 DEF AwaitsAlive
    <3> QED  BY <1>1, <2>1, <2>2, <3>1 DEF MMMessage
  <2>3. ASSUME NEW u \in Users \ k.empty, NEW sigs \in SUBSET Signals,
               k.messbuf[MM].source = HARDWARE,
               k.messbuf[MM].body = <<"KSIG", u, sigs>>,
               "SIG_PENDING" \in k.flags[u], Told(k, u, Cardinality(sigs))
        PROVE  MMMessage(r)
    <3>1. Cardinality(sigs) \in Int
      BY KernelAssumption, FS_Subset, FS_CardinalityType
    <3>2. Told(r, u, Cardinality(sigs))
      BY <1>1, <2>3, <3>1
    <3>3. "SIG_PENDING" \in r.flags[u]
      BY <2>3 DEF MMFrame
    <3> QED  BY <1>0, <2>1, <2>3, <3>2, <3>3 DEF MMMessage
  <2> QED  BY <1>3, <2>2, <2>3 DEF MMMessage
<1>4. ASSUME MMJob(k, h, t)
      PROVE  MMJob(r, h2, t)
  <2>1. Len(t) \in Nat
    BY TodoEntries
  <2> HIDE DEF t
  <2>2. ASSUME NEW u \in Users, NEW m \in 0..2, SignalJob(k, h, t, u, m)
        PROVE  SignalJob(r, h2, t, u, m)
    <3>1. Told(r, u, Len(t) - m)
      <4>1. Len(t) - m \in Int
        BY <2>1
      <4> QED  BY <1>1, <2>2, <4>1 DEF SignalJob
    <3>2. m > 0 => u \notin r.empty /\ Stopped(r, u)
      BY <1>0, <1>2, <2>2 DEF SignalJob
    <3>3. m = 1 => FarFromFS(r, u)
      BY <2>2 DEF SignalJob, MMFrame
    <3>4. m = 2 /\ HeardFrom(r, h2, FS, MM) => FarFromFS(r, u)
      <4>1. m = 2 => u \in Users \ k.empty /\ Stopped(k, u)
        BY <2>2 DEF SignalJob
      <4>2. m = 2 /\ HeardFrom(k, h, FS, MM) => FarFromFS(k, u)
        BY <2>2 DEF SignalJob
      <4>3. m = 2 /\ Sending(k, MM) => Before(k.callerq[FS], u, MM)
        BY <2>2 DEF SignalJob
      <4> QED  BY <4>1, <4>2, <4>3 DEF MMFrame, InOrder
    <3>5. m = 2 /\ Sending(r, MM) => Before(r.callerq[FS], u, MM)
      <4>1. m = 2 => u \in Users \ k.empty /\ Stopped(k, u)
        BY <2>2 DEF SignalJob
      <4>2. m = 2 /\ Sending(k, MM) => Before(k.callerq[FS], u, MM)
        BY <2>2 DEF SignalJob
      <4> QED  BY <4>1, <4>2 DEF MMFrame, InOrder
    <3> QED  BY <2>2, <3>1, <3>2, <3>3, <3>4, <3>5 DEF SignalJob
  <2>3. ASSUME NEW u \in Users, NoneTold(k), AwaitsAlive(k, u, MM),
               CallJob(k, t, u) \/ \E c \in Users \ {u} : ForkJob(k, t, u, c)
        PROVE  /\ NoneTold(r) /\ AwaitsAlive(r, u, MM)
               /\ CallJob(r, t, u) \/ \E c \in Users \ {u} : ForkJob(r, t, u, c)
    <3>1. NoneTold(r) /\ AwaitsAlive(r, u, MM)
      BY <1>1, <1>2, <2>3 DEF AwaitsAlive
    <3>2. CallJob(k, t, u) => CallJob(r, t, u)
      BY DEF CallJob
    <3>3. \A c \in Users : ForkJob(k, t, u, c) => ForkJob(r, t, u, c)
      BY <1>0, <1>2 DEF ForkJob, AwaitsAlive
    <3> QED  BY <2>3, <3>1, <3>2, <3>3
  <2> QED  BY <1>4, <2>2, <2>3, Zenon DEF MMJob
<1>5. Heard(r, h2, MM) <=> Heard(k, h, MM)
  BY DEF MMFrame
<1>6. ~ Heard(k, h, MM) => Todo(r, s2, h2, MM) = t
  BY DEF MMFrame
<1> HIDE DEF t
<1>7. CASE Heard(k, h, MM)
  BY <1>3, <1>5, <1>7 DEF MMServes
<1>8. CASE ~ Heard(k, h, MM)
  BY <1>4, <1>5, <1>6, <1>8 DEF MMServes, t
<1> QED
  BY <1>7, <1>8

\* FS is served as before, when what its job is about stays.
LEMMA FSKept ==
  ASSUME NEW k, NEW s, NEW h, NEW r, NEW s2, NEW h2,
         FSServes(k, s, h), FSFrame(k, s, h, r, s2, h2)
  PROVE  FSServes(r, s2, h2)
<1> DEFINE t == Todo(k, s, h, FS)
<1>1. Heard(k, h, FS) /\ FSMessage(k) => FSMessage(r)
  BY DEF FSMessage, FSFrame
<1>2. Todo(r, s2, h2, FS) = t
  BY DEF FSFrame
<1> HIDE DEF t
<1>3. FSJob(k, h, t) => FSJob(r, h2, t)
  BY DEF FSFrame, FSJob
<1>4. FSKnows(r, s2, h2)
  <2>1. \A u \in Users : HeardFrom(k, h, FS, u) => HeardFrom(r, h2, FS, u)
    BY DEF FSFrame, HeardFrom
  <2>2. \A u \in Users : Awaits(r, u, FS) => Awaits(k, u, FS)
    BY DEF FSFrame
  <2>3. \A u \in Users : Awaits(k, u, FS) =>
          HeardFrom(k, h, FS, u) \/ (t # << >> /\ t[Len(t)] = Answer(u))
    BY DEF FSServes, FSKnows, t
  <2> QED  BY <1>2, <2>1, <2>2, <2>3 DEF FSKnows
<1>5. Heard(r, h2, FS) <=> Heard(k, h, FS)
  BY DEF FSFrame
<1>6. IF Heard(r, h2, FS) THEN FSMessage(r) ELSE FSJob(r, h2, Todo(r, s2, h2, FS))
  BY <1>1, <1>2, <1>3, <1>5 DEF FSServes, t
<1> QED
  BY <1>4, <1>6 DEF FSServes

-----------------------------------------------------------------------------
(* Who is blocked, and who is queued *)

\* Only users and MM are ever blocked sending, and all of them wait for the
\* answer.
LEMMA SendersWait ==
  ASSUME Closed, NEW k, Stable(k), NEW s, NEW h, NEW a, Serves(k, s, h, a)
  PROVE  /\ \A p \in Procs : Sending(k, p) =>
              /\ p \in Users \cup {MM} /\ Receiving(k, p)
              /\ k.sendto[p] = k.getfrom[p] /\ k.getfrom[p] \in Servers
              /\ p = MM => k.getfrom[p] = FS
         /\ \A p \in Programs : p \notin k.empty /\ (k.flags[p] = {} <=> ~ Receiving(k, p))
         /\ ~ Sending(k, HARDWARE)
<1>1. CallsServers(k) /\ KindsKept(k) /\ k \in Kernels
  BY DEF Stable, Consistent, Linked
<1>2. Procs = Programs \cup Users
  BY DEF Procs, Programs
<1>3. \A p \in Procs : Sending(k, p) =>
        /\ p \in Users \cup {MM} /\ Receiving(k, p)
        /\ k.sendto[p] = k.getfrom[p] /\ k.getfrom[p] \in Servers
        /\ p = MM => k.getfrom[p] = FS
  <2>1. \A p \in Procs : Sending(k, p) => p \in Users \cup {MM} /\ Receiving(k, p)
    BY <1>2 DEF Serves, Serving, LoopsKept, UsersCall
  <2>2. \A p \in Procs : Sending(k, p) => k.sendto[p] = k.getfrom[p]
    BY <1>1, <2>1 DEF CallsServers
  <2>3. Sending(k, MM) => k.getfrom[MM] = FS /\ FS \in Servers
    BY ProgramKinds DEF Serves, Serving, LoopsKept
  <2>4. \A u \in Users : Receiving(k, u) => k.getfrom[u] \in Servers
    BY DEF Serves, Serving, UsersCall
  <2> QED  BY <2>1, <2>2, <2>3, <2>4
<1>4. \A p \in Programs : Sending(k, p) => Receiving(k, p)
  BY <1>2, <1>3
<1>5. \A p \in Programs : k.flags[p] \subseteq {"SENDING", "RECEIVING"}
  BY <1>1 DEF KindsKept, Programs
<1>6. \A p \in Programs : k.flags[p] = {} <=> ~ Receiving(k, p)
  BY <1>4, <1>5 DEF Sending, Receiving
<1>7. \A p \in Programs : p \notin k.empty
  BY <1>1, ProgramKinds DEF Kernels
<1> QED
  BY <1>1, <1>3, <1>6, <1>7 DEF KindsKept, Sending

\* The process that runs is not blocked; when a server runs all tasks are,
\* and when a user runs the servers as well.
LEMMA WhoRuns ==
  ASSUME Closed, NEW k, Stable(k), NEW s, NEW h, NEW a, Serves(k, s, h, a),
         NEW p \in Procs, k.proc_ptr = p
  PROVE  /\ k.flags[p] = {} /\ ~ Receiving(k, p) /\ ~ Sending(k, p) /\ p \notin k.empty
         /\ p \notin Tasks => \A t \in Tasks : Receiving(k, t) /\ ~ Sending(k, t)
         /\ p \in Users => \A d \in Servers : Receiving(k, d)
<1>1. /\ k \in Kernels /\ ReadyQueuesExact(k) /\ RunsFirst(k)
  BY DEF Stable, Consistent
<1>2. /\ k.flags[p] = {} /\ p \notin k.empty
      /\ k.rdy[QueueOf(p)] # << >> /\ Head(k.rdy[QueueOf(p)]) = p
  BY <1>1, RunningIsReady
<1>3. \A q \in Queues : k.rdy[q] \in Seq(Procs)
  BY <1>1 DEF Kernels
<1>4. \A q \in Queues : k.rdy[q] # << >> => Head(k.rdy[q]) \in Members(k.rdy[q])
  BY <1>3, HeadIsMember
<1>5. \A q \in Queues, v \in Procs : v \in Members(k.rdy[q]) => QueueOf(v) = q
  BY <1>1 DEF ReadyQueuesExact
<1>6. /\ "TASK_Q" \in Queues /\ "SERVER_Q" \in Queues /\ "USER_Q" \in Queues
  BY DEF Queues
<1>7. \A q \in Queues : k.rdy[q] # << >> => Head(k.rdy[q]) \in Procs
  BY <1>3, HeadIsMember
<1>8. \A q \in Queues : k.rdy[q] # << >> => QueueOf(Head(k.rdy[q])) = q
  BY <1>4, <1>5, <1>7
<1>9. p \notin Tasks => k.rdy["TASK_Q"] = << >>
  BY <1>1, <1>6, <1>8, QueueOfKind DEF RunsFirst, FirstReady
<1>10. p \in Users => k.rdy["SERVER_Q"] = << >>
  <2>1. p \in Users => p \notin Tasks /\ p \notin Servers
    BY KernelAssumption
  <2> QED  BY <1>1, <1>6, <1>8, <1>9, <2>1, QueueOfKind DEF RunsFirst, FirstReady
<1>11. \A d \in Programs : d \in Procs /\ d \notin k.empty
  BY SendersWait, ProgramKinds
<1>12. \A q \in Queues, d \in Programs :
         k.rdy[q] = << >> /\ QueueOf(d) = q => k.flags[d] # {}
  <2> SUFFICES ASSUME NEW q \in Queues, NEW d \in Programs,
                      k.rdy[q] = << >>, QueueOf(d) = q, k.flags[d] = {}
               PROVE  FALSE
    OBVIOUS
  <2>1. d \in Members(k.rdy[q])
    BY <1>1, <1>11 DEF ReadyQueuesExact
  <2> QED  BY <2>1 DEF Members
<1>13. /\ \A t \in Tasks : t \in Programs /\ QueueOf(t) = "TASK_Q"
       /\ \A d \in Servers : d \in Programs /\ QueueOf(d) = "SERVER_Q"
  BY QueueOfKind DEF Programs, Procs
<1>14. p \notin Tasks => \A t \in Tasks : Receiving(k, t) /\ ~ Sending(k, t)
  <2>1. \A t \in Tasks : ~ Sending(k, t)
    BY <1>13, SendersWait, ProgramKinds
  <2> QED  BY <1>6, <1>9, <1>12, <1>13, <2>1, SendersWait
<1>15. p \in Users => \A d \in Servers : Receiving(k, d)
  BY <1>6, <1>10, <1>12, <1>13, SendersWait
<1> QED
  BY <1>2, <1>14, <1>15 DEF Receiving, Sending

\* Nobody is queued at a task, users at MM, and users and MM at FS.
LEMMA WhoIsQueued ==
  ASSUME Closed, NEW k, Stable(k), NEW s, NEW h, NEW a, Serves(k, s, h, a)
  PROVE  /\ \A t \in Tasks : k.callerq[t] = << >>
         /\ \A d \in Procs : \A v \in Members(k.callerq[d]) :
              /\ v \in Procs /\ Sending(k, v) /\ Receiving(k, v) /\ k.getfrom[v] = d
              /\ v \in Users \cup {MM} /\ d \in Servers
              /\ v = MM => d = FS
         /\ \A v \in Procs : Sending(k, v) => v \in Members(k.callerq[k.getfrom[v]])
<1>1. CallersExact(k) /\ k \in Kernels
  BY DEF Stable, Consistent, Linked
<1>2. \A d \in Procs : k.callerq[d] \in Seq(Senders)
  BY <1>1 DEF Kernels
<1>3. \A d \in Procs : \A v \in Members(k.callerq[d]) : v \in Senders
  BY <1>2 DEF Members
<1>4. \A d \in Procs : \A v \in Members(k.callerq[d]) :
        v \in Procs /\ Sending(k, v) /\ k.sendto[v] = d
  BY <1>1, <1>3, SendersWait DEF CallersExact, Senders
<1>5. \A d \in Procs : \A v \in Members(k.callerq[d]) :
              /\ v \in Procs /\ Sending(k, v) /\ Receiving(k, v) /\ k.getfrom[v] = d
              /\ v \in Users \cup {MM} /\ d \in Servers
              /\ v = MM => d = FS
  BY <1>4, SendersWait
<1>6. \A t \in Tasks : k.callerq[t] = << >>
  <2> SUFFICES ASSUME NEW t \in Tasks, k.callerq[t] # << >>
               PROVE  FALSE
    OBVIOUS
  <2>1. t \in Procs /\ t \notin Servers
    BY KernelAssumption DEF Procs
  <2>2. Head(k.callerq[t]) \in Members(k.callerq[t])
    BY <1>2, <2>1, HeadIsMember
  <2> QED  BY <1>5, <2>1, <2>2
<1>7. \A v \in Procs : Sending(k, v) => v \in Members(k.callerq[k.getfrom[v]])
  <2>1. \A d \in Servers : d \in Procs
    BY DEF Procs
  <2> QED  BY <1>1, <2>1, SendersWait, ProgramKinds DEF CallersExact
<1> QED
  BY <1>5, <1>6, <1>7

\* No call of a user to a server, and no message to who is not blocked
\* sending, is refused.
LEMMA NobodyRefused ==
  ASSUME Closed, NEW k, Stable(k), NEW s, NEW h, NEW a, Serves(k, s, h, a),
         NEW c \in Procs, NEW d \in Procs, d \notin k.empty,
         c \in Users => d \in Servers, c \in Users \/ ~ Sending(k, d)
  PROVE  ~ Refused(k, c, d)
<1>1. CASE ~ Sending(k, d)
  BY <1>1 DEF Refused, Locked, Sending
<1>2. CASE Sending(k, d)
  <2>1. c \in Users /\ d \in Servers
    BY <1>2
  <2>2. d = MM /\ k.sendto[d] = FS
    BY <1>2, <2>1, SendersWait, ProgramKinds
  <2>3. ~ Sending(k, FS) /\ FS \in Procs /\ FS \notin Users
    BY SendersWait, ProgramKinds DEF Programs
  <2>4. {FS} \in SUBSET Procs /\ SendsWithin(k, {FS}) /\ c \notin {FS}
    BY <2>1, <2>3 DEF SendsWithin, Sending
  <2>5. ~ Locked(k, c, d)
    BY <2>2, <2>4 DEF Locked
  <2> QED  BY <2>1, <2>5 DEF Refused
<1> QED
  BY <1>1, <1>2

-----------------------------------------------------------------------------
(* Writing a message, calls of users, and interrupts *)

\* The process that runs writes its next message: nobody expects anything of
\* its buffer then.
LEMMA WritingServes ==
  ASSUME Closed, NEW k, Stable(k), NEW s, NEW h, NEW a, Serves(k, s, h, a),
         NEW p \in Procs, k.proc_ptr = p, p \notin h,
         NEW r, SameButBuffer(k, r, p)
  PROVE  Serves(r, s, h, a)
<1>1. /\ ~ Receiving(k, p) /\ ~ Sending(k, p)
      /\ \A q : /\ Receiving(r, q) <=> Receiving(k, q)
                /\ Sending(r, q) <=> Sending(k, q)
      /\ r.flags = k.flags /\ r.getfrom = k.getfrom /\ r.callerq = k.callerq
      /\ r.intBlocked = k.intBlocked /\ r.proc_ptr = k.proc_ptr
      /\ r.empty = k.empty /\ r.pending = k.pending /\ r.pendcount = k.pendcount
      /\ \A q \in Procs \ {p} : r.messbuf[q] = k.messbuf[q]
  BY WhoRuns DEF SameButBuffer, SameSignals, Receiving, Sending
<1>2. /\ \A q : Heard(r, h, q) <=> Heard(k, h, q)
      /\ \A q \in Procs : Heard(k, h, q) => r.messbuf[q] = k.messbuf[q]
      /\ \A q, d : Awaits(r, q, d) <=> Awaits(k, q, d)
      /\ \A q, d : AwaitsAlive(r, q, d) <=> AwaitsAlive(k, q, d)
      /\ \A q, d : Due(r, h, q, d) <=> Due(k, h, q, d)
  BY <1>1 DEF Heard, Awaits, AwaitsAlive, Due
<1>3. \A q, d : d \in Procs => (HeardFrom(r, h, d, q) <=> HeardFrom(k, h, d, q))
  BY <1>2 DEF HeardFrom
<1>4. /\ s \in [Programs -> Seq(Entries)] /\ h \subseteq Programs
      /\ SYSTASK \notin r.intBlocked
      /\ LoopsKept(r, s, h)
      /\ \A q \in Programs : q \in Procs
      /\ MM \in Programs /\ FS \in Programs /\ SYSTASK \in Programs
      /\ CLOCK \in Programs /\ DISK \in Programs
  BY <1>1, ProgramKinds DEF Serves, Serving, LoopsKept
<1>5. UsersCall(r)
  <2>1. \A u \in Users : Sending(k, u) => u \in Procs \ {p}
    BY <1>1, ProgramKinds
  <2> QED  BY <1>1, <2>1 DEF Serves, Serving, UsersCall
<1>6. RequestsHeld(r, h)
  <2> SUFFICES ASSUME NEW d \in Programs, NEW q \in Servers, HeardFrom(r, h, d, q)
               PROVE  Due(r, h, q, d) /\ r.messbuf[d].body = r.messbuf[q].body
    BY DEF RequestsHeld
  <2>1. HeardFrom(k, h, d, q) /\ d \in Procs /\ q \in Procs
    BY <1>3, <1>4, ProgramKinds DEF Programs
  <2>2. Due(k, h, q, d) /\ k.messbuf[d].body = k.messbuf[q].body
    BY <2>1 DEF Serves, Serving, RequestsHeld
  <2>3. d # p /\ q # p
    BY <1>1, <2>1, <2>2 DEF HeardFrom, Heard, Due, Awaits
  <2> QED  BY <1>1, <1>2, <2>1, <2>2, <2>3
<1>7. SysTaskServes(r, s, h)
  BY <1>1, <1>2, <1>4 DEF Serves, Serving, SysTaskServes
<1>8. ClockServes(r, s, h, a)
  BY <1>1, <1>2, <1>4 DEF Serves, Serving, ClockServes
<1>9. DiskServes(r, s, h)
  BY <1>1, <1>2, <1>4 DEF Serves, Serving, DiskServes
<1>10. \A q \in Programs : Todo(r, s, h, q) = Todo(k, s, h, q)
  <2> SUFFICES ASSUME NEW q \in Programs
               PROVE  Todo(r, s, h, q) = Todo(k, s, h, q)
    OBVIOUS
  <2>1. Undone(r, h, q) <=> Undone(k, h, q)
    <3>1. ASSUME Receiving(k, q), q \notin h, ~ Sending(k, q)
          PROVE  HeardFrom(r, h, k.getfrom[q], q) <=> HeardFrom(k, h, k.getfrom[q], q)
      <4>1. k.getfrom[q] \in Procs \/ k.getfrom[q] \notin h
        BY <1>4
      <4> QED  BY <1>3, <4>1 DEF HeardFrom, Heard
    <3> QED  BY <1>1, <3>1 DEF Undone
  <2>2. Undone(k, h, q) => r.messbuf[q] = k.messbuf[q]
    BY <1>1, <1>4 DEF Undone
  <2> QED  BY <1>1, <2>1, <2>2, Zenon DEF Todo
<1>11. KnowledgeKept(k, r)
  BY <1>1 DEF KnowledgeKept, Knows
<1>12. MMServes(r, s, h)
  <2>1. MMFrame(k, s, h, r, s, h)
    BY <1>1, <1>2, <1>3, <1>4, <1>10, <1>11 DEF MMFrame, InOrder, FarFromFS
  <2> QED  BY <1>4, <2>1, MMKept DEF Serves, Serving
<1>13. FSServes(r, s, h)
  <2>1. FSFrame(k, s, h, r, s, h)
    BY <1>1, <1>2, <1>3, <1>4, <1>10 DEF FSFrame
  <2> QED  BY <2>1, FSKept DEF Serves, Serving
<1>14. TasksAtWork(r, s, h)
  BY <1>1, <1>2 DEF Serves, TasksAtWork
<1> QED
  BY <1>4, <1>5, <1>6, <1>7, <1>8, <1>9, <1>12, <1>13, <1>14 DEF Serves, Serving

\* MM and FS have nothing to do when they wait for any message.
LEMMA NothingToDo ==
  ASSUME Closed, NEW k, NEW s, NEW h, NEW a, Serving(k, s, h, a),
         NEW d \in Servers, d \in h, Receiving(k, d)
  PROVE  /\ s[d] = << >> /\ k.getfrom[d] = ANY /\ ~ Heard(k, h, d) /\ ~ Undone(k, h, d)
         /\ ~ Sending(k, d)
         /\ Todo(k, s, h, d) = << >>
         /\ d = MM => NoneTold(k)
         /\ d = FS => \A u \in Users : ~ Awaits(k, u, FS)
<1>1. d \in Programs /\ s[d] = << >> /\ k.getfrom[d] = ANY /\ ~ Heard(k, h, d)
      /\ ~ Undone(k, h, d) /\ Todo(k, s, h, d) = << >>
      /\ ~ Sending(k, d)
  BY DEF Serving, LoopsKept, Heard, Undone, Todo, Programs
<1>2. ASSUME d = MM
      PROVE  NoneTold(k)
  <2>1. MMJob(k, h, << >>)
    BY <1>1, <1>2 DEF Serving, MMServes
  <2>2. PICK u \in Users, m \in 0..2 : SignalJob(k, h, << >>, u, m)
    BY <2>1 DEF MMJob, CallJob, ForkJob
  <2>3. m = 0 /\ Told(k, u, 0)
    BY <2>2 DEF SignalJob
  <2> QED  BY <2>3 DEF Told, NoneTold
<1>3. ASSUME d = FS, NEW u \in Users
      PROVE  ~ Awaits(k, u, FS)
  BY <1>1, <1>3 DEF Serving, FSServes, FSKnows, HeardFrom
<1> QED
  BY <1>1, <1>2, <1>3

\* A user calls a server that waits for any message.
LEMMA UserCallDelivered ==
  ASSUME Closed, NEW k, Stable(k), NEW s, NEW h, NEW a, Serves(k, s, h, a),
         NEW u \in Users, k.proc_ptr = u, NEW d \in Servers, Waits(k, d, u),
         <<d, k.messbuf[u].body>> \in UserCalls
  PROVE  LET r == SendRec(k, u, d)
         IN  Stable(r) /\ Serves(r, s, h, a)
<1> DEFINE r == SendRec(k, u, d)
<1>1. /\ k \in Kernels /\ u \in Procs /\ d \in Procs /\ u # d /\ d \notin Users
      /\ u \in Senders /\ d \in Senders /\ d \in Programs /\ u \notin Programs
  BY ProgramKinds DEF Stable, Consistent, Programs
<1>2. /\ Receiving(k, d) /\ ~ Sending(k, d) /\ d \notin k.empty /\ u \notin k.empty
      /\ ~ Receiving(k, u) /\ ~ Sending(k, u) /\ k.flags[u] = {}
      /\ \A q \in Programs : Receiving(k, q)
  <2>1. \A q \in Programs : q \in Tasks \/ q \in Servers
    BY DEF Programs
  <2>2. u \notin Tasks
    BY KernelAssumption
  <2> QED  BY <1>1, <2>1, <2>2, SendersWait, WhoRuns DEF Waits, Receiving, Sending
<1>3. d \in h
  BY <1>1, <1>2, ProgramKinds DEF Serves, Serving, LoopsKept, Waits
<1>4. /\ s[d] = << >> /\ k.getfrom[d] = ANY /\ ~ Heard(k, h, d) /\ ~ Undone(k, h, d)
      /\ Todo(k, s, h, d) = << >>
      /\ d = MM => NoneTold(k)
      /\ d = FS => \A v \in Users : ~ Awaits(k, v, FS)
  BY <1>2, <1>3, NothingToDo DEF Serves
<1>5. /\ Stable(r)
      /\ r.flags = [k.flags EXCEPT ![d] = @ \ {"RECEIVING"}, ![u] = {"RECEIVING"}]
      /\ r.getfrom = [k.getfrom EXCEPT ![u] = d]
      /\ r.messbuf = [k.messbuf EXCEPT ![d] = [source |-> u, body |-> k.messbuf[u].body]]
      /\ r.callerq = k.callerq
      /\ r.intBlocked = k.intBlocked
      /\ SameSignals(k, r)
  <2>1. ~ Refused(k, u, d)
    BY <1>1, <1>2, NobodyRefused
  <2> QED  BY <1>1, <2>1, CallDelivered
<1> HIDE DEF r
<1>6. /\ k.flags \in [Senders -> SUBSET Flags] /\ k.getfrom \in [Procs -> Senders \cup {ANY}]
      /\ k.messbuf \in [Procs -> Messages]
  BY <1>1 DEF Kernels
<1>7. /\ r.flags[u] = {"RECEIVING"} /\ r.getfrom[u] = d
      /\ r.messbuf[d].source = u /\ r.messbuf[d].body = k.messbuf[u].body
      /\ \A q \in Procs \ {d} : r.messbuf[q] = k.messbuf[q]
      /\ \A q \in Procs \ {u} : r.getfrom[q] = k.getfrom[q]
      /\ \A q \in Senders \ {u, d} : r.flags[q] = k.flags[q]
      /\ r.flags[d] = k.flags[d] \ {"RECEIVING"}
      /\ r.empty = k.empty /\ r.pending = k.pending /\ r.pendcount = k.pendcount
  BY <1>1, <1>5, <1>6 DEF SameSignals
<1>8. /\ Receiving(r, u) /\ ~ Sending(r, u) /\ ~ Receiving(r, d)
      /\ \A q \in Procs \ {d, u} : Receiving(r, q) <=> Receiving(k, q)
      /\ \A q \in Procs : Sending(r, q) <=> Sending(k, q)
  BY <1>1, <1>2, <1>7, ProgramKinds DEF Receiving, Sending
<1>9. /\ \A q \in Programs : q \in Procs /\ q # u
      /\ MM \in Programs /\ FS \in Programs /\ SYSTASK \in Programs
      /\ CLOCK \in Programs /\ DISK \in Programs /\ MM # FS
      /\ d \notin Tasks /\ SYSTASK # d /\ CLOCK # d /\ DISK # d
      /\ h \subseteq Programs /\ s \in [Programs -> Seq(Entries)]
      /\ \A q \in Procs : q # ANY /\ q # HARDWARE
  BY <1>1, ProgramKinds DEF Serves, Serving
<1>10. \A q \in Programs : ~ Heard(k, h, q) /\ (Heard(r, h, q) <=> q = d)
  BY <1>2, <1>3, <1>8, <1>9 DEF Heard
<1>11. /\ \A q \in Procs \ {u, d} : \A e : Awaits(r, q, e) <=> Awaits(k, q, e)
       /\ \A e : Awaits(r, u, e) <=> e = d
       /\ \A e : ~ Awaits(k, u, e)
       /\ \A e : AwaitsAlive(k, u, e) => AwaitsAlive(r, u, e)
       /\ AwaitsAlive(r, u, d)
  BY <1>1, <1>2, <1>7, <1>8 DEF Awaits, AwaitsAlive
<1>12. \A q \in Servers : \A e : Due(k, h, q, e) => Due(r, h, q, e) /\ q # d
  <2>1. \A q \in Servers : q \in Procs /\ q # u
    BY <1>9 DEF Programs
  <2> QED  BY <1>3, <1>11, <2>1 DEF Due
<1>13. LoopsKept(r, s, h)
  <2>1. LoopsKept(k, s, h)
    BY DEF Serves, Serving
  <2> SUFFICES ASSUME NEW p \in Programs
               PROVE  /\ p \in h => s[p] = << >>
                      /\ p \in h /\ Receiving(r, p) => r.getfrom[p] = ANY
                      /\ p \notin h /\ Receiving(r, p) =>
                           \/ p = DISK /\ r.getfrom[p] = HARDWARE
                           \/ p \in Servers /\ r.getfrom[p] \in Programs \ {MM}
                      /\ Sending(r, p) =>
                           p = MM /\ MM \notin h /\ Receiving(r, MM) /\ r.getfrom[MM] = FS
    BY DEF LoopsKept
  <2>2. p \in Procs /\ p # u /\ r.getfrom[p] = k.getfrom[p]
    BY <1>7, <1>9
  <2>3. CASE p = d
    BY <1>2, <1>3, <1>4, <1>8, <2>2, <2>3
  <2>4. CASE p # d
    BY <1>8, <2>1, <2>2, <2>4 DEF LoopsKept
  <2> QED  BY <2>3, <2>4
<1>14. UsersCall(r)
  <2>1. \A v \in Users : v \in Procs /\ v # d
    BY <1>1, ProgramKinds
  <2>2. UsersCall(k)
    BY DEF Serves, Serving
  <2> QED  BY <1>7, <1>8, <2>1, <2>2 DEF UsersCall
<1>15. RequestsHeld(r, h)
  <2>1. \A q \in Servers : q # u
    BY <1>9 DEF Programs
  <2> QED  BY <1>7, <1>10, <2>1 DEF RequestsHeld, HeardFrom
<1>16. /\ SysTaskServes(r, s, h) /\ ClockServes(r, s, h, a) /\ DiskServes(r, s, h)
       /\ TasksAtWork(r, s, h)
  <2>1. s[SYSTASK] = << >> /\ s[CLOCK] = << >>
    <3>1. SYSTASK # k.proc_ptr /\ CLOCK # k.proc_ptr
      BY <1>9
    <3> QED  BY <3>1 DEF Serves, TasksAtWork
  <2>2. SysTaskServes(r, s, h)
    BY <1>9, <1>10, <2>1 DEF SysTaskServes
  <2>3. ClockServes(r, s, h, a)
    <3>1. Len(s[CLOCK]) = 0
      BY <2>1
    <3> QED  BY <1>7, <1>9, <1>10, <2>1, <3>1 DEF ClockServes, Serves, Serving
  <2>4. DiskServes(r, s, h)
    BY <1>7, <1>8, <1>9, <1>10, <1>12, ProgramKinds DEF DiskServes, Serves, Serving
  <2>5. TasksAtWork(r, s, h)
    BY <1>10, <1>9, <2>1 DEF TasksAtWork
  <2> QED  BY <2>2, <2>3, <2>4, <2>5
<1>17. KnowledgeKept(k, r)
  BY <1>7 DEF KnowledgeKept, Knows
<1>18. \A q \in Servers : q # d => Todo(r, s, h, q) = Todo(k, s, h, q)
  <2> SUFFICES ASSUME NEW q \in Servers, q # d
               PROVE  Todo(r, s, h, q) = Todo(k, s, h, q)
    OBVIOUS
  <2>1. q \in Programs /\ q \in Procs /\ q # u
    BY <1>9 DEF Programs
  <2>2. q \notin h => k.getfrom[q] \in Programs
    BY <1>2, <2>1, ProgramKinds DEF Serves, Serving, LoopsKept
  <2>3. Undone(r, h, q) <=> Undone(k, h, q)
    BY <1>7, <1>8, <1>10, <2>1, <2>2 DEF Undone, HeardFrom
  <2> QED  BY <1>7, <2>1, <2>3, Zenon DEF Todo
<1>19. Todo(r, s, h, d) = << >>
  BY <1>3, <1>4 DEF Todo, Undone
<1>20. MMServes(r, s, h)
  <2>1. CASE d = MM
    <3>1. NoneTold(r)
      BY <1>4, <1>7, <2>1 DEF NoneTold, Knows
    <3>2. MMMessage(r)
      BY <1>7, <1>11, <2>1, <3>1 DEF MMMessage
    <3> QED  BY <1>9, <1>10, <2>1, <3>2 DEF MMServes
  <2>2. CASE d # MM
    <3>1. MM \in Servers /\ MM \in Procs /\ MM # u /\ FS = d
      BY <1>9, <2>2, ProgramKinds
    <3>2. \A v \in Users : v \in Procs /\ v # d /\ v # MM /\ v \in Senders
      BY <1>1, ProgramKinds
    <3>3. ~ HeardFrom(r, h, FS, MM)
      BY <1>7, <3>1 DEF HeardFrom
    <3>4. ~ Stopped(k, u)
      BY <1>2, <1>11 DEF Stopped
    <3>5. \A v \in Users \ k.empty :
            /\ Awaits(k, v, MM) => Awaits(r, v, MM)
            /\ "SIG_PENDING" \in k.flags[v] => "SIG_PENDING" \in r.flags[v]
            /\ Stopped(k, v) /\ FarFromFS(k, v) => FarFromFS(r, v)
      BY <1>2, <1>7, <1>8, <1>11, <3>2, <3>4, ZenonT(40) DEF FarFromFS
    <3>6. MMFrame(k, s, h, r, s, h)
      BY <1>5, <1>7, <1>8, <1>9, <1>10, <1>17, <1>18, <2>2, <3>1, <3>3, <3>5 DEF MMFrame, InOrder
    <3> QED  BY <1>9, <3>6, MMKept DEF Serves, Serving
  <2> QED  BY <2>1, <2>2
<1>21. FSServes(r, s, h)
  <2>1. CASE d = FS
    <3>1. FSMessage(r)
      BY <1>7, <1>11, <2>1 DEF FSMessage
    <3>2. \A v \in Users : Awaits(r, v, FS) => v = u
      <4>1. \A v \in Users : v \in Procs /\ v # d
        BY <1>1, ProgramKinds
      <4> QED  BY <1>4, <1>11, <2>1, <4>1
    <3>3. FSKnows(r, s, h)
      BY <1>7, <1>9, <1>10, <2>1, <3>2 DEF FSKnows, HeardFrom
    <3> QED  BY <1>9, <1>10, <2>1, <3>1, <3>3 DEF FSServes
  <2>2. CASE d # FS
    <3>1. \A v \in Users : v \in Procs /\ v # d
      BY <1>1, ProgramKinds
    <3>2. /\ \A v \in Users : Awaits(r, v, FS) => Awaits(k, v, FS)
          /\ \A v \in Users : AwaitsAlive(k, v, FS) => AwaitsAlive(r, v, FS)
      BY <1>7, <1>11, <2>2, <3>1 DEF AwaitsAlive
    <3>3. FSFrame(k, s, h, r, s, h)
      BY <1>9, <1>10, <1>12, <1>18, <2>2, <3>2, ProgramKinds DEF FSFrame
    <3> QED  BY <3>3, FSKept DEF Serves, Serving
  <2> QED  BY <2>1, <2>2
<1> QED
  BY <1>5, <1>9, <1>13, <1>14, <1>15, <1>16, <1>20, <1>21 DEF Serves, Serving, r

\* Who comes later into the queue of FS is behind.
LEMMA BeforeStays ==
  ASSUME NEW S, NEW q \in Seq(S), NEW c \in S, NEW u, NEW v,
         Before(q, u, v), c # u
  PROVE  Before(Append(q, c), u, v)
<1>1. /\ DOMAIN Append(q, c) = 1..(Len(q) + 1) /\ DOMAIN q = 1..Len(q) /\ Len(q) \in Nat
      /\ Append(q, c)[Len(q) + 1] = c
      /\ \A i \in 1..Len(q) : Append(q, c)[i] = q[i]
  BY AppendProperties
<1> QED
  BY <1>1 DEF Before

\* A user calls a server that is busy.
LEMMA UserCallQueued ==
  ASSUME Closed, NEW k, Stable(k), NEW s, NEW h, NEW a, Serves(k, s, h, a),
         NEW u \in Users, k.proc_ptr = u, NEW d \in Servers, ~ Waits(k, d, u),
         <<d, k.messbuf[u].body>> \in UserCalls
  PROVE  LET r == SendRec(k, u, d)
         IN  Stable(r) /\ Serves(r, s, h, a)
<1> DEFINE r == SendRec(k, u, d)
<1>1. /\ k \in Kernels /\ u \in Procs /\ d \in Procs /\ u # d /\ d \notin Users
      /\ u \in Senders /\ d \in Senders /\ d \in Programs /\ u \notin Programs
      /\ d \notin k.empty
  BY ProgramKinds, SendersWait DEF Stable, Consistent, Programs
<1>2. /\ ~ Receiving(k, u) /\ ~ Sending(k, u) /\ k.flags[u] = {}
      /\ \A q \in Programs : Receiving(k, q)
  <2>1. \A q \in Programs : q \in Tasks \/ q \in Servers
    BY DEF Programs
  <2>2. u \notin Tasks
    BY KernelAssumption
  <2> QED  BY <1>1, <2>1, <2>2, WhoRuns
<1>3. /\ Stable(r)
      /\ r.flags = [k.flags EXCEPT ![u] = {"SENDING", "RECEIVING"}]
      /\ r.getfrom = [k.getfrom EXCEPT ![u] = d]
      /\ r.callerq = WithCaller(k, d, u)
      /\ r.sendto = [k.sendto EXCEPT ![u] = d]
      /\ r.messbuf = k.messbuf /\ r.intBlocked = k.intBlocked
      /\ SameSignals(k, r)
  <2>1. ~ Refused(k, u, d)
    BY <1>1, NobodyRefused
  <2>2. u \in Procs /\ d \in Procs /\ u # d /\ d \notin Users
    BY <1>1
  <2> QED  BY <2>1, <2>2, CallQueued
<1> HIDE DEF r
<1>4. /\ k.flags \in [Senders -> SUBSET Flags] /\ k.getfrom \in [Procs -> Senders \cup {ANY}]
      /\ k.callerq \in [Procs -> Seq(Senders)]
  BY <1>1 DEF Kernels
<1>5. /\ r.flags[u] = {"SENDING", "RECEIVING"} /\ r.getfrom[u] = d
      /\ r.messbuf = k.messbuf
      /\ \A q \in Procs \ {u} : r.getfrom[q] = k.getfrom[q]
      /\ \A q \in Senders \ {u} : r.flags[q] = k.flags[q]
      /\ r.callerq[FS] \in {k.callerq[FS], Append(k.callerq[FS], u)}
      /\ r.empty = k.empty /\ r.pending = k.pending /\ r.pendcount = k.pendcount
  <2>1. r.callerq[FS] \in {k.callerq[FS], Append(k.callerq[FS], u)}
    BY <1>3, <1>4, ProgramKinds DEF Programs, WithCaller
  <2> QED  BY <1>1, <1>3, <1>4, <2>1 DEF SameSignals
<1>6. /\ Receiving(r, u) /\ Sending(r, u)
      /\ \A q \in Procs \ {u} : Receiving(r, q) <=> Receiving(k, q)
      /\ \A q \in Procs \ {u} : Sending(r, q) <=> Sending(k, q)
  BY <1>1, <1>5, ProgramKinds DEF Receiving, Sending
<1>7. /\ \A q \in Programs : q \in Procs /\ q # u
      /\ MM \in Programs /\ FS \in Programs /\ SYSTASK \in Programs
      /\ CLOCK \in Programs /\ DISK \in Programs /\ MM # FS
      /\ h \subseteq Programs /\ s \in [Programs -> Seq(Entries)]
      /\ \A q \in Procs : q # ANY /\ q # HARDWARE
      /\ \A q \in Users : q \in Procs /\ q \in Senders
  BY <1>1, ProgramKinds DEF Serves, Serving
<1>8. \A q : q # u => ~ Heard(k, h, q) /\ ~ Heard(r, h, q)
  BY <1>2, <1>6, <1>7 DEF Heard
<1>9. \A q : ~ Heard(k, h, q) /\ ~ Heard(r, h, q)
  BY <1>7, <1>8 DEF Heard
<1>10. /\ \A q \in Procs \ {u} : \A e : Awaits(r, q, e) <=> Awaits(k, q, e)
       /\ \A e : ~ Awaits(r, u, e) /\ ~ Awaits(k, u, e)
  BY <1>2, <1>5, <1>6 DEF Awaits
<1>11. /\ \A q, e : AwaitsAlive(k, q, e) /\ q \in Procs => AwaitsAlive(r, q, e)
       /\ \A q \in Servers : \A e : Due(k, h, q, e) => Due(r, h, q, e)
  BY <1>1, <1>5, <1>10 DEF AwaitsAlive, Due, Procs
<1>12. LoopsKept(r, s, h)
  <2>1. LoopsKept(k, s, h)
    BY DEF Serves, Serving
  <2> SUFFICES ASSUME NEW p \in Programs
               PROVE  /\ p \in h => s[p] = << >>
                      /\ p \in h /\ Receiving(r, p) => r.getfrom[p] = ANY
                      /\ p \notin h /\ Receiving(r, p) =>
                           \/ p = DISK /\ r.getfrom[p] = HARDWARE
                           \/ p \in Servers /\ r.getfrom[p] \in Programs \ {MM}
                      /\ Sending(r, p) =>
                           p = MM /\ MM \notin h /\ Receiving(r, MM) /\ r.getfrom[MM] = FS
    BY DEF LoopsKept
  <2>2. p \in Procs /\ p # u /\ r.getfrom[p] = k.getfrom[p]
    BY <1>5, <1>7
  <2> QED  BY <1>6, <2>1, <2>2 DEF LoopsKept
<1>13. UsersCall(r)
  <2>1. UsersCall(k)
    BY DEF Serves, Serving
  <2> QED  BY <1>5, <1>6, <1>7, <2>1 DEF UsersCall
<1>14. RequestsHeld(r, h)
  BY <1>9 DEF RequestsHeld, HeardFrom
<1>15. /\ SysTaskServes(r, s, h) /\ ClockServes(r, s, h, a) /\ DiskServes(r, s, h)
       /\ TasksAtWork(r, s, h)
  <2>1. s[SYSTASK] = << >> /\ s[CLOCK] = << >>
    <3>1. SYSTASK # k.proc_ptr /\ CLOCK # k.proc_ptr
      BY <1>7
    <3> QED  BY <3>1 DEF Serves, TasksAtWork
  <2>2. SysTaskServes(r, s, h)
    BY <1>9, <2>1 DEF SysTaskServes
  <2>3. ClockServes(r, s, h, a)
    <3>1. Len(s[CLOCK]) = 0
      BY <2>1
    <3> QED  BY <1>5, <1>9, <2>1, <3>1 DEF ClockServes, Serves, Serving
  <2>4. DiskServes(r, s, h)
    BY <1>5, <1>6, <1>7, <1>9, <1>11, ProgramKinds DEF DiskServes, Serves, Serving
  <2>5. TasksAtWork(r, s, h)
    BY <1>9, <1>7, <2>1 DEF TasksAtWork
  <2> QED  BY <2>2, <2>3, <2>4, <2>5
<1>16. KnowledgeKept(k, r)
  BY <1>5 DEF KnowledgeKept, Knows
<1>17. \A q \in Programs : Todo(r, s, h, q) = Todo(k, s, h, q)
  <2> SUFFICES ASSUME NEW q \in Programs
               PROVE  Todo(r, s, h, q) = Todo(k, s, h, q)
    OBVIOUS
  <2>1. q \in Procs /\ q # u
    BY <1>7
  <2>2. Undone(r, h, q) <=> Undone(k, h, q)
    BY <1>5, <1>6, <1>9, <2>1 DEF Undone, HeardFrom
  <2> QED  BY <1>5, <2>1, <2>2, Zenon DEF Todo
<1>18. MMServes(r, s, h)
  <2>1. MM \in Procs /\ MM # u
    BY <1>7
  <2>2. ~ Stopped(k, u)
    BY <1>2, <1>10 DEF Stopped
  <2>3. \A v \in Users \ k.empty :
          /\ Awaits(k, v, MM) => Awaits(r, v, MM)
          /\ "SIG_PENDING" \in k.flags[v] => "SIG_PENDING" \in r.flags[v]
          /\ Stopped(k, v) /\ FarFromFS(k, v) => FarFromFS(r, v)
    BY <1>2, <1>5, <1>6, <1>7, <1>10, <2>2 DEF FarFromFS
  <2>4. \A v : Stopped(k, v) /\ Before(k.callerq[FS], v, MM) => Before(r.callerq[FS], v, MM)
    <3>1. k.callerq[FS] \in Seq(Senders)
      BY <1>4, <1>7
    <3>2. \A v : Stopped(k, v) /\ Before(k.callerq[FS], v, MM) =>
            Before(Append(k.callerq[FS], u), v, MM)
      BY <1>1, <2>2, <3>1, BeforeStays
    <3> QED  BY <1>5, <3>2
  <2>5. MMFrame(k, s, h, r, s, h)
    BY <1>5, <1>6, <1>7, <1>9, <1>16, <1>17, <2>1, <2>3, <2>4 DEF MMFrame, InOrder, HeardFrom
  <2> QED  BY <1>7, <2>5, MMKept DEF Serves, Serving
<1>19. FSServes(r, s, h)
  <2>1. /\ \A v \in Users : Awaits(r, v, FS) => Awaits(k, v, FS)
        /\ \A v \in Users : AwaitsAlive(k, v, FS) => AwaitsAlive(r, v, FS)
    BY <1>7, <1>10, <1>11
  <2>2. FSFrame(k, s, h, r, s, h)
    BY <1>7, <1>9, <1>11, <1>17, <2>1, ProgramKinds DEF FSFrame
  <2> QED  BY <2>2, FSKept DEF Serves, Serving
<1> QED
  BY <1>3, <1>7, <1>12, <1>13, <1>14, <1>15, <1>18, <1>19 DEF Serves, Serving, r

\* An interrupt comes, whoever runs.
LEMMA InterruptServes ==
  ASSUME Closed, NEW k, Stable(k), NEW s, NEW h, NEW a, Serves(k, s, h, a),
         NEW t \in {CLOCK, DISK}
  PROVE  LET r == Interrupt(k, t)
         IN  Stable(r) /\ Serves(r, s, h, a)
<1> DEFINE r == Interrupt(k, t)
<1>1. /\ k \in Kernels /\ t \in Tasks /\ t \in Procs /\ t \in Senders /\ t \in Programs
      /\ t # SYSTASK /\ t # MM /\ t # FS /\ t \notin Users /\ t \notin Servers
  BY ProgramKinds DEF Stable, Consistent
<1>2. /\ Stable(r)
      /\ \A p \in Tasks : k.proc_ptr = p => r.proc_ptr = p
      /\ r.getfrom = k.getfrom
      /\ r.callerq = k.callerq /\ SameSignals(k, r)
      /\ r.intBlocked \subseteq k.intBlocked \cup {t}
      /\ \/ /\ Waits(k, t, HARDWARE)
            /\ r.flags = [k.flags EXCEPT ![t] = @ \ {"RECEIVING"}]
            /\ r.messbuf = [k.messbuf EXCEPT
                              ![t] = [source |-> HARDWARE, body |-> <<"HARD_INT">>]]
         \/ r.flags = k.flags /\ r.messbuf = k.messbuf
  BY <1>1, InterruptDelivers
<1> HIDE DEF r
<1>3. /\ k.flags \in [Senders -> SUBSET Flags] /\ k.messbuf \in [Procs -> Messages]
  BY <1>1 DEF Kernels
<1>4. /\ r.empty = k.empty /\ r.pending = k.pending /\ r.pendcount = k.pendcount
      /\ r.getfrom = k.getfrom /\ r.callerq = k.callerq
      /\ \A q \in Procs \ {t} : r.messbuf[q] = k.messbuf[q]
      /\ \A q \in Senders \ {t} : r.flags[q] = k.flags[q]
      /\ \A q \in Procs \ {t} : Receiving(r, q) <=> Receiving(k, q)
      /\ \A q \in Procs : Sending(r, q) <=> Sending(k, q)
      /\ Receiving(r, t) => Receiving(k, t)
      /\ Receiving(k, t) /\ ~ Receiving(r, t) =>
           r.messbuf[t].source = HARDWARE /\ r.messbuf[t].body = <<"HARD_INT">>
      /\ (Receiving(k, t) <=> Receiving(r, t)) => r.messbuf[t] = k.messbuf[t]
  BY <1>1, <1>2, <1>3, ProgramKinds DEF Receiving, Sending, SameSignals, Waits
<1>5. /\ \A q \in Programs : q \in Procs
      /\ MM \in Programs /\ FS \in Programs /\ SYSTASK \in Programs
      /\ CLOCK \in Programs /\ DISK \in Programs /\ MM # FS
      /\ CLOCK \in Tasks /\ SYSTASK \in Tasks
      /\ h \subseteq Programs /\ s \in [Programs -> Seq(Entries)]
      /\ \A q \in Procs : q # ANY /\ q # HARDWARE
      /\ \A q \in Users : q \in Procs /\ q \in Senders /\ q # t
      /\ \A q \in Servers : q \in Procs /\ q \in Programs /\ q # t
  BY <1>1, ProgramKinds DEF Serves, Serving
<1>6. /\ \A q \in Procs \ {t} : Heard(r, h, q) <=> Heard(k, h, q)
      /\ \A q \in Procs : \A e : Awaits(r, q, e) => Awaits(k, q, e)
      /\ \A q \in Procs \ {t} : \A e : Awaits(r, q, e) <=> Awaits(k, q, e)
      /\ \A q \in Procs \ {t} : \A e : AwaitsAlive(r, q, e) <=> AwaitsAlive(k, q, e)
      /\ \A q \in Servers : \A e : Due(r, h, q, e) <=> Due(k, h, q, e)
      /\ Heard(r, h, t) =>
           \/ Heard(k, h, t) /\ r.messbuf[t] = k.messbuf[t]
           \/ r.messbuf[t].source = HARDWARE /\ r.messbuf[t].body = <<"HARD_INT">>
      /\ Heard(k, h, t) => Heard(r, h, t) /\ r.messbuf[t] = k.messbuf[t]
  BY <1>4, <1>5 DEF Heard, Awaits, AwaitsAlive, Due
<1>7. \A d \in Programs, q \in Procs : HeardFrom(r, h, d, q) <=> HeardFrom(k, h, d, q)
  BY <1>4, <1>5, <1>6, ZenonT(40) DEF HeardFrom
<1>8. LoopsKept(r, s, h)
  BY <1>4, <1>5 DEF Serves, Serving, LoopsKept
<1>9. UsersCall(r)
  BY <1>4, <1>5 DEF Serves, Serving, UsersCall
<1>10. RequestsHeld(r, h)
  <2> SUFFICES ASSUME NEW d \in Programs, NEW q \in Servers, HeardFrom(r, h, d, q)
               PROVE  Due(r, h, q, d) /\ r.messbuf[d].body = r.messbuf[q].body
    BY DEF RequestsHeld
  <2>1. HeardFrom(k, h, d, q) /\ d \in Procs /\ q \in Procs /\ q # t
    BY <1>5, <1>7
  <2>2. Due(k, h, q, d) /\ k.messbuf[d].body = k.messbuf[q].body
    BY <2>1 DEF Serves, Serving, RequestsHeld
  <2>3. r.messbuf[d] = k.messbuf[d]
    BY <1>4, <1>6, <2>1 DEF HeardFrom
  <2> QED  BY <1>4, <1>6, <2>1, <2>2, <2>3
<1>11. SysTaskServes(r, s, h)
  BY <1>1, <1>2, <1>4, <1>5, <1>6 DEF Serves, Serving, SysTaskServes
<1>12. ClockServes(r, s, h, a)
  <2>1. ClockServes(k, s, h, a)
    BY DEF Serves, Serving
  <2>2. Heard(r, h, CLOCK) =>
          \/ r.messbuf[CLOCK].source = MM
          \/ r.messbuf[CLOCK].source = HARDWARE /\ r.messbuf[CLOCK].body = <<"HARD_INT">>
    BY <1>4, <1>5, <1>6, <2>1 DEF ClockServes
  <2> QED  BY <1>4, <1>6, <2>1, <2>2, ProgramKinds DEF ClockServes
<1>13. DiskServes(r, s, h)
  BY <1>4, <1>5, <1>6, ProgramKinds DEF Serves, Serving, DiskServes
<1>14. KnowledgeKept(k, r)
  BY <1>4 DEF KnowledgeKept, Knows
<1>15. \A q \in Servers : Todo(r, s, h, q) = Todo(k, s, h, q)
  <2> SUFFICES ASSUME NEW q \in Servers
               PROVE  Todo(r, s, h, q) = Todo(k, s, h, q)
    OBVIOUS
  <2>1. q \in Procs /\ q \in Programs /\ q # t
    BY <1>5
  <2>2. q \notin h /\ Receiving(k, q) => k.getfrom[q] \in Programs
    BY <1>1, <2>1, ProgramKinds DEF Serves, Serving, LoopsKept
  <2>3. Undone(r, h, q) <=> Undone(k, h, q)
    BY <1>4, <1>7, <2>1, <2>2 DEF Undone
  <2> QED  BY <1>4, <2>1, <2>3, Zenon DEF Todo
<1>16. MMServes(r, s, h)
  <2>1. MM \in Procs /\ MM # t /\ MM \in Servers
    BY <1>1, <1>5, ProgramKinds
  <2>2. \A v \in Users \ k.empty :
          /\ Awaits(k, v, MM) => Awaits(r, v, MM)
          /\ "SIG_PENDING" \in k.flags[v] => "SIG_PENDING" \in r.flags[v]
          /\ Stopped(k, v) /\ FarFromFS(k, v) => FarFromFS(r, v)
    BY <1>4, <1>5, <1>6 DEF FarFromFS
  <2>3. MMFrame(k, s, h, r, s, h)
    BY <1>4, <1>5, <1>6, <1>7, <1>14, <1>15, <2>1, <2>2 DEF MMFrame, InOrder
  <2> QED  BY <1>5, <2>3, MMKept DEF Serves, Serving
<1>17. FSServes(r, s, h)
  <2>1. FSFrame(k, s, h, r, s, h)
    BY <1>1, <1>4, <1>5, <1>6, <1>15, ProgramKinds DEF FSFrame
  <2> QED  BY <2>1, FSKept DEF Serves, Serving
<1>18. SYSTASK \notin r.intBlocked
  BY <1>1, <1>2 DEF Serves, Serving
<1>19. TasksAtWork(r, s, h)
  BY <1>1, <1>2, <1>5, <1>6 DEF Serves, TasksAtWork
<1> QED
  BY <1>2, <1>5, <1>8, <1>9, <1>10, <1>11, <1>12, <1>13, <1>16, <1>17, <1>18, <1>19 DEF Serves, Serving, r

-----------------------------------------------------------------------------
(* receive of a program *)

\* MM has no job exactly if it knows of no signals.
LEMMA NoJob ==
  ASSUME NEW k, NEW h
  PROVE  MMJob(k, h, << >>) <=> NoneTold(k)
<1>1. ASSUME MMJob(k, h, << >>)
      PROVE  NoneTold(k)
  <2>1. PICK u \in Users, m \in 0..2 : SignalJob(k, h, << >>, u, m)
    BY <1>1 DEF MMJob, CallJob, ForkJob
  <2>2. m = 0 /\ Told(k, u, 0)
    BY <2>1 DEF SignalJob
  <2> QED  BY <2>2 DEF Told, NoneTold
<1>2. ASSUME NoneTold(k)
      PROVE  MMJob(k, h, << >>)
  <2>1. Cardinality(Signals) \in Nat
    BY KernelAssumption, FS_CardinalityType
  <2>2. Told(k, InitProc, 0)
    BY <1>2 DEF Told, NoneTold
  <2>3. SignalJob(k, h, << >>, InitProc, 0)
    BY <2>1, <2>2 DEF SignalJob
  <2>4. 0 \in 0..2
    OBVIOUS
  <2> QED  BY <2>3, <2>4, InitProcAssumption DEF MMJob
<1> QED
  BY <1>1, <1>2

\* A program that gets the processor at the top of its main loop is idle.
LEMMA IdleProgram ==
  ASSUME Closed, NEW k, Stable(k), NEW s, NEW h, NEW a, Serves(k, s, h, a),
         NEW p \in Programs, k.proc_ptr = p, s[p] = << >>, p \notin h
  PROVE  Idle(k, s, h, p) /\ Serving(k, s, h, a)
<1>1. /\ ~ Receiving(k, p) /\ ~ Sending(k, p) /\ k.flags[p] = {} /\ p \notin k.empty
      /\ p \in Procs /\ p \in Senders /\ p \notin Users /\ p # ANY /\ p # HARDWARE
  BY WhoRuns, ProgramKinds DEF Senders
<1>2. s[SYSTASK] = << >> /\ s[CLOCK] = << >> /\ ~ Heard(k, h, SYSTASK)
  BY DEF Serves, TasksAtWork, Heard
<1>3. Todo(k, s, h, p) = << >> /\ ~ Heard(k, h, p)
  BY <1>1 DEF Todo, Undone, Heard
<1>4. \A e : ~ Awaits(k, p, e)
  BY <1>1 DEF Awaits
<1>5. \A d \in Programs : p \in Servers => ~ HeardFrom(k, h, d, p)
  BY <1>4 DEF Serves, Serving, RequestsHeld, Due
<1>6. p = MM => NoneTold(k)
  BY <1>3, NoJob DEF Serves, Serving, MMServes
<1>7. p = FS => \A u \in Users : ~ Awaits(k, u, FS)
  BY <1>3 DEF Serves, Serving, FSServes, FSKnows, HeardFrom
<1>8. p \in Servers => \A t \in Tasks : Receiving(k, t)
  BY <1>1, WhoRuns, KernelAssumption
<1> QED
  BY <1>1, <1>2, <1>3, <1>4, <1>5, <1>6, <1>7, <1>8 DEF Serves, Idle

\* There is no message for it.
LEMMA ListenSleeps ==
  ASSUME Closed, NEW k, Stable(k), NEW s, NEW h, NEW a, Serves(k, s, h, a),
         NEW p \in Programs, k.proc_ptr = p, s[p] = << >>, p \notin h,
         NEW r,
         r.flags = [k.flags EXCEPT ![p] = @ \cup {"RECEIVING"}],
         r.getfrom = [k.getfrom EXCEPT ![p] = ANY],
         r.callerq = k.callerq, r.messbuf = k.messbuf, r.intBlocked = k.intBlocked,
         SameSignals(k, r)
  PROVE  Serving(r, s, h \cup {p}, a) /\ ~ Heard(r, h \cup {p}, SYSTASK)
<1> DEFINE h2 == h \cup {p}
<1>0. k \in Kernels
  BY DEF Stable, Consistent
<1>1. /\ s[SYSTASK] = << >> /\ s[CLOCK] = << >> /\ ~ Heard(k, h, SYSTASK)
      /\ ~ Receiving(k, p) /\ ~ Sending(k, p) /\ k.flags[p] = {} /\ p \notin k.empty
      /\ p \in Procs /\ p \in Senders /\ p \notin Users /\ p # ANY /\ p # HARDWARE
      /\ Todo(k, s, h, p) = << >>
      /\ \A d \in Programs : p \in Servers => ~ HeardFrom(k, h, d, p)
      /\ \A e : ~ Awaits(k, p, e)
      /\ p = MM => NoneTold(k)
      /\ p = FS => \A u \in Users : ~ Awaits(k, u, FS)
      /\ h \subseteq Programs /\ s \in [Programs -> Seq(Entries)]
      /\ Serving(k, s, h, a)
  <2>1. Idle(k, s, h, p) /\ Serving(k, s, h, a)
    BY IdleProgram
  <2> QED  BY <2>1 DEF Idle, Serving
<1>2. /\ r.flags[p] = {"RECEIVING"} /\ r.getfrom[p] = ANY
      /\ \A q \in Procs \ {p} : r.getfrom[q] = k.getfrom[q]
      /\ \A q \in Senders \ {p} : r.flags[q] = k.flags[q]
      /\ r.messbuf = k.messbuf /\ r.callerq = k.callerq /\ r.intBlocked = k.intBlocked
      /\ r.empty = k.empty /\ r.pending = k.pending /\ r.pendcount = k.pendcount
  BY <1>0, <1>1 DEF Kernels, SameSignals
<1>3. /\ Receiving(r, p) /\ ~ Sending(r, p)
      /\ \A q \in Procs \ {p} : Receiving(r, q) <=> Receiving(k, q)
      /\ \A q \in Procs : Sending(r, q) <=> Sending(k, q)
  BY <1>1, <1>2, ProgramKinds DEF Receiving, Sending
<1>4. /\ \A q \in Programs : q \in Procs
      /\ MM \in Programs /\ FS \in Programs /\ SYSTASK \in Programs
      /\ CLOCK \in Programs /\ DISK \in Programs /\ MM # FS
      /\ MM \in Servers /\ FS \in Servers /\ DISK \notin Servers
      /\ \A q \in Procs : q # ANY /\ q # HARDWARE
      /\ \A q \in Users : q \in Procs /\ q \in Senders /\ q # p
      /\ \A q \in Servers : q \in Procs /\ q \in Programs
  BY <1>1, ProgramKinds
<1>5. \A q \in Programs : Heard(r, h2, q) <=> Heard(k, h, q)
  BY <1>1, <1>3, <1>4 DEF Heard
<1>6. /\ \A q \in Procs \ {p} : \A e : Awaits(r, q, e) <=> Awaits(k, q, e)
      /\ \A q \in Procs \ {p} : \A e : AwaitsAlive(r, q, e) <=> AwaitsAlive(k, q, e)
      /\ \A q \in Servers : \A e : Due(r, h2, q, e) <=> Due(k, h, q, e)
  <2>1. \A q \in Procs \ {p} : \A e : Awaits(r, q, e) <=> Awaits(k, q, e)
    BY <1>2, <1>3 DEF Awaits
  <2>2. \A e : ~ Due(r, h2, p, e) /\ ~ Due(k, h, p, e)
    BY <1>1 DEF Due
  <2>3. \A q \in Servers : q # p => \A e : Due(r, h2, q, e) <=> Due(k, h, q, e)
    BY <1>4, <2>1 DEF Due
  <2> QED  BY <1>2, <2>1, <2>2, <2>3 DEF AwaitsAlive
<1>7. \A d \in Programs : \A q : HeardFrom(r, h2, d, q) <=> HeardFrom(k, h, d, q)
  BY <1>2, <1>5 DEF HeardFrom
<1>8. LoopsKept(r, s, h2)
  <2> SUFFICES ASSUME NEW q \in Programs
               PROVE  /\ q \in h2 => s[q] = << >>
                      /\ q \in h2 /\ Receiving(r, q) => r.getfrom[q] = ANY
                      /\ q \notin h2 /\ Receiving(r, q) =>
                           \/ q = DISK /\ r.getfrom[q] = HARDWARE
                           \/ q \in Servers /\ r.getfrom[q] \in Programs \ {MM}
                      /\ Sending(r, q) =>
                           q = MM /\ MM \notin h2 /\ Receiving(r, MM) /\ r.getfrom[MM] = FS
    BY DEF LoopsKept
  <2>1. CASE q = p
    BY <1>1, <1>2, <1>3, <2>1
  <2>2. CASE q # p
    BY <1>1, <1>2, <1>3, <1>4, <2>2 DEF Serving, LoopsKept
  <2> QED  BY <2>1, <2>2
<1>9. UsersCall(r)
  BY <1>1, <1>2, <1>3, <1>4 DEF Serving, UsersCall
<1>10. RequestsHeld(r, h2)
  <2> SUFFICES ASSUME NEW d \in Programs, NEW q \in Servers, HeardFrom(r, h2, d, q)
               PROVE  Due(r, h2, q, d) /\ r.messbuf[d].body = r.messbuf[q].body
    BY DEF RequestsHeld
  <2>1. HeardFrom(k, h, d, q)
    BY <1>7
  <2>2. RequestsHeld(k, h)
    BY <1>1 DEF Serving
  <2>3. Due(k, h, q, d) /\ k.messbuf[d].body = k.messbuf[q].body
    BY <2>1, <2>2 DEF RequestsHeld
  <2> QED  BY <1>2, <1>6, <2>3
<1>11. SysTaskServes(r, s, h2)
  BY <1>1, <1>4, <1>5 DEF SysTaskServes
<1>12. ClockServes(r, s, h2, a)
  <2>1. Len(s[CLOCK]) = 0
    BY <1>1
  <2>2. \A i \in 1..Len(s[CLOCK]) : FALSE
    BY <2>1
  <2>3. ClockServes(k, s, h, a)
    BY <1>1 DEF Serving
  <2> QED  BY <1>2, <1>4, <1>5, <2>2, <2>3 DEF ClockServes
<1>13. DiskServes(r, s, h2)
  <2>1. CASE p = DISK
    BY <1>1, <1>2, <1>4, <1>5, <2>1 DEF DiskServes, Heard
  <2>2. CASE p # DISK
    BY <1>1, <1>2, <1>3, <1>4, <1>5, <1>6, <2>2 DEF Serving, DiskServes
  <2> QED  BY <2>1, <2>2
<1>14. KnowledgeKept(k, r)
  BY <1>2 DEF KnowledgeKept, Knows
<1>15. \A q \in Servers : Todo(r, s, h2, q) = Todo(k, s, h, q)
  <2> SUFFICES ASSUME NEW q \in Servers
               PROVE  Todo(r, s, h2, q) = Todo(k, s, h, q)
    OBVIOUS
  <2>1. CASE q = p
    BY <1>1, <2>1 DEF Todo, Undone
  <2>2. CASE q # p
    <3>1. q \in Procs /\ q \in Programs
      BY <1>4
    <3>2. q \notin h /\ Receiving(k, q) => k.getfrom[q] \in Programs
      BY <1>1, <1>4, <3>1 DEF Serving, LoopsKept
    <3>3. Undone(r, h2, q) <=> Undone(k, h, q)
      BY <1>2, <1>3, <1>7, <2>2, <3>1, <3>2 DEF Undone
    <3> QED  BY <1>2, <2>2, <3>1, <3>3, Zenon DEF Todo
  <2> QED  BY <2>1, <2>2
<1>16. MMServes(r, s, h2)
  <2>1. CASE p = MM
    <3>1. NoneTold(r)
      BY <1>1, <1>2, <2>1 DEF NoneTold, Knows
    <3>2. Todo(r, s, h2, MM) = << >> /\ ~ Heard(r, h2, MM)
      BY <1>1, <1>3, <1>4, <1>15, <2>1 DEF Heard
    <3> QED  BY <3>1, <3>2, NoJob DEF MMServes
  <2>2. CASE p # MM
    <3>1. MM \in Procs
      BY <1>4
    <3>2. \A v \in Users \ k.empty :
            /\ Awaits(k, v, MM) => Awaits(r, v, MM)
            /\ "SIG_PENDING" \in k.flags[v] => "SIG_PENDING" \in r.flags[v]
            /\ Stopped(k, v) /\ FarFromFS(k, v) => FarFromFS(r, v)
      BY <1>2, <1>3, <1>4, <1>6 DEF FarFromFS
    <3>3. MMFrame(k, s, h, r, s, h2)
      BY <1>2, <1>3, <1>4, <1>5, <1>7, <1>14, <1>15, <2>2, <3>1, <3>2 DEF MMFrame, InOrder
    <3> QED  BY <1>1, <1>4, <3>3, MMKept DEF Serving
  <2> QED  BY <2>1, <2>2
<1>17. FSServes(r, s, h2)
  <2>1. FSFrame(k, s, h, r, s, h2)
    BY <1>2, <1>4, <1>5, <1>6, <1>15 DEF FSFrame
  <2> QED  BY <1>1, <2>1, FSKept DEF Serving
<1> QED
  BY <1>1, <1>2, <1>4, <1>5, <1>8, <1>9, <1>10, <1>11, <1>12, <1>13, <1>16, <1>17 DEF Serving

\* What is left of the interrupt for a task is taken.
LEMMA ListenInterrupted ==
  ASSUME Closed, NEW k, Stable(k), NEW s, NEW h, NEW a, Serves(k, s, h, a),
         NEW p \in Tasks, p # SYSTASK, k.proc_ptr = p, s[p] = << >>, p \notin h,
         NEW r,
         r.messbuf = [k.messbuf EXCEPT
                        ![p] = [source |-> HARDWARE, body |-> <<"HARD_INT">>]],
         r.flags = k.flags, r.getfrom = k.getfrom, r.callerq = k.callerq,
         r.intBlocked = k.intBlocked \ {p}, SameSignals(k, r)
  PROVE  Serving(r, s, h \cup {p}, a) /\ ~ Heard(r, h \cup {p}, SYSTASK)
<1> DEFINE h2 == h \cup {p}
<1>0. k \in Kernels /\ p \in Programs /\ p \notin Servers /\ p # MM /\ p # FS
  BY ProgramKinds DEF Stable, Consistent, Programs
<1>1. /\ s[SYSTASK] = << >> /\ s[CLOCK] = << >> /\ ~ Heard(k, h, SYSTASK)
      /\ ~ Receiving(k, p) /\ ~ Sending(k, p) /\ k.flags[p] = {} /\ p \notin k.empty
      /\ p \in Procs /\ p \in Senders /\ p \notin Users /\ p # ANY /\ p # HARDWARE
      /\ h \subseteq Programs /\ s \in [Programs -> Seq(Entries)]
      /\ Serving(k, s, h, a)
  <2>1. Idle(k, s, h, p) /\ Serving(k, s, h, a)
    BY <1>0, IdleProgram
  <2> QED  BY <2>1 DEF Idle, Serving
<1>2. /\ r.messbuf[p].source = HARDWARE /\ r.messbuf[p].body = <<"HARD_INT">>
      /\ \A q \in Procs \ {p} : r.messbuf[q] = k.messbuf[q]
      /\ r.getfrom = k.getfrom /\ r.flags = k.flags /\ r.callerq = k.callerq
      /\ r.empty = k.empty /\ r.pending = k.pending /\ r.pendcount = k.pendcount
  BY <1>0, <1>1 DEF Kernels, SameSignals
<1>3. \A q : /\ Receiving(r, q) <=> Receiving(k, q)
             /\ Sending(r, q) <=> Sending(k, q)
             /\ \A e : Awaits(r, q, e) <=> Awaits(k, q, e)
             /\ \A e : AwaitsAlive(r, q, e) <=> AwaitsAlive(k, q, e)
             /\ FarFromFS(r, q) <=> FarFromFS(k, q)
             /\ Stopped(r, q) <=> Stopped(k, q)
  BY <1>2 DEF Receiving, Sending, Awaits, AwaitsAlive, FarFromFS, Stopped
<1>4. /\ \A q \in Programs : q \in Procs
      /\ MM \in Programs /\ FS \in Programs /\ SYSTASK \in Programs
      /\ CLOCK \in Programs /\ DISK \in Programs /\ MM # FS
      /\ MM \in Servers /\ FS \in Servers /\ DISK \notin Servers
      /\ \A q \in Procs : q # ANY /\ q # HARDWARE
      /\ \A q \in Users : q \in Procs /\ q \in Senders /\ q # p
      /\ \A q \in Servers : q \in Procs /\ q \in Programs /\ q # p
  BY <1>0, <1>1, ProgramKinds
<1>5. \A q \in Programs : q # p => (Heard(r, h2, q) <=> Heard(k, h, q))
  BY <1>3 DEF Heard
<1>6. \A q \in Servers : \A e : Due(r, h2, q, e) <=> Due(k, h, q, e)
  BY <1>3, <1>4 DEF Due
<1>7. \A d \in Programs, q \in Procs : HeardFrom(r, h2, d, q) <=> HeardFrom(k, h, d, q)
  <2> SUFFICES ASSUME NEW d \in Programs, NEW q \in Procs
               PROVE  HeardFrom(r, h2, d, q) <=> HeardFrom(k, h, d, q)
    OBVIOUS
  <2>1. CASE d = p
    BY <1>2, <1>4, <2>1 DEF HeardFrom, Heard
  <2>2. CASE d # p
    BY <1>2, <1>4, <1>5, <2>2 DEF HeardFrom
  <2> QED  BY <2>1, <2>2
<1>8. LoopsKept(r, s, h2)
  BY <1>1, <1>2, <1>3, <1>4 DEF Serving, LoopsKept
<1>9. UsersCall(r)
  BY <1>1, <1>2, <1>3, <1>4 DEF Serving, UsersCall
<1>10. RequestsHeld(r, h2)
  <2> SUFFICES ASSUME NEW d \in Programs, NEW q \in Servers, HeardFrom(r, h2, d, q)
               PROVE  Due(r, h2, q, d) /\ r.messbuf[d].body = r.messbuf[q].body
    BY DEF RequestsHeld
  <2>1. HeardFrom(k, h, d, q) /\ d # p /\ d \in Procs /\ q \in Procs /\ q # p
    BY <1>2, <1>4, <1>7 DEF HeardFrom
  <2>2. RequestsHeld(k, h)
    BY <1>1 DEF Serving
  <2>3. Due(k, h, q, d) /\ k.messbuf[d].body = k.messbuf[q].body
    BY <2>1, <2>2 DEF RequestsHeld
  <2> QED  BY <1>2, <1>6, <2>1, <2>3
<1>11. SysTaskServes(r, s, h2)
  BY <1>1, <1>4, <1>5 DEF SysTaskServes
<1>12. ClockServes(r, s, h2, a)
  <2>1. Len(s[CLOCK]) = 0
    BY <1>1
  <2>2. \A i \in 1..Len(s[CLOCK]) : FALSE
    BY <2>1
  <2>3. ClockServes(k, s, h, a)
    BY <1>1 DEF Serving
  <2>4. Heard(r, h2, CLOCK) =>
          \/ r.messbuf[CLOCK].source = MM
          \/ r.messbuf[CLOCK].source = HARDWARE /\ r.messbuf[CLOCK].body = <<"HARD_INT">>
    BY <1>2, <1>4, <1>5, <2>3 DEF ClockServes
  <2> QED  BY <1>2, <2>2, <2>3, <2>4 DEF ClockServes
<1>13. DiskServes(r, s, h2)
  <2>1. DiskServes(k, s, h)
    BY <1>1 DEF Serving
  <2>2. CASE p = DISK
    <3>1. s[DISK] = << >> /\ DISK \in h2
      BY <2>2
    <3> QED  BY <1>2, <2>2, <3>1 DEF DiskServes
  <2>3. CASE p # DISK
    BY <1>2, <1>3, <1>4, <1>5, <1>6, <2>1, <2>3 DEF DiskServes
  <2> QED  BY <2>2, <2>3
<1>14. KnowledgeKept(k, r)
  BY <1>2 DEF KnowledgeKept, Knows
<1>15. \A q \in Servers : Todo(r, s, h2, q) = Todo(k, s, h, q)
  <2> SUFFICES ASSUME NEW q \in Servers
               PROVE  Todo(r, s, h2, q) = Todo(k, s, h, q)
    OBVIOUS
  <2>1. q \in Procs /\ q \in Programs /\ q # p
    BY <1>4
  <2>2. q \notin h /\ Receiving(k, q) => k.getfrom[q] \in Programs
    BY <1>1, <1>4, <2>1 DEF Serving, LoopsKept
  <2>3. Undone(r, h2, q) <=> Undone(k, h, q)
    BY <1>2, <1>3, <1>7, <2>1, <2>2 DEF Undone
  <2> QED  BY <1>2, <2>1, <2>3, Zenon DEF Todo
<1>16. MMServes(r, s, h2)
  <2>1. MM \in Procs /\ MM # p
    BY <1>4
  <2>2. MMFrame(k, s, h, r, s, h2)
    BY <1>2, <1>3, <1>4, <1>5, <1>7, <1>14, <1>15, <2>1 DEF MMFrame, InOrder
  <2> QED  BY <1>1, <1>4, <2>2, MMKept DEF Serving
<1>17. FSServes(r, s, h2)
  <2>1. FSFrame(k, s, h, r, s, h2)
    BY <1>2, <1>3, <1>4, <1>5, <1>6, <1>15 DEF FSFrame
  <2> QED  BY <1>1, <2>1, FSKept DEF Serving
<1>18. ~ Heard(r, h2, SYSTASK) /\ SYSTASK \notin r.intBlocked
  BY <1>1, <1>4, <1>5 DEF Serving
<1> QED
  BY <1>0, <1>1, <1>8, <1>9, <1>10, <1>11, <1>12, <1>13, <1>16, <1>17, <1>18 DEF Serving

\* Who is behind the first of a queue stays in its order when that one goes.
LEMMA BeforeStaysBehind ==
  ASSUME NEW S, NEW q \in Seq(S), q # << >>, QueuedOnce(q), NEW u, NEW v, Before(q, u, v)
  PROVE  Before(Without(q, Head(q)), u, v)
<1> DEFINE e == Head(q)
           w == Without(q, e)
<1>1. Len(q) \in Nat /\ DOMAIN q = 1..Len(q) /\ 1 \in DOMAIN q /\ e = q[1]
  BY EmptySeq
<1>2. Position(q, e) = 1
  <2>1. \A i \in DOMAIN q : q[i] = e <=> i = 1
    BY <1>1 DEF QueuedOnce
  <2> HIDE DEF e
  <2> QED  BY <1>1, <2>1 DEF Position
<1>3. w = [j \in 1..(Len(q) - 1) |-> q[j + 1]]
  BY <1>1, <1>2 DEF Without, Members
<1> HIDE DEF w
<1>4. /\ DOMAIN w = 1..(Len(q) - 1)
      /\ \A j \in 1..(Len(q) - 1) : w[j] = q[j + 1] /\ j + 1 \in 1..Len(q)
  BY <1>1, <1>3
<1>5. Before(w, u, v)
  <2> SUFFICES ASSUME NEW i \in 1..(Len(q) - 1), NEW j \in 1..(Len(q) - 1),
                      w[i] = u, w[j] = v
               PROVE  i < j
    BY <1>4 DEF Before
  <2>1. q[i + 1] = u /\ q[j + 1] = v /\ i + 1 \in 1..Len(q) /\ j + 1 \in 1..Len(q)
    BY <1>4
  <2>2. i + 1 < j + 1
    BY <1>1, <2>1 DEF Before
  <2> QED  BY <1>1, <2>2
<1> QED
  BY <1>5 DEF w

\* A server takes the message of the first in its queue.
LEMMA ListenTakes ==
  ASSUME Closed, NEW k, Stable(k), NEW s, NEW h, NEW a, Serves(k, s, h, a),
         NEW p \in Servers, k.proc_ptr = p, s[p] = << >>, p \notin h,
         k.callerq[p] # << >>
  PROVE  LET r == MiniRec(k, p, ANY)
         IN  Serving(r, s, h \cup {p}, a) /\ ~ Heard(r, h \cup {p}, SYSTASK)
<1> DEFINE h2 == h \cup {p}
           r == MiniRec(k, p, ANY)
           v == Head(k.callerq[p])
<1>0. k \in Kernels /\ p \in Programs /\ p \notin Tasks /\ ReadyQueuesExact(k) /\ KindsKept(k)
  BY ProgramKinds DEF Stable, Consistent, Programs
<1>1. /\ s[SYSTASK] = << >> /\ s[CLOCK] = << >> /\ ~ Heard(k, h, SYSTASK)
      /\ ~ Receiving(k, p) /\ ~ Sending(k, p) /\ k.flags[p] = {} /\ p \notin k.empty
      /\ p \in Procs /\ p \in Senders /\ p \notin Users /\ p # ANY /\ p # HARDWARE
      /\ Todo(k, s, h, p) = << >>
      /\ \A d \in Programs : ~ HeardFrom(k, h, d, p)
      /\ \A e : ~ Awaits(k, p, e)
      /\ p = MM => NoneTold(k)
      /\ p = FS => \A u \in Users : ~ Awaits(k, u, FS)
      /\ h \subseteq Programs /\ s \in [Programs -> Seq(Entries)]
      /\ Serving(k, s, h, a)
  <2>1. Idle(k, s, h, p) /\ Serving(k, s, h, a)
    BY <1>0, IdleProgram
  <2> QED  BY <2>1 DEF Idle, Serving
<1>2. Takes(k, r, p, v)
  <2>1. p \in Procs /\ k.flags[p] = {}
    BY <1>1
  <2> QED  BY <2>1, Taken
<1>3. v \in Members(k.callerq[p])
  <2>1. k.callerq[p] \in Seq(Senders)
    BY <1>0, <1>1 DEF Kernels
  <2> QED  BY <2>1, HeadIsMember
<1> HIDE DEF r
<1>4. /\ v \in Procs /\ v \in Senders /\ Sending(k, v) /\ Receiving(k, v) /\ k.getfrom[v] = p
      /\ v \in Users \cup {MM} /\ v # p
      /\ v = MM => p = FS
      /\ v \notin k.empty
  <2>1. /\ v \in Procs /\ Sending(k, v) /\ Receiving(k, v) /\ k.getfrom[v] = p
        /\ v \in Users \cup {MM}
        /\ v = MM => p = FS
    BY <1>1, <1>3, WhoIsQueued
  <2> HIDE DEF v
  <2> QED  BY <1>0, <1>1, <2>1, ProgramKinds DEF KindsKept, Sending
<1>5. /\ r.callerq[FS] \in {k.callerq[FS], Without(k.callerq[FS], v)}
      /\ k.callerq[FS] # r.callerq[FS] => p = FS
  <2>1. FS \in Procs /\ DOMAIN k.callerq = Procs
    BY <1>0, ProgramKinds DEF Kernels
  <2> HIDE DEF v
  <2> QED  BY <1>2, <2>1 DEF Takes
<1> HIDE DEF v
<1>6. /\ r.messbuf[p].source = v /\ r.messbuf[p].body = k.messbuf[v].body
      /\ \A q \in Procs \ {p} : r.messbuf[q] = k.messbuf[q]
      /\ r.flags[v] = k.flags[v] \ {"SENDING"}
      /\ \A q \in Senders \ {v} : r.flags[q] = k.flags[q]
      /\ r.getfrom = k.getfrom
      /\ r.empty = k.empty /\ r.pending = k.pending /\ r.pendcount = k.pendcount
  BY <1>0, <1>1, <1>2, <1>4 DEF Kernels, SameSignals, Takes
<1>7. /\ \A q \in Procs : Receiving(r, q) <=> Receiving(k, q)
      /\ \A q \in Procs \ {v} : Sending(r, q) <=> Sending(k, q)
      /\ ~ Sending(r, v)
  BY <1>4, <1>6, ProgramKinds DEF Receiving, Sending
<1>8. /\ \A q \in Programs : q \in Procs
      /\ MM \in Programs /\ FS \in Programs /\ SYSTASK \in Programs
      /\ CLOCK \in Programs /\ DISK \in Programs /\ MM # FS
      /\ SYSTASK # p /\ CLOCK # p /\ DISK # p
      /\ MM \in Servers /\ FS \in Servers /\ DISK \notin Servers /\ Servers = {MM, FS}
      /\ \A q \in Procs : q # ANY /\ q # HARDWARE
      /\ \A q \in Users : q \in Procs /\ q \in Senders /\ q # p /\ q # MM /\ q \notin Programs
      /\ \A q \in Servers : q \in Procs /\ q \in Programs
  BY <1>1, ProgramKinds
<1>9. \A q \in Programs : q # p => (Heard(r, h2, q) <=> Heard(k, h, q))
  BY <1>7, <1>8 DEF Heard
<1>10. Heard(r, h2, p) /\ ~ Heard(k, h, p)
  BY <1>1, <1>7 DEF Heard
<1>11. /\ \A q \in Procs \ {v} : \A e : Awaits(r, q, e) <=> Awaits(k, q, e)
       /\ \A e : ~ Awaits(k, v, e) /\ (Awaits(r, v, e) <=> e = p)
       /\ \A q \in Procs : \A e : AwaitsAlive(k, q, e) => AwaitsAlive(r, q, e)
       /\ AwaitsAlive(r, v, p)
  BY <1>4, <1>6, <1>7 DEF Awaits, AwaitsAlive
<1>12. /\ \A q \in Servers : \A e : Due(k, h, q, e) => Due(r, h2, q, e)
       /\ v = MM => Due(r, h2, MM, FS)
  <2>1. v = MM => MM \notin h2
    BY <1>1, <1>4, <1>8 DEF Serving, LoopsKept
  <2> QED  BY <1>1, <1>4, <1>8, <1>11, <2>1 DEF Due
<1>13. /\ \A d \in Programs : \A q : d # p => (HeardFrom(r, h2, d, q) <=> HeardFrom(k, h, d, q))
       /\ \A q : ~ HeardFrom(k, h, p, q) /\ (HeardFrom(r, h2, p, q) <=> q = v)
  BY <1>6, <1>8, <1>9, <1>10 DEF HeardFrom
<1>14. LoopsKept(r, s, h2)
  <2>1. LoopsKept(k, s, h)
    BY <1>1 DEF Serving
  <2> SUFFICES ASSUME NEW q \in Programs
               PROVE  /\ q \in h2 => s[q] = << >>
                      /\ q \in h2 /\ Receiving(r, q) => r.getfrom[q] = ANY
                      /\ q \notin h2 /\ Receiving(r, q) =>
                           \/ q = DISK /\ r.getfrom[q] = HARDWARE
                           \/ q \in Servers /\ r.getfrom[q] \in Programs \ {MM}
                      /\ Sending(r, q) =>
                           q = MM /\ MM \notin h2 /\ Receiving(r, MM) /\ r.getfrom[MM] = FS
    BY DEF LoopsKept
  <2>2. CASE q = p
    BY <1>1, <1>4, <1>6, <1>7, <2>2
  <2>3. CASE q # p
    BY <1>1, <1>6, <1>7, <1>8, <2>1, <2>3 DEF LoopsKept
  <2> QED  BY <2>2, <2>3
<1>15. UsersCall(r)
  <2>1. UsersCall(k)
    BY <1>1 DEF Serving
  <2>2. \A u \in Users : Sending(r, u) => Sending(k, u)
    BY <1>7, <1>8
  <2> QED  BY <1>6, <1>7, <1>8, <2>1, <2>2 DEF UsersCall
<1>16. RequestsHeld(r, h2)
  <2> SUFFICES ASSUME NEW d \in Programs, NEW q \in Servers, HeardFrom(r, h2, d, q)
               PROVE  Due(r, h2, q, d) /\ r.messbuf[d].body = r.messbuf[q].body
    BY DEF RequestsHeld
  <2>1. CASE d = p
    <3>1. q = v /\ q = MM /\ p = FS
      BY <1>4, <1>8, <1>13, <2>1
    <3> QED  BY <1>4, <1>6, <1>12, <2>1, <3>1
  <2>2. CASE d # p
    <3>1. HeardFrom(k, h, d, q) /\ q # p /\ q \in Procs /\ d \in Procs
      BY <1>1, <1>8, <1>13, <2>2
    <3>2. RequestsHeld(k, h)
      BY <1>1 DEF Serving
    <3>3. Due(k, h, q, d) /\ k.messbuf[d].body = k.messbuf[q].body
      BY <3>1, <3>2 DEF RequestsHeld
    <3> QED  BY <1>6, <1>12, <2>2, <3>1, <3>3
  <2> QED  BY <2>1, <2>2
<1>17. SysTaskServes(r, s, h2) /\ ~ Heard(r, h2, SYSTASK)
  BY <1>1, <1>8, <1>9 DEF SysTaskServes
<1>18. ClockServes(r, s, h2, a)
  <2>1. Len(s[CLOCK]) = 0
    BY <1>1
  <2>2. \A i \in 1..Len(s[CLOCK]) : FALSE
    BY <2>1
  <2>3. ClockServes(k, s, h, a)
    BY <1>1 DEF Serving
  <2>4. CLOCK # p /\ CLOCK \in Procs
    BY <1>8
  <2> QED  BY <1>6, <1>8, <1>9, <2>2, <2>3, <2>4 DEF ClockServes
<1>19. DiskServes(r, s, h2)
  <2>1. DiskServes(k, s, h)
    BY <1>1 DEF Serving
  <2> QED  BY <1>6, <1>7, <1>8, <1>9, <1>12, <2>1 DEF DiskServes
<1>20. KnowledgeKept(k, r)
  BY <1>6 DEF KnowledgeKept, Knows
<1>21. \A q \in Servers : q # p => Todo(r, s, h2, q) = Todo(k, s, h, q)
  <2> SUFFICES ASSUME NEW q \in Servers, q # p
               PROVE  Todo(r, s, h2, q) = Todo(k, s, h, q)
    OBVIOUS
  <2>1. q \in Procs /\ q \in Programs
    BY <1>8
  <2>2. q \notin h /\ Receiving(k, q) => k.getfrom[q] \in Programs
    BY <1>1, <1>8, <2>1 DEF Serving, LoopsKept
  <2>3. Undone(r, h2, q) <=> Undone(k, h, q)
    <3>1. CASE q = v
      <4>1. Undone(k, h, q)
        BY <1>1, <1>4, <1>8, <2>1, <3>1 DEF Undone, Serving, LoopsKept
      <4>2. HeardFrom(r, h2, r.getfrom[q], q) /\ Receiving(r, q) /\ q \notin h2
        <5>1. r.getfrom[q] = p /\ HeardFrom(r, h2, p, q)
          BY <1>4, <1>6, <1>13, <3>1
        <5> QED  BY <1>4, <1>7, <2>1, <3>1, <4>1, <5>1 DEF Undone
      <4> QED  BY <4>1, <4>2 DEF Undone
    <3>2. CASE q # v
      BY <1>6, <1>7, <1>13, <2>1, <2>2, <3>2 DEF Undone
    <3> QED  BY <3>1, <3>2
  <2> QED  BY <1>6, <2>1, <2>3, Zenon DEF Todo
<1>22. MMServes(r, s, h2)
  <2>1. CASE p = MM
    <3>1. NoneTold(r)
      BY <1>1, <1>6, <2>1 DEF NoneTold, Knows
    <3>2. v \in Users /\ <<MM, k.messbuf[v].body>> \in UserCalls
      <4>1. v \in Users
        BY <1>4, <2>1, <1>8
      <4>2. UsersCall(k)
        BY <1>1 DEF Serving
      <4> QED  BY <1>4, <2>1, <4>1, <4>2 DEF UsersCall
    <3>3. MMMessage(r)
      BY <1>6, <1>11, <2>1, <3>1, <3>2 DEF MMMessage
    <3> QED  BY <1>10, <2>1, <3>3 DEF MMServes
  <2>2. CASE p = FS
    <3>1. MM \in Procs /\ p # MM
      BY <1>8, <2>2
    <3>2. \A u \in Users \ k.empty :
            /\ Awaits(k, u, MM) => Awaits(r, u, MM)
            /\ "SIG_PENDING" \in k.flags[u] => "SIG_PENDING" \in r.flags[u]
            /\ FarFromFS(k, u) => FarFromFS(r, u)
      BY <1>4, <1>6, <1>7, <1>8, <1>11 DEF FarFromFS
    <3>3. k.callerq[FS] \in Seq(Senders) /\ QueuedOnce(k.callerq[FS])
      <4>1. CallersExact(k) /\ FS \in Procs
        BY <1>8 DEF Stable, Consistent, Linked
      <4> QED  BY <1>0, <4>1 DEF Kernels, CallersExact
    <3>4. \A u : Before(k.callerq[FS], u, MM) => Before(r.callerq[FS], u, MM)
      BY <1>5, <2>2, <3>3, BeforeStaysBehind DEF v
    <3>5. ASSUME v = MM, NEW u \in Users, Before(k.callerq[FS], u, MM)
          PROVE  FarFromFS(r, u)
      <4>1. \A i \in DOMAIN k.callerq[FS] : i \in Nat /\ i >= 1
        BY <3>3
      <4>2. 1 \in DOMAIN k.callerq[FS] /\ k.callerq[FS][1] = MM
        BY <2>2, <3>3, <3>5, EmptySeq DEF v
      <4>3. u \notin Members(k.callerq[FS])
        BY <3>5, <4>1, <4>2 DEF Before, Members
      <4>4. ~ (Sending(k, u) /\ k.getfrom[u] = FS)
        BY <1>8, <4>3, WhoIsQueued
      <4>5. ~ (Receiving(k, u) /\ k.getfrom[u] = FS)
        BY <1>1, <2>2, <4>4 DEF Awaits
      <4> QED  BY <1>6, <1>7, <1>8, <4>5 DEF FarFromFS
    <3>6. HeardFrom(r, h2, FS, MM) => v = MM /\ Sending(k, MM)
      BY <1>4, <1>13, <2>2
    <3>7. Sending(r, MM) => Sending(k, MM)
      BY <1>7, <3>1
    <3>8. MMFrame(k, s, h, r, s, h2)
      BY <1>6, <1>8, <1>9, <1>20, <1>21, <3>1, <3>2, <3>4, <3>5, <3>6, <3>7 DEF MMFrame, InOrder
    <3> QED  BY <1>1, <1>8, <3>8, MMKept DEF Serving
  <2> QED  BY <1>8, <2>1, <2>2
<1>23. FSServes(r, s, h2)
  <2>1. CASE p = FS
    <3>1. FSMessage(r)
      <4>1. CASE v = MM
        BY <1>6, <2>1, <4>1 DEF FSMessage
      <4>2. CASE v \in Users
        <5>1. UsersCall(k)
          BY <1>1 DEF Serving
        <5>2. <<FS, k.messbuf[v].body>> \in UserCalls
          BY <1>4, <2>1, <4>2, <5>1 DEF UsersCall
        <5> QED  BY <1>6, <1>11, <2>1, <4>2, <5>2 DEF FSMessage
      <4> QED  BY <1>4, <4>1, <4>2
    <3>2. \A u \in Users : Awaits(r, u, FS) => u = v
      BY <1>1, <1>8, <1>11, <2>1
    <3>3. FSKnows(r, s, h2)
      BY <1>13, <2>1, <3>2 DEF FSKnows
    <3> QED  BY <1>10, <2>1, <3>1, <3>3 DEF FSServes
  <2>2. CASE p # FS
    <3>1. /\ \A u \in Users : Awaits(r, u, FS) => Awaits(k, u, FS)
          /\ \A u \in Users : AwaitsAlive(k, u, FS) => AwaitsAlive(r, u, FS)
      BY <1>8, <1>11, <2>2
    <3>2. FSFrame(k, s, h, r, s, h2)
      BY <1>6, <1>8, <1>9, <1>12, <1>21, <2>2, <3>1 DEF FSFrame
    <3> QED  BY <1>1, <3>2, FSKept DEF Serving
  <2> QED  BY <2>1, <2>2
<1> QED
  BY <1>0, <1>1, <1>2, <1>14, <1>15, <1>16, <1>17, <1>18, <1>19, <1>22, <1>23
  DEF Serving, Takes, r

\* MM waits for any message and is told of the signals of u.
LEMMA TellingServes ==
  ASSUME Closed, NEW k, k \in Kernels, NEW s, NEW h, NEW a, Serving(k, s, h, a),
         ~ Heard(k, h, SYSTASK), MM \in h, Receiving(k, MM),
         NEW u \in Users, u \notin k.empty, "SIG_PENDING" \in k.flags[u],
         NEW r, TellsMM(k, r, u)
  PROVE  Serving(r, s, h, a) /\ ~ Heard(r, h, SYSTASK)
<1>1. /\ s[MM] = << >> /\ k.getfrom[MM] = ANY /\ ~ Heard(k, h, MM) /\ ~ Undone(k, h, MM)
      /\ ~ Sending(k, MM)
      /\ Todo(k, s, h, MM) = << >> /\ NoneTold(k)
  BY NothingToDo, ProgramKinds
<1>2. /\ \A q \in Programs : q \in Procs
      /\ MM \in Programs /\ FS \in Programs /\ SYSTASK \in Programs
      /\ CLOCK \in Programs /\ DISK \in Programs /\ MM # FS
      /\ MM # CLOCK /\ MM # DISK /\ MM # SYSTASK
      /\ SYSTASK # CLOCK /\ SYSTASK # DISK /\ SYSTASK # FS
      /\ MM \in Servers /\ FS \in Servers /\ DISK \notin Servers /\ Servers = {MM, FS}
      /\ \A q \in Procs : q # ANY /\ q # HARDWARE /\ q \in Senders
      /\ \A q \in Users : q \in Procs /\ q # MM /\ q # SYSTASK /\ q \notin Programs
      /\ \A q \in Servers : q \in Procs /\ q \in Programs
      /\ h \subseteq Programs /\ s \in [Programs -> Seq(Entries)]
  BY ProgramKinds DEF Serving
<1>3. /\ r.messbuf[MM].source = HARDWARE
      /\ r.messbuf[MM].body = <<"KSIG", u, k.pending[u]>>
      /\ \A q \in Procs \ {MM, SYSTASK} : r.messbuf[q] = k.messbuf[q]
      /\ r.flags[MM] = k.flags[MM] \ {"RECEIVING"}
      /\ r.flags[u] = k.flags[u] \ {"PENDING"}
      /\ \A q \in Senders \ {u, MM} : r.flags[q] = k.flags[q]
      /\ r.getfrom = k.getfrom /\ r.callerq = k.callerq /\ r.intBlocked = k.intBlocked
      /\ r.empty = k.empty /\ r.pendcount = k.pendcount
      /\ r.pending[u] = {} /\ \A v \in Users \ {u} : r.pending[v] = k.pending[v]
      /\ k.pending[u] \in SUBSET Signals
  <2> DEFINE body == <<"KSIG", u, k.pending[u]>>
             m == [source |-> HARDWARE, body |-> body]
             e == [k.messbuf[SYSTASK] EXCEPT !.body = body]
  <2>1. /\ r.flags = [k.flags EXCEPT ![MM] = @ \ {"RECEIVING"}, ![u] = @ \ {"PENDING"}]
        /\ r.messbuf = [k.messbuf EXCEPT ![SYSTASK] = e, ![MM] = m]
        /\ r.pending = [k.pending EXCEPT ![u] = {}]
        /\ r.getfrom = k.getfrom /\ r.callerq = k.callerq /\ r.intBlocked = k.intBlocked
        /\ r.empty = k.empty /\ r.pendcount = k.pendcount
    BY Zenon DEF TellsMM
  <2>2. /\ DOMAIN k.flags = Senders /\ DOMAIN k.messbuf = Procs /\ DOMAIN k.pending = Users
        /\ k.pending[u] \in SUBSET Signals
    BY DEF Kernels
  <2>3. m.source = HARDWARE /\ m.body = <<"KSIG", u, k.pending[u]>>
    OBVIOUS
  <2>4. /\ MM \in Procs /\ MM \in Senders /\ u \in Senders /\ u # MM
    BY <1>2
  <2> HIDE DEF m, e
  <2>5. r.messbuf[MM] = m /\ \A q \in Procs \ {MM, SYSTASK} : r.messbuf[q] = k.messbuf[q]
    BY <2>1, <2>2, <2>4
  <2>6. /\ r.flags[MM] = k.flags[MM] \ {"RECEIVING"}
        /\ r.flags[u] = k.flags[u] \ {"PENDING"}
        /\ \A q \in Senders \ {u, MM} : r.flags[q] = k.flags[q]
    BY <2>1, <2>2, <2>4
  <2>7. r.pending[u] = {} /\ \A v \in Users \ {u} : r.pending[v] = k.pending[v]
    BY <2>1, <2>2
  <2> QED  BY <2>1, <2>2, <2>3, <2>5, <2>6, <2>7
<1>4. /\ ~ Receiving(r, MM)
      /\ \A q \in Procs \ {MM} : Receiving(r, q) <=> Receiving(k, q)
      /\ \A q \in Procs : Sending(r, q) <=> Sending(k, q)
      /\ \A q \in Users : "SIG_PENDING" \in r.flags[q] <=> "SIG_PENDING" \in k.flags[q]
  BY <1>2, <1>3 DEF Receiving, Sending
<1>5. /\ \A q \in Programs : q # MM => (Heard(r, h, q) <=> Heard(k, h, q))
      /\ Heard(r, h, MM)
  BY <1>2, <1>4 DEF Heard
<1>6. /\ \A q \in Procs \ {MM} : \A e : Awaits(r, q, e) <=> Awaits(k, q, e)
      /\ \A q \in Procs \ {MM} : \A e : AwaitsAlive(r, q, e) <=> AwaitsAlive(k, q, e)
      /\ \A e : ~ Due(k, h, MM, e)
  BY <1>3, <1>4 DEF Awaits, AwaitsAlive, Due
<1>7. \A q \in Servers : \A e : Due(k, h, q, e) => Due(r, h, q, e) /\ q = FS
  BY <1>2, <1>6 DEF Due
<1>8. \A d \in Programs, q \in Procs : HeardFrom(r, h, d, q) =>
        HeardFrom(k, h, d, q) /\ d # MM /\ d # SYSTASK /\ r.messbuf[d] = k.messbuf[d]
  BY <1>2, <1>3, <1>5 DEF HeardFrom
<1>9. \A d \in Programs, q \in Procs :
        HeardFrom(k, h, d, q) /\ d # MM => HeardFrom(r, h, d, q)
  BY <1>2, <1>3, <1>5 DEF HeardFrom
<1>10. LoopsKept(r, s, h)
  BY <1>2, <1>3, <1>4 DEF Serving, LoopsKept
<1>11. UsersCall(r)
  <2>1. UsersCall(k) /\ \A q \in Users : q \in Procs \ {MM, SYSTASK}
    BY <1>2 DEF Serving
  <2> QED  BY <1>3, <1>4, <2>1 DEF UsersCall
<1>12. RequestsHeld(r, h)
  <2> SUFFICES ASSUME NEW d \in Programs, NEW q \in Servers, HeardFrom(r, h, d, q)
               PROVE  Due(r, h, q, d) /\ r.messbuf[d].body = r.messbuf[q].body
    BY DEF RequestsHeld
  <2>1. HeardFrom(k, h, d, q) /\ r.messbuf[d] = k.messbuf[d] /\ q \in Procs
    BY <1>2, <1>8
  <2>2. RequestsHeld(k, h)
    BY DEF Serving
  <2>3. Due(k, h, q, d) /\ k.messbuf[d].body = k.messbuf[q].body
    BY <2>1, <2>2 DEF RequestsHeld
  <2> QED  BY <1>2, <1>3, <1>7, <2>1, <2>3
<1>13. SysTaskServes(r, s, h)
  BY <1>2, <1>5, <1>7 DEF Serving, SysTaskServes
<1>14. ClockServes(r, s, h, a)
  <2>1. ClockServes(k, s, h, a)
    BY DEF Serving
  <2>2. CLOCK \in Procs \ {MM, SYSTASK}
    BY <1>2
  <2> QED  BY <1>2, <1>3, <1>5, <1>7, <2>1, <2>2 DEF ClockServes
<1>15. DiskServes(r, s, h)
  <2>1. DiskServes(k, s, h)
    BY DEF Serving
  <2>2. DISK \in Procs \ {MM, SYSTASK}
    BY <1>2
  <2> QED  BY <1>2, <1>3, <1>4, <1>5, <1>7, <2>1, <2>2 DEF DiskServes
<1>16. MMServes(r, s, h)
  <2>1. Told(r, u, Cardinality(k.pending[u]))
    <3> SUFFICES ASSUME NEW v \in Users \ r.empty
                 PROVE  Knows(r, v, IF v = u THEN Cardinality(k.pending[u]) ELSE 0)
      BY DEF Told
    <3>1. Knows(k, v, 0)
      BY <1>1, <1>3 DEF NoneTold
    <3>2. Cardinality(k.pending[u]) \in Nat /\ Cardinality(r.pending[u]) = 0
      BY <1>3, KernelAssumption, FS_Subset, FS_CardinalityType, FS_EmptySet
    <3>3. CASE v = u
      <4>1. k.pendcount[u] = Cardinality(k.pending[u]) + 0
        BY <3>1, <3>3 DEF Knows
      <4>2. r.pendcount[u] = Cardinality(r.pending[u]) + Cardinality(k.pending[u])
        BY <1>3, <3>2, <4>1
      <4> QED  BY <3>3, <4>2 DEF Knows
    <3>4. CASE v # u
      BY <1>3, <3>1, <3>4 DEF Knows
    <3> QED  BY <3>3, <3>4
  <2>2. MMMessage(r)
    BY <1>2, <1>3, <1>4, <2>1 DEF MMMessage
  <2> QED  BY <1>5, <2>2 DEF MMServes
<1>17. Todo(r, s, h, FS) = Todo(k, s, h, FS)
  <2>1. FS \in Procs
    BY <1>2
  <2>2. FS \notin h /\ Receiving(k, FS) => k.getfrom[FS] \in Programs
    BY <1>2 DEF Serving, LoopsKept
  <2>3. Undone(r, h, FS) <=> Undone(k, h, FS)
    <3>1. \A d \in Programs : HeardFrom(r, h, d, FS) <=> HeardFrom(k, h, d, FS)
      <4>1. ~ HeardFrom(k, h, MM, FS)
        BY <1>1 DEF HeardFrom
      <4> QED  BY <1>8, <1>9, <2>1, <4>1
    <3> QED  BY <1>2, <1>3, <1>4, <2>1, <2>2, <3>1 DEF Undone
  <2>4. FS \in Procs \ {MM, SYSTASK}
    BY <1>2
  <2> QED  BY <1>3, <2>3, <2>4, Zenon DEF Todo
<1>18. FSServes(r, s, h)
  <2>1. /\ \A q \in Users : Awaits(r, q, FS) => Awaits(k, q, FS)
        /\ \A q \in Users : AwaitsAlive(k, q, FS) => AwaitsAlive(r, q, FS)
        /\ r.messbuf[FS] = k.messbuf[FS]
    BY <1>2, <1>3, <1>6
  <2>2. FSFrame(k, s, h, r, s, h)
    BY <1>2, <1>5, <1>6, <1>17, <2>1 DEF FSFrame
  <2> QED  BY <2>2, FSKept DEF Serving
<1> QED
  BY <1>2, <1>3, <1>5, <1>10, <1>11, <1>12, <1>13, <1>14, <1>15, <1>16, <1>18 DEF Serving

\* MM waits for any message, and is told of a signal at once.
LEMMA ListenTold ==
  ASSUME Closed, NEW k, Stable(k), NEW s, NEW h, NEW a, Serves(k, s, h, a),
         k.proc_ptr = MM, s[MM] = << >>, MM \notin h,
         k.sig_procs > 0
  PROVE  LET r == Sleep(k, MM, ANY)
         IN  Serving(r, s, h \cup {MM}, a) /\ ~ Heard(r, h \cup {MM}, SYSTASK)
<1> DEFINE b == Block(k, MM, {"RECEIVING"})
           n == [b EXCEPT !.getfrom[MM] = ANY]
           r == Sleep(k, MM, ANY)
           h2 == h \cup {MM}
<1>1. /\ k \in Kernels /\ ReadyQueuesExact(k) /\ Counted(k)
      /\ MM \in Procs /\ MM \in Programs /\ MM \in Senders /\ MM \notin Users
      /\ MM \notin k.empty /\ k.flags[MM] = {}
  BY WhoRuns, ProgramKinds DEF Stable, Consistent
<1>2. /\ b \in Kernels /\ b.flags = [k.flags EXCEPT ![MM] = @ \cup {"RECEIVING"}]
      /\ SameButFlags(k, b) /\ ReadyQueuesExact(b)
  BY <1>1, BlockResult DEF Flags
<1>3. r = Inform(n)
  BY DEF Sleep
<1> HIDE DEF b
<1>4. ANY \in Senders \cup {ANY}
  OBVIOUS
<1>5. /\ n \in Kernels
      /\ n.flags = b.flags /\ n.sendto = b.sendto /\ n.messbuf = b.messbuf
      /\ n.callerq = b.callerq /\ n.rdy = b.rdy
      /\ n.intBlocked = b.intBlocked /\ n.empty = b.empty /\ n.pending = b.pending
      /\ n.pendcount = b.pendcount
      /\ n.getfrom = [b.getfrom EXCEPT ![MM] = ANY]
  <2> DEFINE g == [b.getfrom EXCEPT ![MM] = ANY]
  <2>1. g \in [Procs -> Senders \cup {ANY}]
    BY <1>1, <1>2 DEF Kernels
  <2>2. n = [b EXCEPT !.getfrom = g]
    OBVIOUS
  <2> HIDE DEF n
  <2>3. g = [b.getfrom EXCEPT ![MM] = ANY]
    OBVIOUS
  <2> HIDE DEF g
  <2> QED  BY <1>2, <2>1, <2>2, <2>3 DEF Kernels
<1> HIDE DEF n, r
<1>6. /\ n.flags = [k.flags EXCEPT ![MM] = @ \cup {"RECEIVING"}]
      /\ n.getfrom = [k.getfrom EXCEPT ![MM] = ANY]
      /\ n.callerq = k.callerq /\ n.messbuf = k.messbuf /\ n.intBlocked = k.intBlocked
      /\ SameSignals(k, n)
  BY <1>2, <1>5 DEF SameButFlags, SameSignals
<1>7. Serving(n, s, h2, a) /\ ~ Heard(n, h2, SYSTASK)
  BY <1>1, <1>6, ListenSleeps
<1>8. /\ n.flags[MM] = {"RECEIVING"} /\ n.getfrom[MM] = ANY
      /\ \A u \in Users : n.flags[u] = k.flags[u]
  BY <1>1, <1>6, ProgramKinds DEF Kernels
<1>9. Receiving(n, MM) /\ ~ Sending(n, MM)
  BY <1>8 DEF Receiving, Sending
<1>10. Pending(n) = Pending(k) /\ Pending(k) # {}
  <2>1. Pending(n) = Pending(k)
    BY <1>8 DEF Pending
  <2>2. Cardinality(Pending(k)) # 0
    BY <1>1 DEF Counted
  <2> QED  BY <2>1, <2>2, PendingFinite
<1>11. ReadyQueuesExact(n)
  BY <1>2, <1>5 DEF ReadyQueuesExact
<1>12. MM \notin n.empty
  BY <1>1, <1>6 DEF SameSignals
<1>13. PICK u \in Users : TellsMM(n, r, u)
  BY <1>3, <1>5, <1>8, <1>9, <1>10, <1>11, <1>12, InformTells
<1>14. u \notin n.empty /\ "SIG_PENDING" \in n.flags[u]
  <2>1. "PENDING" \in k.flags[u]
    BY <1>8, <1>13 DEF TellsMM
  <2>2. "SIG_PENDING" \in k.flags[u]
    BY <1>1, <2>1 DEF Counted
  <2>3. u \notin k.empty
    BY <2>1 DEF Stable, Consistent, KindsKept
  <2> QED  BY <1>6, <1>8, <2>2, <2>3 DEF SameSignals
<1>15. MM \in h2
  OBVIOUS
<1> QED
  BY <1>5, <1>7, <1>9, <1>13, <1>14, <1>15, TellingServes DEF r

\* receive(ANY): the message of a caller, an interrupt or a signal is taken,
\* or the program sleeps.
LEMMA ListenServes ==
  ASSUME Closed, NEW k, Stable(k), NEW s, NEW h, NEW a, Serves(k, s, h, a),
         NEW p \in Programs, k.proc_ptr = p, s[p] = << >>, p \notin h
  PROVE  LET r == MiniRec(k, p, ANY)
         IN  Stable(r) /\ Serves(r, s, h \cup {p}, a)
<1> DEFINE r == MiniRec(k, p, ANY)
           h2 == h \cup {p}
<1>1. /\ k \in Kernels /\ ReadyQueuesExact(k) /\ p \in Procs /\ p \notin k.empty
      /\ k.flags[p] = {} /\ s[SYSTASK] = << >> /\ s[CLOCK] = << >>
      /\ SYSTASK \notin k.intBlocked /\ k.intBlocked \subseteq Tasks
  <2>1. Idle(k, s, h, p) /\ Serving(k, s, h, a)
    BY IdleProgram
  <2> QED  BY <2>1 DEF Idle, Serving, Stable, Consistent, Kernels
<1>2. Stable(r)
  BY <1>1, MiniRecKeeps DEF Stable
<1>3. Serving(r, s, h2, a) /\ ~ Heard(r, h2, SYSTASK)
  <2>1. CASE k.callerq[p] # << >>
    <3>1. p \in Servers
      BY <2>1, WhoIsQueued DEF Programs
    <3> QED  BY <2>1, <3>1, ListenTakes
  <2>2. CASE k.callerq[p] = << >> /\ p \in k.intBlocked
    <3>1. p \in Tasks /\ p # SYSTASK
      BY <1>1, <2>2
    <3>2. /\ r.messbuf = [k.messbuf EXCEPT
                            ![p] = [source |-> HARDWARE, body |-> <<"HARD_INT">>]]
          /\ r.flags = k.flags /\ r.getfrom = k.getfrom /\ r.callerq = k.callerq
          /\ r.intBlocked = k.intBlocked \ {p} /\ SameSignals(k, r)
      BY <1>1, <2>2, InterruptTaken, ZenonT(40)
    <3> HIDE DEF r
    <3> QED  BY <3>1, <3>2, ListenInterrupted
  <2>3. CASE k.callerq[p] = << >> /\ p \notin k.intBlocked
    <3>1. r = Sleep(k, p, ANY)
      BY <1>1, <2>3, NothingTaken
    <3> HIDE DEF r
    <3>2. CASE p = MM /\ k.sig_procs > 0
      BY <3>1, <3>2, ListenTold
    <3>3. CASE p = MM => k.sig_procs <= 0
      BY <1>1, <3>1, <3>3, SleepsFor, ListenSleeps, ZenonT(40)
    <3>4. k.sig_procs \in Int
      BY <1>1 DEF Kernels
    <3> QED  BY <3>2, <3>3, <3>4
  <2> QED  BY <2>1, <2>2, <2>3
<1> HIDE DEF r
<1>4. TasksAtWork(r, s, h2)
  BY <1>1, <1>3 DEF TasksAtWork
<1> QED
  BY <1>2, <1>3, <1>4 DEF Serves, r

-----------------------------------------------------------------------------
(* The calls of a script *)

\* An answer is the first entry of the script of p.
LEMMA AnswersLast ==
  ASSUME Closed, NEW k, NEW s, NEW h, NEW a, Serving(k, s, h, a),
         NEW p \in Programs, p \notin h, ~ Receiving(k, p),
         NEW d, s[p] # << >>, s[p][1] = Answer(d)
  PROVE  /\ p # MM => Len(s[p]) = 1
         /\ p = FS => FSJob(k, h, s[FS])
         /\ p = MM => NoneTold(k) /\ \E u \in Users :
              /\ AwaitsAlive(k, u, MM)
              /\ \/ Len(s[MM]) = 1
                 \/ Len(s[MM]) = 2 /\ s[MM][2] = Answer(u) /\ d # u
<1>1. /\ \A e, b : Answer(d) # Request(e, b)
      /\ \A u, sig : Answer(d) # Cause(u, sig)
      /\ Answer(d) # AwaitInterrupt
      /\ \A e : Answer(d) = Answer(e) => d = e
  <2>1. Answer(d).do = "answer" /\ Answer(d).to = d
    BY DEF Answer
  <2>2. \A e, b : Request(e, b).do = "call"
    BY DEF Request
  <2>3. \A u, sig : Cause(u, sig).do = "signal"
    BY DEF Cause
  <2>4. AwaitInterrupt.do = "await"
    BY DEF AwaitInterrupt
  <2>5. \A e : Answer(e).to = e
    BY DEF Answer
  <2> QED  BY <2>1, <2>2, <2>3, <2>4, <2>5
<1>2. s[p] \in Seq(Entries) /\ Len(s[p]) \in Nat /\ Len(s[p]) # 0
  BY DEF Serving
<1>3. ~ Heard(k, h, p) /\ Todo(k, s, h, p) = s[p]
  BY DEF Heard, Todo, Undone
<1>4. CASE p = SYSTASK
  BY <1>4, ProgramKinds DEF Serving, SysTaskServes
<1>5. CASE p = CLOCK
  <2>1. 1 \in 1..Len(s[CLOCK])
    BY <1>2, <1>5
  <2>2. ~ \A i \in 1..Len(s[CLOCK]) :
            \E u \in Users \ k.empty : s[CLOCK][i] = Cause(u, SIGALRM)
    BY <1>1, <1>5, <2>1
  <2> QED  BY <1>5, <2>2, ProgramKinds DEF Serving, ClockServes
<1>6. CASE p = DISK
  BY <1>1, <1>6, ProgramKinds DEF Serving, DiskServes
<1>7. CASE p = FS
  <2>1. FSJob(k, h, s[FS])
    BY <1>3, <1>7 DEF Serving, FSServes
  <2>2. Len(s[FS]) = 1
    BY <1>1, <1>7, <2>1 DEF FSJob
  <2> QED  BY <1>7, <2>1, <2>2, ProgramKinds
<1>8. CASE p = MM
  <2>1. MMJob(k, h, s[MM])
    BY <1>3, <1>8 DEF Serving, MMServes
  <2>2. ~ \E u \in Users, m \in 0..2 : SignalJob(k, h, s[MM], u, m)
    <3>1. 1 \in 1..Len(s[MM])
      BY <1>2, <1>8
    <3> QED  BY <1>1, <1>8, <3>1 DEF SignalJob
  <2>3. PICK u \in Users :
          /\ NoneTold(k) /\ AwaitsAlive(k, u, MM)
          /\ CallJob(k, s[MM], u) \/ \E c \in Users \ {u} : ForkJob(k, s[MM], u, c)
    BY <2>1, <2>2, Zenon DEF MMJob
  <2>4. CASE CallJob(k, s[MM], u)
    BY <1>1, <1>8, <2>3, <2>4, ProgramKinds DEF CallJob
  <2>5. CASE \E c \in Users \ {u} : ForkJob(k, s[MM], u, c)
    <3>1. PICK c \in Users \ {u} : ForkJob(k, s[MM], u, c)
      BY <2>5
    <3>2. Len(s[MM]) = 2 /\ s[MM][1] = Answer(c) /\ s[MM][2] = Answer(u)
      BY <1>1, <1>8, <3>1 DEF ForkJob
    <3> QED  BY <1>1, <1>8, <2>3, <3>2, ProgramKinds
  <2> QED  BY <2>3, <2>4, <2>5
<1> QED
  BY <1>4, <1>5, <1>6, <1>7, <1>8, ProgramKinds

\* A program answers a process that waits for it.
LEMMA AnswerServes ==
  ASSUME Closed, NEW k, Stable(k), NEW s, NEW h, NEW a, Serves(k, s, h, a),
         NEW p \in Programs, k.proc_ptr = p, NEW d \in Procs, d # p, d \notin k.empty,
         s[p] # << >>, s[p][1] = Answer(d), Awaits(k, d, p)
  PROVE  LET r == MiniSend(k, p, d)
             s2 == [s EXCEPT ![p] = Tail(@)]
         IN  Stable(r) /\ Serves(r, s2, h, a)
<1> DEFINE r == MiniSend(k, p, d)
           s2 == [s EXCEPT ![p] = Tail(@)]
<1>1. /\ k \in Kernels /\ p \in Procs /\ p \notin Users /\ p \in Senders /\ d \in Senders
      /\ h \subseteq Programs /\ s \in [Programs -> Seq(Entries)]
      /\ ~ Receiving(k, p) /\ ~ Sending(k, p) /\ p \notin h
      /\ Serving(k, s, h, a)
  BY ProgramKinds, WhoRuns DEF Stable, Consistent, Serves, Serving, LoopsKept
<1>2. /\ \A q \in Programs : q \in Procs
      /\ MM \in Programs /\ FS \in Programs /\ SYSTASK \in Programs
      /\ CLOCK \in Programs /\ DISK \in Programs /\ MM # FS
      /\ MM # CLOCK /\ MM # DISK /\ MM # SYSTASK
      /\ SYSTASK # CLOCK /\ SYSTASK # DISK /\ SYSTASK # FS /\ CLOCK # DISK
      /\ FS # CLOCK /\ FS # DISK
      /\ MM \in Servers /\ FS \in Servers /\ Servers = {MM, FS}
      /\ Tasks = {SYSTASK, CLOCK, DISK} /\ Programs = {SYSTASK, CLOCK, DISK, MM, FS}
      /\ \A q \in Procs : q # ANY /\ q # HARDWARE /\ q \in Senders
      /\ \A q \in Users : q \in Procs /\ q \notin Programs
      /\ \A q \in Servers : q \in Procs /\ q \in Programs
  BY ProgramKinds
<1>3. Receiving(k, d) /\ ~ Sending(k, d) /\ k.getfrom[d] = p
  BY DEF Awaits
<1>4. Stable(r)
  <2>1. Waits(k, d, p)
    BY <1>3 DEF Waits, Receiving, Sending
  <2> QED  BY <1>1, <2>1, MiniSendKeeps DEF Stable
<1>5. /\ r.flags = [k.flags EXCEPT ![d] = @ \ {"RECEIVING"}]
      /\ r.messbuf = [k.messbuf EXCEPT ![d] = [source |-> p, body |-> k.messbuf[p].body]]
      /\ r.getfrom = k.getfrom /\ r.callerq = k.callerq /\ r.intBlocked = k.intBlocked
      /\ SameSignals(k, r)
  <2>1. Waits(k, d, p)
    BY <1>3 DEF Waits, Receiving, Sending
  <2>2. ~ Refused(k, p, d)
    BY <1>1, <1>3, NobodyRefused
  <2>3. p \in Procs /\ p # d
    BY <1>1
  <2> QED  BY <2>1, <2>2, <2>3, Delivered
<1> HIDE DEF r
<1>6. /\ r.flags[d] = k.flags[d] \ {"RECEIVING"}
      /\ \A q \in Senders \ {d} : r.flags[q] = k.flags[q]
      /\ \A q \in Procs \ {d} : r.messbuf[q] = k.messbuf[q]
      /\ r.getfrom = k.getfrom /\ r.callerq = k.callerq /\ r.intBlocked = k.intBlocked
      /\ r.empty = k.empty /\ r.pending = k.pending /\ r.pendcount = k.pendcount
  BY <1>1, <1>5 DEF Kernels, SameSignals
<1>7. /\ ~ Receiving(r, d) /\ ~ Sending(r, d)
      /\ \A q \in Procs \ {d} : Receiving(r, q) <=> Receiving(k, q)
      /\ \A q \in Procs : Sending(r, q) <=> Sending(k, q)
      /\ \A q \in Procs : "SIG_PENDING" \in r.flags[q] <=> "SIG_PENDING" \in k.flags[q]
  BY <1>2, <1>3, <1>6 DEF Receiving, Sending
<1>8. /\ s2 \in [Programs -> Seq(Entries)]
      /\ s2[p] = Tail(s[p]) /\ Len(s[p]) \in Nat /\ Len(s2[p]) = Len(s[p]) - 1
      /\ \A q \in Programs \ {p} : s2[q] = s[q]
      /\ Len(s[p]) = 1 => s2[p] = << >>
      /\ Len(s[p]) = 2 => Len(s2[p]) = 1 /\ s2[p][1] = s[p][2]
  <2>1. s[p] \in Seq(Entries)
    BY <1>1
  <2>2. /\ Tail(s[p]) \in Seq(Entries) /\ Len(s[p]) \in Nat
        /\ Len(Tail(s[p])) = Len(s[p]) - 1
        /\ \A i \in 1..(Len(s[p]) - 1) : Tail(s[p])[i] = s[p][i + 1]
    BY <2>1, HeadAndTail
  <2>3. s2[p] = Tail(s[p]) /\ \A q \in Programs \ {p} : s2[q] = s[q]
    BY <1>1
  <2>4. Len(s[p]) = 1 => Tail(s[p]) = << >>
    <3>1. Len(Tail(s[p])) = 0 => Tail(s[p]) = << >>
      BY <2>2, EmptySeq
    <3> QED  BY <2>2, <3>1
  <2>5. Len(s[p]) = 2 => Tail(s[p])[1] = s[p][2]
    BY <2>2
  <2> QED  BY <1>1, <2>2, <2>3, <2>4, <2>5
<1> HIDE DEF s2
<1>9. d \notin Tasks /\ (d \in Servers => d \notin h)
  BY <1>1, <1>2, <1>3 DEF Serving, LoopsKept
<1>10. /\ \A q \in Programs : Heard(r, h, q) <=> Heard(k, h, q)
       /\ ~ Heard(k, h, p) /\ ~ Heard(k, h, d)
  BY <1>1, <1>2, <1>3, <1>7, <1>9 DEF Heard
<1>11. \A e \in Programs : \A q : HeardFrom(r, h, e, q) <=> HeardFrom(k, h, e, q)
  <2> SUFFICES ASSUME NEW e \in Programs, NEW q
               PROVE  HeardFrom(r, h, e, q) <=> HeardFrom(k, h, e, q)
    OBVIOUS
  <2>1. CASE e = d
    BY <1>10, <2>1 DEF HeardFrom
  <2>2. CASE e # d
    BY <1>2, <1>6, <1>10, <2>2 DEF HeardFrom
  <2> QED  BY <2>1, <2>2
<1>12. /\ \A q \in Procs \ {d} : \A e : Awaits(r, q, e) <=> Awaits(k, q, e)
       /\ \A e : ~ Awaits(r, d, e)
       /\ \A e : Awaits(k, d, e) => e = p
       /\ \A q \in Procs \ {d} : \A e : AwaitsAlive(r, q, e) <=> AwaitsAlive(k, q, e)
  BY <1>3, <1>6, <1>7 DEF Awaits, AwaitsAlive
<1>13. \A q \in Servers : \A e : Due(k, h, q, e) /\ e # p => Due(r, h, q, e)
  BY <1>2, <1>12 DEF Due
<1>14. /\ s[SYSTASK] # << >> => p = SYSTASK
       /\ s[CLOCK] # << >> => p = CLOCK
       /\ ~ Heard(k, h, SYSTASK)
  BY <1>10 DEF Serves, TasksAtWork
<1>15. p # MM => Len(s[p]) = 1 /\ s2[p] = << >>
  <2>1. p # MM => Len(s[p]) = 1
    BY <1>1, AnswersLast
  <2> QED  BY <1>8, <2>1
<1>16. s2[SYSTASK] = << >> /\ s2[CLOCK] = << >> /\ s2[DISK] \in {s[DISK], << >>}
  BY <1>2, <1>8, <1>14, <1>15
<1>17. LoopsKept(r, s2, h)
  <2> SUFFICES ASSUME NEW q \in Programs
               PROVE  /\ q \in h => s2[q] = << >>
                      /\ q \in h /\ Receiving(r, q) => r.getfrom[q] = ANY
                      /\ q \notin h /\ Receiving(r, q) =>
                           \/ q = DISK /\ r.getfrom[q] = HARDWARE
                           \/ q \in Servers /\ r.getfrom[q] \in Programs \ {MM}
                      /\ Sending(r, q) =>
                           q = MM /\ MM \notin h /\ Receiving(r, MM) /\ r.getfrom[MM] = FS
    BY DEF LoopsKept
  <2>1. LoopsKept(k, s, h)
    BY <1>1 DEF Serving
  <2>2. CASE q = p
    BY <1>1, <1>7, <2>2
  <2>3. CASE q = d
    BY <1>1, <1>2, <1>7, <1>8, <1>9, <2>3
  <2>4. CASE q # p /\ q # d
    BY <1>2, <1>6, <1>7, <1>8, <2>1, <2>4 DEF LoopsKept
  <2> QED  BY <2>2, <2>3, <2>4
<1>18. UsersCall(r)
  <2>1. UsersCall(k)
    BY <1>1 DEF Serving
  <2>2. \A u \in Users : /\ Receiving(r, u) => Receiving(k, u) /\ u # d
                         /\ Sending(r, u) => Sending(k, u) /\ u # d
                         /\ u \in Procs
    BY <1>2, <1>7
  <2>3. \A u \in Users : Sending(r, u) => Receiving(r, u)
    BY <1>7, <2>1, <2>2 DEF UsersCall
  <2> QED  BY <1>6, <2>1, <2>2, <2>3 DEF UsersCall
<1>19. RequestsHeld(r, h)
  <2> SUFFICES ASSUME NEW e \in Programs, NEW q \in Servers, HeardFrom(r, h, e, q)
               PROVE  Due(r, h, q, e) /\ r.messbuf[e].body = r.messbuf[q].body
    BY DEF RequestsHeld
  <2>1. HeardFrom(k, h, e, q)
    BY <1>11
  <2>2. RequestsHeld(k, h)
    BY <1>1 DEF Serving
  <2>3. Due(k, h, q, e) /\ k.messbuf[e].body = k.messbuf[q].body
    BY <2>1, <2>2 DEF RequestsHeld
  <2>4. e # p /\ e # d
    BY <1>10, <2>1 DEF HeardFrom
  <2>5. q # d
    BY <1>12, <2>3, <2>4 DEF Due
  <2> QED  BY <1>2, <1>6, <1>13, <2>3, <2>4, <2>5
<1>20. SysTaskServes(r, s2, h)
  BY <1>2, <1>10, <1>14, <1>16 DEF SysTaskServes
<1>21. ClockServes(r, s2, h, a)
  <2>1. Len(s2[CLOCK]) = 0
    BY <1>16
  <2>2. \A i \in 1..Len(s2[CLOCK]) : FALSE
    BY <2>1
  <2>3. ClockServes(k, s, h, a)
    BY <1>1 DEF Serving
  <2>4. CLOCK \in Procs \ {d}
    BY <1>2, <1>9
  <2> QED  BY <1>2, <1>6, <1>10, <2>2, <2>3, <2>4 DEF ClockServes
<1>22. DiskServes(r, s2, h)
  <2>1. DiskServes(k, s, h)
    BY <1>1 DEF Serving
  <2>2. DISK \in Procs \ {d}
    BY <1>2, <1>9
  <2>3. CASE p = DISK
    <3>1. s2[DISK] = << >> /\ ~ Heard(r, h, DISK) /\ ~ Receiving(r, DISK)
      BY <1>1, <1>2, <1>7, <1>10, <1>15, <2>2, <2>3
    <3> QED  BY <3>1 DEF DiskServes
  <2>4. CASE p # DISK
    <3>1. s2[DISK] = s[DISK]
      BY <1>2, <1>8, <2>4
    <3> QED  BY <1>2, <1>6, <1>7, <1>10, <1>13, <2>1, <2>2, <2>4, <3>1 DEF DiskServes
  <2> QED  BY <2>3, <2>4
<1>23. KnowledgeKept(k, r)
  BY <1>6 DEF KnowledgeKept, Knows
<1>24. \A q \in Servers : q # p => Todo(r, s2, h, q) = Todo(k, s, h, q)
  <2> SUFFICES ASSUME NEW q \in Servers, q # p
               PROVE  Todo(r, s2, h, q) = Todo(k, s, h, q)
    OBVIOUS
  <2>1. q \in Programs /\ q \in Procs /\ s2[q] = s[q]
    BY <1>2, <1>8
  <2>2. CASE q = d
    <3>1. ~ Undone(r, h, q) /\ ~ Undone(k, h, q)
      BY <1>3, <1>7, <1>10, <2>2 DEF Undone, HeardFrom
    <3> QED  BY <2>1, <3>1 DEF Todo
  <2>3. CASE q # d
    <3>1. q \notin h /\ Receiving(k, q) => k.getfrom[q] \in Programs
      BY <1>1, <1>2, <2>1 DEF Serving, LoopsKept
    <3>2. Undone(r, h, q) <=> Undone(k, h, q)
      BY <1>6, <1>7, <1>11, <2>1, <2>3, <3>1 DEF Undone
    <3> QED  BY <1>6, <2>1, <2>3, <3>2, Zenon DEF Todo
  <2> QED  BY <2>2, <2>3
<1>25. ~ Undone(r, h, p)
  BY <1>1, <1>7 DEF Undone
<1>26. MMServes(r, s2, h)
  <2>1. CASE p = MM
    <3>1. NoneTold(r)
      <4>1. NoneTold(k)
        BY <1>1, <2>1, AnswersLast
      <4> QED  BY <1>6, <4>1 DEF NoneTold, Knows
    <3>2. ~ Heard(r, h, MM) /\ Todo(r, s2, h, MM) = s2[MM]
      BY <1>2, <1>10, <1>25, <2>1 DEF Todo
    <3>3. PICK u \in Users :
            /\ AwaitsAlive(k, u, MM)
            /\ \/ Len(s[MM]) = 1
               \/ Len(s[MM]) = 2 /\ s[MM][2] = Answer(u) /\ d # u
      BY <1>1, <2>1, AnswersLast
    <3>4. CASE Len(s[MM]) = 1
      BY <1>8, <2>1, <3>1, <3>2, <3>4, NoJob DEF MMServes
    <3>5. CASE Len(s[MM]) = 2 /\ s[MM][2] = Answer(u) /\ d # u
      <4>1. Len(s2[MM]) = 1 /\ s2[MM][1] = Answer(u)
        BY <1>8, <2>1, <3>5
      <4>2. AwaitsAlive(r, u, MM)
        BY <1>2, <1>12, <3>3, <3>5
      <4>3. MMJob(r, h, s2[MM])
        BY <3>1, <4>1, <4>2 DEF MMJob, CallJob
      <4> QED  BY <3>2, <4>3 DEF MMServes
    <3> QED  BY <3>3, <3>4, <3>5
  <2>2. CASE p # MM
    <3>1. MM \in Procs /\ FS \in Procs
      BY <1>2
    <3>2. \A u \in Users \ k.empty :
            /\ Awaits(k, u, MM) => Awaits(r, u, MM)
            /\ "SIG_PENDING" \in k.flags[u] => "SIG_PENDING" \in r.flags[u]
            /\ FarFromFS(k, u) => FarFromFS(r, u)
      BY <1>2, <1>6, <1>7, <1>12, <2>2 DEF FarFromFS
    <3>3. Heard(k, h, MM) => MM # d
      BY <1>10
    <3>4. MMFrame(k, s, h, r, s2, h)
      BY <1>2, <1>6, <1>7, <1>10, <1>11, <1>23, <1>24, <2>2, <3>1, <3>2, <3>3
      DEF MMFrame, InOrder
    <3> QED  BY <1>1, <1>2, <3>4, MMKept DEF Serving
  <2> QED  BY <2>1, <2>2
<1>27. FSServes(r, s2, h)
  <2>1. CASE p = FS
    <3>1. ~ Heard(r, h, FS) /\ Todo(r, s2, h, FS) = << >>
      BY <1>2, <1>10, <1>15, <1>25, <2>1 DEF Todo
    <3>2. ~ Undone(k, h, FS) /\ ~ Heard(k, h, FS)
      BY <1>1, <2>1, <1>10 DEF Undone
    <3>3. \A u \in Users : Awaits(k, u, FS) => u = d
      <4> SUFFICES ASSUME NEW u \in Users, Awaits(k, u, FS)
                   PROVE  u = d
        OBVIOUS
      <4>1. Todo(k, s, h, FS) = s[FS]
        BY <3>2 DEF Todo
      <4>2. s[FS][Len(s[FS])] = Answer(u)
        BY <1>1, <3>2, <4>1 DEF Serving, FSServes, FSKnows, HeardFrom
      <4>3. Answer(u) = Answer(d)
        BY <1>2, <1>15, <2>1, <4>2
      <4>4. Answer(u).to = u /\ Answer(d).to = d
        BY DEF Answer
      <4> QED  BY <4>3, <4>4
    <3>4. \A u \in Users : ~ Awaits(r, u, FS)
      BY <1>2, <1>12, <3>3
    <3> QED  BY <3>1, <3>4 DEF FSServes, FSJob, FSKnows
  <2>2. CASE p # FS
    <3>1. /\ \A u \in Users : Awaits(r, u, FS) => Awaits(k, u, FS)
          /\ \A u \in Users : AwaitsAlive(k, u, FS) => AwaitsAlive(r, u, FS)
      BY <1>2, <1>12, <2>2 DEF AwaitsAlive
    <3>2. Heard(k, h, FS) => FS # d
      BY <1>10
    <3>3. FSFrame(k, s, h, r, s2, h)
      BY <1>2, <1>6, <1>10, <1>13, <1>24, <2>2, <3>1, <3>2 DEF FSFrame
    <3> QED  BY <1>1, <3>3, FSKept DEF Serving
  <2> QED  BY <2>1, <2>2
<1>28. TasksAtWork(r, s2, h)
  BY <1>2, <1>10, <1>14, <1>16 DEF TasksAtWork
<1> QED
  BY <1>1, <1>4, <1>6, <1>8, <1>17, <1>18, <1>19, <1>20, <1>21, <1>22, <1>26, <1>27, <1>28
  DEF Serving, Serves, r, s2

\* A call is the first entry of the script of p.
LEMMA CallsKnown ==
  ASSUME Closed, NEW k, NEW s, NEW h, NEW a, Serving(k, s, h, a),
         NEW p \in Programs, p \notin h, ~ Receiving(k, p),
         s[p] # << >>, s[p][1].do = "call"
  PROVE  /\ p \in Servers
         /\ \E d \in CallsOf(p), body \in Said : s[p][1] = Request(d, body)
<1>1. /\ \A e : s[p][1] # Answer(e)
      /\ \A u, sig : s[p][1] # Cause(u, sig)
      /\ s[p][1] # AwaitInterrupt
  <2>1. \A e : Answer(e).do # "call"
    BY DEF Answer
  <2>2. \A u, sig : Cause(u, sig).do # "call"
    BY DEF Cause
  <2>3. AwaitInterrupt.do # "call"
    BY DEF AwaitInterrupt
  <2> QED  BY <2>1, <2>2, <2>3
<1>2. s[p] \in Seq(Entries) /\ Len(s[p]) \in Nat /\ 1 \in 1..Len(s[p])
  <2>1. s[p] \in Seq(Entries)
    BY DEF Serving
  <2> QED  BY <2>1, HeadAndTail
<1>3. ~ Heard(k, h, p) /\ Todo(k, s, h, p) = s[p]
  BY DEF Heard, Todo, Undone
<1>4. p \in Servers
  <2>1. CASE p = SYSTASK
    BY <1>1, <2>1 DEF Serving, SysTaskServes
  <2>2. CASE p = CLOCK
    BY <1>1, <1>2, <2>2 DEF Serving, ClockServes
  <2>3. CASE p = DISK
    BY <1>1, <2>3 DEF Serving, DiskServes
  <2> QED  BY <2>1, <2>2, <2>3, ProgramKinds
<1>5. \A u \in Users :
        /\ <<"EXIT", u>> \in Said /\ <<"SYS_ENDSIG", u>> \in Said /\ <<"SYS_XIT", u>> \in Said
        /\ <<"SYS_EXEC", u>> \in Said /\ <<"SET_ALARM", u>> \in Said
        /\ <<"SYS_NEWMAP", u>> \in Said /\ <<"SYS_KILL", u>> \in Said
        /\ <<"read">> \in Said
        /\ \A c \in Users : <<"SYS_FORK", u, c>> \in Said
  BY DEF Said
<1>6. CASE p = FS
  <2>1. FSJob(k, h, s[FS])
    BY <1>3, <1>6 DEF Serving, FSServes
  <2>2. DISK \in CallsOf(FS) /\ SYSTASK \in CallsOf(FS)
    BY ProgramKinds DEF CallsOf
  <2> QED  BY <1>1, <1>4, <1>5, <1>6, <2>1, <2>2 DEF FSJob
<1>7. CASE p = MM
  <2>1. MMJob(k, h, s[MM])
    BY <1>3, <1>7 DEF Serving, MMServes
  <2>2. FS \in CallsOf(MM) /\ SYSTASK \in CallsOf(MM) /\ CLOCK \in CallsOf(MM)
    BY DEF CallsOf
  <2>3. ASSUME NEW u \in Users, NEW m \in 0..2, SignalJob(k, h, s[MM], u, m)
        PROVE  \E d \in CallsOf(MM), body \in Said : s[MM][1] = Request(d, body)
    <3>1. s[MM][1] = IF 1 > m THEN Request(SYSTASK, <<"SYS_ENDSIG", u>>)
                     ELSE IF 1 = m THEN Request(SYSTASK, <<"SYS_XIT", u>>)
                     ELSE Request(FS, <<"EXIT", u>>)
      BY <1>2, <1>7, <2>3 DEF SignalJob
    <3> QED  BY <1>5, <2>2, <3>1
  <2>4. ASSUME NEW u \in Users,
               CallJob(k, s[MM], u) \/ \E c \in Users \ {u} : ForkJob(k, s[MM], u, c)
        PROVE  \E d \in CallsOf(MM), body \in Said : s[MM][1] = Request(d, body)
    <3>1. CASE CallJob(k, s[MM], u)
      BY <1>1, <1>5, <1>7, <2>2, <3>1 DEF CallJob
    <3>2. CASE \E c \in Users \ {u} : ForkJob(k, s[MM], u, c)
      BY <1>1, <1>5, <1>7, <2>2, <3>2 DEF ForkJob
    <3> QED  BY <2>4, <3>1, <3>2
  <2>5. \E d \in CallsOf(MM), body \in Said : s[MM][1] = Request(d, body)
    BY <2>1, <2>3, <2>4, Zenon DEF MMJob
  <2> QED  BY <1>4, <1>7, <2>5
<1> QED
  BY <1>4, <1>6, <1>7, ProgramKinds

\* The only task that is not blocked runs.
LEMMA OnlyTaskRuns ==
  ASSUME NEW k, Stable(k), NEW t \in Tasks, k.flags[t] = {},
         \A q \in Tasks : q # t => Receiving(k, q)
  PROVE  k.proc_ptr = t
<1>1. /\ k \in Kernels /\ ReadyQueuesExact(k) /\ RunsFirst(k)
      /\ k.rdy["TASK_Q"] \in Seq(Procs) /\ "TASK_Q" \in Queues
      /\ \A q \in Tasks : q \in Procs /\ q \notin k.empty
  BY KernelAssumption DEF Stable, Consistent, Kernels, Queues, Procs
<1>2. Members(k.rdy["TASK_Q"]) = {q \in Procs \ k.empty : QueueOf(q) = "TASK_Q" /\ k.flags[q] = {}}
  BY <1>1 DEF ReadyQueuesExact
<1>3. \A q \in Members(k.rdy["TASK_Q"]) : q = t
  BY <1>2, QueueOfKind DEF Receiving
<1>4. t \in Members(k.rdy["TASK_Q"])
  BY <1>1, <1>2, QueueOfKind
<1>5. k.rdy["TASK_Q"] # << >>
  BY <1>1, <1>4, NoMembers
<1>6. Head(k.rdy["TASK_Q"]) = t
  BY <1>1, <1>3, <1>5, HeadIsMember
<1> QED
  BY <1>1, <1>5, <1>6 DEF RunsFirst, FirstReady

\* A server waits for any message of those who call it.
LEMMA CalledListens ==
  ASSUME Closed, NEW k, Stable(k), NEW s, NEW h, NEW a, Serves(k, s, h, a),
         NEW p \in Servers, k.proc_ptr = p, NEW d \in CallsOf(p)
  PROVE  /\ d \in Programs /\ d # p /\ d # MM
         /\ d \in Tasks => Waits(k, d, p)
         /\ Waits(k, d, p) => d \in h /\ s[d] = << >> /\ ~ Heard(k, h, d)
         /\ Waits(k, d, p) /\ d = FS => \A u \in Users : FarFromFS(k, u)
<1>1. d \in Programs /\ d # p /\ d # MM /\ p \in Procs /\ d \in Procs /\ p \notin Tasks
  BY ProgramKinds DEF CallsOf
<1>2. /\ ~ Receiving(k, p) /\ \A t \in Tasks : Receiving(k, t) /\ ~ Sending(k, t)
  BY <1>1, WhoRuns
<1>3. Serving(k, s, h, a)
  BY DEF Serves
<1>4. ASSUME Waits(k, d, p)
      PROVE  d \in h
  <2>1. Receiving(k, d) /\ k.getfrom[d] \in {ANY, p}
    BY <1>4 DEF Waits, Receiving
  <2>2. CASE d = DISK
    <3>1. p = FS
      BY <2>2, ProgramKinds DEF CallsOf
    <3>2. ~ Due(k, h, FS, DISK)
      BY <1>2, <3>1 DEF Due, Awaits
    <3>3. s[DISK] = << >>
      BY <1>3, <3>2 DEF Serving, DiskServes
    <3>4. Len(s[DISK]) # 1
      BY <3>3
    <3> QED  BY <1>2, <1>3, <2>2, <3>4, ProgramKinds DEF Serving, DiskServes
  <2>3. CASE d # DISK
    <3>1. d \in Servers => p = MM
      BY <1>1, ProgramKinds
    <3> QED  BY <1>1, <1>3, <2>1, <2>3, <3>1, ProgramKinds DEF Serving, LoopsKept
  <2> QED  BY <2>2, <2>3
<1>5. ASSUME d \in Tasks
      PROVE  Waits(k, d, p)
  <2>1. d \in h
    <3>1. CASE d = DISK
      <4>1. p = FS
        BY <3>1, ProgramKinds DEF CallsOf
      <4>2. ~ Due(k, h, FS, DISK)
        BY <1>2, <4>1 DEF Due, Awaits
      <4>3. s[DISK] = << >>
        BY <1>3, <4>2 DEF Serving, DiskServes
      <4>4. Len(s[DISK]) # 1
        BY <4>3
      <4> QED  BY <1>2, <1>3, <1>5, <3>1, <4>4 DEF Serving, DiskServes
    <3>2. CASE d # DISK
      BY <1>1, <1>2, <1>3, <1>5, <3>2, KernelAssumption DEF Serving, LoopsKept
    <3> QED  BY <3>1, <3>2
  <2> QED  BY <1>1, <1>2, <1>3, <1>5, <2>1 DEF Serving, LoopsKept, Waits, Receiving, Sending
<1>6. ASSUME Waits(k, d, p)
      PROVE  s[d] = << >> /\ ~ Heard(k, h, d)
  BY <1>1, <1>3, <1>4, <1>6 DEF Serving, LoopsKept, Heard, Waits, Receiving
<1>7. ASSUME Waits(k, d, p), d = FS, NEW u \in Users
      PROVE  FarFromFS(k, u)
  <2>1. d \in Servers /\ d \in h /\ Receiving(k, d) /\ ~ Sending(k, d)
    BY <1>4, <1>7, ProgramKinds DEF Waits, Receiving, Sending
  <2>2. ~ Awaits(k, u, FS) /\ k.getfrom[FS] = ANY
    BY <1>3, <1>7, <2>1, NothingToDo
  <2>3. k.callerq[FS] = << >>
    <3>1. \A v \in Members(k.callerq[FS]) : FALSE
      BY <1>1, <1>7, <2>1, <2>2 DEF Stable, Consistent, Linked, NothingLeft
    <3>2. k.callerq[FS] \in Seq(Senders)
      BY <1>1, <1>7 DEF Stable, Consistent, Kernels
    <3> QED  BY <3>1, <3>2, NoMembers
  <2>4. \A i \in 1..Len(k.callerq[FS]) : FALSE
    BY <2>3
  <2>5. DOMAIN k.callerq[FS] = {}
    BY <2>3
  <2>6. u \notin Members(k.callerq[FS])
    BY <2>5 DEF Members
  <2>7. ~ (Sending(k, u) /\ k.getfrom[u] = FS)
    BY <2>6, WhoIsQueued, ProgramKinds
  <2> QED  BY <2>2, <2>7 DEF FarFromFS, Awaits
<1> QED
  BY <1>1, <1>4, <1>5, <1>6, <1>7

\* A server calls a task, or MM calls FS, and the message is taken at once.
LEMMA CallTakenServes ==
  ASSUME Closed, NEW k, Stable(k), NEW s, NEW h, NEW a, Serves(k, s, h, a),
         NEW p \in Servers, k.proc_ptr = p, NEW d \in CallsOf(p), Waits(k, d, p),
         s[p] # << >>, s[p][1] = Request(d, k.messbuf[p].body)
  PROVE  LET r == SendRec(k, p, d)
             s2 == [s EXCEPT ![p] = Tail(@)]
         IN  Stable(r) /\ Serves(r, s2, h, a)
<1> DEFINE r == SendRec(k, p, d)
           s2 == [s EXCEPT ![p] = Tail(@)]
<1>1. /\ k \in Kernels /\ p \in Procs /\ p \in Programs /\ p \notin Users /\ p \in Senders
      /\ h \subseteq Programs /\ s \in [Programs -> Seq(Entries)]
      /\ ~ Receiving(k, p) /\ ~ Sending(k, p) /\ p \notin h /\ k.flags[p] = {}
      /\ Serving(k, s, h, a)
      /\ \A t \in Tasks : Receiving(k, t) /\ ~ Sending(k, t)
  <2>1. /\ p \in Procs /\ p \in Programs /\ p \notin Users /\ p \in Senders /\ p \notin Tasks
    BY ProgramKinds
  <2>2. /\ ~ Receiving(k, p) /\ ~ Sending(k, p) /\ k.flags[p] = {}
        /\ \A t \in Tasks : Receiving(k, t) /\ ~ Sending(k, t)
    BY <2>1, WhoRuns
  <2> QED  BY <2>1, <2>2 DEF Stable, Consistent, Serves, Serving, LoopsKept
<1>2. /\ \A q \in Programs : q \in Procs
      /\ MM \in Programs /\ FS \in Programs /\ SYSTASK \in Programs
      /\ CLOCK \in Programs /\ DISK \in Programs /\ MM # FS
      /\ MM # CLOCK /\ MM # DISK /\ MM # SYSTASK
      /\ SYSTASK # CLOCK /\ SYSTASK # DISK /\ SYSTASK # FS /\ CLOCK # DISK
      /\ FS # CLOCK /\ FS # DISK
      /\ MM \in Servers /\ FS \in Servers /\ Servers = {MM, FS}
      /\ Tasks = {SYSTASK, CLOCK, DISK}
      /\ \A q \in Procs : q # ANY /\ q # HARDWARE /\ q \in Senders
      /\ \A q \in Users : q \in Procs /\ q \notin Programs
      /\ \A q \in Servers : q \in Procs /\ q \in Programs
  BY ProgramKinds
<1>3. /\ d \in Programs /\ d # p /\ d # MM /\ d \in h /\ s[d] = << >> /\ ~ Heard(k, h, d)
      /\ d = FS => \A u \in Users : FarFromFS(k, u)
      /\ d \in Procs /\ d \in Senders /\ d \notin Users
      /\ d \in Servers => d = FS /\ p = MM
      /\ d = CLOCK => p = MM
  <2>1. d = CLOCK => p = MM
    BY <1>2 DEF CallsOf
  <2> QED  BY <1>2, <2>1, CalledListens
<1>4. /\ Stable(r)
      /\ r.flags = [k.flags EXCEPT ![d] = @ \ {"RECEIVING"}, ![p] = {"RECEIVING"}]
      /\ r.getfrom = [k.getfrom EXCEPT ![p] = d]
      /\ r.messbuf = [k.messbuf EXCEPT ![d] = [source |-> p, body |-> k.messbuf[p].body]]
      /\ r.callerq = k.callerq /\ r.intBlocked = k.intBlocked
      /\ SameSignals(k, r)
  <2>1. ~ Sending(k, d) /\ d \notin k.empty
    BY <1>2, <1>3, SendersWait DEF Waits, Sending
  <2>2. ~ Refused(k, p, d)
    BY <1>1, <1>3, <2>1, NobodyRefused
  <2>3. p \in Procs /\ d \in Procs /\ p # d /\ d \notin Users
    BY <1>1, <1>3
  <2> QED  BY <2>2, <2>3, CallDelivered
<1> HIDE DEF r
<1>5. /\ r.flags[p] = {"RECEIVING"} /\ r.getfrom[p] = d
      /\ r.messbuf[d].source = p /\ r.messbuf[d].body = k.messbuf[p].body
      /\ \A q \in Procs \ {d} : r.messbuf[q] = k.messbuf[q]
      /\ \A q \in Procs \ {p} : r.getfrom[q] = k.getfrom[q]
      /\ \A q \in Senders \ {p, d} : r.flags[q] = k.flags[q]
      /\ r.flags[d] = k.flags[d] \ {"RECEIVING"}
      /\ r.callerq = k.callerq /\ r.intBlocked = k.intBlocked
      /\ r.empty = k.empty /\ r.pending = k.pending /\ r.pendcount = k.pendcount
  <2> DEFINE m == [source |-> p, body |-> k.messbuf[p].body]
  <2>1. m.source = p /\ m.body = k.messbuf[p].body
    OBVIOUS
  <2>2. r.messbuf = [k.messbuf EXCEPT ![d] = m]
    BY <1>4
  <2> HIDE DEF m
  <2>3. DOMAIN k.messbuf = Procs /\ DOMAIN k.flags = Senders /\ DOMAIN k.getfrom = Procs
    BY <1>1 DEF Kernels
  <2>4. r.messbuf[d] = m /\ \A q \in Procs \ {d} : r.messbuf[q] = k.messbuf[q]
    BY <1>3, <2>2, <2>3
  <2> QED  BY <1>1, <1>3, <1>4, <2>1, <2>3, <2>4 DEF SameSignals
<1>6. /\ Receiving(r, p) /\ ~ Sending(r, p) /\ ~ Receiving(r, d) /\ ~ Sending(r, d)
      /\ \A q \in Procs \ {d, p} : Receiving(r, q) <=> Receiving(k, q)
      /\ \A q \in Procs : Sending(r, q) <=> Sending(k, q)
  <2>1. ~ Sending(k, d)
    BY DEF Waits, Sending
  <2>2. /\ Receiving(r, p) /\ ~ Sending(r, p) /\ ~ Receiving(r, d) /\ ~ Sending(r, d)
    BY <1>5, <2>1 DEF Receiving, Sending
  <2>3. \A q \in Procs \ {d, p} : /\ Receiving(r, q) <=> Receiving(k, q)
                                  /\ Sending(r, q) <=> Sending(k, q)
    BY <1>2, <1>5 DEF Receiving, Sending
  <2> QED  BY <1>1, <2>1, <2>2, <2>3
<1>7. /\ s2 \in [Programs -> Seq(Entries)]
      /\ <<s[p][1]>> \o s2[p] = s[p]
      /\ \A q \in Programs \ {p} : s2[q] = s[q]
  <2>1. s[p] \in Seq(Entries)
    BY <1>1
  <2>2. /\ Tail(s[p]) \in Seq(Entries) /\ <<s[p][1]>> \o Tail(s[p]) = s[p]
    BY <2>1, HeadAndTail
  <2>3. s2[p] = Tail(s[p]) /\ \A q \in Programs \ {p} : s2[q] = s[q]
    BY <1>1
  <2> QED  BY <1>1, <2>2, <2>3
<1> HIDE DEF s2
<1>8. /\ \A q \in Programs : q # d => (Heard(r, h, q) <=> Heard(k, h, q))
      /\ Heard(r, h, d) /\ ~ Heard(k, h, p)
  BY <1>1, <1>2, <1>3, <1>6 DEF Heard
<1>9. /\ \A e \in Programs : e # d => \A q : HeardFrom(r, h, e, q) <=> HeardFrom(k, h, e, q)
      /\ \A q : ~ HeardFrom(k, h, d, q) /\ (HeardFrom(r, h, d, q) <=> q = p)
  <2>1. \A e \in Programs : e # d => r.messbuf[e] = k.messbuf[e]
    BY <1>2, <1>5
  <2> QED  BY <1>3, <1>5, <1>8, <2>1 DEF HeardFrom
<1>10. /\ \A q \in Procs \ {p, d} : \A e : Awaits(r, q, e) <=> Awaits(k, q, e)
       /\ \A e : Awaits(r, p, e) <=> e = d
       /\ \A e : ~ Awaits(k, p, e) /\ ~ Awaits(r, d, e)
  BY <1>1, <1>5, <1>6 DEF Awaits
<1>11. \A q \in Servers : \A e : Due(k, h, q, e) => q # p /\ q # d /\ Due(r, h, q, e)
  BY <1>2, <1>3, <1>10 DEF Due
<1>12. Due(r, h, p, d)
  BY <1>1, <1>10 DEF Due
<1>13. /\ s[SYSTASK] = << >> /\ s[CLOCK] = << >> /\ s2[SYSTASK] = << >> /\ s2[CLOCK] = << >>
       /\ s2[DISK] = s[DISK]
       /\ \A t \in Tasks : Heard(r, h, t) => t = d
  BY <1>1, <1>2, <1>7, <1>8 DEF Serves, TasksAtWork, Heard
<1>14. LoopsKept(r, s2, h)
  <2> SUFFICES ASSUME NEW q \in Programs
               PROVE  /\ q \in h => s2[q] = << >>
                      /\ q \in h /\ Receiving(r, q) => r.getfrom[q] = ANY
                      /\ q \notin h /\ Receiving(r, q) =>
                           \/ q = DISK /\ r.getfrom[q] = HARDWARE
                           \/ q \in Servers /\ r.getfrom[q] \in Programs \ {MM}
                      /\ Sending(r, q) =>
                           q = MM /\ MM \notin h /\ Receiving(r, MM) /\ r.getfrom[MM] = FS
    BY DEF LoopsKept
  <2>1. LoopsKept(k, s, h)
    BY <1>1 DEF Serving
  <2>2. CASE q = p
    BY <1>1, <1>3, <1>5, <1>6, <2>2
  <2>3. CASE q = d
    BY <1>3, <1>6, <1>7, <2>3
  <2>4. CASE q # p /\ q # d
    BY <1>2, <1>5, <1>6, <1>7, <2>1, <2>4, SMTT(30) DEF LoopsKept
  <2> QED  BY <2>2, <2>3, <2>4
<1>15. UsersCall(r)
  <2>1. UsersCall(k)
    BY <1>1 DEF Serving
  <2>2. \A u \in Users : u \in Procs \ {p, d}
    BY <1>1, <1>2, <1>3
  <2> QED  BY <1>5, <1>6, <2>1, <2>2 DEF UsersCall
<1>16. RequestsHeld(r, h)
  <2> SUFFICES ASSUME NEW e \in Programs, NEW q \in Servers, HeardFrom(r, h, e, q)
               PROVE  Due(r, h, q, e) /\ r.messbuf[e].body = r.messbuf[q].body
    BY DEF RequestsHeld
  <2>1. CASE e = d
    BY <1>1, <1>3, <1>5, <1>9, <1>12, <2>1
  <2>2. CASE e # d
    <3>1. HeardFrom(k, h, e, q)
      BY <1>9, <2>2
    <3>2. RequestsHeld(k, h)
      BY <1>1 DEF Serving
    <3>3. Due(k, h, q, e) /\ k.messbuf[e].body = k.messbuf[q].body
      BY <3>1, <3>2 DEF RequestsHeld
    <3> QED  BY <1>2, <1>5, <1>11, <2>2, <3>3
  <2> QED  BY <2>1, <2>2
<1>17. SysTaskServes(r, s2, h)
  BY <1>2, <1>5, <1>13 DEF SysTaskServes
<1>18. ClockServes(r, s2, h, a)
  <2>1. Len(s2[CLOCK]) = 0
    BY <1>13
  <2>2. \A i \in 1..Len(s2[CLOCK]) : FALSE
    BY <2>1
  <2>3. ClockServes(k, s, h, a)
    BY <1>1 DEF Serving
  <2> QED  BY <1>2, <1>3, <1>5, <1>13, <2>2, <2>3 DEF ClockServes
<1>19. DiskServes(r, s2, h)
  <2>1. DiskServes(k, s, h)
    BY <1>1 DEF Serving
  <2>2. DISK # p
    BY <1>2
  <2> QED  BY <1>2, <1>3, <1>5, <1>6, <1>11, <1>13, <2>1, <2>2 DEF DiskServes
<1>20. KnowledgeKept(k, r)
  BY <1>5 DEF KnowledgeKept, Knows
<1>21. \A q \in Servers : Todo(r, s2, h, q) = Todo(k, s, h, q)
  <2> SUFFICES ASSUME NEW q \in Servers
               PROVE  Todo(r, s2, h, q) = Todo(k, s, h, q)
    OBVIOUS
  <2>1. CASE q = p
    <3>1. Undone(r, h, p) /\ ~ Undone(k, h, p)
      BY <1>1, <1>5, <1>6, <1>9 DEF Undone
    <3>2. r.messbuf[p] = k.messbuf[p]
      BY <1>1, <1>3, <1>5
    <3>3. Todo(r, s2, h, p) = <<s[p][1]>> \o s2[p]
      BY <1>5, <3>1, <3>2, Zenon DEF Todo
    <3> QED  BY <1>7, <2>1, <3>1, <3>3 DEF Todo
  <2>2. CASE q = d
    BY <1>3, <1>7, <2>2 DEF Todo, Undone
  <2>3. CASE q # p /\ q # d
    <3>0. q \in Programs /\ q \in Procs /\ s2[q] = s[q]
      BY <1>2, <1>7, <2>3
    <3>1. q \notin h /\ Receiving(k, q) => k.getfrom[q] \in Programs
      BY <1>1, <1>2, <3>0 DEF Serving, LoopsKept
    <3>2. Undone(r, h, q) <=> Undone(k, h, q)
      BY <1>5, <1>6, <1>9, <2>3, <3>0, <3>1 DEF Undone
    <3> QED  BY <1>5, <2>3, <3>0, <3>2, Zenon DEF Todo
  <2> QED  BY <2>1, <2>2, <2>3
<1>22. MMServes(r, s2, h)
  <2>1. MM \in Procs /\ FS \in Procs /\ MM # d
    BY <1>2, <1>3
  <2>2. \A u \in Users \ k.empty :
          /\ Awaits(k, u, MM) => Awaits(r, u, MM)
          /\ "SIG_PENDING" \in k.flags[u] => "SIG_PENDING" \in r.flags[u]
          /\ FarFromFS(k, u) => FarFromFS(r, u)
    <3>1. \A u \in Users : u \in Procs \ {p, d} /\ u \in Senders \ {p, d}
      BY <1>1, <1>2, <1>3
    <3> QED  BY <1>5, <1>6, <1>10, <3>1 DEF FarFromFS
  <2>3. HeardFrom(r, h, FS, MM) /\ ~ HeardFrom(k, h, FS, MM) =>
          \A u \in Users \ k.empty : FarFromFS(r, u)
    BY <1>2, <1>3, <1>9, <2>2
  <2>4. Sending(r, MM) => Sending(k, MM)
    BY <1>6, <2>1
  <2>5. Heard(r, h, MM) <=> Heard(k, h, MM)
    BY <1>2, <1>8, <2>1
  <2>6. Todo(r, s2, h, MM) = Todo(k, s, h, MM)
    BY <1>2, <1>21
  <2>7. MMFrame(k, s, h, r, s2, h)
    BY <1>5, <1>20, <2>1, <2>2, <2>3, <2>4, <2>5, <2>6 DEF MMFrame, InOrder
  <2> QED  BY <1>1, <1>2, <2>7, MMKept DEF Serving
<1>23. FSServes(r, s2, h)
  <2>1. \A u \in Users : u \in Procs \ {p, d} /\ u \in Senders \ {p, d}
    BY <1>1, <1>2, <1>3
  <2>2. CASE d = FS
    <3>1. FSMessage(r)
      BY <1>2, <1>3, <1>5, <2>2 DEF FSMessage
    <3>2. \A u \in Users : ~ Awaits(r, u, FS)
      BY <1>3, <1>10, <2>1, <2>2, ZenonT(40) DEF FarFromFS, Awaits
    <3> QED  BY <1>8, <2>2, <3>1, <3>2 DEF FSServes, FSKnows
  <2>3. CASE d # FS
    <3>1. /\ \A u \in Users : Awaits(r, u, FS) => Awaits(k, u, FS)
          /\ \A u \in Users : AwaitsAlive(k, u, FS) => AwaitsAlive(r, u, FS)
      BY <1>5, <1>10, <2>1 DEF AwaitsAlive
    <3>2. FSFrame(k, s, h, r, s2, h)
      BY <1>2, <1>5, <1>8, <1>11, <1>21, <2>3, <3>1 DEF FSFrame
    <3> QED  BY <1>1, <3>2, FSKept DEF Serving
  <2> QED  BY <2>2, <2>3
<1>24. TasksAtWork(r, s2, h)
  <2>1. ASSUME Heard(r, h, SYSTASK)
        PROVE  r.proc_ptr = SYSTASK
    <3>1. d = SYSTASK
      BY <1>2, <1>13, <2>1
    <3>2. r.flags[SYSTASK] = {}
      <4>1. k.flags[SYSTASK] \subseteq {"SENDING", "RECEIVING"}
        BY <1>2 DEF Stable, Consistent, KindsKept
      <4>2. "SENDING" \notin k.flags[SYSTASK]
        BY <1>1, <1>2 DEF Sending
      <4> QED  BY <1>5, <3>1, <4>1, <4>2
    <3>3. \A t \in Tasks : t # SYSTASK => Receiving(r, t)
      BY <1>1, <1>2, <1>6, <3>1
    <3> QED  BY <1>2, <1>4, <3>2, <3>3, OnlyTaskRuns
  <2> QED  BY <1>13, <2>1 DEF TasksAtWork
<1> QED
  BY <1>1, <1>4, <1>5, <1>7, <1>14, <1>15, <1>16, <1>17, <1>18, <1>19, <1>22, <1>23, <1>24
  DEF Serving, Serves, r, s2

\* Who comes last into a queue is behind all others.
LEMMA BeforeLast ==
  ASSUME NEW S, NEW q \in Seq(S), NEW v \in S, v \notin Members(q), NEW u, u # v
  PROVE  Before(Append(q, v), u, v)
<1> DEFINE w == Append(q, v)
<1>1. /\ Len(q) \in Nat /\ DOMAIN w = 1..(Len(q) + 1) /\ DOMAIN q = 1..Len(q)
      /\ w[Len(q) + 1] = v /\ \A i \in 1..Len(q) : w[i] = q[i]
  OBVIOUS
<1> HIDE DEF w
<1>2. \A i \in 1..Len(q) : q[i] # v
  BY <1>1 DEF Members
<1>3. \A j \in DOMAIN w : w[j] = v => j = Len(q) + 1
  BY <1>1, <1>2
<1>4. \A i \in DOMAIN w : w[i] = u => i # Len(q) + 1
  BY <1>1
<1>5. Before(w, u, v)
  BY <1>1, <1>3, <1>4 DEF Before
<1> QED
  BY <1>5 DEF w

\* MM calls FS while it is busy, and is queued.
LEMMA CallQueuedServes ==
  ASSUME Closed, NEW k, Stable(k), NEW s, NEW h, NEW a, Serves(k, s, h, a),
         NEW p \in Servers, k.proc_ptr = p, NEW d \in CallsOf(p), ~ Waits(k, d, p),
         s[p] # << >>, s[p][1] = Request(d, k.messbuf[p].body)
  PROVE  LET r == SendRec(k, p, d)
             s2 == [s EXCEPT ![p] = Tail(@)]
         IN  Stable(r) /\ Serves(r, s2, h, a)
<1> DEFINE r == SendRec(k, MM, FS)
           s2 == [s EXCEPT ![p] = Tail(@)]
<1>1. p = MM /\ d = FS
  BY CalledListens, ProgramKinds DEF CallsOf
<1>2. /\ \A q \in Programs : q \in Procs
      /\ MM \in Programs /\ FS \in Programs /\ SYSTASK \in Programs
      /\ CLOCK \in Programs /\ DISK \in Programs /\ MM # FS
      /\ MM # CLOCK /\ MM # DISK /\ MM # SYSTASK /\ FS # DISK
      /\ MM \in Servers /\ FS \in Servers /\ Servers = {MM, FS}
      /\ MM \notin Tasks /\ MM \notin Users /\ FS \notin Users
      /\ Tasks = {SYSTASK, CLOCK, DISK}
      /\ \A q \in Procs : q # ANY /\ q # HARDWARE /\ q \in Senders
      /\ \A q \in Users : q \in Procs /\ q \notin Programs
      /\ \A q \in Servers : q \in Procs /\ q \in Programs
  BY ProgramKinds
<1>3. /\ k \in Kernels
      /\ h \subseteq Programs /\ s \in [Programs -> Seq(Entries)]
      /\ ~ Receiving(k, MM) /\ ~ Sending(k, MM) /\ MM \notin h /\ k.flags[MM] = {}
      /\ Serving(k, s, h, a)
      /\ \A t \in Tasks : Receiving(k, t) /\ ~ Sending(k, t)
  <2>1. /\ ~ Receiving(k, MM) /\ ~ Sending(k, MM) /\ k.flags[MM] = {}
        /\ \A t \in Tasks : Receiving(k, t) /\ ~ Sending(k, t)
    BY <1>1, <1>2, WhoRuns
  <2> QED  BY <1>1, <1>2, <2>1 DEF Stable, Consistent, Serves, Serving, LoopsKept
<1>4. /\ Stable(r)
      /\ r.flags = [k.flags EXCEPT ![MM] = {"SENDING", "RECEIVING"}]
      /\ r.getfrom = [k.getfrom EXCEPT ![MM] = FS]
      /\ r.callerq = WithCaller(k, FS, MM)
      /\ r.sendto = [k.sendto EXCEPT ![MM] = FS]
      /\ r.messbuf = k.messbuf /\ r.intBlocked = k.intBlocked
      /\ SameSignals(k, r)
  <2>1. ~ Sending(k, FS) /\ FS \notin k.empty
    BY <1>2, SendersWait
  <2>2. ~ Refused(k, MM, FS)
    BY <1>1, <1>2, <2>1, NobodyRefused
  <2>3. MM \in Procs /\ FS \in Procs /\ MM # FS /\ FS \notin Users
    BY <1>2
  <2>4. k.proc_ptr = MM /\ ~ Waits(k, FS, MM)
    BY <1>1
  <2> QED  BY <2>2, <2>3, <2>4, CallQueued
<1> HIDE DEF r
<1>5. /\ r.flags[MM] = {"SENDING", "RECEIVING"} /\ r.getfrom[MM] = FS
      /\ \A q \in Procs \ {MM} : r.getfrom[q] = k.getfrom[q]
      /\ \A q \in Senders \ {MM} : r.flags[q] = k.flags[q]
      /\ r.messbuf = k.messbuf /\ r.intBlocked = k.intBlocked
      /\ r.callerq[FS] = Append(k.callerq[FS], MM)
      /\ r.empty = k.empty /\ r.pending = k.pending /\ r.pendcount = k.pendcount
  BY <1>2, <1>3, <1>4, ZenonT(40) DEF SameSignals, WithCaller, Kernels
<1>6. /\ Receiving(r, MM) /\ Sending(r, MM)
      /\ \A q \in Procs \ {MM} : /\ Receiving(r, q) <=> Receiving(k, q)
                                 /\ Sending(r, q) <=> Sending(k, q)
  BY <1>2, <1>5 DEF Receiving, Sending
<1>7. /\ s2 \in [Programs -> Seq(Entries)]
      /\ <<s[MM][1]>> \o s2[MM] = s[MM]
      /\ \A q \in Programs \ {MM} : s2[q] = s[q]
  <2>1. s[MM] \in Seq(Entries)
    BY <1>2, <1>3
  <2>2. /\ Tail(s[MM]) \in Seq(Entries) /\ <<s[MM][1]>> \o Tail(s[MM]) = s[MM]
    BY <1>1, <2>1, HeadAndTail
  <2>3. s2[MM] = Tail(s[MM]) /\ \A q \in Programs \ {MM} : s2[q] = s[q]
    BY <1>1, <1>2, <1>3
  <2> QED  BY <1>1, <1>2, <1>3, <2>2, <2>3
<1> HIDE DEF s2
<1>8. \A q \in Programs : Heard(r, h, q) <=> Heard(k, h, q)
  BY <1>2, <1>3, <1>6 DEF Heard
<1>9. \A e, q : e \in Programs => (HeardFrom(r, h, e, q) <=> HeardFrom(k, h, e, q))
  BY <1>5, <1>8 DEF HeardFrom
<1>10. /\ \A q \in Procs \ {MM} : \A e : Awaits(r, q, e) <=> Awaits(k, q, e)
       /\ \A e : ~ Awaits(k, MM, e) /\ ~ Awaits(r, MM, e)
  BY <1>3, <1>5, <1>6 DEF Awaits
<1>11. \A q \in Servers : \A e : Due(k, h, q, e) <=> Due(r, h, q, e)
  BY <1>2, <1>10 DEF Due
<1>12. /\ s[SYSTASK] = << >> /\ s[CLOCK] = << >> /\ s2[SYSTASK] = << >> /\ s2[CLOCK] = << >>
       /\ s2[DISK] = s[DISK]
       /\ \A t \in Tasks : ~ Heard(r, h, t)
  BY <1>1, <1>2, <1>3, <1>7, <1>8 DEF Serves, TasksAtWork, Heard
<1>13. LoopsKept(r, s2, h)
  <2> SUFFICES ASSUME NEW q \in Programs
               PROVE  /\ q \in h => s2[q] = << >>
                      /\ q \in h /\ Receiving(r, q) => r.getfrom[q] = ANY
                      /\ q \notin h /\ Receiving(r, q) =>
                           \/ q = DISK /\ r.getfrom[q] = HARDWARE
                           \/ q \in Servers /\ r.getfrom[q] \in Programs \ {MM}
                      /\ Sending(r, q) =>
                           q = MM /\ MM \notin h /\ Receiving(r, MM) /\ r.getfrom[MM] = FS
    BY DEF LoopsKept
  <2>1. LoopsKept(k, s, h)
    BY <1>3 DEF Serving
  <2>2. CASE q = MM
    BY <1>2, <1>3, <1>5, <1>6, <2>2
  <2>3. CASE q # MM
    BY <1>2, <1>5, <1>6, <1>7, <2>1, <2>3, ZenonT(40) DEF LoopsKept
  <2> QED  BY <2>2, <2>3
<1>14. UsersCall(r)
  <2>1. UsersCall(k)
    BY <1>3 DEF Serving
  <2>2. \A u \in Users : u \in Procs \ {MM}
    BY <1>2
  <2> QED  BY <1>5, <1>6, <2>1, <2>2 DEF UsersCall
<1>15. RequestsHeld(r, h)
  BY <1>3, <1>5, <1>9, <1>11 DEF RequestsHeld, Serving
<1>16. SysTaskServes(r, s2, h)
  BY <1>2, <1>12 DEF SysTaskServes
<1>17. ClockServes(r, s2, h, a)
  <2>1. Len(s2[CLOCK]) = 0
    BY <1>12
  <2>2. \A i \in 1..Len(s2[CLOCK]) : FALSE
    BY <2>1
  <2>3. ClockServes(k, s, h, a)
    BY <1>3 DEF Serving
  <2> QED  BY <1>2, <1>5, <1>12, <2>2, <2>3 DEF ClockServes
<1>18. DiskServes(r, s2, h)
  <2>1. DiskServes(k, s, h)
    BY <1>3 DEF Serving
  <2> QED  BY <1>2, <1>5, <1>6, <1>11, <1>12, <2>1 DEF DiskServes
<1>19. KnowledgeKept(k, r)
  BY <1>5 DEF KnowledgeKept, Knows
<1>20. \A q \in Servers : Todo(r, s2, h, q) = Todo(k, s, h, q)
  <2>1. Todo(r, s2, h, MM) = Todo(k, s, h, MM)
    <3>1. Undone(r, h, MM) /\ ~ Undone(k, h, MM)
      BY <1>3, <1>6 DEF Undone
    <3>2. Todo(r, s2, h, MM) = <<s[MM][1]>> \o s2[MM]
      BY <1>1, <1>5, <3>1, Zenon DEF Todo
    <3> QED  BY <1>7, <3>1, <3>2 DEF Todo
  <2>2. Todo(r, s2, h, FS) = Todo(k, s, h, FS)
    <3>0. FS \in Programs /\ FS \in Procs \ {MM} /\ s2[FS] = s[FS]
      BY <1>2, <1>7
    <3>1. FS \notin h /\ Receiving(k, FS) => k.getfrom[FS] \in Programs
      BY <1>2, <1>3, <3>0 DEF Serving, LoopsKept
    <3>2. Undone(r, h, FS) <=> Undone(k, h, FS)
      BY <1>5, <1>6, <1>9, <3>0, <3>1 DEF Undone
    <3> QED  BY <1>5, <3>0, <3>2, Zenon DEF Todo
  <2> QED  BY <1>2, <2>1, <2>2
<1>21. MMServes(r, s2, h)
  <2>1. \A u \in Users \ k.empty :
          /\ Awaits(k, u, MM) => Awaits(r, u, MM)
          /\ "SIG_PENDING" \in k.flags[u] => "SIG_PENDING" \in r.flags[u]
          /\ FarFromFS(k, u) => FarFromFS(r, u)
    <3>1. \A u \in Users : u \in Procs \ {MM} /\ u \in Senders \ {MM}
      BY <1>2
    <3> QED  BY <1>5, <1>6, <1>10, <3>1 DEF FarFromFS
  <2>2. \A u \in Users : Before(r.callerq[FS], u, MM)
    <3>1. k.callerq[FS] \in Seq(Senders) /\ MM \in Senders
      BY <1>2, <1>3 DEF Kernels
    <3>2. MM \notin Members(k.callerq[FS])
      BY <1>2, <1>3, WhoIsQueued
    <3>3. ASSUME NEW u \in Users
          PROVE  Before(Append(k.callerq[FS], MM), u, MM)
      <4>1. u # MM
        BY <1>2
      <4> QED  BY <3>1, <3>2, <4>1, BeforeLast
    <3> QED  BY <1>5, <3>3
  <2>3. HeardFrom(r, h, FS, MM) <=> HeardFrom(k, h, FS, MM)
    BY <1>2, <1>9
  <2>4. Heard(r, h, MM) <=> Heard(k, h, MM)
    BY <1>2, <1>8
  <2>5. Todo(r, s2, h, MM) = Todo(k, s, h, MM)
    BY <1>2, <1>20
  <2>6. MMFrame(k, s, h, r, s2, h)
    BY <1>5, <1>19, <2>1, <2>2, <2>3, <2>4, <2>5 DEF MMFrame
  <2> QED  BY <1>2, <1>3, <2>6, MMKept DEF Serving
<1>22. FSServes(r, s2, h)
  <2>1. \A u \in Users : u \in Procs \ {MM}
    BY <1>2
  <2>2. /\ \A u \in Users : Awaits(r, u, FS) => Awaits(k, u, FS)
        /\ \A u \in Users : AwaitsAlive(k, u, FS) => AwaitsAlive(r, u, FS)
    BY <1>5, <1>10, <2>1 DEF AwaitsAlive
  <2>3. FSFrame(k, s, h, r, s2, h)
    BY <1>2, <1>5, <1>8, <1>11, <1>20, <2>2 DEF FSFrame
  <2> QED  BY <1>3, <2>3, FSKept DEF Serving
<1>23. TasksAtWork(r, s2, h)
  BY <1>2, <1>12 DEF TasksAtWork
<1> QED
  BY <1>1, <1>3, <1>4, <1>5, <1>7, <1>13, <1>14, <1>15, <1>16, <1>17, <1>18, <1>21, <1>22, <1>23
  DEF Serving, Serves, r, s2

\* A driver that finds no interrupt sleeps.
LEMMA AwaitSleeps ==
  ASSUME NEW k, k \in Kernels, ReadyQueuesExact(k), NEW c \in Procs, c \notin k.empty, c # MM
  PROVE  LET r == Sleep(k, c, HARDWARE)
         IN  /\ r.flags = [k.flags EXCEPT ![c] = @ \cup {"RECEIVING"}]
             /\ r.getfrom = [k.getfrom EXCEPT ![c] = HARDWARE]
             /\ r.callerq = k.callerq /\ r.sendto = k.sendto /\ r.messbuf = k.messbuf
             /\ r.intBlocked = k.intBlocked
             /\ SameSignals(k, r)
<1> DEFINE d == HARDWARE
<1>1. d \in Procs \cup {HARDWARE, ANY}
  OBVIOUS
<1> HIDE DEF d
<1>2. LET r == Sleep(k, c, d)
      IN  /\ r.flags = [k.flags EXCEPT ![c] = @ \cup {"RECEIVING"}]
          /\ r.getfrom = [k.getfrom EXCEPT ![c] = d]
          /\ r.callerq = k.callerq /\ r.sendto = k.sendto /\ r.messbuf = k.messbuf
          /\ r.intBlocked = k.intBlocked
          /\ SameSignals(k, r)
  BY <1>1, SleepsFor
<1> QED  BY <1>2 DEF d

\* The driver waits for its device, or takes the interrupt that has come.
LEMMA AwaitServes ==
  ASSUME Closed, NEW k, Stable(k), NEW s, NEW h, NEW a, Serves(k, s, h, a),
         k.proc_ptr = DISK, s[DISK] # << >>, s[DISK][1] = AwaitInterrupt
  PROVE  LET r == MiniRec(k, DISK, HARDWARE)
             s2 == [s EXCEPT ![DISK] = Tail(@)]
         IN  Stable(r) /\ Serves(r, s2, h, a)
<1> DEFINE r == MiniRec(k, DISK, HARDWARE)
           s2 == [s EXCEPT ![DISK] = Tail(@)]
<1>1. /\ \A q \in Programs : q \in Procs
      /\ MM \in Programs /\ FS \in Programs /\ SYSTASK \in Programs
      /\ CLOCK \in Programs /\ DISK \in Programs /\ MM # FS
      /\ MM # DISK /\ FS # DISK /\ SYSTASK # DISK /\ CLOCK # DISK
      /\ MM \in Servers /\ FS \in Servers /\ Servers = {MM, FS} /\ DISK \in Tasks
      /\ \A q \in Procs : q # ANY /\ q # HARDWARE /\ q \in Senders
      /\ HARDWARE \in Senders /\ HARDWARE # ANY
      /\ \A q \in Users : q \in Procs /\ q \notin Programs
      /\ \A q \in Servers : q \in Procs /\ q \in Programs /\ q # DISK
  BY ProgramKinds
<1>2. /\ k \in Kernels /\ ReadyQueuesExact(k)
      /\ h \subseteq Programs /\ s \in [Programs -> Seq(Entries)]
      /\ ~ Receiving(k, DISK) /\ ~ Sending(k, DISK) /\ k.flags[DISK] = {}
      /\ DISK \notin h /\ DISK \notin k.empty
      /\ Serving(k, s, h, a)
  <2>1. /\ ~ Receiving(k, DISK) /\ ~ Sending(k, DISK) /\ k.flags[DISK] = {}
        /\ DISK \notin k.empty
    BY <1>1, WhoRuns
  <2> QED  BY <1>1, <2>1 DEF Stable, Consistent, Serves, Serving, LoopsKept
<1>3. Stable(r)
  BY <1>1, <1>2, MiniRecKeeps DEF Stable
<1>4. /\ \A q \in Procs \ {DISK} : /\ r.messbuf[q] = k.messbuf[q]
                                   /\ r.getfrom[q] = k.getfrom[q]
      /\ \A q \in Senders \ {DISK} : r.flags[q] = k.flags[q]
      /\ Receiving(r, DISK) => r.getfrom[DISK] = HARDWARE
      /\ ~ Sending(r, DISK)
      /\ r.callerq = k.callerq /\ r.intBlocked \subseteq k.intBlocked
      /\ r.empty = k.empty /\ r.pending = k.pending /\ r.pendcount = k.pendcount
  <2>1. k.callerq[DISK] = << >>
    BY <1>1, WhoIsQueued
  <2>2. DOMAIN k.messbuf = Procs /\ DOMAIN k.flags = Senders /\ DOMAIN k.getfrom = Procs
    BY <1>2 DEF Kernels
  <2>3. CASE DISK \in k.intBlocked
    <3> DEFINE m == [source |-> HARDWARE, body |-> <<"HARD_INT">>]
    <3>1. DISK \in Procs
      BY <1>1
    <3>2. /\ r.messbuf = [k.messbuf EXCEPT ![DISK] = m]
          /\ r.flags = k.flags /\ r.getfrom = k.getfrom /\ r.sendto = k.sendto
          /\ r.callerq = k.callerq /\ r.intBlocked = k.intBlocked \ {DISK}
          /\ SameSignals(k, r)
      BY <1>2, <2>1, <2>3, <3>1, InterruptTaken, ZenonT(40)
    <3> HIDE DEF m, r
    <3> QED  BY <1>1, <1>2, <2>2, <3>2 DEF SameSignals, Receiving, Sending
  <2>4. CASE DISK \notin k.intBlocked
    <3>1. r = Sleep(k, DISK, HARDWARE) /\ DISK \in Procs
      BY <1>1, <1>2, <2>1, <2>4, NothingTaken
    <3>4. /\ k \in Kernels /\ ReadyQueuesExact(k) /\ DISK \notin k.empty
          /\ HARDWARE \in Procs \cup {HARDWARE, ANY} /\ DISK # MM
      BY <1>1, <1>2
    <3> HIDE DEF r
    <3> DEFINE w == Sleep(k, DISK, HARDWARE)
    <3>5. /\ w.flags = [k.flags EXCEPT ![DISK] = @ \cup {"RECEIVING"}]
          /\ w.getfrom = [k.getfrom EXCEPT ![DISK] = HARDWARE]
          /\ w.callerq = k.callerq /\ w.sendto = k.sendto /\ w.messbuf = k.messbuf
          /\ w.intBlocked = k.intBlocked
          /\ SameSignals(k, w)
      BY <3>1, <3>4, AwaitSleeps
    <3>2. /\ r.flags = [k.flags EXCEPT ![DISK] = @ \cup {"RECEIVING"}]
          /\ r.getfrom = [k.getfrom EXCEPT ![DISK] = HARDWARE]
          /\ r.callerq = k.callerq /\ r.sendto = k.sendto /\ r.messbuf = k.messbuf
          /\ r.intBlocked = k.intBlocked
          /\ SameSignals(k, r)
      BY <3>1, <3>5
    <3>3. r.flags[DISK] = {"RECEIVING"} /\ r.getfrom[DISK] = HARDWARE
      BY <1>1, <1>2, <2>2, <3>2
    <3> QED  BY <1>1, <2>2, <3>2, <3>3 DEF SameSignals, Receiving, Sending
  <2> QED  BY <2>3, <2>4
<1> HIDE DEF r
<1>5. \A q \in Procs \ {DISK} : /\ Receiving(r, q) <=> Receiving(k, q)
                                /\ Sending(r, q) <=> Sending(k, q)
  BY <1>1, <1>4 DEF Receiving, Sending
<1>6. /\ s2 \in [Programs -> Seq(Entries)]
      /\ Len(s2[DISK]) = 1 /\ s2[DISK][1] = Answer(FS) /\ Due(k, h, FS, DISK)
      /\ \A q \in Programs \ {DISK} : s2[q] = s[q]
  <2>1. DiskServes(k, s, h)
    BY <1>2 DEF Serving
  <2>2. Len(s[DISK]) = 2 /\ s[DISK][2] = Answer(FS) /\ Due(k, h, FS, DISK)
    <3>1. Answer(FS).do # AwaitInterrupt.do
      BY DEF Answer, AwaitInterrupt
    <3> QED  BY <2>1, <3>1 DEF DiskServes
  <2>3. s[DISK] \in Seq(Entries)
    BY <1>1, <1>2
  <2>4. Tail(s[DISK]) \in Seq(Entries) /\ Len(Tail(s[DISK])) = 1 /\ Tail(s[DISK])[1] = s[DISK][2]
    BY <2>2, <2>3, HeadAndTail
  <2>5. s2[DISK] = Tail(s[DISK]) /\ \A q \in Programs \ {DISK} : s2[q] = s[q]
    BY <1>1, <1>2
  <2> QED  BY <1>2, <2>2, <2>4, <2>5
<1> HIDE DEF s2
<1>7. \A q \in Programs : Heard(r, h, q) <=> Heard(k, h, q)
  BY <1>1, <1>2, <1>5 DEF Heard
<1>8. /\ ~ Heard(k, h, DISK)
      /\ \A e, q : e \in Programs => (HeardFrom(r, h, e, q) <=> HeardFrom(k, h, e, q))
  BY <1>1, <1>2, <1>4, <1>7 DEF HeardFrom, Heard
<1>9. /\ \A q \in Procs \ {DISK} : \A e : Awaits(r, q, e) <=> Awaits(k, q, e)
      /\ \A q \in Servers : \A e : Due(r, h, q, e) <=> Due(k, h, q, e)
  BY <1>1, <1>4, <1>5 DEF Awaits, Due
<1>10. /\ s[SYSTASK] = << >> /\ s[CLOCK] = << >> /\ s2[SYSTASK] = << >> /\ s2[CLOCK] = << >>
       /\ ~ Heard(k, h, SYSTASK)
  BY <1>1, <1>6 DEF Serves, TasksAtWork
<1>11. LoopsKept(r, s2, h)
  <2> SUFFICES ASSUME NEW q \in Programs
               PROVE  /\ q \in h => s2[q] = << >>
                      /\ q \in h /\ Receiving(r, q) => r.getfrom[q] = ANY
                      /\ q \notin h /\ Receiving(r, q) =>
                           \/ q = DISK /\ r.getfrom[q] = HARDWARE
                           \/ q \in Servers /\ r.getfrom[q] \in Programs \ {MM}
                      /\ Sending(r, q) =>
                           q = MM /\ MM \notin h /\ Receiving(r, MM) /\ r.getfrom[MM] = FS
    BY DEF LoopsKept
  <2>1. LoopsKept(k, s, h)
    BY <1>2 DEF Serving
  <2>2. CASE q = DISK
    BY <1>2, <1>4, <2>2
  <2>3. CASE q # DISK
    BY <1>1, <1>4, <1>5, <1>6, <2>1, <2>3, ZenonT(40) DEF LoopsKept
  <2> QED  BY <2>2, <2>3
<1>12. UsersCall(r)
  <2>1. UsersCall(k)
    BY <1>2 DEF Serving
  <2>2. \A u \in Users : u \in Procs \ {DISK}
    BY <1>1
  <2> QED  BY <1>4, <1>5, <2>1, <2>2 DEF UsersCall
<1>13. RequestsHeld(r, h)
  <2> SUFFICES ASSUME NEW e \in Programs, NEW q \in Servers, HeardFrom(r, h, e, q)
               PROVE  Due(r, h, q, e) /\ r.messbuf[e].body = r.messbuf[q].body
    BY DEF RequestsHeld
  <2>1. HeardFrom(k, h, e, q) /\ e # DISK
    BY <1>8 DEF HeardFrom
  <2>2. RequestsHeld(k, h)
    BY <1>2 DEF Serving
  <2> QED  BY <1>1, <1>4, <1>9, <2>1, <2>2 DEF RequestsHeld
<1>14. SysTaskServes(r, s2, h)
  BY <1>1, <1>7, <1>10 DEF SysTaskServes
<1>15. ClockServes(r, s2, h, a)
  <2>1. Len(s2[CLOCK]) = 0
    BY <1>10
  <2>2. \A i \in 1..Len(s2[CLOCK]) : FALSE
    BY <2>1
  <2>3. ClockServes(k, s, h, a)
    BY <1>2 DEF Serving
  <2> QED  BY <1>1, <1>4, <1>7, <2>2, <2>3 DEF ClockServes
<1>16. DiskServes(r, s2, h)
  BY <1>1, <1>6, <1>7, <1>8, <1>9 DEF DiskServes
<1>17. KnowledgeKept(k, r)
  BY <1>4 DEF KnowledgeKept, Knows
<1>18. \A q \in Servers : Todo(r, s2, h, q) = Todo(k, s, h, q)
  <2> SUFFICES ASSUME NEW q \in Servers
               PROVE  Todo(r, s2, h, q) = Todo(k, s, h, q)
    OBVIOUS
  <2>1. q \in Programs /\ q \in Procs \ {DISK} /\ s2[q] = s[q]
    BY <1>1, <1>6
  <2>2. q \notin h /\ Receiving(k, q) => k.getfrom[q] \in Programs
    BY <1>1, <1>2, <2>1 DEF Serving, LoopsKept
  <2>3. Undone(r, h, q) <=> Undone(k, h, q)
    BY <1>4, <1>5, <1>8, <2>1, <2>2 DEF Undone
  <2> QED  BY <1>4, <2>1, <2>3, Zenon DEF Todo
<1>19. MMServes(r, s2, h)
  <2>1. \A u \in Users \ k.empty :
          /\ Awaits(k, u, MM) => Awaits(r, u, MM)
          /\ "SIG_PENDING" \in k.flags[u] => "SIG_PENDING" \in r.flags[u]
          /\ FarFromFS(k, u) => FarFromFS(r, u)
    <3>1. \A u \in Users : u \in Procs \ {DISK} /\ u \in Senders \ {DISK}
      BY <1>1
    <3> QED  BY <1>4, <1>5, <1>9, <3>1 DEF FarFromFS
  <2>2. MM \in Procs \ {DISK}
    BY <1>1
  <2>3. MMFrame(k, s, h, r, s2, h)
    BY <1>1, <1>4, <1>5, <1>7, <1>8, <1>17, <1>18, <2>1, <2>2 DEF MMFrame, InOrder
  <2> QED  BY <1>1, <1>2, <2>3, MMKept DEF Serving
<1>20. FSServes(r, s2, h)
  <2>1. \A u \in Users : u \in Procs \ {DISK}
    BY <1>1
  <2>2. FSFrame(k, s, h, r, s2, h)
    BY <1>1, <1>4, <1>7, <1>9, <1>18, <2>1 DEF FSFrame, AwaitsAlive
  <2> QED  BY <1>2, <2>2, FSKept DEF Serving
<1>21. TasksAtWork(r, s2, h)
  BY <1>1, <1>7, <1>10 DEF TasksAtWork
<1>22. SYSTASK \notin r.intBlocked
  BY <1>2, <1>4 DEF Serving
<1> QED
  BY <1>2, <1>3, <1>6, <1>11, <1>12, <1>13, <1>14, <1>15, <1>16, <1>19, <1>20, <1>21, <1>22
  DEF Serving, Serves, r, s2

-----------------------------------------------------------------------------
(* Signals *)

\* It is kept when nothing happens to them.
LEMMA ProgramsGoOn ==
  ASSUME Closed, NEW k, NEW s, NEW h, ProgramsServe(k, s, h), NEW r, ProgramsKept(k, r)
  PROVE  /\ ProgramsServe(r, s, h)
         /\ \A p \in Programs : /\ Receiving(r, p) <=> Receiving(k, p)
                                /\ Sending(r, p) <=> Sending(k, p)
                                /\ Heard(r, h, p) <=> Heard(k, h, p)
         /\ \A d \in Programs : \A p : HeardFrom(r, h, d, p) <=> HeardFrom(k, h, d, p)
         /\ \A p \in Servers : \A d : Due(r, h, p, d) <=> Due(k, h, p, d)
         /\ \A p \in Servers : Todo(r, s, h, p) = Todo(k, s, h, p)
         /\ \A a : ClockServes(k, s, h, a) /\ r.empty = k.empty => ClockServes(r, s, h, a)
         /\ \A a : \A b : ClockServes(k, s, h, a) /\ s[CLOCK] = << >> /\ b \subseteq Users \ r.empty =>
                      ClockServes(r, s, h, b)
<1>1. /\ SYSTASK \in Programs /\ CLOCK \in Programs /\ DISK \in Programs
      /\ MM \in Programs /\ FS \in Programs /\ MM \in Servers /\ FS \in Servers
      /\ \A p \in Servers : p \in Programs
  BY ProgramKinds
<1>2. \A p \in Programs : /\ Receiving(r, p) <=> Receiving(k, p)
                          /\ Sending(r, p) <=> Sending(k, p)
                          /\ Heard(r, h, p) <=> Heard(k, h, p)
  BY DEF ProgramsKept, Receiving, Sending, Heard
<1>3. \A d \in Programs : \A p : HeardFrom(r, h, d, p) <=> HeardFrom(k, h, d, p)
  BY <1>2 DEF HeardFrom, ProgramsKept
<1>4. \A p \in Servers : \A d : Due(r, h, p, d) <=> Due(k, h, p, d)
  BY <1>1, <1>2 DEF Due, Awaits, ProgramsKept
<1>5. LoopsKept(r, s, h)
  BY <1>1, <1>2 DEF LoopsKept, ProgramsServe, ProgramsKept
<1>6. RequestsHeld(r, h)
  <2> SUFFICES ASSUME NEW d \in Programs, NEW p \in Servers, HeardFrom(r, h, d, p)
               PROVE  Due(r, h, p, d) /\ r.messbuf[d].body = r.messbuf[p].body
    BY DEF RequestsHeld
  <2>1. HeardFrom(k, h, d, p) /\ RequestsHeld(k, h)
    BY <1>3 DEF ProgramsServe
  <2>2. Due(k, h, p, d) /\ k.messbuf[d].body = k.messbuf[p].body
    BY <2>1 DEF RequestsHeld
  <2> QED  BY <1>1, <1>4, <2>2 DEF ProgramsKept
<1>7. SysTaskServes(r, s, h)
  <2>1. SysTaskServes(k, s, h)
    BY DEF ProgramsServe
  <2> QED  BY <1>1, <1>2, <1>4, <2>1 DEF SysTaskServes, ProgramsKept
<1>8. DiskServes(r, s, h)
  <2>1. DiskServes(k, s, h)
    BY DEF ProgramsServe
  <2> QED  BY <1>1, <1>2, <1>4, <2>1 DEF DiskServes, ProgramsKept
<1>9. \A p \in Servers : Todo(r, s, h, p) = Todo(k, s, h, p)
  <2> SUFFICES ASSUME NEW p \in Servers
               PROVE  Todo(r, s, h, p) = Todo(k, s, h, p)
    OBVIOUS
  <2>1. r.messbuf[p] = k.messbuf[p] /\ r.getfrom[p] = k.getfrom[p]
    BY <1>1 DEF ProgramsKept
  <2>2. p \notin h /\ Receiving(k, p) => k.getfrom[p] \in Programs
    <3>1. p # DISK
      BY ProgramKinds
    <3> QED  BY <1>1, <3>1 DEF ProgramsServe, LoopsKept
  <2>3. Undone(r, h, p) <=> Undone(k, h, p)
    BY <1>1, <1>2, <1>3, <2>1, <2>2 DEF Undone
  <2> QED  BY <2>1, <2>3, Zenon DEF Todo
<1>10. \A a : ClockServes(k, s, h, a) /\ r.empty = k.empty => ClockServes(r, s, h, a)
  BY <1>1, <1>2, <1>4 DEF ClockServes, ProgramsKept
<1>11. \A a : \A b : ClockServes(k, s, h, a) /\ s[CLOCK] = << >> /\ b \subseteq Users \ r.empty =>
                ClockServes(r, s, h, b)
  <2> SUFFICES ASSUME NEW a, NEW b, ClockServes(k, s, h, a), s[CLOCK] = << >>,
                      b \subseteq Users \ r.empty
               PROVE  ClockServes(r, s, h, b)
    OBVIOUS
  <2>1. \A i \in 1..Len(s[CLOCK]) : FALSE
    OBVIOUS
  <2> QED  BY <1>1, <1>2, <2>1 DEF ClockServes, ProgramsKept
<1> QED
  BY <1>2, <1>3, <1>4, <1>5, <1>6, <1>7, <1>8, <1>9, <1>10, <1>11 DEF ProgramsServe, ProgramsKept

\* A new signal is noted: MM does not know of it yet.
LEMMA SignalServes ==
  ASSUME Closed, NEW k, k \in Kernels, NEW s, NEW h, NEW a, Serving(k, s, h, a),
         ~ Heard(k, h, SYSTASK), NEW u \in Users, u \notin k.empty,
         NEW sig \in Signals, sig \notin k.pending[u],
         NEW r, NotesSignal(k, r, u, sig)
  PROVE  Serving(r, s, h, a) /\ ~ Heard(r, h, SYSTASK)
<1>1. /\ SYSTASK \in Programs /\ MM \in Programs /\ FS \in Programs
      /\ MM \in Servers /\ FS \in Servers
      /\ \A q \in Programs : q \in Senders /\ q # u
      /\ \A q \in Users : q \in Procs /\ q \in Senders
      /\ u \in Senders
  BY ProgramKinds
<1>2. /\ DOMAIN k.flags = Senders /\ DOMAIN k.pending = Users /\ DOMAIN k.pendcount = Users
      /\ k.pendcount[u] \in Nat /\ k.pending[u] \in SUBSET Signals
  BY DEF Kernels
<1>3. /\ r.flags[u] = k.flags[u] \cup {"PENDING", "SIG_PENDING"}
      /\ \A q \in Senders \ {u} : r.flags[q] = k.flags[q]
      /\ r.messbuf = k.messbuf /\ r.getfrom = k.getfrom
      /\ r.callerq = k.callerq /\ r.intBlocked = k.intBlocked /\ r.empty = k.empty
  BY <1>1, <1>2 DEF NotesSignal
<1>4. /\ r.pending[u] = k.pending[u] \cup {sig} /\ r.pendcount[u] = k.pendcount[u] + 1
      /\ \A v \in Users \ {u} : r.pending[v] = k.pending[v] /\ r.pendcount[v] = k.pendcount[v]
  BY <1>2 DEF NotesSignal
<1>5. ProgramsKept(k, r)
  BY <1>1, <1>3 DEF ProgramsKept
<1>6. /\ ProgramsServe(r, s, h)
      /\ \A p \in Programs : /\ Receiving(r, p) <=> Receiving(k, p)
                             /\ Sending(r, p) <=> Sending(k, p)
                             /\ Heard(r, h, p) <=> Heard(k, h, p)
      /\ \A d \in Programs : \A p : HeardFrom(r, h, d, p) <=> HeardFrom(k, h, d, p)
      /\ \A p \in Servers : \A d : Due(r, h, p, d) <=> Due(k, h, p, d)
      /\ \A p \in Servers : Todo(r, s, h, p) = Todo(k, s, h, p)
      /\ \A b : ClockServes(k, s, h, b) /\ r.empty = k.empty => ClockServes(r, s, h, b)
  <2>1. ProgramsServe(k, s, h)
    BY DEF Serving, ProgramsServe
  <2> QED  BY <1>5, <2>1, ProgramsGoOn
<1>7. \A q \in Users : /\ Receiving(r, q) <=> Receiving(k, q)
                       /\ Sending(r, q) <=> Sending(k, q)
                       /\ "SIG_PENDING" \in k.flags[q] => "SIG_PENDING" \in r.flags[q]
  <2> SUFFICES ASSUME NEW q \in Users
               PROVE  /\ Receiving(r, q) <=> Receiving(k, q)
                      /\ Sending(r, q) <=> Sending(k, q)
                      /\ "SIG_PENDING" \in k.flags[q] => "SIG_PENDING" \in r.flags[q]
    OBVIOUS
  <2>1. r.flags[q] = k.flags[q] \/ r.flags[q] = k.flags[q] \cup {"PENDING", "SIG_PENDING"}
    BY <1>1, <1>3
  <2> QED  BY <2>1 DEF Receiving, Sending
<1>8. \A q \in Users : \A e : Awaits(r, q, e) <=> Awaits(k, q, e)
  BY <1>3, <1>7 DEF Awaits
<1>9. UsersCall(r)
  <2>1. UsersCall(k)
    BY DEF Serving
  <2> QED  BY <1>3, <1>7, <2>1 DEF UsersCall
<1>10. KnowledgeKept(k, r)
  <2> SUFFICES ASSUME NEW v \in Users \ k.empty, NEW n \in Int, Knows(k, v, n)
               PROVE  Knows(r, v, n)
    BY DEF KnowledgeKept
  <2>1. CASE v = u
    <3>1. IsFiniteSet(k.pending[u])
      BY <1>2, KernelAssumption, FS_Subset
    <3>2. /\ Cardinality(k.pending[u]) \in Nat
          /\ Cardinality(k.pending[u] \cup {sig}) = Cardinality(k.pending[u]) + 1
      BY <3>1, FS_AddElement, FS_CardinalityType
    <3>3. Cardinality(r.pending[u]) = Cardinality(k.pending[u]) + 1
      BY <1>4, <3>2
    <3>4. k.pendcount[u] = Cardinality(k.pending[u]) + n
      BY <2>1 DEF Knows
    <3>5. r.pendcount[u] = Cardinality(r.pending[u]) + n
      BY <1>4, <3>2, <3>3, <3>4
    <3> QED  BY <2>1, <3>5 DEF Knows
  <2>2. CASE v # u
    <3>1. r.pending[v] = k.pending[v] /\ r.pendcount[v] = k.pendcount[v]
      BY <1>4, <2>2
    <3> QED  BY <3>1 DEF Knows
  <2> QED  BY <2>1, <2>2
<1>11. MMServes(r, s, h)
  <2>1. MMFrame(k, s, h, r, s, h)
    BY <1>1, <1>3, <1>6, <1>7, <1>8, <1>10 DEF MMFrame, InOrder, FarFromFS
  <2> QED  BY <1>1, <2>1, MMKept DEF Serving
<1>12. FSServes(r, s, h)
  <2>1. FSFrame(k, s, h, r, s, h)
    BY <1>1, <1>3, <1>6, <1>8 DEF FSFrame, AwaitsAlive
  <2> QED  BY <2>1, FSKept DEF Serving
<1>13. ClockServes(r, s, h, a)
  BY <1>3, <1>6 DEF Serving
<1> QED
  BY <1>1, <1>6, <1>9, <1>11, <1>12, <1>13 DEF Serving, ProgramsServe

\* cause_sig, for a process that may know of the signal already
LEMMA CauseSigServes ==
  ASSUME Closed, NEW k, Stable(k), NEW s, NEW h, NEW a, Serving(k, s, h, a),
         ~ Heard(k, h, SYSTASK), NEW u \in Users, u \notin k.empty, NEW sig \in Signals
  PROVE  LET r == CauseSig(k, u, sig)
         IN  /\ Stable(r) /\ Serving(r, s, h, a) /\ ~ Heard(r, h, SYSTASK)
             /\ \A t \in Tasks : k.proc_ptr = t => r.proc_ptr = t
<1> DEFINE r == CauseSig(k, u, sig)
<1>1. /\ k \in Kernels /\ Counted(k) /\ KindsKept(k) /\ Stable(r)
      /\ MM \in Programs /\ MM # DISK /\ ANY \notin Programs
  BY ProgramKinds, CauseSigKeeps DEF Stable, Consistent
<1>2. CASE sig \in k.pending[u]
  <2>1. r = k
    BY <1>2 DEF CauseSig
  <2> QED  BY <1>1, <2>1
<1>3. CASE sig \notin k.pending[u]
  <2>1. \/ NotesSignal(k, r, u, sig)
        \/ /\ Receiving(k, MM) /\ k.getfrom[MM] = ANY
           /\ \E n \in Kernels, v \in Users : NotesSignal(k, n, u, sig) /\ TellsMM(n, r, v)
    BY <1>3, CauseSigNotes
  <2> HIDE DEF r
  <2>2. CASE NotesSignal(k, r, u, sig)
    <3>1. Serving(r, s, h, a) /\ ~ Heard(r, h, SYSTASK)
      BY <1>1, <1>3, <2>2, SignalServes
    <3>2. r.rdy["TASK_Q"] = k.rdy["TASK_Q"]
      BY <2>2 DEF NotesSignal
    <3>3. \A t \in Tasks : k.proc_ptr = t => r.proc_ptr = t
      BY <1>1, <3>2, TaskGoesOn
    <3> QED  BY <1>1, <3>1, <3>3 DEF r
  <2>3. ASSUME Receiving(k, MM), k.getfrom[MM] = ANY,
               NEW n \in Kernels, NEW v \in Users, NotesSignal(k, n, u, sig), TellsMM(n, r, v)
        PROVE  /\ Serving(r, s, h, a) /\ ~ Heard(r, h, SYSTASK)
               /\ \A t \in Tasks : k.proc_ptr = t => r.proc_ptr = t
    <3>1. Serving(n, s, h, a) /\ ~ Heard(n, h, SYSTASK)
      BY <1>1, <1>3, <2>3, SignalServes
    <3>2. MM \in h
      <4>1. LoopsKept(k, s, h)
        BY DEF Serving
      <4> QED  BY <1>1, <2>3, <4>1 DEF LoopsKept
    <3>3. /\ n.flags = [k.flags EXCEPT ![u] = @ \cup {"PENDING", "SIG_PENDING"}]
          /\ n.empty = k.empty /\ n.rdy["TASK_Q"] = k.rdy["TASK_Q"]
          /\ DOMAIN k.flags = Senders /\ MM \in Senders /\ u \in Senders /\ v \in Senders
          /\ u # MM
      <4>1. DOMAIN k.flags = Senders
        BY <1>1 DEF Kernels
      <4>2. MM \in Senders /\ u \in Senders /\ v \in Senders /\ u # MM
        BY ProgramKinds
      <4> QED  BY <2>3, <4>1, <4>2 DEF NotesSignal
    <3>4. n.flags[MM] = k.flags[MM]
      BY <3>3
    <3>5. Receiving(n, MM)
      BY <2>3, <3>4 DEF Receiving
    <3>6. "PENDING" \in n.flags[v]
      BY <2>3 DEF TellsMM
    <3>7. v \notin n.empty /\ "SIG_PENDING" \in n.flags[v]
      <4>1. CASE v = u
        BY <3>3, <4>1
      <4>2. CASE v # u
        <5>1. n.flags[v] = k.flags[v]
          BY <3>3, <4>2
        <5>2. "PENDING" \in k.flags[v]
          BY <3>6, <5>1
        <5>3. "SIG_PENDING" \in k.flags[v]
          BY <1>1, <5>2 DEF Counted
        <5>4. v \notin k.empty
          BY <1>1, <5>2 DEF KindsKept
        <5> QED  BY <3>3, <5>1, <5>3, <5>4
      <4> QED  BY <4>1, <4>2
    <3>8. Serving(r, s, h, a) /\ ~ Heard(r, h, SYSTASK)
      BY <2>3, <3>1, <3>2, <3>5, <3>7, TellingServes
    <3>9. r.rdy["TASK_Q"] = k.rdy["TASK_Q"]
      BY <2>3, <3>3 DEF TellsMM
    <3>10. \A t \in Tasks : k.proc_ptr = t => r.proc_ptr = t
      BY <1>1, <3>9, TaskGoesOn
    <3> QED  BY <3>8, <3>10
  <2> QED  BY <1>1, <2>1, <2>2, <2>3 DEF r
<1> QED
  BY <1>2, <1>3

\* The clock task has one alarm less to cause.
LEMMA DropsCause ==
  ASSUME Closed, NEW k, NEW s, NEW h, NEW a, Serving(k, s, h, a),
         NEW u, NEW sig, s[CLOCK] # << >>, s[CLOCK][1] = Cause(u, sig)
  PROVE  /\ u \in Users \ k.empty /\ sig = SIGALRM /\ sig \in Signals
         /\ Serving(k, [s EXCEPT ![CLOCK] = Tail(@)], h, a)
<1> DEFINE s2 == [s EXCEPT ![CLOCK] = Tail(@)]
<1>1. /\ CLOCK \in Programs /\ CLOCK # MM /\ CLOCK # FS /\ CLOCK # DISK /\ CLOCK # SYSTASK
      /\ MM \in Programs /\ FS \in Programs /\ SYSTASK \in Programs /\ DISK \in Programs
      /\ SIGALRM \in Signals /\ s \in [Programs -> Seq(Entries)]
  BY ProgramKinds DEF Closed, Serving
<1>2. /\ s[CLOCK] \in Seq(Entries)
      /\ Len(s[CLOCK]) \in Nat /\ Len(s[CLOCK]) > 0 /\ Len(Tail(s[CLOCK])) = Len(s[CLOCK]) - 1
      /\ \A i \in 1..(Len(s[CLOCK]) - 1) : Tail(s[CLOCK])[i] = s[CLOCK][i + 1]
      /\ Tail(s[CLOCK]) \in Seq(Entries)
  <2>1. s[CLOCK] \in Seq(Entries)
    BY <1>1
  <2> QED  BY <2>1, HeadAndTail
<1>3. \A i \in 1..Len(s[CLOCK]) : \E v \in Users \ k.empty : s[CLOCK][i] = Cause(v, SIGALRM)
  <2>1. ClockServes(k, s, h, a)
    BY DEF Serving
  <2>2. Answer(MM).do # Cause(u, sig).do
    BY DEF Answer, Cause
  <2> QED  BY <2>1, <2>2 DEF ClockServes
<1>4. u \in Users \ k.empty /\ sig = SIGALRM
  <2>1. 1 \in 1..Len(s[CLOCK])
    BY <1>2
  <2>2. PICK v \in Users \ k.empty : s[CLOCK][1] = Cause(v, SIGALRM)
    BY <1>3, <2>1
  <2>3. Cause(v, SIGALRM).to = v /\ Cause(v, SIGALRM).sig = SIGALRM
        /\ Cause(u, sig).to = u /\ Cause(u, sig).sig = sig
    BY DEF Cause
  <2> QED  BY <2>2, <2>3
<1>5. /\ s2 \in [Programs -> Seq(Entries)] /\ s2[CLOCK] = Tail(s[CLOCK])
      /\ s2[SYSTASK] = s[SYSTASK] /\ s2[DISK] = s[DISK] /\ s2[MM] = s[MM] /\ s2[FS] = s[FS]
      /\ \A q \in Programs \ {CLOCK} : s2[q] = s[q]
  BY <1>1, <1>2
<1>6. CLOCK \notin h
  BY <1>1 DEF Serving, LoopsKept
<1> HIDE DEF s2
<1>7. LoopsKept(k, s2, h)
  <2>1. LoopsKept(k, s, h)
    BY DEF Serving
  <2> QED  BY <1>5, <1>6, <2>1 DEF LoopsKept
<1>8. ClockServes(k, s2, h, a)
  <2>1. \A i \in 1..Len(s2[CLOCK]) : \E v \in Users \ k.empty : s2[CLOCK][i] = Cause(v, SIGALRM)
    <3> SUFFICES ASSUME NEW i \in 1..Len(s2[CLOCK])
                 PROVE  \E v \in Users \ k.empty : s2[CLOCK][i] = Cause(v, SIGALRM)
      OBVIOUS
    <3>1. i \in 1..(Len(s[CLOCK]) - 1) /\ i + 1 \in 1..Len(s[CLOCK])
      BY <1>2, <1>5
    <3> QED  BY <1>2, <1>3, <1>5, <3>1
  <2>2. ClockServes(k, s, h, a)
    BY DEF Serving
  <2> QED  BY <2>1, <2>2 DEF ClockServes
<1>9. SysTaskServes(k, s2, h) /\ DiskServes(k, s2, h)
  BY <1>5 DEF Serving, SysTaskServes, DiskServes
<1>10. Todo(k, s2, h, MM) = Todo(k, s, h, MM) /\ Todo(k, s2, h, FS) = Todo(k, s, h, FS)
  BY <1>5, Zenon DEF Todo
<1>11. MMServes(k, s2, h) /\ FSServes(k, s2, h)
  BY <1>10 DEF Serving, MMServes, FSServes, FSKnows
<1> QED
  BY <1>1, <1>4, <1>5, <1>7, <1>8, <1>9, <1>11 DEF Serving, s2

\* The next alarm that is due is caused.
LEMMA CauseServes ==
  ASSUME Closed, NEW k, Stable(k), NEW s, NEW h, NEW a, Serves(k, s, h, a),
         k.proc_ptr = CLOCK, NEW u, NEW sig, s[CLOCK] # << >>, s[CLOCK][1] = Cause(u, sig)
  PROVE  LET r == CauseSig(k, u, sig)
             s2 == [s EXCEPT ![CLOCK] = Tail(@)]
         IN  /\ u \in Users \ k.empty /\ sig \in Signals
             /\ Stable(r) /\ Serves(r, s2, h, a)
<1> DEFINE r == CauseSig(k, u, sig)
           s2 == [s EXCEPT ![CLOCK] = Tail(@)]
<1>1. u \in Users \ k.empty /\ sig \in Signals /\ Serving(k, s2, h, a)
  BY DropsCause DEF Serves
<1>2. ~ Heard(k, h, SYSTASK) /\ s[SYSTASK] = << >> /\ CLOCK \in Tasks
  BY ProgramKinds DEF Serves, TasksAtWork
<1>3. s2[SYSTASK] = << >>
  <2>1. s \in [Programs -> Seq(Entries)]
    BY DEF Serves, Serving
  <2> QED  BY <1>2, <2>1, ProgramKinds
<1> HIDE DEF s2
<1>4. Stable(r) /\ Serving(r, s2, h, a) /\ ~ Heard(r, h, SYSTASK) /\ r.proc_ptr = CLOCK
  BY <1>1, <1>2, CauseSigServes
<1>5. TasksAtWork(r, s2, h)
  BY <1>3, <1>4 DEF TasksAtWork
<1> QED
  BY <1>1, <1>4, <1>5 DEF Serves, s2

-----------------------------------------------------------------------------
(* Messages that are read *)

\* It does hold.
LEMMA JobStarts ==
  ASSUME Closed, NEW k, NEW s, NEW h, NEW a, Serving(k, s, h, a),
         NEW p \in Programs, Heard(k, h, p), NEW job \in Seq(Entries)
  PROVE  JobBegun(k, s, h, a, p, job, [s EXCEPT ![p] = job], h \ {p})
<1> DEFINE h2 == h \ {p}
           s2 == [s EXCEPT ![p] = job]
<1>1. /\ SYSTASK \in Programs /\ CLOCK \in Programs /\ DISK \in Programs
      /\ MM \in Programs /\ FS \in Programs /\ MM \in Servers /\ FS \in Servers
      /\ \A q \in Servers : q \in Programs /\ q # DISK
      /\ s \in [Programs -> Seq(Entries)] /\ h \subseteq Programs
  BY ProgramKinds DEF Serving
<1>2. /\ s2 \in [Programs -> Seq(Entries)] /\ h2 \subseteq Programs
      /\ s2[p] = job /\ \A q \in Programs \ {p} : s2[q] = s[q]
      /\ p \notin h2 /\ \A q : q # p => (q \in h2 <=> q \in h)
      /\ h2 \subseteq h
  BY <1>1
<1> HIDE DEF s2, h2
<1>3. p \in h /\ ~ Receiving(k, p) /\ ~ Sending(k, p)
  <2>1. LoopsKept(k, s, h)
    BY DEF Serving
  <2> QED  BY <2>1 DEF LoopsKept, Heard
<1>4. \A q \in Programs : Heard(k, h2, q) <=> Heard(k, h, q) /\ q # p
  BY <1>2 DEF Heard
<1>5. \A d : \A q : HeardFrom(k, h2, d, q) <=> HeardFrom(k, h, d, q) /\ d # p
  BY <1>2 DEF HeardFrom, Heard
<1>6. \A q \in Servers : \A d : Due(k, h, q, d) => Due(k, h2, q, d)
  BY <1>2 DEF Due
<1>7. LoopsKept(k, s2, h2)
  <2>1. LoopsKept(k, s, h)
    BY DEF Serving
  <2> SUFFICES ASSUME NEW q \in Programs
               PROVE  /\ q \in h2 => s2[q] = << >>
                      /\ q \in h2 /\ Receiving(k, q) => k.getfrom[q] = ANY
                      /\ q \notin h2 /\ Receiving(k, q) =>
                           \/ q = DISK /\ k.getfrom[q] = HARDWARE
                           \/ q \in Servers /\ k.getfrom[q] \in Programs \ {MM}
                      /\ Sending(k, q) =>
                           q = MM /\ MM \notin h2 /\ Receiving(k, MM) /\ k.getfrom[MM] = FS
    BY DEF LoopsKept
  <2>2. CASE q = p
    BY <1>2, <1>3, <2>2
  <2>3. CASE q # p
    BY <1>1, <1>2, <2>1, <2>3 DEF LoopsKept
  <2> QED  BY <2>2, <2>3
<1>8. RequestsHeld(k, h2)
  <2>1. RequestsHeld(k, h)
    BY DEF Serving
  <2> QED  BY <1>5, <1>6, <2>1 DEF RequestsHeld
<1>9. p # SYSTASK => SysTaskServes(k, s2, h2)
  BY <1>1, <1>2, <1>4, <1>6 DEF Serving, SysTaskServes
<1>10. p # DISK => DiskServes(k, s2, h2)
  <2>1. DiskServes(k, s, h)
    BY DEF Serving
  <2> QED  BY <1>1, <1>2, <1>4, <1>6, <2>1 DEF DiskServes
<1>11. p # CLOCK => ClockServes(k, s2, h2, a)
  <2>1. ClockServes(k, s, h, a)
    BY DEF Serving
  <2> QED  BY <1>1, <1>2, <1>4, <1>6, <2>1 DEF ClockServes
<1>12. p \in Servers => Todo(k, s2, h2, p) = job
  BY <1>2, <1>3 DEF Todo, Undone
<1>13. \A q \in Servers : HeardFrom(k, h, p, q) =>
         /\ q # p /\ Due(k, h2, q, p) /\ Undone(k, h, q)
         /\ Todo(k, s, h, q) = <<Request(p, k.messbuf[p].body)>> \o s[q]
         /\ Todo(k, s2, h2, q) = s[q]
  <2> SUFFICES ASSUME NEW q \in Servers, HeardFrom(k, h, p, q)
               PROVE  /\ q # p /\ Due(k, h2, q, p) /\ Undone(k, h, q)
                      /\ Todo(k, s, h, q) = <<Request(p, k.messbuf[p].body)>> \o s[q]
                      /\ Todo(k, s2, h2, q) = s[q]
    OBVIOUS
  <2>1. RequestsHeld(k, h)
    BY DEF Serving
  <2>2. Due(k, h, q, p) /\ k.messbuf[p].body = k.messbuf[q].body
    BY <2>1 DEF RequestsHeld
  <2>3. /\ q \notin h /\ Receiving(k, q) /\ ~ Sending(k, q) /\ k.getfrom[q] = p /\ q # p
    BY <1>3, <2>2 DEF Due, Awaits
  <2>4. Undone(k, h, q)
    BY <2>3 DEF Undone
  <2>5. ~ Undone(k, h2, q)
    BY <1>5, <2>3 DEF Undone
  <2>6. s2[q] = s[q]
    BY <1>1, <1>2, <2>3
  <2> QED  BY <1>6, <2>2, <2>3, <2>4, <2>5, <2>6 DEF Todo
<1>14. \A q \in Servers : ~ HeardFrom(k, h, p, q) /\ q # p =>
         Todo(k, s2, h2, q) = Todo(k, s, h, q)
  <2> SUFFICES ASSUME NEW q \in Servers, ~ HeardFrom(k, h, p, q), q # p
               PROVE  Todo(k, s2, h2, q) = Todo(k, s, h, q)
    OBVIOUS
  <2>1. Undone(k, h2, q) <=> Undone(k, h, q)
    BY <1>2, <1>5 DEF Undone
  <2>2. s2[q] = s[q]
    BY <1>1, <1>2
  <2> QED  BY <2>1, <2>2, Zenon DEF Todo
<1>15. p # MM /\ ~ HeardFrom(k, h, p, MM) => MMServes(k, s2, h2)
  <2> SUFFICES ASSUME p # MM, ~ HeardFrom(k, h, p, MM)
               PROVE  MMServes(k, s2, h2)
    OBVIOUS
  <2>1. KnowledgeKept(k, k)
    BY DEF KnowledgeKept
  <2>2. MMFrame(k, s, h, k, s2, h2)
    BY <1>1, <1>4, <1>5, <1>14, <2>1 DEF MMFrame, InOrder
  <2> QED  BY <1>1, <2>2, MMKept DEF Serving
<1>16. p # FS /\ ~ HeardFrom(k, h, p, FS) => FSServes(k, s2, h2)
  <2> SUFFICES ASSUME p # FS, ~ HeardFrom(k, h, p, FS)
               PROVE  FSServes(k, s2, h2)
    OBVIOUS
  <2>1. FSFrame(k, s, h, k, s2, h2)
    BY <1>1, <1>4, <1>6, <1>14 DEF FSFrame
  <2> QED  BY <2>1, FSKept DEF Serving
<1> QED
  BY <1>2, <1>4, <1>5, <1>6, <1>7, <1>8, <1>9, <1>10, <1>11, <1>12, <1>13, <1>14, <1>15, <1>16
  DEF JobBegun, s2, h2

-----------------------------------------------------------------------------
(* The requests to the system task *)

\* The system task has a request of FS or of MM.
LEMMA SysRequests ==
  ASSUME Closed, NEW k, NEW s, NEW h, NEW a, Serving(k, s, h, a), Heard(k, h, SYSTASK)
  PROVE  LET body == k.messbuf[SYSTASK].body
         IN  \/ /\ k.messbuf[SYSTASK].source = FS
                /\ \E u \in Users : /\ body = <<"SYS_KILL", u>> /\ AwaitsAlive(k, u, FS)
                                    /\ Len(s[FS]) = 1 /\ s[FS][1] = Answer(u)
             \/ k.messbuf[SYSTASK].source = MM /\ MMRequest(k, s[MM], body)
<1> DEFINE body == k.messbuf[SYSTASK].body
           p    == k.messbuf[SYSTASK].source
           q    == s[p]
           t    == <<Request(SYSTASK, body)>> \o q
<1>1. /\ p \in Servers /\ Servers = {MM, FS} /\ MM # FS /\ SYSTASK \in Programs
      /\ p \in Programs /\ SYSTASK # FS /\ SYSTASK # CLOCK /\ SYSTASK # DISK
      /\ SYSTASK # MM
  BY ProgramKinds DEF Serving, SysTaskServes
<1>2. /\ p \notin h /\ ~ Heard(k, h, p)
      /\ Todo(k, s, h, p) = t
  <2>1. HeardFrom(k, h, SYSTASK, p) /\ RequestsHeld(k, h)
    BY DEF HeardFrom, Serving
  <2>2. Due(k, h, p, SYSTASK) /\ k.messbuf[p].body = body
    BY <1>1, <2>1 DEF RequestsHeld
  <2>3. p \notin h /\ Receiving(k, p) /\ k.getfrom[p] = SYSTASK
    BY <2>2 DEF Due, Awaits
  <2>4. Undone(k, h, p)
    BY <2>1, <2>3 DEF Undone
  <2> QED  BY <2>2, <2>3, <2>4 DEF Todo, Heard
<1>3. /\ t[1] = Request(SYSTASK, body) /\ Len(q) \in Nat /\ Len(t) = Len(q) + 1
      /\ \A i \in 1..Len(q) : t[i + 1] = q[i]
      /\ q = << >> <=> Len(q) = 0
  <2>1. q \in Seq(Entries)
    BY <1>1 DEF Serving
  <2> HIDE DEF q
  <2> QED  BY <2>1, Prepended
<1> HIDE DEF t, q, body
<1>7. /\ Len(t) = 1 => q = << >>
      /\ Len(t) = 2 => Len(q) = 1 /\ t[2] = q[1]
      /\ Len(t) = 3 => Len(q) = 2 /\ t[2] = q[1] /\ t[3] = q[2]
      /\ Len(t) = 4 => Len(q) = 3 /\ t[2] = q[1] /\ t[3] = q[2] /\ t[4] = q[3]
  <2>0. Len(q) \in Nat /\ Len(t) = Len(q) + 1
    BY <1>3
  <2>1. /\ Len(t) = 1 => Len(q) = 0
        /\ Len(t) = 2 => Len(q) = 1
        /\ Len(t) = 3 => Len(q) = 2
        /\ Len(t) = 4 => Len(q) = 3
    <3> DEFINE n == Len(q)
    <3>1. n \in Nat /\ Len(t) = n + 1
      BY <2>0
    <3> HIDE DEF n
    <3>2. /\ Len(t) = 1 => n = 0
          /\ Len(t) = 2 => n = 1
          /\ Len(t) = 3 => n = 2
          /\ Len(t) = 4 => n = 3
      BY <3>1
    <3> QED  BY <3>2 DEF n
  <2>2. /\ 1 \in 1..Len(q) => t[2] = q[1]
        /\ 2 \in 1..Len(q) => t[3] = q[2]
        /\ 3 \in 1..Len(q) => t[4] = q[3]
    BY <1>3
  <2> QED  BY <1>3, <2>1, <2>2
<1>4. /\ \A d \in {FS, CLOCK, DISK} : \A b : t[1] # Request(d, b)
      /\ \A d : t[1] # Answer(d)
      /\ \A b : t[1] = Request(SYSTASK, b) => body = b
  BY <1>1, <1>3 DEF Request, Answer
<1>5. CASE p = FS
  <2>1. FSJob(k, h, t)
    BY <1>2, <1>5 DEF Serving, FSServes
  <2>2. t # << >> /\ ~ (Len(t) = 1 /\ t[1] = Answer(MM))
    BY <1>3, <1>4
  <2>3. \E u \in Users : /\ AwaitsAlive(k, u, FS) /\ t[1] = Request(SYSTASK, <<"SYS_KILL", u>>)
                         /\ Len(t) = 2 /\ t[2] = Answer(u)
    BY <1>4, <2>1, <2>2, Zenon DEF FSJob
  <2>4. PICK u \in Users : /\ AwaitsAlive(k, u, FS) /\ t[1] = Request(SYSTASK, <<"SYS_KILL", u>>)
                           /\ Len(t) = 2 /\ t[2] = Answer(u)
    BY <2>3
  <2>5. Len(q) = 1 /\ q[1] = Answer(u) /\ body = <<"SYS_KILL", u>>
    BY <1>4, <1>7, <2>4
  <2> QED  BY <1>5, <2>4, <2>5 DEF q, body
<1>6. CASE p = MM
  <2>1. MMJob(k, h, t)
    BY <1>2, <1>6 DEF Serving, MMServes
  <2>2. ASSUME NEW u \in Users, NEW m \in 0..2, SignalJob(k, h, t, u, m)
        PROVE  MMRequest(k, q, body)
    <3>1. /\ m <= Len(t) /\ Len(t) - m <= Cardinality(Signals)
          /\ \A i \in 1..Len(t) :
               t[i] = IF i > m THEN Request(SYSTASK, <<"SYS_ENDSIG", u>>)
                      ELSE IF i = m THEN Request(SYSTASK, <<"SYS_XIT", u>>)
                      ELSE Request(FS, <<"EXIT", u>>)
          /\ Told(k, u, Len(t) - m)
      BY <2>2 DEF SignalJob
    <3>2. Cardinality(Signals) \in Nat
      BY KernelAssumption, FS_CardinalityType
    <3>3. 1 \in 1..Len(t) /\ \A i \in 1..Len(q) : i + 1 \in 1..Len(t) /\ i + 1 > 1
      BY <1>3
    <3>4. m # 2
      BY <1>4, <3>1, <3>3
    <3>5. CASE m = 0
      <4>1. t[1] = Request(SYSTASK, <<"SYS_ENDSIG", u>>)
        BY <3>1, <3>3, <3>5
      <4>2. \A i \in 1..Len(q) : q[i] = Request(SYSTASK, <<"SYS_ENDSIG", u>>)
        BY <1>3, <3>1, <3>3, <3>5, SMTT(20)
      <4>3. Len(q) < Cardinality(Signals) /\ Told(k, u, Len(q) + 1)
        BY <1>3, <3>1, <3>2, <3>5
      <4> QED  BY <1>4, <4>1, <4>2, <4>3 DEF MMRequest
    <3>6. CASE m = 1
      <4>1. t[1] = Request(SYSTASK, <<"SYS_XIT", u>>)
        BY <3>1, <3>3, <3>6
      <4>2. \A i \in 1..Len(q) : q[i] = Request(SYSTASK, <<"SYS_ENDSIG", u>>)
        <5> SUFFICES ASSUME NEW i \in 1..Len(q)
                     PROVE  q[i] = Request(SYSTASK, <<"SYS_ENDSIG", u>>)
          OBVIOUS
        <5>1. t[i + 1] = q[i] /\ i + 1 \in 1..Len(t) /\ i + 1 > m
          BY <1>3, <3>6
        <5> QED  BY <3>1, <5>1
      <4>3. Len(q) <= Cardinality(Signals) /\ Told(k, u, Len(q))
        <5>1. Len(t) - m = Len(q)
          BY <1>3, <3>6
        <5> QED  BY <3>1, <5>1
      <4>4. u \notin k.empty /\ FarFromFS(k, u)
        BY <2>2, <3>6 DEF SignalJob
      <4> QED  BY <1>4, <4>1, <4>2, <4>3, <4>4 DEF MMRequest
    <3> QED  BY <3>4, <3>5, <3>6
  <2>3. ASSUME NEW u \in Users, NoneTold(k), AwaitsAlive(k, u, MM),
               CallJob(k, t, u) \/ \E c \in Users \ {u} : ForkJob(k, t, u, c)
        PROVE  MMRequest(k, q, body)
    <3>1. CASE CallJob(k, t, u)
      <4>1. Len(t) = 1 /\ t[1] = Request(SYSTASK, <<"SYS_EXEC", u>>)
        BY <1>4, <3>1 DEF CallJob
      <4>2. q = << >> /\ body = <<"SYS_EXEC", u>>
        BY <1>4, <1>7, <4>1
      <4> QED  BY <2>3, <4>2 DEF MMRequest
    <3>2. ASSUME NEW c \in Users \ {u}, ForkJob(k, t, u, c)
          PROVE  MMRequest(k, q, body)
      <4>1. CASE /\ Len(t) = 4 /\ c \in k.empty
                 /\ t[1] = Request(SYSTASK, <<"SYS_FORK", u, c>>)
                 /\ t[2] = Request(SYSTASK, <<"SYS_NEWMAP", c>>)
                 /\ t[3] = Answer(c) /\ t[4] = Answer(u)
        <5>1. Len(q) = 3 /\ t[2] = q[1] /\ t[3] = q[2] /\ t[4] = q[3]
          BY <1>7, <4>1
        <5>2. ForkLeft(k, q, body, u, c)
          BY <1>4, <4>1, <5>1 DEF ForkLeft
        <5> QED  BY <2>3, <5>2 DEF MMRequest
      <4>2. CASE /\ Len(t) = 3 /\ AwaitsAlive(k, c, MM)
                 /\ t[1] = Request(SYSTASK, <<"SYS_NEWMAP", c>>)
                 /\ t[2] = Answer(c) /\ t[3] = Answer(u)
        <5>1. Len(q) = 2 /\ t[2] = q[1] /\ t[3] = q[2]
          BY <1>7, <4>2
        <5>2. ForkLeft(k, q, body, u, c)
          BY <1>4, <4>2, <5>1 DEF ForkLeft
        <5> QED  BY <2>3, <5>2 DEF MMRequest
      <4> QED  BY <1>4, <3>2, <4>1, <4>2 DEF ForkJob
    <3> QED  BY <2>3, <3>1, <3>2
  <2>4. MMRequest(k, q, body)
    BY <2>1, <2>2, <2>3, Zenon DEF MMJob
  <2> QED  BY <1>6, <2>4 DEF q, body
<1> QED
  BY <1>1, <1>5, <1>6

\* The system task has carried out a request of MM that changed no program.
LEMMA SysTaskWorks ==
  ASSUME Closed, NEW k, Stable(k), NEW s, NEW h, NEW a, Serves(k, s, h, a),
         k.proc_ptr = SYSTASK, SYSTASK \in h, k.messbuf[SYSTASK].source = MM,
         NEW r, Stable(r), ProgramsKept(k, r), UsersCall(r),
         r.rdy["TASK_Q"] = k.rdy["TASK_Q"],
         NEW b, b \subseteq Users \ r.empty,
         \A u \in Users : /\ AwaitsAlive(k, u, FS) => AwaitsAlive(r, u, FS)
                          /\ Awaits(r, u, FS) => Awaits(k, u, FS),
         MMJob(r, h \ {SYSTASK}, s[MM])
  PROVE  /\ r.messbuf[SYSTASK].source = MM
         /\ Serves(r, [s EXCEPT ![SYSTASK] = <<Answer(MM)>>], h \ {SYSTASK}, b)
<1> DEFINE job == <<Answer(MM)>>
           h2 == h \ {SYSTASK}
           s2 == [s EXCEPT ![SYSTASK] = job]
<1>1. /\ SYSTASK \in Programs /\ CLOCK \in Programs /\ DISK \in Programs
      /\ MM \in Programs /\ FS \in Programs /\ MM \in Servers /\ FS \in Servers
      /\ SYSTASK # CLOCK /\ SYSTASK # DISK /\ SYSTASK # MM /\ SYSTASK # FS /\ MM # FS
      /\ SYSTASK \in Tasks /\ MM \in Procs /\ SYSTASK \in Procs
  BY ProgramKinds
<1>2. ~ Receiving(k, SYSTASK)
  BY <1>1, WhoRuns
<1>3. /\ Serving(k, s, h, a) /\ Heard(k, h, SYSTASK) /\ HeardFrom(k, h, SYSTASK, MM)
      /\ ~ HeardFrom(k, h, SYSTASK, FS)
  BY <1>1, <1>2 DEF Serves, Heard, HeardFrom
<1>4. job \in Seq(Entries) /\ Len(job) = 1 /\ job[1] = Answer(MM)
  <2>1. Answer(MM) \in Entries
    BY <1>1 DEF Entries
  <2> QED  BY <2>1
<1> HIDE DEF job
<1>5. /\ s2 \in [Programs -> Seq(Entries)] /\ h2 \subseteq Programs
      /\ s2[SYSTASK] = job /\ s2[CLOCK] = s[CLOCK]
      /\ LoopsKept(k, s2, h2) /\ RequestsHeld(k, h2)
      /\ DiskServes(k, s2, h2) /\ ClockServes(k, s2, h2, a)
      /\ \A q \in Programs : Heard(k, h2, q) <=> Heard(k, h, q) /\ q # SYSTASK
      /\ Due(k, h2, MM, SYSTASK)
      /\ Todo(k, s2, h2, MM) = s[MM]
      /\ FSServes(k, s2, h2)
  <2>1. JobBegun(k, s, h, a, SYSTASK, job, s2, h2)
    BY <1>1, <1>3, <1>4, JobStarts
  <2> HIDE DEF s2, h2
  <2> QED  BY <1>1, <1>3, <2>1 DEF JobBegun
<1> HIDE DEF s2, h2
<1>6. SysTaskServes(k, s2, h2)
  BY <1>1, <1>4, <1>5 DEF SysTaskServes
<1>7. ProgramsServe(k, s2, h2)
  BY <1>3, <1>5, <1>6 DEF ProgramsServe, Serving
<1>8. /\ ProgramsServe(r, s2, h2)
      /\ \A p \in Programs : Heard(r, h2, p) <=> Heard(k, h2, p)
      /\ \A p \in Servers : \A d : Due(r, h2, p, d) <=> Due(k, h2, p, d)
      /\ \A p \in Servers : Todo(r, s2, h2, p) = Todo(k, s2, h2, p)
      /\ \A c : \A d : ClockServes(k, s2, h2, c) /\ s2[CLOCK] = << >> /\ d \subseteq Users \ r.empty =>
                   ClockServes(r, s2, h2, d)
  BY <1>7, ProgramsGoOn
<1>9. s[CLOCK] = << >>
  BY <1>1 DEF Serves, TasksAtWork
<1>10. ClockServes(r, s2, h2, b)
  BY <1>5, <1>8, <1>9
<1>11. MMServes(r, s2, h2)
  <2>1. ~ Heard(r, h2, MM)
    <3>1. MM \notin h2
      BY <1>5 DEF Due
    <3> QED  BY <3>1 DEF Heard
  <2>2. Todo(r, s2, h2, MM) = s[MM]
    BY <1>1, <1>5, <1>8
  <2> QED  BY <2>1, <2>2 DEF MMServes, h2
<1>12. FSServes(r, s2, h2)
  <2>1. r.messbuf[FS] = k.messbuf[FS]
    BY <1>1 DEF ProgramsKept
  <2>2. FSFrame(k, s2, h2, r, s2, h2)
    BY <1>1, <1>8, <2>1 DEF FSFrame
  <2> QED  BY <1>5, <2>2, FSKept
<1>13. r.proc_ptr = SYSTASK
  BY <1>1, TaskGoesOn
<1>14. TasksAtWork(r, s2, h2)
  BY <1>5, <1>9, <1>13 DEF TasksAtWork
<1>15. r.messbuf[SYSTASK].source = MM
  BY <1>1 DEF ProgramsKept
<1> QED
  BY <1>8, <1>10, <1>11, <1>12, <1>14, <1>15 DEF Serves, Serving, ProgramsServe, s2, h2, job

\* SYS_KILL, the request of FS
LEMMA KillServes ==
  ASSUME Closed, NEW k, Stable(k), NEW s, NEW h, NEW a, Serves(k, s, h, a),
         k.proc_ptr = SYSTASK, SYSTASK \in h, k.messbuf[SYSTASK].source = FS,
         NEW u \in Users, k.messbuf[SYSTASK].body = <<"SYS_KILL", u>>
  PROVE  LET r == CauseSig(k, u, SIGPIPE)
         IN  /\ u \notin k.empty /\ SIGPIPE \in Signals
             /\ Stable(r)
             /\ Serves(r, [s EXCEPT ![SYSTASK] = <<Answer(FS)>>], h \ {SYSTASK}, a)
<1> DEFINE job == <<Answer(FS)>>
           h2 == h \ {SYSTASK}
           s2 == [s EXCEPT ![SYSTASK] = job]
           r == CauseSig(k, u, SIGPIPE)
<1>1. /\ SYSTASK \in Programs /\ CLOCK \in Programs /\ DISK \in Programs
      /\ MM \in Programs /\ FS \in Programs /\ MM \in Servers /\ FS \in Servers
      /\ SYSTASK # CLOCK /\ SYSTASK # DISK /\ SYSTASK # MM /\ SYSTASK # FS /\ MM # FS
      /\ SYSTASK \in Tasks /\ FS \in Procs /\ SYSTASK \in Procs /\ SIGPIPE \in Signals
  BY ProgramKinds DEF Closed
<1>2. ~ Receiving(k, SYSTASK)
  BY <1>1, WhoRuns
<1>3. /\ Serving(k, s, h, a) /\ Heard(k, h, SYSTASK) /\ HeardFrom(k, h, SYSTASK, FS)
      /\ ~ HeardFrom(k, h, SYSTASK, MM)
  BY <1>1, <1>2 DEF Serves, Heard, HeardFrom
<1>4. job \in Seq(Entries) /\ Len(job) = 1 /\ job[1] = Answer(FS)
  <2>1. Answer(FS) \in Entries
    BY <1>1 DEF Entries
  <2> QED  BY <2>1
<1> HIDE DEF job
<1>5. /\ s2 \in [Programs -> Seq(Entries)] /\ h2 \subseteq Programs
      /\ s2[SYSTASK] = job /\ s2[CLOCK] = s[CLOCK]
      /\ LoopsKept(k, s2, h2) /\ RequestsHeld(k, h2)
      /\ DiskServes(k, s2, h2) /\ ClockServes(k, s2, h2, a)
      /\ \A q \in Programs : Heard(k, h2, q) <=> Heard(k, h, q) /\ q # SYSTASK
      /\ \A d : \A q : HeardFrom(k, h2, d, q) <=> HeardFrom(k, h, d, q) /\ d # SYSTASK
      /\ Due(k, h2, FS, SYSTASK)
      /\ Todo(k, s, h, FS) = <<Request(SYSTASK, k.messbuf[SYSTASK].body)>> \o s[FS]
      /\ Todo(k, s2, h2, FS) = s[FS]
      /\ MMServes(k, s2, h2)
  <2>1. JobBegun(k, s, h, a, SYSTASK, job, s2, h2)
    BY <1>1, <1>3, <1>4, JobStarts
  <2> HIDE DEF s2, h2
  <2> QED  BY <1>1, <1>3, <2>1 DEF JobBegun
<1> HIDE DEF s2, h2
<1>6. SysTaskServes(k, s2, h2)
  BY <1>1, <1>4, <1>5 DEF SysTaskServes
<1>7. AwaitsAlive(k, u, FS) /\ Len(s[FS]) = 1 /\ s[FS][1] = Answer(u)
  <2>1. \E v \in Users : /\ k.messbuf[SYSTASK].body = <<"SYS_KILL", v>> /\ AwaitsAlive(k, v, FS)
                         /\ Len(s[FS]) = 1 /\ s[FS][1] = Answer(v)
    BY <1>1, <1>3, SysRequests
  <2> QED  BY <2>1
<1>8. FSServes(k, s2, h2)
  <2>1. ~ Heard(k, h2, FS)
    BY <1>5 DEF Due, Heard
  <2>2. FSJob(k, h2, s[FS])
    BY <1>7 DEF FSJob
  <2>3. FSKnows(k, s2, h2)
    <3> DEFINE t == Todo(k, s, h, FS)
    <3> SUFFICES ASSUME NEW v \in Users, Awaits(k, v, FS)
                 PROVE  HeardFrom(k, h2, FS, v) \/ (s[FS] # << >> /\ s[FS][Len(s[FS])] = Answer(v))
      BY <1>5 DEF FSKnows
    <3>1. HeardFrom(k, h, FS, v) \/ (t # << >> /\ t[Len(t)] = Answer(v))
      BY <1>3 DEF Serving, FSServes, FSKnows
    <3>2. s[FS] \in Seq(Entries)
      BY <1>1, <1>3 DEF Serving
    <3>3. Len(t) = 2 /\ t[2] = s[FS][1]
      <4>1. Len(t) = Len(s[FS]) + 1 /\ \A i \in 1..Len(s[FS]) : t[i + 1] = s[FS][i]
        BY <1>5, <3>2, Prepended
      <4> QED  BY <1>7, <4>1
    <3> HIDE DEF t
    <3>4. s[FS] # << >>
      BY <1>7
    <3> QED  BY <1>1, <1>5, <1>7, <3>1, <3>3, <3>4
  <2> QED  BY <1>5, <2>1, <2>2, <2>3 DEF FSServes
<1>9. Serving(k, s2, h2, a) /\ ~ Heard(k, h2, SYSTASK)
  BY <1>1, <1>3, <1>5, <1>6, <1>8 DEF Serving
<1>10. u \notin k.empty
  BY <1>7 DEF AwaitsAlive
<1>11. Stable(r) /\ Serving(r, s2, h2, a) /\ ~ Heard(r, h2, SYSTASK) /\ r.proc_ptr = SYSTASK
  BY <1>1, <1>9, <1>10, CauseSigServes
<1> HIDE DEF r
<1>12. TasksAtWork(r, s2, h2)
  <2>1. s2[CLOCK] = << >>
    BY <1>1, <1>5 DEF Serves, TasksAtWork
  <2> QED  BY <1>11, <2>1 DEF TasksAtWork
<1> QED
  BY <1>1, <1>10, <1>11, <1>12 DEF Serves, s2, h2, job, r

\* What the system task has, when it has a request of MM.
LEMMA MMAsks ==
  ASSUME Closed, NEW k, Stable(k), NEW s, NEW h, NEW a, Serves(k, s, h, a),
         k.proc_ptr = SYSTASK, SYSTASK \in h, k.messbuf[SYSTASK].source = MM
  PROVE  /\ MMRequest(k, s[MM], k.messbuf[SYSTASK].body)
         /\ s[MM] \in Seq(Entries) /\ Len(s[MM]) \in Nat
         /\ a \subseteq Users \ k.empty /\ UsersCall(k) /\ k \in Kernels
         /\ k.rdy["TASK_Q"] # << >>
         /\ \A q \in Programs : q \in Procs /\ q \in Senders /\ q \notin Users
         /\ \A u \in Users : u \in Procs /\ u \in Senders
         /\ DOMAIN k.flags = Senders /\ DOMAIN k.getfrom = Procs /\ DOMAIN k.messbuf = Procs
         /\ DOMAIN k.pending = Users /\ DOMAIN k.pendcount = Users
         /\ \A v \in Users : Cardinality(k.pending[v]) \in Nat /\ k.pendcount[v] \in Nat
<1>1. /\ SYSTASK \in Tasks /\ SYSTASK \in Procs /\ MM \in Programs /\ MM # FS
      /\ \A q \in Programs : q \in Procs /\ q \in Senders /\ q \notin Users
      /\ \A u \in Users : u \in Procs /\ u \in Senders
  BY ProgramKinds
<1>2. k \in Kernels
  BY DEF Stable, Consistent
<1>3. ~ Receiving(k, SYSTASK)
  BY <1>1, WhoRuns
<1>4. Serving(k, s, h, a) /\ Heard(k, h, SYSTASK)
  BY <1>3 DEF Serves, Heard
<1>5. MMRequest(k, s[MM], k.messbuf[SYSTASK].body)
  BY <1>1, <1>4, SysRequests
<1>6. s[MM] \in Seq(Entries) /\ a \subseteq Users \ k.empty /\ UsersCall(k)
  BY <1>1, <1>4 DEF Serving, ClockServes
<1>7. k.rdy["TASK_Q"] # << >>
  BY <1>1, TaskRuns
<1>8. /\ DOMAIN k.flags = Senders /\ DOMAIN k.getfrom = Procs /\ DOMAIN k.messbuf = Procs
      /\ DOMAIN k.pending = Users /\ DOMAIN k.pendcount = Users
  BY <1>2 DEF Kernels
<1>9. ASSUME NEW v \in Users
      PROVE  Cardinality(k.pending[v]) \in Nat /\ k.pendcount[v] \in Nat
  <2>1. k.pending[v] \in SUBSET Signals /\ k.pendcount[v] \in Nat
    BY <1>2 DEF Kernels
  <2> QED  BY <2>1, KernelAssumption, FS_Subset, FS_CardinalityType
<1> QED
  BY <1>1, <1>2, <1>5, <1>6, <1>7, <1>8, <1>9

\* Only user u is concerned, and it keeps its messages.
LEMMA ReleaseFrame ==
  ASSUME Closed, NEW k, k \in Kernels, UsersCall(k), NEW u \in Users, NEW r, ReleaseOf(k, r, u),
         Receiving(r, u) <=> Receiving(k, u), Sending(r, u) <=> Sending(k, u)
  PROVE  /\ ProgramsKept(k, r) /\ UsersCall(r) /\ r.rdy["TASK_Q"] = k.rdy["TASK_Q"]
         /\ \A v \in Users, d \in Servers :
              /\ AwaitsAlive(k, v, d) => AwaitsAlive(r, v, d)
              /\ Awaits(r, v, d) => Awaits(k, v, d)
<1>1. /\ \A q \in Programs : q \in Procs /\ q \in Senders /\ q \notin Users
      /\ \A v \in Users : v \in Procs /\ v \in Senders
  BY ProgramKinds
<1>2. ProgramsKept(k, r)
  BY <1>1 DEF ReleaseOf, ProgramsKept
<1>3. \A v \in Users : /\ Receiving(r, v) <=> Receiving(k, v)
                       /\ Sending(r, v) <=> Sending(k, v)
                       /\ r.getfrom[v] = k.getfrom[v] /\ r.messbuf[v] = k.messbuf[v]
  <2> SUFFICES ASSUME NEW v \in Users
               PROVE  /\ Receiving(r, v) <=> Receiving(k, v)
                      /\ Sending(r, v) <=> Sending(k, v)
                      /\ r.getfrom[v] = k.getfrom[v] /\ r.messbuf[v] = k.messbuf[v]
    OBVIOUS
  <2>1. r.getfrom[v] = k.getfrom[v] /\ r.messbuf[v] = k.messbuf[v]
    BY DEF ReleaseOf
  <2>2. CASE v = u
    BY <2>1, <2>2
  <2>3. CASE v # u
    BY <1>1, <2>1, <2>3 DEF ReleaseOf, Receiving, Sending
  <2> QED  BY <2>2, <2>3
<1>4. UsersCall(r)
  BY <1>3 DEF UsersCall
<1>5. r.empty = k.empty /\ r.rdy["TASK_Q"] = k.rdy["TASK_Q"]
  BY DEF ReleaseOf
<1> QED
  BY <1>2, <1>3, <1>4, <1>5 DEF Awaits, AwaitsAlive

\* SYS_ENDSIG: one signal less to finish
LEMMA EndsigServes ==
  ASSUME Closed, NEW k, Stable(k), NEW s, NEW h, NEW a, Serves(k, s, h, a),
         k.proc_ptr = SYSTASK, SYSTASK \in h, k.messbuf[SYSTASK].source = MM,
         NEW u \in Users, k.messbuf[SYSTASK].body = <<"SYS_ENDSIG", u>>
  PROVE  LET r == DoEndsig(k, u)
         IN  /\ k.pendcount[u] > Cardinality(k.pending[u]) \/ u \in k.empty
             /\ Stable(r) /\ r.messbuf[SYSTASK].source = MM
             /\ Serves(r, [s EXCEPT ![SYSTASK] = <<Answer(MM)>>], h \ {SYSTASK}, a)
<1> DEFINE r == DoEndsig(k, u)
           q == s[MM]
           h2 == h \ {SYSTASK}
<1>1. /\ MMRequest(k, q, k.messbuf[SYSTASK].body)
      /\ q \in Seq(Entries) /\ Len(q) \in Nat
      /\ a \subseteq Users \ k.empty /\ UsersCall(k) /\ k \in Kernels
      /\ k.rdy["TASK_Q"] # << >>
      /\ DOMAIN k.pendcount = Users
      /\ \A v \in Users : Cardinality(k.pending[v]) \in Nat /\ k.pendcount[v] \in Nat
  BY MMAsks
<1> HIDE DEF q
<1>2. /\ Len(q) < Cardinality(Signals)
      /\ \A i \in 1..Len(q) : q[i] = Request(SYSTASK, <<"SYS_ENDSIG", u>>)
      /\ Told(k, u, Len(q) + 1)
  BY <1>1 DEF MMRequest, ForkLeft
<1>3. ASSUME NEW w, Told(w, u, Len(q))
      PROVE  MMJob(w, h2, q)
  <2>1. SignalJob(w, h2, q, u, 0)
    <3>1. Cardinality(Signals) \in Nat
      BY KernelAssumption, FS_CardinalityType
    <3>2. 0 <= Len(q) /\ Len(q) - 0 <= Cardinality(Signals) /\ Len(q) - 0 = Len(q)
      BY <1>1, <1>2, <3>1
    <3> QED  BY <1>2, <1>3, <3>2 DEF SignalJob
  <2>2. 0 \in 0..2
    OBVIOUS
  <2> QED  BY <2>1, <2>2 DEF MMJob
<1>4. CASE u \in k.empty
  <2>1. r = k
    BY <1>4 DEF DoEndsig
  <2>2. Told(k, u, Len(q))
    BY <1>2, <1>4 DEF Told
  <2>3. ProgramsKept(k, k)
    BY DEF ProgramsKept
  <2>4. MMJob(k, h2, q)
    BY <1>3, <2>2
  <2>5. Serves(k, [s EXCEPT ![SYSTASK] = <<Answer(MM)>>], h2, a)
    BY <1>1, <2>3, <2>4, SysTaskWorks DEF q
  <2> QED  BY <1>4, <2>1, <2>5
<1>5. CASE u \notin k.empty
  <2>1. k.pendcount[u] = Cardinality(k.pending[u]) + (Len(q) + 1)
    BY <1>2, <1>5 DEF Told, Knows
  <2>2. k.pendcount[u] > Cardinality(k.pending[u]) /\ k.pendcount[u] > 0
    BY <1>1, <2>1
  <2>3. Stable(r)
    BY <1>1, <2>2, DoEndsigKeeps
  <2>4. /\ ReleaseOf(k, r, u)
        /\ r.flags[u] \in {k.flags[u], k.flags[u] \ {"SIG_PENDING"}}
        /\ r.pendcount = [k.pendcount EXCEPT ![u] = @ - 1]
    BY <1>5, <2>2, EndsigReleases
  <2> HIDE DEF r
  <2>5. (Receiving(r, u) <=> Receiving(k, u)) /\ (Sending(r, u) <=> Sending(k, u))
    BY <2>4 DEF Receiving, Sending
  <2>6. /\ ProgramsKept(k, r) /\ UsersCall(r) /\ r.rdy["TASK_Q"] = k.rdy["TASK_Q"]
        /\ \A v \in Users, d \in Servers :
             /\ AwaitsAlive(k, v, d) => AwaitsAlive(r, v, d)
             /\ Awaits(r, v, d) => Awaits(k, v, d)
    BY <1>1, <2>4, <2>5, ReleaseFrame
  <2>7. r.empty = k.empty /\ r.pending = k.pending
    BY <2>4 DEF ReleaseOf
  <2>8. Told(r, u, Len(q))
    <3> SUFFICES ASSUME NEW v \in Users \ k.empty
                 PROVE  Knows(r, v, IF v = u THEN Len(q) ELSE 0)
      BY <2>7 DEF Told
    <3>1. Knows(k, v, IF v = u THEN Len(q) + 1 ELSE 0)
      BY <1>2 DEF Told
    <3>2. CASE v = u
      <4>1. r.pendcount[u] = k.pendcount[u] - 1
        BY <1>1, <2>4
      <4>2. r.pendcount[u] = Cardinality(k.pending[u]) + Len(q)
        BY <1>1, <2>1, <4>1
      <4> QED  BY <2>7, <3>2, <4>2 DEF Knows
    <3>3. CASE v # u
      <4>1. r.pendcount[v] = k.pendcount[v]
        BY <1>1, <2>4, <3>3
      <4> QED  BY <2>7, <3>1, <3>3, <4>1 DEF Knows
    <3> QED  BY <3>2, <3>3
  <2>9. MMJob(r, h2, q)
    BY <1>3, <2>8
  <2>10. /\ r.messbuf[SYSTASK].source = MM
         /\ Serves(r, [s EXCEPT ![SYSTASK] = <<Answer(MM)>>], h2, a)
    <3>1. \A v \in Users : /\ AwaitsAlive(k, v, FS) => AwaitsAlive(r, v, FS)
                           /\ Awaits(r, v, FS) => Awaits(k, v, FS)
      BY <2>6, ProgramKinds
    <3> QED  BY <1>1, <2>3, <2>6, <2>7, <2>9, <3>1, SysTaskWorks DEF q
  <2> QED  BY <2>2, <2>3, <2>10 DEF r
<1> QED
  BY <1>4, <1>5

\* SYS_XIT: the process is no more, and its alarm.
LEMMA XitServes ==
  ASSUME Closed, NEW k, Stable(k), NEW s, NEW h, NEW a, Serves(k, s, h, a),
         k.proc_ptr = SYSTASK, SYSTASK \in h, k.messbuf[SYSTASK].source = MM,
         NEW u \in Users, k.messbuf[SYSTASK].body = <<"SYS_XIT", u>>
  PROVE  LET r == DoXit(k, u)
         IN  /\ u \notin k.empty
             /\ Stable(r) /\ r.messbuf[SYSTASK].source = MM
             /\ Serves(r, [s EXCEPT ![SYSTASK] = <<Answer(MM)>>], h \ {SYSTASK}, a \ {u})
<1> DEFINE r == DoXit(k, u)
           q == s[MM]
           h2 == h \ {SYSTASK}
           b == a \ {u}
<1>1. /\ MMRequest(k, q, k.messbuf[SYSTASK].body)
      /\ q \in Seq(Entries) /\ Len(q) \in Nat
      /\ a \subseteq Users \ k.empty /\ UsersCall(k) /\ k \in Kernels
      /\ k.rdy["TASK_Q"] # << >>
      /\ \A p \in Programs : p \in Procs /\ p \in Senders /\ p \notin Users
      /\ \A v \in Users : v \in Procs /\ v \in Senders
      /\ DOMAIN k.flags = Senders /\ DOMAIN k.pending = Users /\ DOMAIN k.pendcount = Users
  BY MMAsks
<1> HIDE DEF q
<1>2. /\ Len(q) <= Cardinality(Signals)
      /\ \A i \in 1..Len(q) : q[i] = Request(SYSTASK, <<"SYS_ENDSIG", u>>)
      /\ Told(k, u, Len(q)) /\ u \notin k.empty /\ FarFromFS(k, u)
  BY <1>1 DEF MMRequest, ForkLeft
<1>3. /\ r.flags = [k.flags EXCEPT ![u] = {}]
      /\ r.empty = k.empty \cup {u}
      /\ r.messbuf = k.messbuf /\ r.getfrom = k.getfrom /\ r.sendto = k.sendto
      /\ r.intBlocked = k.intBlocked
      /\ r.pending = [k.pending EXCEPT ![u] = {}]
      /\ r.pendcount = [k.pendcount EXCEPT ![u] = 0]
      /\ r.rdy["TASK_Q"] = k.rdy["TASK_Q"]
  BY <1>2, XitFrees
<1>4. Stable(r)
  BY <1>2, DoXitKeeps
<1> HIDE DEF r
<1>5. ~ Receiving(r, u) /\ ~ Sending(r, u)
  BY <1>1, <1>3 DEF Receiving, Sending
<1>6. \A v \in Users : v # u => /\ Receiving(r, v) <=> Receiving(k, v)
                                /\ Sending(r, v) <=> Sending(k, v)
  BY <1>1, <1>3 DEF Receiving, Sending
<1>7. ProgramsKept(k, r)
  BY <1>1, <1>3 DEF ProgramsKept
<1>8. UsersCall(r)
  BY <1>1, <1>3, <1>5, <1>6 DEF UsersCall
<1>9. \A v \in Users : /\ AwaitsAlive(k, v, FS) => AwaitsAlive(r, v, FS)
                       /\ Awaits(r, v, FS) => Awaits(k, v, FS)
  BY <1>2, <1>3, <1>5, <1>6 DEF Awaits, AwaitsAlive, FarFromFS
<1>10. MMJob(r, h2, q)
  <2>1. Told(r, u, Len(q))
    <3> SUFFICES ASSUME NEW v \in Users \ r.empty
                 PROVE  Knows(r, v, IF v = u THEN Len(q) ELSE 0)
      BY DEF Told
    <3>1. v \in Users \ k.empty /\ v # u
      BY <1>3
    <3>2. Knows(k, v, 0)
      BY <1>2, <3>1 DEF Told
    <3>3. r.pendcount[v] = k.pendcount[v] /\ r.pending[v] = k.pending[v]
      BY <1>1, <1>3, <3>1
    <3> QED  BY <3>1, <3>2, <3>3 DEF Knows
  <2>2. SignalJob(r, h2, q, u, 0)
    <3>1. 0 <= Len(q) /\ Len(q) - 0 <= Cardinality(Signals) /\ Len(q) - 0 = Len(q)
      BY <1>1, <1>2
    <3> QED  BY <1>2, <2>1, <3>1 DEF SignalJob
  <2>3. 0 \in 0..2
    OBVIOUS
  <2> QED  BY <2>2, <2>3 DEF MMJob
<1>11. b \subseteq Users \ r.empty
  BY <1>1, <1>3
<1> HIDE DEF b
<1>12. /\ r.messbuf[SYSTASK].source = MM
       /\ Serves(r, [s EXCEPT ![SYSTASK] = <<Answer(MM)>>], h2, b)
  BY <1>3, <1>4, <1>7, <1>8, <1>9, <1>10, <1>11, SysTaskWorks DEF q
<1> QED
  BY <1>2, <1>4, <1>12 DEF r, b

\* SYS_EXEC: the process goes on, and MM does not answer it.
LEMMA ExecServes ==
  ASSUME Closed, NEW k, Stable(k), NEW s, NEW h, NEW a, Serves(k, s, h, a),
         k.proc_ptr = SYSTASK, SYSTASK \in h, k.messbuf[SYSTASK].source = MM,
         NEW u \in Users, k.messbuf[SYSTASK].body = <<"SYS_EXEC", u>>
  PROVE  LET r == DoExec(k, u, FALSE)
         IN  /\ u \notin k.empty /\ Waits(k, u, MM)
             /\ Stable(r) /\ r.messbuf[SYSTASK].source = MM
             /\ Serves(r, [s EXCEPT ![SYSTASK] = <<Answer(MM)>>], h \ {SYSTASK}, a)
<1> DEFINE r == DoExec(k, u, FALSE)
           q == s[MM]
           h2 == h \ {SYSTASK}
<1>1. /\ MMRequest(k, q, k.messbuf[SYSTASK].body)
      /\ a \subseteq Users \ k.empty /\ UsersCall(k) /\ k \in Kernels
      /\ \A p \in Programs : p \in Procs /\ p \in Senders /\ p \notin Users
      /\ \A v \in Users : v \in Procs /\ v \in Senders
  BY MMAsks
<1> HIDE DEF q
<1>2. NoneTold(k) /\ AwaitsAlive(k, u, MM) /\ q = << >> /\ MM # FS
  BY <1>1, ProgramKinds DEF MMRequest, ForkLeft
<1>3. u \notin k.empty /\ Receiving(k, u) /\ ~ Sending(k, u) /\ Waits(k, u, MM) /\ k.getfrom[u] = MM
  BY <1>2 DEF AwaitsAlive, Awaits, Waits, Receiving, Sending
<1>4. Stable(r)
  BY <1>3, DoExecKeeps
<1>5. /\ ReleaseOf(k, r, u) /\ r.flags[u] = k.flags[u] \ {"RECEIVING"}
      /\ r.pendcount = k.pendcount
  BY <1>3, ExecReleases
<1> HIDE DEF r
<1>6. /\ r.messbuf = k.messbuf /\ r.getfrom = k.getfrom /\ r.intBlocked = k.intBlocked
      /\ r.empty = k.empty /\ r.pending = k.pending /\ r.rdy["TASK_Q"] = k.rdy["TASK_Q"]
      /\ \A p \in Senders \ {u} : r.flags[p] = k.flags[p]
  BY <1>5 DEF ReleaseOf
<1>7. ~ Receiving(r, u) /\ ~ Sending(r, u)
  BY <1>3, <1>5 DEF Receiving, Sending
<1>8. \A v \in Users : v # u => /\ Receiving(r, v) <=> Receiving(k, v)
                                /\ Sending(r, v) <=> Sending(k, v)
  BY <1>1, <1>6 DEF Receiving, Sending
<1>9. ProgramsKept(k, r)
  BY <1>1, <1>6 DEF ProgramsKept
<1>10. UsersCall(r)
  BY <1>1, <1>6, <1>7, <1>8 DEF UsersCall
<1>11. \A v \in Users : /\ AwaitsAlive(k, v, FS) => AwaitsAlive(r, v, FS)
                        /\ Awaits(r, v, FS) => Awaits(k, v, FS)
  BY <1>2, <1>3, <1>6, <1>7, <1>8 DEF Awaits, AwaitsAlive
<1>12. MMJob(r, h2, q)
  <2>1. NoneTold(r)
    BY <1>2, <1>5, <1>6 DEF NoneTold, Knows
  <2> QED  BY <1>2, <2>1, NoJob
<1>13. /\ r.messbuf[SYSTASK].source = MM
       /\ Serves(r, [s EXCEPT ![SYSTASK] = <<Answer(MM)>>], h2, a)
  BY <1>1, <1>4, <1>6, <1>9, <1>10, <1>11, <1>12, SysTaskWorks DEF q
<1> QED
  BY <1>3, <1>4, <1>13 DEF r

\* SYS_NEWMAP: the child of a fork has its memory.
LEMMA NewmapServes ==
  ASSUME Closed, NEW k, Stable(k), NEW s, NEW h, NEW a, Serves(k, s, h, a),
         k.proc_ptr = SYSTASK, SYSTASK \in h, k.messbuf[SYSTASK].source = MM,
         NEW c \in Users, k.messbuf[SYSTASK].body = <<"SYS_NEWMAP", c>>
  PROVE  LET r == DoNewmap(k, c)
         IN  /\ c \notin k.empty
             /\ Stable(r) /\ r.messbuf[SYSTASK].source = MM
             /\ Serves(r, [s EXCEPT ![SYSTASK] = <<Answer(MM)>>], h \ {SYSTASK}, a)
<1> DEFINE r == DoNewmap(k, c)
           q == s[MM]
           h2 == h \ {SYSTASK}
<1>1. /\ MMRequest(k, q, k.messbuf[SYSTASK].body)
      /\ a \subseteq Users \ k.empty /\ UsersCall(k) /\ k \in Kernels
      /\ k.rdy["TASK_Q"] # << >>
  BY MMAsks
<1> HIDE DEF q
<1>2. /\ NoneTold(k) /\ AwaitsAlive(k, c, MM)
      /\ \E u \in Users : /\ AwaitsAlive(k, u, MM) /\ c # u
                          /\ Len(q) = 2 /\ q[1] = Answer(c) /\ q[2] = Answer(u)
  BY <1>1 DEF MMRequest, ForkLeft
<1>3. c \notin k.empty
  BY <1>2 DEF AwaitsAlive
<1>4. Stable(r)
  BY <1>1, DoNewmapKeeps
<1>5. /\ ReleaseOf(k, r, c) /\ r.flags[c] = k.flags[c] \ {"NO_MAP"}
      /\ r.pendcount = k.pendcount
  BY <1>3, NewmapReleases
<1> HIDE DEF r
<1>6. (Receiving(r, c) <=> Receiving(k, c)) /\ (Sending(r, c) <=> Sending(k, c))
  BY <1>5 DEF Receiving, Sending
<1>7. /\ ProgramsKept(k, r) /\ UsersCall(r) /\ r.rdy["TASK_Q"] = k.rdy["TASK_Q"]
      /\ \A v \in Users, d \in Servers :
           /\ AwaitsAlive(k, v, d) => AwaitsAlive(r, v, d)
           /\ Awaits(r, v, d) => Awaits(k, v, d)
  BY <1>1, <1>5, <1>6, ReleaseFrame
<1>8. r.empty = k.empty /\ r.pending = k.pending
  BY <1>5 DEF ReleaseOf
<1>9. MMJob(r, h2, q)
  <2>1. NoneTold(r)
    BY <1>2, <1>5, <1>8 DEF NoneTold, Knows
  <2>2. MM \in Servers
    BY ProgramKinds
  <2>3. PICK u \in Users : /\ AwaitsAlive(k, u, MM) /\ c # u
                           /\ Len(q) = 2 /\ q[1] = Answer(c) /\ q[2] = Answer(u)
    BY <1>2
  <2>4. AwaitsAlive(r, u, MM) /\ AwaitsAlive(r, c, MM)
    BY <1>2, <1>7, <2>2, <2>3
  <2>5. ForkJob(r, q, u, c)
    BY <2>3, <2>4 DEF ForkJob
  <2>6. c \in Users \ {u}
    BY <2>3
  <2> QED  BY <2>1, <2>4, <2>5, <2>6 DEF MMJob
<1>10. \A v \in Users : /\ AwaitsAlive(k, v, FS) => AwaitsAlive(r, v, FS)
                        /\ Awaits(r, v, FS) => Awaits(k, v, FS)
  BY <1>7, ProgramKinds
<1>11. /\ r.messbuf[SYSTASK].source = MM
       /\ Serves(r, [s EXCEPT ![SYSTASK] = <<Answer(MM)>>], h2, a)
  BY <1>1, <1>4, <1>7, <1>8, <1>9, <1>10, SysTaskWorks DEF q
<1> QED
  BY <1>3, <1>4, <1>11 DEF r

\* SYS_FORK: the child waits for MM as its parent does, and has its alarm.
LEMMA ForkServes ==
  ASSUME Closed, NEW k, Stable(k), NEW s, NEW h, NEW a, Serves(k, s, h, a),
         k.proc_ptr = SYSTASK, SYSTASK \in h, k.messbuf[SYSTASK].source = MM,
         NEW u \in Users, NEW c \in Users, k.messbuf[SYSTASK].body = <<"SYS_FORK", u, c>>,
         NEW b, b \subseteq a \cup {c}
  PROVE  LET r == DoFork(k, u, c)
         IN  /\ u \notin k.empty /\ Waits(k, u, MM) /\ c \in k.empty
             /\ Stable(r) /\ r.messbuf[SYSTASK].source = MM
             /\ Serves(r, [s EXCEPT ![SYSTASK] = <<Answer(MM)>>], h \ {SYSTASK}, b)
<1> DEFINE r == DoFork(k, u, c)
           q == s[MM]
           h2 == h \ {SYSTASK}
<1>1. /\ MMRequest(k, q, k.messbuf[SYSTASK].body)
      /\ a \subseteq Users \ k.empty /\ UsersCall(k) /\ k \in Kernels
      /\ \A p \in Programs : p \in Procs /\ p \in Senders /\ p \notin Users
      /\ \A v \in Users : v \in Procs /\ v \in Senders
      /\ DOMAIN k.pending = Users /\ DOMAIN k.pendcount = Users
  BY MMAsks
<1> HIDE DEF q
<1>2. /\ NoneTold(k) /\ AwaitsAlive(k, u, MM) /\ c \in k.empty /\ c # u
      /\ Len(q) = 3 /\ q[1] = Request(SYSTASK, <<"SYS_NEWMAP", c>>)
      /\ q[2] = Answer(c) /\ q[3] = Answer(u)
  <2> DEFINE body == <<"SYS_FORK", u, c>>
  <2>1. /\ \A v : /\ body # <<"SYS_ENDSIG", v>> /\ body # <<"SYS_XIT", v>>
                 /\ body # <<"SYS_EXEC", v>> /\ body # <<"SYS_NEWMAP", v>>
        /\ \A v, d : body = <<"SYS_FORK", v, d>> => v = u /\ d = c
    OBVIOUS
  <2>2. MMRequest(k, q, body)
    BY <1>1
  <2> HIDE DEF body
  <2>3. PICK v \in Users : /\ NoneTold(k) /\ AwaitsAlive(k, v, MM)
                           /\ \E d \in Users \ {v} : ForkLeft(k, q, body, v, d)
    BY <2>1, <2>2, Zenon DEF MMRequest
  <2>4. PICK d \in Users \ {v} : ForkLeft(k, q, body, v, d)
    BY <2>3
  <2>5. /\ body = <<"SYS_FORK", v, d>> /\ d \in k.empty
        /\ Len(q) = 3 /\ q[1] = Request(SYSTASK, <<"SYS_NEWMAP", d>>)
        /\ q[2] = Answer(d) /\ q[3] = Answer(v)
    BY <2>1, <2>4, Zenon DEF ForkLeft
  <2>6. v = u /\ d = c
    BY <2>1, <2>5
  <2> QED  BY <2>3, <2>4, <2>5, <2>6
<1>3. u \notin k.empty /\ Receiving(k, u) /\ ~ Sending(k, u) /\ Waits(k, u, MM) /\ k.getfrom[u] = MM
  BY <1>2 DEF AwaitsAlive, Awaits, Waits, Receiving, Sending
<1>4. Stable(r)
  BY <1>2, <1>3, DoForkKeeps
<1>5. Copied(k, r, u, c)
  BY ForkCopies, Zenon
<1> HIDE DEF r
<1>6. Receiving(r, c) /\ ~ Sending(r, c) /\ r.getfrom[c] = MM
  <2>1. /\ r.flags[c] = (k.flags[u] \ {"PENDING", "SIG_PENDING", "P_STOP"}) \cup {"NO_MAP"}
        /\ r.getfrom[c] = k.getfrom[u]
    BY <1>5 DEF Copied
  <2>2. "RECEIVING" \in k.flags[u] /\ "SENDING" \notin k.flags[u]
    BY <1>3 DEF Receiving, Sending
  <2>3. "RECEIVING" \in r.flags[c] /\ "SENDING" \notin r.flags[c]
    BY <2>1, <2>2
  <2> QED  BY <1>3, <2>1, <2>3 DEF Receiving, Sending
<1>7. \A v \in Users : v # c => /\ Receiving(r, v) <=> Receiving(k, v)
                                /\ Sending(r, v) <=> Sending(k, v)
                                /\ r.getfrom[v] = k.getfrom[v] /\ r.messbuf[v] = k.messbuf[v]
  BY <1>1, <1>5 DEF Copied, Receiving, Sending
<1>8. ProgramsKept(k, r)
  BY <1>1, <1>5 DEF Copied, ProgramsKept
<1>9. UsersCall(r)
  BY <1>1, <1>6, <1>7, ProgramKinds, ZenonT(40) DEF UsersCall
<1>10. \A v \in Users, d \in Servers : AwaitsAlive(k, v, d) => AwaitsAlive(r, v, d)
  BY <1>2, <1>5, <1>7 DEF Copied, Awaits, AwaitsAlive
<1>11. \A v \in Users : Awaits(r, v, FS) => Awaits(k, v, FS)
  BY <1>6, <1>7, ProgramKinds DEF Awaits
<1>12. MMJob(r, h2, q)
  <2>1. NoneTold(r)
    <3> SUFFICES ASSUME NEW v \in Users \ r.empty
                 PROVE  Knows(r, v, 0)
      BY DEF NoneTold
    <3>1. CASE v = c
      <4>1. r.pendcount[c] = 0 /\ Cardinality(r.pending[c]) = 0
        BY <1>1, <1>5, FS_EmptySet DEF Copied
      <4> QED  BY <3>1, <4>1 DEF Knows
    <3>2. CASE v # c
      <4>1. Knows(k, v, 0)
        BY <1>2, <1>5, <3>2 DEF Copied, NoneTold
      <4>2. r.pendcount[v] = k.pendcount[v] /\ r.pending[v] = k.pending[v]
        BY <1>1, <1>5, <3>2 DEF Copied
      <4> QED  BY <4>1, <4>2 DEF Knows
    <3> QED  BY <3>1, <3>2
  <2>2. AwaitsAlive(r, u, MM)
    BY <1>2, <1>10, ProgramKinds
  <2>3. AwaitsAlive(r, c, MM)
    BY <1>5, <1>6 DEF Copied, AwaitsAlive, Awaits
  <2>4. ForkJob(r, q, u, c)
    BY <1>2, <2>3 DEF ForkJob
  <2>5. c \in Users \ {u}
    BY <1>2
  <2> QED  BY <2>1, <2>2, <2>4, <2>5 DEF MMJob
<1>13. b \subseteq Users \ r.empty
  BY <1>1, <1>5 DEF Copied
<1>14. \A v \in Users : /\ AwaitsAlive(k, v, FS) => AwaitsAlive(r, v, FS)
                        /\ Awaits(r, v, FS) => Awaits(k, v, FS)
  BY <1>10, <1>11, ProgramKinds
<1>15. /\ r.messbuf[SYSTASK].source = MM
       /\ Serves(r, [s EXCEPT ![SYSTASK] = <<Answer(MM)>>], h2, b)
  BY <1>4, <1>5, <1>8, <1>9, <1>12, <1>13, <1>14, SysTaskWorks DEF Copied, q
<1> QED
  BY <1>2, <1>3, <1>4, <1>15 DEF r

-----------------------------------------------------------------------------
(* The messages to the clock task and to the disk driver *)

\* The call that it has been heard with is.
LEMMA CallOf ==
  ASSUME Closed, NEW k, NEW s, NEW h, NEW a, Serving(k, s, h, a),
         NEW d \in Programs, NEW p \in Servers, HeardFrom(k, h, d, p)
  PROVE  NextCall(k, s, h, d, p)
<1> DEFINE body == k.messbuf[d].body
           q    == s[p]
           t    == <<Request(d, body)>> \o q
<1>1. p \in Programs
  BY ProgramKinds
<1>2. p \notin h /\ ~ Heard(k, h, p) /\ Todo(k, s, h, p) = t /\ Due(k, h, p, d)
  <2>1. RequestsHeld(k, h)
    BY DEF Serving
  <2>2. Due(k, h, p, d) /\ k.messbuf[p].body = body
    BY <1>1, <2>1 DEF RequestsHeld
  <2>3. p \notin h /\ Receiving(k, p) /\ k.getfrom[p] = d
    BY <2>2 DEF Due, Awaits
  <2>4. Undone(k, h, p)
    BY <2>3 DEF Undone
  <2> QED  BY <2>2, <2>3, <2>4 DEF Todo, Heard
<1>3. q \in Seq(Entries)
  BY <1>1 DEF Serving
<1>4. /\ t[1] = Request(d, body) /\ Len(q) \in Nat /\ Len(t) = Len(q) + 1
      /\ \A i \in 1..Len(q) : t[i + 1] = q[i]
      /\ q = << >> <=> Len(q) = 0
  <2> HIDE DEF q
  <2> QED  BY <1>3, Prepended
<1>5. (p = MM => MMJob(k, h, t)) /\ (p = FS => FSJob(k, h, t))
  BY <1>2 DEF Serving, MMServes, FSServes
<1> HIDE DEF t, q, body
<1>6. /\ Len(t) = 1 => q = << >>
      /\ Len(t) = 2 => Len(q) = 1 /\ t[2] = q[1]
  <2>1. Len(q) \in Nat /\ Len(t) = Len(q) + 1
    BY <1>4
  <2>2. (Len(t) = 1 => Len(q) = 0) /\ (Len(t) = 2 => Len(q) = 1)
    <3> DEFINE n == Len(q)
    <3>1. n \in Nat /\ Len(t) = n + 1
      BY <2>1
    <3> HIDE DEF n
    <3>2. (Len(t) = 1 => n = 0) /\ (Len(t) = 2 => n = 1)
      BY <3>1
    <3> QED  BY <3>2 DEF n
  <2>3. 1 \in 1..Len(q) => t[2] = q[1]
    BY <1>4
  <2> QED  BY <1>4, <2>2, <2>3
<1> QED
  BY <1>2, <1>3, <1>4, <1>5, <1>6 DEF NextCall, q, body

\* What MM and FS ask of the two
LEMMA DeviceRequests ==
  ASSUME Closed, NEW k, NEW s, NEW h, NEW a, Serving(k, s, h, a),
         NEW d \in {CLOCK, DISK}, NEW p \in Servers, HeardFrom(k, h, d, p)
  PROVE  \/ /\ d = CLOCK /\ p = MM /\ NoneTold(k)
            /\ \E u \in Users : /\ k.messbuf[CLOCK].body = <<"SET_ALARM", u>>
                                /\ AwaitsAlive(k, u, MM)
                                /\ Len(s[MM]) = 1 /\ s[MM][1] = Answer(u)
         \/ /\ d = DISK /\ p = FS
            /\ \E u \in Users : /\ AwaitsAlive(k, u, FS)
                                /\ Len(s[FS]) = 1 /\ s[FS][1] = Answer(u)
<1> DEFINE t == Todo(k, s, h, p)
           body == k.messbuf[d].body
<1>1. /\ d \in Programs /\ Servers = {MM, FS}
      /\ d # SYSTASK /\ d # FS /\ CLOCK # DISK
  BY ProgramKinds
<1>2. /\ t[1] = Request(d, body)
      /\ Len(t) = 2 => Len(s[p]) = 1 /\ t[2] = s[p][1]
      /\ p = MM => MMJob(k, h, t)
      /\ p = FS => FSJob(k, h, t)
      /\ t # << >> /\ Len(t) # 0
  <2>0. NextCall(k, s, h, d, p)
    BY <1>1, CallOf
  <2>1. Len(s[p]) \in Nat /\ Len(t) = Len(s[p]) + 1
    BY <2>0 DEF NextCall
  <2>2. Len(t) # 0
    BY <2>1
  <2>3. /\ t[1] = Request(d, body)
        /\ Len(t) = 2 => Len(s[p]) = 1 /\ t[2] = s[p][1]
        /\ p = MM => MMJob(k, h, t)
        /\ p = FS => FSJob(k, h, t)
    BY <2>0 DEF NextCall
  <2> QED  BY <2>2, <2>3
<1> HIDE DEF t, body
<1>3. /\ \A e : \A b : e # d => t[1] # Request(e, b)
      /\ \A e : t[1] # Answer(e)
      /\ \A b : t[1] = Request(d, b) => body = b
  BY <1>2 DEF Request, Answer
<1>4. CASE p = MM
  <2>1. ASSUME NEW u \in Users, NEW m \in 0..2, SignalJob(k, h, t, u, m)
        PROVE  FALSE
    <3>1. /\ m <= Len(t)
          /\ \A i \in 1..Len(t) :
               t[i] = IF i > m THEN Request(SYSTASK, <<"SYS_ENDSIG", u>>)
                      ELSE IF i = m THEN Request(SYSTASK, <<"SYS_XIT", u>>)
                      ELSE Request(FS, <<"EXIT", u>>)
      BY <2>1 DEF SignalJob
    <3>2. 1 \in 1..Len(t)
      <4>1. Len(s[p]) \in Nat /\ Len(t) = Len(s[p]) + 1
        BY <1>1, CallOf DEF NextCall, t
      <4> QED  BY <4>1
    <3> QED  BY <1>1, <1>3, <3>1, <3>2
  <2>2. PICK u \in Users : /\ NoneTold(k) /\ AwaitsAlive(k, u, MM)
                           /\ CallJob(k, t, u) \/ \E c \in Users \ {u} : ForkJob(k, t, u, c)
    BY <1>2, <1>4, <2>1, Zenon DEF MMJob
  <2>3. \A c : ~ ForkJob(k, t, u, c)
    BY <1>1, <1>3 DEF ForkJob
  <2>4. Len(t) = 2 /\ t[1] = Request(CLOCK, <<"SET_ALARM", u>>) /\ t[2] = Answer(u)
    BY <1>1, <1>3, <2>2, <2>3 DEF CallJob
  <2>5. d = CLOCK /\ body = <<"SET_ALARM", u>>
    BY <1>3, <2>4
  <2> QED  BY <1>2, <1>4, <2>2, <2>4, <2>5 DEF body
<1>5. CASE p = FS
  <2>1. FSJob(k, h, t)
    BY <1>2, <1>5
  <2>2. \E u \in Users : /\ AwaitsAlive(k, u, FS) /\ t[1] = Request(DISK, <<"read">>)
                         /\ Len(t) = 2 /\ t[2] = Answer(u)
    BY <1>1, <1>2, <1>3, <2>1, Zenon DEF FSJob
  <2>3. d = DISK
    BY <1>3, <2>2
  <2> QED  BY <1>2, <1>5, <2>2, <2>3
<1> QED
  BY <1>1, <1>4, <1>5

\* The clock task has an interrupt: alarms are due.
LEMMA AlarmsServe ==
  ASSUME Closed, NEW k, Stable(k), NEW s, NEW h, NEW a, Serves(k, s, h, a),
         k.proc_ptr = CLOCK, CLOCK \in h, k.messbuf[CLOCK].body = <<"HARD_INT">>,
         NEW job \in Seq(Entries), NEW b, b \subseteq a,
         \A i \in 1..Len(job) : \E u \in a : job[i] = Cause(u, SIGALRM)
  PROVE  Serves(k, [s EXCEPT ![CLOCK] = job], h \ {CLOCK}, b)
<1> DEFINE h2 == h \ {CLOCK}
           s2 == [s EXCEPT ![CLOCK] = job]
<1>1. /\ SYSTASK \in Programs /\ CLOCK \in Programs /\ DISK \in Programs
      /\ MM \in Programs /\ FS \in Programs /\ MM \in Servers /\ FS \in Servers
      /\ CLOCK # SYSTASK /\ CLOCK # DISK /\ CLOCK # MM /\ CLOCK # FS
      /\ CLOCK \in Tasks /\ CLOCK \in Procs
  BY ProgramKinds
<1>2. ~ Receiving(k, CLOCK)
  BY <1>1, WhoRuns
<1>3. Serving(k, s, h, a) /\ Heard(k, h, CLOCK) /\ ClockServes(k, s, h, a)
  BY <1>2 DEF Serves, Serving, Heard
<1>4. \A p \in Servers : ~ HeardFrom(k, h, CLOCK, p)
  <2> SUFFICES ASSUME NEW p \in Servers, HeardFrom(k, h, CLOCK, p)
               PROVE  FALSE
    OBVIOUS
  <2>1. \E u \in Users : k.messbuf[CLOCK].body = <<"SET_ALARM", u>>
    BY <1>1, <1>3, DeviceRequests
  <2>2. PICK u \in Users : <<"HARD_INT">> = <<"SET_ALARM", u>>
    BY <2>1
  <2>3. <<"HARD_INT">>[1] = <<"SET_ALARM", u>>[1]
    BY <2>2
  <2> QED  BY <2>3
<1>5. JobBegun(k, s, h, a, CLOCK, job, s2, h2)
  BY <1>1, <1>3, JobStarts
<1> HIDE DEF s2, h2
<1>6. /\ s2 \in [Programs -> Seq(Entries)] /\ h2 \subseteq Programs
      /\ s2[CLOCK] = job /\ s2[SYSTASK] = s[SYSTASK]
      /\ LoopsKept(k, s2, h2) /\ RequestsHeld(k, h2)
      /\ SysTaskServes(k, s2, h2) /\ DiskServes(k, s2, h2)
      /\ Heard(k, h2, SYSTASK) <=> Heard(k, h, SYSTASK)
      /\ ~ Heard(k, h2, CLOCK)
      /\ MMServes(k, s2, h2) /\ FSServes(k, s2, h2)
  BY <1>1, <1>4, <1>5 DEF JobBegun
<1>7. ClockServes(k, s2, h2, b)
  <2>1. a \subseteq Users \ k.empty
    BY <1>3 DEF ClockServes
  <2>2. \A i \in 1..Len(s2[CLOCK]) : \E u \in Users \ k.empty : s2[CLOCK][i] = Cause(u, SIGALRM)
    BY <1>6, <2>1
  <2> QED  BY <1>6, <2>1, <2>2 DEF ClockServes
<1>8. TasksAtWork(k, s2, h2)
  BY <1>1, <1>6 DEF Serves, TasksAtWork
<1> QED
  BY <1>3, <1>6, <1>7, <1>8 DEF Serving, Serves, s2, h2

\* It has SET_ALARM, of MM for a process that lives.
LEMMA AlarmSetServes ==
  ASSUME Closed, NEW k, Stable(k), NEW s, NEW h, NEW a, Serves(k, s, h, a),
         k.proc_ptr = CLOCK, CLOCK \in h, k.messbuf[CLOCK].body # <<"HARD_INT">>
  PROVE  /\ k.messbuf[CLOCK].source = MM
         /\ Serves(k, [s EXCEPT ![CLOCK] = <<Answer(MM)>>], h \ {CLOCK},
                   a \cup {k.messbuf[CLOCK].body[2]})
<1> DEFINE h2 == h \ {CLOCK}
           job == <<Answer(MM)>>
           s2 == [s EXCEPT ![CLOCK] = job]
<1>1. /\ SYSTASK \in Programs /\ CLOCK \in Programs /\ DISK \in Programs
      /\ MM \in Programs /\ FS \in Programs /\ MM \in Servers /\ FS \in Servers
      /\ CLOCK # SYSTASK /\ CLOCK # DISK /\ CLOCK # MM /\ CLOCK # FS /\ MM # FS
      /\ CLOCK \in Tasks /\ CLOCK \in Procs /\ MM \in Procs
  BY ProgramKinds
<1>2. ~ Receiving(k, CLOCK)
  BY <1>1, WhoRuns
<1>3. Serving(k, s, h, a) /\ Heard(k, h, CLOCK) /\ ClockServes(k, s, h, a)
  BY <1>2 DEF Serves, Serving, Heard
<1>4. k.messbuf[CLOCK].source = MM /\ HeardFrom(k, h, CLOCK, MM) /\ ~ HeardFrom(k, h, CLOCK, FS)
  BY <1>1, <1>3 DEF ClockServes, HeardFrom
<1>5. NoneTold(k) /\ \E u \in Users : /\ k.messbuf[CLOCK].body = <<"SET_ALARM", u>>
                                      /\ AwaitsAlive(k, u, MM)
                                      /\ Len(s[MM]) = 1 /\ s[MM][1] = Answer(u)
  BY <1>1, <1>3, <1>4, DeviceRequests
<1>6. PICK u \in Users : /\ k.messbuf[CLOCK].body = <<"SET_ALARM", u>>
                         /\ AwaitsAlive(k, u, MM)
                         /\ Len(s[MM]) = 1 /\ s[MM][1] = Answer(u)
  BY <1>5
<1>7. job \in Seq(Entries) /\ Len(job) = 1 /\ job[1] = Answer(MM)
  <2>1. Answer(MM) \in Entries
    BY <1>1 DEF Entries
  <2> QED  BY <2>1
<1> HIDE DEF job
<1>8. JobBegun(k, s, h, a, CLOCK, job, s2, h2)
  BY <1>1, <1>3, <1>7, JobStarts
<1> HIDE DEF s2, h2
<1>9. /\ s2 \in [Programs -> Seq(Entries)] /\ h2 \subseteq Programs
      /\ s2[CLOCK] = job /\ s2[SYSTASK] = s[SYSTASK]
      /\ LoopsKept(k, s2, h2) /\ RequestsHeld(k, h2)
      /\ SysTaskServes(k, s2, h2) /\ DiskServes(k, s2, h2)
      /\ Heard(k, h2, SYSTASK) <=> Heard(k, h, SYSTASK)
      /\ ~ Heard(k, h2, CLOCK)
      /\ Todo(k, s2, h2, MM) = s[MM] /\ Due(k, h2, MM, CLOCK)
      /\ FSServes(k, s2, h2)
  BY <1>1, <1>4, <1>8 DEF JobBegun
<1>10. ClockServes(k, s2, h2, a \cup {u})
  <2>1. a \cup {u} \subseteq Users \ k.empty
    BY <1>3, <1>6 DEF ClockServes, AwaitsAlive
  <2> QED  BY <1>7, <1>9, <2>1 DEF ClockServes
<1>11. MMServes(k, s2, h2)
  <2>1. ~ Heard(k, h2, MM)
    BY <1>9 DEF Due, Heard
  <2>2. CallJob(k, s[MM], u)
    BY <1>6 DEF CallJob
  <2>3. MMJob(k, h2, s[MM])
    BY <1>5, <1>6, <2>2 DEF MMJob
  <2> QED  BY <1>9, <2>1, <2>3 DEF MMServes
<1>12. TasksAtWork(k, s2, h2)
  BY <1>1, <1>9 DEF Serves, TasksAtWork
<1>13. k.messbuf[CLOCK].body[2] = u
  BY <1>6
<1> QED
  BY <1>3, <1>4, <1>9, <1>10, <1>11, <1>12, <1>13 DEF Serving, Serves, s2, h2, job

\* The driver starts the disk for FS.
LEMMA DiskStartServes ==
  ASSUME Closed, NEW k, Stable(k), NEW s, NEW h, NEW a, Serves(k, s, h, a),
         k.proc_ptr = DISK, DISK \in h, k.messbuf[DISK].source \in Servers
  PROVE  LET job == <<AwaitInterrupt, Answer(k.messbuf[DISK].source)>>
         IN  Serves(k, [s EXCEPT ![DISK] = job], h \ {DISK}, a)
<1> DEFINE h2 == h \ {DISK}
           job == <<AwaitInterrupt, Answer(FS)>>
           s2 == [s EXCEPT ![DISK] = job]
<1>1. /\ SYSTASK \in Programs /\ CLOCK \in Programs /\ DISK \in Programs
      /\ MM \in Programs /\ FS \in Programs /\ MM \in Servers /\ FS \in Servers
      /\ CLOCK # SYSTASK /\ CLOCK # DISK /\ DISK # MM /\ DISK # FS /\ MM # FS
      /\ DISK # SYSTASK /\ DISK \in Tasks /\ DISK \in Procs /\ FS \in Procs
  BY ProgramKinds
<1>2. ~ Receiving(k, DISK)
  BY <1>1, WhoRuns
<1>3. Serving(k, s, h, a) /\ Heard(k, h, DISK)
  BY <1>2 DEF Serves, Heard
<1>4. /\ k.messbuf[DISK].source = FS /\ HeardFrom(k, h, DISK, FS) /\ ~ HeardFrom(k, h, DISK, MM)
      /\ \E u \in Users : /\ AwaitsAlive(k, u, FS)
                          /\ Len(s[FS]) = 1 /\ s[FS][1] = Answer(u)
  <2> DEFINE p == k.messbuf[DISK].source
  <2>1. HeardFrom(k, h, DISK, p)
    BY <1>3 DEF HeardFrom
  <2>2. p = FS /\ \E u \in Users : /\ AwaitsAlive(k, u, FS)
                                   /\ Len(s[FS]) = 1 /\ s[FS][1] = Answer(u)
    <3>1. p \in Servers
      OBVIOUS
    <3> HIDE DEF p
    <3> QED  BY <1>1, <1>3, <2>1, <3>1, DeviceRequests
  <2> QED  BY <1>1, <2>1, <2>2 DEF HeardFrom
<1>5. PICK u \in Users : /\ AwaitsAlive(k, u, FS)
                         /\ Len(s[FS]) = 1 /\ s[FS][1] = Answer(u)
  BY <1>4
<1>6. job \in Seq(Entries) /\ Len(job) = 2 /\ job[1] = AwaitInterrupt /\ job[2] = Answer(FS)
  <2>1. Answer(FS) \in Entries /\ AwaitInterrupt \in Entries
    BY <1>1 DEF Entries
  <2> QED  BY <2>1
<1> HIDE DEF job
<1>7. JobBegun(k, s, h, a, DISK, job, s2, h2)
  BY <1>1, <1>3, <1>6, JobStarts
<1> HIDE DEF s2, h2
<1>8. /\ s2 \in [Programs -> Seq(Entries)] /\ h2 \subseteq Programs
      /\ s2[DISK] = job /\ s2[SYSTASK] = s[SYSTASK] /\ s2[CLOCK] = s[CLOCK]
      /\ LoopsKept(k, s2, h2) /\ RequestsHeld(k, h2)
      /\ SysTaskServes(k, s2, h2) /\ ClockServes(k, s2, h2, a)
      /\ Heard(k, h2, SYSTASK) <=> Heard(k, h, SYSTASK)
      /\ ~ Heard(k, h2, DISK)
      /\ \A d : \A q : HeardFrom(k, h2, d, q) <=> HeardFrom(k, h, d, q) /\ d # DISK
      /\ Todo(k, s2, h2, FS) = s[FS] /\ Due(k, h2, FS, DISK)
      /\ MMServes(k, s2, h2)
  BY <1>1, <1>4, <1>7 DEF JobBegun
<1>9. DiskServes(k, s2, h2)
  BY <1>2, <1>6, <1>8 DEF DiskServes
<1>10. FSServes(k, s2, h2)
  <2>1. ~ Heard(k, h2, FS)
    BY <1>8 DEF Due, Heard
  <2>2. FSJob(k, h2, s[FS])
    BY <1>5 DEF FSJob
  <2>3. FSKnows(k, s2, h2)
    <3> DEFINE t == Todo(k, s, h, FS)
    <3> SUFFICES ASSUME NEW v \in Users, Awaits(k, v, FS)
                 PROVE  HeardFrom(k, h2, FS, v) \/ (s[FS] # << >> /\ s[FS][Len(s[FS])] = Answer(v))
      BY <1>8 DEF FSKnows
    <3>1. HeardFrom(k, h, FS, v) \/ (t # << >> /\ t[Len(t)] = Answer(v))
      BY <1>3 DEF Serving, FSServes, FSKnows
    <3>2. Len(t) = 2 /\ t[2] = s[FS][1]
      <4>1. /\ Len(t) = Len(s[FS]) + 1
            /\ Len(t) = 2 => Len(s[FS]) = 1 /\ t[2] = s[FS][1]
        <5>1. NextCall(k, s, h, DISK, FS)
          BY <1>1, <1>3, <1>4, CallOf
        <5> QED  BY <5>1 DEF NextCall
      <4> HIDE DEF t
      <4> QED  BY <1>5, <4>1
    <3> HIDE DEF t
    <3>3. s[FS] # << >>
      BY <1>5
    <3> QED  BY <1>1, <1>5, <1>8, <3>1, <3>2, <3>3
  <2> QED  BY <1>8, <2>1, <2>2, <2>3 DEF FSServes
<1>11. TasksAtWork(k, s2, h2)
  BY <1>1, <1>8 DEF Serves, TasksAtWork
<1> QED
  BY <1>3, <1>4, <1>8, <1>9, <1>10, <1>11 DEF Serving, Serves, s2, h2, job

-----------------------------------------------------------------------------
(* The messages to MM *)

\* The message that MM has is no call of FS, and MM begins with any job of its own.
LEMMA MMStarts ==
  ASSUME Closed, NEW k, Stable(k), NEW s, NEW h, NEW a, Serves(k, s, h, a),
         k.proc_ptr = MM, MM \in h
  PROVE  /\ MMMessage(k) /\ k \in Kernels /\ ~ Sending(k, MM)
         /\ ~ HeardFrom(k, h \ {MM}, FS, MM)
         /\ \A job \in Seq(Entries) : MMJob(k, h \ {MM}, job) =>
              Serves(k, [s EXCEPT ![MM] = job], h \ {MM}, a)
<1> DEFINE h2 == h \ {MM}
<1>1. /\ SYSTASK \in Programs /\ CLOCK \in Programs /\ DISK \in Programs
      /\ MM \in Programs /\ FS \in Programs /\ MM \in Servers /\ FS \in Servers
      /\ MM # SYSTASK /\ MM # DISK /\ CLOCK # MM /\ MM # FS
      /\ MM \notin Tasks /\ MM \in Procs /\ FS \notin Users /\ FS # HARDWARE
  BY ProgramKinds
<1>2. ~ Receiving(k, MM) /\ ~ Sending(k, MM)
  BY <1>1, WhoRuns
<1>3. Serving(k, s, h, a) /\ Heard(k, h, MM)
  BY <1>2 DEF Serves, Heard
<1>4. MMMessage(k)
  BY <1>3 DEF Serving, MMServes
<1>5. ~ HeardFrom(k, h, MM, FS)
  BY <1>1, <1>4 DEF MMMessage, HeardFrom
<1>6. ~ HeardFrom(k, h2, FS, MM)
  <2>1. RequestsHeld(k, h)
    BY <1>3 DEF Serving
  <2>2. ~ HeardFrom(k, h, FS, MM)
    BY <1>1, <2>1 DEF RequestsHeld, Due
  <2> QED  BY <1>1, <2>2 DEF HeardFrom, Heard
<1>7. ASSUME NEW job \in Seq(Entries), MMJob(k, h2, job)
      PROVE  Serves(k, [s EXCEPT ![MM] = job], h2, a)
  <2> DEFINE s2 == [s EXCEPT ![MM] = job]
  <2>1. JobBegun(k, s, h, a, MM, job, s2, h2)
    BY <1>1, <1>3, JobStarts
  <2> HIDE DEF s2, h2
  <2>2. /\ s2 \in [Programs -> Seq(Entries)] /\ h2 \subseteq Programs
        /\ s2[SYSTASK] = s[SYSTASK] /\ s2[CLOCK] = s[CLOCK]
        /\ LoopsKept(k, s2, h2) /\ RequestsHeld(k, h2)
        /\ SysTaskServes(k, s2, h2) /\ DiskServes(k, s2, h2) /\ ClockServes(k, s2, h2, a)
        /\ Heard(k, h2, SYSTASK) <=> Heard(k, h, SYSTASK)
        /\ ~ Heard(k, h2, MM)
        /\ Todo(k, s2, h2, MM) = job
        /\ FSServes(k, s2, h2)
    BY <1>1, <1>5, <2>1 DEF JobBegun
  <2>3. MMServes(k, s2, h2)
    BY <1>7, <2>2 DEF MMServes
  <2>4. TasksAtWork(k, s2, h2)
    BY <2>2 DEF Serves, TasksAtWork
  <2> QED  BY <1>3, <2>2, <2>3, <2>4 DEF Serving, Serves, s2
<1>8. k \in Kernels
  BY DEF Stable, Consistent
<1> QED
  BY <1>2, <1>4, <1>6, <1>7, <1>8

\* What a job of one or two entries is
LEMMA ShortJobs ==
  ASSUME NEW e \in Entries, NEW f \in Entries, NEW g \in Entries, NEW i \in Entries
  PROVE  /\ << >> \in Seq(Entries) /\ Len(<< >>) = 0
         /\ <<e>> \in Seq(Entries) /\ Len(<<e>>) = 1 /\ <<e>>[1] = e
         /\ <<e, f>> \in Seq(Entries) /\ Len(<<e, f>>) = 2
         /\ <<e, f>>[1] = e /\ <<e, f>>[2] = f
         /\ <<e, f, g, i>> \in Seq(Entries) /\ Len(<<e, f, g, i>>) = 4
         /\ <<e, f, g, i>>[1] = e /\ <<e, f, g, i>>[2] = f
         /\ <<e, f, g, i>>[3] = g /\ <<e, f, g, i>>[4] = i
OBVIOUS

\* The requests of MM are entries of scripts.
LEMMA MMEntries ==
  ASSUME Closed, NEW u \in Users, NEW c \in Users
  PROVE  /\ Request(FS, <<"EXIT", u>>) \in Entries
         /\ Request(SYSTASK, <<"SYS_XIT", u>>) \in Entries
         /\ Request(SYSTASK, <<"SYS_ENDSIG", u>>) \in Entries
         /\ Request(SYSTASK, <<"SYS_EXEC", u>>) \in Entries
         /\ Request(SYSTASK, <<"SYS_FORK", u, c>>) \in Entries
         /\ Request(SYSTASK, <<"SYS_NEWMAP", c>>) \in Entries
         /\ Request(CLOCK, <<"SET_ALARM", u>>) \in Entries
         /\ Answer(u) \in Entries /\ Answer(c) \in Entries
<1>1. SYSTASK \in Programs /\ CLOCK \in Programs /\ FS \in Programs /\ u \in Procs /\ c \in Procs
  BY ProgramKinds
<1>2. Said \subseteq Texts
  BY DEF Closed
<1>3. /\ <<"EXIT", u>> \in Said /\ <<"SYS_XIT", u>> \in Said /\ <<"SYS_ENDSIG", u>> \in Said
      /\ <<"SYS_EXEC", u>> \in Said /\ <<"SYS_NEWMAP", c>> \in Said
      /\ <<"SET_ALARM", u>> \in Said
  BY DEF Said
<1>4. <<"SYS_FORK", u, c>> \in Said
  BY DEF Said
<1>5. \A d \in Programs : \A body \in Said : Request(d, body) \in Entries
  BY <1>2 DEF Entries
<1>6. \A p \in Procs : Answer(p) \in Entries
  BY DEF Entries
<1> QED
  BY <1>1, <1>3, <1>4, <1>5, <1>6

\* exit, and the signals that u does not survive
LEMMA DeathServes ==
  ASSUME Closed, NEW k, k \in Kernels, NEW u \in Users, u \notin k.empty, Stopped(k, u),
         NEW n \in 0..Cardinality(Signals), Told(k, u, n), NEW h,
         ~ HeardFrom(k, h, FS, MM), ~ Sending(k, MM)
  PROVE  LET job == Death(u) \o [i \in 1..n |-> Request(SYSTASK, <<"SYS_ENDSIG", u>>)]
         IN  job \in Seq(Entries) /\ MMJob(k, h, job)
<1> DEFINE e == Request(SYSTASK, <<"SYS_ENDSIG", u>>)
           x == Request(SYSTASK, <<"SYS_XIT", u>>)
           f == Request(FS, <<"EXIT", u>>)
           q == [i \in 1..n |-> e]
           d == Death(u)
           job == d \o q
<1>1. e \in Entries /\ x \in Entries /\ f \in Entries
  BY MMEntries
<1>2. d = <<f, x>>
  BY DEF Death
<1>3. Cardinality(Signals) \in Nat
  BY KernelAssumption, FS_CardinalityType
<1> HIDE DEF e, x, f
<1>4. n \in Nat /\ n <= Cardinality(Signals)
  BY <1>3
<1>5. q \in Seq(Entries) /\ Len(q) = n
  BY <1>1, <1>4
<1>6. d \in Seq(Entries) /\ Len(d) = 2 /\ d[1] = f /\ d[2] = x
  BY <1>1, <1>2
<1> HIDE DEF d, q
<1>7. /\ job \in Seq(Entries) /\ Len(job) = 2 + n
      /\ \A i \in 1..(2 + n) : job[i] = IF i <= 2 THEN d[i] ELSE q[i - 2]
  <2>1. /\ job \in Seq(Entries) /\ Len(job) = Len(d) + Len(q)
        /\ \A i \in 1..Len(d) + Len(q) : job[i] = IF i <= Len(d) THEN d[i] ELSE q[i - Len(d)]
    BY <1>5, <1>6, ConcatProperties
  <2> QED  BY <1>5, <1>6, <2>1
<1> HIDE DEF job
<1>8. \A i \in 1..Len(job) : job[i] = IF i > 2 THEN e ELSE IF i = 2 THEN x ELSE f
  <2> SUFFICES ASSUME NEW i \in 1..(2 + n)
               PROVE  job[i] = IF i > 2 THEN e ELSE IF i = 2 THEN x ELSE f
    BY <1>7
  <2>1. CASE i > 2
    <3>1. i - 2 \in 1..n /\ ~ (i <= 2)
      BY <1>4, <2>1
    <3>2. q[i - 2] = e
      BY <3>1 DEF q
    <3> QED  BY <1>7, <2>1, <3>1, <3>2
  <2>2. CASE i = 2
    BY <1>6, <1>7, <2>2
  <2>3. CASE i = 1
    BY <1>6, <1>7, <2>3
  <2> QED  BY <1>4, <2>1, <2>2, <2>3
<1>9. SignalJob(k, h, job, u, 2)
  <2>1. 2 <= Len(job) /\ Len(job) - 2 = n
    BY <1>4, <1>7
  <2>2. Len(job) - 2 <= Cardinality(Signals) /\ Told(k, u, Len(job) - 2)
    BY <1>4, <2>1
  <2> QED  BY <1>8, <2>1, <2>2 DEF SignalJob, e, x, f
<1>10. MMJob(k, h, job)
  <2>1. 2 \in 0..2
    OBVIOUS
  <2> QED  BY <1>9, <2>1 DEF MMJob
<1> QED
  BY <1>7, <1>10 DEF job, d, q, e

\* Signals that u handles
LEMMA HandledServes ==
  ASSUME Closed, NEW k, NEW u \in Users, NEW n \in 0..Cardinality(Signals),
         Told(k, u, n), NEW h
  PROVE  LET job == [i \in 1..n |-> Request(SYSTASK, <<"SYS_ENDSIG", u>>)]
         IN  job \in Seq(Entries) /\ MMJob(k, h, job)
<1> DEFINE e == Request(SYSTASK, <<"SYS_ENDSIG", u>>)
           job == [i \in 1..n |-> e]
<1>1. e \in Entries
  BY MMEntries
<1>2. Cardinality(Signals) \in Nat
  BY KernelAssumption, FS_CardinalityType
<1> HIDE DEF e
<1>3. n \in Nat /\ n <= Cardinality(Signals)
  BY <1>2
<1>4. job \in Seq(Entries) /\ Len(job) = n /\ \A i \in 1..n : job[i] = e
  BY <1>1, <1>3
<1> HIDE DEF job
<1>5. 0 <= Len(job) /\ Len(job) - 0 = n /\ \A i \in 1..Len(job) : i > 0
  BY <1>3, <1>4
<1>6. SignalJob(k, h, job, u, 0)
  <2>1. /\ 0 <= Len(job) /\ Len(job) - 0 <= Cardinality(Signals)
        /\ Told(k, u, Len(job) - 0)
    BY <1>3, <1>5
  <2>2. \A i \in 1..Len(job) : i > 0 /\ job[i] = e
    BY <1>4, <1>5
  <2>3. ~ (0 > 0)
    OBVIOUS
  <2> QED  BY <2>1, <2>2, <2>3 DEF SignalJob, e
<1>7. MMJob(k, h, job)
  <2>1. 0 \in 0..2
    OBVIOUS
  <2> QED  BY <1>6, <2>1 DEF MMJob
<1> QED
  BY <1>4, <1>7 DEF job, e

\* The calls of u other than exit
LEMMA CallServes ==
  ASSUME Closed, NEW k, NEW u \in Users, NoneTold(k), AwaitsAlive(k, u, MM),
         k.empty \subseteq Users, NEW h
  PROVE  /\ <<Answer(u)>> \in Seq(Entries) /\ MMJob(k, h, <<Answer(u)>>)
         /\ LET job == <<Request(SYSTASK, <<"SYS_EXEC", u>>)>>
            IN  job \in Seq(Entries) /\ MMJob(k, h, job)
         /\ LET job == <<Request(CLOCK, <<"SET_ALARM", u>>), Answer(u)>>
            IN  job \in Seq(Entries) /\ MMJob(k, h, job)
         /\ \A c \in k.empty :
              LET job == <<Request(SYSTASK, <<"SYS_FORK", u, c>>),
                           Request(SYSTASK, <<"SYS_NEWMAP", c>>), Answer(c), Answer(u)>>
              IN  job \in Seq(Entries) /\ MMJob(k, h, job)
<1>1. ASSUME NEW job, CallJob(k, job, u)
      PROVE  MMJob(k, h, job)
  BY <1>1 DEF MMJob
<1>2. <<Answer(u)>> \in Seq(Entries) /\ MMJob(k, h, <<Answer(u)>>)
  <2> DEFINE e == Answer(u)
             job == <<e>>
  <2>1. e \in Entries
    BY MMEntries
  <2> HIDE DEF e
  <2>2. job \in Seq(Entries) /\ Len(job) = 1 /\ job[1] = e
    BY <2>1
  <2> HIDE DEF job
  <2>3. CallJob(k, job, u)
    BY <2>2 DEF CallJob, e
  <2> QED  BY <1>1, <2>2, <2>3 DEF job, e
<1>3. LET job == <<Request(SYSTASK, <<"SYS_EXEC", u>>)>>
      IN  job \in Seq(Entries) /\ MMJob(k, h, job)
  <2> DEFINE e == Request(SYSTASK, <<"SYS_EXEC", u>>)
             job == <<e>>
  <2>1. e \in Entries
    BY MMEntries
  <2> HIDE DEF e
  <2>2. job \in Seq(Entries) /\ Len(job) = 1 /\ job[1] = e
    BY <2>1
  <2> HIDE DEF job
  <2>3. CallJob(k, job, u)
    BY <2>2 DEF CallJob, e
  <2> QED  BY <1>1, <2>2, <2>3 DEF job, e
<1>4. LET job == <<Request(CLOCK, <<"SET_ALARM", u>>), Answer(u)>>
      IN  job \in Seq(Entries) /\ MMJob(k, h, job)
  <2> DEFINE e == Request(CLOCK, <<"SET_ALARM", u>>)
             f == Answer(u)
             job == <<e, f>>
  <2>1. e \in Entries /\ f \in Entries
    BY MMEntries
  <2> HIDE DEF e, f
  <2>2. job \in Seq(Entries) /\ Len(job) = 2 /\ job[1] = e /\ job[2] = f
    BY <2>1
  <2> HIDE DEF job
  <2>3. CallJob(k, job, u)
    BY <2>2 DEF CallJob, e, f
  <2> QED  BY <1>1, <2>2, <2>3 DEF job, e, f
<1>5. ASSUME NEW c \in k.empty
      PROVE  LET job == <<Request(SYSTASK, <<"SYS_FORK", u, c>>),
                          Request(SYSTASK, <<"SYS_NEWMAP", c>>), Answer(c), Answer(u)>>
             IN  job \in Seq(Entries) /\ MMJob(k, h, job)
  <2> DEFINE e1 == Request(SYSTASK, <<"SYS_FORK", u, c>>)
             e2 == Request(SYSTASK, <<"SYS_NEWMAP", c>>)
             e3 == Answer(c)
             e4 == Answer(u)
             job == <<e1, e2, e3, e4>>
  <2>1. c \in Users /\ c # u
    BY DEF AwaitsAlive
  <2>2. e1 \in Entries /\ e2 \in Entries /\ e3 \in Entries /\ e4 \in Entries
    BY <2>1, MMEntries
  <2> HIDE DEF e1, e2, e3, e4
  <2>3. /\ job \in Seq(Entries) /\ Len(job) = 4
        /\ job[1] = e1 /\ job[2] = e2 /\ job[3] = e3 /\ job[4] = e4
    BY <2>2
  <2> HIDE DEF job
  <2>4. ForkJob(k, job, u, c)
    BY <2>3 DEF ForkJob, e1, e2, e3, e4
  <2>5. MMJob(k, h, job)
    BY <2>1, <2>4 DEF MMJob
  <2> QED  BY <2>3, <2>5 DEF job, e1, e2, e3, e4
<1> QED
  BY <1>2, <1>3, <1>4, <1>5

\* MM reads its message.
LEMMA MMServerServes ==
  ASSUME Closed, Stable(kernel), Serves(kernel, script, hears, alarm),
         Runs(MM), MM \in hears, MMServer
  PROVE  Serves(kernel, script', hears', alarm)
<1> DEFINE h2 == hears \ {MM}
           message == kernel.messbuf[MM]
<1>1. /\ MMMessage(kernel) /\ kernel \in Kernels /\ ~ Sending(kernel, MM)
      /\ ~ HeardFrom(kernel, h2, FS, MM)
      /\ \A job \in Seq(Entries) : MMJob(kernel, h2, job) =>
           Serves(kernel, [script EXCEPT ![MM] = job], h2, alarm)
  <2>1. kernel.proc_ptr = MM
    BY DEF Runs
  <2> QED  BY <2>1, MMStarts
<1>2. ASSUME NEW job \in Seq(Entries), MMJob(kernel, h2, job), Starts(MM, job)
      PROVE  Serves(kernel, script', hears', alarm)
  BY <1>1, <1>2 DEF Starts
<1>3. kernel.empty \subseteq Users
  BY <1>1 DEF Kernels
<1>4. ASSUME NEW u \in Users, message.source = u, <<MM, message.body>> \in UserCalls,
             AwaitsAlive(kernel, u, MM), NoneTold(kernel)
      PROVE  Serves(kernel, script', hears', alarm)
  <2>1. message.body \in {<<"fork">>, <<"exit">>, <<"exec">>, <<"alarm">>}
    <3>1. MM # FS
      BY ProgramKinds
    <3> QED  BY <1>4, <3>1 DEF UserCalls
  <2>2. MMServer
    OBVIOUS
  <2>3. CASE message.body = <<"fork">>
    <3>1. Starts(MM, Forked(u))
      BY <1>4, <2>2, <2>3 DEF MMServer, Received
    <3>2. CASE kernel.empty = {}
      BY <1>2, <1>3, <1>4, <3>1, <3>2, CallServes DEF Forked
    <3>3. CASE kernel.empty # {}
      <4>1. Min(kernel.empty) \in kernel.empty
        <5>1. kernel.empty \in SUBSET Nat
          BY <1>3, KernelAssumption
        <5>2. \E m \in kernel.empty : \A n \in kernel.empty : m <= n
          BY <3>3, <5>1, FirstPosition
        <5> QED  BY <5>2 DEF Min
      <4> DEFINE c == Min(kernel.empty)
                 job == <<Request(SYSTASK, <<"SYS_FORK", u, c>>),
                          Request(SYSTASK, <<"SYS_NEWMAP", c>>), Answer(c), Answer(u)>>
      <4>2. Starts(MM, job)
        BY <3>1, <3>3 DEF Forked
      <4>3. job \in Seq(Entries) /\ MMJob(kernel, h2, job)
        <5> HIDE DEF c
        <5> QED  BY <1>3, <1>4, <4>1, CallServes DEF c
      <4> HIDE DEF job
      <4> QED  BY <1>2, <4>2, <4>3
    <3> QED  BY <3>2, <3>3
  <2>4. CASE message.body = <<"exit">>
    <3> DEFINE q == [i \in 1..0 |-> Request(SYSTASK, <<"SYS_ENDSIG", u>>)]
    <3>1. Starts(MM, Death(u))
      BY <1>4, <2>2, <2>4 DEF MMServer, Received
    <3>2. Told(kernel, u, 0)
      BY <1>4 DEF NoneTold, Told
    <3>3. 0 \in 0..Cardinality(Signals)
      BY KernelAssumption, FS_CardinalityType
    <3>4. u \notin kernel.empty /\ Stopped(kernel, u)
      BY <1>4 DEF AwaitsAlive, Stopped
    <3>5. Death(u) \o q \in Seq(Entries) /\ MMJob(kernel, h2, Death(u) \o q)
      BY <1>1, <3>2, <3>3, <3>4, DeathServes
    <3>6. Death(u) \o q = Death(u)
      BY DEF Death
    <3> QED  BY <1>2, <3>1, <3>5, <3>6
  <2>5. CASE message.body = <<"exec">>
    <3>1. Starts(MM, <<Request(SYSTASK, <<"SYS_EXEC", u>>)>>)
      BY <1>4, <2>2, <2>5 DEF MMServer, Received
    <3> QED  BY <1>2, <1>3, <1>4, <3>1, CallServes
  <2>6. CASE message.body = <<"alarm">>
    <3>1. Starts(MM, <<Request(CLOCK, <<"SET_ALARM", u>>), Answer(u)>>)
      BY <1>4, <2>2, <2>6 DEF MMServer, Received
    <3> QED  BY <1>2, <1>3, <1>4, <3>1, CallServes
  <2> QED  BY <2>1, <2>3, <2>4, <2>5, <2>6
<1>5. ASSUME NEW u \in Users, u \notin kernel.empty, NEW sigs \in SUBSET Signals,
             message.body = <<"KSIG", u, sigs>>,
             "SIG_PENDING" \in kernel.flags[u], Told(kernel, u, Cardinality(sigs))
      PROVE  Serves(kernel, script', hears', alarm)
  <2> DEFINE n == Cardinality(sigs)
             q == [i \in 1..n |-> Request(SYSTASK, <<"SYS_ENDSIG", u>>)]
  <2>1. n \in 0..Cardinality(Signals)
    <3>1. IsFiniteSet(Signals)
      BY KernelAssumption
    <3>2. n <= Cardinality(Signals) /\ IsFiniteSet(sigs)
      BY <3>1, FS_Subset
    <3> QED  BY <3>1, <3>2, FS_CardinalityType
  <2>2. PICK dies \in BOOLEAN : Starts(MM, Signalled(u, sigs, dies))
    BY <1>5 DEF MMServer, Received
  <2>3. CASE dies
    <3>1. Signalled(u, sigs, dies) = Death(u) \o q
      BY <1>5, <2>3 DEF Signalled
    <3>2. Stopped(kernel, u)
      BY <1>5 DEF Stopped
    <3>3. Death(u) \o q \in Seq(Entries) /\ MMJob(kernel, h2, Death(u) \o q)
      <4> HIDE DEF n
      <4> QED  BY <1>1, <1>5, <2>1, <3>2, DeathServes DEF n
    <3> QED  BY <1>2, <2>2, <3>1, <3>3
  <2>4. CASE ~ dies
    <3>1. q \in Seq(Entries) /\ MMJob(kernel, h2, q)
      BY <1>5, <2>1, HandledServes
    <3>2. Signalled(u, sigs, dies) = << >> \o q
      BY <1>5, <2>4 DEF Signalled
    <3> HIDE DEF q
    <3>3. << >> \o q = q
      BY <3>1, ConcatEmptySeq
    <3> QED  BY <1>2, <2>2, <3>1, <3>2, <3>3
  <2> QED  BY <2>3, <2>4
<1> QED
  BY <1>1, <1>4, <1>5 DEF MMMessage

-----------------------------------------------------------------------------
(* The messages to FS *)

\* FS begins with a job of its own, which tells MM from a user process.
LEMMA FSStarts ==
  ASSUME Closed, NEW k, Stable(k), NEW s, NEW h, NEW a, Serves(k, s, h, a),
         k.proc_ptr = FS, FS \in h, NEW job \in Seq(Entries), job # << >>,
         job[Len(job)] = Answer(k.messbuf[FS].source),
         LET s2 == [s EXCEPT ![FS] = job]
         IN  JobBegun(k, s, h, a, FS, job, s2, h \ {FS}) =>
               FSJob(k, h \ {FS}, job) /\ MMServes(k, s2, h \ {FS})
  PROVE  Serves(k, [s EXCEPT ![FS] = job], h \ {FS}, a)
<1> DEFINE h2 == h \ {FS}
           s2 == [s EXCEPT ![FS] = job]
<1>1. /\ SYSTASK \in Programs /\ CLOCK \in Programs /\ DISK \in Programs
      /\ MM \in Programs /\ FS \in Programs /\ MM \in Servers /\ FS \in Servers
      /\ FS # SYSTASK /\ FS # DISK /\ CLOCK # FS /\ MM # FS
      /\ FS \notin Tasks /\ FS \in Procs
  BY ProgramKinds
<1>2. ~ Receiving(k, FS) /\ ~ Sending(k, FS)
  BY <1>1, WhoRuns
<1>3. Serving(k, s, h, a) /\ Heard(k, h, FS)
  BY <1>2 DEF Serves, Heard
<1>4. JobBegun(k, s, h, a, FS, job, s2, h2)
  BY <1>1, <1>3, JobStarts
<1>5. FSJob(k, h2, job) /\ MMServes(k, s2, h2)
  BY <1>4
<1>6. \A v \in Users : Awaits(k, v, FS) => job[Len(job)] = Answer(v)
  <2> SUFFICES ASSUME NEW v \in Users, Awaits(k, v, FS)
               PROVE  k.messbuf[FS].source = v
    OBVIOUS
  <2>1. FSKnows(k, s, h) /\ LoopsKept(k, s, h)
    BY <1>3 DEF Serving, FSServes
  <2>2. s[FS] = << >> /\ ~ Undone(k, h, FS)
    BY <1>1, <1>3, <2>1 DEF LoopsKept, Heard, Undone
  <2>3. Todo(k, s, h, FS) = << >>
    BY <2>2 DEF Todo
  <2>4. HeardFrom(k, h, FS, v)
    BY <2>1, <2>3 DEF FSKnows
  <2> QED  BY <2>4 DEF HeardFrom
<1> HIDE DEF s2, h2
<1>7. /\ s2 \in [Programs -> Seq(Entries)] /\ h2 \subseteq Programs
      /\ s2[SYSTASK] = s[SYSTASK] /\ s2[CLOCK] = s[CLOCK]
      /\ LoopsKept(k, s2, h2) /\ RequestsHeld(k, h2)
      /\ SysTaskServes(k, s2, h2) /\ DiskServes(k, s2, h2) /\ ClockServes(k, s2, h2, a)
      /\ Heard(k, h2, SYSTASK) <=> Heard(k, h, SYSTASK)
      /\ ~ Heard(k, h2, FS)
      /\ Todo(k, s2, h2, FS) = job
  BY <1>1, <1>4 DEF JobBegun
<1>8. FSServes(k, s2, h2)
  <2>1. FSKnows(k, s2, h2)
    BY <1>6, <1>7 DEF FSKnows
  <2> QED  BY <1>5, <1>7, <2>1 DEF FSServes
<1>9. TasksAtWork(k, s2, h2)
  BY <1>7 DEF Serves, TasksAtWork
<1> QED
  BY <1>3, <1>5, <1>7, <1>8, <1>9 DEF Serving, Serves, s2, h2

\* The call of MM is EXIT, of a process that FS does not know and will not.
LEMMA ExitCall ==
  ASSUME Closed, NEW k, NEW s, NEW h, NEW a, Serving(k, s, h, a), HeardFrom(k, h, FS, MM)
  PROVE  \E u \in Users :
           /\ k.messbuf[FS].body = <<"EXIT", u>>
           /\ \A g : SignalJob(k, g, s[MM], u, 1)
<1> DEFINE t == Todo(k, s, h, MM)
           q == s[MM]
           body == k.messbuf[FS].body
<1>1. MM # FS /\ MM \in Servers /\ FS \in Programs /\ SYSTASK # FS /\ CLOCK # FS
  BY ProgramKinds
<1>2. /\ t[1] = Request(FS, body) /\ Len(q) \in Nat
      /\ Len(t) = Len(q) + 1
      /\ \A i \in 1..Len(q) : t[i + 1] = q[i]
      /\ MMJob(k, h, t)
  <2>1. NextCall(k, s, h, FS, MM)
    BY <1>1, CallOf
  <2> QED  BY <2>1 DEF NextCall
<1> HIDE DEF t, q, body
<1>3. /\ \A e : \A b : e # FS => t[1] # Request(e, b)
      /\ \A e : t[1] # Answer(e)
      /\ \A b : t[1] = Request(FS, b) => body = b
  BY <1>2 DEF Request, Answer
<1>4. \E u \in Users, m \in 0..2 : SignalJob(k, h, t, u, m)
  <2>1. ASSUME NEW u \in Users PROVE ~ CallJob(k, t, u)
    BY <1>1, <1>3 DEF CallJob
  <2>2. ASSUME NEW u \in Users, NEW c \in Users PROVE ~ ForkJob(k, t, u, c)
    BY <1>1, <1>3 DEF ForkJob
  <2> QED  BY <1>2, <2>1, <2>2 DEF MMJob
<1>5. PICK u \in Users, m \in 0..2 : SignalJob(k, h, t, u, m)
  BY <1>4
<1>6. /\ m <= Len(t) /\ Len(t) - m <= Cardinality(Signals)
      /\ \A i \in 1..Len(t) :
           t[i] = IF i > m THEN Request(SYSTASK, <<"SYS_ENDSIG", u>>)
                  ELSE IF i = m THEN Request(SYSTASK, <<"SYS_XIT", u>>)
                  ELSE Request(FS, <<"EXIT", u>>)
      /\ Told(k, u, Len(t) - m)
      /\ m > 0 => u \notin k.empty /\ Stopped(k, u)
      /\ m = 2 => FarFromFS(k, u)
  BY <1>5 DEF SignalJob
<1>7. m = 2 /\ body = <<"EXIT", u>>
  <2>1. 1 \in 1..Len(t)
    BY <1>2
  <2>2. m # 0 /\ m # 1
    BY <1>1, <1>3, <1>6, <2>1
  <2>3. m = 2
    BY <2>2
  <2>4. t[1] = Request(FS, <<"EXIT", u>>)
    BY <1>6, <2>1, <2>3
  <2> QED  BY <1>3, <2>3, <2>4
<1>8. Len(t) - 2 = Len(q) - 1 /\ 1 <= Len(q)
  <2> DEFINE n == Len(q)
  <2>1. n \in Nat /\ Len(t) = n + 1 /\ 2 <= Len(t)
    BY <1>2, <1>6, <1>7
  <2> HIDE DEF n
  <2>2. Len(t) - 2 = n - 1 /\ 1 <= n
    BY <2>1
  <2> QED  BY <2>2 DEF n
<1>9. \A i \in 1..Len(q) :
        q[i] = IF i > 1 THEN Request(SYSTASK, <<"SYS_ENDSIG", u>>)
               ELSE IF i = 1 THEN Request(SYSTASK, <<"SYS_XIT", u>>)
               ELSE Request(FS, <<"EXIT", u>>)
  <2> SUFFICES ASSUME NEW i \in 1..Len(q)
               PROVE  q[i] = IF i > 1 THEN Request(SYSTASK, <<"SYS_ENDSIG", u>>)
                             ELSE Request(SYSTASK, <<"SYS_XIT", u>>)
    BY <1>2
  <2>1. t[i + 1] = q[i] /\ i + 1 \in 1..Len(t) /\ i + 1 >= 2
    BY <1>2
  <2>2. t[i + 1] = IF i + 1 > 2 THEN Request(SYSTASK, <<"SYS_ENDSIG", u>>)
                   ELSE IF i + 1 = 2 THEN Request(SYSTASK, <<"SYS_XIT", u>>)
                   ELSE Request(FS, <<"EXIT", u>>)
    BY <1>6, <1>7, <2>1
  <2> QED  BY <2>1, <2>2
<1>10. ASSUME NEW g PROVE SignalJob(k, g, q, u, 1)
  <2>1. /\ Len(q) - 1 <= Cardinality(Signals) /\ Told(k, u, Len(q) - 1)
        /\ u \notin k.empty /\ Stopped(k, u) /\ FarFromFS(k, u)
    BY <1>6, <1>7, <1>8
  <2>2. 1 # 2
    OBVIOUS
  <2> QED  BY <1>8, <1>9, <2>1, <2>2 DEF SignalJob
<1> QED
  BY <1>7, <1>10 DEF body, q

\* FS reads its message.
LEMMA FSServerServes ==
  ASSUME Closed, Stable(kernel), Serves(kernel, script, hears, alarm),
         Runs(FS), FS \in hears, FSServer
  PROVE  Serves(kernel, script', hears', alarm)
<1> DEFINE k == kernel
           s == script
           h2 == hears \ {FS}
           message == kernel.messbuf[FS]
<1>1. /\ SYSTASK \in Programs /\ DISK \in Programs
      /\ MM \in Programs /\ FS \in Programs /\ MM \in Servers /\ FS \in Servers
      /\ MM # FS /\ MM \notin Users /\ MM \in Procs
      /\ FS \notin Tasks /\ FS \in Procs /\ \A u \in Users : u \in Procs
  BY ProgramKinds
<1>2. kernel.proc_ptr = FS
  BY DEF Runs
<1>3. Serving(k, s, hears, alarm) /\ Heard(k, hears, FS) /\ FSMessage(k)
  <2>1. ~ Receiving(k, FS)
    BY <1>1, <1>2, WhoRuns
  <2>2. Serving(k, s, hears, alarm) /\ Heard(k, hears, FS)
    BY <2>1 DEF Serves, Heard
  <2> QED  BY <2>2 DEF Serving, FSServes
<1>4. ASSUME NEW job \in Seq(Entries), job # << >>, job[Len(job)] = Answer(message.source),
             ASSUME JobBegun(k, s, hears, alarm, FS, job, [s EXCEPT ![FS] = job], h2)
             PROVE  FSJob(k, h2, job) /\ MMServes(k, [s EXCEPT ![FS] = job], h2),
             Starts(FS, job)
      PROVE  Serves(kernel, script', hears', alarm)
  <2>1. Serves(k, [s EXCEPT ![FS] = job], h2, alarm)
    BY <1>2, <1>4, FSStarts
  <2> QED  BY <1>4, <2>1 DEF Starts
<1>5. CASE message.source = MM
  <2>1. HeardFrom(k, hears, FS, MM)
    BY <1>3, <1>5 DEF HeardFrom
  <2>2. PICK u \in Users : /\ message.body = <<"EXIT", u>>
                           /\ \A g : SignalJob(k, g, s[MM], u, 1)
    BY <1>3, <2>1, ExitCall
  <2> DEFINE e == Answer(MM)
             job == <<e>>
             s2 == [s EXCEPT ![FS] = job]
  <2>3. Starts(FS, job)
    BY <2>2 DEF FSServer, Received
  <2>4. job \in Seq(Entries) /\ job # << >> /\ Len(job) = 1 /\ job[1] = e
    <3>1. e \in Entries
      BY <1>1 DEF Entries
    <3> QED  BY <3>1
  <2> HIDE DEF job
  <2>5. ASSUME JobBegun(k, s, hears, alarm, FS, job, s2, h2)
        PROVE  FSJob(k, h2, job) /\ MMServes(k, s2, h2)
    <3> HIDE DEF s2, h2
    <3>1. Due(k, h2, MM, FS) /\ Todo(k, s2, h2, MM) = s[MM]
      BY <1>1, <2>1, <2>5 DEF JobBegun
    <3>2. ~ Heard(k, h2, MM)
      BY <3>1 DEF Due, Heard
    <3>3. MMJob(k, h2, s[MM])
      <4>1. 1 \in 0..2
        OBVIOUS
      <4> QED  BY <2>2, <4>1 DEF MMJob
    <3> QED  BY <2>4, <3>1, <3>2, <3>3 DEF FSJob, MMServes
  <2> QED  BY <1>4, <1>5, <2>3, <2>4, <2>5
<1>6. ASSUME NEW u \in Users, message.source = u, <<FS, message.body>> \in UserCalls,
             AwaitsAlive(k, u, FS)
      PROVE  Serves(kernel, script', hears', alarm)
  <2>1. ~ HeardFrom(k, hears, FS, MM)
    BY <1>1, <1>6 DEF HeardFrom
  <2>2. message.body \in {<<"read">>, <<"write">>}
    BY <1>1, <1>6 DEF UserCalls
  <2> DEFINE e == Answer(u)
  <2>3. ASSUME NEW c \in Entries, Starts(FS, <<c, e>>),
               c \in {Request(DISK, <<"read">>), Request(SYSTASK, <<"SYS_KILL", u>>)}
        PROVE  Serves(kernel, script', hears', alarm)
    <3> DEFINE job == <<c, e>>
               s2 == [s EXCEPT ![FS] = job]
    <3>1. e \in Entries
      BY <1>1 DEF Entries
    <3>2. job \in Seq(Entries) /\ job # << >> /\ Len(job) = 2 /\ job[1] = c /\ job[2] = e
      BY <2>3, <3>1
    <3> HIDE DEF job
    <3>3. ASSUME JobBegun(k, s, hears, alarm, FS, job, s2, h2)
          PROVE  FSJob(k, h2, job) /\ MMServes(k, s2, h2)
      <4> HIDE DEF s2, h2
      <4>1. MMServes(k, s2, h2)
        BY <1>1, <2>1, <3>3 DEF JobBegun
      <4>2. FSJob(k, h2, job)
        BY <1>6, <2>3, <3>2 DEF FSJob
      <4> QED  BY <4>1, <4>2
    <3>4. Starts(FS, job)
      BY <2>3 DEF job
    <3> QED  BY <1>4, <1>6, <3>2, <3>3, <3>4
  <2>4. Request(DISK, <<"read">>) \in Entries /\ Request(SYSTASK, <<"SYS_KILL", u>>) \in Entries
    <3>1. <<"read">> \in Texts
      BY DEF Closed, Said
    <3>2. <<"SYS_KILL", u>> \in Texts
      BY DEF Closed, Said
    <3> QED  BY <1>1, <3>1, <3>2 DEF Entries
  <2>5. CASE message.body = <<"read">>
    <3>1. Starts(FS, <<Request(DISK, <<"read">>), e>>)
      BY <1>6, <2>5 DEF FSServer, Received
    <3> QED  BY <2>3, <2>4, <3>1
  <2>6. CASE message.body = <<"write">>
    <3>1. Starts(FS, <<Request(SYSTASK, <<"SYS_KILL", u>>), e>>)
      BY <1>6, <2>6 DEF FSServer, Received
    <3> QED  BY <2>3, <2>4, <3>1
  <2> QED  BY <2>2, <2>5, <2>6
<1> QED
  BY <1>3, <1>5, <1>6 DEF FSMessage

-----------------------------------------------------------------------------
(* The steps of the programs *)

\* Whoever executes its script has an entry of its own to begin with.
LEMMA JobsOwn ==
  ASSUME Closed, NEW k, NEW s, NEW h, NEW a, Serving(k, s, h, a),
         NEW p \in Programs, p \notin h, ~ Receiving(k, p), s[p] # << >>
  PROVE  /\ s[p] \in Seq(Entries) /\ 1 \in 1..Len(s[p]) /\ Len(s[p]) # 0
         /\ p = MM => MMJob(k, h, s[MM])
         /\ p = FS => FSJob(k, h, s[FS])
<1>1. MM \in Programs /\ FS \in Programs /\ s \in [Programs -> Seq(Entries)]
  BY ProgramKinds DEF Serving
<1>2. ~ Undone(k, h, p) /\ ~ Heard(k, h, p)
  BY DEF Undone, Heard
<1>3. Todo(k, s, h, p) = s[p]
  BY <1>2 DEF Todo
<1>4. /\ p = MM => MMJob(k, h, s[MM])
      /\ p = FS => FSJob(k, h, s[FS])
  BY <1>2, <1>3 DEF Serving, MMServes, FSServes
<1>5. s[p] \in Seq(Entries)
  BY <1>1
<1>6. 1 \in 1..Len(s[p]) /\ Len(s[p]) # 0
  <2> DEFINE q == s[p]
  <2>1. q \in Seq(Entries) /\ q # << >>
    BY <1>5
  <2> HIDE DEF q
  <2>2. 1 \in 1..Len(q) /\ Len(q) # 0
    BY <2>1
  <2> QED  BY <2>2 DEF q
<1> QED
  BY <1>4, <1>5, <1>6

\* So do those of the tasks and of FS.
LEMMA TaskEntries ==
  ASSUME Closed, NEW k, NEW s, NEW h, NEW a, Serving(k, s, h, a),
         NEW p \in Programs \ {MM}, p \notin h, ~ Receiving(k, p), s[p] # << >>,
         s[p][1].do # "call"
  PROVE  \/ AnswerAwaited(k, p, s[p][1])
         \/ p = CLOCK /\ \E u, sig : s[p][1] = Cause(u, sig)
         \/ p = DISK /\ s[p][1] = AwaitInterrupt
<1>1. /\ Programs = {SYSTASK, CLOCK, DISK, MM, FS} /\ Servers = {MM, FS}
      /\ MM # FS /\ MM \in Procs /\ FS \in Procs /\ CLOCK # MM /\ DISK # FS /\ SYSTASK # MM
      /\ SYSTASK # FS /\ MM \notin Users /\ FS \notin Users /\ FS \in Programs
      /\ \A u \in Users : u \in Procs /\ u # FS
  BY ProgramKinds
<1>2. /\ 1 \in 1..Len(s[p]) /\ Len(s[p]) # 0
      /\ p = FS => FSJob(k, h, s[FS])
  BY JobsOwn
<1>3. CASE p = SYSTASK
  <2>1. \E d \in Servers : s[SYSTASK][1] = Answer(d) /\ Due(k, h, d, SYSTASK)
    BY <1>3 DEF Serving, SysTaskServes
  <2> QED  BY <1>1, <1>3, <2>1 DEF AnswerAwaited, Due
<1>4. CASE p = CLOCK
  <2>1. \/ s[CLOCK][1] = Answer(MM) /\ Due(k, h, MM, CLOCK)
        \/ \E u \in Users : s[CLOCK][1] = Cause(u, SIGALRM)
    BY <1>2, <1>4 DEF Serving, ClockServes
  <2> QED  BY <1>1, <1>4, <2>1 DEF AnswerAwaited, Due
<1>5. CASE p = DISK
  <2>1. /\ s[DISK][1] = AwaitInterrupt \/ s[DISK][1] = Answer(FS)
        /\ Due(k, h, FS, DISK)
    BY <1>5 DEF Serving, DiskServes
  <2> QED  BY <1>1, <1>5, <2>1 DEF AnswerAwaited, Due
<1>6. CASE p = FS
  <2>1. FSJob(k, h, s[FS])
    BY <1>2, <1>6
  <2>2. \A d : \A body : s[FS][1] # Request(d, body)
    BY <1>6 DEF Request
  <2>3. CASE s[FS][1] = Answer(MM) /\ Due(k, h, MM, FS)
    BY <1>1, <1>6, <2>3 DEF AnswerAwaited, Due
  <2>4. ASSUME NEW u \in Users, AwaitsAlive(k, u, FS), s[FS][1] = Answer(u)
        PROVE  AnswerAwaited(k, FS, s[FS][1])
    BY <1>1, <2>4 DEF AnswerAwaited, AwaitsAlive
  <2>5. s[FS] # << >>
    BY <1>6
  <2> QED  BY <1>6, <2>1, <2>2, <2>3, <2>4, <2>5 DEF FSJob
<1> QED
  BY <1>1, <1>3, <1>4, <1>5, <1>6

\* And those of MM.
LEMMA MMAnswers ==
  ASSUME Closed, NEW k, NEW s, NEW h, NEW a, Serving(k, s, h, a),
         MM \notin h, ~ Receiving(k, MM), s[MM] # << >>, s[MM][1].do # "call"
  PROVE  AnswerAwaited(k, MM, s[MM][1])
<1>1. MM \in Programs /\ \A u \in Users : u \in Procs /\ u # MM
  BY ProgramKinds
<1> DEFINE t == s[MM]
<1>2. 1 \in 1..Len(t) /\ MMJob(k, h, t)
  BY <1>1, JobsOwn
<1>3. \A d : \A body : t[1] # Request(d, body)
  BY DEF Request
<1> HIDE DEF t
<1>4. ASSUME NEW u \in Users, AwaitsAlive(k, u, MM), t[1] = Answer(u)
      PROVE  AnswerAwaited(k, MM, t[1])
  BY <1>1, <1>4 DEF AnswerAwaited, AwaitsAlive
<1>5. ASSUME NEW u \in Users, NEW m \in 0..2, SignalJob(k, h, t, u, m)
      PROVE  FALSE
  BY <1>2, <1>3, <1>5 DEF SignalJob
<1>6. ASSUME NEW u \in Users, AwaitsAlive(k, u, MM), CallJob(k, t, u)
      PROVE  AnswerAwaited(k, MM, t[1])
  BY <1>3, <1>4, <1>6 DEF CallJob
<1>7. ASSUME NEW u \in Users, NEW c \in Users \ {u}, ForkJob(k, t, u, c)
      PROVE  AnswerAwaited(k, MM, t[1])
  BY <1>3, <1>4, <1>7 DEF ForkJob
<1>8. AnswerAwaited(k, MM, t[1])
  BY <1>2, <1>5, <1>6, <1>7, Zenon DEF MMJob
<1> QED
  BY <1>8 DEF t

\* Who runs and has something to do
LEMMA Busy ==
  ASSUME Closed, Served, NEW p \in Programs, Runs(p), script[p] # << >>
  PROVE  /\ Serving(kernel, script, hears, alarm) /\ p \notin hears
         /\ ~ Receiving(kernel, p) /\ kernel.proc_ptr = p /\ Stable(kernel)
         /\ script[p] \in Seq(Entries) /\ Head(script[p]) = script[p][1]
         /\ script[p][1] \in Entries
         /\ p \in Procs /\ p \notin Users
<1>1. p \in Procs /\ kernel.proc_ptr = p /\ Stable(kernel) /\ p \notin Users
  BY ProgramKinds DEF Runs, Served, IInv
<1>2. Serving(kernel, script, hears, alarm) /\ Serves(kernel, script, hears, alarm)
  BY DEF Served, Serves
<1>3. ~ Receiving(kernel, p)
  BY <1>1, <1>2, WhoRuns
<1>4. p \notin hears /\ script[p] \in Seq(Entries)
  BY <1>2 DEF Serving, LoopsKept
<1>5. Head(script[p]) = script[p][1] /\ script[p][1] \in Entries
  <2> DEFINE q == script[p]
  <2>1. q \in Seq(Entries) /\ q # << >>
    BY <1>4
  <2> HIDE DEF q
  <2>2. Head(q) = q[1] /\ q[1] \in Entries
    BY <2>1, HeadAndTail
  <2> QED  BY <2>2 DEF q
<1> QED
  BY <1>1, <1>2, <1>3, <1>4, <1>5

\* A program that writes a text still serves.
LEMMA WrittenServes ==
  ASSUME Closed, Served, NEW p \in Procs, Runs(p), p \notin hears, NEW text \in Texts
  PROVE  LET w == Writes(p, text)
         IN  /\ Stable(w) /\ Serves(w, script, hears, alarm)
             /\ w.proc_ptr = p /\ w.messbuf[p].body = text
             /\ w.flags = kernel.flags /\ w.getfrom = kernel.getfrom /\ w.empty = kernel.empty
<1> DEFINE w == Writes(p, text)
<1>1. IInv /\ Stable(kernel) /\ Serves(kernel, script, hears, alarm) /\ kernel.proc_ptr = p
  BY DEF Served, IInv, Runs
<1>2. kernel \in Kernels
  BY <1>1 DEF Stable, Consistent
<1>3. Stable(w) /\ w.proc_ptr = kernel.proc_ptr
  BY <1>1, WritesKeeps
<1>4. SameButBuffer(kernel, w, p) /\ w.messbuf[p].body = text
  <2> DEFINE m == [kernel.messbuf EXCEPT ![p].body = text]
  <2>1. w = [kernel EXCEPT !.messbuf = m] /\ kernel.messbuf \in [Procs -> Messages]
    BY <1>2 DEF Writes, Kernels
  <2>2. m[p].body = text /\ \A q \in Procs \ {p} : m[q] = kernel.messbuf[q]
    BY <2>1 DEF Messages
  <2>3. w.messbuf = m
    BY <1>2, <2>1 DEF Kernels
  <2>4. /\ w.flags = kernel.flags /\ w.getfrom = kernel.getfrom /\ w.callerq = kernel.callerq
        /\ w.intBlocked = kernel.intBlocked /\ w.proc_ptr = kernel.proc_ptr
        /\ w.empty = kernel.empty /\ w.pending = kernel.pending
        /\ w.pendcount = kernel.pendcount
    BY <1>2 DEF Writes, Kernels
  <2> QED  BY <2>2, <2>3, <2>4 DEF SameButBuffer, SameSignals
<1> HIDE DEF w
<1>5. Serves(w, script, hears, alarm)
  BY <1>1, <1>4, WritingServes
<1> QED
  BY <1>1, <1>3, <1>4, <1>5 DEF w, SameButBuffer, SameSignals

\* No more signals are left to finish than a program may count.
LEMMA PendBound ==
  ASSUME Closed, NEW k, Stable(k), NEW s, NEW h, NEW a, Serving(k, s, h, a),
         NEW v \in Users, v \notin k.empty, NEW sig \in Signals, sig \notin k.pending[v]
  PROVE  k.pendcount[v] < MaxPend
<1> DEFINE N == Cardinality(Signals)
           c == Cardinality(k.pending[v])
<1>1. IsFiniteSet(Signals) /\ N \in Nat
  BY KernelAssumption, FS_CardinalityType
<1>2. k.pending[v] \subseteq Signals /\ k.pending[v] # Signals /\ k.pendcount[v] \in Nat
  BY DEF Stable, Consistent, Kernels
<1>3. c < N /\ c \in Nat
  BY <1>1, <1>2, FS_Subset, FS_CardinalityType
<1>4. \E n \in 0..N : Knows(k, v, n)
  <2>1. 0 \in 0..N
    BY <1>1
  <2>2. NoneTold(k) => Knows(k, v, 0)
    BY DEF NoneTold
  <2>3. ASSUME NEW u \in Users, NEW n \in 0..N, Told(k, u, n)
        PROVE  \E i \in 0..N : Knows(k, v, i)
    BY <2>1, <2>3, Zenon DEF Told
  <2>4. CASE Heard(k, h, MM)
    <3>1. MMMessage(k)
      BY <2>4 DEF Serving, MMServes
    <3>2. ASSUME NEW u \in Users, NEW sigs \in SUBSET Signals, Told(k, u, Cardinality(sigs))
          PROVE  \E i \in 0..N : Knows(k, v, i)
      <4>1. Cardinality(sigs) \in 0..N
        <5>1. Cardinality(sigs) <= N /\ IsFiniteSet(sigs)
          BY <1>1, FS_Subset
        <5> QED  BY <1>1, <5>1, FS_CardinalityType
      <4> HIDE DEF N
      <4> QED  BY <2>3, <3>2, <4>1
    <3> QED  BY <2>1, <2>2, <3>1, <3>2 DEF MMMessage
  <2>5. CASE ~ Heard(k, h, MM)
    <3> DEFINE t == Todo(k, s, h, MM)
    <3>1. MMJob(k, h, t)
      BY <2>5 DEF Serving, MMServes
    <3>2. Len(t) \in Nat
      <4>1. MM \in Programs /\ s \in [Programs -> Seq(Entries)]
        BY ProgramKinds DEF Serving
      <4> QED  BY <4>1, TodoEntries
    <3> HIDE DEF t
    <3>3. ASSUME NEW u \in Users, NEW m \in 0..2, SignalJob(k, h, t, u, m)
          PROVE  \E i \in 0..N : Knows(k, v, i)
      <4>1. /\ m <= Len(t) /\ Len(t) - m <= N
            /\ Told(k, u, Len(t) - m)
        BY <3>3 DEF SignalJob
      <4>2. Len(t) - m \in 0..N
        BY <1>1, <3>2, <4>1
      <4> QED  BY <2>3, <4>1, <4>2
    <3> QED  BY <2>1, <2>2, <3>1, <3>3 DEF MMJob
  <2> QED  BY <2>4, <2>5
<1>5. PICK n \in 0..N : k.pendcount[v] = c + n
  BY <1>4 DEF Knows
<1>6. MaxPend = 2 * N
  BY DEF Closed
<1> HIDE DEF c, N
<1> QED
  BY <1>1, <1>3, <1>5, <1>6

\* The running process sends, and what Next says of it
LEMMA AnswerStep ==
  ASSUME Closed, Served, NEW p \in Programs, Proceed(p), Runs(p), script[p] # << >>,
         AnswerAwaited(kernel, p, script[p][1])
  PROVE  Served' /\ Next
<1>1. PICK d \in Procs : /\ script[p][1] = Answer(d) /\ d # p /\ Awaits(kernel, d, p)
                         /\ d \in Users => d \notin kernel.empty
  BY DEF AnswerAwaited
<1>2. /\ Serving(kernel, script, hears, alarm) /\ p \notin hears /\ Stable(kernel)
      /\ Head(script[p]) = script[p][1] /\ p \in Procs /\ p \notin Users
  BY Busy
<1> DEFINE w == Writes(p, <<"OK">>)
           s2 == [script EXCEPT ![p] = Tail(@)]
<1>3. <<"OK">> \in Texts
  BY DEF Closed, Said
<1>4. /\ Stable(w) /\ Serves(w, script, hears, alarm) /\ w.proc_ptr = p
      /\ w.flags = kernel.flags /\ w.getfrom = kernel.getfrom /\ w.empty = kernel.empty
  BY <1>2, <1>3, WrittenServes
<1>5. d \notin kernel.empty
  BY <1>1, <1>2 DEF Stable, Consistent, Kernels
<1>6. kernel' = MiniSend(w, p, d) /\ script' = s2 /\ hears' = hears /\ alarm' = alarm
  BY <1>1, <1>2 DEF Proceed, Answer
<1> HIDE DEF w
<1>7. Awaits(w, d, p)
  BY <1>1, <1>4 DEF Awaits, Receiving, Sending
<1>8. Stable(MiniSend(w, p, d)) /\ Serves(MiniSend(w, p, d), s2, hears, alarm)
  BY <1>1, <1>4, <1>5, <1>7, AnswerServes
<1>9. Served'
  BY <1>6, <1>8 DEF Served, IInv
<1>10. Next
  <2>1. Waits(kernel, d, p)
    BY <1>1 DEF Awaits, Waits, Receiving, Sending
  <2>2. <<p, d>> \in Calls
    BY <1>1, <1>2 DEF Closed
  <2>3. Send(p, d)
    BY <1>2, <1>3, <1>6, <2>1, <2>2 DEF Send, w
  <2> QED  BY <1>2, <2>3 DEF Next
<1> QED
  BY <1>9, <1>10

\* A server calls.
LEMMA CallStep ==
  ASSUME Closed, Served, NEW p \in Programs, Proceed(p), Runs(p), script[p] # << >>,
         script[p][1].do = "call"
  PROVE  Served' /\ Next
<1>1. /\ Serving(kernel, script, hears, alarm) /\ p \notin hears /\ Stable(kernel)
      /\ ~ Receiving(kernel, p)
      /\ Head(script[p]) = script[p][1] /\ p \in Procs /\ p \notin Users
      /\ kernel.proc_ptr = p
  BY Busy
<1>2. p \in Servers
  BY <1>1, CallsKnown
<1>3. PICK d \in CallsOf(p), body \in Said : script[p][1] = Request(d, body)
  BY <1>1, CallsKnown
<1> DEFINE w == Writes(p, body)
           s2 == [script EXCEPT ![p] = Tail(@)]
           r == SendRec(w, p, d)
<1>4. body \in Texts
  BY DEF Closed
<1>5. /\ Stable(w) /\ Serves(w, script, hears, alarm) /\ w.proc_ptr = p
      /\ w.messbuf[p].body = body
  BY <1>1, <1>4, WrittenServes
<1>6. kernel' = r /\ script' = s2 /\ hears' = hears /\ alarm' = alarm
  BY <1>1, <1>3 DEF Proceed, Request
<1> HIDE DEF w
<1>7. script[p][1] = Request(d, w.messbuf[p].body)
  BY <1>3, <1>5
<1>8. Stable(r) /\ Serves(r, s2, hears, alarm)
  BY <1>2, <1>5, <1>7, CallTakenServes, CallQueuedServes
<1>9. Served'
  BY <1>6, <1>8 DEF Served, IInv
<1>10. Next
  <2>1. d \in Programs /\ d # p
    BY <1>1, <1>2, CalledListens DEF Served
  <2>2. d \in Procs /\ d \notin Users
    BY <2>1, ProgramKinds
  <2>3. <<p, d>> \in Calls
    BY <1>1, <2>1, <2>2 DEF Closed
  <2>4. Both(p, d)
    BY <1>1, <1>4, <1>6, <2>2, <2>3 DEF Both, Runs, w
  <2> QED  BY <1>1, <2>2, <2>4 DEF Next
<1> QED
  BY <1>9, <1>10

\* The disk driver waits for its device.
LEMMA AwaitStep ==
  ASSUME Closed, Served, Proceed(DISK), Runs(DISK), script[DISK] # << >>,
         script[DISK][1] = AwaitInterrupt
  PROVE  Served' /\ Next
<1>1. DISK \in Programs /\ DISK \in Tasks /\ DISK \in Procs /\ DISK \notin Users
  BY ProgramKinds
<1>2. /\ Stable(kernel) /\ Head(script[DISK]) = script[DISK][1] /\ kernel.proc_ptr = DISK
  BY <1>1, Busy
<1> DEFINE s2 == [script EXCEPT ![DISK] = Tail(@)]
           r == MiniRec(kernel, DISK, HARDWARE)
<1>3. kernel' = r /\ script' = s2 /\ hears' = hears /\ alarm' = alarm
  BY <1>2 DEF Proceed, AwaitInterrupt
<1>4. Stable(r) /\ Serves(r, s2, hears, alarm)
  BY <1>2, AwaitServes DEF Served
<1>5. Served'
  BY <1>3, <1>4 DEF Served, IInv
<1>6. Next
  <2>1. Receive(DISK, HARDWARE)
    BY <1>1, <1>3 DEF Receive
  <2> QED  BY <1>1, <2>1 DEF Next
<1> QED
  BY <1>5, <1>6

\* A task causes a signal, or the process has it already.
LEMMA SignalStep ==
  ASSUME Closed, Served, NEW t \in Tasks, Runs(t),
         NEW u \in Users, u \notin kernel.empty, NEW sig \in Signals,
         kernel' = CauseSig(kernel, u, sig)
  PROVE  [Next]_kernel
<1>1. CASE sig \in kernel.pending[u]
  BY <1>1 DEF CauseSig
<1>2. CASE sig \notin kernel.pending[u]
  <2>1. Stable(kernel) /\ Serving(kernel, script, hears, alarm)
    BY DEF Served, IInv, Serves
  <2>2. kernel.pendcount[u] < MaxPend
    BY <1>2, <2>1, PendBound
  <2>3. Signal(t, u, sig)
    BY <2>2 DEF Signal
  <2> QED  BY <2>3 DEF Next
<1> QED
  BY <1>1, <1>2

\* The clock task raises an alarm.
LEMMA CauseStep ==
  ASSUME Closed, Served, Proceed(CLOCK), Runs(CLOCK), script[CLOCK] # << >>,
         NEW u, NEW sig, script[CLOCK][1] = Cause(u, sig)
  PROVE  Served' /\ [Next]_kernel
<1>1. CLOCK \in Programs /\ CLOCK \in Tasks
  BY ProgramKinds
<1>2. Stable(kernel) /\ Head(script[CLOCK]) = script[CLOCK][1] /\ kernel.proc_ptr = CLOCK
  BY <1>1, Busy
<1> DEFINE s2 == [script EXCEPT ![CLOCK] = Tail(@)]
           r == CauseSig(kernel, u, sig)
<1>3. kernel' = r /\ script' = s2 /\ hears' = hears /\ alarm' = alarm
  BY <1>2 DEF Proceed, Cause
<1>4. u \in Users \ kernel.empty /\ sig \in Signals /\ Stable(r) /\ Serves(r, s2, hears, alarm)
  BY <1>2, CauseServes DEF Served
<1>5. Served'
  BY <1>3, <1>4 DEF Served, IInv
<1>6. [Next]_kernel
  BY <1>1, <1>3, <1>4, SignalStep
<1> QED
  BY <1>5, <1>6

\* The next call of a script
LEMMA ProceedStep ==
  ASSUME Closed, Served, NEW p \in Programs, Proceed(p)
  PROVE  Served' /\ [Next]_kernel
<1>1. Runs(p) /\ script[p] # << >>
  BY DEF Proceed
<1>2. /\ Serving(kernel, script, hears, alarm) /\ p \notin hears /\ ~ Receiving(kernel, p)
  BY <1>1, Busy
<1>3. CASE script[p][1].do = "call"
  BY <1>1, <1>3, CallStep
<1>4. CASE AnswerAwaited(kernel, p, script[p][1])
  BY <1>1, <1>4, AnswerStep
<1>5. ASSUME p = CLOCK, NEW u, NEW sig, script[p][1] = Cause(u, sig)
      PROVE  Served' /\ [Next]_kernel
  BY <1>1, <1>5, CauseStep
<1>6. CASE p = DISK /\ script[p][1] = AwaitInterrupt
  BY <1>1, <1>6, AwaitStep
<1>7. CASE p = MM
  BY <1>1, <1>2, <1>3, <1>4, <1>7, MMAnswers
<1> QED
  BY <1>1, <1>2, <1>3, <1>4, <1>5, <1>6, <1>7, TaskEntries

\* The top of a main loop
LEMMA ListenStep ==
  ASSUME Closed, Served, NEW p \in Programs, Listen(p)
  PROVE  Served' /\ Next
<1>1. /\ Stable(kernel) /\ Serves(kernel, script, hears, alarm) /\ kernel.proc_ptr = p
      /\ script[p] = << >> /\ p \notin hears
  BY DEF Served, IInv, Listen, Runs
<1> DEFINE r == MiniRec(kernel, p, ANY)
<1>2. kernel' = r /\ script' = script /\ hears' = hears \cup {p} /\ alarm' = alarm
  BY DEF Listen
<1>3. Stable(r) /\ Serves(r, script, hears \cup {p}, alarm)
  BY <1>1, ListenServes
<1>4. Served'
  BY <1>2, <1>3 DEF Served, IInv
<1>5. Next
  <2>1. p \in Procs /\ p \notin Users
    BY ProgramKinds
  <2>2. Receive(p, ANY)
    BY <1>2, <2>1 DEF Receive, Listen
  <2> QED  BY <2>1, <2>2 DEF Next
<1> QED
  BY <1>4, <1>5

\* A user process calls a server.
LEMMA UserStep ==
  ASSUME Closed, Served, NEW u \in Users, User(u)
  PROVE  Served' /\ Next
<1>1. /\ u \in Procs /\ u \notin Programs /\ MM \in Servers /\ FS \in Servers
      /\ \A d \in Servers : d \in Programs /\ d \in Procs /\ d \notin Users
  BY ProgramKinds
<1>2. PICK call \in UserCalls : kernel' = SendRec(Writes(u, call[2]), u, call[1])
  BY DEF User
<1> DEFINE d == call[1]
           text == call[2]
           w == Writes(u, text)
           r == SendRec(w, u, d)
<1>3. d \in Servers /\ text \in Said /\ call = <<d, text>>
  BY <1>1 DEF UserCalls, Said
<1>4. text \in Texts
  BY <1>3 DEF Closed
<1>5. Runs(u) /\ u \notin hears
  BY <1>1 DEF User, Served, Serves, Serving
<1> HIDE DEF d, text
<1>6. /\ Stable(w) /\ Serves(w, script, hears, alarm) /\ w.proc_ptr = u
      /\ w.messbuf[u].body = text
  BY <1>1, <1>4, <1>5, WrittenServes
<1>7. kernel' = r /\ script' = script /\ hears' = hears /\ alarm' = alarm
  BY <1>2 DEF User, d, text
<1> HIDE DEF w
<1>8. <<d, w.messbuf[u].body>> \in UserCalls
  BY <1>3, <1>6
<1>9. Stable(r) /\ Serves(r, script, hears, alarm)
  BY <1>3, <1>6, <1>8, UserCallDelivered, UserCallQueued
<1>10. Served'
  BY <1>7, <1>9 DEF Served, IInv
<1>11. Next
  <2>1. <<u, d>> \in Calls
    BY <1>1, <1>3 DEF Closed
  <2>2. Both(u, d)
    BY <1>1, <1>3, <1>4, <1>5, <1>7, <2>1 DEF Both, w
  <2> QED  BY <1>1, <1>3, <2>2 DEF Next
<1> QED
  BY <1>10, <1>11

\* A device interrupts.
LEMMA DeviceStep ==
  ASSUME Closed, Served, Tick \/ DiskReady
  PROVE  Served' /\ Next
<1>1. PICK t \in {CLOCK, DISK} : kernel' = Interrupt(kernel, t)
  BY DEF Tick, DiskReady
<1>2. script' = script /\ hears' = hears /\ alarm' = alarm
  BY DEF Tick, DiskReady
<1> DEFINE r == Interrupt(kernel, t)
<1>3. Stable(r) /\ Serves(r, script, hears, alarm)
  BY InterruptServes DEF Served, IInv
<1>4. Served'
  BY <1>1, <1>2, <1>3 DEF Served, IInv
<1>5. Next
  <2>1. t \in Tasks
    BY ProgramKinds
  <2>2. Interrupted(t)
    BY <1>1, <2>1 DEF Interrupted
  <2> QED  BY <2>1, <2>2 DEF Next
<1> QED
  BY <1>4, <1>5

\* A program that only reads a message changes nothing of the kernel.
LEMMA ReadStep ==
  ASSUME Closed, Served, NEW p \in {CLOCK, DISK, MM, FS}, Runs(p), p \in hears,
         \/ p = CLOCK /\ ClockTask
         \/ p = DISK /\ DiskTask
         \/ p = MM /\ MMServer
         \/ p = FS /\ FSServer
  PROVE  Served' /\ kernel' = kernel
<1>1. kernel' = kernel
  BY DEF ClockTask, DiskTask, MMServer, FSServer
<1>2. Stable(kernel) /\ Serves(kernel, script, hears, alarm) /\ kernel.proc_ptr = p
  BY DEF Served, IInv, Runs
<1>3. CASE p = MM /\ MMServer
  <2>1. alarm' = alarm
    BY <1>3 DEF MMServer
  <2> QED  BY <1>1, <1>2, <1>3, <2>1, MMServerServes DEF Served, IInv
<1>4. CASE p = FS /\ FSServer
  <2>1. alarm' = alarm
    BY <1>4 DEF FSServer
  <2> QED  BY <1>1, <1>2, <1>4, <2>1, FSServerServes DEF Served, IInv
<1>5. CASE p = DISK /\ DiskTask
  <2> DEFINE job == <<AwaitInterrupt, Answer(kernel.messbuf[DISK].source)>>
  <2>1. /\ kernel.messbuf[DISK].source \in Servers
        /\ script' = [script EXCEPT ![DISK] = job] /\ hears' = hears \ {DISK}
        /\ alarm' = alarm
    BY <1>5 DEF DiskTask, Starts, Received
  <2>2. Serves(kernel, [script EXCEPT ![DISK] = job], hears \ {DISK}, alarm)
    BY <1>2, <1>5, <2>1, DiskStartServes
  <2> QED  BY <1>1, <1>2, <2>1, <2>2 DEF Served, IInv
<1>6. CASE p = CLOCK /\ ClockTask /\ kernel.messbuf[CLOCK].body # <<"HARD_INT">>
  <2> DEFINE b == alarm \cup {kernel.messbuf[CLOCK].body[2]}
             s2 == [script EXCEPT ![CLOCK] = <<Answer(MM)>>]
  <2>1. /\ kernel.messbuf[CLOCK].source = MM
        /\ Serves(kernel, s2, hears \ {CLOCK}, b)
    BY <1>2, <1>6, AlarmSetServes
  <2>2. script' = s2 /\ hears' = hears \ {CLOCK} /\ alarm' = b
    BY <1>6, <2>1 DEF ClockTask, Starts, Received
  <2> QED  BY <1>1, <1>2, <2>1, <2>2 DEF Served, IInv
<1>7. CASE p = CLOCK /\ ClockTask /\ kernel.messbuf[CLOCK].body = <<"HARD_INT">>
  <2>0. PICK due \in SUBSET alarm : \E order \in Orders(due) :
          /\ Starts(CLOCK, [i \in DOMAIN order |-> Cause(order[i], SIGALRM)])
          /\ alarm' = alarm \ due
    BY <1>7 DEF ClockTask, Received
  <2>1. PICK order \in Orders(due) :
          /\ Starts(CLOCK, [i \in DOMAIN order |-> Cause(order[i], SIGALRM)])
          /\ alarm' = alarm \ due
    BY <2>0
  <2> DEFINE job == [i \in DOMAIN order |-> Cause(order[i], SIGALRM)]
             s2 == [script EXCEPT ![CLOCK] = job]
  <2>2. alarm \subseteq Users
    BY DEF Served, Serves, Serving, ClockServes
  <2>3. Cardinality(due) \in Nat
    <3>1. IsFiniteSet(Procs) /\ due \subseteq Procs
      BY <2>2, KernelAssumption DEF Procs
    <3>2. IsFiniteSet(due)
      BY <3>1, FS_Subset
    <3> QED  BY <3>2, FS_CardinalityType
  <2>4. order \in [1..Cardinality(due) -> due]
    BY DEF Orders
  <2>5. \A u \in Users : Cause(u, SIGALRM) \in Entries
    BY DEF Closed, Entries
  <2>6. job \in Seq(Entries) /\ Len(job) = Cardinality(due)
    BY <2>2, <2>3, <2>4, <2>5
  <2>7. \A i \in 1..Len(job) : \E u \in alarm : job[i] = Cause(u, SIGALRM)
    BY <2>4, <2>6
  <2>8. script' = s2 /\ hears' = hears \ {CLOCK} /\ alarm' = alarm \ due
    BY <2>1 DEF Starts
  <2> HIDE DEF job
  <2>9. Serves(kernel, s2, hears \ {CLOCK}, alarm \ due)
    BY <1>2, <1>7, <2>6, <2>7, AlarmsServe
  <2> QED  BY <1>1, <1>2, <2>8, <2>9 DEF Served, IInv
<1> QED
  <2>1. CLOCK # DISK /\ CLOCK # MM /\ CLOCK # FS /\ DISK # MM /\ DISK # FS /\ MM # FS
    BY ProgramKinds
  <2> QED  BY <1>1, <1>3, <1>4, <1>5, <1>6, <1>7, <2>1

\* A signal keeps the sender of the request that the system task has.
LEMMA CauseSigKeepsSource ==
  ASSUME Closed, NEW k, Stable(k), NEW u \in Users, u \notin k.empty, NEW sig \in Signals
  PROVE  CauseSig(k, u, sig).messbuf[SYSTASK].source = k.messbuf[SYSTASK].source
<1> DEFINE r == CauseSig(k, u, sig)
<1>1. SYSTASK \in Procs /\ MM \in Procs /\ SYSTASK # MM
  <2>1. SYSTASK \in Programs /\ MM \in Programs /\ SYSTASK \in Tasks /\ MM \notin Tasks
    BY ProgramKinds
  <2> QED  BY <2>1, ProgramKinds
<1>2. CASE sig \in k.pending[u]
  BY <1>2 DEF CauseSig
<1>3. CASE sig \notin k.pending[u]
  <2>1. \/ NotesSignal(k, r, u, sig)
        \/ \E n \in Kernels, v \in Users : NotesSignal(k, n, u, sig) /\ TellsMM(n, r, v)
    BY <1>3, CauseSigNotes
  <2> HIDE DEF r
  <2>2. CASE NotesSignal(k, r, u, sig)
    BY <2>2 DEF NotesSignal, r
  <2>3. ASSUME NEW n \in Kernels, NEW v \in Users, NotesSignal(k, n, u, sig), TellsMM(n, r, v)
        PROVE  r.messbuf[SYSTASK].source = k.messbuf[SYSTASK].source
    <3>1. n.messbuf = k.messbuf
      BY <2>3 DEF NotesSignal
    <3>2. n.messbuf \in [Procs -> Messages]
      BY DEF Kernels
    <3>3. n.messbuf[SYSTASK] \in Messages
      BY <1>1, <3>2
    <3>4. r.messbuf[SYSTASK] = [n.messbuf[SYSTASK] EXCEPT !.body = <<"KSIG", v, n.pending[v]>>]
      BY <1>1, <2>3, <3>2 DEF TellsMM
    <3> QED  BY <3>1, <3>3, <3>4 DEF Messages
  <2> QED  BY <2>1, <2>2, <2>3 DEF r
<1> QED
  BY <1>2, <1>3

\* The system task carries out a request.
LEMMA SysTaskStep ==
  ASSUME Closed, Served, Runs(SYSTASK), SYSTASK \in hears, SysTask
  PROVE  Served' /\ [Next]_kernel
<1> DEFINE request == kernel.messbuf[SYSTASK].body
           h2 == hears \ {SYSTASK}
<1>1. Stable(kernel) /\ Serves(kernel, script, hears, alarm) /\ kernel.proc_ptr = SYSTASK
  BY DEF Served, IInv, Runs
<1>2. /\ kernel' = Handled(request)
      /\ script' = [script EXCEPT ![SYSTASK] = <<Answer(kernel'.messbuf[SYSTASK].source)>>]
      /\ hears' = h2
      /\ alarm' = CASE request[1] = "SYS_XIT" -> alarm \ {request[2]}
                    [] request[1] = "SYS_FORK" /\ request[2] \in alarm ->
                         alarm \cup {request[3]}
                    [] OTHER -> alarm
  BY DEF SysTask, Received, Starts
<1>3. SYSTASK \in Programs /\ SYSTASK \in Tasks
  BY ProgramKinds
<1>4. Serving(kernel, script, hears, alarm) /\ Heard(kernel, hears, SYSTASK)
  <2>1. ~ Receiving(kernel, SYSTASK)
    BY <1>1, <1>3, WhoRuns, ProgramKinds
  <2> QED  BY <1>1, <2>1 DEF Serves, Heard
<1>5. ASSUME NEW p, kernel'.messbuf[SYSTASK].source = p, Stable(kernel'),
             Serves(kernel', [script EXCEPT ![SYSTASK] = <<Answer(p)>>], h2, alarm')
      PROVE  Served'
  BY <1>2, <1>5 DEF Served, IInv
<1>6. CASE kernel.messbuf[SYSTASK].source = FS
  <2>1. PICK u \in Users : request = <<"SYS_KILL", u>>
    <3>1. MM # FS
      BY ProgramKinds
    <3> QED  BY <1>4, <1>6, <3>1, SysRequests
  <2>2. kernel' = CauseSig(kernel, u, SIGPIPE) /\ alarm' = alarm
    BY <1>2, <2>1 DEF Handled
  <2> DEFINE r == CauseSig(kernel, u, SIGPIPE)
  <2>3. /\ u \notin kernel.empty /\ SIGPIPE \in Signals /\ Stable(r)
        /\ Serves(r, [script EXCEPT ![SYSTASK] = <<Answer(FS)>>], h2, alarm)
    BY <1>1, <1>6, <2>1, KillServes
  <2>4. r.messbuf[SYSTASK].source = FS
    BY <1>1, <1>6, <2>3, CauseSigKeepsSource
  <2>5. Served'
    BY <1>5, <2>2, <2>3, <2>4
  <2>6. [Next]_kernel
    BY <1>3, <2>2, <2>3, SignalStep
  <2> QED  BY <2>5, <2>6
<1>7. CASE kernel.messbuf[SYSTASK].source = MM
  <2> DEFINE s2 == [script EXCEPT ![SYSTASK] = <<Answer(MM)>>]
  <2>0. MMRequest(kernel, script[MM], request)
    BY <1>1, <1>7, MMAsks
  <2>1. ASSUME NEW u \in Users, request = <<"SYS_ENDSIG", u>>
        PROVE  Served' /\ Next
    <3>1. kernel' = DoEndsig(kernel, u) /\ alarm' = alarm
      BY <1>2, <2>1 DEF Handled
    <3>2. /\ kernel.pendcount[u] > Cardinality(kernel.pending[u]) \/ u \in kernel.empty
          /\ Stable(kernel') /\ kernel'.messbuf[SYSTASK].source = MM
          /\ Serves(kernel', s2, h2, alarm')
      BY <1>1, <1>7, <2>1, <3>1, EndsigServes
    <3>3. Endsig(u)
      BY <3>1, <3>2 DEF Endsig
    <3> QED  BY <1>5, <3>2, <3>3 DEF Next
  <2>2. ASSUME NEW u \in Users, request = <<"SYS_XIT", u>>
        PROVE  Served' /\ Next
    <3>1. kernel' = DoXit(kernel, u) /\ alarm' = alarm \ {u}
      BY <1>2, <2>2 DEF Handled
    <3>2. /\ u \notin kernel.empty
          /\ Stable(kernel') /\ kernel'.messbuf[SYSTASK].source = MM
          /\ Serves(kernel', s2, h2, alarm')
      BY <1>1, <1>7, <2>2, <3>1, XitServes
    <3>3. Xit(u)
      BY <3>1, <3>2 DEF Xit
    <3> QED  BY <1>5, <3>2, <3>3 DEF Next
  <2>3. ASSUME NEW u \in Users, request = <<"SYS_EXEC", u>>
        PROVE  Served' /\ Next
    <3>1. kernel' = DoExec(kernel, u, FALSE) /\ alarm' = alarm
      BY <1>2, <2>3 DEF Handled
    <3>2. /\ u \notin kernel.empty /\ Waits(kernel, u, MM)
          /\ Stable(kernel') /\ kernel'.messbuf[SYSTASK].source = MM
          /\ Serves(kernel', s2, h2, alarm')
      BY <1>1, <1>7, <2>3, <3>1, ExecServes
    <3>3. Exec(u, FALSE)
      BY <3>1, <3>2 DEF Exec, AwaitsMM
    <3> QED  BY <1>5, <3>2, <3>3 DEF Next
  <2>4. ASSUME NEW c \in Users, request = <<"SYS_NEWMAP", c>>
        PROVE  Served' /\ Next
    <3>1. kernel' = DoNewmap(kernel, c) /\ alarm' = alarm
      BY <1>2, <2>4 DEF Handled
    <3>2. /\ c \notin kernel.empty
          /\ Stable(kernel') /\ kernel'.messbuf[SYSTASK].source = MM
          /\ Serves(kernel', s2, h2, alarm')
      BY <1>1, <1>7, <2>4, <3>1, NewmapServes
    <3>3. Newmap(c)
      BY <3>1, <3>2 DEF Newmap
    <3> QED  BY <1>5, <3>2, <3>3 DEF Next
  <2>5. ASSUME NEW u \in Users, NEW c \in Users, request = <<"SYS_FORK", u, c>>
        PROVE  Served' /\ Next
    <3>1. kernel' = DoFork(kernel, u, c) /\ alarm' \in {alarm, alarm \cup {c}}
      BY <1>2, <2>5 DEF Handled
    <3> DEFINE r == DoFork(kernel, u, c)
    <3>2. /\ u \notin kernel.empty /\ Waits(kernel, u, MM) /\ c \in kernel.empty
          /\ Stable(kernel') /\ kernel'.messbuf[SYSTASK].source = MM
          /\ Serves(kernel', s2, h2, alarm')
      <4>1. PICK b : alarm' = b /\ b \subseteq alarm \cup {c}
        BY <3>1
      <4>2. kernel.messbuf[SYSTASK].body = <<"SYS_FORK", u, c>>
        BY <2>5
      <4>3. /\ u \notin kernel.empty /\ Waits(kernel, u, MM) /\ c \in kernel.empty
            /\ Stable(r) /\ r.messbuf[SYSTASK].source = MM
            /\ Serves(r, s2, h2, b)
        BY <1>1, <1>7, <4>1, <4>2, ForkServes
      <4> QED  BY <3>1, <4>1, <4>3
    <3>3. Fork(u, c)
      BY <3>1, <3>2 DEF Fork, AwaitsMM
    <3> QED  BY <1>5, <3>2, <3>3 DEF Next
  <2> QED  BY <2>0, <2>1, <2>2, <2>3, <2>4, <2>5 DEF MMRequest, ForkLeft
<1> QED
  BY <1>4, <1>6, <1>7, SysRequests

\* Every step keeps what the programs keep, and KernelProcesses allows it.
LEMMA ServersStep ==
  ASSUME Closed, Served, [ServersNext]_vars
  PROVE  Served' /\ [Next]_kernel
<1>1. ASSUME NEW p \in Programs, Program(p)
      PROVE  Served' /\ [Next]_kernel
  <2>1. CASE Runs(p) /\ p \in hears /\ p = SYSTASK /\ SysTask
    BY <2>1, SysTaskStep
  <2>2. CASE /\ Runs(p) /\ p \in hears
             /\ \/ p = CLOCK /\ ClockTask
                \/ p = DISK /\ DiskTask
                \/ p = MM /\ MMServer
                \/ p = FS /\ FSServer
    BY <2>2, ReadStep
  <2> QED  BY <1>1, <2>1, <2>2, ListenStep, ProceedStep DEF Program
<1>2. CASE UNCHANGED vars
  BY <1>2 DEF vars, Served, IInv
<1> QED
  BY <1>1, <1>2, UserStep, DeviceStep DEF ServersNext

\* When the kernel has booted, everybody begins.
LEMMA ServersBegin ==
  ASSUME Closed, ServersInit
  PROVE  Served /\ Init
<1>1. Init
  BY DEF ServersInit
<1>2. IInv
  BY <1>1, BootedStable DEF Init, IInv
<1>3. PICK tasks \in Orders(Tasks), servers \in Orders(Servers) :
        kernel = Booted(tasks, servers)
  BY <1>1 DEF Init
<1>4. /\ kernel.flags = [p \in Senders |-> {}] /\ kernel.intBlocked = {}
      /\ kernel.empty = Users \ {InitProc}
      /\ kernel.pending = [u \in Users |-> {}] /\ kernel.pendcount = [u \in Users |-> 0]
  BY <1>3 DEF Booted, PickProc
<1>5. script = [p \in Programs |-> << >>] /\ hears = {} /\ alarm = {}
  BY DEF ServersInit
<1>6. /\ SYSTASK \in Programs /\ CLOCK \in Programs /\ DISK \in Programs
      /\ MM \in Programs /\ FS \in Programs
      /\ \A p \in Programs : p \in Senders
      /\ \A u \in Users : u \in Senders
  BY ProgramKinds
<1>7. \A p \in Senders : ~ Receiving(kernel, p) /\ ~ Sending(kernel, p)
  BY <1>4 DEF Receiving, Sending
<1>8. \A d : \A p : ~ Heard(kernel, hears, d) /\ ~ HeardFrom(kernel, hears, d, p)
  BY <1>5 DEF Heard, HeardFrom
<1>9. \A p \in Programs : script[p] = << >> /\ ~ Undone(kernel, hears, p)
                          /\ Todo(kernel, script, hears, p) = << >>
  <2>1. \A p \in Programs : script[p] = << >> /\ ~ Undone(kernel, hears, p)
    BY <1>5, <1>6, <1>7 DEF Undone
  <2> QED  BY <2>1 DEF Todo
<1>10. script \in [Programs -> Seq(Entries)] /\ Len(<< >>) = 0
  BY <1>5
<1>11. LoopsKept(kernel, script, hears) /\ UsersCall(kernel) /\ RequestsHeld(kernel, hears)
  BY <1>5, <1>6, <1>7, <1>8 DEF LoopsKept, UsersCall, RequestsHeld
<1>12. SysTaskServes(kernel, script, hears) /\ DiskServes(kernel, script, hears)
  BY <1>6, <1>7, <1>8, <1>9 DEF SysTaskServes, DiskServes
<1>13. ClockServes(kernel, script, hears, alarm)
  BY <1>5, <1>6, <1>8, <1>9, <1>10 DEF ClockServes
<1>14. MMServes(kernel, script, hears)
  <2>1. Cardinality({}) = 0
    BY FS_EmptySet
  <2>2. NoneTold(kernel)
    BY <1>4, <2>1 DEF NoneTold, Knows
  <2>3. MMJob(kernel, hears, << >>)
    BY <2>2, NoJob
  <2> QED  BY <1>6, <1>8, <1>9, <2>3 DEF MMServes
<1>15. FSServes(kernel, script, hears)
  <2>1. FSKnows(kernel, script, hears)
    BY <1>6, <1>7 DEF FSKnows, Awaits
  <2> QED  BY <1>6, <1>8, <1>9, <2>1 DEF FSServes, FSJob
<1>16. TasksAtWork(kernel, script, hears)
  BY <1>6, <1>8, <1>9 DEF TasksAtWork
<1>17. SYSTASK \notin kernel.intBlocked /\ hears \subseteq Programs
  BY <1>4, <1>5
<1>18. Serves(kernel, script, hears, alarm)
  BY <1>10, <1>11, <1>12, <1>13, <1>14, <1>15, <1>16, <1>17 DEF Serving, Serves
<1> QED
  BY <1>1, <1>2, <1>18 DEF Served

-----------------------------------------------------------------------------
(* What follows *)

\* The programs of the tasks and servers keep their loops, their jobs and
\* what they know of each other, for any number of user processes.
THEOREM ServersInvariance ==
  ASSUME Closed
  PROVE  ServersSpec => []Served
<1>1. ServersInit => Served
  BY ServersBegin
<1>2. Served /\ [ServersNext]_vars => Served'
  BY ServersStep
<1> QED
  BY <1>1, <1>2, PTL DEF ServersSpec

\* These programs are worth the trust of the kernel: they do nothing that
\* KernelProcesses does not allow.
THEOREM ServersKeepTrust ==
  ASSUME Closed
  PROVE  ServersSpec => RefinesProcesses
<1>1. ServersInit => Init
  BY ServersBegin
<1>2. Served /\ [ServersNext]_vars => [Next]_kernel
  BY ServersStep
<1> QED
  BY <1>1, <1>2, ServersInvariance, PTL DEF ServersSpec, RefinesProcesses, Spec

\* The request in the buffer of the system task stays what the server that
\* waits for it has sent, although inform writes into that buffer.
THEOREM RequestsKept ==
  ASSUME Closed
  PROVE  ServersSpec => []RequestKept
<1>1. Served => RequestKept
  <2> SUFFICES ASSUME Served, SYSTASK \in hears, ~ Receiving(kernel, SYSTASK)
               PROVE  LET source == kernel.messbuf[SYSTASK].source
                      IN  /\ source \in Servers /\ Waits(kernel, source, SYSTASK)
                          /\ kernel.messbuf[SYSTASK].body = kernel.messbuf[source].body
    BY DEF RequestKept, Received
  <2> DEFINE source == kernel.messbuf[SYSTASK].source
  <2>1. Serving(kernel, script, hears, alarm) /\ SYSTASK \in Programs
    BY ProgramKinds DEF Served, Serves
  <2>2. source \in Servers /\ HeardFrom(kernel, hears, SYSTASK, source)
    BY <2>1 DEF Serving, SysTaskServes, HeardFrom, Heard
  <2> HIDE DEF source
  <2>3. /\ Due(kernel, hears, source, SYSTASK)
        /\ kernel.messbuf[SYSTASK].body = kernel.messbuf[source].body
    BY <2>1, <2>2 DEF Serving, RequestsHeld
  <2>4. Waits(kernel, source, SYSTASK)
    BY <2>3 DEF Due, Awaits, Waits, Receiving, Sending
  <2> QED  BY <2>2, <2>3, <2>4 DEF source
<1> QED
  BY <1>1, ServersInvariance, PTL

=============================================================================
