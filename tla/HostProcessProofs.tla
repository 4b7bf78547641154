-------------------------- MODULE HostProcessProofs --------------------------
(***************************************************************************)
(* Proofs about the processes of the Host and what they share with others:  *)
(* HostSocket and LaunchAgent, for any number of processes, callers and     *)
(* calls, any depth of the control channel and any number of failing calls, *)
(* passed deadlines and dying Hosts; and CodexCatalog, for any number of    *)
(* readers, pages and tasks.                                                *)
(***************************************************************************)
EXTENDS LaunchAgent, CodexCatalog, FiniteSetTheorems, WellFoundedInduction, TLAPS

-----------------------------------------------------------------------------
(* The processes.                                                          *)

Versions == {"none", "old", "new"}
Starting == {"look", "retire", "bind"}
Bound == {"publish", "serving", "drop", "exit"}
HostRecord == [at : {"down"} \cup Starting \cup Bound, id : Nat, version : Versions]

\* A process that is up has the lock, so there is one; the socket it bound is the newest.
HostSound(h) ==
  LET p == hosts[h] IN
  /\ p.at # "down" => instanceLock = h
  /\ p.at \in Bound => p.id = bound /\ bound > 0
  /\ p.at \notin Bound => p.id = 0
  /\ p.at = "serving" => socketFile = bound

ProcessInv ==
  /\ hosts \in [HostProcesses -> HostRecord] /\ bound \in Nat /\ socketFile \in 0..bound
  /\ \A h \in HostProcesses : HostSound(h)

\* The process that is up is the only one.
LEMMA OneHost ==
  ASSUME ProcessInv, NEW h \in HostProcesses, hosts[h].at # "down",
         NEW g \in HostProcesses, g # h
  PROVE  hosts[g].at = "down"
BY DEF ProcessInv, HostSound

\* A process goes on, or ends, while no other is up.
LEMMA HostMoves ==
  ASSUME ProcessInv, NEW h \in HostProcesses, hosts[h].at # "down",
         NEW p \in HostRecord, hosts' = [hosts EXCEPT ![h] = p],
         p.at # "down" => instanceLock' = h,
         bound' \in Nat, socketFile' \in 0..bound',
         p.at \in Bound => p.id = bound' /\ bound' > 0,
         p.at \notin Bound => p.id = 0,
         p.at = "serving" => socketFile' = bound'
  PROVE  ProcessInv'
<1>1. hosts' \in [HostProcesses -> HostRecord]
  BY DEF ProcessInv
<1>2. ASSUME NEW g \in HostProcesses PROVE HostSound(g)'
  <2>1. CASE g = h
    <3>1. hosts'[g] = p
      BY <2>1 DEF ProcessInv
    <3> QED BY <3>1, <2>1 DEF HostSound
  <2>2. CASE g # h
    <3>1. hosts'[g] = hosts[g] /\ hosts[g].at = "down" /\ hosts[g].id = 0
      BY <2>2, OneHost DEF ProcessInv, HostSound, Bound
    <3> QED BY <3>1 DEF HostSound, Bound
  <2> QED BY <2>1, <2>2
<1> QED BY <1>1, <1>2 DEF ProcessInv

LEMMA DownIsRecord == Down \in HostRecord /\ Down.at = "down" /\ Down.id = 0
BY DEF Down, HostRecord, Versions

LEMMA OpenHostKeeps ==
  ASSUME ProcessInv, NEW h \in HostProcesses, NEW v \in Versions, OpenHost(h, v)
  PROVE  ProcessInv'
<1> PICK p : p = [at |-> "look", id |-> 0, version |-> v]  OBVIOUS
<1>1. p \in HostRecord /\ p.at = "look" /\ p.id = 0
  BY DEF HostRecord, Starting
<1>2. hosts' = [hosts EXCEPT ![h] = p] /\ instanceLock = 0 /\ instanceLock' = h
      /\ socketFile' = socketFile /\ bound' = bound
  BY DEF OpenHost
<1>3. \A g \in HostProcesses : hosts[g].at = "down"
  BY <1>2, SocketConstants DEF ProcessInv, HostSound
<1>4. hosts' \in [HostProcesses -> HostRecord]
  BY <1>1, <1>2 DEF ProcessInv
<1>5. ASSUME NEW g \in HostProcesses PROVE HostSound(g)'
  <2>1. CASE g = h
    BY <2>1, <1>1, <1>2 DEF ProcessInv, HostSound, Bound
  <2>2. CASE g # h
    <3>1. hosts'[g] = hosts[g]
      BY <2>2, <1>2 DEF ProcessInv
    <3> QED BY <3>1, <1>2, <1>3 DEF ProcessInv, HostSound, Bound
  <2> QED BY <2>1, <2>2
<1> QED BY <1>2, <1>4, <1>5 DEF ProcessInv

LEMMA ExitKeeps ==
  ASSUME ProcessInv, NEW h \in HostProcesses, hosts[h].at # "down", Exit(h),
         socketFile' = socketFile, bound' = bound
  PROVE  ProcessInv'
<1>1. hosts' = [hosts EXCEPT ![h] = Down]
  BY DEF Exit
<1>2. bound' \in Nat /\ socketFile' \in 0..bound'
  BY DEF ProcessInv
<1> QED BY <1>1, <1>2, DownIsRecord, HostMoves DEF Bound

\* The stage of a process changes.
LEMMA StageKeeps ==
  ASSUME ProcessInv, NEW h \in HostProcesses, hosts[h].at # "down",
         NEW s \in {"down"} \cup Starting \cup Bound, s # "down", HostGoes(h, s),
         instanceLock' = instanceLock, bound' = bound, socketFile' \in 0..bound,
         s \in Bound <=> hosts[h].at \in Bound,
         s = "serving" => socketFile' = bound
  PROVE  ProcessInv'
<1> PICK p : p = [hosts[h] EXCEPT !.at = s]  OBVIOUS
<1>1. p \in HostRecord /\ p.at = s /\ p.id = hosts[h].id
  BY DEF ProcessInv, HostRecord
<1>2. hosts' = [hosts EXCEPT ![h] = p]
  BY DEF HostGoes, ProcessInv
<1>3. HostSound(h) /\ bound \in Nat
  BY DEF ProcessInv
<1> QED BY <1>1, <1>2, <1>3, HostMoves DEF HostSound

LEMMA HostStepKeeps ==
  ASSUME ProcessInv, NEW h \in HostProcesses, HostSteps(h) \/ StopServing(h) \/ Perish(h)
  PROVE  ProcessInv'
<1> USE DEF HostAt
<1>0. HostSound(h) /\ bound \in Nat /\ socketFile \in 0..bound
  BY DEF ProcessInv
<1>1. CASE LookForSocket(h)
  <2>1. PICK s \in Starting : HostGoes(h, s) /\ s # "down"
    BY <1>1 DEF LookForSocket, Starting
  <2>2. hosts[h].at \in Starting /\ hosts[h].at # "down" /\ hosts[h].at \notin Bound
        /\ instanceLock' = instanceLock /\ bound' = bound /\ socketFile' = socketFile
    BY <1>1 DEF LookForSocket, Starting, Bound
  <2>3. s \notin Bound /\ s # "serving"
    BY <2>1 DEF Starting, Bound
  <2> QED BY <2>1, <2>2, <2>3, <1>0, StageKeeps
<1>2. CASE RetireSocket(h)
  BY <1>2, <1>0, StageKeeps DEF RetireSocket, Starting, Bound
<1>3. CASE BindTemporary(h)
  <2> PICK b \in Nat : b = bound + 1
    BY <1>0
  <2> PICK p : p = [hosts[h] EXCEPT !.id = b, !.at = "publish"]  OBVIOUS
  <2>1. p \in HostRecord /\ p.at = "publish" /\ p.id = b
    BY DEF ProcessInv, HostRecord, Bound
  <2>2. hosts' = [hosts EXCEPT ![h] = p] /\ bound' = b /\ socketFile' = socketFile
        /\ instanceLock' = instanceLock /\ hosts[h].at = "bind"
    BY <1>3 DEF BindTemporary, ProcessInv
  <2>3. socketFile' \in 0..bound' /\ bound' \in Nat /\ bound' > 0 /\ instanceLock' = h
    BY <1>0, <2>2 DEF HostSound
  <2> QED BY <2>1, <2>2, <2>3, HostMoves DEF Bound
<1>4. CASE PublishSocket(h)
  BY <1>4, <1>0, StageKeeps DEF PublishSocket, Bound, HostSound
<1>5. CASE DropSocket(h)
  BY <1>5, <1>0, StageKeeps DEF DropSocket, Bound
<1>6. CASE HostExits(h)
  BY <1>6, ExitKeeps DEF HostExits
<1>7. CASE OpenFails(h)
  BY <1>7, ExitKeeps DEF OpenFails
<1>8. CASE Perish(h) \/ HostPerishes(h)
  BY <1>8, ExitKeeps DEF HostPerishes, Perish
<1>9. CASE StopServing(h)
  BY <1>9, <1>0, StageKeeps DEF StopServing, Bound
<1> QED BY <1>1, <1>2, <1>3, <1>4, <1>5, <1>6, <1>7, <1>8, <1>9 DEF HostSteps
-----------------------------------------------------------------------------
(* The calls.                                                              *)

CallStages == {"idle", "validate", "connect", "compare", "send", "await", "over"}
ThreadStages == {"none", "backlog", "reading", "waiting", "writing", "closed"}
Replies == {"none", "health", "invalid_request", "host_busy", "binding_failed", "stale_binding",
            "dashboard", "catalog_failed", "state_failed"}
CallRecord ==
  [n : Nat, at : CallStages, kind : Requests \cup {"none", "health"}, expected : Nat, seen : Nat, conn : Nat,
   handler : ThreadStages, reply : Replies, version : Versions,
   told : Replies \cup {"offline", "unsafe", "nothing"}]

\* The call numbers that a sequence holds.
In(n, s) == \E k \in DOMAIN s : s[k] = n

\* The sockets a call has seen are in the order in which they were bound.
Looks(r, file, last) ==
  /\ r.seen <= last /\ r.conn <= last
  /\ file # 0 => r.seen <= file /\ r.conn <= file
  /\ r.at \in {"idle", "validate", "connect"} => r.conn = 0
  /\ r.conn # 0 => r.seen <= r.conn
  /\ r.at = "compare" => r.conn # 0
  /\ r.at \in {"send", "await"} => r.conn = r.seen

\* Something of the call may be in the queue or done only after it was sent, and what was
\* refused is neither.
Sent(r) == r.at = "await" \/ (r.at = "over" /\ r.told \notin Refusals)
Answers(r, queued, made) ==
  /\ r.at = "idle" <=> r.n = 0
  /\ r.at \in {"idle", "validate", "connect"} => r.handler = "none"
  /\ r.at # "over" => r.told = "none"
  /\ r.handler \in {"none", "backlog", "reading", "waiting"} => r.reply = "none"
  /\ r.handler \in {"waiting", "writing"} => r.at = "await" \/ (r.at = "over" /\ r.told = "nothing")
  /\ queued => ~made /\ r.handler \in {"waiting", "closed"} /\ r.reply = "none"
  /\ made => r.handler \in {"waiting", "writing", "closed"} /\ r.reply \notin Refusals
  /\ queued \/ made => Sent(r)
  /\ r.kind = "bind" /\ "dashboard" \in {r.reply, r.told} => made

CallSound(r) ==
  /\ Looks(r, socketFile, bound)
  /\ r.n <= calls
  /\ Answers(r, In(r.n, control), In(r.n, binds))
  /\ \A k \in DOMAIN binds : binds[k] = r.n => k = r.expected + 1

\* A call is in the queue at most once, and every binding is one generation.
QueueSound ==
  /\ calls \in Nat /\ control \in Seq(1..calls) /\ binds \in Seq(1..calls)
  /\ \A i, j \in DOMAIN control : control[i] = control[j] => i = j
  /\ slot = Len(binds)

CallsInv ==
  /\ QueueSound
  /\ requests \in [Callers -> CallRecord]
  /\ \A c \in Callers : CallSound(requests[c])
  /\ \A c, d \in Callers : requests[c].n = requests[d].n /\ requests[c].n # 0 => c = d

\* A call goes on, and the queue, the binding and the sockets stay.
LEMMA CallMoves ==
  ASSUME CallsInv, NEW c \in Callers, NEW r \in CallRecord, SetCall(c, r), r.n = requests[c].n,
         Looks(r, socketFile, bound), Answers(r, In(r.n, control), In(r.n, binds)),
         r.expected = requests[c].expected,
         UNCHANGED <<socketFile, bound, control, slot, binds, calls>>
  PROVE  CallsInv'
<1>1. requests' = [requests EXCEPT ![c] = r] /\ requests' \in [Callers -> CallRecord]
  BY DEF SetCall, CallsInv
<1>2. QueueSound'
  BY DEF CallsInv, QueueSound
<1>3. ASSUME NEW d \in Callers PROVE CallSound(requests[d])'
  <2>1. CallSound(r) /\ CallSound(requests[d])
    BY DEF CallsInv, CallSound
  <2>2. requests'[d] = r \/ requests'[d] = requests[d]
    BY <1>1 DEF CallsInv
  <2> QED BY <2>1, <2>2 DEF CallSound
<1>4. \A d \in Callers : requests'[d].n = requests[d].n
  BY <1>1 DEF CallsInv
<1> QED BY <1>1, <1>2, <1>3, <1>4 DEF CallsInv
\* The calls stay, but some threads that were at work end, and what they had not written is lost.
Closes(r, q) ==
  \/ q = r
  \/ /\ r.handler \notin {"none", "closed"} /\ q.handler = "closed" /\ q.reply = "none"
     /\ q \in CallRecord /\ q.n = r.n /\ q.at = r.at /\ q.expected = r.expected
     /\ q.seen = r.seen /\ q.conn = r.conn /\ q.told = r.told /\ q.kind = r.kind

LEMMA ClosedIsSound ==
  ASSUME NEW r \in CallRecord, NEW q, Closes(r, q),
         NEW queued \in BOOLEAN, NEW made \in BOOLEAN, Answers(r, queued, made),
         NEW still \in BOOLEAN, still => queued
  PROVE  Answers(q, still, made)
BY DEF Closes, Answers, Sent, CallRecord, Refusals

\* A new socket has a greater number than all before.
LEMMA SocketsMove ==
  ASSUME NEW r \in CallRecord, NEW q, Closes(r, q),
         NEW last \in Nat, NEW file \in Nat, Looks(r, file, last),
         NEW last2 \in Nat, NEW file2 \in Nat, last2 >= last, file2 \in {0, file, last2}
  PROVE  Looks(q, file2, last2)
<1>1. q.seen = r.seen /\ q.conn = r.conn /\ q.at = r.at
  BY DEF Closes
<1>2. r.seen \in Nat /\ r.conn \in Nat
  BY DEF CallRecord
<1> QED BY <1>1, <1>2 DEF Looks

\* What a process does leaves the calls alone, or closes connections and empties the queue.
LEMMA ThreadsClose ==
  ASSUME CallsInv, ProcessInv, ProcessInv', bound' >= bound, socketFile' \in {0, socketFile, bound'},
         \/ requests' = requests
         \/ \E f \in [Callers -> CallRecord] :
              requests' = f /\ \A d \in Callers : Closes(requests[d], f[d]),
         control' \in {control, << >>}, UNCHANGED <<slot, binds, calls>>
  PROVE  CallsInv'
<1>0. PICK f \in [Callers -> CallRecord] :
        requests' = f /\ \A d \in Callers : Closes(requests[d], f[d])
  BY DEF CallsInv, Closes
<1>1. QueueSound'
  <2>1. CASE control' = control
    BY <2>1 DEF CallsInv, QueueSound
  <2>2. CASE control' = << >>
    <3>1. DOMAIN control' = {} /\ control' \in Seq(1..calls)
      BY <2>2
    <3> QED BY <3>1 DEF CallsInv, QueueSound
  <2> QED BY <2>1, <2>2
<1>2. ASSUME NEW d \in Callers PROVE CallSound(requests[d])'
  <2> PICK r \in CallRecord : r = requests[d]
    BY DEF CallsInv
  <2> PICK q \in CallRecord : q = f[d]
    OBVIOUS
  <2>1. Closes(r, q) /\ CallSound(r) /\ q = requests'[d]
    BY <1>0 DEF CallsInv
  <2>2. Looks(q, socketFile', bound')
    BY <2>1, SocketsMove DEF CallSound, ProcessInv
  <2>3. In(q.n, control') => In(q.n, control)
    BY DEF In
  <2>4. q.n = r.n /\ q.expected = r.expected
    BY <2>1 DEF Closes
  <2>5. Answers(q, In(q.n, control'), In(q.n, binds))
    <3> PICK queued \in BOOLEAN : queued = In(q.n, control)  BY DEF In
    <3> PICK made \in BOOLEAN : made = In(q.n, binds)  BY DEF In
    <3> PICK still \in BOOLEAN : still = In(q.n, control')  BY DEF In
    <3>1. Answers(r, queued, made)
      BY <2>1, <2>4 DEF CallSound
    <3> QED BY <2>1, <2>3, <3>1, ClosedIsSound
  <2> QED BY <2>1, <2>2, <2>4, <2>5 DEF CallSound
<1>3. \A d \in Callers : requests'[d].n = requests[d].n
  BY <1>0 DEF Closes
<1> QED BY <1>0, <1>1, <1>2, <1>3 DEF CallsInv
LEMMA HangCloses ==
  ASSUME CallsInv, NEW s, Hang(s)
  PROVE  \E f \in [Callers -> CallRecord] :
           requests' = f /\ \A d \in Callers : Closes(requests[d], f[d])
<1> PICK f : f = [c \in Callers |->
             IF requests[c].conn = s /\ requests[c].handler \notin {"none", "closed"}
             THEN [requests[c] EXCEPT !.handler = "closed", !.reply = "none"] ELSE requests[c]]
  OBVIOUS
<1>1. requests' = f
  BY DEF Hang
<1>2. ASSUME NEW d \in Callers PROVE f[d] \in CallRecord /\ Closes(requests[d], f[d])
  <2> PICK r \in CallRecord : r = requests[d]
    BY DEF CallsInv
  <2> PICK q : q = [r EXCEPT !.handler = "closed", !.reply = "none"]  OBVIOUS
  <2>3. "closed" \in ThreadStages /\ "none" \in Replies
    BY DEF ThreadStages, Replies
  <2>0. q \in CallRecord
    BY <2>3 DEF CallRecord
  <2>2. /\ q.n = r.n /\ q.at = r.at /\ q.expected = r.expected /\ q.handler = "closed" /\ q.reply = "none"
        /\ q.seen = r.seen /\ q.conn = r.conn /\ q.told = r.told /\ q.kind = r.kind
    BY DEF CallRecord
  <2>1. q \in CallRecord /\ (r.handler \notin {"none", "closed"} => Closes(r, q))
    BY <2>0, <2>2 DEF Closes
  <2> QED BY <2>1 DEF Closes
<1> QED BY <1>1, <1>2

LEMMA StopCloses ==
  ASSUME CallsInv, NEW h \in HostProcesses, StopServing(h)
  PROVE  \E f \in [Callers -> CallRecord] :
           requests' = f /\ \A d \in Callers : Closes(requests[d], f[d])
<1> PICK f : f = [c \in Callers |->
             IF requests[c].conn = hosts[h].id /\ requests[c].handler = "waiting"
             THEN [requests[c] EXCEPT !.handler = "closed"] ELSE requests[c]]
  OBVIOUS
<1>1. requests' = f
  BY DEF StopServing
<1>2. ASSUME NEW d \in Callers PROVE f[d] \in CallRecord /\ Closes(requests[d], f[d])
  <2> PICK r \in CallRecord : r = requests[d]
    BY DEF CallsInv
  <2> PICK q : q = [r EXCEPT !.handler = "closed"]  OBVIOUS
  <2>0. r.handler = "waiting" => r.reply = "none"
    BY DEF CallsInv, CallSound, Answers
  <2>1. q \in CallRecord /\ (r.handler = "waiting" => Closes(r, q))
    BY <2>0 DEF Closes, CallRecord, ThreadStages
  <2> QED BY <2>1 DEF Closes
<1> QED BY <1>1, <1>2

LEMMA HostStepKeepsCalls ==
  ASSUME CallsInv, ProcessInv, NEW h \in HostProcesses,
         HostSteps(h) \/ StopServing(h) \/ Perish(h) \/ (\E v \in Versions : OpenHost(h, v))
  PROVE  CallsInv' /\ ProcessInv'
<1>1. ProcessInv'
  BY HostStepKeeps, OpenHostKeeps
<1>2. bound \in Nat /\ HostSound(h)
  BY DEF ProcessInv
<1>3. bound' >= bound /\ socketFile' \in {0, socketFile, bound'}
  BY <1>2 DEF HostSteps, OpenHost, LookForSocket, RetireSocket, BindTemporary, PublishSocket, DropSocket,
     HostExits, OpenFails, HostPerishes, Perish, StopServing, HostSound, HostAt, Bound
<1>4. control' \in {control, << >>} /\ UNCHANGED <<slot, binds, calls>>
  BY DEF HostSteps, OpenHost, LookForSocket, RetireSocket, BindTemporary, PublishSocket, DropSocket,
     HostExits, OpenFails, HostPerishes, Perish, StopServing, callVars
<1>5. requests' = requests \/ StopServing(h) \/ \E s : Hang(s)
  BY DEF HostSteps, OpenHost, LookForSocket, RetireSocket, BindTemporary, PublishSocket, DropSocket,
     HostExits, OpenFails, HostPerishes, Perish, callVars
<1>6. \/ requests' = requests
      \/ \E f \in [Callers -> CallRecord] :
           requests' = f /\ \A d \in Callers : Closes(requests[d], f[d])
  BY <1>5, HangCloses, StopCloses
<1> QED BY <1>1, <1>3, <1>4, <1>6, ThreadsClose
\* The steps of one call, up to what its record becomes.
LEMMA CallStepKeeps ==
  ASSUME CallsInv, ProcessInv, NEW c \in Callers, CallSteps(c), ~HandleClient(c)
  PROVE  CallsInv'
<1> PICK r \in CallRecord : r = requests[c]
  BY DEF CallsInv
<1>0. /\ CallSound(r) /\ Looks(r, socketFile, bound) /\ Answers(r, In(r.n, control), In(r.n, binds))
      /\ bound \in Nat /\ socketFile \in Nat /\ socketFile <= bound
  BY DEF CallsInv, CallSound, ProcessInv
<1>1. UNCHANGED <<socketFile, bound, control, slot, binds, calls>>
  BY DEF CallSteps, CallStep, ValidateSocket, Connect, CompareSocket, SendRequest, ReadResponse,
     CallTimesOut, Accept, WriteReply, HandlerTimesOut, processVars
<1> DEFINE Fine(q) ==
      /\ q \in CallRecord /\ q.n = r.n /\ q.expected = r.expected
      /\ Looks(q, socketFile, bound) /\ Answers(q, In(r.n, control), In(r.n, binds))
<1> PICK queued \in BOOLEAN : queued = In(r.n, control)  BY DEF In
<1> PICK made \in BOOLEAN : made = In(r.n, binds)  BY DEF In
<1> USE DEF Answers, Sent, Refusals
\* The caller has its answer.
<1>2. ASSUME NEW what,
             \/ r.at \in {"validate", "connect", "compare"} /\ what \in {"offline", "unsafe"}
             \/ r.at = "await" /\ r.handler = "closed" /\ what = r.reply /\ what # "none"
             \/ r.at \in {"send", "await"} /\ what = "nothing"
      PROVE  Fine(Told(c, what))
  <2> PICK q : q = Told(c, what)  OBVIOUS
  <2>1. /\ q \in CallRecord /\ q.n = r.n /\ q.expected = r.expected /\ q.at = "over" /\ q.told = what
        /\ q.handler = r.handler /\ q.reply = r.reply /\ q.seen = r.seen /\ q.conn = r.conn /\ q.kind = r.kind
    BY <1>2 DEF Told, CallRecord, CallStages
  <2>2. Looks(q, socketFile, bound)
    BY <2>1, <1>0 DEF Looks
  <2>3. Answers(q, queued, made)
    BY <2>1, <1>0, <1>2
  <2> QED BY <2>1, <2>2, <2>3
\* The caller goes on.
<1>3. ASSUME NEW stage \in {"connect", "compare", "send", "await"}, NEW seen \in Nat, NEW conn \in Nat,
             NEW handler \in ThreadStages,
             r.at \notin {"idle", "await", "over"}, stage = "connect" => r.at = "validate",
             handler = r.handler \/ (handler = "backlog" /\ stage = "compare" /\ r.at = "connect"),
             NEW q \in CallRecord, Looks(q, socketFile, bound),
             q.n = r.n, q.expected = r.expected, q.kind = r.kind, q.at = stage, q.handler = handler,
             q.reply = r.reply, q.told = r.told
      PROVE  Fine(q)
  <2>1. Answers(q, queued, made)
    BY <1>0, <1>3
  <2> QED BY <1>3, <2>1
\* The thread goes on.
<1>4. ASSUME NEW handler \in ThreadStages, NEW reply \in Replies,
             \/ r.handler = "backlog" /\ handler \in {"reading", "closed"} /\ reply = r.reply
             \/ r.handler = "writing" /\ handler = "closed" /\ reply = r.reply
             \/ r.handler \in {"reading", "waiting", "writing"} /\ handler = "closed" /\ reply = "none",
             NEW q \in CallRecord,
             q.n = r.n, q.expected = r.expected, q.kind = r.kind, q.at = r.at, q.handler = handler,
             q.seen = r.seen, q.conn = r.conn, q.reply = reply, q.told = r.told
      PROVE  Fine(q)
  <2>1. Looks(q, socketFile, bound)
    BY <1>0, <1>4 DEF Looks
  <2>2. Answers(q, queued, made)
    BY <1>0, <1>4
  <2> QED BY <1>4, <2>1, <2>2
<1>5. ASSUME NEW q, SetCall(c, q), Fine(q) PROVE CallsInv'
  BY <1>1, <1>5, CallMoves
<1> HIDE DEF Answers, Sent, Refusals, Fine
<1>6. CASE ValidateSocket(c)
  <2> PICK q : q = [r EXCEPT !.at = "connect", !.seen = socketFile]  OBVIOUS
  <2>1. AtCall(c, "validate") /\ SetCall(c, IF socketFile = 0 THEN Told(c, "offline") ELSE q)
    BY <1>6 DEF ValidateSocket
  <2>2. r.at = "validate"
    BY <2>1 DEF AtCall
  <2>3. /\ q \in CallRecord /\ q.n = r.n /\ q.expected = r.expected /\ q.kind = r.kind /\ q.at = "connect"
        /\ q.handler = r.handler /\ q.reply = r.reply /\ q.told = r.told /\ q.seen = socketFile /\ q.conn = r.conn
        /\ r.handler \in ThreadStages
    BY <1>0 DEF CallRecord, CallStages
  <2>4. Looks(q, socketFile, bound)
    BY <2>2, <2>3, <1>0 DEF Looks
  <2>5. Fine(q)
    BY <1>0, <1>3, <2>2, <2>3, <2>4
  <2>6. Fine(Told(c, "offline"))
    BY <1>2, <2>2
  <2> QED BY <1>5, <2>1, <2>5, <2>6
<1>7. CASE Connect(c)
  <2> PICK q : q = [r EXCEPT !.at = "compare", !.conn = socketFile, !.handler = "backlog"]  OBVIOUS
  <2>1. AtCall(c, "connect") /\ SetCall(c, IF socketFile = 0 \/ ~Listening(socketFile) THEN Told(c, "offline") ELSE q)
    BY <1>7 DEF Connect
  <2>2. r.at = "connect"
    BY <2>1 DEF AtCall
  <2>3. /\ q \in CallRecord /\ q.n = r.n /\ q.expected = r.expected /\ q.kind = r.kind /\ q.at = "compare"
        /\ q.handler = "backlog" /\ q.reply = r.reply /\ q.told = r.told /\ q.seen = r.seen /\ q.conn = socketFile
        /\ "backlog" \in ThreadStages /\ r.seen \in Nat
    BY <1>0 DEF CallRecord, CallStages, ThreadStages
  <2>4. socketFile # 0 => Looks(q, socketFile, bound)
    BY <2>2, <2>3, <1>0 DEF Looks
  <2>5. socketFile # 0 => Fine(q)
    BY <1>0, <1>3, <2>2, <2>3, <2>4
  <2>6. Fine(Told(c, "offline"))
    BY <1>2, <2>2
  <2> QED BY <1>5, <2>1, <2>5, <2>6
<1>8. CASE CompareSocket(c)
  <2> PICK q : q = [r EXCEPT !.at = "send"]  OBVIOUS
  <2>1. AtCall(c, "compare") /\ SetCall(c, IF socketFile = 0 THEN Told(c, "offline")
              ELSE IF socketFile # r.seen THEN Told(c, "unsafe") ELSE q)
    BY <1>8 DEF CompareSocket
  <2>2. r.at = "compare"
    BY <2>1 DEF AtCall
  <2>3. /\ q \in CallRecord /\ q.n = r.n /\ q.expected = r.expected /\ q.kind = r.kind /\ q.at = "send"
        /\ q.handler = r.handler /\ q.reply = r.reply /\ q.told = r.told /\ q.seen = r.seen /\ q.conn = r.conn
        /\ r.handler \in ThreadStages /\ r.seen \in Nat /\ r.conn \in Nat
    BY <1>0 DEF CallRecord, CallStages
  <2>4. socketFile # 0 /\ socketFile = r.seen => Looks(q, socketFile, bound)
    BY <2>2, <2>3, <1>0 DEF Looks
  <2>5. socketFile # 0 /\ socketFile = r.seen => Fine(q)
    BY <1>0, <1>3, <2>2, <2>3, <2>4
  <2>6. Fine(Told(c, "offline")) /\ Fine(Told(c, "unsafe"))
    BY <1>2, <2>2
  <2> QED BY <1>5, <2>1, <2>5, <2>6
<1>9. CASE SendRequest(c)
  <2> PICK q : q = [r EXCEPT !.at = "await"]  OBVIOUS
  <2>1. AtCall(c, "send") /\ SetCall(c, IF r.handler = "closed" THEN Told(c, "nothing") ELSE q)
    BY <1>9 DEF SendRequest
  <2>2. r.at = "send"
    BY <2>1 DEF AtCall
  <2>3. /\ q \in CallRecord /\ q.n = r.n /\ q.expected = r.expected /\ q.kind = r.kind /\ q.at = "await"
        /\ q.handler = r.handler /\ q.reply = r.reply /\ q.told = r.told /\ q.seen = r.seen /\ q.conn = r.conn
        /\ r.handler \in ThreadStages /\ r.seen \in Nat /\ r.conn \in Nat
    BY <1>0 DEF CallRecord, CallStages
  <2>4. Looks(q, socketFile, bound)
    BY <2>2, <2>3, <1>0 DEF Looks
  <2>5. Fine(q)
    BY <1>0, <1>3, <2>2, <2>3, <2>4
  <2>6. Fine(Told(c, "nothing"))
    BY <1>2, <2>2
  <2> QED BY <1>5, <2>1, <2>5, <2>6
<1>10. CASE ReadResponse(c)
  <2>1. AtCall(c, "await") /\ r.handler = "closed"
        /\ SetCall(c, Told(c, IF r.reply = "none" THEN "nothing" ELSE r.reply))
    BY <1>10 DEF ReadResponse
  <2>2. r.at = "await"
    BY <2>1 DEF AtCall
  <2>3. Fine(Told(c, IF r.reply = "none" THEN "nothing" ELSE r.reply))
    BY <1>2, <2>1, <2>2
  <2> QED BY <1>5, <2>1, <2>3
<1>11. CASE CallTimesOut(c)
  <2>1. r.at \in {"send", "await"} /\ SetCall(c, Told(c, "nothing"))
    BY <1>11 DEF CallTimesOut
  <2>2. Fine(Told(c, "nothing"))
    BY <1>2, <2>1
  <2> QED BY <1>5, <2>1, <2>2
<1>12. CASE Accept(c)
  <2>1. PICK s \in {"reading", "closed"} : SetCall(c, [r EXCEPT !.handler = s])
    BY <1>12 DEF Accept
  <2>2. r.handler = "backlog"
    BY <1>12 DEF Accept, AtHandler
  <2> PICK q : q = [r EXCEPT !.handler = s]  OBVIOUS
  <2>3. /\ q \in CallRecord /\ q.n = r.n /\ q.expected = r.expected /\ q.kind = r.kind /\ q.at = r.at
        /\ q.handler = s /\ q.reply = r.reply /\ q.told = r.told /\ q.seen = r.seen /\ q.conn = r.conn
        /\ s \in ThreadStages /\ r.reply \in Replies
    BY DEF CallRecord, ThreadStages
  <2>4. Fine(q)
    BY <1>4, <2>2, <2>3
  <2> QED BY <1>5, <2>1, <2>4
<1>13. CASE WriteReply(c)
  <2> PICK q : q = [r EXCEPT !.handler = "closed"]  OBVIOUS
  <2>1. SetCall(c, q) /\ r.handler = "writing"
    BY <1>13 DEF WriteReply, AtHandler
  <2>3. /\ q \in CallRecord /\ q.n = r.n /\ q.expected = r.expected /\ q.kind = r.kind /\ q.at = r.at
        /\ q.handler = "closed" /\ q.reply = r.reply /\ q.told = r.told /\ q.seen = r.seen /\ q.conn = r.conn
        /\ "closed" \in ThreadStages /\ r.reply \in Replies
    BY DEF CallRecord, ThreadStages
  <2>4. Fine(q)
    BY <1>4, <2>1, <2>3
  <2> QED BY <1>5, <2>1, <2>4
<1>14. CASE HandlerTimesOut(c)
  <2> PICK q : q = [r EXCEPT !.handler = "closed", !.reply = "none"]  OBVIOUS
  <2>1. SetCall(c, q) /\ r.handler \in {"reading", "waiting", "writing"}
    BY <1>14 DEF HandlerTimesOut, AtHandler
  <2>2. "closed" \in ThreadStages /\ "none" \in Replies
    BY DEF ThreadStages, Replies
  <2>5. q \in CallRecord
    BY <2>2 DEF CallRecord
  <2>3. /\ q.n = r.n /\ q.expected = r.expected /\ q.kind = r.kind /\ q.at = r.at
        /\ q.handler = "closed" /\ q.reply = "none" /\ q.told = r.told /\ q.seen = r.seen /\ q.conn = r.conn
    BY DEF CallRecord
  <2>4. Fine(q)
    BY <1>4, <2>1, <2>2, <2>3, <2>5
  <2> QED BY <1>5, <2>1, <2>4
<1> QED BY <1>6, <1>7, <1>8, <1>9, <1>10, <1>11, <1>12, <1>13, <1>14 DEF CallSteps
\* A record of a thread that has its answer, or waits for it.
LEMMA AnsweredFields ==
  ASSUME NEW r \in CallRecord, NEW reply \in Replies
  PROVE  /\ Answered(r, reply) \in CallRecord
         /\ LET q == Answered(r, reply) IN
            /\ q.n = r.n /\ q.expected = r.expected /\ q.kind = r.kind /\ q.at = r.at
            /\ q.handler = "writing" /\ q.reply = reply /\ q.told = r.told
            /\ q.seen = r.seen /\ q.conn = r.conn
<1>1. "writing" \in ThreadStages
  BY DEF ThreadStages
<1>2. Answered(r, reply) \in CallRecord
  BY <1>1 DEF Answered, CallRecord
<1> QED BY <1>2 DEF Answered, CallRecord

LEMMA SnapshotFields ==
  ASSUME ProcessInv, NEW r \in CallRecord, Listening(r.conn)
  PROVE  /\ HealthSnapshot(r) \in CallRecord
         /\ LET q == HealthSnapshot(r) IN
            /\ q.n = r.n /\ q.expected = r.expected /\ q.kind = r.kind /\ q.at = r.at
            /\ q.handler = "writing" /\ q.reply = "health" /\ q.told = r.told
            /\ q.seen = r.seen /\ q.conn = r.conn
<1> PICK a : a = Answered(r, "health")  OBVIOUS
<1>1. /\ a \in CallRecord
      /\ a.n = r.n /\ a.expected = r.expected /\ a.kind = r.kind /\ a.at = r.at
      /\ a.handler = "writing" /\ a.reply = "health" /\ a.told = r.told
      /\ a.seen = r.seen /\ a.conn = r.conn
  BY AnsweredFields DEF Replies
<1>2. \E h \in HostProcesses : hosts[h].id = r.conn
  BY DEF Listening
<1>3. PICK h \in HostProcesses : h = CHOOSE g \in HostProcesses : hosts[g].id = r.conn
  BY <1>2
<1>4. hosts[h].version \in Versions
  BY DEF ProcessInv, HostRecord
<1> PICK q : q = [a EXCEPT !.version = hosts[h].version]  OBVIOUS
<1>5. q = HealthSnapshot(r)
  BY <1>3 DEF HealthSnapshot
<1>6. /\ q \in CallRecord
      /\ q.n = a.n /\ q.expected = a.expected /\ q.kind = a.kind /\ q.at = a.at
      /\ q.handler = a.handler /\ q.reply = a.reply /\ q.told = a.told
      /\ q.seen = a.seen /\ q.conn = a.conn
  BY <1>1, <1>4 DEF CallRecord
<1> QED BY <1>1, <1>5, <1>6

\* A request goes to the end of the queue, once.
LEMMA QueuedOnce ==
  ASSUME NEW s \in Seq(1..calls), calls \in Nat, NEW n \in 1..calls, ~In(n, s),
         \A i, j \in DOMAIN s : s[i] = s[j] => i = j
  PROVE  LET t == Append(s, n) IN
         /\ t \in Seq(1..calls) /\ In(n, t)
         /\ \A m \in Nat : m # n => (In(m, t) <=> In(m, s))
         /\ \A i, j \in DOMAIN t : t[i] = t[j] => i = j
<1> PICK t : t = Append(s, n)  OBVIOUS
<1>1. /\ t \in Seq(1..calls) /\ DOMAIN t = 1..(Len(s) + 1) /\ t[Len(s) + 1] = n
      /\ \A i \in DOMAIN s : t[i] = s[i]
  OBVIOUS
<1>2. DOMAIN s = 1..Len(s) /\ Len(s) \in Nat
  OBVIOUS
<1>3. \A i \in DOMAIN t : i = Len(s) + 1 \/ i \in DOMAIN s
  BY <1>1, <1>2
<1>4. DOMAIN s \subseteq DOMAIN t /\ Len(s) + 1 \in DOMAIN t
  BY <1>1, <1>2
<1>5. \A m \in Nat : m # n => (In(m, t) <=> In(m, s))
  BY <1>1, <1>3, <1>4 DEF In
<1>6. \A i, j \in DOMAIN t : t[i] = t[j] => i = j
  BY <1>1, <1>3 DEF In
<1>7. In(n, t)
  BY <1>1, <1>4 DEF In
<1> QED BY <1>1, <1>5, <1>6, <1>7

\* handle_client, with what it hands to the main loop.
LEMMA HandleClientKeeps ==
  ASSUME CallsInv, ProcessInv, NEW c \in Callers, HandleClient(c)
  PROVE  CallsInv'
<1> PICK r \in CallRecord : r = requests[c]
  BY DEF CallsInv
<1>0. /\ CallSound(r) /\ Looks(r, socketFile, bound) /\ Answers(r, In(r.n, control), In(r.n, binds))
      /\ bound \in Nat /\ socketFile \in Nat /\ socketFile <= bound
  BY DEF CallsInv, CallSound, ProcessInv
<1>1. UNCHANGED <<socketFile, bound, slot, binds, calls>> /\ r.handler = "reading" /\ Listening(r.conn)
  BY DEF HandleClient, processVars, AtHandler
<1> PICK queued \in BOOLEAN : queued = In(r.n, control)  BY DEF In
<1> PICK made \in BOOLEAN : made = In(r.n, binds)  BY DEF In
<1>2. ~queued /\ ~made /\ r.reply = "none" /\ r.n # 0
  BY <1>0, <1>1 DEF Answers
<1> DEFINE sent == r.at = "await" \/ (r.at = "over" /\ r.told = "nothing")
<1>3. ASSUME NEW reply \in Replies \ {"dashboard", "none"}, sent, NEW q \in CallRecord, SetCall(c, q),
             q.n = r.n, q.expected = r.expected, q.kind = r.kind, q.at = r.at,
             q.handler = "writing", q.reply = reply, q.told = r.told, q.seen = r.seen, q.conn = r.conn,
             control' = control
      PROVE  CallsInv'
  <2>1. Answers(q, queued, made)
    BY <1>0, <1>1, <1>2, <1>3 DEF Answers
  <2>2. Looks(q, socketFile, bound)
    BY <1>0, <1>3 DEF Looks
  <2> QED BY <1>1, <1>3, <2>1, <2>2, CallMoves
<1>4. CASE r.at = "over" /\ SetCall(c, [r EXCEPT !.handler = "closed"]) /\ UNCHANGED control
  <2> PICK q : q = [r EXCEPT !.handler = "closed"]  OBVIOUS
  <2>3. /\ q \in CallRecord /\ q.n = r.n /\ q.expected = r.expected /\ q.kind = r.kind /\ q.at = r.at
        /\ q.handler = "closed" /\ q.reply = r.reply /\ q.told = r.told /\ q.seen = r.seen /\ q.conn = r.conn
    BY DEF CallRecord, ThreadStages
  <2>1. Answers(q, queued, made)
    BY <1>0, <1>1, <1>2, <1>4, <2>3 DEF Answers
  <2>2. Looks(q, socketFile, bound)
    BY <1>0, <2>3 DEF Looks
  <2> QED BY <1>1, <1>4, <2>1, <2>2, <2>3, CallMoves
<1>5. CASE sent /\ SetCall(c, HealthSnapshot(r)) /\ UNCHANGED control
  BY <1>1, <1>3, <1>5, SnapshotFields DEF Replies
<1>6. CASE sent /\ SetCall(c, Answered(r, "invalid_request")) /\ UNCHANGED control
  <2>1. PICK q : q = Answered(r, "invalid_request")
    OBVIOUS
  <2>2. "invalid_request" \in Replies \ {"dashboard", "none"}
    BY DEF Replies
  <2>3. /\ q \in CallRecord /\ q.n = r.n /\ q.expected = r.expected /\ q.kind = r.kind /\ q.at = r.at
        /\ q.handler = "writing" /\ q.reply = "invalid_request" /\ q.told = r.told /\ q.seen = r.seen /\ q.conn = r.conn
    BY <2>1, <2>2, AnsweredFields
  <2>4. sent /\ SetCall(c, q) /\ control' = control
    BY <1>6, <2>1
  <2> QED BY ONLY <1>3, <2>2, <2>3, <2>4
<1>7. CASE sent /\ ForwardControl(c)
  <2>1. CASE control' = control /\ SetCall(c, Answered(r, "host_busy"))
    <3>1. PICK q : q = Answered(r, "host_busy")
      OBVIOUS
    <3>2. "host_busy" \in Replies \ {"dashboard", "none"}
      BY DEF Replies
    <3>3. /\ q \in CallRecord /\ q.n = r.n /\ q.expected = r.expected /\ q.kind = r.kind /\ q.at = r.at
          /\ q.handler = "writing" /\ q.reply = "host_busy" /\ q.told = r.told /\ q.seen = r.seen /\ q.conn = r.conn
      BY <1>1, <3>1, <3>2, AnsweredFields
    <3>4. sent /\ SetCall(c, q) /\ control' = control
      BY <1>7, <2>1, <3>1
    <3> QED BY ONLY <1>3, <3>2, <3>3, <3>4
  <2>2. CASE control' = Append(control, r.n) /\ SetCall(c, [r EXCEPT !.handler = "waiting"])
    <3> PICK q : q = [r EXCEPT !.handler = "waiting"]  OBVIOUS
    <3> PICK t : t = Append(control, r.n)  OBVIOUS
    <3>0. /\ control \in Seq(1..calls) /\ calls \in Nat /\ r.n \in 1..calls
          /\ \A i, j \in DOMAIN control : control[i] = control[j] => i = j
      BY <1>0, <1>2 DEF CallsInv, QueueSound, CallSound, CallRecord
    <3>1. /\ t \in Seq(1..calls) /\ In(r.n, t)
          /\ \A m \in Nat : m # r.n => (In(m, t) <=> In(m, control))
          /\ \A i, j \in DOMAIN t : t[i] = t[j] => i = j
      BY <3>0, <1>2, QueuedOnce
    <3>2. /\ q \in CallRecord /\ q.n = r.n /\ q.expected = r.expected /\ q.kind = r.kind /\ q.at = r.at
          /\ q.handler = "waiting" /\ q.reply = r.reply /\ q.told = r.told /\ q.seen = r.seen /\ q.conn = r.conn
      BY DEF CallRecord, ThreadStages
    <3> PICK now \in BOOLEAN : now = In(q.n, t)  BY DEF In
    <3>3. Answers(q, now, made)
      BY <1>0, <1>1, <1>2, <1>7, <3>1, <3>2 DEF Answers, Sent, Refusals
    <3>4. Looks(q, socketFile, bound)
      BY <1>0, <3>2 DEF Looks
    <3>5. control' = t /\ requests' = [requests EXCEPT ![c] = q]
      BY <2>2 DEF SetCall
    <3>6. QueueSound'
      BY <1>1, <3>1, <3>5 DEF CallsInv, QueueSound
    <3>7. ASSUME NEW d \in Callers PROVE CallSound(requests[d])'
      <4>1. CASE d = c
        <5>1. requests'[d] = q
          BY <4>1, <3>5 DEF CallsInv
        <5>2. Answers(q, In(q.n, t), In(q.n, binds))
          BY <3>2, <3>3
        <5>3. r.n <= calls /\ \A k \in DOMAIN binds : binds[k] = r.n => k = r.expected + 1
          BY <1>0 DEF CallSound
        <5>4. /\ Looks(q, socketFile', bound') /\ q.n <= calls'
              /\ Answers(q, In(q.n, control'), In(q.n, binds'))
              /\ \A k \in DOMAIN binds' : binds'[k] = q.n => k = q.expected + 1
          BY <1>1, <3>2, <3>4, <3>5, <5>2, <5>3
        <5> QED BY <5>1, <5>4 DEF CallSound
      <4>2. CASE d # c
        <5>1. requests'[d] = requests[d] /\ CallSound(requests[d]) /\ requests[d].n \in Nat /\ requests[d].n # r.n
          BY <4>2, <3>5, <1>2 DEF CallsInv, CallRecord
        <5>2. In(requests[d].n, t) = In(requests[d].n, control)
          BY <3>1, <5>1 DEF In
        <5> QED BY <1>1, <3>5, <5>1, <5>2 DEF CallSound
      <4> QED BY <4>1, <4>2
    <3>8. requests' \in [Callers -> CallRecord] /\ \A d \in Callers : requests'[d].n = requests[d].n
      BY <3>2, <3>5 DEF CallsInv
    <3> QED BY <3>6, <3>7, <3>8 DEF CallsInv
  <2> QED BY <1>7, <2>1, <2>2 DEF ForwardControl
<1> QED BY <1>4, <1>5, <1>6, <1>7 DEF HandleClient
\* The first request of the queue is taken from it.
LEMMA TakenOnce ==
  ASSUME NEW s \in Seq(Nat), s # << >>, \A i, j \in DOMAIN s : s[i] = s[j] => i = j,
         NEW t, t = Tail(s)
  PROVE  /\ In(Head(s), s) /\ ~In(Head(s), t)
         /\ \A m \in Nat : m # Head(s) => (In(m, t) <=> In(m, s))
         /\ \A i, j \in DOMAIN t : t[i] = t[j] => i = j
<1>1. /\ DOMAIN s = 1..Len(s) /\ Len(s) \in Nat /\ Len(s) > 0 /\ Head(s) = s[1]
      /\ t \in Seq(Nat) /\ Len(t) = Len(s) - 1 /\ DOMAIN t = 1..Len(t)
      /\ \A i \in 1..Len(t) : t[i] = s[i + 1]
  OBVIOUS
<1>2. \A i \in DOMAIN t : i \in Nat /\ i + 1 \in DOMAIN s /\ i + 1 # 1
  BY <1>1
<1>3. \A i \in DOMAIN s : i = 1 \/ (i - 1 \in DOMAIN t /\ t[i - 1] = s[i])
  BY <1>1
<1>4. 1 \in DOMAIN s
  BY <1>1
<1>5. In(Head(s), s)
  BY <1>1, <1>4 DEF In
<1>6. ~In(Head(s), t)
  BY <1>1, <1>2, <1>4 DEF In
<1>7. ASSUME NEW m \in Nat, m # Head(s) PROVE In(m, t) <=> In(m, s)
  <2>1. ASSUME In(m, t) PROVE In(m, s)
    BY <1>1, <1>2, <2>1 DEF In
  <2>2. ASSUME In(m, s) PROVE In(m, t)
    <3>1. PICK k \in DOMAIN s : s[k] = m
      BY <2>2 DEF In
    <3>2. k # 1
      BY <1>1, <1>7, <3>1
    <3>3. k - 1 \in DOMAIN t /\ t[k - 1] = m
      BY <1>3, <3>1, <3>2
    <3> QED BY <3>3 DEF In
  <2> QED BY <2>1, <2>2
<1>8. ASSUME NEW i \in DOMAIN t, NEW j \in DOMAIN t, t[i] = t[j] PROVE i = j
  BY <1>1, <1>2, <1>8
<1> QED BY <1>5, <1>6, <1>7, <1>8

\* The binding that is made is the next one, of the generation that the caller named.
LEMMA BoundOnce ==
  ASSUME NEW s \in Seq(1..calls), calls \in Nat, NEW n \in 1..calls, NEW e \in Nat, Len(s) = e, ~In(n, s),
         NEW t, t = Append(s, n)
  PROVE  /\ t \in Seq(1..calls) /\ In(n, t) /\ Len(t) = Len(s) + 1
         /\ \A k \in DOMAIN t : t[k] = n => k = e + 1
         /\ \A m \in Nat : m # n => (In(m, t) <=> In(m, s))
         /\ \A m \in Nat : m # n => \A k \in DOMAIN t : t[k] = m => k \in DOMAIN s /\ s[k] = m
<1>1. /\ t \in Seq(1..calls) /\ DOMAIN t = 1..(Len(s) + 1) /\ t[Len(s) + 1] = n /\ Len(t) = Len(s) + 1
      /\ \A i \in DOMAIN s : t[i] = s[i]
  OBVIOUS
<1>2. DOMAIN s = 1..Len(s) /\ Len(s) \in Nat
  OBVIOUS
<1>3. \A i \in DOMAIN t : i = Len(s) + 1 \/ i \in DOMAIN s
  BY <1>1, <1>2
<1>4. DOMAIN s \subseteq DOMAIN t /\ Len(s) + 1 \in DOMAIN t
  BY <1>1, <1>2
<1>5. \A m \in Nat : m # n => (In(m, t) <=> In(m, s))
  BY <1>1, <1>3, <1>4 DEF In
<1>6. \A k \in DOMAIN t : t[k] = n => k = e + 1
  BY <1>1, <1>3 DEF In
<1>7. In(n, t)
  BY <1>1, <1>4 DEF In
<1>8. \A m \in Nat : m # n => \A k \in DOMAIN t : t[k] = m => k \in DOMAIN s /\ s[k] = m
  BY <1>1, <1>3
<1> QED BY <1>1, <1>5, <1>6, <1>7, <1>8
\* process_control_request: the request leaves the queue, and is done or refused.
LEMMA ProcessKeeps ==
  ASSUME CallsInv, ProcessInv, ProcessControlRequest
  PROVE  CallsInv'
<1>0. PICK c \in Callers, h \in HostProcesses, outcome \in {"fine", "refused", "catalog_failed", "state_failed"} :
    LET r == requests[c]
        bind == r.kind = "bind" /\ outcome # "refused" /\ ExpectedBinding(r.expected)
        reply == IF r.kind = "bind" /\ outcome = "refused" THEN "binding_failed"
                 ELSE IF r.kind = "bind" /\ ~bind THEN "stale_binding"
                 ELSE IF outcome = "fine" THEN "dashboard"
                 ELSE IF outcome = "state_failed" THEN outcome ELSE "catalog_failed"
    IN
    /\ control # << >> /\ HostAt(h, "serving") /\ r.n = Head(control)
    /\ control' = Tail(control)
    /\ slot' = IF bind THEN slot + 1 ELSE slot
    /\ binds' = IF bind THEN Append(binds, r.n) ELSE binds
    /\ SetCall(c, IF r.handler = "waiting" THEN Answered(r, reply) ELSE r)
    /\ UNCHANGED <<calls, breaks>> /\ UNCHANGED processVars
  BY DEF ProcessControlRequest
<1> PICK r \in CallRecord : r = requests[c]
  BY DEF CallsInv
<1> PICK bind \in BOOLEAN : bind = (r.kind = "bind" /\ outcome # "refused" /\ ExpectedBinding(r.expected))
  OBVIOUS
<1> PICK reply : reply = IF r.kind = "bind" /\ outcome = "refused" THEN "binding_failed"
                 ELSE IF r.kind = "bind" /\ ~bind THEN "stale_binding"
                 ELSE IF outcome = "fine" THEN "dashboard"
                 ELSE IF outcome = "state_failed" THEN outcome ELSE "catalog_failed"
  OBVIOUS
<1> PICK q : q = IF r.handler = "waiting" THEN Answered(r, reply) ELSE r  OBVIOUS
<1> PICK t : t = Tail(control)  OBVIOUS
<1> PICK b : b = IF bind THEN Append(binds, r.n) ELSE binds  OBVIOUS
<1>1. /\ control # << >> /\ r.n = Head(control) /\ control' = t /\ binds' = b
      /\ slot' = (IF bind THEN slot + 1 ELSE slot) /\ requests' = [requests EXCEPT ![c] = q]
      /\ calls' = calls /\ bound' = bound /\ socketFile' = socketFile
  BY <1>0 DEF SetCall, processVars
<1>2. /\ bind => r.kind = "bind" /\ slot = r.expected
      /\ reply \in {"binding_failed", "stale_binding", "dashboard", "catalog_failed", "state_failed"}
      /\ reply = "dashboard" /\ r.kind = "bind" => bind
      /\ bind => reply \in {"dashboard", "catalog_failed", "state_failed"}
  BY DEF ExpectedBinding
<1>3. /\ CallSound(r) /\ Looks(r, socketFile, bound) /\ Answers(r, In(r.n, control), In(r.n, binds))
      /\ r.n <= calls /\ (\A k \in DOMAIN binds : binds[k] = r.n => k = r.expected + 1)
      /\ calls \in Nat /\ control \in Seq(1..calls) /\ control \in Seq(Nat) /\ binds \in Seq(1..calls)
      /\ (\A i, j \in DOMAIN control : control[i] = control[j] => i = j)
      /\ slot = Len(binds) /\ r.n \in Nat /\ r.expected \in Nat
  BY DEF CallsInv, CallSound, QueueSound, CallRecord
<1>4. /\ In(r.n, control) /\ ~In(r.n, t) /\ t \in Seq(1..calls)
      /\ (\A m \in Nat : m # r.n => (In(m, t) <=> In(m, control)))
      /\ (\A i, j \in DOMAIN t : t[i] = t[j] => i = j)
  <2>1. t \in Seq(1..calls)
    BY <1>1, <1>3
  <2>2. /\ In(Head(control), control) /\ ~In(Head(control), t)
        /\ (\A m \in Nat : m # Head(control) => (In(m, t) <=> In(m, control)))
        /\ (\A i, j \in DOMAIN t : t[i] = t[j] => i = j)
    BY <1>1, <1>3, TakenOnce
  <2> QED BY <2>1, <2>2, <1>1
<1> PICK made \in BOOLEAN : made = In(r.n, binds)  BY DEF In
<1> PICK queued \in BOOLEAN : queued = In(r.n, control)  BY DEF In
<1> PICK now \in BOOLEAN : now = In(r.n, b)  BY DEF In
<1> PICK still \in BOOLEAN : still = In(r.n, t)  BY DEF In
<1>5. ~made /\ r.reply = "none" /\ r.handler \in {"waiting", "closed"} /\ Sent(r) /\ r.n > 0
  <2>1. Answers(r, queued, made) /\ queued
    BY <1>3, <1>4
  <2>2. ~made /\ r.reply = "none" /\ r.handler \in {"waiting", "closed"} /\ Sent(r)
    BY <2>1 DEF Answers
  <2>3. r.n > 0
    BY <2>1, <2>2, <1>3 DEF Answers, Sent
  <2> QED BY <2>2, <2>3
<1>6. /\ b \in Seq(1..calls) /\ (now <=> bind) /\ (IF bind THEN slot + 1 ELSE slot) = Len(b)
      /\ (\A k \in DOMAIN b : b[k] = r.n => k = r.expected + 1)
      /\ (\A m \in Nat : m # r.n => (In(m, b) <=> In(m, binds)))
      /\ (\A m \in Nat : m # r.n => \A k \in DOMAIN b : b[k] = m => k \in DOMAIN binds /\ binds[k] = m)
  <2>1. CASE bind
    <3>1. b = Append(binds, r.n) /\ r.n \in 1..calls /\ Len(binds) = r.expected /\ ~In(r.n, binds)
      BY <2>1, <1>2, <1>3, <1>5
    <3>2. /\ b \in Seq(1..calls) /\ In(r.n, b) /\ Len(b) = Len(binds) + 1
          /\ \A k \in DOMAIN b : b[k] = r.n => k = r.expected + 1
          /\ \A m \in Nat : m # r.n => (In(m, b) <=> In(m, binds))
          /\ \A m \in Nat : m # r.n => \A k \in DOMAIN b : b[k] = m => k \in DOMAIN binds /\ binds[k] = m
      BY <3>1, <1>3, BoundOnce
    <3>3. now /\ Len(b) = slot + 1
      BY <3>2, <1>3
    <3> QED BY <2>1, <3>2, <3>3
  <2>2. CASE ~bind
    <3>1. b = binds
      BY <2>2
    <3>2. ~now /\ Len(b) = slot /\ b \in Seq(1..calls)
      BY <3>1, <1>3, <1>5
    <3>3. \A m \in Nat : In(m, b) <=> In(m, binds)
      BY <3>1
    <3> QED BY <2>2, <3>1, <3>2, <3>3, <1>3
  <2> QED BY <2>1, <2>2
<1>7. /\ q \in CallRecord /\ q.n = r.n /\ q.expected = r.expected /\ q.kind = r.kind /\ q.at = r.at
      /\ q.told = r.told /\ q.seen = r.seen /\ q.conn = r.conn
      /\ \/ r.handler = "waiting" /\ q.handler = "writing" /\ q.reply = reply
         \/ r.handler = "closed" /\ q.handler = "closed" /\ q.reply = r.reply
  <2>1. reply \in Replies
    BY <1>2 DEF Replies
  <2>2. CASE r.handler = "waiting"
    BY <2>1, <2>2, AnsweredFields
  <2>3. CASE r.handler = "closed"
    BY <2>3
  <2> QED BY <1>5, <2>2, <2>3
<1>8. Looks(q, socketFile, bound)
  BY <1>3, <1>7 DEF Looks
<1>9. Answers(q, still, now)
  <2>1. Answers(r, queued, made) /\ ~still /\ (now <=> bind) /\ queued
    BY <1>3, <1>4, <1>6
  <2>2. r.told # "dashboard" \/ r.kind # "bind"
    BY <2>1, <1>5 DEF Answers
  <2>3. CASE r.handler = "waiting" /\ q.handler = "writing" /\ q.reply = reply
    BY ONLY <1>2, <1>5, <1>7, <2>1, <2>2, <2>3, SMTT(30) DEF Answers, Sent, Refusals
  <2>4. CASE r.handler = "closed" /\ q.handler = "closed" /\ q.reply = r.reply
    BY ONLY <1>2, <1>5, <1>7, <2>1, <2>2, <2>4, SMTT(30) DEF Answers, Sent, Refusals
  <2> QED BY <1>7, <2>3, <2>4
<1>10. QueueSound'
  BY <1>1, <1>3, <1>4, <1>6 DEF QueueSound
<1>11. ASSUME NEW d \in Callers PROVE CallSound(requests[d])'
  <2>1. CASE d = c
    <3>1. requests'[d] = q
      BY <2>1, <1>1 DEF CallsInv
    <3>2. Answers(q, In(q.n, t), In(q.n, b))
      BY <1>7, <1>9
    <3>3. /\ Looks(q, socketFile', bound') /\ q.n <= calls'
          /\ Answers(q, In(q.n, control'), In(q.n, binds'))
          /\ \A k \in DOMAIN binds' : binds'[k] = q.n => k = q.expected + 1
      <4>1. Looks(q, socketFile', bound')
        BY <1>1, <1>8
      <4>2. q.n <= calls'
        BY <1>1, <1>3, <1>7
      <4>3. Answers(q, In(q.n, control'), In(q.n, binds'))
        BY <1>1, <3>2
      <4>4. \A k \in DOMAIN binds' : binds'[k] = q.n => k = q.expected + 1
        BY <1>1, <1>6, <1>7
      <4> QED BY <4>1, <4>2, <4>3, <4>4
    <3> QED BY <3>1, <3>3 DEF CallSound
  <2>2. CASE d # c
    <3> PICK p \in CallRecord : p = requests[d]
      BY DEF CallsInv
    <3>1. requests'[d] = p /\ CallSound(p) /\ p.n \in Nat /\ p.n # r.n
      <4>1. requests'[d] = p
        BY <2>2, <1>1 DEF CallsInv
      <4>2. CallSound(p)
        BY DEF CallsInv
      <4>3. p.n \in Nat /\ (p.n = r.n /\ p.n # 0 => c = d)
        BY DEF CallsInv, CallRecord
      <4>4. p.n # r.n
        BY <2>2, <4>3, <1>5
      <4> QED BY <4>1, <4>2, <4>3, <4>4
    <3>2. In(p.n, t) = In(p.n, control) /\ In(p.n, b) = In(p.n, binds)
      BY <1>4, <1>6, <3>1 DEF In
    <3>3. /\ Looks(p, socketFile, bound) /\ p.n <= calls
          /\ Answers(p, In(p.n, control), In(p.n, binds))
          /\ \A k \in DOMAIN binds : binds[k] = p.n => k = p.expected + 1
      BY <3>1 DEF CallSound
    <3>4. \A k \in DOMAIN b : b[k] = p.n => k = p.expected + 1
      BY <1>6, <3>1, <3>3
    <3>5. /\ Looks(p, socketFile', bound') /\ p.n <= calls'
          /\ Answers(p, In(p.n, control'), In(p.n, binds'))
          /\ \A k \in DOMAIN binds' : binds'[k] = p.n => k = p.expected + 1
      BY <1>1, <3>2, <3>3, <3>4
    <3> QED BY <3>1, <3>5 DEF CallSound
  <2> QED BY <2>1, <2>2
<1>12. requests' \in [Callers -> CallRecord] /\ \A d \in Callers : requests'[d].n = requests[d].n
  BY <1>1, <1>7 DEF CallsInv
<1> QED BY <1>10, <1>11, <1>12 DEF CallsInv
\* A new call, or none, takes the place of one that is over.
LEMMA ReplacedCall ==
  ASSUME CallsInv, ProcessInv, NEW c \in Callers, NEW q \in CallRecord,
         requests' = [requests EXCEPT ![c] = q],
         UNCHANGED <<socketFile, bound, control, slot, binds>>,
         \/ q.at = "idle" /\ q.n = 0 /\ calls' = calls
         \/ q.at = "validate" /\ q.n = calls + 1 /\ calls' = calls + 1,
         q.handler = "none", q.reply = "none", q.told = "none", q.seen = 0, q.conn = 0
  PROVE  CallsInv'
<1>0. /\ calls \in Nat /\ calls' \in Nat /\ calls <= calls' /\ bound \in Nat /\ socketFile \in Nat
      /\ control \in Seq(1..calls) /\ binds \in Seq(1..calls) /\ q.n <= calls'
  BY DEF CallsInv, QueueSound, ProcessInv
<1>1. /\ \A k \in DOMAIN control : control[k] \in 1..calls
      /\ \A k \in DOMAIN binds : binds[k] \in 1..calls
  BY <1>0
<1>2. ~In(q.n, control) /\ ~In(q.n, binds)
  BY <1>0, <1>1 DEF In
<1> PICK queued \in BOOLEAN : queued = In(q.n, control)  BY DEF In
<1> PICK made \in BOOLEAN : made = In(q.n, binds)  BY DEF In
<1>3. Answers(q, queued, made)
  BY <1>0, <1>2 DEF Answers, Sent, Refusals
<1>4. Looks(q, socketFile, bound)
  BY <1>0 DEF Looks
<1>5. QueueSound'
  <2>1. control \in Seq(1..calls') /\ binds \in Seq(1..calls')
    BY <1>0, <1>1
  <2> QED BY <1>0, <2>1 DEF CallsInv, QueueSound
<1>6. requests' \in [Callers -> CallRecord]
  BY DEF CallsInv
<1>7. ASSUME NEW d \in Callers PROVE CallSound(requests[d])'
  <2>1. CASE d = c
    <3>1. requests'[d] = q
      BY <2>1 DEF CallsInv
    <3>2. Answers(q, In(q.n, control), In(q.n, binds))
      BY <1>3
    <3>3. \A k \in DOMAIN binds : binds[k] # q.n
      BY <1>2 DEF In
    <3> QED BY <3>1, <3>2, <3>3, <1>0, <1>4 DEF CallSound
  <2>2. CASE d # c
    <3>1. requests'[d] = requests[d] /\ CallSound(requests[d]) /\ requests[d].n \in Nat
      BY <2>2 DEF CallsInv, CallRecord
    <3>2. requests[d].n <= calls'
      BY <3>1, <1>0 DEF CallSound
    <3> QED BY <3>1, <3>2 DEF CallSound
  <2> QED BY <2>1, <2>2
<1>8. ASSUME NEW d \in Callers, NEW e \in Callers, requests'[d].n = requests'[e].n, requests'[d].n # 0
      PROVE  d = e
  <2>1. \A f \in Callers : requests'[f] = IF f = c THEN q ELSE requests[f]
    BY DEF CallsInv
  <2>2. \A f \in Callers : requests[f].n \in Nat /\ requests[f].n <= calls
    BY DEF CallsInv, CallSound, CallRecord
  <2>3. CASE d = c \/ e = c
    BY <2>1, <2>2, <2>3, <1>0, <1>8
  <2>4. CASE d # c /\ e # c
    BY <2>1, <2>4, <1>8 DEF CallsInv
  <2> QED BY <2>3, <2>4
<1> QED BY <1>5, <1>6, <1>7, <1>8 DEF CallsInv

LEMMA NoCallFields ==
  /\ NoCall \in CallRecord /\ NoCall.at = "idle" /\ NoCall.n = 0 /\ NoCall.handler = "none"
  /\ NoCall.reply = "none" /\ NoCall.told = "none" /\ NoCall.seen = 0 /\ NoCall.conn = 0
BY DEF NoCall, CallRecord, CallStages, ThreadStages, Replies, Versions

LEMMA CallKeeps ==
  ASSUME CallsInv, ProcessInv, NEW c \in Callers, NEW kind \in Requests \cup {"health"}, NEW e \in Nat,
         Call(c, kind, e)
  PROVE  CallsInv'
<1> PICK n \in Nat : n = calls + 1
  BY DEF CallsInv, QueueSound
<1>1. PICK q : q = [n |-> n, at |-> "validate", kind |-> kind, expected |-> e, seen |-> 0, conn |-> 0,
                    handler |-> "none", reply |-> "none", version |-> "none", told |-> "none"]
  OBVIOUS
<1>4. /\ q.at = "validate" /\ q.n = calls + 1 /\ q.handler = "none"
      /\ q.reply = "none" /\ q.told = "none" /\ q.seen = 0 /\ q.conn = 0
  BY <1>1
<1>5. /\ "validate" \in CallStages /\ "none" \in ThreadStages /\ "none" \in Replies /\ "none" \in Versions
      /\ kind \in Requests \cup {"none", "health"} /\ 0 \in Nat
      /\ "none" \in Replies \cup {"offline", "unsafe", "nothing"}
  BY DEF CallStages, ThreadStages, Replies, Versions
<1>2. q \in CallRecord
  BY <1>1, <1>5 DEF CallRecord
<1>3. requests' = [requests EXCEPT ![c] = q] /\ calls' = calls + 1
      /\ UNCHANGED <<socketFile, bound, control, slot, binds>>
  <2> PICK p : p = [NoCall EXCEPT !.n = n, !.at = "validate", !.kind = kind, !.expected = e]  OBVIOUS
  <2>1. p = [n |-> n, at |-> "validate", kind |-> kind, expected |-> e, seen |-> 0, conn |-> 0,
             handler |-> "none", reply |-> "none", version |-> "none", told |-> "none"]
    BY DEF NoCall
  <2>2. p = q
    BY <1>1, <2>1
  <2> QED BY <2>2 DEF Call, SetCall, processVars
<1> QED BY <1>2, <1>3, <1>4, ReplacedCall

-----------------------------------------------------------------------------
(* The theorems about the socket.                                          *)

SocketInv == ProcessInv /\ CallsInv

LEMMA SocketInvInit == SocketInit => SocketInv
<1> SUFFICES ASSUME SocketInit PROVE SocketInv
  OBVIOUS
<1>1. ProcessInv
  <2>1. hosts \in [HostProcesses -> HostRecord]
    BY DownIsRecord DEF SocketInit
  <2>2. \A h \in HostProcesses : hosts[h].at = "down" /\ hosts[h].id = 0
    BY DownIsRecord DEF SocketInit
  <2> QED BY <2>1, <2>2 DEF SocketInit, ProcessInv, HostSound, Bound
<1>2. QueueSound
  BY DEF SocketInit, QueueSound
<1>3. requests \in [Callers -> CallRecord] /\ \A c \in Callers : requests[c] = NoCall
  BY NoCallFields DEF SocketInit
<1>4. CallSound(NoCall)
  <2>1. DOMAIN control = {} /\ DOMAIN binds = {} /\ calls = 0 /\ socketFile = 0 /\ bound = 0
    BY DEF SocketInit
  <2>2. ~In(NoCall.n, control) /\ ~In(NoCall.n, binds)
    BY <2>1 DEF In
  <2> PICK queued \in BOOLEAN : queued = In(NoCall.n, control)  BY DEF In
  <2> PICK made \in BOOLEAN : made = In(NoCall.n, binds)  BY DEF In
  <2>3. Answers(NoCall, queued, made)
    BY <2>2, NoCallFields DEF Answers
  <2>4. Looks(NoCall, socketFile, bound)
    BY <2>1, NoCallFields DEF Looks
  <2> QED BY <2>1, <2>3, <2>4, NoCallFields DEF CallSound
<1>5. CallsInv
  BY <1>2, <1>3, <1>4, NoCallFields DEF CallsInv
<1> QED BY <1>1, <1>5 DEF SocketInv

LEMMA ProcessesStay ==
  ASSUME ProcessInv, UNCHANGED processVars
  PROVE  ProcessInv'
BY DEF ProcessInv, processVars, HostSound

LEMMA SocketInvKept ==
  ASSUME SocketInv, [SocketNext]_socketVars
  PROVE  SocketInv'
<1> USE DEF SocketInv
<1>1. CASE \E h \in HostProcesses : HostSteps(h) \/ OpenHost(h, "old") \/ StopServing(h)
  BY <1>1, HostStepKeepsCalls DEF Versions
<1>2. CASE \E c \in Callers : CallSteps(c)
  <2>1. PICK c \in Callers : CallSteps(c)
    BY <1>2
  <2>2. UNCHANGED processVars
    BY <2>1 DEF CallSteps, CallStep, ValidateSocket, Connect, CompareSocket, SendRequest, ReadResponse,
       CallTimesOut, Accept, HandleClient, WriteReply, HandlerTimesOut
  <2>3. CallsInv'
    BY <2>1, CallStepKeeps, HandleClientKeeps
  <2> QED BY <2>2, <2>3, ProcessesStay
<1>3. CASE \E c \in Callers, kind \in Requests, e \in {0, slot} : Call(c, kind, e)
  <2>1. PICK c \in Callers, kind \in Requests, e \in {0, slot} : Call(c, kind, e)
    BY <1>3
  <2>2. e \in Nat
    BY DEF CallsInv, QueueSound
  <2>3. CallsInv'
    BY <2>1, <2>2, CallKeeps
  <2>4. UNCHANGED processVars
    BY <2>1 DEF Call
  <2> QED BY <2>3, <2>4, ProcessesStay
<1>4. CASE ProcessControlRequest
  <2>1. UNCHANGED processVars
    BY <1>4 DEF ProcessControlRequest
  <2> QED BY <1>4, <2>1, ProcessKeeps, ProcessesStay
<1>5. CASE UNCHANGED socketVars
  <2>1. ProcessInv'
    BY <1>5, ProcessesStay DEF socketVars
  <2>2. UNCHANGED <<socketFile, bound, requests, control, slot, binds, calls>>
    BY <1>5 DEF socketVars, processVars, callVars
  <2>3. CallsInv'
    BY <2>2 DEF CallsInv, CallSound, QueueSound
  <2> QED BY <2>1, <2>3
<1> QED BY <1>1, <1>2, <1>3, <1>4, <1>5 DEF SocketNext

\* The inductive invariant of the socket: one process holds the lock of the store and the
\* newest socket is its own, a call sees sockets in the order in which they were bound, and
\* what was queued or made was sent (health.rs bind_private_socket_with_hook, query_host,
\* forward_control, process_control_request).
THEOREM SocketInvariant == SocketSpec => []SocketInv
BY SocketInvInit, SocketInvKept, PTL DEF SocketSpec

LEMMA SocketInvTells == SocketInv => ToldIsDone
<1> SUFFICES ASSUME SocketInv PROVE ToldIsDone
  OBVIOUS
<1> USE DEF SocketInv
<1>1. ASSUME NEW c \in Callers, requests[c].kind = "bind"
      PROVE  LET r == requests[c]
                 made == {k \in DOMAIN binds : binds[k] = r.n}
             IN /\ Cardinality(made) <= 1
                /\ made # {} => made = {r.expected + 1} /\ slot >= r.expected + 1
                /\ r.told \in Refusals => made = {}
                /\ r.told = "dashboard" => made # {}
  <2> PICK r \in CallRecord : r = requests[c]
    BY DEF CallsInv
  <2> PICK made : made = {k \in DOMAIN binds : binds[k] = r.n}  OBVIOUS
  <2> PICK done \in BOOLEAN : done = In(r.n, binds)  BY DEF In
  <2> PICK queued \in BOOLEAN : queued = In(r.n, control)  BY DEF In
  <2>1. Answers(r, queued, done) /\ \A k \in DOMAIN binds : binds[k] = r.n => k = r.expected + 1
    BY DEF CallsInv, CallSound
  <2>2. made # {} <=> done
    BY DEF In
  <2>3. made # {} => made = {r.expected + 1} /\ r.expected + 1 \in DOMAIN binds
    BY <2>1
  <2>4. binds \in Seq(1..calls) /\ slot = Len(binds) /\ r.expected \in Nat
    BY DEF CallsInv, QueueSound, CallRecord
  <2>5. made # {} => slot >= r.expected + 1
    BY <2>3, <2>4
  <2>6. Cardinality(made) <= 1
    <3>1. CASE made = {}
      BY <3>1, FS_EmptySet
    <3>2. CASE made # {}
      BY <3>2, <2>3, FS_Singleton
    <3> QED BY <3>1, <3>2
  <2>7. (r.told \in Refusals => made = {}) /\ (r.told = "dashboard" => made # {})
    BY <1>1, <2>1, <2>2 DEF Answers, Sent, Refusals
  <2> QED BY <2>3, <2>5, <2>6, <2>7
<1>2. \A c \in Callers : requests[c].at \in {"send", "await"} => requests[c].conn = requests[c].seen
  BY DEF CallsInv, CallSound, Looks
<1>3. \A h \in HostProcesses : HostAt(h, "serving") => socketFile = hosts[h].id /\ instanceLock = h
  BY DEF ProcessInv, HostSound, HostAt, Bound
<1> QED BY <1>1, <1>2, <1>3 DEF ToldIsDone

\* What a caller is told over the Host's socket is what was done: a refused bind is never
\* made later, an answered one was made once and from the generation the caller had named,
\* and the answer comes from the Host whose socket the caller had looked at, whatever Hosts
\* start, stop and die meanwhile and whichever deadlines pass (health.rs).
THEOREM SocketTells == SocketSpec => []ToldIsDone
BY SocketInvariant, SocketInvTells, PTL
-----------------------------------------------------------------------------
(* The deployment.                                                         *)

DeployStages == {"idle", "look", "look upgrade", "bootout", "stopped", "binary", "plist", "bootstrap",
                 "kickstart", "healthy", "remove", "remove binary", "gone"}
Results == {"none", "ok", "refused", "activation_failed", "rollback_failed", "failed", "killed",
            "removed", "stop_failed"}
DeployRecord ==
  [at : DeployStages, phase : {"none", "activate", "undo", "remove"}, binary : Versions, plist : Versions,
   loaded : BOOLEAN, health : [id : Nat, version : Versions], result : Results]

\* No Host serves, and none will before launchd starts one.
Quiet == ~loaded /\ \A h \in HostProcesses : hosts[h].at \in {"down", "drop", "exit"}

\* Every Host that serves or will serve is of the installed version.
AllCurrent == \A h \in HostProcesses : hosts[h].at \in {"down", "drop", "exit"} \/ hosts[h].version = binary

\* The files and the service, by how far the deployment is.
DeploySound ==
  LET d == deploy IN
  /\ d.at \in {"look", "look upgrade"} =>
       d.phase = "activate" /\ binary = d.binary /\ plist = d.plist /\ loaded = d.loaded
  /\ d.phase = "undo" /\ d.at \in {"binary", "plist"} => Quiet
  /\ d.phase = "undo" /\ d.at \in {"plist", "bootstrap", "kickstart", "healthy"} => binary = d.binary
  /\ d.phase = "undo" /\ d.at \in {"bootstrap", "kickstart", "healthy"} => plist = d.plist /\ d.loaded
  /\ d.phase # "undo" /\ d.at \in {"plist", "bootstrap", "kickstart", "healthy"} => binary = "new"
  /\ d.phase # "undo" /\ d.at \in {"bootstrap", "kickstart", "healthy"} => plist = "new"
  /\ d.at \in {"kickstart", "healthy"} => loaded
  /\ d.at = "healthy" => AllCurrent

Concluded ==
  DeployAt("idle") =>
    /\ deploy.result = "ok" => Installed("new", TRUE)
    /\ deploy.result \in {"refused", "activation_failed"} =>
         binary = deploy.binary /\ plist = deploy.plist /\ loaded = deploy.loaded
    /\ deploy.result \in {"ok", "activation_failed"} => AllCurrent

DeployInv ==
  /\ deploy \in DeployRecord /\ binary \in Versions /\ plist \in Versions /\ loaded \in BOOLEAN
  /\ DeploySound /\ Concluded

LaunchInv == SocketInv /\ DeployInv
\* A Host that is neither stopping nor gone was so before, unless launchd started it.
HostsFollow ==
  \A h \in HostProcesses :
    \/ hosts'[h].at \in {"down", "drop", "exit"}
    \/ hosts[h].at \notin {"down", "drop", "exit"} /\ hosts'[h].version = hosts[h].version
    \/ loaded /\ hosts'[h].version = binary

LEMMA AgentStays ==
  ASSUME DeployInv, UNCHANGED agentVars, HostsFollow
  PROVE  DeployInv'
<1>1. binary' = binary /\ plist' = plist /\ loaded' = loaded /\ deploy' = deploy
  BY DEF agentVars
<1>2. Quiet => Quiet'
  BY <1>1 DEF Quiet, HostsFollow
<1>3. AllCurrent => AllCurrent'
  BY <1>1 DEF AllCurrent, HostsFollow
<1> QED BY <1>1, <1>2, <1>3 DEF DeployInv, DeploySound, Concluded, DeployAt, Installed

LEMMA HostStepFollows ==
  ASSUME ProcessInv, NEW h \in HostProcesses, HostSteps(h) \/ StopServing(h) \/ Perish(h)
  PROVE  HostsFollow
<1> USE DEF HostAt
<1>0. hosts[h] \in HostRecord /\ hosts \in [HostProcesses -> HostRecord]
  BY DEF ProcessInv
<1>1. ASSUME NEW s, HostGoes(h, s), hosts[h].at \notin {"down", "drop", "exit"} \/ s = "exit"
      PROVE  HostsFollow
  BY <1>0, <1>1 DEF HostGoes, HostsFollow, HostRecord
<1>2. ASSUME Exit(h) PROVE HostsFollow
  BY <1>0, <1>2 DEF Exit, HostsFollow, Down
<1>3. CASE LookForSocket(h)
  BY <1>1, <1>3 DEF LookForSocket
<1>4. CASE RetireSocket(h)
  BY <1>1, <1>4 DEF RetireSocket
<1>5. CASE BindTemporary(h)
  <2> PICK b \in Nat : b = bound + 1
    BY DEF ProcessInv
  <2>1. hosts' = [hosts EXCEPT ![h].id = b, ![h].at = "publish"] /\ hosts[h].at = "bind"
    BY <1>5 DEF BindTemporary
  <2>2. \A g \in HostProcesses : hosts'[g].version = hosts[g].version /\ (g # h => hosts'[g] = hosts[g])
    BY <1>0, <2>1 DEF HostRecord
  <2> QED BY <2>1, <2>2 DEF HostsFollow
<1>6. CASE PublishSocket(h)
  BY <1>1, <1>6 DEF PublishSocket
<1>7. CASE DropSocket(h)
  BY <1>1, <1>7 DEF DropSocket
<1>8. CASE HostExits(h) \/ OpenFails(h) \/ HostPerishes(h) \/ Perish(h)
  BY <1>2, <1>8 DEF HostExits, OpenFails, HostPerishes, Perish
<1>9. CASE StopServing(h)
  BY <1>1, <1>9 DEF StopServing
<1> QED BY <1>3, <1>4, <1>5, <1>6, <1>7, <1>8, <1>9 DEF HostSteps

LEMMA StartFollows ==
  ASSUME ProcessInv, NEW h \in HostProcesses, LaunchdStarts(h)
  PROVE  HostsFollow
<1>1. hosts' = [hosts EXCEPT ![h] = [at |-> "look", id |-> 0, version |-> binary]] /\ loaded
  BY DEF LaunchdStarts, OpenHost
<1> QED BY <1>1 DEF HostsFollow, ProcessInv

LEMMA NoDeployIsRecord == NoDeploy \in DeployRecord /\ NoDeploy.at = "idle"
BY DEF NoDeploy, DeployRecord, DeployStages, Results, Versions

\* The steps of a deployment leave the processes alone, but for "kickstart".
LEMMA DeployStepKeeps ==
  ASSUME ProcessInv, CallsInv, DeployInv, hosts' = hosts,
         \/ \E mode \in {"install", "upgrade"} : BeginDeploy(mode)
         \/ BootOut \/ WaitStopped \/ WriteBinary \/ WritePlist \/ Bootstrap
         \/ CurrentHealth \/ WaitHealthy \/ WaitExpires \/ DeployStepFails \/ DeployKilled
         \/ BeginUninstall \/ RemoveFiles
  PROVE  DeployInv'
<1> PICK d \in DeployRecord : d = deploy
  BY DEF DeployInv
<1>0. /\ d.at \in DeployStages /\ d.phase \in {"none", "activate", "undo", "remove"}
      /\ d.binary \in Versions /\ d.plist \in Versions /\ d.loaded \in BOOLEAN /\ d.result \in Results
      /\ d.health \in [id : Nat, version : Versions]
      /\ binary \in Versions /\ plist \in Versions /\ loaded \in BOOLEAN /\ "new" \in Versions /\ "none" \in Versions
  BY DEF DeployInv, DeployRecord, Versions
<1> USE DEF DeployAt
<1>1. ASSUME NEW s \in DeployStages, Onward(s) PROVE
        /\ deploy' \in DeployRecord /\ deploy'.at = s /\ deploy'.phase = d.phase /\ deploy'.binary = d.binary
        /\ deploy'.plist = d.plist /\ deploy'.loaded = d.loaded /\ deploy'.result = d.result
  BY <1>1 DEF Onward, DeployRecord
<1>2. ASSUME NEW r \in Results, Result(r) PROVE
        /\ deploy' \in DeployRecord /\ deploy'.at = "idle" /\ deploy'.phase = d.phase /\ deploy'.binary = d.binary
        /\ deploy'.plist = d.plist /\ deploy'.loaded = d.loaded /\ deploy'.result = r
  <2>1. "idle" \in DeployStages
    BY DEF DeployStages
  <2>2. deploy' \in DeployRecord
    BY <1>2, <2>1 DEF Result, DeployRecord
  <2> QED BY <1>2, <2>2 DEF Result, DeployRecord
\* A concluded deployment that left no promise to keep.
<1>3. ASSUME NEW r \in Results, Result(r), r \notin {"ok", "refused", "activation_failed"},
             binary' \in Versions, plist' \in Versions, loaded' \in BOOLEAN
      PROVE  DeployInv'
  BY <1>2, <1>3 DEF DeployInv, DeploySound, Concluded
<1>4. ASSUME Undo, binary' = binary, plist' = plist, loaded' = loaded PROVE DeployInv'
  <2>1. CASE Undoing
    BY <1>0, <1>3, <1>4, <2>1 DEF Undo, Results
  <2>2. CASE ~Undoing
    <3> PICK s \in {"bootout", "stopped"} : s = IF loaded THEN "bootout" ELSE "stopped"
      OBVIOUS
    <3>0. s \in DeployStages /\ "undo" \in {"none", "activate", "undo", "remove"}
      BY DEF DeployStages
    <3>1. deploy' = [d EXCEPT !.phase = "undo", !.at = s]
      BY <1>4, <2>2 DEF Undo
    <3>2. deploy' \in DeployRecord
      BY <3>0, <3>1 DEF DeployRecord
    <3>3. deploy'.at = s /\ deploy'.phase = "undo"
      BY <3>1 DEF DeployRecord
    <3> QED BY <1>0, <1>4, <3>2, <3>3 DEF DeployInv, DeploySound, Concluded
  <2> QED BY <2>1, <2>2
<1>5. CASE \E mode \in {"install", "upgrade"} : BeginDeploy(mode)
  <2>1. PICK e : e = [at |-> "idle", phase |-> "activate", binary |-> binary, plist |-> plist,
                      loaded |-> loaded, health |-> [id |-> 0, version |-> "none"], result |-> "none"]
    OBVIOUS
  <2>2. /\ "idle" \in DeployStages /\ "activate" \in {"none", "activate", "undo", "remove"}
        /\ "none" \in Results /\ "refused" \in Results /\ 0 \in Nat
        /\ "look" \in DeployStages /\ "look upgrade" \in DeployStages
    BY DEF DeployStages, Results
  <2>3. e \in DeployRecord
    BY <1>0, <2>1, <2>2 DEF DeployRecord
  <2>4. UNCHANGED <<binary, plist, loaded>>
    BY <1>5 DEF BeginDeploy
  <2>5. \/ deploy' = [e EXCEPT !.result = "refused"]
        \/ \E s \in {"look", "look upgrade"} : deploy' = [e EXCEPT !.at = s]
    <3> PICK b : b = [NoDeploy EXCEPT !.phase = "activate", !.binary = binary, !.plist = plist, !.loaded = loaded]
      OBVIOUS
    <3>1. b = [at |-> "idle", phase |-> "activate", binary |-> binary, plist |-> plist,
               loaded |-> loaded, health |-> [id |-> 0, version |-> "none"], result |-> "none"]
      BY DEF NoDeploy
    <3>2. b = e
      BY <2>1, <3>1
    <3>3. \/ deploy' = [b EXCEPT !.result = "refused"]
          \/ \E s \in {"look", "look upgrade"} : deploy' = [b EXCEPT !.at = s]
      BY <1>5 DEF BeginDeploy
    <3> QED BY <3>2, <3>3
  <2>6. e.at = "idle" /\ e.phase = "activate" /\ e.binary = binary /\ e.plist = plist /\ e.loaded = loaded
    BY <2>1
  <2>7. CASE deploy' = [e EXCEPT !.result = "refused"]
    <3>1. /\ deploy' \in DeployRecord /\ deploy'.at = "idle" /\ deploy'.result = "refused"
          /\ deploy'.binary = binary /\ deploy'.plist = plist /\ deploy'.loaded = loaded
      BY <2>2, <2>3, <2>6, <2>7 DEF DeployRecord
    <3> QED BY <1>0, <2>4, <3>1 DEF DeployInv, DeploySound, Concluded
  <2>8. CASE \E s \in {"look", "look upgrade"} : deploy' = [e EXCEPT !.at = s]
    <3>1. PICK s \in {"look", "look upgrade"} : deploy' = [e EXCEPT !.at = s]
      BY <2>8
    <3>2. /\ deploy' \in DeployRecord /\ deploy'.at = s /\ deploy'.phase = "activate"
          /\ deploy'.binary = binary /\ deploy'.plist = plist /\ deploy'.loaded = loaded
      BY <2>2, <2>3, <2>6, <3>1 DEF DeployRecord
    <3> QED BY <1>0, <2>4, <3>2 DEF DeployInv, DeploySound, Concluded
  <2> QED BY <2>5, <2>7, <2>8
<1>6. CASE BootOut
  <2>0. "stopped" \in DeployStages
    BY DEF DeployStages
  <2>1. d.at = "bootout" /\ Onward("stopped") /\ loaded' = FALSE /\ binary' = binary /\ plist' = plist
    BY <1>6 DEF BootOut, FilesKept
  <2>2. deploy' \in DeployRecord /\ deploy'.at = "stopped" /\ deploy'.phase = d.phase
    BY <1>1, <2>0, <2>1
  <2> QED BY <1>0, <2>1, <2>2 DEF DeployInv, DeploySound, Concluded
<1>7. CASE WaitStopped
  <2>0. "binary" \in DeployStages
    BY DEF DeployStages
  <2>1. d.at = "stopped" /\ Onward("binary") /\ UNCHANGED <<loaded, binary, plist>> /\ ~loaded /\ socketFile = 0
        /\ \A h \in HostProcesses : hosts[h].at \notin {"look", "retire", "bind", "publish"}
    BY <1>7 DEF WaitStopped
  <2>2. deploy' \in DeployRecord /\ deploy'.at = "binary" /\ deploy'.phase = d.phase
    BY <1>1, <2>0, <2>1
  <2>3. \A h \in HostProcesses : hosts[h].at \in {"down", "drop", "exit"}
    BY <2>1 DEF ProcessInv, HostSound, HostRecord, Starting, Bound
  <2>4. Quiet'
    BY <2>1, <2>3 DEF Quiet
  <2> QED BY <1>0, <2>1, <2>2, <2>4 DEF DeployInv, DeploySound, Concluded
<1>8. CASE WriteBinary
  <2>0. "plist" \in DeployStages
    BY DEF DeployStages
  <2>1. d.at = "binary" /\ Onward("plist") /\ UNCHANGED <<loaded, plist>>
        /\ binary' = IF d.phase = "undo" THEN d.binary ELSE "new"
    BY <1>8 DEF WriteBinary, Undoing
  <2>2. deploy' \in DeployRecord /\ deploy'.at = "plist" /\ deploy'.phase = d.phase /\ deploy'.binary = d.binary
    BY <1>1, <2>0, <2>1
  <2>3. d.phase = "undo" => Quiet'
    BY <2>1 DEF DeployInv, DeploySound, Quiet
  <2> QED BY <1>0, <2>1, <2>2, <2>3 DEF DeployInv, DeploySound, Concluded
<1>9. CASE WritePlist
  <2>0. "bootstrap" \in DeployStages /\ {"activation_failed", "rollback_failed"} \subseteq Results
    BY DEF DeployStages, Results
  <2>1. d.at = "plist" /\ UNCHANGED <<loaded, binary>>
        /\ plist' = IF d.phase = "undo" THEN d.plist ELSE "new"
    BY <1>9 DEF WritePlist, Undoing
  <2>2. CASE d.phase = "undo" /\ ~d.loaded /\ Result("activation_failed")
    <3>1. Quiet /\ binary = d.binary
      BY <2>1, <2>2 DEF DeployInv, DeploySound
    <3>2. AllCurrent' /\ loaded = FALSE
      BY <3>1 DEF Quiet, AllCurrent
    <3> QED BY <1>0, <1>2, <2>0, <2>1, <2>2, <3>1, <3>2 DEF DeployInv, DeploySound, Concluded
  <2>3. CASE Result("rollback_failed")
    BY <1>0, <1>3, <2>0, <2>1, <2>3
  <2>4. CASE Onward("bootstrap") /\ (d.phase = "undo" => d.loaded)
    <3>1. /\ deploy' \in DeployRecord /\ deploy'.at = "bootstrap" /\ deploy'.phase = d.phase
          /\ deploy'.binary = d.binary /\ deploy'.plist = d.plist /\ deploy'.loaded = d.loaded
      BY <1>1, <2>0, <2>4
    <3> QED BY <1>0, <2>1, <2>4, <3>1 DEF DeployInv, DeploySound, Concluded
  <2> QED BY <1>9, <2>2, <2>3, <2>4 DEF WritePlist, Undoing
<1>10. CASE Bootstrap
  <2>0. "kickstart" \in DeployStages
    BY DEF DeployStages
  <2>1. d.at = "bootstrap" /\ Onward("kickstart") /\ loaded' = TRUE /\ UNCHANGED <<binary, plist>>
    BY <1>10 DEF Bootstrap, FilesKept
  <2>2. /\ deploy' \in DeployRecord /\ deploy'.at = "kickstart" /\ deploy'.phase = d.phase
        /\ deploy'.binary = d.binary /\ deploy'.plist = d.plist /\ deploy'.loaded = d.loaded
    BY <1>1, <2>0, <2>1
  <2> QED BY <1>0, <2>1, <2>2 DEF DeployInv, DeploySound, Concluded
<1>11. CASE CurrentHealth
  <2>1. /\ d.at \in {"look", "look upgrade"} /\ UNCHANGED <<binary, plist, loaded>>
        /\ \/ Result("refused")
           \/ \E s \in {"bootout", "binary"}, healthy \in BOOLEAN :
                deploy' = [d EXCEPT !.at = s,
                             !.health = IF healthy THEN [id |-> HealthCall.conn, version |-> HealthCall.version] ELSE @]
    BY <1>11 DEF CurrentHealth, Result
  <2>2. d.phase = "activate" /\ binary = d.binary /\ plist = d.plist /\ loaded = d.loaded
    BY <2>1 DEF DeployInv, DeploySound
  <2>3. CASE Result("refused")
    <3>1. "refused" \in Results
      BY DEF Results
    <3> QED BY <1>0, <1>2, <2>1, <2>2, <2>3, <3>1 DEF DeployInv, DeploySound, Concluded
  <2>4. CASE \E s \in {"bootout", "binary"}, healthy \in BOOLEAN :
               deploy' = [d EXCEPT !.at = s,
                            !.health = IF healthy THEN [id |-> HealthCall.conn, version |-> HealthCall.version] ELSE @]
    <3>1. HealthCall \in CallRecord
      BY DeployConstants DEF HealthCall, CallsInv
    <3>2. [id |-> HealthCall.conn, version |-> HealthCall.version] \in [id : Nat, version : Versions]
      BY <3>1 DEF CallRecord
    <3>3. PICK s \in {"bootout", "binary"}, g \in [id : Nat, version : Versions] :
            deploy' = [d EXCEPT !.at = s, !.health = g]
      BY <1>0, <2>4, <3>2
    <3>4. s \in DeployStages
      BY DEF DeployStages
    <3>5. deploy' \in DeployRecord
      BY <3>3, <3>4 DEF DeployRecord
    <3>6. deploy'.at = s /\ deploy'.phase = d.phase
      BY <3>3 DEF DeployRecord
    <3> QED BY <1>0, <2>1, <2>2, <3>5, <3>6 DEF DeployInv, DeploySound, Concluded
  <2> QED BY <2>1, <2>3, <2>4
<1>12. CASE WaitHealthy
  <2>1. /\ d.at = "healthy" /\ UNCHANGED <<binary, plist, loaded>>
        /\ \/ Result(IF Undoing THEN "activation_failed" ELSE "ok")
           \/ deploy' = d
           \/ Undo
    BY <1>12 DEF WaitHealthy
  <2>2. CASE Undo
    BY <1>4, <2>1, <2>2
  <2>3. CASE deploy' = d
    <3>1. AllCurrent' /\ (Quiet <=> Quiet')
      BY <2>1 DEF DeployInv, DeploySound, AllCurrent, Quiet
    <3> QED BY <2>1, <2>3, <3>1 DEF DeployInv, DeploySound, Concluded
  <2>4. CASE Result(IF Undoing THEN "activation_failed" ELSE "ok")
    <3>1. AllCurrent' /\ loaded
      BY <2>1 DEF DeployInv, DeploySound, AllCurrent
    <3>2. {"activation_failed", "ok"} \subseteq Results
      BY DEF Results
    <3>3. CASE d.phase = "undo"
      <4>1. Result("activation_failed")
        BY <2>4, <3>3 DEF Undoing
      <4>2. binary = d.binary /\ plist = d.plist /\ loaded = d.loaded
        BY <1>0, <2>1, <3>1, <3>3 DEF DeployInv, DeploySound
      <4> QED BY <1>0, <1>2, <2>1, <3>1, <3>2, <4>1, <4>2 DEF DeployInv, DeploySound, Concluded
    <3>4. CASE d.phase # "undo"
      <4>1. Result("ok")
        BY <2>4, <3>4 DEF Undoing
      <4>2. Installed("new", TRUE)'
        BY <1>0, <2>1, <3>1, <3>4 DEF DeployInv, DeploySound, Installed
      <4> QED BY <1>0, <1>2, <2>1, <3>1, <3>2, <4>1, <4>2 DEF DeployInv, DeploySound, Concluded
    <3> QED BY <3>3, <3>4
  <2> QED BY <2>1, <2>2, <2>3, <2>4
<1>13. CASE WaitExpires
  BY <1>4, <1>13 DEF WaitExpires
<1>14. CASE DeployStepFails
  <2>1. UNCHANGED <<binary, plist, loaded>> /\ (Result("failed") \/ Undo)
    BY <1>14 DEF DeployStepFails
  <2> QED BY <1>0, <1>3, <1>4, <2>1 DEF Results
<1>15. CASE DeployKilled
  <2>1. UNCHANGED <<binary, plist, loaded>> /\ deploy' = [NoDeploy EXCEPT !.result = "killed"]
    BY <1>15 DEF DeployKilled
  <2>2. deploy' \in DeployRecord /\ deploy'.at = "idle" /\ deploy'.result = "killed"
    <3>1. "killed" \in Results
      BY DEF Results
    <3> QED BY <2>1, <3>1, NoDeployIsRecord DEF DeployRecord
  <2> QED BY <1>0, <2>1, <2>2 DEF DeployInv, DeploySound, Concluded
<1>16. CASE BeginUninstall
  <2>1. /\ UNCHANGED <<binary, plist>> /\ loaded' = FALSE
        /\ deploy' = [NoDeploy EXCEPT !.at = "remove", !.phase = "remove"]
    BY <1>16 DEF BeginUninstall, FilesKept
  <2>2. deploy' \in DeployRecord /\ deploy'.at = "remove" /\ deploy'.phase = "remove"
    <3>1. "remove" \in DeployStages /\ "remove" \in {"none", "activate", "undo", "remove"}
      BY DEF DeployStages
    <3>2. deploy' \in DeployRecord
      BY <2>1, <3>1, NoDeployIsRecord DEF DeployRecord
    <3> QED BY <2>1, <3>2, NoDeployIsRecord DEF DeployRecord
  <2> QED BY <1>0, <2>1, <2>2 DEF DeployInv, DeploySound, Concluded
<1>17. CASE RemoveFiles
  <2>0. {"remove binary", "gone"} \subseteq DeployStages /\ {"removed", "stop_failed"} \subseteq Results
    BY DEF DeployStages, Results
  <2>1. binary' \in Versions /\ plist' \in Versions /\ loaded' = loaded
    BY <1>0, <1>17 DEF RemoveFiles, FilesKept
  <2>2. ASSUME NEW s \in {"remove binary", "gone"}, Onward(s) PROVE DeployInv'
    BY <1>0, <1>1, <2>0, <2>1, <2>2 DEF DeployInv, DeploySound, Concluded
  <2>3. \/ Onward("remove binary") \/ Onward("gone")
        \/ Result(IF socketFile = 0 THEN "removed" ELSE "stop_failed")
    BY <1>17 DEF RemoveFiles
  <2> QED BY <1>0, <1>3, <2>0, <2>1, <2>2, <2>3
<1> QED BY <1>5, <1>6, <1>7, <1>8, <1>9, <1>10, <1>11, <1>12, <1>13, <1>14, <1>15, <1>16, <1>17
\* "kickstart -k" kills the Host that runs: what serves afterwards was started from the
\* installed files.
LEMMA KickStartKeeps ==
  ASSUME ProcessInv, DeployInv, KickStart
  PROVE  DeployInv'
<1>1. UNCHANGED <<binary, plist, loaded>> /\ deploy.at = "kickstart"
      /\ deploy' = [deploy EXCEPT !.at = "healthy"] /\ deploy \in DeployRecord
  BY DEF KickStart, DeployAt, Onward, DeployInv
<1>2. /\ deploy' \in DeployRecord /\ deploy'.at = "healthy" /\ deploy'.phase = deploy.phase
      /\ deploy'.binary = deploy.binary /\ deploy'.plist = deploy.plist /\ deploy'.loaded = deploy.loaded
  BY <1>1 DEF DeployRecord, DeployStages
<1>3. \A h \in HostProcesses : hosts'[h].at = "down"
  <2>1. CASE \E h \in HostProcesses : Perish(h)
    <3>1. PICK h \in HostProcesses : Perish(h)
      BY <2>1
    <3>2. hosts' = [hosts EXCEPT ![h] = Down] /\ hosts[h].at # "down"
      BY <3>1 DEF Perish, Exit, HostAt
    <3> QED BY <3>2, OneHost, DownIsRecord DEF ProcessInv
  <2>2. CASE (\A h \in HostProcesses : HostAt(h, "down")) /\ UNCHANGED socketVars
    BY <2>2 DEF HostAt, socketVars, processVars
  <2> QED BY <2>1, <2>2 DEF KickStart
<1>4. AllCurrent'
  BY <1>3 DEF AllCurrent
<1> QED BY <1>1, <1>2, <1>4 DEF DeployInv, DeploySound, Concluded, DeployAt

\* What a deployment does to the calls: its own is asked or forgotten.
LEMMA DeployStepKeepsSocket ==
  ASSUME SocketInv, DeploySteps
  PROVE  SocketInv'
<1> USE DEF SocketInv
<1>1. CASE AskHealth
  <2>1. Call(Deployer, "health", 0) /\ UNCHANGED processVars
    BY <1>1 DEF AskHealth, Call
  <2> QED BY <2>1, CallKeeps, ProcessesStay, DeployConstants
<1>2. CASE \E h \in HostProcesses : Perish(h)
  BY <1>2, HostStepKeepsCalls
<1>3. ASSUME UNCHANGED processVars, UNCHANGED <<control, slot, binds, calls>>,
             requests' = requests \/ requests' = [requests EXCEPT ![Deployer] = NoCall]
      PROVE  SocketInv'
  <2>1. UNCHANGED <<socketFile, bound>>
    BY <1>3 DEF processVars
  <2>2. CASE requests' = requests
    BY <1>3, <2>1, <2>2, ProcessesStay DEF CallsInv, CallSound, QueueSound
  <2>3. CASE requests' = [requests EXCEPT ![Deployer] = NoCall]
    BY <1>3, <2>1, <2>3, ReplacedCall, NoCallFields, ProcessesStay, DeployConstants
  <2> QED BY <1>3, <2>2, <2>3
<1>4. CASE UNCHANGED socketVars
  BY <1>3, <1>4 DEF socketVars, callVars
<1>5. CASE CurrentHealth \/ WaitHealthy
  BY <1>3, <1>5 DEF CurrentHealth, WaitHealthy, Forget
<1>6. CASE WaitExpires \/ DeployKilled
  BY <1>3, <1>6 DEF WaitExpires, DeployKilled
<1>7. CASE DeployStepFails
  BY <1>3, <1>7 DEF DeployStepFails, callVars
<1> QED BY <1>1, <1>2, <1>4, <1>5, <1>6, <1>7 DEF DeploySteps, BeginDeploy, BootOut, WaitStopped,
     WriteBinary, WritePlist, Bootstrap, KickStart, BeginUninstall, RemoveFiles, OwnStep

LEMMA LaunchInvInit == LaunchInit => LaunchInv
<1> SUFFICES ASSUME LaunchInit PROVE LaunchInv
  OBVIOUS
<1>1. SocketInv
  BY SocketInvInit DEF LaunchInit
<1>2. binary \in Versions /\ plist \in Versions /\ loaded \in BOOLEAN
  BY DEF LaunchInit, Installed, Versions
<1>3. deploy \in DeployRecord /\ deploy.at = "idle" /\ deploy.result = "none"
  BY DEF LaunchInit, NoDeploy, DeployRecord, DeployStages, Results, Versions
<1> QED BY <1>1, <1>2, <1>3 DEF LaunchInv, DeployInv, DeploySound, Concluded

LEMMA LaunchInvKept ==
  ASSUME LaunchInv, [LaunchNext]_launchVars
  PROVE  LaunchInv'
<1> USE DEF LaunchInv
<1>0. SocketInv /\ ProcessInv /\ CallsInv /\ DeployInv
  BY DEF SocketInv
<1>1. ASSUME NEW h \in HostProcesses, LaunchdStarts(h) PROVE LaunchInv'
  <2>1. OpenHost(h, binary) /\ binary \in Versions /\ UNCHANGED agentVars
    BY <1>0, <1>1 DEF LaunchdStarts, DeployInv
  <2> QED BY <1>0, <1>1, <2>1, HostStepKeepsCalls, StartFollows, AgentStays DEF SocketInv
<1>2. ASSUME NEW h \in HostProcesses, LaunchdStops(h) \/ (HostSteps(h) /\ UNCHANGED agentVars) PROVE LaunchInv'
  <2>1. (HostSteps(h) \/ StopServing(h) \/ Perish(h)) /\ UNCHANGED agentVars
    BY <1>2 DEF LaunchdStops
  <2> QED BY <1>0, <2>1, HostStepKeepsCalls, HostStepFollows, AgentStays DEF SocketInv
<1>3. ASSUME hosts' = hosts, UNCHANGED agentVars PROVE DeployInv'
  BY <1>0, <1>3, AgentStays DEF HostsFollow
<1>4. ASSUME NEW c \in Callers, CallSteps(c), UNCHANGED agentVars PROVE LaunchInv'
  <2>1. SocketInv'
    BY <1>0, <1>4, SocketInvKept DEF SocketNext
  <2>2. hosts' = hosts
    BY <1>4 DEF CallSteps, CallStep, ValidateSocket, Connect, CompareSocket, SendRequest, ReadResponse,
       CallTimesOut, Accept, HandleClient, WriteReply, HandlerTimesOut, processVars
  <2> QED BY <1>3, <1>4, <2>1, <2>2
<1>5. CASE DeploySteps
  <2>1. SocketInv'
    BY <1>0, <1>5, DeployStepKeepsSocket
  <2>2. CASE AskHealth
    BY <1>3, <2>1, <2>2 DEF AskHealth, Call, processVars
  <2>3. CASE KickStart
    BY <1>0, <2>1, <2>3, KickStartKeeps
  <2>4. CASE ~AskHealth /\ ~KickStart
    <3>1. hosts' = hosts
      BY <1>5, <2>4 DEF DeploySteps, BeginDeploy, CurrentHealth, Forget, BootOut, WaitStopped, WriteBinary,
         WritePlist, Bootstrap, WaitHealthy, WaitExpires, DeployStepFails, DeployKilled,
         BeginUninstall, RemoveFiles, OwnStep, socketVars, processVars
    <3> QED BY <1>0, <1>5, <2>1, <2>4, <3>1, DeployStepKeeps DEF DeploySteps
  <2> QED BY <2>2, <2>3, <2>4
<1>6. CASE UNCHANGED launchVars
  <2>1. SocketInv'
    BY <1>0, <1>6, SocketInvKept DEF launchVars
  <2>2. hosts' = hosts /\ UNCHANGED agentVars
    BY <1>6 DEF launchVars, socketVars, processVars
  <2> QED BY <1>3, <2>1, <2>2
<1> QED BY <1>1, <1>2, <1>4, <1>5, <1>6 DEF LaunchNext

\* The inductive invariant of the deployment, with that of the socket: how far it has come
\* says which files are installed, whether launchd has the service, and which version may
\* serve (launch_agent.rs deploy).
THEOREM LaunchInvariant == LaunchSpec => []LaunchInv
BY LaunchInvInit, LaunchInvKept, PTL DEF LaunchSpec

\* A deployment that says it succeeded left the new Host installed and loaded, one that was
\* refused or undone left everything as it had found it, and whoever serves after it is of
\* the installed version, whatever crashes, restarts, failing calls and passed deadlines it
\* met (launch_agent.rs deploy).
THEOREM DeploysWhole == LaunchSpec => []DeployIsWhole
<1>1. LaunchInv => DeployIsWhole
  BY DEF LaunchInv, DeployInv, Concluded, DeployIsWhole, AllCurrent, HostAt
<1> QED BY <1>1, LaunchInvariant, PTL

-----------------------------------------------------------------------------
(* The catalog of Codex tasks.                                             *)

WalFrame == [salt : Nat, page : 1..Pages, version : Nat, last : BOOLEAN]
Wal == [id : Nat, salt : Nat, frames : Seq(WalFrame)]
MainFile == [1..Pages -> Nat]

\* The first n frames of a log are those that count: the rest is of an earlier round.
Counts(l, n) ==
  /\ n \in Nat /\ n <= Len(l.frames)
  /\ \A k \in 1..n : l.frames[k].salt = l.salt
  /\ n = 0 \/ l.frames[n].last
  /\ \A k \in DOMAIN l.frames : k > n => l.frames[k].salt < l.salt

\* The main file is behind the log, the two together are the last state, and every number
\* of a version is one that was given.
DatabaseGood ==
  /\ main \in MainFile /\ log \in Wal /\ opens \in Nat /\ log.id <= opens
  /\ log.id = 0 => log = NoLog
  /\ history \in Seq(MainFile) /\ Len(history) > 0
  /\ history[Len(history)] = Database(main, log)
  /\ \E n \in 0..Len(log.frames) : Counts(log, n)
  /\ \A k \in DOMAIN log.frames : log.frames[k].version <= Len(history)
  /\ \A p \in 1..Pages : main[p] <= Database(main, log)[p] /\ main[p] <= Len(history)

\* Log y is log x some time later: a frame that was written over has a later version.
Later(x, y) ==
  /\ x.salt <= y.salt /\ Len(x.frames) <= Len(y.frames)
  /\ \A k \in DOMAIN x.frames :
       /\ x.frames[k].version <= y.frames[k].version
       /\ x.frames[k].version = y.frames[k].version => x.frames[k] = y.frames[k]

ReaderFields == {"at", "attempt", "since", "global", "lines", "fd", "next", "pass", "main", "log", "tasks"}
ReaderStages == {"idle", "global", "index", "lock", "clean", "copy main", "copy wal", "main", "wal",
                 "query", "listed", "failed"}

\* The state of the database (main file a and log l, the k-th one) when the last frame was
\* copied lies between the copies and what is on the disk now; what was verified is of it.
Moment(m, k, a, l) ==
  /\ k \in m.since..Len(history) /\ history[k] = Database(a, l)
  /\ \A p \in 1..Pages : m.main[p] <= a[p] /\ a[p] <= main[p]
  /\ \A p \in 1..Pages : m.at = "wal" \/ p < m.next => m.main[p] = a[p]
  /\ m.fd = 0 => m.log = NoLog /\ l = NoLog
  /\ m.fd # 0 =>
       /\ m.log.id = m.fd /\ l.id = m.fd
       /\ Later(m.log, l) /\ Len(m.log.frames) = Len(l.frames)
       /\ log.id = m.fd => Later(l, log)
       /\ m.at = "wal" /\ m.next > 0 => m.log.salt = l.salt
       /\ \A j \in DOMAIN l.frames : m.at = "wal" /\ j < m.next => m.log.frames[j] = l.frames[j]

\* The copies are those of one state.
Exact(m) == \E k \in m.since..Len(history) : history[k] = Database(m.main, m.log)

IsReader(m) == DOMAIN m = ReaderFields

ReaderTyped(m) ==
  /\ IsReader(m) /\ m.at \in ReaderStages
  /\ m.attempt \in Nat /\ m.since \in Nat /\ m.fd \in Nat /\ m.next \in Nat /\ m.pass \in Nat
  /\ m.main \in Seq(Nat) /\ m.log \in Wal /\ m.fd <= opens

\* What a reader has copied is older than what is on the disk; what it has verified is of one
\* state; and what it returns is the list of that state.
ReaderGood(m) ==
  /\ ReaderTyped(m)
  /\ m.at \notin {"idle", "failed"} => m.since \in 1..Len(history)
  /\ m.at \in {"idle", "failed", "global", "index", "lock", "clean"} => m.main = << >> /\ m.log = NoLog
  /\ m.at = "copy main" =>
       /\ m.next \in 1..Pages /\ Len(m.main) + 1 = m.next /\ m.log = NoLog /\ m.pass = 1
       /\ \A p \in DOMAIN m.main : m.main[p] <= main[p]
  /\ m.at \in {"copy wal", "main", "wal", "query", "listed"} => Len(m.main) = Pages
  /\ m.at = "copy wal" =>
       /\ m.pass = 1 /\ \A p \in 1..Pages : m.main[p] <= main[p]
       /\ m.next = 0 => m.log = NoLog
       /\ m.next > 0 => /\ m.fd # 0 /\ m.log.id = m.fd /\ Len(m.log.frames) + 1 = m.next
                        /\ log.id = m.fd => Later(m.log, log)
  /\ m.at = "main" => m.next \in 1..Pages
  /\ m.at \in {"main", "wal"} /\ m.pass = 1 =>
       \E k \in Nat, a \in MainFile, l \in Wal : Moment(m, k, a, l)
  /\ m.at \in {"query", "listed"} \/ (m.at \in {"main", "wal"} /\ m.pass # 1) => Exact(m)
  /\ m.at = "listed" \/ (m.at \in {"main", "wal"} /\ m.pass # 1) =>
       m.tasks = ListOnce(m.global, m.lines, Database(m.main, m.log))

\* Who has the lock has the only snapshot.
LockGood ==
  \A r \in Readers :
    /\ readers[r].at \in Holding => catalogLock = r
    /\ readers[r].at \in Holding \ {"clean"} => snapshots = {r}

ReadersGood == readers = [r \in Readers |-> readers[r]] /\ \A r \in Readers : ReaderGood(readers[r])

CatalogInv == DatabaseGood /\ ReadersGood /\ LockGood

\* A set of numbers up to n has a greatest one.
LEMMA Greatest ==
  ASSUME NEW n \in Nat, NEW S, S \subseteq 1..n, S # {}
  PROVE  Max(S) \in S /\ \A y \in S : y <= Max(S)
<1> DEFINE T == {x \in Nat : \E k \in S : x = n - k}
<1>1. T \subseteq Nat /\ T # {}
  <2>1. PICK k \in S : k \in 1..n
    OBVIOUS
  <2>2. n - k \in Nat /\ n - k = n - k
    BY <2>1
  <2>3. n - k \in T
    BY <2>2
  <2> QED BY <2>3
<1>2. IsWellFoundedOn(OpToRel(<, Nat), Nat)
  BY NatLessThanWellFounded
<1>3. PICK x \in T : \A y \in T : ~(<<y, x>> \in OpToRel(<, Nat))
  <2> HIDE DEF T
  <2> QED BY <1>1, <1>2, WFMin
<1>4. \A y \in T : ~(y < x)
  BY <1>1, <1>3 DEF OpToRel
<1>5. PICK k \in S : x = n - k
  BY <1>3
<1>6. ASSUME NEW y \in S PROVE k >= y
  <2>1. n - y \in Nat /\ y \in Nat /\ k \in Nat
    OBVIOUS
  <2>2. n - y \in T
    BY <2>1
  <2>3. ~(n - y < n - k)
    BY <1>4, <1>5, <2>2
  <2> QED BY <2>1, <2>3
<1>7. \E z \in S : \A y \in S : z >= y
  BY <1>6
<1>8. Max(S) \in S /\ \A y \in S : Max(S) >= y
  BY <1>7 DEF Max
<1> QED BY <1>8

-----------------------------------------------------------------------------
(* What SQLite reads of a log.                                             *)

LEMMA ValidCounts ==
  ASSUME NEW l \in Wal, NEW n, Counts(l, n)
  PROVE  n \in Nat /\ n <= Len(l.frames) /\ Len(Valid(l)) = n /\ DOMAIN Valid(l) = 1..n
<1>1. n \in Nat /\ n <= Len(l.frames) /\ l.frames \in Seq(WalFrame) /\ Len(l.frames) \in Nat
  BY DEF Counts, Wal
<1> DEFINE ends == {m \in 0..Len(l.frames) : /\ \A k \in 1..m : l.frames[k].salt = l.salt
                                             /\ m = 0 \/ l.frames[m].last}
<1>2. n \in ends
  BY <1>1 DEF Counts
<1>3. ASSUME NEW m \in ends PROVE m <= n
  <2> SUFFICES ASSUME m > n PROVE FALSE
    BY <1>1
  <2>1. m \in 1..m /\ m \in DOMAIN l.frames
    BY <1>1
  <2>2. l.frames[m].salt = l.salt /\ l.frames[m].salt < l.salt /\ l.salt \in Nat
    BY <2>1 DEF Counts, Wal
  <2> QED BY <2>2
<1>4. Max(ends) = n
  <2>1. \A m \in ends : n >= m
    BY <1>1, <1>3
  <2>2. ends \subseteq Nat
    BY <1>1
  <2>3. \A x \in ends : (\A y \in ends : x >= y) => x = n
    BY <1>1, <1>2, <2>1, <2>2
  <2> HIDE DEF ends
  <2> QED BY <1>2, <2>1, <2>3 DEF Max
<1>5. Valid(l) = SubSeq(l.frames, 1, Max(ends))
  <2>1. ends = {m \in {j \in 0..Len(l.frames) : \A k \in 1..j : l.frames[k].salt = l.salt} :
                  m = 0 \/ l.frames[m].last}
    OBVIOUS
  <2> QED BY <2>1 DEF Valid
<1> HIDE DEF ends
<1> QED BY <1>1, <1>4, <1>5

\* The last frame of a page that counts is the page; without one the main file has it.
Newest(l, n, p, k) ==
  /\ k \in 1..n /\ l.frames[k].page = p
  /\ \A j \in 1..n : l.frames[j].page = p => j <= k
Silent(l, n, p) == \A k \in 1..n : l.frames[k].page # p

LEMMA DatabaseAt ==
  ASSUME NEW m, NEW l \in Wal, NEW n, Counts(l, n), NEW p \in 1..Pages
  PROVE  /\ Silent(l, n, p) => Database(m, l)[p] = m[p]
         /\ \A k : Newest(l, n, p, k) => Database(m, l)[p] = l.frames[k].version
         /\ ~Silent(l, n, p) => \E k \in 1..n : Newest(l, n, p, k)
<1> DEFINE of == {k \in 1..n : l.frames[k].page = p}
<1>1. n \in Nat /\ DOMAIN Valid(l) = 1..n
  BY ValidCounts
<1>2. Database(m, l)[p] = IF of = {} THEN m[p] ELSE l.frames[Max(of)].version
  BY <1>1 DEF Database
<1>3. ASSUME of # {} PROVE Newest(l, n, p, Max(of))
  <2>1. of \subseteq 1..n
    OBVIOUS
  <2>2. Max(of) \in of /\ \A y \in of : y <= Max(of)
    <3> HIDE DEF of
    <3> QED BY <1>1, <1>3, <2>1, Greatest
  <2> QED BY <2>2 DEF Newest
<1>4. Silent(l, n, p) => Database(m, l)[p] = m[p]
  BY <1>2 DEF Silent
<1>5. ASSUME NEW k, Newest(l, n, p, k) PROVE Database(m, l)[p] = l.frames[k].version
  <2>1. k \in of /\ of # {}
    BY <1>5 DEF Newest
  <2>2. Newest(l, n, p, Max(of))
    BY <1>3, <2>1
  <2> PICK x : x = Max(of)  OBVIOUS
  <2>5. Newest(l, n, p, x)
    BY <2>2
  <2>3. k \in Nat /\ x \in Nat /\ k <= x /\ x <= k
    BY ONLY <1>1, <1>5, <2>5 DEF Newest
  <2>4. Max(of) = k
    BY <2>3
  <2> QED BY <1>2, <2>1, <2>4
<1>6. ~Silent(l, n, p) => \E k \in 1..n : Newest(l, n, p, k)
  BY <1>3 DEF Newest, Silent
<1> QED BY <1>4, <1>5, <1>6

LEMMA WalFields ==
  ASSUME NEW l \in Wal
  PROVE  /\ l.id \in Nat /\ l.salt \in Nat /\ l.frames \in Seq(WalFrame) /\ Len(l.frames) \in Nat
         /\ DOMAIN l.frames = 1..Len(l.frames)
         /\ \A k \in 1..Len(l.frames) :
              /\ l.frames[k] \in WalFrame /\ l.frames[k].salt \in Nat /\ l.frames[k].version \in Nat
<1>1. l.id \in Nat /\ l.salt \in Nat /\ l.frames \in Seq(WalFrame)
  BY DEF Wal
<1>2. Len(l.frames) \in Nat /\ DOMAIN l.frames = 1..Len(l.frames) /\ \A k \in 1..Len(l.frames) : l.frames[k] \in WalFrame
  BY <1>1
<1>3. \A f \in WalFrame : f.salt \in Nat /\ f.version \in Nat
  BY DEF WalFrame
<1> QED BY <1>1, <1>2, <1>3

LEMMA SameFile ==
  ASSUME NEW a \in MainFile, NEW b \in MainFile, \A p \in 1..Pages : a[p] = b[p]
  PROVE  a = b
<1>1. a = [p \in 1..Pages |-> a[p]] /\ b = [p \in 1..Pages |-> b[p]]
  BY DEF MainFile
<1> QED BY <1>1

\* Every page has a version; it is the newest one that counts, or that of the main file.
LEMMA DatabaseTyped ==
  ASSUME NEW m \in MainFile, NEW l \in Wal, NEW n, Counts(l, n)
  PROVE  /\ Database(m, l) \in MainFile
         /\ \A p \in 1..Pages : \/ Database(m, l)[p] = m[p]
                                \/ \E k \in 1..n : Database(m, l)[p] = l.frames[k].version
<1>1. n \in Nat /\ n <= Len(l.frames) /\ Len(l.frames) \in Nat
  BY ValidCounts, WalFields
<1>2. \A k \in 1..n : l.frames[k].version \in Nat
  BY <1>1, WalFields
<1>3. ASSUME NEW p \in 1..Pages
      PROVE  Database(m, l)[p] \in Nat /\ (\/ Database(m, l)[p] = m[p]
                                           \/ \E k \in 1..n : Database(m, l)[p] = l.frames[k].version)
  <2>1. CASE Silent(l, n, p)
    <3>1. Database(m, l)[p] = m[p]
      BY <2>1, DatabaseAt
    <3>2. m[p] \in Nat
      BY DEF MainFile
    <3> QED BY <3>1, <3>2
  <2>2. CASE ~Silent(l, n, p)
    <3>1. PICK k \in 1..n : Newest(l, n, p, k)
      BY <2>2, DatabaseAt
    <3>2. Database(m, l)[p] = l.frames[k].version
      BY <3>1, DatabaseAt
    <3> QED BY <1>2, <3>2
  <2> QED BY <2>1, <2>2
<1>4. Database(m, l) = [p \in 1..Pages |-> Database(m, l)[p]]
  BY DEF Database
<1> QED BY <1>3, <1>4 DEF MainFile

\* A log without frames says nothing.
LEMMA EmptyLog ==
  ASSUME NEW m \in MainFile, NEW i \in Nat, NEW l, l = [id |-> i, salt |-> 0, frames |-> << >>]
  PROVE  l \in Wal /\ Counts(l, 0) /\ Database(m, l) = m /\ l.frames = << >> /\ l.id = i /\ l.salt = 0
<1>1. l.id = i /\ l.salt = 0 /\ l.frames = << >>
  OBVIOUS
<1>5. l \in Wal
  BY DEF Wal
<1>2. Counts(l, 0)
  BY <1>1 DEF Counts
<1>3. \A p \in 1..Pages : Database(m, l)[p] = m[p]
  <2>1. \A p : Silent(l, 0, p)
    BY DEF Silent
  <2> QED BY <1>2, <1>5, <2>1, DatabaseAt
<1>4. Database(m, l) \in MainFile
  BY <1>2, <1>5, DatabaseTyped
<1> QED BY <1>1, <1>2, <1>3, <1>4, <1>5, SameFile

\* A page that is copied to the main file leaves the database as it is.
LEMMA CheckpointSame ==
  ASSUME NEW m \in MainFile, NEW l \in Wal, NEW n, Counts(l, n), NEW q \in 1..Pages,
         NEW w \in MainFile, w[q] = Database(m, l)[q], \A p \in 1..Pages : p # q => w[p] = m[p]
  PROVE  Database(w, l) = Database(m, l)
<1> PICK d : d = Database(m, l)  OBVIOUS
<1>1. d \in MainFile
  BY DatabaseTyped
<1>2. w \in MainFile
  OBVIOUS
<1>6. l \in Wal /\ Counts(l, n)
  OBVIOUS
<1>5. w[q] = d[q] /\ \A p \in 1..Pages : p # q => w[p] = m[p]
  OBVIOUS
<1>3. ASSUME NEW p \in 1..Pages PROVE Database(w, l)[p] = d[p]
  <2>1. CASE Silent(l, n, p)
    <3>1. d[p] = m[p]
      BY <2>1, DatabaseAt
    <3>2. Database(w, l)[p] = w[p]
      BY ONLY <1>6, <2>1, p \in 1..Pages, DatabaseAt
    <3> QED BY <1>5, <3>1, <3>2
  <2>2. CASE ~Silent(l, n, p)
    <3>1. PICK k \in 1..n : Newest(l, n, p, k)
      BY <2>2, DatabaseAt
    <3>2. Database(w, l)[p] = l.frames[k].version
      BY <3>1, DatabaseAt
    <3>3. d[p] = l.frames[k].version
      BY <3>1, DatabaseAt
    <3> QED BY <3>2, <3>3
  <2> QED BY <2>1, <2>2
<1>4. Database(w, l) \in MainFile
  BY <1>2, DatabaseTyped
<1> QED BY <1>1, <1>2, <1>3, <1>4, SameFile

-----------------------------------------------------------------------------
(* What Codex does to the database.                                        *)
\* What a transaction leaves of a log: frames f, of which those behind "at" up to "end" are new.
Written(l, f, z, at, end, h) ==
  /\ f \in Seq(WalFrame) /\ Len(f) \in Nat /\ Len(l.frames) <= Len(f) /\ end <= Len(f)
  /\ at \in Nat /\ end \in Nat /\ at < end
  /\ \A k \in 1..Len(f) : k > at /\ k <= end => f[k].salt = z /\ f[k].version = h
  /\ f[end].last
  /\ \A k \in 1..Len(f) : k <= at \/ k > end => k \in 1..Len(l.frames) /\ f[k] = l.frames[k]

Rewritten(x, l, z, f) == x = [l EXCEPT !.salt = z, !.frames = f]

LEMMA LoggedWritten ==
  ASSUME NEW l \in Wal, NEW z \in Nat, NEW at \in Nat, at <= Len(l.frames), NEW pages \in Transactions,
         NEW h \in Nat, h = Len(history) + 1
  PROVE  \E f, end : Written(l, f, z, at, end, h) /\ Rewritten(Logged(l, z, at, pages), l, z, f)
<1>1. Len(pages) \in Nat /\ Len(pages) > 0 /\ \A k \in 1..Len(pages) : pages[k] \in 1..Pages
  BY DEF Transactions
<1>2. PICK end \in Nat : end = at + Len(pages)
  BY <1>1
<1>3. /\ l.frames \in Seq(WalFrame) /\ Len(l.frames) \in Nat /\ DOMAIN l.frames = 1..Len(l.frames)
      /\ \A k \in 1..Len(l.frames) : l.frames[k] \in WalFrame
  BY WalFields
<1>4. PICK n \in Nat : n = IF end > Len(l.frames) THEN end ELSE Len(l.frames)
  BY <1>2, <1>3
<1>5. DOMAIN l.frames \cup 1..end = 1..n
  BY <1>2, <1>3, <1>4
<1> DEFINE new(k) == Frame(z, pages[k - at], h, k = end)
           f == [k \in 1..n |-> IF k \in (at + 1)..end THEN new(k) ELSE l.frames[k]]
<1>6. Logged(l, z, at, pages) = [l EXCEPT !.salt = z, !.frames = f]
  BY <1>2, <1>5 DEF Logged, Wal
<1>7. ASSUME NEW k \in (at + 1)..end
      PROVE  new(k) \in WalFrame /\ new(k).salt = z /\ new(k).version = h /\ new(k).last = (k = end)
  <2>1. k - at \in 1..Len(pages)
    BY <1>1, <1>2
  <2>2. pages[k - at] \in 1..Pages
    BY <1>1, <2>1
  <2> QED BY <2>2 DEF Frame, WalFrame
<1>8. \A k \in 1..n : k \in (at + 1)..end => f[k] = new(k)
  OBVIOUS
<1>9. \A k \in 1..n : ~(k \in (at + 1)..end) => f[k] = l.frames[k]
  OBVIOUS
<1>10. at < end /\ end <= n /\ Len(l.frames) <= n
  BY <1>1, <1>2, <1>3, <1>4
<1>11. \A k \in 1..n : ~(k \in (at + 1)..end) => k \in 1..Len(l.frames)
  BY <1>3, <1>4, <1>10
<1>12. \A k \in 1..n : f[k] \in WalFrame
  BY <1>3, <1>7, <1>8, <1>9, <1>11
<1>13. f \in Seq(WalFrame) /\ Len(f) = n
  <2>1. f \in [1..n -> WalFrame]
    BY <1>12
  <2> HIDE DEF f
  <2> QED BY <2>1
<1> HIDE DEF new, f
<1>14. end \in 1..n /\ end \in (at + 1)..end
  BY <1>10
<1>15. f[end].last
  BY <1>7, <1>8, <1>14
<1>16. ASSUME NEW k \in 1..n, k > at, k <= end PROVE f[k].salt = z /\ f[k].version = h
  BY <1>7, <1>8, <1>16
<1>17. ASSUME NEW k \in 1..n, k <= at \/ k > end PROVE k \in 1..Len(l.frames) /\ f[k] = l.frames[k]
  BY <1>9, <1>11, <1>17
<1>18. Written(l, f, z, at, end, h)
  BY <1>10, <1>13, <1>15, <1>16, <1>17 DEF Written
<1> QED BY <1>6, <1>18 DEF Rewritten

\* A transaction is behind the frames that count, or over the first ones.
LEMMA WrittenGood ==
  ASSUME NEW l \in Wal, NEW z \in Nat, l.salt <= z, NEW at, NEW end, NEW f, NEW h \in Nat, Written(l, f, z, at, end, h),
         NEW x, Rewritten(x, l, z, f),
         \A k \in 1..Len(l.frames) : k <= at => l.frames[k].salt = z,
         \A k \in 1..Len(l.frames) : k > at => l.frames[k].salt < z,
         \A k \in 1..Len(l.frames) : l.frames[k].version < h
  PROVE  /\ x \in Wal /\ x.id = l.id /\ x.salt = z /\ x.frames = f /\ Counts(x, end) /\ Later(l, x)
         /\ \A k \in DOMAIN f : f[k].version <= h
<1>1. x \in Wal /\ x.id = l.id /\ x.salt = z /\ x.frames = f
  BY DEF Wal, Written, Rewritten
<1>2. DOMAIN f = 1..Len(f) /\ Len(l.frames) \in Nat /\ Len(f) \in Nat /\ DOMAIN l.frames = 1..Len(l.frames)
  BY WalFields DEF Written
<1>3. \A k \in 1..Len(l.frames) : l.frames[k].version \in Nat
  BY WalFields
<1>4. at \in Nat /\ end \in Nat /\ at < end /\ end <= Len(f) /\ Len(l.frames) <= Len(f) /\ f[end].last
  BY DEF Written
<1>5. \A k \in 1..Len(f) : k > at /\ k <= end => f[k].salt = z /\ f[k].version = h
  BY DEF Written
<1>6. \A k \in 1..Len(f) : k <= at \/ k > end => k \in 1..Len(l.frames) /\ f[k] = l.frames[k]
  BY DEF Written
<1>7. /\ \A k \in 1..Len(l.frames) : k <= at => l.frames[k].salt = z
      /\ \A k \in 1..Len(l.frames) : k > at => l.frames[k].salt < z
      /\ \A k \in 1..Len(l.frames) : l.frames[k].version < h
      /\ z \in Nat /\ h \in Nat /\ l.salt <= z
  OBVIOUS
<1>8. Counts(x, end)
  <2>1. \A k \in 1..end : f[k].salt = z
    BY ONLY <1>2, <1>4, <1>5, <1>6, <1>7
  <2>2. \A k \in 1..Len(f) : k > end => f[k].salt < z
    BY ONLY <1>2, <1>4, <1>6, <1>7
  <2> QED BY ONLY <1>1, <1>2, <1>4, <2>1, <2>2 DEF Counts
<1>9. Later(l, x)
  <2>1. ASSUME NEW k \in 1..Len(l.frames)
        PROVE  /\ l.frames[k].version <= f[k].version
               /\ l.frames[k].version = f[k].version => l.frames[k] = f[k]
    <3>0. k \in 1..Len(f)
      BY ONLY <1>2, <1>4, k \in 1..Len(l.frames)
    <3>1. CASE k <= at \/ k > end
      BY ONLY <1>3, <1>6, <3>0, <3>1, k \in 1..Len(l.frames)
    <3>2. CASE k > at /\ k <= end
      BY ONLY <1>3, <1>5, <1>7, <3>0, <3>2, k \in 1..Len(l.frames)
    <3> QED BY ONLY <1>2, <1>4, <3>0, <3>1, <3>2
  <2> QED BY ONLY <1>1, <1>2, <1>4, <1>7, <2>1 DEF Later
<1>10. \A k \in 1..Len(f) : f[k].version <= h
  BY ONLY <1>2, <1>3, <1>4, <1>5, <1>6, <1>7
<1> QED BY <1>1, <1>2, <1>8, <1>9, <1>10
\* The main file stays behind a log that a transaction was added to, behind the frames that
\* count or, after a complete checkpoint, over them.
LEMMA WrittenAhead ==
  ASSUME NEW m \in MainFile, NEW l \in Wal, NEW n, Counts(l, n), NEW x \in Wal, NEW z, NEW at, NEW end, NEW f,
         NEW h \in Nat, Written(l, f, z, at, end, h), x.frames = f, Counts(x, end), at = n \/ at = 0,
         NEW p \in 1..Pages, m[p] <= h, m[p] <= Database(m, l)[p]
  PROVE  m[p] <= Database(m, x)[p]
<1>1. m[p] \in Nat /\ p \in 1..Pages /\ l \in Wal /\ x \in Wal /\ x.frames = f /\ Counts(l, n) /\ Counts(x, end)
  BY DEF MainFile
<1>2. n \in Nat /\ n <= Len(l.frames) /\ Len(l.frames) \in Nat
  BY ValidCounts, WalFields
<1>3. at \in Nat /\ end \in Nat /\ at < end /\ Len(l.frames) <= Len(f) /\ end <= Len(f) /\ Len(f) \in Nat /\ (at = n \/ at = 0)
  BY DEF Written
<1>4. /\ \A k \in 1..Len(f) : k > at /\ k <= end => f[k].version = h
      /\ \A k \in 1..Len(f) : k <= at \/ k > end => k \in 1..Len(l.frames) /\ f[k] = l.frames[k]
  BY DEF Written
<1>5. CASE Silent(x, end, p)
  <2>1. Database(m, x)[p] = m[p]
    BY ONLY <1>1, <1>5, DatabaseAt
  <2> QED BY ONLY <1>1, <2>1
<1>6. CASE ~Silent(x, end, p)
  <2>1. PICK k \in 1..end : Newest(x, end, p, k)
    BY ONLY <1>1, <1>6, DatabaseAt
  <2>2. Database(m, x)[p] = f[k].version
    BY ONLY <1>1, <2>1, DatabaseAt
  <2>3. k \in Nat /\ k > 0 /\ k <= end /\ k \in 1..Len(f)
    BY ONLY <1>3, <2>1
  <2>4. CASE k > at
    <3>1. f[k].version = h
      BY ONLY <1>4, <2>3, <2>4
    <3> QED BY <2>2, <3>1
  <2>5. CASE k <= at
    <3>1. at = n /\ f[k] = l.frames[k] /\ k \in 1..n
      BY ONLY <1>3, <1>4, <2>3, <2>5
    <3>2. \A j \in 1..n : f[j] = l.frames[j] /\ j \in 1..end
      BY ONLY <1>2, <1>3, <1>4, <3>1
    <3>3. Newest(l, n, p, k)
      BY ONLY <1>1, <2>1, <3>1, <3>2 DEF Newest
    <3>4. Database(m, l)[p] = l.frames[k].version
      BY ONLY <1>1, <3>3, DatabaseAt
    <3> QED BY <2>2, <3>1, <3>4
  <2> QED BY ONLY <1>3, <2>3, <2>4, <2>5
<1> QED BY <1>5, <1>6

LEMMA LaterSame ==
  ASSUME NEW l \in Wal
  PROVE  Later(l, l)
BY WalFields DEF Later

LEMMA LaterTransitive ==
  ASSUME NEW x \in Wal, NEW y \in Wal, NEW w \in Wal, Later(x, y), Later(y, w)
  PROVE  Later(x, w)
<1>1. x.salt <= y.salt /\ Len(x.frames) <= Len(y.frames) /\ y.salt <= w.salt /\ Len(y.frames) <= Len(w.frames)
  BY DEF Later
<1>2. /\ x.salt \in Nat /\ y.salt \in Nat /\ w.salt \in Nat
      /\ Len(x.frames) \in Nat /\ Len(y.frames) \in Nat /\ Len(w.frames) \in Nat
      /\ DOMAIN x.frames = 1..Len(x.frames) /\ DOMAIN y.frames = 1..Len(y.frames)
  BY WalFields
<1>3. /\ \A k \in 1..Len(x.frames) : x.frames[k].version \in Nat
      /\ \A k \in 1..Len(y.frames) : y.frames[k].version \in Nat
      /\ \A k \in 1..Len(w.frames) : w.frames[k].version \in Nat
  BY WalFields
<1>4. /\ \A k \in 1..Len(x.frames) : /\ x.frames[k].version <= y.frames[k].version
                                     /\ x.frames[k].version = y.frames[k].version => x.frames[k] = y.frames[k]
      /\ \A k \in 1..Len(y.frames) : /\ y.frames[k].version <= w.frames[k].version
                                     /\ y.frames[k].version = w.frames[k].version => y.frames[k] = w.frames[k]
  BY <1>2 DEF Later
<1>5. x.salt <= w.salt /\ Len(x.frames) <= Len(w.frames)
  BY <1>1, <1>2
<1>6. ASSUME NEW k \in 1..Len(x.frames)
      PROVE  /\ x.frames[k].version <= w.frames[k].version
             /\ x.frames[k].version = w.frames[k].version => x.frames[k] = w.frames[k]
  <2>1. k \in 1..Len(y.frames) /\ k \in 1..Len(w.frames) /\ k \in 1..Len(x.frames)
    BY ONLY <1>1, <1>2, k \in 1..Len(x.frames)
  <2>2. PICK a \in Nat, b \in Nat, c \in Nat : a = x.frames[k].version /\ b = y.frames[k].version /\ c = w.frames[k].version
    BY ONLY <1>3, <2>1
  <2>3. a <= b /\ b <= c /\ (a = b => x.frames[k] = y.frames[k]) /\ (b = c => y.frames[k] = w.frames[k])
    BY ONLY <1>4, <2>1, <2>2
  <2> QED BY ONLY <2>2, <2>3
<1> QED BY ONLY <1>2, <1>5, <1>6 DEF Later

\* Two logs that are the same from both sides.
LEMMA LaterBoth ==
  ASSUME NEW x \in Wal, NEW y \in Wal, NEW w \in Wal, Later(x, y), Later(y, w), NEW k \in 1..Len(x.frames),
         x.frames[k] = w.frames[k]
  PROVE  x.frames[k] = y.frames[k]
<1>1. Len(x.frames) <= Len(y.frames) /\ Len(y.frames) <= Len(w.frames)
  BY DEF Later
<1>2. Len(x.frames) \in Nat /\ Len(y.frames) \in Nat /\ Len(w.frames) \in Nat
  BY WalFields
<1>3. k \in 1..Len(x.frames) /\ k \in 1..Len(y.frames) /\ k \in 1..Len(w.frames)
  BY ONLY <1>1, <1>2, k \in 1..Len(x.frames)
<1>4. DOMAIN x.frames = 1..Len(x.frames) /\ DOMAIN y.frames = 1..Len(y.frames)
  BY WalFields
<1>5. /\ x.frames[k].version <= y.frames[k].version /\ y.frames[k].version <= w.frames[k].version
      /\ x.frames[k].version = y.frames[k].version => x.frames[k] = y.frames[k]
  BY <1>3, <1>4 DEF Later
<1>6. x.frames[k].version \in Nat /\ y.frames[k].version \in Nat /\ w.frames[k].version = x.frames[k].version
  BY <1>3, WalFields
<1> QED BY ONLY <1>5, <1>6
LEMMA CommitGood ==
  ASSUME NEW m \in MainFile, NEW l \in Wal, NEW n, Counts(l, n), NEW pages \in Transactions,
         NEW h \in Nat, h = Len(history) + 1, \A k \in 1..Len(l.frames) : l.frames[k].version < h,
         \A p \in 1..Pages : m[p] <= h /\ m[p] <= Database(m, l)[p], NEW x,
         x = Logged(l, l.salt, Len(Valid(l)), pages) \/ x = Logged(l, l.salt + 1, 0, pages)
  PROVE  /\ x \in Wal /\ x.id = l.id /\ Later(l, x) /\ \E end \in 0..Len(x.frames) : Counts(x, end)
         /\ \A k \in DOMAIN x.frames : x.frames[k].version <= h
         /\ \A p \in 1..Pages : m[p] <= Database(m, x)[p]
<1>1. l \in Wal /\ m \in MainFile /\ Counts(l, n) /\ h \in Nat /\ pages \in Transactions /\ h = Len(history) + 1
  OBVIOUS
<1>2. n \in Nat /\ n <= Len(l.frames) /\ Len(Valid(l)) = n /\ l.salt \in Nat /\ Len(l.frames) \in Nat
  BY ValidCounts, WalFields
<1>3. \A k \in 1..Len(l.frames) : /\ l.frames[k].salt \in Nat /\ (k <= n => l.frames[k].salt = l.salt)
                                  /\ (k > n => l.frames[k].salt < l.salt)
  BY <1>2, WalFields DEF Counts
<1>4. PICK z \in Nat, at \in Nat :
        /\ x = Logged(l, z, at, pages) /\ l.salt <= z /\ at <= Len(l.frames) /\ (at = n \/ at = 0)
        /\ \A k \in 1..Len(l.frames) : k <= at => l.frames[k].salt = z
        /\ \A k \in 1..Len(l.frames) : k > at => l.frames[k].salt < z
  <2>1. CASE x = Logged(l, l.salt, Len(Valid(l)), pages)
    <3>1. x = Logged(l, l.salt, n, pages)
      BY ONLY <1>2, <2>1
    <3> QED BY ONLY <1>2, <1>3, <3>1
  <2>2. CASE x = Logged(l, l.salt + 1, 0, pages)
    <3>1. PICK z \in Nat : z = l.salt + 1
      BY ONLY <1>2
    <3>2. x = Logged(l, z, 0, pages)
      BY ONLY <2>2, <3>1
    <3>3. l.salt <= z /\ 0 <= Len(l.frames) /\ 0 \in Nat
      BY ONLY <1>2, <3>1
    <3>4. \A k \in 1..Len(l.frames) : (k <= 0 => l.frames[k].salt = z) /\ (k > 0 => l.frames[k].salt < z)
      BY ONLY <1>2, <1>3, <3>1
    <3> QED BY ONLY <3>2, <3>3, <3>4
  <2> QED BY <2>1, <2>2
<1>z. z \in Nat /\ at \in Nat
  OBVIOUS
<1>5. PICK f, end : Written(l, f, z, at, end, h) /\ Rewritten(Logged(l, z, at, pages), l, z, f)
  BY ONLY <1>1, <1>4, <1>z, LoggedWritten
<1>6. Rewritten(x, l, z, f) /\ \A k \in 1..Len(l.frames) : l.frames[k].version < h
  BY <1>4, <1>5
<1>7. /\ x \in Wal /\ x.id = l.id /\ x.frames = f /\ Counts(x, end) /\ Later(l, x)
      /\ \A k \in DOMAIN f : f[k].version <= h
  BY ONLY <1>1, <1>4, <1>z, <1>5, <1>6, WrittenGood
<1>8. end \in 0..Len(x.frames)
  BY ONLY <1>7, WalFields DEF Counts
<1>9. ASSUME NEW p \in 1..Pages PROVE m[p] <= Database(m, x)[p]
  <2>1. p \in 1..Pages /\ m[p] <= h /\ m[p] <= Database(m, l)[p]
    OBVIOUS
  <2>2. /\ m \in MainFile /\ l \in Wal /\ Counts(l, n) /\ h \in Nat /\ Written(l, f, z, at, end, h)
        /\ x \in Wal /\ x.frames = f /\ Counts(x, end) /\ (at = n \/ at = 0)
    BY ONLY <1>1, <1>4, <1>5, <1>7
  <2> QED BY ONLY <2>1, <2>2, WrittenAhead
<1> QED BY ONLY <1>7, <1>8, <1>9

\* What Codex does goes on from what there was.
GoesOn ==
  /\ \A p \in 1..Pages : main[p] <= main'[p]
  /\ opens <= opens'
  /\ log'.id # 0 /\ log'.id # log.id => log'.id > opens
  /\ log'.id # 0 /\ log'.id = log.id => Later(log, log')
  /\ Len(history) <= Len(history') /\ \A k \in 1..Len(history) : history'[k] = history[k]

LEMMA Appended ==
  ASSUME NEW S, NEW s \in Seq(S), NEW e \in S, NEW t, t = Append(s, e)
  PROVE  /\ t \in Seq(S) /\ Len(t) = Len(s) + 1 /\ Len(s) \in Nat /\ t[Len(t)] = e
         /\ \A k \in 1..Len(s) : t[k] = s[k]
OBVIOUS

LEMMA Committed ==
  ASSUME DatabaseGood, NEW pages \in Transactions, CodexCommits(pages)
  PROVE  DatabaseGood' /\ GoesOn
<1>h. PICK h \in Nat : h = Len(history) + 1
  BY DEF DatabaseGood
<1>1. PICK m, l, x : m = main /\ l = log /\ x = log' /\ h = Len(history) + 1
  BY <1>h
<1>2. m \in MainFile /\ l \in Wal /\ opens \in Nat /\ l.id <= opens /\ (l.id = 0 => l = NoLog)
  BY <1>1 DEF DatabaseGood
<1>3. PICK n : Counts(l, n)
  BY <1>1 DEF DatabaseGood
<1>4. DOMAIN l.frames = 1..Len(l.frames) /\ l.id \in Nat /\ \A k \in 1..Len(l.frames) : l.frames[k].version \in Nat
  BY <1>2, WalFields
<1>5. history \in Seq(MainFile) /\ Len(history) \in Nat /\ Len(history) > 0 /\ h = Len(history) + 1
  BY <1>1 DEF DatabaseGood
<1>6. \A k \in 1..Len(l.frames) : l.frames[k].version <= Len(history)
  BY <1>1, <1>4 DEF DatabaseGood
<1>7. \A p \in 1..Pages : m[p] <= Len(history) /\ m[p] <= Database(m, l)[p] /\ m[p] \in Nat
  BY <1>1, <1>2 DEF DatabaseGood, MainFile
<1>8. \A k \in 1..Len(l.frames) : l.frames[k].version < h
  BY ONLY <1>4, <1>5, <1>6
<1>9. \A p \in 1..Pages : m[p] <= h /\ m[p] <= Database(m, l)[p]
  BY ONLY <1>5, <1>7
<1>10. x = Logged(l, l.salt, Len(Valid(l)), pages) \/ x = Logged(l, l.salt + 1, 0, pages)
  BY <1>1 DEF CodexCommits
<1>11. pages \in Transactions /\ h \in Nat /\ l # NoLog
  BY <1>1 DEF CodexCommits
<1>12. /\ x \in Wal /\ x.id = l.id /\ Later(l, x) /\ \E end \in 0..Len(x.frames) : Counts(x, end)
       /\ \A k \in DOMAIN x.frames : x.frames[k].version <= h
       /\ \A p \in 1..Pages : m[p] <= Database(m, x)[p]
  BY ONLY <1>2, <1>3, <1>5, <1>8, <1>9, <1>10, <1>11, CommitGood
<1>13. main' = m /\ opens' = opens /\ history' = Append(history, Database(m, x)) /\ log' = x /\ main = m /\ log = l
  BY <1>1 DEF CodexCommits
<1>14. Database(m, x) \in MainFile
  BY ONLY <1>2, <1>12, DatabaseTyped
<1>15. /\ history' \in Seq(MainFile) /\ Len(history') = h /\ history'[Len(history')] = Database(m, x)
       /\ \A k \in 1..Len(history) : history'[k] = history[k]
  BY ONLY <1>5, <1>13, <1>14, Appended
<1>16. GoesOn
  <2>1. \A p \in 1..Pages : main[p] <= main'[p]
    BY ONLY <1>7, <1>13
  <2>2. opens <= opens' /\ Len(history) <= Len(history')
    BY ONLY <1>2, <1>5, <1>13, <1>15
  <2> QED BY ONLY <1>12, <1>13, <1>15, <2>1, <2>2 DEF GoesOn
<1>17. DatabaseGood'
  <2>1. x.id <= opens' /\ x.id # 0
    BY ONLY <1>2, <1>11, <1>12, <1>13
  <2>2. \A p \in 1..Pages : m[p] <= Database(m, x)[p] /\ m[p] <= Len(history')
    BY ONLY <1>9, <1>12, <1>15
  <2>3. \A k \in DOMAIN x.frames : x.frames[k].version <= Len(history')
    BY ONLY <1>12, <1>15
  <2>4. Len(history') > 0 /\ history'[Len(history')] = Database(main', log') /\ opens' \in Nat
    BY ONLY <1>2, <1>5, <1>13, <1>15
  <2> QED BY ONLY <1>2, <1>12, <1>13, <1>15, <2>1, <2>2, <2>3, <2>4 DEF DatabaseGood
<1> QED BY <1>16, <1>17
LEMMA DatabaseParts ==
  ASSUME DatabaseGood
  PROVE  /\ main \in MainFile /\ log \in Wal /\ log.id \in Nat /\ opens \in Nat /\ Len(history) \in Nat
         /\ \A p \in 1..Pages : main[p] \in Nat
         /\ \E n : Counts(log, n)
<1>1. main \in MainFile /\ log \in Wal /\ opens \in Nat /\ history \in Seq(MainFile) /\ \E n : Counts(log, n)
  BY DEF DatabaseGood
<1>2. log.id \in Nat
  BY <1>1, WalFields
<1>3. \A p \in 1..Pages : main[p] \in Nat
  BY <1>1 DEF MainFile
<1> QED BY <1>1, <1>2, <1>3

LEMMA StillGood ==
  ASSUME DatabaseGood, UNCHANGED <<main, log, opens, history>>
  PROVE  DatabaseGood' /\ GoesOn
<1>1. DatabaseGood'
  BY DEF DatabaseGood
<1>2. Later(log, log)
  BY DatabaseParts, LaterSame
<1>3. opens <= opens /\ Len(history) <= Len(history) /\ \A p \in 1..Pages : main[p] <= main[p]
  BY DatabaseParts
<1> QED BY <1>1, <1>2, <1>3 DEF GoesOn

LEMMA Opened ==
  ASSUME DatabaseGood, CodexOpens
  PROVE  DatabaseGood' /\ GoesOn
<1>1. PICK o \in Nat : o = opens + 1
  BY DatabaseParts
<1>2. PICK x : x = log'
  OBVIOUS
<1>3. x = [id |-> o, salt |-> 0, frames |-> << >>]
  BY <1>1, <1>2 DEF CodexOpens, NoLog
<1>4. /\ log = NoLog /\ log' = x /\ opens' = o /\ main' = main /\ history' = history
  BY <1>1, <1>2 DEF CodexOpens
<1>5. main \in MainFile /\ opens \in Nat /\ Len(history) \in Nat /\ \A p \in 1..Pages : main[p] \in Nat
  BY DatabaseParts
<1>6. x \in Wal /\ Counts(x, 0) /\ Database(main, x) = main /\ x.frames = << >> /\ x.id = o
  BY <1>3, <1>5, EmptyLog
<1>7. Database(main, log) = main
  <2>1. log = [id |-> 0, salt |-> 0, frames |-> << >>]
    BY <1>4 DEF NoLog
  <2> QED BY <1>5, <2>1, EmptyLog
<1>8. GoesOn
  <2>1. x.id > opens /\ x.id # 0 /\ opens <= opens' /\ x.id # log.id
    <3>1. log.id = 0
      BY <1>4 DEF NoLog
    <3> QED BY <1>1, <1>4, <1>5, <1>6, <3>1
  <2> QED BY ONLY <1>4, <1>5, <2>1 DEF GoesOn
<1>9. DatabaseGood'
  <2>1. /\ history \in Seq(MainFile) /\ Len(history) > 0 /\ history[Len(history)] = main
        /\ \A p \in 1..Pages : main[p] <= main[p] /\ main[p] <= Len(history)
    BY <1>5, <1>7 DEF DatabaseGood
  <2>2. \A k \in DOMAIN x.frames : x.frames[k].version <= Len(history)
    BY <1>6
  <2>3. x.id <= o /\ x.id # 0 /\ 0 \in 0..Len(x.frames)
    BY <1>1, <1>5, <1>6
  <2>4. o \in Nat
    OBVIOUS
  <2> QED BY ONLY <1>4, <1>5, <1>6, <2>1, <2>2, <2>3, <2>4 DEF DatabaseGood
<1> QED BY <1>8, <1>9

LEMMA ClosedGood ==
  ASSUME DatabaseGood, CodexCloses
  PROVE  DatabaseGood' /\ GoesOn
<1>1. log' = NoLog /\ main' = main /\ opens' = opens /\ history' = history /\ main = Database(main, log)
  BY DEF CodexCloses, Checkpointed
<1>2. main \in MainFile /\ opens \in Nat /\ Len(history) \in Nat /\ \A p \in 1..Pages : main[p] \in Nat
  BY DatabaseParts
<1>3. NoLog \in Wal /\ Counts(NoLog, 0) /\ Database(main, NoLog) = main /\ NoLog.frames = << >> /\ NoLog.id = 0
  <2>1. 0 \in Nat /\ NoLog = [id |-> 0, salt |-> 0, frames |-> << >>]
    BY DEF NoLog
  <2> QED BY <1>2, <2>1, EmptyLog
<1>4. GoesOn
  BY <1>1, <1>2, <1>3 DEF GoesOn
<1>5. DatabaseGood'
  <2>1. /\ history \in Seq(MainFile) /\ Len(history) > 0 /\ history[Len(history)] = main
        /\ \A p \in 1..Pages : main[p] <= main[p] /\ main[p] <= Len(history)
    BY <1>1, <1>2 DEF DatabaseGood
  <2>2. \A k \in DOMAIN NoLog.frames : NoLog.frames[k].version <= Len(history)
    BY <1>3
  <2>3. NoLog.id <= opens /\ 0 \in 0..Len(NoLog.frames)
    BY <1>2, <1>3
  <2> QED BY ONLY <1>1, <1>2, <1>3, <2>1, <2>2, <2>3 DEF DatabaseGood
<1> QED BY <1>4, <1>5

LEMMA CheckpointedGood ==
  ASSUME DatabaseGood, NEW q \in 1..Pages, CodexCheckpoints(q)
  PROVE  DatabaseGood' /\ GoesOn
<1>1. PICK m, l, w, d : m = main /\ l = log /\ w = main' /\ d = Database(m, l)
  OBVIOUS
<1>2. /\ log' = l /\ opens' = opens /\ history' = history /\ main' = w /\ main = m /\ log = l
      /\ w = [m EXCEPT ![q] = Database(m, l)[q]]
  BY <1>1 DEF CodexCheckpoints
<1>3. /\ m \in MainFile /\ l \in Wal /\ opens \in Nat /\ Len(history) \in Nat /\ \A p \in 1..Pages : m[p] \in Nat
  BY <1>1, DatabaseParts
<1>4. PICK n : Counts(l, n)
  BY <1>1, DatabaseParts
<1>13. d \in MainFile
  BY ONLY <1>1, <1>3, <1>4, DatabaseTyped
<1>14. w \in MainFile /\ w[q] = d[q] /\ \A p \in 1..Pages : p # q => w[p] = m[p]
  BY <1>1, <1>2, <1>3, <1>13 DEF MainFile
<1>6. w[q] = d[q] /\ \A p \in 1..Pages : p # q => w[p] = m[p]
  BY <1>14
<1>15. q \in 1..Pages /\ d = Database(m, l)
  BY <1>1
<1>5. w \in MainFile /\ Database(w, l) = d /\ d \in MainFile
  BY ONLY <1>3, <1>4, <1>13, <1>14, <1>15, CheckpointSame
<1>7. /\ \A p \in 1..Pages : m[p] <= d[p] /\ m[p] <= Len(history) /\ d[p] \in Nat
      /\ history[Len(history)] = d /\ history \in Seq(MainFile) /\ Len(history) > 0
  BY <1>1, <1>5 DEF DatabaseGood, MainFile
<1>8. d[q] <= Len(history)
  <2>1. \A k \in 1..n : l.frames[k].version <= Len(history)
    <3>1. n \in Nat /\ n <= Len(l.frames) /\ DOMAIN l.frames = 1..Len(l.frames) /\ Len(l.frames) \in Nat
      BY <1>3, <1>4, ValidCounts, WalFields
    <3> QED BY <1>1, <3>1 DEF DatabaseGood
  <2>2. d[q] = m[q] \/ \E k \in 1..n : d[q] = l.frames[k].version
    BY ONLY <1>1, <1>3, <1>4, q \in 1..Pages, DatabaseTyped
  <2> QED BY <1>7, <2>1, <2>2
<1>9. \A p \in 1..Pages : m[p] <= w[p] /\ w[p] <= d[p] /\ w[p] <= Len(history)
  BY ONLY <1>3, <1>6, <1>7, <1>8
<1>10. Later(l, l)
  BY ONLY <1>3, LaterSame
<1>11. GoesOn
  <2>1. opens <= opens /\ Len(history) <= Len(history)
    BY ONLY <1>3
  <2> QED BY ONLY <1>2, <1>9, <1>10, <2>1 DEF GoesOn
<1>12. DatabaseGood'
  <2>1. /\ l.id <= opens /\ (l.id = 0 => l = NoLog) /\ (\E k \in 0..Len(l.frames) : Counts(l, k))
        /\ \A k \in DOMAIN l.frames : l.frames[k].version <= Len(history)
    BY <1>1 DEF DatabaseGood
  <2> QED BY ONLY <1>2, <1>3, <1>5, <1>7, <1>9, <2>1 DEF DatabaseGood
<1> QED BY <1>11, <1>12

\* Whatever Codex does, the database stays good and goes on.
LEMMA CodexGoesOn ==
  ASSUME DatabaseGood, CodexSteps
  PROVE  DatabaseGood' /\ GoesOn /\ UNCHANGED <<catalogLock, snapshots, readers>>
<1>1. CASE CodexOpens
  BY <1>1, Opened DEF CodexOpens, CodexOnly
<1>2. CASE CodexCloses
  BY <1>2, ClosedGood DEF CodexCloses, CodexOnly
<1>3. CASE CodexRewrites
  BY <1>3, StillGood DEF CodexRewrites
<1>4. ASSUME NEW pages \in Transactions, CodexCommits(pages)
      PROVE  DatabaseGood' /\ GoesOn /\ UNCHANGED <<catalogLock, snapshots, readers>>
  <2>1. UNCHANGED <<catalogLock, snapshots, readers>>
    BY <1>4 DEF CodexCommits, CodexOnly
  <2> QED BY <1>4, <2>1, Committed
<1>5. ASSUME NEW p \in 1..Pages, CodexCheckpoints(p)
      PROVE  DatabaseGood' /\ GoesOn /\ UNCHANGED <<catalogLock, snapshots, readers>>
  <2>1. UNCHANGED <<catalogLock, snapshots, readers>>
    BY <1>5 DEF CodexCheckpoints, CodexOnly
  <2> QED BY <1>5, <2>1, CheckpointedGood
<1> QED BY <1>1, <1>2, <1>3, <1>4, <1>5 DEF CodexSteps-----------------------------------------------------------------------------
(* A reader while Codex goes on.                                           *)

LEMMA LogStays ==
  ASSUME DatabaseGood, DatabaseGood', GoesOn, NEW l \in Wal, NEW i \in Nat, i # 0, i <= opens,
         log.id = i => Later(l, log)
  PROVE  log'.id = i => Later(l, log')
<1> SUFFICES ASSUME log'.id = i PROVE Later(l, log')
  OBVIOUS
<1>1. log \in Wal /\ log' \in Wal /\ opens \in Nat
  BY DEF DatabaseGood
<1>2. log.id = i
  BY <1>1 DEF GoesOn
<1>3. Later(log, log') /\ Later(l, log) /\ l \in Wal
  BY <1>2 DEF GoesOn
<1>4. PICK x, y : x = log /\ y = log'
  OBVIOUS
<1>5. Later(x, y) /\ Later(l, x) /\ l \in Wal /\ x \in Wal /\ y \in Wal
  BY <1>1, <1>3, <1>4
<1>6. Later(l, y)
  BY ONLY <1>5, LaterTransitive
<1> QED BY <1>4, <1>6

LEMMA MomentStays ==
  ASSUME DatabaseGood, DatabaseGood', GoesOn, NEW m, m.fd \in Nat, m.fd <= opens, m.since \in Nat, m.since > 0,
         NEW k \in Nat, NEW a \in MainFile, NEW l \in Wal, Moment(m, k, a, l)
  PROVE  Moment(m, k, a, l)'
<1>1. /\ Len(history) \in Nat /\ Len(history') \in Nat /\ Len(history) <= Len(history')
      /\ \A j \in 1..Len(history) : history'[j] = history[j]
  BY DatabaseParts DEF GoesOn, DatabaseGood
<1>2. k \in m.since..Len(history) /\ history[k] = Database(a, l) /\ m.since \in Nat /\ m.since > 0 /\ k \in Nat
  BY DEF Moment
<1>3. k \in m.since..Len(history') /\ history'[k] = Database(a, l)
  BY ONLY <1>1, <1>2
<1>4. \A p \in 1..Pages : a[p] \in Nat /\ main[p] \in Nat /\ main'[p] \in Nat /\ main[p] <= main'[p]
  BY DEF GoesOn, DatabaseGood, MainFile
<1>5. \A p \in 1..Pages : m.main[p] <= a[p] /\ a[p] <= main[p]
  BY DEF Moment
<1>6. \A p \in 1..Pages : m.main[p] <= a[p] /\ a[p] <= main'[p]
  BY ONLY <1>4, <1>5
<1>7. m.fd # 0 /\ log'.id = m.fd => Later(l, log')
  <2>1. PICK i \in Nat : i = m.fd
    OBVIOUS
  <2>2. i # 0 => (log.id = i => Later(l, log))
    BY <2>1 DEF Moment
  <2>3. i # 0 => (log'.id = i => Later(l, log'))
    BY <2>1, <2>2, LogStays
  <2> QED BY <2>1, <2>3
<1>8. /\ \A p \in 1..Pages : m.at = "wal" \/ p < m.next => m.main[p] = a[p]
      /\ m.fd = 0 => m.log = NoLog /\ l = NoLog
      /\ m.fd # 0 =>
           /\ m.log.id = m.fd /\ l.id = m.fd
           /\ Later(m.log, l) /\ Len(m.log.frames) = Len(l.frames)
           /\ m.at = "wal" /\ m.next > 0 => m.log.salt = l.salt
           /\ \A j \in DOMAIN l.frames : m.at = "wal" /\ j < m.next => m.log.frames[j] = l.frames[j]
  BY DEF Moment
<1> QED BY ONLY <1>3, <1>6, <1>7, <1>8 DEF Moment

LEMMA ReaderStays ==
  ASSUME DatabaseGood, DatabaseGood', GoesOn, NEW m, ReaderGood(m)
  PROVE  ReaderGood(m)'
<1>1. /\ Len(history) \in Nat /\ Len(history') \in Nat /\ Len(history) <= Len(history')
      /\ \A j \in 1..Len(history) : history'[j] = history[j]
  BY DatabaseParts DEF GoesOn, DatabaseGood
<1>2. opens \in Nat /\ opens' \in Nat /\ opens <= opens'
  BY DEF GoesOn, DatabaseGood
<1>3. \A p \in 1..Pages : main[p] \in Nat /\ main'[p] \in Nat /\ main[p] <= main'[p]
  BY DEF GoesOn, DatabaseGood, MainFile
<1>4. /\ IsReader(m) /\ m.at \in ReaderStages
      /\ m.attempt \in Nat /\ m.since \in Nat /\ m.fd \in Nat /\ m.next \in Nat /\ m.pass \in Nat
      /\ m.main \in Seq(Nat) /\ m.log \in Wal /\ m.fd <= opens
  BY DEF ReaderGood, ReaderTyped
<1>5. m.fd <= opens'
  BY ONLY <1>2, <1>4
<1>6. m.at \notin {"idle", "failed"} => m.since \in 1..Len(history) /\ m.since \in 1..Len(history') /\ m.since > 0
  <2>1. m.at \notin {"idle", "failed"} => m.since \in 1..Len(history)
    BY DEF ReaderGood
  <2> QED BY ONLY <1>1, <2>1
<1>7. Len(m.main) \in Nat /\ DOMAIN m.main = 1..Len(m.main) /\ \A p \in 1..Len(m.main) : m.main[p] \in Nat
  <2>1. m.main \in Seq(Nat)
    BY <1>4
  <2> QED BY ONLY <2>1
<1>8. m.at = "copy main" =>
       /\ m.next \in 1..Pages /\ Len(m.main) + 1 = m.next /\ m.log = NoLog /\ m.pass = 1
       /\ \A p \in DOMAIN m.main : m.main[p] <= main'[p]
  <2> SUFFICES ASSUME m.at = "copy main"
               PROVE  /\ m.next \in 1..Pages /\ Len(m.main) + 1 = m.next /\ m.log = NoLog /\ m.pass = 1
                      /\ \A p \in DOMAIN m.main : m.main[p] <= main'[p]
    OBVIOUS
  <2>1. /\ m.next \in 1..Pages /\ Len(m.main) + 1 = m.next /\ m.log = NoLog /\ m.pass = 1
        /\ \A p \in DOMAIN m.main : m.main[p] <= main[p]
    BY DEF ReaderGood
  <2>2. Pages \in Nat
    BY CatalogConstants
  <2>3. DOMAIN m.main = 1..Len(m.main)
    BY <1>7
  <2>4. \A p \in 1..Len(m.main) : p \in 1..Pages
    BY ONLY <1>7, <2>1, <2>2
  <2> QED BY ONLY <1>3, <1>7, <2>1, <2>3, <2>4
<1>9. m.at \in {"copy wal", "main", "wal", "query", "listed"} => Len(m.main) = Pages
  BY DEF ReaderGood
<1>10. m.at = "copy wal" =>
       /\ m.pass = 1 /\ \A p \in 1..Pages : m.main[p] <= main'[p]
       /\ m.next = 0 => m.log = NoLog
       /\ m.next > 0 => /\ m.fd # 0 /\ m.log.id = m.fd /\ Len(m.log.frames) + 1 = m.next
                        /\ log'.id = m.fd => Later(m.log, log')
  <2> SUFFICES ASSUME m.at = "copy wal"
               PROVE  /\ m.pass = 1 /\ \A p \in 1..Pages : m.main[p] <= main'[p]
                      /\ m.next = 0 => m.log = NoLog
                      /\ m.next > 0 => /\ m.fd # 0 /\ m.log.id = m.fd /\ Len(m.log.frames) + 1 = m.next
                                       /\ log'.id = m.fd => Later(m.log, log')
    OBVIOUS
  <2>1. /\ m.pass = 1 /\ \A p \in 1..Pages : m.main[p] <= main[p]
        /\ m.next = 0 => m.log = NoLog
        /\ m.next > 0 => /\ m.fd # 0 /\ m.log.id = m.fd /\ Len(m.log.frames) + 1 = m.next
                         /\ log.id = m.fd => Later(m.log, log)
    BY DEF ReaderGood
  <2>2. \A p \in 1..Pages : m.main[p] <= main'[p]
    <3>1. Len(m.main) = Pages
      BY <1>9
    <3>2. \A p \in 1..Pages : m.main[p] \in Nat /\ m.main[p] <= main[p]
      BY ONLY <1>7, <2>1, <3>1
    <3> QED BY ONLY <1>3, <3>2
  <2>3. m.next > 0 => (log'.id = m.fd => Later(m.log, log'))
    <3>1. PICK i \in Nat, l \in Wal : i = m.fd /\ l = m.log
      BY <1>4
    <3>2. m.next > 0 => i # 0 /\ (log.id = i => Later(l, log))
      BY <2>1, <3>1
    <3>3. m.next > 0 => (log'.id = i => Later(l, log'))
      BY <1>4, <3>1, <3>2, LogStays
    <3> QED BY <3>1, <3>3
  <2> QED BY ONLY <2>1, <2>2, <2>3
<1>11. m.at \in {"main", "wal"} /\ m.pass = 1 =>
       \E k \in Nat, a \in MainFile, l \in Wal : Moment(m, k, a, l)'
  <2> SUFFICES ASSUME m.at \in {"main", "wal"}, m.pass = 1
               PROVE  \E k \in Nat, a \in MainFile, l \in Wal : Moment(m, k, a, l)'
    OBVIOUS
  <2>1. PICK k \in Nat, a \in MainFile, l \in Wal : Moment(m, k, a, l)
    BY DEF ReaderGood
  <2>2. m.since > 0
    BY <1>6
  <2>3. Moment(m, k, a, l)'
    BY <1>4, <2>1, <2>2, MomentStays
  <2> QED BY <2>3
<1>12. m.at \in {"query", "listed"} \/ (m.at \in {"main", "wal"} /\ m.pass # 1) => Exact(m)'
  <2> SUFFICES ASSUME m.at \in {"query", "listed"} \/ (m.at \in {"main", "wal"} /\ m.pass # 1) PROVE Exact(m)'
    OBVIOUS
  <2>1. PICK k \in m.since..Len(history) : history[k] = Database(m.main, m.log)
    BY DEF ReaderGood, Exact
  <2>2. m.since \in Nat /\ m.since > 0 /\ k \in m.since..Len(history)
    BY <1>4, <1>6
  <2>3. k \in m.since..Len(history') /\ history'[k] = Database(m.main, m.log)
    BY ONLY <1>1, <2>1, <2>2
  <2> QED BY ONLY <2>3 DEF Exact
<1>13. /\ m.at \in {"idle", "failed", "global", "index", "lock", "clean"} => m.main = << >> /\ m.log = NoLog
       /\ m.at = "main" => m.next \in 1..Pages
       /\ m.at = "listed" \/ (m.at \in {"main", "wal"} /\ m.pass # 1) =>
            m.tasks = ListOnce(m.global, m.lines, Database(m.main, m.log))
  BY DEF ReaderGood
<1> QED BY ONLY <1>4, <1>5, <1>6, <1>8, <1>9, <1>10, <1>11, <1>12, <1>13 DEF ReaderGood, ReaderTyped-----------------------------------------------------------------------------
(* The steps of a reader.                                                  *)

LEMMA NoLogTyped == NoLog \in Wal /\ NoLog.id = 0 /\ NoLog.salt = 0 /\ NoLog.frames = << >>
<1>1. << >> \in Seq(WalFrame)
  OBVIOUS
<1> QED BY <1>1 DEF NoLog, Wal

LEMMA FreshTyped ==
  ASSUME DatabaseGood, NEW t, IsReader(t), t.at \in ReaderStages, t.attempt \in Nat, t.since \in Nat,
         t.fd = 0, t.next = 0, t.pass = 0, t.main = << >>, t.log = NoLog
  PROVE  ReaderTyped(t)
<1>1. << >> \in Seq(Nat) /\ opens \in Nat
  BY DEF DatabaseGood
<1> QED BY <1>1, NoLogTyped DEF ReaderTyped

LEMMA Fresh ==
  ASSUME DatabaseGood
  PROVE  /\ ReaderGood(NewReader) /\ ReaderGood([NewReader EXCEPT !.at = "failed"])
         /\ \A n \in Nat : ReaderGood([NewReader EXCEPT !.at = "global", !.attempt = n, !.since = Len(history)])
<1>1. Len(history) \in Nat /\ Len(history) \in 1..Len(history)
  BY DEF DatabaseGood
<1>2. ReaderGood(NewReader)
  <2>1. ReaderTyped(NewReader)
    BY FreshTyped DEF NewReader, IsReader, ReaderFields, ReaderStages
  <2>2. NewReader.at = "idle" /\ NewReader.main = << >> /\ NewReader.log = NoLog
    BY DEF NewReader
  <2> QED BY <2>1, <2>2 DEF ReaderGood
<1>3. ReaderGood([NewReader EXCEPT !.at = "failed"])
  <2>1. PICK t : t = [NewReader EXCEPT !.at = "failed"]
    OBVIOUS
  <2>2. /\ IsReader(t) /\ t.at = "failed" /\ t.attempt = 0 /\ t.since = 0 /\ t.fd = 0 /\ t.next = 0
        /\ t.pass = 0 /\ t.main = << >> /\ t.log = NoLog
    BY <2>1 DEF NewReader, IsReader, ReaderFields
  <2>5. t.at \in ReaderStages
    BY ONLY <2>2 DEF ReaderStages
  <2>6. t.attempt \in Nat /\ t.since \in Nat
    <3>1. t.attempt = 0 /\ t.since = 0
      BY <2>2
    <3> QED BY ONLY <3>1
  <2>3. ReaderTyped(t)
    BY <2>2, <2>5, <2>6, FreshTyped
  <2>4. ReaderGood(t)
    BY ONLY <2>2, <2>3 DEF ReaderGood
  <2> QED BY <2>1, <2>4
<1>4. ASSUME NEW n \in Nat
      PROVE  ReaderGood([NewReader EXCEPT !.at = "global", !.attempt = n, !.since = Len(history)])
  <2>1. PICK t : t = [NewReader EXCEPT !.at = "global", !.attempt = n, !.since = Len(history)]
    OBVIOUS
  <2>2. /\ IsReader(t) /\ t.at = "global" /\ t.attempt = n /\ t.since = Len(history) /\ t.fd = 0 /\ t.next = 0
        /\ t.pass = 0 /\ t.main = << >> /\ t.log = NoLog
    BY <2>1 DEF NewReader, IsReader, ReaderFields
  <2>5. t.at \in ReaderStages
    BY ONLY <2>2 DEF ReaderStages
  <2>6. t.attempt \in Nat /\ t.since \in Nat
    <3>1. n \in Nat /\ t.attempt = n /\ t.since = Len(history)
      BY <2>2
    <3> QED BY ONLY <1>1, <3>1
  <2>3. ReaderTyped(t)
    BY <2>2, <2>5, <2>6, FreshTyped
  <2>4. ReaderGood(t)
    BY ONLY <1>1, <2>2, <2>3 DEF ReaderGood
  <2> QED BY <2>1, <2>4
<1> QED BY <1>2, <1>3, <1>4

\* A reader that has gone on to another step with what it had copied.
GoneOn(t, m) ==
  /\ IsReader(t) /\ t.attempt = m.attempt /\ t.since = m.since /\ t.fd = m.fd
  /\ t.main = m.main /\ t.log = m.log

LEMMA EarlyGood ==
  ASSUME NEW m, ReaderGood(m), m.at \in {"global", "index", "lock"}, NEW t, GoneOn(t, m), t.next = m.next,
         t.pass = m.pass, t.at \in {"index", "lock", "clean"}
  PROVE  ReaderGood(t)
<1>1. ReaderTyped(m) /\ m.since \in 1..Len(history) /\ m.main = << >> /\ m.log = NoLog
  BY DEF ReaderGood
<1>2. ReaderTyped(t)
  BY <1>1 DEF ReaderTyped, GoneOn, ReaderStages
<1>3. t.since \in 1..Len(history) /\ t.main = << >> /\ t.log = NoLog
  BY <1>1 DEF GoneOn
<1>4. t.at \in {"index", "lock", "clean"}
  OBVIOUS
<1> QED BY ONLY <1>2, <1>3, <1>4 DEF ReaderGood

LEMMA OpenGood ==
  ASSUME DatabaseGood, NEW m, ReaderGood(m), m.at = "clean",
         NEW t, t = [m EXCEPT !.at = "copy main", !.fd = log.id, !.next = 1, !.pass = 1]
  PROVE  ReaderGood(t)
<1>1. ReaderTyped(m) /\ m.since \in 1..Len(history) /\ m.main = << >> /\ m.log = NoLog
  BY DEF ReaderGood
<1>2. /\ IsReader(t) /\ t.at = "copy main" /\ t.attempt = m.attempt /\ t.since = m.since
      /\ t.fd = log.id /\ t.next = 1 /\ t.pass = 1 /\ t.main = m.main /\ t.log = m.log
  BY <1>1 DEF ReaderTyped, IsReader, ReaderFields
<1>3. log.id \in Nat /\ log.id <= opens
  BY DatabaseParts DEF DatabaseGood
<1>4. ReaderTyped(t)
  <2>1. IsReader(t) /\ t.at \in ReaderStages
    BY ONLY <1>2 DEF ReaderStages
  <2>2. t.fd = log.id /\ t.next = 1 /\ t.pass = 1
    BY <1>2
  <2>3. t.fd \in Nat /\ t.fd <= opens /\ t.next \in Nat /\ t.pass \in Nat
    BY ONLY <1>3, <2>2
  <2>4. t.attempt = m.attempt /\ t.since = m.since /\ t.main = m.main /\ t.log = m.log
    BY <1>2
  <2> QED BY ONLY <1>1, <2>1, <2>3, <2>4 DEF ReaderTyped
<1>5. t.next \in 1..Pages /\ Len(t.main) + 1 = t.next /\ DOMAIN t.main = {} /\ t.main = << >> /\ t.log = NoLog
  <2>1. t.next = 1 /\ t.main = << >> /\ t.log = NoLog
    BY <1>1, <1>2
  <2>2. Pages \in Nat \ {0}
    BY CatalogConstants
  <2> QED BY ONLY <2>1, <2>2
<1>6. t.since \in 1..Len(history)
  BY <1>1, <1>2
<1> QED BY ONLY <1>2, <1>4, <1>5, <1>6 DEF ReaderGood

LEMMA CopyMainGood ==
  ASSUME DatabaseGood, NEW m, ReaderGood(m), m.at = "copy main", NEW t, NEW copy, copy = Append(m.main, main[m.next]),
         \/ m.next = Pages /\ t = [m EXCEPT !.main = copy, !.next = 0, !.at = "copy wal"]
         \/ m.next # Pages /\ t = [m EXCEPT !.main = copy, !.next = m.next + 1]
  PROVE  ReaderGood(t)
<1>1. /\ ReaderTyped(m) /\ m.since \in 1..Len(history) /\ m.next \in 1..Pages /\ Len(m.main) + 1 = m.next
      /\ m.log = NoLog /\ m.pass = 1 /\ \A p \in DOMAIN m.main : m.main[p] <= main[p]
  BY DEF ReaderGood
<1>2. m.main \in Seq(Nat) /\ DOMAIN m.main = 1..Len(m.main) /\ Len(m.main) \in Nat /\ m.next \in Nat /\ Pages \in Nat
  <2>1. m.main \in Seq(Nat) /\ m.next \in Nat
    BY <1>1 DEF ReaderTyped
  <2>2. Pages \in Nat
    BY CatalogConstants
  <2> QED BY ONLY <2>1, <2>2
<1>3. \A p \in 1..Pages : main[p] \in Nat
  BY DatabaseParts
<1>4. /\ copy \in Seq(Nat) /\ Len(copy) = m.next /\ copy[m.next] = main[m.next]
      /\ \A p \in 1..Len(m.main) : copy[p] = m.main[p]
  <2>1. PICK e \in Nat : e = main[m.next]
    BY <1>1, <1>3
  <2>2. copy = Append(m.main, e)
    BY <2>1
  <2>3. /\ copy \in Seq(Nat) /\ Len(copy) = Len(m.main) + 1 /\ copy[Len(copy)] = e
        /\ \A p \in 1..Len(m.main) : copy[p] = m.main[p]
    BY ONLY <1>2, <2>2, e \in Nat, Appended
  <2> QED BY ONLY <1>1, <2>1, <2>3
<1>5. \A p \in 1..m.next : copy[p] <= main[p]
  <2>1. \A p \in 1..m.next : p = m.next \/ p \in 1..Len(m.main)
    BY ONLY <1>1, <1>2
  <2>2. main[m.next] <= main[m.next]
    BY ONLY <1>1, <1>3
  <2>3. ASSUME NEW p \in 1..m.next PROVE copy[p] <= main[p]
    <3>1. CASE p = m.next
      BY ONLY <1>4, <2>2, <3>1
    <3>2. CASE p \in 1..Len(m.main)
      BY ONLY <1>1, <1>2, <1>4, <3>2
    <3> QED BY <2>1, <3>1, <3>2
  <2> QED BY <2>3
<1>6. DOMAIN copy = 1..m.next
  BY ONLY <1>2, <1>4
<1>7. CASE m.next = Pages /\ t = [m EXCEPT !.main = copy, !.next = 0, !.at = "copy wal"]
  <2>1. /\ IsReader(t) /\ t.at = "copy wal" /\ t.attempt = m.attempt /\ t.since = m.since
        /\ t.fd = m.fd /\ t.next = 0 /\ t.pass = m.pass /\ t.main = copy /\ t.log = m.log
    BY <1>1, <1>7 DEF ReaderTyped, IsReader, ReaderFields
  <2>5. t.next = 0
    BY <1>1, <1>7 DEF ReaderTyped, IsReader, ReaderFields
  <2>2. ReaderTyped(t)
    <3>1. IsReader(t) /\ t.at \in ReaderStages
      BY ONLY <2>1 DEF ReaderStages
    <3>2. t.next \in Nat
      BY ONLY <2>5
    <3>3. /\ t.attempt = m.attempt /\ t.since = m.since /\ t.fd = m.fd /\ t.pass = m.pass /\ t.main = copy
          /\ t.log = m.log
      BY <2>1
    <3> QED BY ONLY <1>1, <1>4, <3>1, <3>2, <3>3 DEF ReaderTyped
  <2>3. /\ t.since \in 1..Len(history) /\ Len(t.main) = Pages /\ t.pass = 1 /\ t.log = NoLog
        /\ \A p \in 1..Pages : t.main[p] <= main[p]
    BY ONLY <1>1, <1>4, <1>5, <1>7, <2>1
  <2>4. ~(t.next > 0)
    BY ONLY <2>5
  <2> QED BY ONLY <2>1, <2>2, <2>3, <2>4 DEF ReaderGood
<1>8. CASE m.next # Pages /\ t = [m EXCEPT !.main = copy, !.next = m.next + 1]
  <2>1. PICK n \in Nat : n = m.next + 1
    BY ONLY <1>2
  <2>2. /\ IsReader(t) /\ t.at = "copy main" /\ t.attempt = m.attempt /\ t.since = m.since
        /\ t.fd = m.fd /\ t.next = n /\ t.pass = m.pass /\ t.main = copy /\ t.log = m.log
    BY <1>1, <1>8, <2>1 DEF ReaderTyped, IsReader, ReaderFields
  <2>3. ReaderTyped(t)
    <3>1. n \in Nat
      OBVIOUS
    <3> QED BY ONLY <1>1, <1>4, <2>2, <3>1 DEF ReaderTyped, ReaderStages
  <2>4. n \in 1..Pages /\ Len(copy) + 1 = n
    BY ONLY <1>1, <1>2, <1>4, <1>8, <2>1
  <2>5. \A p \in DOMAIN t.main : t.main[p] <= main[p]
    BY ONLY <1>5, <1>6, <2>2
  <2>6. t.since \in 1..Len(history) /\ t.log = NoLog /\ t.pass = 1
    BY ONLY <1>1, <2>2
  <2> QED BY ONLY <2>2, <2>3, <2>4, <2>5, <2>6 DEF ReaderGood
<1> QED BY <1>7, <1>8
\* One frame of the log is added to the copy.
LEMMA LaterGrows ==
  ASSUME NEW x \in Wal, NEW y \in Wal, Later(x, y), NEW j \in Nat, Len(x.frames) + 1 = j, j <= Len(y.frames),
         NEW w, w = [x EXCEPT !.frames = Append(x.frames, y.frames[j])]
  PROVE  w \in Wal /\ Later(w, y) /\ Len(w.frames) = j /\ w.id = x.id
<1>1. /\ x.frames \in Seq(WalFrame) /\ Len(x.frames) \in Nat /\ Len(y.frames) \in Nat
      /\ DOMAIN x.frames = 1..Len(x.frames)
      /\ \A k \in 1..Len(y.frames) : y.frames[k] \in WalFrame /\ y.frames[k].version \in Nat
  BY WalFields
<1>2. PICK e \in WalFrame : e = y.frames[j]
  BY <1>1
<1>3. PICK f : f = Append(x.frames, e)
  OBVIOUS
<1>4. /\ f \in Seq(WalFrame) /\ Len(f) = Len(x.frames) + 1 /\ f[Len(f)] = e
      /\ \A k \in 1..Len(x.frames) : f[k] = x.frames[k]
  BY ONLY <1>1, <1>3, e \in WalFrame, Appended
<1>5. w = [x EXCEPT !.frames = f]
  BY <1>2, <1>3
<1>6. w \in Wal /\ w.frames = f /\ w.id = x.id /\ w.salt = x.salt
  BY <1>4, <1>5 DEF Wal
<1>7. /\ x.salt <= y.salt /\ \A k \in 1..Len(x.frames) :
           /\ x.frames[k].version <= y.frames[k].version
           /\ x.frames[k].version = y.frames[k].version => x.frames[k] = y.frames[k]
  BY <1>1 DEF Later
<1>8. j \in Nat /\ Len(f) = j /\ j <= Len(y.frames) /\ DOMAIN f = 1..j /\ Len(x.frames) + 1 = j
  BY <1>4
<1>9. ASSUME NEW k \in 1..j
      PROVE  f[k].version <= y.frames[k].version /\ (f[k].version = y.frames[k].version => f[k] = y.frames[k])
  <2>1. CASE k = j
    <3>1. f[k] = y.frames[k] /\ k \in 1..Len(y.frames)
      BY ONLY <1>1, <1>2, <1>4, <1>8, <2>1
    <3> QED BY ONLY <1>1, <3>1
  <2>2. CASE k # j
    <3>1. k \in 1..Len(x.frames)
      BY ONLY <1>1, <1>8, <2>2, k \in 1..j
    <3> QED BY ONLY <1>4, <1>7, <3>1
  <2> QED BY <2>1, <2>2
<1> QED BY ONLY <1>1, <1>6, <1>7, <1>8, <1>9 DEF Later

\* What is known of a reader that copies the log.
LEMMA CopyWalParts ==
  ASSUME NEW m, ReaderGood(m), m.at = "copy wal"
  PROVE  /\ ReaderTyped(m) /\ m.since \in 1..Len(history) /\ Len(m.main) = Pages /\ m.pass = 1
         /\ m.next \in Nat /\ m.fd \in Nat /\ m.log \in Wal /\ m.since \in Nat
         /\ \A p \in 1..Pages : m.main[p] <= main[p]
         /\ m.next = 0 => m.log = NoLog
         /\ m.next > 0 => /\ m.fd # 0 /\ m.log.id = m.fd /\ Len(m.log.frames) + 1 = m.next
                          /\ log.id = m.fd => Later(m.log, log)
BY DEF ReaderGood, ReaderTyped

LEMMA CopyLogDone ==
  ASSUME DatabaseGood, NEW m, ReaderGood(m), m.at = "copy wal", log.id = m.fd,
         m.fd = 0 \/ m.next > Len(log.frames), NEW t, t = [m EXCEPT !.at = "main", !.next = 1]
  PROVE  ReaderGood(t)
<1>1. /\ ReaderTyped(m) /\ m.since \in 1..Len(history) /\ Len(m.main) = Pages /\ m.pass = 1
      /\ m.next \in Nat /\ m.fd \in Nat /\ m.log \in Wal /\ m.since \in Nat
      /\ \A p \in 1..Pages : m.main[p] <= main[p]
      /\ m.next = 0 => m.log = NoLog
      /\ m.next > 0 => /\ m.fd # 0 /\ m.log.id = m.fd /\ Len(m.log.frames) + 1 = m.next
                       /\ log.id = m.fd => Later(m.log, log)
  BY CopyWalParts
<1>2. IsReader(t) /\ t.at = "main"
  BY <1>1 DEF ReaderTyped, IsReader, ReaderFields
<1>3. t.next = 1
  BY <1>1 DEF ReaderTyped, IsReader, ReaderFields
<1>4. /\ t.attempt = m.attempt /\ t.since = m.since /\ t.fd = m.fd /\ t.pass = m.pass /\ t.main = m.main
      /\ t.log = m.log
  BY <1>1 DEF ReaderTyped, IsReader, ReaderFields
<1>5. t.next \in Nat /\ t.next \in 1..Pages
  BY ONLY <1>3, CatalogConstants
<1>6. ReaderTyped(t)
  <2>1. t.at \in ReaderStages
    BY ONLY <1>2 DEF ReaderStages
  <2> QED BY ONLY <1>1, <1>2, <1>4, <1>5, <2>1 DEF ReaderTyped
<1>7. /\ Len(history) \in Nat /\ log \in Wal /\ main \in MainFile /\ history[Len(history)] = Database(main, log)
      /\ (log.id = 0 => log = NoLog) /\ Len(log.frames) \in Nat /\ \A p \in 1..Pages : main[p] \in Nat
  <2>1. log \in Wal
    BY DatabaseParts
  <2>2. Len(log.frames) \in Nat
    BY <2>1, WalFields
  <2> QED BY <2>2, DatabaseParts DEF DatabaseGood
<1>8. log.id = m.fd /\ (m.fd = 0 \/ m.next > Len(log.frames))
  OBVIOUS
<1>9. m.fd = 0 => m.log = NoLog /\ log = NoLog
  BY ONLY <1>1, <1>7, <1>8
<1>10. m.fd # 0 => m.log.id = m.fd /\ Later(m.log, log) /\ Len(m.log.frames) = Len(log.frames)
  <2> SUFFICES ASSUME m.fd # 0
               PROVE  m.log.id = m.fd /\ Later(m.log, log) /\ Len(m.log.frames) = Len(log.frames)
    OBVIOUS
  <2>1. m.next > 0 /\ m.next > Len(log.frames)
    BY ONLY <1>1, <1>7, <1>8, m.fd # 0
  <2>2. m.log.id = m.fd /\ Len(m.log.frames) + 1 = m.next /\ Later(m.log, log)
    BY ONLY <1>1, <1>8, <2>1
  <2>3. Len(m.log.frames) <= Len(log.frames) /\ Len(m.log.frames) \in Nat
    BY <1>1, <2>2, WalFields DEF Later
  <2> QED BY ONLY <1>7, <2>1, <2>2, <2>3
<1>11. Later(log, log)
  BY <1>7, LaterSame
<1>12. Len(history) \in m.since..Len(history)
  BY ONLY <1>1, <1>7
<1>13. /\ \A p \in 1..Pages : ~(p < t.next) /\ main[p] <= main[p]
       /\ t.at # "wal"
  <2>1. \A p \in 1..Pages : ~(p < t.next) /\ main[p] <= main[p]
    BY ONLY <1>3, <1>7, CatalogConstants
  <2>2. t.at # "wal"
    BY ONLY <1>2
  <2> QED BY ONLY <2>1, <2>2
<1>14. Moment(t, Len(history), main, log)
  BY ONLY <1>1, <1>4, <1>7, <1>8, <1>9, <1>10, <1>11, <1>12, <1>13 DEF Moment
<1>15. \E k \in Nat, a \in MainFile, l \in Wal : Moment(t, k, a, l)
  BY ONLY <1>7, <1>14
<1>16. t.since \in 1..Len(history) /\ Len(t.main) = Pages /\ t.pass = 1
  BY ONLY <1>1, <1>4
<1> QED BY ONLY <1>2, <1>5, <1>6, <1>15, <1>16 DEF ReaderGood

LEMMA CopyLogOn ==
  ASSUME DatabaseGood, NEW m, ReaderGood(m), m.at = "copy wal", log.id = m.fd, m.fd # 0, m.next <= Len(log.frames),
         NEW t, NEW w, t = [m EXCEPT !.next = m.next + 1, !.log = w],
         \/ m.next = 0 /\ w = [m.log EXCEPT !.id = log.id, !.salt = log.salt]
         \/ m.next > 0 /\ w = [m.log EXCEPT !.frames = Append(m.log.frames, log.frames[m.next])]
  PROVE  ReaderGood(t)
<1>1. /\ ReaderTyped(m) /\ m.since \in 1..Len(history) /\ Len(m.main) = Pages /\ m.pass = 1
      /\ m.next \in Nat /\ m.fd \in Nat /\ m.log \in Wal /\ m.since \in Nat
      /\ \A p \in 1..Pages : m.main[p] <= main[p]
      /\ m.next = 0 => m.log = NoLog
      /\ m.next > 0 => /\ m.fd # 0 /\ m.log.id = m.fd /\ Len(m.log.frames) + 1 = m.next
                       /\ log.id = m.fd => Later(m.log, log)
  BY CopyWalParts
<1>7. log \in Wal /\ log.id \in Nat /\ log.salt \in Nat /\ log.frames \in Seq(WalFrame) /\ Len(log.frames) \in Nat
  <2>1. log \in Wal
    BY DatabaseParts
  <2> QED BY <2>1, WalFields
<1>8. w \in Wal /\ Later(w, log) /\ Len(w.frames) = m.next /\ w.id = m.fd
  <2>1. CASE m.next = 0 /\ w = [m.log EXCEPT !.id = log.id, !.salt = log.salt]
    <3>1. w = [NoLog EXCEPT !.id = log.id, !.salt = log.salt]
      BY <1>1, <2>1
    <3>2. w = [id |-> log.id, salt |-> log.salt, frames |-> << >>]
      BY ONLY <3>1 DEF NoLog
    <3>3. w \in Wal
      BY ONLY <1>7, <3>2 DEF Wal
    <3>4. w.id = log.id /\ w.salt = log.salt /\ w.frames = << >>
      BY ONLY <3>2
    <3>5. w.salt <= log.salt /\ Len(w.frames) = 0 /\ DOMAIN w.frames = {} /\ 0 <= Len(log.frames)
      BY ONLY <1>7, <3>4
    <3>6. Later(w, log)
      BY ONLY <3>5 DEF Later
    <3>7. log.id = m.fd
      OBVIOUS
    <3> QED BY ONLY <2>1, <3>3, <3>4, <3>5, <3>6, <3>7
  <2>2. CASE m.next > 0 /\ w = [m.log EXCEPT !.frames = Append(m.log.frames, log.frames[m.next])]
    <3>1. PICK x \in Wal, j \in Nat : x = m.log /\ j = m.next
      BY <1>1
    <3>2. /\ Later(x, log) /\ Len(x.frames) + 1 = j /\ j <= Len(log.frames) /\ x.id = m.fd
      BY <1>1, <2>2, <3>1
    <3>3. w = [x EXCEPT !.frames = Append(x.frames, log.frames[j])]
      BY <2>2, <3>1
    <3>4. x \in Wal /\ j \in Nat
      OBVIOUS
    <3>5. w \in Wal /\ Later(w, log) /\ Len(w.frames) = j /\ w.id = x.id
      BY ONLY <1>7, <3>2, <3>3, <3>4, LaterGrows
    <3> QED BY ONLY <3>1, <3>2, <3>5
  <2> QED BY <2>1, <2>2
<1>9. PICK n \in Nat : n = m.next + 1
  BY ONLY <1>1
<1>2. IsReader(t) /\ t.at = "copy wal"
  BY <1>1 DEF ReaderTyped, IsReader, ReaderFields
<1>3. t.next = n
  BY <1>1, <1>9 DEF ReaderTyped, IsReader, ReaderFields
<1>4. /\ t.attempt = m.attempt /\ t.since = m.since /\ t.fd = m.fd /\ t.pass = m.pass /\ t.main = m.main
      /\ t.log = w
  BY <1>1 DEF ReaderTyped, IsReader, ReaderFields
<1>5. t.next \in Nat /\ t.next > 0 /\ t.next # 0 /\ Len(w.frames) + 1 = t.next
  <2>1. n \in Nat
    OBVIOUS
  <2> QED BY ONLY <1>1, <1>3, <1>8, <1>9, <2>1
<1>6. ReaderTyped(t)
  <2>1. t.at \in ReaderStages
    BY ONLY <1>2 DEF ReaderStages
  <2> QED BY ONLY <1>1, <1>2, <1>4, <1>5, <1>8, <2>1 DEF ReaderTyped
<1>10. t.since \in 1..Len(history) /\ Len(t.main) = Pages /\ t.pass = 1 /\ \A p \in 1..Pages : t.main[p] <= main[p]
  BY ONLY <1>1, <1>4
<1>11. t.fd # 0 /\ t.log.id = t.fd /\ Len(t.log.frames) + 1 = t.next /\ Later(t.log, log)
  <2>1. m.fd # 0
    OBVIOUS
  <2> QED BY ONLY <1>4, <1>5, <1>8, <2>1
<1> QED BY ONLY <1>2, <1>5, <1>6, <1>10, <1>11 DEF ReaderGood
\* A later step of a reader, in the second pass over the files: what it has is exact.
Settled(m) ==
  /\ Exact(m) /\ m.tasks = ListOnce(m.global, m.lines, Database(m.main, m.log))

LEMMA VerifyParts ==
  ASSUME NEW m, ReaderGood(m), m.at \in {"main", "wal"}
  PROVE  /\ ReaderTyped(m) /\ m.since \in 1..Len(history) /\ Len(m.main) = Pages /\ m.main \in Seq(Nat)
         /\ m.next \in Nat /\ m.fd \in Nat /\ m.log \in Wal /\ m.since \in Nat
         /\ m.at = "main" => m.next \in 1..Pages
         /\ m.pass = 1 => \E k \in Nat, a \in MainFile, l \in Wal : Moment(m, k, a, l)
         /\ m.pass # 1 => Settled(m)
BY DEF ReaderGood, ReaderTyped, Settled

\* How a reader goes on verifying.
LEMMA VerifyGood ==
  ASSUME NEW m, ReaderGood(m), m.at \in {"main", "wal"}, NEW t, GoneOn(t, m), t.next \in Nat, t.pass = m.pass,
         t.global = m.global, t.lines = m.lines, t.tasks = m.tasks, t.at \in {"main", "wal"},
         t.at = "main" => t.next \in 1..Pages,
         \A k \in Nat, a \in MainFile, l \in Wal : Moment(m, k, a, l) => Moment(t, k, a, l)
  PROVE  ReaderGood(t)
<1>1. /\ ReaderTyped(m) /\ m.since \in 1..Len(history) /\ Len(m.main) = Pages
      /\ m.pass = 1 => \E k \in Nat, a \in MainFile, l \in Wal : Moment(m, k, a, l)
      /\ m.pass # 1 => Settled(m)
  BY VerifyParts
<1>2. /\ IsReader(t) /\ t.attempt = m.attempt /\ t.since = m.since /\ t.fd = m.fd /\ t.main = m.main /\ t.log = m.log
      /\ t.pass = m.pass /\ t.global = m.global /\ t.lines = m.lines /\ t.tasks = m.tasks
  BY DEF GoneOn
<1>3. t.at \in ReaderStages /\ t.next \in Nat
  BY DEF ReaderStages
<1>4. ReaderTyped(t)
  BY ONLY <1>1, <1>2, <1>3 DEF ReaderTyped
<1>5. t.since \in 1..Len(history) /\ Len(t.main) = Pages
  BY ONLY <1>1, <1>2
<1>6. t.pass = 1 => \E k \in Nat, a \in MainFile, l \in Wal : Moment(t, k, a, l)
  BY <1>1, <1>2
<1>7. t.pass # 1 => Exact(t) /\ t.tasks = ListOnce(t.global, t.lines, Database(t.main, t.log))
  BY ONLY <1>1, <1>2 DEF Settled, Exact
<1>8. t.at \in {"main", "wal"} /\ (t.at = "main" => t.next \in 1..Pages)
  OBVIOUS
<1> QED BY ONLY <1>4, <1>5, <1>6, <1>7, <1>8 DEF ReaderGood

LEMMA VerifyMainGood ==
  ASSUME DatabaseGood, NEW m, ReaderGood(m), m.at = "main", main[m.next] = m.main[m.next], NEW t,
         \/ m.next = Pages /\ t = [m EXCEPT !.at = "wal", !.next = 0]
         \/ m.next # Pages /\ t = [m EXCEPT !.next = m.next + 1]
  PROVE  ReaderGood(t)
<1>1. /\ ReaderTyped(m) /\ m.since \in 1..Len(history) /\ Len(m.main) = Pages /\ m.main \in Seq(Nat)
      /\ m.next \in Nat /\ m.next \in 1..Pages
  BY VerifyParts
<1>2. Pages \in Nat /\ \A p \in 1..Pages : main[p] \in Nat /\ m.main[p] \in Nat
  <2>1. Pages \in Nat
    BY CatalogConstants
  <2>2. \A p \in 1..Pages : m.main[p] \in Nat
    BY ONLY <1>1, <2>1
  <2> QED BY <2>1, <2>2, DatabaseParts
<1>3. main[m.next] = m.main[m.next]
  OBVIOUS
<1>4. PICK n \in Nat : n = IF m.next = Pages THEN 0 ELSE m.next + 1
  BY ONLY <1>1
<1>5. IsReader(t) /\ t.at = IF m.next = Pages THEN "wal" ELSE "main"
  BY <1>1 DEF ReaderTyped, IsReader, ReaderFields
<1>6. t.next = n
  <2>1. CASE m.next = Pages /\ t = [m EXCEPT !.at = "wal", !.next = 0]
    BY <1>1, <1>4, <2>1 DEF ReaderTyped, IsReader, ReaderFields
  <2>2. CASE m.next # Pages /\ t = [m EXCEPT !.next = m.next + 1]
    BY <1>1, <1>4, <2>2 DEF ReaderTyped, IsReader, ReaderFields
  <2> QED BY <2>1, <2>2
<1>7. /\ t.attempt = m.attempt /\ t.since = m.since /\ t.fd = m.fd /\ t.main = m.main /\ t.log = m.log
      /\ t.pass = m.pass /\ t.global = m.global /\ t.lines = m.lines /\ t.tasks = m.tasks
  BY <1>1 DEF ReaderTyped, IsReader, ReaderFields
<1>8. GoneOn(t, m) /\ t.at \in {"main", "wal"}
  BY ONLY <1>5, <1>7 DEF GoneOn
<1>9. t.next \in Nat /\ (m.next # Pages => t.next \in 1..Pages) /\ (m.next = Pages => t.next = 0)
  <2>1. n \in Nat
    OBVIOUS
  <2> QED BY ONLY <1>1, <1>2, <1>4, <1>6, <2>1
<1>10. t.at = "main" => t.next \in 1..Pages
  <2>1. t.at = "main" => m.next # Pages
    BY ONLY <1>5
  <2> QED BY <1>9, <2>1
<1>11. ASSUME NEW k \in Nat, NEW a \in MainFile, NEW l \in Wal, Moment(m, k, a, l) PROVE Moment(t, k, a, l)
  <2>1. /\ k \in m.since..Len(history) /\ history[k] = Database(a, l)
        /\ \A p \in 1..Pages : m.main[p] <= a[p] /\ a[p] <= main[p]
        /\ \A p \in 1..Pages : p < m.next => m.main[p] = a[p]
        /\ m.fd = 0 => m.log = NoLog /\ l = NoLog
        /\ m.fd # 0 =>
             /\ m.log.id = m.fd /\ l.id = m.fd
             /\ Later(m.log, l) /\ Len(m.log.frames) = Len(l.frames)
             /\ log.id = m.fd => Later(l, log)
    BY <1>11 DEF Moment
  <2>2. \A p \in 1..Pages : a[p] \in Nat
    BY DEF MainFile
  <2>3. m.main[m.next] = a[m.next]
    BY ONLY <1>1, <1>2, <1>3, <2>1, <2>2
  <2>4. \A p \in 1..Pages : m.next = Pages \/ p < t.next => m.main[p] = a[p]
    <3> SUFFICES ASSUME NEW p \in 1..Pages, m.next = Pages \/ p < t.next PROVE m.main[p] = a[p]
      OBVIOUS
    <3>1. p < m.next \/ p = m.next
      <4>1. p \in 1..Pages /\ (m.next = Pages \/ p < t.next) /\ n \in Nat
        OBVIOUS
      <4> QED BY ONLY <1>1, <1>2, <1>4, <1>6, <4>1
    <3>2. p \in 1..Pages
      OBVIOUS
    <3> QED BY ONLY <2>1, <2>3, <3>1, <3>2
  <2>5. t.at = "wal" => m.next = Pages
    BY ONLY <1>5
  <2>6. t.at = "wal" => ~(t.next > 0) /\ \A j \in DOMAIN l.frames : ~(j < t.next)
    <3>1. m.next = Pages => t.next = 0
      BY <1>9
    <3>2. m.next = Pages => ~(t.next > 0)
      BY ONLY <3>1
    <3>3. DOMAIN l.frames = 1..Len(l.frames)
      BY WalFields
    <3>4. m.next = Pages => \A j \in DOMAIN l.frames : ~(j < t.next)
      BY ONLY <3>1, <3>3
    <3> QED BY ONLY <2>5, <3>2, <3>4
  <2>7. \A p \in 1..Pages : t.at = "wal" \/ p < t.next => t.main[p] = a[p]
    BY ONLY <1>7, <2>4, <2>5
  <2> QED BY ONLY <1>7, <2>1, <2>6, <2>7 DEF Moment
<1>12. m.at \in {"main", "wal"} /\ ReaderGood(m) /\ t.next \in Nat
  BY <1>9
<1> QED BY ONLY <1>7, <1>8, <1>9, <1>10, <1>11, <1>12, VerifyGood
LEMMA VerifyLogOn ==
  ASSUME DatabaseGood, NEW m, ReaderGood(m), m.at = "wal", log.id = m.fd, m.fd # 0,
         \/ m.next = 0 /\ log.salt = m.log.salt
         \/ m.next > 0 /\ m.next <= Len(m.log.frames) /\ log.frames[m.next] = m.log.frames[m.next],
         NEW t, t = [m EXCEPT !.next = m.next + 1]
  PROVE  ReaderGood(t)
<1>1. /\ ReaderTyped(m) /\ m.next \in Nat /\ m.log \in Wal /\ m.fd \in Nat
  BY VerifyParts
<1>2. PICK n \in Nat : n = m.next + 1
  BY ONLY <1>1
<1>3. IsReader(t) /\ t.at = "wal"
  BY <1>1 DEF ReaderTyped, IsReader, ReaderFields
<1>4. t.next = n
  BY <1>1, <1>2 DEF ReaderTyped, IsReader, ReaderFields
<1>5. /\ t.attempt = m.attempt /\ t.since = m.since /\ t.fd = m.fd /\ t.main = m.main /\ t.log = m.log
      /\ t.pass = m.pass /\ t.global = m.global /\ t.lines = m.lines /\ t.tasks = m.tasks
  BY <1>1 DEF ReaderTyped, IsReader, ReaderFields
<1>6. GoneOn(t, m) /\ t.at \in {"main", "wal"} /\ (t.at = "main" => t.next \in 1..Pages)
  BY ONLY <1>3, <1>5 DEF GoneOn
<1>7. t.next \in Nat /\ t.next > 0 /\ t.next = m.next + 1
  <2>1. n \in Nat
    OBVIOUS
  <2> QED BY ONLY <1>1, <1>2, <1>4, <2>1
<1>8. /\ log.id = m.fd /\ m.fd # 0
      /\ \/ m.next = 0 /\ log.salt = m.log.salt
         \/ m.next > 0 /\ m.next <= Len(m.log.frames) /\ log.frames[m.next] = m.log.frames[m.next]
  OBVIOUS
<1>9. log \in Wal
  BY DatabaseParts
<1>11. ASSUME NEW k \in Nat, NEW a \in MainFile, NEW l \in Wal, Moment(m, k, a, l) PROVE Moment(t, k, a, l)
  <2>1. /\ k \in m.since..Len(history) /\ history[k] = Database(a, l)
        /\ \A p \in 1..Pages : m.main[p] <= a[p] /\ a[p] <= main[p]
        /\ \A p \in 1..Pages : m.main[p] = a[p]
    BY <1>11 DEF Moment
  <2>2. /\ m.log.id = m.fd /\ l.id = m.fd
        /\ Later(m.log, l) /\ Len(m.log.frames) = Len(l.frames) /\ Later(l, log)
        /\ m.next > 0 => m.log.salt = l.salt
        /\ \A j \in DOMAIN l.frames : j < m.next => m.log.frames[j] = l.frames[j]
    BY <1>8, <1>11 DEF Moment
  <2>3. PICK x \in Wal : x = m.log
    BY <1>1
  <2>4. x.salt \in Nat /\ l.salt \in Nat /\ log.salt \in Nat /\ Len(x.frames) \in Nat /\ DOMAIN l.frames = 1..Len(l.frames)
    BY <1>9, WalFields
  <2>5. x.salt <= l.salt /\ l.salt <= log.salt
    BY <2>2, <2>3 DEF Later
  <2>6. x.salt = l.salt
    BY ONLY <1>1, <1>8, <2>2, <2>3, <2>4, <2>5
  <2>7. ASSUME m.next > 0 PROVE x.frames[m.next] = l.frames[m.next]
    <3>1. PICK j \in Nat : j = m.next
      BY <1>1
    <3>2. j \in 1..Len(x.frames) /\ x.frames[j] = log.frames[j]
      BY ONLY <1>1, <1>8, <2>3, <2>4, <2>7, <3>1
    <3>3. x \in Wal /\ l \in Wal /\ Later(x, l) /\ Later(l, log)
      BY <2>2, <2>3
    <3>4. x.frames[j] = l.frames[j]
      BY ONLY <1>9, <3>2, <3>3, LaterBoth
    <3> QED BY ONLY <3>1, <3>4
  <2>8. \A j \in DOMAIN l.frames : j < t.next => x.frames[j] = l.frames[j]
    <3>1. ASSUME NEW j \in 1..Len(l.frames), j < t.next PROVE x.frames[j] = l.frames[j]
      <4>1. (j < m.next \/ (j = m.next /\ m.next > 0)) /\ j \in DOMAIN l.frames
        BY ONLY <1>1, <1>7, <2>4, <3>1, j \in 1..Len(l.frames)
      <4> QED BY ONLY <2>2, <2>3, <2>7, <4>1
    <3> QED BY ONLY <2>4, <3>1
  <2>9. t.at = "wal"
    BY <1>3
  <2> QED BY ONLY <1>5, <1>8, <2>1, <2>2, <2>3, <2>6, <2>8 DEF Moment
<1>12. m.at \in {"main", "wal"} /\ ReaderGood(m) /\ t.next \in Nat
  BY <1>7
<1> QED BY ONLY <1>5, <1>6, <1>11, <1>12, VerifyGood

\* Two logs with the same fields.
LEMMA SameWal ==
  ASSUME NEW x \in Wal, NEW y \in Wal, x.id = y.id, x.salt = y.salt, Len(x.frames) = Len(y.frames),
         \A k \in 1..Len(y.frames) : x.frames[k] = y.frames[k]
  PROVE  x = y
<1>1. x.frames \in Seq(WalFrame) /\ y.frames \in Seq(WalFrame)
  BY DEF Wal
<1>2. PICK f \in Seq(WalFrame), g \in Seq(WalFrame) : f = x.frames /\ g = y.frames
  BY <1>1
<1>3. Len(f) = Len(g) /\ \A k \in 1..Len(g) : f[k] = g[k]
  BY <1>2
<1>4. f = [k \in 1..Len(f) |-> f[k]] /\ g = [k \in 1..Len(g) |-> g[k]]
  <2>1. f \in [1..Len(f) -> WalFrame] /\ g \in [1..Len(g) -> WalFrame]
    BY ONLY f \in Seq(WalFrame), g \in Seq(WalFrame)
  <2> QED BY ONLY <2>1
<1>5. f = g
  BY ONLY <1>3, <1>4
<1>6. x.frames = y.frames
  BY <1>2, <1>5
<1> QED BY <1>6 DEF Wal

\* The first pass is over: the copies are those of one state.
LEMMA VerifyLogExact ==
  ASSUME DatabaseGood, NEW m, ReaderGood(m), m.at = "wal", log.id = m.fd, m.pass = 1,
         m.fd = 0 \/ (m.next > Len(log.frames) /\ m.next > Len(m.log.frames))
  PROVE  Exact(m)
<1>1. /\ ReaderTyped(m) /\ m.next \in Nat /\ m.log \in Wal /\ m.main \in Seq(Nat) /\ Len(m.main) = Pages
      /\ \E k \in Nat, a \in MainFile, l \in Wal : Moment(m, k, a, l)
  BY VerifyParts
<1>2. PICK k \in Nat, a \in MainFile, l \in Wal : Moment(m, k, a, l)
  BY <1>1
<1>3. k \in m.since..Len(history) /\ history[k] = Database(a, l) /\ \A p \in 1..Pages : m.main[p] = a[p]
  BY <1>2 DEF Moment
<1>4. m.main = a
  <2>1. PICK b : b = m.main
    OBVIOUS
  <2>2. b \in [1..Len(b) -> Nat] /\ Len(b) = Pages
    BY ONLY <1>1, <2>1
  <2>3. b \in MainFile
    BY ONLY <2>2 DEF MainFile
  <2>4. \A p \in 1..Pages : b[p] = a[p]
    BY ONLY <1>3, <2>1
  <2>5. b = a
    BY ONLY <2>3, <2>4, a \in MainFile, SameFile
  <2> QED BY <2>1, <2>5
<1>5. m.log = l
  <2>1. CASE m.fd = 0
    BY <1>2, <2>1 DEF Moment
  <2>2. CASE m.fd # 0
    <3>1. PICK x \in Wal : x = m.log
      BY <1>1
    <3>2. Len(x.frames) \in Nat /\ DOMAIN l.frames = 1..Len(l.frames) /\ x \in Wal /\ l \in Wal
      BY WalFields
    <3>3. m.next > Len(x.frames)
      BY <2>2, <3>1
    <3>4. m.next > 0
      BY ONLY <1>1, <3>2, <3>3
    <3>5. /\ x.id = l.id /\ Len(x.frames) = Len(l.frames) /\ x.salt = l.salt
          /\ \A j \in DOMAIN l.frames : j < m.next => x.frames[j] = l.frames[j]
      BY <1>2, <2>2, <3>1, <3>4 DEF Moment
    <3>6. \A j \in 1..Len(l.frames) : j < m.next
      BY ONLY <1>1, <3>2, <3>3, <3>5
    <3>7. \A j \in 1..Len(l.frames) : x.frames[j] = l.frames[j]
      BY ONLY <3>2, <3>5, <3>6
    <3>8. x = l
      BY ONLY <3>2, <3>5, <3>7, SameWal
    <3> QED BY <3>1, <3>8
  <2> QED BY <2>1, <2>2
<1> QED BY ONLY <1>3, <1>4, <1>5 DEF Exact

LEMMA VerifyLogDone ==
  ASSUME DatabaseGood, NEW m, ReaderGood(m), m.at = "wal", log.id = m.fd,
         m.fd = 0 \/ (m.next > Len(log.frames) /\ m.next > Len(m.log.frames)), NEW t,
         \/ m.pass = 1 /\ t = [m EXCEPT !.at = "query"]
         \/ m.pass # 1 /\ t = [m EXCEPT !.at = "listed"]
  PROVE  ReaderGood(t)
<1>1. /\ ReaderTyped(m) /\ m.since \in 1..Len(history) /\ Len(m.main) = Pages
      /\ m.pass # 1 => Settled(m)
  BY VerifyParts
<1>2. Exact(m) /\ (m.pass # 1 => m.tasks = ListOnce(m.global, m.lines, Database(m.main, m.log)))
  <2>1. m.pass = 1 => Exact(m)
    BY VerifyLogExact
  <2> QED BY <1>1, <2>1 DEF Settled
<1>3. IsReader(t) /\ t.at = IF m.pass = 1 THEN "query" ELSE "listed"
  BY <1>1 DEF ReaderTyped, IsReader, ReaderFields
<1>4. /\ t.attempt = m.attempt /\ t.since = m.since /\ t.fd = m.fd /\ t.main = m.main /\ t.log = m.log /\ t.next = m.next
      /\ t.pass = m.pass /\ t.global = m.global /\ t.lines = m.lines /\ t.tasks = m.tasks
  BY <1>1 DEF ReaderTyped, IsReader, ReaderFields
<1>5. t.at \in ReaderStages
  BY ONLY <1>3 DEF ReaderStages
<1>6. ReaderTyped(t)
  BY ONLY <1>1, <1>3, <1>4, <1>5 DEF ReaderTyped
<1>7. t.since \in 1..Len(history) /\ Len(t.main) = Pages /\ Exact(t)
  BY ONLY <1>1, <1>2, <1>4 DEF Exact
<1>8. m.pass # 1 => t.tasks = ListOnce(t.global, t.lines, Database(t.main, t.log))
  BY ONLY <1>2, <1>4
<1>9. t.at \in {"query", "listed"} /\ (t.at = "listed" => m.pass # 1)
  BY ONLY <1>3
<1> QED BY ONLY <1>6, <1>7, <1>8, <1>9 DEF ReaderGood

LEMMA QueryGood ==
  ASSUME NEW m, ReaderGood(m), m.at = "query", NEW t,
         t = [m EXCEPT !.at = "main", !.next = 1, !.pass = 2,
                       !.tasks = ListOnce(m.global, m.lines, Database(m.main, m.log))]
  PROVE  ReaderGood(t)
<1>1. /\ ReaderTyped(m) /\ m.since \in 1..Len(history) /\ Len(m.main) = Pages /\ Exact(m)
  BY DEF ReaderGood
<1>2. IsReader(t) /\ t.at = "main"
  BY <1>1 DEF ReaderTyped, IsReader, ReaderFields
<1>3. t.next = 1 /\ t.pass = 2
  BY <1>1 DEF ReaderTyped, IsReader, ReaderFields
<1>4. /\ t.attempt = m.attempt /\ t.since = m.since /\ t.fd = m.fd /\ t.main = m.main /\ t.log = m.log
      /\ t.global = m.global /\ t.lines = m.lines /\ t.tasks = ListOnce(m.global, m.lines, Database(m.main, m.log))
  BY <1>1 DEF ReaderTyped, IsReader, ReaderFields
<1>5. t.at \in ReaderStages
  BY ONLY <1>2 DEF ReaderStages
<1>6. t.next \in Nat /\ t.pass \in Nat /\ t.next \in 1..Pages /\ t.pass # 1
  BY ONLY <1>3, CatalogConstants
<1>7. ReaderTyped(t)
  BY ONLY <1>1, <1>2, <1>4, <1>5, <1>6 DEF ReaderTyped
<1>8. t.since \in 1..Len(history) /\ Len(t.main) = Pages /\ Exact(t)
  BY ONLY <1>1, <1>4 DEF Exact
<1>9. t.tasks = ListOnce(t.global, t.lines, Database(t.main, t.log))
  BY ONLY <1>4
<1> QED BY ONLY <1>2, <1>6, <1>7, <1>8, <1>9 DEF ReaderGood-----------------------------------------------------------------------------
(* The lock and the snapshots.                                             *)

\* How a step of reader r, to t, may change the lock and the snapshots.
KeepsLock(r, t) ==
  /\ UNCHANGED <<catalogLock, snapshots>>
  /\ t.at \in Holding => readers[r].at \in Holding /\ (t.at # "clean" => readers[r].at # "clean")
GivesUp(r, t) ==
  /\ t.at \notin Holding
  /\ \/ catalogLock' = (IF catalogLock = r THEN 0 ELSE catalogLock) /\ snapshots' \in {snapshots, snapshots \ {r}}
     \/ readers[r].at \in Holding
TakesLock(r, t) == catalogLock = 0 /\ catalogLock' = r /\ t.at = "clean"
CleansUp(r, t) ==
  /\ readers[r].at = "clean" /\ catalogLock' = catalogLock
  /\ t.at = "clean" \/ snapshots' = {r}
LockStep(r, t) == KeepsLock(r, t) \/ GivesUp(r, t) \/ TakesLock(r, t) \/ CleansUp(r, t)

LEMMA LockMoves ==
  ASSUME LockGood, DOMAIN readers = Readers, NEW r \in Readers, NEW t, readers' = [readers EXCEPT ![r] = t],
         LockStep(r, t)
  PROVE  LockGood'
<1>1. readers'[r] = t /\ \A q \in Readers : q # r => readers'[q] = readers[q]
  OBVIOUS
<1>2. /\ \A q \in Readers : readers[q].at \in Holding => catalogLock = q
      /\ \A q \in Readers : readers[q].at \in Holding \ {"clean"} => snapshots = {q}
  BY DEF LockGood
<1>3. r \in Readers /\ 0 \notin Readers
  BY CatalogConstants
<1> SUFFICES ASSUME NEW q \in Readers
             PROVE  /\ readers'[q].at \in Holding => catalogLock' = q
                    /\ readers'[q].at \in Holding \ {"clean"} => snapshots' = {q}
  BY DEF LockGood
<1>4. q \in Readers
  OBVIOUS
<1>5. CASE KeepsLock(r, t)
  <2>1. CASE q = r
    BY ONLY <1>1, <1>2, <1>3, <1>5, <2>1 DEF KeepsLock
  <2>2. CASE q # r
    BY ONLY <1>1, <1>2, <1>4, <1>5, <2>2 DEF KeepsLock
  <2> QED BY <2>1, <2>2
<1>6. CASE GivesUp(r, t)
  <2>1. CASE q = r
    BY ONLY <1>1, <1>6, <2>1 DEF GivesUp
  <2>2. CASE q # r /\ readers[q].at \in Holding
    <3>1. catalogLock = q /\ readers[r].at \notin Holding
      BY ONLY <1>2, <1>3, <1>4, <2>2
    <3>2. catalogLock' = q /\ snapshots' \in {snapshots, snapshots \ {r}}
      BY ONLY <1>6, <2>2, <3>1 DEF GivesUp
    <3>3. readers[q].at \in Holding \ {"clean"} => snapshots' = {q}
      BY ONLY <1>2, <1>4, <2>2, <3>2
    <3> QED BY ONLY <1>1, <1>4, <2>2, <3>2, <3>3
  <2>3. CASE q # r /\ readers[q].at \notin Holding
    BY ONLY <1>1, <1>4, <2>3
  <2> QED BY <2>1, <2>2, <2>3
<1>7. CASE TakesLock(r, t)
  <2>1. CASE q = r
    BY ONLY <1>1, <1>7, <2>1 DEF TakesLock
  <2>2. CASE q # r
    BY ONLY <1>1, <1>2, <1>3, <1>4, <1>7, <2>2 DEF TakesLock
  <2> QED BY <2>1, <2>2
<1>8. CASE CleansUp(r, t)
  <2>0. catalogLock = r /\ catalogLock' = r
    BY ONLY <1>2, <1>3, <1>8 DEF CleansUp, Holding
  <2>1. CASE q = r
    BY ONLY <1>1, <1>8, <2>0, <2>1 DEF CleansUp
  <2>2. CASE q # r
    BY ONLY <1>1, <1>2, <1>4, <2>0, <2>2
  <2> QED BY <2>1, <2>2
<1> QED BY <1>5, <1>6, <1>7, <1>8 DEF LockStep

\* Reader r goes on to t.
Moved(r, t) ==
  /\ ReaderGood(t) /\ readers' = [readers EXCEPT ![r] = t] /\ LockStep(r, t)
  /\ UNCHANGED <<main, log, opens, history>>

LEMMA MovedGood ==
  ASSUME CatalogInv, NEW r \in Readers, NEW t, Moved(r, t)
  PROVE  CatalogInv'
<1>1. DatabaseGood' /\ GoesOn /\ DatabaseGood
  BY StillGood DEF CatalogInv, Moved
<1>5. DOMAIN readers = Readers
  BY DEF CatalogInv, ReadersGood
<1>2. LockGood'
  BY <1>5, LockMoves DEF CatalogInv, Moved
<1>3. readers' = [q \in Readers |-> readers'[q]]
  BY DEF CatalogInv, ReadersGood, Moved
<1>4. ASSUME NEW q \in Readers PROVE ReaderGood(readers[q])'
  <2>1. PICK m : m = readers'[q]
    OBVIOUS
  <2>2. ReaderGood(m)
    <3>1. m = IF q = r THEN t ELSE readers[q]
      BY <2>1 DEF CatalogInv, ReadersGood, Moved
    <3> QED BY <3>1 DEF CatalogInv, ReadersGood, Moved
  <2>3. ReaderGood(m)'
    BY ONLY <1>1, <2>2, ReaderStays
  <2> QED BY <2>1, <2>3
<1> QED BY <1>1, <1>2, <1>3, <1>4 DEF CatalogInv, ReadersGood

LEMMA GoesOnGood ==
  ASSUME CatalogInv, DatabaseGood', GoesOn, UNCHANGED <<catalogLock, snapshots, readers>>
  PROVE  CatalogInv'
<1>1. DatabaseGood' /\ GoesOn /\ UNCHANGED <<catalogLock, snapshots, readers>> /\ DatabaseGood
  BY DEF CatalogInv
<1>2. LockGood'
  BY <1>1 DEF CatalogInv, LockGood
<1>4. ASSUME NEW q \in Readers PROVE ReaderGood(readers[q])'
  <2>1. PICK m : m = readers'[q]
    OBVIOUS
  <2>2. ReaderGood(m)
    BY <1>1, <2>1 DEF CatalogInv, ReadersGood
  <2>3. ReaderGood(m)'
    BY ONLY <1>1, <2>2, ReaderStays
  <2> QED BY <2>1, <2>3
<1>3. readers' = [q \in Readers |-> readers'[q]]
  BY <1>1 DEF CatalogInv, ReadersGood
<1> QED BY <1>1, <1>2, <1>3, <1>4 DEF CatalogInv, ReadersGood-----------------------------------------------------------------------------
(* Every step of a reader.                                                 *)

LEMMA ReaderParts ==
  ASSUME CatalogInv, NEW r \in Readers
  PROVE  /\ DatabaseGood /\ ReaderGood(readers[r]) /\ IsReader(readers[r])
         /\ readers = [q \in Readers |-> readers[q]] /\ readers[r].attempt \in Nat
BY DEF CatalogInv, ReadersGood, ReaderGood, ReaderTyped

Failed == [NewReader EXCEPT !.at = "failed"]
Again(n) == [NewReader EXCEPT !.at = "global", !.attempt = n, !.since = Len(history)]

LEMMA FreshMoves ==
  ASSUME CatalogInv, NEW r \in Readers, NEW t, t = NewReader \/ t = Failed \/ \E n \in Nat : t = Again(n),
         readers' = [readers EXCEPT ![r] = t], UNCHANGED <<main, log, opens, history>>,
         \/ /\ catalogLock' = IF catalogLock = r THEN 0 ELSE catalogLock
            /\ snapshots' \in {snapshots, snapshots \ {r}}
         \/ UNCHANGED <<catalogLock, snapshots>>
  PROVE  \E s : Moved(r, s)
<1>1. ReaderGood(t)
  <2>1. DatabaseGood
    BY DEF CatalogInv
  <2> QED BY <2>1, Fresh DEF Failed, Again
<1>2. t.at \in {"idle", "failed", "global"}
  <2>1. CASE t = NewReader
    BY ONLY <2>1 DEF NewReader
  <2>2. CASE t = Failed
    BY ONLY <2>2 DEF NewReader, Failed
  <2>3. ASSUME NEW n, t = Again(n) PROVE t.at = "global"
    BY ONLY <2>3 DEF NewReader, Again
  <2> QED BY <2>1, <2>2, <2>3
<1>3. t.at \notin Holding
  BY ONLY <1>2 DEF Holding
<1>4. LockStep(r, t)
  BY <1>3 DEF LockStep, GivesUp, KeepsLock
<1> QED BY <1>1, <1>4 DEF Moved

LEMMA RetryMoves ==
  ASSUME CatalogInv, NEW r \in Readers, NEW terminal, Retry(r, terminal), UNCHANGED <<main, log, opens, history>>
  PROVE  \E t : Moved(r, t)
<1>1. PICK n \in Nat : n = readers[r].attempt + 1
  BY ReaderParts
<1>2. PICK t : t = IF terminal \/ readers[r].attempt = CatalogAttempts THEN Failed ELSE Again(n)
  OBVIOUS
<1>3. readers' = [readers EXCEPT ![r] = t]
  BY <1>1, <1>2 DEF Retry, Move, Failed, Again
<1>4. t = Failed \/ t = Again(n)
  BY ONLY <1>2
<1>5. /\ catalogLock' = IF catalogLock = r THEN 0 ELSE catalogLock
      /\ snapshots' \in {snapshots, snapshots \ {r}}
  BY DEF Retry, Dropped
<1> QED BY <1>3, <1>4, <1>5, FreshMoves

LEMMA KeepMoves ==
  ASSUME CatalogInv, NEW r \in Readers, NEW t, ReaderGood(t), readers' = [readers EXCEPT ![r] = t], Keep,
         LockStep(r, t)
  PROVE  \E s : Moved(r, s)
BY DEF Moved, Keep, codexVars

LEMMA EarlyMoves ==
  ASSUME CatalogInv, NEW r \in Readers, ReadGlobalState(r) \/ ReadSessionIndex(r) \/ Acquire(r)
  PROVE  \E t : Moved(r, t)
<1>1. PICK m : m = readers[r]
  OBVIOUS
<1>2. ReaderGood(m) /\ IsReader(m)
  BY <1>1, ReaderParts
<1>3. ASSUME NEW g, NEW l, NEW t, t = [m EXCEPT !.at = "index", !.global = g] \/ t = [m EXCEPT !.at = "lock", !.lines = l]
                                  \/ t = [m EXCEPT !.at = "clean"],
             m.at \in {"global", "index", "lock"}
      PROVE  ReaderGood(t) /\ t.at \in {"index", "lock", "clean"}
  <2>1. IsReader(t) /\ t.at \in {"index", "lock", "clean"}
    BY <1>2, <1>3 DEF IsReader, ReaderFields
  <2>2. /\ t.attempt = m.attempt /\ t.since = m.since /\ t.fd = m.fd /\ t.main = m.main /\ t.log = m.log
        /\ t.next = m.next /\ t.pass = m.pass
    BY <1>2, <1>3 DEF IsReader, ReaderFields
  <2>3. GoneOn(t, m)
    BY ONLY <2>1, <2>2 DEF GoneOn
  <2> QED BY ONLY <1>2, <1>3, <2>1, <2>2, <2>3, EarlyGood
<1>4. CASE ReadGlobalState(r)
  <2>1. PICK t : t = [m EXCEPT !.at = "index", !.global = globalState]
    OBVIOUS
  <2>2. m.at = "global" /\ readers' = [readers EXCEPT ![r] = t] /\ Keep /\ UNCHANGED <<catalogLock, snapshots>>
    BY <1>1, <1>4, <2>1 DEF ReadGlobalState, At, Move
  <2>3. ReaderGood(t)
    BY <1>3, <2>1, <2>2
  <2>4. t.at \notin Holding
    BY <1>2, <2>1 DEF IsReader, ReaderFields, Holding
  <2> QED BY <2>2, <2>3, <2>4, KeepMoves DEF LockStep, KeepsLock
<1>5. CASE ReadSessionIndex(r)
  <2>0. m.at = "index" /\ Keep /\ UNCHANGED <<main, log, opens, history>>
    BY <1>1, <1>5 DEF ReadSessionIndex, At, Keep, codexVars
  <2>1. CASE IndexTooLarge(r)
    BY <2>0, <2>1, RetryMoves DEF IndexTooLarge
  <2>2. CASE Changes(r)
    BY <2>0, <2>2, RetryMoves DEF Changes
  <2>3. CASE Move(r, [readers[r] EXCEPT !.at = "lock", !.lines = sessionIndex]) /\ UNCHANGED <<catalogLock, snapshots>>
    <3>1. PICK t : t = [m EXCEPT !.at = "lock", !.lines = sessionIndex]
      OBVIOUS
    <3>2. readers' = [readers EXCEPT ![r] = t]
      BY <1>1, <2>3, <3>1 DEF Move
    <3>3. ReaderGood(t)
      BY <1>3, <2>0, <3>1
    <3>4. t.at \notin Holding
      BY <1>2, <3>1 DEF IsReader, ReaderFields, Holding
    <3> QED BY <2>0, <2>3, <3>2, <3>3, <3>4, KeepMoves DEF LockStep, KeepsLock
  <2> QED BY <1>5, <2>1, <2>2, <2>3 DEF ReadSessionIndex
<1>6. CASE Acquire(r)
  <2>1. PICK t : t = [m EXCEPT !.at = "clean"]
    OBVIOUS
  <2>2. m.at = "lock" /\ readers' = [readers EXCEPT ![r] = t] /\ Keep /\ catalogLock = 0 /\ catalogLock' = r
    BY <1>1, <1>6, <2>1 DEF Acquire, At, Move
  <2>3. ReaderGood(t)
    BY <1>3, <2>1, <2>2
  <2>4. t.at = "clean"
    BY <1>2, <2>1 DEF IsReader, ReaderFields
  <2> QED BY <2>2, <2>3, <2>4, KeepMoves DEF LockStep, TakesLock
<1> QED BY <1>4, <1>5, <1>6

LEMMA CleanMoves ==
  ASSUME CatalogInv, NEW r \in Readers, Reconcile(r) \/ OpenDatabase(r)
  PROVE  \E t : Moved(r, t)
<1>1. PICK m : m = readers[r]
  OBVIOUS
<1>2. ReaderGood(m) /\ IsReader(m) /\ DatabaseGood
  BY <1>1, ReaderParts
<1>3. m.at = "clean" /\ Keep /\ UNCHANGED <<main, log, opens, history>>
  BY <1>1 DEF Reconcile, OpenDatabase, At, Keep, codexVars
<1>4. CASE Reconcile(r)
  <2>1. readers' = [readers EXCEPT ![r] = m] /\ UNCHANGED catalogLock
    BY <1>1, <1>4, ReaderParts DEF Reconcile
  <2>2. LockStep(r, m)
    BY <1>1, <1>3, <2>1 DEF LockStep, CleansUp
  <2> QED BY <1>2, <1>3, <2>1, <2>2, KeepMoves
<1>5. CASE OpenDatabase(r)
  <2>1. CASE IndexTooLarge(r)
    BY <1>3, <2>1, RetryMoves DEF IndexTooLarge
  <2>2. CASE /\ snapshots' = snapshots \cup {r} /\ UNCHANGED catalogLock
             /\ Move(r, [readers[r] EXCEPT !.at = "copy main", !.fd = log.id, !.next = 1, !.pass = 1])
    <3>1. PICK t : t = [m EXCEPT !.at = "copy main", !.fd = log.id, !.next = 1, !.pass = 1]
      OBVIOUS
    <3>2. readers' = [readers EXCEPT ![r] = t]
      BY <1>1, <2>2, <3>1 DEF Move
    <3>3. ReaderGood(t)
      BY <1>2, <1>3, <3>1, OpenGood
    <3>4. snapshots' = {r}
      BY <1>5, <2>2 DEF OpenDatabase, Reconciled
    <3>5. LockStep(r, t)
      BY <1>1, <1>3, <2>2, <3>4 DEF LockStep, CleansUp
    <3> QED BY <1>3, <3>2, <3>3, <3>5, KeepMoves
  <2> QED BY <1>5, <2>1, <2>2 DEF OpenDatabase
<1> QED BY <1>4, <1>5
\* A step that keeps the lock goes from one step under the lock to another.
LEMMA CopyingMoves ==
  ASSUME CatalogInv, NEW r \in Readers, NEW t, ReaderGood(t), Copying(r, t), Keep,
         readers[r].at \in Holding \ {"clean"}
  PROVE  \E s : Moved(r, s)
<1>1. LockStep(r, t)
  BY DEF LockStep, KeepsLock, Copying
<1> QED BY <1>1, KeepMoves DEF Copying, Move

LEMMA CopyMainMoves ==
  ASSUME CatalogInv, NEW r \in Readers, CopyMain(r)
  PROVE  \E t : Moved(r, t)
<1>1. PICK m, copy : m = readers[r] /\ copy = Append(m.main, main[m.next])
  OBVIOUS
<1>2. ReaderGood(m) /\ IsReader(m) /\ DatabaseGood
  BY <1>1, ReaderParts
<1>3. m.at = "copy main" /\ Keep /\ readers[r].at \in Holding \ {"clean"}
  BY <1>1 DEF CopyMain, At, Holding
<1>4. CASE m.next = Pages
  <2>1. PICK t : t = [m EXCEPT !.main = copy, !.next = 0, !.at = "copy wal"]
    OBVIOUS
  <2>2. Copying(r, t)
    BY <1>1, <1>4, <2>1 DEF CopyMain
  <2>3. ReaderGood(t)
    BY <1>1, <1>2, <1>3, <1>4, <2>1, CopyMainGood
  <2> QED BY ONLY CatalogInv, r \in Readers, <1>3, <2>2, <2>3, CopyingMoves
<1>5. CASE m.next # Pages
  <2>1. PICK t : t = [m EXCEPT !.main = copy, !.next = m.next + 1]
    OBVIOUS
  <2>2. Copying(r, t)
    <3>1. t = [m EXCEPT !.main = copy, !.next = m.next + 1, !.at = m.at]
      BY <1>2, <2>1 DEF IsReader, ReaderFields
    <3> QED BY <1>1, <1>5, <3>1 DEF CopyMain
  <2>3. ReaderGood(t)
    BY <1>1, <1>2, <1>3, <1>5, <2>1, CopyMainGood
  <2> QED BY ONLY CatalogInv, r \in Readers, <1>3, <2>2, <2>3, CopyingMoves
<1> QED BY <1>4, <1>5
LEMMA CopyLogMoves ==
  ASSUME CatalogInv, NEW r \in Readers, CopyLog(r)
  PROVE  \E t : Moved(r, t)
<1>1. PICK m : m = readers[r]
  OBVIOUS
<1>2. ReaderGood(m) /\ IsReader(m) /\ DatabaseGood
  BY <1>1, ReaderParts
<1>3. m.at = "copy wal" /\ Keep /\ readers[r].at \in Holding \ {"clean"} /\ UNCHANGED <<main, log, opens, history>>
  BY <1>1 DEF CopyLog, At, Holding, Keep, codexVars
<1>4. CASE Changes(r)
  BY <1>3, <1>4, RetryMoves DEF Changes
<1>5. CASE IndexTooLarge(r)
  BY <1>3, <1>5, RetryMoves DEF IndexTooLarge
<1>6. CASE ~Changes(r) /\ ~IndexTooLarge(r)
  <2>0. log.id = m.fd
    BY <1>1, <1>6 DEF CopyLog, SameLog
  <2>1. CASE m.fd = 0 \/ m.next > Len(log.frames)
    <3>1. PICK t : t = [m EXCEPT !.at = "main", !.next = 1]
      OBVIOUS
    <3>2. Copying(r, t)
      BY <1>1, <1>6, <2>1, <3>1 DEF CopyLog
    <3>3. ReaderGood(t)
      BY <1>2, <1>3, <2>0, <2>1, <3>1, CopyLogDone
    <3> QED BY ONLY CatalogInv, r \in Readers, <1>3, <3>2, <3>3, CopyingMoves
  <2>2. CASE ~(m.fd = 0 \/ m.next > Len(log.frames))
    <3>0. m.fd # 0 /\ m.next <= Len(log.frames) /\ m.next \in Nat
      <4>1. m.next \in Nat /\ log \in Wal
        BY <1>2, DatabaseParts DEF ReaderGood, ReaderTyped
      <4>2. Len(log.frames) \in Nat
        BY <4>1, WalFields
      <4> QED BY ONLY <2>2, <4>1, <4>2
    <3>1. PICK w : w = IF m.next = 0 THEN [m.log EXCEPT !.id = log.id, !.salt = log.salt]
                       ELSE [m.log EXCEPT !.frames = Append(m.log.frames, log.frames[m.next])]
      OBVIOUS
    <3>2. PICK t : t = [m EXCEPT !.next = m.next + 1, !.log = w]
      OBVIOUS
    <3>3. Copying(r, t)
      BY <1>1, <1>6, <2>2, <3>1, <3>2 DEF CopyLog
    <3>4. ReaderGood(t)
      <4>1. \/ m.next = 0 /\ w = [m.log EXCEPT !.id = log.id, !.salt = log.salt]
            \/ m.next > 0 /\ w = [m.log EXCEPT !.frames = Append(m.log.frames, log.frames[m.next])]
        BY <3>0, <3>1
      <4> QED BY <1>2, <1>3, <2>0, <3>0, <3>2, <4>1, CopyLogOn
    <3> QED BY ONLY CatalogInv, r \in Readers, <1>3, <3>3, <3>4, CopyingMoves
  <2> QED BY <2>1, <2>2
<1> QED BY <1>4, <1>5, <1>6

LEMMA VerifyMainMoves ==
  ASSUME CatalogInv, NEW r \in Readers, VerifyMain(r)
  PROVE  \E t : Moved(r, t)
<1>1. PICK m : m = readers[r]
  OBVIOUS
<1>2. ReaderGood(m) /\ IsReader(m) /\ DatabaseGood
  BY <1>1, ReaderParts
<1>3. m.at = "main" /\ Keep /\ readers[r].at \in Holding \ {"clean"} /\ UNCHANGED <<main, log, opens, history>>
  BY <1>1 DEF VerifyMain, At, Holding, Keep, codexVars
<1>4. CASE Changes(r)
  BY <1>3, <1>4, RetryMoves DEF Changes
<1>5. CASE ~Changes(r)
  <2>0. main[m.next] = m.main[m.next]
    BY <1>1, <1>5 DEF VerifyMain
  <2>1. PICK t : t = IF m.next = Pages THEN [m EXCEPT !.at = "wal", !.next = 0] ELSE [m EXCEPT !.next = m.next + 1]
    OBVIOUS
  <2>2. CASE m.next = Pages
    <3>1. t = [m EXCEPT !.at = "wal", !.next = 0]
      BY <2>1, <2>2
    <3>2. Copying(r, t)
      BY <1>1, <1>5, <2>2, <3>1 DEF VerifyMain
    <3>3. ReaderGood(t)
      BY <1>2, <1>3, <2>0, <2>2, <3>1, VerifyMainGood
    <3> QED BY ONLY CatalogInv, r \in Readers, <1>3, <3>2, <3>3, CopyingMoves
  <2>3. CASE m.next # Pages
    <3>1. t = [m EXCEPT !.next = m.next + 1]
      BY <2>1, <2>3
    <3>4. t = [m EXCEPT !.at = m.at, !.next = m.next + 1]
      BY <1>2, <3>1 DEF IsReader, ReaderFields
    <3>2. Copying(r, t)
      BY <1>1, <1>5, <2>3, <3>4 DEF VerifyMain
    <3>3. ReaderGood(t)
      BY <1>2, <1>3, <2>0, <2>3, <3>1, VerifyMainGood
    <3> QED BY ONLY CatalogInv, r \in Readers, <1>3, <3>2, <3>3, CopyingMoves
  <2> QED BY <2>2, <2>3
<1> QED BY <1>4, <1>5

LEMMA QueryMoves ==
  ASSUME CatalogInv, NEW r \in Readers, Query(r)
  PROVE  \E t : Moved(r, t)
<1>1. PICK m : m = readers[r]
  OBVIOUS
<1>2. ReaderGood(m) /\ IsReader(m) /\ DatabaseGood
  BY <1>1, ReaderParts
<1>3. m.at = "query" /\ Keep /\ readers[r].at \in Holding \ {"clean"} /\ UNCHANGED <<main, log, opens, history>>
  BY <1>1 DEF Query, At, Holding, Keep, codexVars
<1>4. CASE Changes(r)
  BY <1>3, <1>4, RetryMoves DEF Changes
<1>5. CASE ~Changes(r)
  <2>1. PICK t : t = [m EXCEPT !.at = "main", !.next = 1, !.pass = 2,
                               !.tasks = ListOnce(m.global, m.lines, Database(m.main, m.log))]
    OBVIOUS
  <2>2. Copying(r, t)
    BY <1>1, <1>5, <2>1 DEF Query
  <2>3. ReaderGood(t)
    BY <1>2, <1>3, <2>1, QueryGood
  <2> QED BY ONLY CatalogInv, r \in Readers, <1>3, <2>2, <2>3, CopyingMoves
<1> QED BY <1>4, <1>5
LEMMA VerifyLogMoves ==
  ASSUME CatalogInv, NEW r \in Readers, VerifyLog(r)
  PROVE  \E t : Moved(r, t)
<1>1. PICK m : m = readers[r]
  OBVIOUS
<1>2. ReaderGood(m) /\ IsReader(m) /\ DatabaseGood
  BY <1>1, ReaderParts
<1>3. m.at = "wal" /\ Keep /\ readers[r].at \in Holding \ {"clean"} /\ UNCHANGED <<main, log, opens, history>>
  BY <1>1 DEF VerifyLog, At, Holding, Keep, codexVars
<1>4. CASE Changes(r)
  BY <1>3, <1>4, RetryMoves DEF Changes
<1>5. CASE IndexTooLarge(r)
  BY <1>3, <1>5, RetryMoves DEF IndexTooLarge
<1>6. CASE ~Changes(r) /\ ~IndexTooLarge(r)
  <2>0. log.id = m.fd
    BY <1>1, <1>6 DEF VerifyLog, SameLog
  <2>1. m.next \in Nat /\ (m.next = 0 \/ m.next > 0)
    <3>1. m.next \in Nat
      BY <1>2 DEF ReaderGood, ReaderTyped
    <3> QED BY ONLY <3>1
  <2>2. CASE ~(m.fd = 0 \/ (m.next > Len(log.frames) /\ m.next > Len(m.log.frames)))
    <3>1. PICK t : t = [m EXCEPT !.next = m.next + 1]
      OBVIOUS
    <3>2. Copying(r, t)
      BY <1>1, <1>6, <2>2, <3>1 DEF VerifyLog
    <3>3. \/ m.next = 0 /\ log.salt = m.log.salt
          \/ m.next > 0 /\ m.next <= Len(m.log.frames) /\ log.frames[m.next] = m.log.frames[m.next]
      BY <1>1, <1>6, <2>1, <2>2 DEF VerifyLog
    <3>4. ReaderGood(t)
      BY <1>2, <1>3, <2>0, <2>2, <3>1, <3>3, VerifyLogOn
    <3> QED BY ONLY CatalogInv, r \in Readers, <1>3, <3>2, <3>4, CopyingMoves
  <2>3. CASE (m.fd = 0 \/ (m.next > Len(log.frames) /\ m.next > Len(m.log.frames))) /\ m.pass = 1
    <3>1. PICK t : t = [m EXCEPT !.at = "query"]
      OBVIOUS
    <3>2. Copying(r, t)
      BY <1>1, <1>6, <2>3, <3>1 DEF VerifyLog
    <3>3. ReaderGood(t)
      BY <1>2, <1>3, <2>0, <2>3, <3>1, VerifyLogDone
    <3> QED BY ONLY CatalogInv, r \in Readers, <1>3, <3>2, <3>3, CopyingMoves
  <2>4. CASE (m.fd = 0 \/ (m.next > Len(log.frames) /\ m.next > Len(m.log.frames))) /\ m.pass # 1
    <3>1. PICK t : t = [m EXCEPT !.at = "listed"]
      OBVIOUS
    <3>2. readers' = [readers EXCEPT ![r] = t]
      BY <1>1, <1>6, <2>4, <3>1 DEF VerifyLog, Move
    <3>3. ReaderGood(t)
      BY <1>2, <1>3, <2>0, <2>4, <3>1, VerifyLogDone
    <3>4. t.at \notin Holding
      BY <1>2, <3>1 DEF IsReader, ReaderFields, Holding
    <3>5. LockStep(r, t)
      BY <1>3, <3>4 DEF LockStep, GivesUp
    <3> QED BY <1>3, <3>2, <3>3, <3>5, KeepMoves
  <2> QED BY <2>2, <2>3, <2>4
<1> QED BY <1>4, <1>5, <1>6

LEMMA ReaderMoves ==
  ASSUME CatalogInv, NEW r \in Readers, ReaderSteps(r)
  PROVE  \E t : Moved(r, t)
<1>1. CASE ListTasks(r)
  <2>1. readers' = [readers EXCEPT ![r] = Again(1)] /\ UNCHANGED <<main, log, opens, history, catalogLock, snapshots>>
    BY <1>1 DEF ListTasks, Move, Again, codexVars
  <2>2. PICK t : t = Again(1)
    OBVIOUS
  <2> QED BY <2>1, <2>2, FreshMoves
<1>2. CASE ReadGlobalState(r) \/ ReadSessionIndex(r) \/ Acquire(r)
  BY <1>2, EarlyMoves
<1>3. CASE Reconcile(r) \/ OpenDatabase(r)
  BY <1>3, CleanMoves
<1>4. CASE CopyMain(r) \/ CopyLog(r) \/ VerifyMain(r) \/ VerifyLog(r) \/ Query(r)
  BY <1>4, CopyMainMoves, CopyLogMoves, VerifyMainMoves, VerifyLogMoves, QueryMoves
<1>5. CASE Return(r)
  <2>1. readers' = [readers EXCEPT ![r] = NewReader] /\ UNCHANGED <<main, log, opens, history, catalogLock, snapshots>>
    BY <1>5 DEF Return, Move, Keep, codexVars
  <2>2. PICK t : t = NewReader
    OBVIOUS
  <2> QED BY <2>1, <2>2, FreshMoves
<1>6. CASE ReadFails(r)
  <2>1. Changes(r) /\ UNCHANGED <<main, log, opens, history>>
    BY <1>6 DEF ReadFails, Upset, codexVars
  <2> QED BY <2>1, RetryMoves DEF Changes
<1>7. CASE ReaderKilled(r)
  <2>1. /\ readers' = [readers EXCEPT ![r] = NewReader] /\ UNCHANGED <<main, log, opens, history>>
        /\ catalogLock' = (IF catalogLock = r THEN 0 ELSE catalogLock) /\ snapshots' = snapshots
    BY <1>7 DEF ReaderKilled, Move, Upset, codexVars
  <2>2. PICK t : t = NewReader
    OBVIOUS
  <2> QED BY <2>1, <2>2, FreshMoves
<1> QED BY <1>1, <1>2, <1>3, <1>4, <1>5, <1>6, <1>7 DEF ReaderSteps

-----------------------------------------------------------------------------
LEMMA CatalogStarts == CatalogInit => CatalogInv
<1> SUFFICES ASSUME CatalogInit PROVE CatalogInv
  OBVIOUS
<1>1. /\ main = [p \in 1..Pages |-> 1] /\ log = NoLog /\ opens = 0 /\ history = <<main>>
      /\ readers = [r \in Readers |-> NewReader]
  BY DEF CatalogInit
<1>2. main \in MainFile /\ \A p \in 1..Pages : main[p] = 1
  BY <1>1 DEF MainFile
<1>3. history \in Seq(MainFile) /\ Len(history) = 1 /\ history[1] = main
  BY ONLY <1>1, <1>2
<1>4. log \in Wal /\ Counts(log, 0) /\ Database(main, log) = main /\ log.frames = << >> /\ log.id = 0
  <2>1. 0 \in Nat /\ log = [id |-> 0, salt |-> 0, frames |-> << >>]
    BY <1>1 DEF NoLog
  <2> QED BY ONLY <1>2, <2>1, EmptyLog
<1>5. DatabaseGood
  <2>1. \A p \in 1..Pages : main[p] <= Database(main, log)[p] /\ main[p] <= Len(history)
    BY ONLY <1>2, <1>3, <1>4
  <2>2. Len(history) > 0 /\ history[Len(history)] = Database(main, log) /\ 0 \in 0..Len(log.frames)
    BY ONLY <1>3, <1>4
  <2>3. opens \in Nat /\ log.id <= opens /\ log = NoLog
    BY ONLY <1>1, <1>4
  <2>4. \A k \in DOMAIN log.frames : log.frames[k].version <= Len(history)
    BY ONLY <1>4
  <2> QED BY ONLY <1>2, <1>3, <1>4, <2>1, <2>2, <2>3, <2>4 DEF DatabaseGood
<1>6. ReadersGood
  <2>1. ReaderGood(NewReader)
    BY <1>5, Fresh
  <2> QED BY <1>1, <2>1 DEF ReadersGood
<1>7. LockGood
  <2>1. NewReader.at \notin Holding
    BY DEF NewReader, Holding
  <2> QED BY <1>1, <2>1 DEF LockGood
<1> QED BY <1>5, <1>6, <1>7 DEF CatalogInv

\* The inductive invariant of the catalog: the main file and the log together are the last
\* state of the database, what a reader has copied lies behind it, what it has verified is of
\* one state, and who holds the lock has the only copy (codex_catalog.rs acquire,
\* read_database_with_budget, verify_snapshot).
THEOREM CatalogInvariant == CatalogSpec => []CatalogInv
<1>1. CatalogInv /\ [CatalogNext]_catalogVars => CatalogInv'
  <2> SUFFICES ASSUME CatalogInv, [CatalogNext]_catalogVars PROVE CatalogInv'
    OBVIOUS
  <2>1. CASE CodexSteps
    <3>1. DatabaseGood' /\ GoesOn /\ UNCHANGED <<catalogLock, snapshots, readers>>
      BY <2>1, CodexGoesOn DEF CatalogInv
    <3> QED BY <3>1, GoesOnGood
  <2>2. ASSUME NEW r \in Readers, ReaderSteps(r) PROVE CatalogInv'
    BY <2>2, ReaderMoves, MovedGood
  <2>3. CASE UNCHANGED catalogVars
    <3>1. UNCHANGED <<main, log, opens, history, catalogLock, snapshots, readers>>
      BY <2>3 DEF catalogVars, codexVars
    <3>2. DatabaseGood' /\ GoesOn
      BY <3>1, StillGood DEF CatalogInv
    <3> QED BY <3>1, <3>2, GoesOnGood
  <2> QED BY <2>1, <2>2, <2>3 DEF CatalogNext
<1> QED BY <1>1, CatalogStarts, PTL DEF CatalogSpec

\* A list that is returned is of one state that the database was in since the read began, and
\* the copy of the database under the lock is the only one, for any number of readers, pages and
\* tasks, whatever Codex commits, checkpoints and removes in between.
THEOREM CatalogOneMoment == CatalogSpec => []CatalogIsOneMoment
<1>1. CatalogInv => CatalogIsOneMoment
  <2> SUFFICES ASSUME CatalogInv, NEW r \in Readers
               PROVE  /\ At(r, "listed") =>
                           \E k \in readers[r].since..Len(history) :
                             /\ Database(readers[r].main, readers[r].log) = history[k]
                             /\ readers[r].tasks = ListOnce(readers[r].global, readers[r].lines, history[k])
                      /\ readers[r].at \in Holding \ {"clean"} => snapshots = {r} /\ catalogLock = r
    BY DEF CatalogIsOneMoment
  <2>1. ASSUME At(r, "listed")
        PROVE  \E k \in readers[r].since..Len(history) :
                 /\ Database(readers[r].main, readers[r].log) = history[k]
                 /\ readers[r].tasks = ListOnce(readers[r].global, readers[r].lines, history[k])
    <3>1. PICK m : m = readers[r]
      OBVIOUS
    <3>2. m.at = "listed" /\ ReaderGood(m)
      BY <2>1, <3>1, ReaderParts DEF At
    <3>3. Exact(m) /\ m.tasks = ListOnce(m.global, m.lines, Database(m.main, m.log))
      BY ONLY <3>2 DEF ReaderGood
    <3>4. PICK k \in m.since..Len(history) : history[k] = Database(m.main, m.log)
      BY <3>3 DEF Exact
    <3> QED BY <3>1, <3>3, <3>4
  <2>2. readers[r].at \in Holding \ {"clean"} => snapshots = {r} /\ catalogLock = r
    BY DEF CatalogInv, LockGood
  <2> QED BY <2>1, <2>2
<1> QED BY <1>1, CatalogInvariant, PTL
=============================================================================
