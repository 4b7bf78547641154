----------------------------- MODULE HostSocket -----------------------------
(***************************************************************************)
(* The socket through which the desktop application, the command line and   *)
(* the deployment talk to the Host: health.rs on macOS and Linux.  A Host    *)
(* retires the socket that a dead one left, publishes its own by a rename,  *)
(* and removes it when it stops.  A caller checks the identity of the file  *)
(* before and after it connects.  A thread per connection answers, or hands *)
(* the request to the main loop through a bounded channel and waits for it  *)
(* until the deadline.                                                      *)
(*                                                                         *)
(* One slot of the store is kept: its binding, with the generation that a   *)
(* caller must name to replace it.  A deadline may pass at any moment.      *)
(***************************************************************************)
EXTENDS Naturals, Sequences, FiniteSets, SequencesExt

CONSTANTS HostProcesses,
          Callers,            \* connections, each made by one call of query_host at a time
          Requests,           \* what a caller may ask: "health", "dashboard", "bind", "other"
          MaxActiveClients,   \* MAX_ACTIVE_CLIENTS
          MaxControl,         \* depth of the control channel
          MaxSockets,         \* bound: sockets ever bound
          MaxCalls,           \* bound: calls of query_host
          MaxBreaks           \* bound: failing calls, passed deadlines, dying Hosts

ASSUME SocketConstants ==
  /\ {MaxActiveClients, MaxControl, MaxSockets, MaxCalls, MaxBreaks} \subseteq Nat
  /\ 0 \notin HostProcesses

VARIABLES hosts,         \* process -> where it is, its socket, its version
          instanceLock,  \* the process that has the store open, or 0
          socketFile,    \* the socket at the path, or 0
          bound,         \* sockets bound so far
          requests,      \* caller -> its call and the thread that answers it
          control,       \* the control channel
          slot,          \* the generation of the binding, 0 without one
          binds,         \* history: the calls that bound the slot
          calls, breaks

processVars == <<hosts, instanceLock, socketFile, bound>>
callVars == <<requests, control, slot, binds, calls>>
socketVars == <<processVars, callVars, breaks>>

Down == [at |-> "down", id |-> 0, version |-> "none"]
NoCall == [n |-> 0, at |-> "idle", kind |-> "none", expected |-> 0, seen |-> 0, conn |-> 0,
           handler |-> "none", reply |-> "none", version |-> "none", told |-> "none"]

SocketInit ==
  /\ hosts = [h \in HostProcesses |-> Down] /\ instanceLock = 0 /\ socketFile = 0 /\ bound = 0
  /\ requests = [c \in Callers |-> NoCall] /\ control = << >>
  /\ slot = 0 /\ binds = << >> /\ calls = 0 /\ breaks = 0

HostAt(h, stage) == hosts[h].at = stage
HostGoes(h, stage) == hosts' = [hosts EXCEPT ![h].at = stage]
Listening(s) == \E h \in HostProcesses : hosts[h].id = s /\ hosts[h].at # "down"
Serves(s) == \E h \in HostProcesses : hosts[h].id = s /\ hosts[h].at = "serving"

Break == breaks < MaxBreaks /\ breaks' = breaks + 1

-----------------------------------------------------------------------------
(* A Host.                                                                 *)

\* HostDaemon::open: StateStore::open takes the lock of the store.  Another Host that runs
\* has it, and this one ends at once.
OpenHost(h, version) ==
  /\ HostAt(h, "down") /\ instanceLock = 0 /\ bound < MaxSockets
  /\ hosts' = [hosts EXCEPT ![h] = [at |-> "look", id |-> 0, version |-> version]]
  /\ instanceLock' = h
  /\ UNCHANGED <<socketFile, bound, breaks>> /\ UNCHANGED callVars

\* bind_private_socket: nobody listens on a socket that is found at the path.
LookForSocket(h) ==
  /\ HostAt(h, "look") /\ (socketFile # 0 => ~Listening(socketFile))
  /\ HostGoes(h, IF socketFile = 0 THEN "bind" ELSE "retire")
  /\ UNCHANGED <<instanceLock, socketFile, bound, breaks>> /\ UNCHANGED callVars

\* remove_socket_if_identity: renamed away, looked at, unlinked.
RetireSocket(h) ==
  /\ HostAt(h, "retire") /\ socketFile' = 0 /\ HostGoes(h, "bind")
  /\ UNCHANGED <<instanceLock, bound, breaks>> /\ UNCHANGED callVars

\* The listener is bound under a temporary name.  Its device and inode are taken to be of no
\* earlier socket: the path of one that is gone is never found with its identity.
BindTemporary(h) ==
  /\ HostAt(h, "bind") /\ bound' = bound + 1
  /\ hosts' = [hosts EXCEPT ![h].id = bound + 1, ![h].at = "publish"]
  /\ UNCHANGED <<instanceLock, socketFile, breaks>> /\ UNCHANGED callVars

\* rename_noreplace: the socket has its name from here on.
PublishSocket(h) ==
  /\ HostAt(h, "publish") /\ socketFile = 0
  /\ socketFile' = hosts[h].id /\ HostGoes(h, "serving")
  /\ UNCHANGED <<instanceLock, bound, breaks>> /\ UNCHANGED callVars

\* The threads of a process end with it, and with them their connections: what was not
\* written is lost.
Hang(s) == requests' = [c \in Callers |->
             IF requests[c].conn = s /\ requests[c].handler \notin {"none", "closed"}
             THEN [requests[c] EXCEPT !.handler = "closed", !.reply = "none"] ELSE requests[c]]

Exit(h) == /\ hosts' = [hosts EXCEPT ![h] = Down] /\ instanceLock' = 0

\* A call fails before the socket is published: the temporary name is removed.
OpenFails(h) ==
  /\ hosts[h].at \in {"look", "retire", "bind", "publish"} /\ Break
  /\ Exit(h)
  /\ UNCHANGED <<socketFile, bound>> /\ UNCHANGED callVars

\* The end of serve_until: the receiver of the control channel is dropped, and the
\* threads that wait for it hang up.
StopServing(h) ==
  /\ HostAt(h, "serving") /\ HostGoes(h, "drop")
  /\ control' = << >>
  /\ requests' = [c \in Callers |-> IF requests[c].conn = hosts[h].id /\ requests[c].handler = "waiting"
                                    THEN [requests[c] EXCEPT !.handler = "closed"] ELSE requests[c]]
  /\ UNCHANGED <<instanceLock, socketFile, bound, slot, binds, calls, breaks>>

\* Drop for HostDaemon: the socket is removed while the lock is still held.
DropSocket(h) ==
  /\ HostAt(h, "drop") /\ HostGoes(h, "exit")
  /\ \/ socketFile = hosts[h].id /\ socketFile' = 0 /\ UNCHANGED breaks
     \/ Break /\ UNCHANGED socketFile
  /\ UNCHANGED <<instanceLock, bound>> /\ UNCHANGED callVars

HostExits(h) ==
  /\ HostAt(h, "exit") /\ Exit(h) /\ Hang(hosts[h].id)
  /\ UNCHANGED <<socketFile, bound, control, slot, binds, calls, breaks>>

\* The process is killed wherever it is.
Perish(h) ==
  /\ ~HostAt(h, "down") /\ Exit(h)
  /\ IF hosts[h].id = 0 THEN UNCHANGED requests ELSE Hang(hosts[h].id)
  /\ control' = << >>
  /\ UNCHANGED <<socketFile, bound, slot, binds, calls>>

HostPerishes(h) == Break /\ Perish(h)

-----------------------------------------------------------------------------
(* A caller: query_host.                                                   *)

AtCall(c, stage) == requests[c].at = stage
SetCall(c, r) == requests' = [requests EXCEPT ![c] = r]
CallStep == UNCHANGED <<control, slot, binds, calls, breaks>> /\ UNCHANGED processVars

Told(c, what) == [requests[c] EXCEPT !.at = "over", !.told = what]

\* Nothing is left of a call: at its two ends, and in the queue.
CallOver(c) ==
  /\ requests[c].at \in {"idle", "over"} /\ requests[c].handler \in {"none", "closed"}
  /\ requests[c].n \notin Range(control)

\* A caller binds with the generation that a dashboard showed it.
Call(c, kind, expected) ==
  /\ CallOver(c) /\ calls < MaxCalls /\ calls' = calls + 1
  /\ SetCall(c, [NoCall EXCEPT !.n = calls + 1, !.at = "validate", !.kind = kind, !.expected = expected])
  /\ UNCHANGED <<control, slot, binds, breaks>> /\ UNCHANGED processVars

ValidateSocket(c) ==
  /\ AtCall(c, "validate")
  /\ SetCall(c, IF socketFile = 0 THEN Told(c, "offline")
              ELSE [requests[c] EXCEPT !.at = "connect", !.seen = socketFile])
  /\ CallStep

Connect(c) ==
  /\ AtCall(c, "connect")
  /\ SetCall(c, IF socketFile = 0 \/ ~Listening(socketFile) THEN Told(c, "offline")
              ELSE [requests[c] EXCEPT !.at = "compare", !.conn = socketFile, !.handler = "backlog"])
  /\ CallStep

\* Mutant of CompareSocket: the file is not looked at again.
ConnectedIsEnough(c) ==
  /\ AtCall(c, "compare")
  /\ SetCall(c, [requests[c] EXCEPT !.at = "send"])
  /\ CallStep

\* The second validate_private_socket.
CompareSocket(c) ==
  /\ AtCall(c, "compare")
  /\ SetCall(c, IF socketFile = 0 THEN Told(c, "offline")
              ELSE IF socketFile # requests[c].seen THEN Told(c, "unsafe")
              ELSE [requests[c] EXCEPT !.at = "send"])
  /\ CallStep

SendRequest(c) ==
  /\ AtCall(c, "send")
  /\ SetCall(c, IF requests[c].handler = "closed" THEN Told(c, "nothing")
              ELSE [requests[c] EXCEPT !.at = "await"])
  /\ CallStep

\* read_bounded, up to the answer or the end of the connection.
ReadResponse(c) ==
  /\ AtCall(c, "await") /\ requests[c].handler = "closed"
  /\ SetCall(c, Told(c, IF requests[c].reply = "none" THEN "nothing" ELSE requests[c].reply))
  /\ CallStep

CallTimesOut(c) ==
  /\ requests[c].at \in {"send", "await"} /\ Break
  /\ SetCall(c, Told(c, "nothing"))
  /\ UNCHANGED <<control, slot, binds, calls>> /\ UNCHANGED processVars

-----------------------------------------------------------------------------
(* The Host's side of a connection.                                        *)

AtHandler(c, stage) == requests[c].handler = stage /\ Listening(requests[c].conn)
Reserved(s) == {c \in Callers : requests[c].conn = s /\ requests[c].handler \in {"reading", "waiting", "writing"}}

\* reserve_client: a connection above the limit is dropped.
Accept(c) ==
  /\ AtHandler(c, "backlog") /\ Serves(requests[c].conn)
  /\ SetCall(c, [requests[c] EXCEPT !.handler =
                 IF Cardinality(Reserved(requests[c].conn)) < MaxActiveClients THEN "reading" ELSE "closed"])
  /\ CallStep

Answered(r, reply) == [r EXCEPT !.handler = "writing", !.reply = reply]
HealthSnapshot(r) ==
  [Answered(r, "health") EXCEPT
     !.version = hosts[CHOOSE h \in HostProcesses : hosts[h].id = r.conn].version]

\* Mutant of ForwardControl: a request that was told "host_busy" is queued all the same.
ForwardAlways(c) ==
  LET r == requests[c] IN
  /\ control' = Append(control, r.n)
  /\ SetCall(c, IF Len(control) < MaxControl THEN [r EXCEPT !.handler = "waiting"]
                ELSE Answered(r, "host_busy"))

\* forward_control: try_send fails when the channel is full, and when its receiver is gone.
ForwardControl(c) ==
  LET r == requests[c]
      refused == Len(control) >= MaxControl \/ ~Serves(r.conn)
  IN
  /\ control' = IF refused THEN control ELSE Append(control, r.n)
  /\ SetCall(c, IF refused THEN Answered(r, "host_busy") ELSE [r EXCEPT !.handler = "waiting"])

\* handle_client: a caller that went away before it sent anything ends the thread.
HandleClient(c) ==
  LET r == requests[c]
      sent == r.at = "await" \/ (r.at = "over" /\ r.told = "nothing")
  IN
  /\ AtHandler(c, "reading")
  /\ \/ sent /\ r.kind \in {"dashboard", "bind"} /\ ForwardControl(c)
     \/ /\ \/ sent /\ r.kind = "health" /\ SetCall(c, HealthSnapshot(r))
           \/ sent /\ r.kind = "other" /\ SetCall(c, Answered(r, "invalid_request"))
           \/ r.at = "over" /\ SetCall(c, [r EXCEPT !.handler = "closed"])
        /\ UNCHANGED control
  /\ UNCHANGED <<slot, binds, calls, breaks>> /\ UNCHANGED processVars

\* Mutant of ExpectedBinding: the generation the caller names is not compared.
AnyBinding(expected) == TRUE
\* set_binding: the compare-and-set of the store.
ExpectedBinding(expected) == slot = expected

\* process_control_request: the catalog may refuse the task, or fail; the dashboard of the
\* answer is built when the binding has been made, and the catalog or the store may fail then.
ProcessControlRequest ==
  \E c \in Callers, h \in HostProcesses, outcome \in {"fine", "refused", "catalog_failed", "state_failed"} :
    LET r == requests[c]
        bind == r.kind = "bind" /\ outcome # "refused" /\ ExpectedBinding(r.expected)
        reply == IF r.kind = "bind" /\ outcome = "refused" THEN "binding_failed"
                 ELSE IF r.kind = "bind" /\ ~bind THEN "stale_binding"
                 ELSE IF outcome = "fine" THEN "dashboard"
                 ELSE IF outcome = "state_failed" THEN outcome ELSE "catalog_failed"
    IN
    /\ control # << >> /\ HostAt(h, "serving") /\ r.n = Head(control)
    /\ control' = Tail(control)
    /\ slot' = IF bind THEN slot + 1 ELSE slot
    /\ binds' = IF bind THEN Append(binds, r.n) ELSE binds
    /\ SetCall(c, IF r.handler = "waiting" THEN Answered(r, reply) ELSE r)
    /\ UNCHANGED <<calls, breaks>> /\ UNCHANGED processVars

\* write_json_line, and the end of the thread.
WriteReply(c) ==
  /\ AtHandler(c, "writing")
  /\ SetCall(c, [requests[c] EXCEPT !.handler = "closed"])
  /\ CallStep

\* The deadline of the thread: nothing is answered, and what it queued stays queued.
HandlerTimesOut(c) ==
  /\ \E stage \in {"reading", "waiting", "writing"} : AtHandler(c, stage)
  /\ Break
  /\ SetCall(c, [requests[c] EXCEPT !.handler = "closed", !.reply = "none"])
  /\ UNCHANGED <<control, slot, binds, calls>> /\ UNCHANGED processVars

-----------------------------------------------------------------------------
HostSteps(h) ==
  \/ LookForSocket(h) \/ RetireSocket(h) \/ BindTemporary(h) \/ PublishSocket(h)
  \/ DropSocket(h) \/ HostExits(h) \/ OpenFails(h) \/ HostPerishes(h)

CallSteps(c) ==
  \/ ValidateSocket(c) \/ Connect(c) \/ CompareSocket(c) \/ SendRequest(c) \/ ReadResponse(c)
  \/ CallTimesOut(c) \/ Accept(c) \/ HandleClient(c) \/ WriteReply(c) \/ HandlerTimesOut(c)

SocketNext ==
  \/ \E h \in HostProcesses : HostSteps(h) \/ OpenHost(h, "old") \/ StopServing(h)
  \/ \E c \in Callers : CallSteps(c) \/ \E kind \in Requests, e \in {0, slot} : Call(c, kind, e)
  \/ ProcessControlRequest

SocketSpec == SocketInit /\ [][SocketNext]_socketVars

-----------------------------------------------------------------------------
\* The answers that are given before a binding is made, or in place of it.
Refusals == {"offline", "unsafe", "invalid_request", "host_busy", "stale_binding", "binding_failed"}

\* The errors that query_host returns as HealthError::Rejected.
Rejections == {"invalid_request", "host_busy", "stale_binding", "binding_failed",
               "catalog_failed", "state_failed"}

\* "Host rejected the request": a bind that was rejected was not made (health.rs HealthError,
\* process_control_request; the desktop shows "binding_rejected").
RejectedIsNotMade ==
  \A c \in Callers : requests[c].kind = "bind" /\ requests[c].told \in Rejections =>
                     requests[c].n \notin Range(binds)

\* What a caller is told is what was done.  A bind that was refused (nobody listens, the socket
\* is another one, the Host is busy, the generation is old, the task is not one to bind) is
\* not made later by a request that was left in the queue; one that was answered with a
\* dashboard was made, from the generation the caller had named; none is made twice; and
\* the answer comes from the Host whose socket the caller had looked at.  Of a bind that is
\* answered with "catalog_failed" or "state_failed" nothing is said: see RejectedIsNotMade
\* (health.rs query_host, handle_client, forward_control, process_control_request).
ToldIsDone ==
  /\ \A c \in Callers :
       LET r == requests[c]
           made == {k \in DOMAIN binds : binds[k] = r.n}
       IN r.kind = "bind" =>
            /\ Cardinality(made) <= 1
            /\ made # {} => made = {r.expected + 1} /\ slot >= r.expected + 1
            /\ r.told \in Refusals => made = {}
            /\ r.told = "dashboard" => made # {}
  /\ \A c \in Callers : requests[c].at \in {"send", "await"} => requests[c].conn = requests[c].seen
  /\ \A h \in HostProcesses : HostAt(h, "serving") => socketFile = hosts[h].id /\ instanceLock = h
=============================================================================
