------------------------------- MODULE SysNet -------------------------------
(***************************************************************************)
(* The SYS_NET service (system/net/src/sys_net.c) for one client-mode TCP  *)
(* handle: the connection state machine that SYS_NET_Task runs, the        *)
(* control messages other tasks send it, the instance semaphore, and the   *)
(* sockets, name server and link below it.                                 *)
(*                                                                         *)
(* A section of code that runs with hdl->InstSemaphore taken is one step.  *)
(* The code gives the semaphore around most callbacks, so such a handler   *)
(* is three steps: the change of status, the callback, and what the        *)
(* handler does after it took the semaphore again (call[c].next).          *)
(***************************************************************************)
EXTENDS Naturals

CONSTANTS
    Owner,          \* the task that runs SYS_NET_Task (MQTT_APP)
    Others,         \* other tasks that call SYS_NET_CtrlMsg on the handle
    Sockets,        \* the socket table of NET_PRES
    NoSocket,       \* INVALID_SOCKET
    EnableTls,      \* cfg_info.enable_tls
    InitReconnect,  \* cfg_info.enable_reconnect at SYS_NET_Open
    HostIsAddress,  \* cfg_info.host_name is a dotted IPv4 address
    Faults,         \* which kinds of trouble the environment may make
    MaxTrouble      \* bound: how many times it may make trouble

FaultKinds == {"OpenDnsError", "ReopenFails", "DeadWhileConnecting",
               "LateFin", "CliReconnect"}

ASSUME SysNetAssumption ==
    /\ Owner \notin Others
    /\ NoSocket \notin Sockets
    /\ EnableTls \in BOOLEAN /\ InitReconnect \in BOOLEAN
    /\ HostIsAddress \in BOOLEAN
    /\ Faults \subseteq FaultKinds
    /\ MaxTrouble \in Nat

Callers == {Owner} \cup Others

ASSUME CallersAssumption == {"none", "free", "deleted"} \cap Callers = {}

VARIABLES
    status,     \* hdl->status
    socket,     \* hdl->socket; it keeps its value after the socket is closed
    reconnect,  \* hdl->cfg_info.enable_reconnect
    timer,      \* hdl->timerInfo, the TLS timer
    sem,        \* hdl->InstSemaphore: "none", "free", "deleted" or its holder
    call,       \* per caller: event still to deliver, and what follows it
    up,         \* the owner's view: the last event said it has a connection
    tcp,        \* state of every socket of NET_PRES
    enc,        \* state of the encryption of every socket
    rx,         \* sockets with received bytes nobody has read
    link,       \* the interface: "Down", "Linked" (no address) or "Ready"
    trouble     \* how much more trouble the environment may make

hdlVars == <<status, socket, reconnect, timer>>
sktVars == <<tcp, enc, rx>>
vars == <<hdlVars, sem, call, up, sktVars, link, trouble>>

-----------------------------------------------------------------------------
(* Types *)

Statuses ==
    {"IDLE", "LOWER_LAYER_DOWN", "RESOLVING_DNS", "DNS_RESOLVED",
     "DNS_RESOLVE_FAILED", "SOCK_OPEN_FAILED", "CLIENT_CONNECTING",
     "WAIT_FOR_SNTP", "TLS_NEGOTIATING", "TLS_NEGOTIATION_FAILED",
     "CONNECTED", "CONNECTED_LL_DOWN", "PEER_SENT_FIN", "DISCONNECTED"}

\* The statuses in which the owner has been, or is about to be, told CONNECTED.
Session == {"CONNECTED", "CONNECTED_LL_DOWN", "PEER_SENT_FIN"}

\* The statuses in which hdl->socket is open.
HoldsSocket == Session \cup {"CLIENT_CONNECTING", "WAIT_FOR_SNTP",
                             "TLS_NEGOTIATING", "TLS_NEGOTIATION_FAILED"}

DownEvents == {"DISCONNECTED", "SSL_FAILED", "DNS_RESOLVE_FAILED",
               "SOCK_OPEN_FAILED"}
Events == DownEvents \cup {"CONNECTED", "LL_INTF_DOWN", "LL_INTF_UP", "RCVD_DATA"}

\* What a handler still has to do after its callback. In the Held ones the
\* semaphore stays taken during the callback.
Held == {"ReconnectHeld", "ReleaseHeld"}
Retake == {"Reacquire", "Reconnect", "Reopen"}
Continuations == Held \cup Retake \cup {"Return"}

Pending == [evt : Events \cup {"none"}, next : Continuations]
Idle == [evt |-> "none", next |-> "Return"]
Then(event, next) == [evt |-> event, next |-> next]

\* "Dead": not connected and never will be (the TCB was killed by a reset, or
\* waits in CLIENT_WAIT_DISCONNECT).
TcpStates == {"Closed", "SynSent", "Estab", "CloseWait", "Dead"}
EncStates == {"Plain", "Negotiating", "Secure", "Failed"}

TypeOK ==
    /\ status \in Statuses
    /\ socket \in Sockets \cup {NoSocket}
    /\ reconnect \in BOOLEAN
    /\ timer \in {"Off", "Running", "Expired"}
    /\ sem \in {"none", "free", "deleted"} \cup Callers
    /\ call \in [Callers -> Pending]
    /\ up \in BOOLEAN
    /\ tcp \in [Sockets -> TcpStates]
    /\ enc \in [Sockets -> EncStates]
    /\ rx \in [Sockets -> BOOLEAN]
    /\ link \in {"Down", "Linked", "Ready"}
    /\ trouble \in Nat

Init ==
    /\ status = "IDLE" /\ socket = NoSocket /\ reconnect = InitReconnect
    /\ timer = "Off"
    /\ sem = "none"
    /\ call = [c \in Callers |-> Idle]
    /\ up = FALSE
    /\ tcp = [s \in Sockets |-> "Closed"]
    /\ enc = [s \in Sockets |-> "Plain"]
    /\ rx = [s \in Sockets |-> FALSE]
    /\ link = "Down"
    /\ trouble = MaxTrouble

-----------------------------------------------------------------------------
(* The calls SYS_NET makes into the layers below *)

LinkUp == link # "Down"            \* SYS_NET_Ll_Link_Status
NetReady == link = "Ready"         \* SYS_NET_Ll_Status

IsConnected(s) == s \in Sockets /\ tcp[s] \in {"Estab", "CloseWait"}
ReadIsReady(s) == s \in Sockets /\ rx[s]
Free(s) == tcp[s] = "Closed"

\* NET_PRES_SocketOpen of a client socket; the signal handler is registered
\* by the same section.
SocketOpen(s) ==
    /\ Free(s)
    /\ tcp' = [tcp EXCEPT ![s] = "SynSent"]
    /\ enc' = [enc EXCEPT ![s] = "Plain"]
    /\ rx' = [rx EXCEPT ![s] = FALSE]

\* Variant: the slot is not given back.
SocketCloseForgotten(s) == UNCHANGED sktVars

\* NET_PRES_SocketClose: frees the slot the handle points to; nothing happens
\* when the handle is invalid or the slot is free.
SocketClose(s) ==
    IF s \in Sockets
      THEN /\ tcp' = [tcp EXCEPT ![s] = "Closed"]
           /\ enc' = [enc EXCEPT ![s] = "Plain"]
           /\ rx' = [rx EXCEPT ![s] = FALSE]
      ELSE UNCHANGED sktVars

\* The status SYS_NET_DNS_Resolve leaves behind when it finds status st.
StatusAfterResolve(st, failed) ==
    IF HostIsAddress THEN "DNS_RESOLVED"
    ELSE IF ~failed THEN "RESOLVING_DNS"
    ELSE IF reconnect THEN st ELSE "DNS_RESOLVE_FAILED"

\* Trouble of the environment is bounded.
Trouble == trouble > 0 /\ trouble' = trouble - 1
NoTrouble == UNCHANGED trouble
MayFail(failed) == IF failed THEN Trouble ELSE NoTrouble

-----------------------------------------------------------------------------
(* SYS_NET_Open, with the handle that SYS_NET_AllocHandle found *)

Open(failed) ==
    /\ sem = "none"
    /\ call[Owner] = Idle
    /\ failed => "OpenDnsError" \in Faults
    /\ sem' = "free"
    /\ IF NetReady
         THEN /\ status' = StatusAfterResolve("IDLE", failed)
              /\ MayFail(failed)
         ELSE ~failed /\ status' = "LOWER_LAYER_DOWN" /\ NoTrouble
    /\ UNCHANGED <<socket, reconnect, timer, call, up, sktVars, link>>

-----------------------------------------------------------------------------
(* SYS_NET_Client_Task: one action per case of its switch. TaskIn is the    *)
(* common entry: the handle is in use and the semaphore can be taken.       *)

TaskIn(st) ==
    /\ status = st
    /\ call[Owner] = Idle
    /\ sem = "free"

\* Give the semaphore, let the owner see event, go on with next.
GiveAndCall(c, event, next) ==
    /\ call' = [call EXCEPT ![c] = Then(event, next)]
    /\ UNCHANGED sem

\* Let the owner see event with the semaphore still taken.
CallHeld(event, next) ==
    /\ call' = [call EXCEPT ![Owner] = Then(event, next)]
    /\ sem' = Owner

TaskLowerLayerDown(failed) ==
    /\ TaskIn("LOWER_LAYER_DOWN")
    /\ NetReady
    /\ status' = StatusAfterResolve("LOWER_LAYER_DOWN", failed)
    /\ MayFail(failed)
    /\ UNCHANGED <<socket, reconnect, timer, sem, call, up, sktVars, link>>

\* Variant: an answer is taken for an IPv6 address.
TaskResolvingDnsV6(result) ==
    /\ TaskIn("RESOLVING_DNS")
    /\ status' = IF result = "OK" THEN "IPV6_DNS_RESOLVED" ELSE "DNS_RESOLVE_FAILED"
    /\ MayFail(result # "OK")
    /\ UNCHANGED <<socket, reconnect, timer, sem, call, up, sktVars, link>>

\* A server timeout with reconnection enabled resolves again, which leaves
\* the status as it is.
TaskResolvingDns(result) ==
    /\ TaskIn("RESOLVING_DNS")
    /\ status' = IF result = "OK" THEN "DNS_RESOLVED"
                 ELSE IF result = "SERVER_TMO" /\ reconnect THEN "RESOLVING_DNS"
                 ELSE "DNS_RESOLVE_FAILED"
    /\ MayFail(result # "OK")
    /\ UNCHANGED <<socket, reconnect, timer, sem, call, up, sktVars, link>>

TaskDnsResolved ==
    /\ TaskIn("DNS_RESOLVED")
    /\ \E s \in Sockets : SocketOpen(s) /\ socket' = s
    /\ status' = "CLIENT_CONNECTING"
    /\ UNCHANGED <<reconnect, timer, sem, call, up, link, trouble>>

\* No slot of NET_PRES or no memory for a TCB.
TaskDnsResolvedNoSocket ==
    /\ TaskIn("DNS_RESOLVED")
    /\ socket' = NoSocket
    /\ status' = IF reconnect THEN "DNS_RESOLVED" ELSE "SOCK_OPEN_FAILED"
    /\ Trouble
    /\ UNCHANGED <<reconnect, timer, sem, call, up, sktVars, link>>

TaskClientConnecting ==
    /\ TaskIn("CLIENT_CONNECTING")
    /\ IsConnected(socket) /\ LinkUp
    /\ IF EnableTls
         THEN status' = "WAIT_FOR_SNTP" /\ UNCHANGED <<sem, call>>
         ELSE /\ status' = "CONNECTED"
              /\ GiveAndCall(Owner, "CONNECTED", "Return")
    /\ UNCHANGED <<socket, reconnect, timer, up, sktVars, link, trouble>>

\* NET_PRES_SocketEncryptSocket needs a slot in use that is not encrypted yet.
TaskWaitForSntp ==
    /\ TaskIn("WAIT_FOR_SNTP")
    /\ IF socket \in Sockets /\ ~Free(socket) /\ enc[socket] = "Plain"
         THEN /\ enc' = [enc EXCEPT ![socket] = "Negotiating"]
              /\ timer' = "Running"
              /\ status' = "TLS_NEGOTIATING"
         ELSE status' = "TLS_NEGOTIATION_FAILED" /\ UNCHANGED <<enc, timer>>
    /\ UNCHANGED <<socket, reconnect, sem, call, up, tcp, rx, link, trouble>>

TaskTlsExpired ==
    /\ TaskIn("TLS_NEGOTIATING")
    /\ timer = "Expired"
    /\ timer' = "Off"
    /\ status' = "TLS_NEGOTIATION_FAILED"
    /\ UNCHANGED <<socket, reconnect, sem, call, up, sktVars, link, trouble>>

\* Variant: the result of the handshake is not looked at.
TaskTlsNegotiatingUnchecked ==
    /\ TaskIn("TLS_NEGOTIATING")
    /\ timer # "Expired"
    /\ socket \in Sockets => enc[socket] # "Negotiating"
    /\ timer' = "Off"
    /\ status' = "CONNECTED"
    /\ GiveAndCall(Owner, "CONNECTED", "Return")
    /\ UNCHANGED <<socket, reconnect, up, sktVars, link, trouble>>

TaskTlsNegotiating ==
    /\ TaskIn("TLS_NEGOTIATING")
    /\ timer # "Expired"
    /\ socket \in Sockets => enc[socket] # "Negotiating"
    /\ IF socket \in Sockets /\ enc[socket] = "Secure"
         THEN /\ timer' = "Off"
              /\ status' = "CONNECTED"
              /\ GiveAndCall(Owner, "CONNECTED", "Return")
         ELSE status' = "TLS_NEGOTIATION_FAILED" /\ UNCHANGED <<timer, sem, call>>
    /\ UNCHANGED <<socket, reconnect, up, sktVars, link, trouble>>

\* Variant: a lost link is reported as a lost connection.
TaskConnectedLinkDownDisconnects ==
    /\ TaskIn("CONNECTED")
    /\ ~LinkUp
    /\ status' = "CONNECTED_LL_DOWN"
    /\ GiveAndCall(Owner, "DISCONNECTED", "Reacquire")
    /\ UNCHANGED <<socket, reconnect, timer, up, sktVars, link, trouble>>

TaskConnectedLinkDown ==
    /\ TaskIn("CONNECTED")
    /\ ~LinkUp
    /\ status' = "CONNECTED_LL_DOWN"
    /\ GiveAndCall(Owner, "LL_INTF_DOWN", "Reacquire")
    /\ UNCHANGED <<socket, reconnect, timer, up, sktVars, link, trouble>>

TaskConnectedLost ==
    /\ TaskIn("CONNECTED")
    /\ LinkUp /\ ~IsConnected(socket)
    /\ SocketClose(socket)
    /\ status' = "DISCONNECTED"
    /\ GiveAndCall(Owner, "DISCONNECTED", "Reconnect")
    /\ UNCHANGED <<socket, reconnect, timer, up, link, trouble>>

TaskConnectedData ==
    /\ TaskIn("CONNECTED")
    /\ LinkUp /\ IsConnected(socket) /\ ReadIsReady(socket)
    /\ GiveAndCall(Owner, "RCVD_DATA", "Return")
    /\ UNCHANGED <<hdlVars, up, sktVars, link, trouble>>

TaskTlsFailed ==
    /\ TaskIn("TLS_NEGOTIATION_FAILED")
    /\ SocketClose(socket)
    /\ status' = "DISCONNECTED"
    /\ CallHeld("SSL_FAILED", "ReconnectHeld")
    /\ UNCHANGED <<socket, reconnect, timer, up, link, trouble>>

TaskConnectedLlDown ==
    /\ TaskIn("CONNECTED_LL_DOWN")
    /\ LinkUp
    /\ status' = "CONNECTED"
    /\ GiveAndCall(Owner, "LL_INTF_UP", "Reacquire")
    /\ UNCHANGED <<socket, reconnect, timer, up, sktVars, link, trouble>>

TaskDnsResolveFailed ==
    /\ TaskIn("DNS_RESOLVE_FAILED")
    /\ status' = "DISCONNECTED"
    /\ CallHeld("DNS_RESOLVE_FAILED", "ReconnectHeld")
    /\ UNCHANGED <<socket, reconnect, timer, up, sktVars, link, trouble>>

TaskSockOpenFailed ==
    /\ TaskIn("SOCK_OPEN_FAILED")
    /\ status' = "DISCONNECTED"
    /\ CallHeld("SOCK_OPEN_FAILED", "ReleaseHeld")
    /\ UNCHANGED <<socket, reconnect, timer, up, sktVars, link, trouble>>

TaskPeerSentFinData ==
    /\ TaskIn("PEER_SENT_FIN")
    /\ ReadIsReady(socket)
    /\ GiveAndCall(Owner, "RCVD_DATA", "Return")
    /\ UNCHANGED <<hdlVars, up, sktVars, link, trouble>>

TaskPeerSentFin ==
    /\ TaskIn("PEER_SENT_FIN")
    /\ ~ReadIsReady(socket)
    /\ SocketClose(socket)
    /\ status' = "DISCONNECTED"
    /\ GiveAndCall(Owner, "DISCONNECTED", "Reopen")
    /\ UNCHANGED <<socket, reconnect, timer, up, link, trouble>>

-----------------------------------------------------------------------------
(* The callback (SYS_MQTT_TcpClientCallback, as SYS_NET sees it) and the     *)
(* rest of the handler that made it                                          *)

Callback(c) ==
    /\ call[c].evt # "none"
    /\ up' = IF call[c].evt = "CONNECTED" THEN TRUE
             ELSE IF call[c].evt \in DownEvents THEN FALSE ELSE up
    /\ call' = [call EXCEPT ![c].evt = "none"]
    /\ UNCHANGED <<hdlVars, sem, sktVars, link, trouble>>

Resumes(c, next) ==
    /\ call[c] = Then("none", next)
    /\ sem = IF next \in Held THEN Owner ELSE "free"
    /\ call' = [call EXCEPT ![c] = Idle]

ResumeReacquire(c) ==
    /\ Resumes(c, "Reacquire")
    /\ UNCHANGED <<hdlVars, sem, up, sktVars, link, trouble>>

\* After a lost connection or SYS_NET_CTRL_MSG_DISCONNECT: start over, or
\* delete the semaphore and free the handle.
ResumeReconnect(c) ==
    /\ Resumes(c, "Reconnect")
    /\ IF reconnect
         THEN status' = "LOWER_LAYER_DOWN" /\ UNCHANGED sem
         ELSE status' = "IDLE" /\ sem' = "deleted"
    /\ UNCHANGED <<socket, reconnect, timer, up, sktVars, link, trouble>>

\* After a FIN: a new socket to the same server.
ResumeReopen ==
    /\ Resumes(Owner, "Reopen")
    /\ IF reconnect
         THEN /\ \E s \in Sockets : SocketOpen(s) /\ socket' = s
              /\ status' = "CLIENT_CONNECTING"
              /\ UNCHANGED sem
         ELSE /\ status' = "IDLE" /\ sem' = "deleted"
              /\ UNCHANGED <<socket, sktVars>>
    /\ UNCHANGED <<reconnect, timer, up, link, trouble>>

\* Variant: the status changes whether or not there is a socket.
ResumeReopenNoSocketConnecting ==
    /\ Resumes(Owner, "Reopen")
    /\ reconnect
    /\ socket' = NoSocket
    /\ status' = "CLIENT_CONNECTING"
    /\ Trouble
    /\ UNCHANGED <<reconnect, timer, sem, up, sktVars, link>>

ResumeReopenNoSocket ==
    /\ "ReopenFails" \in Faults
    /\ Resumes(Owner, "Reopen")
    /\ reconnect
    /\ socket' = NoSocket
    /\ Trouble
    /\ UNCHANGED <<status, reconnect, timer, sem, up, sktVars, link>>

\* Variant: reconnection after a failed handshake is forgotten.
ResumeReconnectHeldStays ==
    /\ Resumes(Owner, "ReconnectHeld")
    /\ sem' = "free"
    /\ UNCHANGED <<hdlVars, up, sktVars, link, trouble>>

ResumeReconnectHeld ==
    /\ Resumes(Owner, "ReconnectHeld")
    /\ status' = IF reconnect THEN "LOWER_LAYER_DOWN" ELSE status
    /\ sem' = "free"
    /\ UNCHANGED <<socket, reconnect, timer, up, sktVars, link, trouble>>

ResumeReleaseHeld ==
    /\ Resumes(Owner, "ReleaseHeld")
    /\ sem' = "free"
    /\ UNCHANGED <<hdlVars, up, sktVars, link, trouble>>

-----------------------------------------------------------------------------
(* The interface functions other layers call *)

\* Each task makes one call at a time. The owner disconnects only what it
\* believes to be connected; the command line may do so at any time.
CtrlDisconnect(c) ==
    /\ call[c] = Idle
    /\ sem = "free"
    /\ c = Owner => up
    /\ status # "IDLE"
    /\ SocketClose(socket)
    /\ status' = "DISCONNECTED"
    /\ GiveAndCall(c, "DISCONNECTED", "Reconnect")
    /\ Trouble
    /\ UNCHANGED <<socket, reconnect, timer, up, link>>

\* `sysnet open ... apply' and `sysmqtt open apply'. The new configuration may
\* switch reconnection on or off. The rest of it, enable_tls included, is taken to be
\* that of the first one. No event tells the owner.
CtrlReconnect(c, enable) ==
    /\ "CliReconnect" \in Faults
    /\ c # Owner
    /\ call[c] = Idle
    /\ sem = "free"
    /\ IF status # "DISCONNECTED" THEN SocketClose(socket) ELSE UNCHANGED sktVars
    /\ reconnect' = enable
    /\ status' = "LOWER_LAYER_DOWN"
    /\ Trouble
    /\ UNCHANGED <<socket, timer, sem, call, up, link>>

\* SYS_NET_SetConfigParam takes no semaphore.
SetConfigParam(c, enable) ==
    /\ c # Owner
    /\ call[c] = Idle
    /\ sem # "none"
    /\ reconnect # enable
    /\ reconnect' = enable
    /\ Trouble
    /\ UNCHANGED <<status, socket, timer, sem, call, up, sktVars, link>>

\* The owner reads while it believes it is connected; a short buffer leaves
\* bytes behind.
RecvMsg(all) ==
    /\ call[Owner] = Idle
    /\ sem = "free"
    /\ up
    /\ IsConnected(socket) /\ LinkUp
    /\ ReadIsReady(socket)
    /\ rx' = [rx EXCEPT ![socket] = ~all]
    /\ UNCHANGED <<hdlVars, sem, call, up, tcp, enc, link, trouble>>

-----------------------------------------------------------------------------
(* The environment: TCP, TLS, the clock and the interface *)

TcpEstablished(s) ==
    /\ tcp[s] = "SynSent" /\ LinkUp
    /\ tcp' = [tcp EXCEPT ![s] = "Estab"]
    /\ UNCHANGED <<hdlVars, sem, call, up, enc, rx, link, trouble>>

TcpData(s) ==
    /\ tcp[s] = "Estab" /\ LinkUp /\ ~rx[s]
    /\ rx' = [rx EXCEPT ![s] = TRUE]
    /\ Trouble
    /\ UNCHANGED <<hdlVars, sem, call, up, tcp, enc, link>>

\* Variant: SYS_NET_NetPres_Signal does not look at the status.
TcpFinAnyStatus(s) ==
    /\ tcp[s] = "Estab" /\ LinkUp
    /\ tcp' = [tcp EXCEPT ![s] = "CloseWait"]
    /\ status' = "PEER_SENT_FIN"
    /\ Trouble
    /\ UNCHANGED <<socket, reconnect, timer, sem, call, up, enc, rx, link>>

\* The FIN of the peer, and SYS_NET_NetPres_Signal, which every socket opened
\* for the handle calls and which does not look at the socket it is called for.
TcpFin(s) ==
    /\ tcp[s] = "Estab" /\ LinkUp
    /\ status # "CONNECTED" => "LateFin" \in Faults
    /\ tcp' = [tcp EXCEPT ![s] = "CloseWait"]
    /\ status' = IF status = "CONNECTED" THEN "PEER_SENT_FIN" ELSE status
    /\ Trouble
    /\ UNCHANGED <<socket, reconnect, timer, sem, call, up, enc, rx, link>>

\* A reset, or the keep-alive giving up.
TcpDead(s) ==
    /\ tcp[s] \in {"Estab", "CloseWait"}
    /\ status = "CLIENT_CONNECTING" => "DeadWhileConnecting" \in Faults
    /\ tcp' = [tcp EXCEPT ![s] = "Dead"]
    /\ rx' = [rx EXCEPT ![s] = FALSE]
    /\ Trouble
    /\ UNCHANGED <<hdlVars, sem, call, up, enc, link>>

TlsDone(s) ==
    /\ enc[s] = "Negotiating" /\ tcp[s] = "Estab" /\ LinkUp
    /\ enc' = [enc EXCEPT ![s] = "Secure"]
    /\ UNCHANGED <<hdlVars, sem, call, up, tcp, rx, link, trouble>>

TlsRefused(s) ==
    /\ enc[s] = "Negotiating"
    /\ enc' = [enc EXCEPT ![s] = "Failed"]
    /\ Trouble
    /\ UNCHANGED <<hdlVars, sem, call, up, tcp, rx, link>>

\* 30 seconds without the end of the handshake.
TimerExpires ==
    /\ status = "TLS_NEGOTIATING" /\ timer = "Running"
    /\ timer' = "Expired"
    /\ MayFail(socket \in Sockets /\ tcp[socket] = "Estab")
    /\ UNCHANGED <<status, socket, reconnect, sem, call, up, sktVars, link>>

LinkLost ==
    /\ link # "Down" /\ link' = "Down"
    /\ Trouble
    /\ UNCHANGED <<hdlVars, sem, call, up, sktVars>>

LinkRestored(next) ==
    /\ link = "Down" /\ link' = next
    /\ UNCHANGED <<hdlVars, sem, call, up, sktVars, trouble>>

AddressReady ==
    /\ link = "Linked" /\ link' = "Ready"
    /\ UNCHANGED <<hdlVars, sem, call, up, sktVars, trouble>>

-----------------------------------------------------------------------------
(* The next-state relation *)

\* One call of SYS_NET_Task by the owner, up to its return.
TaskStep ==
    \/ \E failed \in BOOLEAN : Open(failed) \/ TaskLowerLayerDown(failed)
    \/ \E result \in {"SERVER_TMO", "ERROR"} : TaskResolvingDns(result)
    \/ TaskDnsResolved \/ TaskDnsResolvedNoSocket
    \/ TaskClientConnecting \/ TaskWaitForSntp
    \/ TaskTlsExpired \/ TaskTlsNegotiating
    \/ TaskConnectedLinkDown \/ TaskConnectedLost \/ TaskConnectedData
    \/ TaskTlsFailed \/ TaskConnectedLlDown
    \/ TaskDnsResolveFailed \/ TaskSockOpenFailed
    \/ TaskPeerSentFinData \/ TaskPeerSentFin
    \/ ResumeReopen \/ ResumeReopenNoSocket
    \/ ResumeReconnectHeld \/ ResumeReleaseHeld

CallerStep(c) ==
    \/ Callback(c) \/ ResumeReacquire(c) \/ ResumeReconnect(c)
    \/ CtrlDisconnect(c)
    \/ \E enable \in BOOLEAN : CtrlReconnect(c, enable) \/ SetConfigParam(c, enable)

SocketStep(s) ==
    \/ TcpEstablished(s) \/ TcpData(s) \/ TcpFin(s) \/ TcpDead(s)
    \/ TlsDone(s) \/ TlsRefused(s)

LinkStep ==
    \/ LinkLost \/ AddressReady
    \/ \E next \in {"Linked", "Ready"} : LinkRestored(next)

Next ==
    \/ TaskStep
    \/ TaskResolvingDns("OK")
    \/ \E c \in Callers : CallerStep(c)
    \/ \E all \in BOOLEAN : RecvMsg(all)
    \/ \E s \in Sockets : SocketStep(s)
    \/ LinkStep \/ TimerExpires

Spec == Init /\ [][Next]_vars

(* Fairness. FreeRTOS time-slices the tasks, which all run at one priority,  *)
(* so a task with a step to make makes it. The owner reads between two calls *)
(* of SYS_NET_Task, hence SF for RecvMsg. The name server, the peer and the  *)
(* access point answer in the end, once the bounded trouble is over.         *)
Fairness ==
    /\ WF_vars(TaskStep)
    /\ WF_vars(TaskResolvingDns("OK"))
    /\ \A c \in Callers :
          WF_vars(Callback(c) \/ ResumeReacquire(c) \/ ResumeReconnect(c))
    /\ SF_vars(RecvMsg(TRUE))
    /\ \A s \in Sockets : WF_vars(TcpEstablished(s)) /\ WF_vars(TlsDone(s))
    /\ WF_vars(TimerExpires)
    /\ WF_vars(AddressReady \/ \E next \in {"Linked", "Ready"} : LinkRestored(next))

FairSpec == Spec /\ Fairness

=============================================================================
