---------------------------- MODULE SysNetProofs ----------------------------
(***************************************************************************)
(* Proofs about SYS_NET for every set of sockets and callers.              *)
(***************************************************************************)
EXTENDS SysNetProps, TLAPS

-----------------------------------------------------------------------------
(* Types *)

\* Everything a handler may leave for later.
LEMMA PendingFacts ==
    /\ Owner \in Callers
    /\ Idle \in Pending
    /\ Then("CONNECTED", "Return") \in Pending
    /\ Then("RCVD_DATA", "Return") \in Pending
    /\ Then("LL_INTF_DOWN", "Reacquire") \in Pending
    /\ Then("LL_INTF_UP", "Reacquire") \in Pending
    /\ Then("DISCONNECTED", "Reconnect") \in Pending
    /\ Then("DISCONNECTED", "Reopen") \in Pending
    /\ Then("SSL_FAILED", "ReconnectHeld") \in Pending
    /\ Then("DNS_RESOLVE_FAILED", "ReconnectHeld") \in Pending
    /\ Then("SOCK_OPEN_FAILED", "ReleaseHeld") \in Pending
  BY DEF Callers, Idle, Pending, Then, Events, DownEvents, Continuations, Held, Retake

\* Delivering an event keeps the type of call.
LEMMA CallbackType ==
    ASSUME call \in [Callers -> Pending], NEW c \in Callers
    PROVE  [call EXCEPT ![c].evt = "none"] \in [Callers -> Pending]
<1>1. [call[c] EXCEPT !.evt = "none"] \in Pending
  BY DEF Pending
<1> QED
  BY <1>1

\* Closing the socket of the handle keeps the types of the layer below.
LEMMA SocketCloseType ==
    TypeOK /\ SocketClose(socket) =>
        /\ tcp' \in [Sockets -> TcpStates]
        /\ enc' \in [Sockets -> EncStates]
        /\ rx' \in [Sockets -> BOOLEAN]
  BY DEF TypeOK, SocketClose, sktVars, TcpStates, EncStates

\* The handle that SYS_NET_Initialize leaves behind, and the closed sockets, have
\* their types.
LEMMA TypeInit == Init => TypeOK
  BY PendingFacts, SysNetAssumption DEF Init, TypeOK, Statuses, TcpStates, EncStates

\* Every handler, callback and environment step keeps the types.
LEMMA TypeStep == TypeOK /\ [Next]_vars => TypeOK'
<1> SUFFICES ASSUME TypeOK, [Next]_vars PROVE TypeOK'
  OBVIOUS
<1> USE SysNetAssumption, PendingFacts, SocketCloseType
    DEF TypeOK, hdlVars, sktVars, Statuses, TcpStates, EncStates
<1>1. ASSUME NEW failed \in BOOLEAN, Open(failed) PROVE TypeOK'
  BY <1>1 DEF Open, StatusAfterResolve, MayFail, Trouble, NoTrouble
<1>2. ASSUME NEW failed \in BOOLEAN, TaskLowerLayerDown(failed) PROVE TypeOK'
  BY <1>2 DEF TaskLowerLayerDown, TaskIn, StatusAfterResolve, MayFail, Trouble, NoTrouble
<1>3. ASSUME NEW result \in {"SERVER_TMO", "ERROR"}, TaskResolvingDns(result)
      PROVE  TypeOK'
  BY <1>3 DEF TaskResolvingDns, TaskIn, MayFail, Trouble, NoTrouble
<1>4. ASSUME TaskDnsResolved PROVE TypeOK'
  BY <1>4 DEF TaskDnsResolved, TaskIn, SocketOpen, Free
<1>5. ASSUME TaskDnsResolvedNoSocket PROVE TypeOK'
  BY <1>5 DEF TaskDnsResolvedNoSocket, TaskIn, Trouble
<1>6. ASSUME TaskClientConnecting PROVE TypeOK'
  <2>1. CASE EnableTls
    BY <1>6, <2>1 DEF TaskClientConnecting
  <2>2. CASE ~EnableTls
    BY <1>6, <2>2 DEF TaskClientConnecting, GiveAndCall
  <2> QED
    BY <2>1, <2>2
<1>7. ASSUME TaskWaitForSntp PROVE TypeOK'
  BY <1>7 DEF TaskWaitForSntp, TaskIn, Free
<1>8. ASSUME TaskTlsExpired PROVE TypeOK'
  BY <1>8 DEF TaskTlsExpired, TaskIn
<1>9. ASSUME TaskTlsNegotiating PROVE TypeOK'
  <2> DEFINE secure == socket \in Sockets /\ enc[socket] = "Secure"
  <2>1. CASE secure
    BY <1>9, <2>1 DEF TaskTlsNegotiating, GiveAndCall
  <2>2. CASE ~secure
    BY <1>9, <2>2 DEF TaskTlsNegotiating
  <2> QED
    BY <2>1, <2>2
<1>10. ASSUME TaskConnectedLinkDown PROVE TypeOK'
  BY <1>10 DEF TaskConnectedLinkDown, TaskIn, GiveAndCall
<1>11. ASSUME TaskConnectedLost PROVE TypeOK'
  BY <1>11 DEF TaskConnectedLost, TaskIn, GiveAndCall
<1>12. ASSUME TaskConnectedData PROVE TypeOK'
  BY <1>12 DEF TaskConnectedData, TaskIn, GiveAndCall
<1>13. ASSUME TaskTlsFailed PROVE TypeOK'
  BY <1>13 DEF TaskTlsFailed, TaskIn, CallHeld
<1>14. ASSUME TaskConnectedLlDown PROVE TypeOK'
  BY <1>14 DEF TaskConnectedLlDown, TaskIn, GiveAndCall
<1>15. ASSUME TaskDnsResolveFailed PROVE TypeOK'
  BY <1>15 DEF TaskDnsResolveFailed, TaskIn, CallHeld
<1>16. ASSUME TaskSockOpenFailed PROVE TypeOK'
  BY <1>16 DEF TaskSockOpenFailed, TaskIn, CallHeld
<1>17. ASSUME TaskPeerSentFinData PROVE TypeOK'
  BY <1>17 DEF TaskPeerSentFinData, TaskIn, GiveAndCall
<1>18. ASSUME TaskPeerSentFin PROVE TypeOK'
  BY <1>18 DEF TaskPeerSentFin, TaskIn, GiveAndCall
<1>19. ASSUME ResumeReopen PROVE TypeOK'
  BY <1>19 DEF ResumeReopen, Resumes, SocketOpen, Free
<1>20. ASSUME ResumeReopenNoSocket PROVE TypeOK'
  BY <1>20 DEF ResumeReopenNoSocket, Resumes, Trouble
<1>21. ASSUME ResumeReconnectHeld PROVE TypeOK'
  BY <1>21 DEF ResumeReconnectHeld, Resumes
<1>22. ASSUME ResumeReleaseHeld PROVE TypeOK'
  BY <1>22 DEF ResumeReleaseHeld, Resumes
<1>23. ASSUME TaskResolvingDns("OK") PROVE TypeOK'
  BY <1>23 DEF TaskResolvingDns, TaskIn, MayFail, Trouble, NoTrouble
<1>24. ASSUME NEW c \in Callers, Callback(c) PROVE TypeOK'
  <2>1. call' \in [Callers -> Pending]
    BY <1>24, CallbackType DEF Callback
  <2>2. up' \in BOOLEAN
    BY <1>24 DEF Callback
  <2>3. UNCHANGED <<hdlVars, sem, sktVars, link, trouble>>
    BY <1>24 DEF Callback
  <2> QED
    BY <2>1, <2>2, <2>3
<1>25. ASSUME NEW c \in Callers, ResumeReacquire(c) PROVE TypeOK'
  BY <1>25 DEF ResumeReacquire, Resumes
<1>26. ASSUME NEW c \in Callers, ResumeReconnect(c) PROVE TypeOK'
  BY <1>26 DEF ResumeReconnect, Resumes
<1>27. ASSUME NEW c \in Callers, CtrlDisconnect(c) PROVE TypeOK'
  BY <1>27 DEF CtrlDisconnect, GiveAndCall, Trouble
<1>28. ASSUME NEW c \in Callers, NEW enable \in BOOLEAN, CtrlReconnect(c, enable)
      PROVE  TypeOK'
  BY <1>28 DEF CtrlReconnect, Trouble
<1>29. ASSUME NEW c \in Callers, NEW enable \in BOOLEAN, SetConfigParam(c, enable)
      PROVE  TypeOK'
  BY <1>29 DEF SetConfigParam, Trouble
<1>30. ASSUME NEW all \in BOOLEAN, RecvMsg(all) PROVE TypeOK'
  BY <1>30 DEF RecvMsg
<1>31. ASSUME NEW s \in Sockets, TcpEstablished(s) PROVE TypeOK'
  BY <1>31 DEF TcpEstablished
<1>32. ASSUME NEW s \in Sockets, TcpData(s) PROVE TypeOK'
  BY <1>32 DEF TcpData, Trouble
<1>33. ASSUME NEW s \in Sockets, TcpFin(s) PROVE TypeOK'
  BY <1>33 DEF TcpFin, Trouble
<1>34. ASSUME NEW s \in Sockets, TcpDead(s) PROVE TypeOK'
  BY <1>34 DEF TcpDead, Trouble
<1>35. ASSUME NEW s \in Sockets, TlsDone(s) PROVE TypeOK'
  BY <1>35 DEF TlsDone
<1>36. ASSUME NEW s \in Sockets, TlsRefused(s) PROVE TypeOK'
  BY <1>36 DEF TlsRefused, Trouble
<1>37. ASSUME LinkLost PROVE TypeOK'
  BY <1>37 DEF LinkLost, Trouble
<1>38. ASSUME NEW next \in {"Linked", "Ready"}, LinkRestored(next)
      PROVE  TypeOK'
  BY <1>38 DEF LinkRestored
<1>39. ASSUME AddressReady PROVE TypeOK'
  BY <1>39 DEF AddressReady
<1>40. ASSUME TimerExpires PROVE TypeOK'
  BY <1>40 DEF TimerExpires, MayFail, Trouble, NoTrouble
<1>41. CASE UNCHANGED vars
  BY <1>41 DEF vars
<1> QED
  BY <1>1, <1>2, <1>3, <1>4, <1>5, <1>6, <1>7, <1>8, <1>9, <1>10, <1>11,
     <1>12, <1>13, <1>14, <1>15, <1>16, <1>17, <1>18, <1>19, <1>20, <1>21,
     <1>22, <1>23, <1>24, <1>25, <1>26, <1>27, <1>28, <1>29, <1>30, <1>31,
     <1>32, <1>33, <1>34, <1>35, <1>36, <1>37, <1>38, <1>39, <1>40, <1>41
     DEF Next, TaskStep, CallerStep, SocketStep, LinkStep

\* Every variable of SYS_NET keeps its type, for any sockets, callers and bounds:
\* in particular the client state machine never leaves its own statuses.
THEOREM TypeCorrect == Spec => []TypeOK
<1>1. Init => TypeOK
  BY TypeInit
<1>2. TypeOK /\ [Next]_vars => TypeOK'
  BY TypeStep
<1> QED
  BY <1>1, <1>2, PTL DEF Spec

-----------------------------------------------------------------------------
(* Sockets and TLS, with any other callers *)

\* Before SYS_NET_Open the handle is in no status that uses a socket.
LEMMA SafeInit == Init => SafeInv
  BY DEF Init, SafeInv, SocketIsLive, SessionIsSecure, ReopenClosed, Idle,
     HoldsSocket, Session, Callers

\* Every step keeps the socket of the handle open and, with TLS, encrypted as
\* long as the status uses it.
LEMMA SafeStep == TypeOK /\ SafeInv /\ [Next]_vars => SafeInv'
<1> SUFFICES ASSUME TypeOK, SafeInv, [Next]_vars PROVE SafeInv'
  OBVIOUS
<1> USE SysNetAssumption
    DEF TypeOK, SafeInv, SocketIsLive, SessionIsSecure, ReopenClosed, HoldsSocket,
        Session, Free, hdlVars, sktVars, Callers, Pending
<1>1. ASSUME NEW failed \in BOOLEAN, Open(failed) PROVE SafeInv'
  BY <1>1 DEF Open, StatusAfterResolve, MayFail, Trouble, NoTrouble
<1>2. ASSUME NEW failed \in BOOLEAN, TaskLowerLayerDown(failed)
      PROVE  SafeInv'
  BY <1>2 DEF TaskLowerLayerDown, TaskIn, StatusAfterResolve, MayFail, Trouble, NoTrouble
<1>3. ASSUME NEW result \in {"SERVER_TMO", "ERROR"}, TaskResolvingDns(result)
      PROVE  SafeInv'
  BY <1>3 DEF TaskResolvingDns, TaskIn, MayFail, Trouble, NoTrouble
<1>4. ASSUME TaskDnsResolved PROVE SafeInv'
  <2>1. PICK s \in Sockets : SocketOpen(s) /\ socket' = s
    BY <1>4 DEF TaskDnsResolved
  <2>2. SocketIsLive'
    BY <2>1 DEF SocketOpen
  <2> QED
    BY <1>4, <2>1, <2>2 DEF TaskDnsResolved, TaskIn, Idle
<1>5. ASSUME TaskDnsResolvedNoSocket PROVE SafeInv'
  BY <1>5 DEF TaskDnsResolvedNoSocket, TaskIn, Trouble
<1>6. ASSUME TaskClientConnecting PROVE SafeInv'
  BY <1>6 DEF TaskClientConnecting, TaskIn, GiveAndCall, Then
<1>7. ASSUME TaskWaitForSntp PROVE SafeInv'
  BY <1>7 DEF TaskWaitForSntp, TaskIn, Free
<1>8. ASSUME TaskTlsExpired PROVE SafeInv'
  BY <1>8 DEF TaskTlsExpired, TaskIn
<1>9. ASSUME TaskTlsNegotiating PROVE SafeInv'
  BY <1>9 DEF TaskTlsNegotiating, TaskIn, GiveAndCall, Then
<1>10. ASSUME TaskConnectedLinkDown PROVE SafeInv'
  BY <1>10 DEF TaskConnectedLinkDown, TaskIn, GiveAndCall, Then
<1>11. ASSUME TaskConnectedLost PROVE SafeInv'
  BY <1>11 DEF TaskConnectedLost, TaskIn, SocketClose, GiveAndCall, Then
<1>12. ASSUME TaskConnectedData PROVE SafeInv'
  BY <1>12 DEF TaskConnectedData, TaskIn, GiveAndCall, Then
<1>13. ASSUME TaskTlsFailed PROVE SafeInv'
  BY <1>13 DEF TaskTlsFailed, TaskIn, SocketClose, CallHeld, Then
<1>14. ASSUME TaskConnectedLlDown PROVE SafeInv'
  BY <1>14 DEF TaskConnectedLlDown, TaskIn, GiveAndCall, Then
<1>15. ASSUME TaskDnsResolveFailed PROVE SafeInv'
  BY <1>15 DEF TaskDnsResolveFailed, TaskIn, CallHeld, Then
<1>16. ASSUME TaskSockOpenFailed PROVE SafeInv'
  BY <1>16 DEF TaskSockOpenFailed, TaskIn, CallHeld, Then
<1>17. ASSUME TaskPeerSentFinData PROVE SafeInv'
  BY <1>17 DEF TaskPeerSentFinData, TaskIn, GiveAndCall, Then
<1>18. ASSUME TaskPeerSentFin PROVE SafeInv'
  BY <1>18 DEF TaskPeerSentFin, TaskIn, SocketClose, GiveAndCall, Then
<1>19. ASSUME ResumeReopen PROVE SafeInv'
  BY <1>19 DEF ResumeReopen, Resumes, SocketOpen, Free, Then, Idle
<1>20. ASSUME ResumeReopenNoSocket PROVE SafeInv'
  BY <1>20 DEF ResumeReopenNoSocket, Resumes, Then, Idle, Trouble
<1>21. ASSUME ResumeReconnectHeld PROVE SafeInv'
  BY <1>21 DEF ResumeReconnectHeld, Resumes, Then, Idle
<1>22. ASSUME ResumeReleaseHeld PROVE SafeInv'
  BY <1>22 DEF ResumeReleaseHeld, Resumes, Then, Idle
<1>23. ASSUME TaskResolvingDns("OK") PROVE SafeInv'
  BY <1>23 DEF TaskResolvingDns, TaskIn, MayFail, Trouble, NoTrouble
<1>24. ASSUME NEW c \in Callers, Callback(c) PROVE SafeInv'
  BY <1>24 DEF Callback
<1>25. ASSUME NEW c \in Callers, ResumeReacquire(c) PROVE SafeInv'
  BY <1>25 DEF ResumeReacquire, Resumes, Then, Idle
<1>26. ASSUME NEW c \in Callers, ResumeReconnect(c) PROVE SafeInv'
  BY <1>26 DEF ResumeReconnect, Resumes, Then, Idle
<1>27. ASSUME NEW c \in Callers, CtrlDisconnect(c) PROVE SafeInv'
  BY <1>27 DEF CtrlDisconnect, SocketClose, GiveAndCall, Then, Idle, Trouble
<1>28. ASSUME NEW c \in Callers, NEW enable \in BOOLEAN, CtrlReconnect(c, enable)
      PROVE  SafeInv'
  BY <1>28 DEF CtrlReconnect, SocketClose, Trouble
<1>29. ASSUME NEW c \in Callers, NEW enable \in BOOLEAN, SetConfigParam(c, enable)
      PROVE  SafeInv'
  BY <1>29 DEF SetConfigParam, Trouble
<1>30. ASSUME NEW all \in BOOLEAN, RecvMsg(all) PROVE SafeInv'
  BY <1>30 DEF RecvMsg
<1>31. ASSUME NEW s \in Sockets, TcpEstablished(s) PROVE SafeInv'
  BY <1>31 DEF TcpEstablished
<1>32. ASSUME NEW s \in Sockets, TcpData(s) PROVE SafeInv'
  BY <1>32 DEF TcpData, Trouble
<1>33. ASSUME NEW s \in Sockets, TcpFin(s) PROVE SafeInv'
  BY <1>33 DEF TcpFin, Trouble
<1>34. ASSUME NEW s \in Sockets, TcpDead(s) PROVE SafeInv'
  BY <1>34 DEF TcpDead, Trouble
<1>35. ASSUME NEW s \in Sockets, TlsDone(s) PROVE SafeInv'
  BY <1>35 DEF TlsDone
<1>36. ASSUME NEW s \in Sockets, TlsRefused(s) PROVE SafeInv'
  BY <1>36 DEF TlsRefused, Trouble
<1>37. ASSUME LinkLost PROVE SafeInv'
  BY <1>37 DEF LinkLost, Trouble
<1>38. ASSUME NEW next \in {"Linked", "Ready"}, LinkRestored(next)
      PROVE  SafeInv'
  BY <1>38 DEF LinkRestored
<1>39. ASSUME AddressReady PROVE SafeInv'
  BY <1>39 DEF AddressReady
<1>40. ASSUME TimerExpires PROVE SafeInv'
  BY <1>40 DEF TimerExpires, MayFail, Trouble, NoTrouble
<1>41. CASE UNCHANGED vars
  BY <1>41 DEF vars
<1> QED
  BY <1>1, <1>2, <1>3, <1>4, <1>5, <1>6, <1>7, <1>8, <1>9, <1>10, <1>11,
     <1>12, <1>13, <1>14, <1>15, <1>16, <1>17, <1>18, <1>19, <1>20, <1>21,
     <1>22, <1>23, <1>24, <1>25, <1>26, <1>27, <1>28, <1>29, <1>30, <1>31,
     <1>32, <1>33, <1>34, <1>35, <1>36, <1>37, <1>38, <1>39, <1>40, <1>41
     DEF Next, TaskStep, CallerStep, SocketStep, LinkStep

\* SYS_NET, called by any number of tasks, always satisfies SafeInv.
THEOREM SafeCorrect == Spec => []SafeInv
<1>1. Init => SafeInv
  BY SafeInit
<1>2. TypeOK /\ SafeInv /\ [Next]_vars => SafeInv'
  BY SafeStep
<1> QED
  BY <1>1, <1>2, TypeCorrect, PTL DEF Spec

\* No case of the state machine works on a closed socket, whatever the other
\* callers do between its steps.
THEOREM SocketAlwaysLive == Spec => []SocketIsLive
<1>1. SafeInv => SocketIsLive
  BY DEF SafeInv
<1> QED
  BY <1>1, SafeCorrect, PTL

\* A handle with TLS never reports a session over a plain socket.
THEOREM SessionAlwaysSecure == Spec => []SessionIsSecure
<1>1. SafeInv => SessionIsSecure
  BY DEF SafeInv
<1> QED
  BY <1>1, SafeCorrect, PTL

-----------------------------------------------------------------------------
(* With the owner as the only caller *)

\* Before SYS_NET_Open no socket is open and no event is on its way.
LEMMA OwnerInit == Init => OwnerInv
  BY DEF Init, OwnerInv, NoSocketLeak, BetweenHalves, NotOpenYet, EventView,
     Free, Idle, Session, DownEvents, Callers

\* With the MQTT task as the only caller every step keeps the sockets accounted
\* for and the event on its way in agreement with the status.
LEMMA OwnerStep ==
    ASSUME Others = {}, TypeOK, OwnerInv, [Next]_vars
    PROVE  OwnerInv'
<1>0. Callers = {Owner}
  BY DEF Callers
<1> USE <1>0, SysNetAssumption, CallersAssumption
    DEF TypeOK, OwnerInv, NoSocketLeak, BetweenHalves, NotOpenYet, EventView,
        HoldsSocket, Session, DownEvents, Free, hdlVars, sktVars, Idle
<1>1. ASSUME NEW failed \in BOOLEAN, Open(failed) PROVE OwnerInv'
  BY <1>1 DEF Open, StatusAfterResolve, MayFail, Trouble, NoTrouble
<1>2. ASSUME NEW failed \in BOOLEAN, TaskLowerLayerDown(failed)
      PROVE  OwnerInv'
  BY <1>2 DEF TaskLowerLayerDown, TaskIn, StatusAfterResolve, MayFail, Trouble, NoTrouble
<1>3. ASSUME NEW result \in {"SERVER_TMO", "ERROR"}, TaskResolvingDns(result)
      PROVE  OwnerInv'
  BY <1>3 DEF TaskResolvingDns, TaskIn, MayFail, Trouble, NoTrouble
<1>4. ASSUME TaskDnsResolved PROVE OwnerInv'
  BY <1>4 DEF TaskDnsResolved, TaskIn, SocketOpen, Free
<1>5. ASSUME TaskDnsResolvedNoSocket PROVE OwnerInv'
  BY <1>5 DEF TaskDnsResolvedNoSocket, TaskIn, Trouble
<1>6. ASSUME TaskClientConnecting PROVE OwnerInv'
  BY <1>6 DEF TaskClientConnecting, TaskIn, GiveAndCall, Then
<1>7. ASSUME TaskWaitForSntp PROVE OwnerInv'
  BY <1>7 DEF TaskWaitForSntp, TaskIn, Free
<1>8. ASSUME TaskTlsExpired PROVE OwnerInv'
  BY <1>8 DEF TaskTlsExpired, TaskIn
<1>9. ASSUME TaskTlsNegotiating PROVE OwnerInv'
  BY <1>9 DEF TaskTlsNegotiating, TaskIn, GiveAndCall, Then
<1>10. ASSUME TaskConnectedLinkDown PROVE OwnerInv'
  BY <1>10 DEF TaskConnectedLinkDown, TaskIn, GiveAndCall, Then
<1>11. ASSUME TaskConnectedLost PROVE OwnerInv'
  BY <1>11 DEF TaskConnectedLost, TaskIn, SocketClose, GiveAndCall, Then
<1>12. ASSUME TaskConnectedData PROVE OwnerInv'
  BY <1>12 DEF TaskConnectedData, TaskIn, GiveAndCall, Then
<1>13. ASSUME TaskTlsFailed PROVE OwnerInv'
  BY <1>13 DEF TaskTlsFailed, TaskIn, SocketClose, CallHeld, Then
<1>14. ASSUME TaskConnectedLlDown PROVE OwnerInv'
  BY <1>14 DEF TaskConnectedLlDown, TaskIn, GiveAndCall, Then
<1>15. ASSUME TaskDnsResolveFailed PROVE OwnerInv'
  BY <1>15 DEF TaskDnsResolveFailed, TaskIn, CallHeld, Then
<1>16. ASSUME TaskSockOpenFailed PROVE OwnerInv'
  BY <1>16 DEF TaskSockOpenFailed, TaskIn, CallHeld, Then
<1>17. ASSUME TaskPeerSentFinData PROVE OwnerInv'
  BY <1>17 DEF TaskPeerSentFinData, TaskIn, GiveAndCall, Then
<1>18. ASSUME TaskPeerSentFin PROVE OwnerInv'
  BY <1>18 DEF TaskPeerSentFin, TaskIn, SocketClose, GiveAndCall, Then
<1>19. ASSUME ResumeReopen PROVE OwnerInv'
  BY <1>19 DEF ResumeReopen, Resumes, SocketOpen, Free, Then, Idle
<1>20. ASSUME ResumeReopenNoSocket PROVE OwnerInv'
  BY <1>20 DEF ResumeReopenNoSocket, Resumes, Then, Idle, Trouble
<1>21. ASSUME ResumeReconnectHeld PROVE OwnerInv'
  BY <1>21 DEF ResumeReconnectHeld, Resumes, Then, Idle
<1>22. ASSUME ResumeReleaseHeld PROVE OwnerInv'
  BY <1>22 DEF ResumeReleaseHeld, Resumes, Then, Idle
<1>23. ASSUME TaskResolvingDns("OK") PROVE OwnerInv'
  BY <1>23 DEF TaskResolvingDns, TaskIn, MayFail, Trouble, NoTrouble
<1>24. ASSUME NEW c \in Callers, Callback(c) PROVE OwnerInv'
  BY <1>24 DEF Callback
<1>25. ASSUME NEW c \in Callers, ResumeReacquire(c) PROVE OwnerInv'
  BY <1>25 DEF ResumeReacquire, Resumes, Then, Idle
<1>26. ASSUME NEW c \in Callers, ResumeReconnect(c) PROVE OwnerInv'
  BY <1>26 DEF ResumeReconnect, Resumes, Then, Idle
<1>27. ASSUME NEW c \in Callers, CtrlDisconnect(c) PROVE OwnerInv'
  BY <1>27 DEF CtrlDisconnect, SocketClose, GiveAndCall, Then, Idle, Trouble
<1>28. ASSUME NEW c \in Callers, NEW enable \in BOOLEAN, CtrlReconnect(c, enable)
      PROVE  OwnerInv'
  BY <1>28 DEF CtrlReconnect, SocketClose, Trouble
<1>29. ASSUME NEW c \in Callers, NEW enable \in BOOLEAN, SetConfigParam(c, enable)
      PROVE  OwnerInv'
  BY <1>29 DEF SetConfigParam, Trouble
<1>30. ASSUME NEW all \in BOOLEAN, RecvMsg(all) PROVE OwnerInv'
  BY <1>30 DEF RecvMsg
<1>31. ASSUME NEW s \in Sockets, TcpEstablished(s) PROVE OwnerInv'
  BY <1>31 DEF TcpEstablished
<1>32. ASSUME NEW s \in Sockets, TcpData(s) PROVE OwnerInv'
  BY <1>32 DEF TcpData, Trouble
<1>33. ASSUME NEW s \in Sockets, TcpFin(s) PROVE OwnerInv'
  BY <1>33 DEF TcpFin, Trouble
<1>34. ASSUME NEW s \in Sockets, TcpDead(s) PROVE OwnerInv'
  BY <1>34 DEF TcpDead, Trouble
<1>35. ASSUME NEW s \in Sockets, TlsDone(s) PROVE OwnerInv'
  BY <1>35 DEF TlsDone
<1>36. ASSUME NEW s \in Sockets, TlsRefused(s) PROVE OwnerInv'
  BY <1>36 DEF TlsRefused, Trouble
<1>37. ASSUME LinkLost PROVE OwnerInv'
  BY <1>37 DEF LinkLost, Trouble
<1>38. ASSUME NEW next \in {"Linked", "Ready"}, LinkRestored(next)
      PROVE  OwnerInv'
  BY <1>38 DEF LinkRestored
<1>39. ASSUME AddressReady PROVE OwnerInv'
  BY <1>39 DEF AddressReady
<1>40. ASSUME TimerExpires PROVE OwnerInv'
  BY <1>40 DEF TimerExpires, MayFail, Trouble, NoTrouble
<1>41. CASE UNCHANGED vars
  BY <1>41 DEF vars
<1> QED
  BY <1>1, <1>2, <1>3, <1>4, <1>5, <1>6, <1>7, <1>8, <1>9, <1>10, <1>11,
     <1>12, <1>13, <1>14, <1>15, <1>16, <1>17, <1>18, <1>19, <1>20, <1>21,
     <1>22, <1>23, <1>24, <1>25, <1>26, <1>27, <1>28, <1>29, <1>30, <1>31,
     <1>32, <1>33, <1>34, <1>35, <1>36, <1>37, <1>38, <1>39, <1>40, <1>41
     DEF Next, TaskStep, CallerStep, SocketStep, LinkStep

\* With the MQTT task as the only caller SYS_NET always satisfies OwnerInv.
THEOREM OwnerCorrect ==
    ASSUME Others = {}
    PROVE  Spec => []OwnerInv
<1>1. Init => OwnerInv
  BY OwnerInit
<1>2. TypeOK /\ OwnerInv /\ [Next]_vars => OwnerInv'
  BY OwnerStep
<1> QED
  BY <1>1, <1>2, TypeCorrect, PTL DEF Spec

\* With one caller no socket of NET_PRES is ever lost.
THEOREM OwnerNeverLeaks ==
    ASSUME Others = {}
    PROVE  Spec => []NoSocketLeak
<1>1. OwnerInv => NoSocketLeak
  BY DEF OwnerInv
<1> QED
  BY <1>1, OwnerCorrect, PTL

\* With one caller the owner's view of the connection is right whenever no
\* event is on its way.
THEOREM OwnerViewAgrees ==
    ASSUME Others = {}
    PROVE  Spec => []ViewAgrees
<1>1. OwnerInv => ViewAgrees
  BY DEF OwnerInv, EventView, ViewAgrees, DownEvents, Callers
<1> QED
  BY <1>1, OwnerCorrect, PTL

\* With one caller CONNECTED and DISCONNECTED events alternate.
THEOREM OwnerEventsAlternate ==
    ASSUME Others = {}
    PROVE  Spec => EventsAlternate
<1> DEFINE Alternate ==
      \A c \in Callers :
         call[c].evt # "none" /\ call'[c].evt = "none" =>
            /\ call[c].evt = "CONNECTED" => ~up
            /\ call[c].evt = "DISCONNECTED" => up
<1>1. OwnerInv /\ [Next]_vars => [Alternate]_vars
  BY DEF OwnerInv, EventView, Callers
<1> QED
  BY <1>1, OwnerCorrect, PTL DEF Spec, EventsAlternate

-----------------------------------------------------------------------------
(* The handle implements the sessions of NetSession *)

\* What a step does to the status and the view at once: a session begins with
\* an owner that believes in none, ends with one that believes in it, and the
\* view changes only while the status stays on its side.
SessionMoves ==
    /\ status \in Session /\ status' \notin Session => up /\ up'
    /\ status \notin Session /\ status' \in Session => ~up /\ ~up'
    /\ up /\ ~up' => status \notin Session /\ status' \notin Session
    /\ ~up /\ up' => status \in Session /\ status' \in Session

\* With one caller every step either leaves the session as the owner sees it alone
\* or makes a move of NetSession (SessionMoves).
LEMMA MovesStep ==
    ASSUME Others = {}, TypeOK, OwnerInv, [Next]_vars
    PROVE  SessionMoves
<1>0. Callers = {Owner}
  BY DEF Callers
<1> USE <1>0, SysNetAssumption, CallersAssumption
    DEF TypeOK, OwnerInv, BetweenHalves, NotOpenYet, EventView, SessionMoves,
        HoldsSocket, Session, DownEvents, hdlVars, sktVars, Idle
<1>1. ASSUME NEW failed \in BOOLEAN, Open(failed) PROVE SessionMoves
  BY <1>1 DEF Open, StatusAfterResolve, MayFail, Trouble, NoTrouble
<1>2. ASSUME NEW failed \in BOOLEAN, TaskLowerLayerDown(failed)
      PROVE  SessionMoves
  BY <1>2 DEF TaskLowerLayerDown, TaskIn, StatusAfterResolve, MayFail, Trouble, NoTrouble
<1>3. ASSUME NEW result \in {"SERVER_TMO", "ERROR"}, TaskResolvingDns(result)
      PROVE  SessionMoves
  BY <1>3 DEF TaskResolvingDns, TaskIn, MayFail, Trouble, NoTrouble
<1>4. ASSUME TaskDnsResolved PROVE SessionMoves
  BY <1>4 DEF TaskDnsResolved, TaskIn
<1>5. ASSUME TaskDnsResolvedNoSocket PROVE SessionMoves
  BY <1>5 DEF TaskDnsResolvedNoSocket, TaskIn, Trouble
<1>6. ASSUME TaskClientConnecting PROVE SessionMoves
  BY <1>6 DEF TaskClientConnecting, TaskIn, GiveAndCall, Then
<1>7. ASSUME TaskWaitForSntp PROVE SessionMoves
  BY <1>7 DEF TaskWaitForSntp, TaskIn
<1>8. ASSUME TaskTlsExpired PROVE SessionMoves
  BY <1>8 DEF TaskTlsExpired, TaskIn
<1>9. ASSUME TaskTlsNegotiating PROVE SessionMoves
  BY <1>9 DEF TaskTlsNegotiating, TaskIn, GiveAndCall, Then
<1>10. ASSUME TaskConnectedLinkDown PROVE SessionMoves
  BY <1>10 DEF TaskConnectedLinkDown, TaskIn, GiveAndCall, Then
<1>11. ASSUME TaskConnectedLost PROVE SessionMoves
  BY <1>11 DEF TaskConnectedLost, TaskIn, GiveAndCall, Then
<1>12. ASSUME TaskConnectedData PROVE SessionMoves
  BY <1>12 DEF TaskConnectedData, TaskIn, GiveAndCall, Then
<1>13. ASSUME TaskTlsFailed PROVE SessionMoves
  BY <1>13 DEF TaskTlsFailed, TaskIn, CallHeld, Then
<1>14. ASSUME TaskConnectedLlDown PROVE SessionMoves
  BY <1>14 DEF TaskConnectedLlDown, TaskIn, GiveAndCall, Then
<1>15. ASSUME TaskDnsResolveFailed PROVE SessionMoves
  BY <1>15 DEF TaskDnsResolveFailed, TaskIn, CallHeld, Then
<1>16. ASSUME TaskSockOpenFailed PROVE SessionMoves
  BY <1>16 DEF TaskSockOpenFailed, TaskIn, CallHeld, Then
<1>17. ASSUME TaskPeerSentFinData PROVE SessionMoves
  BY <1>17 DEF TaskPeerSentFinData, TaskIn, GiveAndCall, Then
<1>18. ASSUME TaskPeerSentFin PROVE SessionMoves
  BY <1>18 DEF TaskPeerSentFin, TaskIn, GiveAndCall, Then
<1>19. ASSUME ResumeReopen PROVE SessionMoves
  BY <1>19 DEF ResumeReopen, Resumes, Then, Idle
<1>20. ASSUME ResumeReopenNoSocket PROVE SessionMoves
  BY <1>20 DEF ResumeReopenNoSocket, Resumes, Then, Idle, Trouble
<1>21. ASSUME ResumeReconnectHeld PROVE SessionMoves
  BY <1>21 DEF ResumeReconnectHeld, Resumes, Then, Idle
<1>22. ASSUME ResumeReleaseHeld PROVE SessionMoves
  BY <1>22 DEF ResumeReleaseHeld, Resumes, Then, Idle
<1>23. ASSUME TaskResolvingDns("OK") PROVE SessionMoves
  BY <1>23 DEF TaskResolvingDns, TaskIn, MayFail, Trouble, NoTrouble
<1>24. ASSUME NEW c \in Callers, Callback(c) PROVE SessionMoves
  BY <1>24 DEF Callback
<1>25. ASSUME NEW c \in Callers, ResumeReacquire(c) PROVE SessionMoves
  BY <1>25 DEF ResumeReacquire, Resumes, Then, Idle
<1>26. ASSUME NEW c \in Callers, ResumeReconnect(c) PROVE SessionMoves
  BY <1>26 DEF ResumeReconnect, Resumes, Then, Idle
<1>27. ASSUME NEW c \in Callers, CtrlDisconnect(c) PROVE SessionMoves
  BY <1>27 DEF CtrlDisconnect, GiveAndCall, Then, Idle, Trouble
<1>28. ASSUME NEW c \in Callers, NEW enable \in BOOLEAN, CtrlReconnect(c, enable)
      PROVE  SessionMoves
  BY <1>28 DEF CtrlReconnect, Trouble
<1>29. ASSUME NEW c \in Callers, NEW enable \in BOOLEAN, SetConfigParam(c, enable)
      PROVE  SessionMoves
  BY <1>29 DEF SetConfigParam, Trouble
<1>30. ASSUME NEW all \in BOOLEAN, RecvMsg(all) PROVE SessionMoves
  BY <1>30 DEF RecvMsg
<1>31. ASSUME NEW s \in Sockets, TcpEstablished(s) PROVE SessionMoves
  BY <1>31 DEF TcpEstablished
<1>32. ASSUME NEW s \in Sockets, TcpData(s) PROVE SessionMoves
  BY <1>32 DEF TcpData, Trouble
<1>33. ASSUME NEW s \in Sockets, TcpFin(s) PROVE SessionMoves
  BY <1>33 DEF TcpFin, Trouble
<1>34. ASSUME NEW s \in Sockets, TcpDead(s) PROVE SessionMoves
  BY <1>34 DEF TcpDead, Trouble
<1>35. ASSUME NEW s \in Sockets, TlsDone(s) PROVE SessionMoves
  BY <1>35 DEF TlsDone
<1>36. ASSUME NEW s \in Sockets, TlsRefused(s) PROVE SessionMoves
  BY <1>36 DEF TlsRefused, Trouble
<1>37. ASSUME LinkLost PROVE SessionMoves
  BY <1>37 DEF LinkLost, Trouble
<1>38. ASSUME NEW next \in {"Linked", "Ready"}, LinkRestored(next)
      PROVE  SessionMoves
  BY <1>38 DEF LinkRestored
<1>39. ASSUME AddressReady PROVE SessionMoves
  BY <1>39 DEF AddressReady
<1>40. ASSUME TimerExpires PROVE SessionMoves
  BY <1>40 DEF TimerExpires, MayFail, Trouble, NoTrouble
<1>41. CASE UNCHANGED vars
  BY <1>41 DEF vars
<1> QED
  BY <1>1, <1>2, <1>3, <1>4, <1>5, <1>6, <1>7, <1>8, <1>9, <1>10, <1>11,
     <1>12, <1>13, <1>14, <1>15, <1>16, <1>17, <1>18, <1>19, <1>20, <1>21,
     <1>22, <1>23, <1>24, <1>25, <1>26, <1>27, <1>28, <1>29, <1>30, <1>31,
     <1>32, <1>33, <1>34, <1>35, <1>36, <1>37, <1>38, <1>39, <1>40, <1>41
     DEF Next, TaskStep, CallerStep, SocketStep, LinkStep

\* With one caller SYS_NET implements NetSession: sessions follow each other,
\* each is reported once when it begins and once when it has ended.
THEOREM OwnerImplementsSessions ==
    ASSUME Others = {}
    PROVE  Spec => ImplementsSessions
<1>1. Init => Sessions!Init
  BY DEF Init, Sessions!Init, SessionSeen, Session
<1>2. TypeOK /\ SessionMoves => [Sessions!Next]_SessionSeen
  BY DEF TypeOK, SessionMoves, SessionSeen, Sessions!Next, Sessions!Begin,
     Sessions!ReportConnected, Sessions!End, Sessions!ReportDisconnected
<1>3. TypeOK /\ OwnerInv /\ [Next]_vars => [Sessions!Next]_SessionSeen
  BY <1>2, MovesStep
<1> QED
  BY <1>1, <1>3, TypeCorrect, OwnerCorrect, PTL
     DEF Spec, ImplementsSessions, Sessions!Spec
-----------------------------------------------------------------------------
(* Where the handle comes to rest                                            *)

\* With one caller nothing switches reconnection on or off, and every handler that leads
\* to DISCONNECTED leads on from it.
LEMMA RestStep ==
    ASSUME Others = {}, TypeOK, RestInv, [Next]_vars
    PROVE  RestInv'
<1>0. Callers = {Owner}
  BY DEF Callers
<1> USE <1>0, SysNetAssumption, CallersAssumption
    DEF TypeOK, RestInv, Held, Retake, Continuations, hdlVars, sktVars, Idle
<1>1. ASSUME NEW failed \in BOOLEAN, Open(failed) PROVE RestInv'
  BY <1>1 DEF Open, StatusAfterResolve, MayFail, Trouble, NoTrouble
<1>2. ASSUME NEW failed \in BOOLEAN, TaskLowerLayerDown(failed)
      PROVE  RestInv'
  BY <1>2 DEF TaskLowerLayerDown, TaskIn, StatusAfterResolve, MayFail, Trouble, NoTrouble
<1>3. ASSUME NEW result \in {"SERVER_TMO", "ERROR"}, TaskResolvingDns(result)
      PROVE  RestInv'
  BY <1>3 DEF TaskResolvingDns, TaskIn, MayFail, Trouble, NoTrouble
<1>4. ASSUME TaskDnsResolved PROVE RestInv'
  BY <1>4 DEF TaskDnsResolved, TaskIn, SocketOpen, Free
<1>5. ASSUME TaskDnsResolvedNoSocket PROVE RestInv'
  BY <1>5 DEF TaskDnsResolvedNoSocket, TaskIn, Trouble
<1>6. ASSUME TaskClientConnecting PROVE RestInv'
  BY <1>6 DEF TaskClientConnecting, TaskIn, GiveAndCall, Then
<1>7. ASSUME TaskWaitForSntp PROVE RestInv'
  BY <1>7 DEF TaskWaitForSntp, TaskIn, Free
<1>8. ASSUME TaskTlsExpired PROVE RestInv'
  BY <1>8 DEF TaskTlsExpired, TaskIn
<1>9. ASSUME TaskTlsNegotiating PROVE RestInv'
  BY <1>9 DEF TaskTlsNegotiating, TaskIn, GiveAndCall, Then
<1>10. ASSUME TaskConnectedLinkDown PROVE RestInv'
  BY <1>10 DEF TaskConnectedLinkDown, TaskIn, GiveAndCall, Then
<1>11. ASSUME TaskConnectedLost PROVE RestInv'
  BY <1>11 DEF TaskConnectedLost, TaskIn, SocketClose, GiveAndCall, Then
<1>12. ASSUME TaskConnectedData PROVE RestInv'
  BY <1>12 DEF TaskConnectedData, TaskIn, GiveAndCall, Then
<1>13. ASSUME TaskTlsFailed PROVE RestInv'
  BY <1>13 DEF TaskTlsFailed, TaskIn, SocketClose, CallHeld, Then
<1>14. ASSUME TaskConnectedLlDown PROVE RestInv'
  BY <1>14 DEF TaskConnectedLlDown, TaskIn, GiveAndCall, Then
<1>15. ASSUME TaskDnsResolveFailed PROVE RestInv'
  BY <1>15 DEF TaskDnsResolveFailed, TaskIn, CallHeld, Then
<1>16. ASSUME TaskSockOpenFailed PROVE RestInv'
  BY <1>16 DEF TaskSockOpenFailed, TaskIn, CallHeld, Then
<1>17. ASSUME TaskPeerSentFinData PROVE RestInv'
  BY <1>17 DEF TaskPeerSentFinData, TaskIn, GiveAndCall, Then
<1>18. ASSUME TaskPeerSentFin PROVE RestInv'
  BY <1>18 DEF TaskPeerSentFin, TaskIn, SocketClose, GiveAndCall, Then
<1>19. ASSUME ResumeReopen PROVE RestInv'
  BY <1>19 DEF ResumeReopen, Resumes, SocketOpen, Free, Then, Idle
<1>20. ASSUME ResumeReopenNoSocket PROVE RestInv'
  BY <1>20 DEF ResumeReopenNoSocket, Resumes, Then, Idle, Trouble
<1>21. ASSUME ResumeReconnectHeld PROVE RestInv'
  BY <1>21 DEF ResumeReconnectHeld, Resumes, Then, Idle
<1>22. ASSUME ResumeReleaseHeld PROVE RestInv'
  <2>1. call[Owner].next = "ReleaseHeld" /\ call'[Owner].next = "Return" /\ sem' = "free"
    BY <1>22, PendingFacts DEF ResumeReleaseHeld, Resumes, Then
  <2>2. ~reconnect /\ UNCHANGED reconnect
    BY <1>22, <2>1 DEF ResumeReleaseHeld
  <2> QED BY <2>1, <2>2
<1>23. ASSUME TaskResolvingDns("OK") PROVE RestInv'
  BY <1>23 DEF TaskResolvingDns, TaskIn, MayFail, Trouble, NoTrouble
<1>24. ASSUME NEW c \in Callers, Callback(c) PROVE RestInv'
  BY <1>24 DEF Callback
<1>25. ASSUME NEW c \in Callers, ResumeReacquire(c) PROVE RestInv'
  BY <1>25 DEF ResumeReacquire, Resumes, Then, Idle
<1>26. ASSUME NEW c \in Callers, ResumeReconnect(c) PROVE RestInv'
  BY <1>26 DEF ResumeReconnect, Resumes, Then, Idle
<1>27. ASSUME NEW c \in Callers, CtrlDisconnect(c) PROVE RestInv'
  BY <1>27 DEF CtrlDisconnect, SocketClose, GiveAndCall, Then, Idle, Trouble
<1>28. ASSUME NEW c \in Callers, NEW enable \in BOOLEAN, CtrlReconnect(c, enable)
      PROVE  RestInv'
  BY <1>28 DEF CtrlReconnect, SocketClose, Trouble
<1>29. ASSUME NEW c \in Callers, NEW enable \in BOOLEAN, SetConfigParam(c, enable)
      PROVE  RestInv'
  BY <1>29 DEF SetConfigParam, Trouble
<1>30. ASSUME NEW all \in BOOLEAN, RecvMsg(all) PROVE RestInv'
  BY <1>30 DEF RecvMsg
<1>31. ASSUME NEW s \in Sockets, TcpEstablished(s) PROVE RestInv'
  BY <1>31 DEF TcpEstablished
<1>32. ASSUME NEW s \in Sockets, TcpData(s) PROVE RestInv'
  BY <1>32 DEF TcpData, Trouble
<1>33. ASSUME NEW s \in Sockets, TcpFin(s) PROVE RestInv'
  BY <1>33 DEF TcpFin, Trouble
<1>34. ASSUME NEW s \in Sockets, TcpDead(s) PROVE RestInv'
  BY <1>34 DEF TcpDead, Trouble
<1>35. ASSUME NEW s \in Sockets, TlsDone(s) PROVE RestInv'
  BY <1>35 DEF TlsDone
<1>36. ASSUME NEW s \in Sockets, TlsRefused(s) PROVE RestInv'
  BY <1>36 DEF TlsRefused, Trouble
<1>37. ASSUME LinkLost PROVE RestInv'
  BY <1>37 DEF LinkLost, Trouble
<1>38. ASSUME NEW next \in {"Linked", "Ready"}, LinkRestored(next)
      PROVE  RestInv'
  BY <1>38 DEF LinkRestored
<1>39. ASSUME AddressReady PROVE RestInv'
  BY <1>39 DEF AddressReady
<1>40. ASSUME TimerExpires PROVE RestInv'
  BY <1>40 DEF TimerExpires, MayFail, Trouble, NoTrouble
<1>41. CASE UNCHANGED vars
  BY <1>41 DEF vars
<1> QED
  BY <1>1, <1>2, <1>3, <1>4, <1>5, <1>6, <1>7, <1>8, <1>9, <1>10, <1>11,
     <1>12, <1>13, <1>14, <1>15, <1>16, <1>17, <1>18, <1>19, <1>20, <1>21,
     <1>22, <1>23, <1>24, <1>25, <1>26, <1>27, <1>28, <1>29, <1>30, <1>31,
     <1>32, <1>33, <1>34, <1>35, <1>36, <1>37, <1>38, <1>39, <1>40, <1>41
     DEF Next, TaskStep, CallerStep, SocketStep, LinkStep

\* With one caller and enable_reconnect the handle rests only where it has still
\* something to wait for, or in one of the dead ends.
THEOREM OwnerRestsOnlyInDeadEnds ==
    ASSUME Others = {}
    PROVE  Spec => []RestsOnlyInDeadEnds
<1>1. ASSUME Init PROVE RestInv
  <2>1. call[Owner].next = "Return" /\ sem = "none" /\ sem # Owner /\ status = "IDLE"
    BY <1>1, CallersAssumption DEF Init, Callers, Idle
  <2> QED BY <2>1 DEF RestInv, Held
<1>2. TypeOK /\ RestInv => RestsOnlyInDeadEnds
  BY DEF RestInv, RestsOnlyInDeadEnds, DeadEnd, Idle
<1> QED
  BY <1>1, <1>2, RestStep, TypeCorrect, PTL DEF Spec
=============================================================================
