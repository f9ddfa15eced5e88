---------------------------- MODULE MqttAppProofs ----------------------------
(***************************************************************************)
(* Proofs about the cloud application and the MQTT service for any bounds. *)
(***************************************************************************)
EXTENDS MqttApp, TLAPS

-----------------------------------------------------------------------------
(* Types                                                                     *)

\* Queues of no packet and of one packet.
LEMMA ShortSeq ==
    ASSUME NEW S
    PROVE  <<>> \in Seq(S) /\ \A p \in S : <<p>> \in Seq(S)
  OBVIOUS

\* The initial values of the service, the client and the application.
LEMMA TypeInit == Init => TypeOK /\ ErrorsBounded
<1> SUFFICES ASSUME Init PROVE TypeOK /\ ErrorsBounded
  OBVIOUS
<1>1. SvcInit
  BY DEF Init
<1>2. StatusTypeOK
  BY <1>1 DEF SvcInit, StatusTypeOK, Statuses
<1>3. ClientTypeOK /\ NetTypeOK
  <2>1. up \in Seq(Up) /\ down \in Seq(Down)
    BY <1>1 DEF SvcInit
  <2>2. ClientTypeOK
    BY <1>1 DEF SvcInit, ClientTypeOK
  <2> QED
    BY <1>1, <2>1, <2>2 DEF SvcInit, NetTypeOK
<1>4. BoundsTypeOK
  <2>1. MaxTrouble \in Nat /\ MaxDesired \in Nat
    BY SysMqttAssumption
  <2> QED
    BY <1>1, <2>1 DEF SvcInit, BoundsTypeOK
<1>5. errorCount \in 0 .. MaxErrors + 1 /\ errorCount <= MaxErrors
  BY MqttAppAssumption DEF Init
<1> QED
  BY <1>2, <1>3, <1>4, <1>5 DEF Init, TypeOK, SvcTypeOK, ErrorsBounded, Desired

\* Sending and reading keep the types of the connection and of the client.
LEMMA SendsType ==
    ASSUME NetTypeOK, NEW p \in Up, Sends(p), UNCHANGED <<session, wire, down, subs>>
    PROVE  NetTypeOK' /\ quiet' \in BOOLEAN
<1>1. up \in Seq(Up)
  BY DEF NetTypeOK
<1>2. up' = Append(up, p) \/ up' = up
  BY DEF Sends
<1>3. quiet' \in BOOLEAN
  BY DEF Sends
<1>4. up' \in Seq(Up)
  BY <1>1, <1>2
<1> QED
  BY <1>3, <1>4 DEF NetTypeOK

\* A packet that is read leaves a queue of packets.
LEMMA ReadType ==
    ASSUME NetTypeOK, CanRead
    PROVE  Incoming \in Down /\ Tail(down) \in Seq(Down)
  BY DEF NetTypeOK, CanRead, Incoming

\* A call of cycle() leaves queues of packets.
LEMMA CycledType ==
    ASSUME NetTypeOK, ClientTypeOK, Cycled, UNCHANGED <<session, wire, subs>>
    PROVE  NetTypeOK' /\ ping' \in BOOLEAN /\ quiet' \in BOOLEAN
<1>1. up' \in Seq(Up)
  BY DEF NetTypeOK, Cycled, Up
<1>2. down' \in Seq(Down)
  BY DEF NetTypeOK, Cycled, CanRead
<1>3. ping' \in BOOLEAN /\ quiet' \in BOOLEAN
  BY DEF Cycled, Heard
<1> QED
  BY <1>1, <1>2, <1>3 DEF NetTypeOK

\* A lost connection leaves nothing under way.
LEMMA DisconnectType ==
    ASSUME NetDisconnect
    PROVE  NetTypeOK'
  BY DEF NetDisconnect, ConnectionGone, NetTypeOK

\* Giving up after a failed send closes the session of the client and the connection.
LEMMA GiveUpType ==
    ASSUME GiveUp
    PROVE  /\ NetTypeOK' /\ eStatus' = "MQTT_DISCONNECTING"
           /\ isconnected' = FALSE /\ ping' = FALSE /\ handlers' = {}
  BY DisconnectType DEF GiveUp, CloseSession

\* Outside the bounds nothing of the environment changes in a step of the service.
LEMMA WaitsForType ==
    ASSUME StatusTypeOK, ClientTypeOK, NetTypeOK, NEW event, NEW ev, WaitsFor(event, ev),
           turn' = "App"
    PROVE  StatusTypeOK' /\ ClientTypeOK' /\ NetTypeOK'
<1>1. NetTypeOK' /\ ping' \in BOOLEAN /\ quiet' \in BOOLEAN
  <2>1. CASE timer = "Expired"
    BY <2>1, DisconnectType DEF WaitsFor, Heard
  <2>2. CASE timer # "Expired"
    BY <2>2, CycledType DEF WaitsFor
  <2> QED
    BY <2>1, <2>2
<1>2. StatusTypeOK'
  BY DEF WaitsFor, StatusTypeOK, Statuses
<1> QED
  BY <1>1, <1>2 DEF WaitsFor, ClientTypeOK

\* The calls keep the types of the application, and the count of timeouts is
\* bounded as long as the application does not give up.
LEMMA CallbackType ==
    ASSUME TypeOK, NEW ev \in Calls, MqttCallback(ev)
    PROVE  /\ MQTTConnected' \in BOOLEAN /\ MQTTPubQueued' \in BOOLEAN
           /\ shadowUpdate' \in BOOLEAN /\ pubFlag' \in BOOLEAN
           /\ led' \in Desired
           /\ errorCount' \in {0, errorCount, errorCount + 1}
           /\ errorCount' = errorCount + 1 => "PUBACK_TO" \in ev
<1>1. MQTTConnected' \in BOOLEAN /\ MQTTPubQueued' \in BOOLEAN
  BY DEF MqttCallback
<1>2. shadowUpdate' \in BOOLEAN /\ pubFlag' \in BOOLEAN /\ led' \in Desired
  BY DEF MqttCallback, TypeOK
<1>3. errorCount \in Nat
  BY MqttAppAssumption DEF TypeOK
<1>4. /\ errorCount' \in {0, errorCount, errorCount + 1}
      /\ errorCount' = errorCount + 1 => "PUBACK_TO" \in ev
  BY <1>3 DEF MqttCallback
<1> QED
  BY <1>1, <1>2, <1>4

\* A step of the service keeps its own types.
LEMMA SvcTaskType ==
    ASSUME SvcTypeOK, NEW ev, Task(ev)
    PROVE  SvcTypeOK'
<1> USE DEF SvcTypeOK, StatusTypeOK, ClientTypeOK, Statuses, Waits, svcVars, clientVars
<1>a. BoundsTypeOK' /\ turn' = "App"
  BY DEF Task, TaskLowerLayerDown, TaskSockConnected, TaskConack, TaskSuback,
     TaskPuback, TaskWaits, TaskConnected, TaskDisconnecting, TaskIdle,
     TaskIn, bounds, BoundsTypeOK
<1>1. CASE TaskLowerLayerDown(ev)
  BY <1>1, <1>a DEF TaskLowerLayerDown, netVars, NetTypeOK
<1>2. CASE TaskSockConnected(ev)
  <2>1. CASE Sends("CONNECT") /\ UNCHANGED <<session, wire, down, subs>>
    <3>1. NetTypeOK' /\ quiet' \in BOOLEAN
      BY <2>1, SendsType DEF Up
    <3> QED
      BY <1>2, <1>a, <2>1, <3>1 DEF TaskSockConnected, CloseSession, SendFails, Sends
  <2>2. CASE NetDisconnect /\ UNCHANGED quiet
    BY <1>2, <1>a, <2>2, DisconnectType DEF TaskSockConnected, CloseSession
  <2>3. \/ Sends("CONNECT") /\ UNCHANGED <<session, wire, down, subs>>
        \/ NetDisconnect /\ UNCHANGED quiet
    BY <1>2 DEF TaskSockConnected
  <2> QED
    BY <2>1, <2>2, <2>3
<1>3. CASE TaskConack(ev)
  <2>0. Incoming = "CONNACK" /\ CanRead
    BY <1>3 DEF TaskConack, Incoming
  <2>1. NetTypeOK'
    <3>1. CASE Sends("SUBSCRIBE") /\ down' = Tail(down) /\ UNCHANGED <<session, wire, subs>>
      BY <2>0, <3>1, ReadType DEF Sends, NetTypeOK, Up
    <3>2. CASE GiveUp
      BY <3>2, GiveUpType
    <3> QED
      BY <1>3, <3>1, <3>2 DEF TaskConack
  <2>2. quiet' \in BOOLEAN /\ eStatus' \in Statuses
    BY <1>3, GiveUpType DEF TaskConack, Sends
  <2>3. isconnected' \in BOOLEAN /\ ping' \in BOOLEAN /\ handlers' \subseteq {Delta}
    BY <1>3, GiveUpType DEF TaskConack
  <2>4. connCbSent' \in BOOLEAN /\ timer' \in {"Off", "Running", "Expired"}
    BY <1>3 DEF TaskConack
  <2> QED
    BY <1>a, <2>1, <2>2, <2>3, <2>4
<1>4. CASE TaskSuback(ev)
  <2>1. NetTypeOK'
    BY <1>4, ReadType DEF TaskSuback, NetTypeOK, Incoming
  <2> QED
    BY <1>4, <1>a, <2>1 DEF TaskSuback
<1>6. CASE TaskPuback(ev)
  <2>1. NetTypeOK' /\ quiet' \in BOOLEAN
    BY <1>6, ReadType DEF TaskPuback, NetTypeOK, Incoming
  <2> QED
    BY <1>6, <1>a, <2>1 DEF TaskPuback
<1>7. CASE TaskWaits(ev)
  <2>1. \E event \in Timeouts : WaitsFor(event, ev)
    BY <1>7 DEF TaskWaits, Timeouts
  <2> QED
    BY <1>a, <2>1, WaitsForType
<1>8. CASE TaskConnected(ev)
  <2>1. /\ NetTypeOK' /\ ClientTypeOK'
        /\ eStatus' \in {eStatus, "MQTT_DISCONNECTING"}
    BY <1>8, CycledType, SendsType, DisconnectType DEF TaskConnected, Up, CloseSession
  <2> QED
    BY <1>8, <1>a, <2>1 DEF TaskConnected
<1>9. CASE TaskDisconnecting(ev)
  <2>1. NetTypeOK' /\ ClientTypeOK'
    BY <1>9 DEF TaskDisconnecting, netVars, clientVars, NetTypeOK, ClientTypeOK
  <2>2. /\ eStatus' = "MQTT_DISCONNECTED" /\ connCbSent' \in BOOLEAN
        /\ UNCHANGED timer
    BY <1>9 DEF TaskDisconnecting
  <2> QED
    BY <1>a, <2>1, <2>2
<1>10. CASE TaskIdle(ev)
  BY <1>10, <1>a DEF TaskIdle, netVars, NetTypeOK
<1> QED
  BY <1>1, <1>2, <1>3, <1>4, <1>6, <1>7, <1>8, <1>9, <1>10 DEF Task

-----------------------------------------------------------------------------
(* The application's view of the connection                                  *)

\* Before the first connection the application, the service and the client agree
\* that there is none.
LEMMA AppInit == Init => AppInv
  BY DEF Init, SvcInit, AppInv, AppViewAgrees, StatusFollows, BeginsAfterEnd,
     QueuedIsConnected

\* What a step of the service does to the view, with the callbacks it makes.
LEMMA AppMqttStep ==
    ASSUME TypeOK, AppInv, NEW ev \in Calls, Task(ev), MqttCallback(ev)
    PROVE  AppInv'
<1>0. isconnected \in BOOLEAN /\ connCbSent \in BOOLEAN /\ MQTTConnected \in BOOLEAN
  BY DEF TypeOK, SvcTypeOK, StatusTypeOK, ClientTypeOK
<1> USE <1>0 DEF AppInv, AppViewAgrees, StatusFollows, BeginsAfterEnd, QueuedIsConnected,
        MqttCallback
<1>1. CASE TaskLowerLayerDown(ev)
  BY <1>1 DEF TaskLowerLayerDown, TaskIn, clientVars, netVars
<1>2. CASE TaskSockConnected(ev)
  BY <1>2 DEF TaskSockConnected, TaskIn, CloseSession, Sends, NetDisconnect
<1>3. CASE TaskConack(ev)
  <2>1. ~MQTTConnected /\ ~connCbSent /\ ~MQTTPubQueued
    BY <1>3 DEF TaskConack, TaskIn
  <2>2. ~MQTTConnected' /\ ~connCbSent' /\ ~MQTTPubQueued'
    BY <1>3, <2>1 DEF TaskConack
  <2>3. \/ eStatus' = "WAIT_FOR_MQTT_SUBACK" /\ isconnected' /\ session' = session
        \/ eStatus' = "MQTT_DISCONNECTING" /\ session' = "None"
    BY <1>3 DEF TaskConack, GiveUp, NetDisconnect
  <2>4. session # "Ready"
    BY <1>3 DEF TaskConack, TaskIn
  <2> QED
    BY <2>2, <2>3, <2>4
<1>4. CASE TaskSuback(ev)
  BY <1>4 DEF TaskSuback, TaskIn
<1>6. CASE TaskPuback(ev)
  BY <1>6 DEF TaskPuback, TaskIn
<1>7. CASE TaskWaits(ev)
  <2>1. \E event \in Timeouts : WaitsFor(event, ev)
    BY <1>7 DEF TaskWaits, Timeouts
  <2>2. "CONNECTED" \notin ev /\ "DISCONNECTED" \notin ev
    BY <2>1 DEF WaitsFor, Delivered, Desired, Timeouts
  <2>3. /\ connCbSent' = connCbSent /\ isconnected' = isconnected
        /\ \/ eStatus' = "MQTT_DISCONNECTING" /\ session' = "None"
           \/ eStatus' = eStatus /\ session' = session
    BY <2>1 DEF WaitsFor, NetDisconnect
  <2> QED
    BY <2>2, <2>3
<1>8. CASE TaskConnected(ev)
  BY <1>8 DEF TaskConnected, TaskIn, CloseSession, NetDisconnect, Sends, Delivered, Desired
<1>9. CASE TaskDisconnecting(ev)
  BY <1>9 DEF TaskDisconnecting, TaskIn, clientVars, netVars
<1>10. CASE TaskIdle(ev)
  BY <1>10 DEF TaskIdle, TaskIn, clientVars, netVars
<1> QED
  BY <1>1, <1>2, <1>3, <1>4, <1>6, <1>7, <1>8, <1>9, <1>10 DEF Task

\* Every step of the task, the network and the clock keeps the
\* application, the service and the client in agreement.
LEMMA AppStep == TypeOK /\ AppInv /\ [Next]_vars => AppInv'
<1> SUFFICES ASSUME TypeOK, AppInv, [Next]_vars PROVE AppInv'
  OBVIOUS
<1>0. isconnected \in BOOLEAN /\ connCbSent \in BOOLEAN /\ MQTTConnected \in BOOLEAN
  BY DEF TypeOK, SvcTypeOK, StatusTypeOK, ClientTypeOK
<1> USE <1>0 DEF AppInv, AppViewAgrees, StatusFollows, BeginsAfterEnd, QueuedIsConnected,
        appVars
<1>1. CASE AppPublishes
  BY <1>1 DEF AppPublishes, AppIn, MayPublish, SendMsg, Sends, GiveUp, CloseSession,
     NetDisconnect, clientVars, netVars
<1>2. CASE AppSkips
  BY <1>2 DEF AppSkips, clientVars, netVars
<1>3. CASE NetStep
  <2>1. CASE NetReportsConnected
    BY <1>3, <2>1 DEF NetStep, NetReportsConnected, Net!ReportConnected, clientVars
  <2>2. CASE NetNoticesLoss
    BY <1>3, <2>2 DEF NetStep, NetNoticesLoss, Net!End, clientVars, svcVars
  <2>3. CASE NetReportsDisconnected
    BY <1>3, <2>3 DEF NetStep, NetReportsDisconnected, Net!ReportDisconnected,
       StatusAfterLoss, clientVars
  <2>4. CASE NetQuiet
    BY <1>3, <2>4 DEF NetStep, NetQuiet, clientVars, netVars
  <2> QED
    BY <1>3, <2>1, <2>2, <2>3, <2>4 DEF NetStep, NetTask
<1>4. CASE MqttStep
  BY <1>4, AppMqttStep DEF MqttStep
<1>5. CASE MqttHangs
  BY <1>5 DEF MqttHangs, MqttCallback, svcVars, Delivered, Desired
<1>6. CASE Tick
  BY <1>6 DEF Tick, mqttVars, svcVars, clientVars, netVars
<1>7. CASE Broker
  BY <1>7 DEF Broker, BrokerTakes, svcVars, clientVars
<1>8. CASE Connecting
  BY <1>8 DEF Connecting, NetComesUp, svcVars, clientVars
<1>9. CASE Expires \/ Quiets
  BY <1>9 DEF Expires, Quiets, TimerExpires, QuietMinute, svcVars, clientVars, netVars
<1>10. CASE Disturbance
  <2>1. CASE NetAttemptFails
    BY <1>10, <2>1 DEF Disturbance, NetAttemptFails, StatusAfterLoss, clientVars, netVars
  <2>2. CASE \/ BrokerRefuses
             \/ \E v \in Desired : BrokerSends(v)
             \/ \E how \in {"Mute", "Dead"} : ConnectionLost(how)
    BY <1>10, <2>2 DEF Disturbance, BrokerRefuses, BrokerSends, ConnectionLost,
       svcVars, clientVars
  <2> QED
    BY <1>10, <2>1, <2>2 DEF Disturbance
<1>11. CASE UNCHANGED vars
  BY <1>11 DEF vars, mqttVars, svcVars, clientVars, netVars
<1> QED
  BY <1>1, <1>2, <1>3, <1>4, <1>5, <1>6, <1>7, <1>8, <1>9, <1>10, <1>11
     DEF Next, AppTask

\* Sending a message keeps the types of the service.
LEMMA SendMsgType ==
    ASSUME SvcTypeOK, NEW p \in Up, SendMsg(p),
           turn' \in {"App", "Net", "Mqtt"}, UNCHANGED connCbSent
    PROVE  StatusTypeOK' /\ ClientTypeOK' /\ NetTypeOK'
<1> USE DEF SvcTypeOK, StatusTypeOK, ClientTypeOK, Statuses, Waits, clientVars
<1>1. CASE eStatus # "MQTT_CONNECTED" /\ UNCHANGED <<eStatus, timer, clientVars, netVars>>
  BY <1>1 DEF netVars, NetTypeOK
<1>2. CASE /\ Sends(p) /\ timer' = "Running"
           /\ eStatus' = "WAIT_FOR_MQTT_PUBACK"
           /\ UNCHANGED <<isconnected, ping, handlers, session, wire, down, subs>>
  BY <1>2, SendsType
<1>3. CASE GiveUp /\ UNCHANGED <<timer, quiet>>
  BY <1>3, GiveUpType
<1> QED
  BY <1>1, <1>2, <1>3 DEF SendMsg

\* The network, the broker and the clock keep the types of the service.
LEMMA EnvironmentType ==
    ASSUME SvcTypeOK,
           \/ NetTask \/ NetComesUp \/ NetAttemptFails \/ BrokerTakes \/ BrokerRefuses
           \/ \E v \in Desired : BrokerSends(v)
           \/ \E how \in {"Mute", "Dead"} : ConnectionLost(how)
           \/ TimerExpires \/ QuietMinute
    PROVE  SvcTypeOK'
<1> USE DEF SvcTypeOK, StatusTypeOK, ClientTypeOK, NetTypeOK, BoundsTypeOK, Statuses, Waits,
        svcVars, clientVars, netVars, bounds
<1>0. ASSUME Trouble PROVE trouble' \in Nat /\ desired' \in Nat
  BY <1>0 DEF Trouble
<1>1. CASE NetTask
  <2>1. CASE NetReportsConnected
    BY <2>1 DEF NetReportsConnected, Net!ReportConnected
  <2>2. CASE NetNoticesLoss
    BY <2>2 DEF NetNoticesLoss, Net!End, ConnectionGone
  <2>3. CASE NetReportsDisconnected
    BY <2>3 DEF NetReportsDisconnected, Net!ReportDisconnected, StatusAfterLoss
  <2>4. CASE NetQuiet
    BY <2>4 DEF NetQuiet
  <2> QED
    BY <1>1, <2>1, <2>2, <2>3, <2>4 DEF NetTask
<1>2. CASE NetComesUp
  BY <1>2 DEF NetComesUp, Net!Begin
<1>3. CASE NetAttemptFails
  BY <1>0, <1>3 DEF NetAttemptFails, StatusAfterLoss
<1>4. CASE BrokerTakes
  <2>1. Head(up) \in Up /\ Tail(up) \in Seq(Up)
    BY <1>4 DEF BrokerTakes
  <2>2. BrokerAnswer(Head(up)) \in Seq(Down)
    <3>1. \A p \in DOMAIN Answers : Answers[p] \in Down
      BY DEF Answers, Down
    <3>2. BrokerAnswer(Head(up)) = <<>> \/ \E d \in Down : BrokerAnswer(Head(up)) = <<d>>
      BY <3>1 DEF BrokerAnswer
    <3> QED
      BY <3>2, ShortSeq, Zenon
  <2>3. up' \in Seq(Up) /\ down' \in Seq(Down)
    BY <1>4, <2>1, <2>2 DEF BrokerTakes
  <2>4. subs' \subseteq {Delta} /\ shadow' \in Desired \cup {"None"}
    BY <1>4 DEF BrokerTakes
  <2> QED
    BY <1>4, <2>3, <2>4 DEF BrokerTakes
<1>5. CASE BrokerRefuses
  <2>1. up' \in Seq(Up) /\ down' \in Seq(Down)
    BY <1>5 DEF BrokerRefuses, Down
  <2> QED
    BY <1>0, <1>5, <2>1 DEF BrokerRefuses
<1>6. CASE \E v \in Desired : BrokerSends(v)
  <2>1. down' \in Seq(Down) /\ desired' \in Nat
    BY <1>6 DEF BrokerSends, Down
  <2> QED
    BY <1>6, <2>1 DEF BrokerSends
<1>7. CASE \E how \in {"Mute", "Dead"} : ConnectionLost(how)
  <2>1. up' = <<>> /\ wire' \in {"Good", "Mute", "Dead"}
    BY <1>7 DEF ConnectionLost
  <2>3. down' = <<>> \/ down' = down
    BY <1>7, Zenon DEF ConnectionLost
  <2>2. down' \in Seq(Down) /\ up' \in Seq(Up)
    <3>1. up \in Seq(Up) /\ down \in Seq(Down)
      OBVIOUS
    <3> QED
      BY <2>1, <2>3, <3>1, ShortSeq, Zenon
  <2> QED
    BY <1>0, <1>7, <2>1, <2>2 DEF ConnectionLost
<1>8. CASE TimerExpires
  BY <1>0, <1>8 DEF TimerExpires
<1>9. CASE QuietMinute
  BY <1>9 DEF QuietMinute
<1> QED
  BY <1>1, <1>2, <1>3, <1>4, <1>5, <1>6, <1>7, <1>8, <1>9

\* Every step keeps the types, and the count of timeouts within its bound.
LEMMA TypeStep == TypeOK /\ ErrorsBounded /\ [Next]_vars => TypeOK' /\ ErrorsBounded'
<1> SUFFICES ASSUME TypeOK, ErrorsBounded, [Next]_vars PROVE TypeOK' /\ ErrorsBounded'
  OBVIOUS
<1>0. MaxErrors \in Nat
  BY MqttAppAssumption
<1>0a. SvcTypeOK
  BY DEF TypeOK
<1>a. ASSUME SvcTypeOK', UNCHANGED <<appVars, halted>>, taken' \in BOOLEAN
      PROVE  TypeOK' /\ ErrorsBounded'
  BY <1>a DEF appVars, TypeOK, ErrorsBounded
<1>a0. taken \in BOOLEAN
  BY DEF TypeOK
<1>1. CASE AppPublishes
  <2>1. Message \in Up
    BY DEF Message, TypeOK, Up
  <2>2. turn' = "Net" /\ SendMsg(Message) /\ UNCHANGED connCbSent
    BY <1>1 DEF AppPublishes, AppIn
  <2>3. StatusTypeOK' /\ ClientTypeOK' /\ NetTypeOK'
    BY <1>0a, <2>1, <2>2, SendMsgType
  <2>4. BoundsTypeOK'
    BY <1>1, <1>0a DEF AppPublishes, SvcTypeOK, BoundsTypeOK, bounds
  <2>5. /\ pubFlag' \in BOOLEAN /\ shadowUpdate' \in BOOLEAN /\ MQTTPubQueued' \in BOOLEAN
        /\ taken' \in BOOLEAN
    BY <1>1, <1>a0 DEF AppPublishes
  <2>6. UNCHANGED <<MQTTConnected, led, errorCount, halted>>
    BY <1>1 DEF AppPublishes
  <2> QED
    BY <2>3, <2>4, <2>5, <2>6 DEF TypeOK, SvcTypeOK, ErrorsBounded
<1>2. CASE AppSkips
  <2>1. SvcTypeOK'
    BY <1>2, <1>0a DEF AppSkips, AppIn, SvcTypeOK, StatusTypeOK, ClientTypeOK, NetTypeOK,
       BoundsTypeOK, clientVars, netVars, bounds
  <2> QED
    BY <1>2, <2>1 DEF AppSkips, TypeOK, ErrorsBounded
<1>3. CASE NetStep
  BY <1>3, <1>0a, <1>a, <1>a0, EnvironmentType DEF NetStep
<1>4. CASE MqttStep
  <2>1. PICK ev \in Calls : Task(ev) /\ ~GivesUp(ev) /\ MqttCallback(ev)
    BY <1>4 DEF MqttStep
  <2>2. SvcTypeOK'
    BY <1>0a, <2>1, SvcTaskType
  <2>3. errorCount \in Nat /\ ~halted /\ errorCount <= MaxErrors
    BY <1>0, <1>4 DEF MqttStep, TypeOK, ErrorsBounded
  <2>4. errorCount' \in 0 .. MaxErrors
    <3>1. CASE "PUBACK_TO" \in ev
      <4>1. errorCount < MaxErrors
        BY <1>0, <2>1, <2>3, <3>1 DEF GivesUp
      <4>2. errorCount' \in {0, errorCount, errorCount + 1}
        BY <2>1, CallbackType
      <4> QED
        BY <1>0, <2>3, <4>1, <4>2
    <3>2. CASE "PUBACK_TO" \notin ev
      <4>1. errorCount' \in {0, errorCount}
        BY <2>1, <3>2, CallbackType
      <4> QED
        BY <1>0, <2>3, <4>1
    <3> QED
      BY <3>1, <3>2
  <2>5. UNCHANGED <<halted, taken>>
    BY <1>4 DEF MqttStep
  <2>6. /\ MQTTConnected' \in BOOLEAN /\ MQTTPubQueued' \in BOOLEAN
        /\ shadowUpdate' \in BOOLEAN /\ pubFlag' \in BOOLEAN /\ led' \in Desired
    BY <2>1, CallbackType
  <2>7. errorCount' \in 0 .. MaxErrors + 1 /\ errorCount' <= MaxErrors
    BY <1>0, <2>4
  <2> QED
    BY <2>2, <2>5, <2>6, <2>7 DEF TypeOK, ErrorsBounded
<1>5. CASE MqttHangs
  <2>1. Delivered \cup {"PUBACK_TO"} \in Calls
    BY DEF Delivered, Incoming, Calls, Events, Timeouts, Desired
  <2>2. MqttCallback(Delivered \cup {"PUBACK_TO"})
    BY <1>5 DEF MqttHangs
  <2>3. /\ MQTTConnected' \in BOOLEAN /\ MQTTPubQueued' \in BOOLEAN
        /\ shadowUpdate' \in BOOLEAN /\ pubFlag' \in BOOLEAN /\ led' \in Desired
        /\ errorCount' \in {0, errorCount, errorCount + 1}
    BY <2>1, <2>2, CallbackType
  <2>4. errorCount \in Nat /\ errorCount <= MaxErrors
    BY <1>0, <1>5 DEF MqttHangs, TypeOK, ErrorsBounded
  <2>5. errorCount' \in 0 .. MaxErrors + 1
    BY <1>0, <2>3, <2>4
  <2>6. NetTypeOK' /\ ping' \in BOOLEAN /\ quiet' \in BOOLEAN
    BY <1>5, <1>0a, CycledType DEF MqttHangs, SvcTypeOK
  <2>7. SvcTypeOK'
    BY <1>5, <1>0a, <2>6 DEF MqttHangs, SvcTypeOK, StatusTypeOK, ClientTypeOK,
       BoundsTypeOK, svcVars, bounds
  <2>8. halted' = TRUE /\ UNCHANGED taken
    BY <1>5 DEF MqttHangs
  <2> QED
    BY <1>a0, <2>3, <2>5, <2>7, <2>8 DEF TypeOK, ErrorsBounded
<1>6. CASE Tick
  <2>1. SvcTypeOK'
    BY <1>6, <1>0a DEF Tick, SvcTypeOK, StatusTypeOK, ClientTypeOK, NetTypeOK,
       BoundsTypeOK, mqttVars, svcVars, clientVars, netVars, bounds
  <2> QED
    BY <1>6, <2>1 DEF Tick, TypeOK, ErrorsBounded
<1>7. CASE Broker
  <2>1. SvcTypeOK'
    BY <1>7, <1>0a, EnvironmentType DEF Broker
  <2>2. taken' \in BOOLEAN /\ UNCHANGED <<appVars, halted>>
    BY <1>7, <1>a0 DEF Broker
  <2> QED
    BY <1>a, <2>1, <2>2
<1>8. CASE Connecting
  BY <1>8, <1>0a, <1>a, <1>a0, EnvironmentType DEF Connecting
<1>9. CASE Expires \/ Quiets
  BY <1>9, <1>0a, <1>a, <1>a0, EnvironmentType DEF Expires, Quiets
<1>10. CASE Disturbance
  <2>1. SvcTypeOK'
    BY <1>10, <1>0a, EnvironmentType DEF Disturbance
  <2> QED
    BY <1>10, <1>a, <1>a0, <2>1 DEF Disturbance
<1>11. CASE UNCHANGED vars
  <2>1. SvcTypeOK'
    BY <1>11, <1>0a DEF vars, SvcTypeOK, StatusTypeOK, ClientTypeOK, NetTypeOK,
       BoundsTypeOK, mqttVars, svcVars, clientVars, netVars, bounds
  <2> QED
    BY <1>11, <1>a, <1>a0, <2>1 DEF vars
<1> QED
  BY <1>1, <1>2, <1>3, <1>4, <1>5, <1>6, <1>7, <1>8, <1>9, <1>10, <1>11
     DEF Next, AppTask

\* The variables keep their types, whatever the bounds and the trouble, and the count of PUBACK timeouts never passes MaxErrors + 1.
THEOREM TypeCorrect == Spec => []TypeOK
  BY TypeInit, TypeStep, PTL DEF Spec

\* The application believes in a connection exactly while the service has reported
\* one, over every loss, refusal and timeout, as long as the console is not used.
THEOREM AppViewAlwaysAgrees == Spec => []AppViewAgrees
<1>1. AppInv => AppViewAgrees
  BY DEF AppInv
<1> QED
  BY <1>1, AppInit, AppStep, TypeCorrect, PTL DEF Spec

-----------------------------------------------------------------------------
(* The publish in progress                                                   *)

\* What a step of the service does to the publish in progress.
LEMMA AloneMqttStep ==
    ASSUME TypeOK, AppInv, AloneInv, NEW ev \in Calls, Task(ev), MqttCallback(ev)
    PROVE  AloneInv'
<1>0. isconnected \in BOOLEAN /\ connCbSent \in BOOLEAN /\ MQTTConnected \in BOOLEAN
  BY DEF TypeOK, SvcTypeOK, StatusTypeOK, ClientTypeOK
<1>a. MQTTPubQueued' => MQTTPubQueued /\ MQTTConnected
  BY DEF MqttCallback, AppInv, QueuedIsConnected
<1> USE <1>0, <1>a DEF AppInv, AppViewAgrees, QueuedIsConnected, AloneInv, QueuedIsWaiting
<1>1. CASE TaskLowerLayerDown(ev)
  BY <1>1 DEF TaskLowerLayerDown, TaskIn
<1>2. CASE TaskSockConnected(ev)
  BY <1>2 DEF TaskSockConnected, TaskIn
<1>3. CASE TaskConack(ev)
  <2>1. ~MQTTConnected /\ ~MQTTPubQueued'
    BY <1>3 DEF TaskConack, TaskIn
  <2>2. eStatus' \in {"WAIT_FOR_MQTT_SUBACK", "MQTT_DISCONNECTING"}
    BY <1>3 DEF TaskConack, GiveUp
  <2>3. ~MQTTConnected'
    BY <1>3, <2>1 DEF TaskConack, MqttCallback
  <2> QED
    BY <2>1, <2>2, <2>3
<1>4. CASE TaskSuback(ev)
  BY <1>4 DEF TaskSuback, TaskIn
<1>6. CASE TaskPuback(ev)
  BY <1>6 DEF TaskPuback, TaskIn, MqttCallback
<1>7. CASE TaskWaits(ev)
  <2>1. \E event \in Timeouts : WaitsFor(event, ev)
    BY <1>7 DEF TaskWaits, Timeouts
  <2>2. eStatus' \in {eStatus, "MQTT_DISCONNECTING"}
    BY <2>1 DEF WaitsFor
  <2>3. MQTTConnected' = (MQTTConnected /\ "DISCONNECTED" \notin ev)
    BY <2>1 DEF WaitsFor, MqttCallback, Delivered, Desired, Timeouts
  <2> QED
    BY <2>2, <2>3
<1>8. CASE TaskConnected(ev)
  <2>1. eStatus = "MQTT_CONNECTED" /\ eStatus' \in {eStatus, "MQTT_DISCONNECTING"}
    BY <1>8 DEF TaskConnected, TaskIn
  <2> QED
    BY <2>1
<1>9. CASE TaskDisconnecting(ev)
  BY <1>9 DEF TaskDisconnecting, TaskIn, MqttCallback
<1>10. CASE TaskIdle(ev)
  BY <1>10 DEF TaskIdle, TaskIn
<1> QED
  BY <1>1, <1>2, <1>3, <1>4, <1>6, <1>7, <1>8, <1>9, <1>10 DEF Task

\* Every step keeps the wait of the application and the wait of the service together.
LEMMA AloneStep == TypeOK /\ AppInv /\ AloneInv /\ [Next]_vars => AloneInv'
<1> SUFFICES ASSUME TypeOK, AppInv, AloneInv, [Next]_vars PROVE AloneInv'
  OBVIOUS
<1> USE DEF AloneInv, QueuedIsWaiting, appVars
<1>1. CASE AppPublishes
  <2>1. MQTTConnected /\ ~MQTTPubQueued /\ UNCHANGED MQTTConnected
    BY <1>1 DEF AppPublishes, MayPublish
  <2>2. eStatus \in {"MQTT_CONNECTED", "WAIT_FOR_MQTT_PUBACK", "MQTT_DISCONNECTING"}
    BY <2>1 DEF AppInv, AppViewAgrees
  <2>3. eStatus' \in {"WAIT_FOR_MQTT_PUBACK", "MQTT_DISCONNECTING"}
    BY <1>1, <2>2 DEF AppPublishes, SendMsg, GiveUp
  <2> QED
    BY <2>1, <2>3
<1>2. CASE AppSkips
  BY <1>2 DEF AppSkips
<1>3. CASE NetStep
  <2>1. CASE NetReportsConnected
    <3>1. ~MQTTConnected
      BY <2>1 DEF NetReportsConnected, Net!ReportConnected, AppInv, BeginsAfterEnd, AppViewAgrees
    <3> QED
      BY <1>3, <2>1, <3>1 DEF NetStep, NetReportsConnected
  <2>2. CASE NetNoticesLoss
    BY <1>3, <2>2 DEF NetStep, NetNoticesLoss, svcVars
  <2>3. CASE NetReportsDisconnected
    BY <1>3, <2>3 DEF NetStep, NetReportsDisconnected, StatusAfterLoss
  <2>4. CASE NetQuiet
    BY <1>3, <2>4 DEF NetStep, NetQuiet
  <2> QED
    BY <1>3, <2>1, <2>2, <2>3, <2>4 DEF NetStep, NetTask
<1>4. CASE MqttStep
  BY <1>4, AloneMqttStep DEF MqttStep
<1>5. CASE MqttHangs
  BY <1>5 DEF MqttHangs, svcVars
<1>6. CASE Tick
  BY <1>6 DEF Tick, mqttVars, svcVars
<1>7. CASE Broker
  BY <1>7 DEF Broker, BrokerTakes, svcVars
<1>8. CASE Connecting
  BY <1>8 DEF Connecting, NetComesUp, svcVars
<1>9. CASE Expires \/ Quiets
  BY <1>9 DEF Expires, Quiets, TimerExpires, QuietMinute, svcVars
<1>10. CASE Disturbance
  <2>2. CASE NetAttemptFails
    BY <1>10, <2>2 DEF Disturbance, NetAttemptFails, StatusAfterLoss
  <2>3. CASE \/ BrokerRefuses
             \/ \E v \in Desired : BrokerSends(v)
             \/ \E how \in {"Mute", "Dead"} : ConnectionLost(how)
    BY <1>10, <2>3 DEF Disturbance, BrokerRefuses, BrokerSends, ConnectionLost, svcVars
  <2> QED
    BY <1>10, <2>2, <2>3 DEF Disturbance
<1>11. CASE UNCHANGED vars
  BY <1>11 DEF vars, mqttVars, svcVars
<1> QED
  BY <1>1, <1>2, <1>3, <1>4, <1>5, <1>6, <1>7, <1>8, <1>9, <1>10, <1>11
     DEF Next, AppTask

\* A publish that the application waits for is one whose end the service is still
\* to report, as long as the console is not used.
THEOREM QueuedAlwaysWaiting == Spec => []QueuedIsWaiting
<1>1. Init => AloneInv
  BY DEF Init, SvcInit, AloneInv, QueuedIsWaiting
<1>2. AloneInv => QueuedIsWaiting
  BY DEF AloneInv
<1>3. TypeOK /\ AppInv /\ AloneInv /\ [Next]_vars => AloneInv'
  BY AloneStep
<1> QED
  BY <1>1, <1>2, <1>3, AppInit, AppStep, TypeCorrect, PTL DEF Spec

-----------------------------------------------------------------------------
(* The waits for an answer                                                   *)

\* A step of the service ends a wait or leaves its timer on.
LEMMA TimedTask ==
    ASSUME WaitsAreTimed, NEW ev, Task(ev)
    PROVE  WaitsAreTimed'
<1> USE DEF WaitsAreTimed, Waits
<1>1. CASE TaskLowerLayerDown(ev) \/ TaskSockConnected(ev)
  BY <1>1 DEF TaskLowerLayerDown, TaskSockConnected, TaskIn
<1>2. CASE TaskConack(ev)
  BY <1>2 DEF TaskConack, TaskIn, GiveUp
<1>3. CASE TaskSuback(ev) \/ TaskPuback(ev)
  BY <1>3 DEF TaskSuback, TaskPuback
<1>4. CASE TaskWaits(ev)
  BY <1>4 DEF TaskWaits, WaitsFor
<1>5. CASE TaskConnected(ev)
  BY <1>5 DEF TaskConnected, TaskIn
<1>6. CASE TaskDisconnecting(ev) \/ TaskIdle(ev)
  BY <1>6 DEF TaskDisconnecting, TaskIdle, TaskIn
<1> QED
  BY <1>1, <1>2, <1>3, <1>4, <1>5, <1>6 DEF Task

\* A message that is sent starts the timer.
LEMMA TimedSend ==
    ASSUME WaitsAreTimed, NEW p, SendMsg(p)
    PROVE  WaitsAreTimed'
  BY DEF WaitsAreTimed, Waits, SendMsg, GiveUp

\* Nobody but the service stops the timer of a wait.
LEMMA TimedStep == WaitsAreTimed /\ [Next]_vars => WaitsAreTimed'
<1> SUFFICES ASSUME WaitsAreTimed, [Next]_vars PROVE WaitsAreTimed'
  OBVIOUS
<1>1. CASE AppPublishes
  BY <1>1, TimedSend DEF AppPublishes
<1>2. CASE AppSkips
  BY <1>2 DEF AppSkips, WaitsAreTimed
<1>3. CASE NetStep
  BY <1>3 DEF NetStep, NetTask, NetReportsConnected, NetNoticesLoss,
     NetReportsDisconnected, NetQuiet, StatusAfterLoss, svcVars, WaitsAreTimed, Waits
<1>4. CASE MqttStep
  BY <1>4, TimedTask DEF MqttStep
<1>5. CASE MqttHangs \/ Tick \/ Broker \/ Connecting
  BY <1>5 DEF MqttHangs, Tick, Broker, BrokerTakes, Connecting, NetComesUp, mqttVars,
     svcVars, WaitsAreTimed
<1>6. CASE Expires \/ Quiets
  BY <1>6 DEF Expires, Quiets, TimerExpires, QuietMinute, svcVars, WaitsAreTimed
<1>7. CASE Disturbance
  <2>1. CASE NetAttemptFails
    BY <2>1 DEF NetAttemptFails, StatusAfterLoss, WaitsAreTimed, Waits
  <2>2. CASE \/ BrokerRefuses
             \/ \E v \in Desired : BrokerSends(v)
             \/ \E how \in {"Mute", "Dead"} : ConnectionLost(how)
    BY <2>2 DEF BrokerRefuses, BrokerSends, ConnectionLost, svcVars, WaitsAreTimed
  <2> QED
    BY <1>7, <2>1, <2>2 DEF Disturbance
<1>8. CASE UNCHANGED vars
  BY <1>8 DEF vars, mqttVars, svcVars, WaitsAreTimed
<1> QED
  BY <1>1, <1>2, <1>3, <1>4, <1>5, <1>6, <1>7, <1>8 DEF Next, AppTask

\* In every wait for an answer that the MQTT_APP task began the 5 second timer is on.
THEOREM WaitsAlwaysTimed == Spec => []WaitsAreTimed
<1>1. Init => WaitsAreTimed
  BY DEF Init, SvcInit, WaitsAreTimed, Waits
<1> QED
  BY <1>1, TimedStep, PTL DEF Spec

\* A call of SYS_MQTT_Paho_Task that finds the timer of a wait expired leaves the wait.
LEMMA ExpiredTask ==
    ASSUME eStatus \in Waits, timer = "Expired", NEW ev, Task(ev)
    PROVE  eStatus' # eStatus
<1> USE DEF Waits
<1>1. CASE TaskConack(ev)
  BY <1>1 DEF TaskConack, TaskIn, GiveUp
<1>2. CASE TaskSuback(ev) \/ TaskPuback(ev)
  BY <1>2 DEF TaskSuback, TaskPuback, TaskIn
<1>3. CASE TaskWaits(ev)
  BY <1>3 DEF TaskWaits, WaitsFor
<1> QED
  BY <1>1, <1>2, <1>3 DEF Task, TaskLowerLayerDown, TaskSockConnected, TaskConnected,
     TaskDisconnecting, TaskIdle, TaskIn

\* The service's first call after the expiry ends the wait. With WaitsAlwaysTimed, and
\* if the timer and the task go on, no wait lasts for ever.
THEOREM ExpiryAlwaysEndsWait == Spec => ExpiryEndsWait
<1>1. ASSUME [Next]_vars, eStatus \in Waits, timer = "Expired",
             turn = "Mqtt", turn' = "App"
      PROVE  eStatus' # eStatus
  <2>1. MqttStep
    BY <1>1 DEF Next, AppTask, AppPublishes, AppSkips, AppIn, MqttHangs, Tick, Broker,
       BrokerTakes, Connecting, NetComesUp, Expires, TimerExpires, Quiets, QuietMinute,
       NetStep, NetTask, NetReportsConnected, NetNoticesLoss, NetReportsDisconnected,
       NetQuiet, Disturbance, NetAttemptFails, BrokerRefuses, BrokerSends,
       ConnectionLost, vars, mqttVars, svcVars
  <2> QED
    BY <1>1, <2>1, ExpiredTask DEF MqttStep
<1> QED
  BY <1>1, PTL DEF Spec, ExpiryEndsWait
=============================================================================
