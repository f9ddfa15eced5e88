------------------------------- MODULE SysMqtt -------------------------------
(***************************************************************************)
(* The MQTT service (system/mqtt/src/sys_mqtt_paho.c) and the Paho client  *)
(* under it (MQTTClient.c), above the sessions that SYS_NET implements     *)
(* (NetSession), with the TCP connection and the broker as environment.    *)
(*                                                                         *)
(* The MQTT_APP task calls, in a loop, publishMessage of the application   *)
(* (turn "App"), SYS_NET_Task (turn "Net") and the switch of               *)
(* SYS_MQTT_Paho_Task (turn "Mqtt"). The service tells its user what       *)
(* happened by calling callback_fn: an action with the parameter ev makes  *)
(* the calls ev, which the module of the user interprets.                  *)
(*                                                                         *)
(* The console is not used here, so nobody but the MQTT_APP task touches   *)
(* this state and one call by it is one step. MqttConsole has the console. *)
(***************************************************************************)
EXTENDS Naturals, Sequences, FiniteSets

CONSTANTS
    Delta,        \* the shadow delta topic, sSubscribeConfig[0] of the application
    MaxTrouble,   \* bound: how many times the environment makes trouble
    MaxDesired    \* bound: how many deltas the broker sends

ASSUME SysMqttAssumption == MaxTrouble \in Nat /\ MaxDesired \in Nat

VARIABLES
    turn,         \* what the MQTT_APP task calls next
    eStatus,      \* hdl->eStatus
    timer,        \* hdl->timerInfo, the 5 second timer
    connCbSent,   \* the static connCbSent of SYS_MQTT_Paho_Task
    isconnected, ping, handlers,  \* of the Paho client
    quiet,        \* keepAliveInterval passed with nothing sent or received
    session,      \* of NetSession
    wire,         \* the TCP connection: "Good", "Mute" (the peer is gone), "Dead"
    up, down,     \* packets on their way to the broker and to the client
    subs,         \* the broker: topics the client is subscribed to
    shadow,       \* the broker: reported state of the device shadow
    trouble, desired  \* what is left of the bounds

svcVars == <<turn, eStatus, timer, connCbSent>>
clientVars == <<isconnected, ping, handlers, quiet>>
netVars == <<session, wire, up, down, subs>>
bounds == <<trouble, desired>>
mqttVars == <<svcVars, clientVars, netVars, shadow, bounds>>

Waits == {"WAIT_FOR_MQTT_CONACK", "WAIT_FOR_MQTT_SUBACK", "WAIT_FOR_MQTT_PUBACK"}
Statuses == Waits \cup
    {"LOWER_LAYER_DOWN", "SOCK_CLIENT_CONNECTING", "SOCK_CONNECTED",
     "MQTT_CONNECTED", "MQTT_DISCONNECTING", "MQTT_DISCONNECTED"}

\* States of the LED. As a packet: a delta message (down), a report (up).
Desired == {"On", "Off"}
Up == {"CONNECT", "SUBSCRIBE", "PUBLISH", "PUBACK", "PINGREQ"} \cup Desired
Down == {"CONNACK", "SUBACK", "PUBACK", "PINGRESP", "REFUSED"} \cup Desired

Timeouts == {"CONNACK_TO", "SUBACK_TO", "PUBACK_TO"}
Events == {"CONNECTED", "DISCONNECTED", "SUBSCRIBED", "PUBLISHED"} \cup Timeouts \cup Desired

\* The sets of calls that one call of SYS_MQTT_Paho_Task can make.
Calls ==
    {{}} \cup {{e} : e \in Events} \cup {{v, e} : v \in Desired, e \in Timeouts}
    \cup {{"CONNECTED", "SUBSCRIBED"}}

StatusTypeOK ==
    /\ turn \in {"App", "Net", "Mqtt"}
    /\ eStatus \in Statuses
    /\ timer \in {"Off", "Running", "Expired"}
    /\ connCbSent \in BOOLEAN

ClientTypeOK ==
    /\ isconnected \in BOOLEAN /\ ping \in BOOLEAN /\ quiet \in BOOLEAN
    /\ handlers \subseteq {Delta}

NetTypeOK ==
    /\ session \in {"None", "Ready", "Reported", "Ended"}
    /\ wire \in {"Good", "Mute", "Dead"}
    /\ up \in Seq(Up) /\ down \in Seq(Down)
    /\ subs \subseteq {Delta}

BoundsTypeOK ==
    /\ shadow \in Desired \cup {"None"}
    /\ trouble \in Nat /\ desired \in Nat

SvcTypeOK == StatusTypeOK /\ ClientTypeOK /\ NetTypeOK /\ BoundsTypeOK

SvcInit ==
    /\ turn = "App" /\ eStatus = "LOWER_LAYER_DOWN" /\ timer = "Off"
    /\ connCbSent = FALSE
    /\ isconnected = FALSE /\ ping = FALSE /\ handlers = {} /\ quiet = FALSE
    /\ session = "None" /\ wire = "Dead" /\ up = <<>> /\ down = <<>> /\ subs = {}
    /\ shadow = "None"
    /\ trouble = MaxTrouble /\ desired = MaxDesired

Trouble == trouble > 0 /\ trouble' = trouble - 1 /\ UNCHANGED desired

-----------------------------------------------------------------------------
(* The network below the service *)

Net == INSTANCE NetSession

\* SYS_NET_SendMsg fails on a dead connection, and on one whose peer is gone once
\* the transmit buffer is full.
SendFails == session # "Reported" \/ wire # "Good"
Sends(p) ==
    /\ session = "Reported" /\ wire # "Dead"
    /\ up' = IF wire = "Good" THEN Append(up, p) ELSE up
    /\ quiet' = FALSE

ConnectionGone == wire' = "Dead" /\ up' = <<>> /\ down' = <<>> /\ subs' = {}

\* SYS_NET_CtrlMsg(SYS_NET_CTRL_MSG_DISCONNECT). Its callback and its caller
\* leave the status MQTT_DISCONNECTING.
NetDisconnect == session' = "None" /\ ConnectionGone

\* MQTTCloseSession, as cleanSession is set. MQTTClientInit does the same.
CloseSession ==
    isconnected' = FALSE /\ ping' = FALSE /\ handlers' = {}

\* Every failed MQTTPublish and MQTTSubscribe ends like this.
GiveUp ==
    /\ SendFails
    /\ CloseSession /\ NetDisconnect
    /\ eStatus' = "MQTT_DISCONNECTING"

\* SYS_NET gets a connection. That takes more than one call of SYS_NET_Task after
\* the end of the last one, so the switch has reported that end by then.
NetComesUp ==
    /\ turn = "Net"
    /\ eStatus \in {"SOCK_CLIENT_CONNECTING", "MQTT_DISCONNECTED"}
    /\ Net!Begin /\ wire' = "Good"
    /\ UNCHANGED <<svcVars, clientVars, up, down, subs, shadow, bounds>>

\* SYS_MQTT_TcpClientCallback with SYS_NET_EVNT_CONNECTED (autoConnect is set).
NetReportsConnected ==
    /\ turn = "Net"
    /\ Net!ReportConnected
    /\ eStatus' = "SOCK_CONNECTED" /\ turn' = "Mqtt"
    /\ UNCHANGED <<timer, connCbSent,
                   clientVars, wire, up, down, subs, shadow, bounds>>

NetNoticesLoss ==
    /\ turn = "Net"
    /\ wire = "Dead"
    /\ Net!End /\ ConnectionGone
    /\ UNCHANGED <<svcVars, clientVars, shadow, bounds>>

\* The statuses in which SYS_NET_EVNT_DISCONNECTED and the events of a failed
\* attempt leave eStatus alone, and the status they set otherwise.
StatusAfterLoss == IF eStatus = "MQTT_DISCONNECTED" THEN eStatus ELSE "MQTT_DISCONNECTING"

NetReportsDisconnected ==
    /\ turn = "Net"
    /\ Net!ReportDisconnected
    /\ eStatus' = StatusAfterLoss /\ turn' = "Mqtt"
    /\ UNCHANGED <<timer, connCbSent,
                   clientVars, wire, up, down, subs, shadow, bounds>>

\* SSL_FAILED, DNS_RESOLVE_FAILED or SOCK_OPEN_FAILED: no session begins.
NetAttemptFails ==
    /\ turn = "Net"
    /\ session = "None" /\ eStatus # "LOWER_LAYER_DOWN"
    /\ eStatus' = StatusAfterLoss /\ turn' = "Mqtt"
    /\ Trouble
    /\ UNCHANGED <<timer, connCbSent,
                   clientVars, netVars, shadow>>

\* SYS_NET_Task has nothing to report.
NetQuiet ==
    /\ turn = "Net"
    /\ session = "None" \/ (session = "Reported" /\ wire # "Dead")
    /\ turn' = "Mqtt"
    /\ UNCHANGED <<eStatus, timer, connCbSent,
                   clientVars, netVars, shadow, bounds>>

-----------------------------------------------------------------------------
(* Reading packets: cycle() and waitfor() of the Paho client. A call reads   *)
(* one packet; a packet it leaves in the queue has not arrived yet.          *)

CanRead == session = "Reported" /\ wire # "Dead" /\ down # <<>>
Incoming == IF CanRead THEN Head(down) ELSE "NONE"

\* deliverMessage: the handler of the topic calls callback_fn.
Delivered == IF Incoming \in Desired /\ Delta \in handlers THEN {Incoming} ELSE {}

\* A QoS 1 message is acknowledged.
Heard == ping' = (ping /\ Incoming # "PINGRESP") /\ quiet' = (quiet /\ ~CanRead)

Cycled ==
    /\ down' = IF CanRead THEN Tail(down) ELSE down
    /\ up' = IF Incoming \in Desired /\ wire = "Good" THEN Append(up, "PUBACK") ELSE up
    /\ Heard

\* Variant: a missing answer is reported, the connection is kept.
WaitsForKeeps(event, ev) ==
    /\ UNCHANGED <<connCbSent, isconnected, handlers>>
    /\ ev = Delivered \cup IF timer = "Expired" THEN {event} ELSE {}
    /\ eStatus' = IF timer = "Expired" THEN "MQTT_CONNECTED" ELSE eStatus
    /\ timer' = IF timer = "Expired" THEN "Off" ELSE timer
    /\ Cycled
    /\ UNCHANGED <<session, wire, subs>>

\* Variant: the timer is looked at only when no packet has come.
WaitsForSilence(event, ev) ==
    /\ UNCHANGED <<connCbSent, isconnected, handlers>>
    /\ IF timer = "Expired" /\ ~CanRead
         THEN /\ ev = {event} /\ timer' = "Off"
              /\ NetDisconnect /\ eStatus' = "MQTT_DISCONNECTING" /\ Heard
         ELSE /\ ev = Delivered
              /\ Cycled
              /\ UNCHANGED <<timer, eStatus, session, wire, subs>>

\* The expected packet is not there: SYS_MQTT_ProcessTimeout.
WaitsFor(event, ev) ==
    /\ UNCHANGED <<connCbSent, isconnected, handlers>>
    /\ IF timer = "Expired"
         THEN /\ ev = Delivered \cup {event}
              /\ timer' = "Off"
              /\ NetDisconnect
              /\ eStatus' = "MQTT_DISCONNECTING"
              /\ Heard
         ELSE /\ ev = Delivered
              /\ Cycled
              /\ UNCHANGED <<timer, eStatus, session, wire, subs>>

-----------------------------------------------------------------------------
(* SYS_MQTT_Paho_Task: one action per case of its switch                     *)

TaskIn(st) == turn = "Mqtt" /\ turn' = "App" /\ eStatus = st /\ UNCHANGED <<shadow, bounds>>

\* SYS_NET_Open finds a free handle and the memory for its semaphore, so the status
\* SOCK_OPEN_FAILED (line 312) is not reached.
TaskLowerLayerDown(ev) ==
    /\ TaskIn("LOWER_LAYER_DOWN") /\ ev = {}
    /\ eStatus' = "SOCK_CLIENT_CONNECTING"
    /\ UNCHANGED <<timer, connCbSent,
                   clientVars, netVars>>

\* MQTTClientInit (cleanSession is set), then MQTTConnect.
TaskSockConnected(ev) ==
    /\ TaskIn("SOCK_CONNECTED") /\ ev = {}
    /\ CloseSession
    /\ \/ /\ Sends("CONNECT")
          /\ timer' = "Running" /\ eStatus' = "WAIT_FOR_MQTT_CONACK"
          /\ UNCHANGED <<session, wire, down, subs>>
       \/ SendFails /\ NetDisconnect
          /\ eStatus' = "MQTT_DISCONNECTING" /\ UNCHANGED <<timer, quiet>>
    /\ UNCHANGED <<connCbSent>>

\* A CONNACK: subscribe to the topic of the configuration. There always is one, as
\* long as nobody unsubscribes it.
TaskConack(ev) ==
    /\ TaskIn("WAIT_FOR_MQTT_CONACK") /\ ev = {}
    /\ Incoming = "CONNACK"
    /\ \/ /\ Sends("SUBSCRIBE")
          /\ isconnected' = TRUE /\ ping' = FALSE
          /\ timer' = "Running" /\ eStatus' = "WAIT_FOR_MQTT_SUBACK"
          /\ down' = Tail(down)
          /\ UNCHANGED <<handlers, session, wire, subs>>
       \/ GiveUp /\ timer' = "Off" /\ quiet' = FALSE
    /\ UNCHANGED connCbSent

\* Variant: the QoS granted by a SUBACK is not compared with 0x80, a refusal.
TaskSubackAnyQoS(ev) ==
    /\ TaskIn("WAIT_FOR_MQTT_SUBACK")
    /\ Incoming \in {"SUBACK", "REFUSED"}
    /\ ev = {"SUBSCRIBED"} \cup IF connCbSent THEN {} ELSE {"CONNECTED"}
    /\ connCbSent' = TRUE
    /\ timer' = "Off" /\ eStatus' = "MQTT_CONNECTED"
    /\ handlers' = handlers \cup {Delta}
    /\ down' = Tail(down) /\ quiet' = FALSE
    /\ UNCHANGED <<isconnected, ping, session, wire, up, subs>>

\* A SUBACK that grants the subscription.
TaskSuback(ev) ==
    /\ TaskIn("WAIT_FOR_MQTT_SUBACK")
    /\ Incoming = "SUBACK"
    /\ ev = {"SUBSCRIBED"} \cup IF connCbSent THEN {} ELSE {"CONNECTED"}
    /\ connCbSent' = TRUE
    /\ timer' = "Off" /\ eStatus' = "MQTT_CONNECTED"
    /\ handlers' = handlers \cup {Delta}
    /\ down' = Tail(down) /\ quiet' = FALSE
    /\ UNCHANGED <<isconnected, ping, session, wire, up, subs>>

\* Any PUBACK will do: its packet identifier is not compared.
TaskPuback(ev) ==
    /\ TaskIn("WAIT_FOR_MQTT_PUBACK")
    /\ Incoming = "PUBACK"
    /\ ev = {"PUBLISHED"}
    /\ timer' = "Off" /\ eStatus' = "MQTT_CONNECTED"
    /\ down' = Tail(down) /\ quiet' = FALSE
    /\ UNCHANGED <<connCbSent, isconnected, ping, handlers, session, wire, up, subs>>

TaskWaits(ev) ==
    \/ TaskIn("WAIT_FOR_MQTT_CONACK") /\ Incoming # "CONNACK" /\ WaitsFor("CONNACK_TO", ev)
    \/ TaskIn("WAIT_FOR_MQTT_SUBACK") /\ Incoming # "SUBACK" /\ WaitsFor("SUBACK_TO", ev)
    \/ TaskIn("WAIT_FOR_MQTT_PUBACK") /\ Incoming # "PUBACK" /\ WaitsFor("PUBACK_TO", ev)

\* MQTTWaitForPublish, with keepalive() once nothing moved for keepAliveInterval.
\* It returns at once on a client that is not connected; in this status there is
\* none (AppViewAgrees).
TaskConnected(ev) ==
    /\ TaskIn("MQTT_CONNECTED")
    /\ UNCHANGED <<timer, connCbSent>>
    /\ isconnected
    /\ \/ /\ ~quiet \/ CanRead
          /\ ev = Delivered /\ Cycled
          /\ UNCHANGED <<eStatus, isconnected, handlers, session, wire, subs>>
       \/ /\ quiet /\ ~CanRead /\ ~ping /\ ev = {}
          /\ Sends("PINGREQ") /\ ping' = TRUE
          /\ UNCHANGED <<eStatus, isconnected, handlers, session, wire, down, subs>>
       \/ /\ quiet /\ ~CanRead /\ (ping \/ SendFails) /\ ev = {}
          /\ CloseSession /\ NetDisconnect   \* MQTTDisconnect
          /\ eStatus' = "MQTT_DISCONNECTING" /\ quiet' = FALSE

\* Variant: connCbSent stays set.
TaskDisconnectingKeepsCbSent(ev) ==
    /\ TaskIn("MQTT_DISCONNECTING") /\ ev = {"DISCONNECTED"}
    /\ eStatus' = "MQTT_DISCONNECTED" /\ UNCHANGED connCbSent
    /\ UNCHANGED <<timer, clientVars, netVars>>

TaskDisconnecting(ev) ==
    /\ TaskIn("MQTT_DISCONNECTING") /\ ev = {"DISCONNECTED"}
    /\ eStatus' = "MQTT_DISCONNECTED" /\ connCbSent' = FALSE
    /\ UNCHANGED <<timer, clientVars, netVars>>

TaskIdle(ev) ==
    /\ eStatus \in {"MQTT_DISCONNECTED", "SOCK_CLIENT_CONNECTING"} /\ ev = {}
    /\ TaskIn(eStatus)
    /\ UNCHANGED <<eStatus, timer, connCbSent,
                   clientVars, netVars>>

Task(ev) ==
    \/ TaskLowerLayerDown(ev) \/ TaskSockConnected(ev)
    \/ TaskConack(ev) \/ TaskSuback(ev) \/ TaskPuback(ev)
    \/ TaskWaits(ev) \/ TaskConnected(ev) \/ TaskDisconnecting(ev) \/ TaskIdle(ev)

NetTask ==
    \/ NetReportsConnected \/ NetNoticesLoss \/ NetReportsDisconnected \/ NetQuiet

-----------------------------------------------------------------------------
(* SYS_MQTT_Publish: the outcome of SYS_MQTT_Paho_SendMsg                    *)

\* Variant: the timer is not started.
SendMsgForgetsTimer(message) ==
    \/ /\ eStatus # "MQTT_CONNECTED"
       /\ UNCHANGED <<eStatus, timer, clientVars, netVars>>
    \/ /\ eStatus = "MQTT_CONNECTED" /\ isconnected
       /\ Sends(message)
       /\ eStatus' = "WAIT_FOR_MQTT_PUBACK"
       /\ UNCHANGED <<timer, isconnected, ping, handlers, session, wire, down, subs>>
    \/ eStatus = "MQTT_CONNECTED" /\ GiveUp /\ UNCHANGED <<timer, quiet>>

\* The QoS of the application's messages is 1.
SendMsg(message) ==
    \/ /\ eStatus # "MQTT_CONNECTED"
       /\ UNCHANGED <<eStatus, timer, clientVars, netVars>>
    \/ /\ eStatus = "MQTT_CONNECTED" /\ isconnected
       /\ Sends(message)
       /\ timer' = "Running" /\ eStatus' = "WAIT_FOR_MQTT_PUBACK"
       /\ UNCHANGED <<isconnected, ping, handlers, session, wire, down, subs>>
    \/ eStatus = "MQTT_CONNECTED" /\ GiveUp /\ UNCHANGED <<timer, quiet>>

-----------------------------------------------------------------------------
(* The broker, the TCP connection and the clock                              *)

Answers == [CONNECT |-> "CONNACK", SUBSCRIBE |-> "SUBACK", PINGREQ |-> "PINGRESP",
            PUBLISH |-> "PUBACK", On |-> "PUBACK", Off |-> "PUBACK"]

BrokerAnswer(p) == IF p \in DOMAIN Answers THEN <<Answers[p]>> ELSE <<>>

BrokerTakes ==
    /\ wire = "Good" /\ up # <<>>
    /\ LET p == Head(up) IN
         /\ up' = Tail(up)
         /\ down' = down \o BrokerAnswer(p)
         /\ subs' = IF p = "SUBSCRIBE" THEN subs \cup {Delta} ELSE subs
         /\ shadow' = IF p \in Desired THEN p ELSE shadow
    /\ UNCHANGED <<svcVars, clientVars, session, wire, bounds>>

\* A negative CONNACK, or a SUBACK with 0x80.
BrokerRefuses ==
    /\ wire = "Good" /\ up # <<>> /\ Head(up) \in {"CONNECT", "SUBSCRIBE"}
    /\ up' = Tail(up) /\ down' = Append(down, "REFUSED")
    /\ Trouble
    /\ UNCHANGED <<svcVars, clientVars, session, wire, subs, shadow>>

\* The shadow service wants another state of the LED.
BrokerSends(v) ==
    /\ wire = "Good" /\ Delta \in subs
    /\ desired > 0 /\ desired' = desired - 1
    /\ down' = Append(down, v)
    /\ UNCHANGED <<svcVars, clientVars, session, wire, up, subs, shadow, trouble>>

\* The connection is closed, or the peer vanishes: what was on its way is lost.
ConnectionLost(how) ==
    /\ session = "Reported" /\ wire = "Good"
    /\ wire' = how /\ up' = <<>>
    /\ down' \in IF how = "Mute" THEN {<<>>, down} ELSE {<<>>}
    /\ Trouble
    /\ UNCHANGED <<svcVars, clientVars, session, subs, shadow>>

\* 5 seconds pass. An answer that is still under way is late.
TimerExpires ==
    /\ timer = "Running" /\ timer' = "Expired"
    /\ IF (wire = "Good" /\ up # <<>>) \/ down # <<>> THEN Trouble ELSE UNCHANGED bounds
    /\ UNCHANGED <<turn, eStatus, connCbSent,
                   clientVars, netVars, shadow>>

\* keepAliveInterval passes; everything under way had time to arrive.
QuietMinute ==
    /\ eStatus = "MQTT_CONNECTED" /\ ~quiet /\ quiet' = TRUE
    /\ up = <<>> /\ down = <<>>
    /\ UNCHANGED <<svcVars, isconnected, ping, handlers, netVars, shadow, bounds>>
=============================================================================
