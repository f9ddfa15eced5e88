----------------------------- MODULE MqttConsole -----------------------------
(***************************************************************************)
(* The MQTT service and the cloud application with `sysmqtt' used at the   *)
(* console. SYS_MQTT_Paho_CtrlMsg and SYS_MQTT_Paho_SendMsg take no lock,  *)
(* and the task of the console (SYS_CMD) shares priority and time slices   *)
(* with the MQTT_APP task. So here a call is cut wherever it reads or      *)
(* writes what the other task writes: job[p] says how far the call of the  *)
(* task p has come. One call of Paho or SYS_NET is one step: what it does  *)
(* to the connection is under the semaphore of SYS_NET.                    *)
(*                                                                         *)
(* Deltas of the shadow are left out. The one message buffer g_sMqttMsg    *)
(* and the one send buffer of the client are filled in the step that sends *)
(* them, and a handler keeps the name of its topic (in the code a pointer  *)
(* to the entry, which a later subscription may reuse).                    *)
(***************************************************************************)
EXTENDS MqttApp, TLC

CONSTANTS
    CliTopic,     \* the topic that is subscribed to at the console
    NoTopic,      \* an entry of sSubscribeConfig that never held a topic
    MaxTopics,    \* SYS_MQTT_SUB_MAX_TOPICS
    Commands,     \* the commands of `sysmqtt' that are used
    MaxCommands   \* bound: how many commands are typed

ASSUME ConsoleAssumption ==
    /\ CliTopic # Delta /\ NoTopic \notin {CliTopic, Delta}
    /\ MaxTopics \in Nat \ {0} /\ MaxCommands \in Nat
    /\ Commands \subseteq {"publish", "subscribe", "unsubscribe", "close"}

VARIABLES
    text, valid,  \* topicName of each sSubscribeConfig entry; entries with entryValid
    subscribe,    \* sCfgInfo.subscribeCount # 0: subscribe to entry 0 on connect
    inProgress,   \* the entry that sPubSubCfgInProgress.topicName points to
    qos,          \* g_sMqttMsg.qos
    job,          \* the call that each task is in
    opened,       \* SYS_NET has a socket on its way to a connection
    crashed,      \* an exception: the processor loops in its handler
    commands      \* what is left of MaxCommands

callVars == <<text, valid, subscribe, inProgress, qos>>
consoleVars == <<callVars, job, opened, crashed, commands>>
allVars == <<vars, consoleVars>>

Slots == 0 .. MaxTopics - 1
Nowhere == MaxTopics   \* a NULL pointer
Topics == {Delta, CliTopic}

Where == {"Idle", "Case", "Late", "Expired", "Acknowledged", "Connected", "Tell",
          "Check", "Fill", "Send", "Timer", "Mark", "Status", "Drop", "Down",
          "Close", "Closed", "Again"}
Kinds == Statuses \cup {"none", "WAIT_FOR_MQTT_UNSUBACK", "connect", "conack",
                        "publish", "subscribe", "unsubscribe", "close"}

ConsoleTypeOK ==
    /\ turn \in {"App", "Net", "Mqtt"}
    /\ eStatus \in Statuses \cup {"WAIT_FOR_MQTT_UNSUBACK"}
    /\ handlers \cup subs \subseteq Topics
    /\ errorCount \in 0 .. MaxErrors + 1
    /\ text \in [Slots -> Topics \cup {NoTopic}] /\ valid \subseteq Slots
    /\ inProgress \in Slots \cup {Nowhere}
    /\ qos \in {0, 1} /\ opened \in BOOLEAN /\ crashed \in BOOLEAN
    /\ job \in [{"Task", "Cli"} ->
                  [at : Where, kind : Kinds, slot : Slots \cup {Nowhere},
                   topic : Topics, packet : Pubs \cup {"CLI_PUBLISH"}, qos : {0, 1}]]

Idle == [at |-> "Idle", kind |-> "none", slot |-> Nowhere, topic |-> Delta,
         packet |-> "PUBLISH", qos |-> 1]

ConsoleInit ==
    /\ Init
    /\ text = [i \in Slots |-> IF i = 0 THEN Delta ELSE NoTopic] /\ valid = {}
    /\ subscribe = TRUE /\ inProgress = Nowhere /\ qos = 0
    /\ job = [p \in {"Task", "Cli"} |-> Idle]
    /\ opened = FALSE /\ crashed = FALSE /\ commands = MaxCommands

-----------------------------------------------------------------------------
(* The steps of a call                                                       *)

At(p, where) == job[p].at = where /\ ~crashed /\ ~(p = "Task" /\ halted)
Goes(p, where) == job' = [job EXCEPT ![p].at = where] /\ UNCHANGED turn

\* The call returns. The task goes on with its loop.
Ends(p) ==
    /\ job' = [job EXCEPT ![p] = Idle]
    /\ turn' = IF p = "Cli" THEN turn ELSE IF turn = "App" THEN "Net" ELSE "App"

\* What a step leaves alone, by group.
SvcRests == UNCHANGED <<eStatus, timer, connCbSent>>
TopicsRest == UNCHANGED <<text, valid, subscribe, inProgress>>
AppRests == UNCHANGED <<appVars, halted>>
WorldRests == UNCHANGED <<shadow, bounds, taken, commands>>
Others == WorldRests /\ UNCHANGED <<crashed>>

\* A request of the application or of the console begins with the status.
ChecksStatus(p) ==
    /\ At(p, "Check") /\ job[p].kind # "close"
    /\ IF eStatus # "MQTT_CONNECTED" THEN Ends(p)
       ELSE Goes(p, IF job[p].kind = "publish" THEN "Send" ELSE "Fill")
    /\ SvcRests /\ TopicsRest /\ AppRests /\ Others
    /\ UNCHANGED <<clientVars, netVars, qos, opened>>

First(S) == CHOOSE i \in S : \A j \in S : i <= j

\* The first invalid entry takes the topic; it is valid once the request is sent.
FillsEntry(p) ==
    /\ At(p, "Fill") /\ job[p].kind = "subscribe"
    /\ IF valid = Slots THEN Ends(p) /\ UNCHANGED <<text, inProgress>>
       ELSE LET i == First(Slots \ valid) IN
              /\ text' = [text EXCEPT ![i] = CliTopic] /\ inProgress' = i
              /\ job' = [job EXCEPT ![p].at = "Send", ![p].slot = i] /\ UNCHANGED turn
    /\ SvcRests /\ AppRests /\ Others
    /\ UNCHANGED <<clientVars, netVars, valid, subscribe, qos, opened>>

\* The entry of an unsubscribed topic is invalid before the broker has answered.
FreesEntry(p) ==
    /\ At(p, "Fill") /\ job[p].kind = "unsubscribe"
    /\ LET found == {i \in valid : text[i] = job[p].topic} IN
         IF found = {} THEN Ends(p) /\ UNCHANGED <<valid, subscribe>>
         ELSE LET i == First(found) IN
                /\ valid' = valid \ {i} /\ subscribe' = (subscribe /\ i # 0)
                /\ job' = [job EXCEPT ![p].at = "Send", ![p].slot = i] /\ UNCHANGED turn
    /\ SvcRests /\ AppRests /\ Others
    /\ UNCHANGED <<clientVars, netVars, text, inProgress, qos, opened>>

Subscribing == (Delta :> "SUBSCRIBE") @@ (CliTopic :> "CLI_SUBSCRIBE")
Unsubscribing == (Delta :> "UNSUBSCRIBE") @@ (CliTopic :> "CLI_UNSUBSCRIBE")

Packet(p) ==
    CASE job[p].kind = "publish" -> IF job[p].qos = 0 THEN "PUBLISH0" ELSE job[p].packet
      [] job[p].kind = "unsubscribe" -> Unsubscribing[text[job[p].slot]]
      [] OTHER -> Subscribing[text[job[p].slot]]

\* MQTTPublish, MQTTSubscribe and MQTTUnsubscribe. They fail on a client that is
\* not connected, too, and then close its session.
SendsRequest(p) ==
    /\ At(p, "Send")
    /\ qos' = IF job[p].kind = "publish" THEN job[p].qos ELSE qos
    /\ \/ /\ isconnected /\ Sends(Packet(p)) /\ Goes(p, "Timer")
          /\ UNCHANGED <<isconnected, ping, handlers>>
       \/ /\ ~isconnected \/ SendFails
          /\ CloseSession /\ Goes(p, "Drop") /\ UNCHANGED <<quiet, up>>
    /\ SvcRests /\ TopicsRest /\ AppRests /\ Others
    /\ UNCHANGED <<session, wire, down, subs, opened>>

\* Variant: an entry is marked for a publish, too.
StartsTimerAndMarks(p) ==
    /\ At(p, "Timer") /\ timer' = "Running"
    /\ Goes(p, IF job[p].kind = "connect" THEN "Status" ELSE "Mark")
    /\ TopicsRest /\ AppRests /\ Others
    /\ UNCHANGED <<eStatus, connCbSent, clientVars, netVars, qos, opened>>

\* SYS_MQTT_StartTimer.
StartsTimer(p) ==
    /\ At(p, "Timer") /\ timer' = "Running"
    /\ Goes(p, IF job[p].kind \in {"publish", "connect"} THEN "Status" ELSE "Mark")
    /\ TopicsRest /\ AppRests /\ Others
    /\ UNCHANGED <<eStatus, connCbSent, clientVars, netVars, qos, opened>>

\* What is written between the timer and the status: the entry is valid, or in
\* progress, or both.
MarksEntry(p) ==
    /\ At(p, "Mark") /\ Goes(p, "Status")
    /\ valid' = IF job[p].kind = "unsubscribe" THEN valid ELSE valid \cup {job[p].slot}
    /\ inProgress' = IF job[p].kind = "subscribe" THEN inProgress ELSE job[p].slot
    /\ SvcRests /\ AppRests /\ Others
    /\ UNCHANGED <<clientVars, netVars, text, subscribe, qos, opened>>

Wait == [connect |-> "WAIT_FOR_MQTT_CONACK", conack |-> "WAIT_FOR_MQTT_SUBACK",
         subscribe |-> "WAIT_FOR_MQTT_SUBACK", unsubscribe |-> "WAIT_FOR_MQTT_UNSUBACK",
         publish |-> "WAIT_FOR_MQTT_PUBACK"]

BeginsWait(p) ==
    /\ At(p, "Status") /\ Ends(p)
    /\ eStatus' = IF job[p].kind = "publish" /\ job[p].qos = 0 THEN eStatus
                  ELSE Wait[job[p].kind]
    /\ TopicsRest /\ AppRests /\ Others
    /\ UNCHANGED <<timer, connCbSent, clientVars, netVars, qos, opened>>

\* SYS_NET_CtrlMsg(SYS_NET_CTRL_MSG_DISCONNECT) and its callback. After a refused
\* CONNECT the status has been written before.
DropsConnection(p) ==
    /\ At(p, "Drop") /\ NetDisconnect /\ opened' = FALSE
    /\ eStatus' = StatusAfterLoss
    /\ IF job[p].kind = "connect" THEN Ends(p) ELSE Goes(p, "Down")
    /\ TopicsRest /\ AppRests /\ Others
    /\ UNCHANGED <<timer, connCbSent, clientVars, qos>>

IsDown(p) ==
    /\ At(p, "Down") /\ Ends(p)
    /\ eStatus' = "MQTT_DISCONNECTING"
    /\ TopicsRest /\ AppRests /\ Others
    /\ UNCHANGED <<timer, connCbSent, clientVars, netVars, qos, opened>>

CallStep(p) ==
    \/ ChecksStatus(p) \/ FillsEntry(p) \/ FreesEntry(p) \/ SendsRequest(p)
    \/ StartsTimer(p) \/ MarksEntry(p) \/ BeginsWait(p)
    \/ DropsConnection(p) \/ IsDown(p)

-----------------------------------------------------------------------------
(* The console                                                               *)

CliBegins(kind, t, q) ==
    /\ At("Cli", "Idle") /\ commands > 0 /\ commands' = commands - 1
    /\ kind \in Commands
    /\ job' = [job EXCEPT !["Cli"] = [Idle EXCEPT !.at = "Check", !.kind = kind,
                   !.topic = t, !.packet = "CLI_PUBLISH", !.qos = q]]
    /\ UNCHANGED <<turn, callVars, opened, crashed, shadow, bounds, taken>>
    /\ SvcRests /\ AppRests /\ UNCHANGED <<clientVars, netVars>>

ClosesFrom == {"MQTT_CONNECTED", "WAIT_FOR_MQTT_CONACK", "WAIT_FOR_MQTT_SUBACK",
               "WAIT_FOR_MQTT_PUBACK"}

ChecksClose ==
    /\ At("Cli", "Check") /\ job["Cli"].kind = "close"
    /\ Goes("Cli", IF eStatus \in ClosesFrom THEN "Close" ELSE "Again")
    /\ SvcRests /\ TopicsRest /\ AppRests /\ Others
    /\ UNCHANGED <<clientVars, netVars, qos, opened>>

\* MQTTDisconnect, which does nothing on a client that is not connected.
ClosesClient ==
    /\ At("Cli", "Close")
    /\ \/ /\ ~isconnected /\ Goes("Cli", "Closed")
          /\ UNCHANGED <<eStatus, opened, isconnected, ping, handlers, netVars>>
       \/ /\ isconnected /\ NetDisconnect /\ CloseSession
          /\ eStatus' = StatusAfterLoss /\ opened' = FALSE
          /\ \/ session = "Reported" /\ wire # "Dead" /\ Goes("Cli", "Closed")
             \/ SendFails /\ Ends("Cli")
    /\ TopicsRest /\ AppRests /\ Others
    /\ UNCHANGED <<timer, connCbSent, quiet, qos>>

IsClosed ==
    /\ At("Cli", "Closed") /\ Goes("Cli", "Again")
    /\ eStatus' = "MQTT_DISCONNECTING"
    /\ TopicsRest /\ AppRests /\ Others
    /\ UNCHANGED <<timer, connCbSent, clientVars, netVars, qos, opened>>

\* The second `if' reads the status again.
ChecksAgain ==
    /\ At("Cli", "Again")
    /\ IF eStatus \in {"LOWER_LAYER_DOWN", "MQTT_DISCONNECTING"} THEN Ends("Cli")
       ELSE Goes("Cli", "Drop")
    /\ SvcRests /\ TopicsRest /\ AppRests /\ Others
    /\ UNCHANGED <<clientVars, netVars, qos, opened>>

CliCommand ==
    \/ \E q \in {0, 1} : CliBegins("publish", CliTopic, q)
    \/ CliBegins("subscribe", CliTopic, 1)
    \/ \E t \in Topics : CliBegins("unsubscribe", t, 1)
    \/ CliBegins("close", CliTopic, 1)

CliStep == CallStep("Cli") \/ ChecksClose \/ ClosesClient \/ IsClosed \/ ChecksAgain

-----------------------------------------------------------------------------
(* The MQTT_APP task                                                         *)

PublishBegins ==
    /\ turn = "App" /\ At("Task", "Idle") /\ MayPublish
    /\ pubFlag' = FALSE /\ shadowUpdate' = FALSE /\ MQTTPubQueued' = TRUE
    /\ job' = [job EXCEPT !["Task"] = [Idle EXCEPT !.at = "Check", !.kind = "publish",
                                                   !.packet = Message]]
    /\ SvcRests /\ Others
    /\ UNCHANGED <<turn, clientVars, netVars, callVars, opened, MQTTConnected, led,
                   errorCount, halted>>

PublishSkipped == At("Task", "Idle") /\ AppSkips /\ UNCHANGED consoleVars

\* SYS_NET_Task. A connection takes two calls: one opens the socket.
NetSteps ==
    /\ At("Task", "Idle") /\ AppRests /\ UNCHANGED taken
    /\ NetReportsConnected \/ NetNoticesLoss \/ NetReportsDisconnected \/ NetQuiet
    /\ opened' = (opened \/ (turn' = "Mqtt" /\ session = "None"
                             /\ eStatus # "LOWER_LAYER_DOWN"))
    /\ UNCHANGED <<callVars, job, crashed, commands>>

Connects ==
    /\ At("Task", "Idle") /\ turn = "Net" /\ opened
    /\ Net!Begin /\ wire' = "Good" /\ opened' = FALSE
    /\ SvcRests /\ AppRests /\ Others
    /\ UNCHANGED <<turn, clientVars, up, down, subs, callVars, job>>

\* The switch reads the status, the case of a wait the topic in progress.
CaseBegins ==
    /\ turn = "Mqtt" /\ At("Task", "Idle")
    /\ job' = [job EXCEPT !["Task"] = [Idle EXCEPT !.at = "Case", !.kind = eStatus,
                                                   !.slot = inProgress]]
    /\ SvcRests /\ AppRests /\ Others
    /\ UNCHANGED <<turn, clientVars, netVars, callVars, opened>>

In(st) == At("Task", "Case") /\ job["Task"].kind = st

CaseLowerLayerDown ==
    /\ In("LOWER_LAYER_DOWN") /\ Ends("Task")
    /\ eStatus' = "SOCK_CLIENT_CONNECTING"
    /\ AppRests /\ Others
    /\ UNCHANGED <<timer, connCbSent, clientVars, netVars, callVars, opened>>

CaseSockConnected ==
    /\ In("SOCK_CONNECTED") /\ CloseSession
    /\ \/ /\ Sends("CONNECT") /\ UNCHANGED eStatus
          /\ job' = [job EXCEPT !["Task"].at = "Timer", !["Task"].kind = "connect"]
       \/ /\ SendFails /\ UNCHANGED <<up, quiet>> /\ eStatus' = "MQTT_DISCONNECTING"
          /\ job' = [job EXCEPT !["Task"].at = "Drop", !["Task"].kind = "connect"]
    /\ AppRests /\ Others
    /\ UNCHANGED <<turn, timer, connCbSent, session, wire, down, subs, callVars, opened>>

\* cycle(): a packet, or keepalive() once nothing moved for keepAliveInterval.
Cycles ==
    \/ /\ ~quiet \/ CanRead
       /\ Cycled
       /\ UNCHANGED <<eStatus, isconnected, handlers, session, wire, subs, opened>>
    \/ /\ quiet /\ ~CanRead /\ ~ping
       /\ Sends("PINGREQ") /\ ping' = TRUE
       /\ UNCHANGED <<eStatus, isconnected, handlers, session, wire, down, subs, opened>>
    \/ /\ quiet /\ ~CanRead /\ (ping \/ SendFails)
       /\ IF isconnected
            THEN /\ CloseSession /\ NetDisconnect
                 /\ eStatus' = StatusAfterLoss /\ opened' = FALSE
            ELSE UNCHANGED <<eStatus, isconnected, ping, handlers, netVars, opened>>
       /\ quiet' = FALSE

CaseConnected ==
    /\ In("MQTT_CONNECTED") /\ Ends("Task")
    /\ IF isconnected THEN Cycles
       ELSE UNCHANGED <<eStatus, clientVars, netVars, opened>>
    /\ AppRests /\ Others /\ UNCHANGED <<timer, connCbSent, callVars>>

Acks == [WAIT_FOR_MQTT_CONACK |-> "CONNACK", WAIT_FOR_MQTT_SUBACK |-> "SUBACK",
         WAIT_FOR_MQTT_UNSUBACK |-> "UNSUBACK", WAIT_FOR_MQTT_PUBACK |-> "PUBACK"]
InWait == At("Task", "Case") /\ job["Task"].kind \in DOMAIN Acks
Slot == job["Task"].slot

\* Only an UNSUBACK of a topic with a handler is one.
AckArrived ==
    /\ Incoming = Acks[job["Task"].kind]
    /\ Incoming = "UNSUBACK" =>
           IF Slot = Nowhere THEN handlers # {} ELSE text[Slot] \in handlers

\* MQTTWaitForConnect, MQTTWaitForSubscribeAck, ... with the answer. The handlers'
\* topics are compared with a NULL pointer when the topic in progress was cleared.
ReadsAck ==
    /\ InWait /\ AckArrived
    /\ down' = Tail(down) /\ quiet' = FALSE
    /\ crashed' = (Incoming \in {"SUBACK", "UNSUBACK"} /\ Slot = Nowhere /\ handlers # {})
    /\ handlers' = IF Slot = Nowhere THEN handlers
                   ELSE CASE Incoming = "SUBACK" -> handlers \cup {text[Slot]}
                          [] Incoming = "UNSUBACK" -> handlers \ {text[Slot]}
                          [] OTHER -> handlers
    /\ isconnected' = (isconnected \/ Incoming = "CONNACK")
    /\ ping' = (ping /\ Incoming # "CONNACK")
    /\ Goes("Task", "Acknowledged")
    /\ SvcRests /\ AppRests /\ WorldRests
    /\ UNCHANGED <<session, wire, up, subs, callVars, opened>>

\* MQTTWaitForPublishAck of a message with QoS 0 waits for nothing.
NeedsNoAck ==
    /\ InWait /\ job["Task"].kind = "WAIT_FOR_MQTT_PUBACK" /\ qos = 0
    /\ Goes("Task", "Acknowledged")
    /\ SvcRests /\ AppRests /\ Others
    /\ UNCHANGED <<clientVars, netVars, callVars, opened>>

ReadsOther ==
    /\ InWait /\ ~AckArrived /\ ~(job["Task"].kind = "WAIT_FOR_MQTT_PUBACK" /\ qos = 0)
    /\ Cycles /\ Goes("Task", "Late")
    /\ AppRests /\ Others /\ UNCHANGED <<timer, connCbSent, callVars>>

TimeoutOf == [WAIT_FOR_MQTT_CONACK |-> "CONNACK_TO", WAIT_FOR_MQTT_SUBACK |-> "SUBACK_TO",
              WAIT_FOR_MQTT_UNSUBACK |-> "UNSUBACK_TO", WAIT_FOR_MQTT_PUBACK |-> "PUBACK_TO"]

\* SYS_MQTT_ProcessTimeout, up to the return of the callback.
ProcessesTimeout ==
    /\ At("Task", "Late")
    /\ LET ev == {TimeoutOf[job["Task"].kind]} IN
         IF timer = "Expired"
           THEN MqttCallback(ev) /\ halted' = GivesUp(ev) /\ Goes("Task", "Expired")
           ELSE Ends("Task") /\ AppRests
    /\ SvcRests /\ Others /\ UNCHANGED <<clientVars, netVars, callVars, opened>>

\* SYS_MQTT_ResetTimer.
ResetsTimer ==
    /\ timer' = "Off"
    /\ \/ At("Task", "Acknowledged") /\ Goes("Task", "Connected")
       \/ At("Task", "Expired") /\ Goes("Task", "Drop")
    /\ AppRests /\ Others
    /\ UNCHANGED <<eStatus, connCbSent, clientVars, netVars, callVars, opened>>

\* The topic in progress is copied just before or after the status.
IsConnected ==
    /\ At("Task", "Connected")
    /\ eStatus' = "MQTT_CONNECTED"
    /\ LET kind == job["Task"].kind IN
         /\ crashed' = (kind \in {"WAIT_FOR_MQTT_SUBACK", "WAIT_FOR_MQTT_UNSUBACK"}
                        /\ inProgress = Nowhere)
         /\ IF kind = "WAIT_FOR_MQTT_CONACK" /\ subscribe
              THEN job' = [job EXCEPT !["Task"] = [Idle EXCEPT !.at = "Send",
                                                       !.kind = "conack", !.slot = 0]]
                   /\ UNCHANGED turn
              ELSE Goes("Task", "Tell")
    /\ AppRests /\ WorldRests
    /\ UNCHANGED <<timer, connCbSent, clientVars, netVars, callVars, opened>>

ConnectedEvent == IF connCbSent THEN {} ELSE {"CONNECTED"}
EventsOf == [WAIT_FOR_MQTT_CONACK |-> {"CONNECTED"},
             WAIT_FOR_MQTT_SUBACK |-> {"SUBSCRIBED"} \cup ConnectedEvent,
             WAIT_FOR_MQTT_UNSUBACK |-> {"UNSUBSCRIBED"},
             WAIT_FOR_MQTT_PUBACK |-> {"PUBLISHED"}]

\* sPubSubCfgInProgress is cleared after the status has been written.
TellsUser ==
    /\ At("Task", "Tell") /\ Ends("Task")
    /\ LET kind == job["Task"].kind IN
         /\ MqttCallback(EventsOf[kind])
         /\ inProgress' = IF kind = "WAIT_FOR_MQTT_SUBACK" THEN Nowhere ELSE inProgress
         /\ connCbSent' = (connCbSent \/ "CONNECTED" \in EventsOf[kind])
    /\ Others
    /\ UNCHANGED <<eStatus, timer, clientVars, netVars, text, valid, subscribe, qos,
                   opened, halted>>

\* Variant: connCbSent stays set.
CaseDisconnectingKeepsCbSent ==
    /\ In("MQTT_DISCONNECTING") /\ Ends("Task")
    /\ valid' = valid \cap (IF subscribe THEN {0} ELSE {})
    /\ eStatus' = "MQTT_DISCONNECTED"
    /\ MqttCallback({"DISCONNECTED"}) /\ UNCHANGED connCbSent
    /\ Others
    /\ UNCHANGED <<timer, clientVars, netVars, text, subscribe, inProgress, qos, opened,
                   halted>>

CaseDisconnecting ==
    /\ In("MQTT_DISCONNECTING") /\ Ends("Task")
    /\ valid' = valid \cap (IF subscribe THEN {0} ELSE {})
    /\ eStatus' = "MQTT_DISCONNECTED"
    /\ MqttCallback({"DISCONNECTED"}) /\ connCbSent' = FALSE
    /\ Others
    /\ UNCHANGED <<timer, clientVars, netVars, text, subscribe, inProgress, qos, opened,
                   halted>>

CaseIdle ==
    /\ In("MQTT_DISCONNECTED") \/ In("SOCK_CLIENT_CONNECTING")
    /\ Ends("Task")
    /\ SvcRests /\ AppRests /\ Others
    /\ UNCHANGED <<clientVars, netVars, callVars, opened>>

TaskStep ==
    \/ PublishBegins \/ PublishSkipped \/ NetSteps \/ CaseBegins
    \/ CaseLowerLayerDown \/ CaseSockConnected \/ CaseConnected
    \/ CaseDisconnecting \/ CaseIdle
    \/ ReadsAck \/ NeedsNoAck \/ ReadsOther \/ ProcessesTimeout
    \/ ResetsTimer \/ IsConnected \/ TellsUser
    \/ CallStep("Task")

-----------------------------------------------------------------------------
(* The broker, the connection and the clock                                  *)

Asked == [SUBSCRIBE |-> Delta, CLI_SUBSCRIBE |-> CliTopic,
          UNSUBSCRIBE |-> Delta, CLI_UNSUBSCRIBE |-> CliTopic]
CliAnswers == Answers @@ [CLI_SUBSCRIBE |-> "SUBACK", UNSUBSCRIBE |-> "UNSUBACK",
                          CLI_UNSUBSCRIBE |-> "UNSUBACK", CLI_PUBLISH |-> "PUBACK"]

\* The broker does not mind what comes before the CONNECT.
BrokerAnswers ==
    /\ wire = "Good" /\ up # <<>>
    /\ LET p == Head(up) IN
         /\ up' = Tail(up)
         /\ down' = IF p \in DOMAIN CliAnswers THEN Append(down, CliAnswers[p]) ELSE down
         /\ subs' = CASE p \in {"SUBSCRIBE", "CLI_SUBSCRIBE"} -> subs \cup {Asked[p]}
                      [] p \in {"UNSUBSCRIBE", "CLI_UNSUBSCRIBE"} -> subs \ {Asked[p]}
                      [] OTHER -> subs
    /\ UNCHANGED <<svcVars, clientVars, session, wire, shadow, bounds, appVars, halted, taken,
                   consoleVars>>

\* keepAliveInterval is longer than the 5 seconds of a wait, and than a call.
KeepAliveEnds ==
    /\ At("Cli", "Idle") /\ ~quiet /\ quiet' = TRUE
    /\ isconnected /\ timer # "Running" /\ up = <<>> /\ down = <<>>
    /\ UNCHANGED <<svcVars, isconnected, ping, handlers, netVars, shadow, bounds,
                   appVars, halted, taken, consoleVars>>

ConsoleDisturbance ==
    /\ \/ /\ At("Task", "Idle") /\ NetAttemptFails /\ opened' = FALSE
       \/ /\ BrokerRefuses \/ \E how \in {"Mute", "Dead"} : ConnectionLost(how)
          /\ UNCHANGED opened
    /\ UNCHANGED <<appVars, halted, taken, callVars, job, crashed, commands>>

Clock == (Tick \/ Expires) /\ UNCHANGED consoleVars

ConsoleNext ==
    \/ TaskStep \/ CliCommand \/ CliStep \/ Connects
    \/ BrokerAnswers \/ KeepAliveEnds \/ Clock \/ ConsoleDisturbance

ConsoleSpec == ConsoleInit /\ [][ConsoleNext]_allVars

\* As in MqttApp; the console's task finishes the command it is in.
ConsoleFairness ==
    /\ WF_allVars(TaskStep) /\ WF_allVars(CliStep)
    /\ WF_allVars(Tick /\ UNCHANGED consoleVars) /\ WF_allVars(Expires /\ UNCHANGED consoleVars)
    /\ WF_allVars(BrokerAnswers) /\ WF_allVars(KeepAliveEnds)
    /\ SF_allVars(Connects)

ConsoleFairSpec == ConsoleSpec /\ ConsoleFairness

-----------------------------------------------------------------------------
(* Properties                                                                *)

\* A publish the service refused, or one whose wait a call of the console replaced:
\* publishMessage has noted it as queued, and no event for it comes (mqtt_app.c:203).
RefusedForGood == MQTTPubQueued /\ eStatus = "MQTT_CONNECTED"

\* A wait whose timer was reset between StartTimer and the status of the wait, by
\* the other task's answer or timeout (sys_mqtt_paho.c:768, :774 and :503, :602, :150).
WaitsUntimed == eStatus \in DOMAIN Acks /\ timer = "Off"

\* A session of SYS_NET that the service takes for ended: nobody sends CONNECT on it.
ForgottenSession == eStatus = "MQTT_DISCONNECTED" /\ session = "Reported"

\* Connected, and the application is never told: the status of the CONNACK (:422) let
\* a call of the console through, whose wait replaced the one for the SUBACK; that
\* SUBACK was then read as any packet (sys_mqtt_paho.c:463, :998).
NeverTold == eStatus = "MQTT_CONNECTED" /\ ~MQTTConnected /\ ~connCbSent

\* With one command of the console, telemetry goes on all the same, or the watchdog
\* timer is to reset the board.
TelemetryGoesOn == <>[](halted \/ crashed) \/ []<><<TakesTelemetry>>_allVars

\* Whatever is typed and however it interleaves with the task, telemetry goes on once
\* the trouble is over, or the watchdog timer is to reset the board, or the service
\* rests in one of these dead ends.
StopsOnlyInDeadEnds ==
    \/ TelemetryGoesOn
    \/ <>[]RefusedForGood \/ <>[]WaitsUntimed
    \/ <>[]ForgottenSession \/ <>[]NeverTold
=============================================================================
