------------------------------ MODULE MqttApp ------------------------------
(***************************************************************************)
(* The cloud application (mqtt_app.c) on the MQTT service: it publishes    *)
(* telemetry once a second and reports the state of the LED after the      *)
(* shadow service changed it. The service keeps no queue, so the           *)
(* application allows itself one publish at a time.                        *)
(***************************************************************************)
EXTENDS SysMqtt

CONSTANT MaxErrors   \* PUBACK timeouts in a row it puts up with (5 in the code)

ASSUME MqttAppAssumption == MaxErrors \in Nat

VARIABLES
    MQTTConnected,   \* of mqtt_appData, as are the next three
    MQTTPubQueued,
    shadowUpdate,    \* the next publish reports the LED
    pubFlag,         \* time to publish
    led,             \* LED_GREEN_Get()
    errorCount,      \* the static errorCount of MqttCallback
    halted,          \* the MQTT_APP task is in `while (1)'
    taken            \* auxiliary: the broker took the latest publish of the application

appVars == <<MQTTConnected, MQTTPubQueued, shadowUpdate, pubFlag, led, errorCount>>
vars == <<mqttVars, appVars, halted, taken>>

TypeOK ==
    /\ SvcTypeOK
    /\ MQTTConnected \in BOOLEAN /\ MQTTPubQueued \in BOOLEAN
    /\ shadowUpdate \in BOOLEAN /\ pubFlag \in BOOLEAN
    /\ led \in Desired
    /\ errorCount \in 0 .. MaxErrors + 1
    /\ halted \in BOOLEAN /\ taken \in BOOLEAN

Init ==
    /\ SvcInit
    /\ MQTTConnected = FALSE /\ MQTTPubQueued = FALSE
    /\ shadowUpdate = TRUE /\ pubFlag = TRUE
    /\ led = "Off" /\ errorCount = 0
    /\ halted = FALSE /\ taken = FALSE

-----------------------------------------------------------------------------
(* MqttCallback, called with the events ev                                   *)

\* Variant: a disconnection leaves the publish in progress.
CallbackKeepsQueued(ev) ==
    /\ MQTTConnected' = ((MQTTConnected \/ "CONNECTED" \in ev) /\ "DISCONNECTED" \notin ev)
    /\ MQTTPubQueued' = (MQTTPubQueued /\ ev \cap {"PUBLISHED", "PUBACK_TO"} = {})
    /\ IF ev \cap Desired = {}
         THEN UNCHANGED <<led, shadowUpdate, pubFlag>>
         ELSE led' \in ev /\ led' \in Desired /\ shadowUpdate' = TRUE /\ pubFlag' = TRUE
    /\ errorCount' = IF "PUBLISHED" \in ev THEN 0
                     ELSE IF "PUBACK_TO" \in ev THEN errorCount + 1 ELSE errorCount

MqttCallback(ev) ==
    /\ MQTTConnected' = ((MQTTConnected \/ "CONNECTED" \in ev) /\ "DISCONNECTED" \notin ev)
    /\ MQTTPubQueued' =
          (MQTTPubQueued /\ ev \cap {"DISCONNECTED", "PUBLISHED", "PUBACK_TO"} = {})
    /\ IF ev \cap Desired = {}
         THEN UNCHANGED <<led, shadowUpdate, pubFlag>>
         ELSE led' \in ev /\ led' \in Desired /\ shadowUpdate' = TRUE /\ pubFlag' = TRUE
    /\ errorCount' = IF "PUBLISHED" \in ev THEN 0
                     ELSE IF "PUBACK_TO" \in ev THEN errorCount + 1 ELSE errorCount

\* Variant: the callback never gives up.
NeverGivesUp(ev) == FALSE

\* `while (1)' in the callback: the service does not get to disconnect.
GivesUp(ev) == "PUBACK_TO" \in ev /\ errorCount >= MaxErrors

-----------------------------------------------------------------------------
(* MQTT_APP_Tasks, once the configuration is valid                           *)

AppIn == turn = "App" /\ ~halted /\ turn' = "Net"

\* What publishMessage sends.
Message == IF shadowUpdate THEN led ELSE "PUBLISH"

MayPublish == pubFlag /\ MQTTConnected /\ ~MQTTPubQueued

AppPublishes ==
    /\ AppIn /\ MayPublish
    /\ pubFlag' = FALSE /\ shadowUpdate' = FALSE /\ MQTTPubQueued' = TRUE
    /\ SendMsg(Message)
    /\ taken' = (taken /\ eStatus # "MQTT_CONNECTED")
    /\ UNCHANGED <<connCbSent, shadow, bounds, MQTTConnected, led, errorCount, halted>>

AppSkips ==
    /\ AppIn /\ ~MayPublish
    /\ pubFlag' = FALSE
    /\ UNCHANGED <<eStatus, timer, connCbSent, clientVars, netVars, shadow, bounds, MQTTConnected, MQTTPubQueued,
                   shadowUpdate, led, errorCount, halted, taken>>

NetStep == ~halted /\ NetTask /\ UNCHANGED <<appVars, halted, taken>>

MqttStep ==
    /\ turn = "Mqtt" /\ ~halted
    /\ \E ev \in Calls :
         Task(ev) /\ ~GivesUp(ev) /\ MqttCallback(ev)
    /\ UNCHANGED <<halted, taken>>

\* The last PUBACK timeout: neither the timer nor the connection is touched any more.
MqttHangs ==
    /\ ~halted
    /\ turn = "Mqtt" /\ eStatus = "WAIT_FOR_MQTT_PUBACK"
    /\ Incoming # "PUBACK" /\ timer = "Expired"
    /\ LET ev == Delivered \cup {"PUBACK_TO"} IN GivesUp(ev) /\ MqttCallback(ev)
    /\ halted' = TRUE
    /\ Cycled
    /\ UNCHANGED <<svcVars, isconnected, handlers, session, wire, subs, shadow,
                   bounds, taken>>

\* timerCallback, every second.
Tick ==
    /\ ~pubFlag /\ pubFlag' = TRUE
    /\ UNCHANGED <<mqttVars, MQTTConnected, MQTTPubQueued, shadowUpdate, led,
                   errorCount, halted, taken>>

Broker ==
    /\ BrokerTakes
    /\ taken' = (taken \/ Head(up) \in {"PUBLISH"} \cup Desired)
    /\ UNCHANGED <<appVars, halted>>

Connecting == ~halted /\ NetComesUp /\ UNCHANGED <<appVars, halted, taken>>
Expires == TimerExpires /\ UNCHANGED <<appVars, halted, taken>>
Quiets == QuietMinute /\ UNCHANGED <<appVars, halted, taken>>

\* What the environment may do, and need not.
Disturbance ==
    /\ \/ ~halted /\ NetAttemptFails
       \/ BrokerRefuses
       \/ \E v \in Desired : BrokerSends(v)
       \/ \E how \in {"Mute", "Dead"} : ConnectionLost(how)
    /\ UNCHANGED <<appVars, halted, taken>>

AppTask == AppPublishes \/ AppSkips \/ NetStep \/ MqttStep \/ MqttHangs

Next == AppTask \/ Tick \/ Broker \/ Connecting \/ Expires \/ Quiets \/ Disturbance

Spec == Init /\ [][Next]_vars

\* The task is scheduled again and again, the 1 second timer is periodic, the 5
\* second and the keep-alive timers run out, the broker answers what reaches it,
\* and SYS_NET gets a connection in the end (RecoversUnlessDeadEnd in SysNetProps
\* says when).
Fairness ==
    /\ WF_vars(AppTask) /\ WF_vars(Tick) /\ WF_vars(Broker)
    /\ SF_vars(Connecting) /\ WF_vars(Expires) /\ WF_vars(Quiets)

FairSpec == Spec /\ Fairness

-----------------------------------------------------------------------------
(* Properties                                                                *)

\* While the application waits for the end of its publish (and so publishes
\* nothing), the service is still waiting for the PUBACK or is about to report the
\* disconnection: one of the events that clear MQTTPubQueued is to come.
QueuedIsWaiting ==
    MQTTConnected /\ MQTTPubQueued =>
        eStatus \in {"WAIT_FOR_MQTT_PUBACK", "MQTT_DISCONNECTING"}

\* The application believes in a connection only while the service is in one it
\* has reported, and from a reported one it gets to hear of the end.
AppViewAgrees ==
    /\ MQTTConnected <=> connCbSent
    /\ MQTTConnected => eStatus \in {"MQTT_CONNECTED", "WAIT_FOR_MQTT_SUBACK",
          "WAIT_FOR_MQTT_PUBACK", "MQTT_DISCONNECTING"}
    /\ eStatus = "MQTT_CONNECTED" => MQTTConnected /\ isconnected

\* The event PUBLISHED comes only when the broker has the message the application
\* published last, although the packet identifier of a PUBACK is never compared.
PublishedWasTaken ==
    [][MQTTPubQueued /\ ~MQTTPubQueued' /\ eStatus' = "MQTT_CONNECTED" => taken]_vars

\* With a connection to a broker that is there and nothing being waited for, the
\* client has a handler for exactly the topics the broker sends.
HandlersMatchBroker ==
    eStatus = "MQTT_CONNECTED" /\ wire = "Good" => handlers = subs

\* While an answer is waited for the 5 second timer runs or has run out, whichever
\* call began the wait.
WaitsAreTimed == eStatus \in Waits => timer # "Off"

\* The service's next call after the timer has run out ends the wait, with whatever
\* packet it reads.
ExpiryEndsWait ==
    [][timer = "Expired" /\ eStatus \in Waits /\ turn = "Mqtt" /\ turn' = "App"
           => eStatus' # eStatus]_vars

\* The broker takes telemetry again and again, whatever (bounded) trouble there
\* was, unless the application has stopped for the watchdog.
TakesTelemetry ==
    /\ wire = "Good" /\ wire' = "Good"
    /\ up # <<>> /\ Head(up) = "PUBLISH" /\ up' = Tail(up)

TelemetryFlows == <>[]halted \/ []<><<TakesTelemetry>>_vars

\* The shadow ends up reporting the LED as it is.
ShadowReported == <>[]halted \/ <>[](shadow = led)
-----------------------------------------------------------------------------
(* Inductive invariants behind these properties                              *)

\* The client is connected in every status after the CONNACK, and the application
\* knows it while its publish is waited for.
StatusFollows ==
    /\ eStatus \in {"MQTT_CONNECTED", "WAIT_FOR_MQTT_SUBACK", "WAIT_FOR_MQTT_PUBACK"}
           => isconnected
    /\ eStatus = "WAIT_FOR_MQTT_PUBACK" => MQTTConnected

\* A session of SYS_NET begins only after the end of the last one was reported.
BeginsAfterEnd ==
    session = "Ready" => eStatus \in {"SOCK_CLIENT_CONNECTING", "MQTT_DISCONNECTED"}

\* A publish in progress belongs to a connection.
QueuedIsConnected == MQTTPubQueued => MQTTConnected

\* The application gives up at the first PUBACK timeout beyond MaxErrors.
ErrorsBounded == ~halted => errorCount <= MaxErrors

AppInv == AppViewAgrees /\ StatusFollows /\ BeginsAfterEnd /\ QueuedIsConnected

\* Packets of the set S in a queue: none, or one at most.
None(q, S) == \A i \in DOMAIN q : q[i] \notin S
Single(q, S) == \A i, j \in DOMAIN q : q[i] \in S /\ q[j] \in S => i = j

\* No subscription is asked for or granted.
Settled == None(up, {"SUBSCRIBE"}) /\ None(down, {"SUBACK"})

\* A session begins with nothing under way and nothing subscribed.
SessionBeginsEmpty ==
    /\ session # "Reported" => up = <<>> /\ down = <<>> /\ subs = {}
    /\ session \in {"None", "Ended"} => wire = "Dead"
    /\ eStatus = "SOCK_CONNECTED" => Settled /\ subs = {}
    /\ eStatus = "WAIT_FOR_MQTT_CONACK" => Settled /\ subs = {} /\ handlers = {}

\* Client and broker have the same topics, but from the moment the broker has taken
\* the request for one until the client has its answer.
TopicsFollow ==
    wire = "Good" =>
        /\ eStatus \in {"MQTT_CONNECTED", "WAIT_FOR_MQTT_PUBACK"} =>
               Settled /\ handlers = subs
        /\ eStatus = "WAIT_FOR_MQTT_SUBACK" =>
               /\ Single(up, {"SUBSCRIBE"}) /\ Single(down, {"SUBACK"})
               /\ None(up, {"SUBSCRIBE"}) \/ None(down, {"SUBACK"})
               /\ subs = handlers \cup IF None(down, {"SUBACK"}) THEN {} ELSE {Delta}

TopicsInv == SessionBeginsEmpty /\ TopicsFollow

\* A publish is under way only while the service waits for its PUBACK, and the
\* PUBACK on its way is the answer to it.
Pubs == {"PUBLISH"} \cup Desired
PublishInv ==
    /\ eStatus # "WAIT_FOR_MQTT_PUBACK" => None(up, Pubs) /\ None(down, {"PUBACK"})
    /\ eStatus = "WAIT_FOR_MQTT_PUBACK" =>
           /\ Single(up, Pubs) /\ Single(down, {"PUBACK"})
           /\ None(up, Pubs) \/ None(down, {"PUBACK"})
           /\ None(down, {"PUBACK"}) \/ taken

\* The wait for the SUBACK comes before the application hears of the connection.
AloneInv ==
    /\ QueuedIsWaiting
    /\ eStatus = "WAIT_FOR_MQTT_SUBACK" => ~MQTTConnected

=============================================================================
