-------------------------- MODULE MqttPacketProofs --------------------------
(***************************************************************************)
(* Proofs that rest on what the packets on their way say: that the client  *)
(* has a handler for exactly the topic the broker sends, and that a        *)
(* PUBACK is the answer to the publish that waits for it.                  *)
(***************************************************************************)
EXTENDS MqttAppProofs

-----------------------------------------------------------------------------
(* Queues                                                                    *)

\* Putting a packet behind a queue.
LEMMA AppendKeeps ==
    ASSUME NEW T, NEW q \in Seq(T), NEW p \in T, NEW S
    PROVE  /\ None(q, S) => Single(Append(q, p), S)
           /\ p \notin S /\ None(q, S) => None(Append(q, p), S)
           /\ p \notin S /\ Single(q, S) => Single(Append(q, p), S)
           /\ None(Append(q, p), S) => None(q, S) /\ p \notin S
<1>1. /\ DOMAIN q = 1 .. Len(q) /\ Len(q) \in Nat
      /\ DOMAIN Append(q, p) = 1 .. Len(q) + 1
      /\ \A i \in 1 .. Len(q) : Append(q, p)[i] = q[i]
      /\ Append(q, p)[Len(q) + 1] = p
  OBVIOUS
<1>2. \A i \in DOMAIN Append(q, p) :
         \/ i \in DOMAIN q /\ Append(q, p)[i] = q[i]
         \/ i = Len(q) + 1 /\ Append(q, p)[i] = p
  BY <1>1
<1>3. \A i \in DOMAIN q : i \in DOMAIN Append(q, p) /\ Append(q, p)[i] = q[i]
  BY <1>1
<1>4. \E i \in DOMAIN Append(q, p) : Append(q, p)[i] = p
  BY <1>1
<1>5. None(Append(q, p), S) => p \notin S
  BY <1>4 DEF None
<1> QED BY <1>2, <1>3, <1>5, Zenon DEF None, Single

\* Taking the first packet of a queue.
LEMMA TailKeeps ==
    ASSUME NEW T, NEW q \in Seq(T), q # <<>>, NEW S
    PROVE  /\ Tail(q) \in Seq(T)
           /\ None(q, S) => None(Tail(q), S) /\ Head(q) \notin S
           /\ Single(q, S) => Single(Tail(q), S)
           /\ Single(q, S) /\ Head(q) \in S => None(Tail(q), S)
           /\ Head(q) \notin S /\ None(Tail(q), S) => None(q, S)
<1>1. /\ Len(q) \in Nat \ {0} /\ DOMAIN q = 1 .. Len(q) /\ Tail(q) \in Seq(T)
      /\ DOMAIN Tail(q) = 1 .. Len(q) - 1
      /\ \A i \in 1 .. Len(q) - 1 : Tail(q)[i] = q[i + 1]
      /\ Head(q) = q[1]
  OBVIOUS
<1>2. \A i \in DOMAIN Tail(q) : i \in Nat /\ i + 1 # 1 /\ i + 1 \in DOMAIN q
                                /\ Tail(q)[i] = q[i + 1]
  BY <1>1
<1>3. \A i \in DOMAIN q : i = 1 \/ \E j \in DOMAIN Tail(q) : i = j + 1
  <2>1. \A i \in DOMAIN q : i = 1 \/ (i - 1 \in DOMAIN Tail(q) /\ i = (i - 1) + 1)
    BY <1>1
  <2> QED BY <2>1
<1>4. 1 \in DOMAIN q BY <1>1
<1>5. None(q, S) => None(Tail(q), S) /\ Head(q) \notin S
  BY <1>1, <1>2, <1>4, Zenon DEF None
<1>6. Single(q, S) => Single(Tail(q), S)
  <2> SUFFICES ASSUME Single(q, S), NEW i \in DOMAIN Tail(q), NEW j \in DOMAIN Tail(q),
                      Tail(q)[i] \in S, Tail(q)[j] \in S
               PROVE  i = j
    BY DEF Single
  <2>1. q[i + 1] \in S /\ q[j + 1] \in S /\ i + 1 \in DOMAIN q /\ j + 1 \in DOMAIN q
    BY <1>2
  <2>2. i + 1 = j + 1 BY <2>1, Zenon DEF Single
  <2> QED BY <1>2, <2>2
<1>7. Single(q, S) /\ Head(q) \in S => None(Tail(q), S)
  <2> SUFFICES ASSUME Single(q, S), q[1] \in S, NEW i \in DOMAIN Tail(q), Tail(q)[i] \in S
               PROVE  FALSE
    BY <1>1 DEF None
  <2>1. q[i + 1] \in S /\ i + 1 \in DOMAIN q /\ i + 1 # 1 BY <1>2
  <2> QED BY <1>4, <2>1, Zenon DEF Single
<1>8. Head(q) \notin S /\ None(Tail(q), S) => None(q, S)
  <2> SUFFICES ASSUME Head(q) \notin S, None(Tail(q), S), NEW i \in DOMAIN q, q[i] \in S
               PROVE  FALSE
    BY DEF None
  <2>1. CASE i = 1 BY <1>1, <2>1
  <2>2. CASE i # 1
    <3>1. PICK j \in DOMAIN Tail(q) : i = j + 1 BY <1>3, <2>2
    <3>2. Tail(q)[j] = q[i] BY <1>2, <3>1
    <3> QED BY <3>1, <3>2 DEF None
  <2> QED BY <2>1, <2>2
<1> QED BY <1>1, <1>5, <1>6, <1>7, <1>8

\* The empty queue holds nothing.
LEMMA EmptyNone == \A S : None(<<>>, S)
  BY DEF None

\* What is not in a queue is not in it once.
LEMMA NoneSingle == ASSUME NEW q, NEW S, None(q, S) PROVE Single(q, S)
  BY DEF None, Single

\* Fewer packets to look for.
LEMMA NoneSubset == ASSUME NEW q, NEW S, NEW R, R \subseteq S, None(q, S) PROVE None(q, R)
  BY DEF None

-----------------------------------------------------------------------------
(* What sending, reading and losing the connection do to the invariant       *)

\* A packet that is sent.
LEMMA SendsQueue ==
    ASSUME NetTypeOK, NEW p \in Up, Sends(p), NEW S
    PROVE  /\ None(up, S) => Single(up', S)
           /\ p \notin S /\ None(up, S) => None(up', S)
<1>1. up \in Seq(Up) BY DEF NetTypeOK
<1>2. up' = Append(up, p) \/ up' = up BY DEF Sends
<1>3. CASE up' = Append(up, p) BY <1>1, <1>3, AppendKeeps
<1>4. CASE up' = up BY <1>4, NoneSingle
<1> QED BY <1>2, <1>3, <1>4

\* A packet that is read, and the PUBACK for a delta message.
LEMMA CycledUp ==
    ASSUME NetTypeOK, Cycled, NEW S, "PUBACK" \notin S
    PROVE  /\ None(up, S) => None(up', S)
           /\ Single(up, S) => Single(up', S)
<1>1. up \in Seq(Up) /\ "PUBACK" \in Up BY DEF NetTypeOK, Up
<1>2. up' = Append(up, "PUBACK") \/ up' = up BY DEF Cycled
<1> QED BY <1>1, <1>2, AppendKeeps

LEMMA CycledDown ==
    ASSUME NetTypeOK, Cycled, NEW S
    PROVE  /\ None(down, S) => None(down', S)
           /\ Single(down, S) => Single(down', S)
           /\ Incoming \notin S /\ None(down', S) => None(down, S)
<1>1. CASE CanRead
  <2>1. down \in Seq(Down) /\ down # <<>> /\ down' = Tail(down) /\ Incoming = Head(down)
    BY <1>1 DEF NetTypeOK, Cycled, CanRead, Incoming
  <2> QED BY <2>1, TailKeeps
<1>2. CASE ~CanRead
  BY <1>2 DEF Cycled
<1> QED BY <1>1, <1>2

\* Nothing of what the invariant is about changes.
LEMMA TopicsFrame ==
    ASSUME TopicsInv,
           UNCHANGED <<eStatus, session, wire, up, down, subs, handlers>>
    PROVE  TopicsInv'
  BY DEF TopicsInv, SessionBeginsEmpty, TopicsFollow, Settled, None, Single

\* The connection is closed.
LEMMA ClosedStep ==
    ASSUME NetDisconnect, eStatus' = "MQTT_DISCONNECTING"
    PROVE  TopicsInv'
  BY DEF NetDisconnect, ConnectionGone, TopicsInv, SessionBeginsEmpty, TopicsFollow

\* The service leaves the connection alone and is in none.
LEMMA IdleStep ==
    ASSUME TopicsInv, UNCHANGED <<session, wire, up, down, subs>>,
           eStatus' \in {"SOCK_CLIENT_CONNECTING", "MQTT_DISCONNECTING", "MQTT_DISCONNECTED"}
    PROVE  TopicsInv'
  BY DEF TopicsInv, SessionBeginsEmpty, TopicsFollow

\* A packet that is not an answer to the SUBSCRIBE that is waited for is read.
LEMMA CycledStep ==
    ASSUME NetTypeOK, TopicsInv, Cycled,
           UNCHANGED <<eStatus, session, wire, subs, handlers>>,
           eStatus = "WAIT_FOR_MQTT_SUBACK" => Incoming # "SUBACK"
    PROVE  TopicsInv'
<1>1. /\ None(up, {"SUBSCRIBE"}) => None(up', {"SUBSCRIBE"})
      /\ Single(up, {"SUBSCRIBE"}) => Single(up', {"SUBSCRIBE"})
  BY CycledUp
<1>2. /\ None(down, {"SUBACK"}) => None(down', {"SUBACK"})
      /\ Single(down, {"SUBACK"}) => Single(down', {"SUBACK"})
      /\ Incoming # "SUBACK" /\ None(down', {"SUBACK"}) => None(down, {"SUBACK"})
  BY CycledDown
<1>3. Settled => Settled' BY <1>1, <1>2 DEF Settled
<1>4. SessionBeginsEmpty'
  <2>1. session # "Reported" => up' = up /\ down' = down
    BY DEF Cycled, CanRead, Incoming, Desired
  <2> QED BY <1>3, <2>1 DEF TopicsInv, SessionBeginsEmpty
<1>5. TopicsFollow'
  BY <1>1, <1>2, <1>3, Zenon DEF TopicsInv, TopicsFollow
<1> QED BY <1>4, <1>5 DEF TopicsInv

-----------------------------------------------------------------------------
(* The steps                                                                 *)

\* What is sent in MQTT_CONNECTED.
LEMMA SentStep ==
    ASSUME NetTypeOK, TopicsInv, NEW p \in Up \ {"SUBSCRIBE"}, Sends(p),
           eStatus = "MQTT_CONNECTED",
           eStatus' \in {"MQTT_CONNECTED", "WAIT_FOR_MQTT_PUBACK"},
           UNCHANGED <<session, wire, down, subs, handlers>>
    PROVE  TopicsInv'
<1>1. session = "Reported" /\ (None(up, {"SUBSCRIBE"}) => None(up', {"SUBSCRIBE"}))
  BY SendsQueue DEF Sends
<1> QED
  BY <1>1 DEF TopicsInv, SessionBeginsEmpty, TopicsFollow, Settled

\* The request for the subscription, after the CONNACK.
LEMMA AskedStep ==
    ASSUME NetTypeOK, SessionBeginsEmpty, Sends("SUBSCRIBE"),
           session' = session, wire' = wire, handlers' = handlers,
           Settled, handlers = subs, down # <<>>, down' = Tail(down), subs' = subs,
           eStatus' = "WAIT_FOR_MQTT_SUBACK"
    PROVE  TopicsInv'
<1>1. "SUBSCRIBE" \in Up /\ down \in Seq(Down) BY DEF Up, NetTypeOK
<1>2. SessionBeginsEmpty' BY DEF Sends, SessionBeginsEmpty
<1>3. None(down', {"SUBACK"}) /\ Single(down', {"SUBACK"})
  BY <1>1, TailKeeps, NoneSingle DEF Settled
<1>4. Single(up', {"SUBSCRIBE"}) BY <1>1, SendsQueue DEF Settled
<1> QED BY <1>2, <1>3, <1>4 DEF TopicsInv, TopicsFollow

\* A granted subscription is the client's when it has the SUBACK.
LEMMA SubackStep ==
    ASSUME NetTypeOK, TopicsInv, NEW ev, TaskSuback(ev)
    PROVE  TopicsInv'
<1>1. /\ CanRead /\ Head(down) = "SUBACK" /\ down' = Tail(down)
      /\ eStatus = "WAIT_FOR_MQTT_SUBACK" /\ eStatus' = "MQTT_CONNECTED"
      /\ handlers' = handlers \cup {Delta}
      /\ UNCHANGED <<session, wire, up, subs>>
  BY DEF TaskSuback, TaskIn, Incoming
<1>2. down \in Seq(Down) /\ down # <<>> BY <1>1 DEF NetTypeOK, CanRead
<1>3. SessionBeginsEmpty' BY <1>1 DEF CanRead, TopicsInv, SessionBeginsEmpty
<1>4. ASSUME wire = "Good" PROVE Settled' /\ handlers' = subs'
  <2>1. /\ Single(down, {"SUBACK"})
        /\ None(up, {"SUBSCRIBE"}) \/ None(down, {"SUBACK"})
        /\ subs = handlers \cup IF None(down, {"SUBACK"}) THEN {} ELSE {Delta}
    BY <1>1, <1>4 DEF TopicsInv, TopicsFollow
  <2>2. ~None(down, {"SUBACK"}) BY <1>1, <1>2, TailKeeps
  <2>3. None(down', {"SUBACK"}) BY <1>1, <1>2, <2>1, TailKeeps
  <2>4. None(up', {"SUBSCRIBE"}) BY <1>1, <2>1, <2>2
  <2> QED BY <1>1, <2>1, <2>2, <2>3, <2>4 DEF Settled
<1> QED BY <1>1, <1>3, <1>4 DEF TopicsInv, TopicsFollow

\* A CONNACK.
LEMMA ConackStep ==
    ASSUME NetTypeOK, TopicsInv, NEW ev, TaskConack(ev)
    PROVE  TopicsInv'
<1>1. eStatus = "WAIT_FOR_MQTT_CONACK" /\ CanRead
  BY DEF TaskConack, TaskIn, Incoming
<1>2. Settled /\ subs = {} /\ handlers = {} /\ down \in Seq(Down) /\ down # <<>>
  BY <1>1 DEF TopicsInv, SessionBeginsEmpty, CanRead, NetTypeOK
<1>3. CASE GiveUp BY <1>3, ClosedStep DEF GiveUp
<1>4. CASE /\ Sends("SUBSCRIBE") /\ eStatus' = "WAIT_FOR_MQTT_SUBACK"
           /\ down' = Tail(down) /\ UNCHANGED <<handlers, session, wire, subs>>
  <2>1. SessionBeginsEmpty BY DEF TopicsInv
  <2> QED BY <1>2, <1>4, <2>1, AskedStep
<1> QED BY <1>3, <1>4 DEF TaskConack

\* Every case of the switch.
LEMMA TaskTopics ==
    ASSUME NetTypeOK, TopicsInv, NEW ev, Task(ev)
    PROVE  TopicsInv'
<1>1. CASE TaskLowerLayerDown(ev)
  BY <1>1, IdleStep DEF TaskLowerLayerDown, netVars
<1>2. CASE TaskSockConnected(ev)
  <2>1. CASE NetDisconnect /\ eStatus' = "MQTT_DISCONNECTING" BY <2>1, ClosedStep
  <2>2. CASE /\ Sends("CONNECT") /\ eStatus' = "WAIT_FOR_MQTT_CONACK" /\ CloseSession
             /\ UNCHANGED <<session, wire, down, subs>>
    <3>1. Settled /\ subs = {}
      BY <1>2 DEF TaskSockConnected, TaskIn, TopicsInv, SessionBeginsEmpty
    <3>2. "CONNECT" \in Up /\ session = "Reported" BY <2>2 DEF Up, Sends
    <3>3. Settled' BY <2>2, <3>1, <3>2, SendsQueue DEF Settled
    <3> QED
      BY <2>2, <3>1, <3>2, <3>3 DEF TopicsInv, SessionBeginsEmpty, TopicsFollow, CloseSession
  <2> QED BY <1>2, <2>1, <2>2 DEF TaskSockConnected
<1>3. CASE TaskConack(ev) BY <1>3, ConackStep
<1>4. CASE TaskSuback(ev) BY <1>4, SubackStep
<1>6. CASE TaskPuback(ev)
  <2>1. /\ eStatus = "WAIT_FOR_MQTT_PUBACK" /\ eStatus' = "MQTT_CONNECTED"
        /\ UNCHANGED <<handlers, session, wire, up, subs>>
    BY <1>6 DEF TaskPuback, TaskIn
  <2>2. down \in Seq(Down) /\ down # <<>> /\ down' = Tail(down) /\ session = "Reported"
    BY <1>6 DEF TaskPuback, Incoming, CanRead, NetTypeOK
  <2>3. None(down, {"SUBACK"}) => None(down', {"SUBACK"}) BY <2>2, TailKeeps
  <2> QED BY <2>1, <2>2, <2>3 DEF TopicsInv, SessionBeginsEmpty, TopicsFollow, Settled
<1>7. CASE TaskWaits(ev)
  <2>1. /\ \E event \in Timeouts : WaitsFor(event, ev)
        /\ eStatus = "WAIT_FOR_MQTT_SUBACK" => Incoming # "SUBACK"
    BY <1>7 DEF TaskWaits, Timeouts, TaskIn
  <2>2. CASE timer = "Expired" BY <2>1, <2>2, ClosedStep DEF WaitsFor
  <2>3. CASE timer # "Expired"
    BY <2>1, <2>3, CycledStep DEF WaitsFor
  <2> QED BY <2>2, <2>3
<1>8. CASE TaskConnected(ev)
  <2>1. eStatus = "MQTT_CONNECTED" BY <1>8 DEF TaskConnected, TaskIn
  <2>2. CASE Cycled /\ UNCHANGED <<eStatus, isconnected, handlers, session, wire, subs>>
    BY <2>1, <2>2, CycledStep
  <2>3. CASE Sends("PINGREQ")
             /\ UNCHANGED <<eStatus, isconnected, handlers, session, wire, down, subs>>
    BY <2>1, <2>3, SentStep DEF Up
  <2>4. CASE NetDisconnect /\ eStatus' = "MQTT_DISCONNECTING" BY <2>4, ClosedStep
  <2> QED BY <1>8, <2>2, <2>3, <2>4 DEF TaskConnected
<1>9. CASE TaskDisconnecting(ev)
  BY <1>9, IdleStep DEF TaskDisconnecting, netVars
<1>10. CASE TaskIdle(ev)
  <2>1. /\ eStatus \in {"MQTT_DISCONNECTED", "SOCK_CLIENT_CONNECTING"}
        /\ UNCHANGED <<eStatus, session, wire, up, down, subs>>
    BY <1>10 DEF TaskIdle, netVars
  <2> QED BY <2>1, IdleStep
<1> QED
  BY <1>1, <1>2, <1>3, <1>4, <1>6, <1>7, <1>8, <1>9, <1>10 DEF Task

\* Publishing.
LEMMA SendMsgTopics ==
    ASSUME NetTypeOK, TopicsInv, NEW p \in Up \ {"SUBSCRIBE"}, SendMsg(p)
    PROVE  TopicsInv'
<1>1. CASE UNCHANGED <<eStatus, timer, clientVars, netVars>>
  BY <1>1, TopicsFrame DEF clientVars, netVars
<1>2. CASE /\ eStatus = "MQTT_CONNECTED" /\ Sends(p)
           /\ eStatus' = "WAIT_FOR_MQTT_PUBACK"
           /\ UNCHANGED <<isconnected, ping, handlers, session, wire, down, subs>>
  BY <1>2, SentStep
<1>3. CASE GiveUp BY <1>3, ClosedStep DEF GiveUp
<1> QED BY <1>1, <1>2, <1>3 DEF SendMsg

\* SYS_NET gets, reports and loses connections.
LEMMA NetTopics ==
    ASSUME TopicsInv, NetTask \/ NetComesUp \/ NetAttemptFails
    PROVE  TopicsInv'
<1> USE DEF TopicsInv, SessionBeginsEmpty, TopicsFollow
<1>1. CASE NetReportsConnected
  <2>1. /\ session = "Ready" /\ session' = "Reported" /\ eStatus' = "SOCK_CONNECTED"
        /\ UNCHANGED <<wire, up, down, subs>>
    BY <1>1 DEF NetReportsConnected, Net!ReportConnected
  <2>2. up = <<>> /\ down = <<>> /\ subs = {} BY <2>1
  <2>3. Settled' BY <2>1, <2>2, EmptyNone DEF Settled
  <2> QED BY <2>1, <2>2, <2>3
<1>2. CASE NetNoticesLoss
  <2>1. /\ session' = "Ended" /\ ConnectionGone /\ UNCHANGED <<eStatus, handlers>>
    BY <1>2 DEF NetNoticesLoss, Net!End, svcVars, clientVars
  <2>2. up' = <<>> /\ down' = <<>> /\ subs' = {} /\ wire' = "Dead"
    BY <2>1 DEF ConnectionGone
  <2>3. Settled' BY <2>2, EmptyNone DEF Settled
  <2> QED BY <2>1, <2>2, <2>3
<1>3. CASE NetReportsDisconnected
  <2>1. /\ session = "Ended" /\ session' = "None"
        /\ eStatus' \in {"MQTT_DISCONNECTING", "MQTT_DISCONNECTED"}
        /\ UNCHANGED <<wire, up, down, subs>>
    BY <1>3 DEF NetReportsDisconnected, Net!ReportDisconnected, StatusAfterLoss
  <2> QED BY <2>1
<1>4. CASE NetQuiet
  BY <1>4, TopicsFrame DEF NetQuiet, netVars, clientVars
<1>5. CASE NetComesUp
  <2>1. /\ session = "None" /\ session' = "Ready"
        /\ eStatus \in {"SOCK_CLIENT_CONNECTING", "MQTT_DISCONNECTED"}
        /\ UNCHANGED <<eStatus, up, down, subs>>
    BY <1>5 DEF NetComesUp, Net!Begin, svcVars
  <2> QED BY <2>1
<1>6. CASE NetAttemptFails
  <2>1. /\ eStatus' \in {"MQTT_DISCONNECTING", "MQTT_DISCONNECTED"}
        /\ UNCHANGED <<session, wire, up, down, subs>>
    BY <1>6 DEF NetAttemptFails, StatusAfterLoss, netVars
  <2> QED BY <2>1, IdleStep
<1> QED BY <1>1, <1>2, <1>3, <1>4, <1>5, <1>6 DEF NetTask

\* The answer of the broker to a packet.
LEMMA AnswerIs ==
    ASSUME NEW p \in Up
    PROVE  /\ p = "SUBSCRIBE" => BrokerAnswer(p) = <<"SUBACK">>
           /\ p # "SUBSCRIBE" => \/ BrokerAnswer(p) = <<>>
                                \/ \E d \in Down \ {"SUBACK"} : BrokerAnswer(p) = <<d>>
<1>1. CASE p = "SUBSCRIBE" BY <1>1 DEF BrokerAnswer, Answers
<1>2. CASE p # "SUBSCRIBE"
  <2>1. CASE p \in DOMAIN Answers
    <3>1. Answers[p] \in Down \ {"SUBACK"}
      BY <1>2, <2>1 DEF Answers, Down
    <3> QED BY <2>1, <3>1, <1>2 DEF BrokerAnswer
  <2>2. CASE p \notin DOMAIN Answers BY <2>2, <1>2 DEF BrokerAnswer
  <2> QED BY <2>1, <2>2
<1> QED BY <1>1, <1>2

\* Putting one packet, or none, behind a queue of answers.
LEMMA ConcatIs ==
    ASSUME NEW q \in Seq(Down)
    PROVE  q \o <<>> = q /\ \A d \in Down : q \o <<d>> = Append(q, d)
  OBVIOUS

\* The broker takes a packet that asks for no subscription, or refuses one.
LEMMA OtherTaken ==
    ASSUME NetTypeOK, TopicsInv, up # <<>>, up' = Tail(up),
           \/ down' = down
           \/ \E d \in Down \ {"SUBACK"} : down' = Append(down, d),
           UNCHANGED <<eStatus, session, wire, subs, handlers>>
    PROVE  TopicsInv'
<1>1. up \in Seq(Up) /\ down \in Seq(Down) BY DEF NetTypeOK
<1>2. /\ None(up, {"SUBSCRIBE"}) => None(up', {"SUBSCRIBE"})
      /\ Single(up, {"SUBSCRIBE"}) => Single(up', {"SUBSCRIBE"})
  BY <1>1, TailKeeps
<1>3. /\ None(down, {"SUBACK"}) <=> None(down', {"SUBACK"})
      /\ Single(down, {"SUBACK"}) => Single(down', {"SUBACK"})
  <2>1. CASE down' = down BY <2>1
  <2>2. ASSUME NEW d \in Down \ {"SUBACK"}, down' = Append(down, d)
        PROVE  /\ None(down, {"SUBACK"}) <=> None(down', {"SUBACK"})
               /\ Single(down, {"SUBACK"}) => Single(down', {"SUBACK"})
    BY <1>1, <2>2, AppendKeeps
  <2> QED BY <2>1, <2>2
<1>4. Settled => Settled' BY <1>2, <1>3 DEF Settled
<1>5. SessionBeginsEmpty' BY <1>4 DEF TopicsInv, SessionBeginsEmpty
<1> QED BY <1>2, <1>3, <1>4, <1>5 DEF TopicsInv, TopicsFollow

\* The broker takes the request for the subscription: it is the one in progress.
LEMMA AskTaken ==
    ASSUME NetTypeOK, TopicsInv, BrokerTakes, Head(up) = "SUBSCRIBE"
    PROVE  TopicsInv'
<1>1. /\ up \in Seq(Up) /\ down \in Seq(Down) /\ up # <<>> /\ wire = "Good"
      /\ up' = Tail(up) /\ UNCHANGED <<eStatus, session, wire, handlers>>
  BY DEF NetTypeOK, BrokerTakes, svcVars, clientVars
<1>2. ~None(up, {"SUBSCRIBE"}) BY <1>1, TailKeeps
<1>3. ~Settled BY <1>2 DEF Settled
<1>4. SessionBeginsEmpty' BY <1>1, <1>3 DEF TopicsInv, SessionBeginsEmpty
<1>5. CASE eStatus = "WAIT_FOR_MQTT_SUBACK"
  <2>1. Single(up, {"SUBSCRIBE"}) /\ None(down, {"SUBACK"}) /\ subs = handlers
    BY <1>1, <1>2, <1>5 DEF TopicsInv, TopicsFollow
  <2>2. /\ down' = Append(down, "SUBACK") /\ "SUBACK" \in Down
        /\ subs' = subs \cup {Delta}
    <3>1. "SUBACK" \in Down /\ Head(up) \in Up BY <1>1 DEF Down, Up
    <3>2. BrokerAnswer(Head(up)) = <<"SUBACK">> BY <3>1, AnswerIs
    <3>3. down' = down \o BrokerAnswer(Head(up)) BY DEF BrokerTakes
    <3> QED BY <1>1, <3>1, <3>2, <3>3, ConcatIs DEF BrokerTakes
  <2>3. None(up', {"SUBSCRIBE"}) /\ Single(up', {"SUBSCRIBE"})
    BY <1>1, <2>1, TailKeeps, NoneSingle
  <2>4. Single(down', {"SUBACK"}) /\ ~None(down', {"SUBACK"})
    BY <1>1, <2>1, <2>2, AppendKeeps
  <2> QED BY <1>1, <1>4, <1>5, <2>1, <2>2, <2>3, <2>4 DEF TopicsInv, TopicsFollow
<1>6. eStatus \notin {"MQTT_CONNECTED", "WAIT_FOR_MQTT_PUBACK"}
  BY <1>1, <1>3 DEF TopicsInv, TopicsFollow
<1> QED BY <1>1, <1>4, <1>5, <1>6 DEF TopicsInv, TopicsFollow

\* The broker and the wire.
LEMMA BrokerTopics ==
    ASSUME NetTypeOK, TopicsInv,
           \/ BrokerTakes \/ BrokerRefuses
           \/ \E v \in Desired : BrokerSends(v)
           \/ \E how \in {"Mute", "Dead"} : ConnectionLost(how)
    PROVE  TopicsInv'
<1>0. up \in Seq(Up) /\ down \in Seq(Down) BY DEF NetTypeOK
<1>1. CASE BrokerTakes
  <2>1. CASE Head(up) = "SUBSCRIBE" BY <1>1, <2>1, AskTaken
  <2>2. CASE Head(up) # "SUBSCRIBE"
    <3>1. /\ up # <<>> /\ up' = Tail(up) /\ Head(up) \in Up
          /\ down' = down \o BrokerAnswer(Head(up))
          /\ UNCHANGED <<eStatus, session, wire, handlers>>
      BY <1>0, <1>1 DEF BrokerTakes, svcVars, clientVars
    <3>2. subs' = subs BY <1>1, <2>2 DEF BrokerTakes
    <3>3. \/ BrokerAnswer(Head(up)) = <<>>
          \/ \E d \in Down \ {"SUBACK"} : BrokerAnswer(Head(up)) = <<d>>
      BY <2>2, <3>1, AnswerIs
    <3>4. down' = down \/ \E d \in Down \ {"SUBACK"} : down' = Append(down, d)
      BY <1>0, <3>1, <3>3, ConcatIs
    <3> QED BY <3>1, <3>2, <3>4, OtherTaken
  <2> QED BY <2>1, <2>2
<1>2. CASE BrokerRefuses
  <2>1. /\ up # <<>> /\ up' = Tail(up) /\ down' = Append(down, "REFUSED")
        /\ UNCHANGED <<eStatus, session, wire, subs, handlers>>
    BY <1>2 DEF BrokerRefuses, svcVars, clientVars
  <2>2. "REFUSED" \in Down \ {"SUBACK"} BY DEF Down
  <2> QED BY <2>1, <2>2, OtherTaken
<1>3. CASE \E v \in Desired : BrokerSends(v)
  <2>1. PICK v \in Desired : BrokerSends(v) BY <1>3
  <2>2. /\ down' = Append(down, v) /\ subs # {}
        /\ UNCHANGED <<eStatus, session, wire, up, subs, handlers>>
    BY <2>1 DEF BrokerSends, svcVars, clientVars
  <2>3. v \in Down /\ v \notin {"SUBACK"} BY DEF Desired, Down
  <2>4. /\ None(down, {"SUBACK"}) <=> None(down', {"SUBACK"})
        /\ Single(down, {"SUBACK"}) => Single(down', {"SUBACK"})
    BY <1>0, <2>2, <2>3, AppendKeeps
  <2>5. Settled => Settled' BY <2>2, <2>4 DEF Settled
  <2>6. SessionBeginsEmpty' BY <2>2, <2>5 DEF TopicsInv, SessionBeginsEmpty
  <2> QED BY <2>2, <2>4, <2>5, <2>6 DEF TopicsInv, TopicsFollow
<1>4. CASE \E how \in {"Mute", "Dead"} : ConnectionLost(how)
  <2>1. /\ session = "Reported" /\ wire' # "Good" /\ up' = <<>>
        /\ UNCHANGED <<eStatus, session, subs, handlers>>
    BY <1>4 DEF ConnectionLost, svcVars, clientVars
  <2>2. down' = <<>> \/ down' = down BY <1>4, Zenon DEF ConnectionLost
  <2>3. Settled => Settled' BY <2>1, <2>2, EmptyNone DEF Settled
  <2> QED BY <2>1, <2>3 DEF TopicsInv, SessionBeginsEmpty, TopicsFollow
<1> QED BY <1>1, <1>2, <1>3, <1>4

\* Every step of the task, the network, the broker and the clock.
LEMMA TopicsStep == TypeOK /\ TopicsInv /\ [Next]_vars => TopicsInv'
<1> SUFFICES ASSUME TypeOK, TopicsInv, [Next]_vars PROVE TopicsInv'
  OBVIOUS
<1>0. NetTypeOK BY DEF TypeOK, SvcTypeOK
<1>1. CASE AppPublishes
  <2>1. Message \in Up \ {"SUBSCRIBE"} BY DEF Message, TypeOK, Desired, Up
  <2> QED BY <1>0, <1>1, <2>1, SendMsgTopics DEF AppPublishes
<1>2. CASE AppSkips BY <1>2, TopicsFrame DEF AppSkips, clientVars, netVars
<1>3. CASE NetStep BY <1>3, NetTopics DEF NetStep
<1>4. CASE MqttStep BY <1>0, <1>4, TaskTopics DEF MqttStep
<1>5. CASE MqttHangs
  <2>1. /\ Cycled /\ eStatus = "WAIT_FOR_MQTT_PUBACK"
        /\ UNCHANGED <<eStatus, session, wire, subs, handlers>>
    BY <1>5 DEF MqttHangs, svcVars
  <2> QED BY <1>0, <2>1, CycledStep
<1>6. CASE Tick BY <1>6, TopicsFrame DEF Tick, mqttVars, svcVars, clientVars, netVars
<1>7. CASE Broker BY <1>0, <1>7, BrokerTopics DEF Broker
<1>8. CASE Connecting BY <1>8, NetTopics DEF Connecting
<1>9. CASE Expires \/ Quiets
  BY <1>9, TopicsFrame DEF Expires, Quiets, TimerExpires, QuietMinute, svcVars, clientVars,
     netVars
<1>10. CASE Disturbance
  BY <1>0, <1>10, NetTopics, BrokerTopics DEF Disturbance
<1>11. CASE UNCHANGED vars
  BY <1>11, TopicsFrame DEF vars, mqttVars, svcVars, clientVars, netVars
<1> QED
  BY <1>1, <1>2, <1>3, <1>4, <1>5, <1>6, <1>7, <1>8, <1>9, <1>10, <1>11
     DEF Next, AppTask

\* Whenever the service rests in a connection to a broker that is there, the client
\* has a handler for exactly the topic the broker sends, however often connections
\* are lost and requests refused, as long as the console is not used.
THEOREM HandlersAlwaysMatch == Spec => []HandlersMatchBroker
<1>1. Init => TopicsInv
  BY EmptyNone DEF Init, SvcInit, TopicsInv, SessionBeginsEmpty, TopicsFollow
<1>2. TopicsInv => HandlersMatchBroker
  BY DEF TopicsInv, TopicsFollow, HandlersMatchBroker
<1> QED BY <1>1, <1>2, TopicsStep, TypeCorrect, PTL DEF Spec

-----------------------------------------------------------------------------
(* Publishes                                                                 *)

\* No publish is sent and no PUBACK is waited for.
LEMMA PubMoves ==
    ASSUME NetTypeOK, PublishInv,
           eStatus # "WAIT_FOR_MQTT_PUBACK", eStatus' # "WAIT_FOR_MQTT_PUBACK",
           up' = up \/ \E p \in Up \ Pubs : Sends(p),
           down' = down \/ (down # <<>> /\ down' = Tail(down))
    PROVE  PublishInv'
<1>1. None(up, Pubs) /\ None(down, {"PUBACK"})
  BY DEF PublishInv
<1>2. None(up', Pubs)
  <2>1. CASE up' = up BY <1>1, <2>1
  <2>2. ASSUME NEW p \in Up \ Pubs, Sends(p)
        PROVE  None(up', Pubs)
    BY <1>1, <2>2, SendsQueue
  <2> QED BY <2>1, <2>2
<1>3. None(down', {"PUBACK"})
  <2>1. down \in Seq(Down) BY DEF NetTypeOK
  <2>2. CASE down' = down BY <1>1, <2>2
  <2>3. CASE down # <<>> /\ down' = Tail(down) BY <1>1, <2>1, <2>3, TailKeeps
  <2> QED BY <2>2, <2>3
<1> QED BY <1>2, <1>3 DEF PublishInv

\* The connection is closed.
LEMMA PubClosed ==
    ASSUME up' = <<>>, down' = <<>>,
           eStatus' # "WAIT_FOR_MQTT_PUBACK" \/ (PublishInv /\ UNCHANGED <<eStatus, taken>>)
    PROVE  PublishInv'
<1>1. \A S : None(up', S) /\ None(down', S) BY EmptyNone
<1>2. \A S : Single(up', S) /\ Single(down', S) BY <1>1, NoneSingle
<1> QED BY <1>1, <1>2 DEF PublishInv

\* Packets are read while the status stays.
LEMMA PubCycled ==
    ASSUME NetTypeOK, PublishInv, Cycled, UNCHANGED <<eStatus, taken>>
    PROVE  PublishInv'
<1>1. /\ None(up, Pubs) => None(up', Pubs)
      /\ Single(up, Pubs) => Single(up', Pubs)
  BY CycledUp DEF Pubs, Desired
<1>2. /\ None(down, {"PUBACK"}) => None(down', {"PUBACK"})
      /\ Single(down, {"PUBACK"}) => Single(down', {"PUBACK"})
  BY CycledDown
<1> QED BY <1>1, <1>2 DEF PublishInv

\* Nothing of it changes.
LEMMA PubFrame ==
    ASSUME PublishInv, UNCHANGED <<eStatus, up, down, taken>>
    PROVE  PublishInv'
  BY DEF PublishInv, None, Single

\* The application publishes.
LEMMA PubSent ==
    ASSUME NetTypeOK, PublishInv, NEW p \in Pubs, SendMsg(p),
           taken' = (taken /\ eStatus # "MQTT_CONNECTED")
    PROVE  PublishInv'
<1>1. CASE eStatus # "MQTT_CONNECTED" /\ UNCHANGED <<eStatus, timer, clientVars, netVars>>
  BY <1>1, PubFrame DEF netVars, PublishInv
<1>2. CASE /\ eStatus = "MQTT_CONNECTED" /\ Sends(p)
           /\ eStatus' = "WAIT_FOR_MQTT_PUBACK" /\ down' = down
  <2>1. None(up, Pubs) /\ None(down, {"PUBACK"})
    BY <1>2 DEF PublishInv
  <2>2. p \in Up BY DEF Pubs, Up, Desired
  <2>3. Single(up', Pubs)
    BY <1>2, <2>1, <2>2, SendsQueue
  <2>4. None(down', {"PUBACK"}) /\ Single(down', {"PUBACK"}) BY <1>2, <2>1, NoneSingle
  <2> QED BY <1>2, <2>3, <2>4 DEF PublishInv
<1>3. CASE GiveUp BY <1>3, PubClosed DEF GiveUp, NetDisconnect, ConnectionGone
<1> QED BY <1>1, <1>2, <1>3 DEF SendMsg

\* Every case of the switch. The wait ends with the PUBACK of the publish.
LEMMA TaskPublishes ==
    ASSUME NetTypeOK, PublishInv, NEW ev, Task(ev), taken' = taken
    PROVE  PublishInv'
<1>0. ASSUME NetDisconnect, eStatus' = "MQTT_DISCONNECTING" PROVE PublishInv'
  BY <1>0, PubClosed DEF NetDisconnect, ConnectionGone
<1>1. CASE TaskLowerLayerDown(ev) \/ TaskDisconnecting(ev) \/ TaskIdle(ev)
  <2>1. /\ eStatus # "WAIT_FOR_MQTT_PUBACK" /\ eStatus' # "WAIT_FOR_MQTT_PUBACK"
        /\ up' = up /\ down' = down
    BY <1>1 DEF TaskLowerLayerDown, TaskDisconnecting, TaskIdle, TaskIn, netVars
  <2> QED BY <2>1, PubMoves
<1>2. CASE TaskSockConnected(ev)
  <2>1. CASE NetDisconnect /\ eStatus' = "MQTT_DISCONNECTING" BY <1>0, <2>1
  <2>2. CASE Sends("CONNECT") /\ eStatus' = "WAIT_FOR_MQTT_CONACK" /\ down' = down
    <3>1. "CONNECT" \in Up \ Pubs BY DEF Up, Pubs, Desired
    <3>2. eStatus # "WAIT_FOR_MQTT_PUBACK" BY <1>2 DEF TaskSockConnected, TaskIn
    <3> QED BY <2>2, <3>1, <3>2, PubMoves
  <2> QED BY <1>2, <2>1, <2>2 DEF TaskSockConnected
<1>3. CASE TaskConack(ev)
  <2>1. eStatus # "WAIT_FOR_MQTT_PUBACK" /\ down # <<>>
    BY <1>3 DEF TaskConack, TaskIn, Incoming, CanRead
  <2>2. CASE GiveUp BY <1>0, <2>2 DEF GiveUp
  <2>3. CASE Sends("SUBSCRIBE") /\ eStatus' = "WAIT_FOR_MQTT_SUBACK" /\ down' = Tail(down)
    <3>1. "SUBSCRIBE" \in Up \ Pubs BY DEF Up, Pubs, Desired
    <3> QED BY <2>1, <2>3, <3>1, PubMoves
  <2> QED BY <1>3, <2>2, <2>3 DEF TaskConack
<1>4. CASE TaskSuback(ev)
  <2>1. /\ eStatus # "WAIT_FOR_MQTT_PUBACK" /\ eStatus' # "WAIT_FOR_MQTT_PUBACK"
        /\ up' = up /\ down # <<>> /\ down' = Tail(down)
    BY <1>4 DEF TaskSuback, TaskIn, Incoming, CanRead
  <2> QED BY <2>1, PubMoves
<1>5. CASE TaskPuback(ev)
  <2>1. eStatus = "WAIT_FOR_MQTT_PUBACK" BY <1>5 DEF TaskPuback, TaskIn
  <2>2. /\ down \in Seq(Down) /\ down # <<>> /\ Head(down) = "PUBACK"
        /\ down' = Tail(down) /\ up' = up /\ eStatus' = "MQTT_CONNECTED"
    BY <1>5, <2>1 DEF TaskPuback, Incoming, CanRead, NetTypeOK
  <2>3. ~None(down, {"PUBACK"}) BY <2>2, TailKeeps
  <2>4. None(up, Pubs) /\ Single(down, {"PUBACK"})
    BY <2>1, <2>3 DEF PublishInv
  <2>5. None(down', {"PUBACK"}) BY <2>2, <2>4, TailKeeps
  <2> QED BY <2>2, <2>4, <2>5 DEF PublishInv
<1>6. CASE TaskWaits(ev)
  <2>1. PICK event \in Timeouts : WaitsFor(event, ev) BY <1>6 DEF TaskWaits, Timeouts
  <2>2. CASE timer = "Expired" BY <1>0, <2>1, <2>2 DEF WaitsFor
  <2>3. CASE timer # "Expired" BY <2>1, <2>3, PubCycled DEF WaitsFor
  <2> QED BY <2>2, <2>3
<1>7. CASE TaskConnected(ev)
  <2>1. eStatus = "MQTT_CONNECTED" BY <1>7 DEF TaskConnected, TaskIn
  <2>2. CASE Cycled /\ UNCHANGED eStatus BY <2>1, <2>2, PubCycled
  <2>3. CASE Sends("PINGREQ") /\ UNCHANGED <<eStatus, down>>
    <3>1. "PINGREQ" \in Up \ Pubs BY DEF Up, Pubs, Desired
    <3> QED BY <2>1, <2>3, <3>1, PubMoves
  <2>4. CASE NetDisconnect /\ eStatus' = "MQTT_DISCONNECTING" BY <1>0, <2>4
  <2> QED BY <1>7, <2>2, <2>3, <2>4 DEF TaskConnected
<1> QED BY <1>1, <1>2, <1>3, <1>4, <1>5, <1>6, <1>7 DEF Task

\* SYS_NET reports only what leaves nothing under way.
LEMMA NetPublishes ==
    ASSUME NetTypeOK, TopicsInv, PublishInv, NetTask \/ NetComesUp \/ NetAttemptFails,
           taken' = taken
    PROVE  PublishInv'
<1>1. CASE NetReportsConnected \/ NetReportsDisconnected \/ NetAttemptFails
  <2>1. session # "Reported" /\ UNCHANGED <<up, down>>
        /\ eStatus' # "WAIT_FOR_MQTT_PUBACK"
    BY <1>1 DEF NetReportsConnected, NetReportsDisconnected, NetAttemptFails, StatusAfterLoss,
       Net!ReportConnected, Net!ReportDisconnected, netVars
  <2>2. up' = <<>> /\ down' = <<>> BY <2>1 DEF TopicsInv, SessionBeginsEmpty
  <2> QED BY <2>1, <2>2, PubClosed
<1>2. CASE NetNoticesLoss
  BY <1>2, PubClosed DEF NetNoticesLoss, ConnectionGone, svcVars
<1>3. CASE NetQuiet \/ NetComesUp
  BY <1>3, PubFrame DEF NetQuiet, NetComesUp, netVars, svcVars
<1> QED BY <1>1, <1>2, <1>3 DEF NetTask

\* The broker answers a publish with a PUBACK, and nothing else with one.
LEMMA PubAnswer ==
    ASSUME NEW p \in Up
    PROVE  /\ p \in Pubs => BrokerAnswer(p) = <<"PUBACK">>
           /\ p \notin Pubs =>
                 \/ BrokerAnswer(p) = <<>>
                 \/ \E d \in Down \ {"PUBACK"} : BrokerAnswer(p) = <<d>>
<1>1. CASE p \in Pubs BY <1>1 DEF BrokerAnswer, Answers, Pubs, Desired
<1>2. CASE p \notin Pubs
  <2>1. CASE p \in DOMAIN Answers
    <3>1. Answers[p] \in Down \ {"PUBACK"}
      BY <1>2, <2>1 DEF Answers, Pubs, Desired, Down
    <3> QED BY <1>2, <2>1, <3>1 DEF BrokerAnswer
  <2>2. CASE p \notin DOMAIN Answers BY <1>2, <2>2 DEF BrokerAnswer
  <2> QED BY <2>1, <2>2
<1> QED BY <1>1, <1>2

\* The broker takes or refuses something else, or sends a delta message.
LEMMA OtherPublishes ==
    ASSUME NetTypeOK, PublishInv,
           up' = up \/ (up # <<>> /\ up' = Tail(up)),
           down' = down \/ \E d \in Down \ {"PUBACK"} : down' = Append(down, d),
           UNCHANGED eStatus, taken => taken'
    PROVE  PublishInv'
<1>1. up \in Seq(Up) /\ down \in Seq(Down) BY DEF NetTypeOK
<1>2. ASSUME NEW S PROVE /\ None(up, S) => None(up', S)
                         /\ Single(up, S) => Single(up', S)
  <2>1. CASE up' = up BY <2>1
  <2>2. CASE up # <<>> /\ up' = Tail(up) BY <1>1, <2>2, TailKeeps
  <2> QED BY <2>1, <2>2
<1>3. /\ None(down, {"PUBACK"}) => None(down', {"PUBACK"})
      /\ Single(down, {"PUBACK"}) => Single(down', {"PUBACK"})
  <2>1. CASE down' = down BY <2>1
  <2>2. ASSUME NEW d \in Down \ {"PUBACK"}, down' = Append(down, d)
        PROVE  /\ None(down, {"PUBACK"}) => None(down', {"PUBACK"})
               /\ Single(down, {"PUBACK"}) => Single(down', {"PUBACK"})
    BY <1>1, <2>2, AppendKeeps
  <2> QED BY <2>1, <2>2
<1>4. /\ None(up, Pubs) => None(up', Pubs) /\ Single(up', Pubs)
      /\ Single(up, Pubs) => Single(up', Pubs)
  BY <1>2, NoneSingle
<1> QED BY <1>3, <1>4 DEF PublishInv

\* The broker takes a publish: it is the one that is waited for.
LEMMA PublishTaken ==
    ASSUME NetTypeOK, PublishInv, BrokerTakes, Head(up) \in Pubs, taken'
    PROVE  PublishInv'
<1>1. /\ up \in Seq(Up) /\ down \in Seq(Down) /\ up # <<>> /\ up' = Tail(up)
      /\ Head(up) \in Up /\ UNCHANGED eStatus
  BY DEF NetTypeOK, BrokerTakes, svcVars
<1>2. ~None(up, Pubs) BY <1>1, TailKeeps
<1>3. eStatus = "WAIT_FOR_MQTT_PUBACK" BY <1>2 DEF PublishInv
<1>4. Single(up, Pubs) /\ None(down, {"PUBACK"})
  BY <1>2, <1>3 DEF PublishInv
<1>5. "PUBACK" \in Down BY DEF Down
<1>6. down' = Append(down, "PUBACK") BY <1>1, <1>5, PubAnswer, ConcatIs DEF BrokerTakes
<1>7. None(up', Pubs) BY <1>1, <1>4, TailKeeps
<1>8. Single(down', {"PUBACK"}) BY <1>1, <1>4, <1>5, <1>6, AppendKeeps
<1> QED BY <1>1, <1>3, <1>4, <1>7, <1>8, NoneSingle DEF PublishInv

\* Every step keeps it.
LEMMA PublishStep == TypeOK /\ TopicsInv /\ PublishInv /\ [Next]_vars => PublishInv'
<1> SUFFICES ASSUME TypeOK, TopicsInv, PublishInv, [Next]_vars PROVE PublishInv'
  OBVIOUS
<1>0. NetTypeOK BY DEF TypeOK, SvcTypeOK
<1>0a. up \in Seq(Up) /\ down \in Seq(Down) BY <1>0 DEF NetTypeOK
<1>1. CASE AppPublishes
  <2>1. Message \in Pubs BY DEF Message, TypeOK, Pubs
  <2> QED BY <1>0, <1>1, <2>1, PubSent DEF AppPublishes
<1>2. CASE AppSkips BY <1>2, PubFrame DEF AppSkips, netVars
<1>3. CASE NetStep BY <1>0, <1>3, NetPublishes DEF NetStep
<1>4. CASE MqttStep BY <1>0, <1>4, TaskPublishes DEF MqttStep
<1>5. CASE MqttHangs BY <1>0, <1>5, PubCycled DEF MqttHangs, svcVars
<1>6. CASE Tick BY <1>6, PubFrame DEF Tick, mqttVars, svcVars, netVars
<1>7. CASE Broker
  <2>1. BrokerTakes /\ up # <<>> /\ Head(up) \in Up
    BY <1>0a, <1>7 DEF Broker, BrokerTakes
  <2>2. CASE Head(up) \in Pubs
    BY <1>0, <1>7, <2>1, <2>2, PublishTaken DEF Broker, Pubs
  <2>3. CASE Head(up) \notin Pubs
    <3>2. \/ BrokerAnswer(Head(up)) = <<>>
          \/ \E d \in Down \ {"PUBACK"} : BrokerAnswer(Head(up)) = <<d>>
      BY <2>1, <2>3, PubAnswer
    <3>3. down' = down \o BrokerAnswer(Head(up)) BY <2>1 DEF BrokerTakes
    <3>4. down' = down \/ \E d \in Down \ {"PUBACK"} : down' = Append(down, d)
      BY <1>0a, <3>2, <3>3, ConcatIs
    <3>5. up' = Tail(up) /\ UNCHANGED eStatus BY <2>1 DEF BrokerTakes, svcVars
    <3>6. taken => taken' BY <1>7 DEF Broker
    <3> QED BY <1>0, <2>1, <3>4, <3>5, <3>6, OtherPublishes
  <2> QED BY <2>2, <2>3
<1>8. CASE Connecting BY <1>0, <1>8, NetPublishes DEF Connecting
<1>9. CASE Expires \/ Quiets
  BY <1>9, PubFrame DEF Expires, Quiets, TimerExpires, QuietMinute, svcVars, netVars
<1>10. CASE Disturbance
  <2>2. taken' = taken BY <1>10 DEF Disturbance
  <2>3. CASE NetAttemptFails BY <1>0, <2>2, <2>3, NetPublishes
  <2>4. CASE BrokerRefuses
    <3>1. "REFUSED" \in Down \ {"PUBACK"} BY DEF Down
    <3> QED BY <1>0, <2>2, <2>4, <3>1, OtherPublishes DEF BrokerRefuses, svcVars
  <2>5. CASE \E v \in Desired : BrokerSends(v)
    <3>1. PICK v \in Desired : BrokerSends(v) BY <2>5
    <3>2. v \in Down \ {"PUBACK"} BY DEF Desired, Down
    <3>3. up' = up /\ down' = Append(down, v) /\ UNCHANGED eStatus
      BY <3>1 DEF BrokerSends, svcVars
    <3> QED BY <1>0, <2>2, <3>2, <3>3, OtherPublishes
  <2>6. CASE \E how \in {"Mute", "Dead"} : ConnectionLost(how)
    <3>1. up' = <<>> /\ UNCHANGED eStatus BY <2>6 DEF ConnectionLost, svcVars
    <3>2. down' = <<>> \/ down' = down BY <2>6, Zenon DEF ConnectionLost
    <3>3. \A S : None(up', S) /\ Single(up', S) BY <3>1, EmptyNone, NoneSingle
    <3>4. CASE down' = <<>> BY <2>2, <3>1, <3>4, PubClosed
    <3>5. CASE down' = down BY <2>2, <3>1, <3>3, <3>5 DEF PublishInv
    <3> QED BY <3>2, <3>4, <3>5
  <2> QED BY <1>10, <2>3, <2>4, <2>5, <2>6 DEF Disturbance
<1>11. CASE UNCHANGED vars BY <1>11, PubFrame DEF vars, mqttVars, svcVars, netVars
<1> QED
  BY <1>1, <1>2, <1>3, <1>4, <1>5, <1>6, <1>7, <1>8, <1>9, <1>10, <1>11
     DEF Next, AppTask

\* Only a PUBACK ends the publish of the application and leaves the connection.
LEMMA EndsWithPuback ==
    ASSUME NetTypeOK, PublishInv, [Next]_vars, MQTTPubQueued, ~MQTTPubQueued',
           eStatus' = "MQTT_CONNECTED"
    PROVE  taken
<1>1. MqttStep
  BY DEF Next, AppTask, AppPublishes, AppSkips, NetStep, MqttHangs, Tick, Broker, Connecting,
     Expires, Quiets, Disturbance, vars, appVars, svcVars
<1>2. PICK ev \in Calls : Task(ev) /\ MqttCallback(ev) BY <1>1 DEF MqttStep
<1>3. ev \cap {"DISCONNECTED", "PUBLISHED", "PUBACK_TO"} # {}
  BY <1>2 DEF MqttCallback
<1>4. ~TaskWaits(ev)
  <2> SUFFICES ASSUME TaskWaits(ev) PROVE FALSE OBVIOUS
  <2>1. PICK event \in Timeouts : WaitsFor(event, ev) BY DEF TaskWaits, Timeouts
  <2>2. eStatus # "MQTT_CONNECTED" BY DEF TaskWaits, TaskIn
  <2>3. eStatus' # "MQTT_CONNECTED" BY <2>1, <2>2 DEF WaitsFor
  <2> QED BY <2>3
<1>5. ~(TaskLowerLayerDown(ev) \/ TaskSockConnected(ev) \/ TaskDisconnecting(ev)
        \/ TaskIdle(ev))
  BY <1>3 DEF TaskLowerLayerDown, TaskSockConnected, TaskDisconnecting, TaskIdle
<1>6. ~TaskConack(ev) BY <1>3 DEF TaskConack
<1>7. ~TaskSuback(ev) BY <1>3 DEF TaskSuback
<1>8. ~TaskConnected(ev) BY <1>3 DEF TaskConnected, Delivered, Desired
<1>9. TaskPuback(ev) BY <1>2, <1>4, <1>5, <1>6, <1>7, <1>8 DEF Task
<1>10. eStatus = "WAIT_FOR_MQTT_PUBACK" BY <1>9 DEF TaskPuback, TaskIn
<1>11. Incoming = "PUBACK" BY <1>9 DEF TaskPuback
<1>12. down # <<>> /\ Head(down) = "PUBACK" BY <1>11 DEF Incoming, CanRead
<1>13. ~None(down, {"PUBACK"})
  <2>1. down \in Seq(Down) BY DEF NetTypeOK
  <2> QED BY <1>12, <2>1, TailKeeps
<1> QED BY <1>10, <1>13 DEF PublishInv

\* The event PUBLISHED comes only when the broker has the message the application
\* published last, when the console is not used: no other publish can be under way,
\* so the PUBACK whose identifier is not compared answers this one.
THEOREM PublishedAlwaysTaken == Spec => PublishedWasTaken
<1>1. Init => TopicsInv
  BY EmptyNone DEF Init, SvcInit, TopicsInv, SessionBeginsEmpty, TopicsFollow
<1>2. Init => PublishInv
  BY EmptyNone DEF Init, SvcInit, PublishInv
<1>3. TypeOK /\ TopicsInv /\ PublishInv /\ [Next]_vars => PublishInv'
  BY PublishStep
<1>4. TypeOK /\ PublishInv /\ [Next]_vars =>
        [MQTTPubQueued /\ ~MQTTPubQueued' /\ eStatus' = "MQTT_CONNECTED" => taken]_vars
  BY EndsWithPuback DEF TypeOK, SvcTypeOK
<1> QED
  BY <1>1, <1>2, <1>3, <1>4, TopicsStep, TypeCorrect, PTL DEF Spec, PublishedWasTaken
=============================================================================
