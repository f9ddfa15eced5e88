----------------------------- MODULE WifiProofs -----------------------------
(***************************************************************************)
(* Proofs about the Wi-Fi service of SysWifi, for any number of retries    *)
(* and an application that may hand it any configuration at any time, with *)
(* the device restarting whenever it likes.                                *)
(***************************************************************************)
EXTENDS SysWifi, TLAPS

Early == {"INIT", "WDRV_OPEN_REQ", "AUTOCONNECT_WAIT"}

\* The service leaves its first statuses only for a configuration with autoConnect,
\* which an application that is registered gave it; no handler and no link is there
\* before.
Provisioned ==
    /\ status \notin Early \/ step # "Idle" \/ link # "Disconnected" \/ handler
          => autoConnect
    /\ autoConnect => appState \in {"CONNECT", "IDLE"}
    /\ appState # "INIT" => registered
    /\ status \in Early \cup {"WAIT_FOR_TCPIP_INIT"}
          => ~handler /\ step = "Idle" /\ link = "Disconnected"
    /\ handler => stackReady

\* What the application believes came from the handler.
ViewFromHandler ==
    /\ status = "STA_IP_RECIEVED" \/ step \in {"Announcing", "Announced"} => handler
    /\ wifiConnected => handler /\ registered

\* The stack sees a link only after one was requested.
BoundAfterHandler ==
    bound \/ seen => status \notin Early \cup {"WAIT_FOR_TCPIP_INIT"} /\ appState \in {"CONNECT", "IDLE"}

WifiInv == WifiTypeOK /\ Provisioned /\ ViewFromHandler /\ BoundAfterHandler

-----------------------------------------------------------------------------
LEMMA WifiInitInv == WifiInit => WifiInv
<1> SUFFICES ASSUME WifiInit PROVE WifiInv
  OBVIOUS
<1> USE DEF WifiInit
<1>1. retry \in 0 .. MaxRetry BY RetryAssumption
<1>2. /\ status \in Statuses /\ config \in Configs
      /\ step \in {"Idle", "Connecting", "Announcing", "Announced"}
      /\ autoConnect \in BOOLEAN /\ handler \in BOOLEAN /\ registered \in BOOLEAN
      /\ appState \in {"INIT", "CONFIG", "CONNECT", "IDLE"}
      /\ wifiConnected \in BOOLEAN
      /\ link \in {"Disconnected", "Connecting", "Connected"}
      /\ stackReady \in BOOLEAN /\ seen \in BOOLEAN /\ bound \in BOOLEAN
  BY DEF Statuses, Configs
<1>3. Provisioned /\ ViewFromHandler /\ BoundAfterHandler
  BY DEF Provisioned, ViewFromHandler, BoundAfterHandler, Early
<1> QED BY <1>1, <1>2, <1>3, Zenon DEF WifiInv, WifiTypeOK

\* Every step of the four tasks keeps the types; only the driver's callback counts
\* retries.
LEMMA WifiTypeStep ==
    ASSUME WifiTypeOK, WifiNext PROVE WifiTypeOK'
<1> USE DEF WifiTypeOK, Statuses, Configs, service, app, network
<1>1. CASE SYS_WIFI_Tasks
  <2>1. CASE StatusInit \/ WdrvOpen \/ AutoConnectWait \/ WaitForTcpip
    BY <2>1 DEF StatusInit, WdrvOpen, AutoConnectWait, WaitForTcpip, Resting, Becomes
  <2>2. CASE ConfigRefused \/ Connect \/ ConnectFails \/ ConnectEnds
    BY <2>2 DEF ConfigRefused, Connect, ConnectFails, ConnectEnds, Resting, Becomes
  <2>3. CASE AnnounceBegins \/ Announce \/ AnnounceEnds \/ GiveUp
    BY <2>3 DEF AnnounceBegins, Announce, AnnounceEnds, GiveUp, Resting, Becomes
  <2> QED BY <1>1, <2>1, <2>2, <2>3 DEF SYS_WIFI_Tasks
<1>2. ASSUME NEW valid \in BOOLEAN, NEW c \in Configs, APP_WIFI_Tasks(valid, c)
      PROVE  WifiTypeOK'
  <2>1. /\ status' \in Statuses /\ config' \in Configs
        /\ appState' \in {"INIT", "CONFIG", "CONNECT", "IDLE"}
    BY <1>2 DEF APP_WIFI_Tasks, AppInit, AppConfig, AppConnect
  <2>2. /\ autoConnect' \in BOOLEAN /\ registered' \in BOOLEAN
        /\ UNCHANGED <<step, retry, handler, wifiConnected, network>>
    BY <1>2 DEF APP_WIFI_Tasks, AppInit, AppConfig, AppConnect
  <2> QED BY <2>1, <2>2
<1>3. CASE Stack
  <2>1. /\ UNCHANGED <<step, config, autoConnect, retry, handler, registered, appState, link>>
        /\ status' \in {status, "STA_IP_RECIEVED"}
    BY <1>3 DEF Stack, StackStarts, LinkSeen, LossSeen, Bound, LeaseEnds
  <2>2. stackReady' \in BOOLEAN /\ seen' \in BOOLEAN
    BY <1>3 DEF Stack, StackStarts, LinkSeen, LossSeen, Bound, LeaseEnds
  <2>3. bound' \in BOOLEAN /\ wifiConnected' \in BOOLEAN
    BY <1>3 DEF Stack, StackStarts, LinkSeen, LossSeen, Bound, LeaseEnds
  <2> QED BY <2>1, <2>2, <2>3
<1>4. CASE Driver
  <2>1. retry' \in 0 .. MaxRetry
    BY <1>4, RetryAssumption DEF Driver, Associated, AssociationFails, LinkLost
  <2>2. /\ status' \in Statuses /\ link' \in {"Disconnected", "Connecting", "Connected"}
        /\ UNCHANGED <<step, config, autoConnect, handler, app, stackReady, seen, bound>>
    BY <1>4 DEF Driver, Associated, AssociationFails, LinkLost
  <2> QED BY <2>1, <2>2
<1>5. CASE WifiRestart
  <2>1. retry' \in 0 .. MaxRetry BY <1>5, RetryAssumption DEF WifiRestart
  <2>2. /\ status' \in Statuses /\ config' \in Configs
        /\ step' \in {"Idle", "Connecting", "Announcing", "Announced"}
        /\ autoConnect' \in BOOLEAN /\ handler' \in BOOLEAN /\ registered' \in BOOLEAN
        /\ appState' \in {"INIT", "CONFIG", "CONNECT", "IDLE"}
        /\ wifiConnected' \in BOOLEAN
        /\ link' \in {"Disconnected", "Connecting", "Connected"}
        /\ stackReady' \in BOOLEAN /\ seen' \in BOOLEAN /\ bound' \in BOOLEAN
    BY <1>5 DEF WifiRestart
  <2> QED BY <2>1, <2>2, Zenon
<1> QED BY <1>1, <1>2, <1>3, <1>4, <1>5 DEF WifiNext

\* The rest of the invariant, task by task.
LEMMA WifiRestStep ==
    ASSUME WifiInv, WifiNext PROVE (Provisioned /\ ViewFromHandler /\ BoundAfterHandler)'
<1> USE DEF WifiInv, WifiTypeOK, Provisioned, ViewFromHandler, BoundAfterHandler, Early,
            Statuses, service, app, network
<1>1. CASE SYS_WIFI_Tasks
  <2>1. CASE StatusInit \/ WdrvOpen \/ AutoConnectWait \/ WaitForTcpip
    BY <2>1 DEF StatusInit, WdrvOpen, AutoConnectWait, WaitForTcpip, Resting, Becomes
  <2>2. CASE ConfigRefused \/ ConnectFails
    BY <2>2 DEF ConfigRefused, ConnectFails, Resting, Becomes
  <2>4. CASE Connect BY <2>4 DEF Connect, Resting
  <2>5. CASE ConnectEnds BY <2>5 DEF ConnectEnds
  <2>3. CASE AnnounceBegins \/ Announce \/ AnnounceEnds \/ GiveUp
    BY <2>3 DEF AnnounceBegins, Announce, AnnounceEnds, GiveUp, Resting, Becomes
  <2> QED BY <1>1, <2>1, <2>2, <2>3, <2>4, <2>5 DEF SYS_WIFI_Tasks
<1>2. ASSUME NEW valid \in BOOLEAN, NEW c \in Configs, APP_WIFI_Tasks(valid, c)
      PROVE  (Provisioned /\ ViewFromHandler /\ BoundAfterHandler)'
  BY <1>2 DEF APP_WIFI_Tasks, AppInit, AppConfig, AppConnect
<1>3. CASE Stack
  BY <1>3 DEF Stack, StackStarts, LinkSeen, LossSeen, Bound, LeaseEnds
<1>4. CASE Driver
  BY <1>4 DEF Driver, Associated, AssociationFails, LinkLost
<1>5. CASE WifiRestart
  BY <1>5 DEF WifiRestart
<1> QED BY <1>1, <1>2, <1>3, <1>4, <1>5 DEF WifiNext

LEMMA WifiStepKeepsInv == ASSUME WifiInv, [WifiNext]_wifiVars PROVE WifiInv'
<1>1. CASE UNCHANGED wifiVars
  BY <1>1 DEF wifiVars, service, app, network, WifiInv, WifiTypeOK, Provisioned,
     ViewFromHandler, BoundAfterHandler
<1>2. CASE WifiNext BY <1>2, WifiTypeStep, WifiRestStep DEF WifiInv
<1> QED BY <1>1, <1>2

\* Types and the rest of the invariant hold always.
THEOREM WifiInvariant == WifiSpec => []WifiInv
BY WifiInitInv, WifiStepKeepsInv, PTL DEF WifiSpec

-----------------------------------------------------------------------------
\* A request is forgotten by what overwrites it, and was there before.
LEMMA ForgottenStep ==
    ASSUME WifiInv, [WifiNext]_wifiVars, ~Forgotten, Forgotten'
    PROVE  /\ link = "Disconnected" /\ status \in {"CONNECT_REQ", "CONNECT_ERROR", "CONFIG_ERROR"}
           /\ CaseOverwrites \/ HandlerOverwrites
<1> USE DEF WifiInv, WifiTypeOK, Provisioned, Early, Statuses, Forgotten, service, app, network
<1>1. CASE UNCHANGED wifiVars BY <1>1 DEF wifiVars
<1>2. CASE SYS_WIFI_Tasks
  <2>1. CASE StatusInit \/ WdrvOpen \/ AutoConnectWait \/ WaitForTcpip
    BY <2>1 DEF StatusInit, WdrvOpen, AutoConnectWait, WaitForTcpip, Resting, Becomes
  <2>2. CASE ConfigRefused \/ ConnectFails \/ GiveUp
    BY <2>2 DEF ConfigRefused, ConnectFails, GiveUp, Resting, Becomes
  <2>3. CASE Connect BY <2>3 DEF Connect, Resting
  <2>4. CASE AnnounceBegins \/ Announce
    BY <2>4 DEF AnnounceBegins, Announce, Resting
  <2>5. CASE ConnectEnds \/ AnnounceEnds
    <3>1. step # "Idle" /\ UNCHANGED <<autoConnect, link>>
      BY <2>5 DEF ConnectEnds, AnnounceEnds
    <3>2. status \notin Early \cup {"WAIT_FOR_TCPIP_INIT"} BY <3>1
    <3> QED BY <2>5, <3>1, <3>2 DEF CaseOverwrites
  <2> QED BY <1>2, <2>1, <2>2, <2>3, <2>4, <2>5 DEF SYS_WIFI_Tasks
<1>3. ASSUME NEW valid \in BOOLEAN, NEW c \in Configs, APP_WIFI_Tasks(valid, c)
      PROVE  FALSE
  BY <1>3 DEF APP_WIFI_Tasks, AppInit, AppConfig, AppConnect
<1>4. CASE Stack
  <2>1. CASE Bound
    <3>1. handler /\ UNCHANGED <<autoConnect, link>> BY <2>1 DEF Bound
    <3>2. status \notin Early \cup {"WAIT_FOR_TCPIP_INIT"} BY <3>1
    <3> QED BY <2>1, <3>1, <3>2 DEF HandlerOverwrites
  <2>2. CASE StackStarts \/ LinkSeen \/ LossSeen \/ LeaseEnds
    BY <2>2 DEF StackStarts, LinkSeen, LossSeen, LeaseEnds
  <2> QED BY <1>4, <2>1, <2>2 DEF Stack
<1>5. CASE Driver
  <2>1. CASE Associated \/ LinkLost BY <2>1 DEF Associated, LinkLost
  <2>2. CASE AssociationFails
    <3>1. retry < MaxRetry \/ retry = MaxRetry BY RetryAssumption
    <3> QED BY <2>2, <3>1 DEF AssociationFails
  <2> QED BY <1>5, <2>1, <2>2 DEF Driver
<1>6. CASE WifiRestart BY <1>6 DEF WifiRestart
<1> QED BY <1>1, <1>2, <1>3, <1>4, <1>5, <1>6 DEF WifiNext

\* Only an announcement that comes late makes the application believe in a link that
\* the stack saw go.
LEMMA StaleStep ==
    ASSUME WifiInv, [WifiNext]_wifiVars, ~Stale, Stale'
    PROVE  Announce /\ ~seen
<1> USE DEF WifiInv, WifiTypeOK, ViewFromHandler, Stale, service, app, network
<1>1. CASE UNCHANGED wifiVars BY <1>1 DEF wifiVars
<1>2. CASE SYS_WIFI_Tasks
  BY <1>2 DEF SYS_WIFI_Tasks, StatusInit, WdrvOpen, AutoConnectWait, WaitForTcpip,
     ConfigRefused, ConnectFails, GiveUp, Connect, ConnectEnds, AnnounceBegins, Announce,
     AnnounceEnds, Becomes
<1>3. ASSUME NEW valid \in BOOLEAN, NEW c \in Configs, APP_WIFI_Tasks(valid, c)
      PROVE  FALSE
  BY <1>3 DEF APP_WIFI_Tasks, AppInit, AppConfig, AppConnect
<1>4. CASE Stack
  BY <1>4 DEF Stack, StackStarts, LinkSeen, LossSeen, Bound, LeaseEnds
<1>5. CASE Driver BY <1>5 DEF Driver, Associated, AssociationFails, LinkLost
<1>6. CASE WifiRestart BY <1>6 DEF WifiRestart
<1> QED BY <1>1, <1>2, <1>3, <1>4, <1>5, <1>6 DEF WifiNext

\* The event of an address is lost to what overwrites it before it is announced.
LEMMA UntoldStep ==
    ASSUME WifiInv, [WifiNext]_wifiVars, ~Untold, Untold'
    PROVE  status = "STA_IP_RECIEVED" /\ (CaseOverwrites \/ AssociationFails \/ LinkLost)
<1> USE DEF WifiInv, WifiTypeOK, Provisioned, ViewFromHandler, BoundAfterHandler, Early,
            Statuses, Untold, service, app, network
<1>1. CASE UNCHANGED wifiVars BY <1>1 DEF wifiVars
<1>2. CASE SYS_WIFI_Tasks
  <2>1. CASE StatusInit \/ WdrvOpen \/ AutoConnectWait \/ WaitForTcpip
    BY <2>1 DEF StatusInit, WdrvOpen, AutoConnectWait, WaitForTcpip, Resting, Becomes
  <2>2. CASE ConfigRefused \/ ConnectFails \/ GiveUp
    BY <2>2 DEF ConfigRefused, ConnectFails, GiveUp, Resting, Becomes
  <2>3. CASE Connect BY <2>3 DEF Connect, Resting
  <2>4. CASE AnnounceBegins \/ Announce
    BY <2>4 DEF AnnounceBegins, Announce, Resting
  <2>5. CASE ConnectEnds \/ AnnounceEnds
    BY <2>5 DEF ConnectEnds, AnnounceEnds, CaseOverwrites
  <2> QED BY <1>2, <2>1, <2>2, <2>3, <2>4, <2>5 DEF SYS_WIFI_Tasks
<1>3. ASSUME NEW valid \in BOOLEAN, NEW c \in Configs, APP_WIFI_Tasks(valid, c)
      PROVE  FALSE
  BY <1>3 DEF APP_WIFI_Tasks, AppInit, AppConfig, AppConnect
<1>4. CASE Stack
  BY <1>4 DEF Stack, StackStarts, LinkSeen, LossSeen, Bound, LeaseEnds
<1>5. CASE Driver
  BY <1>5 DEF Driver, Associated, AssociationFails, LinkLost
<1>6. CASE WifiRestart BY <1>6 DEF WifiRestart
<1> QED BY <1>1, <1>2, <1>3, <1>4, <1>5, <1>6 DEF WifiNext

\* The service forgets the connection it should make only by the two races, however
\* many retries it has.
THEOREM ServiceRequestLostOnlyByRace == WifiSpec => RequestLostOnlyByRace
<1>1. ASSUME WifiInv, [WifiNext]_wifiVars
      PROVE  [Forgotten' /\ ~Forgotten =>
                 /\ link = "Disconnected"
                 /\ status \in {"CONNECT_REQ", "CONNECT_ERROR", "CONFIG_ERROR"}
                 /\ CaseOverwrites \/ HandlerOverwrites]_wifiVars
  BY <1>1, ForgottenStep
<1> QED BY <1>1, WifiInvariant, PTL DEF WifiSpec, RequestLostOnlyByRace

\* The application's view of the connection goes wrong only by the races.
THEOREM ServiceViewWrongOnlyByRace == WifiSpec => ViewWrongOnlyByRace
<1>1. ASSUME WifiInv, [WifiNext]_wifiVars
      PROVE  [/\ Stale' /\ ~Stale => Announce /\ ~seen
              /\ Untold' /\ ~Untold =>
                    /\ status = "STA_IP_RECIEVED"
                    /\ CaseOverwrites \/ AssociationFails \/ LinkLost]_wifiVars
  BY <1>1, StaleStep, UntoldStep
<1> QED BY <1>1, WifiInvariant, PTL DEF WifiSpec, ViewWrongOnlyByRace

=============================================================================
