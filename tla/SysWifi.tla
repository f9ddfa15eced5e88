------------------------------ MODULE SysWifi ------------------------------
(***************************************************************************)
(* The Wi-Fi service SYS_WIFI (sys_wifi.c) in station mode and the task    *)
(* that uses it (app_wifi.c), with what reaches them from other tasks: the *)
(* driver's connection callback and the events of the DHCP client.         *)
(*                                                                         *)
(* Four tasks of equal priority are interleaved. SYS_WIFI_Tasks holds the  *)
(* semaphore through a case and the callbacks do not take it, so what they *)
(* write to the status can come between two writes of a case: the two      *)
(* cases where that matters are split (step).                              *)
(***************************************************************************)
EXTENDS Naturals

CONSTANT MaxRetry      \* MAX_AUTO_CONNECT_RETRY

ASSUME RetryAssumption == MaxRetry \in Nat

VARIABLES
    status,         \* g_wifiSrvcObj.wifiSrvcStatus
    step,           \* where SYS_WIFI_Tasks is inside a case, "Idle" between cases
    config,         \* g_wifiSrvcConfig: whose configuration
    autoConnect,    \* g_wifiSrvcConfig.staConfig.autoConnect
    retry,          \* g_wifiSrvcAutoConnectRetry
    handler,        \* the DHCP handler is registered
    registered,     \* WiFiServCallback is registered
    appState,       \* app_wifiData.state
    wifiConnected,  \* app_controlData.wifiCtrl.wifiConnected (and isConnected)
    link,           \* connectedState of the driver
    stackReady,     \* TCPIP_STACK_Status is SYS_STATUS_READY
    seen,           \* exFlags.linkPrev: the link as the stack saw it last
    bound           \* the DHCP client holds a lease

service == <<status, step, config, autoConnect, retry, handler>>
app     == <<registered, appState, wifiConnected>>
network == <<link, stackReady, seen, bound>>
wifiVars == <<service, app, network>>

\* The built-in configuration and those WIFI.CFG can hold: the default one, the
\* user's, and one whose password the driver refuses.
Configs == {"BuiltIn", "Default", "User", "Rejected"}

Statuses ==
    {"INIT", "WDRV_OPEN_REQ", "AUTOCONNECT_WAIT", "WAIT_FOR_TCPIP_INIT", "CONNECT_REQ",
     "STA_IP_RECIEVED", "TCPIP_READY", "CONFIG_ERROR", "CONNECT_ERROR"}

WifiTypeOK ==
    /\ status \in Statuses
    /\ step \in {"Idle", "Connecting", "Announcing", "Announced"}
    /\ config \in Configs
    /\ autoConnect \in BOOLEAN /\ handler \in BOOLEAN /\ registered \in BOOLEAN
    /\ retry \in 0 .. MaxRetry
    /\ appState \in {"INIT", "CONFIG", "CONNECT", "IDLE"}
    /\ wifiConnected \in BOOLEAN
    /\ link \in {"Disconnected", "Connecting", "Connected"}
    /\ stackReady \in BOOLEAN /\ seen \in BOOLEAN /\ bound \in BOOLEAN

\* SYS_WIFI_Initialize without a configuration, APP_WIFI_Initialize.
WifiInit ==
    /\ status = "INIT" /\ step = "Idle" /\ config = "BuiltIn" /\ autoConnect = FALSE
    /\ retry = 0 /\ handler = FALSE
    /\ registered = FALSE /\ appState = "INIT" /\ wifiConnected = FALSE
    /\ link = "Disconnected" /\ stackReady = FALSE /\ seen = FALSE /\ bound = FALSE

-----------------------------------------------------------------------------
(* SYS_WIFI_ExecuteBlock. TCPIP_ERROR has no action: WAIT_FOR_TCPIP_INIT     *)
(* overwrites it.                                                            *)

Resting(s) == step = "Idle" /\ status = s
Becomes(s) == status' = s /\ UNCHANGED <<step, config, autoConnect, retry, handler>>

\* The driver is ready.
StatusInit == Resting("INIT") /\ Becomes("WDRV_OPEN_REQ") /\ UNCHANGED <<app, network>>

\* The driver opens and tells its regulatory domain.
WdrvOpen == Resting("WDRV_OPEN_REQ") /\ Becomes("AUTOCONNECT_WAIT") /\ UNCHANGED <<app, network>>

AutoConnectWait ==
    /\ Resting("AUTOCONNECT_WAIT") /\ autoConnect
    /\ Becomes("WAIT_FOR_TCPIP_INIT")
    /\ UNCHANGED <<app, network>>

\* The connection is requested even if no handler is registered: the stack is not
\* ready, or refuses its DHCP client.
WaitForTcpip ==
    /\ Resting("WAIT_FOR_TCPIP_INIT")
    /\ handler' \in BOOLEAN /\ (handler' => stackReady)
    /\ status' = "CONNECT_REQ"
    /\ UNCHANGED <<step, config, autoConnect, retry, app, network>>

ConfigRefused ==
    /\ Resting("CONNECT_REQ") /\ config = "Rejected"
    /\ Becomes("CONFIG_ERROR") /\ UNCHANGED <<app, network>>

\* SYS_WIFI_ConnectReq: WDRV_PIC32MZW_BSSConnect starts to connect ...
Connect ==
    /\ Resting("CONNECT_REQ") /\ config # "Rejected" /\ link = "Disconnected"
    /\ link' = "Connecting" /\ step' = "Connecting"
    /\ UNCHANGED <<status, config, autoConnect, retry, handler, app, stackReady, seen, bound>>

\* ... or refuses to, because of the link or for want of memory.
ConnectFails ==
    /\ Resting("CONNECT_REQ") /\ config # "Rejected"
    /\ Becomes("CONNECT_ERROR") /\ UNCHANGED <<app, network>>

\* After BSSConnect the case writes the status.
ConnectEnds ==
    /\ step = "Connecting" /\ step' = "Idle" /\ status' = "TCPIP_READY"
    /\ UNCHANGED <<config, autoConnect, retry, handler, app, network>>

\* The case of STA_IP_RECIEVED does not take the semaphore. It begins ...
AnnounceBegins ==
    /\ Resting("STA_IP_RECIEVED") /\ step' = "Announcing"
    /\ UNCHANGED <<status, config, autoConnect, retry, handler, app, network>>

\* ... calls SYS_WIFI_CallBackFun with SYS_WIFI_CONNECT, that is WiFiServCallback, ...
Announce ==
    /\ step = "Announcing" /\ step' = "Announced"
    /\ wifiConnected' = (registered \/ wifiConnected)
    /\ UNCHANGED <<status, config, autoConnect, retry, handler, registered, appState, network>>

\* ... and writes the status.
AnnounceEnds ==
    /\ step = "Announced" /\ step' = "Idle" /\ status' = "TCPIP_READY"
    /\ UNCHANGED <<config, autoConnect, retry, handler, app, network>>

\* The callback of AUTO_CONNECT_FAIL does nothing. Short of the last retry the
\* error stays.
GiveUp ==
    /\ Resting("CONNECT_ERROR") /\ retry = MaxRetry
    /\ Becomes("CONFIG_ERROR") /\ UNCHANGED <<app, network>>

SYS_WIFI_Tasks ==
    \/ StatusInit \/ WdrvOpen \/ AutoConnectWait \/ WaitForTcpip
    \/ ConfigRefused \/ Connect \/ ConnectFails \/ ConnectEnds
    \/ AnnounceBegins \/ Announce \/ AnnounceEnds \/ GiveUp

-----------------------------------------------------------------------------
(* APP_WIFI_Tasks. APP_WIFI_ERROR has no action: the next state overwrites   *)
(* it at once.                                                               *)

SemaphoreFree == step # "Connecting"

AppInit ==
    /\ appState = "INIT" /\ SemaphoreFree
    /\ registered' = TRUE /\ appState' = "CONFIG"
    /\ UNCHANGED <<service, wifiConnected, network>>

\* Variant: the configuration leaves autoConnect as it is.
AppConfigManual(valid, c) ==
    /\ appState = "CONFIG" /\ valid /\ SemaphoreFree
    /\ appState' = "CONNECT"
    /\ IF status = "CONNECT_REQ" THEN UNCHANGED config ELSE config' = c
    /\ UNCHANGED <<status, step, autoConnect, retry, handler, registered, wifiConnected, network>>

\* SYS_WIFI_CtrlMsg with SYS_WIFI_CONNECT: from the status CONNECT_REQ on a
\* connection is requested, before it the service gets there by itself. A request
\* that is pending already is not disturbed.
AppConfig(valid, c) ==
    /\ appState = "CONFIG" /\ valid /\ SemaphoreFree
    /\ appState' = "CONNECT"
    /\ IF status = "CONNECT_REQ" THEN UNCHANGED service
       ELSE /\ config' = c /\ autoConnect' = TRUE
            /\ status' = IF status \in {"INIT", "WDRV_OPEN_REQ", "AUTOCONNECT_WAIT",
                                        "WAIT_FOR_TCPIP_INIT"}
                           THEN status ELSE "CONNECT_REQ"
            /\ UNCHANGED <<step, retry, handler>>
    /\ UNCHANGED <<registered, wifiConnected, network>>

AppConnect ==
    /\ appState = "CONNECT" /\ wifiConnected
    /\ appState' = "IDLE"
    /\ UNCHANGED <<service, registered, wifiConnected, network>>

APP_WIFI_Tasks(valid, c) == AppInit \/ AppConfig(valid, c) \/ AppConnect

-----------------------------------------------------------------------------
(* The driver's task: SYS_WIFI_STAConnCallBack                               *)

Associated ==
    /\ link = "Connecting" /\ link' = "Connected"
    /\ retry' = 0
    /\ UNCHANGED <<status, step, config, autoConnect, handler, app, stackReady, seen, bound>>

\* Variant: one retry too many.
AssociationFailsLate ==
    /\ link = "Connecting" /\ link' = "Disconnected"
    /\ IF autoConnect /\ retry <= MaxRetry
         THEN status' = "CONNECT_REQ" /\ retry' = retry + 1
         ELSE status' = "CONNECT_ERROR" /\ UNCHANGED retry
    /\ UNCHANGED <<step, config, autoConnect, handler, app, stackReady, seen, bound>>

AssociationFails ==
    /\ link = "Connecting" /\ link' = "Disconnected"
    /\ IF autoConnect /\ retry < MaxRetry
         THEN status' = "CONNECT_REQ" /\ retry' = retry + 1
         ELSE /\ status' = IF retry = MaxRetry THEN "CONNECT_ERROR" ELSE status
              /\ UNCHANGED retry
    /\ UNCHANGED <<step, config, autoConnect, handler, app, stackReady, seen, bound>>

\* Variant: a connection that is lost is not requested again.
LinkLostQuietly ==
    /\ link = "Connected" /\ link' = "Disconnected" /\ retry' = 0
    /\ UNCHANGED <<status, step, config, autoConnect, handler, app, stackReady, seen, bound>>

LinkLost ==
    /\ link = "Connected" /\ link' = "Disconnected"
    /\ status' = IF autoConnect THEN "CONNECT_REQ" ELSE status
    /\ retry' = 0
    /\ UNCHANGED <<step, config, autoConnect, handler, app, stackReady, seen, bound>>

Driver == Associated \/ AssociationFails \/ LinkLost

-----------------------------------------------------------------------------
(* The task of the TCP/IP stack: it polls the link and runs the DHCP client, *)
(* which calls SYS_WIFI_TCPIP_DHCP_EventHandler.                             *)

StackStarts ==
    /\ ~stackReady /\ stackReady' = TRUE
    /\ UNCHANGED <<service, app, link, seen, bound>>

LinkSeen ==
    /\ stackReady /\ ~seen /\ link = "Connected"
    /\ seen' = TRUE
    /\ UNCHANGED <<service, app, link, stackReady, bound>>

\* Variant: the service does not pass the loss on.
LossSeenQuietly ==
    /\ stackReady /\ seen /\ link # "Connected"
    /\ seen' = FALSE /\ bound' = FALSE
    /\ UNCHANGED <<service, app, link, stackReady>>

\* DHCP_EVENT_CONN_LOST: the callback with SYS_WIFI_DISCONNECT.
LossSeen ==
    /\ stackReady /\ seen /\ link # "Connected"
    /\ seen' = FALSE /\ bound' = FALSE
    /\ wifiConnected' = (wifiConnected /\ ~(handler /\ registered))
    /\ UNCHANGED <<service, registered, appState, link, stackReady>>

\* DHCP_EVENT_BOUND, of a new lease or of one renewed. A lease that was offered
\* before becomes valid even if the link is gone since the last poll.
Bound ==
    /\ stackReady /\ seen
    /\ bound' = TRUE
    /\ status' = IF handler THEN "STA_IP_RECIEVED" ELSE status
    /\ UNCHANGED <<step, config, autoConnect, retry, handler, app, link, stackReady, seen>>

\* The server refuses to renew the lease, or it runs out: the handler ignores it.
LeaseEnds ==
    /\ bound /\ bound' = FALSE
    /\ UNCHANGED <<service, app, link, stackReady, seen>>

Stack == StackStarts \/ LinkSeen \/ LossSeen \/ Bound \/ LeaseEnds

-----------------------------------------------------------------------------
\* Power fails, or the watchdog timer resets the device.
WifiRestart ==
    /\ status' = "INIT" /\ step' = "Idle" /\ config' = "BuiltIn" /\ autoConnect' = FALSE
    /\ retry' = 0 /\ handler' = FALSE
    /\ registered' = FALSE /\ appState' = "INIT" /\ wifiConnected' = FALSE
    /\ link' = "Disconnected" /\ stackReady' = FALSE /\ seen' = FALSE /\ bound' = FALSE

WifiNext ==
    \/ SYS_WIFI_Tasks \/ Driver \/ Stack
    \/ \E valid \in BOOLEAN, c \in Configs : APP_WIFI_Tasks(valid, c)
    \/ WifiRestart

\* The service under an application with any configuration.
WifiSpec == WifiInit /\ [][WifiNext]_wifiVars

-----------------------------------------------------------------------------
(* Properties                                                                *)

\* The configuration asks for a connection that is not there, none is being made, and
\* no status is left that requests one or reports the failure.
Forgotten ==
    autoConnect /\ link = "Disconnected" /\ status \in {"STA_IP_RECIEVED", "TCPIP_READY"}

\* The service rests there.
Stranded == Forgotten /\ status = "TCPIP_READY" /\ step = "Idle"

\* The case of SYS_WIFI_Tasks that is under way overwrites the status when it ends, and
\* the DHCP client's handler overwrites it at any time (sys_wifi.c:699, :713, :403).
CaseOverwrites == ConnectEnds \/ AnnounceEnds
HandlerOverwrites == Bound /\ handler

\* A board whose connection fails or is lost requests another one or reports an error.
\* The service forgets it in two races only, both with what the driver's callback or
\* the case wrote into the one status variable: the case that began before the
\* connection went writes its status over it, or the DHCP client, which has not seen
\* the link go, announces an address over it. Stranded lies within Forgotten, so
\* nothing else leaves the service at rest without its connection.
RequestLostOnlyByRace ==
    [][Forgotten' /\ ~Forgotten =>
           /\ link = "Disconnected" /\ status \in {"CONNECT_REQ", "CONNECT_ERROR", "CONFIG_ERROR"}
           /\ CaseOverwrites \/ HandlerOverwrites]_wifiVars

\* The application believes to be connected although the stack saw the link go.
Stale == wifiConnected /\ ~seen

\* The board has an address of which the application does not know, and the status
\* that would announce it is gone.
Untold ==
    /\ bound /\ handler /\ registered /\ ~wifiConnected
    /\ status # "STA_IP_RECIEVED" /\ step # "Announcing"

\* wifiConnected, which gates the MQTT client and the LED, follows the events of the
\* DHCP client but for two races: the announcement of an address comes after its loss
\* (sys_wifi.c:712); or the event of an address that is there is overwritten before
\* it is announced, by the case that is under way (:699, :713) or by the driver's
\* callback, which requests a connection (:315, :323, :336).
ViewWrongOnlyByRace ==
    [][/\ Stale' /\ ~Stale => Announce /\ ~seen
       /\ Untold' /\ ~Untold =>
             status = "STA_IP_RECIEVED" /\ (CaseOverwrites \/ AssociationFails \/ LinkLost)
      ]_wifiVars

=============================================================================
