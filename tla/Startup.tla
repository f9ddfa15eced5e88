------------------------------ MODULE Startup ------------------------------
(***************************************************************************)
(* From power up to the network: MSD_APP reads the configuration into the  *)
(* datastore, APP_WIFI hands it to the Wi-Fi service. The tasks are        *)
(* interleaved, and a restart takes them all back to the beginning.        *)
(***************************************************************************)
EXTENDS MsdApp, SysWifi

vars == <<msdVars, wifiVars>>

Init == MsdInit /\ WifiInit

MsdRuns == MSD_APP_Tasks /\ UNCHANGED wifiVars

\* Variant: APP_WIFI does not wait for wifiCtrlValid.
AppWifiRunsEarly ==
    /\ APP_WIFI_Tasks(TRUE, IF wifiCtrlValid THEN wifiCtrl ELSE "BuiltIn")
    /\ UNCHANGED msdVars

AppWifiRuns == APP_WIFI_Tasks(wifiCtrlValid, wifiCtrl) /\ UNCHANGED msdVars

ServiceRuns == SYS_WIFI_Tasks /\ UNCHANGED msdVars

NetworkRuns == (Driver \/ Stack) /\ UNCHANGED msdVars

PowerLoss == MsdPowerLoss /\ WifiRestart

Crash == MsdCrash /\ WifiRestart

Next == MsdRuns \/ AppWifiRuns \/ ServiceRuns \/ NetworkRuns \/ PowerLoss \/ Crash

Spec == Init /\ [][Next]_vars

\* The three tasks get their slices.
Fairness ==
    /\ WF_vars(MsdRuns \/ Crash)
    /\ WF_vars(AppWifiRuns)
    /\ WF_vars(ServiceRuns)

FairSpec == Spec /\ Fairness

-----------------------------------------------------------------------------
TypeOK == MsdTypeOK /\ WifiTypeOK

\* The radio is never used for a network but the one of WIFI.CFG as it was read in
\* this start: neither with the configuration built into the service nor before the
\* file was found valid.
JoinsOnlyProvisioned ==
    link # "Disconnected" => wifiCtrlValid /\ config = wifiCtrl

\* Once WIFI.CFG is found valid, whatever becomes of cloud.json, the board tries to
\* join the network, and again whenever it lost the connection; unless the service
\* reports an error, is stranded by a race (RequestLostOnlyByRace), or the device starts
\* again.
ConfiguredBoardJoins ==
    []<>(\/ ~wifiCtrlValid
         \/ link # "Disconnected"
         \/ status \in {"CONFIG_ERROR", "CONNECT_ERROR"}
         \/ Stranded)

=============================================================================
