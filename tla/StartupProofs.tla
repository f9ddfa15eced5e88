---------------------------- MODULE StartupProofs ----------------------------
(***************************************************************************)
(* Proofs about Startup: what MsdProofs and WifiProofs show of each side   *)
(* alone holds of the two together, and the network that is joined is the  *)
(* one of the file that was read.                                          *)
(***************************************************************************)
EXTENDS Startup, MsdProofs, WifiProofs

LEMMA StepOfMsd == ASSUME [Next]_vars PROVE [MsdNext]_msdVars
BY DEF Next, vars, MsdRuns, AppWifiRuns, ServiceRuns, NetworkRuns, PowerLoss, Crash, MsdNext

\* MSD_APP and its drive do not notice the network.
THEOREM ImplementsMsd == Spec => MsdSpec
<1>1. Init => MsdInit BY DEF Init
<1>2. [Next]_vars => [MsdNext]_msdVars BY StepOfMsd
<1> QED BY <1>1, <1>2, PTL DEF Spec, MsdSpec

\* What APP_WIFI hands over once it may is a configuration.
LEMMA HandsOverConfig == MsdInv /\ wifiCtrlValid => wifiCtrl \in Configs
BY DEF MsdInv, MsdBase, MsdTypeOK, Filled, Configs

LEMMA AppStepOfWifi ==
    ASSUME MsdInv, AppWifiRuns
    PROVE  \E valid \in BOOLEAN, c \in Configs : APP_WIFI_Tasks(valid, c)
<1>1. wifiCtrlValid \in BOOLEAN BY DEF MsdInv, MsdBase, MsdTypeOK
<1>2. CASE wifiCtrlValid
  <2>1. APP_WIFI_Tasks(wifiCtrlValid, wifiCtrl) BY DEF AppWifiRuns
  <2> QED BY <1>1, <1>2, <2>1, HandsOverConfig
<1>3. CASE ~wifiCtrlValid
  <2>1. "BuiltIn" \in Configs BY DEF Configs
  <2>2. APP_WIFI_Tasks(FALSE, "BuiltIn")
    BY <1>3 DEF AppWifiRuns, APP_WIFI_Tasks, AppConfig
  <2> QED BY <2>1, <2>2
<1> QED BY <1>2, <1>3

LEMMA StepOfWifi == ASSUME MsdInv, [Next]_vars PROVE [WifiNext]_wifiVars
<1>1. CASE AppWifiRuns BY <1>1, AppStepOfWifi DEF WifiNext
<1>2. CASE MsdRuns \/ UNCHANGED vars BY <1>2 DEF MsdRuns, vars
<1>3. CASE ServiceRuns \/ NetworkRuns BY <1>3 DEF ServiceRuns, NetworkRuns, WifiNext
<1>4. CASE PowerLoss \/ Crash BY <1>4 DEF PowerLoss, Crash, WifiNext
<1> QED BY <1>1, <1>2, <1>3, <1>4 DEF Next

LEMMA MsdSide == Spec => [](MsdInv /\ ResetInv)
BY ImplementsMsd, MsdInvariant, PTL

\* The service sees an application that hands it a configuration at any time, or a
\* restart.
THEOREM ImplementsWifi == Spec => WifiSpec
<1>1. Init => WifiInit BY DEF Init
<1>2. MsdInv /\ [Next]_vars => [WifiNext]_wifiVars BY StepOfWifi
<1> QED BY <1>1, <1>2, MsdSide, PTL DEF Spec, WifiSpec

LEMMA WifiSide == Spec => []WifiInv
BY ImplementsWifi, WifiInvariant, PTL

-----------------------------------------------------------------------------
\* The variables of both sides keep their types.
THEOREM TypeCorrect == Spec => []TypeOK
<1>1. MsdInv /\ WifiInv => TypeOK BY DEF MsdInv, MsdBase, WifiInv, TypeOK
<1> QED BY <1>1, MsdSide, WifiSide, PTL

\* ERROR.txt tells the truth, whatever the network does.
THEOREM ErrorFileTold == Spec => []ErrorFileTruthful
BY ImplementsMsd, ErrorFileIsTruthful, PTL

\* A start that succeeds leaves no file missing, wherever power failed before.
THEOREM DriveComplete == Spec => []NothingMissing
BY ImplementsMsd, NoFileMissing, PTL

\* A start with SW1 pressed that does not fail restores every file.
THEOREM ResetComplete == Spec => []FactoryReset
BY ImplementsMsd, SwitchRestoresAll, PTL

\* The user's files outlive every restart but for formatting.
THEOREM UserFilesSurvive == Spec => UserFilesKept
BY ImplementsMsd, UserFilesAreKept, PTL

\* A start does not go round, however the tasks interleave.
THEOREM StartEndsAlways == Spec => StartEnds
BY ImplementsMsd, StartAlwaysEnds, PTL

\* The service forgets the connection by the races on its status only.
THEOREM RequestLostByRace == Spec => RequestLostOnlyByRace
BY ImplementsWifi, ServiceRequestLostOnlyByRace, PTL

\* And so goes the application's view of the connection wrong.
THEOREM ViewWrongByRace == Spec => ViewWrongOnlyByRace
BY ImplementsWifi, ServiceViewWrongOnlyByRace, PTL

-----------------------------------------------------------------------------
\* A configuration that may be used is the one in the datastore.
FromDatastore == autoConnect => wifiCtrlValid /\ config = wifiCtrl

LEMMA FromDatastoreStep ==
    ASSUME MsdInv, WifiInv, FromDatastore, [Next]_vars
    PROVE  FromDatastore'
<1> USE DEF FromDatastore, service, app, network, datastore, storage
<1>1. CASE MsdRuns
  <2>1. UNCHANGED <<autoConnect, config>> BY <1>1 DEF MsdRuns, wifiVars
  <2>2. CASE ConfigValid
    <3>1. ~wifiCtrlValid
      BY <2>2 DEF ConfigValid, Done, MsdInv, MsdBase, MsdTypeOK, Filled, Control, Attached,
                  Touching, FromAtca, FromSerial, FromCerts, FromKeys, FromConfig
    <3> QED BY <2>1, <3>1
  <2>3. CASE ~ConfigValid
    <3>1. UNCHANGED <<wifiCtrlValid, wifiCtrl>>
      BY <1>1, <2>3 DEF MsdRuns, MSD_APP_Tasks, OpenFile, WriteFile, FileFails, ReadSerial,
         Mount, MountsToFormat, MountsToUse, FormatBegins, FormatEnds, FormatFails, VersionDone,
         AtcaInit, AtcaFails, SerialDone, CertsDone, KeysDone, ConfigDone, ConfigInvalid, ConfigNotOpened,
         CloudInvalid, CloudValid, CloudNotOpened, WriteError, ConnectUsb
    <3> QED BY <2>1, <3>1
  <2> QED BY <2>2, <2>3
<1>2. CASE AppWifiRuns
  <2>1. UNCHANGED <<wifiCtrlValid, wifiCtrl>> BY <1>2 DEF AppWifiRuns, msdVars
  <2>2. APP_WIFI_Tasks(wifiCtrlValid, wifiCtrl) BY <1>2 DEF AppWifiRuns
  <2>3. CASE AppInit \/ AppConnect BY <2>1, <2>3 DEF AppInit, AppConnect
  <2>4. CASE AppConfig(wifiCtrlValid, wifiCtrl)
    <3>1. wifiCtrlValid BY <2>4 DEF AppConfig
    <3>2. (config' = config /\ autoConnect' = autoConnect) \/ config' = wifiCtrl
      BY <2>4 DEF AppConfig
    <3> QED BY <2>1, <3>1, <3>2
  <2> QED BY <2>2, <2>3, <2>4 DEF APP_WIFI_Tasks
<1>3. CASE ServiceRuns
  <2>1. UNCHANGED <<wifiCtrlValid, wifiCtrl>> BY <1>3 DEF ServiceRuns, msdVars
  <2>2. UNCHANGED <<autoConnect, config>>
    BY <1>3 DEF ServiceRuns, SYS_WIFI_Tasks, StatusInit, WdrvOpen, AutoConnectWait, WaitForTcpip,
       ConfigRefused, Connect, ConnectFails, ConnectEnds, AnnounceBegins, Announce, AnnounceEnds,
       GiveUp, Becomes
  <2> QED BY <2>1, <2>2
<1>4. CASE NetworkRuns
  <2>1. UNCHANGED <<wifiCtrlValid, wifiCtrl>> BY <1>4 DEF NetworkRuns, msdVars
  <2>2. UNCHANGED <<autoConnect, config>>
    BY <1>4 DEF NetworkRuns, Driver, Associated, AssociationFails, LinkLost, Stack, StackStarts,
       LinkSeen, LossSeen, Bound, LeaseEnds
  <2> QED BY <2>1, <2>2
<1>5. CASE PowerLoss \/ Crash BY <1>5 DEF PowerLoss, Crash, WifiRestart
<1>6. CASE UNCHANGED vars BY <1>6 DEF vars, msdVars, wifiVars
<1> QED BY <1>1, <1>2, <1>3, <1>4, <1>5, <1>6 DEF Next

\* The radio is used for the network of WIFI.CFG only, as it was read in this start.
THEOREM JoinsProvisionedOnly == Spec => []JoinsOnlyProvisioned
<1>1. Init => FromDatastore BY DEF Init, WifiInit, FromDatastore
<1>2. MsdInv /\ WifiInv /\ FromDatastore /\ [Next]_vars => FromDatastore' BY FromDatastoreStep
<1>3. WifiInv /\ FromDatastore => JoinsOnlyProvisioned
  BY DEF WifiInv, Provisioned, FromDatastore, JoinsOnlyProvisioned
<1> QED BY <1>1, <1>2, <1>3, MsdSide, WifiSide, PTL DEF Spec

=============================================================================
