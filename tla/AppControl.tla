----------------------------- MODULE AppControl -----------------------------
(***************************************************************************)
(* APP_CONTROL (app_control.c) among the FreeRTOS tasks (tasks.c): it      *)
(* clears the watchdog timer, shows the state of the connection on the     *)
(* red LED and averages the ADC's results into the temperature that the    *)
(* cloud application publishes.                                            *)
(*                                                                         *)
(* All tasks have priority 1 and are time-sliced. The unit of time is the  *)
(* period of APP_CONTROL, in which every task that is ready gets its       *)
(* slices, and one that spins keeps using its own.                         *)
(***************************************************************************)
EXTENDS Naturals

CONSTANTS
    Tasks,        \* the tasks of the application
    Control,      \* the one that calls APP_CONTROL_Tasks
    MqttTask,     \* the one that calls MQTT_APP_Tasks
    Faults,       \* which trouble there is
    Limit,        \* time units until the watchdog timer resets the device
    Samples,      \* the results the ADC can have
    AvgCount,     \* APP_CTRL_ADC_AVG_COUNT
    MaxTrouble,   \* bound: how many faults there are
    MaxChanges    \* bound: how often a connection comes or goes

ASSUME AppControlAssumption ==
    /\ Control \in Tasks /\ MqttTask \in Tasks \ {Control}
    /\ Faults \subseteq {"MqttGivesUp", "ControlSpins", "Trap"}
    /\ Samples \subseteq Nat /\ Samples # {} /\ AvgCount \in Nat \ {0}
    /\ Limit \in Nat \ {0, 1} /\ MaxTrouble \in Nat /\ MaxChanges \in Nat

VARIABLES
    task,            \* "Ready", "Delayed" (in vTaskDelay) or "Spinning"
    trapped,         \* an endless loop with the interrupts off
    wdt,             \* the watchdog timer
    state,           \* app_controlData.state
    wifiConnected,   \* app_controlData.wifiCtrl.wifiConnected
    conStat,         \* app_controlData.mqttCtrl.conStat
    indicator,       \* the red LED
    dataReady,       \* adcData.dataReady: there is a result to be read
    adcCount,        \* adcData.adcCount: the last result
    adcCountAccumulate, adcAccumulateNum,  \* sum and number of the results since
    temp,            \* adcData.temp, as the count it is computed from
    trouble, changes \* what is left of the bounds

adc == <<dataReady, adcCount, adcCountAccumulate, adcAccumulateNum, temp>>
vars == <<task, trapped, wdt, state, wifiConnected, conStat, indicator, adc, trouble, changes>>
flags == <<wifiConnected, conStat>>

States == {"INIT", "MONITOR_CONNECTION", "MONITOR_SWITCH", "ADC_READ", "RTCC_READ"}

TypeOK ==
    /\ task \in [Tasks -> {"Ready", "Delayed", "Spinning"}]
    /\ trapped \in BOOLEAN
    /\ wdt \in 0 .. Limit
    /\ state \in States
    /\ wifiConnected \in BOOLEAN /\ conStat \in BOOLEAN
    /\ indicator \in {"On", "FastBlink", "Off"}
    /\ dataReady \in BOOLEAN /\ adcCount \in Samples \cup {0}
    /\ adcCountAccumulate \in Nat /\ adcAccumulateNum \in 0 .. AvgCount + 1
    /\ temp \in Nat
    /\ trouble \in 0 .. MaxTrouble /\ changes \in 0 .. MaxChanges

\* SYS_Initialize: APP_CONTROL_Initialize enables the watchdog timer. The red LED
\* is on from power up.
Init ==
    /\ task = [t \in Tasks |-> "Ready"] /\ trapped = FALSE /\ wdt = 0
    /\ state = "INIT" /\ wifiConnected = FALSE /\ conStat = FALSE
    /\ indicator = "On"
    /\ dataReady = FALSE /\ adcCount = 0 /\ temp = 0
    /\ adcCountAccumulate = 0 /\ adcAccumulateNum = 0
    /\ trouble = MaxTrouble /\ changes = MaxChanges

Trouble(fault) == fault \in Faults /\ trouble > 0 /\ trouble' = trouble - 1

Runs(t) == ~trapped /\ task[t] = "Ready" /\ task' = [task EXCEPT ![t] = "Delayed"]

-----------------------------------------------------------------------------
(* APP_CONTROL_Tasks                                                         *)

\* Variant: the cloud's state is looked at first.
IndicationCloudFirst(wifi, cloud) ==
    IF cloud THEN "Off" ELSE IF ~wifi THEN "On" ELSE "FastBlink"

Indication(wifi, cloud) ==
    IF ~wifi THEN "On" ELSE IF ~cloud THEN "FastBlink" ELSE "Off"

\* Variant: RTCC_READ leads to a state without a case.
SuccessorEnds ==
    [INIT |-> "MONITOR_CONNECTION", MONITOR_CONNECTION |-> "MONITOR_SWITCH",
     MONITOR_SWITCH |-> "ADC_READ", ADC_READ |-> "RTCC_READ", RTCC_READ |-> "IDLE"]

Successor ==
    [INIT |-> "MONITOR_CONNECTION", MONITOR_CONNECTION |-> "MONITOR_SWITCH",
     MONITOR_SWITCH |-> "ADC_READ", ADC_READ |-> "RTCC_READ",
     RTCC_READ |-> "MONITOR_CONNECTION"]

\* Variant: the sum is not reset for the next average.
AdcReadKeepsSum ==
    IF ~dataReady THEN UNCHANGED adc
    ELSE /\ dataReady' = FALSE /\ adcCount' \in Samples \cup {adcCount}
         /\ IF adcAccumulateNum <= AvgCount
              THEN /\ adcCountAccumulate' = adcCountAccumulate + adcCount
                   /\ adcAccumulateNum' = adcAccumulateNum + 1
                   /\ UNCHANGED temp
              ELSE /\ temp' = adcCountAccumulate \div AvgCount
                   /\ adcAccumulateNum' = 0 /\ UNCHANGED adcCountAccumulate

\* The result is added to the sum, or, once there are enough, dropped and the average
\* computed. A result that comes between the reading of the last one and the clearing
\* of dataReady is lost.
AdcRead ==
    IF ~dataReady THEN UNCHANGED adc
    ELSE /\ dataReady' = FALSE /\ adcCount' \in Samples \cup {adcCount}
         /\ IF adcAccumulateNum <= AvgCount
              THEN /\ adcCountAccumulate' = adcCountAccumulate + adcCount
                   /\ adcAccumulateNum' = adcAccumulateNum + 1
                   /\ UNCHANGED temp
              ELSE /\ temp' = adcCountAccumulate \div AvgCount
                   /\ adcCountAccumulate' = 0 /\ adcAccumulateNum' = 0

\* Variant: the timer is cleared in one state only.
ControlRunsClearsOnce ==
    /\ Runs(Control)
    /\ wdt' = IF state = "MONITOR_CONNECTION" THEN 0 ELSE wdt
    /\ state' = Successor[state]
    /\ indicator' = IF state = "INIT" THEN "On"
                    ELSE IF state = "MONITOR_CONNECTION"
                           THEN Indication(wifiConnected, conStat) ELSE indicator
    /\ IF state = "ADC_READ" THEN AdcRead ELSE UNCHANGED adc
    /\ UNCHANGED <<trapped, flags, trouble, changes>>

ControlRuns ==
    /\ Runs(Control)
    /\ wdt' = 0
    /\ state' = Successor[state]
    /\ indicator' = IF state = "INIT" THEN "On"
                    ELSE IF state = "MONITOR_CONNECTION"
                           THEN Indication(wifiConnected, conStat) ELSE indicator
    /\ IF state = "ADC_READ" THEN AdcRead ELSE UNCHANGED adc
    /\ UNCHANGED <<trapped, flags, trouble, changes>>

\* ADC_ResultHandler, an interrupt: the ADC is started in the state INIT.
AdcResult ==
    /\ ~trapped /\ (state # "INIT" \/ task[Control] = "Spinning")
    /\ dataReady' = TRUE /\ adcCount' \in Samples
    /\ UNCHANGED <<task, trapped, wdt, state, flags, indicator, adcCountAccumulate,
                   adcAccumulateNum, temp, trouble, changes>>

-----------------------------------------------------------------------------
(* The other tasks                                                           *)

OtherRuns(t) ==
    /\ t # Control /\ Runs(t)
    /\ UNCHANGED <<trapped, wdt, state, flags, indicator, adc, trouble, changes>>

\* WiFiServCallback and MqttCallback set the flags. The connection to the cloud
\* begins with Wi-Fi and is noticed to have ended some time after it.
WifiChanges ==
    /\ changes > 0 /\ changes' = changes - 1
    /\ ~trapped /\ wifiConnected' = ~wifiConnected
    /\ UNCHANGED <<task, trapped, wdt, state, conStat, indicator, adc, trouble>>

CloudChanges ==
    /\ changes > 0 /\ changes' = changes - 1
    /\ Runs(MqttTask) /\ conStat' = ~conStat
    /\ conStat \/ wifiConnected
    /\ UNCHANGED <<trapped, wdt, state, wifiConnected, indicator, adc, trouble>>

-----------------------------------------------------------------------------
(* Trouble                                                                   *)

Spins(t) ==
    /\ ~trapped /\ task[t] = "Ready" /\ task' = [task EXCEPT ![t] = "Spinning"]
    /\ UNCHANGED <<trapped, wdt, state, flags, indicator, adc, changes>>

\* `while (1)' in MqttCallback.
MqttGivesUp == Trouble("MqttGivesUp") /\ Spins(MqttTask)

\* The functions of the RTCC that APP_CONTROL_Tasks calls wait for its registers.
ControlSpins ==
    /\ state \in {"INIT", "RTCC_READ"}
    /\ Trouble("ControlSpins") /\ Spins(Control)

\* An exception, or vApplicationStackOverflowHook.
Trap ==
    /\ Trouble("Trap")
    /\ ~trapped /\ trapped' = TRUE
    /\ UNCHANGED <<task, wdt, state, flags, indicator, adc, changes>>

-----------------------------------------------------------------------------
(* The watchdog timer                                                        *)

Wakes(t) == IF task[t] = "Delayed" /\ ~trapped THEN "Ready" ELSE task[t]

\* Variant: the timer was never enabled.
ElapsesDisabled ==
    /\ wdt < Limit /\ (trapped \/ \A t \in Tasks : task[t] # "Ready")
    /\ wdt' = wdt
    /\ task' = [t \in Tasks |-> Wakes(t)]
    /\ UNCHANGED <<trapped, state, flags, indicator, adc, trouble, changes>>

Elapses ==
    /\ wdt < Limit /\ (trapped \/ \A t \in Tasks : task[t] # "Ready")
    /\ wdt' = wdt + 1
    /\ task' = [t \in Tasks |-> Wakes(t)]
    /\ UNCHANGED <<trapped, state, flags, indicator, adc, trouble, changes>>

Resets ==
    /\ wdt = Limit
    /\ task' = [t \in Tasks |-> "Ready"] /\ trapped' = FALSE /\ wdt' = 0
    /\ state' = "INIT" /\ wifiConnected' = FALSE /\ conStat' = FALSE
    /\ indicator' = "On"
    /\ dataReady' = FALSE /\ adcCount' = 0 /\ temp' = 0
    /\ adcCountAccumulate' = 0 /\ adcAccumulateNum' = 0
    /\ UNCHANGED <<trouble, changes>>

Next ==
    \/ ControlRuns \/ AdcResult \/ WifiChanges \/ CloudChanges
    \/ \E t \in Tasks : OtherRuns(t)
    \/ MqttGivesUp \/ ControlSpins \/ Trap
    \/ Elapses \/ Resets

Spec == Init /\ [][Next]_vars

\* The scheduler gives every ready task its slices, and time passes.
Fairness ==
    /\ WF_vars(ControlRuns) /\ WF_vars(Elapses) /\ WF_vars(Resets)
    /\ \A t \in Tasks : WF_vars(OtherRuns(t))

FairSpec == Spec /\ Fairness

-----------------------------------------------------------------------------
(* Properties                                                                *)

\* The watchdog timer resets the device only when APP_CONTROL has not run for
\* Limit units because it, or the processor, is stuck.
NoSpuriousReset == [][wdt = Limit => trapped \/ task[Control] = "Spinning"]_vars

\* A stuck processor or APP_CONTROL is followed by a reset.
StuckResets == (trapped \/ task[Control] = "Spinning") ~> (state = "INIT" /\ ~trapped)

\* The red LED ends up showing the state of the connections, whatever trouble there
\* was before: on without Wi-Fi, blinking without the cloud, off with both.
IndicatorFollows ==
    /\ <>[]~wifiConnected => <>[](indicator = "On")
    /\ <>[](wifiConnected /\ ~conStat) => <>[](indicator = "FastBlink")
    /\ <>[](wifiConnected /\ conStat) => <>[](indicator = "Off")

\* A task that spins so that the watchdog timer shall reset the device gets its
\* reset (`while (1); //force a WDT reset' in MqttCallback).
HungTaskResets == task[MqttTask] = "Spinning" ~> task[MqttTask] # "Spinning"

\* The temperature comes from a count within the range of the ADC's results since the
\* start, but for the one result too many that the sum has: AvgCount + 1 are added and
\* divided by AvgCount (`adcAccumulateNum <= APP_CTRL_ADC_AVG_COUNT'), whatever
\* results are lost and however often the device starts again.
TemperatureInRange ==
    temp = 0 \/ /\ \E s \in Samples : temp * AvgCount <= (AvgCount + 1) * s
                /\ \E s \in Samples : s <= temp

\* So does the sum, for the number of results in it.
SumInRange ==
    /\ dataReady => adcCount \in Samples
    /\ \E s \in Samples : adcCountAccumulate <= adcAccumulateNum * s
    /\ \E s \in Samples : adcAccumulateNum * s <= adcCountAccumulate
    /\ TemperatureInRange

\* Between two runs of APP_CONTROL at most one unit passes: the timer is at 0 while
\* it is delayed and at most at 1 while it is ready.
Cleared ==
    trapped \/ task[Control] = "Spinning"
    \/ (task[Control] = "Delayed" /\ wdt = 0)
    \/ (task[Control] = "Ready" /\ wdt <= 1)
=============================================================================
