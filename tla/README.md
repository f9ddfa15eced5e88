# The PIC32MZ W1 Curiosity out-of-box demo, in TLA+

The firmware of the PIC32MZ W1 Curiosity board connects to Wi-Fi, opens a TLS
connection to AWS IoT Core, publishes a temperature every second and follows
a device shadow that switches an LED. This directory models the part of it
that must go on working for months without anybody looking: the way from power
up to the network (provisioning from the USB drive and the Wi-Fi service), the
connection state machine (SYS_NET), the MQTT service above it, the cloud
application above that, and beside them the watchdog task and the timers.

File names below are relative to `src/src/firmware/src/`; `C/` stands for
`config/pic32mz_w1_curiosity/`.

## Inventory

Every module of the firmware is polled by a FreeRTOS task of its own
(`C/tasks.c`), all of priority 1 and time-sliced. Tasks share memory without
locks, except for the semaphore of each SYS_NET handle.

| Component | State | Operations | Talks to | Hard behaviour | Correct when |
|---|---|---|---|---|---|
| SYS_NET, `C/system/net/src/sys_net.c` | handle: status (14 values of the client), socket, TLS timer, reconnect flag, semaphore | `Open`, `Task`, `CtrlMsg` (disconnect, reconnect), `SetConfigParam`, `SendMsg`, `RecvMsg`, `Close` | called by the MQTT task and by the console; calls NET_PRES, DNS, and its user's callback; the TCP task calls its signal handler | the semaphore is given around callbacks, so handlers run in two halves; FIN, reset, link loss, TLS failure in every status | no socket is lost or used when closed; the user's view is right; TLS is never skipped; it reconnects |
| MQTT service, `C/system/mqtt/src/sys_mqtt_paho.c`, `sys_mqtt.c` | status, 5 s timer, subscriptions, publish in progress | `Task`, `Connect`, `Publish`, `Subscribe`, `Unsubscribe`, `Disconnect`, console commands | SYS_NET below, Paho client, its user's callback | acknowledgements late, lost or refused; console commands between its steps | waits end; events match the connection |
| Paho client, `third_party/paho.mqtt.embedded-c/MQTTClient-C` | isconnected, handlers, keep-alive | connect, subscribe, publish, cycle, waitfor | called by the service | packet identifiers of acknowledgements are not compared | a handler for each subscription; a dead peer is noticed |
| Cloud application, `mqtt_app.c` | MQTTConnected, MQTTPubQueued, shadowUpdate, pubFlag | `publishMessage`, `MqttCallback`, 1 s timer | the MQTT service | its flags mirror the service through events only | telemetry goes on; PUBLISHED is true; the shadow follows the LED |
| Application control, `app_control.c` | five polled states, LED, ADC, RTCC | `APP_CONTROL_Tasks`, ADC interrupt | reads flags of the Wi-Fi and cloud applications; clears the watchdog timer; the cloud application reads its temperature | one task answers to the watchdog for all; results come by interrupt | resets exactly a stuck device; LED follows the connections; the temperature is an average |
| Wi-Fi application and service, `app_wifi.c`, `C/system/wifi/src/sys_wifi.c` | status, configuration, retries, what is registered; `wifiConnected` | `SYS_WIFI_Tasks`, `CtrlMsg`, the driver's callback, the DHCP handler | driver, DHCP client; gates the cloud application and the LED | the driver's and the DHCP client's tasks write the status while a case of the service is under way | it associates again; only with the network of WIFI.CFG; `wifiConnected` is right |
| Mass storage and provisioning, `msd_app.c` | 12 files on the USB drive, state, what it read (`app_controlData`) | format, write what is missing, read WIFI.CFG and cloud.json, ERROR.txt, attach the drive | file system, secure element, USB; the configuration goes to the Wi-Fi and cloud applications | power loss between and within writes, files the user broke, partial failure | nothing stays missing, user files are kept, ERROR.txt is true, the user always gets at the drive |
| System timers, `C/system/time/src/sys_time.c` | delta list of timers, compare register, 32-bit counter, 64-bit count | create, start, reload, stop, destroy, delays, interrupt | all services; callbacks call back | wrap of the counter, late interrupts, callbacks that change the list the handler walks | each timer fires once per deadline, not early, hardly late |
| TCP/IP, wolfSSL, CryptoAuthLib, FreeRTOS, FatFs, USB, drivers, console | | | | | library, vendor or generated code; modelled only by what SYS_NET sees of it |

`PROJECT.json` lists every component with its status, and under `hazards` each
place in this code where something can go wrong that a test would hardly
reach, with the properties that would notice.

## Plan

1. (done) SYS_NET with its abstract sessions, model-checked and proved:
   `SysNet`, `SysNetProps`, `NetSession`, `SysNetProofs`.
2. (done) The MQTT service and the Paho client on those sessions, composed with
   the cloud application and a broker: `SysMqtt`, `MqttApp`; and the same with the
   console, whose calls interleave with the MQTT_APP task: `MqttConsole`.
3. (done) Application control, the watchdog timer and the scheduler: `AppControl`.
4. (done) Start and provisioning: `msd_app.c`, `app_wifi.c` and the Wi-Fi service
   from power up to an association, with power failing between and within file
   writes: `MsdApp`, `SysWifi`, composed in `Startup`.
5. (done) The timers: the delta list of SYS_TIME on a counter that wraps, as an
   implementation of a set of deadlines: `SysTime`, `TimerService`.
6. (left out) Within SYS_NET: the two accesses of `SYS_NET_NetPres_Signal` as two
   steps. They are one instruction apart, and what the split adds is known
   without a run: a DISCONNECT of the console between them leaves the status
   PEER_SENT_FIN on a closed socket. The hazard is listed.
7. (done) Proofs about `MqttApp` (`AppViewAgrees`, `QueuedIsWaiting`) and `AppControl` (`NoSpuriousReset`) for all constants:
   `MqttAppProofs`, `AppControlProofs`.
8. (done) Proofs of `HandlersMatchBroker` and `PublishedWasTaken`, with an
   invariant over the packets on their way: `MqttPacketProofs`. Proofs about the
   start, first of each side, then of the composition: `MsdProofs`,
   `WifiProofs`, `StartupProofs`.
9. (done) Proofs about SYS_TIME for any number of timers and any width of the
   counter, with the refinement of `TimerService`: `SysTimeProofs`.

With these every safety property of the runs but `ConsoleTypeOK` is a theorem. What
is open is listed under Proofs (liveness, the console) and under What is not modelled.

## Modules

`SysNet` — one client handle of SYS_NET. A section of code that runs with the
semaphore taken is one step, as no other task that takes the semaphore sees
its middle. Where the code gives the semaphore to call back, the handler is
three steps: the first half (`Task...`, `CtrlDisconnect`), the callback
(`Callback`), and the second half (`Resume...`), with the continuation kept in
`call[c].next` for each caller. The callbacks of failed attempts run with the
semaphore taken (`Held`). `Owner` is the MQTT task; `Others` are tasks that use
`sysnet` or `sysmqtt` at the console. Each case of the switch of
`SYS_NET_Client_Task` is an action named after its status. `tcp`, `enc` and
`rx` say of each slot of NET_PRES what SYS_NET asks of it: connected, half
closed, dead; encryption; unread bytes. `hdl->socket` keeps its value when the
socket is closed, as in the code, so using a stale one is a behaviour of the
model.

`SysNetProps` — the properties of SYS_NET, and the invariants that make them
inductive. `NetSession` — the abstract specification: sessions, each begun,
reported, ended and reported, one after the other. `MCSysNet` — sets of faults
for TLC.

`SysMqtt` — the MQTT service and the Paho client, above the actions of
`NetSession` rather than above `SysNet`: this is the composition. What the
MQTT task believes about SYS_NET is what `OwnerImplementsSessions` proves. The
MQTT task calls in turn the application, SYS_NET_Task and the service (`turn`).
Every action of the service has a parameter `ev`, the set of events with which
it calls its user; its user interprets it. Two calls in one step happen, for
instance when a message is delivered in the call in which a wait times out.
The connection is `wire` with a queue of packets each way; "Mute" is a peer
that vanished, where packets are lost but sending does not fail at once.

`MqttApp` — the cloud application on the service, with `MqttCallback` as the
meaning of `ev`. `MaxErrors` is 5 in the code. Nobody uses the console here, so only
the MQTT_APP task touches the state, and a call that it makes is one step.

`MqttConsole` — the same with `sysmqtt` at the console. `SYS_MQTT_Paho_CtrlMsg` and
`SYS_MQTT_Paho_SendMsg` take no lock, and the SYS_CMD task has the priority and the
time slices of MQTT_APP. So every call of either task is cut at each access to what
both touch: the check of the status, the entry of the topic, the packet, the timer,
the entry's flag, the status (`ChecksStatus` to `IsDown`; `job[p].at` is where the
call of task `p` is), and each case of the switch between reading the status, reading
the answer, resetting the timer, writing the status and calling back (`CaseBegins` to
`TellsUser`). One call of the Paho client or of SYS_NET stays one step. An
acknowledgement compared with or copied from a NULL topic is an exception
(`crashed`), which loops until the watchdog timer resets the board.

`AppControl` — the tasks, the watchdog timer, the LED and the average of the ADC's
results (`AdcRead` in the state ADC_READ, `AdcResult` the interrupt). A unit of time is the
100 ms of APP_CONTROL: every ready task runs once, one that spins uses its own
slices only. The timer of the code is 4096 ms, 40 units; in the model `Limit`.

`MsdApp` — provisioning. Each file is `Missing`, `Empty` (opened for writing, not
yet synchronised) or holds one of the contents the code tells apart. `phase` is the
function that the state TOUCH_FILE is in and `queue` the files it has still to
write, so that power can fail before, within and after each (`MsdPowerLoss`);
`MsdCrash` is the exception of a WIFI.CFG without a comma. What the user does to
WIFI.CFG and cloud.json is part of the initial states. `errFile` tells an ERROR.txt
of this start from one an earlier start left, which the start removes when it mounts
the drive, if it can (`RemovesErrorFile`). `silent` is a history
variable: something failed for which msd_app.c writes no error file, or ERROR.txt
itself could not be written or removed.

`SysWifi` — the Wi-Fi service in station mode and `APP_WIFI_Tasks`, with the
driver's callback (`Associated`, `AssociationFails`, `LinkLost`) and the DHCP
client's events (`Bound`, `LossSeen`). The callbacks take no semaphore, so the
two cases in which they can come between a call and the case's own write of the
status are split (`step`).

`Startup` — the composition: the datastore that MSD_APP fills is what
APP_WIFI hands to the service, and a restart takes all of them back.

`SysTime` — SYS_TIME on the core timer. A critical section of a task is two
steps (`TimerAddBegin`, `TimerAddEnd`), as the 64-bit count is read without the
mutex; the interrupt is the steps from `InterruptTaken` to `InterruptDone`, each
callback between them. Times are counts modulo twice the range of the counter,
which tells one turn from the next. `due` is a history variable, the true time
left of each timer. `TimerService` — the abstract specification: a deadline for
each timer, no list. A timer starts, stops or gets another deadline only by a call of
a task while it has the service, or of a callback; it expires only in the handler, when
its deadline has come, before no timer with an earlier one, at most `Slack`
late, and then calls back once. `MCSysTime` — checks `AddToList`, `RemoveFromList` and `UpdateTimerList`
over all lists of up to three timers against what they are for.

Each module also holds variants: an operator like the one it stands before,
changed the way a plausible mistake would. Nothing uses them; replacing
the operator by its variant breaks the property named in `mutants`.

## Runs

| Run | Question | Bounds | Result |
|---|---|---|---|
| `net_owner` | With the MQTT task as the only caller: are sockets, view, events and sessions right, and where does it end? | 2 sockets, 4 troubles of every kind | holds |
| `net_cli` | And with the console closing, opening and reconfiguring between any two steps? | 2 sockets, one console task, 4 troubles | types, live sockets and TLS hold |
| `net_dead_end` | Does a handle with reconnection always reconnect? | 3 troubles | no: one failed reopen after a FIN |
| `net_cli_leak` | Are the SYS_NET functions re-entrant? | 3 troubles | no: a socket is lost |
| `cloud` | The cloud application without the console | 3 troubles, 1 delta, give-up after 2 timeouts (71 000 states) | holds |
| `cloud_cli` | Where can the service end when a command of the console interleaves with the MQTT_APP task? | 1 trouble, 1 command of any kind, 2 topics, give-up after 2 timeouts (536 000 states) | types hold; telemetry goes on, or one of four named dead ends |
| `cloud_telemetry` | Does telemetry go on after one `sysmqtt subscribe`? | 1 command, no trouble | no: that can stop it |
| `cloud_shadow` | Does the shadow report the LED in the end? | 1 trouble | no: a report that fails is forgotten |
| `watchdog` | Does the watchdog reset exactly a stuck device, does the LED follow, and is the temperature in range? | 3 tasks, 2 faults, 3 changes of connection, ADC results 1 and 2, averages of 2 | holds |
| `time` | Does SYS_TIME keep every deadline while its counter turns, interrupts are late and callbacks start and stop timers? | 2 timers, a counter of 12 counts, interrupts and handlers of 1 count | holds |
| `startup` | From power up: what do the drive, ERROR.txt and the radio come to, and does the board join its network? | 1 power loss, 1 retry, every content of WIFI.CFG and cloud.json (895 000 states) | holds |
| `watchdog_hang` | Does the cloud application's endless loop lead to a reset? | 1 fault | no |

A passing run shows more than its properties' names: `RecoversUnlessDeadEnd`
says that the four places of `DeadEnd` are the only ones at which SYS_NET with
reconnection stays: the look-up failing in `SYS_NET_Open`, no socket after a
FIN, a reset before the first poll of a new connection, and a FIN that comes
while the status is not CONNECTED. `TelemetryFlows` says that nothing but the
application's own give-up ends the telemetry when nobody uses the console.
`StopsOnlyInDeadEnds` says that with a command at the console it can end in
four more ways, each a state of the model that is reached: `RefusedForGood` (the
application's publish was refused, or its wait replaced, and MQTTPubQueued stays
set), `WaitsUntimed` (the timer of a wait was reset before its status was written),
`ForgottenSession` (`sysmqtt close` during the wait for the CONNACK, where
MQTTDisconnect does nothing) and `NeverTold` (a request of the console slips in
between the CONNACK and the service's own wait for the SUBACK).

`RequestLostOnlyByRace` and `ViewWrongOnlyByRace` are about one status variable that
three tasks write. A pending request to connect is lost in two races: the case that is
under way writes its own status over it (sys_wifi.c:699, :713), or the DHCP client,
which has not seen the link go, announces an address over it (:403). The application's
view goes wrong when an address is announced after its loss (:712), or when the event
of a new one is overwritten, by the case under way or by the driver's
callback (:315, :323, :336). Each is a step of the model, and nothing else leads there:
the formulas name the status that is overwritten and the step that does it.

Bounds. Two sockets are what the handle can hold at worst: one it uses and one
it lost. Trouble is what limits a run: each lost connection, refusal, failed
look-up, late answer or console command costs one, and four (three for the
cloud) are enough for a second failure to hit the recovery from the first,
in both halves of the handler of a third. Liveness is about what follows when
the trouble is over, so a finite number is the honest reading of "whatever
happened before". One command of the console meets the MQTT_APP task at every point of
its loop, and the trouble at every point of both; two entries of the table of
topics (four in the code) let it be full and not. Packets on the wire are bounded by the
service itself, which waits for each answer. `Limit = 3` is the smallest value with a margin over the two
units that can pass between two runs of APP_CONTROL.

One power loss lets a start meet whatever an interrupted one left, at every point of
every write; the proofs cover any number. One retry tells the last attempt
from the others. A counter of 12 counts with periods of 2 and 6 makes timers
expire within one update, over several turns, and farther off than the half turn at
which the code looks at the counter; two timers are enough for a change of the
list in front of and behind another, and three are covered by `MCSysTime`. The code's
margin of the compare register is kept (`ExecTicks + 2`). The counter of the
firmware has 2^32 counts; all that the proofs ask of the numbers is that a late interrupt and
the margin fit into half a turn (`LatencyAssumption`, about 20 s of a core timer at
100 MHz). The timers in
use are the TCP/IP stack's tick of 5 ms, the 5 s of MSD_APP and the 1 s of the cloud
application, all periodic.

Runs have `CHECK_DEADLOCK FALSE` as the code stops by design: a handle
without reconnection is freed, the application may halt, the watchdog's
environment may be used up.

Fairness. All tasks have one priority and FreeRTOS slices time between them, so
a task that can make a step makes one (weak fairness of the task's
steps). A command of the console is finished once it has begun, none need be typed. The owner reads only when it is called back and not in between, hence
strong fairness for reading. Timers expire. In `Startup` MSD_APP, APP_WIFI
and the Wi-Fi service make their steps; nothing is assumed about the driver, the
DHCP server, the link or power. In `SysTime` the counter runs and a handler that
has begun goes on; `ServesTimers` itself is safety: a timer late by more than the
slack is a step of time that `TimerService` does not allow. The peer, the name server, the
access point and the broker answer in the end (weak fairness), but for the
bounded trouble. In `MqttApp` a connection comes up in the end (strong
fairness, as each failed attempt disables it): for SYS_NET
`RecoversUnlessDeadEnd` is the justification, and the dead ends are the
exception that the reader must add. Nothing is assumed about console commands
or trouble.

Granularity. The step of the MQTT task between two calls of SYS_NET is atomic in
`MqttApp`. That is exact, as only that task touches the state. With the console it is
not, and `MqttConsole` cuts the calls; the safety properties of `MqttApp` are not
claimed there, as the code breaks them (`RefusedForGood` breaks `QueuedIsWaiting`,
`WaitsUntimed` `WaitsAreTimed`, `NeverTold` `AppViewAgrees`). A
call that reads handles one packet; the code's loop over several packets is
several such calls with nothing in between. In `SysTime` a task takes the lock and reads
the counter in one step (`TimerAddBegin`): that the compare value is passed between the
two, so that the count which is read is already past it, is left out.

## Proofs

`SysNetProofs` proves, for every set of sockets, every set of other callers,
every set of faults and any number of troubles:

* `TypeCorrect` — `Spec => []TypeOK`.
* `SafeCorrect`, and from it `SocketAlwaysLive` and `SessionAlwaysSecure`. The
  two are not inductive alone: when the MQTT task has closed its socket
  after a FIN and still has to open the new one, another task must not have
  brought the handle into a status that uses a socket. That is `ReopenClosed`,
  and it holds because reconnecting (by any task) leads to LOWER_LAYER_DOWN,
  from which only the MQTT task itself goes on.

and, assuming `Others = {}` (nobody uses `sysnet` or `sysmqtt`):

* `OwnerCorrect`, and from it `OwnerNeverLeaks`, `OwnerViewAgrees` and
  `OwnerEventsAlternate`. `OwnerInv` adds to the properties what holds between
  the halves of a handler (`BetweenHalves`) and what the event on its way says
  about the status and the owner's view (`EventView`). That the assumption is
  needed is what `net_cli_leak` shows.
* `OwnerRestsOnlyInDeadEnds`, the safety half of `RecoversUnlessDeadEnd`. `RestInv` says
  which handler leads out of DISCONNECTED and who holds the semaphore; that the
  case of each other status makes its step is TLC's.
* `OwnerImplementsSessions` — SysNet implements NetSession under the refinement
  mapping `SessionSeen`; `SessionMoves` is the step of the argument in the
  handle's own terms.

`MqttAppProofs` proves, for any bounds on trouble, deltas and timeouts, with the console
unused (`MqttApp`):

* `TypeCorrect`. The count of PUBACK timeouts is bounded because the task halts at
  the first one beyond `MaxErrors` (`ErrorsBounded`).
* `AppViewAlwaysAgrees`. `AppInv` adds to `AppViewAgrees` what makes it inductive:
  in which statuses the client is connected and the application knows of it
  (`StatusFollows`), that a session begins only after the end of the last one
  was reported (`BeginsAfterEnd`) and that a publish in progress belongs to a
  connection (`QueuedIsConnected`). `AppMqttStep` is the heart: each case of
  the switch together with the callbacks it makes.
* `QueuedAlwaysWaiting`. `AloneInv` adds that the wait for a SUBACK comes before the
  application hears of the connection; a command at the console breaks that, and
  with it the property (`cloud_telemetry`).
* `WaitsAlwaysTimed` and `ExpiryAlwaysEndsWait`: in every wait for an answer the 5
  second timer is on, and the service's first call after it has run out leaves the
  status. Each is a case analysis of the switch (`TimedTask`, `ExpiredTask`) and of
  publishing; `WaitsAreTimed` is inductive as it stands. That such a wait ends follows
  with the fairness of the timer and the task, and that step is TLC's (`TelemetryFlows`).

`AppControlProofs` proves `TypeCorrect` and `NeverSpuriousReset` for any set of
tasks, any faults and any `Limit` of at least two units. `Cleared` is the
invariant: time passes only when APP_CONTROL is delayed, after it has cleared
the timer. What the theorem rests on is the unit of time (see Modules): that
every ready task gets its slices within a period is the scheduler's promise.
`TemperatureAlwaysInRange` holds for any range of the ADC and any `AvgCount`; its
invariant `SumInRange` keeps the sum in proportion to the number of results in it.

`MqttPacketProofs` adds what the packets on their way say:

* `HandlersAlwaysMatch`. `TopicsInv` is the inductive
  invariant: in a rest of the service no request or grant is on its way and
  client and broker have the same topics; in a wait there is one at most, the
  request going up or the grant coming down, and the topic is on the
  broker's side from the moment the request was taken (`TopicsFollow`); and a
  new session begins with empty queues and no topics (`SessionBeginsEmpty`).
* `PublishedAlwaysTaken`. `PublishInv`: a publish is under way only in the wait for
  its PUBACK, once, as the message or as
  the answer. That is why the packet identifier, which the client does not
  compare (MQTTClient.c:847), is not missed; a late PUBACK dies with the
  connection that the timeout closes.

The start is proved for any number of power failures and retries, side by side and
then together:

* `MsdProofs`: `MsdInvariant`. What a file holds depends on how far the start came:
  the functions write in a fixed order and each looks for the last files of
  its list, so a file that exists proves the earlier ones (`Present`). `ResetInv`
  adds what formatting restores. `StartAlwaysEnds`: the variant `StepsLeft`, thirteen
  for each stage ahead and two for each file still to be written, falls with every
  step of `MSD_APP_Tasks` (`StageFalls`, `FileShortens`). It is the safety half of
  `UsbAttaches`; that some step is enabled until the drive is attached is TLC's.
* `WifiProofs`: `WifiInvariant`, of the service under an application that hands over
  any configuration at any time: nothing happens before a configuration was handed
  over (`Provisioned`), the application hears of a connection only through a
  registered handler (`ViewFromHandler`), and the stack sees a link only after one was
  requested (`BoundAfterHandler`). From it come `RequestLostByRace` and
  `ViewWrongByRace`, one lemma for each bad state (`ForgottenStep`, `StaleStep`, `UntoldStep`).
* `StartupProofs`: `ImplementsMsd` and `ImplementsWifi` — each side behaves in the
  composition as it was specified alone, by step simulation — and with them all the
  safety properties of the run `startup`. `JoinsProvisionedOnly` needs both sides: the
  configuration the service has is the one in the datastore, which MSD_APP writes
  once per start (`FromDatastore`).

`SysTimeProofs` proves the whole of the run `time`, for any number of timers, any
periods shorter than a turn, any width of the counter, any margin and any latency
that fits: `TypesHold`, `HoldsRunning`, `KeepsDeadlines`, `KeepsTime`, and
`ServesAsPromised`, that SYS_TIME implements `TimerService`. None of them is
inductive alone, as each rests on the others. Their invariant `TimersInv` (`InvHolds`) has these
parts:

* `TimedList` — the times in the list, summed up from its head and less what the
  counter has done since, are the deadlines in the history variable `due`, in order, and
  only a timer whose own time is 0 may be overdue. For this the proof has one
  lemma per list operation (`AddTimed`, `RemoveTimed`, `UpdateTimed`) and one for time
  that passes (`CountTimed`).
* `CountsAddUp` and `UpdatedInTime` — software count, elapsed counts and the lag
  of a TimerAdd make up the time, modulo two turns, and the list is brought up to
  date within half a turn and a latency. Without the second, an update could miss a
  whole turn and the first would be lost.
* `ObjectsAgree`, `ListHoldsRunning`, `AddUnderWay` — what the flags of an
  object say of the list and of each other: within the handler an expired
  periodic timer is in no list, but its next deadline is already fixed.
* `NoneTooLate` — how late the earliest deadline can be in each place of the code. The
  bound grows by one latency from the compare value to the section of a task, to the
  interrupt and to the handler; its last line is the `Slack` of `ServesTimers`.

The remainders of the counter's arithmetic are in `CounterIs` and `CompareIs`: the
value written to the compare register is ahead of the counter by less than half
a turn, whatever the counter does while it is being written.

What a list adds up to, and what the loop of SYS_TIME_UpdateTime over the objects
does, is proved by induction over data without an operator as a parameter:
`LeastNumber` takes a least counterexample from the library's theorem that a
well-founded order has minimal elements, and `Induction` restates it for a set of
numbers, which a proof can define for itself.

The proof corrected the model in one place. The bound on lateness had been
`Margin + 1 + 2 * Latency`, which holds for a latency of 1, the value in the run, and
TLC finds it violated with a latency of 2 (and 14 counts a turn). The proof
gives `Margin + 4 * Latency`, which TLC confirms with either.

The assumptions on the constants are `SysNetAssumption` (the owner is none of
the others, INVALID_SOCKET is no socket), `CallersAssumption` (no task is
called "free"), `SysMqttAssumption`, `MqttAppAssumption` (the bounds are
numbers) and `AppControlAssumption` (the two tasks
differ, the timer's period is longer than one unit), `LossesAssumption`,
`RetryAssumption` (both bounds are numbers), `SysTimeAssumption` (periods
shorter than a turn of the counter) and `LatencyAssumption` (interrupt latency and
margin fit into half a turn); TLC evaluates them in the runs of their modules.

`ConsoleAssumption` (the topics of the console differ from the application's) is only
used by TLC.

Only model-checked: what `MqttConsole` says of the console; everything about liveness
(`RecoversUnlessDeadEnd`, `StopsOnlyInDeadEnds`, `TelemetryFlows`, `StuckResets`, `IndicatorFollows`, `UsbAttaches`,
`ConfiguredBoardJoins`), which is out of the prover's reach, and the assumption
`ListOperations` of `MCSysTime`, which compares the list operations with what they
are for over every list of up to three timers. The safety half of most of them is a
theorem: `RestsOnlyInDeadEnds` of the first, `WaitsAreTimed`, `ExpiryEndsWait` and
`QueuedIsWaiting` of `TelemetryFlows` (no answer is waited for in vain),
`StartEnds` of `UsbAttaches` and `RequestLostOnlyByRace` of the last.

## Where code and documents differ

The five violation runs are listed under `findings`. Seen while modelling, and not
claimed by a run:

* A start with SW1 pressed restores every file only if nothing fails
  (`src/README.md:318-326`); a failure shows in ERROR.txt or is silent. `FactoryReset` is
  stated with that condition.
* `MSD_APP_Write_keys` (msd_app.c:547-549) looks for the certificates where it means
  the keys, so three keys that are missing are never written again; `NothingMissing`
  leaves `certKeys` out.
* A WIFI.CFG without a comma crashes the board (msd_app.c:300) before the lines under
  "Validate the input", at every start and before the drive is attached:
  the user cannot repair it but by the start with SW1 pressed. `UsbAttaches`
  names the case.
* `configString` is not terminated (msd_app.c:268, :289): `ConfigInvalid` can happen
  to a valid file.
* An ECC608 that fails in `MSD_APP_Write_Serial` is not released (msd_app.c:763-766).
* SYS_WIFI passes an address on, but not the end of a lease; its TCPIP_ERROR is
  overwritten by the next assignment; without a ready stack the DHCP handler is never
  registered (sys_wifi.c:682) and the application never hears of a connection.
* `SYS_TIME_HwTimerCompareUpdate` adds a turn short of one count; the margin of two
  counts makes up for it. Between initialization and the first timer the
  compare register holds the core timer's own first value, so the 64-bit count needs
  the first timer within one turn: the TCP/IP stack starts one at once
  (tcpip_manager.c:1475), and `Init` begins there.
* app_control.c:210 says "Average over 100 ADC samples"; `APP_CTRL_ADC_AVG_COUNT` is 10,
  and `adcAccumulateNum <= APP_CTRL_ADC_AVG_COUNT` adds 11 results before the sum is
  divided by 10: the count is a tenth too high. `TemperatureInRange` states the range
  that follows, with `AvgCount + 1`.
* A comment in `SYS_TIME_TimerStart` (sys_time.c:882-885) lets a single-shot timer be
  started again from its own callback; `SYS_TIME_ClientNotify` destroys a timer
  of that kind before it calls back (line 456), so the start finds no timer.

## What is not modelled

SYS_NET: the server side and UDP, the table of handles; the firmware configures one
TLS client that reconnects. MQTT: without autoConnect; the bytes of packets,
buffers and partial reads; QoS 2; the cloud application's wait for its
configuration. The times of the timers in these models but for their order. Application
control: the RTCC's time, which only a console command prints, and the switch, which
nobody reads. Provisioning: the user's editing while
the board runs (a board is modelled from the files it starts with). Wi-Fi: access
point mode, scanning, the messages of SYS_WIFI that the application does not send, the
regulatory domain. SYS_TIME: TimerCounterGet, CounterSet, Deinitialize, handle
tokens (a stale handle only returns an error), creating a timer from a
callback, a start with a count other than zero, the elapsed flag of
periodic timers (nobody polls one).

Nearly all of the repository's 297 000 lines are vendored or generated
library code: FatFs, the TCP/IP stack, wolfSSL, CryptoAuthLib, FreeRTOS, USB and the
drivers. The firmware's own logic is a few thousand lines; those that keep state
are modelled, and the libraries appear as what the firmware sees of them.
That is why the share of mapped lines is small.

In `MqttConsole` three things are coarser than the code. `g_sMqttMsg`, one static buffer
for the publishes of all tasks (sys_mqtt_paho.c:959), and the one send buffer of the
client are filled in the step that sends them: two tasks that write them at once are
left out. A handler keeps the name of its topic, where the code keeps a pointer to the
entry. And the broker ignores what it gets before a CONNECT, where a real one may close
the connection, which is a trouble of the model as well.

SYS_NET_Open fails only without a free handle or memory for its semaphore; the status
SOCK_OPEN_FAILED of the MQTT service that follows (sys_mqtt_paho.c:312, which nothing
leaves) is left out. SYS_NET_CTRL_MSG_RECONNECT copies a whole configuration
(sys_net.c:2005-2008); the model changes the reconnect flag and takes the rest to stay,
so `SessionIsSecure` is about a handle whose `enable_tls` nobody clears at the
console. A drive that never mounts and a USB device that never opens are polled for
ever; the model takes both to succeed in the end.

An empty file that a loss of power leaves is never repaired: msd_app.c looks for missing
files only. Empty files are states of the model; `NothingMissing` does not speak of
them, and `UserFilesKept` shows the other side, that nothing but formatting touches a
file that is there. A second `sysnet close` may wait for a semaphore
that was deleted when reconnection is off; the model stops such a caller.
