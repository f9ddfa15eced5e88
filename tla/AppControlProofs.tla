-------------------------- MODULE AppControlProofs --------------------------
(***************************************************************************)
(* Proofs about the watchdog timer for any set of tasks, any period of the *)
(* timer of at least two units, and any faults; and about the temperature  *)
(* for any range of the ADC and any number of results.                     *)
(***************************************************************************)
EXTENDS AppControl, TLAPS

\* Dividing and multiplying again loses nothing but the remainder.
LEMMA DivisionOK ==
    ASSUME NEW a \in Nat, NEW n \in Nat, n >= 1
    PROVE  /\ a \div n \in Nat
           /\ (a \div n) * n <= a
           /\ \A s \in Nat : s * n <= a => s <= a \div n
  OBVIOUS

\* What the assumption says of the constants.
LEMMA ConstantsOK ==
    /\ Control \in Tasks /\ MqttTask \in Tasks
    /\ Samples \subseteq Nat /\ AvgCount \in Nat /\ AvgCount >= 1
    /\ Limit \in Nat /\ Limit >= 2 /\ MaxTrouble \in Nat /\ MaxChanges \in Nat
  BY AppControlAssumption

LEMMA ZerosOK ==
    /\ 0 \in Samples \cup {0} /\ 0 \in Nat /\ 0 \in 0 .. AvgCount + 1
    /\ 0 \in 0 .. Limit /\ "INIT" \in States /\ "On" \in {"On", "FastBlink", "Off"}
    /\ [t \in Tasks |-> "Ready"] \in [Tasks -> {"Ready", "Delayed", "Spinning"}]
  BY ConstantsOK DEF States

\* The sum is of numbers and so is the average; no more than AvgCount + 1 are added.
LEMMA AdcReadType ==
    ASSUME TypeOK, AdcRead
    PROVE  /\ dataReady' \in BOOLEAN /\ adcCount' \in Samples \cup {0}
           /\ adcCountAccumulate' \in Nat /\ adcAccumulateNum' \in 0 .. AvgCount + 1
           /\ temp' \in Nat
<1>1. CASE ~dataReady BY <1>1 DEF TypeOK, AdcRead, adc
<1>2. CASE dataReady /\ adcAccumulateNum <= AvgCount
  <2>1. /\ dataReady' = FALSE /\ adcCount' \in Samples \cup {adcCount} /\ temp' = temp
        /\ adcCountAccumulate' = adcCountAccumulate + adcCount
        /\ adcAccumulateNum' = adcAccumulateNum + 1
    BY <1>2 DEF AdcRead
  <2>2. adcCount \in Nat BY ConstantsOK DEF TypeOK
  <2>3. adcCountAccumulate' \in Nat /\ adcAccumulateNum' \in 0 .. AvgCount + 1
    BY <1>2, <2>1, <2>2, ConstantsOK DEF TypeOK
  <2>4. dataReady' \in BOOLEAN BY <2>1
  <2> QED BY <2>1, <2>3, <2>4 DEF TypeOK
<1>3. CASE dataReady /\ ~(adcAccumulateNum <= AvgCount)
  <2>1. /\ dataReady' = FALSE /\ adcCount' \in Samples \cup {adcCount}
        /\ temp' = adcCountAccumulate \div AvgCount
        /\ adcCountAccumulate' = 0 /\ adcAccumulateNum' = 0
    BY <1>3 DEF AdcRead
  <2>2. adcCountAccumulate \div AvgCount \in Nat BY DivisionOK, ConstantsOK DEF TypeOK
  <2>3. dataReady' \in BOOLEAN BY <2>1
  <2>4. 0 \in 0 .. AvgCount + 1 BY ConstantsOK
  <2> QED BY <2>1, <2>2, <2>3, <2>4 DEF TypeOK
<1> QED BY <1>1, <1>2, <1>3

\* A task that runs, spins or wakes is still in one of the three states.
LEMMA TypeStep == TypeOK /\ [Next]_vars => TypeOK'
<1> SUFFICES ASSUME TypeOK, [Next]_vars PROVE TypeOK'
  OBVIOUS
<1> USE ConstantsOK DEF TypeOK, flags, adc
<1>1. CASE ControlRuns
  <2>1. state' \in States
    BY <1>1 DEF ControlRuns, Successor, States
  <2>2. indicator' \in {"On", "FastBlink", "Off"}
    BY <1>1 DEF ControlRuns, Indication
  <2>3. /\ dataReady' \in BOOLEAN /\ adcCount' \in Samples \cup {0}
        /\ adcCountAccumulate' \in Nat /\ adcAccumulateNum' \in 0 .. AvgCount + 1
        /\ temp' \in Nat
    BY <1>1, AdcReadType DEF ControlRuns
  <2> QED
    BY <1>1, <2>1, <2>2, <2>3 DEF ControlRuns, Runs
<1>1a. CASE AdcResult
  <2>1. dataReady' \in BOOLEAN /\ adcCount' \in Samples \cup {0}
    BY <1>1a DEF AdcResult
  <2> QED BY <1>1a, <2>1 DEF AdcResult
<1>2. CASE WifiChanges
  BY <1>2 DEF WifiChanges
<1>3. CASE CloudChanges
  BY <1>3 DEF CloudChanges, Runs
<1>4. CASE \E t \in Tasks : OtherRuns(t)
  BY <1>4 DEF OtherRuns, Runs
<1>5. CASE MqttGivesUp
  BY <1>5 DEF MqttGivesUp, Trouble, Spins
<1>6. CASE ControlSpins
  BY <1>6 DEF ControlSpins, Trouble, Spins
<1>7. CASE Trap
  BY <1>7 DEF Trap, Trouble
<1>8. CASE Elapses
  <2>1. \A t \in Tasks : Wakes(t) \in {"Ready", "Delayed", "Spinning"}
    BY DEF Wakes
  <2> QED
    BY <1>8, <2>1 DEF Elapses
<1>9. CASE Resets
  <2>1. task' = [t \in Tasks |-> "Ready"] /\ wdt' = 0 /\ UNCHANGED <<trouble, changes>>
    BY <1>9 DEF Resets
  <2>2. ~trapped' /\ state' = "INIT" /\ ~wifiConnected' /\ ~conStat' /\ indicator' = "On"
    BY <1>9 DEF Resets
  <2>3. trapped' \in BOOLEAN /\ wifiConnected' \in BOOLEAN /\ conStat' \in BOOLEAN
    BY <1>9 DEF Resets
  <2>4. /\ dataReady' \in BOOLEAN /\ adcCount' = 0 /\ adcCountAccumulate' = 0
        /\ adcAccumulateNum' = 0 /\ temp' = 0
    BY <1>9 DEF Resets
  <2> QED
    BY <2>1, <2>2, <2>3, <2>4, ZerosOK DEF States
<1>10. CASE UNCHANGED vars
  BY <1>10 DEF vars
<1> QED
  BY <1>1, <1>1a, <1>2, <1>3, <1>4, <1>5, <1>6, <1>7, <1>8, <1>9, <1>10 DEF Next

\* The variables keep their types; the watchdog timer stays within its period.
THEOREM TypeCorrect == Spec => []TypeOK
<1>1. Init => TypeOK
  <2>1. ASSUME Init PROVE trapped \in BOOLEAN /\ wifiConnected \in BOOLEAN /\ conStat \in BOOLEAN
    BY <2>1 DEF Init
  <2>2. ASSUME Init
        PROVE  task \in [Tasks -> {"Ready", "Delayed", "Spinning"}] /\ wdt \in 0 .. Limit
    BY <2>2, ConstantsOK DEF Init
  <2>3. ASSUME Init
        PROVE  /\ state \in States /\ indicator \in {"On", "FastBlink", "Off"}
               /\ trouble \in 0 .. MaxTrouble /\ changes \in 0 .. MaxChanges
    BY <2>3, ConstantsOK DEF Init, States
  <2>4. ASSUME Init
        PROVE  /\ adcCount \in Samples \cup {0} /\ temp \in Nat
               /\ adcCountAccumulate \in Nat /\ adcAccumulateNum \in 0 .. AvgCount + 1
    BY <2>4, ZerosOK DEF Init
  <2>5. ASSUME Init PROVE dataReady \in BOOLEAN
    BY <2>5 DEF Init
  <2> QED
    BY <2>1, <2>2, <2>3, <2>4, <2>5 DEF TypeOK
<1> QED
  BY <1>1, TypeStep, PTL DEF Spec

\* Time passes only when APP_CONTROL has had its turn, so it is cleared in time.
LEMMA ClearedStep == TypeOK /\ Cleared /\ [Next]_vars => Cleared'
<1> SUFFICES ASSUME TypeOK, Cleared, [Next]_vars PROVE Cleared'
  OBVIOUS
<1> USE ConstantsOK DEF TypeOK, Cleared
<1>1. CASE ControlRuns
  BY <1>1 DEF ControlRuns, Runs
<1>1a. CASE AdcResult
  BY <1>1a DEF AdcResult
<1>2. CASE WifiChanges
  BY <1>2 DEF WifiChanges
<1>3. CASE CloudChanges
  BY <1>3, AppControlAssumption DEF CloudChanges, Runs
<1>4. CASE \E t \in Tasks : OtherRuns(t)
  BY <1>4 DEF OtherRuns, Runs
<1>5. CASE MqttGivesUp
  BY <1>5, AppControlAssumption DEF MqttGivesUp, Spins
<1>6. CASE ControlSpins
  BY <1>6 DEF ControlSpins, Spins
<1>7. CASE Trap
  BY <1>7 DEF Trap
<1>8. CASE Elapses
  <2>1. UNCHANGED trapped /\ task'[Control] = Wakes(Control) /\ wdt' = wdt + 1
    BY <1>8 DEF Elapses
  <2>2. trapped \/ task[Control] # "Ready"
    BY <1>8 DEF Elapses
  <2> QED
    BY <2>1, <2>2 DEF Wakes
<1>9. CASE Resets
  BY <1>9 DEF Resets
<1>10. CASE UNCHANGED vars
  BY <1>10 DEF vars
<1> QED
  BY <1>1, <1>1a, <1>2, <1>3, <1>4, <1>5, <1>6, <1>7, <1>8, <1>9, <1>10 DEF Next

\* The watchdog timer runs out only on a stuck processor or a stuck APP_CONTROL,
\* however many tasks share the processor with it.
THEOREM NeverSpuriousReset == Spec => NoSpuriousReset
<1>1. Init => Cleared
  BY ConstantsOK DEF Init, Cleared
<1>2. TypeOK /\ Cleared => (wdt = Limit => trapped \/ task[Control] = "Spinning")
  BY ConstantsOK DEF TypeOK, Cleared
<1> QED
  BY <1>1, <1>2, ClearedStep, TypeCorrect, PTL DEF Spec, NoSpuriousReset

-----------------------------------------------------------------------------
(* The temperature                                                           *)

LEMMA EmptySum == \E s \in Samples : 0 <= 0 * s /\ 0 * s <= 0
<1>1. PICK s \in Samples : TRUE BY AppControlAssumption
<1>2. s \in Nat BY ConstantsOK
<1>3. 0 * s = 0 BY <1>2
<1> QED BY <1>3

\* One more result, between two that bound the ones before.
LEMMA SumGrows ==
    ASSUME NEW sum \in Nat, NEW n \in Nat, NEW a \in Samples,
           \E s \in Samples : sum <= n * s,
           \E s \in Samples : n * s <= sum
    PROVE  /\ \E s \in Samples : sum + a <= (n + 1) * s
           /\ \E s \in Samples : (n + 1) * s <= sum + a
<1>0. a \in Nat /\ Samples \subseteq Nat BY ConstantsOK
<1>1. ASSUME NEW i \in Nat, NEW j \in Nat, i <= j
      PROVE  n * i <= n * j /\ (n + 1) * i = n * i + i /\ n * i \in Nat /\ n * j \in Nat
  BY <1>1
<1>2. \E s \in Samples : sum + a <= (n + 1) * s
  <2>1. PICK s \in Samples : sum <= n * s OBVIOUS
  <2>2. s \in Nat BY <1>0
  <2>3. CASE s <= a
    <3>1. n * s <= n * a /\ (n + 1) * a = n * a + a /\ n * s \in Nat /\ n * a \in Nat
      BY <1>0, <1>1, <2>2, <2>3
    <3> QED BY <1>0, <2>1, <3>1
  <2>4. CASE a <= s
    <3>1. (n + 1) * s = n * s + s /\ n * s \in Nat BY <1>1, <2>2
    <3> QED BY <1>0, <2>1, <2>2, <2>4, <3>1
  <2> QED BY <1>0, <2>2, <2>3, <2>4
<1>3. \E s \in Samples : (n + 1) * s <= sum + a
  <2>1. PICK s \in Samples : n * s <= sum OBVIOUS
  <2>2. s \in Nat BY <1>0
  <2>3. CASE a <= s
    <3>1. n * a <= n * s /\ (n + 1) * a = n * a + a /\ n * s \in Nat /\ n * a \in Nat
      BY <1>0, <1>1, <2>2, <2>3
    <3> QED BY <1>0, <2>1, <3>1
  <2>4. CASE s <= a
    <3>1. (n + 1) * s = n * s + s /\ n * s \in Nat BY <1>1, <2>2
    <3> QED BY <1>0, <2>1, <2>2, <2>4, <3>1
  <2> QED BY <1>0, <2>2, <2>3, <2>4
<1> QED BY <1>2, <1>3

\* The average of AvgCount + 1 results that is taken as that of AvgCount.
LEMMA AverageInRange ==
    ASSUME NEW sum \in Nat,
           \E s \in Samples : sum <= (AvgCount + 1) * s,
           \E s \in Samples : (AvgCount + 1) * s <= sum
    PROVE  /\ \E s \in Samples : (sum \div AvgCount) * AvgCount <= (AvgCount + 1) * s
           /\ \E s \in Samples : s <= sum \div AvgCount
<1>0. AvgCount \in Nat /\ AvgCount >= 1 /\ Samples \subseteq Nat BY ConstantsOK
<1>1. /\ sum \div AvgCount \in Nat /\ (sum \div AvgCount) * AvgCount <= sum
      /\ \A s \in Nat : s * AvgCount <= sum => s <= sum \div AvgCount
  BY <1>0, DivisionOK
<1>2. PICK s \in Samples : sum <= (AvgCount + 1) * s OBVIOUS
<1>3. PICK r \in Samples : (AvgCount + 1) * r <= sum OBVIOUS
<1>4. /\ (AvgCount + 1) * s \in Nat /\ (sum \div AvgCount) * AvgCount \in Nat
      /\ (AvgCount + 1) * r = r * AvgCount + r /\ r * AvgCount \in Nat /\ r \in Nat
  <2>1. s \in Nat /\ r \in Nat BY <1>0
  <2> QED BY <1>0, <1>1, <2>1
<1>5. (sum \div AvgCount) * AvgCount <= (AvgCount + 1) * s BY <1>1, <1>2, <1>4
<1>6. r <= sum \div AvgCount BY <1>1, <1>3, <1>4
<1> QED BY <1>5, <1>6

\* Reading a result keeps the sum in proportion to the number of results.
LEMMA AdcReadRange ==
    ASSUME TypeOK, SumInRange, AdcRead
    PROVE  SumInRange'
<1>0. /\ adcCountAccumulate \in Nat /\ adcAccumulateNum \in Nat
      /\ adcAccumulateNum <= AvgCount + 1 /\ AvgCount \in Nat
  BY ConstantsOK DEF TypeOK
<1>1. CASE ~dataReady BY <1>1 DEF AdcRead, adc, SumInRange, TemperatureInRange
<1>2. CASE dataReady /\ adcAccumulateNum <= AvgCount
  <2>1. /\ dataReady' = FALSE /\ temp' = temp
        /\ adcCountAccumulate' = adcCountAccumulate + adcCount
        /\ adcAccumulateNum' = adcAccumulateNum + 1
    BY <1>2 DEF AdcRead
  <2>2. adcCount \in Samples BY <1>2 DEF SumInRange
  <2>3. /\ \E s \in Samples : adcCountAccumulate' <= adcAccumulateNum' * s
        /\ \E s \in Samples : adcAccumulateNum' * s <= adcCountAccumulate'
    BY <1>0, <2>1, <2>2, SumGrows DEF SumInRange
  <2>4. TemperatureInRange' BY <2>1 DEF SumInRange, TemperatureInRange
  <2> QED BY <2>1, <2>3, <2>4 DEF SumInRange
<1>3. CASE dataReady /\ ~(adcAccumulateNum <= AvgCount)
  <2>1. /\ dataReady' = FALSE /\ temp' = adcCountAccumulate \div AvgCount
        /\ adcCountAccumulate' = 0 /\ adcAccumulateNum' = 0
    BY <1>3 DEF AdcRead
  <2>2. adcAccumulateNum = AvgCount + 1 BY <1>0, <1>3
  <2>3. TemperatureInRange'
    BY <1>0, <2>1, <2>2, AverageInRange DEF SumInRange, TemperatureInRange
  <2>4. \E s \in Samples : 0 <= 0 * s /\ 0 * s <= 0 BY EmptySum
  <2> QED BY <2>1, <2>3, <2>4 DEF SumInRange
<1> QED BY <1>1, <1>2, <1>3

LEMMA SumStep == TypeOK /\ SumInRange /\ [Next]_vars => SumInRange'
<1> SUFFICES ASSUME TypeOK, SumInRange, [Next]_vars PROVE SumInRange'
  OBVIOUS
<1>0. \E s \in Samples : 0 <= 0 * s /\ 0 * s <= 0 BY EmptySum
<1>1. CASE ControlRuns
  <2>1. CASE state = "ADC_READ" BY <1>1, <2>1, AdcReadRange DEF ControlRuns
  <2>2. CASE state # "ADC_READ"
    BY <1>1, <2>2 DEF ControlRuns, adc, SumInRange, TemperatureInRange
  <2> QED BY <2>1, <2>2
<1>2. CASE AdcResult BY <1>2 DEF AdcResult, SumInRange, TemperatureInRange
<1>3. CASE Resets
  <2>1. /\ dataReady' = FALSE /\ temp' = 0
        /\ adcCountAccumulate' = 0 /\ adcAccumulateNum' = 0
    BY <1>3 DEF Resets
  <2> QED BY <1>0, <2>1 DEF SumInRange, TemperatureInRange
<1>4. CASE UNCHANGED adc BY <1>4 DEF adc, SumInRange, TemperatureInRange
<1>5. CASE ~ControlRuns /\ ~AdcResult /\ ~Resets
  <2>1. UNCHANGED adc
    BY <1>5 DEF Next, WifiChanges, CloudChanges, OtherRuns, MqttGivesUp, ControlSpins, Spins,
       Trap, Elapses, vars
  <2> QED BY <1>4, <2>1
<1> QED BY <1>1, <1>2, <1>3, <1>5

\* The temperature comes from a count within the range of the ADC, but for the one
\* result too many, for any range, any number of results and any faults.
THEOREM TemperatureAlwaysInRange == Spec => []TemperatureInRange
<1>1. Init => SumInRange
  <2> SUFFICES ASSUME Init PROVE SumInRange OBVIOUS
  <2>1. \E s \in Samples : 0 <= 0 * s /\ 0 * s <= 0
    BY EmptySum
  <2> QED BY <2>1 DEF Init, SumInRange, TemperatureInRange
<1>2. SumInRange => TemperatureInRange BY DEF SumInRange
<1> QED BY <1>1, <1>2, SumStep, TypeCorrect, PTL DEF Spec
=============================================================================
