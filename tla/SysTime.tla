------------------------------ MODULE SysTime ------------------------------
(***************************************************************************)
(* SYS_TIME (sys_time.c): software timers and a 64-bit time count on one   *)
(* free-running hardware counter with a compare register (the MIPS core    *)
(* timer, plib_coretimer.c).                                               *)
(*                                                                         *)
(* The running timers are a delta list: each holds the time from the       *)
(* expiry of the one before it. Only the head has a compare value. A task  *)
(* changes the list with the mutex taken and the timer's interrupt off;    *)
(* the interrupt handler and the callbacks it runs change it as they like. *)
(* SYS_TIME_Counter64Get takes no lock.                                    *)
(*                                                                         *)
(* Time is counted modulo twice the hardware's range, which tells one turn *)
(* of the counter from the next; due is a history variable, the true time  *)
(* left of a timer, that the list is compared with. A handle's token is    *)
(* left out: calls with a stale handle return an error and change nothing. *)
(***************************************************************************)
EXTENDS Integers, SequencesExt

CONSTANTS
    MaxTimers,     \* SYS_TIME_MAX_TIMERS
    TurnCounts,    \* 2 ^ SYS_TIME_HW_COUNTER_WIDTH
    Times,         \* the periods that are asked for
    Types,         \* the kinds of timer that are asked for
    ExecTicks,     \* SYS_TIME_COMPARE_UPDATE_EXECUTION_CYCLES, as counts
    Latency        \* environment: most counts until the interrupt is taken,
                   \* and most counts of one critical section or one handler

Period == TurnCounts - 1                    \* SYS_TIME_HW_COUNTER_PERIOD

\* Variant: without a timer the counter is looked at once a turn.
WholePeriod == Period

HalfPeriod == Period \div 2                 \* SYS_TIME_HW_COUNTER_HALF_PERIOD

Margin == ExecTicks + 2                     \* hwTimerCompareMargin

ASSUME SysTimeAssumption ==
    /\ MaxTimers \in Nat \ {0} /\ TurnCounts \in Nat \ {0, 1, 2}
    /\ ExecTicks \in Nat /\ Latency \in Nat
    /\ Times \subseteq 1 .. Period /\ Times # {}
    /\ Types \subseteq {"SINGLE", "PERIODIC", "DELAY"}

\* The half turn leaves room for a late interrupt and a late write of the register.
ASSUME LatencyAssumption == Latency + Margin <= HalfPeriod

VARIABLES
    clock,      \* counts since the start, modulo two turns
    compare,    \* the compare register
    irq,        \* CTIF: the counter has met the compare value
    previous,   \* hwTimerPreviousValue
    swCounter,  \* swCounter64
    active,     \* the list from tmrActive on
    timers,     \* the timer objects
    at,         \* where the code is: "Tasks", "TimerAdd", "Notify" or "Callback"
    lag,        \* elapsedCount of a TimerAdd under way
    who,        \* the timer of that TimerAdd or callback
    stall,      \* counts since the interrupt was raised or the section entered
    due         \* history: the counts left until each running timer's deadline

vars == <<clock, compare, irq, previous, swCounter, active, timers, at, lag, who,
          stall, due>>
hardware == <<clock, compare, irq>>

Slots == 0 .. MaxTimers - 1
Counter == clock % TurnCounts               \* timerCounterGet

Unused == [inUse |-> FALSE, active |-> FALSE, type |-> "SINGLE", requested |-> 0,
           pending |-> 0, flag |-> FALSE, elapsed |-> FALSE]

-----------------------------------------------------------------------------
(* The delta list. A store S holds the list and the timer objects.          *)

Store == [list |-> active, tmr |-> timers]

\* The time until the k-th timer of the list, counted from previous.
Until(S, k) ==
    LET sum[j \in 0 .. k] == IF j = 0 THEN 0 ELSE sum[j - 1] + S.tmr[S.list[j]].pending
    IN  sum[k]

Least0(n) == IF n < 0 THEN 0 ELSE n

RemoveFromList(S, t) ==
    IF ~ Contains(S.list, t) THEN S
    ELSE LET i == CHOOSE j \in DOMAIN S.list : S.list[j] = t
             rest == RemoveAt(S.list, i)
         IN  [list |-> rest,
              tmr |-> [u \in Slots |->
                          IF i <= Len(rest) /\ u = rest[i]
                          THEN [S.tmr[u] EXCEPT !.pending = @ + S.tmr[t].pending]
                          ELSE S.tmr[u]]]

\* A timer goes behind those that expire no later; the next one's time shrinks.
Place(S, t) ==
    Cardinality({k \in DOMAIN S.list : Until(S, k) <= S.tmr[t].pending})

AddToList(S, t) ==
    LET k == Place(S, t)
        own == S.tmr[t].pending - Until(S, k)
    IN  [list |-> InsertAt(S.list, k + 1, t),
         tmr |-> [u \in Slots |->
                     IF u = t THEN [S.tmr[u] EXCEPT !.pending = own]
                     ELSE IF k < Len(S.list) /\ u = S.list[k + 1]
                     THEN [S.tmr[u] EXCEPT !.pending = @ - own]
                     ELSE S.tmr[u]]]

\* The elapsed counts are taken from the head on.
UpdateTimerList(S, elapsed) ==
    LET place(u) == CHOOSE k \in DOMAIN S.list : S.list[k] = u
    IN  [S EXCEPT !.tmr = [u \in Slots |->
            IF Contains(S.list, u)
            THEN [S.tmr[u] EXCEPT !.pending =
                     Least0(@ - Least0(elapsed - Until(S, place(u) - 1)))]
            ELSE S.tmr[u]]]

-----------------------------------------------------------------------------
(* Counts and the compare register.                                         *)

\* GetElapsedCount, in 32-bit arithmetic: equal values are zero counts.
GetElapsedCount(now) ==
    IF now > previous THEN now - previous ELSE (Period - previous + now + 1) % TurnCounts

Counter64 == (swCounter + GetElapsedCount(Counter)) % (2 * TurnCounts)

\* The counter has turned since start: the code adds the period, one count less
\* than a turn.
Turned(start, now) == IF now < start THEN Period + now ELSE now

\* The count at which the head of S expires, but no later than half a turn on.
NextExpiry(S, start) ==
    LET time == IF S.list = <<>> THEN HalfPeriod ELSE S.tmr[Head(S.list)].pending
    IN  start + (IF time > HalfPeriod THEN HalfPeriod ELSE time)

\* Variant: zero is written like any other value.
AnyValue(value) == value % TurnCounts

NotZero(value) == IF value % TurnCounts = 0 THEN 1 ELSE value % TurnCounts

\* Variant: no margin for the time the update takes.
CompareWithoutMargin(S, start, now) ==
    LET next == NextExpiry(S, start)
        reads == Turned(start, now)
    IN  NotZero(IF next < reads THEN reads ELSE next)

\* HwTimerCompareUpdate: the compare value for the list S, whose times count from
\* start, when the counter reads now. Zero is never written.
HwTimerCompareUpdate(S, start, now) ==
    LET next == NextExpiry(S, start)
        reads == Turned(start, now)
    IN  NotZero(IF next < reads + Margin THEN reads + Margin ELSE next)

\* The counter was read up to ExecTicks counts before the register is written.
ReadBefore == {(clock - e) % TurnCounts : e \in 0 .. (IF stall < ExecTicks THEN stall ELSE ExecTicks)}

-----------------------------------------------------------------------------
(* The state after SYS_TIME_Initialize, with the first timer (the TCP/IP     *)
(* stack's tick) started at once.                                            *)

Keep(S) == active' = S.list /\ timers' = S.tmr

Init ==
    \E period \in Times :
        /\ timers = [t \in Slots |->
                       IF t = 0 THEN [Unused EXCEPT !.inUse = TRUE, !.active = TRUE,
                                          !.type = "PERIODIC", !.requested = period,
                                          !.pending = period]
                       ELSE Unused]
        /\ active = <<0>>
        /\ due = [t \in Slots |-> IF t = 0 THEN period ELSE 0]
        /\ clock = 0 /\ previous = 0 /\ swCounter = 0 /\ irq = FALSE
        /\ compare = HwTimerCompareUpdate(Store, 0, 0)
        /\ at = "Tasks" /\ lag = 0 /\ who = 0 /\ stall = 0

-----------------------------------------------------------------------------
(* The hardware.                                                             *)

\* A timer whose deadline the service has taken on.
Running(t) == timers[t].active \/ (at = "TimerAdd" /\ who = t)

\* The environment's promise: interrupt, critical section and handler are each
\* done within Latency counts.
InTime == (at # "Tasks" \/ irq) => stall < Latency

Count ==
    /\ InTime
    /\ clock' = (clock + 1) % (2 * TurnCounts)
    /\ irq' = (irq \/ clock' % TurnCounts = compare)
    /\ stall' = IF at # "Tasks" \/ irq THEN stall + 1 ELSE 0
    /\ due' = [t \in Slots |-> IF Running(t) THEN due[t] - 1 ELSE due[t]]
    /\ UNCHANGED <<compare, previous, swCounter, active, timers, at, lag, who>>

-----------------------------------------------------------------------------
(* Calls from tasks: the mutex is free and no interrupt is waiting to be     *)
(* taken.                                                                    *)

FromTask == at = "Tasks" /\ ~irq

\* TimerObjectCreate: the first object not in use. Not yet started.
TimerCreate(type, period) ==
    /\ FromTask
    /\ \E t \in Slots :
        /\ ~timers[t].inUse /\ \A u \in 0 .. t - 1 : timers[u].inUse
        /\ timers' = [timers EXCEPT ![t] =
                        [Unused EXCEPT !.inUse = TRUE, !.type = type,
                                       !.requested = period, !.pending = period]]
    /\ UNCHANGED <<hardware, previous, swCounter, active, at, lag, who, stall, due>>

Started(S, t) ==
    [S EXCEPT !.tmr[t].pending = IF @ = 0 THEN S.tmr[t].requested ELSE @]

\* Variant: the new time is written before the timer is taken out of the list.
ReloadedInPlace(S, t, type, period) ==
    RemoveFromList([S EXCEPT !.tmr[t] = [@ EXCEPT !.type = type, !.requested = period,
                       !.pending = period, !.flag = FALSE, !.elapsed = FALSE]], t)

Reloaded(S, t, type, period) ==
    LET R == RemoveFromList(S, t)
    IN  [R EXCEPT !.tmr[t] = [@ EXCEPT !.type = type, !.requested = period,
                                 !.pending = period, !.flag = FALSE, !.elapsed = FALSE]]

\* TimerAdd up to UpdateTimerList, with the interrupt's source off. Turning it off and
\* reading the counter are taken to fall into one count, so no interrupt waits when
\* the counter is read. swCounter follows in the second half: until then a lock-free
\* reader misses lag.
TimerAddBegin(S, t) ==
    LET elapsed == GetElapsedCount(Counter)
    IN  /\ Keep(UpdateTimerList(S, elapsed))
        /\ previous' = Counter
        /\ lag' = elapsed
        /\ at' = "TimerAdd" /\ who' = t /\ stall' = 0
        /\ due' = [due EXCEPT ![t] = S.tmr[t].pending]
        /\ UNCHANGED <<hardware, swCounter>>

TimerStart(t) ==
    FromTask /\ timers[t].inUse /\ ~timers[t].active /\ TimerAddBegin(Started(Store, t), t)

TimerReload(t, type, period) ==
    /\ FromTask /\ timers[t].inUse /\ type # "DELAY"
    /\ TimerAddBegin(Reloaded(Store, t, type, period), t)

Activated(S, t) ==
    [S EXCEPT !.tmr[t] = [@ EXCEPT !.active = TRUE, !.flag = FALSE, !.elapsed = FALSE]]

\* The rest of TimerAdd and of its caller. The compare register is written only
\* when the new timer is the head.
TimerAddEnd ==
    /\ at = "TimerAdd"
    /\ LET S == AddToList(Store, who)
       IN  /\ Keep(Activated(S, who))
           /\ IF Head(S.list) = who
              THEN \E now \in ReadBefore : compare' = HwTimerCompareUpdate(S, previous, now)
              ELSE UNCHANGED compare
    /\ swCounter' = (swCounter + lag) % (2 * TurnCounts)
    /\ at' = "Tasks" /\ lag' = 0 /\ stall' = 0 /\ who' = 0
    /\ UNCHANGED <<clock, irq, previous, due>>

Stopped(S, t) ==
    LET R == RemoveFromList(S, t)
    IN  IF ~S.tmr[t].active THEN S
        ELSE [R EXCEPT !.tmr[t] = [@ EXCEPT !.flag = FALSE, !.elapsed = FALSE, !.active = FALSE,
                                      !.pending = S.tmr[t].requested]]

\* An object that is not in use is read by nobody: its fields do not matter.
Destroyed(S, t) ==
    LET R == IF S.tmr[t].active THEN RemoveFromList(S, t) ELSE S
    IN  [R EXCEPT !.tmr[t] = Unused]

Cancel(S, t) ==
    /\ Keep(S)
    /\ due' = [due EXCEPT ![t] = 0]
    /\ UNCHANGED <<hardware, previous, swCounter, lag, stall>>

TimerStop(t) ==
    /\ FromTask /\ timers[t].inUse /\ timers[t].active /\ Cancel(Stopped(Store, t), t)
    /\ UNCHANGED <<at, who>>

TimerDestroy(t) ==
    /\ FromTask /\ timers[t].inUse /\ Cancel(Destroyed(Store, t), t)
    /\ UNCHANGED <<at, who>>

\* TimerPeriodHasExpired; for a delay, DelayIsComplete, which destroys it.
TimerPeriodHasExpired(t) ==
    /\ FromTask /\ timers[t].inUse /\ timers[t].flag
    /\ timers' = [timers EXCEPT ![t] = IF @.type = "DELAY" THEN Unused ELSE [@ EXCEPT !.flag = FALSE]]
    /\ UNCHANGED <<hardware, previous, swCounter, active, at, lag, who, stall, due>>

-----------------------------------------------------------------------------
(* The interrupt: PLIBCallback, UpdateTime and ClientNotify.                 *)

\* With no timer in the list previous is set by HwTimerCompareUpdate at the end;
\* nobody reads it in between.
InterruptTaken ==
    /\ at = "Tasks" /\ irq
    /\ irq' = FALSE
    /\ LET elapsed == GetElapsedCount(Counter)
       IN  /\ swCounter' = (swCounter + elapsed) % (2 * TurnCounts)
           /\ Keep(UpdateTimerList(Store, elapsed))
    /\ previous' = Counter
    /\ at' = "Notify" /\ stall' = 0
    /\ UNCHANGED <<clock, compare, lag, who, due>>

\* Variant: a timer with one count left is taken for expired.
HeadNearlyExpired == active # <<>> /\ timers[Head(active)].pending <= 1

HeadExpired == active # <<>> /\ timers[Head(active)].pending = 0

\* What becomes of an expired timer before its callback runs.
Expired(S, t) ==
    IF S.tmr[t].type = "SINGLE" THEN Destroyed(S, t)
    ELSE [RemoveFromList(S, t) EXCEPT
             !.tmr[t] = [@ EXCEPT !.flag = (S.tmr[t].type = "DELAY"), !.elapsed = TRUE,
                                  !.active = (S.tmr[t].type = "PERIODIC")]]

ClientNotify ==
    /\ at = "Notify" /\ HeadExpired
    /\ LET t == Head(active)
       IN  /\ Keep(Expired(Store, t))
           /\ due' = [due EXCEPT ![t] =
                         IF timers[t].type = "PERIODIC"
                         THEN timers[t].requested - GetElapsedCount(Counter) ELSE 0]
           /\ IF timers[t].type = "DELAY" THEN UNCHANGED <<at, who>>
              ELSE at' = "Callback" /\ who' = t
    /\ UNCHANGED <<hardware, previous, swCounter, lag, stall>>

\* A callback may call the service once; the calls neither lock nor update the
\* list, and times count from the interrupt's start.
CallbackReturns ==
    /\ at = "Callback" /\ at' = "Notify" /\ who' = 0
    /\ UNCHANGED <<hardware, previous, swCounter, active, timers, lag, stall, due>>

AddFromCallback(S, t) ==
    /\ at' = "Notify" /\ who' = 0
    /\ Keep(Activated(AddToList(S, t), t))
    /\ due' = [due EXCEPT ![t] = S.tmr[t].pending - GetElapsedCount(Counter)]
    /\ UNCHANGED <<hardware, previous, swCounter, lag, stall>>

CallbackStarts(t) ==
    /\ at = "Callback" /\ timers[t].inUse /\ ~timers[t].active
    /\ AddFromCallback(Started(Store, t), t)

CallbackReloads(t, type, period) ==
    /\ at = "Callback" /\ timers[t].inUse /\ type # "DELAY"
    /\ AddFromCallback(Reloaded(Store, t, type, period), t)

CallbackCancels(t) ==
    /\ at = "Callback" /\ timers[t].inUse /\ at' = "Notify" /\ who' = 0
    /\ Cancel(Stopped(Store, t), t) \/ Cancel(Destroyed(Store, t), t)

\* UpdateTime's loop: periodic timers that expired, and that no callback stopped or
\* added again, get their whole period back.
\* Variant: also one that a callback stopped.
ReaddStopped(S) ==
    LET upto[t \in -1 .. MaxTimers - 1] ==
            IF t = -1 THEN S
            ELSE LET R == [upto[t - 1] EXCEPT !.tmr[t].elapsed = FALSE]
                 IN  IF R.tmr[t].inUse /\ R.tmr[t].type = "PERIODIC" /\ ~Contains(R.list, t)
                     THEN AddToList([R EXCEPT !.tmr[t].pending = R.tmr[t].requested], t)
                     ELSE R
    IN  upto[MaxTimers - 1]

Readd(S) ==
    LET upto[t \in -1 .. MaxTimers - 1] ==
            IF t = -1 THEN S
            ELSE LET R == [upto[t - 1] EXCEPT !.tmr[t].elapsed = FALSE]
                 IN  IF S.tmr[t].elapsed /\ R.tmr[t].type = "PERIODIC"
                     THEN AddToList([R EXCEPT !.tmr[t].pending = R.tmr[t].requested], t)
                     ELSE R
    IN  upto[MaxTimers - 1]

InterruptDone ==
    /\ at = "Notify" /\ ~HeadExpired
    /\ LET S == Readd(Store)
       IN  /\ Keep(S)
           /\ \E now \in ReadBefore : compare' = HwTimerCompareUpdate(S, previous, now)
    /\ at' = "Tasks" /\ stall' = 0 /\ who' = 0
    /\ UNCHANGED <<clock, irq, previous, swCounter, lag, due>>

-----------------------------------------------------------------------------
Calls(t) ==
    \/ TimerStart(t) \/ TimerStop(t) \/ TimerDestroy(t) \/ TimerPeriodHasExpired(t)
    \/ CallbackStarts(t) \/ CallbackCancels(t)
    \/ \E type \in Types, period \in Times :
           TimerReload(t, type, period) \/ CallbackReloads(t, type, period)

Serves == TimerAddEnd \/ InterruptTaken \/ ClientNotify \/ CallbackReturns \/ InterruptDone

Next ==
    \/ Count \/ Serves
    \/ \E type \in Types, period \in Times : TimerCreate(type, period)
    \/ \E t \in Slots : Calls(t)

\* The counter runs; the handler and a critical section that was entered go on.
Fairness == WF_vars(Count) /\ WF_vars(Serves)

Spec == Init /\ [][Next]_vars /\ Fairness

-----------------------------------------------------------------------------
Object == [inUse : BOOLEAN, active : BOOLEAN, type : Types \cup {"SINGLE", "PERIODIC"},
           requested : 0 .. Period, pending : 0 .. Period, flag : BOOLEAN, elapsed : BOOLEAN]

\* Every variable has its type; the list holds no timer twice.
TypeOK ==
    /\ clock \in 0 .. 2 * TurnCounts - 1 /\ compare \in 1 .. Period /\ irq \in BOOLEAN
    /\ previous \in 0 .. Period /\ swCounter \in 0 .. 2 * TurnCounts - 1
    /\ active \in Seq(Slots) /\ IsInjective(active)
    /\ timers \in [Slots -> Object]
    /\ at \in {"Tasks", "TimerAdd", "Notify", "Callback"}
    /\ lag \in 0 .. Period /\ who \in Slots /\ stall \in 0 .. Latency
    /\ due \in [Slots -> Int]

\* The list and the flags agree: outside the handler the timers in the list are the
\* active ones, and in it those that expired and wait for their period are missing.
ListHoldsRunning ==
    \A t \in Slots :
        Contains(active, t) <=> timers[t].inUse /\ timers[t].active /\ ~timers[t].elapsed
                                /\ ~(at = "TimerAdd" /\ who = t)

\* The delta list holds the true deadlines: the time a running timer has left in it,
\* less what has elapsed since it was updated, is the time until its deadline.
ListKeepsDeadlines ==
    \A t \in Slots : Contains(active, t) =>
        LET place == CHOOSE k \in DOMAIN active : active[k] = t
        IN  Least0(Until(Store, place) - GetElapsedCount(Counter)) = Least0(due[t])

\* The 64-bit count is the true time, over every turn of the hardware counter and
\* however the updates fall. Between the two writes of a TimerAdd it is behind by lag.
CounterKeepsTime ==
    Counter64 = (clock - lag) % (2 * TurnCounts)

\* SYS_TIME keeps what TimerService says a timer is: its callback runs once for each
\* deadline, in the order of the deadlines, never early, and late by no more than the
\* update of the compare register, the interrupt and the handlers before it take.
Service == INSTANCE TimerService WITH
    Timers <- Slots, Early <- Latency, Slack <- Margin + 4 * Latency,
    mode <- [t \in Slots |-> IF Running(t)
                             THEN [type |-> timers[t].type, period |-> timers[t].requested]
                             ELSE [type |-> "OFF", period |-> 0]],
    turn <- IF at = "Tasks" THEN "tasks" ELSE IF at = "TimerAdd" THEN "adding" ELSE "handler",
    calling <- IF at = "Callback" THEN {who} ELSE {}

ServesTimers == Service!ServiceSpec
=============================================================================
