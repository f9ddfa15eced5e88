---------------------------- MODULE TimerService ----------------------------
(***************************************************************************)
(* What SYS_TIME promises its clients, with no list, no counter and no     *)
(* compare register. A timer runs until a client stops it or it expires.   *)
(* It expires in the handler only, never before its time, after those with *)
(* an earlier deadline, and no more than Slack counts late; each expiry    *)
(* calls back once, and a periodic timer has its own period from there.    *)
(* Nothing but a call of a client starts a timer, stops one or moves its   *)
(* deadline otherwise.                                                     *)
(***************************************************************************)
EXTENDS Integers

CONSTANTS
    Timers,
    Times,    \* the periods
    Early,    \* in the handler times count from the interrupt: up to Early counts
              \* of them have passed already
    Slack     \* how late a timer may be

VARIABLES
    mode,     \* what each timer does
    due,      \* the counts left until its deadline, negative when it has passed
    turn,     \* who has the service: "tasks", "adding" (a start by a task), "handler"
    calling   \* the timer whose callback runs, or none

svars == <<mode, due, turn, calling>>

Off == [type |-> "OFF", period |-> 0]
Runs(t) == mode[t] # Off

Init ==
    /\ mode \in [Timers -> {Off} \cup [type : {"PERIODIC"}, period : Times]]
    /\ due = [t \in Timers |-> mode[t].period]
    /\ turn = "tasks" /\ calling = {}

\* Time cannot pass beyond the latest moment at which a timer may expire.
Passes ==
    /\ due' = [t \in Timers |-> IF Runs(t) THEN due[t] - 1 ELSE due[t]]
    /\ \A t \in Timers : Runs(t) => due[t] > -Slack
    /\ UNCHANGED <<mode, turn, calling>>

\* The effect of a client's call on timer t, when h counts have passed already.
Arm(t, h) ==
    \E m \in [type : {"SINGLE", "PERIODIC", "DELAY"}, period : Times] :
        /\ mode' = [mode EXCEPT ![t] = m]
        /\ due' = [due EXCEPT ![t] = m.period - h]

Disarm(t) == mode' = [mode EXCEPT ![t] = Off] /\ due' = [due EXCEPT ![t] = 0]

TaskStarts(t) ==
    turn = "tasks" /\ turn' = "adding" /\ Arm(t, 0) /\ UNCHANGED calling

TaskStops(t) ==
    turn = "tasks" /\ Disarm(t) /\ UNCHANGED <<turn, calling>>

Hands(from, to) ==
    turn = from /\ turn' = to /\ calling = {} /\ UNCHANGED <<mode, due, calling>>

Expire(t) ==
    /\ turn = "handler" /\ calling = {}
    /\ Runs(t) /\ due[t] <= 0
    /\ \A u \in Timers : Runs(u) => due[t] <= due[u]
    /\ IF mode[t].type = "PERIODIC"
       THEN \E h \in 0 .. Early :
               due' = [due EXCEPT ![t] = mode[t].period - h] /\ UNCHANGED mode
       ELSE Disarm(t)
    /\ calling' = IF mode[t].type = "DELAY" THEN {} ELSE {t}
    /\ UNCHANGED turn

\* A callback makes one call, or none.
CallbackEnds ==
    /\ calling # {} /\ calling' = {}
    /\ \/ UNCHANGED <<mode, due>>
       \/ \E t \in Timers : Disarm(t) \/ \E h \in 0 .. Early : Arm(t, h)
    /\ UNCHANGED turn

Step ==
    \/ Passes \/ CallbackEnds
    \/ \E t \in Timers : TaskStarts(t) \/ TaskStops(t) \/ Expire(t)
    \/ Hands("adding", "tasks") \/ Hands("tasks", "handler") \/ Hands("handler", "tasks")

ServiceSpec == Init /\ [][Step]_svars
=============================================================================
