----------------------------- MODULE MCSysTime -----------------------------
(* SysTime for TLC, and its list operations over all lists of up to three   *)
(* timers, one more than the run has.                                        *)
EXTENDS SysTime

Wide == INSTANCE SysTime WITH MaxTimers <- 4

\* Every list of the timers 0 .. n - 1 in this order, and one timer outside it.
Lists(n) ==
    {[list |-> [i \in 1 .. n |-> i - 1],
      tmr |-> [t \in 0 .. 3 |-> [Unused EXCEPT !.pending = IF t < n THEN p[t] ELSE new]]] :
        p \in [0 .. n - 1 -> 0 .. 2], new \in 1 .. 5}

Left(S, t) == Wide!Until(S, CHOOSE k \in DOMAIN S.list : S.list[k] = t)

\* AddToList, RemoveFromList and UpdateTimerList against what they are for: the new
\* timer gets its own time, behind those that expire no later; the times of the
\* others stay; elapsed counts come off every time, down to zero.
ASSUME ListOperations ==
    \A n \in 0 .. 3 : \A S \in Lists(n) :
        /\ LET A == Wide!AddToList(S, 3)
           IN  /\ Left(A, 3) = S.tmr[3].pending
               /\ \A t \in 0 .. n - 1 : Left(A, t) = Left(S, t)
               /\ \A i, j \in DOMAIN A.list :
                     i < j => /\ Left(A, A.list[i]) <= Left(A, A.list[j])
                              /\ A.list[i] = 3 => Left(A, 3) < Left(A, A.list[j])
        /\ \A t \in 0 .. n - 1 :
               LET R == Wide!RemoveFromList(S, t)
               IN  /\ ~ Contains(R.list, t)
                   /\ \A u \in (0 .. n - 1) \ {t} : Left(R, u) = Left(S, u)
        /\ \A e \in 0 .. 7, t \in 0 .. n - 1 :
               Left(Wide!UpdateTimerList(S, e), t) = Least0(Left(S, t) - e)
=============================================================================
