----------------------------- MODULE NetSession -----------------------------
(***************************************************************************)
(* What SYS_NET is for its user: sessions, one after the other, each with  *)
(* one CONNECTED event after its beginning and one DISCONNECTED event      *)
(* after its end, and with no session beginning before the user knows that *)
(* the one before has ended.                                               *)
(***************************************************************************)
VARIABLE session

Phases == {"None", "Ready", "Reported", "Ended"}

Init == session = "None"

Begin == session = "None" /\ session' = "Ready"
ReportConnected == session = "Ready" /\ session' = "Reported"
End == session = "Reported" /\ session' = "Ended"
ReportDisconnected == session = "Ended" /\ session' = "None"

Next == Begin \/ ReportConnected \/ End \/ ReportDisconnected

Spec == Init /\ [][Next]_session
=============================================================================
