--------------------------- MODULE MCAlertRecovery --------------------------
(* Alerts for TLC: the two open and close at different points of a run, and  *)
(* the second has reminders and reports no resolution.                       *)
EXTENDS AlertRecovery

MCAll == <<TRUE, TRUE>>
MCNone == <<FALSE, FALSE>>
MCDistinct == <<"c1", "c2">>
MCSendOnResolved == <<TRUE, FALSE>>
MCFailureThreshold == <<1, 2>>
MCSuccessThreshold == <<2, 3>>
MCReminders == <<0, 1>>
=============================================================================
