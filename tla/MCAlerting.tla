----------------------------- MODULE MCAlerting -----------------------------
(* Alerts for TLC: the thresholds differ, so that the two alerts of an       *)
(* endpoint are in different stages of the same run of outcomes.             *)
EXTENDS Alerting

\* A quick alert and a slow one, both with reminders; a third, without a provider,
\* that shares its row with the first; and a last one as slow to close as the first.
\* The providers of the first and the last may refuse, the one of the second never.
MCFailureThreshold == <<1, 2, 1, 2>>
MCSuccessThreshold == <<2, 1, 1, 2>>
MCInterval == <<1, 2, 0, 1>>
MCEnabled == <<TRUE, TRUE, TRUE, TRUE>>
MCSendOnResolved == <<TRUE, FALSE, FALSE, TRUE>>
MCHasProvider == <<TRUE, TRUE, FALSE, TRUE>>
MCChecksum == <<"c1", "c2", "c1", "c3">>
MCProviderMayFail == <<TRUE, FALSE, FALSE, TRUE>>

\* Two alerts with reminders, of which nothing fails.
MCTwoFailureThreshold == <<1, 2>>
MCTwoSuccessThreshold == <<2, 1>>
MCTwoInterval == <<1, 2>>
MCTwoSendOnResolved == <<TRUE, FALSE>>
MCTwoChecksum == <<"c1", "c2">>
MCAll == <<TRUE, TRUE>>
MCNone == <<FALSE, FALSE>>
=============================================================================
