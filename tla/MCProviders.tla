----------------------------- MODULE MCProviders -----------------------------
(***************************************************************************)
(* What it takes for an alert to be known where it should be: the handler  *)
(* with its rows in the database, the settings of the provider, and the    *)
(* requests it makes.  They are checked side by side, one of them in every *)
(* behaviour.                                                              *)
(***************************************************************************)
EXTENDS MCAlertRecovery, ProviderConfiguration, Notifications

VARIABLE checked  \* the part this behaviour is about

deliveryParts == <<recoveryVars, providerVars, notificationVars, checked>>

DeliveryInit ==
    /\ checked \in {"handler", "settings", "requests"}
    /\ RecoveryInit /\ ProviderInit /\ NotificationInit

DeliveryNext ==
    /\ \/ checked = "handler" /\ RecoveryNext /\ UNCHANGED <<providerVars, notificationVars>>
       \/ checked = "settings" /\ ProviderNext /\ UNCHANGED <<recoveryVars, notificationVars>>
       \/ checked = "requests" /\ NotificationNext /\ UNCHANGED <<recoveryVars, providerVars>>
    /\ UNCHANGED checked

DeliverySpec == DeliveryInit /\ [][DeliveryNext]_deliveryParts /\ Fairness

DeliveryTypeOK == ProviderTypeOK /\ NotificationTypeOK

MCRecipients == <<"r1", "r2">>
=============================================================================
