------------------------ MODULE MCNotificationDelivery ------------------------
(* NotificationDelivery for TLC. *)
EXTENDS NotificationDelivery, TLC

CONSTANTS w1, w2
=============================================================================
