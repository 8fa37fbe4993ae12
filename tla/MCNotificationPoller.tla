------------------------ MODULE MCNotificationPoller ------------------------
(* Instances of NotificationPoller for TLC: a purchase, a renewal, which   *)
(* the poller cannot parse, and a subscription that expires.               *)
EXTENDS NotificationPoller

CONSTANTS bought, renewed, lapsed

TypeOfNotices ==
  [n \in Notice |->
     CASE n = bought -> "subscription.sufficient"
       [] n = renewed -> "subscription.renewed"
       [] n = lapsed -> "subscription.expired"]

MediaOfNotices ==
  [n \in Notice |->
     CASE n \in {bought, renewed} -> {"discord", "email"}
       [] n = lapsed -> {"discord"}]
=============================================================================
