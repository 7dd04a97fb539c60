------------------------- MODULE MCNotificationQueue -------------------------
(***************************************************************************)
(* One stream, one or two workers, and notifiers enabled for different     *)
(* actions.                                                                *)
(***************************************************************************)
EXTENDS NotificationQueue, TLC

CONSTANTS Email, Script

\* One notifier for watched streams, one for concurrent ones, both for plays;
\* outages go to the second.
MCNotifiers == {Email, Script}
MCSubscribed ==
  (Email :> {"on_play", "on_watched"})
    @@ (Script :> {"on_play", "on_concurrent", "on_intdown"})
=============================================================================
