----------------------------- MODULE Notifications -----------------------------
(***************************************************************************)
(* Notifications that leave the service: services/notification.  Each has  *)
(* a row in notifications (the feed) and one in notification_dispatch_log, *)
(* and is handed to QStash, which calls POST /api/notifications/dispatch   *)
(* back, now or at its due time, until it is answered with 200 or its      *)
(* retries are used up.                                                    *)
(*                                                                         *)
(* notify() sends events at once, scheduleShowReminder and                 *)
(* scheduleBroadcastFor leave a message with QStash for later;             *)
(* cancelShowReminder and deleteBroadcast try to take it back.  Nothing    *)
(* here is in a transaction: every statement and call is a step.  A        *)
(* notification has one external channel; one broadcast is modelled.       *)
(***************************************************************************)
EXTENDS Naturals

CONSTANTS Notes,        \* notifications, one recipient and channel each
          Retries       \* retries of a message ("retries: 3" in qstashClient)

ASSUME NotificationsAssumption == Retries \in Nat

VARIABLES
  kind,         \* "event", "reminder", "broadcast" ("none": not a notification)
  feed,         \* the row of notifications
  tagged,       \* notifications.broadcast_id is set
  log,          \* notification_dispatch_log.status
  known,        \* qstash_message_id is stored
  publisher,    \* where the code that publishes the notification is
  message,      \* the message at QStash
  tries,        \* deliveries of the message
  flight,       \* the delivery under way in handleDispatch
  reached,      \* history: the e-mail or push message went out
  taking,       \* where the code that takes the message back is
  post,         \* the broadcast
  mishaps       \* history: an accident QueuedEnds excuses

feedVars == <<feed, tagged>>
logVars == <<log, known>>
qstashVars == <<message, tries>>
dispatchVars == <<flight, reached>>
notifyVars == <<kind, feed, tagged, log, known, publisher, message, tries, flight, reached, taking,
                post, mishaps>>

(* An event or a reminder shares nothing with other notifications, so it   *)
(* is looked at on its own; those of a broadcast come in one loop.         *)
Kinds == {[n \in Notes |-> "broadcast"]} \cup
         {[n \in Notes |-> IF n = m THEN k ELSE "none"] : m \in Notes, k \in {"event", "reminder"}}

NotifyInit == /\ kind \in Kinds
              /\ feed = [n \in Notes |-> "none"]
              /\ tagged = [n \in Notes |-> FALSE]
              /\ log = [n \in Notes |-> "none"]
              /\ known = [n \in Notes |-> FALSE]
              /\ publisher = [n \in Notes |-> "idle"]
              /\ message = [n \in Notes |-> "none"]
              /\ tries = [n \in Notes |-> 0]
              /\ flight = [n \in Notes |-> "idle"]
              /\ reached = [n \in Notes |-> FALSE]
              /\ taking = [n \in Notes |-> "idle"]
              /\ post = [row |-> FALSE, loop |-> "none", deletion |-> "none", whole |-> FALSE]
              /\ mishaps = {}

-----------------------------------------------------------------------------
(* Publishing: notify, scheduleShowReminder, and the loop of               *)
(* scheduleBroadcastFor over its recipients, one at a time.                *)

Recipients == {n \in Notes : kind[n] = "broadcast"}
Goto(n, step) == publisher' = [publisher EXCEPT ![n] = step]

CreateBroadcast ==
  /\ post.loop = "none"
  /\ post' = [post EXCEPT !.row = TRUE, !.loop = "running"]
  /\ UNCHANGED <<kind, feedVars, logVars, publisher, qstashVars, dispatchVars, taking, mishaps>>

(* insertInAppNotification *)
InsertInApp(n) ==
  /\ publisher[n] = "idle" /\ kind[n] # "none"
  /\ kind[n] = "broadcast" => /\ post.loop = "running"
                              /\ \A r \in Recipients : publisher[r] \in {"idle", "done"}
  /\ feed' = [feed EXCEPT ![n] = "there"]
  /\ Goto(n, IF kind[n] = "broadcast" THEN "tag" ELSE "log")
  /\ UNCHANGED <<kind, tagged, logVars, qstashVars, dispatchVars, taking, post, mishaps>>

(* The foreign key needs the broadcast's row. *)
TagBroadcast(n) ==
  /\ publisher[n] = "tag" /\ post.row
  /\ tagged' = [tagged EXCEPT ![n] = TRUE]
  /\ Goto(n, "log")
  /\ UNCHANGED <<kind, feed, logVars, qstashVars, dispatchVars, taking, post, mishaps>>

(* So do the log row's two foreign keys. *)
CreateDispatchLogRow(n) ==
  /\ publisher[n] = "log" /\ feed[n] = "there"
  /\ kind[n] = "broadcast" => post.row
  /\ log' = [log EXCEPT ![n] = "queued"]
  /\ Goto(n, "publish")
  /\ UNCHANGED <<kind, feedVars, known, qstashVars, dispatchVars, taking, post, mishaps>>

(* The call may throw though QStash took the message. *)
PublishDispatch(n) ==
  /\ publisher[n] = "publish"
  /\ \/ message' = [message EXCEPT ![n] = "pending"] /\ Goto(n, "store")
     \/ message' \in {message, [message EXCEPT ![n] = "pending"]} /\ Goto(n, "catch")
  /\ UNCHANGED <<kind, feedVars, logVars, tries, dispatchVars, taking, post, mishaps>>

StoreMessageId(n) ==
  /\ publisher[n] = "store"
  /\ \/ known' = [known EXCEPT ![n] = TRUE] /\ Goto(n, "done")
     \/ known' = known /\ Goto(n, "catch")
  /\ UNCHANGED <<kind, feedVars, log, qstashVars, dispatchVars, taking, post, mishaps>>

(* A mistake QueuedEnds catches: the catch of notify only logs, too. *)
PublishCatchLogs(n) ==
  /\ publisher[n] = "catch"
  /\ mishaps' = IF kind[n] = "reminder" THEN mishaps \cup {n} ELSE mishaps
  /\ Goto(n, "done")
  /\ UNCHANGED <<kind, feedVars, logVars, qstashVars, dispatchVars, taking, post>>

(* The catch of a reminder only logs: its row stays queued. *)
PublishCatch(n) ==
  /\ publisher[n] = "catch"
  /\ IF kind[n] = "reminder"
     THEN mishaps' = mishaps \cup {n} /\ log' = log
     ELSE mishaps' = mishaps /\ log' = [log EXCEPT ![n] = "failed"]
  /\ Goto(n, "done")
  /\ UNCHANGED <<kind, feedVars, known, qstashVars, dispatchVars, taking, post>>

(* A statement throws (a foreign key, or the database), or the process     *)
(* dies: the rest of the function, and of a broadcast's loop, is skipped.  *)
PublisherDies(n) ==
  /\ publisher[n] \notin {"idle", "done"}
  /\ Goto(n, "done")
  /\ mishaps' = mishaps \cup {n}
  /\ post' = IF kind[n] = "broadcast" THEN [post EXCEPT !.loop = "broken"] ELSE post
  /\ UNCHANGED <<kind, feedVars, logVars, qstashVars, dispatchVars, taking>>

ScheduledAll ==
  /\ post.loop = "running"
  /\ \A n \in Recipients : publisher[n] = "done"
  /\ post' = [post EXCEPT !.loop = "over"]
  /\ UNCHANGED <<kind, feedVars, logVars, publisher, qstashVars, dispatchVars, taking, mishaps>>

-----------------------------------------------------------------------------
(* handleDispatch.  A message without a row of notifications is answered   *)
(* with 200; the status of the log row is not looked at.                   *)

Deliver(n) ==
  /\ message[n] = "pending" /\ flight[n] = "idle" /\ tries[n] <= Retries
  /\ tries' = [tries EXCEPT ![n] = @ + 1]
  /\ IF feed[n] = "there"
     THEN flight' = [flight EXCEPT ![n] = "sending"] /\ message' = message
     ELSE flight' = flight /\ message' = [message EXCEPT ![n] = "gone"]
  /\ UNCHANGED <<kind, feedVars, logVars, publisher, reached, taking, post, mishaps>>

(* UPDATE ... WHERE notification_id: NULL once the notification is deleted. *)
SetStatus(n, status) == log' = [log EXCEPT ![n] = IF feed[n] = "there" THEN status ELSE @]

(* 200, unless the answer is lost; anything else: QStash tries again, if   *)
(* it has retries left.                                                    *)
Retried(n) == message' = [message EXCEPT ![n] = IF @ = "pending" /\ tries[n] <= Retries
                                                THEN "pending" ELSE "gone"]
Answered(n) == message' = [message EXCEPT ![n] = "gone"] \/ Retried(n)

Send(n) ==
  /\ flight[n] = "sending"
  /\ \/ /\ reached' = [reached EXCEPT ![n] = TRUE]
        /\ flight' = [flight EXCEPT ![n] = "sent"]
     \/ /\ reached' = reached
        /\ flight' = [flight EXCEPT ![n] = "failed"]
  /\ UNCHANGED <<kind, feedVars, logVars, publisher, qstashVars, taking, post, mishaps>>

(* A mistake SentWasSent catches: done, as far as QStash is concerned, is  *)
(* taken for sent.                                                         *)
RecipientGoneSent(n) ==
  /\ flight[n] = "sending"
  /\ flight' = [flight EXCEPT ![n] = "idle"]
  /\ SetStatus(n, "sent")
  /\ Answered(n)
  /\ UNCHANGED <<kind, feedVars, known, publisher, tries, reached, taking, post, mishaps>>

(* "Recipient not found" is a failure, answered with 200. *)
RecipientGone(n) ==
  /\ flight[n] = "sending"
  /\ flight' = [flight EXCEPT ![n] = "idle"]
  /\ SetStatus(n, "failed")
  /\ Answered(n)
  /\ UNCHANGED <<kind, feedVars, known, publisher, tries, reached, taking, post, mishaps>>

MarkSent(n) ==
  /\ flight[n] = "sent"
  /\ \/ /\ flight' = [flight EXCEPT ![n] = "idle"]
        /\ SetStatus(n, "sent")
        /\ Answered(n)
     \/ /\ flight' = [flight EXCEPT ![n] = "failed"]     \* the UPDATE throws
        /\ UNCHANGED <<log, message>>
  /\ UNCHANGED <<kind, feedVars, known, publisher, tries, reached, taking, post, mishaps>>

MarkDispatchFailed(n) ==
  /\ flight[n] = "failed"
  /\ flight' = [flight EXCEPT ![n] = "idle"]
  /\ SetStatus(n, "failed")
  /\ Retried(n)
  /\ UNCHANGED <<kind, feedVars, known, publisher, tries, reached, taking, post, mishaps>>

(* The database is away, or the process dies. *)
DispatchDies(n) ==
  /\ flight[n] # "idle"
  /\ flight' = [flight EXCEPT ![n] = "idle"]
  /\ Retried(n)
  /\ mishaps' = mishaps \cup {n}
  /\ UNCHANGED <<kind, feedVars, logVars, publisher, tries, reached, taking, post>>

-----------------------------------------------------------------------------
(* Taking messages back. *)

Cancellable(n) == log[n] = "queued" /\ known[n]

(* cancelShowReminder *)
CancelShowReminder(n) ==
  /\ kind[n] = "reminder" /\ taking[n] = "idle"
  /\ feed[n] = "there" /\ Cancellable(n)
  /\ taking' = [taking EXCEPT ![n] = "cancel"]
  /\ UNCHANGED <<kind, feedVars, logVars, publisher, qstashVars, dispatchVars, post, mishaps>>

(* A mistake SkippedIsSilent catches: skipped, whatever QStash says. *)
CancelMessageAnyhow(n) ==
  /\ taking[n] = "cancel"
  /\ message' \in {message, [message EXCEPT ![n] = "gone"]}
  /\ taking' = [taking EXCEPT ![n] = "skip"]
  /\ UNCHANGED <<kind, feedVars, logVars, publisher, tries, dispatchVars, post, mishaps>>

(* messages.delete throws when the message has gone, and may throw anyway. *)
CancelMessage(n) ==
  /\ taking[n] = "cancel"
  /\ \/ /\ message[n] = "pending"
        /\ message' = [message EXCEPT ![n] = "gone"]
        /\ taking' = [taking EXCEPT ![n] = "skip"]
     \/ /\ message' \in {message, [message EXCEPT ![n] = "gone"]}
        /\ taking' = [taking EXCEPT ![n] = "idle"]
        /\ message[n] = "pending" \/ message' = message
  /\ mishaps' = IF taking'[n] = "idle" THEN mishaps \cup {n} ELSE mishaps
  /\ UNCHANGED <<kind, feedVars, logVars, publisher, tries, dispatchVars, post>>

MarkSkipped(n) ==
  /\ taking[n] = "skip"
  /\ \/ log' = [log EXCEPT ![n] = "skipped"] /\ mishaps' = mishaps
     \/ log' = log /\ mishaps' = mishaps \cup {n}         \* the UPDATE throws
  /\ taking' = [taking EXCEPT ![n] = "idle"]
  /\ UNCHANGED <<kind, feedVars, known, publisher, qstashVars, dispatchVars, post>>

(* deleteBroadcast *)
DeleteBroadcast ==
  /\ post.row /\ post.deletion = "none"
  /\ taking' = [n \in Notes |-> IF n \in Recipients /\ Cancellable(n) THEN "cancel" ELSE taking[n]]
  /\ post' = [post EXCEPT !.deletion = "cancelling"]
  /\ UNCHANGED <<kind, feedVars, logVars, publisher, qstashVars, dispatchVars, mishaps>>

(* A mistake DeletedIsSilent catches: only the rows of messages taken back *)
(* are deleted.                                                            *)
DeletedRowsSkipped == {n \in Recipients : tagged[n] /\ log[n] = "skipped"}
DeletedRows == {n \in Recipients : tagged[n]}

DeleteNotifications ==
  /\ post.deletion = "cancelling" /\ \A n \in Recipients : taking[n] = "idle"
  /\ feed' = [n \in Notes |-> IF n \in DeletedRows THEN "deleted" ELSE feed[n]]
  /\ tagged' = [n \in Notes |-> IF n \in DeletedRows THEN FALSE ELSE tagged[n]]
  /\ post' = [post EXCEPT !.deletion = "row", !.whole = post.loop = "over"]
  /\ UNCHANGED <<kind, logVars, publisher, qstashVars, dispatchVars, taking, mishaps>>

(* ON DELETE SET NULL *)
DeletePost ==
  /\ post.deletion = "row"
  /\ post' = [post EXCEPT !.row = FALSE, !.deletion = "done"]
  /\ tagged' = [n \in Notes |-> FALSE]
  /\ UNCHANGED <<kind, feed, logVars, publisher, qstashVars, dispatchVars, taking, mishaps>>

(* A statement throws: 500, and the admin may ask again. *)
DeleteFails ==
  /\ post.deletion = "row" \/ (post.deletion = "cancelling" /\ \A n \in Recipients : taking[n] = "idle")
  /\ post' = [post EXCEPT !.deletion = "none"]
  /\ UNCHANGED <<kind, feedVars, logVars, publisher, qstashVars, dispatchVars, taking, mishaps>>

-----------------------------------------------------------------------------
Publish(n) == \/ InsertInApp(n) \/ TagBroadcast(n) \/ CreateDispatchLogRow(n)
              \/ PublishDispatch(n) \/ StoreMessageId(n) \/ PublishCatch(n) \/ PublisherDies(n)

HandleDispatch(n) == \/ Send(n) \/ RecipientGone(n) \/ MarkSent(n)
                     \/ MarkDispatchFailed(n) \/ DispatchDies(n)

TakeBack(n) == CancelMessage(n) \/ MarkSkipped(n)

NotifyNext == \/ \E n \in Notes : \/ Publish(n) \/ Deliver(n) \/ HandleDispatch(n)
                                  \/ CancelShowReminder(n) \/ TakeBack(n)
              \/ CreateBroadcast \/ ScheduledAll
              \/ DeleteBroadcast \/ DeleteNotifications \/ DeletePost \/ DeleteFails

NotifySpec == NotifyInit /\ [][NotifyNext]_notifyVars

(* A function that has begun goes on, and QStash delivers what it holds.   *)
Fairness == \A n \in Notes : /\ WF_notifyVars(publisher[n] # "idle" /\ Publish(n))
                             /\ WF_notifyVars(Deliver(n)) /\ WF_notifyVars(HandleDispatch(n))
                             /\ WF_notifyVars(TakeBack(n))

FairSpec == NotifySpec /\ Fairness

-----------------------------------------------------------------------------
(* The variables keep their types; a stored message id, a message and a    *)
(* delivery all belong to a notification that has been logged.             *)
NotifyTypeOK ==
  /\ kind \in Kinds
  /\ feed \in [Notes -> {"none", "there", "deleted"}]
  /\ tagged \in [Notes -> BOOLEAN] /\ known \in [Notes -> BOOLEAN] /\ reached \in [Notes -> BOOLEAN]
  /\ log \in [Notes -> {"none", "queued", "sent", "failed", "skipped"}]
  /\ publisher \in [Notes -> {"idle", "tag", "log", "publish", "store", "catch", "done"}]
  /\ message \in [Notes -> {"none", "pending", "gone"}]
  /\ tries \in [Notes -> 0 .. Retries + 1]
  /\ flight \in [Notes -> {"idle", "sending", "sent", "failed"}]
  /\ taking \in [Notes -> {"idle", "cancel", "skip"}]
  /\ post \in [row : BOOLEAN, loop : {"none", "running", "over", "broken"},
               deletion : {"none", "cancelling", "row", "done"}, whole : BOOLEAN]
  /\ mishaps \subseteq Notes
  /\ \A n \in Notes : known[n] \/ message[n] # "none" \/ flight[n] # "idle" => log[n] # "none"

(* The log never claims a message was sent that was not, whichever of its  *)
(* deliveries, retries and failures wrote the row last                     *)
(* (dispatch.Controller.js:66-71).                                         *)
SentWasSent == \A n \in Notes : log[n] = "sent" => reached[n]

(* A message marked as skipped will not be delivered (again): what         *)
(* cancelShowReminder and deleteBroadcast take back stays back.  (It may   *)
(* have gone out before, in a delivery that overtook the UPDATE.)          *)
SkippedIsSilent == \A n \in Notes : log[n] = "skipped" => message[n] = "gone"

(* Once a broadcast that was scheduled to the end is deleted, no delivery  *)
(* of it begins to send, whether its message could be taken back or not,   *)
(* had failed before, or is retried (broadcast.js:215-221).                *)
DeletedIsSilent ==
  [][\A n \in Notes : kind[n] = "broadcast" /\ post.deletion = "done" /\ post.whole
       => ~(flight[n] = "idle" /\ flight'[n] = "sending")]_notifyVars

(* A queued row does not stay queued: it is sent, failed or skipped, or    *)
(* its notification deleted, unless its publisher or the database died on  *)
(* it, QStash would not give it up, or publishing a reminder threw.        *)
QueuedEnds ==
  \A n \in Notes : log[n] = "queued" ~> (log[n] # "queued" \/ feed[n] = "deleted" \/ n \in mishaps)
=============================================================================
