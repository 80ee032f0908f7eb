---------------------------- MODULE Notifications ----------------------------
(***************************************************************************)
(* What the user of one order is told: the confirmation of the booking,    *)
(* the reminder before the event and the notice of its cancellation.  A    *)
(* notification is a row of the user's inbox, then a push and a mail.      *)
(*                                                                         *)
(* The order and the event appear only as far as the notifications depend  *)
(* on them; how an order gets paid and refunded is the matter of Booking   *)
(* and EventCancellation.  Nobody awaits what a settlement and the         *)
(* cancellation job start here: it runs in the background.                 *)
(***************************************************************************)
EXTENDS Naturals

CONSTANTS
    MaxAttempts,        \* the attempts of a reminder job
    MaxCancelAttempts   \* the attempts of a cancellation job

ASSUME AttemptsAssumption ==
    MaxAttempts \in Nat \ {0} /\ MaxCancelAttempts \in Nat \ {0}

VARIABLES
    order,          \* "PENDING", "PAID" or "REFUNDED"
    event,          \* "PUBLISHED" or "CANCELLED"
    background,     \* how many of each task run, before and after their row
    reminderJob,    \* queue notification-reminder: the job reminder-<orderId>
    attemptsMade,   \* by the reminder job
    cancelJob,      \* the stage of processEventCancellation
    cancelAttempts, \* its failed attempts
    inbox,          \* the rows of the user's inbox, by type
    mails,          \* the mails sent, by type
    lateReminders   \* history: reminders stored after the event was cancelled

vars == <<order, event, background, reminderJob, attemptsMade, cancelJob,
          cancelAttempts, inbox, mails, lateReminders>>

\* "confirmation" and "notice" insert a row, then send a mail; "schedule" queues
\* the reminder; "refund" is the transaction refundPaidOrders left running.
Tasks == {"confirmation", "schedule", "refund", "notice"}
Types == {"booking_confirmed", "event_reminder", "event_cancelled"}

NotificationsTypeOK ==
    /\ order \in {"PENDING", "PAID", "REFUNDED"}
    /\ event \in {"PUBLISHED", "CANCELLED"}
    /\ background \in [Tasks -> [started: Nat, stored: Nat]]
    /\ reminderJob \in {"none", "delayed", "active", "checked", "stored", "returned", "ended"}
    /\ attemptsMade \in 0..MaxAttempts
    /\ cancelJob \in {"none", "refunds", "reminders", "notify", "notified", "ended"}
    /\ cancelAttempts \in 0..MaxCancelAttempts
    /\ inbox \in [Types -> Nat]
    /\ mails \in [Types -> Nat]
    /\ lateReminders \in 0..MaxAttempts

Init ==
    /\ order = "PENDING"
    /\ event = "PUBLISHED"
    /\ background = [t \in Tasks |-> [started |-> 0, stored |-> 0]]
    /\ reminderJob = "none"
    /\ attemptsMade = 0
    /\ cancelJob = "none"
    /\ cancelAttempts = 0
    /\ inbox = [t \in Types |-> 0]
    /\ mails = [t \in Types |-> 0]
    /\ lateReminders = 0

Start(task) == background' = [background EXCEPT ![task].started = @ + 1]
Finish(task, stage) ==
    /\ background[task][stage] > 0
    /\ background' = [background EXCEPT ![task][stage] = @ - 1]
Stores(type) == inbox' = [inbox EXCEPT ![type] = @ + 1]
Mails(type) == mails' = [mails EXCEPT ![type] = @ + 1]

-----------------------------------------------------------------------------
(* After a payment. *)

\* Mutant: a settled payment is settled again.
SettleAgain ==
    /\ order \in {"PENDING", "PAID"}
    /\ order' = "PAID"
    /\ background' = [background EXCEPT !["confirmation"].started = @ + 1,
                                        !["schedule"].started = @ + 1]
    /\ UNCHANGED <<event, reminderJob, attemptsMade, cancelJob, cancelAttempts,
                   inbox, mails, lateReminders>>

\* The settlement starts the confirmation and the scheduling together; both are
\* skipped if the removal of the hold's delayed job throws before them.
Settle ==
    /\ order = "PENDING"
    /\ order' = "PAID"
    /\ \/ background' = [background EXCEPT !["confirmation"].started = @ + 1,
                                           !["schedule"].started = @ + 1]
       \/ UNCHANGED background
    /\ UNCHANGED <<event, reminderJob, attemptsMade, cancelJob, cancelAttempts,
                   inbox, mails, lateReminders>>

\* createAndPush and sendEmail, for a task started in the background.
StoreNotification(task, type) ==
    /\ background[task].started > 0
    /\ background' = [background EXCEPT ![task].started = @ - 1, ![task].stored = @ + 1]
    /\ Stores(type)
    /\ UNCHANGED <<order, event, reminderJob, attemptsMade, cancelJob, cancelAttempts,
                   mails, lateReminders>>

MailNotification(task, type) ==
    /\ Finish(task, "stored")
    /\ Mails(type)
    /\ UNCHANGED <<order, event, reminderJob, attemptsMade, cancelJob, cancelAttempts,
                   inbox, lateReminders>>

\* The delayed job is queued, unless the event is too near.
ScheduleReminder ==
    /\ Finish("schedule", "started")
    /\ reminderJob' \in {"delayed", reminderJob}
    /\ UNCHANGED <<order, event, attemptsMade, cancelJob, cancelAttempts,
                   inbox, mails, lateReminders>>

-----------------------------------------------------------------------------
(* The reminder job. *)

ReminderStarts ==
    /\ reminderJob = "delayed"
    /\ reminderJob' = "active"
    /\ attemptsMade' = attemptsMade + 1
    /\ UNCHANGED <<order, event, background, cancelJob, cancelAttempts,
                   inbox, mails, lateReminders>>

\* Mutant: only the order is looked at.
StillWantedByOrder == order = "PAID"

StillWanted == order = "PAID" /\ event # "CANCELLED"

ReminderChecks ==
    /\ reminderJob = "active"
    /\ reminderJob' = IF StillWanted THEN "checked" ELSE "returned"
    /\ UNCHANGED <<order, event, background, attemptsMade, cancelJob, cancelAttempts, inbox,
                   mails, lateReminders>>

ReminderStores ==
    /\ reminderJob = "checked"
    /\ reminderJob' = "stored"
    /\ Stores("event_reminder")
    /\ lateReminders' = IF event = "CANCELLED" THEN lateReminders + 1 ELSE lateReminders
    /\ UNCHANGED <<order, event, background, attemptsMade, cancelJob, cancelAttempts, mails>>

\* Mutant: the mail goes out before the row is stored.
ReminderMailsFirst ==
    /\ reminderJob = "checked"
    /\ reminderJob' = "stored"
    /\ Mails("event_reminder")
    /\ UNCHANGED <<order, event, background, attemptsMade, cancelJob, cancelAttempts,
                   inbox, lateReminders>>

ReminderMails ==
    /\ reminderJob = "stored"
    /\ reminderJob' = "returned"
    /\ Mails("event_reminder")
    /\ UNCHANGED <<order, event, background, attemptsMade, cancelJob, cancelAttempts,
                   inbox, lateReminders>>

ReminderCompletes ==
    /\ reminderJob = "returned"
    /\ reminderJob' = "ended"
    /\ UNCHANGED <<order, event, background, attemptsMade, cancelJob, cancelAttempts,
                   inbox, mails, lateReminders>>

\* Mutant: the retries are not limited.
RetriesForEver == TRUE

AttemptsLeft == attemptsMade < MaxAttempts

\* The attempt throws, for instance in sendMail, or its worker dies: it is
\* retried from the start as long as it has attempts left.  The mail may be out
\* by then, with the answer of the mail server or the completion lost.
ReminderFails ==
    /\ reminderJob \in {"active", "checked", "stored", "returned"}
    /\ reminderJob' = IF AttemptsLeft THEN "delayed" ELSE "ended"
    /\ UNCHANGED <<order, event, background, attemptsMade, cancelJob, cancelAttempts, inbox,
                   mails, lateReminders>>

-----------------------------------------------------------------------------
(* The cancellation of the event. *)

CancelEvent ==
    /\ event = "PUBLISHED"
    /\ event' = "CANCELLED"
    /\ cancelJob' = "refunds"
    /\ UNCHANGED <<order, background, reminderJob, attemptsMade, cancelAttempts,
                   inbox, mails, lateReminders>>

JobStartsRefunds ==
    /\ cancelJob = "refunds"
    /\ cancelJob' = "reminders"
    /\ IF order = "PAID" THEN Start("refund") ELSE UNCHANGED background
    /\ UNCHANGED <<order, event, reminderJob, attemptsMade, cancelAttempts,
                   inbox, mails, lateReminders>>

Refund ==
    /\ Finish("refund", "started")
    /\ order' = "REFUNDED"
    /\ UNCHANGED <<event, reminderJob, attemptsMade, cancelJob, cancelAttempts,
                   inbox, mails, lateReminders>>

\* A job that a worker holds cannot be removed (the error is swallowed).
JobRemovesReminder ==
    /\ cancelJob = "reminders"
    /\ cancelJob' = "notify"
    /\ reminderJob' = IF reminderJob = "delayed" THEN "none" ELSE reminderJob
    /\ UNCHANGED <<order, event, background, attemptsMade, cancelAttempts,
                   inbox, mails, lateReminders>>

\* The users of confirmed and cancelled reservations are told; the hold of an
\* order that is not paid may still be there.
JobNotifies ==
    /\ cancelJob = "notify"
    /\ cancelJob' = "notified"
    /\ \/ Start("notice")
       \/ order = "PENDING" /\ UNCHANGED background
    /\ UNCHANGED <<order, event, reminderJob, attemptsMade, cancelAttempts,
                   inbox, mails, lateReminders>>

JobCompletes ==
    /\ cancelJob = "notified"
    /\ cancelJob' = "ended"
    /\ UNCHANGED <<order, event, background, reminderJob, attemptsMade, cancelAttempts,
                   inbox, mails, lateReminders>>

\* A query throws, or the worker dies before the job counts as completed.
JobFails ==
    /\ cancelJob \in {"refunds", "reminders", "notify", "notified"}
    /\ cancelAttempts' = cancelAttempts + 1
    /\ cancelJob' = IF cancelAttempts' < MaxCancelAttempts THEN "refunds" ELSE "ended"
    /\ UNCHANGED <<order, event, background, reminderJob, attemptsMade,
                   inbox, mails, lateReminders>>

-----------------------------------------------------------------------------

\* A task in the background fails, or the process dies.
TaskFails(task) ==
    /\ \E stage \in {"started", "stored"} : Finish(task, stage)
    /\ UNCHANGED <<order, event, reminderJob, attemptsMade, cancelJob, cancelAttempts, inbox,
                   mails, lateReminders>>

Notify(task, type) == StoreNotification(task, type) \/ MailNotification(task, type)

Next ==
    \/ Settle
    \/ Notify("confirmation", "booking_confirmed")
    \/ ScheduleReminder
    \/ ReminderStarts
    \/ ReminderChecks
    \/ ReminderStores
    \/ ReminderMails
    \/ ReminderCompletes
    \/ ReminderFails
    \/ CancelEvent
    \/ JobStartsRefunds
    \/ Refund
    \/ JobRemovesReminder
    \/ JobNotifies
    \/ JobCompletes
    \/ JobFails
    \/ Notify("notice", "event_cancelled")
    \/ \E task \in Tasks : TaskFails(task)

Spec == Init /\ [][Next]_vars

-----------------------------------------------------------------------------
(* Properties. *)

\* notifications.service.ts:147 "stored first, so that the user can always look
\* it up": whatever is retried or lost, each mail has a row of its own.
MailedIsStored == \A type \in Types : mails[type] <= inbox[type]

\* A message comes twice only if the job that sends it was attempted again: a
\* repeated webhook confirms nothing twice, and each further reminder or notice
\* has a failed attempt of its own behind it.
RepeatsAreRetries ==
    /\ inbox["booking_confirmed"] <= 1
    /\ inbox["event_reminder"] <= attemptsMade
    /\ inbox["event_cancelled"] <= cancelAttempts + 1

\* After the cancellation at most the one reminder that had passed its check
\* slips through: every later attempt looks at the event again, also while the
\* refund is still running and after the job could not be removed.
AtMostOneLateReminder == lateReminders <= 1
=============================================================================
