------------------------- MODULE NotificationsProofs -------------------------
(***************************************************************************)
(* The invariants of Notifications, for any number of attempts.            *)
(***************************************************************************)
EXTENDS Notifications, TLAPS

\* The types that need no argument; the two bounds on attempts and the bound on
\* late reminders follow from the invariants below.
Fields ==
    /\ order \in {"PENDING", "PAID", "REFUNDED"}
    /\ event \in {"PUBLISHED", "CANCELLED"}
    /\ background \in [Tasks -> [started: Nat, stored: Nat]]
    /\ reminderJob \in {"none", "delayed", "active", "checked", "stored", "returned", "ended"}
    /\ attemptsMade \in Nat
    /\ cancelJob \in {"none", "refunds", "reminders", "notify", "notified", "ended"}
    /\ cancelAttempts \in Nat
    /\ inbox \in [Types -> Nat]
    /\ mails \in [Types -> Nat]
    /\ lateReminders \in Nat

\* There is one job per order: it is queued once, after the payment, and a job
\* that waits for an attempt has one left.
Reminders ==
    /\ order = "PENDING" =>
          /\ reminderJob = "none"
          /\ background["schedule"].started = 0
          /\ background["refund"].started = 0
          /\ attemptsMade = 0
    /\ background["schedule"].started <= 1
    /\ background["schedule"].started > 0 => reminderJob = "none" /\ attemptsMade = 0
    /\ reminderJob = "delayed" => attemptsMade < MaxAttempts
    /\ attemptsMade <= MaxAttempts

\* The cancellation job starts with the cancellation and ends with its attempts.
Cancellations ==
    /\ event = "PUBLISHED" => cancelJob = "none" /\ cancelAttempts = 0
    /\ cancelJob \in {"refunds", "reminders", "notify", "notified"}
          => cancelAttempts < MaxCancelAttempts
    /\ cancelAttempts <= MaxCancelAttempts

\* A task whose mail is still to be sent has its row already.
RowsFirst ==
    /\ mails["booking_confirmed"] + background["confirmation"].stored
          <= inbox["booking_confirmed"]
    /\ mails["event_cancelled"] + background["notice"].stored <= inbox["event_cancelled"]
    /\ mails["event_reminder"] <= inbox["event_reminder"]
    /\ reminderJob = "stored" => mails["event_reminder"] < inbox["event_reminder"]

\* After the cancellation no attempt passes the check, so that one that had
\* passed it before is the last.
LastReminder ==
    lateReminders > 0 =>
        /\ lateReminders = 1
        /\ event = "CANCELLED"
        /\ reminderJob # "checked"

\* A row that is there, or about to be, uses up the settlement, the attempt or
\* the round of the cancellation job that makes it.
Repeats ==
    /\ order = "PENDING" => background["confirmation"].started + inbox["booking_confirmed"] = 0
    /\ background["confirmation"].started + inbox["booking_confirmed"] <= 1
    /\ inbox["event_reminder"] <= attemptsMade
    /\ reminderJob \in {"active", "checked"} => inbox["event_reminder"] < attemptsMade
    /\ background["notice"].started + inbox["event_cancelled"]
          <= cancelAttempts + (IF cancelJob \in {"notified", "ended"} THEN 1 ELSE 0)

NotifyInv == Fields /\ Reminders /\ Cancellations /\ RowsFirst /\ LastReminder /\ Repeats

\* Every variable has its type at first and after every step.
LEMMA FieldsInit == Init => Fields
BY DEF Init, Fields, Tasks, Types

\* A finished stage of a task was above zero and is one less.
LEMMA FinishOne ==
    ASSUME Fields, NEW task \in Tasks, NEW stage \in {"started", "stored"},
           Finish(task, stage)
    PROVE  /\ background[task][stage] > 0
           /\ background' \in [Tasks -> [started: Nat, stored: Nat]]
           /\ \A t \in Tasks : /\ background'[t].started =
                                       IF t = task /\ stage = "started"
                                       THEN background[t].started - 1 ELSE background[t].started
                               /\ background'[t].stored =
                                       IF t = task /\ stage = "stored"
                                       THEN background[t].stored - 1 ELSE background[t].stored
<1>1. background \in [Tasks -> [started: Nat, stored: Nat]]
    BY DEF Fields
<1>2. background[task] \in [started: Nat, stored: Nat]
    BY <1>1
<1>3. background[task][stage] > 0
    BY DEF Finish
<1>4. \A t \in Tasks : t # task => background'[t] = background[t]
    BY <1>1 DEF Finish
<1>5. CASE stage = "started"
    <2>1. background' = [background EXCEPT ![task].started = @ - 1]
        BY <1>5 DEF Finish
    <2>2. background[task].started > 0
        BY <1>3, <1>5
    <2>3. /\ background'[task] \in [started: Nat, stored: Nat]
          /\ background'[task].started = background[task].started - 1
          /\ background'[task].stored = background[task].stored
        BY <1>1, <1>2, <2>1, <2>2
    <2> QED
        BY <1>1, <1>3, <1>4, <1>5, <2>1, <2>3
<1>6. CASE stage = "stored"
    <2>1. background' = [background EXCEPT ![task].stored = @ - 1]
        BY <1>6 DEF Finish
    <2>2. background[task].stored > 0
        BY <1>3, <1>6
    <2>3. /\ background'[task] \in [started: Nat, stored: Nat]
          /\ background'[task].started = background[task].started
          /\ background'[task].stored = background[task].stored - 1
        BY <1>1, <1>2, <2>1, <2>2
    <2> QED
        BY <1>1, <1>3, <1>4, <1>6, <2>1, <2>3
<1> QED
    BY <1>5, <1>6

\* A task a step starts is one more.
LEMMA StartOne ==
    ASSUME Fields, NEW task \in Tasks, Start(task)
    PROVE  /\ background' \in [Tasks -> [started: Nat, stored: Nat]]
           /\ \A t \in Tasks : /\ background'[t].started = IF t = task
                                                           THEN background[t].started + 1
                                                           ELSE background[t].started
                               /\ background'[t].stored = background[t].stored
<1>1. background \in [Tasks -> [started: Nat, stored: Nat]]
    BY DEF Fields
<1>2. background[task] \in [started: Nat, stored: Nat]
    BY <1>1
<1>3. background' = [background EXCEPT ![task].started = @ + 1]
    BY DEF Start
<1>4. /\ background'[task] \in [started: Nat, stored: Nat]
      /\ background'[task].started = background[task].started + 1
      /\ background'[task].stored = background[task].stored
    BY <1>1, <1>2, <1>3
<1>5. \A t \in Tasks : t # task => background'[t] = background[t]
    BY <1>1, <1>3
<1> QED
    BY <1>1, <1>3, <1>4, <1>5

\* The settlement starts confirmation and reminder, or neither.
LEMMA SettleStarts ==
    ASSUME Fields, Settle
    PROVE  /\ background' \in [Tasks -> [started: Nat, stored: Nat]]
           /\ \A t \in Tasks : background'[t].stored = background[t].stored
           /\ background'["schedule"].started <= background["schedule"].started + 1
           /\ background'["refund"].started = background["refund"].started
           /\ background'["notice"].started = background["notice"].started
           /\ background'["confirmation"].started <= background["confirmation"].started + 1
<1>1. background \in [Tasks -> [started: Nat, stored: Nat]]
    BY DEF Fields
<1>2. CASE UNCHANGED background
    BY <1>1, <1>2 DEF Tasks
<1>3. CASE background' = [background EXCEPT !["confirmation"].started = @ + 1,
                                            !["schedule"].started = @ + 1]
    <2>1. background["confirmation"] \in [started: Nat, stored: Nat]
          /\ background["schedule"] \in [started: Nat, stored: Nat]
        BY <1>1 DEF Tasks
    <2>2. [background["confirmation"] EXCEPT !.started = @ + 1] \in [started: Nat, stored: Nat]
          /\ [background["schedule"] EXCEPT !.started = @ + 1] \in [started: Nat, stored: Nat]
        BY <2>1
    <2>3. background' = [background EXCEPT
              !["confirmation"] = [background["confirmation"] EXCEPT !.started = @ + 1],
              !["schedule"] = [background["schedule"] EXCEPT !.started = @ + 1]]
        BY <1>1, <1>3 DEF Tasks
    <2> QED
        BY <1>1, <2>1, <2>2, <2>3 DEF Tasks
<1> QED
    BY <1>2, <1>3 DEF Settle

\* A notification moves its task from before its row to after it.
LEMMA StoreMoves ==
    ASSUME Fields, NEW task \in Tasks, NEW type \in Types, StoreNotification(task, type)
    PROVE  /\ background' \in [Tasks -> [started: Nat, stored: Nat]]
           /\ inbox' \in [Types -> Nat]
           /\ \A t \in Tasks : /\ background'[t].stored = IF t = task THEN background[t].stored + 1
                                                                     ELSE background[t].stored
                               /\ background'[t].started = IF t = task
                                                           THEN background[t].started - 1
                                                           ELSE background[t].started
           /\ \A y \in Types : inbox'[y] = IF y = type THEN inbox[y] + 1 ELSE inbox[y]
<1>1. background \in [Tasks -> [started: Nat, stored: Nat]] /\ inbox \in [Types -> Nat]
    BY DEF Fields
<1>2. background[task] \in [started: Nat, stored: Nat]
    BY <1>1
<1>3. background' = [background EXCEPT ![task].started = @ - 1, ![task].stored = @ + 1]
    BY DEF StoreNotification
<1>4. background[task].started > 0
    BY DEF StoreNotification
<1>5. background'[task] \in [started: Nat, stored: Nat]
      /\ background'[task].stored = background[task].stored + 1
      /\ background'[task].started = background[task].started - 1
    BY <1>1, <1>2, <1>3, <1>4
<1>6. background' \in [Tasks -> [started: Nat, stored: Nat]]
    <2>1. \A t \in Tasks : t # task => background'[t] = background[t]
        BY <1>1, <1>3
    <2>2. \A t \in Tasks : background'[t] \in [started: Nat, stored: Nat]
        BY <1>1, <1>5, <2>1
    <2> QED
        BY <1>1, <1>3, <2>2
<1>7. inbox' \in [Types -> Nat]
      /\ \A y \in Types : inbox'[y] = IF y = type THEN inbox[y] + 1 ELSE inbox[y]
    BY <1>1 DEF StoreNotification, Stores
<1> QED
    BY <1>1, <1>3, <1>5, <1>6, <1>7

\* The mail of a task: one mail more, and the task is over.
LEMMA MailMoves ==
    ASSUME Fields, NEW task \in Tasks, NEW type \in Types, MailNotification(task, type)
    PROVE  /\ background' \in [Tasks -> [started: Nat, stored: Nat]]
           /\ mails' \in [Types -> Nat]
           /\ background[task].stored > 0
           /\ \A t \in Tasks : /\ background'[t].stored = IF t = task THEN background[t].stored - 1
                                                                     ELSE background[t].stored
                               /\ background'[t].started = background[t].started
           /\ \A y \in Types : mails'[y] = IF y = type THEN mails[y] + 1 ELSE mails[y]
<1>1. mails \in [Types -> Nat]
    BY DEF Fields
<1>2. Finish(task, "stored")
    BY DEF MailNotification
<1>3. mails' \in [Types -> Nat]
      /\ \A y \in Types : mails'[y] = IF y = type THEN mails[y] + 1 ELSE mails[y]
    BY <1>1 DEF MailNotification, Mails
<1> QED
    BY <1>2, <1>3, FinishOne

\* The step as the proofs below split it.
LEMMA Steps ==
    ASSUME [Next]_vars
    PROVE  \/ Settle \/ ScheduleReminder \/ ReminderStarts \/ ReminderChecks
           \/ ReminderStores \/ ReminderMails \/ ReminderCompletes \/ ReminderFails
           \/ CancelEvent
           \/ JobStartsRefunds \/ Refund \/ JobRemovesReminder \/ JobNotifies
           \/ JobCompletes \/ JobFails
           \/ \E n \in {<<"confirmation", "booking_confirmed">>, <<"notice", "event_cancelled">>} :
                  StoreNotification(n[1], n[2]) \/ MailNotification(n[1], n[2])
           \/ \E task \in Tasks : TaskFails(task)
           \/ UNCHANGED vars
BY DEF Next, Notify

\* Types are preserved by every step.
LEMMA FieldsStep ==
    ASSUME Fields, [Next]_vars
    PROVE  Fields'
<1> USE DEF Fields
<1>1. CASE Settle
    BY <1>1, SettleStarts DEF Settle
<1>2. CASE ScheduleReminder
    BY <1>2, FinishOne DEF ScheduleReminder, Tasks
<1>3. CASE ReminderStarts
    BY <1>3 DEF ReminderStarts
<1>4. CASE ReminderChecks
    BY <1>4 DEF ReminderChecks
<1>5. CASE ReminderStores
    <2>1. inbox' \in [Types -> Nat]
        BY <1>5 DEF ReminderStores, Stores, Types
    <2> QED
        BY <1>5, <2>1 DEF ReminderStores
<1>6. CASE ReminderMails
    <2>1. mails' \in [Types -> Nat]
        BY <1>6 DEF ReminderMails, Mails, Types
    <2> QED
        BY <1>6, <2>1 DEF ReminderMails
<1>7. CASE ReminderCompletes \/ ReminderFails
    BY <1>7 DEF ReminderCompletes, ReminderFails
<1>8. CASE CancelEvent
    BY <1>8 DEF CancelEvent
<1>9. CASE JobStartsRefunds
    BY <1>9, StartOne DEF JobStartsRefunds, Tasks
<1>10. CASE Refund
    BY <1>10, FinishOne DEF Refund, Tasks
<1>11. CASE JobRemovesReminder
    BY <1>11 DEF JobRemovesReminder
<1>12. CASE JobNotifies
    BY <1>12, StartOne DEF JobNotifies, Tasks
<1>13. CASE JobCompletes
    BY <1>13 DEF JobCompletes
<1>14. CASE JobFails
    BY <1>14 DEF JobFails
<1>15. CASE \E n \in {<<"confirmation", "booking_confirmed">>, <<"notice", "event_cancelled">>} :
                StoreNotification(n[1], n[2]) \/ MailNotification(n[1], n[2])
    <2>1. PICK task \in Tasks, type \in Types :
              StoreNotification(task, type) \/ MailNotification(task, type)
        BY <1>15 DEF Tasks, Types
    <2>2. CASE StoreNotification(task, type)
        BY <2>2, StoreMoves DEF StoreNotification
    <2>3. CASE MailNotification(task, type)
        BY <2>3, MailMoves DEF MailNotification
    <2> QED
        BY <2>1, <2>2, <2>3
<1>16. CASE \E task \in Tasks : TaskFails(task)
    BY <1>16, FinishOne DEF TaskFails
<1>17. CASE UNCHANGED vars
    BY <1>17 DEF vars
<1> QED
    BY <1>1, <1>2, <1>3, <1>4, <1>5, <1>6, <1>7, <1>8, <1>9, <1>10, <1>11, <1>12, <1>13,
       <1>14, <1>15, <1>16, <1>17, Steps


\* What a step does to the tasks: it starts the reminder once, with the payment,
\* a refund only when the order is paid, and moves only its own task on.
LEMMA TaskStep ==
    ASSUME Fields, [Next]_vars
    PROVE  /\ \/ Settle
              \/ background'["schedule"].started <= background["schedule"].started
           /\ \/ JobStartsRefunds /\ order = "PAID"
              \/ background'["refund"].started <= background["refund"].started
<1> USE DEF Fields
<1>1. background["schedule"] \in [started: Nat, stored: Nat]
      /\ background["refund"] \in [started: Nat, stored: Nat]
    BY DEF Tasks
<1>2. CASE ScheduleReminder
    BY <1>1, <1>2, FinishOne DEF ScheduleReminder, Tasks
<1>3. CASE Refund
    BY <1>1, <1>3, FinishOne DEF Refund, Tasks
<1>4. CASE JobStartsRefunds
    BY <1>1, <1>4, StartOne DEF JobStartsRefunds, Tasks
<1>5. CASE JobNotifies
    BY <1>1, <1>5, StartOne DEF JobNotifies, Tasks
<1>6. CASE \E n \in {<<"confirmation", "booking_confirmed">>, <<"notice", "event_cancelled">>} :
                StoreNotification(n[1], n[2]) \/ MailNotification(n[1], n[2])
    <2>1. PICK task \in {"confirmation", "notice"}, type \in Types :
              StoreNotification(task, type) \/ MailNotification(task, type)
        BY <1>6 DEF Tasks, Types
    <2>2. CASE StoreNotification(task, type)
        BY <1>1, <2>1, <2>2, StoreMoves DEF Tasks
    <2>3. CASE MailNotification(task, type)
        BY <1>1, <2>1, <2>3, MailMoves DEF Tasks
    <2> QED
        BY <2>1, <2>2, <2>3
<1>7. CASE \E task \in Tasks : TaskFails(task)
    <2>1. PICK task \in Tasks, stage \in {"started", "stored"} : Finish(task, stage)
        BY <1>7 DEF TaskFails
    <2> QED
        BY <1>1, <2>1, FinishOne DEF Tasks
<1>8. CASE Settle
    BY <1>1, <1>8, SettleStarts
<1>9. CASE UNCHANGED background
    BY <1>1, <1>9
<1> QED
    BY <1>2, <1>3, <1>4, <1>5, <1>6, <1>7, <1>8, <1>9, Steps
    DEF ReminderStarts, ReminderChecks, ReminderStores, ReminderMails, ReminderCompletes,
        ReminderFails, CancelEvent, JobRemovesReminder, JobCompletes, JobFails, vars

\* The reminder job is queued once and keeps to its attempts.
LEMMA RemindersStep ==
    ASSUME Fields, Reminders, [Next]_vars
    PROVE  Reminders'
<1> USE AttemptsAssumption DEF Fields, Reminders
<1>1. /\ background["schedule"].started \in Nat
      /\ background["refund"].started \in Nat
    BY DEF Tasks
<1>2. /\ background'["schedule"].started \in Nat
      /\ background'["refund"].started \in Nat
    BY FieldsStep DEF Tasks
<1>3. CASE Settle
    BY <1>1, <1>2, <1>3, SettleStarts DEF Settle
<1>4. CASE ScheduleReminder
    <2>1. Finish("schedule", "started")
        BY <1>4 DEF ScheduleReminder
    <2>2. /\ background["schedule"].started > 0
          /\ background'["schedule"].started = background["schedule"].started - 1
        BY <2>1, FinishOne DEF Tasks
    <2>3. order # "PENDING"
        BY <1>1, <2>2
    <2> QED
        BY <1>1, <1>2, <1>4, <2>2, <2>3 DEF ScheduleReminder
<1>5. CASE Refund
    <2>1. Finish("refund", "started")
        BY <1>5 DEF Refund
    <2>2. background["refund"].started > 0
        BY <2>1, FinishOne DEF Tasks
    <2>3. order # "PENDING"
        BY <1>1, <2>2
    <2> QED
        BY <1>1, <1>2, <1>5, <2>3, TaskStep DEF Refund, Settle
<1>6. CASE ReminderStarts
    BY <1>1, <1>6 DEF ReminderStarts
<1>7. CASE ReminderChecks
    BY <1>1, <1>7 DEF ReminderChecks
<1>8. CASE ReminderStores
    BY <1>1, <1>8 DEF ReminderStores
<1>9. CASE ReminderMails \/ ReminderCompletes
    BY <1>1, <1>9 DEF ReminderMails, ReminderCompletes
<1>10. CASE ReminderFails
    BY <1>1, <1>10 DEF ReminderFails, AttemptsLeft
<1>11. CASE JobRemovesReminder
    BY <1>1, <1>11 DEF JobRemovesReminder
<1>12. CASE UNCHANGED <<order, reminderJob, attemptsMade>>
    BY <1>1, <1>2, <1>12, TaskStep DEF Settle
<1> QED
    BY <1>3, <1>4, <1>5, <1>6, <1>7, <1>8, <1>9, <1>10, <1>11, <1>12, Steps
    DEF CancelEvent, JobStartsRefunds, JobNotifies, JobCompletes, JobFails,
        StoreNotification, MailNotification, TaskFails, vars

\* The cancellation job keeps to its attempts.
LEMMA CancellationsStep ==
    ASSUME Fields, Cancellations, [Next]_vars
    PROVE  Cancellations'
<1> USE AttemptsAssumption DEF Fields, Cancellations
<1>1. CASE CancelEvent
    BY <1>1 DEF CancelEvent
<1>2. CASE JobStartsRefunds
    BY <1>2 DEF JobStartsRefunds
<1>3. CASE JobRemovesReminder
    BY <1>3 DEF JobRemovesReminder
<1>4. CASE JobNotifies
    BY <1>4 DEF JobNotifies
<1>5. CASE JobCompletes
    BY <1>5 DEF JobCompletes
<1>6. CASE JobFails
    BY <1>6 DEF JobFails
<1>7. CASE UNCHANGED <<event, cancelJob, cancelAttempts>>
    BY <1>7
<1> QED
    BY <1>1, <1>2, <1>3, <1>4, <1>5, <1>6, <1>7, Steps
    DEF Settle, ScheduleReminder, ReminderStarts, ReminderChecks, ReminderStores,
        ReminderMails, ReminderCompletes, ReminderFails, Refund, StoreNotification,
        MailNotification, TaskFails, vars

\* A mail is sent only by a task or an attempt that has stored its row before,
\* and each row lets out one mail.
LEMMA RowsFirstStep ==
    ASSUME Fields, RowsFirst, [Next]_vars
    PROVE  RowsFirst'
<1> USE DEF RowsFirst
<1>1. /\ \A y \in Types : inbox[y] \in Nat /\ mails[y] \in Nat
      /\ background["confirmation"].stored \in Nat
      /\ background["notice"].stored \in Nat
    BY DEF Fields, Tasks
<1>2. /\ \A y \in Types : inbox'[y] \in Nat /\ mails'[y] \in Nat
      /\ background'["confirmation"].stored \in Nat
      /\ background'["notice"].stored \in Nat
    BY FieldsStep DEF Fields, Tasks
<1>3. CASE ReminderStores
    <2>1. /\ inbox' = [inbox EXCEPT !["event_reminder"] = @ + 1]
          /\ UNCHANGED <<background, mails>>
        BY <1>3 DEF ReminderStores, Stores
    <2>2. /\ inbox'["event_reminder"] = inbox["event_reminder"] + 1
          /\ inbox'["booking_confirmed"] = inbox["booking_confirmed"]
          /\ inbox'["event_cancelled"] = inbox["event_cancelled"]
        BY <2>1 DEF Fields, Types
    <2> QED
        BY <1>1, <2>1, <2>2 DEF Types
<1>4. CASE ReminderMails
    <2>1. /\ mails' = [mails EXCEPT !["event_reminder"] = @ + 1]
          /\ UNCHANGED <<background, inbox>>
          /\ reminderJob = "stored"
          /\ reminderJob' = "returned"
        BY <1>4 DEF ReminderMails, Mails
    <2>2. /\ mails'["event_reminder"] = mails["event_reminder"] + 1
          /\ mails'["booking_confirmed"] = mails["booking_confirmed"]
          /\ mails'["event_cancelled"] = mails["event_cancelled"]
        BY <2>1 DEF Fields, Types
    <2> QED
        BY <1>1, <2>1, <2>2 DEF Types
<1>5. CASE \E n \in {<<"confirmation", "booking_confirmed">>, <<"notice", "event_cancelled">>} :
                StoreNotification(n[1], n[2]) \/ MailNotification(n[1], n[2])
    <2>1. UNCHANGED reminderJob
        BY <1>5 DEF StoreNotification, MailNotification
    <2>2. CASE StoreNotification("confirmation", "booking_confirmed")
        BY <1>1, <2>1, <2>2, StoreMoves DEF Tasks, Types, StoreNotification
    <2>3. CASE StoreNotification("notice", "event_cancelled")
        BY <1>1, <2>1, <2>3, StoreMoves DEF Tasks, Types, StoreNotification
    <2>4. CASE MailNotification("confirmation", "booking_confirmed")
        BY <1>1, <2>1, <2>4, MailMoves DEF Tasks, Types, MailNotification
    <2>5. CASE MailNotification("notice", "event_cancelled")
        BY <1>1, <2>1, <2>5, MailMoves DEF Tasks, Types, MailNotification
    <2> QED
        BY <1>5, <2>2, <2>3, <2>4, <2>5
<1>6. CASE \E task \in Tasks : TaskFails(task)
    <2>1. PICK task \in Tasks, stage \in {"started", "stored"} :
              Finish(task, stage) /\ UNCHANGED <<reminderJob, inbox, mails>>
        BY <1>6 DEF TaskFails
    <2>2. /\ background'["confirmation"].stored <= background["confirmation"].stored
          /\ background'["notice"].stored <= background["notice"].stored
        BY <1>1, <2>1, FinishOne DEF Tasks
    <2> QED
        BY <1>1, <1>2, <2>1, <2>2 DEF Types
<1>7. ASSUME \/ ScheduleReminder \/ Settle \/ Refund \/ JobStartsRefunds \/ JobNotifies
             \/ UNCHANGED background
      PROVE  /\ background'["confirmation"].stored = background["confirmation"].stored
             /\ background'["notice"].stored = background["notice"].stored
    <2>1. CASE ScheduleReminder
        BY <2>1, FinishOne DEF ScheduleReminder, Tasks
    <2>2. CASE Settle
        BY <2>2, SettleStarts DEF Tasks
    <2>3. CASE Refund
        BY <2>3, FinishOne DEF Refund, Tasks
    <2>4. CASE JobStartsRefunds
        BY <2>4, StartOne DEF JobStartsRefunds, Tasks
    <2>5. CASE JobNotifies
        BY <2>5, StartOne DEF JobNotifies, Tasks
    <2>6. CASE UNCHANGED background
        BY <2>6
    <2> QED
        BY <1>7, <2>1, <2>2, <2>3, <2>4, <2>5, <2>6
<1>8. CASE /\ UNCHANGED <<inbox, mails>>
           /\ reminderJob' = "stored" => reminderJob = "stored"
           /\ \/ ScheduleReminder \/ Settle \/ Refund \/ JobStartsRefunds \/ JobNotifies
              \/ UNCHANGED background
    BY <1>1, <1>7, <1>8 DEF Types
<1> QED
    BY <1>3, <1>4, <1>5, <1>6, <1>8, Steps
    DEF Settle, ScheduleReminder, ReminderStarts, ReminderChecks, ReminderCompletes,
        ReminderFails, CancelEvent, JobStartsRefunds, Refund, JobRemovesReminder, JobNotifies,
        JobCompletes, JobFails, vars

\* Once the event is cancelled, "checked" is left for good by the one attempt
\* that was there, whichever way it goes.
LEMMA LastReminderStep ==
    ASSUME Fields, LastReminder, [Next]_vars
    PROVE  LastReminder'
<1> USE DEF Fields, LastReminder
<1>1. CASE ReminderStores
    BY <1>1 DEF ReminderStores
<1>2. CASE ReminderChecks
    BY <1>2 DEF ReminderChecks, StillWanted
<1>3. CASE CancelEvent
    BY <1>3 DEF CancelEvent
<1>4. CASE /\ UNCHANGED <<event, lateReminders>>
           /\ reminderJob' = "checked" => reminderJob = "checked"
    BY <1>4
<1> QED
    BY <1>1, <1>2, <1>3, <1>4, Steps
    DEF Settle, ScheduleReminder, ReminderStarts, ReminderMails, ReminderCompletes,
        ReminderFails, JobStartsRefunds, Refund, JobRemovesReminder, JobNotifies, JobCompletes,
        JobFails, StoreNotification, MailNotification, TaskFails, vars

\* A second confirmation would need a second settlement, a second reminder or
\* notice another attempt of its job.
LEMMA RepeatsStep ==
    ASSUME Fields, Reminders, Cancellations, Repeats, [Next]_vars
    PROVE  Repeats'
<1> USE DEF Repeats
<1>1. /\ \A y \in Types : inbox[y] \in Nat /\ inbox'[y] \in Nat
      /\ background["confirmation"].started \in Nat /\ background["notice"].started \in Nat
      /\ background'["confirmation"].started \in Nat /\ background'["notice"].started \in Nat
      /\ attemptsMade \in Nat /\ cancelAttempts \in Nat
    BY FieldsStep DEF Fields, Tasks
<1>2. CASE Settle
    <2>1. /\ order = "PENDING" /\ order' = "PAID"
          /\ UNCHANGED <<inbox, reminderJob, attemptsMade, cancelJob, cancelAttempts>>
        BY <1>2 DEF Settle
    <2> QED
        BY <1>1, <1>2, <2>1, SettleStarts DEF Types
<1>3. CASE ReminderStarts
    BY <1>1, <1>3 DEF ReminderStarts, Types
<1>4. CASE ReminderStores
    <2>1. /\ inbox'["event_reminder"] = inbox["event_reminder"] + 1
          /\ inbox'["booking_confirmed"] = inbox["booking_confirmed"]
          /\ inbox'["event_cancelled"] = inbox["event_cancelled"]
        BY <1>4 DEF ReminderStores, Stores, Fields, Types
    <2>2. /\ reminderJob = "checked" /\ reminderJob' = "stored"
          /\ UNCHANGED <<order, background, attemptsMade, cancelJob, cancelAttempts>>
        BY <1>4 DEF ReminderStores
    <2> QED
        BY <1>1, <2>1, <2>2 DEF Types
<1>5. CASE CancelEvent
    <2>1. /\ cancelJob = "none" /\ cancelJob' = "refunds"
          /\ UNCHANGED <<order, background, inbox, reminderJob, attemptsMade, cancelAttempts>>
        BY <1>5 DEF CancelEvent, Cancellations
    <2> QED
        BY <1>1, <2>1 DEF Types
<1>6. CASE JobNotifies
    <2>1. /\ cancelJob = "notify" /\ cancelJob' = "notified"
          /\ UNCHANGED <<order, inbox, reminderJob, attemptsMade, cancelAttempts>>
        BY <1>6 DEF JobNotifies
    <2>2. /\ background'["confirmation"].started = background["confirmation"].started
          /\ background'["notice"].started <= background["notice"].started + 1
        BY <1>1, <1>6, StartOne DEF JobNotifies, Tasks
    <2> QED
        BY <1>1, <2>1, <2>2 DEF Types
<1>7. CASE JobFails
    <2>1. /\ cancelAttempts' = cancelAttempts + 1 /\ cancelJob' \in {"refunds", "ended"}
          /\ UNCHANGED <<order, background, inbox, reminderJob, attemptsMade>>
        BY <1>7 DEF JobFails
    <2> QED
        BY <1>1, <2>1 DEF Types
<1>8. ASSUME NEW n \in {<<"confirmation", "booking_confirmed">>, <<"notice", "event_cancelled">>},
             StoreNotification(n[1], n[2])
      PROVE  Repeats'
    <2>1. UNCHANGED <<order, reminderJob, attemptsMade, cancelJob, cancelAttempts>>
        BY <1>8 DEF StoreNotification
    <2>2. background[n[1]].started > 0
        BY <1>8 DEF StoreNotification
    <2>3. CASE n = <<"confirmation", "booking_confirmed">>
        <3>1. StoreNotification("confirmation", "booking_confirmed")
            BY <1>8, <2>3
        <3>2. /\ background'["confirmation"].started = background["confirmation"].started - 1
              /\ background'["notice"].started = background["notice"].started
              /\ inbox'["booking_confirmed"] = inbox["booking_confirmed"] + 1
              /\ inbox'["event_reminder"] = inbox["event_reminder"]
              /\ inbox'["event_cancelled"] = inbox["event_cancelled"]
            BY <3>1, StoreMoves DEF Tasks, Types
        <3> QED
            BY <1>1, <2>1, <2>2, <2>3, <3>2 DEF Types
    <2>4. CASE n = <<"notice", "event_cancelled">>
        <3>1. StoreNotification("notice", "event_cancelled")
            BY <1>8, <2>4
        <3>2. /\ background'["notice"].started = background["notice"].started - 1
              /\ background'["confirmation"].started = background["confirmation"].started
              /\ inbox'["event_cancelled"] = inbox["event_cancelled"] + 1
              /\ inbox'["event_reminder"] = inbox["event_reminder"]
              /\ inbox'["booking_confirmed"] = inbox["booking_confirmed"]
            BY <3>1, StoreMoves DEF Tasks, Types
        <3> QED
            BY <1>1, <2>1, <2>2, <2>4, <3>2 DEF Types
    <2> QED
        BY <2>3, <2>4
<1>9. CASE /\ UNCHANGED <<inbox, attemptsMade, cancelAttempts>>
           /\ order' = "PENDING" => order = "PENDING"
           /\ reminderJob' \in {"active", "checked"} => reminderJob \in {"active", "checked"}
           /\ cancelJob \in {"notified", "ended"} => cancelJob' \in {"notified", "ended"}
           /\ background'["confirmation"].started <= background["confirmation"].started
           /\ background'["notice"].started <= background["notice"].started
    BY <1>1, <1>9 DEF Types
<1>10. ASSUME NEW task \in Tasks, NEW stage \in {"started", "stored"}, Finish(task, stage)
       PROVE  /\ background'["confirmation"].started <= background["confirmation"].started
              /\ background'["notice"].started <= background["notice"].started
    BY <1>1, <1>10, FinishOne DEF Tasks
<1>11. CASE \/ ScheduleReminder \/ Refund \/ (\E task \in Tasks : TaskFails(task))
            \/ \E n \in {<<"confirmation", "booking_confirmed">>, <<"notice", "event_cancelled">>} :
                   MailNotification(n[1], n[2])
    <2>1. /\ background'["confirmation"].started <= background["confirmation"].started
          /\ background'["notice"].started <= background["notice"].started
        BY <1>10, <1>11 DEF ScheduleReminder, Refund, TaskFails, MailNotification, Tasks
    <2> QED
        BY <1>9, <1>11, <2>1 DEF ScheduleReminder, Refund, TaskFails, MailNotification
<1>12. CASE JobStartsRefunds
    <2>1. /\ background'["confirmation"].started <= background["confirmation"].started
          /\ background'["notice"].started <= background["notice"].started
        BY <1>1, <1>12, StartOne DEF JobStartsRefunds, Tasks
    <2> QED
        BY <1>9, <1>12, <2>1 DEF JobStartsRefunds
<1>13. CASE \/ ReminderChecks \/ ReminderMails \/ ReminderCompletes \/ ReminderFails
            \/ JobRemovesReminder \/ JobCompletes \/ UNCHANGED vars
    BY <1>1, <1>9, <1>13 DEF ReminderChecks, ReminderMails, ReminderCompletes, ReminderFails,
                             JobRemovesReminder, JobCompletes, vars
<1> QED
    BY <1>2, <1>3, <1>4, <1>5, <1>6, <1>7, <1>8, <1>11, <1>12, <1>13, Steps

\* The invariant is inductive.
LEMMA NotifyInvInductive == Spec => []NotifyInv
<1>1. Init => NotifyInv
    <2> SUFFICES ASSUME Init PROVE NotifyInv
        OBVIOUS
    <2>1. Reminders /\ Cancellations
        BY AttemptsAssumption DEF Init, Reminders, Cancellations, Tasks
    <2>2. RowsFirst /\ LastReminder
        BY DEF Init, RowsFirst, LastReminder, Tasks, Types
    <2>3. Repeats
        BY DEF Init, Repeats, Tasks, Types
    <2> QED
        BY <2>1, <2>2, <2>3, FieldsInit DEF NotifyInv
<1>2. NotifyInv /\ [Next]_vars => NotifyInv'
    BY FieldsStep, RemindersStep, CancellationsStep, RowsFirstStep, LastReminderStep, RepeatsStep
    DEF NotifyInv
<1> QED
    BY <1>1, <1>2, PTL DEF Spec

\* Types: the bounds on the attempts of both jobs and on the late reminders are
\* kept although nothing but the code's own counting limits them.
THEOREM NotificationsTypeCorrect == Spec => []NotificationsTypeOK
<1>1. NotifyInv => NotificationsTypeOK
    BY AttemptsAssumption DEF NotifyInv, Fields, Reminders, Cancellations, LastReminder,
       NotificationsTypeOK
<1> QED
    BY <1>1, NotifyInvInductive, PTL

\* However many attempts fail and however many tasks are lost between a row and
\* its mail, no mail goes out without a row in the inbox.
THEOREM MailsAreStored == Spec => []MailedIsStored
<1>1. NotifyInv => MailedIsStored
    <2> SUFFICES ASSUME NotifyInv PROVE MailedIsStored
        OBVIOUS
    <2>1. /\ \A y \in Types : inbox[y] \in Nat /\ mails[y] \in Nat
          /\ background["confirmation"].stored \in Nat
          /\ background["notice"].stored \in Nat
        BY DEF NotifyInv, Fields, Tasks
    <2> QED
        BY <2>1 DEF NotifyInv, RowsFirst, MailedIsStored, Types
<1> QED
    BY <1>1, NotifyInvInductive, PTL

\* However often a payment is settled again and a job retried, also after the
\* mail of the failed attempt went out: there is one confirmation, and a message
\* for each attempt at most.
THEOREM RepeatsHaveRetries == Spec => []RepeatsAreRetries
<1>1. NotifyInv => RepeatsAreRetries
    <2> SUFFICES ASSUME NotifyInv PROVE RepeatsAreRetries
        OBVIOUS
    <2>1. /\ \A y \in Types : inbox[y] \in Nat
          /\ background["confirmation"].started \in Nat
          /\ background["notice"].started \in Nat
          /\ attemptsMade \in Nat /\ cancelAttempts \in Nat
        BY DEF NotifyInv, Fields, Tasks
    <2> QED
        BY <2>1 DEF NotifyInv, Repeats, RepeatsAreRetries, Types
<1> QED
    BY <1>1, NotifyInvInductive, PTL

\* For any number of attempts of the reminder and of the cancellation job, at
\* most the reminder that had passed its check slips through.
THEOREM OneLateReminder == Spec => []AtMostOneLateReminder
<1>1. NotifyInv => AtMostOneLateReminder
    BY DEF NotifyInv, Fields, LastReminder, AtMostOneLateReminder
<1> QED
    BY <1>1, NotifyInvInductive, PTL
=============================================================================
