SPECIFICATION Spec
CONSTANTS
    MaxAttempts = 5
    MaxCancelAttempts = 3
INVARIANTS NotificationsTypeOK MailedIsStored RepeatsAreRetries AtMostOneLateReminder
CHECK_DEADLOCK FALSE
