SPECIFICATION Spec
CONSTANTS
    Cron = {c1}
    Requests = {r1}
    ScheduledFetch = 1
    WebhookFetch = 1
    ManualFetch = 2
    Provider = "anthropic"
    MaxEmails = 2
    MaxFailures = 1
INVARIANT RepliesAreDrafted
CHECK_DEADLOCK FALSE
