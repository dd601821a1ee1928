\* More webhooks than the queue and the permits hold together.
CONSTANTS
    h1 = h1
    h2 = h2
    h3 = h3
    h4 = h4
    NoWebhook = NoWebhook
    Webhook <- MCWebhook
    MaxRetries <- MCRetries
    QueueSize = 1
    MaxConcurrent = 1
    Gated = TRUE
SPECIFICATION FairSpec
 
PROPERTIES EveryWebhookEnds
\* The instance exits.
CHECK_DEADLOCK FALSE
