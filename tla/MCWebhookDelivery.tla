--------------------------- MODULE MCWebhookDelivery ---------------------------
(* Four webhooks, which may be retried twice, once, once and never.           *)
EXTENDS WebhookDelivery

CONSTANTS h1, h2, h3, h4

MCWebhook == {h1, h2, h3, h4}
MCRetries == [h \in MCWebhook |-> IF h = h1 THEN 2 ELSE IF h = h4 THEN 0 ELSE 1]
==============================================================================
