------------------------ MODULE MC_WebhookDelivery ------------------------
(***************************************************************************)
(* Model-checking instances of WebhookDelivery.                           *)
(***************************************************************************)
EXTENDS WebhookDelivery

\* Settings the loader can produce for one definition, over both spawning
\* paths. A global Webhook exists only if its backoff parsed (otherwise
\* LoadWebhookMiddlewares skipped it); a timeout of 0 became 10.
ConfigsWith(retryCounts, timeouts) ==
    { c \in [kind: {"global", "perjob"}, retryCount: retryCounts,
             backoff: {1}, backoffParses: BOOLEAN, timeout: timeouts,
             renders: BOOLEAN, requestBuilds: BOOLEAN] :
        c.kind = "global" => c.backoffParses }

\* Valid retry counts (0 is the default) and the default timeout.
MCConfigs == ConfigsWith({0, 2}, {10})

\* retry.count is not validated: a file may say -1.
MCNegativeRetryConfigs == ConfigsWith({-1}, {10})

=============================================================================
