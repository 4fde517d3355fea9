------------------------- MODULE MC_WebhookLoader -------------------------
(***************************************************************************)
(* Model-checking instances of WebhookLoader.                             *)
(***************************************************************************)
EXTENDS WebhookLoader

CONSTANTS a, b

\* Valid entries over two names, two priorities and both backoff outcomes,
\* and one entry of each validation error (no url, no type, an unknown
\* type).
MCValidEntries ==
    [name: {a, b}, type: {"error"}, active: {TRUE}, hasURL: {TRUE}, priority: {0, 1},
     backoffParses: BOOLEAN, timeout: {0}]

MCEntries ==
    MCValidEntries \cup
    {[name |-> a, type |-> "error", active |-> TRUE, hasURL |-> FALSE, priority |-> 0,
      backoffParses |-> TRUE, timeout |-> 0],
     [name |-> a, type |-> "", active |-> TRUE, hasURL |-> TRUE, priority |-> 0,
      backoffParses |-> TRUE, timeout |-> 0],
     [name |-> a, type |-> "bogus", active |-> TRUE, hasURL |-> TRUE, priority |-> 0,
      backoffParses |-> TRUE, timeout |-> 0]}

\* A missing file, an unparsable one, and every list of up to three entries.
MCFiles ==
    {[exists |-> FALSE, parses |-> FALSE, webhooks |-> <<>>],
     [exists |-> TRUE, parses |-> FALSE, webhooks |-> <<>>]}
    \cup {[exists |-> TRUE, parses |-> TRUE, webhooks |-> w] :
            w \in UNION {[1..n -> MCEntries] : n \in 0..3}}

\* The file of TestParseWebhookConfigFile: two entries, priorities 100 and
\* 200, each with a url and a body, neither with a type or "active".
MCTestFiles ==
    {[exists |-> TRUE, parses |-> TRUE,
      webhooks |-> <<[name |-> a, type |-> "", active |-> FALSE, hasURL |-> TRUE,
                      priority |-> 100, backoffParses |-> TRUE, timeout |-> 0],
                     [name |-> b, type |-> "", active |-> FALSE, hasURL |-> TRUE,
                      priority |-> 200, backoffParses |-> TRUE, timeout |-> 0]>>]}

=============================================================================
