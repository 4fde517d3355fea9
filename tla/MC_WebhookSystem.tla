------------------------- MODULE MC_WebhookSystem -------------------------
(***************************************************************************)
(* Model-checking instances of WebhookSystem.                             *)
(***************************************************************************)
EXTENDS WebhookSystem

CONSTANTS a, b

\* Two list slots each for the error list and the info list.
MCTasks == {"error", "info"} \X {1, 2}

MCConfigs == {Unspawned}

\* An entry named n of type ty; valid, priority 0, default timeout.
MCEntry(n, ty, act, parses) ==
    [name |-> n, type |-> ty, active |-> act, hasURL |-> TRUE, priority |-> 0,
     backoffParses |-> parses, timeout |-> 0]

\* A missing file, and every file of one entry a and one entry b whose
\* backoffs are in Parses, over every type and active flag.
FilesWith(Parses) ==
    {[exists |-> FALSE, parses |-> FALSE, webhooks |-> << >>]}
    \cup {[exists |-> TRUE, parses |-> TRUE,
           webhooks |-> <<MCEntry(a, ta, xa, pa), MCEntry(b, tb, xb, pb)>>] :
            ta \in {"error", "info", "all"}, tb \in {"error", "info", "all"},
            xa \in BOOLEAN, xb \in BOOLEAN, pa \in Parses, pb \in Parses}

MCFiles == FilesWith({TRUE})

MCBadBackoffFiles == FilesWith({FALSE})

Tok(n, pad) == [name |-> n, padded |-> pad]

\* "", ["a"], " a ,b", [" a"], ",b" and "a,b".
MCNameSettings ==
    {[form |-> "empty", items |-> << >>],
     [form |-> "json", items |-> <<Tok(a, FALSE)>>],
     [form |-> "csv", items |-> <<Tok(a, TRUE), Tok(b, FALSE)>>],
     [form |-> "json", items |-> <<Tok(a, TRUE)>>],
     [form |-> "csv", items |-> <<Tok("", FALSE), Tok(b, FALSE)>>]}

MCSettings == [errorNames: MCNameSettings, infoNames: MCNameSettings]

=============================================================================
