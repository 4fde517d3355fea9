--------------------------- MODULE WebhookNotify ---------------------------
(***************************************************************************)
(* What the webhook subsystem promises for one job completion (spec.md    *)
(* 4.4, 4.5, 5): once the job's outcome is known, exactly the webhooks    *)
(* whose rules select that outcome are handed to background deliveries,   *)
(* and every delivery handed off eventually finishes.                     *)
(*                                                                         *)
(* A webhook to notify is a task: a definition (Target) reached through a *)
(* source, "global" for a global dispatcher or "error"/"info" for the     *)
(* error-set or info-set of a per-job dispatcher.                         *)
(***************************************************************************)
CONSTANTS
    DefIds,     \* the loaded definitions
    Tasks,      \* the deliveries the dispatchers could start
    Source(_),  \* Source(t) \in {"global", "error", "info"}
    Target(_)   \* Target(t) \in DefIds

\* The fields of a definition that decide whether it fires.
Definition == [type: {"error", "info", "all"}, active: BOOLEAN,
               onlyOnError: BOOLEAN]

VARIABLES
    defs,       \* the definitions, fixed once loaded
    result,     \* "none" while the job runs, then its error: nil/error/skipped
    notified,   \* tasks handed to a background delivery
    finished    \* tasks whose delivery has ended

vars == <<defs, result, notified, finished>>

Failed == result = "error"

(***************************************************************************)
(* The classification rule. A global definition fires when it is active,  *)
(* its type is "all" or names the outcome, and the legacy onlyOnError flag *)
(* does not suppress a job that did not fail. A per-job reference fires   *)
(* when it is active and sits in the set for the outcome.                 *)
(***************************************************************************)
Fires(t) ==
    LET d == defs[Target(t)]
        outcomeType == IF Failed THEN "error" ELSE "info"
    IN  /\ d.active
        /\ IF Source(t) = "global"
             THEN d.type \in {"all", outcomeType} /\ (d.onlyOnError => Failed)
             ELSE Source(t) = outcomeType

Init ==
    /\ defs \in [DefIds -> Definition]
    /\ result = "none"
    /\ notified = {}
    /\ finished = {}

Complete ==
    /\ result = "none"
    /\ result' \in {"nil", "error", "skipped"}
    /\ UNCHANGED <<defs, notified, finished>>

Notify ==
    /\ result # "none"
    /\ \E T \in SUBSET {t \in Tasks \ notified : Fires(t)} :
         /\ T # {}
         /\ notified' = notified \cup T
    /\ UNCHANGED <<defs, result, finished>>

Finish(t) ==
    /\ t \in notified \ finished
    /\ finished' = finished \cup {t}
    /\ UNCHANGED <<defs, result, notified>>

Next == Complete \/ Notify \/ \E t \in Tasks : Finish(t)

(***************************************************************************)
(* Once the job has completed, every selected webhook is handed off and   *)
(* every hand-off ends: neither may be postponed forever. The job itself  *)
(* is the executor's and need not complete.                               *)
(***************************************************************************)
Spec == Init /\ [][Next]_vars /\ WF_vars(Notify)
             /\ \A t \in Tasks : WF_vars(Finish(t))

=============================================================================
