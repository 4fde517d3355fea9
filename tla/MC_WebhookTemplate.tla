------------------------- MODULE MC_WebhookTemplate -------------------------
(***************************************************************************)
(* Model-checking instances of WebhookTemplate.                           *)
(***************************************************************************)
EXTENDS WebhookTemplate

\* Every field value of up to two characters.
MCValues == UNION {[1..n -> Char] : n \in 0..2}

\* Literal text with a plain character, a quote or a '<', and every action.
MCSegments ==
    {[kind |-> "text", chars |-> <<c>>] : c \in {"x", "q", "lt"}}
    \cup [kind: {"action"}, act: Action]

\* Every string and object body of up to two segments.
MCBodies ==
    [form: {"string", "object"},
     segments: UNION {[1..n -> MCSegments] : n \in 0..2}]

=============================================================================
