--------------------------- MODULE WebhookLoader ---------------------------
(***************************************************************************)
(* LoadWebhookMiddlewares and parseWebhookConfigFile (webhook_config.go,   *)
(* src/unnamed/part_000): read the webhook file once at start-up, validate *)
(* it, apply defaults, sort by priority, register every definition by     *)
(* name and build a global middleware for each one whose Webhook can be   *)
(* built.                                                                  *)
(*                                                                         *)
(* The file is the input and is fixed for a behaviour; the loader is      *)
(* sequential, so its steps are the loop iterations of the code.          *)
(***************************************************************************)
EXTENDS Integers, Sequences, TLC

LOCAL SeqExt == INSTANCE SequencesExt

CONSTANTS
    Names,      \* the values of the "name" field
    Files       \* the webhook files the loader may find (see File)

(***************************************************************************)
(* One entry of "webhooks", reduced to the fields the loader reads:       *)
(*   hasURL        "url" is not empty                                      *)
(*   type          "type" as written, "" when absent                       *)
(*   active        "active", false when absent                             *)
(*   backoffParses time.ParseDuration accepts "retry.backoff" (or absent)  *)
(*   timeout       "timeout" in seconds, 0 when absent                     *)
(* method and headers get defaults too, but nothing downstream reads them  *)
(* from this model.                                                        *)
(***************************************************************************)
Entry == [name: Names, type: {"error", "info", "all", "", "bogus"},
          active: BOOLEAN, hasURL: BOOLEAN, priority: Int,
          backoffParses: BOOLEAN, timeout: Int]

\* exists: os.Stat finds the file; parses: it is read and is JSON of the
\* WebhooksFile shape.
File == [exists: BOOLEAN, parses: BOOLEAN, webhooks: Seq(Entry)]

ASSUME Files \subseteq File

VARIABLES
    file,       \* the webhook file found at configPath
    pc,         \* "start", "register" (the loop over webhookDefs), "done"
    webhookDefs,\* the parsed, defaulted and sorted definitions
    i,          \* the index of the register loop
    registry,   \* WebhookRegistry.webhooks: name -> definition
    chain       \* the middlewares returned, as their definitions, in order

vars == <<file, pc, webhookDefs, i, registry, chain>>

\* validateWebhookType
ValidType(t) == t \in {"error", "info", "all"}

\* The loop of parseWebhookConfigFile returns an error at the first entry
\* without a url, without a type, or with an unknown type.
EntryValid(e) == e.hasURL /\ e.type # "" /\ ValidType(e.type)

\* The defaults parseWebhookConfigFile writes back: a zero timeout becomes
\* defaultTimeout (10s); any other value, negative ones included, stays.
WithDefaults(e) == [e EXCEPT !.timeout = IF @ = 0 THEN 10 ELSE @]

\* parseWebhookConfigFile: ok is FALSE when it returns an error; defs are
\* the defaulted definitions otherwise.
ParseWebhookConfigFile(f) ==
    [ok |-> f.parses /\ \A k \in DOMAIN f.webhooks : EntryValid(f.webhooks[k]),
     defs |-> [k \in DOMAIN f.webhooks |-> WithDefaults(f.webhooks[k])]]

(***************************************************************************)
(* sort.Slice by Priority. Its result among equal priorities is not       *)
(* specified; the Go runtime sorts up to 12 elements by insertion sort    *)
(* (which keeps equal elements in order) and longer slices by pattern-    *)
(* defeating quicksort, whose partitioning may reorder equal elements.    *)
(* The model takes every priority-sorted arrangement for the latter.      *)
(***************************************************************************)
RECURSIVE InsertByPriority(_, _)
InsertByPriority(sorted, e) ==
    IF sorted = <<>> \/ ~(e.priority < sorted[Len(sorted)].priority)
      THEN Append(sorted, e)
      ELSE Append(InsertByPriority(SubSeq(sorted, 1, Len(sorted) - 1), e),
                  sorted[Len(sorted)])

RECURSIVE InsertionSort(_)
InsertionSort(s) ==
    IF s = <<>> THEN s
    ELSE InsertByPriority(InsertionSort(SubSeq(s, 1, Len(s) - 1)), s[Len(s)])

\* The set P of priorities in ascending order.
RECURSIVE Ascending(_)
Ascending(P) ==
    IF P = {} THEN <<>>
    ELSE LET low == CHOOSE p \in P : \A q \in P : p <= q
         IN  <<low>> \o Ascending(P \ {low})

Priorities(s) == Ascending({s[k].priority : k \in DOMAIN s})

\* Every arrangement of s whose priorities do not decrease.
PrioritySortedArrangements(s) ==
    LET ps == Priorities(s)
        group(p) == { [j \in DOMAIN q |-> s[q[j]]] :
                        q \in SeqExt!SetToSeqs({k \in DOMAIN s : s[k].priority = p}) }
        RECURSIVE from(_)
        from(n) == IF n > Len(ps) THEN {<<>>}
                   ELSE { g \o r : g \in group(ps[n]), r \in from(n + 1) }
    IN  from(1)

SortSliceOutcomes(s) ==
    IF Len(s) <= 12 THEN {InsertionSort(s)} ELSE PrioritySortedArrangements(s)

Init ==
    /\ file \in Files
    /\ pc = "start"
    /\ webhookDefs = <<>>
    /\ i = 0
    /\ registry = <<>>
    /\ chain = <<>>

(***************************************************************************)
(* LoadWebhookMiddlewares up to the loop: a missing file, a parse or      *)
(* validation error, or an empty list returns no middlewares and the empty *)
(* registry; otherwise the definitions are sorted by priority.            *)
(***************************************************************************)
LoadFile ==
    /\ pc = "start"
    /\ LET parsed == ParseWebhookConfigFile(file)
       IN  IF ~file.exists \/ ~parsed.ok \/ parsed.defs = <<>>
             THEN /\ pc' = "done"
                  /\ UNCHANGED webhookDefs
             ELSE /\ pc' = "register"
                  /\ webhookDefs' \in SortSliceOutcomes(parsed.defs)
    /\ i' = 1
    /\ UNCHANGED <<file, registry, chain>>

\* Mutant: the definition is registered only if its middleware was built.
RegisterEntryAfterBuild ==
    /\ pc = "register"
    /\ LET def == webhookDefs[i]
       IN  /\ registry' = IF def.backoffParses
                            THEN (def.name :> def) @@ registry ELSE registry
           /\ chain' = IF def.backoffParses THEN Append(chain, def) ELSE chain
    /\ i' = i + 1
    /\ pc' = IF i = Len(webhookDefs) THEN "done" ELSE "register"
    /\ UNCHANGED <<file, webhookDefs>>

(***************************************************************************)
(* One iteration of the loop over webhookDefs: registry.Register(def),     *)
(* which overwrites any definition of the same name; then                 *)
(* NewWebhookFromDefinition, whose error (a backoff that does not parse)  *)
(* skips the middleware but not the registration.                         *)
(***************************************************************************)
RegisterEntry ==
    /\ pc = "register"
    /\ LET def == webhookDefs[i]
       IN  /\ registry' = (def.name :> def) @@ registry
           /\ chain' = IF def.backoffParses THEN Append(chain, def) ELSE chain
    /\ i' = i + 1
    /\ pc' = IF i = Len(webhookDefs) THEN "done" ELSE "register"
    /\ UNCHANGED <<file, webhookDefs>>

Next == LoadFile \/ RegisterEntry

\* Start-up runs to the end.
Spec == Init /\ [][Next]_vars /\ WF_vars(Next)

-----------------------------------------------------------------------------
(***************************************************************************)
(* Properties                                                             *)
(***************************************************************************)

\* Reference: a stable sort by priority, the entries of each priority in
\* file order, priorities ascending.
StableByPriority(s) ==
    LET ps == Priorities(s)
    IN  SeqExt!FlattenSeq([n \in DOMAIN ps |->
                              SelectSeq(s, LAMBDA e : e.priority = ps[n])])

\* Reference: the last entry of s named n.
LastNamed(s, n) ==
    LET ks == {k \in DOMAIN s : s[k].name = n}
    IN  s[CHOOSE k \in ks : \A j \in ks : j <= k]

(***************************************************************************)
(* spec.md 4.1: loading is all-or-nothing, and a loaded file yields the   *)
(* entries stably sorted by priority (equal priorities in file order),    *)
(* every entry registered under its name with the last write winning      *)
(* (also the entries whose middleware could not be built), and a global   *)
(* middleware for exactly the entries whose backoff parses, in that order.*)
(***************************************************************************)
LoadMatchesFile ==
    pc = "done" =>
        LET parsed == ParseWebhookConfigFile(file)
            defs == parsed.defs
        IN  IF file.exists /\ parsed.ok
              THEN LET expected == StableByPriority(defs)
                   IN  /\ chain = SelectSeq(expected, LAMBDA e : e.backoffParses)
                       /\ DOMAIN registry = {defs[k].name : k \in DOMAIN defs}
                       /\ \A n \in DOMAIN registry :
                            registry[n] = LastNamed(expected, n)
              ELSE chain = <<>> /\ DOMAIN registry = {}

(***************************************************************************)
(* webhook_test.go TestParseWebhookConfigFile: a file of entries with a    *)
(* url and no "type" parses without error into all of its definitions     *)
(* (docs/webhooks.md's Quick Start writes its entry the same way, and its *)
(* field table lists no "type"). Once such a file is loaded, every entry  *)
(* is registered under its name.                                          *)
(***************************************************************************)
TypelessEntriesLoad ==
    /\ pc = "done"
    /\ file.exists /\ file.parses
    /\ \A k \in DOMAIN file.webhooks :
         file.webhooks[k].hasURL /\ file.webhooks[k].type = ""
    => DOMAIN registry = {file.webhooks[k].name : k \in DOMAIN file.webhooks}

=============================================================================
