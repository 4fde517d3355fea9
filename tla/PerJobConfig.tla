---------------------------- MODULE PerJobConfig ----------------------------
(***************************************************************************)
(* The construction of a job's PerJobWebhook (webhook_config.go,           *)
(* src/unnamed/part_000): parseWebhookNames reads webhook-error-names and  *)
(* webhook-info-names, and NewWebhookFromConfig resolves every name       *)
(* against the registry. Construction is one synchronous call with no     *)
(* state of its own, so it is an operator from the registry and the two  *)
(* settings to its result.                                                 *)
(***************************************************************************)
EXTENDS Sequences

CONSTANTS
    Names       \* the names a webhook definition may have

(***************************************************************************)
(* One name as written in a setting. A padded name has blanks around it;   *)
(* the empty name is "".                                                   *)
(***************************************************************************)
Token == [name: Names \cup {""}, padded: BOOLEAN]

(***************************************************************************)
(* A setting string: "" (form "empty"), a JSON array of strings (form      *)
(* "json"), or anything else, read as a comma-separated list (form        *)
(* "csv"); items are its elements in the order written.                   *)
(***************************************************************************)
NamesSetting == [form: {"empty", "json", "csv"}, items: Seq(Token)]

\* strings.TrimSpace
Trimmed(tok) == [tok EXCEPT !.padded = FALSE]

(***************************************************************************)
(* parseWebhookNames: nil for ""; the array as written when json.Unmarshal *)
(* accepts it (no trimming, empty names kept); else strings.Split on ","  *)
(* with every part trimmed and empty parts dropped.                       *)
(***************************************************************************)
ParseWebhookNames(s) ==
    CASE s.form = "empty" -> << >>
      [] s.form = "json"  -> s.items
      [] s.form = "csv"   ->
           SelectSeq([k \in DOMAIN s.items |-> Trimmed(s.items[k])],
                     LAMBDA tok : tok.name # "")

\* registry.Get(name) finds a definition: the name matches a key exactly.
Known(registry, tok) == ~tok.padded /\ tok.name \in DOMAIN registry

\* The definitions a list of names resolves to, in order.
Resolve(registry, names) == [k \in DOMAIN names |-> registry[names[k].name]]

\* Mutant: the type of a referenced definition is not checked.
ResolvesIgnoringType(registry, names, types) ==
    \A k \in DOMAIN names : Known(registry, names[k])

\* Every name is known and its definition has one of the types allowed.
ResolvesWithTypes(registry, names, types) ==
    \A k \in DOMAIN names :
        Known(registry, names[k]) /\ registry[names[k].name].type \in types

(***************************************************************************)
(* NewWebhookFromConfig. result "nil": no PerJobWebhook (both settings     *)
(* empty, or both lists empty); "error": an unknown name, or a name in    *)
(* webhook-error-names whose type is not error or all, or one in          *)
(* webhook-info-names whose type is not info or all; "ok": the middleware *)
(* with the resolved lists. An inactive definition is accepted (and only *)
(* logged).                                                                *)
(***************************************************************************)
NewWebhookFromConfig(registry, errorSetting, infoSetting) ==
    LET errorNames == ParseWebhookNames(errorSetting)
        infoNames  == ParseWebhookNames(infoSetting)
        built(r) == [result |-> r,
                     errorWebhooks |-> IF r = "ok" THEN Resolve(registry, errorNames) ELSE << >>,
                     infoWebhooks  |-> IF r = "ok" THEN Resolve(registry, infoNames) ELSE << >>]
    IN  IF errorNames = << >> /\ infoNames = << >>
          THEN built("nil")
        ELSE IF /\ ResolvesWithTypes(registry, errorNames, {"error", "all"})
                /\ ResolvesWithTypes(registry, infoNames, {"info", "all"})
          THEN built("ok")
          ELSE built("error")

=============================================================================
