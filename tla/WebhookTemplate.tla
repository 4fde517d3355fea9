-------------------------- MODULE WebhookTemplate --------------------------
(***************************************************************************)
(* The rendering of a webhook body (src/unnamed/part_000, the template     *)
(* file): executeTemplateForBody, executeTemplate and the helpers a body   *)
(* template calls on one string field of WebhookTemplateData.              *)
(*                                                                         *)
(* A body is a plain string template, or a JSON object whose string values *)
(* are templates. The latter is json.Marshal'ed, the JSON text is run as a *)
(* template, and the result must json.Unmarshal again. The model follows   *)
(* one string value of such an object: the text between its quotes.       *)
(*                                                                         *)
(* Text is a sequence of characters drawn from five classes that JSON      *)
(* treats differently: "x" (a plain character), "lt" ('<', which           *)
(* json.Marshal writes as \u003c), "q" ('"'), "bs" ('\') and "nl" (a     *)
(* newline, a control character). In JSON text a backslash is followed by *)
(* an escape letter: "q", "bs", "n" or "u003c".                            *)
(***************************************************************************)
EXTENDS Integers, Sequences

LOCAL SeqExt == INSTANCE SequencesExt

CONSTANTS
    Bodies,     \* the body templates a definition may have (see Body)
    Values      \* the values the template's data field may take

Char == {"x", "lt", "q", "bs", "nl"}

(***************************************************************************)
(* The actions a body template uses on the field (.Error, .Stdout, ...):   *)
(*   "field"          {{.Error}}                                           *)
(*   "escaped"        {{.Error | jsonEscape}}                              *)
(*   "encoded"        {{json .Error}}                                      *)
(*   "defaultQuoted"  {{.Error | default "x"}}                             *)
(*   "defaultRaw"     {{.Error | default `x`}}                             *)
(***************************************************************************)
Action == {"field", "escaped", "encoded", "defaultQuoted", "defaultRaw"}

\* A template: literal text and actions, in order.
Segment == [kind: {"text"}, chars: Seq(Char)] \cup [kind: {"action"}, act: Action]

\* A body: form "string" (a JSON string) or "object" (a JSON object).
Body == [form: {"string", "object"}, segments: Seq(Segment)]

ASSUME Bodies \subseteq Body /\ Values \subseteq Seq(Char)

VARIABLES
    body,       \* the definition's body
    value,      \* the field's value in the execution snapshot
    result,     \* "pending", then "ok", "parse_error" or "invalid_json"
    bytes       \* the rendered body

vars == <<body, value, result, bytes>>

\* json.Marshal of one character inside a JSON string (HTML escaping on).
MarshalChar(c) ==
    CASE c = "q"  -> <<"bs", "q">>
      [] c = "bs" -> <<"bs", "bs">>
      [] c = "nl" -> <<"bs", "n">>
      [] c = "lt" -> <<"bs", "u003c">>
      [] OTHER    -> <<c>>

\* The characters of a marshalled string, without its quotes.
MarshalChars(s) == SeqExt!FlattenSeq([k \in DOMAIN s |-> MarshalChar(s[k])])

\* jsonEncode of a string: json.Marshal, quotes included.
JsonEncode(s) == <<"q">> \o MarshalChars(s) \o <<"q">>

\* Mutant: the closing quote is kept (result[1:len(result)]).
JsonEscapeStringKeepsQuote(s) ==
    LET r == JsonEncode(s) IN IF Len(r) >= 2 THEN SubSeq(r, 2, Len(r)) ELSE r

\* jsonEscapeString: json.Marshal, then the surrounding quotes removed.
JsonEscapeString(s) ==
    LET r == JsonEncode(s) IN IF Len(r) >= 2 THEN SubSeq(r, 2, Len(r) - 1) ELSE r

\* The fallback both default actions pass.
Fallback == <<"x">>

\* defaultValue
DefaultValue(defaultVal, v) == IF v = << >> THEN defaultVal ELSE v

\* What an action writes, through webhookFuncMap.
Output(a, v) ==
    CASE a = "field"   -> v
      [] a = "escaped" -> JsonEscapeString(v)
      [] a = "encoded" -> JsonEncode(v)
      [] OTHER         -> DefaultValue(Fallback, v)

\* Template execution: text is copied, every action writes its output.
ExecuteTemplate(segs, v) ==
    SeqExt!FlattenSeq([k \in DOMAIN segs |->
        IF segs[k].kind = "text" THEN segs[k].chars ELSE Output(segs[k].act, v)])

\* json.Marshal turns the quotes of a string argument into \" inside the
\* action, which the template lexer rejects.
SurvivesMarshal(seg) == seg.kind = "text" \/ seg.act # "defaultQuoted"

\* The template json.Marshal makes of an object's string value.
Marshalled(segs) ==
    [k \in DOMAIN segs |->
        IF segs[k].kind = "text"
          THEN [segs[k] EXCEPT !.chars = MarshalChars(@)] ELSE segs[k]]

(***************************************************************************)
(* json.Unmarshal of the text between a string's quotes: ok is FALSE for a *)
(* raw quote (the string ends early and what follows is not JSON), a raw  *)
(* control character or a backslash without an escape letter; val is the *)
(* decoded string.                                                         *)
(***************************************************************************)
RECURSIVE Unquote(_)
Unquote(s) ==
    IF s = << >> THEN [ok |-> TRUE, val |-> << >>]
    ELSE IF Head(s) \in {"q", "nl"} THEN [ok |-> FALSE, val |-> << >>]
    ELSE IF Head(s) = "bs"
      THEN IF Len(s) >= 2 /\ s[2] \in {"q", "bs", "n", "u003c"}
             THEN LET c == CASE s[2] = "n" -> "nl" [] s[2] = "u003c" -> "lt"
                                [] OTHER -> s[2]
                      rest == Unquote(SubSeq(s, 3, Len(s)))
                  IN  [rest EXCEPT !.val = <<c>> \o @]
             ELSE [ok |-> FALSE, val |-> << >>]
    ELSE LET rest == Unquote(Tail(s)) IN [rest EXCEPT !.val = <<Head(s)>> \o @]

(***************************************************************************)
(* executeTemplateForBody. A string is executed as it is. An object is     *)
(* marshalled, parsed (a parse error returns), executed, and the result   *)
(* must unmarshal ("template resulted in invalid JSON" otherwise).        *)
(***************************************************************************)
ExecuteTemplateForBody(b, v) ==
    IF b.form = "string"
      THEN [result |-> "ok", bytes |-> ExecuteTemplate(b.segments, v)]
    ELSE IF \E k \in DOMAIN b.segments : ~SurvivesMarshal(b.segments[k])
      THEN [result |-> "parse_error", bytes |-> << >>]
    ELSE LET r == ExecuteTemplate(Marshalled(b.segments), v)
         IN  IF Unquote(r).ok THEN [result |-> "ok", bytes |-> r]
                              ELSE [result |-> "invalid_json", bytes |-> << >>]

Init ==
    /\ body \in Bodies
    /\ value \in Values
    /\ result = "pending"
    /\ bytes = << >>

\* The goroutine renders the body of its definition on the snapshot.
Render ==
    /\ result = "pending"
    /\ LET r == ExecuteTemplateForBody(body, value)
       IN  result' = r.result /\ bytes' = r.bytes
    /\ UNCHANGED <<body, value>>

Spec == Init /\ [][Render]_vars

-----------------------------------------------------------------------------
(***************************************************************************)
(* Properties                                                             *)
(***************************************************************************)

\* What an object value's template means: its text, and the field's value
\* (or the fallback) where an action stands.
Intended(segs, v) ==
    SeqExt!FlattenSeq([k \in DOMAIN segs |->
        IF segs[k].kind = "text" THEN segs[k].chars
        ELSE IF segs[k].act \in {"defaultQuoted", "defaultRaw"}
               THEN DefaultValue(Fallback, v) ELSE v])

ObjectActions == {body.segments[k].act : k \in {k \in DOMAIN body.segments :
                                                  body.segments[k].kind = "action"}}

(***************************************************************************)
(* docs/webhooks.md: jsonEscape makes a value safe inside a JSON string.    *)
(* An object body whose actions all pass the field through jsonEscape      *)
(* renders, whatever the field holds (quotes, backslashes, newlines, '<'), *)
(* and the value it sends decodes to exactly the text and the field's      *)
(* value.                                                                  *)
(***************************************************************************)
EscapedValuesRoundTrip ==
    /\ result # "pending"
    /\ body.form = "object"
    /\ ObjectActions \subseteq {"escaped"}
    => /\ result = "ok"
       /\ Unquote(bytes).val = Intended(body.segments, value)

(***************************************************************************)
(* spec.md 4.2: an object body is re-parsed after rendering to protect      *)
(* against values that break the JSON. Stated as: an object body that      *)
(* renders decodes to exactly what its template says, so the check lets    *)
(* nothing through that changes the content.                               *)
(***************************************************************************)
ValidatedBodyFaithful ==
    result = "ok" /\ body.form = "object"
    => Unquote(bytes).val = Intended(body.segments, value)

(***************************************************************************)
(* docs/webhooks.md puts {{.Field}}, {{.Field | jsonEscape}} and           *)
(* {{.Error | default ""}} in object bodies. On plain values, an object    *)
(* body built from these actions renders.                                  *)
(***************************************************************************)
DocumentedHelpersRender ==
    /\ result # "pending"
    /\ body.form = "object"
    /\ ObjectActions \subseteq {"field", "escaped", "defaultQuoted"}
    /\ \A k \in DOMAIN value : value[k] = "x"
    => result = "ok"

=============================================================================
