-------------------------------- MODULE Otlp --------------------------------
(***************************************************************************)
(* The OTLP inlet: otel.Convert, which makes native spans of an export     *)
(* request.  An attribute has a key and a value of one of the OTLP types;  *)
(* what the adapter reads of it is a string, an integer in quotes, or      *)
(* else a double, which is 0 for every other type.                         *)
(***************************************************************************)
EXTENDS Capture, SequencesExt

CONSTANT Atoi      \* strconv.Atoi: the strings that are integers, with their values

NoValue == ""

ASSUME AtoiAssumption ==
    /\ Atoi \in [DOMAIN Atoi -> Int]
    /\ NoValue \notin DOMAIN Atoi /\ "0" \in DOMAIN Atoi /\ Atoi["0"] = 0

Attribute(key, type, value) == [key |-> key, type |-> type, value |-> value]

\* attrs: what is no string and no integer, and an empty one, reads as "0"; the
\* last of two attributes with one key counts.
AttributeValue(a) ==
    IF a.type \in {"string", "int", "double"} /\ a.value # NoValue THEN a.value ELSE "0"
Lookup(list, key) ==
    LET at == {i \in DOMAIN list : list[i].key = key}
    IN IF at = {} THEN NoValue ELSE AttributeValue(list[CHOOSE i \in at : \A j \in at : j <= i])

OrDefault(v, default) == IF v = NoValue THEN default ELSE v

\* The status code of a span that the exporter marked as failed, or not.
UnmarkedStatus(given, code) ==
    IF given \in DOMAIN Atoi THEN Atoi[given] ELSE IF code # 2 THEN 200 ELSE 500
Status(given, code) ==
    LET status == IF given \in DOMAIN Atoi THEN Atoi[given] ELSE IF code # 2 THEN 200 ELSE 0
    IN IF code = 2 /\ status < 400 THEN 500 ELSE status

ConvertSpan(resource, s) ==
    LET model == Lookup(s.attributes, "gen_ai.request.model")
    IN [id |-> s.id, agent |-> OrDefault(Lookup(resource, "service.name"), "otel-unattributed"),
        type |-> IF model # NoValue THEN "llm_call" ELSE "tool_call",
        status |-> Status(Lookup(s.attributes, "http.response.status_code"), s.code),
        dropped |-> FALSE,
        response |-> Lookup(s.attributes, "gen_ai.completion")]

\* A value of another JSON type than the shapes name fails the whole request.
Malformed(request) ==
    \E i \in DOMAIN request :
        \E list \in {request[i].resource} \cup {s.attributes : s \in ToSet(request[i].spans)} :
            \E a \in ToSet(list) : a.type = "bare number"

Convert(request) ==
    IF Malformed(request) THEN <<>>
    ELSE FlattenSeq([i \in DOMAIN request |->
            [j \in DOMAIN request[i].spans |->
                ConvertSpan(request[i].resource, request[i].spans[j])]])

-----------------------------------------------------------------------------
(* What the exporter said.                                                 *)

\* Its spans, in order, with what produced them.
Sources(request) ==
    FlattenSeq([i \in DOMAIN request |->
        [j \in DOMAIN request[i].spans |->
            [s |-> request[i].spans[j], resource |-> request[i].resource]]])

\* The last attribute with a key, and whether the adapter can read its value.
IsLast(list, key, i) ==
    list[i].key = key /\ \A j \in DOMAIN list : list[j].key = key => j <= i
Readable(a) == a.type \in {"string", "int", "double"} /\ a.value # NoValue

\* The service that is named, "0" if it is not readable.
NamedAfter(agent, resource) ==
    \/ /\ \A i \in DOMAIN resource : resource[i].key # "service.name"
       /\ agent = "otel-unattributed"
    \/ \E i \in DOMAIN resource :
          /\ IsLast(resource, "service.name", i)
          /\ agent = IF Readable(resource[i]) THEN resource[i].value ELSE "0"

\* A span is marked as failed, or has a status that says so; its status is 0,
\* which includes those that are not readable.
StatusKey == "http.response.status_code"
Failed(s) ==
    \/ s.code = 2
    \/ \E i \in DOMAIN s.attributes :
          LET a == s.attributes[i]
          IN /\ IsLast(s.attributes, StatusKey, i)
             /\ Readable(a) /\ a.value \in DOMAIN Atoi /\ Atoi[a.value] >= 400
Unread(s) ==
    \E i \in DOMAIN s.attributes :
        LET a == s.attributes[i]
        IN /\ IsLast(s.attributes, StatusKey, i)
           /\ Readable(a) => a.value \in DOMAIN Atoi /\ Atoi[a.value] = 0

\* The error label of a span, whatever text it is given.
LabelledAsExported(c, s, text) ==
    LET label == LabelError([c EXCEPT !.response = text])
    IN /\ label = "http_status" <=> Failed(s)
       /\ label = "no_answer" <=> Unread(s) /\ ~Failed(s)

\* Every span is there, in order, under its service and with its label.
KeepsSpans(request, texts) ==
    LET source == Sources(request)
        out == Convert(request)
    IN /\ Len(out) = Len(source)
       /\ \A k \in DOMAIN out :
             /\ out[k].id = source[k].s.id
             /\ NamedAfter(out[k].agent, source[k].resource)
             /\ \A text \in texts : LabelledAsExported(out[k], source[k].s, text)
=============================================================================
