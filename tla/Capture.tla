------------------------------ MODULE Capture ------------------------------
(***************************************************************************)
(* One request through the forward proxy of cmd/proxy, and the error label *)
(* the processor gives the span it leaves: ServeHTTP with its captures,    *)
(* then labelError.  The agents of cmd/fleet and the mock model of         *)
(* cmd/mocksvc are the ends used in the demo; other agents and upstreams   *)
(* send and answer more.                                                   *)
(*                                                                         *)
(* A text is what the labels look at: how it begins, whether it talks of   *)
(* overload in the part that is kept or beyond it, its last character, and *)
(* whether it is longer than maxCapturedBody.                              *)
(***************************************************************************)
EXTENDS Integers, Sequences, FiniteSets

CONSTANT BodyLimit      \* what is read of a request body (1 MiB), in chunks

ASSUME BodyLimitAssumption == BodyLimit \in Nat \ {0}

Blank == [opens |-> "", overload |-> "no", last |-> "", long |-> FALSE]
Prose == [opens |-> "plain", overload |-> "no", last |-> "stop", long |-> FALSE]

-----------------------------------------------------------------------------
(* The two ends.                                                           *)

\* doStep of the fleet: the path its request goes to.
StepPath(kind) == CASE kind = "llm" -> {"/v1/chat/completions"}
                    [] kind = "output" -> {"/user/"}
                    [] kind = "tool" -> {"/tools/"}
                    [] kind = "db" -> {"/db/"}
                    [] kind = "external" -> {}

StepRequest(kind) == [by |-> "proxying", path |-> StepPath(kind), size |-> 1,
                      broken |-> FALSE, chat |-> kind = "llm"]

\* An answer: none in time, cut off, or whole; a body is a chat completion
\* that parses or something else, and text is what the model said.
Whole(status, body, text) == [fate |-> "whole", framed |-> "length",
                              status |-> status, body |-> body, text |-> text]

\* The mock model does what the directive in the prompt says; its handler
\* sleeps longer than any client waits for "timeout".
MockModel(directive, arg) ==
    CASE directive \in {"", "slow"} -> Whole(200, "chat", Prose)
      [] directive = "refuse" -> Whole(200, "chat", [Prose EXCEPT !.opens = "refusal"])
      [] directive = "overload" -> Whole(200, "chat", [Prose EXCEPT !.overload = "kept"])
      [] directive = "cutoff" -> Whole(200, "chat", [Prose EXCEPT !.last = "letter"])
      [] directive = "fail" -> Whole(IF arg = 0 THEN 500 ELSE arg, "other", Prose)
      [] directive = "timeout" -> [Whole(0, "other", Blank) EXCEPT !.fate = "none"]

-----------------------------------------------------------------------------
(* The proxy.                                                              *)

\* classify: the first kind of path the destination contains.
SpanType(path) ==
    CASE path \cap {"/v1/chat/completions", "/v1/messages"} # {} -> "llm_call"
      [] "/tools/" \in path /\ path \subseteq {"/tools/", "/db/", "/user/"} -> "tool_call"
      [] "/db/" \in path /\ path \subseteq {"/db/", "/user/"} -> "db_call"
      [] path = {"/user/"} -> "output"
      [] path = {} -> "external"

\* Health checks of the proxy itself, CONNECT, and a URL or method that makes no
\* request are answered by the proxy.
Forwarded(r) == r.by = "proxying"
OwnAnswer(r) == CASE r.by = "healthz" -> 200 [] r.by = "connect" -> 405 [] r.by = "bad request" -> 502

\* What is read of the body, up to the limit or to where the agent's
\* connection broke: the error is dropped.
ReadBody(r) ==
    LET arrived == IF r.broken THEN r.size - 1 ELSE r.size
    IN IF arrived < BodyLimit THEN arrived ELSE BodyLimit

\* A text cut at maxCapturedBody ends with "[truncated]".
Truncated(text) ==
    IF text.long
    THEN [text EXCEPT !.last = "stop", !.overload = IF @ = "beyond" THEN "no" ELSE @]
    ELSE text

\* A body that ends where the connection breaks and says nothing of its length
\* reads as a whole one.
Noticed(up) == up.fate = "cut" /\ up.framed # "close"
Parses(up) == up.fate = "whole" /\ up.body = "chat"

DroppedOnlyIfSilent(up) == up.fate = "none"
Dropped(up) == up.fate = "none" \/ Noticed(up)

\* captureRequest: the prompts of a chat request that came whole, else the body.
CapturedRequest(r) ==
    IF SpanType(r.path) = "llm_call" /\ r.chat /\ ReadBody(r) = r.size
    THEN "prompts" ELSE "request_body"

CapturedSpan(r, up) ==
    LET type == SpanType(r.path)
        status == IF up.fate = "none" THEN 0 ELSE up.status
        parsed == type = "llm_call" /\ status = 200 /\ Parses(up)
    IN [type |-> type, request |-> CapturedRequest(r),
        status |-> status, dropped |-> Dropped(up),
        response |-> IF parsed THEN Truncated(up.text) ELSE Blank,
        response_body |-> IF parsed \/ up.fate = "none" THEN Blank ELSE Truncated(up.text)]

\* What the agent gets: 502 if the upstream gave no answer, else its status and
\* as much of its body as came, framed as it was except that a chunked body
\* comes to a regular end.  The client follows redirects itself: the answer is
\* the last one's.
ToAgent(up) ==
    IF up.fate = "none" THEN [status |-> 502, body |-> "error"]
    ELSE [status |-> up.status,
          body |-> IF up.fate = "whole" THEN "whole"
                   ELSE IF up.framed = "length" THEN "broken" ELSE "cut short"]

\* ServeHTTP: what goes upstream, what goes back, and the spans enqueued.
ServeHTTP(r, up) ==
    IF Forwarded(r)
    THEN [sent |-> ReadBody(r), reply |-> ToAgent(up), spans |-> <<CapturedSpan(r, up)>>]
    ELSE [sent |-> 0, reply |-> [status |-> OwnAnswer(r), body |-> "whole"], spans |-> <<>>]

-----------------------------------------------------------------------------
(* The processor's label.                                                  *)

\* Only the last byte is looked at: a closing curly quote is three bytes long
\* and counts as none of the marks.
LastByteEnds(text) == text.last = "stop"

BodyFailure(sp) ==
    /\ sp.type = "llm_call" /\ sp.status = 200
    /\ \/ sp.response.opens = "refusal"
       \/ sp.response.overload = "kept"
       \/ sp.response # Blank /\ ~LastByteEnds(sp.response)

LabelStatusFirst(sp) ==
    CASE sp.status >= 400 -> "http_status"
      [] sp.status < 400 /\ (sp.dropped \/ sp.status = 0) -> "no_answer"
      [] sp.status \in 1..399 /\ ~sp.dropped /\ BodyFailure(sp) -> "body_failure"
      [] OTHER -> ""
LabelError(sp) ==
    CASE sp.dropped \/ sp.status = 0 -> "no_answer"
      [] ~sp.dropped /\ sp.status >= 400 -> "http_status"
      [] ~sp.dropped /\ sp.status \in 1..399 /\ BodyFailure(sp) -> "body_failure"
      [] OTHER -> ""

-----------------------------------------------------------------------------
(* What the documents say.                                                 *)

\* The error taxonomy of internal/model: "timeout, refused, dropped
\* mid-response", "4xx/5xx from the called service", "200 but body says
\* failure (refusal, overload, cut-off)", and "malformed responses" in
\* cmd/processor; "rate limits ... are intentionally NOT errors".
Taxonomy(r, up) ==
    IF up.fate # "whole" THEN "no_answer"
    ELSE IF up.status >= 400 THEN IF up.status = 429 THEN "" ELSE "http_status"
    ELSE IF /\ SpanType(r.path) = "llm_call" /\ up.status = 200
            /\ \/ up.body # "chat"
               \/ up.text.opens = "refusal" \/ up.text.overload # "no"
               \/ up.text.last = "letter"
         THEN "body_failure" ELSE ""

\* Where the label differs from it, with the label given instead: rate limits,
\* a completion that does not parse, text the capture cut away, an answer that
\* ends in a curly quote, and a cut nobody could notice.
Divergence(r, up) ==
    LET llm == SpanType(r.path) = "llm_call" /\ up.status = 200
        cutAway == up.text.long /\ up.text.opens # "refusal" /\ up.text.overload # "kept"
    IN CASE Dropped(up) -> {}
         [] up.fate = "cut" /\ ~Dropped(up) ->
               {IF up.status >= 400 THEN "http_status" ELSE ""}
         [] up.fate = "whole" /\ up.status = 429 -> {"http_status"}
         [] up.fate = "whole" /\ llm /\ up.body # "chat" -> {""}
         [] up.fate = "whole" /\ llm /\ up.body = "chat" /\ cutAway -> {""}
         [] up.fate = "whole" /\ llm /\ up.body = "chat" /\ up.text.last = "curly"
               /\ ~up.text.long -> {"body_failure"}
         [] OTHER -> {}

\* The label is the one the documents give the exchange, or the other one.
LabelledAsDocumented(r, up) ==
    LET label == LabelError(ServeHTTP(r, up).spans[1])
        other == Divergence(r, up)
    IN label \in (IF other = {} THEN {Taxonomy(r, up)} ELSE other)

\* One span, which says of the answer what the agent got.
SpanAgrees(r, up) ==
    LET done == ServeHTTP(r, up)
        sp == done.spans[1]
        whole == done.sent = r.size
    IN IF ~Forwarded(r) THEN done.spans = <<>> /\ done.sent = 0
       ELSE /\ Len(done.spans) = 1
            /\ whole \/ r.size > BodyLimit \/ r.broken
            /\ sp.request = "prompts" => whole
            /\ sp.type = "llm_call" /\ r.chat /\ whole => sp.request = "prompts"
            /\ sp.dropped <=> \/ done.reply.body \in {"error", "broken"}
                              \/ done.reply.body = "cut short" /\ up.framed = "chunked"
            /\ sp.status = IF done.reply.body = "error" THEN 0 ELSE done.reply.status
=============================================================================
