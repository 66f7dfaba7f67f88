----------------------------- MODULE RestClient -----------------------------
(***************************************************************************)
(* j2::network::rest: curl_get_client and curl_post_client, each a libcurl *)
(* handle that is used for one request after the other.  The handle keeps  *)
(* every option until it is reset, and of headers, bodies and the places   *)
(* where to put the answer it keeps pointers only: into the locals of the  *)
(* call that set them.  A text is a sequence of characters.                *)
(***************************************************************************)
EXTENDS Integers, SequencesExt, Calls

CONSTANTS
  Servers,           \* [scheme, host, port, path] of set_server
  HeaderLists,       \* sequences of [name, value]
  Queries_,          \* sequences of [name, value]
  Answers            \* what servers send: [status, lines, chunks]

VARIABLES
  client,            \* "get" or "post"
  settings,          \* [server, headers, ignore_ssl_errors_]; the server may be None
  handle,            \* the options of curl_; pointers are the calls they point into
  request,           \* the call in progress: [number, query, resp, body], or None
  hop,               \* what the server still has to send
  out_resp, result,  \* what the caller has; "none" before the first call
  arrived            \* of the call: all lines, the last answer, and how it ended

restVars == <<client, settings, handle, request, hop, out_resp, result, arrived>>

None == <<>>
Nowhere == 0
CurlErrors == {"timedout", "verification", "ssl", "resolve", "connect", "other"}
Reserved == {"&", "=", "/", "?", "%"}

\* Where servers are is no query, a character of a query is no escape, and a
\* header without a colon has no name.
ASSUME RestAssumption ==
  /\ \A s \in Servers :
       s.path \in Seq(Range(s.path)) /\ "?" \notin {s.scheme, s.host, ToString(s.port)} \cup Range(s.path)
  /\ \A q \in Queries_ :
       /\ q \in Seq(Range(q))
       /\ \A p \in Range(q) :
            /\ p = [name |-> p.name, value |-> p.value]
            /\ \A t \in {p.name, p.value} : t \in Seq(Range(t)) /\ \A c \in Reserved : "%" \o c \notin Range(t)
  /\ \A c, d \in Reserved : "%" \o c \notin Reserved /\ ("%" \o c = "%" \o d => c = d)
  /\ \A a \in Answers :
       /\ a = [status |-> a.status, lines |-> a.lines, chunks |-> a.chunks]
       /\ a.status \in Nat /\ a.lines \in Seq(Range(a.lines)) /\ a.chunks \in Seq(Range(a.chunks))
       /\ \A l \in Range(a.lines) : l.colon \in BOOLEAN /\ (l.name = "content-type" => l.colon)
       /\ \A chunk \in Range(a.chunks) : chunk \in Seq(Range(chunk))
NoResponse ==
  [status |-> "unknown", raw_status_code |-> 0, curl_error_code |-> "", body |-> <<>>,
   error |-> FALSE, headers |-> <<>>, content_type |-> ""]
NoOptions ==
  [url |-> <<>>, post |-> FALSE, header_list |-> [of |-> Nowhere, lines |-> <<>>],
   write_data |-> Nowhere, header_data |-> Nowhere, post_fields |-> Nowhere, verify |-> TRUE]

InitRest ==
  /\ client \in {"get", "post"} /\ handle = NoOptions
  /\ settings = [server |-> None, headers |-> <<>>, ignore_ssl_errors_ |-> FALSE]
  /\ request = None /\ hop = None /\ out_resp = NoResponse /\ result = "none" /\ arrived = None

-----------------------------------------------------------------------------
\* curl_easy_escape
Escape(s) == [i \in DOMAIN s |-> IF s[i] \in Reserved THEN "%" \o s[i] ELSE s[i]]

\* build_url
BuildUrl(server, query) ==
  LET pair(i) == (IF i = 1 THEN <<"?">> ELSE <<"&">>) \o Escape(query[i].name) \o <<"=">> \o Escape(query[i].value)
  IN <<server.scheme, "://", server.host>>
       \o (IF server.port > 0 THEN <<":", ToString(server.port)>> ELSE <<>>)
       \o (IF server.path # <<>> /\ server.path[1] # "/" THEN <<"/">> ELSE <<>>) \o server.path
       \o FlattenSeq([i \in DOMAIN query |-> pair(i)])

\* build_header_lines
BuildHeaderLines(headers) == SelectSeq(headers, LAMBDA h : h.name # "")

\* to_http_status, classify, and response::is_success
Listed == {200, 201, 204, 400, 401, 403, 404, 500, 502, 503}
ToHttpStatus(raw) == IF raw \in Listed THEN ToString(raw) ELSE "unknown"

Classify(r) ==
  LET raw == r.raw_status_code IN
  CASE r.error /\ r.curl_error_code = "timedout" -> "curl_timeout"
    [] r.error /\ r.curl_error_code \in {"verification", "ssl"} -> "curl_ssl_error"
    [] r.error /\ r.curl_error_code \in {"resolve", "connect"} -> "curl_network_error"
    [] r.error /\ r.curl_error_code \notin CurlErrors \ {"other"} -> "curl_other_error"
    [] ~r.error /\ raw \in 200..299 -> "ok"
    [] ~r.error /\ raw = 404 -> "http_not_found"
    [] ~r.error /\ raw \in 400..499 \ {404} -> "http_client_error_4xx"
    [] ~r.error /\ raw \in 500..599 -> "http_server_error_5xx"
    [] ~r.error /\ raw \in 300..399 -> "http_redirect_3xx"
    [] ~r.error /\ raw > 0 /\ raw \notin 200..599 -> "http_other_error"
    [] OTHER -> "unknown_error"

IsSuccess(r) == ~r.error /\ r.raw_status_code \in 200..299

-----------------------------------------------------------------------------
\* A setter that refuses its argument throws before it assigns; the timeout is
\* an option like the check of certificates.
Sets(s) == request = None /\ settings' = s /\ UNCHANGED <<calls, client, handle, request, hop, out_resp, result, arrived>>

Settings_ ==
  \/ \E s \in Servers : s.scheme # "" /\ s.host # "" /\ Sets([settings EXCEPT !.server = s])
  \/ \E h \in HeaderLists : Sets([settings EXCEPT !.headers = h])
  \/ \E b \in BOOLEAN : Sets([settings EXCEPT !.ignore_ssl_errors_ = b])

\* (A faulty variant: the message of the exception is not handed out.)
ForgetsError == out_resp

\* The call ends with an exception, which get() and post() turn into a code: no
\* server yet, or the query cannot be encoded.  What an earlier call has put
\* into the rest of the response stays in it.
WithError == [out_resp EXCEPT !.error = TRUE]

CallThrows ==
  /\ Call /\ request = None
  /\ settings.server = None \/ (client = "get" /\ \E q \in Queries_ : q # <<>>)
  /\ out_resp' = WithError /\ result' = "unknown_error" /\ arrived' = None
  /\ UNCHANGED <<client, settings, handle, request, hop>>

\* (A faulty variant: the handle is not reset before it is used again.)
KeptOptions == handle

\* curl_easy_reset, which forgets all that an earlier call has set.
ResetOptions == NoOptions

\* The options of one call, with pointers into its locals.
Starts(query) ==
  /\ Call /\ request = None /\ settings.server # None
  /\ LET lines == BuildHeaderLines(settings.headers)
         before == ResetOptions
     IN handle' = [url |-> BuildUrl(settings.server, query), post |-> client = "post",
                   header_list |-> IF lines = <<>> THEN before.header_list ELSE [of |-> calls', lines |-> lines],
                   write_data |-> calls', header_data |-> calls',
                   post_fields |-> IF client = "post" THEN calls' ELSE before.post_fields,
                   verify |-> ~settings.ignore_ssl_errors_]
  /\ request' = [number |-> calls', query |-> query, resp |-> NoResponse, body |-> <<>>]
  /\ arrived' = [lines |-> <<>>, answer |-> None, ending |-> "none"]
  /\ hop' = None /\ UNCHANGED <<client, settings, out_resp, result>>

\* get() and post() up to curl_easy_perform; a post has no query.
StartGet == client = "get" /\ \E query \in Queries_ : Starts(query)
StartPost == client = "post" /\ Starts(<<>>)

\* The server answers; after a redirection another one does.
Answering ==
  /\ request # None /\ hop = None
  /\ \E a \in Answers :
       /\ arrived.answer # None => Len(arrived.lines) < 3      \* bound: redirections
       /\ hop' = a /\ arrived' = [arrived EXCEPT !.answer = a]
  /\ UNCHANGED <<calls, client, settings, handle, request, out_resp, result>>

\* header_callback: lines with a colon are kept, of all the answers.
HeaderLine ==
  /\ request # None /\ hop # None /\ hop.lines # <<>>
  /\ LET line == Head(hop.lines) IN
     /\ hop' = [hop EXCEPT !.lines = Tail(@)]
     /\ arrived' = [arrived EXCEPT !.lines = Append(@, line)]
     /\ request' = IF ~line.colon THEN request
                   ELSE [request EXCEPT !.resp.headers = Append(@, line),
                           !.resp.content_type = IF line.name = "content-type" THEN line.value ELSE @]
  /\ UNCHANGED <<calls, client, settings, handle, out_resp, result>>

\* A redirection is followed; its body is not handed out.
Redirects(status) == status \in {301, 302}
FollowLocation ==
  /\ request # None /\ hop # None /\ hop.lines = <<>> /\ Redirects(hop.status) /\ hop' = None
  /\ UNCHANGED <<calls, client, settings, handle, request, out_resp, result, arrived>>

\* write_callback
BodyChunk ==
  /\ request # None /\ hop # None /\ hop.lines = <<>> /\ ~Redirects(hop.status) /\ hop.chunks # <<>>
  /\ request' = [request EXCEPT !.body = @ \o Head(hop.chunks)]
  /\ hop' = [hop EXCEPT !.chunks = Tail(@)]
  /\ UNCHANGED <<calls, client, settings, handle, out_resp, result, arrived>>

\* The list of headers is freed, the response is returned and classified.
Returns_(resp, ending) ==
  /\ out_resp' = resp /\ result' = Classify(resp)
  /\ request' = None /\ hop' = None /\ arrived' = [arrived EXCEPT !.ending = ending]
  /\ UNCHANGED <<calls, client, settings, handle>>

RequestFails ==
  /\ request # None
  /\ \E e \in CurlErrors : Returns_([request.resp EXCEPT !.error = TRUE, !.curl_error_code = e], "failed")

RequestSucceeds ==
  /\ request # None /\ hop # None /\ hop.lines = <<>> /\ hop.chunks = <<>> /\ ~Redirects(hop.status)
  /\ Returns_([request.resp EXCEPT !.raw_status_code = hop.status, !.status = ToHttpStatus(hop.status),
                                   !.body = request.body], "complete")

NextRest ==
  \/ Settings_ \/ CallThrows \/ StartGet \/ StartPost \/ Answering \/ HeaderLine \/ FollowLocation \/ BodyChunk
  \/ RequestFails \/ RequestSucceeds

-----------------------------------------------------------------------------
\* A url read as a server reads it: what is before the query, and its pairs.
Unescape(s) ==
  [i \in DOMAIN s |-> IF \E c \in Reserved : s[i] = "%" \o c
                      THEN CHOOSE c \in Reserved : s[i] = "%" \o c ELSE s[i]]
\* The pieces of s between its ends and the places where c is.
CutAt(s, c) ==
  LET cuts == {0, Len(s) + 1} \cup {i \in DOMAIN s : s[i] = c}
      at(k) == CHOOSE x \in cuts : Cardinality({y \in cuts : y < x}) = k
  IN [k \in 1..Cardinality(cuts) - 1 |-> SubSeq(s, at(k - 1) + 1, at(k) - 1)]
ReadUrl(url) ==
  LET parts == CutAt(url, "?")
      pairs == IF Len(parts) = 1 THEN <<>> ELSE CutAt(parts[2], "&")
      two(i) == CutAt(pairs[i], "=")
  IN [where |-> parts[1],
      query |-> [i \in DOMAIN pairs |-> [name |-> Unescape(two(i)[1]), value |-> Unescape(two(i)[2])]]]

\* Whatever calls came before: while a request runs, the handle asks for what is
\* set now, in the names and values that were passed, and every pointer that it
\* holds is into the locals of this call, since those of others are gone.
RequestsAreTheirOwn ==
  request # None =>
    /\ {handle.header_list.of, handle.write_data, handle.header_data, handle.post_fields}
         \subseteq {Nowhere, request.number}
    /\ handle.header_list.lines = BuildHeaderLines(settings.headers)
    /\ handle.verify = ~settings.ignore_ssl_errors_
    /\ ReadUrl(handle.url).query = request.query
    /\ LET where == ReadUrl(handle.url).where
           server == settings.server
       IN /\ IsPrefix(<<server.scheme, "://", server.host>>, where) /\ IsSuffix(server.path, where)
          /\ Len(where) > 3 => where[4] \in {"/", ":"}

\* The lines that header_callback() keeps.
WithColon(lines) == FlattenSeq([i \in DOMAIN lines |-> IF lines[i].colon THEN <<lines[i]>> ELSE <<>>])

\* The caller is told of success exactly if this call's transfer ended with an
\* answer of 2xx, and then has that answer whole and no other's body, and the last
\* type that it named; a failed transfer hands out no part of a body.
AnswersAreTheirOwn ==
  request = None /\ result # "none" =>
    /\ (result = "ok") = IsSuccess(out_resp)
    /\ (result = "ok") = (arrived # None /\ arrived.ending = "complete" /\ arrived.answer.status \in 200..299)
    /\ arrived # None =>
         /\ out_resp.headers = WithColon(arrived.lines)
         /\ arrived.ending = "complete" =>
              /\ out_resp.raw_status_code = arrived.answer.status
              /\ out_resp.body = FlattenSeq(arrived.answer.chunks)
              /\ LET lines == arrived.answer.lines
                     typed == {i \in DOMAIN lines : lines[i].name = "content-type"}
                 IN typed # {} => out_resp.content_type = lines[Max(typed)].value
         /\ arrived.ending = "failed" => out_resp.body = <<>> /\ out_resp.error
=============================================================================
