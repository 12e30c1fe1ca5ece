----------------------------- MODULE Transport -----------------------------
(***************************************************************************)
(* What a request meets between the network and a service, and its answer  *)
(* on the way back, over HTTP and over gRPC: request id, logging with its  *)
(* delayed header, compression, the ip filter, the session, the handler.   *)
(* Requests of one client run side by side and share what it keeps of its  *)
(* session.  A service is external here: it ends with any result it can    *)
(* end with (module Shortener says which and when).                        *)
(***************************************************************************)
EXTENDS IPFilter, FiniteSets

CONSTANTS
  Slots,     \* requests
  Requests,  \* Requests[r]: the forms request r may take
  Filters,   \* the filters that may be configured
  Users,     \* ids that user.New may draw
  Lifetime,  \* of a session, in ticks
  MaxClock   \* bound of the exploration

ASSUME TransportAssumption == Lifetime \in Nat \ {0} /\ MaxClock \in Nat

Ops == {"shorten", "plain", "batch", "list", "delete", "resolve", "stats", "ping"}

ASSUME UsersAssumption == None \notin Users
ASSUME RequestsAssumption == \A r \in Slots : \A q \in Requests[r] : q.op \in Ops

VARIABLES
  clock,
  filter,  \* the configured filter
  jar,     \* the token the client keeps: the one it received last
  issued,  \* history: user ids drawn so far
  owners,  \* history: users that may own a stored url
  told,    \* history: users whose token has left in the header of an answer
  pc,      \* pc[r]: where request r is
  req,     \* req[r]: the request
  token,   \* token[r]: the token it came with
  user,    \* user[r]: [id, new], the user in its context
  done,    \* done[r]: [result, effect], what the service made of it
  resp     \* resp[r]: the response writers

vars == <<clock, filter, jar, issued, owners, told, pc, req, token, user, done, resp>>

NoToken == [user |-> None, exp |-> 0]
NoUser == [id |-> None, new |-> FALSE]

(***************************************************************************)
(* The response writers.  status, ctype and enc are what the handler has   *)
(* set so far, cw the compressor, head what was sent: NoHead until then.   *)
(***************************************************************************)
NoHead == [status |-> "none", enc |-> "", cookie |-> NoToken]
NewResponse == [status |-> "none", ctype |-> "", enc |-> "", cw |-> "", cookie |-> NoToken,
                head |-> NoHead, body |-> "none"]

\* logging: the header goes out with the last status set; a status never
\* set is 200.  Only the first time counts.
FlushHeader(w) ==
  IF w.head # NoHead THEN w
  ELSE LET s == IF w.status = "none" THEN "200" ELSE w.status
       IN [w EXCEPT !.status = s, !.head = [status |-> s, enc |-> w.enc, cookie |-> w.cookie]]

\* compress: a text or json answer to a client that accepts an encoding
\* gets a compressor; logging: the status is only kept.
WriteHeader(w, accept, status) ==
  IF accept # "" /\ w.ctype \in {"application/json", "text/plain"}
  THEN [w EXCEPT !.status = status, !.enc = accept, !.cw = accept]
  ELSE [w EXCEPT !.status = status]

Write(w) == [FlushHeader(w) EXCEPT !.body = IF w.cw = "" THEN "plain" ELSE "open"]

\* Mutant: the compressor is not closed.
CloseWriterNot(w) == w

\* compress: closing the compressor writes what it still holds.
CloseWriter(w) == IF w.cw = "" THEN w ELSE [FlushHeader(w) EXCEPT !.body = "closed"]

\* An answer that passes by the logging and the compression.
Direct(w, status) ==
  [w EXCEPT !.status = status, !.head = [status |-> status, enc |-> "", cookie |-> w.cookie]]

Init ==
  /\ clock = 0 /\ filter \in Filters
  /\ jar \in {NoToken, [user |-> Bad, exp |-> 0]}
  /\ issued = {} /\ owners = {} /\ told = {}
  /\ pc = [r \in Slots |-> "idle"]
  /\ req \in [Slots -> UNION {Requests[r] : r \in Slots}]
  /\ \A r \in Slots : req[r] \in Requests[r]
  /\ token = [r \in Slots |-> NoToken] /\ user = [r \in Slots |-> NoUser]
  /\ done = [r \in Slots |-> [result |-> "none", effect |-> "none"]]
  /\ resp = [r \in Slots |-> NewResponse]

Http(r) == req[r].proto = "http"

(***************************************************************************)
(* The way in.                                                             *)
(***************************************************************************)

\* Where the router sends an http request, or the chain of interceptors.
Route(r) ==
  IF req[r].op = "stats" THEN "filter"
  ELSE IF Http(r) /\ req[r].op \in {"resolve", "ping"} THEN "service"
  ELSE "auth"

\* The request arrives with the client's token; request id and logging.  A
\* request without an id is answered before the logging sees it.
Arrive(r) ==
  /\ pc[r] = "idle"
  /\ token' = [token EXCEPT ![r] = jar]
  /\ \/ /\ pc' = [pc EXCEPT ![r] = Route(r)]
        /\ UNCHANGED resp
     \/ /\ pc' = [pc EXCEPT ![r] = "answered"]
        /\ resp' = [resp EXCEPT ![r] = Direct(@, IF Http(r) THEN "500" ELSE "Internal")]
  /\ UNCHANGED <<clock, filter, jar, issued, owners, told, req, user, done>>

\* Stats only: the middleware, or the interceptor in front of the session.
Filter(r) ==
  /\ pc[r] = "filter"
  /\ IF Passes(filter, req[r].from)
     THEN /\ pc' = [pc EXCEPT ![r] = IF Http(r) THEN "service" ELSE "auth"]
          /\ UNCHANGED resp
     ELSE /\ pc' = [pc EXCEPT ![r] = "return"]
          /\ resp' = [resp EXCEPT ![r] = WriteHeader(@, req[r].accept,
                                           IF Http(r) THEN "403" ELSE "PermissionDenied")]
  /\ UNCHANGED <<clock, filter, jar, issued, owners, told, req, token, user, done>>

\* A token of this server that has not expired.
Valid(t) == t.user \notin {None, Bad} /\ clock < t.exp

\* The token of a new user.
NewToken(u) == [user |-> u, exp |-> clock + Lifetime]

\* Mutant: a header that could not be sent is only logged.
AuthUnsent(r) ==
  /\ pc[r] = "auth" /\ ~Valid(token[r])
  /\ \E u \in Users \ issued :
       /\ issued' = issued \cup {u}
       /\ user' = [user EXCEPT ![r] = [id |-> u, new |-> TRUE]]
       /\ pc' = [pc EXCEPT ![r] = "handler"]
  /\ UNCHANGED <<clock, filter, jar, owners, told, req, token, done, resp>>

\* The session: the user of a valid token, or else a new user whose token is
\* put in the header; gRPC sends that header at once, and may fail to.
Auth(r) ==
  /\ pc[r] = "auth"
  /\ \/ /\ Valid(token[r])
        /\ user' = [user EXCEPT ![r] = [id |-> token[r].user, new |-> FALSE]]
        /\ pc' = [pc EXCEPT ![r] = "handler"]
        /\ UNCHANGED <<issued, told, resp>>
     \/ /\ ~Valid(token[r])
        /\ \E u \in Users \ issued :
             /\ issued' = issued \cup {u}
             /\ user' = [user EXCEPT ![r] = [id |-> u, new |-> TRUE]]
             /\ resp' = [resp EXCEPT ![r].cookie = NewToken(u)]
             /\ told' = IF Http(r) THEN told ELSE told \cup {u}
             /\ pc' = [pc EXCEPT ![r] = "handler"]
     \/ /\ ~Valid(token[r])  \* user.New, the signature or SendHeader failed
        /\ resp' = [resp EXCEPT ![r] = WriteHeader(@, req[r].accept,
                                         IF Http(r) THEN "500" ELSE "Internal")]
        /\ pc' = [pc EXCEPT ![r] = "return"]
        /\ UNCHANGED <<issued, told, user>>
  /\ UNCHANGED <<clock, filter, jar, owners, req, token, done>>

\* What an http handler finds in the request before it calls the service:
\* the status it answers with, "none" for no status at all, "ok" to go on.
Refusal(r) ==
  LET q == req[r]
      json == q.op \in {"shorten", "batch", "delete"}
  IN IF ~Http(r) THEN "ok"
     ELSE IF json /\ q.ctype # "application/json" THEN "400"
     ELSE IF (json \/ q.op = "plain") /\ q.body = "unreadable" THEN "none"
     ELSE IF json /\ q.body = "malformed" THEN IF q.op = "delete" THEN "none" ELSE "400"
     ELSE "ok"

Handler(r) ==
  /\ pc[r] = "handler"
  /\ \/ /\ Refusal(r) = "ok"
        /\ pc' = [pc EXCEPT ![r] = "service"]
        /\ UNCHANGED resp
     \/ /\ Refusal(r) # "ok"
        /\ pc' = [pc EXCEPT ![r] = "return"]
        /\ resp' = [resp EXCEPT ![r] = IF Refusal(r) = "none" THEN @
                                       ELSE WriteHeader(@, req[r].accept, Refusal(r))]
  /\ UNCHANGED <<clock, filter, jar, issued, owners, told, req, token, user, done>>

(***************************************************************************)
(* The services.                                                           *)
(***************************************************************************)

\* The ways a call can end, each with what it has changed or found.
Ends(r) ==
  LET q == req[r]
      none(R) == {[result |-> e, effect |-> "none"] : e \in R}
      ok == {[result |-> "ok", effect |-> "all"]}
      maybe == {[result |-> "storage", effect |-> "maybe"]}
  IN CASE q.op \in {"shorten", "plain"} ->
            ok \cup maybe \cup none({"conflict", "invalid", "scheme"})
       [] q.op = "batch" -> ok \cup maybe
       [] q.op = "delete" ->
            IF user[r].new THEN none({"unauthorized"})
            ELSE IF q.body = "empty" THEN none({"empty"})
            ELSE ok \cup {[result |-> "refused", effect |-> "part"]}
       [] q.op = "list" ->
            IF user[r].new THEN none({"unauthorized"}) ELSE ok \cup none({"notfound", "storage"})
       [] q.op = "resolve" ->
            IF q.body = "empty" THEN none({"panic"})
            ELSE IF q.body = "malformed" THEN none({"invalidpath"})
            ELSE ok \cup none({"okempty", "notfound", "deleted", "storage"})
       [] q.op \in {"stats", "ping"} -> ok \cup none({"storage"})

Service(r) ==
  /\ pc[r] = "service"
  /\ \E d \in Ends(r) :
       /\ done' = [done EXCEPT ![r] = d]
       /\ owners' = IF req[r].op \in {"shorten", "plain", "batch"} /\ d.effect # "none"
                    THEN owners \cup {user[r].id} ELSE owners
       /\ pc' = [pc EXCEPT ![r] = "reply"]
  /\ UNCHANGED <<clock, filter, jar, issued, told, req, token, user, resp>>

(***************************************************************************)
(* The way out.                                                            *)
(***************************************************************************)

\* The handlers' statuses.  errors.Is is called with its arguments swapped,
\* so an invalid url, which is joined with its cause, is no bad request.
ShortenStatus(e) ==
  CASE e = "ok" -> "201" [] e = "conflict" -> "409" [] e = "scheme" -> "400" [] OTHER -> "500"

BatchStatus(e) == IF e = "ok" THEN "201" ELSE "500"

ListStatus(e) ==
  CASE e = "ok" -> "200" [] e = "notfound" -> "204" [] e = "unauthorized" -> "401"
    [] OTHER -> "500"

DeleteStatus(e) ==
  CASE e = "unauthorized" -> "401" [] e = "empty" -> "400" [] OTHER -> "500"

ResolveStatus(e) ==
  CASE e \in {"ok", "okempty"} -> "307" [] e = "invalidpath" -> "400"
    [] e = "notfound" -> "404" [] e = "deleted" -> "410" [] OTHER -> "500"

\* Statistics are answered whether there are any or not.
HttpStatus(op, e) ==
  CASE op \in {"shorten", "plain"} -> ShortenStatus(e)
    [] op = "batch" -> BatchStatus(e)
    [] op = "list" -> ListStatus(e)
    [] op = "delete" -> DeleteStatus(e)
    [] op = "resolve" -> ResolveStatus(e)
    [] op = "stats" -> "200"
    [] op = "ping" -> IF e = "ok" THEN "200" ELSE "500"

ContentType(op) == CASE op \in {"shorten", "batch", "list"} -> "application/json"
                     [] op = "plain" -> "text/plain"
                     [] OTHER -> ""

HasBody(op, e) == \/ op = "stats"
                  \/ ContentType(op) # "" /\ e \in {"ok", "conflict"}

\* An http handler answers: the deletion writes 202 whatever it wrote
\* before, an answer with a body sets its type, writes the status, the body.
HttpReply(w, accept, op, e) ==
  IF op = "delete"
  THEN LET w1 == IF e = "ok" THEN w ELSE WriteHeader(w, accept, HttpStatus(op, e))
       IN WriteHeader(w1, accept, "202")
  ELSE IF HasBody(op, e)
  THEN Write(WriteHeader([w EXCEPT !.ctype = ContentType(op)], accept, HttpStatus(op, e)))
  ELSE WriteHeader(w, accept, HttpStatus(op, e))

\* A grpc handler answers.  After a panic the logging interceptor returns no
\* answer and no error: the call ends well and empty.
GrpcCode(op, e) ==
  CASE e \in {"ok", "okempty", "panic"} -> "OK"
    [] e \in {"invalidpath", "scheme", "empty"} -> "InvalidArgument"
    [] e = "notfound" -> "NotFound"
    [] e \in {"conflict", "deleted"} -> "FailedPrecondition"
    [] e = "unauthorized" /\ op = "delete" -> "Unauthenticated"
    [] OTHER -> "Internal"

\* Mutant: the handler of the list goes on after an error.
ReplyListOk(r) ==
  /\ pc[r] = "reply"
  /\ LET e == IF req[r].op = "list" THEN "ok" ELSE done[r].result IN
     resp' = [resp EXCEPT ![r] = IF Http(r) THEN HttpReply(@, req[r].accept, req[r].op, e)
                                 ELSE [@ EXCEPT !.status = GrpcCode(req[r].op, e)]]
  /\ pc' = [pc EXCEPT ![r] = "return"]
  /\ UNCHANGED <<clock, filter, jar, issued, owners, told, req, token, user, done>>

Reply(r) ==
  /\ pc[r] = "reply"
  /\ resp' = [resp EXCEPT ![r] =
                IF Http(r) THEN HttpReply(@, req[r].accept, req[r].op, done[r].result)
                ELSE [@ EXCEPT !.status = GrpcCode(req[r].op, done[r].result)]]
  /\ pc' = [pc EXCEPT ![r] = "return"]
  /\ UNCHANGED <<clock, filter, jar, issued, owners, told, req, token, user, done>>

\* Back through the compression and the logging: the answer is sent.
Return(r) ==
  /\ pc[r] = "return"
  /\ resp' = [resp EXCEPT ![r] = IF Http(r) THEN FlushHeader(CloseWriter(@))
                                 ELSE Direct(@, @.status)]
  /\ told' = told \cup ({resp'[r].head.cookie.user} \ {None})
  /\ pc' = [pc EXCEPT ![r] = "answered"]
  /\ UNCHANGED <<clock, filter, jar, issued, owners, req, token, user, done>>

\* The client gets the answer, if it ever does, and keeps its token.
Receive(r) ==
  /\ pc[r] = "answered"
  /\ jar' = IF resp[r].head.cookie = NoToken THEN jar ELSE resp[r].head.cookie
  /\ pc' = [pc EXCEPT ![r] = "received"]
  /\ UNCHANGED <<clock, filter, issued, owners, told, req, token, user, done, resp>>

Tick ==
  /\ clock < MaxClock /\ clock' = clock + 1
  /\ UNCHANGED <<filter, jar, issued, owners, told, pc, req, token, user, done, resp>>

Next == \/ \E r \in Slots : \/ Arrive(r) \/ Filter(r) \/ Auth(r) \/ Handler(r)
                            \/ Service(r) \/ Reply(r) \/ Return(r) \/ Receive(r)
        \/ Tick

Spec == Init /\ [][Next]_vars

(***************************************************************************)
(* Properties.                                                             *)
(***************************************************************************)

Answered(r) == pc[r] \in {"answered", "received"}

\* Whoever may own a stored url has been sent the token to manage it with,
\* or is about to be: the header of the answer in the making holds it.  What
\* counts is the header as it was sent, which the first byte of a body does.
\* (middleware/auth: the header is set before the handler is called;
\* interceptors/auth: a header that cannot be sent ends the call.)
OwnerHasToken ==
  \A u \in owners :
    u \in told \/ \E r \in Slots : ~Answered(r) /\ resp[r].cookie.user = u

Success == {"200", "201", "202", "307", "OK"}
Refusals == {"204", "400", "401", "403", "404", "409", "410", "InvalidArgument",
             "Unauthenticated", "PermissionDenied", "NotFound", "FailedPrecondition"}

\* The answers of the success kind that say nothing: a deletion over http,
\* a body that could not be read, statistics that failed, a path of length
\* zero over grpc, and a lookup that failed and came back empty.
SaysNothing(r) ==
  \/ Http(r) /\ req[r].op = "delete"
  \/ Http(r) /\ req[r].body = "unreadable"
  \/ Http(r) /\ req[r].op = "stats"
  \/ ~Http(r) /\ done[r].result = "panic"
  \/ done[r].result = "okempty"

\* A request that is refused has changed nothing, and one that is answered
\* with success has been carried out, but for the answers that say nothing.
StatusTellsEffect ==
  \A r \in Slots : Answered(r) =>
    /\ resp[r].head.status \in Refusals => done[r].effect = "none"
    /\ resp[r].head.status \in Success /\ ~SaysNothing(r) => done[r].effect = "all"

\* An http answer is whole: the status that was logged is the one that was
\* sent, and the client is told of an encoding if and only if the body was
\* written through that compressor and the compressor was closed.
ResponseWhole ==
  \A r \in Slots : Answered(r) /\ Http(r) =>
    LET w == resp[r] IN
    /\ w.head.status = w.status /\ w.head.status # "none"
    /\ w.head.enc = w.cw
    /\ w.cw # "" <=> w.body = "closed"
    /\ w.body # "open"

\* Statistics leave the process only for a source the filter vouches for: its
\* peer is inside a trusted subnet, or a header that is configured to be
\* trusted names, in every hop, addresses that are (filter.go:56-64).
StatsOnlyTrusted ==
  \A r \in Slots :
    req[r].op = "stats" /\ done[r].result # "none" =>
      LET In(a) == a \in UNION filter.subnets
          from == req[r].from IN
      \/ In(from.remote)
      \/ filter.trustReal /\ In(from.real)
      \/ filter.trustXFF /\ from.xff # <<>> /\ \A i \in DOMAIN from.xff : In(from.xff[i])

\* http/middleware/filter/filter.go:53-54, "If there's no trusted subnets configured,
\* then request is passed to next handler unconditionally": without subnets nobody
\* who asks for statistics is turned away.
NoSubnetsPass ==
  \A r \in Slots :
    req[r].op = "stats" /\ filter.subnets = {}
      => resp[r].status \notin {"403", "PermissionDenied"}
=============================================================================
