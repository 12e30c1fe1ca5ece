-------------------------- MODULE TransportProofs --------------------------
(***************************************************************************)
(* Proofs about Transport for any requests, filters, users and lifetime:   *)
(* sessions, statuses, the layered writers and the ip filter keep their    *)
(* word. The inductive invariant follows a request on its way: its writers *)
(* are untouched on the way in, hold an answer in the making on the way    *)
(* out, and were closed at the end.                                        *)
(***************************************************************************)
EXTENDS Transport, TLAPS

WayIn == {"idle", "filter", "auth", "handler", "service", "reply"}
PCs == WayIn \cup {"return", "answered", "received"}

\* Writers that nothing was written to, with the token of a new user or with none.
Unwritten(t) == [status |-> "none", ctype |-> "", enc |-> "", cw |-> "", cookie |-> t,
                 head |-> NoHead, body |-> "none"]

IsResponse(w) ==
  w = [status |-> w.status, ctype |-> w.ctype, enc |-> w.enc, cw |-> w.cw,
       cookie |-> w.cookie, head |-> w.head, body |-> w.body]

\* Nothing was sent; or the header was, and some of the body.
Fresh(w) == w.head = NoHead /\ w.body = "none" /\ w.enc = w.cw
Sent(w) ==
  /\ w.head = [status |-> w.status, enc |-> w.enc, cookie |-> w.cookie]
  /\ w.status # "none" /\ w.enc = w.cw
  /\ w.body = IF w.cw = "" THEN "plain" ELSE "open"

Whole(w) ==
  /\ w.head.status = w.status /\ w.head.status # "none"
  /\ w.head.enc = w.cw
  /\ w.cw # "" <=> w.body = "closed"
  /\ w.body # "open"

Shape ==
  /\ pc \in [Slots -> PCs]
  /\ resp = [r \in Slots |-> resp[r]] /\ done = [r \in Slots |-> done[r]]
  /\ token = [r \in Slots |-> token[r]] /\ user = [r \in Slots |-> user[r]]
  /\ \A r \in Slots : req[r].op \in Ops

WriterInv ==
  \A r \in Slots :
    /\ pc[r] \in WayIn => resp[r] = Unwritten(resp[r].cookie)
    /\ pc[r] = "return" => IsResponse(resp[r])
    /\ pc[r] = "return" /\ Http(r) => Fresh(resp[r]) \/ Sent(resp[r])
    /\ Answered(r) => resp[r].head.cookie = resp[r].cookie
    /\ Answered(r) /\ Http(r) => Whole(resp[r])

\* What a status says of the request.
Says(r, status) ==
  /\ status \in Refusals => done[r].effect = "none"
  /\ status \in Success /\ ~SaysNothing(r) => done[r].effect = "all"

EffectInv ==
  \A r \in Slots :
    /\ pc[r] \in WayIn \ {"reply"} => done[r] = [result |-> "none", effect |-> "none"]
    /\ pc[r] = "reply" => done[r] \in Ends(r)
    /\ pc[r] = "return" => /\ Says(r, resp[r].status)
                           /\ resp[r].status = "none" => Http(r) /\ SaysNothing(r)
    /\ Answered(r) => Says(r, resp[r].head.status)

\* Requests for statistics that are past the filter.
FilterInv ==
  \A r \in Slots :
    /\ pc[r] = "filter" => req[r].op = "stats"
    /\ req[r].op = "stats" /\ (pc[r] \in {"auth", "handler", "service", "reply"} \/ done[r].result # "none")
         => Passes(filter, req[r].from)

\* Tokens are on their way out, told, or not of this server.
SessionInv ==
  /\ jar.user \in told \cup {None, Bad}
  /\ None \notin owners
  /\ OwnerHasToken
  /\ \A r \in Slots :
       /\ token[r].user \in told \cup {None, Bad}
       /\ pc[r] \in {"idle", "filter", "auth"} => resp[r].cookie = NoToken
       /\ Answered(r) => resp[r].cookie.user \in told \cup {None}
       /\ pc[r] \in {"handler", "service"} /\ req[r].op \in {"shorten", "plain", "batch"} =>
            /\ user[r].id # None
            /\ user[r].id \in told \/ resp[r].cookie.user = user[r].id

IInv == Shape /\ WriterInv /\ EffectInv /\ FilterInv /\ SessionInv

-----------------------------------------------------------------------------

\* A status alone is kept by writers that nothing was written to.
LEMMA HeaderOfUnwritten ==
  ASSUME NEW t, NEW accept, NEW status
  PROVE  LET w == WriteHeader(Unwritten(t), accept, status) IN
         IsResponse(w) /\ Fresh(w) /\ w.status = status /\ w.cookie = t
BY DEF WriteHeader, Unwritten, NewResponse, IsResponse, Fresh

\* The first write sends the header.
LEMMA FirstWrite ==
  ASSUME NEW w, IsResponse(w), w.head = NoHead, w.status # "none", w.enc = w.cw
  PROVE  /\ IsResponse(Write(w)) /\ Write(w).cookie = w.cookie
         /\ Write(w).status = w.status /\ Sent(Write(w))
<1> DEFINE h == [status |-> w.status, enc |-> w.enc, cookie |-> w.cookie]
           b == IF w.cw = "" THEN "plain" ELSE "open"
<1>1. FlushHeader(w) = [w EXCEPT !.status = w.status, !.head = h]
  BY DEF FlushHeader
<1> HIDE DEF h, b
<1>2. Write(w) = [w EXCEPT !.status = w.status, !.head = h, !.body = b]
  BY <1>1 DEF Write, b
<1>3. Write(w) = [status |-> w.status, ctype |-> w.ctype, enc |-> w.enc, cw |-> w.cw,
                  cookie |-> w.cookie, head |-> h, body |-> b]
  BY <1>2 DEF IsResponse
<1>4. /\ Write(w).status = w.status /\ Write(w).enc = w.enc /\ Write(w).cw = w.cw
      /\ Write(w).cookie = w.cookie /\ Write(w).head = h /\ Write(w).body = b
  BY <1>3
<1>5. IsResponse(Write(w))
  BY <1>3, <1>4 DEF IsResponse
<1>6. Sent(Write(w))
  BY <1>4 DEF Sent, h, b
<1> QED  BY <1>4, <1>5, <1>6

\* What an http handler leaves behind.
LEMMA WritersOfReply ==
  ASSUME NEW t, NEW accept, NEW op \in Ops, NEW e
  PROVE  LET w == HttpReply(Unwritten(t), accept, op, e) IN
         /\ IsResponse(w) /\ w.cookie = t
         /\ Fresh(w) \/ Sent(w)
         /\ w.status = IF op = "delete" THEN "202" ELSE HttpStatus(op, e)
<1> DEFINE v == [Unwritten(t) EXCEPT !.ctype = ContentType(op)]
           W(s) == WriteHeader(v, accept, s)
<1>1. ASSUME NEW s, s # "none"
      PROVE  /\ IsResponse(Write(W(s))) /\ Write(W(s)).cookie = t /\ Write(W(s)).status = s
             /\ Sent(Write(W(s)))
  <2>1. /\ IsResponse(W(s)) /\ W(s).head = NoHead /\ W(s).status = s
        /\ W(s).cookie = t /\ W(s).enc = W(s).cw
    BY DEF WriteHeader, Unwritten, NewResponse, IsResponse
  <2> QED  BY <1>1, <2>1, FirstWrite
<1>2. ASSUME NEW s1, NEW s2
      PROVE  LET w == WriteHeader(WriteHeader(Unwritten(t), accept, s1), accept, s2) IN
             IsResponse(w) /\ Fresh(w) /\ w.status = s2 /\ w.cookie = t
  BY DEF WriteHeader, Unwritten, NewResponse, IsResponse, Fresh
<1>3. op # "delete" => HttpStatus(op, e) # "none"
  BY DEF HttpStatus, ShortenStatus, BatchStatus, ListStatus, ResolveStatus, Ops
<1>4. CASE op = "delete"
  <2>1. CASE e = "ok"
    BY <1>4, <2>1, HeaderOfUnwritten DEF HttpReply
  <2>2. CASE e # "ok"
    BY <1>4, <2>2, <1>2 DEF HttpReply
  <2> QED  BY <2>1, <2>2
<1>5. CASE op # "delete" /\ HasBody(op, e)
  BY <1>5, <1>1, <1>3 DEF HttpReply
<1>6. CASE op # "delete" /\ ~HasBody(op, e)
  BY <1>6, <1>3, HeaderOfUnwritten DEF HttpReply
<1> QED  BY <1>4, <1>5, <1>6

\* The way back through the compression and the logging.
LEMMA WritersOfReturn ==
  ASSUME NEW w, IsResponse(w), Fresh(w) \/ Sent(w)
  PROVE  LET v == FlushHeader(CloseWriter(w)) IN
         /\ Whole(v) /\ v.cookie = w.cookie /\ v.head.cookie = w.cookie
         /\ v.head.status = IF w.status = "none" THEN "200" ELSE w.status
<1> DEFINE s == IF w.status = "none" THEN "200" ELSE w.status
           h == [status |-> s, enc |-> w.enc, cookie |-> w.cookie]
<1>1. FlushHeader(w) = [status |-> s, ctype |-> w.ctype, enc |-> w.enc, cw |-> w.cw,
                        cookie |-> w.cookie, head |-> h, body |-> w.body]
  <2>1. CASE w.head = NoHead
    <3>1. FlushHeader(w) = [w EXCEPT !.status = s, !.head = h]
      BY <2>1 DEF FlushHeader
    <3> HIDE DEF s, h
    <3> QED  BY <3>1 DEF IsResponse
  <2>2. CASE w.head # NoHead
    <3>1. Sent(w)
      BY <2>2 DEF Fresh
    <3>2. FlushHeader(w) = w
      BY <2>2 DEF FlushHeader
    <3>3. w.status = s /\ w.head = h
      BY <3>1 DEF Sent
    <3> QED  BY <3>2, <3>3 DEF IsResponse
  <2> QED  BY <2>1, <2>2
<1>2. /\ h # NoHead /\ s # "none"
      /\ h.status = s /\ h.enc = w.enc /\ h.cookie = w.cookie
  BY DEF NoHead
<1> HIDE DEF s, h
<1> DEFINE Ending(body) == [status |-> s, ctype |-> w.ctype, enc |-> w.enc, cw |-> w.cw,
                            cookie |-> w.cookie, head |-> h, body |-> body]
<1>3. w.enc = w.cw
  BY DEF Fresh, Sent
<1>4. CASE w.cw = ""
  <2>1. w.body # "open" /\ w.body # "closed"
    BY <1>4 DEF Fresh, Sent
  <2>2. FlushHeader(CloseWriter(w)) = Ending(w.body)
    BY <1>1, <1>4 DEF CloseWriter
  <2>3. Whole(Ending(w.body))
    BY <1>2, <1>3, <1>4, <2>1 DEF Whole
  <2> QED  BY <1>2, <2>2, <2>3 DEF s
<1>5. CASE w.cw # ""
  <2>1. CloseWriter(w) = Ending("closed")
    <3>1. CloseWriter(w) = [FlushHeader(w) EXCEPT !.body = "closed"]
      BY <1>5 DEF CloseWriter
    <3>2. [Ending(w.body) EXCEPT !.body = "closed"] = Ending("closed")
      OBVIOUS
    <3> QED  BY <1>1, <3>1, <3>2
  <2>2. FlushHeader(CloseWriter(w)) = Ending("closed")
    <3>1. CloseWriter(w).head # NoHead
      BY <1>2, <2>1
    <3>2. FlushHeader(CloseWriter(w)) = CloseWriter(w)
      BY <3>1 DEF FlushHeader
    <3> QED  BY <2>1, <3>2
  <2>3. Whole(Ending("closed"))
    BY <1>2, <1>3, <1>5 DEF Whole
  <2> QED  BY <1>2, <2>2, <2>3 DEF s
<1> QED  BY <1>4, <1>5

\* At the start every request is idle and its writers are new.
LEMMA InitIInv == Init => IInv
<1> SUFFICES ASSUME Init PROVE IInv
  OBVIOUS
<1> USE UsersAssumption, RequestsAssumption
<1>1. Shape
  BY DEF Init, Shape, PCs, WayIn
<1>2. \A r \in Slots : /\ pc[r] = "idle" /\ resp[r] = NewResponse /\ token[r] = NoToken
                        /\ done[r] = [result |-> "none", effect |-> "none"]
  BY DEF Init
<1>3. NewResponse = Unwritten(NoToken) /\ NewResponse.cookie = NoToken
  BY DEF NewResponse, Unwritten
<1>4. WriterInv
  BY <1>2, <1>3 DEF WriterInv, Answered
<1>5. EffectInv /\ FilterInv
  BY <1>2 DEF EffectInv, FilterInv, Answered, WayIn
<1>6. SessionInv
  BY <1>2, <1>3 DEF Init, SessionInv, OwnerHasToken, Answered, NoToken
<1> QED  BY <1>1, <1>4, <1>5, <1>6 DEF IInv

\* Only statistics go to the filter; what goes past the session stores nothing.
LEMMA RouteFacts ==
  ASSUME NEW r \in Slots
  PROVE  /\ Route(r) \in {"filter", "service", "auth"}
         /\ Route(r) = "filter" <=> req[r].op = "stats"
         /\ Route(r) = "service" => req[r].op \in {"resolve", "ping"}
BY DEF Route, Http

\* Owners keep their token while no answer leaves, or leaves with its token told.
LEMMA OwnersKeep ==
  ASSUME SessionInv, owners' = owners, told \subseteq told',
         \A s \in Slots : ~Answered(s) /\ resp[s].cookie.user # None =>
           resp[s].cookie.user \in told' \/ (~Answered(s)' /\ resp'[s].cookie = resp[s].cookie)
  PROVE  OwnerHasToken'
BY DEF SessionInv, OwnerHasToken

\* What a call can end with depends on its request and its user.
LEMMA EndsKeep ==
  ASSUME NEW r \in Slots, req' = req, \A s \in Slots \ {r} : user'[s] = user[s]
  PROVE  \A s \in Slots \ {r} : Ends(s)' = Ends(s)
BY DEF Ends

\* A request comes in, or is turned away for want of an id.
LEMMA ArriveStep ==
  ASSUME NEW r \in Slots, IInv, Arrive(r)
  PROVE  IInv'
<1> USE DEF IInv
<1>0. \A s \in Slots \ {r} : Ends(s)' = Ends(s)
  BY EndsKeep DEF Arrive, Shape
<1>1. Shape'
  BY RouteFacts DEF Arrive, Shape, PCs, WayIn
<1>2. /\ pc[r] = "idle" /\ resp[r].cookie = NoToken /\ resp[r] = Unwritten(NoToken)
      /\ done[r] = [result |-> "none", effect |-> "none"]
  BY DEF Arrive, WriterInv, SessionInv, EffectInv, WayIn
<1>3. CASE pc' = [pc EXCEPT ![r] = Route(r)] /\ resp' = resp
  <2>1. WriterInv' /\ EffectInv'
    BY <1>0, <1>2, <1>3, RouteFacts DEF Arrive, Shape, WriterInv, EffectInv, Answered, Http, WayIn,
       Says, SaysNothing
  <2>2. FilterInv'
    BY <1>2, <1>3, RouteFacts DEF Arrive, Shape, FilterInv, Passes
  <2>3. SessionInv'
    BY <1>2, <1>3, RouteFacts DEF Arrive, Shape, SessionInv, OwnerHasToken, Answered
  <2> QED  BY <1>1, <2>1, <2>2, <2>3
<1>4. CASE /\ pc' = [pc EXCEPT ![r] = "answered"]
           /\ resp' = [resp EXCEPT ![r] = Direct(@, IF Http(r) THEN "500" ELSE "Internal")]
  <2>1. \E c \in {"500", "Internal"} : resp'[r] = Direct(Unwritten(NoToken), c)
    BY <1>2, <1>4 DEF Shape
  <2>2. /\ resp'[r].head.cookie = NoToken /\ resp'[r].cookie = NoToken /\ Whole(resp'[r])
        /\ resp'[r].head.status \in {"500", "Internal"}
    <3>1. PICK c \in {"500", "Internal"} : resp'[r] = Direct(Unwritten(NoToken), c)
      BY <2>1
    <3> DEFINE h == [status |-> c, enc |-> "", cookie |-> NoToken]
    <3>2. h.status = c /\ h.enc = "" /\ h.cookie = NoToken
      OBVIOUS
    <3>3. resp'[r] = [Unwritten(NoToken) EXCEPT !.status = c, !.head = h]
      BY <3>1 DEF Direct, Unwritten
    <3> HIDE DEF h
    <3> QED  BY <3>2, <3>3 DEF Unwritten, Whole
  <2>3. WriterInv'
    BY <1>2, <1>4, <2>2 DEF Arrive, Shape, WriterInv, Answered, Http, WayIn
  <2>4. EffectInv'
    BY <1>0, <1>2, <1>4, <2>2 DEF Arrive, Shape, EffectInv, Answered, Http, WayIn,
       Says, SaysNothing, Refusals, Success
  <2>5. FilterInv'
    BY <1>2, <1>4 DEF Arrive, Shape, FilterInv, Passes
  <2>6. SessionInv'
    <3>1. OwnerHasToken'
      BY <1>2, <1>4, OwnersKeep DEF Arrive, Shape, Answered, NoToken
    <3> QED  BY <1>2, <1>4, <2>2, <3>1 DEF Arrive, Shape, SessionInv, Answered, NoToken
  <2> QED  BY <1>1, <2>3, <2>4, <2>5, <2>6
<1> QED  BY <1>3, <1>4 DEF Arrive

\* Statistics pass the filter, or are refused.
LEMMA FilterStep ==
  ASSUME NEW r \in Slots, IInv, Filter(r)
  PROVE  IInv'
<1> USE DEF IInv
<1>0. \A s \in Slots \ {r} : Ends(s)' = Ends(s)
  BY EndsKeep DEF Filter, Shape
<1>1. Shape'
  BY DEF Filter, Shape, PCs, WayIn
<1>2. /\ pc[r] = "filter" /\ resp[r].cookie = NoToken /\ resp[r] = Unwritten(NoToken)
      /\ done[r] = [result |-> "none", effect |-> "none"] /\ req[r].op = "stats"
  BY DEF Filter, WriterInv, SessionInv, EffectInv, FilterInv, WayIn
<1>3. CASE /\ pc' = [pc EXCEPT ![r] = IF Http(r) THEN "service" ELSE "auth"]
           /\ resp' = resp /\ Passes(filter, req[r].from)
  <2>1. WriterInv' /\ EffectInv'
    BY <1>0, <1>2, <1>3 DEF Filter, Shape, WriterInv, EffectInv, Answered, Http, WayIn,
       Says, SaysNothing
  <2>2. FilterInv'
    BY <1>2, <1>3 DEF Filter, Shape, FilterInv, Passes
  <2>3. SessionInv'
    BY <1>2, <1>3 DEF Filter, Shape, SessionInv, OwnerHasToken, Answered
  <2> QED  BY <1>1, <2>1, <2>2, <2>3
<1>4. CASE /\ pc' = [pc EXCEPT ![r] = "return"]
           /\ resp' = [resp EXCEPT ![r] = WriteHeader(@, req[r].accept,
                                            IF Http(r) THEN "403" ELSE "PermissionDenied")]
  <2>1. /\ IsResponse(resp'[r]) /\ Fresh(resp'[r]) /\ resp'[r].cookie = NoToken
        /\ resp'[r].status \in {"403", "PermissionDenied"}
    BY <1>2, <1>4, HeaderOfUnwritten DEF Shape
  <2>2. WriterInv'
    BY <1>2, <1>4, <2>1 DEF Filter, Shape, WriterInv, Answered, Http, WayIn
  <2>3. EffectInv'
    BY <1>0, <1>2, <1>4, <2>1 DEF Filter, Shape, EffectInv, Answered, Http, WayIn,
       Says, SaysNothing, Refusals, Success
  <2>4. FilterInv'
    BY <1>2, <1>4 DEF Filter, Shape, FilterInv, Passes
  <2>5. OwnerHasToken'
    BY <1>2, <1>4, <2>1, OwnersKeep DEF Filter, Shape, Answered, NoToken
  <2>6. SessionInv'
    BY <1>2, <1>4, <2>1, <2>5 DEF Filter, Shape, SessionInv, Answered
  <2> QED  BY <1>1, <2>2, <2>3, <2>4, <2>6
<1> QED  BY <1>3, <1>4 DEF Filter

\* A known user, a new one with his token in the header, or an error.
LEMMA AuthStep ==
  ASSUME NEW r \in Slots, IInv, Auth(r)
  PROVE  IInv'
<1> USE DEF IInv
<1>0. \A s \in Slots \ {r} : Ends(s)' = Ends(s)
  BY EndsKeep DEF Auth, Shape
<1>1. Shape'
  BY DEF Auth, Shape, PCs, WayIn
<1>2. /\ pc[r] = "auth" /\ resp[r].cookie = NoToken /\ resp[r] = Unwritten(NoToken)
      /\ done[r] = [result |-> "none", effect |-> "none"]
  BY DEF Auth, WriterInv, SessionInv, EffectInv, WayIn
<1>3. FilterInv'
  BY <1>2 DEF Auth, Shape, FilterInv, Passes
<1>4. CASE /\ Valid(token[r])
           /\ user' = [user EXCEPT ![r] = [id |-> token[r].user, new |-> FALSE]]
           /\ pc' = [pc EXCEPT ![r] = "handler"]
           /\ UNCHANGED <<issued, told, resp>>
  <2>1. WriterInv' /\ EffectInv'
    BY <1>0, <1>2, <1>4 DEF Auth, Shape, WriterInv, EffectInv, Answered, Http, WayIn,
       Says, SaysNothing
  <2>2. user'[r].id \in told /\ user'[r].id # None
    BY <1>4 DEF Shape, SessionInv, Valid
  <2>3. SessionInv'
    BY <1>2, <1>4, <2>2 DEF Auth, Shape, SessionInv, OwnerHasToken, Answered
  <2> QED  BY <1>1, <1>3, <2>1, <2>3
<1>5. ASSUME NEW u \in Users,
             user' = [user EXCEPT ![r] = [id |-> u, new |-> TRUE]],
             resp' = [resp EXCEPT ![r].cookie = NewToken(u)],
             told' = IF Http(r) THEN told ELSE told \cup {u},
             pc' = [pc EXCEPT ![r] = "handler"]
      PROVE  IInv'
  <2>1. /\ resp'[r] = Unwritten(NewToken(u)) /\ resp'[r].cookie.user = u
        /\ resp'[r] = Unwritten(resp'[r].cookie)
    <3>1. resp'[r] = [Unwritten(NoToken) EXCEPT !.cookie = NewToken(u)]
      BY <1>2, <1>5 DEF Shape
    <3>2. resp'[r] = Unwritten(NewToken(u))
      BY <3>1 DEF Unwritten
    <3>3. Unwritten(NewToken(u)).cookie = NewToken(u) /\ NewToken(u).user = u
      BY DEF Unwritten, NewToken
    <3> QED  BY <3>2, <3>3
  <2>2. WriterInv'
    BY <1>2, <1>5, <2>1 DEF Auth, Shape, WriterInv, Answered, Http, WayIn
  <2>3. EffectInv'
    BY <1>0, <1>2, <1>5 DEF Auth, Shape, EffectInv, Answered, Http, WayIn,
       Says, SaysNothing
  <2>4. OwnerHasToken'
    BY <1>2, <1>5, OwnersKeep DEF Auth, Shape, Answered, NoToken
  <2>5. u # None
    BY UsersAssumption
  <2>6. SessionInv'
    BY <1>2, <1>5, <2>1, <2>4, <2>5 DEF Auth, Shape, SessionInv, Answered
  <2> QED  BY <1>1, <1>3, <2>2, <2>3, <2>6
<1>6. CASE /\ resp' = [resp EXCEPT ![r] = WriteHeader(@, req[r].accept,
                                            IF Http(r) THEN "500" ELSE "Internal")]
           /\ pc' = [pc EXCEPT ![r] = "return"]
           /\ UNCHANGED <<issued, told, user>>
  <2>1. /\ IsResponse(resp'[r]) /\ Fresh(resp'[r]) /\ resp'[r].cookie = NoToken
        /\ resp'[r].status \in {"500", "Internal"}
    BY <1>2, <1>6, HeaderOfUnwritten DEF Shape
  <2>2. WriterInv'
    BY <1>2, <1>6, <2>1 DEF Auth, Shape, WriterInv, Answered, Http, WayIn
  <2>3. EffectInv'
    BY <1>0, <1>2, <1>6, <2>1 DEF Auth, Shape, EffectInv, Answered, Http, WayIn,
       Says, SaysNothing, Refusals, Success
  <2>4. OwnerHasToken'
    BY <1>2, <1>6, <2>1, OwnersKeep DEF Auth, Shape, Answered, NoToken
  <2>5. SessionInv'
    BY <1>2, <1>6, <2>1, <2>4 DEF Auth, Shape, SessionInv, Answered
  <2> QED  BY <1>1, <1>3, <2>2, <2>3, <2>5
<1> QED  BY <1>4, <1>5, <1>6 DEF Auth

\* The handler calls the service, or refuses what it was sent.
LEMMA HandlerStep ==
  ASSUME NEW r \in Slots, IInv, Handler(r)
  PROVE  IInv'
<1> USE DEF IInv
<1>0. \A s \in Slots \ {r} : Ends(s)' = Ends(s)
  BY EndsKeep DEF Handler, Shape
<1>1. Shape'
  BY DEF Handler, Shape, PCs, WayIn
<1>2. /\ pc[r] = "handler" /\ resp[r] = Unwritten(resp[r].cookie)
      /\ done[r] = [result |-> "none", effect |-> "none"]
  BY DEF Handler, WriterInv, EffectInv, WayIn
<1>3. FilterInv'
  BY <1>2 DEF Handler, Shape, FilterInv, Passes
<1>4. CASE pc' = [pc EXCEPT ![r] = "service"] /\ resp' = resp
  <2>1. WriterInv' /\ EffectInv'
    BY <1>0, <1>2, <1>4 DEF Handler, Shape, WriterInv, EffectInv, Answered, Http, WayIn,
       Says, SaysNothing
  <2>2. SessionInv'
    BY <1>2, <1>4 DEF Handler, Shape, SessionInv, OwnerHasToken, Answered
  <2> QED  BY <1>1, <1>3, <2>1, <2>2
<1>5. CASE /\ Refusal(r) # "ok"
           /\ pc' = [pc EXCEPT ![r] = "return"]
           /\ resp' = [resp EXCEPT ![r] = IF Refusal(r) = "none" THEN @
                                          ELSE WriteHeader(@, req[r].accept, Refusal(r))]
  <2>1. /\ Refusal(r) \in {"none", "400"}
        /\ Http(r)
        /\ Refusal(r) = "none" => SaysNothing(r)
    <3>1. CASE ~Http(r)
      BY <1>5, <3>1 DEF Refusal, Http
    <3>2. CASE Http(r) /\ req[r].body # "unreadable" /\ req[r].op # "delete"
      BY <1>5, <3>2 DEF Refusal
    <3>3. CASE Http(r) /\ (req[r].body = "unreadable" \/ req[r].op = "delete")
      <4>1. SaysNothing(r)
        BY <3>3 DEF SaysNothing
      <4> QED  BY <1>5, <3>3, <4>1 DEF Refusal
    <3> QED  BY <3>1, <3>2, <3>3
  <2>2. /\ IsResponse(resp'[r]) /\ Fresh(resp'[r]) /\ resp'[r].cookie = resp[r].cookie
        /\ resp'[r].status = Refusal(r)
    <3>1. CASE Refusal(r) = "none"
      <4>1. resp'[r] = Unwritten(resp[r].cookie)
        BY <1>2, <1>5, <3>1 DEF Shape
      <4>2. \A t : /\ IsResponse(Unwritten(t)) /\ Fresh(Unwritten(t))
                   /\ Unwritten(t).cookie = t /\ Unwritten(t).status = "none"
        BY DEF Unwritten, IsResponse, Fresh
      <4> QED  BY <3>1, <4>1, <4>2
    <3>2. CASE Refusal(r) # "none"
      BY <1>2, <1>5, <3>2, HeaderOfUnwritten DEF Shape
    <3> QED  BY <3>1, <3>2
  <2>3. WriterInv'
    BY <1>2, <1>5, <2>2 DEF Handler, Shape, WriterInv, Answered, Http, WayIn
  <2>4. EffectInv'
    BY <1>0, <1>2, <1>5, <2>1, <2>2 DEF Handler, Shape, EffectInv, Answered, Http, WayIn,
       Says, SaysNothing, Refusals, Success
  <2>5. OwnerHasToken'
    BY <1>2, <1>5, <2>2, OwnersKeep DEF Handler, Shape, Answered
  <2>6. SessionInv'
    BY <1>2, <1>5, <2>2, <2>5 DEF Handler, Shape, SessionInv, Answered
  <2> QED  BY <1>1, <1>3, <2>3, <2>4, <2>6
<1> QED  BY <1>4, <1>5 DEF Handler

\* The service is done; a store makes its user an owner.
LEMMA ServiceStep ==
  ASSUME NEW r \in Slots, IInv, Service(r)
  PROVE  IInv'
<1> USE DEF IInv
<1>1. Shape'
  BY DEF Service, Shape, PCs, WayIn
<1>2. PICK d \in Ends(r) :
        /\ done' = [done EXCEPT ![r] = d]
        /\ owners' = IF req[r].op \in {"shorten", "plain", "batch"} /\ d.effect # "none"
                     THEN owners \cup {user[r].id} ELSE owners
  BY DEF Service
<1>3. /\ pc[r] = "service" /\ pc' = [pc EXCEPT ![r] = "reply"] /\ resp' = resp /\ told' = told
      /\ req' = req /\ user' = user /\ filter' = filter /\ token' = token /\ jar' = jar
  BY DEF Service
<1>4. WriterInv'
  BY <1>3 DEF Shape, WriterInv, Answered, Http, WayIn
<1>5. EffectInv'
  <2>1. \A s \in Slots : Ends(s)' = Ends(s)
    BY <1>3 DEF Ends
  <2> QED  BY <1>2, <1>3, <2>1 DEF Shape, EffectInv, Answered, Http, WayIn, Says, SaysNothing
<1>6. FilterInv'
  BY <1>2, <1>3 DEF Shape, FilterInv, Passes
<1>7. OwnerHasToken'
  BY <1>2, <1>3 DEF Shape, SessionInv, OwnerHasToken, Answered
<1>8. SessionInv'
  BY <1>2, <1>3, <1>7 DEF Shape, SessionInv, Answered
<1> QED  BY <1>1, <1>4, <1>5, <1>6, <1>8

\* What the statuses of the handlers say of the results they stand for.
LEMMA HttpSays ==
  ASSUME NEW r \in Slots, req[r].op \in Ops, Http(r), done[r] \in Ends(r)
  PROVE  LET c == IF req[r].op = "delete" THEN "202" ELSE HttpStatus(req[r].op, done[r].result) IN
         c # "none" /\ Says(r, c)
<1> USE DEF Says, SaysNothing, Refusals, Success, Ends
<1>1. CASE req[r].op \in {"delete", "stats"}
  BY <1>1 DEF HttpStatus
<1>2. CASE req[r].op \in {"shorten", "plain"}
  BY <1>2 DEF HttpStatus, ShortenStatus
<1>3. CASE req[r].op = "batch"
  BY <1>3 DEF HttpStatus, BatchStatus
<1>4. CASE req[r].op = "list"
  BY <1>4 DEF HttpStatus, ListStatus
<1>5. CASE req[r].op = "resolve"
  BY <1>5 DEF HttpStatus, ResolveStatus
<1>6. CASE req[r].op = "ping"
  BY <1>6 DEF HttpStatus
<1> QED  BY <1>1, <1>2, <1>3, <1>4, <1>5, <1>6 DEF Ops

LEMMA GrpcSays ==
  ASSUME NEW r \in Slots, req[r].op \in Ops, ~Http(r), done[r] \in Ends(r)
  PROVE  LET c == GrpcCode(req[r].op, done[r].result) IN
         c # "none" /\ Says(r, c)
<1> USE DEF Says, SaysNothing, Refusals, Success, Ends, GrpcCode
<1>1. CASE req[r].op \in {"delete", "list"}
  BY <1>1
<1>2. CASE req[r].op \in {"shorten", "plain", "batch"}
  BY <1>2
<1>3. CASE req[r].op = "resolve"
  BY <1>3
<1>4. CASE req[r].op \in {"stats", "ping"}
  BY <1>4
<1> QED  BY <1>1, <1>2, <1>3, <1>4 DEF Ops

\* The handler answers.
LEMMA ReplyStep ==
  ASSUME NEW r \in Slots, IInv, Reply(r)
  PROVE  IInv'
<1> USE DEF IInv
<1>1. Shape'
  BY DEF Reply, Shape, PCs, WayIn
<1>2. /\ pc[r] = "reply" /\ resp[r] = Unwritten(resp[r].cookie) /\ done[r] \in Ends(r)
      /\ req[r].op \in Ops
  BY DEF Reply, Shape, WriterInv, EffectInv, WayIn
<1>3. /\ IsResponse(resp'[r]) /\ resp'[r].cookie = resp[r].cookie
      /\ Http(r) => Fresh(resp'[r]) \/ Sent(resp'[r])
      /\ resp'[r].status # "none" /\ Says(r, resp'[r].status)
  <2>1. CASE Http(r)
    BY <1>2, <2>1, HttpSays, WritersOfReply DEF Reply, Shape
  <2>2. CASE ~Http(r)
    <3>1. resp'[r] = [Unwritten(resp[r].cookie) EXCEPT !.status = GrpcCode(req[r].op, done[r].result)]
      BY <1>2, <2>2 DEF Reply, Shape
    <3>2. /\ IsResponse(resp'[r]) /\ resp'[r].cookie = resp[r].cookie
          /\ resp'[r].status = GrpcCode(req[r].op, done[r].result)
      BY <3>1 DEF Unwritten, IsResponse
    <3> QED  BY <1>2, <2>2, <3>2, GrpcSays
  <2> QED  BY <2>1, <2>2
<1>4. WriterInv'
  BY <1>2, <1>3 DEF Reply, Shape, WriterInv, Answered, Http, WayIn
<1>5. EffectInv'
  <2>1. \A s \in Slots : Ends(s)' = Ends(s)
    BY DEF Reply, Ends
  <2> QED  BY <1>2, <1>3, <2>1 DEF Reply, Shape, EffectInv, Answered, Http, WayIn, Says, SaysNothing
<1>6. FilterInv'
  BY <1>2 DEF Reply, Shape, FilterInv, Passes
<1>7. OwnerHasToken'
  BY <1>2, <1>3, OwnersKeep DEF Reply, Shape, Answered
<1>8. SessionInv'
  BY <1>2, <1>3, <1>7 DEF Reply, Shape, SessionInv, Answered
<1> QED  BY <1>1, <1>4, <1>5, <1>6, <1>8

\* The answer leaves, and tells the token in its header.
LEMMA ReturnStep ==
  ASSUME NEW r \in Slots, IInv, Return(r)
  PROVE  IInv'
<1> USE DEF IInv
<1>1. Shape'
  BY DEF Return, Shape, PCs, WayIn
<1>2. /\ pc[r] = "return" /\ IsResponse(resp[r]) /\ Says(r, resp[r].status)
      /\ resp[r].status = "none" => Http(r) /\ SaysNothing(r)
  BY DEF Return, WriterInv, EffectInv
<1>3. /\ resp'[r].cookie = resp[r].cookie /\ resp'[r].head.cookie = resp[r].cookie
      /\ Http(r) => Whole(resp'[r])
      /\ Says(r, resp'[r].head.status)
  <2>1. CASE Http(r)
    <3>1. Fresh(resp[r]) \/ Sent(resp[r])
      BY <1>2, <2>1 DEF WriterInv
    <3>2. resp'[r] = FlushHeader(CloseWriter(resp[r]))
      BY <2>1 DEF Return, Shape
    <3> QED  BY <1>2, <2>1, <3>1, <3>2, WritersOfReturn DEF Says, Refusals
  <2>2. CASE ~Http(r)
    <3> DEFINE w == resp[r]
               h == [status |-> w.status, enc |-> "", cookie |-> w.cookie]
    <3>1. resp'[r] = [w EXCEPT !.status = w.status, !.head = h]
      BY <2>2 DEF Return, Shape, Direct
    <3>2. h.status = w.status /\ h.cookie = w.cookie
      OBVIOUS
    <3> HIDE DEF h
    <3>3. resp'[r].cookie = w.cookie /\ resp'[r].head = h
      BY <1>2, <3>1 DEF IsResponse
    <3> QED  BY <1>2, <2>2, <3>2, <3>3
  <2> QED  BY <2>1, <2>2
<1>4. told' = told \cup ({resp[r].cookie.user} \ {None})
  BY <1>3 DEF Return
<1>5. WriterInv'
  BY <1>2, <1>3 DEF Return, Shape, WriterInv, Answered, Http, WayIn
<1>6. EffectInv'
  <2>1. \A s \in Slots : Ends(s)' = Ends(s)
    BY DEF Return, Ends
  <2> QED  BY <1>2, <1>3, <2>1 DEF Return, Shape, EffectInv, Answered, Http, WayIn, Says, SaysNothing
<1>7. FilterInv'
  BY <1>2 DEF Return, Shape, FilterInv, Passes
<1>8. OwnerHasToken'
  BY <1>2, <1>3, <1>4, OwnersKeep DEF Return, Shape, Answered
<1>9. SessionInv'
  BY <1>2, <1>3, <1>4, <1>8 DEF Return, Shape, SessionInv, Answered
<1> QED  BY <1>1, <1>5, <1>6, <1>7, <1>9

\* The client gets an answer and keeps its token.
LEMMA ReceiveStep ==
  ASSUME NEW r \in Slots, IInv, Receive(r)
  PROVE  IInv'
<1> USE DEF IInv
<1>1. Shape'
  BY DEF Receive, Shape, PCs, WayIn
<1>2. pc[r] = "answered" /\ Answered(r) /\ resp[r].head.cookie.user \in told \cup {None}
  BY DEF Receive, Answered, WriterInv, SessionInv
<1>3. WriterInv'
  BY <1>2 DEF Receive, Shape, WriterInv, Answered, Http, WayIn
<1>4. EffectInv'
  <2>1. \A s \in Slots : Ends(s)' = Ends(s)
    BY DEF Receive, Ends
  <2> QED  BY <1>2, <2>1 DEF Receive, Shape, EffectInv, Answered, Http, WayIn, Says, SaysNothing
<1>5. FilterInv'
  BY <1>2 DEF Receive, Shape, FilterInv, Passes
<1>6. OwnerHasToken'
  BY <1>2, OwnersKeep DEF Receive, Shape, Answered
<1>7. SessionInv'
  BY <1>2, <1>6 DEF Receive, Shape, SessionInv, Answered
<1> QED  BY <1>1, <1>3, <1>4, <1>5, <1>7

\* Nothing but the clock changes, or nothing at all.
LEMMA IdleStep == IInv /\ (Tick \/ UNCHANGED vars) => IInv'
<1> SUFFICES ASSUME IInv, Tick \/ UNCHANGED vars PROVE IInv'
  OBVIOUS
<1>1. UNCHANGED <<filter, jar, issued, owners, told, pc, req, token, user, done, resp>>
  BY DEF Tick, vars
<1>2. Shape' /\ WriterInv' /\ FilterInv'
  BY <1>1 DEF IInv, Shape, WriterInv, FilterInv, Answered, Http
<1>3. EffectInv'
  <2>1. \A s \in Slots : Ends(s)' = Ends(s)
    BY <1>1 DEF Ends
  <2> QED  BY <1>1, <2>1 DEF IInv, EffectInv, Answered, Http, Says, SaysNothing
<1>4. SessionInv'
  BY <1>1 DEF IInv, SessionInv, OwnerHasToken, Answered
<1> QED  BY <1>2, <1>3, <1>4 DEF IInv

\* The inductive invariant behind the theorems below.
THEOREM Inductive == Spec => []IInv
<1>1. IInv /\ [Next]_vars => IInv'
  BY ArriveStep, FilterStep, AuthStep, HandlerStep, ServiceStep, ReplyStep, ReturnStep,
     ReceiveStep, IdleStep DEF Next
<1> QED  BY InitIInv, <1>1, PTL DEF Spec

\* Whoever may own a url has been sent his token, or is about to be.
THEOREM OwnersAreTold == Spec => []OwnerHasToken
<1>1. IInv => OwnerHasToken
  BY DEF IInv, SessionInv
<1> QED  BY Inductive, <1>1, PTL

\* Refused requests have changed nothing, successful ones were carried out.
THEOREM StatusesAreTrue == Spec => []StatusTellsEffect
<1>1. IInv => StatusTellsEffect
  BY DEF IInv, EffectInv, Says, StatusTellsEffect
<1> QED  BY Inductive, <1>1, PTL

\* An http answer is whole, whatever layers it went through.
THEOREM AnswersAreWhole == Spec => []ResponseWhole
<1>1. IInv => ResponseWhole
  BY DEF IInv, WriterInv, Whole, ResponseWhole
<1> QED  BY Inductive, <1>1, PTL

\* Statistics are for trusted sources only.
THEOREM OnlyTrusted == Spec => []StatsOnlyTrusted
<1>1. IInv => StatsOnlyTrusted
  BY DEF IInv, FilterInv, StatsOnlyTrusted, Passes, CheckRequestParams, CheckIPList, Inside
<1> QED  BY Inductive, <1>1, PTL
=============================================================================
