---------------------------- MODULE MCTransport ----------------------------
(***************************************************************************)
(* The instance of Transport that TLC checks: one request of any form the  *)
(* handlers tell apart, side by side with one that uses the session; three *)
(* addresses, the first two trusted.                                       *)
(***************************************************************************)
EXTENDS Transport

Plain == [remote |-> "out", real |-> None, xff |-> <<>>]
Q(proto, op, ctype, body, accept) ==
  [proto |-> proto, op |-> op, ctype |-> ctype, body |-> body, accept |-> accept, from |-> Plain]

Json == "application/json"

HttpForms ==
  { Q("http", op, Json, "ok", acc) : op \in {"shorten", "batch"}, acc \in {"", "gzip"} }
  \cup { Q("http", op, "other", "ok", "gzip") : op \in {"shorten", "delete"} }
  \cup { Q("http", op, Json, b, "gzip") :
           op \in {"shorten", "delete"}, b \in {"malformed", "unreadable"} }
  \cup { Q("http", "delete", Json, b, "") : b \in {"ok", "empty"} }
  \cup { Q("http", "plain", "other", b, "deflate") : b \in {"ok", "unreadable"} }
  \cup { Q("http", "list", "other", "ok", "gzip"), Q("http", "ping", "other", "ok", "") }
  \cup { Q("http", "resolve", "other", b, "gzip") : b \in {"ok", "malformed"} }

GrpcForms ==
  { Q("grpc", op, "", "ok", "") : op \in {"shorten", "batch", "list"} }
  \cup { Q("grpc", "delete", "", b, "") : b \in {"ok", "empty"} }
  \cup { Q("grpc", "resolve", "", b, "") : b \in {"ok", "empty", "malformed"} }

Sources ==
  { Plain, [Plain EXCEPT !.remote = "in1"], [Plain EXCEPT !.remote = Bad],
    [Plain EXCEPT !.real = "in2"], [Plain EXCEPT !.xff = <<"in1", "in2">>],
    [Plain EXCEPT !.xff = <<"in1", "out">>], [Plain EXCEPT !.xff = <<"in1", Bad>>],
    [Plain EXCEPT !.real = "out", !.xff = <<"in2">>] }

StatsForms == { [Q(p, "stats", "", "ok", "gzip") EXCEPT !.from = f] :
                  p \in {"http", "grpc"}, f \in Sources }

MCSlots == {"r1", "r2"}
MCUsers == {"u1", "u2"}
MCRequests ==
  [r1 |-> HttpForms \cup GrpcForms \cup StatsForms,
   r2 |-> { Q("http", "plain", "other", "ok", ""), Q("grpc", "shorten", "", "ok", ""),
            Q("http", "list", "other", "ok", "") }]
MCFilters ==
  { [subnets |-> {}, trustReal |-> TRUE, trustXFF |-> TRUE],
    [subnets |-> {{"in1"}, {"in2"}}, trustReal |-> FALSE, trustXFF |-> TRUE],
    [subnets |-> {{"in1"}, {"in2"}}, trustReal |-> TRUE, trustXFF |-> FALSE] }
=============================================================================
