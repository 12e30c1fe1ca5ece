------------------------------ MODULE MCConfig ------------------------------
(***************************************************************************)
(* The instance of Config that TLC checks: every parameter alone, and the  *)
(* parameters that are read together, together.                            *)
(***************************************************************************)
EXTENDS Config

Common == {"listen_addr", "grpc_listen_addr", "base_url", "redirect_scheme", "jwt_secret",
           "pprof_listen_addr", "grpc_reflection", "trust_request_id"}
Storage == {"database_dsn", "file_storage_path", "trace_db"}
TLS == {"enable", "self_signed", "key", "cert"}
FilterParams == {"trusted_subnets", "trust_x_forwarded_for", "trust_x_real_ip"}

MCParams == Common \cup Storage \cup TLS \cup FilterParams
MCSectionOf == [p \in MCParams |->
  CASE p \in Common -> "common" [] p \in Storage -> "storage"
    [] p \in TLS -> "tls" [] OTHER -> "filter"]

Defaulted == {"listen_addr", "grpc_listen_addr", "base_url", "jwt_secret",
              "file_storage_path", "trusted_subnets"}
Env == {"listen_addr", "pprof_listen_addr", "base_url", "file_storage_path", "database_dsn",
        "jwt_secret", "trusted_subnets", "enable"}
Flawed == {"base_url", "trusted_subnets", "key"}

MCDefaultOf == [p \in MCParams |-> IF p \in Defaulted THEN "default" ELSE Zero]
Flaw(p) == IF p \in Flawed THEN {Refused} ELSE {}
MCFlagVals == [p \in MCParams |-> {Zero, MCDefaultOf[p], "flag"} \cup Flaw(p)]
MCFileVals == [p \in MCParams |-> {Zero, MCDefaultOf[p], "file"} \cup Flaw(p)]
MCEnvVals == [p \in MCParams |->
  IF p \in Env THEN {Unset, Zero, "env"} \cup (IF p = "enable" THEN {Refused} ELSE Flaw(p))
  ELSE {Unset}]

MCFocus == {{p} : p \in MCParams}
           \cup {{"database_dsn", "file_storage_path"}, {"enable", "self_signed"},
                 {"enable", "key", "cert"}}
=============================================================================
