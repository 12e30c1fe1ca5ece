--------------------------- MODULE MCMemoryStore ---------------------------
(***************************************************************************)
(* The instance of MemoryStore that TLC checks: three goroutines make any  *)
(* of these calls over two paths and two users, enough for two stores and  *)
(* a delete of one path, or a batch that runs beside a reader. overwrite   *)
(* is what the service passes.                                             *)
(***************************************************************************)
EXTENDS MemoryStore

U(k, o, u) == [short |-> k, orig |-> o, user |-> u]
R(kind, urls) == [kind |-> kind, urls |-> urls, overwrite |-> FALSE]

MCKeys == {"k1", "k2"}
MCUsers == {"u1", "u2"}
MCOrigs == {"o1", "o2"}

MCRequests ==
  { R("store", <<U("k1", "o1", "u1")>>), R("store", <<U("k1", "o2", "u2")>>),
    R("batch", <<U("k1", "o1", "u1"), U("k2", "o2", "u1")>>),
    R("batch", <<U("k2", "o1", "u2"), U("k2", "o2", "u2")>>),
    R("delete", <<U("k1", "o1", "u1"), U("k2", "o1", "u1")>>),
    R("get", <<U("k1", "o1", "u1")>>), R("list", <<U("k1", "o1", "u1")>>),
    R("dump", <<>>), R("stats", <<>>) }
=============================================================================
