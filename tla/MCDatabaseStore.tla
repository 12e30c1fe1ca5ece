--------------------------- MODULE MCDatabaseStore ---------------------------
(***************************************************************************)
(* The instance of DatabaseStore that TLC checks: three calls over two     *)
(* paths, two urls and two users, so that an overwriting store meets a     *)
(* path of another url, and an url of another path, stored and deleted.    *)
(***************************************************************************)
EXTENDS DatabaseStore

U(k, o, u, t) == [short |-> k, orig |-> o, user |-> u, ts |-> t]
R(kind, over, urls) == [kind |-> kind, overwrite |-> over, urls |-> urls]

MCCalls == {"c1", "c2", "c3"}
MCHashes == {"h1", "h2"}
MCUsers == {"u1", "u2"}
MCOrigs == {"o1", "o2"}

MCRequests ==
  [c1 |-> { R("store", FALSE, <<U("h1", "o1", "u1", 0)>>),
            R("batch", FALSE, <<U("h1", "o1", "u1", 0), U("h2", "o2", "u1", 0)>>) },
   c2 |-> { R("store", TRUE, <<U("h1", "o2", "u2", 0)>>), R("store", TRUE, <<U("h2", "o1", "u1", 0)>>),
            R("store", TRUE, <<U("h1", "o1", "u1", 0)>>) },
   c3 |-> { R("delete", FALSE, <<U("h2", "", "u2", 1), U("h1", "", "u1", 0)>>),
            R("delete", FALSE, <<U("h1", "", "u1", 2)>>),
            R("store", TRUE, <<U("h2", "o1", "u2", 0)>>), R("store", FALSE, <<U("h2", "o1", "u2", 0)>>),
            R("get", FALSE, <<U("h1", "", "u1", 0)>>),
            R("list", FALSE, <<U("", "", "u1", 0)>>), R("stats", FALSE, <<>>) }]
=============================================================================
