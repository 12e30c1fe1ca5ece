-------------------------- MODULE MCMemoryShortener --------------------------
(***************************************************************************)
(* The instance of MemoryShortener that TLC checks: four requests over two *)
(* paths and two users, so that a path is drawn twice, deleted, given away *)
(* again, and asked to be deleted by its former user.                      *)
(***************************************************************************)
EXTENDS MemoryShortener

R(kind, user, new, urls_) == [kind |-> kind, user |-> user, new |-> new, urls |-> urls_]

MCPaths == {"p1", "p2"}
MCUsers == {"u1", "u2"}
MCOrigs == {"o1", "o2"}

MCCalls == {"c1", "c2", "c3", "c4"}

MCRequests ==
  [c1 |-> { R("shorten", "u1", TRUE, <<"o1">>), R("batch", "u1", FALSE, <<"o1", "o2">>) },
   c2 |-> { R("shorten", "u2", FALSE, <<"o1">>), R("batch", "u2", TRUE, <<"o2", "o1">>),
            R("resolve", "u2", TRUE, <<"p1">>) },
   c3 |-> { R("delete", "u1", FALSE, <<"p1", "p2">>), R("delete", "u2", TRUE, <<"p1">>) },
   c4 |-> { R("delete", "u2", FALSE, <<"p1">>), R("delete", "u1", FALSE, <<>>),
            R("shorten", "u1", FALSE, <<"o2">>), R("list", "u1", FALSE, <<>>) }]
=============================================================================
