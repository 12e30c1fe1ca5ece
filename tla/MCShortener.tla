---------------------------- MODULE MCShortener ----------------------------
(***************************************************************************)
(* The instance of Shortener that TLC checks: three requests over two      *)
(* urls, two paths and two users, so that a path collides, a url conflicts *)
(* and a deletion meets a younger row.                                     *)
(***************************************************************************)
EXTENDS Shortener

R(kind, user, new, urls) == [kind |-> kind, user |-> user, new |-> new, urls |-> urls]

MCHashes == {"h1", "h2"}
MCUsers == {"u1", "u2"}
MCOrigs == {"o1", "o2"}

MCCalls == {"c1", "c2", "c3"}

MCRequests ==
  [c1 |-> { R("shorten", "u1", FALSE, <<"o1">>), R("batch", "u1", FALSE, <<"o1", "o2">>) },
   c2 |-> { R("shorten", "u2", TRUE, <<"o1">>), R("shorten", "u2", TRUE, <<"o2">>),
            R("resolve", "u2", TRUE, <<"h1">>), R("list", "u1", FALSE, <<>>),
            R("delete", "u2", TRUE, <<"h1">>) },
   c3 |-> { R("delete", "u1", FALSE, <<"h1", "h2">>), R("delete", "u2", FALSE, <<>>) }]
=============================================================================
