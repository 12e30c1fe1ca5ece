------------------------------ MODULE IPFilter ------------------------------
(***************************************************************************)
(* internal/filter: which requests come from a trusted subnet.  A filter f *)
(* is [subnets, trustReal, trustXFF] with every subnet given as the set of *)
(* its addresses; the source of a request is [remote, real, xff].  None is *)
(* an absent field, Bad one that does not parse, and an X-Forwarded-For    *)
(* header the sequence of its parts.                                       *)
(***************************************************************************)
EXTENDS Naturals, Sequences

CONSTANTS None, Bad

\* An address is parsed and matched against the subnets one by one.
Inside(f, ip) == ip \notin {None, Bad} /\ \E s \in f.subnets : ip \in s

\* Mutant: one known hop is enough.
CheckIPListAny(f, list) == \E i \in DOMAIN list : Inside(f, list[i])

\* Every hop is inside, and there is one: a part that does not parse fails
\* the whole list.
CheckIPList(f, list) ==
  /\ list # <<>>
  /\ \A i \in DOMAIN list : Inside(f, list[i])

CheckRequestParams(f, from) ==
  \/ Inside(f, from.remote)
  \/ f.trustReal /\ Inside(f, from.real)
  \/ f.trustXFF /\ CheckIPList(f, from.xff)

\* The middleware and the interceptor: no subnet, nobody passes.
Passes(f, from) == f.subnets # {} /\ CheckRequestParams(f, from)
=============================================================================
