------------------------------ MODULE Routing ------------------------------
(***************************************************************************)
(* Which site, secret and backend a host name and a bridge capability      *)
(* stand for: the pure part of src/src/config.rs (Config) and              *)
(* src/src/bridge.rs.                                                      *)
(*                                                                         *)
(* A secret as written in a configuration is [key, pad]: what it spells,   *)
(* and whether blanks surround it.  Beside the keys themselves, which are  *)
(* 16 or 17 bytes in hex, it may spell "short" (hex of another length),    *)
(* "nothex" or "empty".  Host names and hex digits are compared without    *)
(* regard to case everywhere, so one value stands for all its spellings.   *)
(***************************************************************************)
EXTENDS Integers, Sequences, FiniteSets

CONSTANT Keys   \* the keys: 16 or 17 bytes

Malformed == {"short", "nothex", "empty"}

ASSUME RoutingAssumption == Keys \cap Malformed = {}

Secret == [key : Keys \cup Malformed, pad : BOOLEAN]
NoSecret == [key |-> "empty", pad |-> FALSE]     \* the empty string
IsEmpty(s) == s = NoSecret

\* A configuration: hosts are the sites [host, secrets]; backends are
\* [secret, addr]; primary is secret_hex and extra secret_hexes.
None == [none |-> TRUE]

\* HMAC over the host name under the key: no two agree.
bridge_capability(host, key) == <<host, key>>
verify_bridge_param(host, key, cap) == cap = bridge_capability(host, key)

\* The first element of a sequence that passes Test, or None.
First(seq, Test(_)) ==
  LET hits == {n \in DOMAIN seq : Test(seq[n])}
  IN IF hits = {} THEN None
     ELSE seq[CHOOSE n \in hits : \A m \in hits : n <= m]

\* The elements of a sequence at some of its places, in order.
Nth(places, m) == CHOOSE n \in places : Cardinality({j \in places : j <= n}) = m
Picked(seq, places) == [m \in 1 .. Cardinality(places) |-> seq[Nth(places, m)]]

Nonempty(secrets) == Picked(secrets, {n \in DOMAIN secrets : ~IsEmpty(secrets[n])})

-----------------------------------------------------------------------------
(* Sites and their secrets *)

\* All secrets configured anywhere.
all_secret_hexes(c) ==
  Nonempty(<<c.primary>>) \o Nonempty(c.extra)
    \o Nonempty([n \in DOMAIN c.backends |-> c.backends[n].secret])

resolve_site(c, host) ==
  IF c.hosts # <<>>
  THEN First(c.hosts, LAMBDA site : site.host = host)
  ELSE IF host = c.public
       THEN [host |-> c.public, secrets |-> all_secret_hexes(c)]
       ELSE None

site_secret_hexes(c, host) ==
  LET site == resolve_site(c, host)
  IN IF site = None THEN <<>> ELSE site.secrets

\* decode_secret trims; hex::decode alone does not.
Decodes(s) == s.key \in Keys
DecodesAsIs(s) == Decodes(s) /\ ~s.pad

\* Mutant: the secret is decoded as it is written.
CapabilitySiteUntrimmed(c, host, cap) ==
  First(site_secret_hexes(c, host),
        LAMBDA s : DecodesAsIs(s) /\ verify_bridge_param(host, s.key, cap))

\* The secret of this host that validates the capability.
capability_site(c, host, cap) ==
  First(site_secret_hexes(c, host),
        LAMBDA s : Decodes(s) /\ verify_bridge_param(host, s.key, cap))

\* The union of the keys.  An error (ok FALSE) on the first secret that is not
\* hex, and when nothing valid is left.
secret_bytes_list(c) ==
  LET all == all_secret_hexes(c)
      keys == {all[n].key : n \in DOMAIN all}
  IN [ok |-> keys \cap Keys # {} /\ "nothex" \notin keys, keys |-> keys \cap Keys]

-----------------------------------------------------------------------------
(* Backends *)

NoAddr == "none"
AddrOr(entry, default) == IF entry = None THEN default ELSE entry.addr

\* Mutant: the last matching entry wins.
BackendForSecretLast(c, s) ==
  LET n == Len(c.backends)
  IN AddrOr(First([m \in DOMAIN c.backends |-> c.backends[n + 1 - m]],
                  LAMBDA b : b.secret = s), c.addr)

\* Compared as written, blanks included.
backend_for_secret(c, s) ==
  AddrOr(First(c.backends, LAMBDA b : b.secret = s), c.addr)

\* A session goes where the first secret of its site points, whichever secret
\* validated the capability (api_session).
session_backend(c, host) ==
  LET secrets == site_secret_hexes(c, host)
  IN backend_for_secret(c, IF secrets = <<>> THEN NoSecret ELSE secrets[1])

\* Per-secret backends first, then the primary (trimmed), then the others
\* (not trimmed).
capability_backend(c, host, cap) ==
  LET Hit(s) == verify_bridge_param(host, s.key, cap)
      entry == First(c.backends, LAMBDA b : DecodesAsIs(b.secret) /\ Hit(b.secret))
      global == \/ Decodes(c.primary) /\ Hit(c.primary)
                \/ \E n \in DOMAIN c.extra : DecodesAsIs(c.extra[n]) /\ Hit(c.extra[n])
  IN IF entry # None THEN entry.addr ELSE IF global THEN c.addr ELSE NoAddr
=============================================================================
