----------------------------- MODULE FleetProofs -----------------------------
(* Theorems about Fleet.tla, and with it Startup.tla and Routing.tla, for   *)
(* every value of their constants: how the look-ups of a configuration      *)
(* agree, and what the generators promise for the relay that starts on      *)
(* their files.                                                             *)
EXTENDS Fleet, FiniteSetTheorems, SequenceTheorems, WellFoundedInduction, TLAPS

-----------------------------------------------------------------------------
(* Sequences, places and elements *)

Elements(seq) == {seq[n] : n \in DOMAIN seq}

\* A set of places has a first one.
LEMMA FirstPlace ==
  ASSUME NEW places \in SUBSET Nat, places # {}
  PROVE  \E n \in places : \A m \in places : n <= m
<1>1. PICK n \in places : \A m \in places : ~(<<m, n>> \in OpToRel(<, Nat))
  BY NatLessThanWellFounded, WFMin
<1>2. ASSUME NEW m \in places, m < n PROVE FALSE
  <2>1. <<m, n>> \in Nat \X Nat /\ <<m, n>>[1] < <<m, n>>[2]
    BY <1>2
  <2>2. <<m, n>> \in OpToRel(<, Nat)
    BY <2>1 DEF OpToRel
  <2> QED
    BY <1>1, <2>2
<1>3. places \subseteq Nat
  OBVIOUS
<1>4. ASSUME NEW m \in places PROVE n <= m
  BY <1>2, <1>3, <1>4
<1> QED
  BY <1>4

\* And a last one, if they are places of a sequence.
LEMMA LastPlace ==
  ASSUME NEW len \in Nat, NEW places \in SUBSET (1 .. len), places # {}
  PROVE  \E n \in places : \A m \in places : m <= n
<1>1. PICK back : back = {len - n : n \in places}
  OBVIOUS
<1>2. back \in SUBSET Nat /\ back # {}
  <2>1. ASSUME NEW n \in places PROVE len - n \in Nat
    OBVIOUS
  <2> QED
    BY <1>1, <2>1
<1>3. PICK b \in back : \A c \in back : b <= c
  BY <1>2, FirstPlace
<1>4. PICK n \in places : b = len - n
  BY <1>1
<1>5. ASSUME NEW m \in places PROVE m <= n
  <2>1. len - m \in back
    BY <1>1
  <2>2. len - n <= len - m
    BY <1>3, <1>4, <2>1
  <2> QED
    BY <2>2
<1> QED
  BY <1>5

\* First takes an element from the first place that passes, or None.
Chosen(seq, hits) ==
  IF hits = {} THEN None ELSE seq[CHOOSE n \in hits : \A m \in hits : n <= m]

LEMMA ChosenHit ==
  ASSUME NEW seq, NEW hits \in SUBSET Nat, hits # {}
  PROVE  \E n \in hits : Chosen(seq, hits) = seq[n]
<1>1. \E n \in hits : \A m \in hits : n <= m
  BY FirstPlace
<1>2. (CHOOSE n \in hits : \A m \in hits : n <= m) \in hits
  BY <1>1
<1> QED
  BY <1>2 DEF Chosen

\* The places up to n among those given.
Rank(places, n) == Cardinality({j \in places : j <= n})

LEMMA RankBounds ==
  ASSUME NEW len \in Nat, NEW places \in SUBSET (1 .. len)
  PROVE  /\ IsFiniteSet(places) /\ Cardinality(places) \in Nat
         /\ \A n \in places : Rank(places, n) \in 1 .. Cardinality(places)
         /\ \A n, m \in places : Rank(places, n) = Rank(places, m) => n = m
<1>1. IsFiniteSet(places)
  <2>1. 1 \in Int /\ len \in Int
    OBVIOUS
  <2>2. IsFiniteSet(1 .. len)
    BY <2>1, FS_Interval
  <2> QED
    BY <2>2, FS_Subset
<1>2. Cardinality(places) \in Nat
  BY <1>1, FS_CardinalityType
<1>3. ASSUME NEW n \in places
      PROVE  /\ IsFiniteSet({j \in places : j <= n})
             /\ Rank(places, n) \in 1 .. Cardinality(places)
  <2>1. {j \in places : j <= n} \in SUBSET places
    OBVIOUS
  <2>2. /\ IsFiniteSet({j \in places : j <= n})
        /\ Cardinality({j \in places : j <= n}) <= Cardinality(places)
    BY <1>1, <2>1, FS_Subset
  <2>3. n \in {j \in places : j <= n}
    OBVIOUS
  <2>4. Cardinality({j \in places : j <= n}) \in Nat /\ Cardinality({j \in places : j <= n}) # 0
    BY <2>2, <2>3, FS_CardinalityType, FS_EmptySet
  <2> QED
    BY <1>2, <2>2, <2>4 DEF Rank
<1>4. ASSUME NEW n \in places, NEW m \in places, n < m
      PROVE  Rank(places, n) # Rank(places, m)
  <2>1. PICK low, high : /\ low = {j \in places : j <= n}
                         /\ high = {j \in places : j <= m}
    OBVIOUS
  <2>2. low \in SUBSET high /\ m \in high /\ m \notin low
    <3>1. ASSUME NEW j \in places, j <= n PROVE j <= m
      BY <1>4, <3>1
    <3>2. ~(m <= n) /\ m <= m
      BY <1>4
    <3> QED
      BY <2>1, <3>1, <3>2
  <2>3. IsFiniteSet(high)
    BY <1>3, <2>1
  <2>4. Cardinality(high) # Cardinality(low)
    BY <2>2, <2>3, FS_Subset
  <2> QED
    BY <2>1, <2>4 DEF Rank
<1>5. ASSUME NEW n \in places, NEW m \in places, Rank(places, n) = Rank(places, m)
      PROVE  n = m
  BY <1>4, <1>5
<1> QED
  BY <1>1, <1>2, <1>3, <1>5

\* Nth numbers the places, one by one.
LEMMA NthPlaces ==
  ASSUME NEW len \in Nat, NEW places \in SUBSET (1 .. len)
  PROVE  /\ \A m \in 1 .. Cardinality(places) : Nth(places, m) \in places
         /\ \A n \in places : \E m \in 1 .. Cardinality(places) : Nth(places, m) = n
<1> DEFINE rank == [n \in places |-> Rank(places, n)]
           size == Cardinality(places)
<1>1. /\ IsFiniteSet(places) /\ size \in Nat
      /\ \A n \in places : Rank(places, n) \in 1 .. size
      /\ \A n, m \in places : Rank(places, n) = Rank(places, m) => n = m
  BY RankBounds
<1>2. rank \in Injection(places, 1 .. size)
  BY <1>1 DEF Injection, IsInjective
<1>3. IsFiniteSet(1 .. size) /\ Cardinality(1 .. size) = size
  BY <1>1, FS_Interval
<1>4. rank \in Surjection(places, 1 .. size)
  BY <1>2, <1>3, FS_Injection
<1>5. ASSUME NEW m \in 1 .. size PROVE \E n \in places : Rank(places, n) = m
  BY <1>4 DEF Surjection
<1>6. ASSUME NEW m \in 1 .. size
      PROVE  Nth(places, m) \in places /\ Rank(places, Nth(places, m)) = m
  <2>1. \E n \in places : Cardinality({j \in places : j <= n}) = m
    BY <1>5 DEF Rank
  <2> QED
    BY <2>1 DEF Nth, Rank
<1>7. ASSUME NEW n \in places PROVE Nth(places, Rank(places, n)) = n
  BY <1>1, <1>6
<1> QED
  BY <1>1, <1>6, <1>7

\* Picked has the elements at those places, and no other.
LEMMA PickedElements ==
  ASSUME NEW S, NEW seq \in Seq(S), NEW places \in SUBSET DOMAIN seq
  PROVE  /\ Picked(seq, places) \in Seq(S)
         /\ Elements(Picked(seq, places)) = {seq[n] : n \in places}
<1>1. Len(seq) \in Nat /\ DOMAIN seq = 1 .. Len(seq) /\ \A n \in DOMAIN seq : seq[n] \in S
  BY LenProperties, ElementOfSeq
<1>2. PICK size : size = Cardinality(places)
  OBVIOUS
<1>3. /\ size \in Nat
      /\ \A m \in 1 .. size : Nth(places, m) \in places
      /\ \A n \in places : \E m \in 1 .. size : Nth(places, m) = n
  BY <1>1, <1>2, RankBounds, NthPlaces
<1>4. PICK kept : kept = [m \in 1 .. size |-> seq[Nth(places, m)]]
  OBVIOUS
<1>5. kept \in [1 .. size -> S] /\ DOMAIN kept = 1 .. size
  BY <1>1, <1>3, <1>4
<1>6. kept \in Seq(S)
  BY <1>3, <1>5, SeqDef
<1>7. ASSUME NEW m \in 1 .. size PROVE \E n \in places : kept[m] = seq[n]
  BY <1>3, <1>4
<1>8. ASSUME NEW n \in places PROVE \E m \in 1 .. size : kept[m] = seq[n]
  BY <1>3, <1>4
<1>9. {kept[m] : m \in 1 .. size} = {seq[n] : n \in places}
  BY <1>7, <1>8
<1> QED
  BY <1>2, <1>4, <1>5, <1>6, <1>9 DEF Picked, Elements

LEMMA ConcatElements ==
  ASSUME NEW S, NEW s \in Seq(S), NEW t \in Seq(S)
  PROVE  s \o t \in Seq(S) /\ Elements(s \o t) = Elements(s) \cup Elements(t)
<1>1. /\ Len(s) \in Nat /\ DOMAIN s = 1 .. Len(s)
      /\ Len(t) \in Nat /\ DOMAIN t = 1 .. Len(t)
  BY LenProperties
<1>2. /\ s \o t \in Seq(S) /\ Len(s \o t) = Len(s) + Len(t)
      /\ \A i \in 1 .. Len(s) + Len(t) :
           (s \o t)[i] = IF i <= Len(s) THEN s[i] ELSE t[i - Len(s)]
  BY ConcatProperties
<1>3. PICK a, b, u : a = Len(s) /\ b = Len(t) /\ u = s \o t
  OBVIOUS
<1>4. /\ DOMAIN u = 1 .. a + b /\ a \in Nat /\ b \in Nat
      /\ \A i \in 1 .. a + b : u[i] = IF i <= a THEN s[i] ELSE t[i - a]
  BY <1>1, <1>2, <1>3, LenProperties
<1>5. ASSUME NEW i \in 1 .. a + b PROVE u[i] \in Elements(s) \cup Elements(t)
  <2>1. CASE i <= a
    <3>1. i \in DOMAIN s /\ u[i] = s[i]
      BY <1>1, <1>3, <1>4, <2>1
    <3> QED
      BY <3>1 DEF Elements
  <2>2. CASE ~(i <= a)
    <3>1. i - a \in DOMAIN t /\ u[i] = t[i - a]
      BY <1>1, <1>3, <1>4, <2>2
    <3> QED
      BY <3>1 DEF Elements
  <2> QED
    BY <2>1, <2>2
<1>6. ASSUME NEW i \in DOMAIN s PROVE s[i] \in Elements(u)
  <2>1. i \in DOMAIN u /\ u[i] = s[i]
    BY <1>1, <1>3, <1>4
  <2> QED
    BY <2>1 DEF Elements
<1>7. ASSUME NEW i \in DOMAIN t PROVE t[i] \in Elements(u)
  <2>1. a + i \in 1 .. a + b /\ ~(a + i <= a) /\ a + i - a = i
    BY <1>1, <1>3, <1>4
  <2>2. a + i \in DOMAIN u /\ u[a + i] = t[i]
    BY <1>4, <2>1
  <2> QED
    BY <2>2 DEF Elements
<1>8. Elements(u) = Elements(s) \cup Elements(t)
  BY <1>4, <1>5, <1>6, <1>7 DEF Elements
<1> QED
  BY <1>2, <1>3, <1>8

LEMMA OneElement ==
  ASSUME NEW S, NEW e \in S
  PROVE  <<e>> \in Seq(S) /\ Elements(<<e>>) = {e}
<1>1. <<e>> \in Seq(S) /\ DOMAIN <<e>> = 1 .. 1 /\ <<e>>[1] = e
  OBVIOUS
<1> QED
  BY <1>1 DEF Elements

LEMMA NoElement ==
  ASSUME NEW S
  PROVE  <<>> \in Seq(S) /\ Elements(<<>>) = {} /\ DOMAIN <<>> = {}
<1>1. <<>> \in Seq(S) /\ DOMAIN <<>> = {}
  BY EmptySeq, LenProperties
<1> QED
  BY <1>1 DEF Elements

-----------------------------------------------------------------------------
(* Looking a configuration up *)

SiteOf == [host : Text, secrets : Seq(Secret)]
Backends(Addrs) == [secret : Secret, addr : Addrs]

\* The fields of a configuration, and what tells its parts from None.
LEMMA Parts ==
  ASSUME NEW Addrs, NEW c \in Configuration(Addrs)
  PROVE  /\ c.hosts \in Seq(SiteOf) /\ c.primary \in Secret /\ c.extra \in Seq(Secret)
         /\ c.backends \in Seq(Backends(Addrs)) /\ c.addr \in Addrs /\ c.public \in Text
  BY DEF Configuration, SiteOf, Backends

LEMMA NotNone ==
  /\ \A s \in Secret : s # None
  /\ \A site : None # [host |-> site.host, secrets |-> site.secrets]
  /\ \A site \in SiteOf : site # None
  /\ \A Addrs : \A b \in Backends(Addrs) : b # None
<1>1. ASSUME NEW Dom, NEW f, f = None, "none" \notin Dom PROVE DOMAIN f # Dom
  BY <1>1 DEF None
<1>2. \A s \in Secret : DOMAIN s = {"key", "pad"}
  BY DEF Secret
<1>3. \A site \in SiteOf : DOMAIN site = {"host", "secrets"}
  BY DEF SiteOf
<1>4. \A Addrs : \A b \in Backends(Addrs) : DOMAIN b = {"secret", "addr"}
  BY DEF Backends
<1> QED
  BY <1>1, <1>2, <1>3, <1>4

BackendSecrets(c) == [n \in DOMAIN c.backends |-> c.backends[n].secret]

\* Nonempty drops the empty strings.
LEMMA NonemptyElements ==
  ASSUME NEW seq \in Seq(Secret)
  PROVE  /\ Nonempty(seq) \in Seq(Secret)
         /\ Elements(Nonempty(seq)) = {s \in Elements(seq) : ~IsEmpty(s)}
<1>1. PICK places : places = {n \in DOMAIN seq : ~IsEmpty(seq[n])}
  OBVIOUS
<1>2. places \in SUBSET DOMAIN seq
  BY <1>1
<1>3. /\ Picked(seq, places) \in Seq(Secret)
      /\ Elements(Picked(seq, places)) = {seq[n] : n \in places}
  BY <1>2, PickedElements
<1>4. {seq[n] : n \in places} = {s \in Elements(seq) : ~IsEmpty(s)}
  BY <1>1 DEF Elements
<1> QED
  BY <1>1, <1>3, <1>4 DEF Nonempty

\* Every secret of a configuration.
SecretsOf(c) == {c.primary} \cup Elements(c.extra) \cup Elements(BackendSecrets(c))

LEMMA BackendSecretsTyped ==
  ASSUME NEW Addrs, NEW c \in Configuration(Addrs)
  PROVE  /\ BackendSecrets(c) \in Seq(Secret)
         /\ DOMAIN BackendSecrets(c) = DOMAIN c.backends
         /\ \A n \in DOMAIN c.backends : c.backends[n] \in Backends(Addrs)
<1>1. /\ DOMAIN c.backends = 1 .. Len(c.backends) /\ Len(c.backends) \in Nat
      /\ \A n \in DOMAIN c.backends : c.backends[n] \in Backends(Addrs)
  BY Parts, LenProperties, ElementOfSeq
<1>2. \A n \in DOMAIN c.backends : c.backends[n].secret \in Secret
  BY <1>1 DEF Backends
<1>3. BackendSecrets(c) \in [1 .. Len(c.backends) -> Secret]
  BY <1>1, <1>2 DEF BackendSecrets
<1> QED
  BY <1>1, <1>3, SeqDef DEF BackendSecrets

\* all_secret_hexes has them all, but for the empty ones.
LEMMA AllSecrets ==
  ASSUME NEW Addrs, NEW c \in Configuration(Addrs)
  PROVE  /\ all_secret_hexes(c) \in Seq(Secret)
         /\ Elements(all_secret_hexes(c)) = {s \in SecretsOf(c) : ~IsEmpty(s)}
<1>1. /\ <<c.primary>> \in Seq(Secret) /\ Elements(<<c.primary>>) = {c.primary}
      /\ c.extra \in Seq(Secret) /\ BackendSecrets(c) \in Seq(Secret)
  BY Parts, OneElement, BackendSecretsTyped
<1>2. PICK one, two, three : /\ one = Nonempty(<<c.primary>>)
                             /\ two = Nonempty(c.extra)
                             /\ three = Nonempty(BackendSecrets(c))
  OBVIOUS
<1>3. /\ one \in Seq(Secret) /\ two \in Seq(Secret) /\ three \in Seq(Secret)
      /\ Elements(one) = {s \in {c.primary} : ~IsEmpty(s)}
      /\ Elements(two) = {s \in Elements(c.extra) : ~IsEmpty(s)}
      /\ Elements(three) = {s \in Elements(BackendSecrets(c)) : ~IsEmpty(s)}
  BY <1>1, <1>2, NonemptyElements
<1>4. PICK front : front = one \o two
  OBVIOUS
<1>5. front \in Seq(Secret) /\ Elements(front) = Elements(one) \cup Elements(two)
  BY <1>3, <1>4, ConcatElements
<1>6. /\ front \o three \in Seq(Secret)
      /\ Elements(front \o three) = Elements(front) \cup Elements(three)
  BY <1>3, <1>5, ConcatElements
<1>7. all_secret_hexes(c) = front \o three
  BY <1>2, <1>4 DEF all_secret_hexes, BackendSecrets
<1>8. Elements(one) \cup Elements(two) \cup Elements(three) = {s \in SecretsOf(c) : ~IsEmpty(s)}
  BY <1>3 DEF SecretsOf
<1> QED
  BY <1>5, <1>6, <1>7, <1>8

\* The site of a host: without hosts the public one, with hosts the first of
\* that name.
LEMMA SiteSecrets ==
  ASSUME NEW Addrs, NEW c \in Configuration(Addrs), NEW host
  PROVE  /\ site_secret_hexes(c, host) \in Seq(Secret)
         /\ c.hosts = <<>> /\ host = c.public =>
              site_secret_hexes(c, host) = all_secret_hexes(c)
         /\ c.hosts = <<>> /\ host # c.public => site_secret_hexes(c, host) = <<>>
         /\ c.hosts # <<>> /\ (\A n \in DOMAIN c.hosts : c.hosts[n].host # host) =>
              site_secret_hexes(c, host) = <<>>
         /\ c.hosts # <<>> /\ (\E n \in DOMAIN c.hosts : c.hosts[n].host = host) =>
              \E n \in DOMAIN c.hosts : /\ c.hosts[n].host = host
                                        /\ site_secret_hexes(c, host) = c.hosts[n].secrets
<1>1. <<>> \in Seq(Secret) /\ all_secret_hexes(c) \in Seq(Secret)
  BY NoElement, AllSecrets
<1>2. CASE c.hosts = <<>> /\ host = c.public
  <2>1. resolve_site(c, host) = [host |-> c.public, secrets |-> all_secret_hexes(c)]
    BY <1>2 DEF resolve_site
  <2>2. resolve_site(c, host) \in SiteOf
    BY <1>1, <2>1, Parts DEF SiteOf
  <2>3. resolve_site(c, host) # None
    BY <2>2, NotNone
  <2> QED
    BY <1>1, <1>2, <2>1, <2>3 DEF site_secret_hexes
<1>3. CASE c.hosts = <<>> /\ host # c.public
  <2>1. resolve_site(c, host) = None
    BY <1>3 DEF resolve_site
  <2> QED
    BY <1>1, <1>3, <2>1 DEF site_secret_hexes
<1>4. CASE c.hosts # <<>>
  <2>1. PICK hits : hits = {n \in DOMAIN c.hosts : c.hosts[n].host = host}
    OBVIOUS
  <2>2. resolve_site(c, host) = Chosen(c.hosts, hits)
    BY <1>4, <2>1 DEF resolve_site, First, Chosen
  <2>3. /\ DOMAIN c.hosts \subseteq Nat
        /\ \A n \in DOMAIN c.hosts : c.hosts[n] \in SiteOf
    BY Parts, LenProperties, ElementOfSeq
  <2>4. CASE hits = {}
    <3>1. resolve_site(c, host) = None
      BY <2>2, <2>4 DEF Chosen
    <3> QED
      BY <1>1, <1>4, <2>1, <2>4, <3>1 DEF site_secret_hexes
  <2>5. CASE hits # {}
    <3>1. hits \in SUBSET Nat
      BY <2>1, <2>3
    <3>2. PICK n \in hits : resolve_site(c, host) = c.hosts[n]
      BY <2>2, <2>5, <3>1, ChosenHit
    <3>3. /\ n \in DOMAIN c.hosts /\ c.hosts[n].host = host /\ c.hosts[n] \in SiteOf
      BY <2>1, <2>3
    <3>4. c.hosts[n] # None /\ c.hosts[n].secrets \in Seq(Secret)
      BY <3>3, NotNone DEF SiteOf
    <3>5. site_secret_hexes(c, host) = c.hosts[n].secrets
      BY <3>2, <3>4 DEF site_secret_hexes
    <3> QED
      BY <1>4, <3>3, <3>4, <3>5
  <2> QED
    BY <2>4, <2>5
<1> QED
  BY <1>2, <1>3, <1>4

\* A capability opens a site when one of the site's secrets spells its key.
LEMMA CapabilityOpens ==
  ASSUME NEW Addrs, NEW c \in Configuration(Addrs), NEW host, NEW key \in Keys
  PROVE  LET found == capability_site(c, host, bridge_capability(host, key)) IN
         /\ found # None <=>
              \E s \in Elements(site_secret_hexes(c, host)) : s.key = key
         /\ found # None =>
              found \in Elements(site_secret_hexes(c, host)) /\ found.key = key
<1>1. PICK seq : seq = site_secret_hexes(c, host)
  OBVIOUS
<1>2. seq \in Seq(Secret)
  BY <1>1, SiteSecrets
<1>3. PICK hits :
        hits = {n \in DOMAIN seq :
                  /\ Decodes(seq[n])
                  /\ verify_bridge_param(host, seq[n].key, bridge_capability(host, key))}
  OBVIOUS
<1>4. ASSUME NEW s
      PROVE  Decodes(s) /\ verify_bridge_param(host, s.key, bridge_capability(host, key))
               <=> s.key = key
  BY DEF Decodes, verify_bridge_param, bridge_capability
<1>5. capability_site(c, host, bridge_capability(host, key)) = Chosen(seq, hits)
  BY <1>1, <1>3 DEF capability_site, First, Chosen
<1>6. DOMAIN seq \subseteq Nat /\ \A n \in DOMAIN seq : seq[n] \in Secret
  BY <1>2, LenProperties, ElementOfSeq
<1>7. CASE hits = {}
  BY <1>1, <1>3, <1>4, <1>5, <1>7 DEF Chosen, Elements
<1>8. CASE hits # {}
  <2>1. hits \in SUBSET Nat
    BY <1>3, <1>6
  <2>2. PICK n \in hits : Chosen(seq, hits) = seq[n]
    BY <1>8, <2>1, ChosenHit
  <2>3. n \in DOMAIN seq /\ seq[n].key = key /\ seq[n] \in Secret
    BY <1>3, <1>4, <1>6
  <2>4. seq[n] # None /\ seq[n] \in Elements(seq)
    BY <2>3, NotNone DEF Elements
  <2> QED
    BY <1>1, <1>5, <2>2, <2>3, <2>4
<1> QED
  BY <1>7, <1>8

\* On the public host a capability opens for the keys that are configured.
LEMMA PublicOpens ==
  ASSUME NEW Addrs, NEW c \in Configuration(Addrs), c.hosts = <<>>, NEW key \in Keys
  PROVE  LET found == capability_site(c, c.public, bridge_capability(c.public, key)) IN
         /\ found # None <=> \E s \in SecretsOf(c) : s.key = key
         /\ found # None => found \in SecretsOf(c) /\ found.key = key
<1>1. Elements(site_secret_hexes(c, c.public)) = {s \in SecretsOf(c) : ~IsEmpty(s)}
  BY SiteSecrets, AllSecrets
<1>2. ASSUME NEW s, s.key = key PROVE ~IsEmpty(s)
  BY <1>2, RoutingAssumption DEF IsEmpty, NoSecret, Malformed
<1> QED
  BY <1>1, <1>2, CapabilityOpens

\* secret_bytes_list has the keys among them.
LEMMA ListedKeys ==
  ASSUME NEW Addrs, NEW c \in Configuration(Addrs)
  PROVE  \A key \in Keys : key \in secret_bytes_list(c).keys
                             <=> \E s \in SecretsOf(c) : s.key = key
<1>1. PICK all : all = all_secret_hexes(c)
  OBVIOUS
<1>2. Elements(all) = {s \in SecretsOf(c) : ~IsEmpty(s)}
  BY <1>1, AllSecrets
<1>3. secret_bytes_list(c).keys = {all[n].key : n \in DOMAIN all} \cap Keys
  BY <1>1 DEF secret_bytes_list
<1>4. {all[n].key : n \in DOMAIN all} = {s.key : s \in Elements(all)}
  BY DEF Elements
<1>5. ASSUME NEW s, s.key \in Keys PROVE ~IsEmpty(s)
  BY <1>5, RoutingAssumption DEF IsEmpty, NoSecret, Malformed
<1> QED
  BY <1>2, <1>3, <1>4, <1>5

\* The primary secret or a further one spells the capability's key.
Spelled(c, host, cap) ==
  \/ Decodes(c.primary) /\ verify_bridge_param(host, c.primary.key, cap)
  \/ \E n \in DOMAIN c.extra :
       DecodesAsIs(c.extra[n]) /\ verify_bridge_param(host, c.extra[n].key, cap)

\* A capability that opens the site leads where the secret it is traced to
\* leads, while no secret has blanks around it.
LEMMA RoutesMeet ==
  ASSUME NEW Addrs, NEW c \in Configuration(Addrs), c.hosts = <<>>,
         \A s \in SecretsOf(c) : ~s.pad,
         NEW host, NEW key \in Keys,
         capability_site(c, host, bridge_capability(host, key)) # None
  PROVE  capability_backend(c, host, bridge_capability(host, key))
           = backend_for_secret(c, capability_site(c, host, bridge_capability(host, key)))
<1>1. PICK s : s = capability_site(c, host, bridge_capability(host, key))
  OBVIOUS
<1>2. host = c.public
  <2>1. site_secret_hexes(c, host) # <<>>
    BY CapabilityOpens, NoElement
  <2> QED
    BY <2>1, SiteSecrets
<1>3. s \in SecretsOf(c) /\ s.key = key
  BY <1>1, <1>2, PublicOpens
<1>4. SecretsOf(c) \subseteq Secret
  <2>1. c.primary \in Secret /\ c.extra \in Seq(Secret) /\ BackendSecrets(c) \in Seq(Secret)
    BY Parts, BackendSecretsTyped
  <2>2. \A seq \in Seq(Secret) : Elements(seq) \subseteq Secret
    BY LenProperties, ElementOfSeq DEF Elements
  <2> QED
    BY <2>1, <2>2 DEF SecretsOf
<1>5. ASSUME NEW t \in SecretsOf(c) PROVE t.key = key <=> t = s
  <2>1. t \in Secret /\ s \in Secret /\ ~t.pad /\ ~s.pad
    BY <1>3, <1>4
  <2> QED
    BY <1>3, <2>1 DEF Secret
<1>6. ASSUME NEW t \in SecretsOf(c)
      PROVE  DecodesAsIs(t) /\ verify_bridge_param(host, t.key, bridge_capability(host, key))
               <=> t = s
  BY <1>5 DEF DecodesAsIs, Decodes, verify_bridge_param, bridge_capability
<1>7. PICK hits : hits = {n \in DOMAIN c.backends : c.backends[n].secret = s}
  OBVIOUS
<1>8. PICK hits2 :
        hits2 = {n \in DOMAIN c.backends :
                   /\ DecodesAsIs(c.backends[n].secret)
                   /\ verify_bridge_param(host, c.backends[n].secret.key,
                                          bridge_capability(host, key))}
  OBVIOUS
<1>9. \A n \in DOMAIN c.backends : c.backends[n].secret \in SecretsOf(c)
  BY BackendSecretsTyped DEF SecretsOf, Elements, BackendSecrets
<1>10. hits2 = hits
  BY <1>6, <1>7, <1>8, <1>9
<1>11. PICK entry : entry = Chosen(c.backends, hits)
  OBVIOUS
<1>12. backend_for_secret(c, s) = AddrOr(entry, c.addr)
  BY <1>7, <1>11 DEF backend_for_secret, First, Chosen
<1>14. capability_backend(c, host, bridge_capability(host, key))
         = IF entry # None THEN entry.addr
           ELSE IF Spelled(c, host, bridge_capability(host, key)) THEN c.addr ELSE NoAddr
  <2>1. entry = Chosen(c.backends, hits2)
    BY <1>10, <1>11
  <2>2. entry = First(c.backends,
                      LAMBDA b : /\ DecodesAsIs(b.secret)
                                 /\ verify_bridge_param(host, b.secret.key,
                                                        bridge_capability(host, key)))
    BY <1>8, <2>1 DEF First, Chosen
  <2> QED
    BY <2>2 DEF capability_backend, Spelled
<1>15. CASE hits # {}
  <2>1. hits \in SUBSET Nat /\ hits \subseteq DOMAIN c.backends
    BY <1>7, Parts, LenProperties
  <2>2. entry # None
    BY <1>11, <1>15, <2>1, ChosenHit, BackendSecretsTyped, NotNone
  <2> QED
    BY <1>1, <1>12, <1>14, <2>2 DEF AddrOr
<1>16. CASE hits = {}
  <2>1. entry = None
    BY <1>11, <1>16 DEF Chosen
  <2>2. s \notin Elements(BackendSecrets(c))
    BY <1>7, <1>16, BackendSecretsTyped DEF Elements, BackendSecrets
  <2>3. c.primary \in SecretsOf(c) /\ Elements(c.extra) \subseteq SecretsOf(c)
    BY DEF SecretsOf
  <2>6. Spelled(c, host, bridge_capability(host, key))
    <3>1. CASE s = c.primary
      BY <1>6, <2>3, <3>1 DEF DecodesAsIs, Spelled
    <3>2. CASE s \in Elements(c.extra)
      <4>1. PICK n \in DOMAIN c.extra : s = c.extra[n]
        BY <3>2 DEF Elements
      <4> QED
        BY <1>3, <1>6, <4>1 DEF Spelled
    <3> QED
      BY <1>3, <2>2, <3>1, <3>2 DEF SecretsOf
  <2> QED
    BY <1>1, <1>12, <1>14, <2>1, <2>6 DEF AddrOr
<1> QED
  BY <1>15, <1>16

-----------------------------------------------------------------------------
(* Starting *)

\* Addresses as they are written by hand and by the generators.
Written == Text \cup {Addr(p) : p \in Nat}
Config == Configuration(Written)

Sources ==
  /\ file \in Config \cup {None} /\ cfg \in Config
  /\ env \in Environment /\ cli \in CommandLine

\* The parts an override replaces.
LEMMA EnvOverrides ==
  ASSUME NEW c \in Config, NEW p \in Secret, NEW x \in Seq(Secret), NEW h \in Text,
         NEW a \in Written
  PROVE  [c EXCEPT !.primary = p, !.extra = x, !.public = h, !.addr = a] \in Config
  BY DEF Config, Configuration

LEMMA CliOverrides ==
  ASSUME NEW c \in Config, NEW p \in Secret, NEW h \in Text, NEW b \in Seq(Backends(Written))
  PROVE  [c EXCEPT !.public = h, !.primary = p, !.backends = b] \in Config
  BY DEF Config, Configuration, Backends

LEMMA DefaultTyped == Default \in Config
<1>1. /\ <<>> \in Seq([host : Text, secrets : Seq(Secret)]) /\ <<>> \in Seq(Secret)
      /\ <<>> \in Seq([secret : Secret, addr : Written])
  BY EmptySeq
<1>2. NoSecret \in Secret
  BY DEF NoSecret, Secret, Malformed
<1>3. "proxy" \in Text /\ "default" \in Written
  BY DEF Text, Written
<1> QED
  BY <1>1, <1>2, <1>3 DEF Default, Config, Configuration

LEMMA CliBackendsTyped ==
  ASSUME Sources
  PROVE  CliBackends \in Seq(Backends(Written))
<1>1. PICK secrets : secrets = Nonempty(cli.secrets)
  OBVIOUS
<1>2. secrets \in Seq(Secret)
  BY <1>1, NonemptyElements DEF Sources, CommandLine
<1>3. /\ DOMAIN secrets = 1 .. Len(secrets) /\ Len(secrets) \in Nat
      /\ \A n \in DOMAIN secrets : secrets[n] \in Secret
  BY <1>2, LenProperties, ElementOfSeq
<1>4. cfg.addr \in Written
  BY DEF Sources, Config, Configuration
<1>5. [n \in DOMAIN secrets |-> [secret |-> secrets[n], addr |-> cfg.addr]]
        \in [1 .. Len(secrets) -> Backends(Written)]
  BY <1>3, <1>4 DEF Backends
<1> QED
  BY <1>1, <1>3, <1>5, SeqDef DEF CliBackends

\* main only ever has a configuration of these types in hand.
LEMMA SourcesKept ==
  ASSUME Sources, SNext
  PROVE  Sources'
<1>1. CASE Load
  BY <1>1 DEF Load, Sources
<1>2. CASE apply_env
  <2>1. /\ env.secret \in Secret /\ env.secrets \in Seq(Secret)
        /\ env.hostname \in Text /\ env.mproxy \in Text
    BY DEF Sources, Environment
  <2>2. /\ cfg.primary \in Secret /\ cfg.extra \in Seq(Secret) /\ cfg.public \in Text
        /\ cfg.addr \in Written /\ cfg \in Config
    BY DEF Sources, Config, Configuration
  <2>3. Nonempty(env.secrets) \in Seq(Secret)
    BY <2>1, NonemptyElements
  <2>4. PICK p \in Secret, x \in Seq(Secret), h \in Text, a \in Written :
          cfg' = [cfg EXCEPT !.primary = p, !.extra = x, !.public = h, !.addr = a]
    <3>1. /\ (IF IsEmpty(env.secret) THEN cfg.primary ELSE env.secret) \in Secret
          /\ (IF env.secrets = <<>> THEN cfg.extra ELSE Nonempty(env.secrets)) \in Seq(Secret)
          /\ (IF env.hostname = "" THEN cfg.public ELSE env.hostname) \in Text
          /\ (IF env.mproxy = "" THEN cfg.addr ELSE env.mproxy) \in Written
      BY <2>1, <2>2, <2>3 DEF Written
    <3> QED
      BY <1>2, <3>1 DEF apply_env
  <2>5. cfg' \in Config
    BY <2>2, <2>4, EnvOverrides
  <2> QED
    BY <1>2, <2>5 DEF apply_env, Sources
<1>3. CASE ApplyCli
  <2>1. cli.hostname \in Text /\ cli.secrets \in Seq(Secret)
    BY DEF Sources, CommandLine
  <2>2. /\ cfg.primary \in Secret /\ cfg.public \in Text /\ cfg \in Config
        /\ cfg.backends \in Seq(Backends(Written))
    BY DEF Sources, Config, Configuration, Backends
  <2>3. cfg.backends \o CliBackends \in Seq(Backends(Written))
    BY <2>2, CliBackendsTyped, ConcatProperties
  <2>4. PICK p \in Secret, h \in Text, b \in Seq(Backends(Written)) :
          cfg' = [cfg EXCEPT !.public = h, !.primary = p, !.backends = b]
    <3>1. /\ (IF cli.secrets # <<>> /\ IsEmpty(cfg.primary)
              THEN cli.secrets[1] ELSE cfg.primary) \in Secret
          /\ (IF cli.hostname = "" THEN cfg.public ELSE cli.hostname) \in Text
      <4>1. ASSUME cli.secrets # <<>> PROVE cli.secrets[1] \in Secret
        <5>1. 1 \in 1 .. Len(cli.secrets)
          BY <2>1, <4>1, EmptySeq
        <5> QED
          BY <2>1, <5>1, ElementOfSeq
      <4> QED
        BY <2>1, <2>2, <4>1
    <3> QED
      BY <1>3, <2>3, <3>1 DEF ApplyCli
  <2>5. cfg' \in Config
    BY <2>2, <2>4, CliOverrides
  <2> QED
    BY <1>3, <2>5 DEF ApplyCli, Sources
<1>4. CASE Serve
  BY <1>4 DEF Serve, Sources, svars
<1> QED
  BY <1>1, <1>2, <1>3, <1>4 DEF SNext

\* With neither environment nor command line the file is what is served.
LEMMA NothingOverrides ==
  ASSUME Sources, env = Unset, cli = NoOptions
  PROVE  /\ apply_env => cfg' = cfg
         /\ ApplyCli => cfg' = cfg
<1>1. /\ cfg.backends \in Seq(Backends(Written))
      /\ \A p, x, h, a : /\ p = cfg.primary /\ x = cfg.extra /\ h = cfg.public /\ a = cfg.addr
           => [cfg EXCEPT !.primary = p, !.extra = x, !.public = h, !.addr = a] = cfg
      /\ \A p, h, b : p = cfg.primary /\ h = cfg.public /\ b = cfg.backends
           => [cfg EXCEPT !.public = h, !.primary = p, !.backends = b] = cfg
  BY DEF Sources, Config, Configuration, Backends
<1>2. ASSUME apply_env PROVE cfg' = cfg
  <2>1. /\ IsEmpty(env.secret) /\ env.secrets = <<>> /\ env.hostname = "" /\ env.mproxy = ""
    BY DEF Unset, IsEmpty
  <2> QED
    BY <1>1, <1>2, <2>1 DEF apply_env
<1>3. ASSUME ApplyCli PROVE cfg' = cfg
  <2>1. cli.hostname = "" /\ cli.secrets = <<>>
    BY DEF NoOptions
  <2>2. CliBackends = <<>>
    <3>1. <<>> \in Seq(Secret)
      BY EmptySeq
    <3>2. Elements(Nonempty(<<>>)) = {}
      BY <3>1, NonemptyElements, NoElement
    <3>3. DOMAIN Nonempty(<<>>) = {}
      BY <3>2 DEF Elements
    <3>4. CliBackends \in Seq(Backends(Written)) /\ DOMAIN CliBackends = {}
      BY <2>1, <3>3, CliBackendsTyped DEF CliBackends
    <3> QED
      BY <3>4, EmptySeq, LenProperties
  <2>3. cfg.backends \o CliBackends = cfg.backends
    BY <1>1, <2>2, ConcatEmptySeq
  <2> QED
    BY <1>1, <1>3, <2>1, <2>3 DEF ApplyCli
<1> QED
  BY <1>2, <1>3

-----------------------------------------------------------------------------
(* Laying the sites out *)

\* A site as it is planned: keys, and a port for each.
PlannedSite ==
  {s \in [domain : Text, secrets : Seq(Secret), ports : Seq(Nat)] :
     /\ Len(s.secrets) # 0 /\ Len(s.ports) = Len(s.secrets)
     /\ \A m \in DOMAIN s.secrets : s.secrets[m].key \in Keys}

LEMMA PlannedParts ==
  ASSUME NEW s \in PlannedSite
  PROVE  /\ s.domain \in Text /\ s.secrets \in Seq(Secret) /\ s.ports \in Seq(Nat)
         /\ Len(s.secrets) \in Nat \ {0} /\ Len(s.ports) = Len(s.secrets)
         /\ DOMAIN s.secrets = 1 .. Len(s.secrets) /\ DOMAIN s.ports = 1 .. Len(s.secrets)
         /\ \A m \in DOMAIN s.secrets : s.secrets[m].key \in Keys /\ s.secrets[m] \in Secret
         /\ \A m \in DOMAIN s.ports : s.ports[m] \in Nat
<1>1. /\ s.domain \in Text /\ s.secrets \in Seq(Secret) /\ s.ports \in Seq(Nat)
      /\ Len(s.secrets) # 0 /\ Len(s.ports) = Len(s.secrets)
      /\ \A m \in DOMAIN s.secrets : s.secrets[m].key \in Keys
  BY DEF PlannedSite
<1> QED
  BY <1>1, LenProperties, ElementOfSeq

\* Slots of a plan, and the port of each.
SlotsIn(p) == UNION {{<<n, m>> : m \in DOMAIN p[n].ports} : n \in DOMAIN p}
PortIn(p, slot) == p[slot[1]].ports[slot[2]]

\* As long as all slots fit they are laid out from base on, one port each, and
\* the next port is the one behind them if there is one.
Laid(p, next, base) ==
  LET used == Cardinality(SlotsIn(p)) IN
  base + used - 1 <= MaxPort =>
    /\ \A s, t \in SlotsIn(p) : PortIn(p, s) = PortIn(p, t) => s = t
    /\ \A s \in SlotsIn(p) : PortIn(p, s) \in base .. base + used - 1
    /\ base + used <= MaxPort => next = base + used

\* A site counts its ports on from the next one, while there is room.
CountsOn(e, next, after) ==
  /\ \A m \in 1 .. Len(e.ports) : next + m - 1 <= MaxPort => e.ports[m] = next + m - 1
  /\ next + Len(e.ports) <= MaxPort => after = next + Len(e.ports)

\* The slots of one more site are new.
LEMMA MoreSlots ==
  ASSUME NEW p \in Seq(PlannedSite), NEW e \in PlannedSite, IsFiniteSet(SlotsIn(p))
  PROVE  /\ IsFiniteSet(SlotsIn(Append(p, e)))
         /\ Cardinality(SlotsIn(p)) \in Nat
         /\ Cardinality(SlotsIn(Append(p, e))) = Cardinality(SlotsIn(p)) + Len(e.ports)
         /\ \A s \in SlotsIn(Append(p, e)) :
              \/ s \in SlotsIn(p) /\ PortIn(Append(p, e), s) = PortIn(p, s)
              \/ \E m \in 1 .. Len(e.ports) : /\ s = <<Len(p) + 1, m>>
                                              /\ PortIn(Append(p, e), s) = e.ports[m]
<1>1. PICK q, new : q = Append(p, e) /\ new = {<<Len(p) + 1, m>> : m \in 1 .. Len(e.ports)}
  OBVIOUS
<1>2. /\ Len(p) \in Nat /\ DOMAIN p = 1 .. Len(p) /\ DOMAIN q = 1 .. Len(p) + 1
      /\ \A n \in 1 .. Len(p) : q[n] = p[n]
      /\ q[Len(p) + 1] = e
  <2>1. Append(p, e) \in Seq(PlannedSite) /\ Len(Append(p, e)) = Len(p) + 1
    BY AppendProperties
  <2> QED
    BY <1>1, <2>1, AppendProperties, LenProperties
<1>3. Len(e.ports) \in Nat /\ DOMAIN e.ports = 1 .. Len(e.ports)
  BY PlannedParts
<1>4. ASSUME NEW s \in SlotsIn(q)
      PROVE  \/ s \in SlotsIn(p) /\ PortIn(q, s) = PortIn(p, s)
             \/ \E m \in 1 .. Len(e.ports) : /\ s = <<Len(p) + 1, m>>
                                             /\ PortIn(q, s) = e.ports[m]
  <2>1. PICK n \in DOMAIN q : \E m \in DOMAIN q[n].ports : s = <<n, m>>
    BY DEF SlotsIn
  <2>2. CASE n = Len(p) + 1
    BY <1>2, <1>3, <2>1, <2>2 DEF PortIn
  <2>3. CASE n \in 1 .. Len(p)
    <3>1. q[n] = p[n] /\ n \in DOMAIN p
      BY <1>2, <2>3
    <3>2. s \in SlotsIn(p)
      BY <2>1, <3>1 DEF SlotsIn
    <3> QED
      BY <2>1, <3>1, <3>2 DEF PortIn
  <2>4. n = Len(p) + 1 \/ n \in 1 .. Len(p)
    BY <1>2
  <2> QED
    BY <2>2, <2>3, <2>4
<1>5. ASSUME NEW s \in SlotsIn(p) PROVE s \in SlotsIn(q) /\ s \notin new
  <2>1. PICK n \in DOMAIN p : \E m \in DOMAIN p[n].ports : s = <<n, m>>
    BY DEF SlotsIn
  <2>2. q[n] = p[n] /\ n \in DOMAIN q /\ n # Len(p) + 1
    BY <1>2
  <2>3. s \in SlotsIn(q)
    BY <2>1, <2>2 DEF SlotsIn
  <2> QED
    BY <1>1, <2>1, <2>2, <2>3
<1>6. ASSUME NEW m \in 1 .. Len(e.ports) PROVE <<Len(p) + 1, m>> \in SlotsIn(q)
  <2>1. Len(p) + 1 \in DOMAIN q /\ m \in DOMAIN q[Len(p) + 1].ports
    BY <1>2, <1>3
  <2> QED
    BY <2>1 DEF SlotsIn
<1>7. SlotsIn(q) = SlotsIn(p) \cup new /\ SlotsIn(p) \cap new = {}
  BY <1>1, <1>4, <1>5, <1>6
<1>8. IsFiniteSet(new) /\ Cardinality(new) = Len(e.ports)
  <2>1. IsFiniteSet(1 .. Len(e.ports)) /\ Cardinality(1 .. Len(e.ports)) = Len(e.ports)
    BY <1>3, FS_Interval
  <2>2. PICK f : f = [m \in 1 .. Len(e.ports) |-> <<Len(p) + 1, m>>]
    OBVIOUS
  <2>3. f \in Bijection(1 .. Len(e.ports), new)
    BY <1>1, <2>2 DEF Bijection, Injection, Surjection, IsInjective
  <2>4. ExistsBijection(1 .. Len(e.ports), new)
    BY <2>3 DEF ExistsBijection
  <2> QED
    BY <2>1, <2>4, FS_Bijection
<1>9. /\ IsFiniteSet(SlotsIn(p) \cup new)
      /\ Cardinality(SlotsIn(p) \cup new)
           = Cardinality(SlotsIn(p)) + Cardinality(new) - Cardinality(SlotsIn(p) \cap new)
  BY <1>8, FS_Union
<1>10. Cardinality(SlotsIn(p) \cap new) = 0
  BY <1>7, FS_EmptySet
<1>11. Cardinality(SlotsIn(p)) \in Nat
  BY FS_CardinalityType
<1>12. /\ IsFiniteSet(SlotsIn(q))
       /\ Cardinality(SlotsIn(q)) = Cardinality(SlotsIn(p)) + Len(e.ports)
  BY <1>3, <1>7, <1>8, <1>9, <1>10, <1>11
<1> QED
  BY <1>1, <1>4, <1>11, <1>12

\* One more site keeps the layout.
LEMMA LaidOn ==
  ASSUME NEW p \in Seq(PlannedSite), NEW e \in PlannedSite, IsFiniteSet(SlotsIn(p)),
         NEW next \in Nat, NEW after \in Nat, NEW base \in Nat,
         Laid(p, next, base), CountsOn(e, next, after)
  PROVE  Laid(Append(p, e), after, base)
<1>1. PICK q, u, v, k : /\ q = Append(p, e) /\ u = Cardinality(SlotsIn(p))
                        /\ v = Cardinality(SlotsIn(q)) /\ k = Len(e.ports)
  OBVIOUS
<1>2. u \in Nat /\ k \in Nat \ {0} /\ v = u + k
  BY <1>1, MoreSlots, PlannedParts
<1>3. MaxPort \in Nat
  BY FleetAssumption
<1>4. ASSUME base + v - 1 <= MaxPort
      PROVE  /\ \A s, t \in SlotsIn(q) : PortIn(q, s) = PortIn(q, t) => s = t
             /\ \A s \in SlotsIn(q) : PortIn(q, s) \in base .. base + v - 1
             /\ base + v <= MaxPort => after = base + v
  <2>1. base + u - 1 <= MaxPort /\ base + u <= MaxPort
    BY <1>2, <1>3, <1>4
  <2>2. /\ \A s, t \in SlotsIn(p) : PortIn(p, s) = PortIn(p, t) => s = t
        /\ \A s \in SlotsIn(p) : PortIn(p, s) \in base .. base + u - 1
        /\ next = base + u
    BY <1>1, <2>1 DEF Laid
  <2>3. ASSUME NEW m \in 1 .. k PROVE e.ports[m] = base + u + m - 1
    <3>1. next + m - 1 <= MaxPort
      BY <1>2, <1>3, <1>4, <2>2
    <3>2. e.ports[m] = next + m - 1
      BY <1>1, <3>1 DEF CountsOn
    <3> QED
      BY <1>2, <2>2, <3>2
  <2>4. ASSUME NEW s \in SlotsIn(q)
        PROVE  \/ s \in SlotsIn(p) /\ PortIn(q, s) = PortIn(p, s)
                    /\ PortIn(q, s) \in base .. base + u - 1
               \/ \E m \in 1 .. k : s = <<Len(p) + 1, m>> /\ PortIn(q, s) = base + u + m - 1
    <3>1. \/ s \in SlotsIn(p) /\ PortIn(q, s) = PortIn(p, s)
          \/ \E m \in 1 .. k : s = <<Len(p) + 1, m>> /\ PortIn(q, s) = e.ports[m]
      BY <1>1, MoreSlots
    <3>2. CASE s \in SlotsIn(p) /\ PortIn(q, s) = PortIn(p, s)
      BY <2>2, <3>2
    <3>3. ASSUME NEW m \in 1 .. k, s = <<Len(p) + 1, m>>, PortIn(q, s) = e.ports[m]
          PROVE  PortIn(q, s) = base + u + m - 1
      BY <2>3, <3>3
    <3> QED
      BY <3>1, <3>2, <3>3
  <2>5. ASSUME NEW s \in SlotsIn(q) PROVE PortIn(q, s) \in base .. base + v - 1
    BY <1>2, <2>4
  <2>6. ASSUME NEW s \in SlotsIn(q), NEW t \in SlotsIn(q), PortIn(q, s) = PortIn(q, t)
        PROVE  s = t
    <3>1. CASE s \in SlotsIn(p) /\ PortIn(q, s) = PortIn(p, s) /\ PortIn(q, s) \in base .. base + u - 1
      <4>0. ASSUME NEW l \in 1 .. k, PortIn(q, t) = base + u + l - 1 PROVE FALSE
        <5>1. PICK x : x = PortIn(q, s)
          OBVIOUS
        <5>2. x \in base .. base + u - 1 /\ x = base + u + l - 1
          BY <2>6, <3>1, <4>0, <5>1
        <5> QED
          BY <1>2, <5>2
      <4>1. t \in SlotsIn(p) /\ PortIn(q, t) = PortIn(p, t)
        BY <2>4, <4>0
      <4> QED
        BY <2>2, <2>6, <3>1, <4>1
    <3>2. ASSUME NEW m \in 1 .. k, s = <<Len(p) + 1, m>>, PortIn(q, s) = base + u + m - 1
          PROVE  s = t
      <4>0. ASSUME PortIn(q, t) \in base .. base + u - 1 PROVE FALSE
        BY <1>2, <2>6, <3>2, <4>0
      <4>1. PICK l \in 1 .. k : t = <<Len(p) + 1, l>> /\ PortIn(q, t) = base + u + l - 1
        BY <2>4, <4>0
      <4>2. l = m
        <5>1. base + u + l - 1 = base + u + m - 1
          BY <2>6, <3>2, <4>1
        <5> QED
          BY <1>2, <5>1
      <4> QED
        BY <3>2, <4>1, <4>2
    <3> QED
      BY <2>4, <3>1, <3>2
  <2>7. base + v <= MaxPort => after = base + v
    <3>1. base + v <= MaxPort => next + k <= MaxPort /\ next + k = base + v
      BY <1>2, <2>2
    <3> QED
      BY <1>1, <3>1 DEF CountsOn
  <2> QED
    BY <2>5, <2>6, <2>7
<1> QED
  BY <1>1, <1>4 DEF Laid

-----------------------------------------------------------------------------
(* Keys and ports of a site *)

LEMMA Times ==
  ASSUME NEW a \in Nat, NEW b \in Nat, NEW c \in Nat, a < b
  PROVE  (a + 1) * c <= b * c
<1>1. PICK d \in Nat : b = a + 1 + d
  <2>1. b - (a + 1) \in Nat /\ b = a + 1 + (b - (a + 1))
    OBVIOUS
  <2> QED
    BY <2>1
<1>2. b * c = (a + 1) * c + d * c /\ (a + 1) * c \in Nat /\ d * c \in Nat
  BY <1>1
<1> QED
  BY <1>2

LEMMA Remainder ==
  ASSUME NEW a \in Nat, NEW b \in Nat, a < b
  PROVE  a % b = a
OBVIOUS

LEMMA Within16 ==
  ASSUME NEW n \in Nat
  PROVE  u16(n) \in 0 .. MaxPort /\ (n <= MaxPort => u16(n) = n)
<1>1. MaxPort + 1 \in Nat \ {0}
  BY FleetAssumption
<1>2. n % (MaxPort + 1) \in 0 .. MaxPort
  BY <1>1, FleetAssumption
<1>3. ASSUME n <= MaxPort PROVE n % (MaxPort + 1) = n
  <2>1. n < MaxPort + 1
    BY <1>3, FleetAssumption
  <2> QED
    BY <1>1, <2>1, Remainder
<1> QED
  BY <1>2, <1>3 DEF u16

\* Ports are numbers, in either arithmetic, and in burn they are counted on.
LEMMA PortsTyped ==
  ASSUME NEW n \in Nat, port \in Nat
  PROVE  /\ Ports(n) \in Seq(Nat) /\ Len(Ports(n)) = n /\ NextPort(n) \in Nat
         /\ yaml.tool = "burn" =>
              /\ \A m \in 1 .. n : port + m - 1 <= MaxPort => Ports(n)[m] = port + m - 1
              /\ port + n <= MaxPort => NextPort(n) = port + n
<1>1. ASSUME NEW m \in 1 .. n
      PROVE  /\ u16(port + u16(m - 1)) \in Nat /\ port + m - 1 \in Nat
             /\ port + m - 1 <= MaxPort => u16(port + u16(m - 1)) = port + m - 1
  <2>1. m - 1 \in Nat /\ u16(m - 1) \in Nat /\ (m - 1 <= MaxPort => u16(m - 1) = m - 1)
    BY Within16
  <2>2. PICK x : x = port + u16(m - 1)
    OBVIOUS
  <2>3. x \in Nat
    BY <2>1, <2>2
  <2>4. u16(x) \in Nat /\ (x <= MaxPort => u16(x) = x)
    BY <2>3, Within16
  <2>5. port + m - 1 <= MaxPort => m - 1 <= MaxPort
    BY FleetAssumption
  <2>6. port + (m - 1) = port + m - 1
    OBVIOUS
  <2> QED
    BY <2>1, <2>2, <2>4, <2>5, <2>6
<1>2. /\ Ports(n) \in [1 .. n -> Nat]
      /\ yaml.tool = "burn" => \A m \in 1 .. n : Ports(n)[m] = u16(port + u16(m - 1))
  BY <1>1 DEF Ports
<1>3. Ports(n) \in Seq(Nat) /\ Len(Ports(n)) = n
  BY <1>2
<1>4. u16(n) \in Nat /\ (n <= MaxPort => u16(n) = n)
  BY Within16
<1>5. NextPort(n) \in Nat
  BY <1>4, FleetAssumption DEF NextPort
<1>6. ASSUME yaml.tool = "burn", port + n <= MaxPort PROVE NextPort(n) = port + n
  <2>1. n <= MaxPort /\ ~(port + n > MaxPort)
    BY <1>6, FleetAssumption
  <2> QED
    BY <1>4, <1>6, <2>1 DEF NextPort
<1> QED
  BY <1>1, <1>2, <1>3, <1>5, <1>6

\* A site that is not rejected has keys, and they open something.
LEMMA SecretsTyped ==
  ASSUME NEW site \in SiteDescription, ~BadKeys(site), made \in Nat,
         site.count <= MaxCount => made + site.count <= Len(Fresh)
  PROVE  /\ Secrets(site) \in Seq(Secret)
         /\ Len(Secrets(site)) \in Nat \ {0}
         /\ \A m \in DOMAIN Secrets(site) : Secrets(site)[m].key \in Keys
<1>1. /\ site.count \in Nat /\ site.list \in Seq(Secret)
      /\ DOMAIN site.list = 1 .. Len(site.list) /\ Len(site.list) \in Nat
      /\ \A m \in DOMAIN site.list : site.list[m] \in Secret
  BY LenProperties, ElementOfSeq DEF SiteDescription
<1>2. MaxCount \in Nat /\ site.count <= MaxCount
  BY <1>1, FleetAssumption DEF BadKeys
<1>3. CASE site.count = 0
  <2>1. site.list # <<>> /\ \A m \in DOMAIN site.list : valid_secret(site.list[m])
    BY <1>3 DEF BadKeys
  <2>2. ASSUME NEW m \in DOMAIN site.list
        PROVE  /\ [site.list[m] EXCEPT !.pad = FALSE] \in Secret
               /\ [site.list[m] EXCEPT !.pad = FALSE].key \in Keys
    <3>1. site.list[m].key \in Keys
      BY <2>1, FleetAssumption DEF valid_secret, DecodesAsIs, Decodes
    <3> QED
      BY <1>1, <3>1 DEF Secret
  <2>3. Secrets(site) = [m \in DOMAIN site.list |-> [site.list[m] EXCEPT !.pad = FALSE]]
    BY <1>3 DEF Secrets
  <2>4. Secrets(site) \in [1 .. Len(site.list) -> Secret]
    BY <1>1, <2>2, <2>3
  <2>5. Len(site.list) # 0
    BY <1>1, <2>1, EmptySeq
  <2>6. /\ DOMAIN Secrets(site) = DOMAIN site.list
        /\ \A m \in DOMAIN site.list : Secrets(site)[m].key \in Keys
    BY <2>2, <2>3
  <2> QED
    BY <1>1, <2>4, <2>5, <2>6
<1>4. CASE site.count # 0
  <2>1. Secrets(site) = [m \in 1 .. site.count |-> [key |-> Fresh[made + m], pad |-> FALSE]]
    BY <1>4 DEF Secrets
  <2>2. ASSUME NEW m \in 1 .. site.count
        PROVE  /\ [key |-> Fresh[made + m], pad |-> FALSE] \in Secret
               /\ Fresh[made + m] \in Keys
    <3>1. Fresh \in Seq(Short) /\ Short \subseteq Keys /\ Len(Fresh) \in Nat
      BY FleetAssumption, LenProperties
    <3>2. made + m \in 1 .. Len(Fresh)
      BY <1>1, <1>2, <3>1
    <3>3. Fresh[made + m] \in Short
      BY <3>1, <3>2, ElementOfSeq
    <3> QED
      BY <3>1, <3>3 DEF Secret
  <2>3. Secrets(site) \in [1 .. site.count -> Secret]
    BY <2>1, <2>2
  <2>4. \A m \in 1 .. site.count : Secrets(site)[m].key \in Keys
    BY <2>1, <2>2
  <2> QED
    BY <1>1, <1>4, <2>3, <2>4
<1> QED
  BY <1>3, <1>4

-----------------------------------------------------------------------------
(* The invariant *)

Planning ==
  /\ yaml \in Descriptions /\ plan \in Seq(PlannedSite)
  /\ Len(plan) <= Len(yaml.sites)
  /\ port \in Nat /\ made \in Nat /\ made <= Len(plan) * MaxCount
  /\ \A n, m \in DOMAIN plan : plan[n].domain = plan[m].domain => n = m
  /\ IsFiniteSet(SlotsIn(plan))
  /\ yaml.tool = "burn" => Laid(plan, port, yaml.base)

Undeployed ==
  /\ file = None /\ env = Unset /\ cli = NoOptions
  /\ cfg = Default /\ stage = "start" /\ relay = 0

\* What the file of a name holds.
Content(f) == IF yaml.tool = "burn" THEN LastOf(f).secrets ELSE site_config(LastOf(f))
FilesWritten == out = [f \in Names |-> Content(f)]

\* A relay was started on a file that was written; from there on what it has
\* loaded is that file.
Running ==
  /\ env = Unset /\ cli = NoOptions /\ file # None
  /\ yaml.tool = "burn" => relay = 0 /\ file = relay_config
  /\ yaml.tool = "mass" => /\ relay \in DOMAIN plan
                           /\ file = site_config(LastOf(FileName[plan[relay].domain]))
  /\ stage # "start" => cfg = file

Phases ==
  /\ gen \in {"plan", "write", "written", "dry", "error", "deployed"}
  /\ gen # "deployed" => Undeployed
  /\ gen \in {"write", "written", "deployed"} => plan # <<>>
  /\ gen \in {"written", "deployed"} => FilesWritten /\ (yaml.tool = "burn" => NamesDiffer)
  /\ gen = "deployed" => Running

FleetInv ==
  /\ Sources
  /\ yaml = None => gen = "none"
  /\ yaml # None => Planning /\ Phases

\* The fields of a description.
LEMMA DescriptionParts ==
  ASSUME NEW d \in Descriptions
  PROVE  /\ d # None /\ d.tool \in {"burn", "mass"} /\ d.base \in 0 .. MaxPort
         /\ d.base \in Nat /\ d.sites \in Seq(SiteDescription) /\ Len(d.sites) \in Nat
         /\ Len(d.sites) * MaxCount <= Len(Fresh) /\ Len(Fresh) \in Nat
<1>1. d \in Description
  BY FleetAssumption
<1>2. DOMAIN d = {"tool", "base", "isolation", "sites"} /\ DOMAIN None = {"none"}
  BY <1>1 DEF Description, None
<1>3. d # None
  <2>1. "tool" \in DOMAIN d /\ "tool" \notin DOMAIN None
    BY <1>2
  <2> QED
    BY <2>1
<1>4. d.sites \in Seq(SiteDescription) /\ Fresh \in Seq(Short)
  BY <1>1, FleetAssumption DEF Description
<1>5. d.tool \in {"burn", "mass"} /\ d.base \in 0 .. MaxPort
  BY <1>1 DEF Description
<1>6. d.base \in Nat
  BY <1>5, FleetAssumption
<1> QED
  BY <1>3, <1>4, <1>5, <1>6, FleetAssumption, LenProperties

\* By hand, addresses are text.
LEMMA ByHand == Files \subseteq Config
<1> SUFFICES ASSUME NEW c \in Files PROVE c \in Config
  OBVIOUS
<1>1. c \in Configuration(Text)
  BY StartupAssumption
<1>2. c.backends \in Seq(Backends(Text)) /\ Backends(Text) \subseteq Backends(Written)
  BY <1>1 DEF Configuration, Backends, Written
<1>3. c.backends \in Seq(Backends(Written))
  BY <1>2, SeqMonotonic
<1>4. c.addr \in Written
  BY <1>1 DEF Configuration, Written
<1> QED
  BY <1>1, <1>3, <1>4 DEF Config, Configuration, Backends

LEMMA UndeployedTyped ==
  ASSUME file = None, env = Unset, cli = NoOptions, cfg = Default
  PROVE  Sources
<1>1. <<>> \in Seq(Secret) /\ NoSecret \in Secret /\ "" \in Text
  BY EmptySeq DEF NoSecret, Secret, Malformed, Text
<1>2. Unset \in Environment /\ NoOptions \in CommandLine
  BY <1>1 DEF Unset, NoOptions, Environment, CommandLine
<1> QED
  BY <1>2, DefaultTyped DEF Sources

LEMMA FleetInit == FInit => FleetInv
<1> SUFFICES ASSUME FInit PROVE FleetInv
  OBVIOUS
<1>1. CASE SInit /\ yaml = None /\ gen = "none"
  <2>1. Sources
    BY <1>1, ByHand, DefaultTyped, StartupAssumption DEF SInit, Sources
  <2> QED
    BY <1>1, <2>1 DEF FleetInv
<1>2. CASE /\ yaml \in Descriptions /\ gen = "plan"
           /\ port = IF yaml.tool = "burn" THEN yaml.base ELSE FirstPort
           /\ file = None /\ env = Unset /\ cli = NoOptions
           /\ cfg = Default /\ stage = "start"
  <2>1. plan = <<>> /\ made = 0 /\ relay = 0
    BY DEF FInit
  <2>2. /\ yaml # None /\ yaml.base \in 0 .. MaxPort /\ yaml.base \in Nat
        /\ Len(yaml.sites) \in Nat
    BY <1>2, DescriptionParts
  <2>3. plan \in Seq(PlannedSite) /\ DOMAIN plan = {} /\ Len(plan) = 0
    BY <2>1, NoElement, EmptySeq
  <2>4. SlotsIn(plan) = {}
    BY <2>3 DEF SlotsIn
  <2>5. IsFiniteSet(SlotsIn(plan)) /\ Cardinality(SlotsIn(plan)) = 0
    BY <2>4, FS_EmptySet
  <2>6. yaml.tool = "burn" => Laid(plan, port, yaml.base)
    BY <1>2, <2>2, <2>4, <2>5, FleetAssumption DEF Laid
  <2>7. port \in Nat
    BY <1>2, <2>2, FleetAssumption
  <2>8. made \in Nat /\ made <= Len(plan) * MaxCount
    BY <2>1, <2>3, FleetAssumption
  <2>9. Planning
    BY <1>2, <2>2, <2>3, <2>5, <2>6, <2>7, <2>8 DEF Planning
  <2>10. Phases
    BY <1>2, <2>1 DEF Phases, Undeployed
  <2> QED
    BY <1>2, <2>2, <2>9, <2>10, UndeployedTyped DEF FleetInv
<1> QED
  BY <1>1, <1>2 DEF FInit

-----------------------------------------------------------------------------
(* Planning *)

\* What depends on nothing but the description and the plan.
LEMMA SameFleet ==
  ASSUME UNCHANGED <<yaml, plan>>
  PROVE  /\ Names' = Names /\ NamesDiffer' = NamesDiffer /\ relay_config' = relay_config
         /\ \A f : Content(f)' = Content(f)
         /\ \A f : LastOf(f)' = LastOf(f)
BY DEF Names, NamesDiffer, relay_config, Content, LastOf, site_config

LEMMA MaterializeStep ==
  ASSUME FleetInv, materialize
  PROVE  FleetInv'
<1>1. gen = "plan" /\ Len(plan) < Len(yaml.sites) /\ UNCHANGED <<svars, yaml, out, relay>>
  BY DEF materialize
<1>2. Sources /\ yaml # None /\ Planning /\ Phases
  BY <1>1 DEF FleetInv
<1>3. Sources'
  BY <1>1, <1>2 DEF Sources, svars
<1>4. PICK site : site = yaml.sites[Len(plan) + 1]
  OBVIOUS
<1>5. /\ yaml \in Descriptions /\ plan \in Seq(PlannedSite) /\ port \in Nat /\ made \in Nat
      /\ Len(yaml.sites) \in Nat /\ yaml.sites \in Seq(SiteDescription) /\ yaml.base \in Nat
      /\ Len(plan) \in Nat /\ Len(yaml.sites) * MaxCount <= Len(Fresh) /\ Len(Fresh) \in Nat
      /\ MaxCount \in Nat
  BY <1>2, DescriptionParts, LenProperties, FleetAssumption DEF Planning
<1>6. site \in SiteDescription
  <2>1. Len(plan) + 1 \in 1 .. Len(yaml.sites)
    BY <1>1, <1>5
  <2> QED
    BY <1>4, <1>5, <2>1, ElementOfSeq
<1>7. CASE Rejected(site)
  <2>1. gen' = "error" /\ UNCHANGED <<plan, port, made>>
    BY <1>4, <1>7 DEF materialize
  <2>2. Planning'
    BY <1>1, <1>2, <2>1 DEF Planning
  <2>3. Phases'
    BY <1>1, <1>2, <2>1 DEF Phases, Undeployed, svars
  <2> QED
    BY <1>1, <1>2, <1>3, <2>2, <2>3 DEF FleetInv
<1>8. CASE ~Rejected(site)
  <2>1. PICK secrets, e, a, b, k :
          /\ secrets = Secrets(site)
          /\ e = [domain |-> site.domain, secrets |-> secrets, ports |-> Ports(Len(secrets))]
          /\ a = Len(plan) /\ b = Len(yaml.sites) /\ k = site.count
    OBVIOUS
  <2>2. /\ plan' = Append(plan, e) /\ port' = NextPort(Len(secrets))
        /\ made' = made + site.count /\ gen' = gen
    BY <1>4, <1>8, <2>1 DEF materialize
  <2>3. ~BadKeys(site) /\ \A n \in DOMAIN plan : plan[n].domain # site.domain
    BY <1>8 DEF Rejected
  <2>4. a \in Nat /\ b \in Nat /\ k \in Nat /\ a < b /\ made <= a * MaxCount
    BY <1>1, <1>2, <1>5, <1>6, <2>1 DEF Planning, SiteDescription
  <2>5. k <= MaxCount
    BY <1>5, <2>1, <2>3, <2>4 DEF BadKeys
  <2>6. made + k <= (a + 1) * MaxCount /\ (a + 1) * MaxCount <= b * MaxCount
    <3>1. (a + 1) * MaxCount = a * MaxCount + MaxCount /\ a * MaxCount \in Nat
      BY <1>5, <2>4
    <3>2. made + k <= (a + 1) * MaxCount
      BY <1>5, <2>4, <2>5, <3>1
    <3>3. (a + 1) * MaxCount <= b * MaxCount
      BY <1>5, <2>4, Times
    <3> QED
      BY <3>2, <3>3
  <2>7. made + site.count <= Len(Fresh)
    <3>1. (a + 1) * MaxCount \in Nat /\ b * MaxCount \in Nat /\ b * MaxCount <= Len(Fresh)
      BY <1>5, <2>1, <2>4
    <3> QED
      BY <1>5, <2>1, <2>4, <2>6, <3>1
  <2>8. /\ secrets \in Seq(Secret) /\ Len(secrets) \in Nat \ {0}
        /\ \A m \in DOMAIN secrets : secrets[m].key \in Keys
    BY <1>5, <1>6, <2>1, <2>3, <2>7, SecretsTyped
  <2>9. /\ Ports(Len(secrets)) \in Seq(Nat) /\ Len(Ports(Len(secrets))) = Len(secrets)
        /\ NextPort(Len(secrets)) \in Nat
        /\ yaml.tool = "burn" =>
             /\ \A m \in 1 .. Len(secrets) :
                  port + m - 1 <= MaxPort => Ports(Len(secrets))[m] = port + m - 1
             /\ port + Len(secrets) <= MaxPort => NextPort(Len(secrets)) = port + Len(secrets)
    BY <1>5, <2>8, PortsTyped
  <2>10. e \in PlannedSite
    BY <1>6, <2>1, <2>8, <2>9 DEF PlannedSite, SiteDescription
  <2>11. yaml.tool = "burn" => CountsOn(e, port, port')
    BY <2>1, <2>2, <2>9 DEF CountsOn
  <2>12. IsFiniteSet(SlotsIn(plan)) /\ (yaml.tool = "burn" => Laid(plan, port, yaml.base))
    BY <1>2 DEF Planning
  <2>13. IsFiniteSet(SlotsIn(Append(plan, e)))
    BY <1>5, <2>10, <2>12, MoreSlots
  <2>14. yaml.tool = "burn" => Laid(Append(plan, e), port', yaml.base)
    BY <1>5, <2>2, <2>9, <2>10, <2>11, <2>12, LaidOn
  <2>15. /\ Append(plan, e) \in Seq(PlannedSite) /\ Append(plan, e) # <<>>
         /\ Len(Append(plan, e)) = a + 1
         /\ DOMAIN plan = 1 .. a /\ DOMAIN Append(plan, e) = 1 .. a + 1
         /\ \A n \in 1 .. a : Append(plan, e)[n] = plan[n]
         /\ Append(plan, e)[a + 1] = e
    BY <1>5, <2>1, <2>10, AppendProperties, LenProperties
  <2>16. ASSUME NEW n \in 1 .. a + 1, NEW m \in 1 .. a + 1,
                Append(plan, e)[n].domain = Append(plan, e)[m].domain
         PROVE  n = m
    <3>1. e.domain = site.domain
      BY <2>1
    <3>2. \A i \in 1 .. a : Append(plan, e)[i].domain # e.domain
      BY <2>3, <2>15, <3>1
    <3>3. \A i, j \in 1 .. a : plan[i].domain = plan[j].domain => i = j
      BY <1>2, <2>15 DEF Planning
    <3>4. \A i \in 1 .. a + 1 : i \in 1 .. a \/ i = a + 1
      BY <2>4
    <3> QED
      BY <2>15, <2>16, <3>2, <3>3, <3>4
  <2>17. Planning'
    <3>1. yaml' = yaml
      BY <1>1
    <3>2. /\ yaml' \in Descriptions /\ plan' \in Seq(PlannedSite)
          /\ Len(plan') <= Len(yaml'.sites) /\ port' \in Nat
      BY <1>5, <2>1, <2>2, <2>4, <2>9, <2>15, <3>1
    <3>3. made' \in Nat /\ made' <= Len(plan') * MaxCount
      BY <1>5, <2>1, <2>2, <2>4, <2>6, <2>15
    <3>4. \A n, m \in DOMAIN plan' : plan'[n].domain = plan'[m].domain => n = m
      BY <2>2, <2>15, <2>16
    <3>5. IsFiniteSet(SlotsIn(plan')) /\ (yaml'.tool = "burn" => Laid(plan', port', yaml'.base))
      BY <2>2, <2>13, <2>14, <3>1
    <3> QED
      BY <3>2, <3>3, <3>4, <3>5 DEF Planning
  <2>18. Phases'
    BY <1>1, <1>2, <2>2 DEF Phases, Undeployed, svars
  <2> QED
    BY <1>1, <1>2, <1>3, <2>17, <2>18 DEF FleetInv
<1> QED
  BY <1>7, <1>8

LEMMA WriteStep ==
  ASSUME FleetInv, Planned \/ WriteFleet \/ export
  PROVE  FleetInv'
<1>1. /\ gen \in {"plan", "write"} /\ UNCHANGED <<svars, yaml, plan, port, made, relay>>
      /\ gen' \in {"error", "write", "dry", "written"}
      /\ gen' = "write" => plan # <<>>
      /\ gen' = "written" => gen = "write"
  BY DEF Planned, WriteFleet, export
<1>2. Sources /\ yaml # None /\ Planning /\ Phases
  BY <1>1 DEF FleetInv
<1>3. Sources'
  BY <1>1, <1>2 DEF Sources, svars
<1>4. Planning'
  BY <1>1, <1>2 DEF Planning
<1>5. Undeployed'
  BY <1>1, <1>2 DEF Phases, Undeployed, svars
<1>6. ASSUME gen' = "written"
      PROVE  FilesWritten' /\ (yaml.tool = "burn" => NamesDiffer)
  <2>1. CASE WriteFleet
    <3>1. yaml.tool = "burn" /\ NamesDiffer /\ out' = [f \in Names |-> LastOf(f).secrets]
      BY <1>6, <2>1 DEF WriteFleet
    <3>2. out' = [f \in Names |-> Content(f)]
      BY <3>1 DEF Content
    <3> QED
      BY <1>1, <3>1, <3>2, SameFleet DEF FilesWritten
  <2>2. CASE export
    <3>1. yaml.tool = "mass" /\ out' = [f \in Names |-> site_config(LastOf(f))]
      BY <2>2 DEF export
    <3>2. out' = [f \in Names |-> Content(f)]
      BY <3>1 DEF Content
    <3> QED
      BY <1>1, <3>1, <3>2, SameFleet DEF FilesWritten
  <2>3. ~Planned
    BY <1>6 DEF Planned
  <2> QED
    BY <1>1, <2>1, <2>2, <2>3
<1>7. Phases'
  <2>1. gen' \in {"write", "written"} => plan' # <<>>
    BY <1>1, <1>2 DEF Phases
  <2>2. NamesDiffer' = NamesDiffer
    BY <1>1, SameFleet
  <2> QED
    BY <1>1, <1>5, <1>6, <2>1, <2>2 DEF Phases
<1> QED
  BY <1>1, <1>2, <1>3, <1>4, <1>7 DEF FleetInv

-----------------------------------------------------------------------------
(* Deploying *)

\* The file of a name holds a site of that name, the last of them; while names
\* differ, the only one.
LEMMA LastSite ==
  ASSUME Planning, NEW n \in DOMAIN plan
  PROVE  /\ FileName[plan[n].domain] \in Names
         /\ LastOf(FileName[plan[n].domain]) \in PlannedSite
         /\ \E last \in DOMAIN plan : LastOf(FileName[plan[n].domain]) = plan[last]
         /\ NamesDiffer => LastOf(FileName[plan[n].domain]) = plan[n]
<1>1. /\ Len(plan) \in Nat /\ DOMAIN plan = 1 .. Len(plan)
      /\ \A m \in DOMAIN plan : plan[m] \in PlannedSite
  BY LenProperties, ElementOfSeq DEF Planning
<1>2. PICK f, places : /\ f = FileName[plan[n].domain]
                       /\ places = {m \in DOMAIN plan : FileName[plan[m].domain] = f}
  OBVIOUS
<1>3. places \in SUBSET (1 .. Len(plan)) /\ n \in places
  BY <1>1, <1>2
<1>4. PICK last \in places : \A m \in places : m <= last
  BY <1>1, <1>3, LastPlace
<1>5. /\ last \in DOMAIN plan /\ FileName[plan[last].domain] = f
      /\ \A m \in last + 1 .. Len(plan) : FileName[plan[m].domain] # f
  <2>1. ASSUME NEW m \in last + 1 .. Len(plan), FileName[plan[m].domain] = f PROVE FALSE
    <3>1. last \in 1 .. Len(plan)
      BY <1>3
    <3>2. m \in 1 .. Len(plan) /\ ~(m <= last)
      BY <1>1, <3>1
    <3> QED
      BY <1>1, <1>2, <1>4, <2>1, <3>2
  <2> QED
    BY <1>2, <2>1
<1>6. PICK c : c = CHOOSE m \in DOMAIN plan :
                     /\ FileName[plan[m].domain] = f
                     /\ \A j \in m + 1 .. Len(plan) : FileName[plan[j].domain] # f
  OBVIOUS
<1>7. c \in DOMAIN plan /\ FileName[plan[c].domain] = f
  BY <1>5, <1>6
<1>8. LastOf(f) = plan[c]
  BY <1>6 DEF LastOf
<1>9. NamesDiffer => c = n
  BY <1>2, <1>7 DEF NamesDiffer
<1>10. f \in Names
  BY <1>2 DEF Names
<1> QED
  BY <1>1, <1>2, <1>7, <1>8, <1>9, <1>10

\* What is written for a relay is a configuration.
LEMMA RelayConfigTyped ==
  ASSUME Planning, plan # <<>>
  PROVE  /\ relay_config \in Config
         /\ relay_config.hosts # <<>> /\ DOMAIN relay_config.hosts = DOMAIN plan
         /\ \A n \in DOMAIN plan : /\ relay_config.hosts[n].host = plan[n].domain
                                   /\ relay_config.hosts[n].secrets = plan[n].secrets
<1>1. /\ Len(plan) \in Nat \ {0} /\ DOMAIN plan = 1 .. Len(plan)
      /\ \A m \in DOMAIN plan : plan[m] \in PlannedSite
  BY EmptySeq, LenProperties, ElementOfSeq DEF Planning
<1>2. PICK hosts : hosts = [n \in DOMAIN plan |-> [host |-> plan[n].domain,
                                                   secrets |-> plan[n].secrets]]
  OBVIOUS
<1>3. \A n \in DOMAIN plan : plan[n].domain \in Text /\ plan[n].secrets \in Seq(Secret)
  BY <1>1, PlannedParts
<1>4. hosts \in [1 .. Len(plan) -> SiteOf]
  BY <1>1, <1>2, <1>3 DEF SiteOf
<1>5. hosts \in Seq(SiteOf) /\ DOMAIN hosts = DOMAIN plan /\ hosts # <<>>
  BY <1>1, <1>4, SeqDef, NoElement
<1>6. 1 \in DOMAIN plan /\ 1 \in DOMAIN plan[1].secrets
  BY <1>1, PlannedParts
<1>7. plan[1].domain \in Text /\ plan[1].secrets[1] \in Secret
  BY <1>1, <1>6, PlannedParts
<1>8. Addr(yaml.base) \in Written
  BY DescriptionParts DEF Planning, Written
<1>9. relay_config = [Default EXCEPT !.public = plan[1].domain,
                                     !.primary = plan[1].secrets[1],
                                     !.hosts = hosts, !.addr = Addr(yaml.base)]
  BY <1>2 DEF relay_config
<1>10. relay_config \in Config /\ relay_config.hosts = hosts
  BY <1>5, <1>7, <1>8, <1>9, DefaultTyped DEF Config, Configuration, SiteOf
<1> QED
  BY <1>2, <1>5, <1>10

LEMMA SiteConfigTyped ==
  ASSUME NEW s \in PlannedSite
  PROVE  /\ site_config(s) \in Config
         /\ site_config(s).hosts = <<>> /\ site_config(s).public = s.domain
         /\ SecretsOf(site_config(s)) = Elements(s.secrets)
<1>1. /\ s.domain \in Text /\ Len(s.secrets) \in Nat \ {0}
      /\ DOMAIN s.secrets = 1 .. Len(s.secrets) /\ DOMAIN s.ports = DOMAIN s.secrets
      /\ \A m \in DOMAIN s.secrets : s.secrets[m] \in Secret /\ s.ports[m] \in Nat
  BY PlannedParts
<1>2. PICK backends :
        backends = [n \in DOMAIN s.secrets |->
                      [secret |-> s.secrets[n], addr |-> Addr(s.ports[n])]]
  OBVIOUS
<1>3. \A n \in DOMAIN s.secrets : Addr(s.ports[n]) \in Written
  BY <1>1 DEF Written
<1>4. backends \in [1 .. Len(s.secrets) -> Backends(Written)]
  BY <1>1, <1>2, <1>3 DEF Backends
<1>5. backends \in Seq(Backends(Written)) /\ DOMAIN backends = DOMAIN s.secrets
  BY <1>1, <1>4, SeqDef
<1>6. 1 \in DOMAIN s.secrets
  BY <1>1
<1>7. site_config(s) = [Default EXCEPT !.public = s.domain, !.primary = s.secrets[1],
                                       !.backends = backends, !.addr = Addr(s.ports[1])]
  BY <1>2 DEF site_config
<1>8. Default.hosts = <<>> /\ Default.extra = <<>>
  BY DEF Default
<1>9. /\ site_config(s) \in Config
      /\ site_config(s).hosts = <<>> /\ site_config(s).public = s.domain
      /\ site_config(s).primary = s.secrets[1] /\ site_config(s).extra = <<>>
      /\ site_config(s).backends = backends
  BY <1>1, <1>3, <1>5, <1>6, <1>7, <1>8, DefaultTyped DEF Config, Configuration, Backends
<1>10. BackendSecrets(site_config(s)) = [n \in DOMAIN s.secrets |-> s.secrets[n]]
  BY <1>2, <1>5, <1>9 DEF BackendSecrets
<1>11. Elements(BackendSecrets(site_config(s))) = Elements(s.secrets)
  BY <1>10 DEF Elements
<1>12. Elements(<<>>) = {}
  BY NoElement
<1>13. s.secrets[1] \in Elements(s.secrets)
  BY <1>6 DEF Elements
<1> QED
  BY <1>9, <1>11, <1>12, <1>13 DEF SecretsOf

LEMMA ConfigNotNone ==
  ASSUME NEW c \in Config
  PROVE  c # None
<1>1. "public" \in DOMAIN c /\ "public" \notin DOMAIN None
  BY DEF Config, Configuration, None
<1> QED
  BY <1>1

LEMMA DeployStep ==
  ASSUME FleetInv, Deploy
  PROVE  FleetInv'
<1>1. /\ gen = "written" /\ gen' = "deployed"
      /\ UNCHANGED <<env, cli, cfg, stage, yaml, plan, port, made, out>>
  BY DEF Deploy
<1>2. /\ Sources /\ yaml # None /\ Planning /\ Phases /\ Undeployed /\ plan # <<>>
      /\ FilesWritten /\ yaml.tool \in {"burn", "mass"}
  BY <1>1, DescriptionParts DEF FleetInv, Phases, Planning
<1>3. ASSUME yaml.tool = "mass", NEW n \in DOMAIN plan, relay' = n,
             file' = out[FileName[plan[n].domain]]
      PROVE  file' \in Config /\ Running'
  <2>1. PICK f : f = FileName[plan[n].domain]
    OBVIOUS
  <2>2. f \in Names /\ LastOf(f) \in PlannedSite
    BY <1>2, <2>1, LastSite
  <2>3. file' = site_config(LastOf(f))
    BY <1>2, <1>3, <2>1, <2>2 DEF FilesWritten, Content
  <2>4. file' \in Config /\ file' # None
    BY <2>2, <2>3, SiteConfigTyped, ConfigNotNone
  <2>5. LastOf(f)' = LastOf(f)
    BY <1>1, SameFleet
  <2>6. site_config(LastOf(FileName[plan[relay].domain]))' = site_config(LastOf(f))
    BY <1>1, <1>3, <2>1, <2>5 DEF site_config, LastOf
  <2>7. Running'
    BY <1>1, <1>2, <1>3, <2>3, <2>4, <2>6 DEF Running, Undeployed
  <2> QED
    BY <2>4, <2>7
<1>4. file' \in Config /\ Running'
  <2>1. CASE yaml.tool = "burn" /\ file' = relay_config /\ UNCHANGED relay
    <3>1. file' \in Config /\ file' # None
      BY <1>2, <2>1, RelayConfigTyped, ConfigNotNone
    <3>2. relay_config' = relay_config
      BY <1>1, SameFleet
    <3> QED
      BY <1>1, <1>2, <2>1, <3>1, <3>2 DEF Running, Undeployed
  <2> QED
    BY <1>3, <2>1 DEF Deploy
<1>5. Sources'
  BY <1>1, <1>2, <1>4 DEF Sources
<1>6. Planning'
  BY <1>1, <1>2 DEF Planning
<1>7. FilesWritten' /\ NamesDiffer' = NamesDiffer
  BY <1>1, <1>2, SameFleet DEF FilesWritten
<1>8. Phases'
  BY <1>1, <1>2, <1>4, <1>7 DEF Phases
<1> QED
  BY <1>1, <1>2, <1>5, <1>6, <1>8 DEF FleetInv

\* The relay that starts changes no file.
LEMMA StartStep ==
  ASSUME FleetInv, Start
  PROVE  FleetInv'
<1>1. gen \in {"none", "deployed"} /\ SNext /\ UNCHANGED fleetVars
  BY DEF Start
<1>2. Sources'
  BY <1>1, SourcesKept DEF FleetInv
<1>3. CASE yaml = None
  BY <1>1, <1>2, <1>3 DEF FleetInv, fleetVars
<1>4. CASE yaml # None
  <2>1. gen = "deployed" /\ Sources /\ Planning /\ Phases /\ Running
    BY <1>1, <1>4 DEF FleetInv, Phases
  <2>2. UNCHANGED <<yaml, gen, plan, port, made, out, relay>>
    BY <1>1 DEF fleetVars
  <2>3. UNCHANGED <<file, env, cli>>
    BY <1>1 DEF SNext, Load, apply_env, ApplyCli, Serve, svars
  <2>4. stage' # "start" => cfg' = file'
    <3>1. CASE Load
      BY <2>1, <2>3, <3>1 DEF Load, Running
    <3>2. CASE apply_env
      BY <2>1, <2>3, <3>2, NothingOverrides DEF Running, apply_env
    <3>3. CASE ApplyCli
      BY <2>1, <2>3, <3>3, NothingOverrides DEF Running, ApplyCli
    <3>4. CASE Serve
      BY <2>1, <2>3, <3>4 DEF Running, Serve, svars
    <3> QED
      BY <1>1, <3>1, <3>2, <3>3, <3>4 DEF SNext
  <2>5. /\ relay_config' = relay_config /\ NamesDiffer' = NamesDiffer
        /\ FilesWritten' /\ Planning'
    BY <2>1, <2>2, SameFleet DEF FilesWritten, Phases, Planning
  <2>6. site_config(LastOf(FileName[plan[relay].domain]))'
          = site_config(LastOf(FileName[plan[relay].domain]))
    BY <2>2 DEF site_config, LastOf
  <2>7. Running'
    BY <2>1, <2>2, <2>3, <2>4, <2>5, <2>6 DEF Running
  <2>8. Phases'
    BY <2>1, <2>2, <2>5, <2>7 DEF Phases
  <2> QED
    BY <1>2, <1>4, <2>2, <2>5, <2>8 DEF FleetInv
<1> QED
  BY <1>3, <1>4

LEMMA FleetStutter ==
  ASSUME FleetInv, UNCHANGED fvars
  PROVE  FleetInv'
<1>1. /\ UNCHANGED <<file, env, cli, cfg, stage>>
      /\ UNCHANGED <<yaml, gen, plan, port, made, out, relay>>
  BY DEF fvars, svars, fleetVars
<1>2. /\ relay_config' = relay_config /\ NamesDiffer' = NamesDiffer
      /\ site_config(LastOf(FileName[plan[relay].domain]))'
           = site_config(LastOf(FileName[plan[relay].domain]))
  BY <1>1, SameFleet DEF site_config, LastOf
<1>3. Planning => Planning'
  BY <1>1 DEF Planning
<1>4. FilesWritten => FilesWritten'
  BY <1>1, SameFleet DEF FilesWritten
<1>5. Undeployed => Undeployed'
  BY <1>1 DEF Undeployed
<1>6. Running => Running'
  BY <1>1, <1>2 DEF Running
<1>7. Phases => Phases'
  BY <1>1, <1>2, <1>4, <1>5, <1>6 DEF Phases
<1>8. Sources => Sources'
  BY <1>1 DEF Sources
<1> QED
  BY <1>1, <1>3, <1>7, <1>8 DEF FleetInv

-----------------------------------------------------------------------------
(* The theorems *)

\* The invariant holds of every fleet and every relay started by hand.
THEOREM FleetCorrect == FSpec => []FleetInv
<1>1. FInit => FleetInv
  BY FleetInit
<1>2. FleetInv /\ [FNext]_fvars => FleetInv'
  BY MaterializeStep, WriteStep, DeployStep, StartStep, FleetStutter DEF FNext
<1> QED
  BY <1>1, <1>2, PTL DEF FSpec

\* However many sites and keys there are, while they fit above the first port
\* every key has a port of its own (burn.rs:263-273, 304-315).
THEOREM PortPerKey == FSpec => []BackendPerKey
<1>1. FleetInv => BackendPerKey
  <2> SUFFICES ASSUME FleetInv, yaml # None, yaml.tool = "burn",
                      yaml.base + Cardinality(Slots) - 1 <= MaxPort
               PROVE  /\ \A s, t \in Slots : PortOf(s) = PortOf(t) => s = t
                      /\ \A s \in Slots : PortOf(s) \in 0 .. MaxPort
    BY DEF BackendPerKey
  <2>1. Planning /\ Laid(plan, port, yaml.base) /\ yaml.base \in Nat
    BY DescriptionParts DEF FleetInv, Planning
  <2>2. Slots = SlotsIn(plan) /\ \A s : PortOf(s) = PortIn(plan, s)
    BY DEF Slots, SlotsIn, PortOf, PortIn
  <2>3. PICK used : used = Cardinality(SlotsIn(plan))
    OBVIOUS
  <2>4. used \in Nat /\ MaxPort \in Nat
    BY <2>1, <2>3, FS_CardinalityType, FleetAssumption DEF Planning
  <2>5. /\ \A s, t \in SlotsIn(plan) : PortIn(plan, s) = PortIn(plan, t) => s = t
        /\ \A s \in SlotsIn(plan) : PortIn(plan, s) \in yaml.base .. yaml.base + used - 1
        /\ yaml.base + used - 1 <= MaxPort
    BY <2>1, <2>2, <2>3 DEF Laid
  <2>6. yaml.base .. yaml.base + used - 1 \subseteq 0 .. MaxPort
    BY <2>1, <2>4, <2>5
  <2> QED
    BY <2>2, <2>5, <2>6
<1> QED
  BY <1>1, FleetCorrect, PTL

\* On the public host a bridge opens for exactly the keys that are listed, in
\* every configuration the program can come to (config.rs:125-246).
THEOREM SiteAndListAgree == FSpec => []SiteMatchesList
<1>1. FleetInv => SiteMatchesList
  <2> SUFFICES ASSUME FleetInv, cfg.hosts = <<>>, NEW k \in Keys
               PROVE  Accepts(cfg.public, k) <=> k \in secret_bytes_list(cfg).keys
    BY DEF SiteMatchesList, Legacy
  <2>1. cfg \in Configuration(Written)
    BY DEF FleetInv, Sources, Config
  <2> QED
    BY <2>1, PublicOpens, ListedKeys DEF Accepts
<1> QED
  BY <1>1, FleetCorrect, PTL

\* The secret a capability is traced to and the capability itself lead to one
\* backend (config.rs:250-291).
THEOREM RoutesAlwaysAgree == FSpec => []RoutesAgree
<1>1. FleetInv => RoutesAgree
  <2> SUFFICES ASSUME FleetInv, cfg.hosts = <<>>, \A s \in Configured : ~s.pad, NEW cap \in Caps,
                      capability_site(cfg, cap[1], cap) # None
               PROVE  capability_backend(cfg, cap[1], cap)
                        = backend_for_secret(cfg, capability_site(cfg, cap[1], cap))
    BY DEF RoutesAgree, Legacy
  <2>1. cfg \in Configuration(Written)
    BY DEF FleetInv, Sources, Config
  <2>2. PICK host \in Hosts, key \in Keys : cap = bridge_capability(host, key)
    BY DEF Caps
  <2>3. cap[1] = host
    BY <2>2 DEF bridge_capability
  <2>4. SecretsOf(cfg) = Configured
    <3>1. DOMAIN BackendSecrets(cfg) = DOMAIN cfg.backends
      BY DEF BackendSecrets
    <3>2. Elements(BackendSecrets(cfg)) = {cfg.backends[n].secret : n \in DOMAIN cfg.backends}
      BY <3>1 DEF Elements, BackendSecrets
    <3> QED
      BY <3>2 DEF SecretsOf, Configured, Elements
  <2> QED
    BY <2>1, <2>2, <2>3, <2>4, RoutesMeet
<1> QED
  BY <1>1, FleetCorrect, PTL

\* The keys handed out for a site open it, at a relay that has its configuration,
\* and nothing else does; a site whose file was written over opens nowhere
\* (burn.rs:275-296, 395-416; mass.rs:188-216, 306-334; main.rs:64-91).
THEOREM SitesOpen == FSpec => []OpensOwnSite
<1>1. FleetInv => OpensOwnSite
  <2> SUFFICES ASSUME FleetInv, Deployed, NEW n \in DOMAIN plan, NEW k \in Keys
               PROVE  Accepts(plan[n].domain, k) <=> n \in Relayed /\ k \in HandedOut(n)
    BY DEF OpensOwnSite
  <2>1. /\ gen = "deployed" /\ stage = "serving" /\ yaml # None
        /\ Planning /\ Phases /\ Running /\ plan # <<>> /\ cfg = file
        /\ FilesWritten /\ yaml.tool \in {"burn", "mass"}
    BY DescriptionParts DEF Deployed, Serving, FleetInv, Phases, Planning, Running
  <2>2. /\ plan \in Seq(PlannedSite) /\ DOMAIN plan = 1 .. Len(plan) /\ Len(plan) \in Nat
        /\ \A m \in DOMAIN plan : plan[m] \in PlannedSite
        /\ \A m \in DOMAIN plan : plan[n].domain = plan[m].domain => n = m
    BY <2>1, LenProperties, ElementOfSeq DEF Planning
  <2>3. k \in KeysOf(plan[n].secrets) <=> \E s \in Elements(plan[n].secrets) : s.key = k
    BY DEF KeysOf, Elements
  <2>4. /\ FileName[plan[n].domain] \in Names
        /\ NamesDiffer => LastOf(FileName[plan[n].domain]) = plan[n]
    BY <2>1, LastSite
  <2>5. cfg \in Configuration(Written)
    BY DEF FleetInv, Sources, Config
  <2>6. CASE yaml.tool = "burn"
    <3>1. relay = 0 /\ cfg = relay_config
      BY <2>1, <2>6 DEF Running
    <3>2. Relayed = DOMAIN plan /\ HandedOut(n) = KeysOf(plan[n].secrets)
      <4>1. out[FileName[plan[n].domain]] = plan[n].secrets
        BY <2>1, <2>4, <2>6 DEF FilesWritten, Content, Phases
      <4> QED
        BY <2>6, <3>1, <4>1 DEF Relayed, HandedOut
    <3>3. /\ cfg.hosts # <<>> /\ DOMAIN cfg.hosts = DOMAIN plan
          /\ \A m \in DOMAIN plan : /\ cfg.hosts[m].host = plan[m].domain
                                    /\ cfg.hosts[m].secrets = plan[m].secrets
      BY <2>1, <3>1, RelayConfigTyped
    <3>4. PICK m \in DOMAIN cfg.hosts :
            /\ cfg.hosts[m].host = plan[n].domain
            /\ site_secret_hexes(cfg, plan[n].domain) = cfg.hosts[m].secrets
      BY <2>5, <3>3, SiteSecrets
    <3>5. site_secret_hexes(cfg, plan[n].domain) = plan[n].secrets
      BY <2>2, <3>3, <3>4
    <3>6. Accepts(plan[n].domain, k) <=> \E s \in Elements(plan[n].secrets) : s.key = k
      BY <2>5, <3>5, CapabilityOpens DEF Accepts
    <3> QED
      BY <2>3, <3>2, <3>6
  <2>7. CASE yaml.tool = "mass"
    <3>1. relay \in DOMAIN plan /\ cfg = site_config(LastOf(FileName[plan[relay].domain]))
      BY <2>1, <2>7 DEF Running
    <3>2. PICK last \in DOMAIN plan : LastOf(FileName[plan[relay].domain]) = plan[last]
      BY <2>1, <3>1, LastSite
    <3>3. plan[last] \in PlannedSite /\ cfg = site_config(plan[last])
      BY <2>2, <3>1, <3>2
    <3>4. (n \in Relayed <=> n = last) /\ HandedOut(n) = KeysOf(plan[n].secrets)
      <4>1. relay # 0 /\ yaml.tool # "burn"
        BY <2>2, <2>7, <3>1
      <4>2. plan[n] = plan[last] <=> n = last
        BY <2>2
      <4> QED
        BY <3>2, <4>1, <4>2 DEF Relayed, HandedOut
    <3>5. /\ cfg.hosts = <<>> /\ cfg.public = plan[last].domain
          /\ SecretsOf(cfg) = Elements(plan[last].secrets)
      BY <3>3, SiteConfigTyped
    <3>6. CASE n = last
      <4>1. Accepts(plan[n].domain, k) <=> \E s \in Elements(plan[n].secrets) : s.key = k
        BY <2>5, <3>5, <3>6, PublicOpens DEF Accepts
      <4> QED
        BY <2>3, <3>4, <3>6, <4>1
    <3>7. CASE n # last
      <4>1. plan[n].domain # cfg.public
        BY <2>2, <3>5, <3>7
      <4>2. site_secret_hexes(cfg, plan[n].domain) = <<>>
        BY <2>5, <3>5, <4>1, SiteSecrets
      <4>3. ~Accepts(plan[n].domain, k)
        BY <2>5, <4>2, NoElement, CapabilityOpens DEF Accepts
      <4> QED
        BY <3>4, <3>7, <4>3
    <3> QED
      BY <3>6, <3>7
  <2> QED
    BY <2>1, <2>6, <2>7
<1> QED
  BY <1>1, FleetCorrect, PTL
=============================================================================
