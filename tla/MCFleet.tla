------------------------------ MODULE MCFleet ------------------------------
EXTENDS Fleet

S(k) == [key |-> k, pad |-> FALSE]
Padded(k) == [key |-> k, pad |-> TRUE]

\* Configurations by hand.
One == [public |-> "h1", hosts |-> <<>>, primary |-> S("k1"), extra |-> <<Padded("k2")>>,
        backends |-> <<[secret |-> S("k1"), addr |-> "a1"], [secret |-> S("k3"), addr |-> "a2"]>>,
        addr |-> "a3"]
Doubled == [public |-> "h1", hosts |-> <<>>, primary |-> S("k2"), extra |-> <<S("k1"), S("short")>>,
            backends |-> <<[secret |-> S("k1"), addr |-> "a1"], [secret |-> S("k1"), addr |-> "a2"]>>,
            addr |-> "a3"]
Faulty == [Doubled EXCEPT !.primary = S("nothex"), !.extra = <<Padded("empty")>>]
Sites == [One EXCEPT !.hosts = <<[host |-> "h1", secrets |-> <<S("k1")>>],
                                 [host |-> "h2", secrets |-> <<S("k2"), S("k3")>>]>>]

MCFiles == {One, Doubled, Faulty, Sites}
MCEnvs == [secret : {NoSecret, S("k3"), Padded("k1")},
           secrets : {<<>>, <<NoSecret>>, <<S("k2"), S("short")>>},
           hostname : {"", "h2"}, mproxy : {"", "a4"}]
MCClis == [hostname : {"", "h3"},
           secrets : {<<>>, <<NoSecret, S("k2")>>, <<S("k3"), Padded("k2")>>, <<S("k1"), S("k2")>>}]

\* Fleets: one site of any kind beside an ordinary one, and three sites, on
\* ports with room and at the end of their range.
MCFileName == [h1 |-> "h1", h2 |-> "h2", h3 |-> "h2"]
MCFresh == <<"k1", "k2", "k1", "k2", "k1", "k2">>

Site(d, n, list, c) == [domain |-> d, count |-> n, list |-> list, carrier |-> c]
Odd == {Site(d, n, <<>>, "https") : d \in {"", "h2"}, n \in 0 .. 3}
         \cup {Site("h2", 0, list, "https") :
                 list \in {<<S("short")>>, <<S("nothex")>>, <<Padded("k2")>>, <<S("k3")>>,
                          <<S("k1"), S("k1")>>, <<S("k2"), Padded("k1")>>}}
         \cup {Site("h2", 1, <<>>, "other")}
Plain == {Site(d, n, <<>>, "websocket") : d \in {"h1", "h2", "h3"}, n \in 1 .. 2}
           \cup {Site("h1", 0, <<S("k3")>>, "https-lanes")}
Lists == {<<>>} \cup {<<s>> : s \in Odd} \cup {<<p, s>> : p \in Plain, s \in Odd}
           \cup {<<s, p>> : p \in Plain, s \in Odd} \cup [1 .. 3 -> Plain]
MCDescriptions ==
  [tool : {"burn"}, base : {3, 5, 6}, isolation : {TRUE}, sites : Lists]
    \cup [tool : {"mass"}, base : {0}, isolation : BOOLEAN, sites : Lists]

\* One fleet of each kind.
MCSmall ==
  [tool : {"burn"}, base : {3}, isolation : {TRUE},
   sites : {<<Site("h1", 2, <<>>, "websocket"), Site("h2", 1, <<>>, "websocket")>>}]
    \cup [tool : {"mass"}, base : {0}, isolation : {TRUE},
          sites : {<<Site("h1", 2, <<>>, "websocket")>>}]
=============================================================================
