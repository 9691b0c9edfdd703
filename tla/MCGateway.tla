----------------------------- MODULE MCGateway -----------------------------
EXTENDS Gateway, TLC

S(k) == [key |-> k, pad |-> FALSE]

\* One site with a backend per key, and two sites; a secret may be malformed.
Single == [public |-> "h1", hosts |-> <<>>, primary |-> S("k1"), extra |-> <<>>,
           backends |-> <<[secret |-> S("k1"), addr |-> "a1"], [secret |-> S("k2"), addr |-> "a2"]>>,
           addr |-> "a0"]
Sites == [Single EXCEPT !.hosts = <<[host |-> "h1", secrets |-> <<S("short"), S("k1")>>],
                                    [host |-> "h2", secrets |-> <<S("k2")>>]>>]

TwoConfigs == {Single, Sites}
Interchangeable == Permutations(Pages)
=============================================================================
