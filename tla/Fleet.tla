------------------------------- MODULE Fleet -------------------------------
(***************************************************************************)
(* From the description of many sites to the relays that serve them: the   *)
(* generators burn (src/src/bin/burn.rs, one relay for all sites) and mass *)
(* (src/src/mass.rs, a relay per site), and the relay that starts on what  *)
(* they write (Startup.tla), with no environment and command line, as the  *)
(* rendered deployments start it.                                          *)
(*                                                                         *)
(* A generator takes the sites one by one: it checks the site, makes or    *)
(* copies its keys and gives them ports.  Then it writes its files.  Texts *)
(* are abstracted to what relay, MTProxy and the owner of a key read there.*)
(***************************************************************************)
EXTENDS Startup
LOCAL INSTANCE TLC

CONSTANTS
  Descriptions, \* what the YAML files may hold
  FileName,     \* the file name of a domain: other characters become "_"
  Fresh,        \* the keys the random generator yields, in order
  Short,        \* the keys of 16 bytes
  MaxCount,     \* keys that may be asked for by number (10000)
  FirstPort,    \* where mass starts (2398)
  MaxPort       \* the largest port (65535)

\* A description: the tool; base, mtproxy_base_port (burn); isolation (mass);
\* the sites.  A site: its domain, trimmed and in lower case; the number of its
\* keys, or 0 with the list of its keys; its carrier (mass).
SiteDescription == [domain : Text, count : Nat, list : Seq(Secret), carrier : Text]
Description ==
  [tool : {"burn", "mass"}, base : 0 .. MaxPort, isolation : BOOLEAN,
   sites : Seq(SiteDescription)]

\* The generator has keys for all sites.
ASSUME FleetAssumption ==
  /\ MaxCount \in Nat /\ FirstPort \in Nat /\ MaxPort \in Nat
  /\ Short \subseteq Keys /\ Fresh \in Seq(Short)
  /\ Descriptions \subseteq Description
  /\ \A d \in Descriptions : Len(d.sites) * MaxCount <= Len(Fresh)

VARIABLES
  yaml,  \* the description, or None when the relay is configured by hand
  gen,   \* "plan", "write", "written", "dry", "error", "deployed"; "none"
  plan,  \* the sites materialized: domain, secrets and the port of each
  port,  \* the next port
  made,  \* keys made by the random generator
  out,   \* the files written, by name: the keys of a site (burn, keys.zip),
         \* or the configuration of its relay (mass, site-*.json)
  relay  \* the site whose relay is deployed; 0 for the relay of all

fleetVars == <<yaml, gen, plan, port, made, out, relay>>
fvars == <<svars, fleetVars>>

Unset == [secret |-> NoSecret, secrets |-> <<>>, hostname |-> "", mproxy |-> ""]
NoOptions == [hostname |-> "", secrets |-> <<>>]

FInit ==
  /\ plan = <<>> /\ made = 0 /\ out = <<>> /\ relay = 0
  /\ \/ SInit /\ yaml = None /\ gen = "none" /\ port = FirstPort
     \/ /\ yaml \in Descriptions /\ gen = "plan"
        /\ port = IF yaml.tool = "burn" THEN yaml.base ELSE FirstPort
        /\ file = None /\ env = Unset /\ cli = NoOptions
        /\ cfg = Default /\ stage = "start"

-----------------------------------------------------------------------------
(* Materializing *)

\* burn takes a secret as it is written; mass trims it, and wants 16 bytes.
valid_secret(s) ==
  IF yaml.tool = "burn" THEN DecodesAsIs(s) ELSE s.key \in Short

BadKeys(site) ==
  \/ site.count > MaxCount
  \/ site.count = 0 /\ site.list = <<>>
  \/ \E n \in DOMAIN site.list : ~valid_secret(site.list[n])

carriers == {"websocket", "https", "https-lanes", "websocket-lanes"}

Rejected(site) ==
  \/ site.domain = ""
  \/ \E n \in DOMAIN plan : plan[n].domain = site.domain
  \/ BadKeys(site)
  \/ yaml.tool = "mass" /\ site.carrier \notin carriers

Secrets(site) ==
  IF site.count = 0 THEN [n \in DOMAIN site.list |-> [site.list[n] EXCEPT !.pad = FALSE]]
  ELSE [n \in 1 .. site.count |-> [key |-> Fresh[made + n], pad |-> FALSE]]

\* The 16-bit arithmetic of burn: `as u16` and, in a release build, `+`.
u16(n) == n % (MaxPort + 1)

\* The ports of n keys; mass counts in usize.
Ports(n) ==
  [m \in 1 .. n |-> IF yaml.tool = "burn" THEN u16(port + u16(m - 1)) ELSE port + m - 1]

\* Mutant: a site takes one port.
NextPortByOne(n) == port + 1

\* burn: saturating_add, then max.
NextPort(n) ==
  IF yaml.tool = "mass" THEN port + n
  ELSE IF port + u16(n) > MaxPort THEN MaxPort ELSE port + u16(n)

\* One turn of the loop over the sites: an error, or the site with its ports.
materialize ==
  /\ gen = "plan" /\ Len(plan) < Len(yaml.sites)
  /\ LET site == yaml.sites[Len(plan) + 1]
         secrets == Secrets(site)
     IN IF Rejected(site)
        THEN gen' = "error" /\ UNCHANGED <<plan, port, made>>
        ELSE /\ plan' = Append(plan, [domain |-> site.domain, secrets |-> secrets,
                                      ports |-> Ports(Len(secrets))])
             /\ port' = NextPort(Len(secrets))
             /\ made' = made + site.count
             /\ UNCHANGED gen
  /\ UNCHANGED <<svars, yaml, out, relay>>

\* No sites at all are an error; `dry` and --dry-run write nothing.
Planned ==
  /\ gen = "plan" /\ Len(plan) = Len(yaml.sites)
  /\ gen' \in IF plan = <<>> THEN {"error"} ELSE {"write", "dry"}
  /\ UNCHANGED <<svars, yaml, plan, port, made, out, relay>>

-----------------------------------------------------------------------------
(* What is written *)

Addr(p) == ToString(p)   \* container and port, as text

\* Mutant: every host has the keys of the first site.
relay_config_first_keys ==
  [Default EXCEPT
     !.public = plan[1].domain, !.primary = plan[1].secrets[1],
     !.hosts = [n \in DOMAIN plan |-> [host |-> plan[n].domain,
                                       secrets |-> plan[1].secrets]],
     !.addr = Addr(yaml.base)]

\* burn: config.json, the sites as hosts, no backends.
relay_config ==
  [Default EXCEPT
     !.public = plan[1].domain, !.primary = plan[1].secrets[1],
     !.hosts = [n \in DOMAIN plan |-> [host |-> plan[n].domain,
                                       secrets |-> plan[n].secrets]],
     !.addr = Addr(yaml.base)]

\* mass: site-<domain>.json, one site, a backend per key.
site_config(site) ==
  [Default EXCEPT
     !.public = site.domain, !.primary = site.secrets[1],
     !.backends = [n \in DOMAIN site.secrets |->
                     [secret |-> site.secrets[n], addr |-> Addr(site.ports[n])]],
     !.addr = Addr(site.ports[1])]

Names == {FileName[plan[n].domain] : n \in DOMAIN plan}

\* The site whose file of that name stays: the last.
LastOf(f) ==
  plan[CHOOSE n \in DOMAIN plan :
         /\ FileName[plan[n].domain] = f
         /\ \A m \in n + 1 .. Len(plan) : FileName[plan[m].domain] # f]

NamesDiffer ==
  \A n, m \in DOMAIN plan : FileName[plan[n].domain] = FileName[plan[m].domain] => n = m

\* config.json and the MTProxy's list, then keys.zip, a file per site.  The
\* archive refuses a second file of one name, when the rest is written.
WriteFleet ==
  /\ gen = "write" /\ yaml.tool = "burn"
  /\ gen' = IF NamesDiffer THEN "written" ELSE "error"
  /\ out' = IF NamesDiffer THEN [f \in Names |-> LastOf(f).secrets] ELSE out
  /\ UNCHANGED <<svars, yaml, plan, port, made, relay>>

\* A configuration per site; a file of the same name is written over.
export ==
  /\ gen = "write" /\ yaml.tool = "mass"
  /\ gen' = "written"
  /\ out' = [f \in Names |-> site_config(LastOf(f))]
  /\ UNCHANGED <<svars, yaml, plan, port, made, relay>>

-----------------------------------------------------------------------------
(* Deploying *)

\* compose.rendered.yml: the name of the service of a site.
relay_name(n) == IF yaml.isolation THEN n ELSE 0

\* A relay starts on config.json, or on the file its service mounts.  Compose
\* takes no two services of one name.
Deploy ==
  /\ gen = "written"
  /\ gen' = "deployed"
  /\ \/ /\ yaml.tool = "burn"
        /\ file' = relay_config /\ UNCHANGED relay
     \/ /\ yaml.tool = "mass"
        /\ \A n, m \in DOMAIN plan : relay_name(n) = relay_name(m) => n = m
        /\ \E n \in DOMAIN plan :
             relay' = n /\ file' = out[FileName[plan[n].domain]]
  /\ UNCHANGED <<env, cli, cfg, stage, yaml, plan, port, made, out>>

\* main, by hand or deployed.
Start ==
  /\ gen \in {"none", "deployed"}
  /\ SNext
  /\ UNCHANGED fleetVars

FNext == materialize \/ Planned \/ WriteFleet \/ export \/ Deploy \/ Start

FSpec == FInit /\ [][FNext]_fvars

-----------------------------------------------------------------------------
(* Properties *)

Slots == UNION {{<<n, m>> : m \in DOMAIN plan[n].ports} : n \in DOMAIN plan}
PortOf(slot) == plan[slot[1]].ports[slot[2]]
KeysOf(secrets) == {secrets[n].key : n \in DOMAIN secrets}

\* Every key has a port of its own, in all sites together, as long as the
\* fleet has room above its first port: the sites are laid out one after the
\* other, and the ports of a site are counted on from its first.
BackendPerKey ==
  yaml # None /\ yaml.tool = "burn" /\ yaml.base + Cardinality(Slots) - 1 <= MaxPort
    => /\ \A s, t \in Slots : PortOf(s) = PortOf(t) => s = t
       /\ \A s \in Slots : PortOf(s) \in 0 .. MaxPort

Deployed == gen = "deployed" /\ Serving
\* The sites whose own configuration the relay has: those of config.json, or the
\* one whose file mass wrote last under the name the service mounts.
Relayed ==
  IF relay = 0 THEN DOMAIN plan
  ELSE {n \in DOMAIN plan : plan[n] = LastOf(FileName[plan[relay].domain])}

\* What the owner of a site is given: a file of keys.zip, a line of secrets.txt.
HandedOut(n) ==
  KeysOf(IF yaml.tool = "burn" THEN out[FileName[plan[n].domain]] ELSE plan[n].secrets)

\* Once the relay serves, the keys handed out for a site are exactly those
\* that open it, and only at a relay that has its configuration: from the
\* description over the files and main to the lookup by host.  Where mass wrote
\* one site's file over another's, both relays serve the later site and none the
\* earlier, whose keys open nothing.
OpensOwnSite ==
  Deployed
    => \A n \in DOMAIN plan, k \in Keys :
         Accepts(plan[n].domain, k) <=> n \in Relayed /\ k \in HandedOut(n)

\* "each web-proxy secret maps to its own MTProto backend port"
\* (src/src/config.rs:63-64; burn.rs:5-6 says it of the fleet): a session opened
\* with a key goes to a port laid out for that key.  Expected to be violated.
KeyReachesItsPort ==
  Deployed
    => \A n \in Relayed : \A m \in DOMAIN plan[n].secrets :
         \E j \in DOMAIN plan[n].secrets :
           /\ plan[n].secrets[j] = plan[n].secrets[m]
           /\ session_backend(cfg, plan[n].domain) = Addr(plan[n].ports[j])

=============================================================================
