------------------------------ MODULE Startup ------------------------------
(***************************************************************************)
(* How the relay comes to its configuration: main (src/src/main.rs:66-91)  *)
(* reads config.json if it is there, lets the environment override it      *)
(* (src/src/config.rs:299-342) and the command line after that, and        *)
(* serves.  The sources are chosen in the initial state; the properties    *)
(* are about the configuration in force, and relate the routing operators  *)
(* of Routing.tla, which look it up along different ways.                  *)
(*                                                                         *)
(* Left out are the fields that are copied and never looked at here:       *)
(* listen, carrier_mode, public_dir, limits, admin_listen.                 *)
(***************************************************************************)
EXTENDS Routing

CONSTANTS
  Files,     \* configurations config.json may hold
  Envs,      \* environments
  Clis,      \* command lines
  Hosts      \* host names asked for

\* Host names and addresses; the program itself writes three of them.
Text == STRING \cup {"", "proxy", "default"}

\* A configuration whose addresses are in Addrs.  An environment: NoSecret,
\* <<>>, "" are unset or empty variables.  A command line: --hostname and the
\* --secret list.
Configuration(Addrs) ==
  [public : Text, hosts : Seq([host : Text, secrets : Seq(Secret)]),
   primary : Secret, extra : Seq(Secret),
   backends : Seq([secret : Secret, addr : Addrs]), addr : Addrs]
Environment == [secret : Secret, secrets : Seq(Secret), hostname : Text, mproxy : Text]
CommandLine == [hostname : Text, secrets : Seq(Secret)]

ASSUME StartupAssumption ==
  /\ Files \subseteq Configuration(Text)
  /\ Envs \subseteq Environment
  /\ Clis \subseteq CommandLine

VARIABLES
  file,   \* what config.json holds, or None
  env,    \* the environment
  cli,    \* the command line
  cfg,    \* the configuration built so far
  stage   \* how far main has come

svars == <<file, env, cli, cfg, stage>>

\* Config::default
Default == [public |-> "proxy", hosts |-> <<>>, primary |-> NoSecret,
            extra |-> <<>>, backends |-> <<>>, addr |-> "default"]

SInit ==
  /\ file \in Files \cup {None}
  /\ env \in Envs
  /\ cli \in Clis
  /\ cfg = Default
  /\ stage = "start"

\* config.json replaces the default.
Load ==
  /\ stage = "start"
  /\ cfg' = IF file = None THEN cfg ELSE file
  /\ stage' = "loaded"
  /\ UNCHANGED <<file, env, cli>>

\* Each variable that is not empty replaces its field.
apply_env ==
  /\ stage = "loaded"
  /\ cfg' = [cfg EXCEPT
       !.primary = IF IsEmpty(env.secret) THEN @ ELSE env.secret,
       !.extra = IF env.secrets = <<>> THEN @ ELSE Nonempty(env.secrets),
       !.public = IF env.hostname = "" THEN @ ELSE env.hostname,
       !.addr = IF env.mproxy = "" THEN @ ELSE env.mproxy]
  /\ stage' = "env"
  /\ UNCHANGED <<file, env, cli>>

\* Every --secret becomes a backend entry at the address in force.
CliBackends ==
  LET secrets == Nonempty(cli.secrets)
  IN [n \in DOMAIN secrets |-> [secret |-> secrets[n], addr |-> cfg.addr]]

\* --hostname replaces; the first --secret fills an empty primary.
ApplyCli ==
  /\ stage = "env"
  /\ cfg' = [cfg EXCEPT
       !.public = IF cli.hostname = "" THEN @ ELSE cli.hostname,
       !.primary = IF cli.secrets # <<>> /\ IsEmpty(@) THEN cli.secrets[1] ELSE @,
       !.backends = @ \o CliBackends]
  /\ stage' = "serving"
  /\ UNCHANGED <<file, env, cli>>

\* AppState::new takes the configuration; nothing changes it any more.
Serve ==
  /\ stage = "serving"
  /\ UNCHANGED svars

SNext == Load \/ apply_env \/ ApplyCli \/ Serve

SSpec == SInit /\ [][SNext]_svars

-----------------------------------------------------------------------------
(* Properties *)

Serving == stage = "serving"
Legacy == Serving /\ cfg.hosts = <<>>
Caps == {bridge_capability(h, k) : h \in Hosts, k \in Keys}
Accepts(h, k) == capability_site(cfg, h, bridge_capability(h, k)) # None

\* Every secret of the configuration in force.
Configured ==
  {cfg.primary} \cup {cfg.extra[n] : n \in DOMAIN cfg.extra}
    \cup {cfg.backends[n].secret : n \in DOMAIN cfg.backends}

\* On the public host a bridge opens for exactly the keys secret_bytes_list
\* reports, although one walks the site's secrets and the other the fields,
\* and both skip what does not decode.
SiteMatchesList ==
  Legacy /\ secret_bytes_list(cfg).ok
    => \A k \in Keys : Accepts(cfg.public, k) <=> k \in secret_bytes_list(cfg).keys

\* While no secret is written with blanks around it, the secret a capability
\* is traced to and the capability itself lead to the same backend.
RoutesAgree ==
  Legacy /\ (\A s \in Configured : ~s.pad)
    => \A cap \in Caps :
         LET s == capability_site(cfg, cap[1], cap)
         IN s # None => capability_backend(cfg, cap[1], cap) = backend_for_secret(cfg, s)

=============================================================================
