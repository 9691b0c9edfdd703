------------------------------ MODULE Gateway ------------------------------
(***************************************************************************)
(* How a page comes to a session: root serves the bridge page with a       *)
(* one-time bootstrap token, POST /api/v1/session trades the token for a   *)
(* session and its bearer, a websocket upgrade or a DELETE names the       *)
(* bearer (src/src/server.rs).  The handlers share the maps of AppState,   *)
(* each behind a lock of its own, so that a handler stands between two     *)
(* locks while others run, and may be dropped there when its client is     *)
(* gone.  Everything lives in memory: a restart forgets it and counts from *)
(* one again, and the pages do not know.                                   *)
(*                                                                         *)
(* A session itself is Session.tla, what is sent to it HttpUp.tla and      *)
(* WsCarrier.tla, what it sends HttpDown.tla.                              *)
(***************************************************************************)
EXTENDS Routing, FiniteSets

CONSTANTS
  Pages,     \* bridge pages
  Configs,   \* configurations the relay may be started with
  Hosts,     \* values of the Host header
  MaxBoot,   \* unused tokens that are kept (8192)
  MaxTries,  \* attempts request() makes for the POST (9)
  MaxFaults, \* bound: retried POSTs and restarts of the process
  MaxIds     \* bound: next_id when a page is opened

ASSUME GatewayAssumption ==
  /\ IsFiniteSet(Pages)
  /\ MaxBoot \in Nat
  /\ MaxTries \in Nat \ {0}
  /\ MaxFaults \in Nat
  /\ MaxIds \in Nat

VARIABLES
  cfg,        \* AppState.cfg
  life,       \* which run of the process this is
  nextId,     \* next_id
  bootstraps, \* token -> host and capability
  backends,   \* session_backends
  sessions,   \* the bearers in sessions,
  outs,       \*   in out_channels
  cursors,    \*   and in down_cursors
  req,        \* per page, its POST requests
  page,       \* the pages
  upgrade,    \* per page, its websocket: "none", "asked" or the backend
  deleted,    \* per page, maps its DELETE has gone through; -1 before it
  started     \* sessions started, with their token and backend

maps == <<nextId, bootstraps, backends, sessions, outs, cursors>>
gvars == <<cfg, life, maps, req, page, upgrade, deleted, started>>

Tries == 1 .. MaxTries
Empty == [x \in {} |-> x]
Put(map, k, v) == [x \in DOMAIN map \cup {k} |-> IF x = k THEN v ELSE map[x]]
Without(map, k) == [x \in DOMAIN map \ {k} |-> map[x]]

\* A token is a digest of the time and the counter, a bearer is the counter.
Token == [life |-> life, id |-> nextId]
NoToken == [life |-> 0, id |-> 0]
NoBearer == 0
NoRequest == [pc |-> "unsent", bearer |-> NoBearer, addr |-> NoAddr, status |-> 0]
NewPage == [pc |-> "new", token |-> NoToken, try |-> 0, hello |-> TRUE,
            boot |-> None, bearer |-> NoBearer, life |-> 0]

\* Bounded: requests that were given up and made again, and restarts.
Faults ==
  life - 1 + Cardinality({x \in Pages \X Tries : x[2] < page[x[1]].try})

GInit ==
  /\ cfg \in Configs
  /\ life = 1
  /\ nextId = 1
  /\ bootstraps = Empty /\ backends = Empty
  /\ sessions = {} /\ outs = {} /\ cursors = {}
  /\ req = [p \in Pages |-> [a \in Tries |-> NoRequest]]
  /\ page = [p \in Pages |-> NewPage]
  /\ upgrade = [p \in Pages |-> "none"]
  /\ deleted = [p \in Pages |-> -1]
  /\ started = {}

-----------------------------------------------------------------------------
(* GET /?bridge=cap: root and bridge_page *)

\* Mutant: the tokens are dropped one too early.
MakeRoomEarly == IF Cardinality(DOMAIN bootstraps) >= MaxBoot THEN Empty ELSE bootstraps

\* More than 8192 unused tokens: all of them are dropped.
MakeRoom == IF Cardinality(DOMAIN bootstraps) > MaxBoot THEN Empty ELSE bootstraps

\* The capability is one of this host's: a page with a fresh token, which a
\* link that is opened again leaves behind unused.
OpenBridge(p, host, cap) ==
  /\ page[p].pc \in {"new", "bridge"}
  /\ nextId <= MaxIds
  /\ capability_site(cfg, host, cap) # None
  /\ nextId' = nextId + 1
  /\ bootstraps' = Put(MakeRoom, Token, [host |-> host, cap |-> cap])
  /\ page' = [page EXCEPT ![p].pc = "bridge", ![p].token = Token,
                          ![p].boot = [host |-> host, cap |-> cap]]
  /\ UNCHANGED <<cfg, life, backends, sessions, outs, cursors, req, upgrade,
                 deleted, started>>

\* Any other capability: the host's own page.
OpenMask(p, host, cap) ==
  /\ page[p].pc = "new"
  /\ capability_site(cfg, host, cap) = None
  /\ page' = [page EXCEPT ![p].pc = "mask"]
  /\ UNCHANGED <<cfg, life, maps, req, upgrade, deleted, started>>

-----------------------------------------------------------------------------
(* POST /api/v1/session: api_session *)

Reply(p, a, status) ==
  req' = [req EXCEPT ![p][a].pc = "replied", ![p][a].status = status]

\* No such token: 401.
Refuse(p, a) ==
  /\ req[p][a].pc = "sent"
  /\ page[p].token \notin DOMAIN bootstraps
  /\ Reply(p, a, 401)
  /\ UNCHANGED <<cfg, life, maps, page, upgrade, deleted, started>>

\* The token is taken, and only then the body is looked at: 400.
BadHello(p, a) ==
  /\ req[p][a].pc = "sent"
  /\ page[p].token \in DOMAIN bootstraps
  /\ ~page[p].hello
  /\ bootstraps' = Without(bootstraps, page[p].token)
  /\ Reply(p, a, 400)
  /\ UNCHANGED <<cfg, life, nextId, backends, sessions, outs, cursors, page,
                 upgrade, deleted, started>>

\* Mutant: the token is looked up and stays.
ClaimKeeping(p, a) ==
  /\ req[p][a].pc = "sent"
  /\ page[p].token \in DOMAIN bootstraps
  /\ page[p].hello
  /\ nextId' = nextId + 1
  /\ req' = [req EXCEPT ![p][a].pc = "claimed", ![p][a].bearer = nextId,
                        ![p][a].addr = session_backend(cfg, bootstraps[page[p].token].host)]
  /\ UNCHANGED <<cfg, life, bootstraps, backends, sessions, outs, cursors, page,
                 upgrade, deleted, started>>

\* The token is taken and a bearer made; up to the first lock.
Claim(p, a) ==
  /\ req[p][a].pc = "sent"
  /\ page[p].token \in DOMAIN bootstraps
  /\ page[p].hello
  /\ bootstraps' = Without(bootstraps, page[p].token)
  /\ nextId' = nextId + 1
  /\ req' = [req EXCEPT ![p][a].pc = "claimed", ![p][a].bearer = nextId,
                        ![p][a].addr = session_backend(cfg, bootstraps[page[p].token].host)]
  /\ UNCHANGED <<cfg, life, backends, sessions, outs, cursors, page, upgrade,
                 deleted, started>>

\* session_backends, then the session's tasks are spawned.
StartSession(p, a) ==
  /\ req[p][a].pc = "claimed"
  /\ backends' = Put(backends, req[p][a].bearer, req[p][a].addr)
  /\ started' = started \cup
       {[life |-> life, bearer |-> req[p][a].bearer, token |-> page[p].token,
         addr |-> req[p][a].addr]}
  /\ req' = [req EXCEPT ![p][a].pc = "started"]
  /\ UNCHANGED <<cfg, life, nextId, bootstraps, sessions, outs, cursors, page,
                 upgrade, deleted>>

PutSession(p, a) ==
  /\ req[p][a].pc = "started"
  /\ sessions' = sessions \cup {req[p][a].bearer}
  /\ req' = [req EXCEPT ![p][a].pc = "session"]
  /\ UNCHANGED <<cfg, life, nextId, bootstraps, backends, outs, cursors, page,
                 upgrade, deleted, started>>

\* Mutant: the answer is given before down_cursors is written.
PutOutReplying(p, a) ==
  /\ req[p][a].pc = "session"
  /\ outs' = outs \cup {req[p][a].bearer}
  /\ Reply(p, a, 200)
  /\ UNCHANGED <<cfg, life, nextId, bootstraps, backends, sessions, cursors, page,
                 upgrade, deleted, started>>

PutOut(p, a) ==
  /\ req[p][a].pc = "session"
  /\ outs' = outs \cup {req[p][a].bearer}
  /\ req' = [req EXCEPT ![p][a].pc = "out"]
  /\ UNCHANGED <<cfg, life, nextId, bootstraps, backends, sessions, cursors, page,
                 upgrade, deleted, started>>

\* down_cursors, and 200 with the bearer.
PutCursor(p, a) ==
  /\ req[p][a].pc = "out"
  /\ cursors' = cursors \cup {req[p][a].bearer}
  /\ Reply(p, a, 200)
  /\ UNCHANGED <<cfg, life, nextId, bootstraps, backends, sessions, outs, page,
                 upgrade, deleted, started>>

api_session(p, a) ==
  \/ Refuse(p, a) \/ BadHello(p, a) \/ Claim(p, a)
  \/ StartSession(p, a) \/ PutSession(p, a) \/ PutOut(p, a) \/ PutCursor(p, a)

\* A handler whose client is gone may be dropped at an await.
DropHandler(p, a) ==
  /\ req[p][a].pc \in {"sent", "claimed", "started", "session", "out"}
  /\ page[p].pc = "closed" \/ a < page[p].try
  /\ req' = [req EXCEPT ![p][a].pc = "dropped"]
  /\ UNCHANGED <<cfg, life, maps, page, upgrade, deleted, started>>

-----------------------------------------------------------------------------
(* The page *)

\* createSession, and request() again when an attempt fails on the way.
Create(p) ==
  /\ page[p].pc \in {"bridge", "creating"}
  /\ page[p].try < MaxTries
  /\ page[p].pc = "creating" => Faults < MaxFaults
  /\ \E hello \in BOOLEAN :
       /\ page[p].try > 0 => hello = page[p].hello
       /\ page' = [page EXCEPT ![p].pc = "creating", ![p].try = @ + 1, ![p].hello = hello]
  /\ req' = [req EXCEPT ![p][page[p].try + 1].pc = "sent"]
  /\ UNCHANGED <<cfg, life, maps, upgrade, deleted, started>>

Answered(p) == page[p].try > 0 /\ req[p][page[p].try].pc = "replied"

\* 200: the page has its bearer; when it was closed meanwhile, it has it to
\* delete the session.
GetBearer(p) ==
  /\ Answered(p)
  /\ req[p][page[p].try].status = 200
  /\ page[p].bearer = NoBearer
  /\ page' = [page EXCEPT ![p].pc = IF @ = "closed" THEN @ ELSE "connected",
                          ![p].bearer = req[p][page[p].try].bearer,
                          ![p].life = life]
  /\ UNCHANGED <<cfg, life, maps, req, upgrade, deleted, started>>

\* Another status, the retry limit, a later error, or the user.
ClosePage(p) ==
  /\ page[p].pc \in {"bridge", "creating", "connected"}
  /\ page' = [page EXCEPT ![p].pc = "closed"]
  /\ UNCHANGED <<cfg, life, maps, req, upgrade, deleted, started>>

AskUpgrade(p) ==
  /\ page[p].pc = "connected"
  /\ upgrade[p] = "none"
  /\ upgrade' = [upgrade EXCEPT ![p] = "asked"]
  /\ UNCHANGED <<cfg, life, maps, req, page, deleted, started>>

\* ws_carrier: the backend of the bearer, or the default; handle_ws counts.
ws_carrier(p) ==
  /\ upgrade[p] = "asked"
  /\ upgrade' = [upgrade EXCEPT ![p] =
       IF page[p].bearer \in DOMAIN backends THEN backends[page[p].bearer] ELSE cfg.addr]
  /\ nextId' = nextId + 1
  /\ UNCHANGED <<cfg, life, bootstraps, backends, sessions, outs, cursors, req,
                 page, deleted, started>>

-----------------------------------------------------------------------------
(* DELETE /api/v1/session: api_session_delete *)

AskDelete(p) ==
  /\ page[p].pc = "closed" /\ page[p].bearer # NoBearer
  /\ deleted[p] = -1
  /\ deleted' = [deleted EXCEPT ![p] = 0]
  /\ UNCHANGED <<cfg, life, maps, req, page, upgrade, started>>

\* Mutant: DELETE forgets the backend too.
DeleteSessionAndBackend(p) ==
  /\ deleted[p] = 0
  /\ sessions' = sessions \ {page[p].bearer}
  /\ backends' = Without(backends, page[p].bearer)
  /\ deleted' = [deleted EXCEPT ![p] = 1]
  /\ UNCHANGED <<cfg, life, nextId, bootstraps, outs, cursors, req,
                 page, upgrade, started>>

DeleteSession(p) ==
  /\ deleted[p] = 0
  /\ sessions' = sessions \ {page[p].bearer}
  /\ deleted' = [deleted EXCEPT ![p] = 1]
  /\ UNCHANGED <<cfg, life, nextId, bootstraps, backends, outs, cursors, req,
                 page, upgrade, started>>

DeleteOut(p) ==
  /\ deleted[p] = 1
  /\ outs' = outs \ {page[p].bearer}
  /\ deleted' = [deleted EXCEPT ![p] = 2]
  /\ UNCHANGED <<cfg, life, nextId, bootstraps, backends, sessions, cursors, req,
                 page, upgrade, started>>

DeleteCursor(p) ==
  /\ deleted[p] = 2
  /\ cursors' = cursors \ {page[p].bearer}
  /\ deleted' = [deleted EXCEPT ![p] = 3]
  /\ UNCHANGED <<cfg, life, nextId, bootstraps, backends, sessions, outs, req,
                 page, upgrade, started>>

-----------------------------------------------------------------------------
\* The process is restarted: its memory is gone, requests under way fail.
Restart ==
  /\ Faults < MaxFaults
  /\ life' = life + 1
  /\ nextId' = 1
  /\ bootstraps' = Empty /\ backends' = Empty
  /\ sessions' = {} /\ outs' = {} /\ cursors' = {}
  /\ req' = [p \in Pages |-> [a \in Tries |->
               IF req[p][a].pc = "unsent" THEN req[p][a]
               ELSE [req[p][a] EXCEPT !.pc = "dropped"]]]
  /\ upgrade' = [p \in Pages |-> IF upgrade[p] = "asked" THEN "none" ELSE upgrade[p]]
  /\ deleted' = [p \in Pages |-> IF deleted[p] \in 0 .. 2 THEN 3 ELSE deleted[p]]
  /\ UNCHANGED <<cfg, page, started>>

GNext ==
  \/ \E p \in Pages, host \in Hosts, cap \in Hosts \X Keys :
       OpenBridge(p, host, cap) \/ OpenMask(p, host, cap)
  \/ \E p \in Pages, a \in Tries : api_session(p, a) \/ DropHandler(p, a)
  \/ \E p \in Pages :
       \/ Create(p) \/ GetBearer(p) \/ ClosePage(p)
       \/ AskUpgrade(p) \/ ws_carrier(p)
       \/ AskDelete(p) \/ DeleteSession(p) \/ DeleteOut(p) \/ DeleteCursor(p)
  \/ Restart

GSpec == GInit /\ [][GNext]_gvars

-----------------------------------------------------------------------------
(* Properties *)

\* Pages that hold a bearer of this life of the process.
Holders == {p \in Pages : page[p].bearer # NoBearer /\ page[p].life = life}

\* The type invariant.
GTypeOK ==
  /\ cfg \in Configs
  /\ life \in 1 .. MaxFaults + 1
  /\ nextId \in Nat \ {0}
  /\ Cardinality(DOMAIN bootstraps) <= MaxBoot + 1
  /\ \A b \in DOMAIN backends \cup sessions \cup outs \cup cursors : b \in 1 .. nextId
  /\ \A p \in Pages :
       /\ page[p].pc \in {"new", "mask", "bridge", "creating", "connected", "closed"}
       /\ page[p].try \in 0 .. MaxTries
       /\ deleted[p] \in -1 .. 3

\* A bootstrap token makes one session, however its POST is repeated and
\* however the attempts run at once.
OnePerBootstrap == \A s, t \in started : s.token = t.token => s = t

\* A page of an earlier life has deleted the bearer it holds, now or before this
\* life gave it out, whosever it is now.
Overtaken(p) ==
  \E q \in Pages \ Holders : page[q].bearer = page[p].bearer /\ deleted[q] > 0

\* A page that has its bearer finds it in every map until it deletes it,
\* although the handler that answered wrote them one lock at a time and the
\* handlers of its other attempts may have been dropped half-way; only a page
\* that outlived a restart can take it away.
RepliedRegistered ==
  \A p \in Holders : deleted[p] < 1 /\ ~Overtaken(p) =>
    page[p].bearer \in sessions \cap outs \cap cursors \cap DOMAIN backends

\* A websocket opened with a bearer reaches the backend of the bearer's
\* session, even when its upgrade is overtaken by the DELETE.
UpgradeFindsBackend ==
  \A p \in Holders : upgrade[p] \notin {"none", "asked"} =>
    \E s \in started : s.life = life /\ s.bearer = page[p].bearer /\ s.addr = upgrade[p]

\* A request that has taken its token: for a bearer, or for a body that is none.
Spent(r) == r.bearer # NoBearer \/ r.status = 400

\* The token a page was given in this life is good until a POST of the page has
\* taken it, whatever other pages are opened and use theirs: it is dropped only
\* when MaxBoot + 1 tokens were kept and one more is made.
TokensLast ==
  \A p \in Pages :
    /\ page[p].token.life = life
    /\ page[p].token \notin DOMAIN bootstraps
    /\ \A a \in Tries : ~Spent(req[p][a])
    => nextId > MaxBoot + 2
=============================================================================
