--------------------------- MODULE GatewayProofs ---------------------------
(* Theorems about Gateway.tla, for every value of its constants. *)
EXTENDS Gateway, FiniteSetTheorems, TLAPS

-----------------------------------------------------------------------------
(* The inductive invariant, part by part *)

Places == {"unsent", "sent", "claimed", "started", "session", "out", "replied",
           "dropped"}
Codes == {0, 200, 400, 401}
Addrs == {NoAddr} \cup {session_backend(c, host) : c \in Configs, host \in Hosts}
Request == [pc : Places, bearer : Nat, addr : Addrs, status : Codes]

Stages == {"new", "mask", "bridge", "creating", "connected", "closed"}
Tokens == [life : Nat, id : Nat]
Boots == [host : Hosts, cap : Hosts \X Keys]
PageState == [pc : Stages, token : Tokens, try : 0 .. MaxTries, hello : BOOLEAN,
              boot : {None} \cup Boots, bearer : Nat, life : Nat]

\* GTypeOK with what it leaves out.
Typed ==
  /\ cfg \in Configs
  /\ life \in 1 .. MaxFaults + 1
  /\ nextId \in Nat \ {0}
  /\ IsFiniteSet(DOMAIN bootstraps)
  /\ Cardinality(DOMAIN bootstraps) <= MaxBoot + 1
  /\ \A t \in DOMAIN bootstraps : /\ t \in Tokens /\ t.life # 0
                                  /\ bootstraps[t].host \in Hosts
  /\ \A b \in DOMAIN backends \cup sessions \cup outs \cup cursors :
       b \in 1 .. nextId - 1
  /\ req \in [Pages -> [Tries -> Request]]
  /\ page \in [Pages -> PageState]
  /\ DOMAIN upgrade = Pages
  /\ deleted \in [Pages -> -1 .. 3]
  /\ \A s \in started : s.token \in Tokens

\* A token made so far: by an earlier life, or earlier in this one.
Made(t) == t.life < life \/ (t.life = life /\ t.id < nextId)

\* Every token about was made before, a started session's is spent, and no two
\* pages have the same.
TokensMade ==
  /\ \A t \in DOMAIN bootstraps : Made(t)
  /\ \A p \in Pages : Made(page[p].token)
  /\ \A s \in started : Made(s.token) /\ s.token \notin DOMAIN bootstraps
  /\ \A p, q \in Pages :
       p # q /\ page[p].token = page[q].token => page[p].token = NoToken

\* The requests that were not made are unsent; a page that has not posted has
\* nothing to show for it.
Quiet ==
  \A p \in Pages :
    /\ \A a \in Tries : a > page[p].try => req[p][a].pc = "unsent"
    /\ page[p].pc \in {"new", "mask", "bridge"} =>
         page[p].try = 0 /\ page[p].bearer = NoBearer

\* A claimed token is in no map, has started nothing, and is claimed once.
ClaimedOnce ==
  \A p \in Pages, a \in Tries : req[p][a].pc = "claimed" =>
    /\ page[p].token \notin DOMAIN bootstraps
    /\ page[p].token # NoToken
    /\ \A s \in started : s.token # page[p].token
    /\ \A b \in Tries : b # a => req[p][b].pc # "claimed"

TokenInv == TokensMade /\ Quiet /\ ClaimedOnce /\ OnePerBootstrap

\* A request that has made a bearer in this life and was not dropped.
Granted(r) == r.pc = "replied" /\ r.status = 200
Live(r) == r.pc \in {"claimed", "started", "session", "out"} \/ Granted(r)

\* No two of them have the same bearer.
BearersApart ==
  /\ \A p \in Pages, a \in Tries : Live(req[p][a]) => req[p][a].bearer \in 1 .. nextId - 1
  /\ \A p, q \in Pages, a, b \in Tries :
       Live(req[p][a]) /\ Live(req[q][b]) /\ req[p][a].bearer = req[q][b].bearer =>
         p = q /\ a = b

\* Some page has told one of the maps to forget the bearer.
Forgotten(b) == \E q \in Pages : page[q].bearer = b /\ deleted[q] > 0

\* What the handler has written is there, unless somebody deleted it.
Registered(r) ==
  /\ r.pc \in {"started", "session", "out"} \/ Granted(r) =>
       /\ r.bearer \in DOMAIN backends /\ backends[r.bearer] = r.addr
       /\ \E s \in started : s.life = life /\ s.bearer = r.bearer /\ s.addr = r.addr
  /\ r.pc \in {"session", "out"} \/ Granted(r) =>
       r.bearer \in sessions \/ Forgotten(r.bearer)
  /\ r.pc = "out" \/ Granted(r) => r.bearer \in outs \/ Forgotten(r.bearer)
  /\ Granted(r) => r.bearer \in cursors \/ Forgotten(r.bearer)

\* A page that holds a bearer holds that of one of its own requests; a page
\* without a bearer has done nothing with it.
Held ==
  \A p \in Pages :
    /\ page[p].life <= life
    /\ page[p].bearer = NoBearer =>
         upgrade[p] = "none" /\ deleted[p] = -1 /\ page[p].pc # "connected"
    /\ p \in Holders =>
         \E a \in Tries : Granted(req[p][a]) /\ req[p][a].bearer = page[p].bearer

BearerInv ==
  /\ BearersApart
  /\ \A p \in Pages, a \in Tries : Registered(req[p][a])
  /\ Held
  /\ UpgradeFindsBackend

GatewayInv == Typed /\ TokenInv /\ BearerInv

-----------------------------------------------------------------------------
(* Requests and pages as the handlers rewrite them *)

Move(r, pc) == [r EXCEPT !.pc = pc]
Answer(r, status) == [r EXCEPT !.pc = "replied", !.status = status]
Grant(r, bearer, addr) == [r EXCEPT !.pc = "claimed", !.bearer = bearer, !.addr = addr]

\* Moving a request changes its place only.
LEMMA MoveRequest ==
  ASSUME NEW r \in Request, NEW pc \in Places
  PROVE  /\ Move(r, pc) \in Request
         /\ Move(r, pc).pc = pc
         /\ Move(r, pc).bearer = r.bearer
         /\ Move(r, pc).addr = r.addr
         /\ Move(r, pc).status = r.status
  BY DEF Move, Request

\* An answered request keeps its bearer and backend.
LEMMA AnswerRequest ==
  ASSUME NEW r \in Request, NEW status \in Codes
  PROVE  /\ Answer(r, status) \in Request
         /\ Answer(r, status).pc = "replied"
         /\ Answer(r, status).bearer = r.bearer
         /\ Answer(r, status).addr = r.addr
         /\ Answer(r, status).status = status
<1>1. "replied" \in Places
  BY DEF Places
<1> QED
  BY <1>1 DEF Answer, Request

\* A claimed request has its bearer and backend.
LEMMA GrantRequest ==
  ASSUME NEW r \in Request, NEW bearer \in Nat, NEW addr \in Addrs
  PROVE  /\ Grant(r, bearer, addr) \in Request
         /\ Grant(r, bearer, addr).pc = "claimed"
         /\ Grant(r, bearer, addr).bearer = bearer
         /\ Grant(r, bearer, addr).addr = addr
         /\ Grant(r, bearer, addr).status = r.status
<1>1. "claimed" \in Places
  BY DEF Places
<1> QED
  BY <1>1 DEF Grant, Request

\* Request a of page p becomes r, and no other changes.
Becomes(p, a, r) ==
  /\ req' \in [Pages -> [Tries -> Request]]
  /\ req'[p][a] = r
  /\ \A q \in Pages, b \in Tries : q # p \/ b # a => req'[q][b] = req[q][b]

\* An EXCEPT of one request leaves the others alone.
LEMMA OneRequest ==
  ASSUME NEW p \in Pages, NEW a \in Tries, NEW r \in Request,
         req \in [Pages -> [Tries -> Request]],
         req' = [req EXCEPT ![p][a] = r]
  PROVE  Becomes(p, a, r)
  BY DEF Becomes

\* A reply rewrites one request.
LEMMA ReplyShape ==
  ASSUME NEW p \in Pages, NEW a \in Tries, NEW status \in Codes,
         req \in [Pages -> [Tries -> Request]], Reply(p, a, status)
  PROVE  Becomes(p, a, Answer(req[p][a], status))
<1> DEFINE r == Answer(req[p][a], status)
<1>1. r \in Request
  BY AnswerRequest
<1>2. req' = [req EXCEPT ![p][a] = r]
  BY DEF Reply, Answer
<1> QED
  BY <1>1, <1>2, OneRequest

\* A handler that moves on rewrites one request.
LEMMA MoveShape ==
  ASSUME NEW p \in Pages, NEW a \in Tries, NEW pc \in Places,
         req \in [Pages -> [Tries -> Request]],
         req' = [req EXCEPT ![p][a].pc = pc]
  PROVE  Becomes(p, a, Move(req[p][a], pc))
<1> DEFINE r == Move(req[p][a], pc)
<1>1. r \in Request
  BY MoveRequest
<1>2. req' = [req EXCEPT ![p][a] = r]
  BY DEF Move
<1> QED
  BY <1>1, <1>2, OneRequest

\* A claim rewrites one request.
LEMMA GrantShape ==
  ASSUME NEW p \in Pages, NEW a \in Tries, NEW bearer \in Nat, NEW addr \in Addrs,
         req \in [Pages -> [Tries -> Request]],
         req' = [req EXCEPT ![p][a].pc = "claimed", ![p][a].bearer = bearer,
                            ![p][a].addr = addr]
  PROVE  Becomes(p, a, Grant(req[p][a], bearer, addr))
<1> DEFINE r == Grant(req[p][a], bearer, addr)
<1>1. r \in Request
  BY GrantRequest
<1>2. req' = [req EXCEPT ![p][a] = r]
  BY DEF Grant
<1> QED
  BY <1>1, <1>2, OneRequest

\* The pages.
OpenedAs(g, token, boot) == [g EXCEPT !.pc = "bridge", !.token = token, !.boot = boot]
AtStage(g, pc) == [g EXCEPT !.pc = pc]
Trying(g, hello) == [g EXCEPT !.pc = "creating", !.try = @ + 1, !.hello = hello]
Bearing(g, bearer, now) ==
  [g EXCEPT !.pc = IF @ = "closed" THEN @ ELSE "connected", !.bearer = bearer, !.life = now]

\* A page that is opened has a new token, and the rest as it was.
LEMMA OpenedPage ==
  ASSUME NEW g \in PageState, NEW token \in Tokens, NEW boot \in Boots
  PROVE  /\ OpenedAs(g, token, boot) \in PageState
         /\ OpenedAs(g, token, boot).pc = "bridge"
         /\ OpenedAs(g, token, boot).token = token
         /\ OpenedAs(g, token, boot).try = g.try
         /\ OpenedAs(g, token, boot).bearer = g.bearer
         /\ OpenedAs(g, token, boot).life = g.life
<1>1. "bridge" \in Stages
  BY DEF Stages
<1> QED
  BY <1>1 DEF OpenedAs, PageState

\* A page that only changes its stage.
LEMMA StagedPage ==
  ASSUME NEW g \in PageState, NEW pc \in Stages
  PROVE  /\ AtStage(g, pc) \in PageState
         /\ AtStage(g, pc).pc = pc
         /\ AtStage(g, pc).token = g.token
         /\ AtStage(g, pc).try = g.try
         /\ AtStage(g, pc).bearer = g.bearer
         /\ AtStage(g, pc).life = g.life
  BY DEF AtStage, PageState

\* A page that posts counts the attempt.
LEMMA TryingPage ==
  ASSUME NEW g \in PageState, NEW hello \in BOOLEAN, g.try < MaxTries
  PROVE  /\ Trying(g, hello) \in PageState
         /\ Trying(g, hello).pc = "creating"
         /\ Trying(g, hello).token = g.token
         /\ Trying(g, hello).try = g.try + 1
         /\ Trying(g, hello).bearer = g.bearer
         /\ Trying(g, hello).life = g.life
<1>1. "creating" \in Stages
  BY DEF Stages
<1>2. g.try \in 0 .. MaxTries /\ MaxTries \in Nat
  BY GatewayAssumption DEF PageState
<1>3. g.try + 1 \in 0 .. MaxTries
  BY <1>2
<1> QED
  BY <1>1, <1>3 DEF Trying, PageState

\* A page that gets its bearer is connected or stays closed.
LEMMA BearingPage ==
  ASSUME NEW g \in PageState, NEW bearer \in Nat, NEW now \in Nat
  PROVE  /\ Bearing(g, bearer, now) \in PageState
         /\ Bearing(g, bearer, now).pc \in {"closed", "connected"}
         /\ Bearing(g, bearer, now).token = g.token
         /\ Bearing(g, bearer, now).try = g.try
         /\ Bearing(g, bearer, now).bearer = bearer
         /\ Bearing(g, bearer, now).life = now
<1>1. "connected" \in Stages
  BY DEF Stages
<1> QED
  BY <1>1 DEF Bearing, PageState

\* Page p becomes g, and no other changes.
Turns(p, g) ==
  /\ page' \in [Pages -> PageState]
  /\ page'[p] = g
  /\ \A q \in Pages : q # p => page'[q] = page[q]

\* An EXCEPT of one page leaves the others alone.
LEMMA OnePage ==
  ASSUME NEW p \in Pages, NEW g \in PageState, page \in [Pages -> PageState],
         page' = [page EXCEPT ![p] = g]
  PROVE  Turns(p, g)
  BY DEF Turns

-----------------------------------------------------------------------------
(* What keeps each part of the invariant *)

\* Tokens: no new ones in the map or on a page, none spent.
LEMMA KeepTokens ==
  ASSUME Typed, TokensMade, life' = life, nextId' \in Nat, nextId <= nextId',
         DOMAIN bootstraps' \subseteq DOMAIN bootstraps, started' = started,
         \A p \in Pages : page'[p].token = page[p].token
  PROVE  TokensMade'
<1>1. nextId \in Nat /\ page \in [Pages -> PageState]
      /\ \A t \in DOMAIN bootstraps : t \in Tokens
  BY DEF Typed
<1>2. \A p \in Pages : page[p].token \in Tokens
  BY <1>1 DEF PageState
<1>3. \A t \in Tokens : Made(t) => (Made(t))'
  BY <1>1 DEF Made, Tokens
<1>4. \A s \in started : s.token \in Tokens
  BY DEF Typed
<1> QED
  BY <1>1, <1>2, <1>3, <1>4 DEF TokensMade

\* Quiet: a page that has not posted stays as it was, and a request that was
\* not made is not made behind the page's back.
LEMMA KeepQuiet ==
  ASSUME Typed, Quiet,
         \A p \in Pages :
           /\ page'[p].pc \in {"new", "mask", "bridge"} =>
                /\ page[p].pc \in {"new", "mask", "bridge"}
                /\ page'[p].try = page[p].try /\ page'[p].bearer = page[p].bearer
           /\ page'[p].try = page[p].try,
         \A p \in Pages, a \in Tries :
           req[p][a].pc = "unsent" => req'[p][a].pc = "unsent"
  PROVE  Quiet'
<1>1. \A p \in Pages, a \in Tries : a > page'[p].try => req'[p][a].pc = "unsent"
  BY DEF Quiet
<1>2. \A p \in Pages : page'[p].pc \in {"new", "mask", "bridge"} =>
        page'[p].try = 0 /\ page'[p].bearer = NoBearer
  BY DEF Quiet
<1> QED
  BY <1>1, <1>2 DEF Quiet, NoBearer, Tries

\* A page with a request that was made is no longer new.
LEMMA HasPosted ==
  ASSUME Typed, Quiet, NEW p \in Pages, NEW a \in Tries, req[p][a].pc # "unsent"
  PROVE  page[p].pc \notin {"new", "mask", "bridge"}
<1>1. MaxTries \in Nat /\ a \in 1 .. MaxTries
  BY GatewayAssumption DEF Tries
<1> QED
  BY <1>1 DEF Quiet

\* Claims: no new one, and no token comes back.
LEMMA KeepClaims ==
  ASSUME ClaimedOnce, DOMAIN bootstraps' \subseteq DOMAIN bootstraps, started' = started,
         \A p \in Pages : page'[p].token = page[p].token,
         \A p \in Pages, a \in Tries :
           req'[p][a].pc = "claimed" => req[p][a].pc = "claimed"
  PROVE  ClaimedOnce'
  BY DEF ClaimedOnce, NoToken, Tries

\* Bearers: no new one.
LEMMA KeepApart ==
  ASSUME BearersApart, nextId \in Nat, nextId' \in Nat, nextId <= nextId',
         \A p \in Pages, a \in Tries : (Live(req[p][a]))' =>
           Live(req[p][a]) /\ req'[p][a].bearer = req[p][a].bearer
  PROVE  BearersApart'
<1>1. \A p \in Pages, a \in Tries : (Live(req[p][a]))' => req'[p][a].bearer \in 1 .. nextId' - 1
  BY DEF BearersApart
<1>2. \A p, q \in Pages, a, b \in Tries :
        (Live(req[p][a]))' /\ (Live(req[q][b]))' /\ req'[p][a].bearer = req'[q][b].bearer =>
          p = q /\ a = b
  BY DEF BearersApart
<1> QED
  BY <1>1, <1>2 DEF BearersApart, Tries

\* A map still knows bearer b, or somebody has deleted it.
Kept(b) ==
  /\ b \in DOMAIN backends => b \in DOMAIN backends' /\ backends'[b] = backends[b]
  /\ b \in sessions \/ Forgotten(b) => b \in sessions' \/ (Forgotten(b))'
  /\ b \in outs \/ Forgotten(b) => b \in outs' \/ (Forgotten(b))'
  /\ b \in cursors \/ Forgotten(b) => b \in cursors' \/ (Forgotten(b))'

\* A request that stays as it is stays registered where its bearer is kept.
LEMMA KeepRegistered ==
  ASSUME NEW r \in Request, Registered(r), Live(r) => Kept(r.bearer),
         life' = life, started \subseteq started'
  PROVE  (Registered(r))'
  BY DEF Registered, Live, Granted, Kept

\* A request that has made no bearer owes nothing.
LEMMA IdleRegistered ==
  ASSUME NEW r \in Request, ~Live(r)
  PROVE  (Registered(r))'
  BY DEF Registered, Live, Granted

\* Pages: nobody's bearer changes.
LEMMA KeepHeld ==
  ASSUME Typed, Held, life' = life,
         \A p \in Pages : /\ page'[p].bearer = page[p].bearer
                          /\ page'[p].life = page[p].life
                          /\ page'[p].pc = "connected" => page[p].pc = "connected"
                          /\ page[p].bearer = NoBearer =>
                               upgrade'[p] = upgrade[p] /\ deleted'[p] = deleted[p],
         \A p \in Pages, a \in Tries : Granted(req[p][a]) =>
           (Granted(req[p][a]))' /\ req'[p][a].bearer = req[p][a].bearer
  PROVE  Held'
<1>1. \A p \in Pages : page'[p].life <= life'
  BY DEF Held
<1>2. \A p \in Pages : page'[p].bearer = NoBearer =>
        upgrade'[p] = "none" /\ deleted'[p] = -1 /\ page'[p].pc # "connected"
  BY DEF Held
<1>3. Holders' = Holders
  BY DEF Holders, NoBearer
<1>4. \A p \in Holders' : \E a \in Tries :
         (Granted(req[p][a]))' /\ req'[p][a].bearer = page'[p].bearer
  BY <1>3 DEF Held, Holders
<1> QED
  BY <1>1, <1>2, <1>4 DEF Held, NoBearer, Tries

\* Upgrades: no page that holds a bearer has a new backend.
LEMMA KeepUpgrades ==
  ASSUME UpgradeFindsBackend, life' = life, started \subseteq started',
         \A p \in Pages :
           /\ page'[p].bearer = page[p].bearer
           /\ page'[p].life = page[p].life
           /\ upgrade'[p] = upgrade[p] \/ upgrade'[p] \in {"none", "asked"}
  PROVE  UpgradeFindsBackend'
<1>1. Holders' = Holders
  BY DEF Holders, NoBearer
<1> QED
  BY <1>1 DEF UpgradeFindsBackend, Holders

\* One request moves: the bearer invariant needs what is said of its own bearer.
LEMMA MoveBearers ==
  ASSUME Typed, BearerInv, NEW p \in Pages, NEW a \in Tries, NEW r \in Request,
         Becomes(p, a, r), req[p][a].pc # "replied", BearersApart', (Registered(r))',
         life' = life, started \subseteq started', upgrade' = upgrade, deleted' = deleted,
         \A q \in Pages : /\ page'[q].bearer = page[q].bearer
                          /\ page'[q].life = page[q].life
                          /\ page'[q].pc = "connected" => page[q].pc = "connected",
         \A b \in Nat : (Live(req[p][a]) => b # req[p][a].bearer) => Kept(b)
  PROVE  BearerInv'
<1>1. ASSUME NEW q \in Pages, NEW c \in Tries
      PROVE  (Registered(req[q][c]))'
  <2>1. CASE q = p /\ c = a
    BY <2>1 DEF Becomes
  <2>2. CASE q # p \/ c # a
    <3>1. PICK x \in Request : x = req[q][c]
      BY DEF Typed
    <3>2. req'[q][c] = x
      BY <2>2, <3>1 DEF Becomes
    <3>3. Registered(x)
      BY <3>1 DEF BearerInv
    <3>4. Live(x) => Kept(x.bearer)
      <4>1. x.bearer \in Nat
        BY DEF Request
      <4>2. Live(x) /\ Live(req[p][a]) => x.bearer # req[p][a].bearer
        BY <2>2, <3>1 DEF BearerInv, BearersApart
      <4> QED
        BY <4>1, <4>2
    <3>5. (Registered(x))'
      BY <3>3, <3>4, KeepRegistered
    <3> QED
      BY <3>2, <3>5
  <2> QED
    BY <2>1, <2>2
<1>2. \A q \in Pages, c \in Tries : Granted(req[q][c]) =>
        (Granted(req[q][c]))' /\ req'[q][c].bearer = req[q][c].bearer
  BY DEF Becomes, Granted
<1>3. Held'
  BY <1>2, KeepHeld DEF BearerInv
<1>4. UpgradeFindsBackend'
  BY KeepUpgrades DEF BearerInv
<1> QED
  BY <1>1, <1>3, <1>4 DEF BearerInv, Tries

\* No request moves and no page gets a bearer.
LEMMA StillBearers ==
  ASSUME Typed, BearerInv, req' = req, life' = life, started' = started,
         nextId' \in Nat, nextId <= nextId',
         \A p \in Pages :
           /\ page'[p].bearer = page[p].bearer
           /\ page'[p].life = page[p].life
           /\ page'[p].pc = "connected" => page[p].pc = "connected"
           /\ page[p].bearer = NoBearer =>
                upgrade'[p] = upgrade[p] /\ deleted'[p] = deleted[p]
           /\ upgrade'[p] = upgrade[p] \/ upgrade'[p] \in {"none", "asked"},
         \A b \in Nat : Kept(b)
  PROVE  BearerInv'
<1>1. ASSUME NEW q \in Pages, NEW c \in Tries
      PROVE  (Registered(req[q][c]))'
  <2>1. PICK x \in Request : x = req[q][c]
    BY DEF Typed
  <2>2. Registered(x) /\ Kept(x.bearer)
    BY <2>1 DEF BearerInv, Request
  <2>3. (Registered(x))'
    BY <2>2, KeepRegistered
  <2> QED
    BY <2>1, <2>3
<1>2. BearersApart'
  BY KeepApart DEF BearerInv, Typed, Live, Granted
<1>3. Held'
  BY KeepHeld DEF BearerInv, Granted
<1>4. UpgradeFindsBackend'
  BY KeepUpgrades DEF BearerInv
<1> QED
  BY <1>1, <1>2, <1>3, <1>4 DEF BearerInv, Tries

\* A bearer is kept where the maps only grow and no DELETE is undone.
LEMMA MapsGrow ==
  ASSUME NEW b,
         b \in DOMAIN backends => b \in DOMAIN backends' /\ backends'[b] = backends[b],
         sessions \subseteq sessions', outs \subseteq outs', cursors \subseteq cursors',
         \A q \in Pages : /\ page'[q].bearer = page[q].bearer
                          /\ deleted[q] > 0 => deleted'[q] > 0
  PROVE  Kept(b)
  BY DEF Kept, Forgotten

\* The places and codes of a request are different strings and numbers.
LEMMA Named ==
  /\ {"unsent", "sent", "claimed", "started", "session", "out", "replied", "dropped"}
       \subseteq Places
  /\ {0, 200, 400, 401} \subseteq Codes
  /\ {"new", "mask", "bridge", "creating", "connected", "closed"} \subseteq Stages
  BY DEF Places, Codes, Stages

-----------------------------------------------------------------------------
(* One lemma per action *)

\* A request that no longer is on its way to a session: what its handler took
\* from the map stays out of it.
LEMMA StopRequest ==
  ASSUME GatewayInv, NEW p \in Pages, NEW a \in Tries, NEW r \in Request,
         Becomes(p, a, r), req[p][a].pc \notin {"unsent", "replied"},
         r.pc \notin {"unsent", "claimed"}, ~Live(r),
         IsFiniteSet(DOMAIN bootstraps'),
         DOMAIN bootstraps' \subseteq DOMAIN bootstraps,
         \A t \in DOMAIN bootstraps' : bootstraps'[t] = bootstraps[t],
         UNCHANGED <<cfg, life, nextId, backends, sessions, outs, cursors, page,
                     upgrade, deleted, started>>
  PROVE  GatewayInv'
<1> USE DEF GatewayInv
<1>1. Typed'
  <2>1. Cardinality(DOMAIN bootstraps') <= MaxBoot + 1
    <3>1. Cardinality(DOMAIN bootstraps') <= Cardinality(DOMAIN bootstraps)
      BY FS_Subset DEF Typed
    <3>2. Cardinality(DOMAIN bootstraps') \in Nat /\ Cardinality(DOMAIN bootstraps) \in Nat
      BY FS_CardinalityType DEF Typed
    <3> QED
      BY <3>1, <3>2, GatewayAssumption DEF Typed
  <2> QED
    BY <2>1 DEF Typed, Becomes
<1>2. nextId \in Nat /\ nextId <= nextId' /\ nextId' \in Nat
  BY DEF Typed
<1>3. TokenInv'
  <2>1. TokensMade'
    BY <1>2, KeepTokens DEF TokenInv
  <2>2. Quiet'
    <3>1. page[p].pc \notin {"new", "mask", "bridge"}
      BY HasPosted DEF TokenInv
    <3> QED
      BY <3>1, KeepQuiet DEF TokenInv, Becomes
  <2>3. ClaimedOnce'
    BY KeepClaims DEF TokenInv, Becomes
  <2> QED
    BY <2>1, <2>2, <2>3 DEF TokenInv, OnePerBootstrap
<1>4. BearerInv'
  <2>1. BearersApart'
    <3>1. \A q \in Pages, b \in Tries : (Live(req[q][b]))' =>
            Live(req[q][b]) /\ req'[q][b].bearer = req[q][b].bearer
      BY DEF Becomes, Live, Granted
    <3> QED
      BY <1>2, <3>1, KeepApart DEF BearerInv
  <2>2. (Registered(r))'
    BY IdleRegistered
  <2>3. \A b \in Nat : Kept(b)
    BY MapsGrow
  <2> QED
    BY <2>1, <2>2, <2>3, MoveBearers
<1> QED
  BY <1>1, <1>3, <1>4

\* 401: nothing else changes.
LEMMA RefuseStep ==
  ASSUME GatewayInv, NEW p \in Pages, NEW a \in Tries, Refuse(p, a)
  PROVE  GatewayInv'
<1>1. req \in [Pages -> [Tries -> Request]] /\ IsFiniteSet(DOMAIN bootstraps)
  BY DEF GatewayInv, Typed
<1>2. 401 \in Codes /\ req[p][a] \in Request
  BY <1>1, Named
<1>3. PICK r : r = Answer(req[p][a], 401)
  OBVIOUS
<1>4. r \in Request /\ r.pc = "replied" /\ r.status = 401
  BY <1>2, <1>3, AnswerRequest
<1>5. Becomes(p, a, r)
  BY <1>1, <1>2, <1>3, ReplyShape DEF Refuse
<1>6. ~Live(r)
  BY <1>4 DEF Live, Granted
<1> QED
  BY <1>1, <1>4, <1>5, <1>6, StopRequest DEF Refuse, maps

\* 400: the token is gone, and no session starts.
LEMMA BadHelloStep ==
  ASSUME GatewayInv, NEW p \in Pages, NEW a \in Tries, BadHello(p, a)
  PROVE  GatewayInv'
<1>1. req \in [Pages -> [Tries -> Request]] /\ IsFiniteSet(DOMAIN bootstraps)
  BY DEF GatewayInv, Typed
<1>2. 400 \in Codes /\ req[p][a] \in Request
  BY <1>1, Named
<1>3. PICK r : r = Answer(req[p][a], 400)
  OBVIOUS
<1>4. r \in Request /\ r.pc = "replied" /\ r.status = 400
  BY <1>2, <1>3, AnswerRequest
<1>5. Becomes(p, a, r)
  BY <1>1, <1>2, <1>3, ReplyShape DEF BadHello
<1>6. ~Live(r)
  BY <1>4 DEF Live, Granted
<1>7. /\ DOMAIN bootstraps' \subseteq DOMAIN bootstraps
      /\ \A t \in DOMAIN bootstraps' : bootstraps'[t] = bootstraps[t]
  BY DEF BadHello, Without
<1>8. IsFiniteSet(DOMAIN bootstraps')
  BY <1>1, <1>7, FS_Subset
<1> QED
  BY <1>4, <1>5, <1>6, <1>7, <1>8, StopRequest DEF BadHello

\* A dropped handler leaves behind what it wrote.
LEMMA DropStep ==
  ASSUME GatewayInv, NEW p \in Pages, NEW a \in Tries, DropHandler(p, a)
  PROVE  GatewayInv'
<1>1. req \in [Pages -> [Tries -> Request]] /\ IsFiniteSet(DOMAIN bootstraps)
  BY DEF GatewayInv, Typed
<1>2. "dropped" \in Places /\ req[p][a] \in Request
  BY <1>1, Named
<1>3. PICK r : r = Move(req[p][a], "dropped")
  OBVIOUS
<1>4. r \in Request /\ r.pc = "dropped"
  BY <1>2, <1>3, MoveRequest
<1>5. Becomes(p, a, r)
  BY <1>1, <1>2, <1>3, MoveShape DEF DropHandler
<1>6. ~Live(r)
  BY <1>4 DEF Live, Granted
<1> QED
  BY <1>1, <1>4, <1>5, <1>6, StopRequest DEF DropHandler, maps

\* The token is taken, and the bearer is a new one.
LEMMA ClaimStep ==
  ASSUME GatewayInv, NEW p \in Pages, NEW a \in Tries, Claim(p, a)
  PROVE  GatewayInv'
<1> DEFINE t == page[p].token
           addr == session_backend(cfg, bootstraps[t].host)
<1>1. /\ req \in [Pages -> [Tries -> Request]] /\ IsFiniteSet(DOMAIN bootstraps)
      /\ nextId \in Nat \ {0} /\ page \in [Pages -> PageState]
      /\ \A x \in DOMAIN bootstraps : x.life # 0
      /\ \A b \in DOMAIN backends \cup sessions \cup outs \cup cursors : b \in 1 .. nextId - 1
  BY DEF GatewayInv, Typed
<1>2. addr \in Addrs
  BY DEF GatewayInv, Typed, Addrs, Claim
<1>3. PICK r : r = Grant(req[p][a], nextId, addr)
  OBVIOUS
<1>4. req[p][a] \in Request /\ nextId \in Nat
  BY <1>1
<1>5. r \in Request /\ r.pc = "claimed" /\ r.bearer = nextId
  BY <1>2, <1>3, <1>4, GrantRequest
<1>6. Becomes(p, a, r)
  BY <1>1, <1>2, <1>3, <1>4, GrantShape DEF Claim
<1>7. nextId' = nextId + 1 /\ nextId' \in Nat \ {0} /\ nextId <= nextId'
  BY <1>1 DEF Claim
<1>8. /\ DOMAIN bootstraps' = DOMAIN bootstraps \ {t}
      /\ \A x \in DOMAIN bootstraps' : bootstraps'[x] = bootstraps[x]
      /\ t \in DOMAIN bootstraps
  BY DEF Claim, Without
<1>9. UNCHANGED <<cfg, life, backends, sessions, outs, cursors, page, upgrade,
                  deleted, started>>
  BY DEF Claim
<1>10. Typed'
  <2>1. IsFiniteSet(DOMAIN bootstraps') /\ Cardinality(DOMAIN bootstraps') <= MaxBoot + 1
    <3>1. /\ Cardinality(DOMAIN bootstraps') <= Cardinality(DOMAIN bootstraps)
          /\ IsFiniteSet(DOMAIN bootstraps')
      BY <1>1, <1>8, FS_Subset
    <3>2. Cardinality(DOMAIN bootstraps') \in Nat /\ Cardinality(DOMAIN bootstraps) \in Nat
      BY <1>1, <3>1, FS_CardinalityType
    <3> QED
      BY <3>1, <3>2, GatewayAssumption DEF GatewayInv, Typed
  <2>2. \A b \in DOMAIN backends \cup sessions \cup outs \cup cursors : b \in 1 .. nextId' - 1
    BY <1>1, <1>7
  <2>3. req' \in [Pages -> [Tries -> Request]]
    BY <1>6 DEF Becomes
  <2> QED
    BY <1>7, <1>8, <1>9, <2>1, <2>2, <2>3 DEF GatewayInv, Typed
<1>11. req[p][a].pc = "sent"
  BY DEF Claim
<1>12. TokenInv'
  <2>1. TokensMade'
    BY <1>7, <1>8, <1>9, KeepTokens DEF GatewayInv, TokenInv
  <2>2. Quiet'
    <3>1. page[p].pc \notin {"new", "mask", "bridge"}
      BY <1>11, HasPosted DEF GatewayInv, TokenInv
    <3> QED
      BY <1>6, <1>9, <1>11, <3>1, KeepQuiet DEF GatewayInv, TokenInv, Becomes
  <2>3. ASSUME NEW q \in Pages, NEW b \in Tries, req'[q][b].pc = "claimed"
        PROVE  /\ page[q].token \notin DOMAIN bootstraps'
               /\ page[q].token # NoToken
               /\ \A s \in started : s.token # page[q].token
               /\ \A c \in Tries : c # b => req'[q][c].pc # "claimed"
    <3>1. CASE q = p /\ b = a
      <4>1. t # NoToken
        BY <1>1, <1>8 DEF NoToken
      <4>2. \A s \in started : s.token # t
        BY <1>8 DEF GatewayInv, TokenInv, TokensMade
      <4>3. \A c \in Tries : c # a => req'[p][c].pc # "claimed"
        BY <1>6, <1>8 DEF GatewayInv, TokenInv, ClaimedOnce, Becomes
      <4> QED
        BY <1>8, <3>1, <4>1, <4>2, <4>3
    <3>2. CASE q # p \/ b # a
      <4>1. req[q][b].pc = "claimed"
        BY <1>6, <2>3, <3>2 DEF Becomes
      <4>2. q # p
        BY <1>8, <4>1 DEF GatewayInv, TokenInv, ClaimedOnce
      <4> QED
        BY <1>6, <1>8, <4>1, <4>2 DEF GatewayInv, TokenInv, ClaimedOnce, Becomes
    <3> QED
      BY <3>1, <3>2
  <2>4. ClaimedOnce'
    BY <1>9, <2>3 DEF ClaimedOnce, NoToken, Tries
  <2> QED
    BY <1>9, <2>1, <2>2, <2>4 DEF GatewayInv, TokenInv, OnePerBootstrap
<1>13. BearerInv'
  <2>1. \A q \in Pages, b \in Tries : q # p \/ b # a => req'[q][b] = req[q][b]
    BY <1>6 DEF Becomes
  <2>2. \A q \in Pages, b \in Tries : (q # p \/ b # a) /\ (Live(req[q][b]))' =>
          Live(req[q][b]) /\ req'[q][b].bearer \in 1 .. nextId - 1
    BY <2>1 DEF GatewayInv, BearerInv, BearersApart, Live, Granted
  <2>3. \A q \in Pages, b \in Tries : (Live(req[q][b]))' => req'[q][b].bearer \in 1 .. nextId' - 1
    BY <1>1, <1>5, <1>6, <1>7, <2>2 DEF Becomes
  <2>4. ASSUME NEW q \in Pages, NEW s \in Pages, NEW b \in Tries, NEW c \in Tries,
               (Live(req[q][b]))', (Live(req[s][c]))', req'[q][b].bearer = req'[s][c].bearer
        PROVE  q = s /\ b = c
    <3>1. CASE q = p /\ b = a
      BY <1>1, <1>5, <1>6, <2>2, <2>4, <3>1 DEF Becomes
    <3>2. CASE s = p /\ c = a
      BY <1>1, <1>5, <1>6, <2>2, <2>4, <3>2 DEF Becomes
    <3>3. CASE (q # p \/ b # a) /\ (s # p \/ c # a)
      BY <2>1, <2>2, <2>4, <3>3 DEF GatewayInv, BearerInv, BearersApart
    <3> QED
      BY <3>1, <3>2, <3>3
  <2>5. BearersApart'
    BY <2>3, <2>4 DEF BearersApart, Tries
  <2>6. (Registered(r))'
    BY <1>5 DEF Registered, Granted
  <2>7. \A b \in Nat : Kept(b)
    BY <1>9, MapsGrow
  <2> QED
    BY <1>5, <1>6, <1>9, <1>11, <2>5, <2>6, <2>7, MoveBearers DEF GatewayInv
<1> QED
  BY <1>10, <1>12, <1>13 DEF GatewayInv

\* After its claim a handler keeps its bearer: only what it writes itself is
\* to be shown.
LEMMA AdvanceRequest ==
  ASSUME GatewayInv, NEW p \in Pages, NEW a \in Tries, NEW r \in Request,
         Becomes(p, a, r), req[p][a].pc \in {"claimed", "started", "session", "out"},
         r.pc \notin {"unsent", "claimed"}, r.bearer = req[p][a].bearer,
         \A b \in DOMAIN backends' \cup sessions' \cup outs' \cup cursors' :
           b \in DOMAIN backends \cup sessions \cup outs \cup cursors \/ b = r.bearer,
         \A b \in Nat : b # r.bearer => Kept(b),
         started \subseteq started', \A s \in started' : s.token \in Tokens,
         (Registered(r))', TokensMade', ClaimedOnce', OnePerBootstrap',
         UNCHANGED <<cfg, life, nextId, bootstraps, page, upgrade, deleted>>
  PROVE  GatewayInv'
<1>1. Live(req[p][a])
  BY DEF Live
<1>2. r.bearer \in 1 .. nextId - 1
  BY <1>1 DEF GatewayInv, BearerInv, BearersApart
<1>3. Typed'
  <2>1. \A b \in DOMAIN backends' \cup sessions' \cup outs' \cup cursors' : b \in 1 .. nextId' - 1
    BY <1>2 DEF GatewayInv, Typed
  <2> QED
    BY <2>1 DEF GatewayInv, Typed, Becomes
<1>4. Quiet'
  <2>1. page[p].pc \notin {"new", "mask", "bridge"}
    BY HasPosted DEF GatewayInv, TokenInv
  <2> QED
    BY <2>1, KeepQuiet DEF GatewayInv, TokenInv, Becomes
<1>5. TokenInv'
  BY <1>4 DEF TokenInv
<1>6. BearersApart'
  <2>1. \A q \in Pages, b \in Tries : (Live(req[q][b]))' =>
          Live(req[q][b]) /\ req'[q][b].bearer = req[q][b].bearer
    BY <1>1 DEF Becomes, Live, Granted
  <2> QED
    BY <2>1, KeepApart DEF GatewayInv, Typed, BearerInv
<1>7. req[p][a].pc # "replied"
  OBVIOUS
<1>8. \A b \in Nat : (Live(req[p][a]) => b # req[p][a].bearer) => Kept(b)
  BY <1>1
<1>9. BearerInv'
  BY <1>6, <1>7, <1>8, MoveBearers DEF GatewayInv
<1> QED
  BY <1>3, <1>5, <1>9 DEF GatewayInv

\* The backend is kept and the session started with a token that no other
\* session has.
LEMMA StartStep ==
  ASSUME GatewayInv, NEW p \in Pages, NEW a \in Tries, StartSession(p, a)
  PROVE  GatewayInv'
<1> DEFINE t == page[p].token
<1>1. /\ req \in [Pages -> [Tries -> Request]] /\ page \in [Pages -> PageState]
      /\ "started" \in Places
  BY Named DEF GatewayInv, Typed
<1>2. req[p][a].pc = "claimed" /\ req[p][a] \in Request
  BY <1>1 DEF StartSession
<1>3. PICK r : r = Move(req[p][a], "started")
  OBVIOUS
<1>4. r \in Request /\ r.pc = "started" /\ r.bearer = req[p][a].bearer /\ r.addr = req[p][a].addr
  BY <1>1, <1>2, <1>3, MoveRequest
<1>5. Becomes(p, a, r)
  BY <1>1, <1>3, MoveShape DEF StartSession
<1>6. PICK s : /\ s = [life |-> life, bearer |-> r.bearer, token |-> t, addr |-> r.addr]
               /\ started' = started \cup {s}
  BY <1>4 DEF StartSession
<1>7. s.life = life /\ s.bearer = r.bearer /\ s.token = t /\ s.addr = r.addr
  BY <1>6
<1>8. UNCHANGED <<cfg, life, nextId, bootstraps, sessions, outs, cursors, page,
                  upgrade, deleted>>
  BY DEF StartSession
<1>9. /\ DOMAIN backends' = DOMAIN backends \cup {r.bearer}
      /\ backends'[r.bearer] = r.addr
      /\ \A b \in DOMAIN backends : b # r.bearer => backends'[b] = backends[b]
  BY <1>4 DEF StartSession, Put
<1>10. t \in Tokens /\ Made(t)
  BY <1>1 DEF PageState, GatewayInv, TokenInv, TokensMade
<1>11. /\ t \notin DOMAIN bootstraps /\ t # NoToken
       /\ \A x \in started : x.token # t
       /\ \A b \in Tries : b # a => req[p][b].pc # "claimed"
  BY <1>2 DEF GatewayInv, TokenInv, ClaimedOnce
<1>12. \A x \in started' : x.token \in Tokens
  BY <1>6, <1>7, <1>10 DEF GatewayInv, Typed
<1>13. TokensMade'
  <2>1. \A x \in started' : Made(x.token) /\ x.token \notin DOMAIN bootstraps
    BY <1>6, <1>7, <1>10, <1>11 DEF GatewayInv, TokenInv, TokensMade
  <2> QED
    BY <1>8, <2>1 DEF GatewayInv, TokenInv, TokensMade, Made
<1>14. ClaimedOnce'
  <2>1. ASSUME NEW q \in Pages, NEW b \in Tries, req'[q][b].pc = "claimed"
        PROVE  req[q][b].pc = "claimed" /\ q # p
    BY <1>4, <1>5, <1>11, <2>1 DEF Becomes
  <2>2. \A q \in Pages : q # p /\ page[q].token = t => FALSE
    BY <1>11 DEF GatewayInv, TokenInv, TokensMade
  <2>3. ASSUME NEW q \in Pages, NEW b \in Tries, req'[q][b].pc = "claimed"
        PROVE  /\ page[q].token \notin DOMAIN bootstraps
               /\ page[q].token # NoToken
               /\ \A x \in started' : x.token # page[q].token
               /\ \A c \in Tries : c # b => req'[q][c].pc # "claimed"
    BY <1>6, <1>7, <2>1, <2>2, <2>3 DEF GatewayInv, TokenInv, ClaimedOnce
  <2> QED
    BY <1>8, <2>3 DEF ClaimedOnce, NoToken, Tries
<1>15. OnePerBootstrap'
  BY <1>6, <1>7, <1>11 DEF GatewayInv, TokenInv, OnePerBootstrap
<1>16. (Registered(r))'
  BY <1>4, <1>6, <1>7, <1>8, <1>9 DEF Registered, Granted
<1>17. \A b \in Nat : b # r.bearer => Kept(b)
  BY <1>8, <1>9, MapsGrow
<1>18. \A b \in DOMAIN backends' \cup sessions' \cup outs' \cup cursors' :
         b \in DOMAIN backends \cup sessions \cup outs \cup cursors \/ b = r.bearer
  BY <1>8, <1>9
<1>19. started \subseteq started'
  BY <1>6
<1> QED
  BY <1>2, <1>4, <1>5, <1>8, <1>12, <1>13, <1>14, <1>15, <1>16, <1>17, <1>18, <1>19,
     AdvanceRequest

\* The handler writes the next map, or answers: nothing but its own bearer is
\* touched.
LEMMA FillRequest ==
  ASSUME GatewayInv, NEW p \in Pages, NEW a \in Tries, NEW r \in Request,
         Becomes(p, a, r), req[p][a].pc \in {"started", "session", "out"},
         r.pc \notin {"unsent", "claimed"}, r.bearer = req[p][a].bearer,
         sessions' \in {sessions, sessions \cup {r.bearer}},
         outs' \in {outs, outs \cup {r.bearer}},
         cursors' \in {cursors, cursors \cup {r.bearer}},
         (Registered(r))',
         UNCHANGED <<cfg, life, nextId, bootstraps, backends, page, upgrade, deleted, started>>
  PROVE  GatewayInv'
<1>1. nextId \in Nat /\ nextId <= nextId' /\ nextId' \in Nat
  BY DEF GatewayInv, Typed
<1>2. TokensMade'
  BY <1>1, KeepTokens DEF GatewayInv, TokenInv
<1>3. ClaimedOnce'
  BY KeepClaims DEF GatewayInv, TokenInv, Becomes
<1>4. OnePerBootstrap'
  BY DEF GatewayInv, TokenInv, OnePerBootstrap
<1>5. \A b \in Nat : b # r.bearer => Kept(b)
  BY MapsGrow
<1>6. \A b \in DOMAIN backends' \cup sessions' \cup outs' \cup cursors' :
        b \in DOMAIN backends \cup sessions \cup outs \cup cursors \/ b = r.bearer
  OBVIOUS
<1>7. \A s \in started' : s.token \in Tokens
  BY DEF GatewayInv, Typed
<1> QED
  BY <1>2, <1>3, <1>4, <1>5, <1>6, <1>7, AdvanceRequest

\* The sessions map has the bearer of the handler that wrote it.
LEMMA PutSessionStep ==
  ASSUME GatewayInv, NEW p \in Pages, NEW a \in Tries, PutSession(p, a)
  PROVE  GatewayInv'
<1>1. req \in [Pages -> [Tries -> Request]] /\ "session" \in Places
  BY Named DEF GatewayInv, Typed
<1>2. req[p][a].pc = "started" /\ req[p][a] \in Request
  BY <1>1 DEF PutSession
<1>3. PICK r : r = Move(req[p][a], "session")
  OBVIOUS
<1>4. r \in Request /\ r.pc = "session" /\ r.bearer = req[p][a].bearer /\ r.addr = req[p][a].addr
  BY <1>1, <1>2, <1>3, MoveRequest
<1>5. Becomes(p, a, r)
  BY <1>1, <1>3, MoveShape DEF PutSession
<1>6. sessions' = sessions \cup {r.bearer}
  BY <1>4 DEF PutSession
<1>7. UNCHANGED <<cfg, life, nextId, bootstraps, backends, outs, cursors, page,
                  upgrade, deleted, started>>
  BY DEF PutSession
<1>8. Registered(req[p][a])
  BY DEF GatewayInv, BearerInv
<1>9. (Registered(r))'
  BY <1>2, <1>4, <1>6, <1>7, <1>8 DEF Registered, Granted
<1> QED
  BY <1>2, <1>4, <1>5, <1>6, <1>7, <1>9, FillRequest

\* The same of out_channels; what is deleted meanwhile stays forgotten.
LEMMA PutOutStep ==
  ASSUME GatewayInv, NEW p \in Pages, NEW a \in Tries, PutOut(p, a)
  PROVE  GatewayInv'
<1>1. req \in [Pages -> [Tries -> Request]] /\ "out" \in Places
  BY Named DEF GatewayInv, Typed
<1>2. req[p][a].pc = "session" /\ req[p][a] \in Request
  BY <1>1 DEF PutOut
<1>3. PICK r : r = Move(req[p][a], "out")
  OBVIOUS
<1>4. r \in Request /\ r.pc = "out" /\ r.bearer = req[p][a].bearer /\ r.addr = req[p][a].addr
  BY <1>1, <1>2, <1>3, MoveRequest
<1>5. Becomes(p, a, r)
  BY <1>1, <1>3, MoveShape DEF PutOut
<1>6. outs' = outs \cup {r.bearer}
  BY <1>4 DEF PutOut
<1>7. UNCHANGED <<cfg, life, nextId, bootstraps, backends, sessions, cursors, page,
                  upgrade, deleted, started>>
  BY DEF PutOut
<1>8. Registered(req[p][a])
  BY DEF GatewayInv, BearerInv
<1>9. (Registered(r))'
  <2>1. Forgotten(r.bearer) => (Forgotten(r.bearer))'
    BY <1>7 DEF Forgotten
  <2> QED
    BY <1>2, <1>4, <1>6, <1>7, <1>8, <2>1 DEF Registered, Granted
<1> QED
  BY <1>2, <1>4, <1>5, <1>6, <1>7, <1>9, FillRequest

\* The answer is given when all the maps are written.
LEMMA PutCursorStep ==
  ASSUME GatewayInv, NEW p \in Pages, NEW a \in Tries, PutCursor(p, a)
  PROVE  GatewayInv'
<1>1. req \in [Pages -> [Tries -> Request]] /\ 200 \in Codes
  BY Named DEF GatewayInv, Typed
<1>2. req[p][a].pc = "out" /\ req[p][a] \in Request
  BY <1>1 DEF PutCursor
<1>3. PICK r : r = Answer(req[p][a], 200)
  OBVIOUS
<1>4. r \in Request /\ r.pc = "replied" /\ r.bearer = req[p][a].bearer /\ r.addr = req[p][a].addr
  BY <1>1, <1>2, <1>3, AnswerRequest
<1>5. Becomes(p, a, r)
  BY <1>1, <1>3, ReplyShape DEF PutCursor
<1>6. cursors' = cursors \cup {r.bearer}
  BY <1>4 DEF PutCursor
<1>7. UNCHANGED <<cfg, life, nextId, bootstraps, backends, sessions, outs, page,
                  upgrade, deleted, started>>
  BY DEF PutCursor
<1>8. Registered(req[p][a])
  BY DEF GatewayInv, BearerInv
<1>9. (Registered(r))'
  <2>1. Forgotten(r.bearer) => (Forgotten(r.bearer))'
    BY <1>7 DEF Forgotten
  <2> QED
    BY <1>2, <1>4, <1>6, <1>7, <1>8, <2>1 DEF Registered, Granted
<1> QED
  BY <1>2, <1>4, <1>5, <1>6, <1>7, <1>9, FillRequest

\* A page that changes its stage, and nothing that its token or its bearer
\* could tell.
LEMMA StagePage ==
  ASSUME GatewayInv, NEW p \in Pages, NEW pc \in Stages,
         page[p].pc = "new" \/ pc \notin {"new", "mask", "bridge"},
         pc \in {"mask", "closed"},
         page' = [page EXCEPT ![p].pc = pc],
         UNCHANGED <<cfg, life, maps, req, upgrade, deleted, started>>
  PROVE  GatewayInv'
<1>1. page \in [Pages -> PageState] /\ page[p] \in PageState
      /\ nextId \in Nat /\ nextId <= nextId' /\ nextId' \in Nat
  BY DEF GatewayInv, Typed, maps
<1>2. PICK g : g = AtStage(page[p], pc)
  OBVIOUS
<1>3. /\ g \in PageState /\ g.pc = pc /\ g.token = page[p].token /\ g.try = page[p].try
      /\ g.bearer = page[p].bearer /\ g.life = page[p].life
  BY <1>1, <1>2, StagedPage
<1>4. Turns(p, g)
  <2>1. page' = [page EXCEPT ![p] = g]
    BY <1>2 DEF AtStage
  <2> QED
    BY <1>1, <1>3, <2>1, OnePage
<1>5. \A q \in Pages : /\ page'[q].token = page[q].token /\ page'[q].try = page[q].try
                       /\ page'[q].bearer = page[q].bearer /\ page'[q].life = page[q].life
                       /\ page'[q].pc = "connected" => page[q].pc = "connected"
  BY <1>3, <1>4 DEF Turns
<1>6. Typed'
  BY <1>4 DEF GatewayInv, Typed, Turns, maps
<1>7. TokensMade'
  BY <1>1, <1>5, KeepTokens DEF GatewayInv, TokenInv, maps
<1>8. Quiet'
  BY <1>3, <1>4, <1>5, KeepQuiet DEF GatewayInv, TokenInv, Turns
<1>9. ClaimedOnce'
  BY <1>5, KeepClaims DEF GatewayInv, TokenInv, maps
<1>10. TokenInv'
  BY <1>7, <1>8, <1>9 DEF GatewayInv, TokenInv, OnePerBootstrap
<1>11. \A b \in Nat : Kept(b)
  BY <1>5, MapsGrow DEF maps
<1>12. BearerInv'
  BY <1>1, <1>5, <1>11, StillBearers DEF GatewayInv
<1> QED
  BY <1>6, <1>10, <1>12 DEF GatewayInv

\* A page that is no bridge has nothing to do with sessions.
LEMMA OpenMaskStep ==
  ASSUME GatewayInv, NEW p \in Pages, NEW host \in Hosts, NEW cap \in Hosts \X Keys,
         OpenMask(p, host, cap)
  PROVE  GatewayInv'
  BY Named, StagePage DEF OpenMask

\* A page that is closed keeps its token and its bearer.
LEMMA ClosePageStep ==
  ASSUME GatewayInv, NEW p \in Pages, ClosePage(p)
  PROVE  GatewayInv'
  BY Named, StagePage DEF ClosePage

\* The page gets a token that nobody has had.
LEMMA OpenBridgeStep ==
  ASSUME GatewayInv, NEW p \in Pages, NEW host \in Hosts, NEW cap \in Hosts \X Keys,
         OpenBridge(p, host, cap)
  PROVE  GatewayInv'
<1> DEFINE boot == [host |-> host, cap |-> cap]
<1>1. /\ page \in [Pages -> PageState] /\ page[p] \in PageState
      /\ nextId \in Nat \ {0} /\ life \in Nat \ {0} /\ IsFiniteSet(DOMAIN bootstraps)
      /\ MaxBoot \in Nat
  BY GatewayAssumption DEF GatewayInv, Typed
<1>2. nextId' = nextId + 1 /\ nextId <= nextId' /\ nextId' \in Nat \ {0}
  BY <1>1 DEF OpenBridge
<1>3. UNCHANGED <<cfg, life, backends, sessions, outs, cursors, req, upgrade,
                  deleted, started>>
  BY DEF OpenBridge
<1>4. PICK t : t = Token
  OBVIOUS
<1>5. t \in Tokens /\ t.life = life /\ t.id = nextId
  BY <1>1, <1>4 DEF Token, Tokens
<1>6. ~Made(t) /\ (Made(t))'
  BY <1>1, <1>2, <1>3, <1>5 DEF Made
<1>7. \A x \in Tokens : Made(x) => (Made(x))'
  BY <1>1, <1>2, <1>3 DEF Made, Tokens
<1>8. boot \in Boots
  BY DEF Boots
<1>9. PICK g : g = OpenedAs(page[p], t, boot)
  OBVIOUS
<1>10. /\ g \in PageState /\ g.pc = "bridge" /\ g.token = t /\ g.try = page[p].try
       /\ g.bearer = page[p].bearer /\ g.life = page[p].life
  BY <1>1, <1>5, <1>8, <1>9, OpenedPage
<1>11. Turns(p, g)
  <2>1. page' = [page EXCEPT ![p] = g]
    BY <1>4, <1>9 DEF OpenBridge, OpenedAs
  <2> QED
    BY <1>1, <1>10, <2>1, OnePage
<1>12. \A q \in Pages : /\ page'[q].try = page[q].try
                        /\ page'[q].bearer = page[q].bearer /\ page'[q].life = page[q].life
                        /\ page'[q].pc = "connected" => page[q].pc = "connected"
  BY <1>10, <1>11 DEF Turns
<1>13. page[p].pc \in {"new", "mask", "bridge"}
  BY DEF OpenBridge
<1>14. \A a \in Tries : req[p][a].pc = "unsent"
  BY <1>13, HasPosted DEF GatewayInv, TokenInv
<1>15. DOMAIN bootstraps' \subseteq DOMAIN bootstraps \cup {t}
       /\ \A x \in DOMAIN bootstraps' :
            bootstraps'[x] = boot \/ (x \in DOMAIN bootstraps /\ bootstraps'[x] = bootstraps[x])
  BY <1>4 DEF OpenBridge, Put, MakeRoom, Empty
<1>16. IsFiniteSet(DOMAIN bootstraps') /\ Cardinality(DOMAIN bootstraps') <= MaxBoot + 1
  <2>1. PICK S : S = DOMAIN MakeRoom
    OBVIOUS
  <2>2. IsFiniteSet(S) /\ Cardinality(S) <= MaxBoot /\ Cardinality(S) \in Nat
    <3>1. CASE Cardinality(DOMAIN bootstraps) > MaxBoot
      <4>1. S = {}
        BY <2>1, <3>1 DEF MakeRoom, Empty
      <4> QED
        BY <1>1, <4>1, FS_EmptySet
    <3>2. CASE ~(Cardinality(DOMAIN bootstraps) > MaxBoot)
      <4>1. S = DOMAIN bootstraps
        BY <2>1, <3>2 DEF MakeRoom
      <4>2. Cardinality(S) \in Nat
        BY <1>1, <4>1, FS_CardinalityType
      <4> QED
        BY <1>1, <3>2, <4>1, <4>2
    <3> QED
      BY <3>1, <3>2
  <2>3. DOMAIN bootstraps' = S \cup {t}
    BY <1>4, <2>1 DEF OpenBridge, Put
  <2>4. IsFiniteSet(S \cup {t}) /\ Cardinality(S \cup {t}) <= Cardinality(S) + 1
    <3>1. /\ IsFiniteSet(S \cup {t})
          /\ Cardinality(S \cup {t}) = IF t \in S THEN Cardinality(S) ELSE Cardinality(S) + 1
      BY <2>2, FS_AddElement
    <3> QED
      BY <2>2, <3>1
  <2>5. Cardinality(S \cup {t}) \in Nat
    BY <2>4, FS_CardinalityType
  <2> QED
    BY <1>1, <2>2, <2>3, <2>4, <2>5
<1>17. Typed'
  <2>1. \A x \in DOMAIN bootstraps' : /\ x \in Tokens /\ x.life # 0
                                      /\ bootstraps'[x].host \in Hosts
    <3>1. boot.host = host
      OBVIOUS
    <3> QED
      BY <1>1, <1>5, <1>15, <3>1 DEF GatewayInv, Typed
  <2>2. \A b \in DOMAIN backends \cup sessions \cup outs \cup cursors : b \in 1 .. nextId' - 1
    BY <1>1, <1>2 DEF GatewayInv, Typed
  <2>3. page' \in [Pages -> PageState]
    BY <1>11 DEF Turns
  <2> QED
    BY <1>2, <1>3, <1>16, <2>1, <2>2, <2>3 DEF GatewayInv, Typed
<1>18. TokensMade'
  <2>1. \A x \in DOMAIN bootstraps' : (Made(x))'
    BY <1>6, <1>7, <1>15 DEF GatewayInv, Typed, TokenInv, TokensMade
  <2>2. \A q \in Pages : q # p => page'[q].token = page[q].token /\ page[q].token \in Tokens
    BY <1>1, <1>11 DEF Turns, PageState
  <2>3. page'[p].token = t
    BY <1>10, <1>11 DEF Turns
  <2>4. ASSUME NEW q \in Pages
        PROVE  /\ (Made(page[q].token))'
               /\ q # p => page[q].token # t /\ page'[q].token = page[q].token
    <3>1. CASE q = p
      BY <1>6, <2>3, <3>1
    <3>2. CASE q # p
      <4>1. PICK x \in Tokens : x = page[q].token
        BY <2>2, <3>2
      <4>2. Made(x)
        BY <4>1 DEF GatewayInv, TokenInv, TokensMade
      <4>3. (Made(x))' /\ x # t
        BY <1>6, <1>7, <4>2
      <4> QED
        BY <2>2, <3>2, <4>1, <4>3
    <3> QED
      BY <3>1, <3>2
  <2>5. ASSUME NEW s \in started
        PROVE  (Made(s.token))' /\ s.token \notin DOMAIN bootstraps'
    <3>1. s.token \in Tokens /\ Made(s.token) /\ s.token \notin DOMAIN bootstraps
      BY DEF GatewayInv, Typed, TokenInv, TokensMade
    <3>2. s.token # t
      BY <1>6, <3>1
    <3> QED
      BY <1>7, <1>15, <3>1, <3>2
  <2>6. \A q, x \in Pages :
          q # x /\ page'[q].token = page'[x].token => page'[q].token = NoToken
    BY <2>3, <2>4 DEF GatewayInv, TokenInv, TokensMade
  <2> QED
    BY <1>3, <2>1, <2>4, <2>5, <2>6 DEF TokensMade, NoToken
<1>19. Quiet'
  BY <1>3, <1>11, <1>12, <1>13, KeepQuiet DEF GatewayInv, TokenInv, Turns
<1>20. ClaimedOnce'
  <2>1. ASSUME NEW q \in Pages, NEW a \in Tries, req[q][a].pc = "claimed"
        PROVE  page'[q].token = page[q].token /\ page[q].token # t
    <3>1. q # p
      BY <1>14, <2>1
    <3>2. Made(page[q].token)
      BY DEF GatewayInv, TokenInv, TokensMade
    <3> QED
      BY <1>6, <1>11, <3>1, <3>2 DEF Turns
  <2> QED
    BY <1>3, <1>15, <2>1 DEF GatewayInv, TokenInv, ClaimedOnce, NoToken, Tries
<1>21. TokenInv'
  BY <1>3, <1>18, <1>19, <1>20 DEF GatewayInv, TokenInv, OnePerBootstrap
<1>22. \A b \in Nat : Kept(b)
  BY <1>3, <1>12, MapsGrow
<1>23. BearerInv'
  BY <1>1, <1>2, <1>3, <1>12, <1>22, StillBearers DEF GatewayInv
<1> QED
  BY <1>17, <1>21, <1>23 DEF GatewayInv

\* The page posts, or posts again: the request it sends was not made before.
LEMMA CreateStep ==
  ASSUME GatewayInv, NEW p \in Pages, Create(p)
  PROVE  GatewayInv'
<1>1. /\ page \in [Pages -> PageState] /\ page[p] \in PageState
      /\ req \in [Pages -> [Tries -> Request]]
      /\ nextId \in Nat /\ nextId <= nextId' /\ nextId' \in Nat
      /\ "sent" \in Places /\ MaxTries \in Nat
  BY Named, GatewayAssumption DEF GatewayInv, Typed, Create, maps
<1>2. PICK hello \in BOOLEAN :
        page' = [page EXCEPT ![p].pc = "creating", ![p].try = @ + 1, ![p].hello = hello]
  BY DEF Create
<1>3. page[p].try \in 0 .. MaxTries /\ page[p].try < MaxTries
  BY <1>1 DEF PageState, Create
<1>4. PICK a : a = page[p].try + 1
  OBVIOUS
<1>5. a \in Tries /\ a > page[p].try
  BY <1>1, <1>3, <1>4 DEF Tries
<1>6. req[p][a].pc = "unsent"
  BY <1>5 DEF GatewayInv, TokenInv, Quiet
<1>7. PICK r : r = Move(req[p][a], "sent")
  OBVIOUS
<1>8. r \in Request /\ r.pc = "sent"
  BY <1>1, <1>5, <1>7, MoveRequest
<1>9. Becomes(p, a, r)
  <2>1. req' = [req EXCEPT ![p][a].pc = "sent"]
    BY <1>4 DEF Create
  <2> QED
    BY <1>1, <1>5, <1>7, <2>1, MoveShape
<1>10. PICK g : g = Trying(page[p], hello)
  OBVIOUS
<1>11. /\ g \in PageState /\ g.pc = "creating" /\ g.token = page[p].token /\ g.try = page[p].try + 1
       /\ g.bearer = page[p].bearer /\ g.life = page[p].life
  BY <1>1, <1>3, <1>10, TryingPage
<1>12. Turns(p, g)
  <2>1. page' = [page EXCEPT ![p] = g]
    BY <1>2, <1>10 DEF Trying
  <2> QED
    BY <1>1, <1>11, <2>1, OnePage
<1>13. UNCHANGED <<cfg, life, maps, upgrade, deleted, started>>
  BY DEF Create
<1>14. \A q \in Pages : /\ page'[q].token = page[q].token
                        /\ page'[q].bearer = page[q].bearer /\ page'[q].life = page[q].life
                        /\ page'[q].pc = "connected" => page[q].pc = "connected"
  BY <1>11, <1>12 DEF Turns
<1>15. Typed'
  BY <1>9, <1>12, <1>13 DEF GatewayInv, Typed, Turns, Becomes, maps
<1>16. TokensMade'
  BY <1>1, <1>13, <1>14, KeepTokens DEF GatewayInv, TokenInv, maps
<1>17. Quiet'
  <2>1. ASSUME NEW q \in Pages, NEW b \in Tries, b > page'[q].try
        PROVE  req'[q][b].pc = "unsent"
    <3>1. CASE q = p
      <4>1. b > page[p].try + 1
        BY <1>11, <1>12, <2>1, <3>1 DEF Turns
      <4>2. b # a /\ b > page[p].try
        BY <1>1, <1>3, <1>4, <4>1 DEF Tries
      <4>3. req'[p][b] = req[p][b]
        BY <1>9, <4>2 DEF Becomes
      <4> QED
        BY <3>1, <4>2, <4>3 DEF GatewayInv, TokenInv, Quiet
    <3>2. CASE q # p
      BY <1>9, <1>12, <2>1, <3>2 DEF GatewayInv, TokenInv, Quiet, Becomes, Turns
    <3> QED
      BY <3>1, <3>2
  <2>2. \A q \in Pages : page'[q].pc \in {"new", "mask", "bridge"} =>
          page'[q].try = 0 /\ page'[q].bearer = NoBearer
    BY <1>11, <1>12 DEF GatewayInv, TokenInv, Quiet, Turns
  <2> QED
    BY <2>1, <2>2 DEF Quiet, NoBearer, Tries
<1>18. ClaimedOnce'
  BY <1>8, <1>9, <1>13, <1>14, KeepClaims DEF GatewayInv, TokenInv, Becomes, maps
<1>19. TokenInv'
  BY <1>13, <1>16, <1>17, <1>18 DEF GatewayInv, TokenInv, OnePerBootstrap
<1>20. ~Live(r)
  BY <1>8 DEF Live, Granted
<1>21. BearersApart'
  <2>1. \A q \in Pages, b \in Tries : (Live(req[q][b]))' =>
          Live(req[q][b]) /\ req'[q][b].bearer = req[q][b].bearer
    BY <1>8, <1>9 DEF Becomes, Live, Granted
  <2> QED
    BY <1>1, <2>1, KeepApart DEF GatewayInv, BearerInv
<1>22. (Registered(r))'
  BY <1>8, <1>20, IdleRegistered
<1>23. \A b \in Nat : Kept(b)
  BY <1>13, <1>14, MapsGrow DEF maps
<1>24. BearerInv'
  BY <1>5, <1>6, <1>8, <1>9, <1>13, <1>14, <1>21, <1>22, <1>23, MoveBearers DEF GatewayInv
<1> QED
  BY <1>15, <1>19, <1>24 DEF GatewayInv

\* The page takes the bearer of the request that was answered.
LEMMA GetBearerStep ==
  ASSUME GatewayInv, NEW p \in Pages, GetBearer(p)
  PROVE  GatewayInv'
<1>1. /\ page \in [Pages -> PageState] /\ page[p] \in PageState
      /\ req \in [Pages -> [Tries -> Request]]
      /\ nextId \in Nat /\ nextId <= nextId' /\ nextId' \in Nat
      /\ life \in Nat /\ MaxTries \in Nat
  BY GatewayAssumption DEF GatewayInv, Typed, GetBearer, maps
<1>2. PICK a : a = page[p].try
  OBVIOUS
<1>3. a \in Tries
  BY <1>1, <1>2 DEF PageState, GetBearer, Answered, Tries
<1>4. PICK b : b = req[p][a].bearer
  OBVIOUS
<1>5. Granted(req[p][a]) /\ b \in Nat /\ b # NoBearer
  <2>1. Granted(req[p][a])
    BY <1>2 DEF GetBearer, Answered, Granted
  <2>2. b \in 1 .. nextId - 1
    BY <1>3, <1>4, <2>1 DEF GatewayInv, BearerInv, BearersApart, Live
  <2> QED
    BY <1>1, <2>1, <2>2 DEF NoBearer
<1>6. PICK g : g = Bearing(page[p], b, life)
  OBVIOUS
<1>7. /\ g \in PageState /\ g.pc \in {"closed", "connected"} /\ g.token = page[p].token
      /\ g.try = page[p].try /\ g.bearer = b /\ g.life = life
  <2>1. PICK old \in PageState : old = page[p]
    BY <1>1
  <2>2. PICK now \in Nat : now = life
    BY <1>1
  <2>3. g = Bearing(old, b, now) /\ b \in Nat
    BY <1>5, <1>6, <2>1, <2>2
  <2>4. /\ g \in PageState /\ g.pc \in {"closed", "connected"} /\ g.token = old.token
        /\ g.try = old.try /\ g.bearer = b /\ g.life = now
    BY <2>3, BearingPage
  <2> QED
    BY <2>1, <2>2, <2>4
<1>8. Turns(p, g)
  <2>1. page' = [page EXCEPT ![p] = g]
    <3>1. page' = [page EXCEPT ![p].pc = IF @ = "closed" THEN @ ELSE "connected",
                               ![p].bearer = b, ![p].life = life]
      BY <1>2, <1>4 DEF GetBearer
    <3>2. PICK old \in PageState : old = page[p]
      BY <1>1
    <3>3. PICK stage : stage = IF old.pc = "closed" THEN old.pc ELSE "connected"
      OBVIOUS
    <3>4. page' = [page EXCEPT ![p].pc = stage, ![p].bearer = b, ![p].life = life]
      BY <3>1, <3>2, <3>3
    <3>5. g = [old EXCEPT !.pc = stage, !.bearer = b, !.life = life]
      BY <1>6, <3>2, <3>3 DEF Bearing
    <3> QED
      BY <1>1, <3>2, <3>4, <3>5
  <2> QED
    BY <1>1, <1>7, <2>1, OnePage
<1>9. UNCHANGED <<cfg, life, maps, req, upgrade, deleted, started>>
  BY DEF GetBearer
<1>10. page[p].bearer = NoBearer /\ upgrade[p] = "none" /\ deleted[p] = -1
  BY DEF GetBearer, GatewayInv, BearerInv, Held
<1>11. \A q \in Pages : page'[q].token = page[q].token /\ page'[q].try = page[q].try
  BY <1>7, <1>8 DEF Turns
<1>12. Typed'
  BY <1>8, <1>9 DEF GatewayInv, Typed, Turns, maps
<1>13. TokensMade'
  BY <1>1, <1>9, <1>11, KeepTokens DEF GatewayInv, TokenInv, maps
<1>14. Quiet'
  BY <1>7, <1>8, <1>9, <1>11, KeepQuiet DEF GatewayInv, TokenInv, Turns
<1>15. ClaimedOnce'
  BY <1>9, <1>11, KeepClaims DEF GatewayInv, TokenInv, maps
<1>16. TokenInv'
  BY <1>9, <1>13, <1>14, <1>15 DEF GatewayInv, TokenInv, OnePerBootstrap
<1>17. BearersApart'
  BY <1>1, <1>9, KeepApart DEF GatewayInv, BearerInv, Live, Granted
<1>18. ASSUME NEW c \in Nat
       PROVE  Kept(c)
  <2>1. Forgotten(c) => (Forgotten(c))'
    BY <1>8, <1>9, <1>10 DEF Forgotten, Turns
  <2> QED
    BY <1>9, <2>1 DEF Kept, maps
<1>19. ASSUME NEW q \in Pages, NEW c \in Tries
       PROVE  (Registered(req[q][c]))'
  <2>1. PICK x \in Request : x = req[q][c]
    BY <1>1
  <2>2. Registered(x) /\ Kept(x.bearer)
    BY <1>18, <2>1 DEF GatewayInv, BearerInv, Request
  <2>3. (Registered(x))'
    BY <1>9, <2>2, KeepRegistered
  <2> QED
    BY <1>9, <2>1, <2>3
<1>20. Held'
  <2>1. ASSUME NEW q \in Pages
        PROVE  /\ page'[q].life <= life
               /\ page'[q].bearer = NoBearer =>
                    upgrade[q] = "none" /\ deleted[q] = -1 /\ page'[q].pc # "connected"
               /\ page'[q].bearer # NoBearer /\ page'[q].life = life =>
                    \E c \in Tries : Granted(req[q][c]) /\ req[q][c].bearer = page'[q].bearer
    <3>1. CASE q = p
      BY <1>1, <1>3, <1>4, <1>5, <1>7, <1>8, <3>1 DEF Turns
    <3>2. CASE q # p
      BY <1>8, <3>2 DEF GatewayInv, BearerInv, Held, Holders, Turns
    <3> QED
      BY <3>1, <3>2
  <2> QED
    BY <1>9, <2>1 DEF Held, Holders, NoBearer, Tries, Granted
<1>21. UpgradeFindsBackend'
  <2>1. \A q \in Holders' : q # p /\ upgrade[q] \notin {"none", "asked"} =>
          q \in Holders /\ page'[q].bearer = page[q].bearer
    BY <1>8, <1>9 DEF Holders, Turns, NoBearer
  <2> QED
    BY <1>9, <1>10, <2>1 DEF GatewayInv, BearerInv, UpgradeFindsBackend
<1> QED
  BY <1>12, <1>16, <1>17, <1>19, <1>20, <1>21 DEF GatewayInv, BearerInv, Tries

\* Neither a page nor a request moves: a websocket or a DELETE goes a step on.
LEMMA BesideStep ==
  ASSUME GatewayInv, NEW p \in Pages, page[p].bearer # NoBearer,
         nextId' \in {nextId, nextId + 1}, DOMAIN upgrade' = Pages,
         deleted' \in [Pages -> -1 .. 3],
         sessions' \subseteq sessions, outs' \subseteq outs, cursors' \subseteq cursors,
         \A q \in Pages : q # p => upgrade'[q] = upgrade[q] /\ deleted'[q] = deleted[q],
         \A b \in Nat : Kept(b),
         UpgradeFindsBackend',
         UNCHANGED <<cfg, life, bootstraps, backends, req, page, started>>
  PROVE  GatewayInv'
<1>1. nextId \in Nat \ {0} /\ nextId <= nextId' /\ nextId' \in Nat \ {0}
  BY DEF GatewayInv, Typed
<1>2. Typed'
  <2>1. \A b \in DOMAIN backends \cup sessions' \cup outs' \cup cursors' : b \in 1 .. nextId' - 1
    BY <1>1 DEF GatewayInv, Typed
  <2> QED
    BY <1>1, <2>1 DEF GatewayInv, Typed
<1>3. TokensMade'
  BY <1>1, KeepTokens DEF GatewayInv, TokenInv
<1>4. Quiet' /\ ClaimedOnce' /\ OnePerBootstrap'
  BY DEF GatewayInv, TokenInv, Quiet, ClaimedOnce, OnePerBootstrap
<1>5. TokenInv'
  BY <1>3, <1>4 DEF TokenInv
<1>6. BearersApart'
  BY <1>1, KeepApart DEF GatewayInv, BearerInv, Live, Granted
<1>7. Held'
  BY KeepHeld DEF GatewayInv, BearerInv, Granted
<1>8. ASSUME NEW q \in Pages, NEW c \in Tries
      PROVE  (Registered(req[q][c]))'
  <2>1. PICK x \in Request : x = req[q][c]
    BY DEF GatewayInv, Typed
  <2>2. Registered(x) /\ Kept(x.bearer)
    BY <2>1 DEF GatewayInv, BearerInv, Request
  <2>3. (Registered(x))'
    BY <2>2, KeepRegistered
  <2> QED
    BY <2>1, <2>3
<1> QED
  BY <1>2, <1>5, <1>6, <1>7, <1>8 DEF GatewayInv, BearerInv, Tries

\* Only pages that were told their bearer are connected or ask for a DELETE.
LEMMA AskUpgradeStep ==
  ASSUME GatewayInv, NEW p \in Pages, AskUpgrade(p)
  PROVE  GatewayInv'
<1>1. page[p].bearer # NoBearer
  BY DEF AskUpgrade, GatewayInv, BearerInv, Held
<1>2. UNCHANGED <<cfg, life, maps, req, page, deleted, started>>
  BY DEF AskUpgrade
<1>3. /\ DOMAIN upgrade' = Pages
      /\ \A q \in Pages : q # p => upgrade'[q] = upgrade[q]
      /\ upgrade'[p] = "asked"
  BY DEF AskUpgrade, GatewayInv, Typed
<1>4. \A q \in Pages : upgrade'[q] = upgrade[q] \/ upgrade'[q] \in {"none", "asked"}
  BY <1>3
<1>5. UpgradeFindsBackend'
  BY <1>2, <1>4, KeepUpgrades DEF GatewayInv, BearerInv
<1>6. \A b \in Nat : Kept(b)
  BY <1>2, MapsGrow DEF maps
<1>7. deleted' \in [Pages -> -1 .. 3]
  BY <1>2 DEF GatewayInv, Typed
<1> QED
  BY <1>1, <1>2, <1>3, <1>5, <1>6, <1>7, BesideStep DEF maps

\* The backend a websocket reaches is that of the page's session.
LEMMA WsCarrierStep ==
  ASSUME GatewayInv, NEW p \in Pages, ws_carrier(p)
  PROVE  GatewayInv'
<1>1. page[p].bearer # NoBearer
  BY DEF ws_carrier, GatewayInv, BearerInv, Held
<1>2. UNCHANGED <<cfg, life, bootstraps, backends, sessions, outs, cursors, req,
                  page, deleted, started>>
  BY DEF ws_carrier
<1>3. /\ nextId' = nextId + 1 /\ DOMAIN upgrade' = Pages
      /\ \A q \in Pages : q # p => upgrade'[q] = upgrade[q]
      /\ page[p].bearer \in DOMAIN backends => upgrade'[p] = backends[page[p].bearer]
  BY DEF ws_carrier, GatewayInv, Typed
<1>4. UpgradeFindsBackend'
  <2>1. ASSUME NEW q \in Pages, q \in Holders, upgrade'[q] \notin {"none", "asked"}
        PROVE  \E s \in started :
                 s.life = life /\ s.bearer = page[q].bearer /\ s.addr = upgrade'[q]
    <3>1. CASE q = p
      <4>1. PICK a \in Tries : Granted(req[p][a]) /\ req[p][a].bearer = page[p].bearer
        BY <2>1, <3>1 DEF GatewayInv, BearerInv, Held
      <4>2. PICK x : x = req[p][a]
        OBVIOUS
      <4>3. Registered(x) /\ Granted(x)
        BY <4>1, <4>2 DEF GatewayInv, BearerInv
      <4> QED
        BY <1>3, <3>1, <4>1, <4>2, <4>3 DEF Registered
    <3>2. CASE q # p
      BY <1>3, <2>1, <3>2 DEF GatewayInv, BearerInv, UpgradeFindsBackend
    <3> QED
      BY <3>1, <3>2
  <2>2. Holders' = Holders
    BY <1>2 DEF Holders, NoBearer
  <2>3. \A q \in Holders : q \in Pages
    BY DEF Holders
  <2> QED
    BY <1>2, <2>1, <2>2, <2>3 DEF UpgradeFindsBackend
<1>5. \A b \in Nat : Kept(b)
  BY <1>2, MapsGrow
<1>6. deleted' \in [Pages -> -1 .. 3]
  BY <1>2 DEF GatewayInv, Typed
<1> QED
  BY <1>1, <1>2, <1>3, <1>4, <1>5, <1>6, BesideStep

\* The DELETE of page p has gone through n maps.
Says(p, n) ==
  /\ deleted' \in [Pages -> -1 .. 3] /\ deleted'[p] = n
  /\ \A q \in Pages : q # p => deleted'[q] = deleted[q]

\* A DELETE goes a step on: what it takes from a map it has told somebody.
LEMMA DeleteOne ==
  ASSUME GatewayInv, NEW p \in Pages, page[p].bearer # NoBearer,
         NEW n \in 0 .. 3, Says(p, n), deleted[p] < n,
         sessions' \subseteq sessions, outs' \subseteq outs, cursors' \subseteq cursors,
         \A b \in Nat : b # page[p].bearer =>
           /\ b \in sessions => b \in sessions'
           /\ b \in outs => b \in outs'
           /\ b \in cursors => b \in cursors',
         n = 0 => sessions' = sessions /\ outs' = outs /\ cursors' = cursors,
         UNCHANGED <<cfg, life, nextId, bootstraps, backends, req, page, upgrade, started>>
  PROVE  GatewayInv'
<1>1. deleted \in [Pages -> -1 .. 3] /\ DOMAIN upgrade = Pages
  BY DEF GatewayInv, Typed
<1>2. /\ deleted' \in [Pages -> -1 .. 3] /\ deleted'[p] = n
      /\ \A q \in Pages : q # p => deleted'[q] = deleted[q]
  BY DEF Says
<1>3. ASSUME NEW b \in Nat
      PROVE  Kept(b)
  <2>1. Forgotten(b) => (Forgotten(b))'
    BY <1>1, <1>2 DEF Forgotten
  <2>2. CASE b # page[p].bearer \/ n = 0
    BY <2>1, <2>2 DEF Kept
  <2>3. CASE b = page[p].bearer /\ n > 0
    <3>1. (Forgotten(b))'
      BY <1>2, <2>3 DEF Forgotten
    <3> QED
      BY <3>1 DEF Kept
  <2> QED
    BY <2>2, <2>3
<1>4. UpgradeFindsBackend'
  BY KeepUpgrades DEF GatewayInv, BearerInv
<1> QED
  BY <1>1, <1>2, <1>3, <1>4, BesideStep

\* Only a page that holds a bearer deletes.
LEMMA DeletesStep ==
  ASSUME GatewayInv, NEW p \in Pages,
         AskDelete(p) \/ DeleteSession(p) \/ DeleteOut(p) \/ DeleteCursor(p)
  PROVE  GatewayInv'
<1>1. deleted[p] # -1 => page[p].bearer # NoBearer
  BY DEF GatewayInv, BearerInv, Held
<1>2. CASE AskDelete(p)
  <2>1. /\ page[p].bearer # NoBearer
        /\ Says(p, 0) /\ deleted[p] < 0
        /\ UNCHANGED <<cfg, life, maps, req, page, upgrade, started>>
    BY <1>2 DEF AskDelete, Says, GatewayInv, Typed
  <2> QED
    BY <2>1, DeleteOne DEF maps
<1>3. CASE DeleteSession(p)
  <2>1. /\ page[p].bearer # NoBearer
        /\ Says(p, 1) /\ deleted[p] < 1
        /\ sessions' = sessions \ {page[p].bearer}
        /\ UNCHANGED <<cfg, life, nextId, bootstraps, backends, outs, cursors, req, page,
                       upgrade, started>>
    BY <1>1, <1>3 DEF DeleteSession, Says, GatewayInv, Typed
  <2> QED
    BY <2>1, DeleteOne
<1>4. CASE DeleteOut(p)
  <2>1. /\ page[p].bearer # NoBearer
        /\ Says(p, 2) /\ deleted[p] < 2
        /\ outs' = outs \ {page[p].bearer}
        /\ UNCHANGED <<cfg, life, nextId, bootstraps, backends, sessions, cursors, req, page,
                       upgrade, started>>
    BY <1>1, <1>4 DEF DeleteOut, Says, GatewayInv, Typed
  <2> QED
    BY <2>1, DeleteOne
<1>5. CASE DeleteCursor(p)
  <2>1. /\ page[p].bearer # NoBearer
        /\ Says(p, 3) /\ deleted[p] < 3
        /\ cursors' = cursors \ {page[p].bearer}
        /\ UNCHANGED <<cfg, life, nextId, bootstraps, backends, sessions, outs, req, page,
                       upgrade, started>>
    BY <1>1, <1>5 DEF DeleteCursor, Says, GatewayInv, Typed
  <2> QED
    BY <2>1, DeleteOne
<1> QED
  BY <1>2, <1>3, <1>4, <1>5

\* The counted faults bound the lives.
LEMMA FaultsCounted ==
  ASSUME life \in Nat \ {0}, Faults < MaxFaults
  PROVE  life + 1 \in 1 .. MaxFaults + 1
<1> DEFINE again == {x \in Pages \X Tries : x[2] < page[x[1]].try}
<1>1. IsFiniteSet(Pages) /\ MaxTries \in Nat /\ MaxFaults \in Nat
  BY GatewayAssumption
<1>2. IsFiniteSet(Tries)
  BY <1>1, FS_Interval DEF Tries
<1>3. IsFiniteSet(Pages \X Tries)
  BY <1>1, <1>2, FS_Product
<1>4. IsFiniteSet(again)
  BY <1>3, FS_Subset
<1>5. Cardinality(again) \in Nat
  BY <1>4, FS_CardinalityType
<1>6. life - 1 + Cardinality(again) < MaxFaults
  BY DEF Faults
<1> QED
  BY <1>1, <1>5, <1>6

\* After a restart no request is on its way, and no page holds a bearer of the
\* new life.
LEMMA RestartStep ==
  ASSUME GatewayInv, Restart
  PROVE  GatewayInv'
<1>1. /\ req \in [Pages -> [Tries -> Request]] /\ page \in [Pages -> PageState]
      /\ life \in Nat \ {0} /\ deleted \in [Pages -> -1 .. 3]
      /\ "dropped" \in Places
  BY Named DEF GatewayInv, Typed
<1>2. life' = life + 1 /\ life' \in 1 .. MaxFaults + 1 /\ nextId' = 1
  BY <1>1, FaultsCounted DEF Restart
<1>3. /\ DOMAIN bootstraps' = {} /\ DOMAIN backends' = {}
      /\ sessions' = {} /\ outs' = {} /\ cursors' = {}
      /\ UNCHANGED <<cfg, page, started>>
  BY DEF Restart, Empty
<1>4. /\ req' \in [Pages -> [Tries -> Request]]
      /\ \A p \in Pages, a \in Tries :
           /\ req'[p][a].pc \in {"unsent", "dropped"}
           /\ req[p][a].pc = "unsent" => req'[p][a].pc = "unsent"
  <2>1. req' = [p \in Pages |-> [a \in Tries |->
                 IF req[p][a].pc = "unsent" THEN req[p][a] ELSE Move(req[p][a], "dropped")]]
    BY DEF Restart, Move
  <2>2. \A p \in Pages, a \in Tries :
          Move(req[p][a], "dropped") \in Request /\ Move(req[p][a], "dropped").pc = "dropped"
    BY <1>1, MoveRequest
  <2> QED
    BY <1>1, <2>1, <2>2
<1>5. /\ DOMAIN upgrade' = Pages /\ deleted' \in [Pages -> -1 .. 3]
      /\ \A p \in Pages : /\ upgrade[p] = "none" => upgrade'[p] = "none"
                          /\ deleted[p] = -1 => deleted'[p] = -1
  BY <1>1 DEF Restart
<1>6. Typed'
  <2>1. IsFiniteSet(DOMAIN bootstraps') /\ Cardinality(DOMAIN bootstraps') <= MaxBoot + 1
    BY <1>3, FS_EmptySet, GatewayAssumption
  <2> QED
    BY <1>2, <1>3, <1>4, <1>5, <2>1 DEF GatewayInv, Typed
<1>7. TokensMade'
  <2>1. \A t \in Tokens : Made(t) => (Made(t))'
    BY <1>1, <1>2 DEF Made, Tokens
  <2>2. \A p \in Pages : page[p].token \in Tokens
    BY <1>1 DEF PageState
  <2>3. \A s \in started : s.token \in Tokens
    BY DEF GatewayInv, Typed
  <2> QED
    BY <1>3, <2>1, <2>2, <2>3 DEF GatewayInv, TokenInv, TokensMade, NoToken
<1>8. Quiet'
  BY <1>3, <1>4, KeepQuiet DEF GatewayInv, TokenInv
<1>9. ClaimedOnce'
  BY <1>4 DEF ClaimedOnce, Tries
<1>10. TokenInv'
  BY <1>3, <1>7, <1>8, <1>9 DEF GatewayInv, TokenInv, OnePerBootstrap
<1>11. \A p \in Pages, a \in Tries : ~(Live(req[p][a]))' /\ ~(Granted(req[p][a]))'
  BY <1>4 DEF Live, Granted
<1>12. BearersApart'
  BY <1>11 DEF BearersApart, Tries
<1>13. \A p \in Pages, a \in Tries : (Registered(req[p][a]))'
  BY <1>4 DEF Registered, Granted
<1>14. Holders' = {}
  BY <1>1, <1>2, <1>3 DEF Holders, GatewayInv, BearerInv, Held, PageState
<1>15. Held'
  <2>1. \A p \in Pages : page[p].life <= life'
    BY <1>1, <1>2 DEF GatewayInv, BearerInv, Held, PageState
  <2>2. \A p \in Pages : page[p].bearer = NoBearer =>
          upgrade'[p] = "none" /\ deleted'[p] = -1 /\ page[p].pc # "connected"
    BY <1>5 DEF GatewayInv, BearerInv, Held
  <2> QED
    BY <1>3, <1>14, <2>1, <2>2 DEF Held, NoBearer
<1>16. UpgradeFindsBackend'
  BY <1>14 DEF UpgradeFindsBackend
<1> QED
  BY <1>6, <1>10, <1>12, <1>13, <1>15, <1>16 DEF GatewayInv, BearerInv, Tries

\* Nothing has happened yet.
LEMMA GatewayInit == GInit => GatewayInv
<1> SUFFICES ASSUME GInit PROVE GatewayInv
  OBVIOUS
<1>1. MaxTries \in Nat /\ MaxBoot \in Nat /\ MaxFaults \in Nat
  BY GatewayAssumption
<1>2. NoRequest \in Request /\ NoRequest.pc = "unsent" /\ NoRequest.status = 0
  <2>1. "unsent" \in Places /\ 0 \in Codes /\ NoAddr \in Addrs
    BY Named DEF Addrs
  <2> QED
    BY <2>1 DEF NoRequest, NoBearer, Request
<1>3. /\ NewPage \in PageState /\ NewPage.pc = "new" /\ NewPage.token = NoToken
      /\ NewPage.try = 0 /\ NewPage.bearer = NoBearer /\ NewPage.life = 0
  <2>1. "new" \in Stages /\ NoToken \in Tokens /\ 0 \in 0 .. MaxTries
    BY <1>1, Named DEF NoToken, Tokens
  <2> QED
    BY <2>1 DEF NewPage, NoBearer, PageState
<1>4. /\ req \in [Pages -> [Tries -> Request]]
      /\ \A p \in Pages, a \in Tries : req[p][a] = NoRequest
  BY <1>2 DEF GInit
<1>5. page \in [Pages -> PageState] /\ \A p \in Pages : page[p] = NewPage
  BY <1>3 DEF GInit
<1>6. /\ cfg \in Configs /\ life = 1 /\ nextId = 1
      /\ DOMAIN bootstraps = {} /\ DOMAIN backends = {}
      /\ sessions = {} /\ outs = {} /\ cursors = {} /\ started = {}
      /\ upgrade = [p \in Pages |-> "none"] /\ deleted = [p \in Pages |-> -1]
  BY DEF GInit, Empty
<1>7. Typed
  <2>1. IsFiniteSet(DOMAIN bootstraps) /\ Cardinality(DOMAIN bootstraps) <= MaxBoot + 1
    BY <1>1, <1>6, FS_EmptySet
  <2>2. life \in 1 .. MaxFaults + 1
    BY <1>1, <1>6
  <2> QED
    BY <1>4, <1>5, <1>6, <2>1, <2>2 DEF Typed
<1>8. TokenInv
  <2>1. TokensMade
    BY <1>3, <1>5, <1>6 DEF TokensMade, Made, NoToken
  <2> QED
    BY <1>2, <1>3, <1>4, <1>5, <1>6, <2>1 DEF TokenInv, Quiet, ClaimedOnce, OnePerBootstrap
<1>9. BearerInv
  <2>1. \A p \in Pages, a \in Tries : ~Live(req[p][a])
    BY <1>2, <1>4 DEF Live, Granted
  <2>2. Holders = {}
    BY <1>3, <1>5 DEF Holders
  <2>3. Held
    BY <1>3, <1>5, <1>6, <2>2 DEF Held
  <2>4. \A p \in Pages, a \in Tries : Registered(req[p][a])
    BY <1>2, <1>4 DEF Registered, Granted
  <2> QED
    BY <2>1, <2>2, <2>3, <2>4 DEF BearerInv, BearersApart, UpgradeFindsBackend
<1> QED
  BY <1>7, <1>8, <1>9 DEF GatewayInv

\* Every step keeps the invariant.
LEMMA GatewayStep == GatewayInv /\ [GNext]_gvars => GatewayInv'
<1> SUFFICES ASSUME GatewayInv, [GNext]_gvars PROVE GatewayInv'
  OBVIOUS
<1>1. ASSUME NEW p \in Pages, NEW host \in Hosts, NEW cap \in Hosts \X Keys,
             OpenBridge(p, host, cap) \/ OpenMask(p, host, cap)
      PROVE  GatewayInv'
  BY <1>1, OpenBridgeStep, OpenMaskStep
<1>2. ASSUME NEW p \in Pages, NEW a \in Tries, api_session(p, a) \/ DropHandler(p, a)
      PROVE  GatewayInv'
  <2>1. CASE Refuse(p, a)
    BY <2>1, RefuseStep
  <2>2. CASE BadHello(p, a)
    BY <2>2, BadHelloStep
  <2>3. CASE Claim(p, a)
    BY <2>3, ClaimStep
  <2>4. CASE StartSession(p, a)
    BY <2>4, StartStep
  <2>5. CASE PutSession(p, a)
    BY <2>5, PutSessionStep
  <2>6. CASE PutOut(p, a)
    BY <2>6, PutOutStep
  <2>7. CASE PutCursor(p, a)
    BY <2>7, PutCursorStep
  <2>8. CASE DropHandler(p, a)
    BY <2>8, DropStep
  <2> QED
    BY <1>2, <2>1, <2>2, <2>3, <2>4, <2>5, <2>6, <2>7, <2>8 DEF api_session
<1>3. ASSUME NEW p \in Pages, Create(p) \/ GetBearer(p) \/ ClosePage(p)
      PROVE  GatewayInv'
  BY <1>3, CreateStep, GetBearerStep, ClosePageStep
<1>4. ASSUME NEW p \in Pages, AskUpgrade(p) \/ ws_carrier(p)
      PROVE  GatewayInv'
  BY <1>4, AskUpgradeStep, WsCarrierStep
<1>5. ASSUME NEW p \in Pages,
             AskDelete(p) \/ DeleteSession(p) \/ DeleteOut(p) \/ DeleteCursor(p)
      PROVE  GatewayInv'
  BY <1>5, DeletesStep
<1>6. CASE Restart
  BY <1>6, RestartStep
<1>7. CASE UNCHANGED gvars
  <2>1. UNCHANGED <<cfg, life, nextId, bootstraps, backends, sessions, outs, cursors, req,
                    page, upgrade, deleted, started>>
    BY <1>7 DEF gvars, maps
  <2>2. Typed'
    BY <2>1 DEF GatewayInv, Typed
  <2>3. TokenInv'
    BY <2>1 DEF GatewayInv, TokenInv, TokensMade, Made, NoToken, Quiet, NoBearer,
                ClaimedOnce, OnePerBootstrap, Tries
  <2>4. nextId \in Nat
    BY DEF GatewayInv, Typed
  <2>5. \A b \in Nat : Kept(b)
    BY <2>1, MapsGrow
  <2>6. BearerInv'
    BY <2>1, <2>4, <2>5, StillBearers DEF GatewayInv
  <2> QED
    BY <2>2, <2>3, <2>6 DEF GatewayInv
<1> QED
  BY <1>1, <1>2, <1>3, <1>4, <1>5, <1>6, <1>7 DEF GNext

-----------------------------------------------------------------------------
(* The life of a token *)

\* What TokensLast needs to be inductive: the tokens kept are of this life, so
\* that there are fewer of them than numbers given out, and a request that has
\* not been served has not been answered.
Numbered == \A t \in DOMAIN bootstraps : t.life = life /\ t.id \in 1 .. nextId - 1
Unserved ==
  \A p \in Pages, a \in Tries :
    req[p][a].pc \in {"unsent", "sent"} => req[p][a].status = 0
LastInv == Numbered /\ Unserved /\ TokensLast

\* The tokens kept are no more than the numbers given out.
LEMMA TokensCounted ==
  ASSUME GatewayInv, Numbered
  PROVE  Cardinality(DOMAIN bootstraps) <= nextId - 1
<1>1. /\ nextId \in Nat \ {0} /\ life \in Nat
      /\ DOMAIN bootstraps \subseteq Tokens /\ IsFiniteSet(DOMAIN bootstraps)
  BY GatewayAssumption DEF GatewayInv, Typed
<1>2. PICK made, f : /\ made = {[life |-> life, id |-> i] : i \in 1 .. nextId - 1}
                     /\ f = [i \in 1 .. nextId - 1 |-> [life |-> life, id |-> i]]
  OBVIOUS
<1>3. IsFiniteSet(1 .. nextId - 1) /\ Cardinality(1 .. nextId - 1) = nextId - 1
  BY <1>1, FS_Interval
<1>4. f \in Surjection(1 .. nextId - 1, made)
  BY <1>2 DEF Surjection
<1>5. /\ IsFiniteSet(made) /\ Cardinality(made) <= nextId - 1
  BY <1>3, <1>4, FS_Surjection
<1>6. DOMAIN bootstraps \subseteq made
  <2> SUFFICES ASSUME NEW t \in DOMAIN bootstraps PROVE t \in made
    OBVIOUS
  <2>1. t \in Tokens /\ t.life = life /\ t.id \in 1 .. nextId - 1
    BY <1>1 DEF Numbered
  <2>2. t = [life |-> life, id |-> t.id]
    BY <2>1 DEF Tokens
  <2> QED
    BY <1>2, <2>1, <2>2
<1>7. Cardinality(DOMAIN bootstraps) <= Cardinality(made)
  BY <1>5, <1>6, FS_Subset
<1>8. Cardinality(made) \in Nat /\ Cardinality(DOMAIN bootstraps) \in Nat
  BY <1>1, <1>5, FS_CardinalityType
<1> QED
  BY <1>1, <1>5, <1>7, <1>8

\* A step that makes no token keeps what is shown of them when a token it takes
\* from the map is spent by its page.
LEMMA KeepLast ==
  ASSUME GatewayInv, LastInv, life' = life, nextId' \in {nextId, nextId + 1},
         DOMAIN bootstraps' \subseteq DOMAIN bootstraps,
         \A q \in Pages : /\ page'[q].token = page[q].token
                          /\ page[q].token \in DOMAIN bootstraps \ DOMAIN bootstraps'
                               => \E a \in Tries : Spent(req'[q][a]),
         \A q \in Pages, a \in Tries :
           /\ Spent(req[q][a]) => Spent(req'[q][a])
           /\ req'[q][a].pc \in {"unsent", "sent"} => req'[q][a].status = 0
  PROVE  LastInv'
<1>1. nextId \in Nat /\ MaxBoot \in Nat
  BY GatewayAssumption DEF GatewayInv, Typed
<1>2. Numbered'
  BY <1>1 DEF LastInv, Numbered
<1>3. Unserved'
  BY DEF Unserved, Tries
<1>4. TokensLast'
  <2> SUFFICES ASSUME NEW q \in Pages, page'[q].token.life = life',
                      page'[q].token \notin DOMAIN bootstraps',
                      \A a \in Tries : ~Spent(req'[q][a])
               PROVE  nextId' > MaxBoot + 2
    BY DEF TokensLast, Spent, NoBearer, Tries
  <2>1. page[q].token.life = life /\ page[q].token \notin DOMAIN bootstraps
    OBVIOUS
  <2>2. \A a \in Tries : ~Spent(req[q][a])
    OBVIOUS
  <2>3. nextId > MaxBoot + 2
    BY <2>1, <2>2 DEF LastInv, TokensLast
  <2> QED
    BY <1>1, <2>3
<1> QED
  BY <1>2, <1>3, <1>4 DEF LastInv

\* One request changes, and the token it may take is its page's.
LEMMA HandlerLast ==
  ASSUME GatewayInv, LastInv, NEW p \in Pages, NEW a \in Tries, NEW r \in Request,
         Becomes(p, a, r), Spent(req[p][a]) => Spent(r),
         r.pc \in {"unsent", "sent"} => r.status = 0,
         life' = life, nextId' \in {nextId, nextId + 1},
         \/ UNCHANGED bootstraps
         \/ /\ DOMAIN bootstraps' = DOMAIN bootstraps \ {page[p].token}
            /\ Spent(r),
         \A q \in Pages : page'[q].token = page[q].token
  PROVE  LastInv'
<1>1. \A q \in Pages, b \in Tries :
        /\ Spent(req[q][b]) => Spent(req'[q][b])
        /\ req'[q][b].pc \in {"unsent", "sent"} => req'[q][b].status = 0
  BY DEF Becomes, LastInv, Unserved
<1>2. ASSUME NEW q \in Pages, page[q].token \in DOMAIN bootstraps \ DOMAIN bootstraps'
      PROVE  \E b \in Tries : Spent(req'[q][b])
  <2>1. /\ page[q].token = page[p].token /\ Spent(r)
    BY <1>2
  <2>2. page[q].token # NoToken
    BY <1>2 DEF GatewayInv, Typed, NoToken
  <2>3. q = p
    BY <2>1, <2>2 DEF GatewayInv, TokenInv, TokensMade
  <2> QED
    BY <2>1, <2>3 DEF Becomes
<1>3. DOMAIN bootstraps' \subseteq DOMAIN bootstraps
  OBVIOUS
<1> QED
  BY <1>1, <1>2, <1>3, KeepLast

\* The handlers of a POST.
LEMMA SessionLast ==
  ASSUME GatewayInv, LastInv, NEW p \in Pages, NEW a \in Tries,
         api_session(p, a) \/ DropHandler(p, a)
  PROVE  LastInv'
<1>1. /\ req \in [Pages -> [Tries -> Request]] /\ nextId \in Nat \ {0}
      /\ {"started", "session", "out", "dropped"} \subseteq Places
      /\ {200, 400, 401} \subseteq Codes
  BY Named DEF GatewayInv, Typed
<1>2. PICK old \in Request : old = req[p][a]
  BY <1>1
<1>3. old.pc \in {"unsent", "sent"} => old.status = 0
  BY <1>2 DEF LastInv, Unserved
<1>4. ASSUME Refuse(p, a) PROVE LastInv'
  <2>1. Answer(old, 401) \in Request /\ Becomes(p, a, Answer(old, 401))
    BY <1>1, <1>2, <1>4, AnswerRequest, ReplyShape DEF Refuse
  <2>2. PICK r : r = Answer(old, 401)
    OBVIOUS
  <2>3. r.bearer = old.bearer /\ r.pc = "replied"
    BY <1>1, <1>2, <2>2, AnswerRequest
  <2>4. old.status = 0
    BY <1>2, <1>3, <1>4 DEF Refuse
  <2>5. Spent(old) => Spent(r)
    BY <2>3, <2>4 DEF Spent
  <2> QED
    BY <1>2, <1>4, <2>1, <2>2, <2>3, <2>5, HandlerLast DEF Refuse, maps
<1>5. ASSUME BadHello(p, a) PROVE LastInv'
  <2>1. Answer(old, 400) \in Request /\ Becomes(p, a, Answer(old, 400))
    BY <1>1, <1>2, <1>5, AnswerRequest, ReplyShape DEF BadHello
  <2>2. PICK r : r = Answer(old, 400)
    OBVIOUS
  <2>3. r.status = 400 /\ r.pc = "replied"
    BY <1>1, <1>2, <2>2, AnswerRequest
  <2>4. DOMAIN bootstraps' = DOMAIN bootstraps \ {page[p].token}
    BY <1>5 DEF BadHello, Without
  <2> QED
    BY <1>5, <2>1, <2>2, <2>3, <2>4, HandlerLast DEF BadHello, Spent
<1>6. ASSUME Claim(p, a) PROVE LastInv'
  <2>1. PICK addr : addr = session_backend(cfg, bootstraps[page[p].token].host)
    OBVIOUS
  <2>2. addr \in Addrs
    BY <1>6, <2>1 DEF GatewayInv, Typed, Addrs, Claim
  <2>3. nextId \in Nat /\ nextId # NoBearer
    BY <1>1 DEF NoBearer
  <2>4. PICK r : r = Grant(old, nextId, addr)
    OBVIOUS
  <2>5. r \in Request /\ r.pc = "claimed" /\ r.bearer = nextId
    BY <1>2, <2>2, <2>3, <2>4, GrantRequest
  <2>6. Becomes(p, a, r)
    BY <1>1, <1>2, <1>6, <2>1, <2>2, <2>3, <2>4, GrantShape DEF Claim
  <2>7. DOMAIN bootstraps' = DOMAIN bootstraps \ {page[p].token}
    BY <1>6 DEF Claim, Without
  <2> QED
    BY <1>6, <2>3, <2>5, <2>6, <2>7, HandlerLast DEF Claim, Spent
<1>7. ASSUME NEW pc \in Places, pc \notin {"unsent", "sent"},
             req' = [req EXCEPT ![p][a].pc = pc],
             UNCHANGED <<life, nextId, bootstraps, page>>
      PROVE  LastInv'
  <2>1. PICK r : r = Move(old, pc)
    OBVIOUS
  <2>2. /\ r \in Request /\ r.pc = pc /\ r.bearer = old.bearer /\ r.status = old.status
    BY <1>2, <2>1, MoveRequest
  <2>3. Becomes(p, a, r)
    BY <1>1, <1>2, <1>7, <2>1, MoveShape
  <2> QED
    BY <1>2, <1>7, <2>2, <2>3, HandlerLast DEF Spent
<1>8. ASSUME StartSession(p, a) \/ PutSession(p, a) \/ PutOut(p, a) \/ DropHandler(p, a)
      PROVE  LastInv'
  BY <1>1, <1>7, <1>8 DEF StartSession, PutSession, PutOut, DropHandler, maps
<1>9. ASSUME PutCursor(p, a) PROVE LastInv'
  <2>1. Answer(old, 200) \in Request /\ Becomes(p, a, Answer(old, 200))
    BY <1>1, <1>2, <1>9, AnswerRequest, ReplyShape DEF PutCursor
  <2>2. PICK r : r = Answer(old, 200)
    OBVIOUS
  <2>3. r.bearer = old.bearer /\ r.pc = "replied"
    BY <1>1, <1>2, <2>2, AnswerRequest
  <2>4. Live(req[p][a])
    BY <1>9 DEF PutCursor, Live
  <2>5. old.bearer # NoBearer
    BY <1>2, <2>4 DEF GatewayInv, BearerInv, BearersApart, NoBearer
  <2>6. Spent(r)
    BY <2>3, <2>5 DEF Spent
  <2> QED
    BY <1>9, <2>1, <2>2, <2>3, <2>6, HandlerLast DEF PutCursor
<1> QED
  BY <1>4, <1>5, <1>6, <1>8, <1>9 DEF api_session

\* A new token: the others stay, or there were too many.
LEMMA OpenBridgeLast ==
  ASSUME GatewayInv, LastInv, NEW p \in Pages, NEW host \in Hosts,
         NEW cap \in Hosts \X Keys, OpenBridge(p, host, cap)
  PROVE  LastInv'
<1>1. /\ page \in [Pages -> PageState] /\ nextId \in Nat \ {0} /\ MaxBoot \in Nat
      /\ IsFiniteSet(DOMAIN bootstraps)
  BY GatewayAssumption DEF GatewayInv, Typed
<1>2. nextId' = nextId + 1 /\ life' = life /\ req' = req
  BY DEF OpenBridge
<1>3. PICK t : t = Token
  OBVIOUS
<1>4. t.life = life /\ t.id = nextId
  BY <1>3 DEF Token
<1>5. DOMAIN bootstraps' = DOMAIN MakeRoom \cup {t}
  BY <1>3 DEF OpenBridge, Put
<1>6. /\ page'[p].token = t
      /\ \A q \in Pages : q # p => page'[q] = page[q]
  BY <1>1, <1>3 DEF OpenBridge, PageState
<1>7. DOMAIN MakeRoom \subseteq DOMAIN bootstraps
  BY DEF MakeRoom, Empty
<1>8. Numbered'
  <2>1. \A x \in DOMAIN bootstraps : x.life = life /\ x.id \in 1 .. nextId - 1
    BY DEF LastInv, Numbered
  <2> QED
    BY <1>1, <1>2, <1>4, <1>5, <1>7, <2>1 DEF Numbered
<1>9. Unserved'
  BY <1>2 DEF LastInv, Unserved, Tries
<1>10. TokensLast'
  <2> SUFFICES ASSUME NEW q \in Pages, page'[q].token.life = life',
                      page'[q].token \notin DOMAIN bootstraps',
                      \A a \in Tries : ~Spent(req'[q][a])
               PROVE  nextId' > MaxBoot + 2
    BY DEF TokensLast, Spent, NoBearer, Tries
  <2>1. CASE Cardinality(DOMAIN bootstraps) > MaxBoot
    <3>1. /\ Cardinality(DOMAIN bootstraps) <= nextId - 1
          /\ Cardinality(DOMAIN bootstraps) \in Nat
      BY <1>1, TokensCounted, FS_CardinalityType DEF LastInv
    <3> QED
      BY <1>1, <1>2, <2>1, <3>1
  <2>2. CASE ~(Cardinality(DOMAIN bootstraps) > MaxBoot)
    <3>1. DOMAIN bootstraps \subseteq DOMAIN bootstraps' /\ t \in DOMAIN bootstraps'
      BY <1>5, <2>2 DEF MakeRoom
    <3>2. q # p /\ page'[q] = page[q]
      BY <1>6, <3>1
    <3>3. nextId > MaxBoot + 2
      BY <1>2, <3>1, <3>2 DEF LastInv, TokensLast
    <3> QED
      BY <1>1, <1>2, <3>3
  <2> QED
    BY <2>1, <2>2
<1> QED
  BY <1>8, <1>9, <1>10 DEF LastInv

\* What else pages and relay do.
LEMMA PageLast ==
  ASSUME GatewayInv, LastInv, NEW p \in Pages,
         \/ \E host \in Hosts, cap \in Hosts \X Keys : OpenMask(p, host, cap)
         \/ Create(p) \/ GetBearer(p) \/ ClosePage(p) \/ AskUpgrade(p) \/ ws_carrier(p)
         \/ AskDelete(p) \/ DeleteSession(p) \/ DeleteOut(p) \/ DeleteCursor(p)
  PROVE  LastInv'
<1>1. /\ req \in [Pages -> [Tries -> Request]] /\ page \in [Pages -> PageState]
      /\ "sent" \in Places
  BY Named DEF GatewayInv, Typed
<1>2. UNCHANGED <<life, bootstraps>> /\ nextId' \in {nextId, nextId + 1}
  BY DEF OpenMask, Create, GetBearer, ClosePage, AskUpgrade, ws_carrier, AskDelete,
         DeleteSession, DeleteOut, DeleteCursor, maps
<1>3. \A q \in Pages : page'[q].token = page[q].token
  <2>1. PICK old \in PageState : old = page[p]
    BY <1>1
  <2>2. ASSUME NEW g, g.token = old.token, page' = [page EXCEPT ![p] = g]
        PROVE  \A q \in Pages : page'[q].token = page[q].token
    BY <1>1, <2>1, <2>2
  <2>3. ASSUME NEW pc, page' = [page EXCEPT ![p].pc = pc]
        PROVE  \A q \in Pages : page'[q].token = page[q].token
    <3>1. AtStage(old, pc).token = old.token /\ page' = [page EXCEPT ![p] = AtStage(old, pc)]
      BY <2>1, <2>3 DEF AtStage, PageState
    <3> QED
      BY <2>2, <3>1
  <2>4. CASE Create(p)
    <3>1. PICK hello : page' = [page EXCEPT ![p].pc = "creating", ![p].try = @ + 1,
                                            ![p].hello = hello]
      BY <2>4 DEF Create
    <3>2. PICK g : g = Trying(old, hello)
      OBVIOUS
    <3>3. g.token = old.token
      BY <3>2 DEF Trying, PageState
    <3>4. page' = [page EXCEPT ![p] = g]
      BY <2>1, <3>1, <3>2 DEF Trying
    <3> QED
      BY <2>2, <3>3, <3>4
  <2>5. CASE GetBearer(p)
    <3>1. PICK bearer : bearer = req[p][page[p].try].bearer
      OBVIOUS
    <3>2. PICK g : g = Bearing(old, bearer, life)
      OBVIOUS
    <3>3. g.token = old.token
      BY <3>2 DEF Bearing, PageState
    <3>4. page' = [page EXCEPT ![p].pc = IF @ = "closed" THEN @ ELSE "connected",
                               ![p].bearer = bearer, ![p].life = life]
      BY <2>5, <3>1 DEF GetBearer
    <3>5. page' = [page EXCEPT ![p] = g]
      BY <2>1, <3>2, <3>4 DEF Bearing
    <3> QED
      BY <2>2, <3>3, <3>5
  <2> QED
    BY <2>3, <2>4, <2>5 DEF OpenMask, ClosePage, AskUpgrade, ws_carrier, AskDelete,
                            DeleteSession, DeleteOut, DeleteCursor
<1>4. \A q \in Pages, a \in Tries :
        /\ Spent(req[q][a]) => Spent(req'[q][a])
        /\ req'[q][a].pc \in {"unsent", "sent"} => req'[q][a].status = 0
  <2>1. CASE req' = req
    BY <2>1 DEF LastInv, Unserved
  <2>2. CASE Create(p)
    <3>1. PICK b : b = page[p].try + 1
      OBVIOUS
    <3>2. b \in Tries /\ b > page[p].try
      <4>1. page[p].try \in 0 .. MaxTries /\ page[p].try < MaxTries /\ MaxTries \in Nat
        BY <1>1, <2>2, GatewayAssumption DEF Create, PageState
      <4> QED
        BY <3>1, <4>1 DEF Tries
    <3>3. PICK old, r : old = req[p][b] /\ r = Move(old, "sent")
      OBVIOUS
    <3>4. old \in Request /\ old.pc = "unsent" /\ old.status = 0
      BY <1>1, <3>2, <3>3 DEF GatewayInv, TokenInv, Quiet, LastInv, Unserved
    <3>5. r.bearer = old.bearer /\ r.status = old.status
      BY <1>1, <3>3, <3>4, MoveRequest
    <3>6. Becomes(p, b, r)
      BY <1>1, <2>2, <3>1, <3>2, <3>3, MoveShape DEF Create
    <3> QED
      BY <3>3, <3>4, <3>5, <3>6 DEF Becomes, Spent, LastInv, Unserved
  <2> QED
    BY <2>1, <2>2 DEF OpenMask, GetBearer, ClosePage, AskUpgrade, ws_carrier, AskDelete,
                      DeleteSession, DeleteOut, DeleteCursor
<1> QED
  BY <1>2, <1>3, <1>4, KeepLast

\* A restart makes every token one of an earlier life.
LEMMA RestartLast ==
  ASSUME GatewayInv, LastInv, Restart
  PROVE  LastInv'
<1>1. /\ req \in [Pages -> [Tries -> Request]] /\ page \in [Pages -> PageState]
      /\ life \in Nat /\ "dropped" \in Places
  BY Named DEF GatewayInv, Typed
<1>2. DOMAIN bootstraps' = {} /\ life' = life + 1 /\ page' = page
  BY DEF Restart, Empty
<1>3. Numbered'
  BY <1>2 DEF Numbered
<1>4. \A q \in Pages, a \in Tries :
        req'[q][a] = req[q][a] \/ req'[q][a] = Move(req[q][a], "dropped")
  BY DEF Restart, Move
<1>5. \A q \in Pages, a \in Tries : Move(req[q][a], "dropped").pc = "dropped"
  BY <1>1, MoveRequest
<1>6. Unserved'
  BY <1>4, <1>5 DEF LastInv, Unserved, Tries
<1>7. \A q \in Pages : page[q].token.life # life + 1
  <2>1. \A q \in Pages : Made(page[q].token) /\ page[q].token.life \in Nat
    BY <1>1 DEF GatewayInv, TokenInv, TokensMade, PageState, Tokens
  <2> QED
    BY <1>1, <2>1 DEF Made
<1>8. TokensLast'
  BY <1>2, <1>7 DEF TokensLast
<1> QED
  BY <1>3, <1>6, <1>8 DEF LastInv

LEMMA LastStart == GInit => LastInv
<1> SUFFICES ASSUME GInit PROVE LastInv
  OBVIOUS
<1>1. DOMAIN bootstraps = {} /\ life = 1
  BY DEF GInit, Empty
<1>2. \A p \in Pages, a \in Tries : req[p][a].status = 0
  BY DEF GInit, NoRequest
<1>3. \A p \in Pages : page[p].token.life = 0
  BY DEF GInit, NewPage, NoToken
<1> QED
  BY <1>1, <1>2, <1>3 DEF LastInv, Numbered, Unserved, TokensLast

LEMMA LastStep == GatewayInv /\ LastInv /\ [GNext]_gvars => LastInv'
<1> SUFFICES ASSUME GatewayInv, LastInv, [GNext]_gvars PROVE LastInv'
  OBVIOUS
<1>1. ASSUME UNCHANGED gvars PROVE LastInv'
  BY <1>1 DEF gvars, maps, LastInv, Numbered, Unserved, TokensLast, Tries, Spent, NoBearer
<1> QED
  BY <1>1, SessionLast, OpenBridgeLast, PageLast, RestartLast DEF GNext

-----------------------------------------------------------------------------
(* The theorems *)

\* The invariant holds of every behaviour of the relay and its pages.
THEOREM GatewayCorrect == GSpec => []GatewayInv
  BY GatewayInit, GatewayStep, PTL DEF GSpec

\* Type correctness; there is never more than one token above the limit, and no
\* map has a bearer that was not made in this life.
THEOREM GatewayTyped == GSpec => []GTypeOK
<1>1. GatewayInv => GTypeOK
  BY DEF GatewayInv, Typed, GTypeOK, PageState, Stages
<1> QED
  BY <1>1, GatewayCorrect, PTL

\* However many attempts of one POST run at once, and whichever restarts come
\* between, its token starts one session.
THEOREM OneSessionPerToken == GSpec => []OnePerBootstrap
<1>1. GatewayInv => OnePerBootstrap
  BY DEF GatewayInv, TokenInv
<1> QED
  BY <1>1, GatewayCorrect, PTL

\* A page that was answered finds its session in every map: nobody but a page
\* of an earlier life can have taken it away.
THEOREM AnsweredIsRegistered == GSpec => []RepliedRegistered
<1>1. GatewayInv => RepliedRegistered
  <2> SUFFICES ASSUME GatewayInv, NEW p \in Holders, deleted[p] < 1, ~Overtaken(p)
               PROVE  page[p].bearer \in sessions \cap outs \cap cursors \cap DOMAIN backends
    BY DEF RepliedRegistered
  <2>1. p \in Pages
    BY DEF Holders
  <2>2. PICK a \in Tries : Granted(req[p][a]) /\ req[p][a].bearer = page[p].bearer
    BY <2>1 DEF GatewayInv, BearerInv, Held
  <2>3. PICK x : x = req[p][a]
    OBVIOUS
  <2>4. Registered(x) /\ Granted(x) /\ x.bearer = page[p].bearer
    BY <2>1, <2>2, <2>3 DEF GatewayInv, BearerInv
  <2>5. ~Forgotten(x.bearer)
    <3>1. SUFFICES ASSUME NEW q \in Pages, page[q].bearer = page[p].bearer, deleted[q] > 0
                   PROVE  FALSE
      BY <2>4 DEF Forgotten
    <3>2. q \in Holders
      BY <3>1 DEF Overtaken
    <3>3. PICK b \in Tries : Granted(req[q][b]) /\ req[q][b].bearer = page[q].bearer
      BY <3>2 DEF GatewayInv, BearerInv, Held
    <3>4. q = p
      BY <2>1, <2>2, <3>1, <3>3 DEF GatewayInv, BearerInv, BearersApart, Live
    <3>5. deleted \in [Pages -> -1 .. 3]
      BY DEF GatewayInv, Typed
    <3> QED
      BY <2>1, <3>1, <3>4, <3>5
  <2> QED
    BY <2>4, <2>5 DEF Registered
<1> QED
  BY <1>1, GatewayCorrect, PTL

\* A websocket opened with a bearer of this life reaches the backend of that
\* bearer's session.
THEOREM UpgradeReachesBackend == GSpec => []UpgradeFindsBackend
<1>1. GatewayInv => UpgradeFindsBackend
  BY DEF GatewayInv, BearerInv
<1> QED
  BY <1>1, GatewayCorrect, PTL

\* A page's token is dropped unused only when more than the limit were kept:
\* fewer openings than that never cost anybody his token.
THEOREM TokensKept == GSpec => []TokensLast
<1>1. GSpec => []LastInv
  BY LastStart, LastStep, GatewayCorrect, PTL DEF GSpec
<1>2. LastInv => TokensLast
  BY DEF LastInv
<1> QED
  BY <1>1, <1>2, PTL
=============================================================================
