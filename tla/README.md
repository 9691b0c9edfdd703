# tproxy-rs in TLA+

A verification project for the relay in `src/`: TLA+ modules translated from
the Rust source and from the bridge page the relay embeds, TLC configurations
that check them on small instances, and proofs that TLAPS checks for every
value of the constants. Paths below are relative to the repository; `session.rs`
is `src/session.rs`, `server.rs` is `src/server.rs`, and so on, and
`bridge_ref.html` is `res/bridge_ref.html`. In the comments of the modules and
in `PROJECT.json` these paths carry a further leading `src/`.

## 1. The system

A browser opens `GET /?bridge=<capability>` on a host the relay serves. The
relay answers with a *bridge page* that carries a one-time bootstrap token. The
application that embeds the page posts it messages made of frames. The page
trades the token for a session (`POST /api/v1/session`) and carries the frames
to the relay and back over a *carrier*: HTTP requests (`POST /api/v1/up` and
`/down`) or a websocket. In the relay a *session engine* maps each stream
identifier to one TCP connection to a stock MTProxy.

```
 application --messages--> bridge page --carrier--> server.rs --frames--> session.rs --TCP--> MTProxy
             <------------             <----------            <-messages-            <-------
```

| component | state it keeps | operations | what makes it correct | where |
|---|---|---|---|---|
| session engine, `session.rs` | map of write halves, frame channel, channel toward the carrier, a reader task per connection | one per frame type, connect, write, shutdown; read, end of file | a stream maps to the connection made last for it, frames reach it in order, chunks come back in order and the end of a backend is reported | `Session`, abstract: `Mux` |
| websocket carrier, `handle_ws` in `server.rs:330-389` | upgrade task, writer task, session task | receive a message, forward its frames, write to the socket, join | frames forwarded are the frames sent; a broken socket releases every task | `WsCarrier` |
| https uplink, `server.rs:194-227` and the page's `runUp`, `request` | the requests under way, acknowledged batches | arrive, push a frame, answer, retry, DELETE | an acknowledged batch is applied; a frame never passes an earlier one; a session is refused a frame only because of a retry, and everything ends after DELETE | `HttpUp`, with the session behind it `HttpCarrier` |
| https downlink, `server.rs:159-164, 230-292` and the page's `poll` | broadcast channel, a receiver per request, cursor | forward, subscribe, collect, long poll, advance the cursor | an answer has no gap, the client sees nothing twice, the cursor counts | `HttpDown` |
| session registry, `AppState` in `server.rs` | bootstraps, session_backends, sessions, out_channels, down_cursors, next_id | root, api_session, ws_carrier, DELETE, restart | a token makes one session; a bearer that was answered is usable | `Gateway` |
| configuration and routing, `config.rs`, `bridge.rs`, `main.rs` | the configuration in force | load, environment, command line; look-ups by host, capability, secret | the different ways to look something up agree | `Routing`, `Startup`, checked in `Fleet` |
| frame codec, `frame.rs` and the page's readers | none | encode, decode, split, cut | the two readers agree with the writer and with each other | `FrameCodec` |
| bridge page, uplink queue, `bridge_ref.html` | pending, upPending, queuedBytes, queuedItems, a timer | post, create, drain, send, acknowledge | nothing lost, doubled, reordered or miscounted | `BridgePage` |
| bridge page, lanes, `bridge_ref.html:185-194, 274-323` | a queue, a socket and a timer per stream, closed lanes | queue a frame, open, send, receive, onclose, forget | the page counts what its lanes hold; the end of a lane is told, and told once | `Lanes` |
| generators, `mass.rs`, `bin/burn.rs` | the plan: sites, their keys and ports; the files written | materialize, plan, write, deploy | every key has its own port; keys handed out for a site open it and no other | `Fleet` |

What is hard here: the readers, the session loop, the writer, the upgrade task
and the handlers run at the same time and wait for each other through bounded
channels; handlers stand between two locks and are dropped when their client
goes away; requests are repeated without the relay remembering them;
subscriptions start too late; everything is forgotten at a restart. The
`hazards` of `PROJECT.json` list these at their lines, each with the properties
that watch it or with the reason there is none.

## 2. The modules

**`Session`** translates `run_session_loop`, `handle_frame`, `shutdown` and the
reader task. Every `.await` at which the loop can be suspended with effects
before and after it is a state: `loop = "busy"` with the frame in `cur` is a
handler that sends WELCOME, connects, or writes; `loop = "bye"` is a shutdown
that waits to send BYE. Each frame type has the action of its match arm
(`RecvHello`, `RecvOpen`, `RecvData`, ...), and each resumption its own
(`SendWelcome`, `ConnectOk`, `ConnectFail`, `WriteOk`, `WriteFail`). An `Err`
is `Fail`: the session is dropped with its write halves. `ReaderData` and
`ReaderEof` are the reader. The carrier may push any frame, close its end, take
messages and go away; the backend may send, close and reset. Payloads are
numbers: a DATA frame is its position among the DATA frames of its stream, a
chunk its position among those of its connection.

**`Mux`** is what a session promises: numbered pipes, with no channel, task or
suspended handler. `Session!KeepsPromise` is that `Session` implements it; the
refinement mapping takes a pipe's `up` from what was written since its OPEN and
its `down` and `reported` from what the carrier has taken.

**`WsCarrier`** extends `Session` and closes its environment with `handle_ws`.
The client numbers its frames when it sends them, and `DrivesSession` says that
what the three tasks do is a behaviour of `Session`: each frame forwarded is
the next the client sent, while the loop runs. Pushes to a loop that has
returned fail and are ignored, as in the code (`let _ =`).

**`HttpUp`** and **`HttpDown`** have one handler state per request. A
request the page gave up has no hold on its handler: it goes on, or is dropped
at an await (`Cancel`), while the next one runs. `HttpDown` has the
broadcast channel as the number of messages sent and its capacity: a receiver
behind the oldest message kept is lagging. DELETE is three steps, one per lock.

**`Gateway`** has the maps of `AppState`, with one step per lock of
`api_session` and `api_session_delete`, and `Restart`, which clears them and
starts `next_id` at one again. It uses **`Routing`**, the pure look-ups of
`config.rs`, where a secret is what it spells and whether blanks surround it,
for some functions trim and others do not. **`Startup`** builds the
configuration in force the way `main` does and compares the look-ups on it.

**`HttpCarrier`** puts `HttpUp` and `Session` side by side, joined at the frame
channel, with the forwarder of `server.rs:159-164` at the other end. The
abstract session of `HttpUp` (`chan`, `over`) and the detailed one move together: a
handler's `PushFrame` is an `Enqueue`, the loop's steps are `SessionTake`,
`SessionReturns` or nothing. The client follows the protocol: `KeepsProtocol`
says of every program in `Programs` that, up to a BYE, each frame is one
`handle_frame` takes where it stands. So whatever goes wrong comes from retries
and dropped handlers.

**`Fleet`** extends `Startup` with the two generators: the loop of
`materialize` and of `gen`, site by site, with 16-bit ports in `burn`; the
files; and the relay that main starts on one of them. A configuration made by
hand is the other initial state. Both generators are in one module because they
make the same promise to the same relay; `yaml.tool` tells them apart.

**`FrameCodec`** has the functions that read or write the wire format. A buffer is a
sequence of bytes, a byte a digit to a base that stands for 256. Each of the three
loops over a buffer (`decode_batch`, `splitFrames`, `frameBound`) is given by
its one turn, which says where the next frame starts or that there is none;
`Walk` is where such a loop stands turn by turn, and `Turns` where it ends.

**`BridgePage`** has the page's uplink queue for the carriers `https` and
`websocket`. JavaScript runs one callback and its microtasks before the next,
which `Idle` states: no other action while a microtask or the draining loop is
due. A frame is one byte long, so that the two limits of a body are one.

**`Lanes`** extends `BridgePage` with the carrier `websocket-lanes`; a page runs in
one of the three modes, so that its specification, `LSpec`, is the disjunction. Sockets are
external: they open, fail, drain, deliver and end at any time. This relay takes
only the bearer from the subprotocol, gives every lane a session of its own and never closes a lane's socket
after a CLOSE, so that a lane ends when its socket does.

The modules `...Proofs` hold the theorems about the module they are named for
(`LanesProofs` also those about `BridgePage`, which `Lanes` extends); `MCSession`,
`MCWsCarrier`, `MCHttpCarrier`, `MCGateway` and `MCFleet` the definitions the configurations
need. Definitions marked *Mutant* are not part of any specification: each is
the plausible mistake one property is known to notice (`mutants` in
`PROJECT.json`).

## 3. The runs

| run | what it asks | bounds, and why they are enough |
|---|---|---|
| `SessionStreams` | `TypeOK`, `WriterOwnership`, `UpOrder`, and `KeepsPromise` (Session implements Mux) | two streams and one place, so that the limit refuses; four frames make OPEN, DATA, CLOSE, OPEN possible; a full channel on both sides |
| `HttpCarrier` | `RefusedOnlyIfDoubled`, `DrivesUnlessDoubled`, `RestsQuiet`, `DownOrder` | three requests in batches of two over three frames, so that a batch is repeated while its first handler still forwards and the next batch is under way; three clients, one that writes on, one that says BYE, one that closes; one place in each channel; two chunks of the backend, so that order and gaps can be told |
| `WsSafety` | `DrivesSession`, `WsRestsQuiet` | messages of one or two frames or none (text, undecodable), one in flight, four frames; one place in each channel, so that every task waits for every other; the socket may close or break anywhere |
| `WsLive` | `EveryEndReported`, `ByeAnswered`, `TornDown`, `FailureReported` | every channel has one place, the worst case for tasks that wait for room; two frames make a connection and end or fail its session |
| `Down` | `BatchContiguous`, `NeverTwice`, `CursorCounts`, `PollAnswered` | a channel of one place makes receivers lag, two requests make handlers overlap, three messages and the BYE overfill a batch of two |
| `DownGap` | expected violation of `ClientGapFree` | three requests; see section 6 |
| `Up` | `AckMeansApplied`, `NoFrameAhead`, `OnceUnlessRetried`, `DeleteEndsSession` | batches of one and two, two attempts, four requests: a handler of the first batch can still be forwarding when the second batch is acknowledged; one place in the channel |
| `Gateway` | `TokensLast`, `OnePerBootstrap`, `RepliedRegistered`, `UpgradeFindsBackend` | two pages, two attempts, one fault (a repeated POST or a restart), room for one unused token so that two are kept and a third drops them (`TokensLast` notices if a second one did); a legacy and a two-site configuration with a malformed secret; pages are interchangeable, hence symmetric |
| `Fleet` | `BackendPerKey`, `OpensOwnSite`, `SiteMatchesList`, `RoutesAgree` | descriptions of both tools with keys listed and counted, two domains with one file name, a padded key, one key in two sites, bad carriers and counts, bases at which the last port (8, for 65535) is just reached and just missed; by hand: five files or none, 36 environments, 8 command lines, with padded, empty, short and non-hex secrets and a secret listed twice |
| `FleetRoute` | expected violation of `KeyReachesItsPort` | a fleet of two sites for `burn` and one site of two keys for `mass`, the relay with no other source of configuration; see section 6 |
| `Codec` | `Canonical`, `PageAgreesWithRelay`, `CutsBetweenFrames` | base 2 and payloads to 2 bytes: all buffers to 18 bytes hold two whole frames and any shorter damage, including lengths over the limit |
| `Page` | `Accounted`, `OnceInOrder`, `Bounded`, `EveryFrameLeaves`; `LanesAccounted`, `EndTold`, `LaneFrameLeaves` | messages to three frames against bodies of two, so that they are cut; a limit of five frames and of four items, both reached, the latter passed by the one item a cut adds (`Bounded`); seven frames. Two lanes of at most three frames and one closed lane remembered, so that the second one that closes makes the page forget the first and its id comes back; six frames posted |

`CHECK_DEADLOCK FALSE` is set where the system really comes to rest: a session
that is over, a page that is closed, bounds that are used up. `HttpCarrier`
and `WsSafety` check instead where their tasks may rest: `RelayMoves` spells out
when the relay's own tasks can take a step, TLC confirms that it is ENABLED of these
steps in every state, and `MovesOrRests` says that otherwise nothing is under way
(`RestsQuiet`; `WsRestsQuiet` for the websocket). Every bound is a named constant
and a guard of the actions that count (`MaxFrames`, `MaxChunks`, `MaxTries`,
`MaxFaults`, `MaxIds`, ...); what the code itself limits has a constant of its
own (`MaxStreams`, `FrameCap`, `OutCap`, `Cap`, `BatchMax` of `HttpDown`,
`RetryMax`, `MaxBoot`, `QueueLimit`, `ItemLimit`, `BatchLimit`, `MaxPayload`).

## 4. Fairness

Safety properties assume none. The liveness properties assume:

* `WsFairSpec`: tokio runs every task that is ready (weak fairness of the
  upgrade task and the writer). A task that waits for room in an mpsc channel
  has a place in the channel's FIFO semaphore, so that it is served although
  others also fill the channel: strong fairness of `WsPush`, of the loop and of
  each reader. A socket send returns, with success or an error. A connect and a
  write return. A backend closes its side once it has seen our FIN, which is
  sent when the write half is dropped (`BackendAnswersFin`): the stock MTProxy
  is external, and without this no reader would ever have to end. The client
  need do nothing.
* `DFairSpec`: handlers run and their timers fire.
* `UFairSpec`: handlers waiting for room are served in order (strong fairness),
  the session takes its frames and returns when its input ends.
* `LFairSpec`: a request ends in one way or the other, a timer fires, a
  microtask runs, and an open socket sends what it buffers; a lane's socket
  that is connecting opens or fails, and its onclose follows its end. Nothing is
  assumed of the application or of the relay.

## 5. What is proved

TLAPS checks the following for every value of the constants that satisfies the
assumptions named in the modules. These say which constants are natural numbers,
finite or typed, that channels have room for something and that a bound of the
model is large enough to number what it bounds; `CarrierAssumption` also says
that clients keep the protocol. TLC evaluates each assumption in the runs.

**Session** (`SessionProofs`).

* `TypeCorrect`. `TypeOK` is inductive because of its accounting conjunct: a
  connection, a suspended frame and each waiting frame stand for one push each.
  Without it `ConnectOk` could leave the range of connections.
* `OwnershipCorrect`: `TypeOK /\ WriterOwnership` is inductive. The part about a
  suspended OPEN (its stream is still free, and its place is counted) is what
  carries the check at `session.rs:115-122` across the connect to the insert at
  line 132.
* `DownCorrect`: `DownOrder` needs `DownInv` beside `TypeOK`: a message of a
  connection in the channel is one that was made, a handler's WELCOME or BYE
  belongs to none, and a reader that still reads has sent no CLOSE.
* `UpCorrect`: `TypeOK /\ WriterOwnership /\ UpOrder` is inductive: for an open
  stream what was written, then what is being written, then what waits in the
  channel, are the DATA frames pushed since its OPEN, without a gap.
* `PromiseKept`: Session implements Mux. Each action of Session is, under the
  mapping `Promised`, an action of `Mux` or a stutter (`TakeRefines`,
  `ReaderRefines`, `BackendRefines`, ...), given the three invariants above.

**The websocket carrier** (`WsCarrierProofs`). `SessionDriven` is the step
simulation of `Session` by `WsCarrier`. Its invariant `WsInv` says that the frames
under way, in the message being forwarded and in those behind it, count on from
what was forwarded (`Numbered`) and that the client counts on from them
(`Leads`). The theorems about a session then hold behind a websocket:
`WsUpCorrect`, `WsDownCorrect` and, two refinements composed, `WsPromiseKept`.
`WsRestsWhenIdle` is `WsMovesOrRests`: no circle of waiting among the three tasks
and the readers. The upgrade task holds the sender exactly while it reads, joins the
loop before the writer, and a writer that ended has closed its channel (`WsLinked`);
with an empty channel that is open, or one that is closed, the loop and every reader
can send, and so on back to the socket.

**The https uplink** (`HttpCarrierProofs`, first part). `UpTypeCorrect`, `AckCorrect` and
`OrderCorrect` follow from `Delivery`: every request, given up or not, has all
frames before its next one in the session's channel, and one that was answered
204 has all of its own there (`Prefixed`). The page's sending a new batch only
after an acknowledgement gives a new request its prefix; a retry inherits that
of the attempt before. `OnceCorrect` adds `Alone`: while nothing was given up,
only the last request has a handler, and its next frame is the next of all.

**The two together** (`HttpCarrierProofs`, second part). `UplinkKept` is that `HttpCarrier`
implements `HttpUp`; it forgets the session. The other half instantiates
`SessionProofs` for the session of the composition, so that its lemmas apply to each
step. `DownCarried` needs nothing of the uplink. `SessionDriven`,
`UpUnlessDoubled` and `RefusedByRetry` hold until a frame is forwarded twice: so
long frame *p* forwarded is frame *p* of the program (`InTurn`), the part of the
program the loop has received opens exactly the streams the session holds
open (`Following`), and `KeepsProtocol` does the rest. `PromiseUnlessDoubled` adds that
until then the session behind the HTTP carrier implements `Mux`.

`RestsWhenIdle` is `MovesOrRests` for every capacity and number of requests. `Linked` ties
the two halves together: the channel as `HttpUp` sees it and as `Session` does are of one
length, and its input is open only while the map or a handler holds a sender. The
bound `MaxPushes` must not be what holds a handler back: each frame
forwarded takes a place (the request, and the position in its batch) that was not taken
before (`Spent`), and `Metered` says that the pushes are no more than these places, of which
there are `MaxPushes` at most. So a handler that cannot move waits for room, a full channel
means a loop that cannot move, and that means a full channel toward the carrier, which the
forwarder empties.

**The https downlink** (`HttpDownProofs`). One invariant, `DownlinkInv`:
`BatchesContiguous`, `ReceivedInOrder` and `CursorExact` are conjuncts or parts of
it. A receiver stands right behind the batch it collects (`Batch`); all
messages the client has seen come before what its current request can still
get (`Fresh`), which is not so of requests it gave up; an answer that waits for the
client counts on top of what it knows (`Pending`).

**The registry** (`GatewayProofs`). `GatewayTyped`, `OneSessionPerToken`,
`AnsweredIsRegistered`, `UpgradeReachesBackend`, `TokensKept`. A token is in the map, or was
claimed by one request, or has started its one session (`TokensMade`,
`ClaimedOnce`); no two live requests have made the same bearer (`BearersApart`);
what a handler wrote is there unless some page deleted that bearer
(`Registered`); and a page holds a bearer only from an answer of its own
(`Held`), over any number of pages, repeated requests and restarts. A token
that is gone was taken by a POST of its page, or the counter shows that more than
`MaxBoot` + 1 of them were made.

**The page** (`LanesProofs`), in its three carriers.
`FramesInOrder`, `QueueCounts` and `QueueBounded` need what the recursive function
`Joined` does to the sequences the queue builds. The lemmas about it are proved
by taking the least index at which a claim fails (`Least`, `Upward`). Every
operation of the queue then has two lemmas: it keeps what the queue holds or takes
something in at its end (`Keeps`, `Takes`), and it changes the counters by as much. With
`Right`, the queue holds the numbers of the frames in order and counts them,
and `PageInv` follows step by step. The limit of items has an invariant of its own
(`Within`), because cutting a message adds one without a check: at most one, which
counts until the part under way is answered. For the lanes, `LanesInv` has the same of each
lane (`Sound`), who told which end (`Ends`), which closed lanes are remembered
(`Remembered`) and that the counters of the page are the number of frames over all lanes
(`Filled`): a sum kept as the size of a set of places, which one lane's
change splits (`HeldSplit`, `HeldWith`). From it come `LanesCounted` and
`EndsTold`.

**Configuration and fleets** (`FleetProofs`), for every description, file,
environment and command line of the types `StartupAssumption` and
`FleetAssumption` give them. `FleetInv` follows a fleet from its description to the relay
that runs on one of its files. While it is planned, the slots of the sites are laid out
from the first port on, one port each, and the next port is right behind them if
there is one (`Laid`): `PortPerKey`. Then the files hold what was planned
(`FilesWritten`), the relay is started on one of them without any other source of
configuration, and what it has loaded is that file (`Running`): `SitesOpen`, which
also says what two sites with one file name come to: both relays have the later one.
`SiteAndListAgree` and `RoutesAlwaysAgree` need no more of a state than that its
configuration is typed (`Sources`): they are about the look-ups, and rest on lemmas
about the elements of the lists that are searched. (`Picked` of `Routing` stands where
`SelectSeq` would: the prover has no definition of that operator.)

**The wire format** (`CodecProofs`), for every base, payload limit and buffer.
A number of three or four digits and its digits determine each other
(`DigitsOfNumber`, `LongOfDigits`), so that what `encode` writes `decode` reads
(`EncodeReads`, `DecodeReads`) and no other bytes read the same (`FrameBytes`). A loop
over a buffer that always advances has one path to its end (`WalkEnds`), and two
loops that take the same turns have the same one (`SamePath`): the page's
turns are the relay's wherever the page accepts a frame (`SplitAsDecoded`), and `frameBound`'s are
wherever the relay does (`BoundAsDecoded`). A decoded buffer may be cut after any of
its frames and both parts decode (`FrontDecodes`, `RestDecodes`), and a frame
appended is one more frame (`OneMoreFrame`). From these follow `OneMeaning`,
`PageSplitsAsRelay` and `CutsAtFrames`; the lemma `BoundBetweenFrames` says of all
limits what `CutsBetweenFrames` says of those its run enumerates. As the prover has no
induction over a predicate, each induction is one over a set of numbers (`Upward`).

Only model-checked:

* liveness (`EveryEndReported`, `ByeAnswered`, `TornDown`, `FailureReported`,
  `PollAnswered`, `DeleteEndsSession`, `EveryFrameLeaves`, `LaneFrameLeaves`) and
  the first half of `RestsQuiet` and `WsRestsQuiet`, that `RelayMoves` and `WsMoves` are
  ENABLED of the relay's steps: the prover handles neither fairness nor ENABLED;
* `KeyReachesItsPort` is expected to be violated (section 6), as is `ClientGapFree`.

## 6. Where the code and its comments disagree

Shown by a run (`findings` in `PROJECT.json`):

* `DownGap`: each `/down` request subscribes to the broadcast channel afresh
  (`server.rs:240`) and gives its receiver up with its answer. A message that
  is forwarded between two polls, or before the first, goes to nobody. The
  comment at `server.rs:149-150` says the session's outbound is forwarded for
  `/down`. What does hold is `BatchContiguous` and `NeverTwice`.
* `FleetRoute`: `api_session` asks for the backend of the *first* secret of
  the site (`server.rs:133`), while `config.rs:63-64` says each secret maps to
  its own backend. `burn` moreover writes a configuration without backends
  (`burn.rs:286-296`): every session of its fleet goes to `mtproxy_base_port`,
  although each key has a port in the list it writes for the MTProxy.

Seen while modelling, in the models, without a run of their own:

* CLOSE drops the write half only; the reader goes on (`session.rs:179-182`,
  header line 5: "Each stream maps to one TCP connection"). After OPEN, CLOSE,
  OPEN two connections can feed one stream. Orders are therefore stated per
  connection.
* A shutdown sends BYE while readers live, so that BYE need not be the last
  message ("Close all streams and emit BYE", `session.rs:188`).
* A connect that fails ends the session for all its streams, and the stream
  that was asked for gets no answer.
* `/down` writes the cursor of a bearer back after DELETE removed it
  (`server.rs:275-280`); `session_backends` is never cleaned, which
  `UpgradeFindsBackend` in fact relies on.
* Bearers are `tprx<counter>`: after a restart a page of the earlier life and a
  new page hold the same one. `RepliedRegistered` excepts a page whose bearer
  a page of an earlier life has deleted (`Overtaken`), at any time: also when that
  was before this life gave the bearer out again, which did the new page no harm.
* A POST for a session that is repeated after the first reached the relay is
  answered 401, because the token is gone (`server.rs:95-105`); the page closes.
* Messages the application posts between the arrival of the bearer and the
  draining of `pending` overtake what waits there (`bridge_ref.html:132-141,
  344`); in the websocket carrier they also wait, with nothing to start them
  when the socket opens, until the next message. `OnceInOrder` excepts exactly
  those; `EveryFrameLeaves` excepts them only until the queue was first run
  (`NotRunYet`), and holds of everything queued from then on.
* `--secret` "overrides secret_hex/secret_hexes" according to its help
  (`main.rs:22`); the code fills `secret_hex` only when it is empty and appends
  backends.
* A websocket client has two session engines, the one its POST started and the
  one `handle_ws` starts; the first idles until DELETE.
* A repeated batch is forwarded again: a second OPEN of a live stream ends the
  session (`session.rs:115`), a second DATA is written twice.
  `RefusedOnlyIfDoubled` says that nothing else does.
* Two domains with one file name: `burn` fails at `keys.zip` when the rest of its
  files is written (`burn.rs:410-413`; the archive library refuses a second
  entry of a name), `mass` writes the later site's configuration over the earlier's:
  both relays serve the later site and the earlier's keys open nothing (`OpensOwnSite`).
* `bridge_page` drops all unused tokens when it finds more than 8192
  (`server.rs:501`), those of pages about to use them too; `TokensLast` says that below
  that limit none is dropped.
* `isolation: false` is "one shared relay" (`mass.rs:54-55`), but
  `render_compose` writes one service per site, all named `tproxy-rs`, each with its
  own configuration, and compose takes no two of one name: `Deploy` refuses more than
  one site then. `mass` counts ports in `usize` and may pass 65535; in `burn`
  `p + i as u16` wraps in a release build, which `Ports` has.

## 7. What is not modelled

The limits of `SessionLimits` other than the number of streams, the idle
timeout and the admin address: fields no code reads. HMAC, hex and percent
encoding: capabilities are injective pairs. Headers beyond those that decide
something, content types, logging, reading the mask site's files. 503 answers
in the page's `request` (the relay never sends one). TCP flow control: a write
returns or waits. Bytes inside a payload.

The `https-lanes` carrier of the page: README-EN.md:14 says it does not work, and the
relay, which ignores `X-Lane-ID`, would answer it as the plain https carrier. The
postMessage handshake and the Android port check fields of one message and keep
no state. Of the generators, the texts of nginx, Caddy, launcher and decoy
pages, and file system errors. The CI, the deployment scripts and the
hand-written compose file are outside the program.

In `Gateway` the counter is read and advanced at once in `bridge_page`, and a
token is that counter and the life of the process, though the code hashes the
time with it: two tokens of one life differ either way.

In `BridgePage` a websocket that is closing has no state of its own before its
onclose: the page then keeps its queue, which the model may still hand to the socket,
and closes at onclose either way. In
`WsCarrier` a message that does not decode is one without frames; the frames that
stood before the damage have no numbers, so that only `Canonical` of `FrameCodec`
shows that they are refused with it.

## 8. Plan

Done in this order: `Session` with `Mux`, `WsCarrier`, `HttpDown`, `HttpUp`,
`Routing`, `Startup`, `Gateway`, `FrameCodec`, `BridgePage`; proofs of
`Session`'s types and ownership and of `HttpUp`'s delivery; then `HttpCarrier`,
`Fleet` and `Lanes`; then the proofs of the other invariants and of the three
refinements, component by component, `CodecProofs` last.

To model: `HttpDown` behind `HttpCarrier`'s forwarder, so that losses on the way
down are seen against `Mux`. It multiplies two state spaces that are near what
one run can hold, and asks no question that `Down` and `HttpCarrier` leave open.

Every safety property that a run expects to hold is stated by a theorem, but for the half
of `RestsQuiet` and `WsRestsQuiet` that speaks of ENABLED. That and liveness stay with TLC.
