# A TLA+ development of dig-ipc-protocol

The crate is the contract between the user's app, which holds an identity key, and
the engine, which only verifies. This directory models its role-halves and its
signed-message contract, the transport between them and the system they form with an
engine host, checks them with TLC on small instances and proves the central results with
TLAPS. All paths below are relative to the repository.

## The system

| Component | State | Operations | Talks to |
|---|---|---|---|
| Signed-message contract (`src/domain.rs`) | none | `challenge_message`, `sign_callback_message`, `user_sign_message`, `verify_signature` | used by both halves |
| `EngineSessionRegistry` (`src/engine.rs`) | `pending` by candidate, `candidate_order`, `sessions` | `begin`, `attach`, `detach`, `evict_if_full`, `take_candidate` | entropy and resolver seams (calls); one engine serves every client, each call under `&mut self` |
| `SessionClient` (`src/client.rs`) | `transport`, `next_id`, the call in progress | `begin_and_attach`, `detach`, `reattach`, `handle_next_sign_callback` | engine (messages over one connection), signer and policy seams (calls) |
| `SessionRegistry` (`src/client.rs`) | sessions by DID | `insert`, `get`, `remove` | the app |
| `LineTransport` (`src/transport.rs`) | read buffer | `send_frame`, `recv_frame` | a byte stream |
| Seams (`src/signer.rs`, `src/transport.rs`) | the implementer's | `try_sign`, `authorize`, `resolve_signing_key`, `fill_nonce` | called by the halves |
| Wire types (`src/wire.rs`), bounds (`src/bounds.rs`) | none | serde | both halves |

What is hard here:

- *Interleaving.* While the client waits for an answer, the engine may send `sign`
  callbacks, and while it answers one the user may lock the profile or the
  connection may drop. In the engine, handshakes of many callers interleave, may be
  evicted by one another, and the resolver may change its answer between the two
  halves of a handshake.
- *Ordering and failure.* A call that fails (flood, unparsable frame, failed read, mismatch)
  leaves its answer in the pipe. Ids are unique per connection only; `reattach`
  starts over with id 1.
- *Bounds.* The pending map, the callback flood, the u16 length prefix, the frame size.
- *Liveness.* There is no timeout anywhere.

What makes each part correct: bytes that are signed have one reading (contract); a
session is justified by one fresh handshake under the DID's published key, and the
registry stays within its bound (engine); a call takes only the answer to its own
request, nothing is signed that the policy did not allow, every callback is answered
once, every call returns (client); frames arrive whole, once and in order, and a fault
costs only the frames it hit (transport); the session behind a handle is the one the
engine opened for that profile and key, an honest handshake is refused only for a cause its
error code names, and an orphaned session has a known cause (both halves).

The full list of what can go wrong, with its line and the property that covers it, is
`hazards` in `PROJECT.json`.

## Modules

| Module | Models |
|---|---|
| `Domain` | the three builders over sequences of bytes; tags, nonce length and length radix are constants |
| `IdentityKey` | one key asked to sign any number of challenges, callbacks and user messages |
| `EngineSessionRegistry` | the engine half, against any callers |
| `SessionAuthority` | what the engine half promises, without its queue and its checks; `EngineSessionRegistry` implements it |
| `SessionClient` | the app half, against any peer |
| `FrameChannel` | the contract of the `FrameTransport` trait, which `SessionClient` is written against |
| `LineTransport` | `send_frame` and `recv_frame` byte by byte, with faults; implements `FrameChannel` on a clean connection |
| `IpcSystem` | one app (`SessionClient`, `SessionRegistry`, signer) and one engine (`EngineSessionRegistry`, its host); extends the modules of both halves and conjoins their actions; implements `SessionClient`'s specification |
| `IdentityKeyProofs`, `EngineProofs`, `AuthorityProofs`, `SessionClientProofs`, `CallbackProofs`, `LineTransportProofs`, `IpcSystemProofs` | the theorems about them |
| `NatLemmas` | the minimum and maximum of a set of naturals |
| `MCIdentityKey`, `MCEngine`, `MCSessionClient`, `MCLineTransport`, `MCIpcSystem` | the instances TLC checks |

### Domain and IdentityKey

A signature is represented by the bytes it is over. `IdentityKey.signed` collects, with
the bytes, the purpose and the fields the signer was shown. `SignChallenge` has the guard
of `begin_and_attach` (the nonce has `NONCE_LEN` bytes), `SignCallback` that of
`service_sign_callback` (the type fits the prefix). `LenRadix` is 256 in the code; with
radix 2 the limit of the prefix is three bytes and TLC reaches it.

### EngineSessionRegistry and SessionAuthority

Each handler takes `&mut self`, so each is one action. `begin_ok` includes the eviction
(`evict_count` is how many pops the loop makes, the `None => break` included), the push and
the insertion. `attach_verdict` is the chain of early returns in the code's order;
`attach_ok` and `attach_refused` both contain `take_candidate`, which the code calls before
any check. `Republish` is the resolver's freedom to change. Random 32-byte values are
numbers, handed out by `fill_nonce`: fresh ones if `FreshEntropy`, else any of
`RepeatedValues`, over and over. A signature is
a key and a message, and messages are tagged tuples: `IdentityKeyProofs` shows that the
byte strings they stand for are as distinct as the tuples. `begins`, `spent` and `opened`
are history variables. Subscriptions and the config digest are left out: no check reads
them.

`SessionAuthority` has five steps: issue a challenge with values never used before (and
forget any others), refuse one, grant a session against the published key's signature over
an outstanding challenge, end a session, republish a key. The refinement mapping takes the
map for the outstanding challenges, `1 .. drawn` for the used values and `opened` for the
grants.

### SessionClient

The client is one thread that blocks in `recv_frame` and in `authorize`; whatever it does
between those calls is one action. `pc` says where it blocks, `op` which answer it is
waiting for. A frame carries what the code tells apart: it does not parse, it is a `sign`
request with good, malformed, badly encoded or overlong-typed params, or it is an answer
with an id and a body (error, neither, another shape, a nonce of the wrong encoding or
length, good). The peer may be late, out of order, silent, flooding or gone, but answers a
request at most once and under its own id; what it sends beyond that has an id no request
used. A peer that forges answers to ids it can guess is not modelled: against it the
property of correlation has no meaning, as the client has only the id to go by.
Every read may fail while the connection is open (`recv_fails`: an i/o error, a line too
long or not UTF-8), and so may every write (`request_failed`, `reply_failed`); `recv_eof` is
the read that fails for certain, at the end of a closed connection. A write that fails
after the whole request went out is, for the peer, a request sent: it is modelled by
`request_sent` followed by a read that fails.
`requests[i].no`, `Answer.to`, `abandoned`, `consumed` and `replies` are ghosts. The
history of callbacks starts over with each call, so a flood without end has finitely many
states.

`begin_and_attach` and `reattach` are the start of the operation; `begin_answered` and
`attach_answered` are what follows each answer. `handles` are the sessions the app was ever
given; it may detach any of them, also twice. The profile's DID, its key and the candidate
are data the client passes through: they get their values in `IpcSystem`.

### FrameChannel and LineTransport

`send_frame` puts the frame and its newline into `rest`, and `write_byte` moves one byte at
a time into `pipe`: the writer's buffer and the operating system's are one queue, so a
flush only hastens what happens anyway. `read_byte` takes one byte; `stops`, `overlong`,
`is_utf8` and `trim_end` are `take(MAX_FRAME_BYTES).read_until`, the size check,
`String::from_utf8` and `trim_end_matches`. The six characters are those the code tells apart, a
character of two bytes included. Faults are a sender that dies within a frame, a
`write_all` that fails after any byte, and a read that fails in the middle of a line
(`read_until` drops its buffer). Bytes carry the number of their frame (ghost), from which
`origin` says of which frames a received one is made; `hit` are the frames a fault damaged.
Two details of the code that the model shows: the limit counts the newline, so the longest
frame has `MAX_FRAME_BYTES - 1` bytes, and the rest of an overlong line is returned as
further frames.

### IpcSystem

The app calls `begin_and_attach`, `reattach`, `detach` and `handle_next_sign_callback`, and
records each session in `by_did` (`SessionRegistry::insert`, which replaces). It may detach
any session it was ever given, also twice (`Detach`), and take an entry out at any moment
(`Forget`, `SessionRegistry::remove`): before the detach, after it, or without one, as the
crate prescribes no order; `removed` is the ghost of what it took out. The signer's key changes at any time (`SwitchKey`): an attach signs with
the key of that moment. The code only asserts that it is the advertised one in debug
builds; the model is the release build.

`params`, `answers` and `backlog` hold what the numbers of `SessionClient` stand for: the
fields of each request, what the engine answered, and what the host has not served. A handle
is the number of its attach. The host is not in this crate (its actions are external): it
serves the requests of one connection in order through `begin`, `attach` and `detach`,
answers with what they return (`error_code` of a refusal) and sends callbacks. It may serve
a request after its connection is gone, and may or may not detach the sessions of such a
connection (`CleanUp`); the registry has no notion of a connection. `Restart` is a new registry in a new process. `OtherBegins` are other
clients of the same engine, which fill the map.

## Runs

| Run | Checks | Shows |
|---|---|---|
| `identity_key` | `TypeOK`, `NoSigningOracle` | nonces of 0 to 3 bytes, types up to and over the limit, payloads and user messages that are outputs of another builder |
| `engine` | `EngineTypeOK`, `QueueConsistent`, `InjectiveAgreement`, `RecentBeginsSurvive`, `ImplementsAuthority` | replays, crossed handshakes, changing keys and eviction: every session is justified, the queue tracks the map, the abstract specification is implemented |
| `engine_repeats` | `PendingBounded`, `PendingIsQueued` | the capacity bound over five begins whose candidates repeat: evictions over stale queue entries, which pop more than one |
| `client_correlation` | `OwnAnswers`, `MismatchIsStale` | every way of abandoning a request, then late answers to it, on this connection or the next |
| `client_callbacks` | `ClientTypeOK`, `Custody`, `CallbacksAnswered`, `FloodLimit`, `AuditIsTruthful`, `CallsReturn` | a whole handshake with callbacks up to and over the limit, locks and drops at every point, and that every call returns |
| `client_malformed` | `MalformedCallbackIsAnswered`, violated | see Findings |
| `transport` | `KeepsContract`, `FramesAreDelivered` | reader and writer interleaved at every byte, frames up to the limit, no faults |
| `transport_faults` | `TypeOK`, `UndamagedFramesArrive`, `NotGlued` | every fault at every byte, no undamaged frame read with another, overlong lines, bytes that are not UTF-8, characters cut by the limit |
| `transport_eof` | `ClosedChannelIsEof`, violated | see Findings |
| `system_profiles` | `HalvesAgree`, `RefusalHasCause`, `AppCallsReturn` | two profiles and two keys that change at any moment, and that every call returns when the host goes on serving |
| `system_sessions` | `TypeOK`, `HalvesAgree`, `ListedIsLive`, `OrphanHasCause`, `RefusalHasCause`, `AllowedPeer` | two handshakes of one profile, or one and up to two detaches of its session, the entry removed at any time, with failing reads and writes, reconnects, restarts, clean-up and other callers |
| `system_close` | `ClosedSessionsEnd`, violated | see Findings |

`RecentBeginsSurvive` and `QueueConsistent` need fresh entropy: a repeated candidate
overwrites a handshake and leaves a second queue entry, which the next evictions spend on
the wrong handshake. For the bound this is harmless, because `evict_if_full` is a loop:
`engine_repeats` reaches the evictions that pop more than one entry (with an `if` in place of
the `while`, the mutant `evict_one`, the bound breaks there and only there).

**Bounds.** `MaxDraws`, `MaxSigned`, `MaxRequests`, `MaxInbox` and `MaxSent` bound counters
that the code does not bound; `MAX_PENDING_CANDIDATES`, `MAX_INTERLEAVED_CALLBACKS` and
`MAX_FRAME_BYTES` are the code's own limits, made small so that runs exceed them.

- *Contract.* `MaxSigned = 2`: the property compares pairs of signed messages.
- *Engine.* Two DIDs, two keys, room for two handshakes and seven values: three begins, so an
  eviction, and an open session, or two begins and both their sessions. With repeats, ten
  draws from four values: five begins, so that three distinct candidates can follow a repeated
  one and meet its stale queue entry in a full map. One DID and one key: neither property
  reads them. The states of this run are compared without the histories and the open sessions
  (`VIEW RegistryOnly`), on which no step depends: an attach is told apart by the candidates
  that are pending, and any other changes nothing.
- *Client.* Correlation: four requests are two handshakes, enough for a request to be
  abandoned and a second handshake to meet its answer; two unread frames; a callback limit of
  0, which makes every callback a reason to give up. Callbacks: one handshake, limit two, two
  callback ids.
- *Transport.* A limit of four bytes, three frames (two for the counterexample): one damaged
  frame with one on either side.
- *System.* Profiles: one handshake or two begins (two requests, four draws, so that the host
  is never short of them) with two DIDs, two keys and a callback limit of 0; other callers are
  the subject of the next run. Sessions: four requests and eight draws, room for two
  handshakes, so the client's own can be evicted. One unread frame: both ends are sequential,
  and the order of frames is `client_correlation`'s subject. Foreign begins keep clear of the
  draws the client's own requests need, so at most one of them falls between its begin and its
  attach; the begins of two dropped connections, served late, are what evicts a third
  handshake in this run. The close of a connection: one handshake, one callback at a time.

**Fairness.** `SessionClient` assumes that an enabled client step is taken (the thread runs,
and `authorize`, a prompt, is answered) and that a peer with an open connection eventually
sends something or closes. The second is an assumption about the engine, not a fact about
this code: without it a call blocks for ever, since no timeout exists. `IpcSystem` replaces
it by fairness of the host's serving loop, and derives that calls return; that the host does
not fall silent is assumed there, too. A failing read or write is a fault: it may happen at
any time and need not, so no fairness rests on it. `LineTransport`
assumes that a sender inside `write_all` goes on writing and that the owner of the receiver
reads again. Nothing is assumed about the app's calls, the user's locks, which frames the
peer sends, or that faults do or do not happen.

Every property has a mutant of the code that violates it (`mutants` in `PROJECT.json`).
The mutated definitions stand beside the ones they replace and are used nowhere else.

## Proofs

The theorems hold for every value of the constants that the named assumptions allow. Each
safety proof has an inductive invariant with one lemma per action.

**Contract** (`IdentityKeyProofs`). `NoSigningOracleTheorem`, for all tags that diverge
(`TagAssumption`), any `NONCE_LEN`, any `LenRadix` from 1 to 256, and `IdentityKeyTypes`. Each
builder is injective (a concatenation splits in one way once the length of its first part is
fixed, by the nonce or by the prefix), the tags keep the three images apart, and the invariant
says that what is in `signed` was built by them.

**Engine** (`EngineProofs`).

- `PendingBoundedTheorem`, `PendingIsQueuedTheorem` and `EngineTypes`, from `CapacityInv`, the
  type invariant with both properties. The bound is not inductive without the other: the
  loop makes room only because emptying the queue would empty the map (`EvictionMakesRoom`).
  Nothing is assumed about entropy.
- `AgreementTheorem`: `FreshEntropy /\ EngineSpec => []InjectiveAgreement`. `AgreementInv` adds that
  begins have distinct candidates and nonces not above `drawn`, that what is pending was
  begun with exactly those fields, and that what is spent is gone from the map and never
  drawn again. One signature then means one nonce, one begin, one candidate, one session.
- `QueueTheorem` and `SurvivalTheorem`, also with fresh entropy, from `QueueInv`: the queue is
  increasing and equals the map's domain, and begins increase. Hence at most one candidate is
  evicted and only from a full map (`EvictsOne`); the other `MAX_PENDING_CANDIDATES - 1` in it came
  from later begins, by a pigeonhole argument (`EvictedIsOld`).
- `RefinesAuthority` (`AuthorityProofs`): each step of the registry is a step of
  `SessionAuthority` or a stutter; the room for a new challenge is `CapacityInv` after the step.

**Client.** `SessionClientProofs`: `ClientTypes`, `OwnAnswersTheorem`, `MismatchTheorem`.
Their invariant `ClientInv` needs, beside the types, what an operation in progress has
established (`InProgress`) and `Correlated`: requests have increasing numbers and ids on a
connection, the last one is the one awaited, each unread answer is addressed to a request
with that id, at most one is unread or owed for each, and whatever is outstanding is
awaited or was given up. `CallbackProofs`: `CustodyTheorem`, `CallbacksTheorem`,
`FloodLimitTheorem`, `AuditTheorem`, from `CallbackInv`, whose key part is `Counted`:
while a call is in progress the counter, the replies and the callbacks read are in step.
Both hold against any peer, for any limit and any number of requests.

**Transport** (`LineTransportProofs`). `TransportTypes` for all frames and faults;
`ContractIsKept`: `CleanConnection /\ Spec => KeepsContract`, for all frames that fit and any
limit. The invariant says that what is in the pipe and still to be written is, byte for byte,
the frames after the last one received (`Flowing`), that what `recv_frame` holds is the
beginning of the next (`Begun`), that what was received is a prefix of what was sent
(`Prefix`), and that the end is reported only after it (`EndIsTrue`).

What faults leave of the contract is `NotGluedTheorem`, for any frames, limit and faults, and
`UndamagedTheorem`: `SingleLines /\ Spec => []UndamagedFramesArrive`. Both speak of `flow`,
the bytes held, piped and still to be written, in order. `FaultInv` says that the bytes of
`flow` are as they were sent and in the order of the frames (`Genuine`, `Ordered`), that a
frame no fault has hit lies in it as one piece, up to and with its newline, after a newline
or at the start (`Intact`), that what is held has no newline, and that what was returned of
several frames was hit (`Apart`). It is not enough that a frame is whole: a newline before it
is what keeps a damaged predecessor from running into it. `ArrivesInv` adds that an
undamaged frame that fits is wholly on its way or has been returned once, whole.
`SingleLines`, that no frame holds a newline, is what `serde_json::to_string` guarantees of
the frames both halves send; a frame with one would arrive as two.

**System** (`IpcSystemProofs`). `EngineIsAllowedPeer`: `Spec => AllowedPeer`, that is, the engine with
its host, other callers, restarts and drops is one of the peers `SessionClient` allows. Its
invariant is that what the host has yet to serve on the live connection has not been answered.
All the safety theorems about the client therefore hold of the client in the system.

What the two halves establish together is `SystemTypes`, `HalvesAgreeTheorem`,
`RefusalTheorem`, `ListedIsLiveTheorem` and `OrphanTheorem`. None of these properties is
inductive; they follow from one invariant, `SystemInv` (theorem `SystemInvariant`), proved
with the help of `ClientInv`, which `EngineIsAllowedPeer` provides. Its parts:

- `TablesInv`: how the app's, the host's and the client's tables fit. An attach is the request
  after the begin it answers, with its DID; a detach is for a handle; what is answered was
  requested and is of a kind its method returns; an unread answer is not yet a handle.
- `EngineInv`: the engine's `CapacityInv`, `AgreementInv` and `OrderInv` (the queue is in order),
  shared with `EngineProofs`, and that session ids were drawn. It survives `Restart`, which
  empties the registry but not what was drawn and begun.
- `ChallengesAreBegins` and `SessionsAgree`: each challenge answered is a begin of its own, for
  the DID and key requested; each session answered was opened for them. The chain from handle to
  answer, answer to `opened` and `opened` to begin is what `HalvesAgree` says of its two ends.
- `ChallengesWait`: a challenge the client may still answer, or whose attach the host has yet to
  serve, has not been spent, and is pending in the engine unless `MAX_PENDING_CANDIDATES` begins
  followed it. It is the engine's eviction order (`BeginSpares`) seen from one handshake, and
  the reason why a refusal with `AUTH_REQUIRED` has a cause (`RefusalsCaused`).
- `SessionsStay`: a session answered on the connection that is up, with no detach sent for it,
  is open. Only its own detach, a clean-up or a restart ends a session, and the last two
  leave its connection gone. Listed entries are handles and handles are sessions, so
  `ListedIsLive` follows, whatever the app does with its map.
- `OrphanHasCause` itself, which is inductive given the others: what it calls lost stays lost
  as long as the connection lasts (numbers, handles and `removed` only grow), and a detach that
  was served took its session out for good, as no two answers name one session.

Assumptions: those named in the modules (`TextAssumption`: text that does not decode is no signature;
`EntropyAssumption`: `IpcSystem` is about a fresh entropy source), the hypotheses
`CleanConnection` and `SingleLines` where they are stated, and where `FreshEntropy` is stated that the entropy
source honours its contract (`SessionEntropy::fill_nonce`, "each call MUST return an
independent, unpredictable value"). Signatures are ideal: a key's signature over a message is
made by that key only.

Every safety property of the passing runs is a theorem. Only model-checked is liveness
(`CallsReturn`, `AppCallsReturn`, `FramesAreDelivered`), which, like `ENABLED`, is out of the
prover's reach. No module uses `RECURSIVE` operators.

## Findings

- `SessionError`'s documentation (`src/client.rs:36-38`) says a malformed `sign` callback is
  answered with an error and does not fail the local caller. `service_sign_callback`
  (`src/client.rs:256-257`) returns `SessionError::Frame` without an answer when the params do
  not deserialise; only a payload that is not base64 is answered. Run `client_malformed`.
- `FrameTransport`'s documentation (`src/transport.rs:17-18`) says a closed channel surfaces as
  `UnexpectedEof`. When the sender dies within a frame, `recv_frame` returns the partial line as
  a frame (`src/transport.rs:56-67`), which the client reports as `Frame`, not as the `Io` that
  asks for a reattach; the call after it does return `UnexpectedEof`. Run `transport_eof`.
- `SessionClient::detach`'s documentation (`src/client.rs:200-203`) says of a pipe that is gone
  that "the engine drops the session when the connection closes". The registry holds sessions by
  id alone, and only `detach(session_id)` (`src/engine.rs:177-181`) removes one; nothing in the
  crate connects that to a connection. It is the engine's host that has to remember which
  sessions a connection opened and detach them. Run `system_close`: with a host that goes on
  serving but does not, the session of a dropped connection stays open for ever.
  `OrphanHasCause` counts such sessions among the lost ones.

Seen but outside what is modelled: `SPEC.md` section 6 names `verify_strict` where the code
calls `chia_bls::verify`.

## Not modelled

- serde and base64 themselves: frames and params are modelled by the outcomes of parsing that
  the code tells apart. Numeric error codes, symbols and messages are data no property is about.
- BLS arithmetic and the operating system's entropy: `verify_signature` is equality of key and
  message, `fill_nonce` is fresh or arbitrary.
- The engine's host and the operating system's pipe are not in this crate; they are modelled
  from what the documentation of the handlers says of them.
- Read-only accessors, re-exports, test doubles, tests and build automation have no state.
- `IpcSystem` has one app. Its handshakes meet other callers only through the engine's map,
  which `OtherBegins` and, for the engine alone, the run `engine` cover.
