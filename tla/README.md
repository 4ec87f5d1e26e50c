# A formal model of Exodus

TLA+ specifications of the Exodus privacy proxy, TLC configurations that
model-check them on small instances, and TLAPS proofs of the properties that
matter most for every instance. Paths are relative to the repository.

Exodus sits between an AI agent and a provider's API. It finds secrets and
personal data in each request body, replaces them by placeholders, forwards the
masked body, and puts the real values back into the answer while that streams
to the client. The guarantees of `SECURITY.md` (INV-1 to INV-4) are claims about
sequences of steps: chunks of an answer, texts of a body, requests in flight
together. The models are about those sequences.

## 1. Inventory

| Component | State | Operations | Hard behaviour | What makes it correct |
|---|---|---|---|---|
| **Proxy request handler** `proxy/server.py` | per request: the body as received, after the local pass and masked, the vault, the restorer, the captured answer; per process: policy, runtime, HTTP client, flags | `proxy`, `body_iter` | many requests interleave at every `await`; each `await` can raise or be cancelled; the answer is streamed after the handler has returned | nothing protected leaves but where the firewall does not look; answers only hold the client's own values; the audit record precedes egress; every connection is given back; every request ends |
| **Upstream forwarder** `proxy/anthropic_client.py` | the connection pool of one `httpx.AsyncClient` | `build_request`, `send`, `aclose` | timeouts, an exhausted pool, a response nobody closes | the pool's limit holds; a waiting request ends |
| **Stream restorer** `transform/pseudonymize.py` | an incremental UTF-8 decoder and a buffer | `feed`, `flush` | chunks cut anywhere, inside a placeholder or a character | what the client gets does not depend on the cuts; nothing is lost at the end |
| **Vault and replacement** `transform/pseudonymize.py` | two maps, value to placeholder and back | `placeholder_for`, `restore`, `resolve_overlaps`, `apply_replacements` | values repeated across leaves and kinds; overlapping detections; offsets that edits move | the maps stay inverse; earliest and longest wins; the round trip is exact |
| **Deterministic firewall** `transform/pipeline.py` | the list of what was applied | `sanitize_request_body`, `_walk`, `_transform` | overlaps resolved before the policy is asked; bodies that do not encode again | no protected value stays; the records match the body |
| **Policy engine** `policy/policy.py` | kind to tier, tier to action | `default`, `from_yaml`, `action_for_kind` | kinds and tiers nobody configured | unknown kinds are secrets; a bad file stops the start |
| **Sensitivity classifier** `classify/sensitivity.py` | none | `classify_text`, `_parse_tier` | answers with no tier word or several | doubt is HIGH |
| **Local pass** `pipeline.py`, `local_pass.py`, `abstract.py` | the statuses, the content so far | `contextual_pass`, `_min_content`, `minimize_text`, `abstract` | the model goes away, comes back, fails or answers anything between two calls | a text the model failed on is blocked; sensitive text never leaves raw; nothing but the user's texts changes |
| **Detectors** `classify/detectors.py` | none | `scan`, the validators | patterns of different kinds overlap | within a kind, detections do not overlap |
| **Audit trail** `audit/log.py` | an append-only file | `write`, `summarize` | records cut by a full disk, several processes on one file, a reader among them | what was done is recorded before the body leaves; a summary invents nothing and misses little |
| **Inspection log** `inspectlog.py` | an append-only file | `record` | it runs after the last bytes were handed on | it says what was sent and delivered |
| **Local model runtimes** `local_model/*` | the lazily loaded model | `available`, `generate` | worker threads look for it, load it and fail to at once, without a lock | a model once announced stays; few are ever built |
| **Attestation** `attest.py`, `verify.py`, `tlsbind.py` | two pseudo-files of the enclave, the certificate a process serves | `build_report`, `verify_url`, `verify_document` | two steps on shared files; two connections of one verifier; restarts; stray documents | a trusted verdict rests on an answer to the very challenge, bound to the certificate seen |
| **MCP server** `mcp_server.py` | where the loop is | the JSON-RPC loop, three tools | malformed lines, tools that fail or do not return, a trail that grows while it is read | one answer per request, in order, in the end |
| **Command line, self-test** `cli.py`, `selftest.py` | the environment | printing | none | none stated |

How they interact: the handler reads the whole body, calls the local pass in a
worker thread when there is a runtime, then runs the firewall and writes the
audit records without an `await` between, then sends. The vault the firewall
built goes to the request's own restorer, which the server drives chunk by chunk
through `body_iter`. The requests share the policy (never changed after the
start), the runtime, the pool, the audit file and the inspection log. The MCP
server is a process of its own: it shares the audit file with the proxies, and
its `exodus_verify` is the verifier of the attestation.

## 2. Modules

| Module | Models | EXTENDS / INSTANCE |
|---|---|---|
| `Sensitivity` | the five tiers | – |
| `Policy` | `policy.py`: defaults, overlay, unknown tiers and actions, `action_for_kind` | `Sensitivity` |
| `StreamRestorer` | `StreamRestorer` and `Vault.restore` on a stream of characters | – |
| `Masking` | the firewall on one body, leaf by leaf and detection by detection, the vault, and the way back through JSON | `Policy` |
| `LocalPass` | `contextual_pass` with a model that comes and goes | `Sensitivity`, instantiates `Minimization` |
| `Minimization` | what the local pass promises, in one step | – |
| `PrivacyGateway` | what the proxy promises: one body out with nothing protected where the firewall looks, an answer that only grows and holds owned values | – |
| `Proxy` | the handler: concurrent requests, the pool, the audit file, failures, a crash | `Policy`, instantiates `PrivacyGateway` |
| `Attestation` | the handshake between `verify_url` and `build_report`, many at once | – |
| `AuditTrail` | `write` by several processes on one file, and `summarize` | – |
| `McpServer` | the JSON-RPC loop and its tools, beside the writers of the trail | `AuditTrail` |
| `EmbeddedRuntime` | the lazily loaded model and the threads that share it | – |
| `MCStreamRestorer`, `MCMasking`, `MCLocalPass`, `MCProxy`, `MCAttestation`, `MCMcpServer`, `MCEmbeddedRuntime` | instances for TLC | their component |
| `StreamRestorerProofs`, `MaskingProofs`, `LocalPassProofs`, `ProxyProofs`, `AttestationProofs`, `EmbeddedRuntimeProofs`, `McpServerProofs` | proofs | their component and `TLAPS` |
| `Folding` | what a fold over a sequence computes, proved for any operator | instantiated by `MaskingProofs` and `ProxyProofs`, once for each fold of their component |

Definitions whose comment starts with "Faulty variant" are not part of a
specification. Each is the definition below it with a plausible bug; put in its
place, it must make TLC find the property it is listed with in `PROJECT.json`
violated. That is how each property is known to depend on the code.

### StreamRestorer

A text is a sequence of cells: a character, an opaque run of characters that has no
part in a placeholder (a real value, as a rule, is one of these whatever its length) or
`Gone`, a cell of width zero. A real value is any sequence of characters and opaque
runs: the pattern of `db_uri_credentials` excludes white space only, so it may hold
sentinels, and half of a surrogate pair (`Lone`). `Vault.restore` replaces placeholder
after placeholder in a loop (`OneByOne`, in the order of the vault, each over what the
ones before made). Where only opaque values are put back the loop comes to replacing
each occurrence where it is, with `Gone` for the rest of the placeholder (`InPlace`;
TLC compares the two on every stream). The restored text is then as long as its
original and offsets in the two agree, which is what the proofs use. Where another
value is put back (`Tangled`) the model has the loop itself. `Feed(m, p)` is `feed`
on a chunk that completes `m` characters and leaves a character begun when `p`; it
restores the whole buffer and then looks for the last opening sentinel with no
closing one behind it, in the order of the code. A broken byte (`Bad`) may also wait
in the decoder until the next chunk or `flush` makes it raise. What either returns
is encoded last (`Return`): a value with half of a surrogate pair makes the call
raise there, on a valid answer.

### Masking

A text is a sequence of one-cell characters, placeholders and block marks; a
body is the sequence of its leaves in the order of `_walk`, keys and
non-strings among them. `ScanLeaf`, `ReplaceNext` and `FinishLeaf` are
`_transform`. `scan` is any function from texts to at most `MaxFound` detections
in which those of one kind do not overlap (`finditer` gives no more): it is chosen
the first time a text is met and kept for the rest of the request. `Finish`
fails when something was replaced and the body holds half of a surrogate pair,
as `json.dumps(..., ensure_ascii=False).encode()` then raises. The way back
encodes the masked text as a JSON string, restores it, and parses it again; it leaves
to `StreamRestorer` what comes of values that hold parts of placeholders
(`MarksAreNotDetected`) or do not encode (`EscapeFree`).

### LocalPass and Minimization

A body is a sequence of pieces, one per string content or content block.
`Skip`, `Engage`, `Classify`, `Abstract` and `Fails` are the steps of
`minimize_text`, apart because the model may go away (`Flip`) between them.
`Classify` takes any set of tier words: `_parse_tier` takes the most severe it
finds. `Minimization` has one step, in which any of the user's texts is
replaced or the pass raises, and that step is taken in the end. `LocalPass`
implements it (`Minimizes`), and it is the form in which `Proxy` uses the local
pass (`Prepare`, `PrepareFails`).

### Proxy

Between two `await`s the handler runs alone on the event loop, so each action is
the code from one `await` to the next: `Arrive`, `Prepare`, `Sanitize`
(firewall and audit, no `await` between), `Send`, `Answered`, `Start`, `Relay`,
`Complete`. A body is a sequence of items: prose, detected values, and bare values
(`Bare`). The last stand where the firewall does not look and go upstream as they are:
anywhere in a body that is not JSON, in a key, in a number. `Masking` has these cases as
`PassThrough` and `KeepLeaf`.
`Mask`, `VaultOf` and `Records` say in one step what `Masking` does in many;
`Applied`, the values acted on in their order, is a fold over the items. The
prose may hold the text of a placeholder: `EchoRoundTrips` has the same exception
for bodies that hold one their own vault mints as `CleanRoundTrip`. An
upstream writes prose, anything it was sent by any request, and placeholders it
makes up. The restorer hands on some prefix of the restored answer, no shorter
than what it has already handed on, and the rest when it is flushed: that is
what `ChunkIndependence` and `FlushedIsWhole` establish about it, for values without
sentinels; `Proxy` has no others. A restored value that does not encode makes
`body_iter` raise, which is `BreakOff`.

Failures are actions: `PrepareFails`, `AuditFails` (some of the records
written), `SendFails` (while building or waiting for a connection, or with one),
`StartFails` (the response is built or started in vain, so `body_iter`'s
`finally` never runs), `BreakOff` (during the answer). `Crash` ends
all requests; the audit file, the inspection log and what went upstream remain.

The `pc` of a request against the code:

| `pc` | the handler is at |
|---|---|
| `arrived` | `await asyncio.to_thread(contextual_pass, ...)`, or past it when there is no runtime |
| `prepared` | `sanitize_request_body` |
| `ready` | `await upstream.send`, waiting for a connection |
| `sent` | `await upstream.send`, waiting for the head of the answer |
| `answered` | `return StreamingResponse(...)`, up to the first turn of `body_iter` |
| `streaming` | `body_iter` |
| `done`, `broken`, `failed`, `lost` | ended: whole answer, cut answer, exception, process gone |

`PrivacyGateway` says the same to somebody who knows no vault, no placeholder, no
pool and no stream: per request one body in, at most one out with no protected value
but the bare ones of the body that came in, then an answer that is only ever added to
and shows protected values of that body or such as have gone out bare, until the request ends, which it may at any time. Its
`stage` is read off `pc`; the rest is the state `Proxy` has. `Proxy` implements it
(`IsPrivacyGateway`): `Send` is its `Forward`, `Relay` and `Complete` its `Deliver`,
failures and the crash its `Close`, and what goes on inside are stutters.

### Attestation

A verification is what it draws, which is fresh; a nonce is the sequence of its parts,
as a bar divides them. A verifier's has one part. The route takes any text of 8 to 128
characters, so that of another client (`Inquire`) may have more, and may be a challenge
that has been sent joined to a certificate's fingerprint. `ReportDataFor` joins nonce
and fingerprint by a bar as well, so what it makes of the two apart and of the two asked
for at once is the same. `Observe` takes the certificate, `Ask` sends the nonce on a
connection of its own, `Receive` judges a document with `verify_document` (`Accepts`).
On the other side `Begin`, `Write` and
`AnswerQuoted` or `AnswerSimulated` are `build_report`: they are apart because
the pseudo-files are shared by all that runs in the process, and what keeps them
together in the code is that the route is a coroutine without an `await`
(`Begin` waits for the event loop). The faulty variant `BeginAnytime`, which is
what the framework does with a route that is a plain function, breaks
`QuotesAreOwn`. The address may lead to any process, and to a front whose
certificate is not the one the process knows; `Restart` starts a process with
another certificate or build. A document received may be any ever made or any other
(`Forms`) around one of their quotes: nobody vouches for the connection. Digests
stand for what they are taken of, and the enclave's quote is external: the build
and what `user_report_data` held. Only an enclave makes quotes. The code does not check
that, `verify.py` leaves the signature chain of a quote to its caller, and the verdicts of
the model are as good as that check.

### AuditTrail and McpServer

The audit file is a sequence of cells, three to a record: the beginning of its
line, the rest, the line end. CPython flushes an open text file's buffer between
two `write`s, so a `Flush` ends where a record ends, and any number of records of
a batch may go out together or be left for a later flush. What cuts a record is
the operating system's short write when the disk is full (`ShortWrite`); the
buffered writer tries again, and may succeed, behind what others appended
meanwhile; or `write` raises, or the process dies (`Abandon`). `ReadLine` is one
turn of the loop of `summarize`. It takes what stands at the end of the file for
a line, so it can meet a record half way, and the other half later as a line of
its own; that, and two halves that meet, is what the properties are about. Halves of
two records are assumed to fit together, the worst case. A record is a number, and
each record of each call has its own (`RecordsAreNamedApart`): that is what it means
to say of a row which record it is.

`McpServer` puts the loop of `main` and `handle` beside the writers. A line is what
it asks for and whether it carries an id. The classes are those the code tells
apart; `Broken` are the ones whose handling raises outside the `try` and ends the
process (`Die`). `exodus_audit` is the summary, step by step, while proxies
write; `exodus_verify` answers or does not (`Verify` has no fairness, because
`verify_url` takes the certificate without a timeout); `exodus_mask` is `Masking` on
one leaf and answers at once.

### EmbeddedRuntime

One runtime, the thread that starts the process and asks `available()` before it
serves, and the worker threads of `asyncio.to_thread`. `pc` and `asks` are a thread's
place in the code: the test of `_llm` (`Ensure`), the load and the assignment
(`Load`, `LoadFails`), what `available` makes of it, the completion. There is no lock
in the code and none in the model: a thread may find no model, load one, and put it
in the place of another's while a completion runs on that one.

## 3. Runs

| Run | Instance | What it shows |
|---|---|---|
| `restorer` | all streams of up to 6 characters over both sentinels and two more, up to 4 with broken bytes; two placeholders that begin alike, one of them of a value that does not encode, and a third of a value that ends in the beginning of the first | wherever the chunks are cut, the client gets a prefix of the restored answer (`ChunkIndependence`), all of it after `flush` (`FlushedIsWhole`), in the end (`EverythingArrives`), nothing is held back but from an unclosed sentinel on (`OnlyUnclosedIsHeld`), and only bytes that are not UTF-8 and the value that does not encode raise (`OnlyBadTextFails`); the first four but for streams that repeat the third placeholder (`Untangled`) |
| `masking` | bodies of up to three leaves, up to three detections in a text, two policies that load and one that does not | `VaultIsBijective`, `EarliestLongestWins`, `ProtectedNeverWhole`, `CleanRoundTrip`, `AuditMatchesBody` |
| `local_pass` | bodies of up to three pieces, two of them the user's; the model goes or comes back three times | `FailedIsBlocked`, `SensitiveNeverRaw`, `StatusesTellAll` (the statuses the server logs tell, text by text, what was returned), and the refinement `Minimizes`, by which the pass also ends |
| `proxy` | two requests, four bodies, one of them with the text of a placeholder in it and one with a bare value, a pool of two, answers of two items, one crash | `Isolation`, `AuditedBeforeEgress`, `EchoRoundTrips`, `ConnectionsAccounted`, `InspectionIsTrue`, and the refinement `IsPrivacyGateway` |
| `proxy_live` | the same with the local pass, `EXODUS_NO_RESTORE`, a pool of one | `NothingRestored`, and `EveryRequestEnds` even when the only connection has leaked |
| `attestation` | a strict verifier over https, a lenient one over http, two processes, one restart, two builds, two certificates, a front; another client that may ask once, for the strict one's challenge joined with the front's certificate | `TrustIsEarned`, `QuotesAreOwn`, `HonestIsTrusted` |
| `mcp` | two proxies with a batch of two records and one of one, two short writes; a client that sends two lines of any sort | the summary has no record that was not written and none twice (`RowsAreRecords`), and of those complete when it began each short write costs it two at most (`LossesAreBounded`); requests are answered once and in order (`RequestsAnsweredInOrder`), and in the end, unless a verification is in the way (`EveryRequestAnswered`) |
| `embedded` | a start with or without the package, two workers with three texts each, loads that succeed or fail | `available()` never takes back a True (`OnceAvailableAlways`), so `generate` neither loads nor fails for want of a model (`GenerateNeverLoads`); `ModelsBounded` |

Four more facts came up as disagreements between a document and the code; each
has a run whose single property TLC violates. Two are about the data and two
about failures:

| Run | The document | The code |
|---|---|---|
| `shadowed` | no detected secret crosses egress (INV-1) | `resolve_overlaps` runs before the policy is asked. In `https://ghp_...@github.com` the e-mail address starts earlier than the token or is longer, is kept, and is forwarded with the token inside |
| `escapes` | the round trip is exact (INV-3) | the value was taken from a parsed string and is put raw into the JSON of the answer. A quote or a backslash in it breaks the string or changes it |
| `left_open` | once the model is engaged, a failure blocks (INV-4) | `available()` is asked again for each text. A model that goes away between two texts of a request lets the second through |
| `unclosed` | the caller of `send` must close the response | only `body_iter` closes it, and a response that fails before the first turn of `body_iter` is never closed |

Three things the runs show to be as they are. Numbers start
at 1 in each request without regard to the body's text, so a body that holds the
text of a placeholder its own vault mints, as a transcript taken with
`EXODUS_NO_RESTORE` may, comes back changed; `CleanRoundTrip` excludes it by name
(`LiteralFree`). And a lone `⟪` makes all behind it wait, completed placeholders
included, until a `⟫` that belongs to none or the end of the answer:
`OnlyUnclosedIsHeld` says so, and that nothing else ever waits. Lastly, `feed` keeps what
it has put back in `_buf` and restores it again. A value that ends in the beginning of
another placeholder (a database password may) is therefore restored once more when the
answer goes on with a `⟫` in another chunk, and not when the two come together, so in
this corner the docstring of `StreamRestorer`, "safe across chunk boundaries", does not
hold. An ASSUME of `MCStreamRestorer` has the case; `Untangled` excludes it by name.

An answer that is not UTF-8 is cut where that shows, even when there is nothing to
restore (`FeedFails`), and a valid one where a value is put back that does not encode
(`Return`); no document promises otherwise.

### Bounds and why they are enough

- Stream length 6: a placeholder of three or four characters, with characters
  before and after it, a lone sentinel, or a second placeholder behind it, at
  every cut. The proofs cover the rest.
- `MaxFound = 3`: nested, touching and equal detections of three kinds, and one
  in the middle that overlaps both others. The literal placeholder and the characters
  JSON escapes are in the bodies, and so is a literal block mark, which
  `AuditMatchesBody` excludes by name (`BlockFree`).
- Two requests: `Isolation` and the pool relate two at most. The bodies hold the
  same two tokens in opposite order, so the same placeholder stands for another
  value in the other request; one of them mixes a pseudonymized and a blocked
  value, and one holds bare what another has masked.
- `MaxAnswer`: an answer as long as a body, so that an echo is among them, and
  one that mixes placeholders of both requests.
- `MaxCrashes = 1`: a request does not outlive a crash, so a second adds no
  new relation between a request and the files.
- `MaxFlips = 3`: there, gone, back and gone again within a body of two texts.
- `MaxRestarts = 1` in `attestation`: one restart between any two steps of a
  verifier, with other builds and certificates to change to. Two verifiers can be in the
  same process at once, and each get what was made for the other. `MaxInquiries = 1`: what
  another client asks stands in one nonce, and one quote is all a verdict rests on.
  `Forms` are what some verifier looks for, and the same but for a commitment that leaves
  the certificate out; a document that says anything else is turned away for it.
- `MaxTears = 2`: one short write for what `RowsAreRecords` says, two for the sum in
  `LossesAreBounded` and to show why the first needs its condition. Three records,
  so that a cut one can have one of its own batch behind it and a stranger's
  between its halves.
- `MaxLines = 2`: a request, and one behind it. A third line would meet the same
  `phase` as the second.
- Two workers with three texts: each can load in one text, use the model in the
  next and see the other's load fail in the third.
- Symmetry is used for the two requests in `proxy`, and for the processes in
  `attestation`, where no liveness is checked.

The runs end in states where all has been done, so deadlock is not an error there.

### Fairness

- `StreamRestorer!FairSpec`, weak fairness of the whole step: `body_iter`
  iterates until the answer ends or raises. Chunks that bring nothing
  (`m = 0`) change nothing twice, so they cannot starve the stream.
- `Proxy`, weak fairness of each request's handler: each `await` on the upstream
  has the 600 s timeout of `Upstream.__init__`, waiting for a connection
  included; Ollama has timeouts of its own and the embedded model stops
  when its context is full; a client reads or goes away, and both end the wait. Answers are finite (`MaxAnswer`). Which of the
  ways on is taken is not assumed: a request may always fail rather than go on. Nothing is
  assumed of arrivals or crashes.
- `LocalPass`, weak fairness of the pass, not of the model: a call that gets no
  answer fails after its timeout (120 s with Ollama); in the embedded model it ends
  when the context is full.

- `McpServer`, weak fairness of the loop but not of `Verify`: the loop waits for
  nothing else, and the trail it reads is finite. None of the client or the writers.

## 4. Proofs

Each theorem holds for every value of the constants under the named ASSUMEs of
its component, which TLC evaluates on the instances.

**`StreamRestorerProofs`** – `RestorerTypes`, `ChunksDoNotMatter`,
`FlushCompletes`, `BufferingIsMinimal`, `OnlyBadTextRaises`, for any vault and stream.
`ChunkIndependence` is not inductive:
it says nothing of the buffer. The inductive invariant adds that, unless the stream
repeats the placeholder of a value that is not opaque (`Untangled`), `out` and `buf`
together are the restored beginning of the stream, and that in what has been sent
a sentinel follows every `⟪` (`SentBehind`), so no later chunk completes a
placeholder that begins in it. `LocalRestore` then says that restoring the
buffer with the next chunk gives what restoring all would. What a call raises on is a
cell with half of a surrogate pair in a restored text, and such a cell is put there for
a placeholder that the stream holds (`LoneShown`) or, when it is tangled, is of some
value of the vault (`LoneIsOfValue`). The assumptions are the shape of a token:
sentinels at the ends and none inside (`TokenShape`), and that opaque runs are no
characters (`CellKinds`); values are any.

**`MaskingProofs`** – `VaultStaysBijective`, `MaskingTypes`, `OverlapsAreResolved`,
`ProtectedAreHidden`, `RecordsMatchMarks`, `RoundTripsCleanly`: all the invariants of the
run, for any bodies, scanners, policy and order of detections.

- *The vault.* The invariant adds the number to the bijection: the k-th pair of the
  vault carries number k, because a pair is only added for a value that is not there and
  is numbered by the size the map then reaches.
- *The overlaps.* `resolve_overlaps` is a fold that keeps a detection when it starts
  behind the last one kept. That the detections can be put in the order of the code is
  itself proved, by induction over their number; a walk along that order then keeps the
  last one kept as the one that ends last.
- *What is left of a value.* While a leaf is edited right to left, each position of the
  result has an origin in the text (`Tracks`): that of the cell it keeps, or the start of
  the span its mark stands for. Origins keep their order, so a word without marks can
  only stand where it stood, and where a protected value was found a mark stands now: its
  occurrences go one to one into those where none was found (`HiddenWordIsRarer`). The assumption is that marks are not detected
  (`MarksAreNotDetected`).
- *The records.* `AuditInv` gives each kind of record the set of places where its mark
  stands (`Placed`), and a record and its mark are added together. The edits to come
  shift the places but take none away (`StandAt`).
- *The round trip.* Escaping, replacing and restoring all rewrite a text cell by cell
  (`Through`), and a rewriting of what two texts make together is what their rewritings
  make. `restore` is one replacement per placeholder in the order of the vault, a fold; it
  is one simultaneous substitution, because no value holds a placeholder. That
  substitution takes back each edit, JSON's escapes are not disturbed by it, and a parser
  reads back what was encoded. The assumption is that escapes are made of characters, not
  of marks (`EscapesAreCharacters`).

**`ProxyProofs`** – `RequestsAreIsolated`,
`ProofModeRestoresNothing`, `InspectionTellsTheTruth`, `NothingLeavesUnaudited`,
`EchoesComeBack`, `ProxyTypes`, `ConnectionsCounted`, `ImplementsGateway`. The argument
for the first three is by provenance. A masked body shows no protected value but its bare
ones (`MaskHides`), so nothing else went upstream; but for these an upstream only has
placeholders to write, so a
protected value enters an answer through the request's own vault alone
(`RestoreBringsOwn`), and that holds values of its own body (`VaultHoldsOwn`).
`Isolation` is not inductive without what is known of all of `egress`, which
ties the requests together: one request whose vault leaked would make another's
upstream able to repeat it. The assumptions: placeholders are no values
(`TokensAreNew`), and the upstream does not guess a protected value
(`GuessesAreNoValues`), without which the claim is false of any proxy.

`NothingLeavesUnaudited` folds the audit file by request. The records of two requests may
stand in it in any order, but appending those of one changes what is read of that one
alone; and a request that has not reached the audit has none there, so what is there
when its body is sent is what this one did. `EchoesComeBack` rests on the placeholders of
one body being apart: they are numbered by how many values came before, and a value met
again has the place of its first occurrence; so the vault has one value for each
placeholder, and restoring takes back masking item by item.

`ImplementsGateway`: every step of `Proxy` is one of `PrivacyGateway` or a stutter of
it. Two things the provenance does not say are needed. `SentInv`: a
request is in `egress` only once it was sent, so none goes out twice. `Follows`: what a
client was sent is a beginning of what the answer so far is shown as; since more of
an answer changes nothing of what was shown of it (`ShowingGrows`), the next chunk
only adds. That chunk by chunk restoring is the same as restoring the whole is taken
from `StreamRestorerProofs`. `PoolInv` counts: a connection is taken only
while some are left, and a place in the code that holds one is left only for another
that does, for the end that gives it back, or for the leak `ConnectionsAccounted` names.

**`LocalPassProofs`** – `PassTypes`, `FailureBlocks`, `SensitiveIsRewritten`,
`StatusesAreTrue`, `StepsMinimize`. The invariant follows the loop: each piece behind it is settled
(`Settled`: as it came, or the user's and then rewritten or blocked; the latter, and
with a status that makes the pass return what it built, when the model failed on it or
called it sensitive), and of the pieces ahead nothing was asked (`Asking`). The status of
a text stands at the text's rank among the user's, and says what was kept for it
(`Told`). The assumption is that `MinTier` is at most HIGH (`BoundsAreSound`), which is what doubt
counts as (the code only ever passes MEDIUM). `StepsMinimize` is the safety part of
`Minimizes`.

**`EmbeddedRuntimeProofs`** – `RuntimeTypes`, `AvailabilityStays`,
`GenerateFindsTheModel`, `FewModelsAreBuilt`, for any number of threads. The model is
never unset, so what `available()` found is there when `generate` looks. A thread
begins to load only while nothing is built and loads one at a time, so models built and
threads that load are together no more than the threads; that is the invariant, and the
threads' finiteness (`PoolIsFinite`) the assumption.

**`AttestationProofs`** – `AttestationTypes`, `QuotesCommit`,
`TrustMeansAnswered`, `HonestAnswersAreTrusted`. While a handler has written its
commitment its process's file holds it (`HandlerInv`); so each document, and the
quote in it, commits to the nonce and the certificate of one answer
(`DocsInv`). What a verifier receives says anything, but its quote was in such a
document; and what commits to a challenge and a certificate is one of two things
(`WhoseCommitment`): that challenge asked of a process with that certificate, or the
two joined asked of a process without one. `TrustIsEarned` promises one or the other, and no more can be
said. That a digest determines what it is taken of, and that only enclaves make
quotes, is part of the model, not proved.

**`McpServerProofs`** – `ServerTypes`, `SummaryInventsNothing`, `LossesStayBounded`,
`RequestsAreAnswered`, for any number of writers, calls, records, short writes and lines.
The file is the records' cells in order but for its cuts, the places where a short write
ended inside a record (`Chained`): a cell that is not the last of its record has the next
one behind it or is at a cut, and one that is not the first has the one before it in
front, or that one is at a cut somewhere before. What a writer still has to put goes on
from such a cut or begins a record (`Resumes`), and cells are apart because records are
(`ApartInv`). There are no more cuts than short writes. The reader always stands at a
line end or at a cut (`ReadInv`): a cut can only cost it the record that was cut and the
one right behind it, two for each, and a row whose halves are of different records needs
two cuts, where the first half was cut off and where the second was. `RowsAreRecords` and
`LossesAreBounded` alone are not inductive: they say nothing of where the reader stands
nor of what is still in a buffer. On the server's side `Ordered` relates the answers with
an id to the requests among the lines done with; a line is done with when the loop is
back at reading, so a reply adds the last of both.

**`Folding`** – induction over a sequence. TLAPS cannot use the library's induction
theorems, which take an operator as a parameter, but the set of the numbers for which a
claim fails has a least element (`NatLessThanWellFounded`, `WFMin`), and the claim holds
for the number before. So `Folding` proves of `FoldLeft`, which is a recursive function on sets
of positions, that it is the walk along the sequence (`WalkIsFold`), and what it makes of an
empty sequence, of one more element (`FoldOfAppend`) and of two sequences together
(`FoldOfConcat`). The other proofs use the same argument where they count or walk.

**Model-checked only.** Liveness (`EverythingArrives`, `EveryRequestEnds`,
`EveryRequestAnswered`, the end of the pass in `Minimizes`), which TLAPS does not reach:
its temporal steps know no `ENABLED`. And the four findings, which are counterexamples. All the
other invariants of the passing runs are stated by a theorem. Operators declared `RECURSIVE` and
`SelectSeq`, `SortSeq` and `SetToSortSeq`, of which TLAPS knows nothing, are in no
definition a theorem rests on.

## 5. What is abstracted or left out

- Detector patterns and validators: `scan` is any function that keeps the
  rule of `finditer`. Whether a pattern finds what it should, or a validator
  turns away what it should, is a matter of text, not of steps.
- In `Proxy`, detections do not overlap: an item is a value or it is not. The run
  `shadowed` says what the overlap rule leaves out. It also takes values that JSON does
  not escape, which `escapes` is about, and that hold no sentinels.
- In `Masking`, values that hold parts of placeholders (`MarksAreNotDetected`):
  `StreamRestorer` has them.
- In `Proxy`, audit records cut in the middle count as not written. The line a
  later record then joins is in `AuditTrail`.
- Headers, query parameters and status codes: pure data.
- In `Attestation`, the signature chain of a quote (which `verify.py` leaves out
  as well) and the layout of its bytes. `ensure_cert`, which makes the certificate
  files before the process serves, is not modelled: what can go wrong with it (two
  starts at once, a start that ends half way) gives a process that serves another
  certificate than it knows of, and such processes are in the model.
- What happens inside `llama_cpp` when two completions share a context. `LocalPass`
  takes any answer and any exception for one.
- In `McpServer`, lines the code handles alike: blank ones are as no lines at all,
  and `tools/call` without a name is an unknown tool.
- The health route has no state. The choice of a runtime from the environment,
  the command line and its printing, and the self-test, which runs a list of
  samples through the firewall, have no state that outlives a call.

## 6. Plan

Done: `StreamRestorer`, `Masking`, `LocalPass` refined to `Minimization`, `Proxy`
refined to `PrivacyGateway`, `Attestation`, `AuditTrail` under `McpServer`,
`EmbeddedRuntime`; a theorem for each of their invariants. What is left is proofs that tie the
components together:

1. `Masking` and `Proxy`: that the many steps of `_transform` on one leaf come to the one
   `Mask` of `Proxy`, when detections do not overlap.
2. `StreamRestorer`: that what it makes of a stream is a `Shown` of `Proxy`, now said in
   words only.
3. `Attestation`: an abstract specification of one verification (asked, answered by a
   process, judged) that it implements.
