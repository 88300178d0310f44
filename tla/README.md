# TLA+ verification of tee-rex

tee-rex moves the proving of Aztec transactions to a server that may run inside
an AWS Nitro enclave. A client encrypts its proof inputs to a key that the
enclave attests, the host forwards them, and the enclave proves with the `bb`
binary of the client's Aztec version, which the host downloads and uploads on
demand. This directory models the parts of the system where something runs
concurrently, fails, or depends on an order; checks the models with TLC on small
instances; and proves the main results with TLAPS for all sizes.

Paths below are relative to `src/`.

## Inventory

| Component | State | Operations | What is hard | What makes it correct |
|---|---|---|---|---|
| Enclave server `packages/server/src/enclave.ts`, `lib/bb-hash.ts` | `bbHashCache`; `{v}/bb` and `{v}.tmp/bb` in the enclave's in-memory file system | `/upload-bb`, `/prove`, `/health`, `/attestation`, `/public-key` | async handlers interleave at each `await` while file writes run on other threads; uploads of a version share a temporary file; a restart loses everything | what is reported is on disk; what is installed is complete; the attested hash is that of the binary that runs; every request is answered |
| Prover service `lib/prover-service.ts`, `findBb` of `lib/bb-versions.ts` | none of its own | `createChonkProof`: choose bb, write input, spawn, read proof | the file chosen is executed awaits later | the file is still there; a torn binary gives no proof |
| bb download `lib/bb-download.ts` | `{v}` and `.{v}.tmp` in the host's cache | `downloadBb`; read by `uploadBb` | downloads of a version share a directory; network, disk and `tar` fail; the host dies half way | the cache never holds a partial binary and never loses a complete one; every call ends |
| Version cache `scripts/download-bb.ts`, `lib/bb-versions.ts` | the cache directory | the script's `downloadBb`, `cleanupOldVersions`; `listCachedVersions` | extraction in place; interrupted or overlapping runs; eviction beside proofs | what is listed is complete; as many of each tier as configured, the newest |
| Host server, proxy mode `index.ts` (`handleProxyProve`), `lib/enclave-client.ts` | none of its own | `/prove`: health, download, upload, forward | four calls to another process, each on the strength of the one before; either process restarts between any two | a proof for a version is made by the bb released for it; the client is always answered |
| Host server, standard mode `index.ts` (`handleStandardProve`) | the version cache on the host's disk | `/prove`, `/health` | a script fills and evicts the cache while a request goes from `findBb` to the spawn | every prove is answered |
| Rate limiter `lib/rate-limit.ts` | `#hits`, a timer | `isLimited`, `#prune` | two places forget, with different timing | the limit holds in every window; what is forgotten makes no difference; memory is bounded |
| Keys `lib/encryption-service.ts`, `lib/utils.ts` | `#keys` (a lazy promise) | `lazyValue`, `getEncryptionPublicKey`, `decrypt` | first requests meet while the key pair is being made; a failure is cached too | one key pair per process, the one handed out |
| Attestation service `lib/attestation-service.ts` | `nsmLib` | `getNsmLib`, `getAttestation` | tested before an `await`, set after it | handles do not leak without bound |
| SDK prover `packages/sdk/src/lib/tee-rex-prover.ts` | mode, URL, attestation config; lazy simulator | `setProvingMode`, `setApiUrl`, `setAttestationConfig`, `createChonkProof` | settings are read again after each `await`; servers restart; retries; two keys come with an answer | where attestation is required, inputs only leave encrypted to an attested key; every proof settles |
| SDK attestation `lib/attestation.ts` | none | `verifyNitroAttestation` | one check of many left out lets a flaw pass | a key is used only if a certified enclave of the expected kind vouches for it |
| Playground session `packages/playground/src/` `main.ts`, `aztec.ts`, `wallet-selection.ts`, `wallet-connect.ts`, `external-wallet-ui.ts` | `state`, two `deploying` flags, the sections and buttons of the page, `pendingConn`, the disconnect handler | wallet choice, initialisation, connection, disconnection, modes, operations | any click between any two awaits; initialisation retried; the wallet disconnects by itself | one operation at a time; its phases go to its own animation; "local" stays local |
| Playground operations `aztec.ts` | transactions on chain | `deployTestAccount`, `deployToken`, `runTokenFlow` | sends retried, transactions dropped, reverted or never mined; wallet and account change meanwhile | what is reported done is on chain; nothing twice; an operation ends |
| Playground animation `ascii-animation.ts` | `#queue`, `#timer`, an interval | `push`, `clear`, `start`, `stop` | timers that outlive an operation | phases in order, each long enough, none after the end |
| Funding scripts `packages/playground/scripts/` `batch-fund-fpc.ts`, `deploy-sponsored-fpc.ts` | balances on L1 and L2, the repository's secret | plan, mint in batches, bridge, claim; deploy | stopped anywhere and run again over what is left | no more is minted than the target needs; what is reported funded is |
| Deployment `infra/*.sh` | containers, the enclave, the bb cache on the instance | `ci-deploy-unified.sh` | fails half way and is run again | the second run ends in the state of a clean one |
| Infrastructure, release scripts, landing page, playground display | – | – | declarative, sequential, or layout | – |

How they interact: SDK → host over HTTPS (`/attestation`, `/prove`); host →
enclave over HTTP through a vsock bridge (`/health`, `/upload-bb`, `/prove`);
host → network for bb releases; host and enclave → their file systems; the
playground drives the SDK through its mode setters, its phase callback and the
wallet; the download script and a standard-mode host share a directory only.

`PROJECT.json` lists each component with its status and each hazard of this code
at its line, with the properties that guard it.

## Modules

| Module | Models | Composes / implements |
|---|---|---|
| `EnclaveVersions` | binaries in a running enclave: uploads, proofs, restarts | – |
| `ProxyProve` | `POST /prove` through host and enclave | extends `EnclaveVersions` |
| `BbDownload` | `downloadBb` with its file system, failures and crashes | – |
| `SlidingWindow` | abstract: what a rate limiter promises, over the whole history | – |
| `RateLimiter` | `RateLimiter` and its use in `/prove` | implements `SlidingWindow` |
| `EnclaveKeys` | `lazyValue`, the key pair, `getNsmLib` | – |
| `VersionCache` | the download script and a standard-mode host over one cache | – |
| `NitroAttestation` | which attestation documents the SDK accepts | – |
| `TeeRexProver` | the SDK prover's settings and proofs | extends `NitroAttestation` |
| `PhaseDisplay` | abstract: what the animation promises of the phases | – |
| `PhaseAnimation` | the animation's queue, timers and drawing | implements `PhaseDisplay` |
| `TransactionFlow` | the transactions of an operation | – |
| `PlaygroundSession` | a page of the playground: wallets, modes, connections, operations | an operation's inside is `TransactionFlow`, its phases `PhaseAnimation` |
| `FpcFunding` | the two funding scripts | – |
| `MC*` | constants of TLC instances | extend the module they instantiate |
| `*Proofs` | theorems about the module they are named after | `ProxyProveProofs` also has those about `EnclaveVersions`, `ServerProofs` those about `RateLimiter` with `SlidingWindow` and about `EnclaveKeys`, `OperationProofs` those about `TransactionFlow` and `PhaseAnimation` |

An action runs from one `await` to the next: JavaScript runs one handler at a
time in between, so nothing finer can be observed. Definitions ending in
`_Something` and marked `mutant` are not used by any specification: each is the
form a plausible bug would give to the definition after it, and is used to show
that a property notices.

### EnclaveVersions

`conn[c]` is the handler of connection `c`; `tmp[v]` and `dir[v]` are the two
places of a version's binary, `hashes` is `bbHashCache`. A file is a content
(a released binary, `Torn`, or `None` for no file) with its open writers, since a
rename moves a file together with the descriptors open on it. `OpenTmp` …
`Report` are the steps of `handleUploadBb`; `Install` is one step because chmod,
rename and the `rmSync` of the failed rename are synchronous. `Decrypt` … `Exit`
are those of `handleProve` and `createChonkProof`. `Restart` stops the enclave
at any point and starts an empty one.

What two writers leave in one file is any of their contents or `Torn`
(`Outcomes`): the build promises no order. `Bun.write` opens with truncation and
creates a missing parent directory; executing a file open for writing fails
(`ETXTBSY`); a torn binary exits with an error.

`met` is a history variable: the versions of which two uploads were in flight at
once. The code does nothing against that, so `InstalledIsWhole`,
`HashIsInstalled` and `RunsAttestedBinary` are stated for the other versions, and
the unconditional forms do not hold (see "Known divergences").

### ProxyProve

The enclave of `EnclaveVersions`, its handler `c` serving the calls of the
host's handler `c`; `host[c]` is the position in `handleProxyProve`. A client's
request carries a version and the epoch (start of the enclave) whose key its
payload is encrypted to. `Health` reads the enclave's state and decides; the
calls that rely on it come in later steps. `GiveUp` and `HostFail` are the
timeouts and broken connections of `enclave-client.ts`, after which the enclave
goes on alone; `EnclaveRestart` and `HostRestart` may come anywhere. A download
here gives the released binary: what happens inside it is `BbDownload`.

### BbDownload

One version (paths of different versions are disjoint): `tmp` is `.{v}.tmp`, `dir`
is `{v}`, each with its tarball, its bb and who has them open; `call[c]` is the
position in `downloadBb`. A rename takes along what is being written below it.
`Crash` stops the host process and its children anywhere and leaves the disk as
it is. `ExitTar` lets tar succeed only if it read a whole tarball. `met` again
records that two downloads were under way at once.

### RateLimiter and SlidingWindow

`hits` is `#hits` (sets of requests for arrays of times), `nextPrune` the timer,
`log` a history of the decisions. `SlidingWindow` decides from `log` alone; the
property `Implements` is `SlidingWindow`'s specification under the identity
mapping of `now` and `log`. The clock does not pass a due timer and does not run
backwards.

### EnclaveKeys

`keys` is the closure state of `lazyValue` with its promise, `lib` is `nsmLib`.
`Ask` is the synchronous part of a request up to the await of the shared promise;
`GetNsmLib` is the test before `await import("bun:ffi")`, `Dlopen` what comes
after it.

### VersionCache

`file[v]` is `{v}/bb`: absent, whole, broken, or the script whose tar is writing it;
a version is its place in the string order that both sorts use. `script[s]` is a run
of `download-bb.ts`: `Look` … `Exited` for each version, then `List` and `Evict`. Only
`list` is one step: the evictions come one at a time, since the server and other runs
are other processes. Making the directory and starting tar is one step with tar's
opening of `bb`, before which nothing can be observed. `Interrupt` ends a script
anywhere. `job[c]` is a prove request of a standard-mode host; `Decrypt` ends in
`findBb`, which sees whatever `existsSync` sees, `Spawn` comes awaits later.
`torn` and `unswept` are history: the first two properties are about scripts that run
alone and to their end, `TiersAreBounded` about any overlap.

### NitroAttestation and TeeRexProver

A document is reduced to what the checks tell apart: whether it decodes, the keys that
sign and are signed along its chain, validity of its certificates, PCRs, whether it
has a key, and the server that can decrypt with that key (`of`). `Authentic` are the keys
AWS's root has certified. The assumption says what is outside the code: AWS certifies
no other keys, and code that measures as `Expected` asks AWS to put its own key in
(`Released` are the servers that run such code; other code may have anyone's put in).

In `TeeRexProver` `settings` are the three private fields the setters change, with
`"tee"` already translated to `"uee"` that requires attestation, as the code does, and
whether the platform has crypto to check a document with; in browsers the code takes an
enclave's word. `call[c]` is a proof. The attestation is asked for at the URL of the
start. Its answer has a document, with a key in it (`carried`), and a key beside it
(`body`), which need not be the same nor the answering server's. `Check` judges under
the settings of that moment and chooses between the two keys as the code does; the inputs
are posted to the URL of the moment they are encrypted. A server offers a set of documents
(`Offer`), `None` standing for a server that is no enclave. `require` and `listed` are
history: were attestation and PCRs asked for all through the call?

### PhaseAnimation and PhaseDisplay

`queue`, `current`, `timer` are `PhaseQueue`'s fields; `due[t]` what is left of an armed
timeout, in steps of `MIN_DISPLAY_MS`/`MinDisplay`; a timeout may fire late, never early.
`frame`, `interval`, `hidden`, `text` are `AsciiController`'s. `PhaseDisplay` knows what is
shown, for how long, and what waits; the mapping is `shown <- current`,
`waiting <- queue`, with the history `age`. A phase without frames (`"proved"`) leaves the
last picture.

### TransactionFlow

`op` is the operation under way with its plan of steps, `tx[s]` what became of a step's
transaction. `Simulate`, `SendWithRetry`, `WaitForTx` are the stages of `executeStep`;
an address is reduced to the wallet it belongs to. `Mine` mines, reverts or drops a
pending transaction, or never comes. A send may be refused, and is then retried by
`sendWithRetry` under the code's conditions.

### PlaygroundSession

`app`, `prover`, `addresses` are the fields of `state`; `visible` and `button` what the page
lets the user do; `deploying` the two flags; `running[s]` counts the operations
started from screen `s`. `start[i]` is a run of `initEmbeddedWallet`, `connection[c]` a
connection from the click on a wallet, `link` the disconnect handler with the
disconnections under way. Each action is what runs between two awaits, so clicks,
disconnections and initialisations come in between. `SetUiMode` shows a mode even
where there is no prover to set it on.

There may be several provers. `prover` is `state.prover`, which every `initializeNode`
replaces; `pxe[i]` is the one `CreatePxe` has put in the PXE of initialisation `i`, and
`own` the one in the embedded wallet. Both are `Current` while they are `state.prover` itself;
when that is replaced they become what it was then, mode and callback, as nothing reaches it any
more. `overtaken` is history: a retry has followed the wallet there is, or initialisations
have met. Up to then the wallet has the page's prover, as connections make one only
when there is no node yet; after it the two may part (see "Observed").

### FpcFunding

`run` is the script under way with the steps ahead of it and what it remembers; `Stop`
ends it anywhere and forgets that. `balance`, `pending`, `fpc`, `secret` outlive it.
`Plan` computes the mints from a balance that pending mints have not reached yet.
`MineMint` credits a mint or reverts it, and `WaitForReceipt` goes on either way; `seen`,
`late` and `lost` are history, `lost` counting the mints reverted while a run mints.

## Runs

| Run | Instance | Shows |
|---|---|---|
| `Enclave` | 2 connections, 1 version, 2 binaries, with a default bb | all safety properties, the action property and the liveness of `EnclaveVersions`, with overlapping uploads and restarts |
| `Download` | 2 calls | all properties of `BbDownload`, with overlap and crashes |
| `Versions` | 2 scripts of up to 2 versions, 3 versions in 2 tiers of limit 1, 1 request | the properties of `VersionCache`, with interruptions and overlap |
| `RateLimiter` | 4 requests, 3 addresses (one exempt, one "unknown"), window 3, limit 2, prune every 2, 6 instants | the limiter implements the sliding window; its bounds |
| `Proxy` | 2 requests, 1 version beside the default binary, 2 starts of the enclave | `ProofIsByRelease`, `ForwardedIsInstalled`, `EveryPostAnswered` |
| `Keys` | 3 connections | one key pair, bounded handles, an answer for everyone |
| `Prover` | 1 call, a proper enclave and a server that passes its document on, offers flawed ones or none, 2 key pairs each | whose key inputs are encrypted to, and that proofs settle |
| `Phases` | 3 phases, one without frames, 2 timeouts, display of 2, 3 waiting | the animation implements `PhaseDisplay`, liveness included |
| `Flow` | 3 attempts, 2 polls, 3 addresses | what is reported is on chain, nothing is sent twice, operations end |
| `Funding` | 2 FPCs, mints of 2, target 5, batches of 2, 3 scripts one after the other | mints to the target, deployment and funding reported |
| `Session` | 1 initialisation and 1 connection at a time, 2 attempts, 2 disconnections at once, TEE mode | the properties of `PlaygroundSession` |
| `SessionOneOperation` | the same, 1 disconnection | the finding |

Why these bounds are enough to be interesting: every race in the enclave and the
download is between two handlers on one version, whose files are shared with no
other version; a third handler adds no new pair, and the theorems cover any
number. In `Proxy` two starts of the enclave let a payload be encrypted to a lost
key and a health answer be outdated. In `Versions` two nightlies under a limit of one
evict at every second download, and the third version shows that a tier leaves the
other alone. The limiter's window is longer than the pruning period, so that a
prune falls inside and outside of windows, and four requests exceed the limit
twice. Two calls of the SDK prover share nothing but settings and servers, which
neither changes, so one call sees every behaviour another could. In `Phases` a second
timeout is there for a queue that would arm two. In `Funding` the target is no multiple
of a mint and balances may start odd, so that rounding shows; three scripts are an
interrupted one, its repetition and another. A page has one initialisation under way
unless the user leaves and comes back during one, which the theorems cover; two attempts of
it are enough for a wallet that a retry overtakes. A second click on a wallet's
confirmation is the case that one connection at a time leaves out.

`MaxEpoch`, `MaxNow`, `MaxKey`, `MaxDelay`, `MaxKeys`, `MaxOpens`, `MaxArgs`, `MaxWaiting`,
`MaxAddresses`, `MaxBalance`, `MaxRuns` and `MaxClosing` are bounds of the models, not of
the code; `MaxKeys` and `MaxOpens` are above what the code reaches. `Attempts`, `Timeout`,
`Limit`, `Window` and `MinDisplay` are the code's constants, scaled down.

Deadlock checking is off where the system stops: in `RateLimiter` the model's time
ends, in `Funding` the scripts do, and in `Session` a page can be left with nothing on it
(see "Observed").

### Fairness

Weak fairness of what a process does of its own accord: a handler's step once its
promise has settled (the event loop and the file-system threads run what is
ready), a child process's exit, the settling of `generateKeys`, the host's next
step. Bun's `fetch` gives up by itself after five minutes, ky earlier, so requests
end; in `Proxy` liveness does not even use that, because the enclave answers or its
connections break. In `Versions` it is the server's steps and bb's end, in `Phases` the
clock and a due timeout's callback, in `Flow` the operation's own steps (a wallet or node
answers or throws, and a poll's timer runs): nothing makes the chain mine. `Session` and
`Funding` assume no fairness. Nothing makes a request, a change of settings, a failure, a
crash, a restart or a timeout happen.

## Findings

`SessionOneOperation`: the comment at `packages/playground/src/aztec.ts:90` says that
concurrent mutations of the global state are prevented by "the `deploying` flag in
main.ts". There are two flags, `external-wallet-ui.ts:6` being the other, and each locks
its own screen. While a connection to an external wallet is confirmed the user may
choose the embedded wallet; when the confirmation comes both screens are shown, and an
operation of each can run at once. `OneOperationPerScreen` is what holds.

### Known divergences

Met while modelling and without a run of their own; in each the properties say under
which condition the code does what is claimed.

- `enclave.ts:96` calls the write of an upload atomic, and
  `lessons/thin-enclave-architecture.md:32` has the hash computed before the rename. Two
  uploads of one version write the same `{version}.tmp/bb`, and the hash is computed
  after installation and recorded awaits later. `InstalledIsWhole`, `HashIsInstalled` and
  `RunsAttestedBinary` hold for versions without overlapping uploads (`met`).
- `bb-download.ts:18`: the rename prevents partial downloads from being used. Two downloads
  of a version share `.{v}.tmp`, and the rename of one publishes what the other extracts.
  `CachedIsWhole` and its like hold until two overlap.
- `attestation-service.ts:63`: libnsm.so is opened once. The test precedes an await, so
  concurrent first attestations each open it; `OpensBounded` is the bound there is.
- `packages/sdk/README.md:240` promises retries of `/prove`. ky's numeric `retry` leaves its
  methods at the default, without POST.
- `scripts/download-bb.ts:122` calls its retention the "same logic as bb-versions.ts", whose
  version also spares the bundled version and survives a failed removal.

### Observed

Behaviours the models have that no text of the repository speaks against:

- A connection rejected while its confirmation is under way leaves `selectedProvider`
  null; `onDisconnect` then throws after the selection has been hidden, and the page
  shows no section (`OnChooseExternal`).
- A mode clicked before there is a prover is shown but not set on the one made later. With
  "tee" chosen, every initialisation, a retry included, makes a prover of mode "uee"
  that requires no attestation (`InitializeNode`). The other direction holds:
  `LocalStaysLocal`.
- Reverting to the embedded wallet keeps the external wallet's addresses
  (`RevertToEmbedded`), so an operation may start for accounts the wallet does not own;
  it fails.
- A wallet made by an attempt that fails afterwards (in `initializeFPC`, say) stays in use
  until the retry has made another, and stays for good if that fails earlier: its PXE keeps
  the prover of its own attempt, while modes and callbacks are set on the retry's.
  Operations then prove remotely under "local" if the prover was left so, and if an operation
  ran meanwhile its callback is never cleared. `LocalStaysLocal` and
  `PhaseCallbackIsLive` are about the wallet's prover until then.
- A URL changed during a proof sends inputs encrypted for one server to another. That one
  cannot read them, and the proof fails.
- `waitForReceipt` of `batch-fund-fpc.ts` does not look at the receipt's status: with mints
  reverted the script bridges what there is and prints DONE, below its target by these mints.
  `ReportedIsFunded` says that it is by no more.
- `waitForTx` does not look whether a transaction was reverted; `ReportedIsMined` says which
  operations notice all the same.
- A deadline of `waitForTx` fails the operation though the transaction may be mined later.
- `deploy-sponsored-fpc.ts --fund-only` without `--salt` sets the repository's secret to an
  FPC that may not be deployed.
- A claim's secret is in the script's memory: stopped between bridge and claim, the
  tokens stay bridged and unclaimed.
- A version just downloaded may be the one evicted, when the string order has it first
  (rc.10 before rc.9), and the script still exits with 0. An interrupted extraction
  leaves a partial bb that the next run reports as cached.
- A standard-mode host proves with its default bb for a version that is not cached.

- `docs/how-it-works.md` says no bb is baked into the images, while `Dockerfile.nitro`
  copies `node_modules` with `@aztec/bb-prover`, so `findBb`'s default exists (`Default`).
  `ProofIsByRelease` shows that a request with a version is nevertheless never answered
  with that default's proof in proxy mode.

## Proofs

All theorems hold for any finite or infinite sets of connections, versions,
requests and servers the assumptions of the modules allow (`EnclaveKeys` assumes a
finite set of connections, as its bound counts them).

- `ProxyProveProofs`, the enclave. `TypeCorrect` is inductive. `ReportedStaysInstalled` and
  `ChosenStaysInstalled` follow from `KeptInv`: no step but a restart takes an
  installed file away, because `Install` replaces it in one step, and an upload that
  hashes or reports has a file. The three theorems about versions without
  overlapping uploads follow from `SerialInv`: outside of `met` one handler uploads
  a version, the temporary file has that writer and its content, and the hash
  differs from the installed file's only while that handler is between its rename
  and its report. The invariant is local to a handler and a version, which
  `SerialLocal` and `SerialOutside` use to leave all others alone.
- `ProxyProveProofs`, the host. `ProxyInv` joins `KeptInv` of the enclave, `ReleasedInv` and,
  for each request, `HostOK`. `ReleasedInv`: since the host uploads released binaries only, a
  file of a version holds its release, nothing, or is torn, however uploads overlap; a
  torn binary gives no proof. `HostOK`: past its decryption a payload is encrypted to
  the enclave's present key, so the enclave has not restarted since it was asked for the
  version and, by `KeptInv`, still has it; that is why `findBb` does not fall back to the
  default bb. Each step disturbs one request (`OthersAlone`), and what the others rely on
  is kept (`HostStays`). `ProxyUsesEnclave`: every step is a step of `EnclaveVersions` or
  leaves the enclave alone, so the theorems about the enclave hold of the one behind the host.
- `BbDownloadProofs`. `DownloadType` needs `OpenInv` only. The others follow from
  `Serial`, which holds until `met`: the one download under way owns `.{v}.tmp`, the
  cache is absent until it is renamed into place, and a whole binary is all that is
  ever renamed. Crashes keep it since a stopped call owns nothing.
- `VersionCacheProofs`. `TiersStayBounded` follows from `SweepInv`: a script that may still
  add a version has a listing ahead of it, so when none may, what is in a tier and not
  about to be evicted is within the limit; what a listing leaves is within it because
  what is not surplus is the oldest kept and its newer ones (`RestIsBounded`). This holds
  however scripts overlap and fail, until one is interrupted after the last listing
  (`unswept`), because a removal only ever shrinks a tier. `AvailableStaysWhole` and `WholeStaysKept` need
  `AloneInv`, which holds until `torn`: one script runs, the version it writes is its own,
  any other is whole or absent but for one it failed to fetch, and what it evicts from a tier has the limit of newer
  whole versions, none of which it evicts (`EvictsOld`). Versions are natural numbers in
  the order the script sorts them in, as many as one likes; those in the cache stay finitely many.
- `ServerProofs`, the limiter. The abstract window never exceeds the
  limit: a newly admitted request extends only windows that are contained in
  `Recent`. The limiter implements it because within the window it remembers exactly
  what it admitted (`Remembers`), so the counts are equal by a bijection; it inherits
  `WithinLimit`. `LimiterForgets` bounds the age of what is kept by the last prune.
- `ServerProofs`, the keys. `HandedKeysDecrypt`: whoever is past the start of a request holds
  the promise of the one call of `generateKeys` (`OneKeyPair`). `HandlesBounded`: handles opened
  and handlers about to open one never exceed the connections, since none starts to once
  a handle is kept.
- `TeeRexProverProofs`. `CallOK` says what a call knows at each point: what was required
  all through it is required now, the key a document carries is of the server it names,
  and past the check, if attestation was required, the key is an attested one, wherever the
  inputs go then.
  `ChainIsAuthentic`: along a chain that passes the checks the first key AWS did not certify
  would have been signed by one it did, so there is none, and the document's signer is
  AWS's. `ProverAttests` uses it, so "attested" means that AWS's key signed a document with this
  very key in it, not a verdict.
  `CallsAreFinite` has the argument behind `EveryCallSettles`: `Left`, the steps a call still
  has, goes down with each of them, retries included, and is never raised by the
  application, a server or another call.
- `OperationProofs`, the transactions. `FlowInv` is `FlowType`, `Chained` and `Ordered`. `Ordered`
  says what the steps ahead and behind have sent: before a send nothing ahead was accepted,
  while one is confirmed it alone was, and what is behind was never sent or is settled. A
  send is repeated only if the node refused it, and `Confirmed` drops the step only when it is
  mined or reverted, which keeps it. `DoneIsMined` also needs `Chained`, since a token flow's mint and
  transfer may only be sent once what they rely on has taken effect; no reverted mint is
  followed by a transfer. `OperationsAreFinite` has the argument behind `EveryOperationEnds`:
  `Patience`, the number of steps an operation can still take, is a natural number that
  each of its steps lowers and nothing else raises. It relies on the bounds of `attempt` and
  `left` in `FlowInv`. That the operation does take steps is fairness, and TLC's.
- `OperationProofs`, the animation. `Inv` bounds what is left of an armed timeout from below by
  the time the phase on display still has, and makes the armed timeout the one in `#timer`; so a
  `Fire` that displays the next phase maps to `Advance`, and one that finds the queue empty
  to a stutter. `AnimationImplements` is the safety part of `Implements`; its fairness is
  TLC's. `StaysBlank` needs only that interval and text go with the element.
- `PlaygroundSessionProofs`. `SessionInv`: a screen's flag is set exactly while one operation
  of it runs, so the button that checks the flag starts no second one; the page's prover's
  phase callback is that of a running operation, or none; and while the page says local neither
  the page's prover nor the setting the next one is made with is remote. A prover is
  replaced by one without a callback, so the three hold through every initialisation
  (`PageInv`). Over both screens together the first does not hold (see "Findings").
  `HeldInv` carries the last two over to the wallet's prover: until it is overtaken that is
  the page's, because one initialisation runs, which holds what it has put in its PXE, and
  a node that is there keeps connections from making another.
- `FpcFundingProofs`. A script's place is a suffix of its steps (`RestFacts`). `Minting` counts
  what is coming: the balance with the mints pending and still to submit is at most the larger of
  target and balance seen, plus the mints that were pending at the plan (`late`), which are not
  counted in `seen`; with the mints that were reverted (`lost`) it is more than the target less one
  mint. Submitting and mining move a mint from one term to the other. `Bridged` and `Credited` carry the
  amount to the claim and the credit to the secret, and `Deployed` that an FPC found deployed,
  or deployed by the script, is there when it is funded. `NeverOverdrawn` justifies that `Bridge` has
  no case for a balance that is too low. `MintAmount`, `Target` and `BatchSize` are any
  positive numbers; products of two of them stay opaque to the provers, so each leaf
  distributes one.

The assumptions on constants say what TypeScript types and literals say: positive sizes, and
marks such as `None` that are not members of the sets they mark.

Only model-checked:

- Liveness, as TLAPS does neither fairness nor `ENABLED`: `EveryRequestAnswered`,
  `EveryCallAnswered`, `EveryProveAnswered`, `EveryPostAnswered`, `EveryCallSettles`,
  `EveryOperationEnds`, and the fairness of `PhaseDisplay` in `Implements`.
- The finding, a counterexample of TLC.

Every other property of a passing run is stated by a theorem. No module declares a recursive
operator.

## Not modelled

- The contents of messages, proofs and attestation documents, OpenPGP, COSE, X.509;
  logging, formatting, layout, timings.
- `versionsToEvict` and `cleanupOldVersions` of `lib/bb-versions.ts`: nothing but tests
  calls them. The copy that runs is in `VersionCache`.
- The SDK's lazy simulator (`tee-rex-prover.ts:88-121`): a memoised import that is tried again
  after a failure, the shape `EnclaveKeys` has for libnsm.so.
- The nonce and user data of an attestation: no caller passes any.
- A failed read of a binary that has just been installed (`bb-hash.ts:5`): the upload answers 500
  and the version keeps the hash it had, of the binary before or none. `HashIsInstalled` and
  `RunsAttestedBinary` are about reads that succeed.
- A failed rename or a wrong file on the host between download and upload: in `ProxyProve` what is
  uploaded for a version is its release, and `BbDownload` says when that is so.
- A node that is away when the page loads; result and log panes of the playground.
- The deployment scripts: shell around docker, systemd and nitro-cli on one host at a time.
  What a redeployment does to the system, restarts of host and enclave at any moment, is in
  `ProxyProve`. Also the cloud resources, the release scripts and the landing page, which
  share no state with the running system.

## Plan

1. `EnclaveVersions`, `BbDownload`, `RateLimiter` with `SlidingWindow`, `ProxyProve`,
   `EnclaveKeys`, `TeeRexProver`, and their theorems. Done.
2. `NitroAttestation`, `PhaseAnimation` with `PhaseDisplay`, `TransactionFlow`,
   `PlaygroundSession`, `FpcFunding`, `VersionCache`, and the theorems on the first two. Done.
3. Theorems on the transactions, the session, the funding scripts and the version cache:
   every safety property of a run. Done.
4. Next to be proved: measures like `Patience` and `Left` for the requests of `ProxyProve`,
   the calls of `BbDownload` and the proofs of `VersionCache`, so that only fairness is left
   to TLC there too; the types of `VersionCache` and `PlaygroundSession` as theorems.
