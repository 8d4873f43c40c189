# Palladin agent: a TLA+ verification of the native runtime

This directory models the Rust runtime under `src/runtime/crates` and the npm
launcher under `src/src/runtime`: how local Agent identities and their secrets
are created, changed and removed without being left half done; how one approval
authorises one durable operation; how credentials are asked for, waited for,
opened, handed to programs and typed into pages; and how the two credential
brokers, the browser host and the MCP server keep several parties apart that
share a channel.

TLC checks the modules on small instances. TLAPS proves the central invariants
of five of them for every value of their constants.

## The system and its parts

| part | source (under `src/runtime/crates` unless said otherwise) | module |
|---|---|---|
| operation lease | `palladin-platform/src/secure_store.rs` | `OperationLease` |
| integrity root: trust state, journal, registry, directories, slots | `palladin-runtime/src/integrity.rs`, `lib.rs` | `IntegrityRoot` |
| profile commands | `palladin-runtime/src/lib.rs`, `palladin-core/src/profiles.rs` | `ProfileOperations`, abstractly `ProfileStore` |
| platform secret stores | the stores of `palladin-platform` and of both brokers | `SecretSlots` |
| browser host authorization | `palladin-runtime/src/lib.rs` | `BrowserHost` |
| operation multiplexer | `palladin-cli/src/native_browser/multiplex.rs` | `Multiplex` |
| encrypted channels of the browser bridge | `palladin-browser-bridge` | `SecureTransport` |
| routing to a browser, discovery of sessions | `palladin-inject/src/transport.rs` | `BrowserRoute` |
| form-map cache | `palladin-runtime/src/form_map_cache.rs` | `FormMaps` |
| credential injection and live login | `palladin-inject`, `palladin-cli/src/native_browser` | `InjectFlow` |
| browser pairing | `palladin-runtime/src/browser_pairing.rs`, `lib.rs` | `BrowserPairing` |
| vault pairing | `palladin-runtime/src/lib.rs`, `palladin-crypto/src/manifest.rs` | `VaultPairing` |
| move from the TypeScript runtime | `palladin-runtime/src/legacy_typescript*.rs`, `lib.rs` | `LegacyCutover` |
| discovery index and manifest anchors | `palladin-runtime/src/discovery.rs`, `lib.rs` | `DiscoverySync` |
| envelopes, script packages, visibility of fields | `palladin-crypto`, `palladin-credential/src/secret.rs` | `Envelopes`, `FieldPolicy` |
| approver manifests, Entry submissions | `palladin-crypto/src/submission.rs`, `palladin-runtime/src/submission.rs` | `ApproverChain`, `Submissions` |
| API client | `palladin-api` | `ApiCalls`, `ApiTypes` |
| grant wait | `palladin-credential/src/wait.rs`, `palladin-runtime/src/lib.rs` | `GrantWait` |
| MCP server | `palladin-mcp` | `McpServer` |
| commands, tools, version policy | `palladin-cli/src/main.rs`, `palladin-mcp`, `palladin-runtime/src/version_policy.rs` | `Commands` |
| programs on Linux and macOS | `palladin-exec`, `palladin-linux-executor` | `ScriptExec` |
| programs on Windows | `palladin-windows-executor` | `WindowsExecutor`, `WindowsArguments` |
| Linux credential broker | `palladin-linux-broker`, `src/packaging/linux/scripts` | `LinuxSession`, `LinuxAdmission` |
| Windows credential broker | `palladin-windows-broker` | `WindowsSession`, `WindowsAdmission` |
| npm launcher on Windows | `src/src/runtime` | `RuntimeCache` |

The parts meet at a few places. Every durable change of a profile (a command, a
pairing, anchors, an approver pin) is a commit of the integrity root, made under
the cross-process lock and, where an approval is needed, under a lease.
`ProfileOperations` composes the root with its commands and shows that a commit
is atomic across crashes; `BrowserPairing`, `VaultPairing`, `LegacyCutover`,
`DiscoverySync` and `Submissions` use that result and take a commit as one step.
`Submissions` extends `ApproverChain`, `Envelopes` extends `FieldPolicy`.
`BrowserHost` is what a native host checks before each forward of `Multiplex`
and `InjectFlow`. `Commands` is the order in which the other parts are called.

Parts that are left out are listed at the end and, with their reasons, in
`PROJECT.json` under `components`.

## Modules

**OperationLease.** `commitState` is the atomic word, with the cancellation
token and the deadline beside it. Each load and compare-exchange of
`begin_commit`, `seal`, `drop` and `revoke` is a step, because the protocol is
about what happens between them.

**IntegrityRoot, ProfileOperations, ProfileStore.** State: the trust state
(`Committed`, `Allocating`, `Transition`, `PurgeCommitted`), the journal file,
the registry, the identity directories, the slots, the lock. Each durable write
is a step and the process may die between any two. A command takes the lock,
recovers, and runs its body. `ProfileStore` is what the commands promise: a map
from names to identities changed atomically. `MCProfileOperations` gives the
refinement mapping and symmetry.

**SecretSlots.** `set`, `delete`, `get` and `get_authorized` of the five stores,
each a sequence of steps that may fail; power loss undoes what was not flushed.

**BrowserHost.** The identity and token slots, the two sides of the file lock,
and sessions holding a snapshot they revalidate before each forward.

**Multiplex.** Clients and the pump are futures of one task, so a step is what
one does between two awaits. The extension is external, conforming or not.

**SecureTransport.** Both handshakes and the frames after them with symbolic
cryptography, over a carrier that keeps every message and gives any of them to
any end, as often as it likes.

**BrowserRoute.** `connect_prepared` and the discovery report while browsers
start, stop, crash and move their tabs.

**FormMaps.** Every transaction on the shared file is a step; a resolution is
several of them around a request whose answer may come late.

**InjectFlow.** The command, the relaying host and the extension, each with its
copy of the live flow; deadlines, deferred commits and lost replies.

**BrowserPairing, VaultPairing.** `browser_pair` and `pair` from preparation to
commit, with the lock released while a person decides, against other processes
that sync, connect, rename and delete, and against kills.

**LegacyCutover.** Cutover, cleanup and upgrade as steps with kills between
them, and what the user does to the profiles in between.

**DiscoverySync.** In-memory index, committed cache and signed anchors, with
the session's configuration snapshot taken before and used after each await.

**Envelopes, FieldPolicy.** What each path compares before it opens something,
when the service may answer with anything the members ever sealed; and, as pure
operators, what the owner's policy lets out of an opened secret.

**ApproverChain, Submissions.** The verifier as pure operators, and the
sessions that use it, each API call a step and each POST or PUT a message that
may be served after its sender gave up.

**ApiCalls, ApiTypes.** One call of any endpoint: the attempts, the bounded
reading of the body, and how each decoder reads status, headers and body.

**GrantWait.** The nominal clock of the loop beside the wall clock that bounds
it; polls that hang, decisions at any time, a grant that can be used once.

**McpServer.** The bridge in front of the protocol library: one step is what it
does under the lock of its state.

**Commands.** A command is the sequence of its steps: gates, identity,
authorization, calls, message. The lease may end between any two of them.

**ScriptExec.** `mode` selects `run_command`, `run_script_captured` or the
executor process. Pipes have a capacity; the program is the environment.

**WindowsExecutor, WindowsArguments.** The runtime, the executor, the program in
its job and what it starts; quoting and the environment block as operators.

**LinuxSession, WindowsSession.** One session between client, broker tasks and
worker, with bounded queues and one shared output budget.

**LinuxAdmission, WindowsAdmission.** Whom the brokers serve: the records and
namespaces of the Linux helper, which may die at any step, and the limits and
the pinned key of the Windows service.

**RuntimeCache.** Launches of the npm package that fill and collect a cache of
executables while npm replaces the package and launchers are killed.

## Runs

A run checks only what is listed for it. Several machines that do not share
state share a run: a module such as `MCCalls` extends one machine, instantiates
the others, and its variable `scenario`, chosen in `InitOne` and never changed,
says which of them moves; the others rest. Each property is about one scenario
and is the component's own definition, so the run checks each machine as a run
of its own would; a liveness property is one formula over the scenarios. Where a
code path has variants, `Init` chooses one in the same way (`mode`, `flow`,
`conforming`). Pure operators are checked against their reference definitions in
`ASSUME`s of the same modules, which TLC evaluates first.

| run | machines | shows |
|---|---|---|
| `profile_commands` | `ProfileOperations` | across crashes: recovered state verifies, no key is lost or orphaned, `ProfileStore` is implemented, a purge that reports success left nothing |
| `calls` | `OperationLease`, `McpServer`, `GrantWait`, `ApiCalls` | a commit begun after a `revoke()` returned writes no marker; each response goes to its request or batch and once; the wait keeps its deadline; no request is applied twice; every one of them returns |
| `browser` | `BrowserHost`, `Multiplex`, `SecureTransport`, `BrowserRoute`, `FormMaps` | no interruption leaves a token without its key; a conforming extension is never dropped and sequence numbers have no gap; an end reads what its peer sent, in order; a client without a named session reaches the one browser that has its tab or none; a rejected map is not used again |
| `inject_flow` | `InjectFlow` | no field is given twice, nothing is relayed once its authority ended, the report is true |
| `enrolment` | `BrowserPairing`, `VaultPairing`, `LegacyCutover` | a started pairing stays resumable; a pinned vault key changes only by a Member's confirmation; a killed cleanup keeps its plan, and old credentials go only after their replacement is connected |
| `execution` | `Commands`, `ScriptExec`, `WindowsExecutor`, `LinuxSession`, `WindowsSession`, `RuntimeCache` | what an error message denies did not happen; the capture is exact; nothing of a request outlives its answer; an exit is reported after all output; the launcher runs its own release; every run ends |
| `discovery` | `DiscoverySync`, `Envelopes`, `FieldPolicy` | an index is the vault at its cursor, a search answers from its profile and not from before it began, an opened credential is what was sealed under the revision it reports |
| `submissions` | `Submissions`, `ApproverChain` | only trusted keys receive a secret, callers are told the truth, injection is under a current epoch |
| `brokers` | `WindowsSession`, `WindowsAdmission`, `LinuxAdmission`, `SecretSlots` | a secret operation reaches the worker only with the consent signed for it; accepted connections hold the pinned key; what was revoked is over and what was purged is gone; a stored secret survives |

Three runs expect a violation. Each states a sentence of the repository that the
code does not keep; `findings` in `PROJECT.json` quotes it.

| run | what the code does |
|---|---|
| `lease_abort` | a revocation that saw a sealed commit cancels the token late: the next commit under the lease can pass its check first and seal after `revoke()` has returned |
| `recovery_residue` | a temporary file left by a crash inside `save_registry` while a purge is applied makes every later recovery refuse the root |
| `admission_ends` | a worker that exits while the event of an admitted pairing waits in the control channel makes the admission the end of the session, the case marked `unreachable!` |

### Further properties

The modules state more than the runs list. To check one of a run's base machine
(the module its MC module extends), name it in the cfg; for an instantiated
machine add `P == scenario = "..." => A!P` beside the others. An action property
or a liveness property of an instantiated machine needs `InitOne` restricted to
its scenario, and liveness the machine's own fairness. These hold on the bounds
of the runs, with three exceptions: `RecoveryNeverRefuses` needs a root without
temporary files and sockets (`recovery_residue` is why); `Completes` holds for
one identity with one pairing, for with two the processes may all wait for an
answer that never comes; `CallsEnd` was checked for one process and one profile.

- `OperationLease`: `GuardExclusive`, `SealedIsHeld`, `RevocationSticks`, `PendingCompletes`, `RevokeReturns`
- `ProfileOperations`: `MarkerHasJournal`, `NoOrphanDirectories`, `OneCredentialPerKey`, `StaysRemovable`, `RecoveryNeverRefuses`, `GenerationsAdvance`
- `BrowserHost`: `ForwardsAuthorized`, `UninstallIsComplete`, `IdentityKept`
- `Multiplex`: `NeverFull`, `Admitted`, `AnswersMatch`, `CloseIsLast`, `LeaversAreClosed`
- `SecureTransport`: `SessionIsShared`, `NonceOnce`; `BrowserRoute`: `ReportIsComplete`, `CallReturns`; `FormMaps`: `NeverOlder`, `MapIsForKey`
- `InjectFlow`: `ThreeForms`, `CommittedOnce`, `CommitNotBypassed`, `FlowsAgree`, `Terminates`
- `BrowserPairing`: `PairedWithOwn`, `ConfiguredIsKept`, `NothingLeft`, `NoFalseAlarm`, `Completes`; `VaultPairing`: `TrustFollowsAgent`, `PairReturns`
- `DiscoverySync`: `Decodable`, `PublishedIsCommitted`, `NoReplay`, `AnchorsAdvance`, `CallsEnd`; `Envelopes`: `EpochIsTrusted`, `PolicyHonoured`
- `Submissions`: `PinAdvances`, `SentOnce`, `RewrapExact`; `GrantWait`: `HeartbeatHeard`, `PollPaced`, `ApprovalNoticed`, `ConsumedExplained`
- `ApiCalls`: `ValueIsWhole`; `McpServer`: `NothingKept`; `Commands`: `GatesComeFirst`, `BoundToWhatIsDone`
- `ScriptExec`: `ScriptRemoved`, `LeaderReaped`, `CancelEndsLeader`; `WindowsExecutor`: `CodeComesWithOutput`
- `LinuxSession`: `SecretAfterAccepted`, `BudgetIsShared`; `WindowsSession`: `RevokedIsShown`, `ExitIsWhole`, `ConformingIsServed`
- `LinuxAdmission`: `PurgeIsNeverStuck`; `WindowsAdmission`: `PermitsCounted`, `EmptyPinExplained`; `SecretSlots`: `ReadIsCovered`

These state a sentence of the repository and TLC refutes them:

| property | sentence | what the code does |
|---|---|---|
| `Multiplex!ForwardsUnderGuard` | `palladin-cli/src/native_browser.rs:845` "The caller holds the shared lifecycle lock" | a client that leaves while the pump writes its authorized frame drops the lock, and the write goes on |
| `DiscoverySync!NoCredentialOpened` | `palladin-runtime/src/lib.rs:6414` "no credential was opened" | an inject loses the compare-and-swap against its own anchor commit and fails with this error after its credential was decrypted |
| `DiscoverySync!InjectDoesNotSync` | `runtime/README.md:40` "`inject` and `exec` do not synchronize Discovery" | the username lookup of an inject synchronizes the index |
| `ScriptExec!CancelEndsGroup` | `docs/adr/0002-exec-process-boundary.md:25` "Cancellation terminates the group." | a cancellation after the leader has exited ends neither a descendant that holds the output nor the call |
| `Submissions!IdReported` | `palladin-runtime/src/submission.rs:124` "Present whenever an ID was chosen" | a rejected POST is reported without the id it carried |
| `Commands!NotSavedIsTrue` | `palladin-cli/src/main.rs:1741` "the submission was not saved" | a lease that ends during the POST turns a stored submission into this message, without its id |
| `VaultPairing!ManifestsAdvance` | `runtime/README.md:30` "Later manifests must preserve that pinned key and advance monotonically." | the commit of a pairing replaces anchors that a search advanced while it waited |
| `VaultPairing!CacheIsReadable` | `runtime/README.md:37` "`search` loads this cache" | when `status` learns another Agent id the cache sealed for the old one is kept, and every later search fails |
| `RuntimeCache!CollectsOnlyInactive` | `tests/runtime/windows-runtime-cache.test.ts` "collects only inactive old entries" | a lease written after `hasActiveLease` looked is not seen; the launch that wrote it ends with an error |

## Bounds, and why they are enough

- `profile_commands`: two names, identities, organizations and keys, generation
  up to 3, two crashes. Generation 3 is a command on top of a committed change;
  two crashes include one inside the recovery from the other. Names, identities
  and keys are interchangeable, hence the symmetry. Temporary files and the
  sockets of browser hosts may lie in the root.
- `calls`: two committers of two commits and two revokers, so that a second
  commit meets a revocation of the first; two requests (single or batch) and one
  cancellation; waits below, at and above the interval of the polls and of the
  heartbeat; three attempts, as in the code, and a body one chunk over its limit.
- `browser`: two administrators and sessions; four jobs of two operations on
  capacities 1 and 2, so that queues fill; two connections of up to two frames a
  direction, so that frames can be swapped, repeated and sent to the other
  connection; two paths and the legacy socket; a cache of one or two entries for
  two keys, so that eviction happens.
- `inject_flow`: flow limit 2, operation limit 1, clock to 2: each deadline
  passes before, during and after each relay.
- `enrolment`: two of everything a pairing may confuse, one crash; two
  cutovers and two kills, so that a restarted cutover is killed again.
- `execution`: input 3 and output 4 against pipes of 2 and a capture of 2, so
  every pipe fills and every limit is crossed; two descendants; two releases,
  launches and updates; one kill. Quoting is checked for all arguments of up to
  four characters, environments for up to three names.
- `discovery`: two processes and profiles, one Entry, two calls, two changes of
  the vault: one change between two pages and one between answer and commit.
- `submissions`: two sessions, four operations, two changes of the organization.
- `brokers`: three connections for two permits, two users, a window of one;
  two principals and two deaths of the helper; five stores, three calls, one fault.

Every bound is a constant that stands in the guard of the action it caps.
Deadlock is checked except in `Browser`, `Discovery`, `InjectFlow`,
`Submissions` and `OperationLeaseAbort`, where clients and commands stop for
good and nothing remains to be done.

## Fairness

In the listed runs the code's own steps are fair, and weakly: threads run, woken futures are
polled, timers fire, an exited process is reaped. An answer is never assumed,
only that an answer or the call's timeout comes: `ApiCalls` relies on the HTTP
client's timeout, `GrantWait` on the call failing in the end, brokers on their
handshake and drain timeouts. `GrantWait` needs no poll to succeed. The runner
of `ScriptExec` is shown to end for a program that reads, writes and ends when
it can, and whose children end; without that the code waits by design. `RunEnds`
says nothing of `Commands` and `RuntimeCache`, which have no loop of their own.
`RecoveryCompletes` assumes that commands keep being run, and the unlisted
`Completes` of `BrowserPairing` strong fairness of an undisturbed attempt, since
a killed pairing is finished by repeating it.

## What is proved

TLAPS checks five modules. Each inductive invariant also holds in TLC, as an
invariant of its proof module on a small instance.

- `OperationLeaseProofs`: for any committers, revokers and commits, the type
  invariant, `GuardExclusive`, `SealedIsHeld`, `LateNeverCommits` and
  `RevocationSticks`. None is inductive alone; the invariant relates the word to
  the program counter of the one committer that holds it.
- `ProfileOperationsProofs`: for any names, identities, keys, generations and
  crashes, no configured profile lacks its secrets (`SecretsComplete`), no
  secret outlives its profile (`NoOrphanSecrets`), a transition marker has its
  journal (`MarkerHasJournal`), names stay unique. The invariant says, for each
  phase of a command and of recovery, under which trust state it runs, and that
  every stored slot belongs to the registry, to a recorded allocation or to a
  deletion that a marked journal will carry out.
- `BrowserHostProofs`: for any administrators and sessions, `ForwardsAuthorized`,
  `NoOrphanToken`, `UninstallIsComplete` and `IdentityKept`. The invariant adds
  what each point of a command knows of the slots, that the two sides of the
  lock exclude each other, and that a token determines its key.
- `LinuxAdmissionProofs`: for any number of principals, `RevokedIsOver`,
  `PurgedIsGone` and `PurgeIsNeverStuck`, wherever the helper was killed. The
  invariant speaks of the principals whose authorization is over and says, for
  each step of the helper, which records, sessions and namespaces they may still
  have. Assumed: `MaxPrincipals \in Nat`.
- `RuntimeCache`: for any releases, launches, updates and kills, the launcher
  runs its own release (`RunsTheRelease`). The invariant `Sound` says what each
  step of a launch knows of its temporary directory and of the entry it renames
  or removes. Assumed: the empty directory is no release.

In the runs `browser`, `calls` and `profile_commands` the proved definitions are
checked as they stand; `brokers` and `execution` check the last two modules'
through their scenarios.

Only model-checked: liveness and the refinement to `ProfileStore`, what the
recursive functions and folds compute (quoting, canonical fields, chains), and all other
modules. Liveness under fairness and induction over data are beyond the prover.

## Abstractions

Digests are injective, signatures unforgeable and ciphertexts opened only with
their key and associated data, so each is the term it stands for. Replacing one
file is one step, except where the steps are the subject (`SecretSlots`,
`RuntimeCache`, `LegacyCutover`). Wording, logging and formats are left out,
except what a message claims (`Commands`). Services, users, extensions and
programs are environments that do anything their interface allows, unless a
scenario says they conform. `rmcp`, the HTTP client, the operating systems and
the browser extension are external.

## Observations

What the models made visible without contradicting a sentence of the repository:

- *Lifecycles.* A helper killed inside Linux `revoke` between the record and the
  restart leaves the session running; `revoke` then refuses and only
  `revoke-purge` finishes. One killed in `authorize` after `usermod` leaves
  neither usable. A killed Windows executor leaves its AppContainer profile. A
  launcher killed while it collects can leave an empty entry on which each later
  launch of that version fails until another version collects it; a killed
  install leaves its temporary directory; `removeEmptyDirectory` removes nothing,
  because `rmSync` without `recursive` refuses directories.
- *Cutover.* A stray temporary file ends it with `UnexpectedArtifact`; a profile
  renamed after the cutover blocks cleanup; a crash before the rename makes the
  next attempt overwrite the manifest under a new id.
- *Fields.* `notes` with `onGrantRuntime` passes the policy check and makes a
  FULL credential undeliverable; FULL script references know `notes` where
  packages carry `<type>.notes`; the custom field of a derived TOTP keeps the
  prefix that `custom_field` strips; `parse_member_secret` accepts one of the two
  forms that decryption accepts. The revisions of a FULL script's references are
  the service's own word.
- *Trust.* The trusted epoch of a wait is read before it, so an answer after a
  reauthorization is refused. `status` that learns another Agent id keeps the
  approver pin. The pairing transcript does not bind the access epoch.
- *Limits.* `register_agent` and `get_credential` read the body without the byte
  limit. A form map loaded at the largest usage counter restarts it. Sealing at
  the last sequence number encrypts, then fails. A program that does not read a
  large script makes the Windows executor return 125.
- *Channels.* The Linux client drops its write half after `InputClosed`, which
  the broker reads as a cancellation. A client of another identity is dropped
  without an answer and retries until its timeout. A cancellation whose id is
  used by a batch and by a single request goes to the batch.
- *Commands.* `render_connect` exits 0 for an unreachable service. An absent and
  an empty description have one digest.

## Not modelled

- Byte encodings, cryptographic primitives, JSON: their results are terms.
- Secret templates and redaction (`secret.rs`): text processing with no state.
- Password generation and the rules of `validate_request`, option parsing, text
  search and its cursors, capture of a page for a form map: pure functions of
  one input with nothing to interleave.
- Permissions and path checks: one refusal where the code has many.
- The macOS keychain helper: a start-up check.
- The browser tool packages: adapters around an external automation library,
  each with one flag per session or injection.
- Parsing of the signed release manifest (`version-policy.ts`): its result is an
  input of `RuntimeCache`.
