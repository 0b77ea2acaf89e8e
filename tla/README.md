# A verification project for GoreeCloud Drive

TLA+ models of the core of GoreeCloud Drive, TLC runs that check them on small
instances, and TLAPS proofs of the main results for every instance. Paths below are
relative to the repository root.

## 1. The system

Drive is a Go server over local storage and (optionally) PostgreSQL. Its parts:

| Part | State | Operations | Where |
|---|---|---|---|
| Upload service | upload sessions (node, offset, state, expiry), in memory | Create, Get, Append, Complete, expiry | `internal/uploads` |
| Storage | directories `staging`, `objects`, `trash`, `quarantine`, `quarantine-state` of one root | append, open, discard, finalize (link + unlink), move to trash, apply and read quarantine | `internal/storage` |
| Scan gate | none; judges evidence | hash, scan, `Evaluate`, hash again | `internal/wardveil/scan.go` |
| Scan client | none | one signed POST to the Wardveil scanner | `internal/wardveil/http_scanner.go` |
| Quarantine service | none of its own | Apply, Read | `internal/quarantine` |
| Node service and store | table `nodes` | List, Get, Create, Rename, Trash | `internal/nodes`, `internal/postgres` |
| Authorization | table `space_memberships`; a constant policy | Allows | `internal/authz`, `internal/spaceaccess` |
| Quota service | table `quotas` | Check, Reserve, Release | `internal/quota` |
| HTTP handlers | none | map requests to the services; `createUploadHandler` combines three of them | `internal/httpapi` |
| Quarantine bridge | none | forwards apply/read with a 5 s timeout | `cloudflare/quarantine-target` |
| Acceptance commands | the cases run so far; a report at the end | cases against a build of Drive and a deployed scanner | `cmd/wardveil-acceptance`, `cmd/wardveil-negative-acceptance` |
| Configuration, start-up, authentication boundary, web page, deployment script | none or start-up only | | `internal/config`, `cmd/server`, `internal/authn`, `web`, `scripts` |

How they interact: a client opens an upload session for a file node (policy, node
store, upload service), sends chunks (upload service, staging), and completes it: the
gate hashes the staged file, has it scanned, judges the evidence and hashes again, then
storage links the file into `objects` and the session is marked completed. Wardveil asks
for quarantine through the bridge; Drive claims the node with a state file, links the
object into `quarantine`, removes it from `objects` and finishes the state file. Uploads
and quarantine know nothing of each other and meet in the directory `objects`. The
acceptance commands drive an upload service of their own against the deployed scanner.

What is hard here:

* **No lock spans two calls.** Handlers run concurrently; the only mutual exclusion is
  the mutex inside one repository call and the atomicity of one file-system call or SQL
  statement. Every check (size of the staged file, expiry, existence, membership) can be
  stale when it is used.
* **One inode, several names.** Finalization and quarantine are hard link then remove;
  a failure, crash or second actor between the two leaves both names.
* **Failure in the middle.** A broken body, a failed unlink, a crash between creating
  and writing a file, a lost answer, an in-memory session lost while its file stays.
* **Time.** Sessions expire during a scan; evidence expires between scan and use.
* **Callers that give up.** The bridge abandons a call after five seconds while Drive goes
  on with it; the executor repeats the operation, perhaps to a server that was restarted,
  perhaps with another token.

`PROJECT.json` lists these hazards at their lines, each with the properties aimed at it.

## 2. Modules

| Module | Models |
|---|---|
| `ScanEvidence` | `Evaluate` and the constants and types of the scan contract, as operators |
| `ScanDecisions` | one envelope judged again and again, for every action, while time passes |
| `Uploads` (uses `ScanEvidence`) | upload service + staging/object storage + gate, for one Space |
| `Quarantine` | quarantine service + storage, with publication and trashing of the same objects |
| `AtomicQuarantine` | what `ApplyQuarantine` promises: a file leaves the active namespace in one step and for good; implemented by `Quarantine` |
| `Bridge` (extends `Quarantine`) | executor, Worker, HTTP handlers and quarantine service, down to the file-system calls |
| `Drive` (extends `Uploads`, with an instance of `Quarantine`) | both services over one object directory, restarted together |
| `Acceptance` (extends `ScanEvidence`) | the two acceptance commands |
| `NodeTree` | node service, store, constraints, policy and memberships, opening of upload sessions |
| `Quota` | quota service and its PostgreSQL repository |
| `MC...` | values for the constants that a cfg cannot write down |
| `ScanEvidenceProofs`, `ScanDecisionsProofs`, `UploadsProofs`, `QuarantineProofs` (with the bridge), `DriveProofs`, `NodeTreeProofs`, `QuotaProofs`, `AcceptanceProofs` | lemmas and theorems |

An operator whose comment begins with "Mutant" is a plausible bug of the definition that
follows it; no specification uses it.

### Correspondence with the code

**`ScanEvidence`.** `Checks` is the sequence of early returns of `Evaluate` in source
order; `Evaluate` takes the first that fails and otherwise `Judge`s the verdict: malicious
before expiry, expiry before everything else. A digest is a record of its value, its
letter case and whether it is 64 hex digits, so `EqualFold` ignores case as the code does.

**`Uploads`.** `repo` is the session repository, `staging` and `objects` map identifiers
to inodes, `data` gives each inode's content, `h` holds the local variables of the
handlers in flight, `clock` the time; `pub` and `acked` are histories (on what evidence
a node was published; what appends acknowledged). A handler's step is one repository or
system call: `OpenAppend` (open with `O_CREATE` and the size check), `WriteBlock` (one
block of `io.Copy` at the descriptor's own position), `EndWrite` (truncate an oversized
chunk, or sync), `UpdateOffset`; `OpenStaging`, `ReadBlock`, `EndHash`, `Scan`,
`EvaluateVerdict`, `EndRehash`, `Recheck` (second expiry check), `Link`, `Unlink`,
`UpdateCompleted`. `Fail` ends a handler at any call that a run allows to fail, undoing
nothing, as the code does; `Restart` ends all handlers and, unless `Durable`, loses the
sessions.

Abstractions. A byte stands for a block; the digest of a content is the content
(SHA-256 is taken to be free of collisions). The open and the stat of an append are one
step: no other operation changes a file it has just created, and for an existing file a
write that falls between them could equally come before both. A failing `Get` (unknown
session, wrong owner) changes nothing and is a stuttering step. The scanner is honest: it
reports on the bytes it was sent; its verdict and validity window are arbitrary members of
`Verdicts`. A descriptor whose path is gone still reaches its inode, and an inode is
handed out again only when neither a path nor a descriptor reaches it.

**`Quarantine`.** `objects`, `quar`, `trash` and `qstate` are the directories; a state
file is a claim (operation and status), `Torn` (created, not yet written, or cut short) or
`None`. One action per file-system call of `ApplyQuarantine`, `reconcileQuarantine` and
`ReadQuarantine`, with the stats taken in the source's order and used when the source uses
them. An operation stands for the pair of operation and correlation identifier, which the
code only ever compares together. `Publish` is the effect of `Finalize`; `Republish` says
whether a node can be published again after its object was moved, which an upload session
opened before can do. `MoveToTrash` is not called by any service yet; `Trashing` includes it.
`exists` gives the set of answers a stat may have: the truth, and "absent" where the run lets
that stat fail, since the code takes every error for absence. `SyncPending` is apart from
`WritePending`: a claim whose sync failed can be read although its writer gave up.

**`AtomicQuarantine`.** A file of a node is nowhere, active, isolated or trashed; the
mapping (`file`, `where`, `owner`, `done` in `Quarantine`) counts a file as active while it
has its object name, whatever other names it has. A link is thus a stuttering step and the
removal of the object name is the step `Isolate` or `Trash`.

**`Bridge`.** `call` is what the executor knows of each operation: whether it waits for an
answer, of which request, and what it was told last; `token` is Drive's service token seen
from the Worker; `late` counts the calls that were given up. `Send` and `Receive` are the two
halves of `applyQuarantine` around its await, `SendRead` and `ReceiveRead` those of
`readQuarantine`; `Timeout` is the abort after five seconds, after which Drive's request goes
on unattended; `Refused` is every exchange that ends before the service is reached (validation
in the Worker, no connection, wrong or missing token), which the Worker reports as an error.
`ApplyStatus`, `ApplyCode`, `ReadCode`, `authorizeWardveilService`, `callDrive`, `Told` and
`ReadBackOf` are the conversions a result passes through. The executor is not in this
repository: it repeats an operation until it has a final answer, and, unless `Overlap`, not
while Drive is still working on it.

**`Drive`.** `Uploads`, with the directories, state files and requests (`qh`) of `Quarantine`
beside it and `objects` in common; a payload of `Quarantine` is an inode of `Uploads`, and what
`Publish` is there is here the `Link` of an upload. `RestartServer` takes both down. `UploadStep` does not hand out an inode that has a
quarantine or trash name. `inspected` is a history: the content each inode was released with.

**`Acceptance`.** `todo` is the list of cases still to run; a case passes and makes room for
the next one, or ends the command. `trial` is what came under acceptance: a build, a scanner
and the inputs. A build is a set of safeguards; `Taken` says what an envelope amounts to for a
build that lacks one, and the decision is then that of the real `Evaluate`. The code of this
repository is the build with all of them. An upload is one step, since every case uses its own
fresh identifiers and storage of the command's own. The scanner is external: the promises in
`scanner` say whether it detects, authenticates, remembers a nonce, refuses a conflicting
one, and keeps that memory over a restart. Any failure of the exchange is the reply of a
scanner that is not there.

**`NodeTree`.** A request is an authorization step (one membership read) followed by one
SQL statement; `SetMembership` may come between. `Selected` is the common `WHERE` clause,
`ForeignKeys` and `UniqueNames` the constraints of migration 0002, `trimmed` what
`validName` and `TrimSpace` make of a name. `Upload`, `UploadRead`, `UploadGet`,
`UploadCreate` are `createUploadHandler`. `seen` and `held` are histories. Capabilities that
no operation asks for (comment, share, members, space) are left out. `Faults` says which
database calls may fail: the membership read, a statement, or the answer of a statement that
was committed (`Reply`), after which the client is told of an error. The server binary
wires neither a node store nor a principal resolver yet, so this API denies everyone there.

**`Quota`.** Each call is one statement on the row of one Space, which exists (a Space without
a row gets an error and nothing changes). `known` is what a caller holds going by its answers.
`Fail` is a call that the database does not carry out, `LoseReserve` and `LoseRelease` are
statements that were committed and whose answer was lost, which the code reports with the
same error. Nothing compares a release with what its caller reserved, so `Release` takes any
size: `unmatched` counts what releases took beyond their caller's own, `unreported` the
reservations whose answer was lost. `Overflows` is the bigint column; a parameter that
PostgreSQL took for a narrower integer would only add errors, which `Fail` has. No other part
of the program calls the service yet.

## 3. Runs

| Run | Instance | Shows |
|---|---|---|
| `scan_decisions` | well-formed and malformed resources, envelopes differing in every field the code looks at, windows that open and close within 4 ticks | release exactly on the contract's conditions; hand-off only for bound evidence; malicious and expired verdicts are final |
| `uploads_race` | 2 durable sessions for 1 node, 2 overlapping handlers, clean and malicious verdicts, every fault, restarts, expiry | no release without current clean evidence for the digest taken before and after the scan, or after expiry; one publication, owned by the session told so; a completed record is put back only by a late append; inodes not shared |
| `uploads_serial` | 2 in-memory sessions, one request each at a time, chunks at and over the limit, every fault but the unlink | published bytes are the inspected ones for ever; acknowledged bytes stay, while inodes are reused and restarts leave files behind |
| `uploads_overlap` | 1 session with the one condition that matters | **violation**, see section 5 |
| `quarantine_race` | 3 requests, 2 operations, 1 node, trash, 1 restart, every fault but one stat | claims final and first, payloads kept, answers true; `Quarantine` implements `AtomicQuarantine` |
| `quarantine_republish` | smallest instance | **violation**, see section 5 |
| `bridge` | 2 operations on 1 node, 2 requests in flight, 1 call given up, 1 restart with any token, fairness | what the executor was told stays true; a repetition is not denied; every operation gets its final answer and no claim stays pending |
| `drive` | 1 upload and 1 quarantine request at a time, 2 sessions for 1 node, 1 operation, trash, 1 restart | kept files hold the inspected bytes, removed files do not come back, a finished quarantine stays inactive |
| `acceptance` | builds that lack up to 2 of 12 safeguards, scanners that break up to 2 of 5 promises and go away twice, 33 inputs with one defect or one value at its limit | a report is earned; a failure has a cause |
| `node_tree_race` | 2 requests, 2 Spaces, 2 nodes, 2 names, failing checks and statements | unique sibling names, frozen trash, no path leaves its Space |
| `node_tree_spaces` | 2 accounts, 2 Spaces, 1 node, roles given and changed, a refused name, failing calls and lost answers | who sees, changes and uploads what |
| `quota` | 3 callers, sizes -1, 0, 1, 3, 4, limits 0, 4, 7 and none, bigint of 7, up to 4 bytes each of lost reservations and unmatched releases (`MaxDoubt`) | limit respected; no hidden charge; what callers hold is charged but for what releases took beyond their caller's own |

Why the bounds are enough. The conflicts in this code are between two actors on one
file, node or row, with a third to observe or replay; two handlers (three requests in
`quarantine_race`), two sessions or operations and one node are the smallest instances
with all of them. The limit on a chunk is one block: `uploads_serial` has bodies at and
over it and a second chunk after the first, while one block is enough for the races of
`uploads_race`. One clock tick with a time to live of one puts expiry between any two steps.
Two inodes are one for each session; a freed one is handed out again.
`bridge` needs an operation that is cut short (one timeout, one restart) and a second one to
compete with it for the node. `drive` has one request on each side, since what is new there
is an upload that meets a quarantine; its faults are the calls whose failure leaves work half
done for the other side (the update of the completed session; the removal of the object, the
final state and the removal of a trashed object). In `acceptance` a case that passes for the
wrong reason needs a second lapse to hide the first: hence two missing safeguards or promises.
The theorems of section 4 remove the bounds for every safety property.
Symmetry is over handlers, sessions and inodes (or requests, operations, payloads,
nodes, accounts, Spaces), which the specifications never tell apart.

Deadlock is checked everywhere but in `scan_decisions`, whose clock may simply end, and in
`acceptance`, whose commands exit.

Fairness (`bridge` only). Each request that is in flight takes its next step (weak
fairness of `Work`: handlers are goroutines that nothing blocks and that do not look at
their context). An operation without a final answer is sent again and an answer that is there
again and again is received (strong fairness of `Send` and `Receive`): the executor repeats
until it has a final answer, which is what the pending state is for, and not every exchange
is refused or given up. Both liveness properties also suppose that Drive and the Worker have
the same token in the end. Nothing is assumed of restarts and timeouts but that there
are finitely many (`MaxRestarts`, `MaxTimeouts`).

## 4. Proofs

All proved by TLAPS for every value of the constants that satisfies the named
assumptions (types and distinctness of the constants, and positive bounds). A theorem that
needs more says so with ASSUME; those assumptions are repeated here. The inductive
invariants stand at the end of the modules they are about, and TLC checked each of them on
the run's instance before it was proved.

* **`ScanEvidenceProofs`**: lemmas on `Evaluate`. `Evaluate` picks the least
  failing check; `FirstFailing` (from the well-ordering of the naturals) shows that it
  exists, `EvaluateCases` and `ChecksPass` turn the sequence of early returns into a
  conjunction.
* **`ScanDecisionsProofs`**: `ReleaseExact`, `HandoffsAreBound`, `MaliciousStays`,
  `ExpiryStays`, `TypesHold`. The invariants follow from the lemmas state by state; the
  two action properties use that a step changes only the action or increases the time.
* **`UploadsProofs`**: `InductiveHolds` proves `Inductive`, from which `TypesHold`,
  `OnlyInspectedIsReleased`, `OnlyTheLivingRelease`, `CompletionIsOwnership`,
  `StagingStaysPrivate` and `PublicationIsFinal` follow, and, with `FinalizersAlone` (of a
  session, one handler at most is past the link), `RollBackIsByLateAppends`; none of them
  assumes anything of clients, faults or the repository. The properties are about
  publications, which a handler makes from local variables it filled many steps earlier;
  so the invariant says what each program counter has established (`GateProgress`:
  evidence bound to the digest from `openrehash` on, the second hash from `recheck` on,
  the expiry check at `link`), that a handler's copy of its session agrees with the
  record in node and expiry (`SessionKnown`), and that past the link the node's object
  is this upload's (`FinalizerOwns`, `PublicationsMatch`). The part of it that does not
  depend on what becomes of the objects (`Sound`) is preserved on its own (`SoundStep`), so
  that the composition with quarantine can use it.

  A second invariant, `SerialInductive`, is about clients that send one request of a session
  at a time (`Serial`). Its first half, `SerialSessions`, says that a handler is alone with its
  session and works on the record as it is. Its second half, `SerialFiles`, is about who reaches which file: a
  descriptor reaches the staged file of its own upload or a nameless one and never an object
  (`DescriptorPrivate`), a file has both names only between link and unlink (`TwoNames`), and
  every program counter knows how much of the file it has written or read (`AppendProgress`,
  `FinalizeProgress`, `StagedContinues`). `SerialInvariant`, `VerifiedStaysPublished` and
  `AckedStaysStored` assume `Serial`, `~Durable` (sessions in memory, as the server wires
  them) and that the removal of a staging name does not fail; section 5 says what happens
  otherwise.
* **`QuarantineProofs`**: `InductiveHolds`, `TypesHold`, `ClaimsAreFinal`,
  `ClaimsPrecedePayloads`, `AnswersStayTrue`, and, assuming that a node is not published
  twice, `NothingIsLost`, and assuming `Settled`, `IsolationHolds`. The heart of the invariant is ownership:
  between the exclusive create and its write a single request owns the torn state
  (`WriterAlone`), and every request past the claim holds the node (`HolderHolds`), so
  that only replays of one operation ever move a payload. `Settled` says that a node is
  not published twice and that the stat of the object in `reconcileQuarantine` does not
  fail; without it the two are false (`quarantine_republish`, and section 5).

  `QuarantineIsAtomic` is the refinement: every step of `Quarantine` is one step of
  `AtomicQuarantine` or leaves the mapped variables alone. `StepKinds` sorts the steps by the
  directory they write; `StepRefines` takes them one by one, using the inductive invariant
  for the four steps that are not stuttering (the claim, the removal of the object, the
  removal of a trashed object, the final state). It assumes `Settled` too.

  In the same module, on top of these: `BridgeInvariant` proves `BridgeInductive`, `ToldStaysTrue` follows. The executor knows of an operation only what
  arrived, while the requests it gave up go on; the invariant therefore says that Drive works
  on an operation in one request at a time (`OneWorker`), that nobody else has claimed the
  node or removed the object under such a request (`WorkerOK`), that a call awaits the answer
  to its own request (`Waits`), and that a final answer ends the work (`Settles`). Both assume
  `~Overlap` (the executor does not repeat an operation while Drive is at work on it) and
  `Settled`. `ReplaysNotDenied` assumes `~Overlap` alone: it needs the ownership of
  the quarantine's invariant and `OneWorker`, and nothing of the payloads.
* **`DriveProofs`** (on top of `UploadsProofs`): `DriveInvariant` proves `DriveInductive`, from
  which `KeptStaysInspected` and `NothingIsRevived` follow. In the composition an object may
  disappear under an upload at any time and its node may be published again, so the
  invariants of the two components do not hold as they stand (`CompletedOwnsObject`
  and `PublishedIsVerified` are false there). What replaces them is said of
  inodes, whichever directory they are in (`Named`): a staged file has another name only
  between the link and the unlink of its own finalization, or when its session is lost
  (`StagedTwice`); an open descriptor reaches no named file (`DescriptorApart`); and from the
  first hash to the link the digest of a completion is that of its staged file
  (`DigestHolds`). Hence the file that a link releases has no other name yet (`LinkFresh`),
  which is why nothing is revived, and nobody writes to a file once it has one
  (`NamedDataKept`). `DriveFrame` splits the steps into those of uploads, about which the
  lemmas of `UploadsProofs` are cited, and those of a request, which give a file a second name
  or take the first one away (`RequestMove`). All this assumes `Serial`, `~Durable` and that
  the removal of a staging name does not fail, as `SerialInvariant` does.

  `IsolatedStaysInactive` adds `Isolation`: a request about to record a quarantine as done
  (`FinishesInactive`) has a payload that is no object, since the object of its node is gone
  and a payload is an object only under its own node (`NamesApart`); a later publication of the
  node brings another file. It also assumes that the stat of the object in
  `reconcileQuarantine` does not fail, but, unlike `IsolationHolds`, allows nodes to be
  published again. And it assumes `QuarantineSerial`, one request per node at a time, without
  which it is false (section 5); the other theorems of the module allow any number of requests
  at once. `ReleasesStayInspected` needs none of these assumptions.
* **`NodeTreeProofs`**: `NodeTreeInvariant` proves `IInv`, from which `NodeTreeTypeOK`,
  `NamesUnique`, `TreeStaysInSpace`, `OnlyReadersSee` and `UploadsTargetFiles` follow; the
  action properties `TrashFreezes` and `GrantedChanges` use it at every step. What a request
  relies on was checked one step earlier and may no longer hold: the invariant (`RequestsOK`)
  keeps of the checks only what membership changes and other statements cannot undo, that the
  role was once held and that nodes keep their kind and Space.
* **`QuotaProofs`**: `QuotaTypeOK`, `UsageStaysAccounted`, `LimitHolds`, for any finite set of
  callers and nothing else assumed. The two halves of `UsageIsAccounted` say together that
  usage is exactly what callers hold and what was lost on the way to them, as long as no
  release has taken more than its caller's own. Usage is a sum over all callers, so the lemmas
  show what changing one value does to `SumFunction` over a finite set; this induction over
  sets goes through the well-foundedness of the naturals (a least counterexample by
  cardinality).
* **`AcceptanceProofs`**: `AcceptanceInvariant`, `ReportsAreEarned`, `FailuresHaveCauses`.
  A report is about cases that ran before, so the first half of the invariant (`Earning`) says
  that every case behind the command has shown what it is for (`Shows`). The lemmas that a
  case shows it go backwards from the reason of a decision to the check that gave it
  (`ReasonIsTrue`): an expected reason cannot come from a build that lacks its safeguard. The
  replay of a request shows a memory because a new record has a higher number than the first
  (`RecordsMade`). The second half (`Passing`) goes forwards: sound evidence passes every check
  (`SoundEvidence`), so that a faultless setting passes every case; for the replays it has to
  say what exactly the scanner remembers (`Remembers`).

Only model-checked: `OperationSettles` and `PendingResolves` (liveness under fairness, which is
out of the prover's reach). Every invariant and every action property of the passing runs is
stated by a theorem, under the assumptions named with it.

## 5. Where code and documentation disagree

The first two are runs whose property states what the repository says of itself, and
which TLC refutes.

| Run | The repository says | The code |
|---|---|---|
| `uploads_overlap` | `internal/storage/session.go:61`: overlapping writers cannot silently corrupt an upload | both pass the size check, both write, both are acknowledged |
| `quarantine_republish` | `docs/WARDVEIL-QUARANTINE.md:31`: quarantine is not deletion | the replay of an interrupted operation removes a newer object |

The models also have these behaviours, which no run is kept for:

* `docs/STORAGE.md:17` asks that a partial transfer cannot masquerade as a complete file.
  Completion compares no length: the part of a chunk that was written before its body broke
  off is scanned and published with the rest, although no append acknowledged it.
* `docs/WARDVEIL-QUARANTINE.md:29` calls an exact replay idempotent. Two deliveries of one
  operation that overlap can meet `ENOENT` half-way, and the slower one is answered
  `failed`/`drive_object_not_found` although its operation holds the node. `Bridge` with
  `Overlap = TRUE` refutes `ToldIsTrue` and `ReplayNotDenied` in this way.
* `internal/storage/quarantine.go:255` takes every error of a stat for absence. If the stat of
  the object at line 146 fails while a payload is already linked, the quarantine is recorded as
  done while the object is still active; if the stat at line 139 fails, `ReadQuarantine`
  reports such a node as quarantined, which its comment (lines 113-115) rules out.
* Two deliveries of one operation that overlap a publication of the node also break isolation:
  the operation is pending and the object is in the trash, the first delivery finds no object
  (`internal/storage/quarantine.go:146`), the node is published again, the second delivery
  links the new object into quarantine, and the first, which now finds a payload there,
  records the quarantine as done while the object is still active. `Quarantine` without
  `Serial`, with `Republish` and `Trashing`, refutes `IsolatedIsInactive` in this way.
* When the removal of the staging name fails after the link (`internal/storage/local.go:144`)
  and the object is then quarantined, the session is still active and its staging name still
  reaches the inode: an append writes into the isolated file, and a second completion links
  the same file into `objects` again. `Drive` with that fault refutes all three properties.
* The case of the invalid credential in `cmd/wardveil-acceptance` expects only that the
  upload fails closed, which it does as well when the scanner is not running at that moment;
  `ReportIsEarned` therefore says what the report means only if the scanner answered.
* `internal/storage/session.go:61` calls retries of an append idempotent. After a body has
  broken off, the part that was written stays in the file (only a chunk over the limit is
  truncated), so that every retry at the recorded offset is refused.
* `docs/STORAGE.md:7` calls final objects immutable. When the removal of the staging name
  fails after the link (`internal/storage/local.go:144`), or a durable session survives a
  crash between the two, the session stays active and its next append reaches the object.
  `PublishedIsVerified` is therefore checked with in-memory sessions and without that fault.
* `internal/storage/quarantine.go:44` records the pending state so that an interrupted
  operation can be reconciled. A crash between the exclusive create and its write leaves
  a state that no request can read or replace.
* `internal/uploads/session.go:187` and `:150` write the whole record that the request read at
  its start. An append that is under way while its session is completed puts the record back
  to active when it ends: the session takes appends again although its node is published, and
  cannot complete a second time while its object is there. `uploads_race` reaches this;
  `OnlyLateAppendsRollBack` says that it is the only way in which a completion is undone.
* `docs/WARDVEIL-SCANNING.md:103` asks for synchronization so that staged bytes cannot change
  between final verification and publication, and the code has none yet: an append between the
  second hash and the link has its bytes published uninspected. `ReleasedOnlyInspected` is
  about the evidence a file was released on; `PublishedIsVerified`, which is about the bytes,
  is checked for clients that send one request of a session at a time.
* `internal/quota/postgres.go:69` lowers usage by whatever a release names. A release that was
  committed, whose answer was lost and that is repeated takes back bytes of another caller;
  `GREATEST` hides it at zero, and callers can then hold more than the limit between them.
* `internal/spaceaccess/service_test.go:43` says that a drop-only member should upload.
  Opening an upload session also reads the node, which needs `read`.

## 6. Not modelled

Configuration, routing, headers, JSON, logging, the signature of scan requests, the web page
and the deployment script: sequential or stateless, and covered by unit tests. Of the token
comparison only its three outcomes are modelled. A graceful shutdown is a restart at
a moment when the requests have ended, which the models have. The PostgreSQL upload repository
is represented by `Durable`: its rows hold what the in-memory records hold, and its two state
names map one to one. `WriteStaging` and `OpenObject` are used by no service. The tables for
versions, shares, favorites, activity and sync have no code.

## 7. Plan

Done: the evidence contract, uploads, quarantine, nodes, quota, the bridge, uploads and
quarantine composed, the acceptance commands; theorems for all of them, the refinement of
`AtomicQuarantine`, and the properties of serial clients.

Next, in this order:

1. An abstract upload (a file is absent, then published once with inspected content)
   implemented by `Uploads`.
2. Liveness of uploads (a session that is not wedged can be completed), with TLC.
3. A run of `Drive` with several quarantine requests on one node at a time (`KeptIsInspected`,
   `NeverRevived` and `ReleasedOnlyInspected` are proved for it).
