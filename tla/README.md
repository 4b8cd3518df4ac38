# LibreDrive in TLA+

A model of LibreDrive's storage core, the TLC runs that check it and the
theorems TLAPS proves about it.  Paths below are relative to the repository;
`R/` is `rust_core/src/` and `F/` is `flutter_app/lib/`.

## The system

LibreDrive is a peer-to-peer drive in two halves that are not connected yet: a
Rust core (`R/`), which is to run the network node, and a Flutter app (`F/`),
which today stores everything locally in Hive boxes.

| Component | State | Operations | What is hard | What makes it correct |
|---|---|---|---|---|
| Fragment store `R/p2p/storage_protocol.rs` | index in memory, byte counter, fragment files, `index.json` | initialize, store, retrieve, delete, extend (one, by owner), cleanup | an operation is several awaited file-system calls; any may fail or the process die between two | never over the offer; what was acknowledged is served by every life that comes up; every operation returns |
| Protocol `R/p2p/protocol.rs` | contracts with an expiry | messages, extend, is_expired | expiry boundaries | a contract lasts the days last given from its owner's last heartbeat |
| Peer manager `R/p2p/discovery.rs` | peers, reliability, blacklist | add, update reliability, blacklist, prune, select | time, clamping, order of entries | only healthy peers are selected |
| P2P node `R/p2p/node.rs` | connected peers, event channel | start, publish, DHT, request, event loop | several connections per peer, unanswered requests, `run()` dropped and polled again | nobody is listed for good after leaving; no event is lost |
| Quota `R/storage/quota.rs` | per-user used / contributed bytes, grace flag | check, record upload / deletion / hosting | check and record are separate calls; truncating ratios | who uses also contributes |
| Erasure coding `R/storage/erasure.rs` | none (pure) | encode, decode, verify | padding, lost shards | any 10 of 14 shards rebuild the file |
| File manager `R/storage/file_manager.rs` | file index | prepare upload, reconstruct, index, import/export | re-upload of the same content, sizes that are estimated | an upload of which enough shards are left opens, and only for its owner |
| Rust crypto `R/crypto/` | none | encrypt, decrypt, chunk, Merkle | chunk boundaries, odd trees | decrypt inverts encrypt; proofs match roots |
| Identity `R/identity/` | keys | create, recover, sign heartbeats | clock skew, late and repeated heartbeats | heartbeats are fresh |
| Local vault `F/services/secure_storage_service.dart`, `F/services/database_service.dart`, `F/providers/files_provider.dart` | Hive boxes for shards, metadata, files, folders; lists shown | upload, download, delete, create / delete folder | async calls interleave at every await; failed puts; the app killed half way | what is listed can be opened; what is deleted is gone |
| App crypto `F/services/crypto_service.dart` | master key (secure storage) | derive, encrypt, shard, rebuild | fallback keys, missing shards | a lost shard does not lose the file |
| Account `F/services/seed_phrase_service.dart`, `F/providers/auth_provider.dart` | secure-storage entries, AuthState | create, recover, login, logout | sequences of writes with a crash between | the id always belongs to the key |
| Settings and network providers `F/providers/` | quota settings, simulated node | set quota, start, stop | start and stop overlap | the state shown is the state kept |
| Rust bridge, screens, theme, start-up | - | - | stubs and presentation | not modelled |

The vault calls the app crypto and its own boxes; the notifiers call the vault
and keep snapshots of its boxes.  In the Rust core the file manager calls the
erasure coder and the ciphers; the node's event loop is to hand storage
requests to the fragment store (today the handler is a TODO), identities sign
the heartbeats that are to extend storage contracts, and the peer manager is to
choose where shards go: these operations exist, the code that would call them
in that order does not yet.

## Modules

| Module | Models | Extends |
|---|---|---|
| `FragmentStore` | abstract: what a node that stores fragments promises | - |
| `StorageManager` | the fragment store of a node; implements `FragmentStore` | - |
| `FileCatalog` | abstract: what the vault promises of the files it lists | - |
| `LocalVault` | the app's vault, its folders and the lists shown; implements `FileCatalog` | - |
| `AuthKeys` | the account, its entries in the secure storage, the master key | - |
| `P2PNode` | the node, its event loop, its caller and the swarm around it | - |
| `Erasure` | splitting, padding, encoding and decoding of bytes | - |
| `ChunkCipher` | encryption in chunks and the bytes of an encrypted file | `Erasure` |
| `FileManager` | uploads, the index, the shards on the network, reconstruction | `ChunkCipher` |
| `Heartbeats` | identities, heartbeats and storage contracts | - |
| `PeerManager` | known peers, reliability, blacklist, selection | - |
| `QuotaManager` | quotas, and the sessions that check and record uploads | - |
| `*Proofs` | theorems | the module named |
| `MC*` | small instances for TLC | the module named |

`FileManager` composes three components: what an upload returns is the erasure
code of the bytes of the encrypted chunks, and a download is the inverse of
each, so that paddings, estimated sizes and offsets are those the code computes
and not an identity.  `Heartbeats` composes identities, their messages and the
contracts of a storing node.  Operators named `Faulty...` are wrong variants of
the definition that follows them: plausible slips that a property must notice
when they take the definition's place.

### StorageManager and FragmentStore

`index`, `used`, `files`, `diskIndex` are `fragment_index`,
`used_storage_bytes`, the fragment files and `index.json`.  `&mut self` lets
one operation run at a time, so one program counter `pc` with its locals
(`target`, `fragment`, `todo`) is enough.  An action is the code from one await
to the next: `StoreFragment` (the capacity check) - `WriteBegin` (directory
made, file truncated) - `WriteEnd` (file filled, index and counter updated) -
`SaveBegin`, `SaveEnd` (`index.json` truncated, filled).  `DeleteBegin`,
`Unlink` and the same two save steps are a deletion, whether called, caused by
retrieving an expired fragment, or one of a cleanup (`Sweep`).  `IOError`
returns from any of them as `?` does; `Crash` loses what is in memory and
`Initialize` loads what is on disk.  An index that does not parse is an error
of `initialize`: the node stays down.

Abstractions: a payload stands for its own hash (BLAKE3 without collisions);
access counts, creation times and paths are left out; a failed or interrupted
write leaves the file truncated (`Torn`) or complete.  Dropping the future of
an operation is not modelled: nothing in the code cancels one.  Nor is the panic
of a store whose id is shorter than two bytes
(`R/p2p/storage_protocol.rs:135`): the ids shards are given are longer.

`acked` is a history variable: the content under each id of the last store
that returned `Ok`, until a store over it truncates the file or a delete
starts.

`FragmentStore` knows no files, awaits or faults: a fragment is kept from its
acknowledgement until it is released, what is kept fits in the offer, while the
node is up it reads back every fragment it keeps, and stopping and starting
change nothing of what is kept.  `StorageManager` implements it
(`ImplementsStore`) under the mapping `up` = the phase is "up", `kept` =
`acked`, `reads` = `ProvenBytes`, the bytes `prove_storage` would hash: so the
refinement says that every life of the node that comes up has what was
acknowledged and not released, whatever failed or crashed before, and that
every proof of storage is computed from it.  It does not say that a node comes
up again.  `save_index` overwrites `index.json` in place
(`R/p2p/storage_protocol.rs:109`), so a process that dies in between, or after a
write of it that failed, leaves it torn; `initialize` is then an error for ever
and everything acknowledged is lost, while the fragments are still on disk.  The
run `storage_torn_index` shows it, and `AckedIsServed` excludes exactly this
case: of a node that is down it says that an index that is not torn has
everything acknowledged.

### LocalVault

`shards`, `meta`, `record`, `folders` are the four Hive boxes, `list` and
`folderList` the states of the two notifiers.  Up to `Calls` asynchronous calls
run at once; `call[c]` holds the locals and the await each is at.  A put or a
delete in a box is one atomic, durable step.  `born`, `condemned`, `swept`,
`cut` and `swallowed` are history variables: ids given out, files whose deletion
was asked for, files whose record was deleted with their folder, files of a
call that a failure or the end of the app cut short, and files of which a
deletion in the secure storage failed while `deleteFile` went on.  An exception
of the picker or of a put ends an upload with the error for a list
(`UploadThrows`); a failed deletion in the secure storage
is swallowed and the record deleted (`DeleteThrows`).

`FileCatalog` knows no shards, calls or faults: a file is made ready, then
listed; what is listed stays listed and ready until its deletion is asked for;
what was condemned is never listed or made ready again.  `LocalVault`
implements it (`ImplementsCatalog`) under the mapping `listed` = the recorded
files, `ready` = the files with metadata and all shards, `condemned` =
`condemned`.  `RecordedIsComplete` and `DeletionIsFinal` speak of states; the
catalog adds what no state shows, that no crash, failed put or other call ever
takes away a file whose deletion nobody asked for, such as one uploaded into a
folder while the folder's files are being deleted.

### AuthKeys

The public id and the master key are derived from the seed phrase alone, so an
entry of the secure storage (`store`) is modelled by the phrase that wrote it.
`auth` is `AuthNotifier.state`, `screen` where the user is, and `call` the
calls in flight with the entries they have yet to touch, in the order of their
awaits (`Awaits`).  `Begin`, `Write`, `Enter` are `createAccount` and
`recoverAccount`; `Leave` is the back button, which does not stop a call;
`CheckAuth`, `LoadRead`, `LoadDone` are the splash screen and `_loadSavedAuth`;
`BeginLogout`, `Delete`, `DeleteAll`, `LogoutDone` a logout; `BeginUpload`,
`LoadMasterKey`, `ReadFallback`, `WriteFallback` the `getMasterKey` an upload
runs into.  `disturbed` is history: whether a call was cut short or failed
("cut"), whether that was between its key and its id, over an account with a
name ("torn"), and whether two overlapped ("overlap", which counts as both).
What is said of the account while nothing was cut (`IdIsOfKey`,
`KeyIsOfTheAccount`) is said of the load at the next start
(`LoadIsOfOneAccount`) after any cut that is not torn.

### P2PNode

The swarm is external: connections open and close, messages and discoveries
arrive, requests and lookups end with an answer or without, and each is an
event of `queue`.  `run()` is the actions of `Step`, one per arm of its match
and of `handle_behaviour_event`: `ConnectionEstablished`, `ConnectionClosed`,
`Message` (everything the caller is told of), `AddAddress` (mDNS and identify),
`Ignore` (the last arm, where failed requests and lookups end).  No arm awaits
between taking an event and its end, so each is one step.

`run()` borrows the node and never returns, so the caller alternates: it polls
`run()` (`Run`), drops its future at an await (`Cancel`), and only then can
`Start`, `Ask` (`send_storage_request`, `get_dht`) or read the channel
(`Receive`).  `StartListenFails` and the bootstrap case of `Start` are the
partial failures of `start()`: the listen address refused may be the first,
with nothing listening yet, or a later one.  A connection may open in either
case: the node's own dials need no listener.  A request's response channel is
dropped with the event, which the swarm reports as a failure (the TODO of
`R/p2p/node.rs:506`).  `view` is what the caller concludes from the events it
read; `overlapped` is history: the peers that had two connections at a time
since they last had none.  The two fields of an event are its kind and its
peer; payloads, topics of gossip and addresses are left out, and so are
`publish` and `put_dht`, which change nothing the node keeps.

### Erasure, ChunkCipher, FileManager

`Erasure` translates `encode` and `decode`: shards of `ceil(n / DataShards)`
bytes, zero padding, one column of the Reed-Solomon code per byte position,
the refusals (no data, wrong number of shards, too few, unequal lengths) and
the truncation to the size asked for.  The Reed-Solomon library is external:
`Parity` and `Recover` are constants, and `ErasureAssumption` says what the
code relies on, that any `DataShards` bytes of a column give back its data
bytes.  Numbers of shards the library refuses are excluded by it.

`ChunkCipher` translates `encrypt_file`, `decrypt_file`, `decrypt_chunk` and
the byte format.  A sealed chunk is a sequence of symbols that only the same
key, complete, opens (AES-256-GCM); nonces are taken not to repeat.  The format
keeps what reconstruction relies on: a length, the data, the other fields, and
whatever follows is ignored.

`FileManager` has one index per owner.  `PrepareUpload` gives an upload its own
key; `Distribute`, `AddToIndex`, `RemoveFromIndex`, `ExportIndex`,
`ImportIndex` are the caller's steps, which may come in any order or stop
anywhere; `LoseShard` and `Restart` are the faults.  `stored` says which
upload's bytes the network answers under each shard id: a shard id is the file
id and a number, so uploads of one content share theirs.  `ReconstructFile` is
the whole download: enough shards, decode to the estimated size, unwrap the
key, parse, decrypt, compare the hash.  A content stands for its hash.
Metadata keeps what reconstruction reads: names, sizes, times, tags and
`encrypted_hash` are left out, as are the `original_size` and `chunk_size` of an
encrypted file, on which no result depends, and `owner` is both `owner_id` and
the identity whose master key wraps the file's key.

### Heartbeats

`GenerateHeartbeat` signs the device's time, which is off by `skew` from the
storing node's clock `now`; `mail` is a network that loses, repeats, delays and
reorders.  `Receive` extends a contract (`Extended`) when a heartbeat verifies
with the contract's owner and is recent; `Store` makes one (`NewContract`) and
`Drop` forgets an expired one.  The days of an extension are the caller's and
need not be the days the contract was made for: `term` is history, the days
last given to a contract.  The node's clock never goes back in the model; a
wall clock that is set back makes an extension shorten a contract, too.
`Recover` gives the device the identity of the right or of another password,
which `from_seed_phrase` cannot tell apart. `Receive` and `Drop` are external:
the repository has the operations they call and no caller yet.

### PeerManager

`peers` and `blacklist` are the two maps, with `Unknown` for no entry.  No
method awaits, so an action is a whole call.  Reliability is in tenths and
latency in tenths of a second; `Score` keeps `score()`'s weights.  The order of
a hash map is arbitrary, so `Selections` is the set of answers
`select_storage_peers` may give.  `banned` is a history variable: the latest
time any call asked a peer to be kept out until.

### QuotaManager

`quotas` is the map.  The ratio, an `f64`, is the fraction `RatioNum /
RatioDen`, and both conversions truncate as the casts do (`DivRatio`,
`MulRatio`); the rounding of the `f64` itself, which sizes above 2^53 or a
ratio that is no fraction of powers of two would show, is left out.  Nothing in
the repository calls the manager; `can_upload` and `record_upload` are tied
only by their use, which `session` models: a caller is allowed an upload,
transfers it, and records it, while other callers do the same.  `grace` and
`kept` of a session are history: whether the answer was given in the grace
period, and whether since then no other upload of the user was recorded and no
hosted shard removed.  `can_upload` and `get_quota_summary` use a `&mut` borrow
of the entry across a second use of `self`; they are modelled by their evident
order (create the entry, update the grace flag, answer).

## Runs

| Run | Shows |
|---|---|
| `storage` | `StorageManager` implements `FragmentStore`; capacity, exact subtraction and the saved index within the offer, with failing calls, crashes and the clock passing the deadlines; every life that comes up serves what was acknowledged; every operation returns |
| `storage_torn_index` | (violated) a crash while `index.json` is written leaves a node that can never load what it acknowledged |
| `vault_faults` | `LocalVault` implements `FileCatalog`; recorded files are complete, the list is fresh, deletions are final and leave nothing behind, with failing puts and deletions, restarts and a folder; every call runs out of steps |
| `peer_selection` | a blacklisted peer is out of every selection until its time; pruning never changes a selection |
| `quota_accounting` | an allowed upload still fits when recorded; no grace period is cut short; what a refusal asks for is what is missing, but for one byte, under a 3:2 ratio, where contributing helps at all |
| `auth_accounts` | id, key and files are of one account while calls neither overlap nor fail; a start logs in the account whose key is stored, or nobody, whatever was cut short, unless an account was torn or calls overlapped; the spinner always has its call |
| `auth_torn_account` | (violated) a crash between two writes mixes two accounts |
| `files` | an upload opens to its content from any `DataShards` of its shards while no shard of another upload is among them; metadata none of whose shards are left opens nothing, whatever other shards answer; every chunk opens alone |
| `files_mixed_shards` | (violated) `DataShards` intact shards are not enough once another upload of the content wrote over some of the rest |
| `node` | nobody stays listed after leaving; a peer is missed only after overlapping connections; no event is lost between two lives of `run()`; every request reaches the caller |
| `node_second_connection` | (violated) the end of one of two connections takes a connected peer off the list |
| `heartbeats` | a contract ends at most the days last given, a window and the clocks' difference after its owner's last sign of life; no extension for as many days shortens it; the days shown agree with the expiration |

Bounds.

- Fragment store: 2 ids, payloads of 1 and 2 bytes, offer 3, clock 0..2, one
  owner, one deadline.  An operation touches one fragment and the other stands
  for the rest of the index; the offer allows full, nearly full and overfull
  requests; the clock matters before, at and after the deadline.  No symmetry,
  as liveness is checked.
- Vault: 2 calls show every pairwise overlap, 2 files a loop with a next
  element, 2 shards a partly written set, 1 folder a file inside and outside.
  That calls return is checked without fairness, by what is left of each
  (`CallsRunOut`), and so with symmetry.
- Accounts: 2 phrases, 2 calls, 1 file; storage failures (a call cut short) in
  the passing run, a crash in the violated one.  A crash reaches no state that
  a failure and a new start do not, so the passing run does without it.
- Node: 2 peers, so that an event of one separates two of the other; 2
  connections per peer, the least that overlap; 4 happenings, enough to open
  two, close one and have a message or the next opening behind them.
- Files: 2 owners (symmetric), the empty content and one of 3 bytes that
  repeats a byte; chunks of 2 bytes give no chunk, a full and a short one; 2+1
  shards give padding, a spare and a missing shard; 2 uploads, of one content
  by the same or different owners, or of two.  The instance's code of symbols
  makes a parity byte the column it was computed from, so bytes of different
  columns give bytes of no file.
- Heartbeats: 2 passwords, a clock that is late, right, ahead and too far
  ahead to be heard (-1, 0, 1, 3 with a window of 2), 2 days of 2
  seconds for a new contract and 1 or 2 for an extension in a clock of 0..8, 3
  heartbeats: a contract is made, extended out of order, for fewer days too,
  expires and is made again.
- Peers: 2 peers, of two kinds, with a staleness limit and a blacklisting of 2
  seconds in a clock of 0..4, so that both run out and are renewed.
- Quota: a user with 2 overlapping sessions, sizes 1 and 2, limits small
  enough that each is hit, and a ratio of 3:2, under which both conversions
  truncate; more users do not interact.

Deadlock is not checked where the system may stop: a node whose `index.json` is
torn stays down for ever once the clock bound is reached, a finished vault has
nothing left to do, and other modules stop at their bounds.  It is checked in
`files` and `heartbeats`.

Fairness.  `FairSpec` of the fragment store assumes only that an awaited call
of an operation that was started ends, as the runtime guarantees; nothing is
assumed about callers, faults or the clock.  `FairSpec` of the node assumes
that `run()`, while it is polled and events are waiting, takes the next
(`WF_vars(Step)`); nothing is assumed of the caller, who may drop it for ever,
nor of the network.

## Proofs

Each theorem holds for every value of the constants its module's assumptions
allow, unless its statement says more.

`StorageManagerProofs`: every set of ids, owners and payloads, every size,
offer and choice of faults.

- The bytes of an index are the cardinality of its byte slots, so that sums
  need no induction: `InsertBytes`, `RemoveBytes` and `SameBytes` say what
  inserting, removing and re-dating a fragment does to them.
- `CapacityInv` is the inductive invariant behind `TypeCorrect`,
  `CapacityHolds`, `SubtractionExact` and `SavedFits`.  `CapacityRespected`
  alone is not inductive: a store relies on the check made before its awaits
  (`HasSpace` while it creates and writes), a deletion on the bytes of the
  fragment already out of the index still being counted (`NeverSaturates`),
  and a restart on the saved index fitting (`SavedIndexFits`).
- `DurableInv` is behind `AckedServed`: what was acknowledged is in its file,
  in the index in memory and in every index a restart could load, that is, in
  `index.json` whenever it is not torn.  The theorem leaves a torn one out, as
  it must.
- `OperationsEnd` is the safety part of `OperationsReturn`: with every step of
  the manager what is left of the operation (`Left`, the steps after its await
  and five for each id a cleanup still has) gets less, and a cleanup finds
  every id it collected (`SweepGoesOn`).  `TodoInv` says that the ids collected
  stay in the index until their turn.
- `StoreImplemented`: `Spec => ImplementsStore`.  The initial states map to
  initial states; the end of an acknowledged store maps to `Store`, the
  truncation of its file or the beginning of its deletion to `Release`, a crash
  and a start to `StartOrStop`, every other step to a step that changes nothing
  that is kept.  What is kept fits because it is part of the index, whose bytes
  `CapacityInv` bounds; what is read back follows from `DurableInv`.

`LocalVaultProofs`: any number of overlapping calls, files, folders and shards,
with crashes and failing puts.  One invariant, `IInv`, is behind `TypeCorrect`,
`CompleteTheorem`, `FinalTheorem`, `NothingLeftTheorem` and `FreshTheorem`.
None of the four properties is inductive: each says nothing of the calls that
are half way.

- `Shape` says what a call holds at each await; `Fresh` that a file which is
  recorded, listed or being deleted is of no upload, and no file of two, since
  ids are never given out twice.
- `Saved` says how far an upload is with its file: the shards below its step,
  all of them, the metadata.  It makes the record, saved last, complete.
- `Asked` and `Final` say who will delete the record of a file whose deletion
  was asked for; `Erased` how far a deletion is; `Accounted` that nothing
  else leaves shards or metadata without a record; `Stale` that whenever the
  list differs from the box a call is running that will load it again.

Two more theorems rest on `IInv`.

- `CatalogImplemented`: `Spec => ImplementsCatalog`.  `SaveShard` and
  `SaveMetadata` map to `Prepare` when they complete the file, `SaveRecord` to
  `Publish`, the beginning of a deletion and the lookup of a folder's files to
  `Condemn`, the deletions of shards and metadata to `Spoil`, those of records
  to `Withdraw`, every other step, failures and restarts included, to none.  A
  file deleted from a stale list is one already condemned: that needs `Stale`
  and, of files swept with their folder, `SweptAsked`.
- `CallsEnd` (`CallsRunOut`) is for finitely many file ids: each await of a
  call, and each exception, takes from what is left of it (`StepsLeft`), and no
  step of another call adds to it.  A picker may stay open for ever.

`AuthKeysProofs`: any number of phrases, calls and files, with failures and
crashes.  `IInv` is behind `TypeCorrect`, `SpinnerTheorem`, `IdTheorem`,
`KeyTheorem` and the action property `LoadTheorem`.  `IdIsOfKey` speaks only of
states in which no account operation runs, so the strengthening says what each
call has done so far: `Solo` (without overlaps one call runs), `OneAccount`
(entries already written are of the call's phrase, entries yet to be written
are still in its list, and an upload's key is looked up for the account shown),
`Loaded` (what a load has read is what is there) and `FormTodo` (creation and
recovery never write the entry of the fallback key).  `LoadTheorem` goes on
after failures and crashes and needs an invariant of its own, `Whole`: the
entries a load needs are one account's or not all there, since every account
operation writes its key first (`KeyComesFirst`) and only a stop between key and
id over a named account, "torn", mixes two (`HalfWritten`).
`CallsEnd` bounds the calls: each await takes from what is left of its call
(`StepsLeft`), no step of another call adds to it, and the end of a load, a
creation or a recovery resets `isLoading`.  With `SpinnerHasCall`, a spinner
shown has a call behind it with boundedly many awaits to go.

`P2PNodeProofs`: any number of peers, connections, events and lives of `run()`.

- `TypeCorrect` and `GhostTheorem` (`NoGhosts`).  A peer on the list relies on
  what is in the queue, and the queue on its order: `OpensLast` says that an
  opening whose connection is gone has its end behind it.
- `MissedTheorem` (`MissedOnlyIfOverlapped`).  `MissedInv` says of a connected
  peer without overlapping connections that it is `Listed` (on the list, and no
  end in the queue takes it off) or `Opening` (an opening in the queue, and no
  end behind it); two connections at a time make a peer `overlapped`.
- `ViewTheorem` (`ViewFollows`).  What the caller will know is a fold over the
  channel, so the proof is an induction over it: `FoldAppend` and `FoldTail` say
  that telling an event adds its effect last and that reading one takes its
  effect first.
- `RequestsTheorem` is the safety part of `RequestSurfaces`: with each turn of
  `run()` a request moves up by one in the swarm's queue, it never loses its
  place otherwise, and at the head it is told to the caller; and there is an
  arm for every event.

`FileManagerProofs`: any files, owners, numbers of uploads and shards, chunk
sizes and libraries that satisfy the assumptions below.

- What an upload opens to is computed by recursive functions: the
  concatenation of the chunks and their offsets.  `Induction` and `Recursion`
  derive the induction they need, as statements about sets of numbers, from
  the well-foundedness of `<`; `FlattenSlices` then says where each piece of a
  concatenation begins and that nothing else is in it.
- Each stage of an upload has its inverse.  `DecryptEncrypted`: decrypting an
  encrypted file gives the text, for every length and chunk size, the empty
  text and the short last chunk included.  `ParsePadded`: parsing the bytes of
  an encrypted file gives it back, whatever follows them.  `RoundTripPadded`:
  whichever `DataShards` or more of the shards are left, decoding gives the
  data, followed by zeros when a larger size is asked for, as the file manager
  does.  `RoundTrip`: exactly the data when its size is.  `TooFewRefused`: fewer
  shards are an error, never other data.
- `IInv` says that whatever is prepared, indexed, exported or imported is the
  metadata of an upload that was made, under its own file's id, and that every
  stored shard is of an upload.  With it `TypeCorrect` and `UploadsOpen`
  (`UploadOpens`), which joins the stages.
- `ChunksOpenAlone` (`ChunksOpen`) speaks of every file that opens, one decoded
  from shards of two uploads of a content included.  Two such uploads have
  headers, chunks and fields in the same places (`SameLayout`), so each
  recovered byte is of one of them or of none, and a chunk that decrypts as
  part of the file decrypts alone.
- `StaleTheorem` (`StaleOpensNothing`): every chunk of a file that opens was
  sealed with its metadata's key (`OpenedChunks`), so some shard is of the
  upload the metadata is of: without one, metadata that an import brought back
  or a re-upload overtook opens nothing.

Its assumptions, which TLC evaluates for the instance: `ErasureAssumption`;
`CipherAssumption` (chunks and seals have a length); `FileAssumption` (a file
is a sequence, and its encrypted bytes are in `Byte`); `NoneAssumption` (no
metadata equals its absence); and, for `ChunksOpenAlone` and `StaleTheorem`
only, `MixtureAssumption`: what is decoded from shards of several uploads does
not by chance make up a length, a sealed byte or a field that is at its place
in none of them.  Of sealed bytes AES-256-GCM's authentication promises as
much; the others are a few random bytes out of all there are.

`HeartbeatsProofs`: any days of contracts and extensions, window, clocks,
identities and fragments. `TypeCorrect`; `EndsTheorem` (`EndsWithOwner`), whose
invariant relates every heartbeat still in the mail to the last sign of life of
its sender, since any of them may arrive next; `ExtendTheorem`
(`NeverShortened`), from an invariant that no contract ends later than the days
last given to it from now; `DaysTheorem` (`DaysAgree`), the division that
truncates towards zero.

`PeerManagerProofs`:

- `TypeCorrect`: reliability stays within 0.0 .. 1.0 for any deltas.
- `BanTheorem`: when every duration is the automatic one (`Durations \subseteq
  {AutoBan}`), a peer is out of every selection until the latest time asked
  for.  The invariant `BanInv` adds that `banned` is at most one duration ahead
  of the clock, so that the last call, which decides the entry, is also the
  latest time asked for.
- `PruneTheorem`: pruning never changes who is healthy.

`QuotaManagerProofs`:

- `TypeCorrect`: no count falls below zero.
- `GraceTheorem`: nobody is out of grace before the period is over.
- `FitsTheorem`: what was allowed outside the grace period fits when it is
  recorded, for any ratio, limit and number of overlapping sessions, unless
  overtaken.  It rests on `AllowanceMonotone` (contributing more never takes
  storage away, truncation included) and on a session's user having an entry.
- `NeededTheorem` (`NeededIsExact`), for every ratio and every contribution up
  to beyond the need: less than what a refusal asks for is not enough, as much
  is, but for one byte when the ratio truncates; in the grace period and beyond
  `MaxUsage` nothing is.

Only model-checked: liveness under fairness (`OperationsReturn`,
`RequestSurfaces`), which needs `ENABLED` and is out of TLAPS's reach.  What
can be proved of each without it is the theorem named above: the steps left
decrease, and there is always a step to take.  For the calls of the vault and of
the account it is proved that the steps left decrease; that the awaits of a call
end, which it then takes to return, is not stated.  Every
invariant, action property and refinement the passing runs check is proved.

## Disagreements between the code and what is said of it

Shown by a run: `storage_torn_index`, `auth_torn_account`,
`files_mixed_shards`, `node_second_connection`.  Met while modelling, allowed
by the actions, and without a run of their own:

Fragment store

- `index.json` is overwritten in place (`R/p2p/storage_protocol.rs:109`): a
  crash during the write leaves a node that never loads an index again, "Load
  existing index if present" of line 87 notwithstanding (`storage_torn_index`).
- Storing an id that is already stored adds its size to the counter again
  (`R/p2p/storage_protocol.rs:166`, and nothing subtracts the old entry's), so
  "Currently used storage (bytes)" (line 18) exceeds what is used until a
  restart.
- A fragment written by a store that dies before the index is saved stays on
  disk, uncounted (line 146), so the disk can pass the "Maximum storage offered
  to network" of line 15.
- `extend_fragment` (line 233) can bring a deadline forward.

P2P node

- A request or lookup that fails is never reported to the caller
  (`R/p2p/node.rs:531`), and a `StorageResponse` does not say which request it
  answers.
- `start()` that fails half way leaves listeners behind and no subscriptions
  (`R/p2p/node.rs:315-345`); nothing undoes them.

Files and cryptography of the core

- `import_index` replaces newer metadata of a file by an older export's
  (`R/storage/file_manager.rs:396`).
- `extend` for fewer days than a contract was given before brings its
  expiration forward (`R/p2p/protocol.rs:260`).
- A heartbeat that arrives after the expiration, within the window, revives an
  expired contract that was not dropped yet, and `extend` changes `expires_at`,
  which is part of the `signing_data` both parties signed
  (`R/p2p/protocol.rs`).

Quota and peers

- A refusal says "Para fazer upload de {} bytes, você precisa contribuir {}
  bytes para a rede" (`R/storage/quota.rs:163`).  In the grace period no
  contribution helps, since `available_storage` answers `min_contribution`
  whatever was contributed (lines 80-83); beyond `max_usage` none helps either;
  and under a ratio of 1.5 the number can be one byte short, as two conversions
  truncate (line 174, and the allowance it is compared with).  `NeededIsExact`
  says that these are all the cases.
- In the grace period every upload up to `min_contribution` is allowed,
  whatever is used already (`R/storage/quota.rs:82`), past the "Maximum storage
  a user can use" of line 16; and two checks before the first record are
  promised the same bytes.
- A later `blacklist_peer` with a shorter duration ends a longer blacklisting
  (`R/p2p/discovery.rs:138`).

App

- Deleting a folder deletes the records of its files only; their shards and
  metadata stay, and no record is left to delete them by
  (`F/services/database_service.dart:64-67`).  An upload into a folder that is
  being deleted can record its file in a folder that no longer exists.
- Files of an account stay listed after its logout, for the next account, which
  cannot open them (`F/providers/auth_provider.dart:166-169`).
- `reconstructFromShards` (`F/services/crypto_service.dart:284`) skips missing
  data shards and never uses a parity shard, so any missing data shard makes a
  file unreadable although any 10 of 14 pass its check.
- The second of two forms, opened after leaving the first with its call
  running, interleaves its writes with that call's
  (`F/providers/auth_provider.dart:94`, `135`).
- After a logout the home screen stays open if the closed dialog's context is
  no longer mounted (`F/screens/settings/settings_screen.dart:212`); the next
  upload generates a temporary key, which `F/services/crypto_service.dart:45`
  says "should not happen in normal flow".
- A recovery without a password leaves the encrypted phrase of the previous
  account as the backup (`F/providers/auth_provider.dart:143`).
- The splash screen reads the login state before the load it starts has
  answered, so a saved account leads to the welcome screen
  (`F/screens/splash_screen.dart:55`).

## Not modelled

- `R/crypto/hashing.rs`: its module is private and nothing in the crate uses
  the incremental hasher or the Merkle tree.
- The message types of `R/p2p/protocol.rs` that no handler reads yet,
  `signing_data`, and `peer_storage_info`, which is never written.
- `F/services/crypto_service.dart` beyond the lookup of the master key: pure
  code with no state; see the disagreement on `reconstructFromShards`.
- Downloads, search and statistics of the vault: they read and change nothing.
- `F/providers/network_provider.dart` is a mock over timers, and
  `storage_provider.dart` saves two numbers.
- The Rust bridge (stubs), the library facade, start-up, the screens'
  presentation and the theme keep no state of their own worth a model.
- Argon2, ChaCha20-Poly1305, AES-GCM, Ed25519, BLAKE3, the arithmetic of
  Reed-Solomon and libp2p's own behaviour are taken to do what they promise.

## Plan

Done: every component above with a state of its own is modelled, and every
property of the passing runs but the two liveness properties is proved; the
fragment store and the vault are proved to implement their abstract
specifications.

1. Abstract specifications of the account (`AuthKeys`) and of the contracts
   (`Heartbeats`), and their refinement.
2. The composition of `P2PNode` with `StorageManager`, once the node has a
   handler that answers requests from the store.
3. The app's shard code as operators, beside `Erasure`, once reconstruction
   uses the parity shards.
4. The network and storage providers when they are connected to the bridge.
