# A TLA+ model of bitcask-rs

bitcask-rs is a log-structured key/value store: records are appended to data
files, an in-memory index maps every key to the position of its newest record,
batches are made atomic by a closing record, and a merge copies the live
records into fresh files that the next open installs. A Redis layer keeps
strings, hashes, sets, lists and sorted sets in it. This directory models the
engine, its iterators, its batches, its merge, its recovery and the Redis layer,
checks them with TLC, and proves with TLAPS, for every value of the constants,
that the running engine, its batches, its iterators and the Redis layer are
correct.

Source paths below are relative to `src/bitcask-rs/src/`, those of the Redis
layer to `src/redis/src/`.

## Inventory

| Component | State | Operations | Where it is hard |
|---|---|---|---|
| Data files (`data/`) | bytes, `write_off` per file | write, read at an offset, sync | the position comes from `write_off`, the bytes go to the end of the file |
| File I/O (`fio/`) | file handles, maps | append, positional read, `sync_data`, mapped read | failures, short reads at the end of a file or a map |
| Engine (`db.rs`) | `active_file`, `older_files`, `index`, `bytes_write`, `reclaim_size` | put, get, delete, sync, stat, backup | log and index are under different locks; rotation takes two locks; every I/O call can fail |
| Indexes (`index/`) | key to position | put, get, delete, iterate | `SkipList::put` is two calls, the second of which removes and inserts; the B+ tree is persistent |
| Write batches (`batch.rs`) | pending records, `seq_no`, `batch_commit_lock` | put, delete, commit | atomicity against readers, crashes and failed commits |
| Merge (`merge.rs`) | `merging_lock`, merge directory, hint file, merge-finished file | merge | runs next to writers; lock order; what is "live" changes during the scan |
| Open and close (`db.rs`, `merge.rs`) | the directory | open, close, install a merge, replay | crashes between any two steps; which file becomes active |
| Iterators (`iterator.rs`, `index/`) | a copy of the index, a cursor, a lock | iter, rewind, seek, next | the store moves on under the copy; threads share the iterator; `SkipList` is copied while it changes |
| Backup (`util/file.rs`) | none | copy the directory | copies files that are being written |
| Redis layer (`types.rs`, `meta.rs`, `generic.rs`, `main.rs`) | the metadata and every entry of a value under separate keys of the engine | 16 commands | read-modify-write of several keys, right only under the server's mutex; versions from the clock; failed reads and writes half way; restarts |
| HTTP server (`src/http`) | none | one engine call per request | nothing of its own |

Interactions: client threads call the engine directly and share it; a commit
and a merge are clients of `append_log_record` (the merge of that of a second
engine in the merge directory); the merge communicates with the next open
through the merge directory only. What makes the parts correct:

* engine: each key behaves like an atomic map entry (with the skip list, one
  that may be missing while a put replaces it); an index entry always
  points to a readable record of its key; closed files are durable;
* batches: all or nothing, for readers' files and for a restart;
* merge: the copy holds all that it replaces and replaces nothing in use;
* iterators: each entry of the copy once, in order, with the value it had;
* recovery: a restart loses nothing that was there, resp. nothing synced;
* Redis layer: the metadata agrees with the entries, and every command acts on
  the value of its key as a whole.

## Modules

| Module | Models |
|---|---|
| `DataFile` | records, positions, key parsing, reading a file at an offset |
| `KVStore` | abstract: a map with atomic writes and calls in progress; for the skip list, puts that may remove the old value before they set the new one |
| `Engine` | put, get, delete, sync of a running engine shared by threads; `INSTANCE`s `KVStore` under a refinement mapping |
| `EngineProofs` | the inductive invariant of `Engine` and what follows from it |
| `EngineRefinement` | the proof that `Engine` implements `KVStore` |
| `Iterator` | extends `Engine` with an iterator that threads share |
| `IteratorProofs` | its inductive invariant and what follows from it |
| `WriteBatch` | extends `Engine` with batches |
| `WriteBatchProofs` | its inductive invariant and what follows from it |
| `Merge` | extends `WriteBatch` with merge |
| `MergeProofs` | its inductive invariant and what follows from it |
| `ReclaimProofs` | sums over finite sets, and the balance of `reclaim_size` under puts, commits and merges |
| `Restart` | extends `Merge` with close, crash, power failure and open |
| `RedisCommands` | the commands of the Redis layer and their answers |
| `RedisTypes` | abstract: keys that hold a value of one of five types, each command one step |
| `Redis` | the commands as the code runs them over an engine with a log; `INSTANCE`s `RedisTypes` under a refinement mapping |
| `RedisProofs` | the inductive invariant of `Redis` and what follows from it |
| `RedisRefinement` | the proof that `Redis` implements `RedisTypes` |
| `MCEngine`, `MCIterator`, `MCWriteBatch`, `MCMerge`, `MCRestart`, `MCRedis` | values of the constants for TLC |

**State.** A disk is a set of entries, each with its file, offset, size and
decoded content, plus the length of every file and how much of it is synced.
Since files are opened for appending, an entry lands at the length of its file
(`Entry(fid, flen[fid], r)`), while the position that is indexed comes from
`write_off`; the two are separate in the model as they are in the code.
Key and value bytes are abstract. Keys that are written without a sequence
number (`Engine::delete`) are parsed by the constant `RawParse`: whatever the
varint decoder makes of the first bytes of the key.

**Steps.** A thread's step ends where another thread can interfere: at taking
`active_file`, at the acquisition of `older_files` by a merge, between append
and index update, between the steps of `SkipList::put`, at every record of
a commit or a merge scan. Inside a critical section `append_log_record` is one
step with an outcome: success, the sync of the full file failing (`rotate`), a
panic on opening the next file (`create`), the write failing (`write`), or the
last sync failing (`sync`). Every read of a value by a get, an iterator, a
commit's `delete` or the scan of a merge can fail too (`read`), and in a merge
so can the open by which the old active file is kept for readers (`reopen`) and
those of the files to merge, the hint file and the second engine (`open`). Requests that the code refuses without a change
(empty key, missing key, batch too large, merge running or not worth it) are
guards. Getting the two read locks of `is_empty_engine` is one step; the cycle
it could be part of is the one `NoLockCycle` already shows with a get.
The size of the directory that merge compares is the size of its data files.

**Indexes.** What tells the three indexes apart while the engine runs is whether
a put is one step (BTree under its lock, B+ tree in a transaction) or two
(SkipList): the constant `PutInTwoSteps`. `SkipMap::insert` is documented to
remove an existing entry before it inserts the new one, and not said to do so
atomically: in the model it is a step that removes (`SkipListRemove`), while
there is an entry, and a step that inserts (`SkipListInsert`), and others come
in between. `SkipMap::get`, `remove` and each of these two steps are taken to be
atomic. `KVStore` says what is left of the promise then: once a put has begun to
insert (`KVBegin`) it cannot fail, and until it has taken effect its key may be
removed (`KVRemove`); a get may miss the key, and never sees a third value.

**Iterator.** The copy is one step for the trees and one step per key for the
skip list (`SkipListCopy`, where `scan` is the rank of the key the walk comes to
next, then `SkipListCopied`); the latter allows every mixture of entries that a
walk along a changing list can see. `next` takes the iterator's lock
(`NextEntry`), then `active_file` (`NextLock`), and reads (`NextRead`). If the
read fails `next` returns None and the cursor has passed the entry, which `lost`
remembers. While an
iterator is copied nobody else has it yet, which `iterLock` expresses too. There is
one iterator at a time: iterators share nothing with each other.
`flod` is a client of `iter` and `next`, `list_keys` the keys of a copy.

**Restart.** `phase` says whether the engine is open. `Close`, `Crash` and
`PowerFail` end a run; `OpenStart`, `InstallDelete`, `InstallMove...` and
`InstallDone` are `load_merge_files` with a possible crash after each file
operation; `Load` is the rest of `Engine::open`, which has no effect on the
directory and is one step. Replay is a fold over the entries in file order, with
the buffer of unfinished batches. A torn record is a file that is longer than
its last entry: it reads as corrupt, or as the end of the file when a single
byte is left, as in `read_log_record`. A B+ tree is a file that outlives the
process: `LoadTree` keeps the index, takes the write offset from the length of
the active file and the sequence number from the seq-no file, which it removes;
`canBatch` says whether `new_write_batch` hands out batches. A directory that
exists when it is first opened, even an empty one, never counts as new: the
lock file is created in it before `open` counts its entries.

**Redis.** A command takes the server's mutex (`Handle`), reads (`Read`), writes
(`Commit`) and answers (`Reply`); each is a step, so that another client could
come in between. The server registers seven of the commands; all sixteen of
`RedisDataStructure` are modelled as handlers of the same kind. The handlers'
argument checks change nothing and are left out. Keys of the engine
are tuples of what `meta.rs` concatenates: the numbers and lengths in them are
taken to keep keys of different kinds apart. The engine is the map that
`EngineRefinement` shows it to be, with a log: `images` is the sequence of maps
that replays of the log give, of its synced part first, then with each of the
writes that came after. A restart finds one of them, the last when only the
process dies. There is one data file. The tombstone of a `del` is what
`Engine::delete` writes, the bare key, and a replay parses it (`RawParse`) as a
sequence number and another key: `Replayed` strikes that key out at once if the
number is 0 and otherwise with the batch of this number, if one is still to
come (`waiting`, `seqNo`); its own key it leaves, so a `del` may come undone.
`scans` says for each image whether all tombstones up to there can be parsed,
and the highest number met, above which the numbers go on after a restart. A
server that cannot parse its log does not start: `up` is false, and it takes no
commands (`store` is then what the log has up to there, and nobody sees it). The
clock advances with every command that
may write, so that versions differ.

**History variables.** `late` (Merge) remembers the keys with a write between
log and index when the files to merge were chosen. `stable`, `allowed` and
`expect` (Restart) remember what a restart may show. `from`, `yielded`, `lost`
and `ended` (Iterator) remember what `next` has returned or passed over, and the `val` of a copied
entry the value its key had. They are never read by an
action of the system.

Operators marked "Faulty" are variants of the operator below them with a
plausible bug; each one makes the property it is paired with fail.

## Runs

| Run | Shows |
|---|---|
| `engine_live` | skip list, two threads, two keys, four records, failing rotations and writes (865,000 states): `ImplementsKVStore`, the inductive `EngineInv`, `IndexSound`, `OlderFilesDurable`, `UnsyncedBounded` |
| `iterator_scan` | skip list, two threads that put, delete, get and share an iterator, forwards, backwards and with a prefix, failing reads, fairness (214,000 states): the inductive `IterInv`, `ItemsHold`, `IterationFaithful`, `CallsReturn`, and `ImplementsKVStore` with iterators and failing reads |
| `batch_commit` | two threads, batches of up to two records and plain puts, failing reads, rotations, writes and syncs, retried commits: the inductive `BatchInv`, `BatchSealed`, `IndexedBatchesSealed`, `SealedBatchDurable`, `BatchesSerial`, `IndexSound` |
| `merge_scan` | a merge among puts, deletes and commits, all I/O errors but `reopen` (1,190,000 states): the inductive `MergeInv`, `MergeKeepsSettledKeys`, `InstallIsSafe`, `IndexSound`, the inductive `ReclaimInv` and `ReclaimAccounting`, which merge relies on (with the skip list, whose put may return the same old entry twice, it does not hold). Deadlock is not checked here because it is real: see `merge_locks` |
| `restart_crash` | one client, one file, an index in memory or a B+ tree, two restarts by close, crash or power failure: `RecoveryAtomic`, `SeqNoFresh`, `ReopenedIndexSound` |
| `restart_merge` | one client, several mapped files, a merge, a crash anywhere but in two places (`"fin"` and `"rename"` below), one reopen: `RecoveryAtomic` |
| `redis_commands` | two clients, one key, all sixteen commands, failing reads of metadata and failing writes, a restart, a tombstone that is replayed as one of a key nobody has (317,000 states): `ImplementsRedisTypes`, the inductive `RedisInv`, `SizeCounts`, `ScoresAgree` |

Runs in which the code disagrees with what it says (details under `findings` in
`PROJECT.json`):

| Run | Behaviour |
|---|---|
| `engine_order` | concurrent puts of one key: the restarted engine has another value than the running one |
| `merge_locks` | lock order of merge against rotation and get |
| `restart_delete` | a deleted key is back after a restart |
| `restart_active` | after reopening several files the wrong file is active |
| `restart_batch_merge` | a merge during a commit: half of the batch survives a restart |

The passing runs stay clear of these by their constants, not by weaker
properties: one file (`DataFileSize` large) where writes follow a reopen, no
plain delete before a restart, one client where a restart is checked, `Failures`
without `"reopen"`, keys whose tombstones are those of no other key. The
iterator's own properties are stated, and checked, with failing reads.
The following are flaws of the code as well. The passing runs leave them out by a
constant, or check a weaker property; giving the constant the value named here,
and checking the property named, makes TLC find the violation:

| Constant | Run | Violated | Because |
|---|---|---|---|
| `CrashPoints` with `"rename"` | `restart_merge` | `RecoveryAtomic` | the merge-finished file is moved among the others: dying after it loses the files not moved yet, dying before it deletes those that are |
| `CrashPoints` with `"fin"` | `restart_merge` | `ReopenSucceeds` (not a property of the run) | merge creates the merge-finished file and then writes it; dying in between leaves an empty file that counts as a finished merge, and no later open succeeds |
| none: `Failures` has `"read"` | `iterator_scan` | `NoneMeansDone` (not a property of the run) | `next` answers None for a failed read, so `flod` stops early without a sign |
| `Failures` with `"reopen"` | `merge_scan` | `IndexSound`, `MergeInv` | merge replaces the active file (`merge.rs:156`) before it has the old one open again (159): if that open fails the old file is where no reader looks |
| `RawParse <- ShorterParse`, two keys | `redis_commands` | `DelSparesOtherKeys` (not a property of the run), `ImplementsRedisTypes` | `del` of a key, the number of batches that its first byte spells, a restart: the key that is left without that byte is gone |
| `RawParse <- UnfinishedParse` | `redis_commands` | `ServerStarts` (not a property of the run) | `del` of a key whose bytes are no whole varint: `Engine::open` fails with `DecodeError`, and the server does not start again |
| `MaxHeader` above the smallest record | `restart_merge` | `RecoveryAtomic` | the 11 bytes a header read asks for reach past the end of a mapped file, whose last record is then overlooked |
| `IndexTypes = {"BPlusTree"}` | `restart_merge` | `RecoveryAtomic` | installing a merge leaves the tree with the positions of the deleted files |
| `CrashPoints` with `"tree"` | `restart_crash` | `RecoveryAtomic` | a commit updates the persistent tree key by key |
| `PowerFailures` with `"BPlusTree"` | `restart_crash` | `ReopenedIndexSound` | the tree is durable before the records it points to |
| `TornByte = TRUE` | `restart_crash` | `ReopenedIndexSound` | one byte of a torn record reads as the end of the file, and the next append goes after it |
| `Failures` with `"lookup"` | `redis_commands` | `SizeCounts`, `ImplementsRedisTypes` | `hset`, `hdel`, `sadd` and `srem` swallow a failed read |
| `Failures` with `"sync"` | `redis_commands` | `SizeCounts`, `ImplementsRedisTypes` | a commit whose sync fails is reported as failed and is back after a restart, below later commands |

**Bounds.** `MaxRecords` bounds the writes, `MaxFileId` the files, `MaxBatches`,
`MaxMerges` and `MaxOpens` the rest. With a file size of four bytes and records
of one to three bytes (in `Restart` six, and two to four) every second or third
record rotates, so two to four records give overwrites, rotations in the middle
of a commit, merges that shrink, and files that become empty. Two threads and
two keys are enough for every pairwise interleaving of writers of the same and
of different keys. Threads are symmetric and are used as a symmetry set, except
with liveness; in `merge_scan` keys are too, since all keys parse alike there. An iterator over two keys and two records sees overwritten,
deleted and rotated entries. The commands of the Redis layer work on one key each, and
the internal keys of different keys are different tuples; one key, two fields,
values and scores, and four commands that may write reach every pair of commands,
a `del` between two versions of a collection, and a restart in between. That a
`del` may act on another key takes two keys: see `ShorterParse` in the table
above. `MaxWrites` and
`MaxRestarts` bound that run, `MaxIters` the iterators.

**Fairness.** `CallsReturn` assumes that a thread inside a call keeps running
(weak fairness of its steps) and that a thread that waits for a lock that is
free again and again gets it (strong fairness of the lock steps): the locks are
parking_lot's, which are eventually fair. Clients are under no obligation to
call. `IterFairness` states this for the calls of the engine and for those of
iterators: `next` waits for the iterator's lock, which its holder gives back
after a read, and a reader of the files never waits for the iterator. With merges the property does not hold: see `merge_locks`.

## Proofs

Each proof module shows that the invariant of its component holds initially and
is preserved by every action, for any sets of threads, keys, fields and values,
any sizes and bounds, from the named assumptions on the constants alone. TLC
checks the same invariants (`EngineInv`, `BatchInv`, `IterInv`, `MergeInv`,
`ReclaimInv`, `RedisInv`) in the runs, so that what is assumed of a step is known to be reached.

**Engine.** `EngineProofs` proves `EngineSpec => []EngineInv` for any file size,
any sync options, both indexes and whichever reads, rotations, writes and syncs
fail, and from it `EngineTypeOK`,
`IndexSound`, `OlderFilesDurable` and `UnsyncedBounded`. `IndexSound` is not
inductive: a put writes the index from a position it got in an earlier step, so
the invariant adds

* `LogWellFormed`: `write_off` is the end of the active file, later files are
  empty, entries lie inside files a reader finds and do not share a start. With
  it the position computed from `write_off` is where the bytes went;
* `InFlightSound`: the position a put carries to the index holds its record,
  the one a get carries holds a record of some key;
* `LocksHeld`: locks are held by exactly the threads in their critical sections;
* `SyncAccounting`: no file is synced beyond its end, and `bytes_write` stays
  below `bytes_per_sync` unless a sync fails; with these `UnsyncedBounded`
  (the unsynced bytes of the active file are among those counted) is inductive.

What appending alone preserves (`CoreInv`: the log, the index and the files) is
separate from what the threads of the engine do, so that commits and iterators
can use it. That positions stay valid (`PositionsStable`,
`EngineStepKeepsPositions`) is shown once for a step that appends.

`EngineRefinement` proves `EngineSpec => ImplementsKVStore`. The mapping takes
the index, dereferenced in the files, for the map; a write is applied by the
step that updates the index, a get takes effect when it looks the key up, an
I/O error is a failed call. `KVStore` lets a write fail only when appends may
fail, a get only when reads may, and a put remove its key only with the skip
list (`WritesMayFail`, `ReadsMayFail`, `PutsMayRemove`), so with a tree index
and working I/O it is the plain atomic map. All other steps are
stutters because no position that is in use changes what it reads.

**Batches.** `WriteBatchProofs` proves `BatchInv`, and from it `BatchTypeOK`,
`BatchSealed`, `IndexedBatchesSealed`, `SealedBatchDurable`, `BatchesSerial` and
`IndexSound`, with any number of threads that commit, put, delete and get, any
append or sync failing and commits retried after it. The invariant says for a
commit at each point of its loop which of its records the log holds and where
the positions it has collected lead, and for the log that no sequence number in it
is still to be drawn (all are below `seq_no`, and seals are numbered), that
numbered records follow each other in the order of their numbers, and that a seal comes after all records of its
batch. That `batch_commit_lock` is held from the draw of the number to the last
index update is what makes the order of the batches that of their numbers.

What the steps of a commit preserve whatever other program counters there are
is `BatchCore`; `BatchInv` adds the program counters of this module, and merge
builds on `BatchCore`.

**Merge.** `MergeProofs` proves `MergeInv`, and from it `MergeTypeOK`,
`MergeKeepsSettledKeys`, `InstallIsSafe` and `IndexSound`, for any number of
threads, merges, commits and failures, under the hypothesis `OldFileReopens`:
the file that was active can be opened again when a merge replaces it. Without
it the first and the last are false (`"reopen"` in the table above). Neither of the two properties of the copy
is inductive: both speak of a finished merge only, and what it finished with was
decided record by record while the index and the log went on changing. The
invariant adds to `BatchCore`

* `LogLaidOut`: records of a file do not overlap, and none reaches past
  `data_file_size` except one that is alone in a file other than the first. The
  scan, which goes from the end of one record to the start of the next, thus
  meets every record;
* `FilesChosen`: the merged files are all those up to the last chosen one, and
  they are closed, so that nothing is appended behind the scan;
* `OthersAreLate`: a position that a put or a commit still has to enter into the
  index is in a later file, or its key is in `late`. So no entry of a settled
  key can come to point into a merged file after the scan has passed;
* `CopySound`: the index entry of a settled key that lies in the part the scan
  has passed has its value in the copy, and the last hint of the key leads there;
* `CopyBehindScan`: the copy is never ahead of the scan. A copied record is as
  long as the original, so it starts a new file no earlier than the original did,
  and the copy never has more files than it replaces. This needs `LogLaidOut` for
  a record that fills a file alone.

That the least file id exists (`Min`, the file the scan begins with or goes on
to) follows from the well-foundedness of `<`.

**Byte counts.** `ReclaimProofs` proves `ReclaimInv`, and from it
`ReclaimAccounting`, on top of `MergeInv` and thus under `OldFileReopens`. `ReclaimAccounting` leaves out the
records of a commit, which are in the log and not yet in the index; `ReclaimInv`
adds them (`WaitingBytes`), and says that a thread outside `commit` keeps no
positions. The sums are `MapThenSumSet`, a recursive computation over a set.
They are replaced by cardinalities: a term `n` is `n` units, and that the fold
counts units follows from a smallest subset for which it would not (subsets of a
finite set are well-founded), so that no induction rule is needed. A step then
changes at most one term of each sum, and `StepBalance` reduces it to an
inequality between five numbers. The sums need `FiniteAssumption`: finitely many
threads and keys. No other proof uses it.

**Iterators.** `IteratorProofs` proves `IterInv`, and from it `IterTypeOK`,
`ItemsHold` and `IterationFaithful`, for either way of copying the index, any
prefix, both directions, failing reads, and threads that share the iterator.
With failing reads `IterationFaithful` says that an iteration passes over no
entry but one whose read failed, and that a None before the last entry means
such a failure; that None means the end (`NoneMeansDone`) is false. The invariant
(`IterLockHeld`, `ItemsOrdered`, `WalkSound`) says who holds the iterator, that
the copied entries are ranked in its direction, and how far what `next` has
returned or lost has come: up to the cursor, or one short of it while the thread that
moved the cursor still reads the value (`Done`). `ItemsHold` needs the engine's
invariant: an entry stays readable where it was, whatever is appended.

**Redis.** `RedisProofs` proves `RedisInv`, and from it `RedisTypeOK`,
`SizeCounts` and `ScoresAgree`, under the hypothesis that neither the lookup of
an entry nor a sync fails (`Failures \subseteq {"meta", "write"}`) and that no
deleted key, without its first bytes, is a key of a client
(`TombstonesHarmless`); without the one or the other they do not hold, see the
tables above. Whether the tombstones can be parsed is left open: a server that
does not start answers nothing. `SizeCounts` speaks of
the store only and is not inductive, because a restart replaces the store. The
invariant adds

* `ImagesConsistent`: the store and every image a restart may find are
  consistent, that is, all metadata describe their entries and no key has a
  version above the clock, so that a new version starts without entries; and
  the last image has what the store has, and more only where a `del` has taken
  metadata away;
* `WriteConsistent`: the write that the one running command has decided on
  leaves both consistent. It is decided in one step and applied in a later one;
  `OneCommand` (the mutex) is why the reads are still true then.

There is one lemma for each command that writes (`HsetKeepsOrder`, ...,
`ZaddKeepsOrder`), about an arbitrary map that has the store's entries, which is
then used for the store and for the log.

`RedisRefinement` proves `RedisSpec => ImplementsRedisTypes` under the same
hypotheses. What a key holds is put together from its metadata and the entries
of that version (`ItemsIn`). For each command on a collection there is a lemma
(`HsetServes`, ..., `ZscoreServes`) that its answer and the items after its
write are those `RedisTypes` names, again for an arbitrary map with the store's
entries; with the lemmas for `set`, `get`, `del` and `type` they give
`DecisionDelivers`. A command that writes takes effect when it writes, not when
it decides: the step of its reads only moves the clock. So the invariant
`RefinementInv` carries what was decided across: the answer and the write of a
command that is about to write still deliver for the store and for the last
image (`Prepared`), and strings expire at a time or at 0, which is where the
code's `expire > 0` and the promise's `expire # 0` agree. A command that writes
nothing, fails or is refused takes effect when it reads. A restart takes one of
the images for all keys, so each key gets something that was recoverable for it.

Only model-checked: liveness (`CallsReturn`), since fairness is beyond the
prover; and the properties of `Restart`. Those hold only for the instances described above (with other values of the
constants they are violated, which the tables list), and replay is a fold over
sequences of records.

## Not modelled

* Contents of keys and values, crc and varint layout (by what they decide: the
  length, and readable or not); directory syncs; short writes.
* The file lock of a directory, `stat`, and `backup`, a copy of the
  directory file by file while it is written to, of which no document says what
  it may be used for.
* What a client does with an error: `WriteBatch::delete` takes a get that failed
  for a missing key and drops the pending record of the key. That is modelled,
  and the batch is right as a batch of what is then pending; no property speaks
  of the record that was dropped.
* That a record is back after a restart although its sync failed and the call
  returned an error: `BatchSealed` is about the running engine and does not
  exclude it.
* Failures inside the jammdb library (`BPlusTree::put` logs them and goes on),
  and a B+ tree with `mmap_at_startup`, whose active file stays mapped and
  cannot be written.
* A second merge after a reopen with several files, which starts from the state
  that `restart_active` shows to be wrong already.
* Of the Redis server: `set` that writes "OK" after an error, a score that does
  not parse and panics with the mutex held, expiry of collections (no command
  sets it), a clock that is set back, and internal keys that collide because
  a client's own key equals one.
* The HTTP server, which adds nothing to the engine calls.

## Plan

1. `DataFile`, `Engine`, `KVStore`, their proofs; `WriteBatch`; `Merge`;
   `Restart` (done).
2. `Iterator` over a changing store; the B+ tree in `Restart`; `Redis` and
   `RedisTypes` (done).
3. Proofs of the invariants of `Engine`, `WriteBatch`, `Iterator` and `Redis`
   (done).
4. Proofs about `Merge` and the byte counts (done).
5. The refinement of `RedisTypes` (done).
6. Proofs about the steps of `Restart` that do not replay (open).
7. Short writes in `append_log_record`; `backup` of a directory being written.
