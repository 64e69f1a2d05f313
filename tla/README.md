# TLA+ specifications of encryptedfs

Specifications of the state-keeping parts of encryptedfs (`src/`), checked with
TLC on small instances and proved, where stated, with TLAPS for every value of
their constants. Source paths below are relative to `src/src/`.

## The system

encryptedfs is a FUSE file system in Rust on tokio. A *data directory* holds

* `inodes/<ino>`: an encrypted `FileAttr` per inode, replaced atomically;
* `contents/<ino>`: the encrypted contents of a file (blocks of `BLOCK_SIZE`
  bytes, each encrypted with its index as associated data), or, of a directory,
  an `LS` directory (one entry per child, listed) and a `HASH` directory (one
  entry per child under the hash of its name, looked up);
* `security/key.salt`, `security/key.enc`: the salt and the master key
  encrypted with the key derived from the password.

| component | state | operations | interacts with |
|---|---|---|---|
| open files (`encryptedfs.rs`) | `read_handles`, `write_handles`, `opened_files_for_read`, `opened_files_for_write`, `current_handle`; contexts with a buffering reader or writer | open, read, write, flush, release, set_len, copy_file_range | resets readers of other handles after a change; attribute store; readers and writers |
| attribute store (`encryptedfs.rs`) | inode files, `attr_cache`, the attribute in write contexts | get_attr, set_attr, get_inode_from_cache_or_storage, write_inode_to_storage | every call; merged by maximum of sizes and times |
| directory tree (`encryptedfs.rs`) | contents directories, `dir_entries_meta_cache`, `dir_entries_name_cache` | create, remove_file, remove_dir, rename, find_by_name, read_dir, read_dir_plus | several host operations per call, some as concurrent tasks |
| writer (`crypto/write.rs`, `crypto/buf_mut.rs`) | block buffer, dirty flag, block index, file cursor | write, seek, flush, finish | driven by write, flush, release, set_len |
| reader (`crypto/read.rs`) | block buffer, block index, file cursor | read, seek | driven by read; recreated by reset_handles |
| ArcHashMap (`arc_hashmap.rs`) | map of values with reference counts | insert, get, get_or_insert_with, drop of a Holder, purge | gives every call its per-inode locks |
| ExpireValue (`expire_value.rs`) | cached value, weak reference | get, clear, expiry | holds the key and the caches |
| key store (`encryptedfs.rs`) | salt and key files | ensure_structure_created, read_or_create_key, passwd | password provider, keyring |
| command line (`main.rs`, `keyring.rs`) | keyring entry, mount handle | mount, change-password, exit handler | key store |
| FUSE adapter (`mount/linux.rs`) | none of its own; decides who may do what | every kernel request | all of the above |
| stream_util, fs_util, async_util, crypto.rs | none | copying, seeking, opening for atomic replacement, ciphers | readers, writers, set_len |

What is hard about it: reference counts that are decremented outside the lock
that protects the map; blocks that are buffered in readers and writers on
several handles at once; a size that is stored in three places; calls that
consist of many host operations without a log, some run concurrently; positions
at block boundaries; a key that expires while another process changes the
password; requests that run as tasks of their own, with table guards held over
awaits and others dropped too early; a cache that is filled after its lock was
dropped; permission checks spread over the handlers. `PROJECT.json` lists these
hazards at their lines, with the properties that cover them.

What makes the components correct: one lock per inode; files that behave as
plain sequences of bytes whatever is buffered; handle tables that agree; stored
blocks that decrypt; readers that return the bytes at their offset; a directory
tree whose two forms agree and whose names resolve; a key file that always
opens to the key of the data; attributes that keep every field as it was last
set; names that only those change who may write the directory.

## Modules

| module | models | state and actions |
|---|---|---|
| `ByteSeq` | helpers | sequences of bytes; `CopyPrefix` is what `stream_util` copies and zero-fills, `PutByte` what a write does |
| `PlainFile` | abstract | regular files as users see them: bytes and size, changed by write, truncate, unlink |
| `OpenFiles` | open files, attribute store | the four tables are `rh`, `wh`, `ofr`, `ofw`; `disk` the contents, `inode` and `cache` the sizes; one action per call and one per way it fails halfway |
| `OpenFilesProofs` | | proofs about `OpenFiles` |
| `FileCalls`, `MCFileCalls`, `FileCallsProofs` | open files, the locks of their calls | `call`, `todo` are the running requests, `rd`, `wr`, `queue` tokio's locks on tables, inodes, updates and contexts; starting a call, taking a lock with what follows it up to the next await, and queueing are the actions |
| `ExpireValue` | `ExpireValue` | `slot`, `weak`, the strong references `refs`; the three parts of `get` and the expiry |
| `AttrStore`, `MCAttrStore`, `StoreProofs` | attribute store of one inode, over `ExpireValue` | `file` is the inode file, `entry[v]` its entry in cache `v`; the steps of get_attr, set_attr and remove between two awaits |
| `FuseAdapter`, `MCFuseAdapter`, `FuseAdapterProofs` | FUSE adapter | `attr`, `entries`, `contents`, `handles` are the file system below; one action per request, with its permission checks, and `reply` for its answer |
| `BlockStore` | format of contents files | a file is a sequence of blocks; `Torn` is a block that does not decrypt |
| `SeekableFile` | abstract | one sequence of bytes under writes and extension |
| `CryptoWriter`, `CryptoWriterProofs` | `RingCryptoWriteSeek` with its `BufMut` | `w` is the writer and its file; the methods are functions of it, the actions are the calls EncryptedFs makes |
| `CryptoReader`, `CryptoReaderProofs` | `RingCryptoRead` with seek | `r` is the reader and its file, `got` the last read |
| `CryptoFile` | a contents file between both | composes the two: the writer of `CryptoWriter` changes the file, readers of `CryptoReader` are opened on what it left |
| `Namespace`, `NamespaceProofs` | directory tree, root creation | `inodes`, `contents`, `hash`, `ls`, `dot`, `up` are host files; `todo` is what is left of the running call, `late` what spawned tasks of failed calls still have to write |
| `KeyStore`, `StoreProofs` | key store, keyring, key expiry | per data directory: files, mount process, running passwd; one keyring entry |
| `KeyedRwLock` | abstract | one reader-writer lock per key |
| `ArcHashMap`, `MCArcHashMap`, `ArcHashMapProofs` | `ArcHashMap` used as map of locks | a Holder is a process; decrement, purge and each entry a purge visits are steps |

`OpenFiles` implements `PlainFile` (`PlainFiles`), `CryptoWriter` implements
`SeekableFile` (`ActsAsFile`), `ArcHashMap` implements `KeyedRwLock`
(`KeyedLocking`): each is an `INSTANCE ... WITH` and a property of a run.

Definitions named `...Unchecked`, `...KeepsPos`, `...Uncleared` and the like,
each before the definition it varies, are versions of the code with one
plausible mistake. No specification uses them; each shows that a property
notices the mistake when it is put in place of the definition that follows it.

### Abstractions

* `OpenFiles`: one call is one step. A file fits into one block, so that the
  reader's buffer is a copy of the file or nothing (`snap`) and the writer's
  buffer the whole file (`data`); files of several blocks are the subject of
  `CryptoWriter` and `CryptoReader`. Times, permissions and owners are left out.
  With `fault`, storing a block may fail at every call that stores one (write,
  flush, release, set_len): encrypt_and_write seals the buffer in place before it
  writes, so that the file, the buffer that is still dirty, or both are `Damaged`
  then (`SealFails`); set_len may stop after it has replaced the file, and its
  writer is `detached` from it (`SetLenStops`). `written` is a history variable, what
  the calls that succeeded gave to the file; no guard depends on it. Left out: a
  failure to open the file again for the writer in the second reset_handles of
  set_len. `Env` says what may happen besides calls: host operations that fail
  (`fault`), death of the process (`crash`), and two uses that the code does
  not survive unharmed and that have runs of their own, so that the other runs
  can say what holds without them: truncation with a reader and a writer open
  (`shrink_open`) and removal of an open file (`unlink_open`). A call that
  panics sets `panicked`, and the model stops.
* `FileCalls`: the same calls at the awaits of their locks, without the bytes: a
  reader's buffer is empty, fresh or stale. A running call is a list of
  instructions; an instruction awaits a lock, has its effect and puts those that
  follow from what it found in front of the list. Two awaits of one table in a
  row with nothing decided in between are one. Locks are served first come,
  first served, as tokio documents. Host operations do not fail (they do in
  `OpenFiles`), but a write that meets a writer set_len has just finished does.
  Locks under which nothing else is awaited are left out. Opens overlap like all
  other calls; `raced` remembers the files for which two of them both found no
  writer, and no guard depends on it.
* `AttrStore`: one inode; other inodes show as evictions from the LRU map. `raced`
  remembers that one of the two races described below happened; no guard
  depends on it. Times and sizes, merged by maximum, are left out.
* `FuseAdapter`: one request is one step, since the kernel holds the inode or the
  directories while a request changes them; what EncryptedFs does below is
  reduced to its result, failures of release included (`ReleaseFails`: `EIO`, the
  kernel forgets the handle, and all of it, its write half or nothing stays in
  EncryptedFs). A mode is three sets of rights and three bits. Files that are open
  are not removed here.
* `CryptoWriter`: a write of n bytes is n writes of one byte. `Use` adds a flush
  inside the file. A seek back into the file is always part of a write, as in
  EncryptedFs. Encryption is the association of a block with its index.
* `CryptoReader`: a byte is its position. The file does not change: after every
  change EncryptedFs recreates the reader, and so does `CryptoFile`.
* `Namespace`: one host operation is one step, except that the three `create_dir`
  of a new directory, and the LS and HASH entries of `$.` and of `$..`, are one
  step each. Calls do not overlap, but the LS and HASH tasks that a failed call has
  spawned and left behind write at any later point, also in the middle of a later
  call (`LateEntry`), until the process dies. The caches, the calls that only list, and the
  time updates after a call are left out. The kernel's checks on rename are part
  of the guard (`Below`). `cut` remembers whose calls were cut short and who lost a
  name to a late task; no guard depends on it.
* `KeyStore`: a password stands for the key derived from it. The password that
  the program keeps in memory when the keyring is unavailable is left out.
* `ArcHashMap`: a value is one allocation. The locks taken through a Holder are
  tokio's, modelled from how EncryptedFs uses them.

## Runs

| run | instance | shows |
|---|---|---|
| `open_files_plain` | 1 file, 3 handles, block of 2 bytes, 2 byte values; 150,730 states | handle tables agree, no unwrap fails, other readers never serve an old block, the file is a plain sequence of bytes |
| `open_files_faults` | 1 file, 2 handles; failing host operations, crashes, removed and truncated open files; 574,601 states | handles stay registered; a release that succeeds has stored all that successful calls wrote, unless a store of that file failed before; files not open for write survive the death of the process between calls |
| `file_calls` | 2 tasks, 2 files, 2 handles, all calls, symmetric | two writers on a file only after two lookups that both came first; whenever no call runs the tables agree and a reader keeps an old block only while another handle has the file open for writing; an unwrap fails only beside a release; every deadlock has a table guard in it |
| `attr_store` | 3 tasks, 3 caches, 2 fields of 2 settings, symmetric | short of two races, no set_attr undoes another one and the cache in use has the stored attributes; a value in use is found again after it expired |
| `fuse_adapter` | root, owner and another user of the owner's group, 2 modes, 3 inodes, 2 names, 2 handles | names change and set-id bits appear only by those who may; what a refused request may leave behind; a file stays open for writing without a handle only after a release that answered EIO |
| `crypto_file` | blocks of 3, overhead of 2, up to 7 bytes; 24,318 states | blocks decrypt, storing a buffer drops nothing, the writer is a plain sequence; reads of what it left return the bytes at their offset, and when they return all of them |
| `namespace` | 3 inodes, 2 names; crashes, failing host operations and late tasks; 904,030 states | between calls every inode is complete under its one name, except the one whose call was cut short and who lost a name to a late task; no inode has two names |
| `key_store` | 2 data directories, 2 passwords, 3 master keys; crashes | the key file opens to the key of the data, a mount works with that key |
| `arc_hash_map` | 2 keys, 4 holders, 4 values, symmetric | one lock per key, exact counts, nothing left behind; the map implements one lock per key |

Runs that show the code and its documentation disagree (`findings` in
`PROJECT.json` quotes both):

| run | property | what TLC finds |
|---|---|---|
| `open_files_set_len` | `SetLenExact` | truncation with a reader and a writer open leaves the old size stored |
| `crypto_writer_flush` | `NextBlockKept` | flush at an inner block boundary and then write: the next block is overwritten |
| `file_calls_open` | `OnlyOneToWrite` | two opens for writing that overlap both find no writer registered and both return a handle |

Other places where the code does less than a reader, or a document, might
expect are part of the models, and the properties are stated around them:

* flush stores complete blocks only, so that durability starts at release
  (`ReleaseDurable`);
* after the storing of a block failed, the sealed bytes stay in the dirty buffer,
  and a later flush or release that succeeds stores ciphertext of ciphertext;
  after a set_len that failed behind the replacement of the file, the writer goes
  on with the replaced file. `ReleaseDurable` leaves out the files of which a store
  has failed (`written` is `Damaged`), until they are truncated to nothing or the
  process is started again;
* a release that fails leaves a writer registered that the kernel has no handle
  for, and the file cannot be opened for writing again before the next mount
  (`WritersLost` says that nothing else does that);
* a read through another handle serves the contents file and not the buffer of the
  writer; `View`, of which `PlainFiles` speaks, is the logical contents with that
  buffer, and `ReadersFresh` compares readers with the contents file;
* a task that a failed create or rename left behind takes the name away from
  the file that was created under it since (`LateHash`);
* a refused open for reading and writing leaves its read handle in the tables,
  and remove_file leaves the attribute in the cache (`OpenAlreadyOpen`,
  `RemoveFile`);
* a reader that ran into the end of the file returns nothing when it reads the
  last block again, and the last offsets of a file that ends with a complete
  block read as nothing by a first read (`ReadComplete` leaves both out);
* when one writer of a file is released while the next one is opened and writes,
  the block that release stores after it has reset the readers may be newer than
  the one a reader has just read; that reader keeps the old block until the new
  handle is flushed or released (`SettledWhenIdle` leaves it out);
* a crash in remove leaves a name without an inode, one in rename an inode
  without a name (`TreeConsistent` leaves the inode of that call out), and rename
  over a name leaves the replaced inode behind;
* after change-password, or after another mount, the keyring may hold a password
  that does not open the key: the mount can then not read it again (`Provide`).

* the read side of a handle that is open for reading and writing is not reset by
  its own writes and serves its old block (`ReadersFresh` is about the other
  readers; the repository's README says that "reading older content from a file
  ... is not possible");
* a directory whose creation was cut short between `$.` and `$..` counts as empty
  with a file in it, and remove_dir then takes the file's name away
  (`Remove`; `TreeConsistent` counts the directory's entries as damaged);
* two opens for writing that overlap both get a writer, although open says "only
  one to write at a time": it looks the file up and registers the handle in
  two steps with awaits between them (`file_calls_open`). `OneWriter` says that
  this is the only way to a second writer, and `SettledWhenIdle` and
  `UnwrapsRaceRelease` leave the files out to which it happened;
* requests can deadlock, on one file and across files (the README's "Fully
  concurrency for all operations" does not hold then). reset_handles holds the
  guards of `opened_files_for_read` and `read_handles` and awaits set_attr, which
  reads these tables again; an open or release that queues for a table in
  between blocks the second read. flush holds the guard of `write_handles` and
  the context of the writer while it awaits the inode's lock, which write and
  set_len take first. `DeadlocksHoldTables` says what all the circles have in
  common, the guard of a table held over an await;
* release takes a handle out of one table, awaits, and takes it out of the other:
  a reset_handles or flush_and_reset_writers in between fails an unwrap
  (`UnwrapsRaceRelease`);
* a get_attr that fills the cache with what it had read before a store, or two
  gets that provide one cache each, leave old attributes in the cache, and the
  next set_attr writes the old fields back (`raced`; `ServesStored` and
  `UpdatesKept` say that nothing else does);
* remove_file and remove_dir demote the entry of the cache and do not remove it;
* in the adapter: chown does not change owner or group; release never clears the
  set-id bits, since it looks for the write handle after releasing it; open
  truncates before it may be refused, setattr resizes before it checks who
  may set times, copy_file_range fails after it has written (`RefusalEffects`);
  rmdir of a directory with entries answers EISDIR.

### Bounds

Three handles give two readers beside a writer, or a writer's own read side
beside another reader: the cases `reset_handles` tells apart. With failures two
handles are enough for a writer, its own read side and another reader; a third
adds states and no case of its own, since a failing reset_handles already stops
at every reader (`Reached`). Handle numbers are
given out once, and from 1 again after a crash. A block of two bytes has an inner position, an end and a file that ends
inside of it; two byte values tell a written byte from a zero and from an old
one. Files of more than two blocks give a first, an inner and a last block, with
lengths before, at and after a boundary. In `crypto_file` readers are opened only on
files of one byte value (`BytesRead`): what a read returns is told by positions, so
that other values give the same reads again. Two inodes besides the root give a
directory that is moved into another, with crashes and failures at every host
operation. Two data directories share the keyring;
three master keys allow each directory one and a spare. Four holders give two users
of a key, one that is purging and one that is decrementing meanwhile.

Two tasks on two files and two handles give every pair of calls on one file and
on two; circles of three tasks are not explored. A state in which a call has died
is checked and not continued (`NoneDied`): `SettledWhenIdle` and
`UnwrapsRaceRelease` say nothing of what comes later, and `OneWriter` is proved
without the bound. The search without it ends with no error as well (2,027,658
states), close to the time a run may take. Before opens
for writing could overlap in the model, its invariants were also checked once with
three handles on one file (2,669,503 states, no error; too long for a run), where a reader sees one writer go and the next one come: this is where the
exception in `SettledWhenIdle` comes from. Three tasks give `attr_store` a setter,
a filler and one that keeps a cache alive; three caches one in use, one expired and
a new one; the search ends at a race (`NoRaceYet`), of which the properties say
nothing. `fuse_adapter` leaves the last answer out of the view (no handler reads
it), has handles and data only beside at most one inode besides the root
(`Bound`), is run with `SuidSupport = TRUE` only, and uses the modes 3777 and 4750, which between them are sticky, closed
to others, open to all and set both set-id bits. The group of the two users is one,
so that owner, group and others are told apart with root as the third. That
creation without suid_support gives no set-id bits (`SetIdRule`), and that a
refused request changes no second file with data (`RefusalEffects`), is therefore
left to the proofs. That directories form no circles is not checked: the kernel's
guard `Below` is taken over as it is. Tasks,
handles, inodes other than the root, names and settings are interchangeable where
the configurations say SYMMETRY: no definition tells them apart, and no liveness
is checked there.

Deadlock is checked except in `namespace`, which ends when the inode numbers,
each given out once, are used up, and in `file_calls`, whose deadlocks are the
subject of a property.
Files that share the tables are covered by the proofs, which are for any set of
inodes, and by `file_calls`.

### Fairness

No liveness property is checked and no fairness assumed. That a call ends would be
the property to check, and it is false of the code: `file_calls` has deadlocks in
which no scheduling helps, and create, remove and rename end with a set_attr
that can be part of them. `DeadlocksHoldTables` is the safety property that takes
its place: which guard has to be held over an await for a call not to end.

## Proofs

`ArcHashMapProofs` (any keys, any values, any finite set of holders):

* `MapTypeCorrect`, `SameLockTheorem`, `CountsTheorem`, `NoResidueTheorem`:
  `TypeOK`, `SameLock`, `RcExact` and `NoResidue` are invariants. The invariant
  that is inductive, `IInv`, adds that a Holder has a key and a value exactly
  while it exists, that one holder at most is inside purge, that a value belongs
  to one key, that no value in use is evicted (`LiveEntryKept`) and, for
  `NoResidue`, that an entry a purge has visited has another holder that will
  purge again (`VisitedInUse`).
* `Refinement`: `Spec => KeyedLocking`. A lock action maps to the lock action of
  the key; every other step is a stutter, since purge never removes the value
  some holder has locked.

`OpenFilesProofs` (any inodes, any number of handles, any block size):

* `TypeCorrect`: `Spec => []TypeOK`, in every environment. The strengthening is
  that a contents file has an inode file (`DiskHasInode`).
* `HandlesRegistered`: `Spec => []Registered`, in every environment, from
  `Tables`: handle numbers not yet given out are unused, and both sides of a
  handle are open on one inode.
* `NoFailingUnwrap`, `RegistrationsLive`: without `fault` and `unlink_open`,
  `Spec => []NoPanic` and `Spec => []NoStaleRegistration`, from `SInv`: no writer
  was lost, and an open file still exists. `open_files_faults` leaves the two
  properties out because they fail there: after a failed release the writer
  stays registered.
* `ReleaseDurableTheorem`, `CrashSafeTheorem`: `Spec => ReleaseDurable` and
  `Spec => CrashSafeWhenClosed`, action properties, in every environment: writes,
  flushes, releases and set_len may fail at each of their host operations. They
  need `LInv`: a file that has a name has both its host files, and `attr_cache`
  has the attribute of the inode file or none; the first also `WInv`: as long as no
  store of a file has failed, the bytes seen through its writer's buffer are
  those that were written, and the writer is not detached (`Faithful`).
* `ReadersFreshTheorem`: without `fault` and `unlink_open`,
  `Spec => []ReadersFresh`. Every call that stores a block resets the readers
  registered for the inode, and by `Tables` and `SInv` these are all there are.
* `ImplementsPlainFiles`: with `Env = {}`, `Spec => PlainFiles`, the refinement
  of `PlainFile`. It needs `SizeInv`: with a writer, the size in its context is
  the length of the bytes as users see them and the stored size is not larger;
  without one the stored size is the length of the contents. `shrink_open` breaks
  it (the finding `open_files_set_len`), and so do failures and crashes, which
  lose what is buffered.

`FileCallsProofs` (any number of tasks, files and handles, calls interleaved at
every await):

* `OneWriterHolds`: `Spec => []OneWriter`. `TablesAgreeWhenIdle`: whenever no call
  runs and none panicked, the handles that have a reader or a writer are exactly
  the ones the tables of open files name, but for the writers of files for which
  two opens raced (`TablesAgree`, the first part of `SettledWhenIdle`).

Opens overlap freely in both. The inductive invariant `IInv` says of every call where it
is by the instructions it has left: `Control` has the types of the tables and of
the lists, that a handle is worked on by the call that owns it (`Owned`) and that
one open at a time has found a file without a writer and has yet to register its
own, unless the file is in `raced`; `WritersKept` and `ReadersKept` say that a
handle is registered, or is about to be, or is about to lose its context too;
`TakenRestored` that a writer set_len took out of the tables is put back by a
later instruction of the same call. The locks play no part: the two results hold
because each call does its insertions and removals in pairs. An open does not
panic, so that a panic only loses removals. The lemmas on lists (`LeftIs`,
`StepIndexes`) say which instructions are left after a step.

`StoreProofs`, attributes (any tasks, caches, fields and settings):

* `AttrTypeCorrect`: `Spec => []TypeOK`, from `Control`: what a task is doing tells
  which references and attributes it has (`Phases`), and a set_attr past its
  lock has the lock (`Exclusive`).
* `UpdatesKeptTheorem`, `ServesStoredTheorem`: `Spec => []UpdatesKept` and
  `Spec => []ServesStored`. As long as nothing raced there is one cache in use
  (`OneLive`), so that a put reaches all that later gets will find; a set_attr
  works with the last settings (`Working`), which it found in the cache
  (`EntriesLast`; no put is pending then, by `Exclusive`) or in the file.
* `SharedTheorem`: `Spec => SharedWhileLive`, an action property. The weak reference
  leads to the value in use, or the get that provided it has not set it yet
  (`WeakLive`).

`StoreProofs`, the key (any data directories, passwords and keys):

* `KeyTypeCorrect`, `MasterKeptTheorem`, `MasterServedTheorem`:
  `KeyTypeOK`, `MasterKept` and `MasterServed` are invariants. Inductive with
  `SameMaster`: whoever has a master key in memory, a mount or a passwd that
  is about to write, has the one of the key file; and `Drawing`: a mount draws
  a key only into a file it has just created.

`FuseAdapterProofs` (any inodes, names, users, modes and handles):

* `AdapterTypeCorrect`: `TypeOK` is an invariant. The invariant `IInv` adds that an open handle is on an existing
  inode and that the kernel's handles are open (`HandlesOK`), that entries lead to
  existing inodes (`TreeOK`), and that the root is never removed (`RootKept`).
* `WritersLostTheorem`, `DirectoryRulesTheorem`, `SetIdTheorem`, `RefusalTheorem`: the
  action properties `WritersLost`, `DirectoryRules`, `SetIdRule` and
  `RefusalEffects`, request by request from `IInv`.

`NamespaceProofs` (any inodes and names, crashes and failing host operations at
every step):

* `NamespaceTypeCorrect`, `OneNameTheorem`, `TreeConsistentTheorem`: `TypeOK`,
  `OneName` and `TreeConsistent` are invariants. `TreeConsistent` speaks of the
  moments between two calls, so that the inductive invariant has to say what the
  tree looks like at each host operation of each call: `CallInv` is the
  disjunction of the stages of mounting, create, remove and rename, each with
  what is left of the call's plan and what is already on disk. `Others` says that
  every inode that is neither that of the running call nor that of one cut
  short is whole, `LateInv` that an inode whose HASH entry a late task has yet to
  write has no other. The stages allow what late tasks do to them: a name the call
  is about to write or remove may meanwhile stand for an inode that was given up
  (`Given`, `StillNamed`), and `LateStage` and `LateCallInv` show that each stage
  survives such a write in its middle.

`CryptoWriterProofs` (any block size, any bytes, any length):

* `BlocksReadableTheorem`, `NothingBehindTheorem`: `Spec => []BlocksReadable` and
  `Spec => []NothingBehindDirty`.
* `WriterRefines`: `Spec => ActsAsFile`, the refinement of `SeekableFile`.

All three assume that `flush_inside` is not in `Use`: a flush inside the file
breaks them, which is the finding `crypto_writer_flush`. The inductive invariant is
`Resting`: the file is whole (every block but the last is complete), the cursor
is at the block the buffer belongs to, a dirty buffer covers that block, and a
buffer that is not dirty is empty. Inside a call the weaker `Ready` and `Sound`
hold; the lemmas take each method from one to the other, with what it does to the
bytes as users see them (`View`).

`CryptoReaderProofs` (any block size, any overhead up to it, any length):

* `BufferTheorem`, `ReadSoundTheorem`: `ReaderSpec => []BufferMatches` and
  `ReaderSpec => []ReadSound`; `ReadCompleteTheorem`: `ReaderSpec => ReadComplete`.
  The inductive invariant is `Rests`: the buffer is the block before the cursor, and without a
  block the reader is new or at the end. `NextAt` is the byte that is read next;
  the lemmas say that a read gives the bytes from there (`ReadBytesIs`) and that a
  seek goes to its offset or leaves the reader drained (`SeekToIs`).
  `PlaintextLenIs` shows where the two exceptions of `ReadComplete` come from:
  get_plaintext_len is exact unless the last block is complete.

`FillZeros` and `ReadBytes` are loops, modelled as recursive functions. What they
compute for every length is proved by the least counterexample: a set of natural
numbers that is not empty has a least element (`NatLeast`, from
`NatLessThanWellFounded`), and the function exists for every length (`FillExists`,
`BytewiseExists`).

The proofs rest on the named assumptions of the modules only
(`ArcHashMapAssumption`, `OpenFilesAssumption`, `FileCallsAssumption`,
`ExpireValueAssumption`, `AttrStoreAssumption`, `KeyStoreAssumption`, `AdapterAssumption`,
`NamespaceAssumption`, `BlockStoreAssumption`, `CryptoWriterAssumption`,
`SizesAssumption`), which TLC evaluates in the runs. They give the constants
their types and keep the values apart that stand for nothing (`None`, `Absent`, `Gone`,
`Torn`) from the others; that a block has room for its overhead
(`SizesAssumption`) is so for blocks of 16 KB and an overhead of 28 bytes.

Only model-checked: `TypeOK`, `DeadlocksHoldTables` and `UnwrapsRaceRelease` of
`FileCalls` and what its `SettledWhenIdle` says of buffers, which need that the
guards a call takes and drops balance along its list of instructions, and that
the locks exclude each other.

## Not modelled

* the stubs for other systems, argument parsing and logging;
* ciphers, key derivation and hashing: what the rest relies on is built into
  `BlockStore`, `Namespace` and `KeyStore`;
* the bytes that copy_file_range and write_all_bytes_to_fs put at their offsets:
  only that they may fail after writing;
* the answers of readdir, readdirplus and statfs, and times;
* directory calls that overlap, and the caches of directory entries, of which
  `dir_entries_meta_cache` keeps the old parent of a moved directory.

## Plan

Done, in this order: `ArcHashMap`, on whose locks every call relies;
`OpenFiles` with `PlainFile`; `CryptoWriter` and `CryptoReader`, which justify
its one-block files, and `CryptoFile`; `Namespace`; `KeyStore`; `FuseAdapter`; `FileCalls`;
`ExpireValue` and `AttrStore`; the proofs about all of them.

Next:

1. The guards of `FileCalls`: a proof of its `TypeOK`, `DeadlocksHoldTables` and
   `UnwrapsRaceRelease`.
2. Overlapping calls in `Namespace`, and the caches of directory entries.
