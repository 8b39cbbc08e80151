# A TLA+ model of SSNFS

SSNFS mounts a directory of a server on clients over TLS.  `SSNFSd` is the
server: one thread (`SSNFSWorker`) per connection, a SQLite database, a web
panel on the same port.  `SSNFS-client` is a FUSE file system: one thread, one
connection, one call at a time, and a buffer that delays writes.

The project models the places where a file can go wrong (the descriptors of the
workers, the client's delayed writes, permissions and modes), the conversation
they rest on down to its bytes, and the database behind it: registration,
shares and set-up.  It consists of TLA+ modules, TLC runs on small instances,
and proofs that TLAPS checks for every instance.

## 1. Inventory

| Component | State | Operations | Talks to |
|---|---|---|---|
| Worker descriptor tables (`SSNFSd/ssnfsworker.cpp`) | `fds`: handle number to descriptor, one hash per worker; the descriptor table of the process, shared by all | open, read, write, writebulk, release; mknod, unlink, rename change the directory under it | the client by request and result; other workers through the process and the file system |
| Client write path (`SSNFS-client/fuseclient.cpp`) | `clientWriteBuffer`: requests, `bytesInBatch`, `FdsUsed`; `fi->fh` of every open file | fs_open, fs_read, fs_write, fs_truncate, writeBuffer, fs_release, fs_rename, fs_destroy | its worker |
| Session, client side (same file) | `socket`, the attempt counter | started, initSocket, syncLocalUsers, the frame of every call | its worker |
| Session, worker side (`ssnfsworker.cpp`, `ssnfsserver.cpp`) | `status`, `working`, `operation`, the keys of client and share | incomingConnection, run, ReadyToRead | client, browser, registering client; database |
| Wire format (`Common/common.h`) | none | getBytes, get…FromBytes, readExactBytes, resolveRelative | both sides |
| Other file operations (`ssnfsworker.cpp`) | the file system | getattr, readdir, access, readlink, mkdir, rmdir, symlink, chmod, chown, truncate, utimens, statfs | client |
| Share permissions (`getPerms`, `User_Share_Perms`) | rows of path and permission per user and uid | looked up by every operation; moved and deleted with files | web panel |
| Registration and approval (`registeriface.cpp`, `handleRegistration`, `approve_pending`) | `Pending_Clients`, `Clients`, `Client_Users` | register, approve | web panel, start of the server |
| Web panel (`ssnfswebworker.cpp`, `webpanel/`) | `Web_Tokens`, shares and users | login, logout, save_share, lists | browser |
| Settings, log, start, `--init` | `Settings`, logs | load, set | console |
| PH7, fastpbkdf2, `old-SSNFS-client` | | | vendored, or replaced |

What is hard to get right here, and what correctness means for it:

* **Many workers, one process.**  Each worker has its own hash, but the numbers
  in it are descriptors of the one process.  A number is taken before it is
  entered and free before its entry is gone; still no two entries that can be
  looked up may name the same descriptor, and none a closed one, or a release
  closes somebody else's file.
* **Names change under handles.**  Read, write and release compare the path of
  the request with the link in `/proc/self/fd`.  Whatever passes must act on the
  named file, in every interleaving with renames and deletions.
* **Connections break anywhere.**  Neither side is told: reads return nothing,
  which is read as 0 or empty.  A worker goes on with what it has while the
  client is already on its next connection, where the handle numbers it kept
  mean nothing or something else.
* **Writes are acknowledged before they are sent.**  What the buffer holds must
  be what was written, in order, and must leave before the handle does.
* **Both sides keep their place in the conversation implicitly.**  They must
  stay in step, never wait for each other, and every call must return.  Nothing
  in the stream marks a field, so both must also agree on every width.
* **The database is changed statement by statement.**  No part of the program
  opens a transaction, every thread has its own connection, and any statement
  may fail, be overtaken or be the last one before a stop.  Registration,
  approval, the shares page, `--init` and the rows that follow a renamed file
  are all sequences of this kind, and `INSERT OR REPLACE` and `INSERT OR IGNORE`
  do more, or less, than their authors say.
* **Failures that nobody looks at.**  `--init` does not ask whether the
  certificate or a setting was written, and says "ready" in any case.
* **Arithmetic in odd bases.**  File modes are converted by hand-written digit
  loops, with a setting that turns negative in an `int`, and paths resolved by a
  loop that edits the list it walks over.

`PROJECT.json` lists the hazards with the lines where they bite and the
properties aimed at them.

## 2. Modules

| Module | Models |
|---|---|
| `HandleTable` | What a client may assume: each worker has a private table from numbers to opened files. |
| `FdTable` | The hashes of all workers over the descriptor table of the process and one directory. |
| `FdTableProofs` | The inductive invariant of `FdTable`, its safety properties and the refinement, proved. |
| `WriteBack` | The client's write path, the connection, its worker and the late workers of broken connections. |
| `Session` | The handshake with its attempts, `UpdateLocalUsers`, calls, and the status machine of each worker. |
| `RemoteCall` | What client and worker promise each other, without bytes: one call at a time, performed once. |
| `Framing` | The fields of every message, on each side as its own source has them, read byte by byte. |
| `SharePerms` | `getPerms`, the checks of all operations, and the permission rows after unlink, rmdir and rename. |
| `FileMode` | The digit loops of getattr and mknod. |
| `Registration` | `--register`, `handleRegistration`, `approve_pending`, the handshake, stop and start. |
| `RegistrationProofs` | The inductive invariants of `Registration` and its four properties, proved. |
| `Shares` | `get_shares`, the edit form, `save_share`, and subscription to a share. |
| `Setup` | `--init`, the console options and the start of the server. |
| `ResolvePath` | `resolveRelative`: its variables and the step of its loop. |
| `WebRequest` | One request of a browser, `processHttpRequest`; extends `ResolvePath`, whose loop it runs. |
| `FramingProofs` | The inductive invariant of `Framing`, its safety properties and that it implements `RemoteCall`, proved. |
| `SessionProofs`, `WriteBackProofs`, `WebRequestProofs` | The safety properties of these modules, proved. |
| `SharesProofs` | Those of `Shares` and, in a second part, of `Setup`. |
| `SharePermsProofs` | Those of `SharePerms` and, in a second part, of `FileMode`. |
| `MC…` | Symmetry sets and values of constants for TLC. |

`WriteBack` treats a worker's descriptors as a table of handles.  That this is
sound is the refinement `FdTable => HandleTable`.  `WriteBack` and `Session`
split the client: `Session` has the connection set-up in full and a call as
one exchange, `WriteBack` has set-up as one step that succeeds or fails and the
calls of the write path in full.  `Framing` has the messages of `Session` as
bytes on a connection that holds, and implements `RemoteCall`.  `Registration`, `Shares` and `Setup`
share the database but not their tables, except where one says so.

### FdTable

`fds[w]` is the hash of worker `w`, `kern` the descriptor table of the process
(descriptor to inode), `dir` the directory.  `phase`, `req`, `verdict` and
`target` hold a request between its steps, `hand` what `open()` returned before
it has an entry.  Other workers' steps may come between any two of these:

* `Open` is the `open()`, which gets the lowest free descriptor, and `Insert` the
  search for the lowest free number and `fds.insert()`; `OpenCut` is an `open()`
  of which not all arguments arrived, by a worker that ends after it.
* `Check` is `lstat`, `readlink` and the comparison of the link with the path;
  `ReadOrWrite` is what follows it in a read or write.
* `Close` is the `close()` of a release, if the comparison allowed it, and
  `Remove` the answer and `fds.remove()`, which comes in any case.  In between
  the entry names a number that is free, or another worker's by now.

No handler but the one at work looks an entry up between its `close()` and its
removal: a worker serves one request at a time.  `Live` are the entries without
those (`Removing`), and what the properties speak of; the handle that the client
has (`Handle`) ends with the `close()`.  `Disconnect` empties the hash and
closes nothing; only `Restart` gets the descriptors back.  `LongPaths` are those
whose full name exceeds the 64 bytes that Linux reports as the size of a `/proc`
link.

### WriteBack

The variables of the client keep their names (`FdsUsed`, `buf` for the vector
of requests, `bytes` for `bytesInBatch`).  A call runs through `pc`: `init`
(initSocket), `sent` (operation code sent), `args` (arguments sent).  `todo` is
what the worker still has to do of the request; a batch is done one `pwrite()`
at a time.  `Drop` breaks the connection at any point: any prefix of the
remaining request may have arrived, and of the next write possibly only a part
(`Torn`), in which case `pwrite()` takes its bytes from an empty array and a
missing offset is 0.  What arrived is left to a late worker (`late`).  A result
that did not arrive is 0.  A unit of data is the number of the write it came
from, so the content of a file says who wrote what.

`fs_read` and `fs_truncate` send no buffer first.  A read returns one unit of
the file and is compared with the writes that had been run by then; a truncate
remembers what had been run when it cut (`seen`, `cuts`, with the file each was
for).

`Budgets` is a set of bounds (writes, broken connections, moves, reads, files
open at a time, files, and whether anything may fail): an action that uses
something up asks with `Room` whether the behaviour would still be within one
of them.  One run so covers several directions of growth without their product.
`held` is the most files that were open at a time.

That every call returns is stated without fairness: `CallsProgress` says that a
step of a call lowers a rank, `NeverStuck` that a call which has not returned
has a step it or its worker can take.

Ghost variables record the writes that were called (`log`, with the file the
handle was opened on), the acknowledged writes (`acked`),
the connection each write ran on (`appliedOn`), the names every file has had
(`names`) and whether anything failed so far (`calm`).

FUSE itself is outside the source: libfuse keeps the path of an open file up to
date across renames through the mount, does not let a rename replace an open
file (it hides it first), and destroys the mount when no file is open.

### Session

`wst[c]` is the status of the worker of connection `c`, with the operation it is
in.  `toS` and `toC` are the messages under way.  A break leaves a prefix of
both.  `Guest` connections are browsers and registering clients.  What the
handshake finds in the database is a free choice between an error, no match and
a match.  `Passwds` are the contents that `/etc/passwd` may have at a mount;
`listed` remembers what was sent of them.  `Client_Users` stays from one mount
to the next, and `INSERT OR IGNORE` never changes a row.  `UpdateLocalUsers` is
read field by field: a name whose uid did not arrive is stored under uid 0, and
a loop that did not get its -1 reads zeros for ever.  While a connection is up a
read waits: the limit of `readExactBytes`, 5000 waits of 5 seconds, is taken as
never reached, and `timeouts` is -1 in the client.

### Framing

A byte is its field, its place, and the width and value of the field, so a read
can be seen to get what was meant for it.  `ClientArgs`, `ClientReads` and
`Returned` are the client's side of an operation, `WorkerReads`, `Loops` and
`Reply` the worker's; each is taken from its own source file and neither knows
the other.  A name has a length in characters and one in bytes.  `NameSent` is
the name a call sends: its own, but for the target of a symbolic link, which
`fs_symlink` passes through `QDir::relativeFilePath` (any function on names
here).  `lost` is set,
and everything stops, when a read gets bytes of another field.  Paths are
shorter than 2^16 bytes because the kernel's are; a directory fits into the
buffer of `readdir` (`filler` never says it is full); texts of the server are
ASCII, so some text of that kind is among `Names`.

`RemoteCall` has neither fields nor widths.  Its `stage` is read off the place
of the client, the status of the worker and `lost`; a call counts as performed
when the worker waits for the next operation and the client is not there yet.

### SharePerms

`tree[s]` has the files of a share, `rows` the table `User_Share_Perms`.  An
operation goes through `look` (one SQL statement of `getPerms` per level, for
each path it asks about), `act` (the system call) and, for unlink, rmdir and
rename, `sql` (the statement on the rows); workers interleave between all of
them.  `grants` says where the rows would be if they belonged to the files, and
`odd` what happened that they cannot follow: rows at the new name, rows below a
renamed directory, rows of the same path in another share, a failed statement,
and two workers at related paths.  `fresh` is set when an
operation begins and cleared by every statement of another worker that changes
rows: the operation may then have been decided on rows that have moved since.
`there` says whether the file existed when the worker looked: an open with
`O_CREAT` asks for the directory only if it did not, and its `Call` may make a
file again that was unlinked since.
An open with flags 0 (`O_RDONLY`) asks for
nothing, as in the code.

### FileMode

One run of the conversion for each mode and setting; every turn of the two
loops is a step.  The setting is an unsigned number that an `int` takes
(`ToInt`), and C's division goes towards zero (`Quot`, `Rem`), so settings from
half of `U32` on run through the loop as negative numbers.  `made` is the file
that comes of it, from the 16 bits that a mode has and without those of
`Umask`.  The properties compare with plain arithmetic.  The
names of its specification begin with `Mode`, those of `Setup` with `Setup`, so
that one proof module can extend each beside another component.

### Registration

Each SQL statement is a step.  `reg[a]` is what the worker of one run of
`--register` holds, `listening` the attempts whose computer still waits: the
client gives up after ten seconds, the worker reads empty fields and goes on.
`Approve` is the `INSERT OR REPLACE`, which deletes what either unique index has
in the way (`InTheWay`); `DelApproved` is the deletion after it, which may fail
or never come.  Foreign keys are not enforced on the workers' connections.
`Stop` ends the server anywhere, `Start` has the foreign key check.  `accepted`
and `approved` are history.

### Shares

An administrator opens a page, which remembers the users it was sent, and sends
a form.  `save_share` is then `Walk` (deletions), `AddShare` and `GetShareKey`
or `UpdateShare`, and one `AddShareUser` per listed user; any statement may fail
and leave what was done.  A refused `INSERT OR IGNORE` still uses up a key of
the sequence.  `RowsOf` is the join that `get_shares` reads, one row per user of
a share or one without a user; `Collected` is the loop that groups them.
`own` is the share a form was meant for, `alone` whether no other
editor was at work while it was saved.

### Setup

The questions of `--init` are one action, each file it writes and each statement
an action of its own, and `Quit` may come between any two.  A file is a key or
certificate of some pair, or something else, or missing.  Any write and any
statement may fail.  Where the code looks, that stops the run (the key, the
script, the log) or is printed (`said`); the certificate and
`ServerSettings::set` are passed over in silence, which `passed` remembers.  A
file that could not be opened is as before, one not written to its end is
neither key nor certificate (`Spoilt`); when the key fails the certificate is
written all the same, and the run ends.

### WebRequest and ResolvePath

The browser sends lines and body units one at a time and may leave; the worker
reads a line when one is there and the body in batches.  A wait without an end
is a state without a step.  The path goes through the loop of `ResolvePath`, a
turn per step, with the index set back as in the code, and then through its end
(`Join`), where `trimmed` takes the white space from the last part.  A part such
as `..` with a line end, which a request line without a version has, is a name
for the loop.  What the result names is a free choice.

## 3. Runs

| Run | Instance | Shows |
|---|---|---|
| `fd_table` | 2 workers, 2 paths, one of them long, 2 inodes, 3 descriptors, 2 numbers | `FdsOpen`, `FdsDistinct`: what can be looked up in the hashes, with what `open()` just returned, is injective into open descriptors. `ActsOnNamed`: what passed the check acts on the named file. `LeakedNeverTouched`: a lost descriptor stays lost, and harmless. `ImplementsHandleTable`: refinement. |
| `write_back` | 2 handles, 2 paths, 2 inodes, up to 4 writes, limit 1; nine budgets of writes, drops, moves, reads or truncates, open handles, files and failures | `BufferFaithful`, `OrderKept`: the buffer is what was written, in order, through failed flushes and their retry. `AckedNotLost`: without failures nothing acknowledged is lost and a release leaves nothing behind. `WritesFindTheirFile`: a write ends in a file that had its name or that of an earlier write by the same number, and in the file that was opened as long as connections hold. `GarbageOnlyInTornWrite`: the harm of a torn request is confined. `PassesOnlyWaitingWrites`: reads and truncates pass the buffer, but only what still waits. `CallsProgress`, `NeverStuck`: every call returns. |
| `write_back_stale` (violation) | one budget with a drop | `StaysInNamedFile` fails across a reconnection: the merge of consecutive writes does not compare paths. |
| `session` | 2 connections, 2 drops, 2 mounts, 2 calls, 2 users, of which one may be another at the next mount | `InStep`, `NoMutualWait`, `RowsFromPasswd`; `CallsSettle`, `WorkersEnd`. |
| `session_assert` (violation) | 2 connections, 1 drop | `Q_ASSERT(res == Common::OK)` fails when the connection breaks during `UpdateLocalUsers`. |
| `framing` | names of 1 and 2 characters, one with a wide one, link targets that get longer or shorter; 2 calls | `OnlyWideTextsLoseStep`: each side reads the bytes that were meant for it but for three texts with wide characters. `ConversationsEnd`: nobody waits for a byte that is not sent. `AsAsked`, `ErrorsReported`: arguments and errors arrive. `ImplementsRemoteCall`: refinement. |
| `share_perms` | 2 workers on one share, 1 on another, 2 operations, all sets of up to 2 rows, on the other share at one path | `ActsGranted`: the look-up level by level is that of the nearest row. `RowsFollowFiles`, with its exceptions. |
| `file_mode` | 7 types, 8 special bits, 8 permissions; 18 settings, 6 of them negative or at the limits of an `int`; one umask | `PermsReported`, `CreatedAsSet`. |
| `registration` | 2 users, 2 computers, 2 system informations, 2 attempts, 2 approvers, 2 approvals, 1 session, 1 stop | `NoRequestLost`, `ToldIsTrue`, `ClientsFromRequests`, `RowsFromOwner`. |
| `shares` | 2 editors, 2 users, 2 forms, 1 session | `ListComplete`: the list, and the page of each share alone, has every share once with all its users. `AccessAsShown`, `SessionsFromForms`, `StraysOnlyToNewer`. |
| `setup` | 2 runs of `--init`, 2 other uses, 2 files, 2 addresses, every failure | `NewPairServed`, `AdminAsEntered`. |
| `web_request` | all paths of up to 5 parts, names with and without white space; 2 headers, bodies up to 3 units, length modulo 8 | `ResolvesAsWalk`: the loop that edits its list gives what a walk over the parts gives. `PagesGetWholeRequests`: a page runs on the whole head and exactly the stated body. `RequestsAnswered`. |

**Bounds.**  In `FdTable` three descriptors let each of two workers hold one and
a third leak, or be taken while an entry that names it is still there; two
inodes let a name change hands while a handle is open.  In
`WriteBack` a limit of one unit makes a later write flush a buffer that holds
requests of both handles; two handles are the least with which a number is
reused or shared; one drop already gives a late worker beside a new one.  In
`Session` two connections are a session and its successor, or a session and a
guest, and two drops break both.  `maxRetryCount` is the code's 3.  In `Framing`
a second call is what reads the bytes that a first one left; 2^32 is 8, with
lengths on both sides of it.  In `SharePerms` the tree has a file below a
directory and one beside it, so a row can apply from above; two operations are
enough for one to act on what the other moved, and of operations that ask for
the same permissions and change nothing, one stands for all.  In `Registration`
two attempts are a computer that timed out and its retry with other system
information, or two computers of two users; two approvers can approve the same
request.  In `Shares` two forms are an edit and the one before it, or one of
each editor, and the third key is reached by a refused insert.  `Setup` needs a
second run to meet what the first left.  In `FileMode` an unsigned `int` has 20
bits, which holds every octal number of a mode and whose negative half reaches
past all of them.  In `WebRequest` every path comes with a
bare request, and every request with one path that has all kinds of parts.  The
bounds appear in guards only, under names that begin with `Max`, and in
`Budgets`.

Deadlock checking is off wherever the system may stop: an unmounted client, a
dialogue that came to its end, a bound that is used up, or a web worker that
waits for a browser that left.  `NoMutualWait`, `NeverStuck` and the liveness
properties say what a deadlock check would.

**Exceptions stated in the properties.**  `InStep`, `NoMutualWait` and
`CallsSettle` except a connection on which `syncLocalUsers` returned because
`/etc/passwd` could not be opened: the worker is then inside `UpdateLocalUsers`
and the next call waits with it.  `WorkersEnd` excepts a worker that handled a
registration (`working` stays set and `run` spins) and one inside the loop of
`UpdateLocalUsers`.  `RowsFromPasswd` excepts uid 0, and promises a name that
`/etc/passwd` once had, not today's.  `FdsOpen` and `FdsDistinct` except the
entry whose removal is under way.  `AckedNotLost` and
`PassesOnlyWaitingWrites` hold while nothing failed; after a broken connection
the code does lose acknowledged writes, because a missing result is read as
success.  `WritesFindTheirFile` allows the name of an earlier
write by the same number, and promises the opened file only until a connection
breaks: that more goes wrong after is `write_back_stale`.  `ActsGranted` excepts
operations during which another worker changed rows, and asks for the directory
of a file only if the file was not there as the worker looked.  `AccessAsShown`
excepts saves during which another editor was at work, and the permissions of
users that the page already had.  `CreatedAsSet` is about settings of octal
digits.  `NewPairServed` excepts runs in which the certificate or a setting of
the pair was not written, `AdminAsEntered` what the program said had failed.
`AsAsked` excepts the target of a link, of which it says what was made of it.
`ErrorsReported` excepts `readdir` and `readlink`, which return 0 whatever the
worker said.  `RowsFollowFiles` excepts what `odd` names.  `RequestsAnswered`
excepts browsers that leave and bodies of another length than stated: more than
stated makes the unsigned counter wrap, less is waited for.

**Fairness.**  In `Session` the client's calls and every worker are weakly fair:
each is a thread that runs whenever it has something to do, and a read of a
broken connection returns.  In `Framing` client and worker are fair, in
`WebRequest` the worker and a browser that stays.  The application, other
clients and the network are not fair: nothing need be called and nothing need
break.  `WriteBack` assumes none.

## 4. Proofs

`FdTableProofs` proves, for any sets of workers, paths and inodes, any set of
descriptors and any bound on handle numbers:

* `FdTypes`, the type invariant;
* `FdsAlwaysOpen` and `FdsAlwaysDistinct`: `FdsOpen` and `FdsDistinct`;
* `ChecksHold`: `ActsOnNamed`;
* `LeaksAreForever`: the action property `LeakedNeverTouched`;
* `FdsImplementHandles`: `FdTable` implements `HandleTable`.

The assumptions are the named one of `FdTable` on its constants and nothing
else.  The inductive invariant `IInv` conjoins the type invariant, openness and
injectivity, and what a request between its check and its effect may rely on.
A worker holds descriptors in slots: slot 0 is what `open()` just returned, slot
`f` the entry of number `f` as long as it can be looked up.  Every step fills a
slot, moves one to another or empties one (`SlotStep`).  Openness and injectivity
need each other: a new descriptor is distinct from all slots because the kernel
gives one that is not open, and all slots are open; a `close()` empties its slot
in the same step in which it frees the number, and leaves the others open because
no other slot has it.  What the entry says until it is removed is nobody's
concern.  The last part is needed because a worker's own hash does not change
while it is between check and effect, though the directory and the process's
table do.  For the refinement each action of `FdTable` is a step of `HandleTable`
or leaves every table as it is: `Insert` opens a handle and the step `Close` ends
it, whether or not there was a `close()` in it.

The modules that follow assume the named assumption of their component's
constants (`RegistrationAssumption`, `SessionAssumption`, ...) and nothing else;
bounds and sets are otherwise arbitrary.

### RegistrationProofs

* `RequestsKept`: `NoRequestLost`;
* `AnswersTrue`: `ToldIsTrue`;
* `ClientsSubmitted`: `ClientsFromRequests`;
* `UsersFromOwner`: `RowsFromOwner`.

None of the four is inductive alone.  A request is not lost because a deletion
goes by a key that its own approver copied to `Clients` before
(`DeletesApproved`), and a stop forgets the deletion, not the approval.  A row
of `Clients` was submitted because what is pending was accepted
(`PendingAccepted`).  An answer is true because "registered" rests on the row of
`Clients` that was found, hence on the fact before, and stays true because a
worker that has answered reads nothing more (`AnsweredDone`).  Local users
belong to the computer of their row because a key of `Clients` stands for one
certificate for ever (`KeyInv`): `AUTOINCREMENT` only counts up, so a session
that goes on under the key of a replaced row meets no row of that key.

### SessionProofs

* `SessionTypes`, which types the messages under way too;
* `StaysInStep`: `InStep`;
* `NeverBothWait`: `NoMutualWait`;
* `NamesFromPasswd`: `RowsFromPasswd`.

The first two say nothing of the messages in a queue beyond the next, so the
invariant `IInv` lists for each place of the client the places the worker can
be in and exactly what is under way (`Dialogue`), with one more case for the
connection on which `syncLocalUsers` returned early (`LeftOpen`).  A worker
whose connection broke has at most one message or a piece of the list of
users to read (`AllUnread`); that the piece is still names, each
followed by its own uid as `/etc/passwd` had it at some mount (`UserList`, over
`listed`), is what `RowsFromPasswd` needs.  Connections other than
the client's are guests' (`Guests`): no session is left up behind a new one.

### WriteBackProofs

* `WritesInOrder`: the action property `OrderKept`;
* `TornWritesOnly`: `GarbageOnlyInTornWrite`;
* `WritesReachTheirFile`: `WritesFindTheirFile`;
* `AcknowledgedNotLost`: `AckedNotLost`;
* `PassOnlyWaiting`: `PassesOnlyWaitingWrites`;
* `CallsComeToAnEnd`: the action property `CallsProgress`;
* `BufferIsFaithful`: `BufferFaithful`.

The invariant is built in layers, each inductive given those before it:

1. `Types`: a request is a sequence of writes or one other operation.
2. `Order`: the buffer holds writes in the order of the calls, each whole at its
   offset, and with a write every later one by its number (`Buffer`).  What
   waits has not been sent (`Unsent`), except while the buffer is being sent; a
   failed flush is why the two must be told apart.  What the worker of a
   connection has yet to run comes after what it has run (`Queues`), for the
   present worker and for each late one.
3. `Files`: every file remembers its names, and each unit in it is of a write
   that is logged, under one of them.
4. `Connected`, while no connection broke: open handles have numbers of their
   own that denote open files, every request in the buffer belongs to an open
   handle, and denotes the file its writes were for.  This is what a broken
   connection destroys (`write_back_stale`).
5. `Calm`, while nothing failed: names still denote the files that were opened,
   so nothing is refused, and what `fs_write` reported was run or waits.
6. `Reading`, while nothing failed: what reads and truncates have met.

Two arguments stand beside the layers.  `Exact` says that `bytesInBatch` is the
number of units and that no other place of the buffer has a unit of the same
write; a lemma on the size of a row of units shows that a request of its own, a
combined one and an emptied buffer all keep it.  `CallsProgress` needs `Types`
alone: each action is shown to lower `Rank`.

### SharesProofs

* `UsersStrayToNewer`: `StraysOnlyToNewer`;
* `SessionsAsEntered`: `SessionsFromForms`;
* `SharesListed`: `ListComplete`;
* `SavedAccessAsShown`: `AccessAsShown`.

Rows stray only to newer shares because `sqlite_sequence` never falls: the key
an editor reads back is that of its share or of one added since (`Requests`).
`ListComplete` is a fact about two loops, the join over the keys and the
grouping of its rows, for any table; it is proved by induction over the rows, in
the form that a set of numbers which has an element has a least one (`Least`).
`Undisturbed` gives for an editor that works alone what the table has for its
share at every stage between opening the page and the last row.

The second part of the module is about `Setup`:

* `EnteredUserIsAdmin`: `AdminAsEntered`;
* `ServesNewPair`: `NewPairServed`.

`PairSet` says what of the pair and the settings each stage of `--init` has
done, and `LastKeyUsed` that the last key of the sequence belongs to a user, the
one that gets the role also when the insertion failed.  `PairSet` says of each
write the code does not check only that it was done or is among `passed`.  The two properties are
inductive with these.

### SharePermsProofs

* `CallsAreGranted`: `ActsGranted`;
* `RowsStayWithFiles`: `RowsFollowFiles`.

`Asked` says that while no row changes no row applies below the level the
look-up has reached, and that each directory the call will change is granted or
still to be asked about, that of a file to be created if it was not `there`.
`Followed` says, as long as `odd` is empty, that the
statements that are still to come are about different parts of the tree, that
none finds rows of another share or has one in its way, and that together they
turn the rows into `grants`.  `RowsFollowFiles` looks at the rows only when no
statement is to come; this is its meaning in between.

The second part is about `FileMode`, for every mode of 16 bits, every width of
the unsigned number, setting and umask:

* `ModesTyped`: the octal number stays within an `int`, for negative settings too;
* `ReportsPerms`: `PermsReported`;
* `CreatesAsSet`: `CreatedAsSet`.

`Read(b, c, k, n)` is what `k` digits of `n` in base `b` read in base `c`.  At
every turn of the first loop the decimal number it has made, and the value of
the digits that remain, are together the digits of the mode read in base 10
(`Spelled`); at every turn of the second the value made and the digits that
remain are together the target (`ReadingBack`), which is said only of the octal
numbers that are none below zero.  That the target has the owner's bits is a
fact about the digits of one number with one digit replaced.

### FramingProofs

* `OnlyWideTexts`: `OnlyWideTextsLoseStep`;
* `ActsAsAsked`: `AsAsked`;
* `FailuresReported`: `ErrorsReported`;
* `BytesImplementCalls`: `Framing` implements `RemoteCall`;
* `Invariance`, the invariant itself, which says more than the four.

None of the properties speaks of the bytes under way, and a single one out of
place breaks all of them, so the invariant has to say what they are.  It does
so without repeating the module.  A stream of bytes `Spells` a list of fields,
each with its item, width and value; a reader with a list of items reads these
fields if the width of each text is what an earlier field says (`Sourced`) and
the items are, loop by loop, those of the fields (`Script`).  A `Letter` is a
message of which a part may have been read: what remains to be read fits what
remains of the bytes, and when all is read the latest values are those it was
meant to tell.  `LetterRead` is the heart: one `readExactBytes` leaves a letter,
or it meets a text longer than its length field says, and these are named (`D`).
Messages are put together field by field (`MessageNumb`, `MessageText`) and
loops by what their count or code says follows, so that for each of the 21
operations two short proofs show that the arguments of the client are a letter
to the worker's form, and the reply one to the client's.

The invariant `Inv` then lists the places of the conversation as `Dialogue` does
in `SessionProofs`: at any time it is the worker's turn, the client's or
nobody's, the other side waits with nothing under way to it for a form that
begins with a field of fixed width, and what is under way is a letter for the
side whose turn it is, telling it what the other meant.  A side can only lose
its place in one of the named texts, which is `OnlyWideTextsLoseStep`.  For the
refinement each step is one of `RemoteCall` or changes nothing of what it sees;
only the call that is performed and the one that is lost need the invariant.

### WebRequestProofs

* `PagesGetTheirRequests`: `PagesGetWholeRequests`;
* `PathsResolveAsWalk`: `ResolvesAsWalk`;
* `PathsResolveToNames`: what is appended to the directory of the web panel has
  no empty part, `.` or `..`, unless the last name of the path has white space at
  its end and trimming makes one of it (no run states it, as `ResolvesAsWalk`
  implies it).

`Stream` says that what was read, what has come and what is to be sent are the
request, cut in three; `Place` where in it the worker is.  The unsigned counter
needs a case of its own: once below zero it is far from it, so the loop does not
end in the middle of a later piece.  `Traced` relates the list that the loop
edits to a walk: what the index has passed is what the walk has made of the
parts so far, and the rest of the list is the rest of the path.

### What the proofs changed

* `ActsGranted` used to compare the rows with those an operation began with.
  Rows can change and come back, and a look-up between the two is answered by
  neither; the attempt to prove it stopped there.  It is stated by `fresh` now.
* `WritesFindTheirFile` used to say nothing after a broken connection and not
  which file before one.  The invariants show both.
* `PagesGetWholeRequests` is stated as the whole head and exactly the stated
  body, which needs the assumption that the counter is wider than a body.
* `AccessAsShown` and `ListComplete` rest on `0` being no key of a user: a share
  without users has a row with that key in the join.
* `NoCall` and `lost` have `"none"` where there was an empty text, which the
  solver behind the proofs does not take for a value; `FramingAssumption` now
  says that an ASCII text exists, which `Msg` chooses.
* The formula of `OnlyWideTextsLoseStep` was laid out so that its last two
  alternatives belonged to the one before; the obligation showed it.
* `FileMode` bounds its modes by 16 bits (`Bits16`), and its type invariant the
  octal number by 177777 above and the least `int` below.
* The loops of `get_shares` and the reference walk of `ResolvePath` are
  recursive functions, not folds, so that they can be unfolded in a proof.

### Only model-checked

* Liveness (`CallsSettle`, `WorkersEnd`, `ConversationsEnd`,
  `RequestsAnswered`) and `NeverStuck`, which is about `ENABLED`: outside the
  prover's reach.
* The type invariants of modules whose run does not list them are there for the
  reader and hold as their comments say: `FdTypes`, `SessionTypes` and
  `ModesTyped` prove three, and every inductive invariant has its own typing.
* What `Framing` and `FileMode` compute is proved for every value of their
  constants; that the constants in the code are 2^32 and the size of `struct
  stat`, and that client and server agree on the latter, is not.

## 5. What the checks found

Two runs record disagreements between the code and what it says of itself;
`PROJECT.json` quotes the lines.

* The merge of writes can cross files after a reconnection (`write_back_stale`).
* The assertion in `syncLocalUsers` fails on a broken connection
  (`session_assert`).

Twelve more are stated in the modules as properties whose comment says what the
text, or a reader, would expect and then "Not so".  No run is kept for them; TLC
refutes each one that is added to the module's `.cfg` (`RunsOnValidPort` with 0
among `Ports`, `NoticeIsTrue` with a second log).

* Names longer than 64 bytes can be opened but not used: the message "The File
  Descriptor link in /proc increased in size" appears though nothing changed
  (`NoSpuriousGrowth` of `FdTable`).
* The first write after a reused number is not sent directly, because `FdsUsed`
  is never cleared (`FirstWriteDirect` of `WriteBack`).
* Approving a computer again makes the next start fail, which a comment says
  only editing the database can do (`StartNeverRefused` of `Registration`).
* Changed permissions of a share are reported as saved and ignored
  (`SavedAsShown` of `Shares`); the key of a new share may be another share's
  (`KeyOfNewShare`).
* Settings that are no octal mode are used for new files, and those from 2^31 on
  make files of other modes and kinds than asked for (`InvalidModeDenied` of
  `FileMode`).
* The path `..` at the end of a request line without a version is taken for a
  name, and trimming makes it `..` again (`OnlyNames` of `WebRequest`).
* A certificate that could not be written, or one that was though its key was
  not, leaves a key and a certificate that do not belong together
  (`ServesAPair` of `Setup`).
* `--init` says "ready" of a server that does not start (`ReadyServerStarts` of
  `Setup`) and gives a wrong reason for not adding a log (`NoticeIsTrue`);
  `--set-cert-file` sets something else (`CertFileIsSet`); the port is not
  checked (`RunsOnValidPort`).

Three texts are sent with their number of characters (paths of a batch, targets
of links, the e-mail address of a registration).  No document promises other
than ASCII, so this is a named exception of `OnlyWideTextsLoseStep`, like the
32 bits of a truncate in `AsAsked`.  `resolveRelative` never removes the first
part of a path (`/a/../b` is `/a/b`); `ResolvesAsWalk` states it as it is.

The models show some more behaviours that no text of the repository speaks of:

* A client whose `/etc/passwd` gives a uid to another user keeps the old name in
  `Client_Users` (`Session`).
* An open with `O_CREAT` makes a file again that was unlinked after
  `QFile::exists()` found it, and nobody asked for `w` on its directory
  (`SharePerms`).
* The target of a symbolic link arrives relative to the mount point, wherever in
  the tree the link is (`Framing`).
* `--init` ends with "ready" after a failure to add the user or the role, and
  after one to write the certificate or a setting, which it does not mention
  (`Setup`).

## 6. Not modelled

* PH7 (62042 of the 72192 lines), fastpbkdf2 and the scripts of the web panel
  that come with it: vendored.  `old-SSNFS-client`: replaced, in no build.
* The login of the web panel and its tokens, and password hashing: access
  control is not a subject of this project.
* The lists of users, pending and connected computers: read-only pages.
* Logging, `WebPanelPath`, the console's wording, parsing of an HTTP request
  line, TLS (which delivers bytes in order or breaks).
* What chmod, chown and utimens do to a file, and the contents of a directory
  or of `stat`: one system call each.
* The race of `get_connected` with workers that end, and the `errno` that
  getattr reads after a look-up: below the level of these models.

## 7. Plan

1. An abstract file with delayed writes that `WriteBack` implements while
   nothing fails, shown by a run first; `AckedNotLost`, `OrderKept` and
   `PassesOnlyWaitingWrites` are what it would say.
2. An abstract table of grants per file that `SharePerms` implements while
   `odd` is empty; `Followed` is the mapping.
3. `RemoteCall` as what `Session` implements too, with a stage for a broken
   connection; `Dialogue` is the mapping.
