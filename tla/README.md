# livefs in TLA+

livefs is a small HTTP and HTTPS file server in C. One kernel thread runs
cooperative green threads (`include/vendor/gt/gt.h`), one per connection; files
are served from a cache of raw heap pointers; whether a directory is shown is
decided by a descriptor file beside it. This directory holds its models, the TLC
runs that check them, and proofs that the TLA+ proof system checks. Paths below
are those of the repository.

## 1. The system

| Component | State it keeps | Operations | Interacts with |
|---|---|---|---|
| Green threads, `include/vendor/gt/gt.h` | run queue, poll map (threads waiting on a descriptor), dead list, current thread; per mutex a flag and a list | `gtgo`, `gtyield`/`gtswitch`, `gtblockfd`, `gtmutex_lock/unlock`, the end of a thread in `gtprelude` | everything: a thread runs until it calls one of these |
| File cache, `src/filesystem/cache` | `entries`, `count`, `capacity`, `threadlock`; the heap blocks the entries point to | `cache_new`, `cache_get_file`, `cache_free`, `cache_clear` (never called) | hands out `entry->data`, not a copy; is freed by `exitcall` |
| Reading a file, `src/filesystem/read_file.c` | an io_uring, a descriptor and a buffer per call | `read_file` | called outside the cache's lock; waits in the kernel without yielding |
| Connections, `src/socket/client.c`, `src/utils/tls.c`, `src/socket/async` | descriptor numbers, per handler its socket, SSL object and request | `client_listener`, `client_handler`, `is_secured_connection`, `async_recv/send`, `ssl_async_read/write` | kernel's descriptor table; OpenSSL; `send_file_request` |
| Sending, `src/filesystem/send.c` | per handler a position in the body | `send_file_request`, `send_buffered_bytes`, `send_data` | the cache; http.c; descriptors; configuration |
| Responses, `src/protocol/http.c` | none | one function per status; the error pages also close the socket | `client_handler`, which closes the number again |
| Descriptors and request paths, `src/config/descriptor`, `src/filesystem/filepath.c`, `src/utils/path.c` | static buffers | path of a request, path of its descriptor, its keys | a second cache |
| Configuration, `src/config` | the global structure, read once; `~/.config/livefs/config.cfg` | finding the file or creating the default one, reading keys, verifying | read by handlers; the file is shared with users and other processes |
| Start-up and shutdown, `src/main.c`, `src/socket/server.c`, `src/utils/exit_handler.c` | the listening socket | create, bind, listen; `exit()` inside the signal handler, `exitcall` | the configuration; ports of the host; the cache's lock and entries |

What is hard here, and where:

* *Interleaving.* Threads only switch in `gtblockfd`, in a contended
  `gtmutex_lock` and at their end. Whatever is believed over such a point can
  be stale: the data pointer of a file over the yields of
  `send_buffered_bytes`, a descriptor number after an error page has closed it.
* *Atomicity.* `cache_get_file` uses two critical sections with `stat` before
  and `read_file` between them; the file system changes on its own.
* *Partial failure.* A client that leaves in the middle, a file that
  disappears between `stat` and `open`, a read that fails after `open`, an
  `accept` without a free descriptor.
* *Shutdown.* `exit()` runs in a signal handler, on the interrupted thread,
  and before there is a configuration too. It frees one cache and then the other,
  each under a lock that the interrupted thread may hold.
* *Crash and restart.* What a start leaves behind is a file, perhaps empty; the
  next start reads it.
* *Blocking.* `accept()` gives blocking sockets; a `recv` on one stops every
  green thread.

What makes each component correct:

* Cache: count never passes the capacity; an entry owns its block; a path is
  cached once; nothing is freed twice and nothing leaks; a handler sends the
  file it was asked for, not older than the one it saw; a buffer lives as long
  as it is sent; the lock comes free again; the cache is a bounded FIFO.
* Connections: a handler uses and closes its own descriptor only; no descriptor
  is lost; a request is answered once, with its own answer; every connection
  ends; a connection does not stop another one.
* Green threads: a thread is in one list; no wake-up is lost; the run queue is
  fair; a mutex has one owner and hands over in order.
* Reading: every descriptor and buffer is given back on every path; the size
  returned is the size of the contents.
* Paths, descriptors, keys: slashes and arguments make no second spelling of a path
  (`/./f` and `/f` stay two), a directory is governed by its own descriptor, and
  what is written in it holds.
* Start-up: only a process with a verified configuration and a listening socket
  serves; a user's file survives; every start comes to an end or to service.

## 2. Modules

| Module | Models | Used by |
|---|---|---|
| `FileCache` | the file cache, the handlers that use its buffers, signals, files that change | `MCFileCache`, `FileCache_proofs` |
| `FifoCache` | what the cache promises while no file changes (abstract) | `FileCache` (refinement) |
| `FileCache_proofs` | theorems about `FileCache` | |
| `Request` | the early returns of `send_file_request`: which answers a request can get | `Connections`, `Visit` |
| `Connections` | accept loop, client handlers, descriptor table, TLS, clients | `MCConnections`, `Connections_proofs` |
| `Connections_proofs` | theorems about `Connections` | |
| `Lists` | the intrusive lists of gt.h (no state) | `GreenThreads`, `Visit` |
| `Lists_proofs` | lemmas about `Lists`, and induction over numbers and sequences | `GreenThreads_proofs`, `Paths_proofs` |
| `GreenThreads` | gt.h: run queue, poll map, epoll, dead list, mutex | `MCGreenThreads`, `GreenThreads_proofs` |
| `GreenThreads_proofs` | theorems about `GreenThreads` | |
| `FifoLock` | what a mutex promises (abstract) | `GreenThreads` (refinement) |
| `Paths` | the functions on paths (no state) | `Visit` |
| `Paths_proofs` | what these functions compute, for paths of any length | `Visit_proofs` |
| `Keys` | reading keys from a configuration text (no state) | `Visit` |
| `Keys_proofs` | what is read from a text: the first line that begins with the key | `Visit_proofs` |
| `Visit` | a request and its redirects, answered from a path, a disk and descriptors | `MCVisit`, `Visit_proofs` |
| `Visit_proofs` | theorems about `Visit` | |
| `Startup` | `main` up to the accept loop, configuration file and ports, several processes | `MCStartup`, `Startup_proofs` |
| `Startup_proofs` | theorems about `Startup` | |
| `MCFileCache`, `MCConnections`, `MCGreenThreads`, `MCVisit`, `MCStartup` | values of the constants for TLC | the runs |

### FileCache

State: `entries` is `cache->entries[0 .. count-1]`, so `count` is its length.
`heap` and `live` are the heap: an entry's path and data are allocated and freed
together and are one block. `lock` and `waiters` are the `GTMutex`. `cpu` is the
green thread that runs, or `Main` when the scheduler picks the next one. `pc`,
`req`, `seen`, `buf`, `sent` are a handler's place in `cache_get_file` and
`send_buffered_bytes` and its locals; `seen` stands for the `st_mtime` of its
`stat`, which is `SecondOf[seen]`. `disk` is the file system. `proc` is how far
the process is from its end.

It is `file_data_cache` that is modelled. A request whose path has a descriptor
file goes through `directory_descriptor_cache` first (`Begin`, `Described`); of that
cache only the lock is kept, in the labels `descriptor` and `stuck`, because it
matters at exit.

Actions follow the lines of `cache_get_file`: `Stat`, `LockForLookup`, `Hit`,
`EvictStale` or `Miss`, `Read` or `ReadFails`, `LockForStore`, `Store`; then
`Send` once per chunk, `SendFails` when the client is gone. Actions of one
handler are separate although the handler does not yield between them, because a
signal, or a change of the file, can come between any two of them; that
*handlers* do not interleave there is the variable `cpu`, not the grain of the
actions. `Rewrite` and `Remove` are the outside.

`exit()` from the signal handler frees this cache and then the other one
(`cacheinit.c:11-14`), each under its lock. `Terminate` is the case in which no lock
is held. With this cache's lock held, `TerminateHolder`, nothing is freed and the
handler waits for itself (`proc` is `exiting`). With the other's lock held,
`TerminateDescribing`, this cache *is* freed and the handler waits for itself after
that (`freed`), while the other handlers run on with a freed cache: `UseFreedCache`
takes any outcome. The properties of the cache speak of the time until then
(`Intact`).

Undefined behaviour. Once an entry has been freed (see finding `cache_stale_slot`) the
code compares, frees and sends freed memory. A freed block that is still pointed to
keeps its identity (`Read` does not reuse it), so a dangling pointer stays visible in
the state, and its uses are nondeterministic: a comparison may go either way
(`MayMatch`, `MayDiffer`), a second `free` releases any live block or aborts (`Freed`,
`DoubleFree`), a copy succeeds or faults (`Send`, `SendFaults`). The same is done with
`read_file` on a directory (`ReadDirectory`), which frees its buffer, copies it and
frees it again: it aborts, or returns a copy that the second `free` may have freed. What
is sent from freed memory is arbitrary, and `RightFile` says nothing of it.

Bounds in the module: `MaxVersion` bounds the rewrites of a file, `Block` the
heap. With fewer blocks than handlers, entries and dangling pointers need, `Read`
is disabled; the runs give enough blocks for every read to find one (see below).

### Connections and Request

`table` is the kernel's descriptor table: a number is free, a connection, or an io_uring
that `read_file` has left open after a failed `open` (`Ring`). Numbers are reused,
lowest first. Those that `read_file` takes and gives back before it returns do not show,
but it needs two for a moment, the ring's first: when there are not two (`Scarce`) the
open of any file that is not cached fails, and the ring stays if it had got the last one
(`After`). A request may go through `read_file` twice, for its descriptor and for its
file or page. Rings leave fewer numbers to `accept`, though never none. `backlog` is its
queue; `Accept` needs a free number, otherwise the loop of `client_listener` goes round
without effect. A handler goes through `pc`: `start`; with SSL enabled `peek`
(`is_secured_connection`), `handshake`, `tlsRead`; for plain connections `awaitIn`
(parked in `gtblockfd`); then `awaitOut` (parked until writable), `sending`, `finish`
(the second `is_secured_connection` and the last `close`), `done`. A handler in `peek`,
`tlsRead` or `finish` keeps `cpu` while it waits: these are `recv` and `SSL_read` on a
blocking socket. `out` collects the status lines written to a connection, wherever they
came from: `Writes` goes through the descriptor *number*, so a stale number would write
to another connection.

`Request` is pure: a request is a record of what the early returns look at. It has
two stages, as the code. The descriptor comes first: `Beside` says which one
`read_descriptor_file` asks for, and `Governed` what the request becomes when that
could be opened, or not; one that could not is no descriptor. Then `Served` is the
file or page that is asked for, and `Answers` the statuses that can follow, in the
code's order, among them `Crash` for the double free in `read_file`. Files, pages
and descriptors may each be `locked`, there for `stat` but not for `open`, and pages and
descriptors may be directories. `Respond` in `Connections` goes through the two
stages and the rings they leave; `Responses` is their composition for
`Visit`. The files do not change while a request is being decided; what
happens when they do is `FileCache`.

A client connects, sends at most two messages and leaves. A TLS client opens
with a ClientHello; the handshake succeeds or fails as one step, so a client that
stalls in the middle of it is one that stalls before it. It does not negotiate
again. Bodies have `Chunks`
chunks, at least one.

### GreenThreads

`queue`, `dead`, `waiters` and `waiting[f]` are the intrusive lists of gt.h, as
sequences (`Lists`): the running thread stays in `queue`, at the end. A bucket is
`waiting[f]` and `events[f]`. Of the hash table only what can be told is kept:
`size` is the number of its places, `len` the count kept beside it (which
`gtswitch` trusts when it decides whether to poll), `found` the descriptors whose
bucket a chain leads to; `Insert` drops the other buckets of its place from
`found`, as line 138 does, while their threads go on waiting in them and epoll goes
on pointing to them. `Counted` says that the count never falls below the number of
buckets in use. `epoll[f]` is what the kernel was asked for, which
is not always `events[f]` (line 363).

`gtyield` is a step into `gtswitch`, whose phases are `poll` (`EpollWait`),
`fired` (`Handle`, once per event) and `pick` (`Pick`); the timeout of -1 is the
guard that a wait without a runnable thread reports something. The kernel may
report any of the events it was asked for at any wait, in any order. EPOLLHUP and
EPOLLERR, which it reports unasked, come with readability and writability on a TCP
socket and are left out. `up` becomes false where the code calls `exit` or
dereferences NULL.

Its worlds: with `livefs`, every thread waits on its own descriptor and the
listener, `Main`, takes no mutex; otherwise descriptors are shared and `Main` uses
the mutex too, which the library permits. In both, a thread may wait or be
descheduled inside a critical section, which livefs never does.

### Paths, Keys and Visit

A path is a sequence of pieces, `/`, `~`, `?` and parts of names, and a text one of
keys, `=`, blanks, `#`, line ends and digits; nothing in the code tells more apart.
`Piece` is what paths are made of, any set that has the slash, `index.html` and `.cfg`.
Each operator is one function, edge cases included: `ParentDirectory` leaves the
slash that `path[path_length--] = 0` was to remove, `FileInt` reads a number from
the next line as `strtol` does, `GetKey` stops at the first line that begins with
the key.

`Visit` puts them together. `visit.disk` maps the paths of files to their texts,
and directories are what lies above a file. `Features` computes from a target what
`Connections` takes as given (`object`, `slash`, `descriptor`, `page`), and
`Request!Responses` decides; `Follow` is the browser's next request, for the location
that `http_redirect` wrote. `Received` is what `sscanf` makes of a path that is long
(`send.c:33`): it reads 255 characters into an array of 255, so that the end of the
path is overwritten by the version, and 15 of what is left into the version
behind it. `PathSize` and `VersionSize` are these two numbers, counted in pieces.

### Startup

Processes share a host: its home directory, the file in it, the ports. `pc` is the
place in `main`: `find`, `create`, `fill` (between `fopen` and `fclose`), `parse`,
`open`, `bind`, `listen`, `block` (the first `gtblockfd`), `loop`, and `stuck` for a
process that waits in `exit()` for a lock of its own. A configuration is
a record of its keys' values, not its text; `Empty` is what a file that was
truncated and not filled reads as. `Signal` is `exit()` with `exitcall`, `Kill` the
end without it; both come at any moment, as does the next `Start`. In the accept loop
`exitcall` meets the caches, and what `FileCache` finds there are its outcomes: an
exit, a crash, or a process that is stuck (`ExitsLoop`); before the loop the caches are
empty. `Crash` is the end that the other modules find for a process that serves.
`Parse` fills `global_config` before the text that begins with a blank is freed a
second time, as the code does, so that process crashes with a configuration.

A user's `Edit` puts a new file in the place of the old one, as editors do, so a
process in `fill` goes on writing the file it has opened: `held` are the processes
whose open file still is the configuration. Two variables only remember: `cut`,
whether the file is empty because a writer was stopped, and `late`, which
processes had looked for the file before a user wrote one.

Of the kernel's part: `SO_REUSEADDR` lets two sockets bind a port of which none
listens, and `listen` decides; an unbound socket that listens gets a port of the
kernel's choice (`Chosen`); `htons` keeps 16 bits of a port (`Wanted`). One branch
cannot be reached and is kept as in the code: `Open` with `enable_ssl` neither 0
nor 1, which verification has excluded (`ConfInv` in the proofs).

## 3. Runs

| Run | Instance | Checks |
|---|---|---|
| `cache_full` | 2 handlers, 2 files with 1 rewrite each and removals, capacity 2, 4 blocks, 2 chunks, signals, symmetry | `TypeOK`, `NeverContended`, `RightFile`, `NoLeak` |
| `cache_static` | 2 handlers, 3 files that stay as they are, no directories, capacity 2, 4 blocks, signals, symmetry | `SlotsSound`, `NoAbort`, `FifoSpec` |
| `cache_live` | 2 handlers, 2 pages of which 1 changes and 1 is a directory, capacity 1, 3 blocks, fair scheduling | `EveryRequestEnds` |
| `cache_stale_slot` | one file changes | `SlotsSound` is violated |
| `cache_evicted_buffer` | capacity 1, nothing changes | `BufferLive` is violated |
| `cache_shutdown` | a signal in a critical section, fair scheduling | `ShutsDown` is violated |
| `connections` | 2 connections, 3 descriptors, 2 chunks; TLS beside plain connections, allowed or not, or no TLS; a file, a page and a descriptor that cannot be opened (the file only while numbers are scarce), a page and a descriptor that are directories, a redirect, a blank line; fair server, clients that hang up | `TypeOK`, `OwnDescriptor`, `OneAnswer`, `PlainAnswered`, `FilesNotInClear`, `NumbersLost`, `EveryConnectionEnds` |
| `connections_tls` | 2 connections, TLS enabled | `TlsAnswered` is violated |
| `connections_blocked` | 2 plain connections, fair server | `Responsive` is violated |
| `threads` | 3 threads; one shared descriptor, or 4, 5 and 7; fair switching | `TypeOK`, `OneList`, `Armed`, `NeverExits`, `OneOwner`, `Counted`, `FifoLockSpec`, `NeverOvertaken`, `EveryThreadRuns` |
| `visit` | every target of up to 4 pieces on a site whose root is spelt in 4 ways, with no descriptors, hiding ones, ones that name a page, locked ones, directories; targets of 5 to 12 pieces around a path of 6 and a version of 5; every descriptor text of up to 4 pieces with the key `hidden` or `page`, and lines for longer names before and behind | `OneRedirect`, `OneSpelling`, `OwnDirectory`, `HiddenAsWritten`, `PageAsWritten` |
| `startup` | 2 processes, 7 texts of users, 6 hosts; signals, kills, restarts, edits; fair processes | `TypeOK`, `ServesVerified`, `CrashesUnverified`, `WholeUnlessStopped`, `KeepsUserConfig`, `EveryStartEnds` |

Why the bounds are enough. Two handlers make every conflict over one buffer or
one slot, and the one that waits behind a lock that the other holds at exit. Capacity 2 is
the least at which the oldest and the newest entry differ and at which a stale
entry has a neighbour to be doubled; with 2 or 3 files it is also the point where
an eviction happens. One rewrite is enough to make an entry stale, and the removal
that follows or precedes it makes `stat` and `read_file` fail. Two chunks give one
yield in the middle of a body. Four blocks in `cache_full` are two entries and two
buffers that dangle or are on their way. Two connections over three descriptors
reuse the number of one while the other is alive, leave two numbers free, one, or
none, and let one request lose two.

Three threads with one mutex make a line of an owner and two waiters, so that its
order shows; on one descriptor they make buckets that are asked for more and for
less while somebody waits. Descriptors 4 and 7 share a place in a table of three,
which is the size after the second insertion. A lost bucket stays counted, so the
table grows until no two descriptors collide, and the state space is finite
without a bound.

Four pieces make every way in which two slashes, two names or a question mark can
follow each other, at the start and at the end; a comment or a space in front of a
key, a missing value and a line end in the place of one. A path of six pieces and a
version of five are passed by targets that are shorter, fill the path, fill both and
fit in neither. Two processes are enough
for a file that is created, read and emptied at once, and for one port wanted
twice; a third adds no pair. The texts and hosts of `startup` go into each branch
of `verify_config`, `initSSL` and `get_config_file_dir`.

The runs of the cache, of connections and of visits set `CHECK_DEADLOCK FALSE`: the
process exits, aborts or faults, clients stop coming, and a visit ends. `threads`
and `startup` check deadlock.

Fairness. `FileCache!FairSpec` gives a handler that holds the CPU weak fairness,
as nothing preempts it for good, and a parked handler strong fairness: `gtswitch`
moves the thread it picks to the end of the run queue, so a thread that is runnable
again and again is picked. `Connections!ServerSpec` states the same of the
handler's steps, and strong fairness of `Accept` because the listener is a thread
of the same queue. `GreenThreads!FairSpec` has weak fairness of
`gtswitch` and of each thread's yielding at last, which every loop of livefs does
but for the blocking calls that `connections_blocked` is about. It assumes
nothing of the order in which threads run: that a runnable thread runs
(`EveryThreadRuns`) is what the code adds, and what justifies the strong fairness
above. `Startup!FairSpec` gives each process weak fairness of its next step in
`main`, since nothing in it waits for anybody; none is assumed of users, signals or
restarts. No fairness is assumed of clients but in
`FairSpec`, where they hang up in the end: without it `EveryConnectionEnds` is
false, and `connections_blocked` shows how far one silent client reaches.

What the passing runs show. In spite of the broken bookkeeping of stale
entries the cache does not serve another file or an older second (`RightFile`):
a slot that was freed may match anything, but what it then hands out is freed
memory or its own file, and a doubled slot is a copy of an entry that is right.
It does not leak (`NoLeak`): every block stays in a slot that count covers, or is
freed. It does not contend (`NeverContended`): the two critical sections contain
no yield, so the mutex would only be needed if one were added, which is the mutant
of `SlotsSound`. While no file changes, and no page is a directory, the cache is sound
until it is freed at exit (`cache_static`), but for `BufferLive`. On the connections'
side the double close of each error page is harmless, because the handler does not
yield between the two (`OwnDescriptor`; the mutant yields). A number is lost for good
when something that is there cannot be opened, be it the file, the page or the
descriptor, or when numbers are so few that the ring of an ordinary file takes the
last; the last one of all is never lost, because the request that would lose it holds
it (`NumbersLost`). `FilesNotInClear` says how far finding 4 goes: error pages and
redirects are written in the clear into the TLS stream, where no client can read
them, and of a file not even that much is sent. In gt.h the two shortcuts hold:
`gtblockfd` skips `epoll_ctl`, and
`gtswitch` asks for less without writing it down, yet no thread sleeps on a
descriptor that is not armed for it (`Armed`); the bucket that line 138 loses still
wakes its threads, because epoll keeps the pointer (`EveryThreadRuns`,
`NeverExits`), and because the lost bucket stays counted (`Counted`; the mutant
counts what the table leads to).

However the slashes and arguments of a path are written it comes out in one
spelling (`OneSpelling`), and one redirect is enough (`OneRedirect`) since it is the
request's own last character that is looked at, and as long as the redirected path
ends before its array does. The slash that `get_parent_directory_path` fails to
remove is what puts a directory's descriptor inside the directory (`OwnDirectory`, of
targets without arguments): the mutant repairs the loop and moves it beside. The keys
of a descriptor are read as their owner means them when the first line that begins
with the key is the key's own (`HiddenAsWritten`, `PageAsWritten`), whatever comes
before and after it: `trim_whitespaces` takes off what `file_get_value` leaves around
a page's name. At start-up, failures of `bind` and `listen` are only printed, yet no
process serves without a socket, for the first `gtblockfd` on a closed one ends it
(`ServesVerified`, `EveryStartEnds`); an empty file is never served with, because it
has no root; and between a verified configuration and the accept loop nothing
crashes, at no failure and no signal (`CrashesUnverified`). At a signal in the loop
the findings below apply.

Findings (`PROJECT.json` quotes the lines):

1. A changed file's entry is freed, but `count` stays (`cache_stale_slot`).
2. An eviction frees a buffer that is being sent (`cache_evicted_buffer`).
3. A signal while the lock is held hangs the process (`cache_shutdown`).
4. Nothing is ever written to a TLS connection but error pages and redirects in
   the clear, which its client cannot read (`connections_tls`; the run asks for a
   file, for which not even that is written).
5. A silent client stops the server (`connections_blocked`).

Also met, without a run of their own, for nothing in the repository promises
otherwise or the models only note it:

* A bucket that another descriptor replaces in the poll map is never freed
  (`gt.h:138`), so the map only grows.
* A directory asked for with arguments, `/d?x`, is redirected to `/d?x/`, whose
  path is `/d` without a slash: its descriptor is looked for beside it and its
  page is `dindex.html`.
* A request's path is read up to 255 characters (`send.c:33`). A target of 270 or more
  to something that is not there loses the slash of each redirect again and is
  redirected for ever; a path that fills its 255 characters runs on in the version
  behind it, so a directory of 254 characters is redirected to itself with a slash
  and then looked for as `HTTP/1.1` below it, which is not found.
* A line for a longer name in front of a key's hides the key: with `hidden_note = x`
  before `hidden = 1` the directory is shown, because `get_key_in_file` stops at the
  first line that begins with the key (`read_key.c:30-38`).
* When descriptor numbers run out, the descriptor of a hidden directory cannot be
  opened, which counts as no descriptor (`send.c:140-151`): a page that is still in the
  cache is then shown, unless descriptors are enforced.
* A directory that has the name of a page or of a descriptor makes `read_file` free its
  buffer twice (`read_file.c:40-51`).
* An SSL object is freed only if the next byte is that of another handshake
  (`client.c:79`), so an ordinary TLS connection leaks it.
* A signal while the descriptors' lock is held frees the files' cache under the threads
  that go on (`cacheinit.c:11-14`).
* After a failed `bind` the server serves on a port of the kernel's choice
  (`server.c:94`).
* A configuration that cannot be read crashes in `file_get_int(NULL, ...)`, before
  `main.c:61` tests for it; one that begins with a blank is freed twice
  (`global_config_file.c:54`); and an exit before the configuration is parsed
  crashes in `clear_config(NULL)` (`main.c:40`).
* An empty configuration that a stopped start has left is never generated again:
  every later start exits.
* A user's file that appears between the search and `fopen` is emptied
  (`create_global_config.c:69`); `KeepsUserConfig` says that this is the only way.

## 4. Proofs

`FileCache_proofs` proves, for every value of the constants that
`ParameterAssumption` allows (any sets of paths, handlers and blocks, any
capacity of at least one, any clock that does not run backwards). `Static` says that no
file changes and that no page is a directory (`Modifiable = {}` and `Directory = {}`):

| Theorem | Statement | Inductive invariant |
|---|---|---|
| `TypeCorrect` | `Spec => []TypeOK` | `TypeInv`: with `LocalOK`, a handler that serves a request has a path, and one that has read has a block |
| `LockNeverContended` | `Spec => []NeverContended` | `SchedInv`: handlers that do not run are idle or between chunks; after a signal that found the lock taken it is never free again, and whoever waits waits for ever |
| `ServesRightFile` | `Spec => []RightFile` | `RightInv`: a live entry holds its path's contents of its second or later (`Fresh`), no entry is ahead of the disk (`SeenNotAhead`) |
| `NothingLeaks` | `Spec => []NoLeak` | `NoLeak` itself, with `TypeInv` |
| `EntriesSound` | `Static` implies `Spec => []SlotsSound` | `StaticInv`: files stay, live slots are distinct, and the path a handler is about to store is not cached |
| `NeverAborts` | `Static` implies `Spec => NoAbort`: no step aborts while the cache has not been freed | `StaticInv` |
| `ImplementsFifo` | `Static` implies `Spec => FifoSpec` | `StaticInv`; a `Store` maps to `FifoCache!Store`, every other step to a stutter |

The strengthening is needed because each property speaks of the moment at which
something is used, and the code establishes it earlier: that a path is not
cached is found out in the first critical section and relied upon in the second,
which is sound only because no other handler runs in between (`SchedInv`).

`Static` is not a convenience: run `cache_stale_slot` refutes `SlotsSound` as soon as
one file changes, and a page that is a directory aborts by itself. Nor is `Intact`, in
`RightFile`, `NoLeak`, `SlotsSound` and `NoAbort`: after `TerminateDescribing` the
entries are freed and handlers run on.

`Startup_proofs` proves the safety of `Startup` for any number of processes, any
texts that users write, any hosts and any port space (`StartupAssumption`):

| Theorem | Statement |
|---|---|
| `TypeCorrect` | `Spec => []TypeOK` |
| `OnlyVerifiedServe` | `Spec => []ServesVerified` |
| `VerifiedNeverCrash` | `Spec => CrashesUnverified` |
| `EmptyOnlyIfStopped` | `Spec => []WholeUnlessStopped` |
| `UserConfigKept` | `Spec => KeepsUserConfig` |

They follow from one inductive invariant, `IInv`: before its parsing a process that runs
has no configuration, and after it a verified one (`ConfInv`, which also shows that the
crashing branch of `initSSL` is dead, and that `exitcall` finds what it reads); sockets
that listen differ in their configured ports (`SockInv`, because `Listen` tests what
`Bind` may have seen too early); and a user's file has no writer, and nobody about to
create it who is not `late` (`FileInv`).

`FileCache_proofs` also proves what run `cache_evicted_buffer` refutes in general:

| Theorem | Statement |
|---|---|
| `BuffersStayLive` | `Room` implies `Spec => [](Intact => BufferLive)` |

`Room` says `Static`, and that the cache has a place for each file; with one file more
than places, `BufferLive` is false. So a site that fits into the cache and is not edited
is served safely, until a signal. The argument counts: the paths of the entries differ
from each other and from the one that is about to be stored, so the entries are fewer
than the files, and nothing is evicted.

`Connections_proofs` proves the safety of `Connections` for any number of
connections and descriptors, any requests and configurations
(`ConnectionsAssumption`):

| Theorem | Statement |
|---|---|
| `TypeCorrect` | `Spec => []TypeOK` |
| `HandlersOwnDescriptors` | `Spec => []OwnDescriptor` |
| `NumbersRarelyLost` | `Spec => NumbersLost` |
| `AnsweredAtMostOnce` | `Spec => []OneAnswer` |
| `PlainNeverSilent` | `Spec => []PlainAnswered` |
| `FilesNeverInClear` | `Spec => []FilesNotInClear` |

Their inductive invariant `IInv` adds: who keeps the CPU in a blocking call
(`CpuInv`), without which another handler could run between an error page's `close`
and the handler's own, and `OwnDescriptor` would not be inductive; that the kernel
queues a connection once, before it has a handler (`BacklogInv`); what a handler's
place tells about what it has read and written (`ProgressInv`); and that only a TLS
client says hello (`PeerInv`). `NumbersLost` is an action property: of all steps
only `Respond` can leave a ring, at most one for the descriptor and one for the file
(`After` changes at most one number); with two free numbers a file that can be opened is
opened; and the number of the connection itself, which `OwnDescriptor` says is in the
table, is no ring afterwards. `FilesNotInClear` needs a second invariant, `TlsInv`, on
top of `IInv`. `HelloOf`: a client says hello first and once, so what is read without an
SSL object from one that speaks TLS begins with a hello. `ClearOf`: that hello is the only
thing that can have been read as its request, and it is answered 400; so who is about to
send a file in the clear is no TLS client.

`GreenThreads_proofs` proves the safety of `GreenThreads`, and that its mutex
implements `FifoLock`, for any number of threads and descriptors, and any way in
which they share them (`ThreadsAssumption`):

| Theorem | Statement |
|---|---|
| `TypeCorrect` | `Spec => []TypeOK` |
| `OnePlaceEach` | `Spec => []OneList` |
| `NoLostWakeUp` | `Spec => []Armed` |
| `NeverCountsTooFew` | `Spec => []Counted` |
| `MutualExclusion` | `Spec => []OneOwner` |
| `RunsOn` | if in each world threads have descriptors of their own, as in livefs, or all share one: `Spec => []NeverExits` |
| `MutexIsFifoLock` | `Spec => FifoLockSpec` |
| `FifoScheduling` | `Spec => NeverOvertaken` |

The parts of `IInv`: in which lists a thread can be at the same time (`ListInv`);
that who runs is in the run queue (`RunInv`); the mutex has one owner, who does not
wait for it (`MutexInv`); a parked thread waits for one event, its bucket is asked
for it, and epoll reports it (`PollInv`, the reason why `gtblockfd` may skip
`epoll_ctl`); the count is never too small (`Counted`). `ApartInv` serves `RunsOn`
alone: the poll map loses a bucket when two descriptors share a place, and the
thread that comes to a lost bucket asks epoll for a descriptor it already has, which
fails. That needs a second thread on the same descriptor while another one is
waited for, which the hypothesis of `RunsOn` excludes and livefs does not do. Both
cases of the hypothesis are worlds of run `threads`.

`Visit_proofs`, `Paths_proofs` and `Keys_proofs` prove the properties of `Visit` for any
disk, any descriptors and their texts, and targets and roots of any length
(`VisitAssumption`):

| Theorem | Statement |
|---|---|
| `NoSecondRedirect` | `Spec => []OneRedirect` |
| `OneSpellingEach` | `RootsUnmarked` implies `Spec => []OneSpelling` |
| `OwnDirectoryEach` | `RootsUnmarked` and `PagesAreFiles` imply `Spec => []OwnDirectory` |
| `HiddenAsWrittenEach` | `Spec => []HiddenAsWritten` |
| `PageAsWrittenEach` | `Spec => []PageAsWritten` |

`HopInv` says that a target to which a redirect has led is the first one with a slash at
its end, if that fits into the array (`Fits`, `ReceivedIs`), and that what is redirected
does not end in one. Longer targets are outside `OneRedirect`, for the code redirects
some of them for ever.
`OneSpelling` is a fact about what the path functions compute: copying leaves the
names of a path and its end as they are (`NamesNormalised`, `NormalisedIs`), cutting
off the arguments commutes with copying and with putting a root in front
(`StrippedNormalised`, `StrippedJoined`), and one path below another leads through
the names of both (`NamesJoined`). `RootsUnmarked`, no question mark in the
configured root or the home directory, is necessary: `strip_arguemnts_buf` is called
on the joined path and would cut it within the root.

`OwnDirectory` holds for two reasons. A directory that answers was asked for with a
slash at its end (`AnsweredWithSlash`), so its path
ends in one too, and the slash that `get_parent_directory_path` leaves keeps its
descriptor inside (`DirectoryDescriptor`). A file's path does not end in a slash, and
the part up to its last one is the directory (`FileDescriptor`); that the disk's
files have absolute paths without a slash at the end is part of `VisitAssumption`.
`PagesAreFiles`, no directory is called `index.html`, is necessary: the bare slash
leads to such a directory, it is not redirected, and its descriptor is looked for
beside it.

These and the last two rest on the second inductive invariant, `AnswerInv`: an answer is
one that the target has on this disk (`Possible`), since neither changes after it. What
is left is about texts. `Says`, what an owner writes, speaks of lines; `GetKey`,
`FileInt` and `FileValue`, what the server reads, of places in the text. `LinesSplit`
relates the two for a text of any length: the lines lie in it one behind the other, and
one begins at each place that `LineStarts` has. So in a text that says a value the first
place where the key begins a line is that of its own line, and behind the key, but for
blanks, are `=` and the value (`SaysIs`, with `Split`, in which the places rise); that
is where each `Past` of `GetKey` and `FileInt` stops, and `strtol` makes the digit's
number of it (`FileIntIs`). `FileValue` goes on to the end of the line, and the blanks
it takes along are what `TrimBlanks` removes (`FileValueIs`). No theorem says which page
is shown by a directory whose descriptor has a longer name before the key, or a page's
name with blanks in it.

The library's induction theorems take a predicate as a parameter, which the provers
cannot instantiate. `Lists_proofs` states induction with sets in the place of
predicates: a set that has 0 and n + 1 with each n has every number
(`SetInduction`), and the same of sequences that grow at their end
(`SeqInduction`). With them it shows that a function defined by recursion exists
and what it computes (`Recursion`, `OneRecursion`), which is what the lemmas about
`Kept`, `Normalised`, `Names` and `Lines` rest on. That is also why these are recursive
functions and not folds.

Only model-checked: everything about liveness under fairness
(`EveryRequestEnds`, `EveryConnectionEnds`, `EveryThreadRuns`, `EveryStartEnds`),
which the prover does not do; every invariant and action property of a passing run is a
theorem.

## 5. Not modelled

* A signal inside `malloc` or `printf`. A second signal during `exitcall` is in
  `Startup` only.
* What threads do in a cache that `exitcall` has freed, beyond any outcome of each step.
* mtimes that go backwards (a file replaced by an older one): the clock of the
  model does not run backwards.
* A path and its data being freed at different moments: no yield and no return
  lies between the two `free` calls.
* Empty files and short reads; contents with NUL bytes, of which `read_file`
  returns a shorter copy than the size it reports (planned, `ReadFile`).
* The buffers of path functions and their sizes, `PATH_MAX`, but for the path and the
  version of a request; tabs, signs and other blanks in a configuration. In `Visit`,
  numbers do not run out (`Connections` has that).
* A user who writes the configuration in place while it is being generated, and a
  home directory that changes its permissions during a start.
* TLS clients that negotiate again, and what the SSL objects that stay behind do to the
  process.
* Stack exhaustion, failing `malloc` and `mmap`, the context switch in assembly.
* Two versions of a file within one second: `RightFile` is about seconds, as
  the comparison of `st_mtime` is.
* Content types (and `request_has_arguement`, which only chooses one), wording of
  headers, logging, time stamps.
* `cache_clear`, `async_sendfile`, `http_im_a_teapot`: never called.

## 6. Plan

In order of importance:

1. `ReadFile`: the bytes of one call, so that the size returned and the copy can
   be compared.
2. A composition of `GreenThreads` with the parking of handlers of `Connections`,
   to replace the fairness assumed there by the one proved of the run queue.
3. TLS responses beyond the header.
