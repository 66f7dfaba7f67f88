# A TLA+ model of jaytwo-library

`src/j2_library` is a C++17 utility library: some thirty small modules. What
can go wrong in ways a unit test hardly reaches sits in three places: classes
that keep state across threads, callbacks or reloads; classes whose state is
built up by long sequences of calls; and conversions with boundaries and
several implementations of the same thing. This directory models these, checks
them with TLC and proves most of the safety properties with TLAPS. Paths below are
relative to `src/j2_library/`.

## 1. Inventory

| Component | State | Operations | Interacts with | What is hard | What makes it correct |
|---|---|---|---|---|---|
| `concurrent_queue` (`include/.../queue`) | deque, limit, policy, mutex, condition variable | enqueue/emplace, try_dequeue, wait_dequeue, dequeue_if, clear | producer and consumer threads; user predicate under the mutex | notify after unlock, spurious wakeups, barging consumers, full queue | FIFO, nothing lost or repeated, capacity, no lost wakeup |
| `dynamic_thread` (`thread`) | running flag, thread handle, task, interval | start (three overloads), stop, destructor, worker loop | owner thread, worker, task | flag and handle set in separate steps; self-stop; failing thread creation | one worker, no task after stop, stop returns |
| `logger_manager` (`log`) | configuration, sinks, distributor, detached flag, mtime, auto-reload thread, mutex | init, reloadIfChanged, start/stopAutoReload, disk check, UDP alert | INI parser, spdlog, file system, disk, udp_sender | reload relative to the previous configuration; disk guard and reload interfere; stat/load races; join with a mutex | distributor = members = configuration; thread ends; changes and disk events are acted on |
| `tcp_client` (`network/tcp`) | socket descriptor, stop flag, thread, send mutex, callbacks | setServer, start, stop, send_data, close_connection, connect and receive loops | peer, descriptor table of the process, callbacks | descriptor used without the mutex, reuse of numbers, blocking recv | no foreign descriptor touched, no leak, alternating callbacks, stop returns, reconnects |
| `tcp_server` (`network/tcp`) | listening socket, client list, accept thread, detached handlers | start, quit, send, broadcast, closeClient | peers, descriptor table, callbacks | stale list entries, double close, join before close, handlers that outlive the server | no open socket forgotten, none of others touched, quit returns |
| `udp_receiver`, `udp_sender` (`network/udp`) | socket, thread / socket | start, quit; create, send, stop | peers, descriptor table | sockets left open on failure, join before close | the same |
| `config_manager` (`config`), `ini_parser` (`ini`) | ordered lines / sections with two levels of indices | load, save, get, set, remove | file system, logger | positions after removal, files that hold keys twice, escaping that is not its own inverse | get returns what was set; save then load changes nothing |
| `object_broker` (`broker`) | map (type, name) to instance, shared mutex | register, get, unregister, clear, registration_guard | any component | a guard removes a replacement | an instance is found as long as its registration lasts |
| `multipart_downloader` (`network/downloader`) | a response, the file of a part | download | libcurl, files | failure between and within parts, data that looks like a boundary | saved files are the parts, whole; a failed download reports so |
| REST clients (`network/rest`) | settings, a libcurl handle with its options | setters, get, post | libcurl, servers | options and pointers of earlier calls, redirections | a request is what is set now, an answer is this call's |
| `directory_maker` (`directory`) | none, but the file system's | create_directory_tree | other callers and programs | every check is stale when it is acted on | callers share the work and do not fail for each other |
| `file_finder` (`file`) | a walk's stack, visited set, results | find | file system | links that lead back, limits, errors | nothing twice, nothing missed |
| XML (`xml`) | a tree with namespace maps | parse, serialize, paths, getters, validation | iconv | scoping, text around children, escapes | read as written, written as read |
| `bit_array` (`bit`) | bytes and a bit count | from, append, shift, compare | none | boundaries of bytes, bits behind the last | agrees with a sequence of bits |
| `u8str` and converters (`string`, `encoding`) | UTF-8 bytes | search, cut, replace, convert | iconv | malformed input, bytes against code points | stays UTF-8, all converters agree |
| string functions (`string`) | none | split, join, replace, match, pad, ... | none | several loops for one task | they agree |
| dates (`datetime`) | an instant | read, format, add | C library, time zone | leap days, zones, times before the epoch | written and read back |
| weekly schedule (`schedule/weekly`) | list of ranges, clock provider | add_range, is_active_now, normalize, JSON/XML conversion | dates, JSON | wrap-around at Sunday midnight, adjacency, cascaded merges | active exactly in the minutes asked for; ranges apart; round trip |
| `cipher` (`crypt`) | round keys | set_key, encrypt, decrypt | none | four tables and their inverses, padding | decrypts to what was encrypted, is AES-128 |
| `mutex_string` (`string`) | string, mutex, thread-local mark (debug) | ~60 locked members, swap, assignment, guard, with | any threads | nested scopes, lock order, self-deadlock versus assertion | the mark is honest; no self-deadlock; calls return |
| FTP client (`network/ftp`), other `file` utilities, network interfaces, `system`, `uuid`, `json`, `expected`, `result`, `overload`, `macro`, `core` | little or none | single calls | OS, vendored libraries | - | see "Not modelled" |

Examples, tests, vendored headers and build files are not modelled.
`PROJECT.json` lists each component with its status, and each hazard with its
line and the properties that cover it.

## 2. Modules

| Module | Models | Lines of the code |
|---|---|---|
| `ConcurrentQueue` | the queue, one action per critical section | `concurrent_queue.hpp` |
| `BlockingQueue` | what the queue promises: atomic operations and blocked consumers, no mutex, no condition variable | abstract |
| `ConcurrentQueueProofs`, `MCConcurrentQueue` | the theorems about the queue; the instance that TLC checks | - |
| `ThreadUtilitiesProofs`, `LoggerManagerProofs` | the theorems about the periodic thread and the string with its mutex; about the logger | - |
| `TcpClientProofs`, `SocketsProofs` | the theorems about the client, and about the server and the UDP classes | - |
| `SettingsProofs`, `StoresProofs` | the theorems about the ini parser, the config manager and the broker; those about directory makers, the file finder, downloads and REST requests | - |
| `WeeklyProofs` | the theorems about the weekly schedule | - |
| `DynamicThread` | owner, worker and handle, one action per load, store and std::thread call | `dynamic_thread.hpp/.cpp` |
| `MutexString` | mutexes, guards, with() and the reentrancy marks | `mutex_string.hpp/.cpp` |
| `ThreadUtilities` | the two above, one of them at a time | - |
| `LoggerManager`, `MCLoggerManager` | init, reload, auto-reload thread, disk guard | `logger_manager.cpp` |
| `TcpClient` | owner, worker, and the process's descriptor table | `tcp_client.cpp` |
| `Descriptors` | the descriptor table: lowest free number, close whoever owns it | the system |
| `TcpServer` | owner, accept thread, detached handlers | `tcp_server.cpp` |
| `UdpSockets` | receiver with its thread, sender | `udp_receiver.cpp`, `udp_sender.cpp` |
| `Sockets` | the server or the UDP classes beside another component, on one table | - |
| `IniText`, `IniParser` | quoting and escaping of values; sections, keys and indices | `ini_parser.cpp` |
| `ConfigManager` | a settings file as lines kept in order | `config_manager.cpp` |
| `ObjectBroker` | registrations and guards | `object_broker.hpp` |
| `MultipartDownloader`, `RestClient` | a response cut into files; a client that is used again and again | `multipart_downloader.cpp`, `curl_get_client.cpp`, `curl_post_client.cpp` |
| `DirectoryMaker`, `FileFinder` | makers that meet on a path; a walk over a tree with links | `directory_maker.cpp`, `file_finder.cpp` |
| `Stores`, `MCStores` | the seven above, one at a time, and their instance | - |
| `XmlParser` | parser over tokens, serializer, paths | `xml_parser.cpp`, `xml.cpp` |
| `BitArray`, `Cipher` | bits in bytes; AES-128 | `bit_array.cpp`, `cipher.cpp`, `cipher_utils.cpp` |
| `U8String`, `StringBasic` | UTF-8, UTF-16, UTF-32 and `u8str`; the free functions | `u8string.cpp`, `encoding_function.cpp`, `string_basic.cpp` |
| `DateTime` | readers, writers, arithmetic of dates | `datetime_*.cpp`, `v1/date_time.*`, the readers of `xml_parser.cpp` |
| `WeeklySchedule` | merging, activity, normalization, JSON | `scheduler.cpp`, `schedule_normalizer.cpp`, `schedule_json.cpp` |
| `Values`, `MCValues` | the seven above, one at a time, and their instance | - |
| `Calls` | the bound on the number of calls | - |

`ThreadUtilities`, `Sockets`, `Stores` and `Values` choose in `Init` which
component the behaviour is of (`used`, `subject`); the variables of the others
stay as they are. The components in them share no state, so nothing is lost;
the descriptor table, which the network classes do share, is one module.

In every module the operators introduced by "(A faulty variant" are mistaken
forms of a definition that follows them. They are used by no action:
`PROJECT.json` substitutes one for the definition it distorts, for each
property, to show that the property can fail.

### ConcurrentQueue

A critical section that calls no user code is one action: between lock and
unlock nobody else touches the queue. `notify_one` comes after the unlock, so
it is an action of its own (`NotifyOne`), and any thread may run in between.
`wait_dequeue` is `WaitDequeue` when the predicate holds and `Block` when it
does not; a woken thread (notified or `SpuriousWakeup`) does either.
`dequeue_if` holds the mutex while the caller's predicate runs and is two
actions, the only ones between which the mutex stays taken. An item is its rank
of acceptance; `outs` and `discarded` are history.

### DynamicThread

`start()` is test, set flag, create thread, assign handle; `stop()` is test,
clear flag, joinable, join. The worker runs between any two. `crash` records
what `std::thread` punishes with `std::terminate`: an assignment to, or the end
of, a joinable handle, and a thread that joins itself. One owner makes the
calls: the class has no lock and promises nothing to concurrent callers. Tasks
return, and may call `stop()` on their own object; tasks that throw end the
program and are not modelled. Access to a handle that is being assigned while
a task stops the object is resolved as one or the other order.

### LoggerManager

`mu_` is held for all of `init` and all of `reloadIfChanged`; the parts of
these that read the INI file's time and its contents are separate actions,
because an editor may write in between. `CheckDisk`, `HardFile`, `Fallback`
and `ApplySoft` are the helpers of the code as functions on the record of
members. A configuration is a record; levels, patterns and the time mode are
the field `soft`; path, size and count of a rotating sink are one file setting.
`FlushEvery` is apart from `ApplySoft`: spdlog's periodic flusher is replaced by
an interval above 0 and kept by any other, so a reload to `FLUSH_EVERY_SEC=0`
leaves the flusher that runs, where a fresh `init` would have none. A sink that
cannot open its file throws in the middle of `applyHardSettingsIfNeeded`:
`ReloadThrows` keeps exactly the stages before it, and `skipped` names the
settings that were not reached, each until a later reload sets it. `Launch` sets
the flag and then makes the thread, which may fail and leave the flag. The
environment is `Edit` (new contents, an unreadable file, no file) and
`DiskChanges`. `init` is called once: after an exception the owner may only
destroy it.

### TcpClient

`send_mutex` covers `send_data` and `close_connection`, but not the worker's
own uses of `socket_fd`; each of these is two actions, the read of the variable
and the system call. `connect()` is entered (`ConnectEnters`) and returns later:
once entered it may succeed or fail, whatever the owner does to the number
meanwhile, and only a number that names no file fails at once. The descriptor
table belongs to the process and the lowest free number is handed out, so a stale number may name another
component's file: `strayed` records that `close` or `send` hit one. `early`,
`late`, `raced`, `restarted` and `failed` name the circumstances that void a
property; each is a real weakness, stated in the property's comment. The
address and callbacks are set before `start()`.

### WeeklySchedule

`add_range` is one action over the recursive functions in `Pass` and `Absorbed`:
the code's `while (changed)` loop absorbs at least one range per pass, so as
many passes as there are ranges reach its end. An interval is compared a week
earlier, in place and a week later, the first that touches wins, as in the
code. `added` is history, and the reference that activity is compared with
(`Asked`) walks the minutes from start to end.

### MutexString

All members that assert, lock one string and unlock are one operation,
`Member`; `Swap`, `Assign` and `Copy` differ in what they assert and lock.
A blocking request is a state (`wants`), granted when all its mutexes are
free. `guard()` and `with()` open scopes; `Locked` marks after it locks,
`with_lock` before; `~Locked` clears the mark, `~ReentrancyMark` restores it;
`unlock()` may end the lock before the scope. Two exceptions are named in the
properties. A guard that is unlocked inside a `with()` of another string keeps
its mark set, so the end of the `with()` brings back a mark of a free mutex, and
the next member call of that string asserts without reason; the comment at
`mutex_string.cpp:87` ("mark_set_ is no longer maintained on release") says
otherwise. And the operand of a copy or an assignment is locked without an
assertion (`operand` in `wants`), so a thread in a scope of the operand blocks on
itself. The build is a debug build (`NDEBUG` removes the marks). `CStrGuard` is protected and unused, and not
modelled.

### TcpServer, UdpSockets, Sockets

Each system call is a step, and what a thread holds in a local variable (the
number `accept` returned, the iterator of `quit`) is kept by its owner's
state. `closeClient` frees the number but leaves it in `client_sockets`, as in
the code; `quit` and `broadcast` go through the list as it is. A connection is
alive in the kernel while a `recv` blocks on it, so a handler may outlive both
its number and the server, and a restarted server sets the flag on which the
old handlers loop. The receiver's failures after `socket()` leave
`receiver_socket` open. No `start` asks whether the object already runs: each
overwrites the socket whatever comes of it, and one that succeeds assigns to a
joinable thread, which is `std::terminate`, so nothing follows it. `quit` does
nothing while the flag is down; a socket that a failed option left is lost then,
also for the destructor. What no later call can close is named: `abandoned` are
the listeners replaced under a running server (at most `MaxAbandoned` before the
last `start`), `unheld` the UDP sockets left or replaced by a `start` or by a
second `create()`. `unseated` says that a `start` failed on a running receiver,
whose thread then reads a number that is not its own. `strayed` and `interfered`
say that a stale number was used and that a connection was closed under its
handler. Callbacks are observed
and make no calls. Starts in every mode (unicast, broadcast, multicast) differ
in which option may fail.

### IniText, IniParser, ConfigManager

A text is a short sequence of characters, of which those that quoting, escaping
and comments tell apart are kept. `Raw`, literal and number entries are the
three ways in which the setters store a value, and `Saved`/`Loaded` texts are
what `save()` writes and `load()` makes of it, by the code's scanning loops.
The vectors and both index maps are state: a removal recomputes the positions
behind the erased entry. The `config_manager` keeps lines; `set` replaces the
first with the key or appends. Its file is text: `TextOf` writes `key = value` as
they are, `LinesOf` splits what was written where `getline` does, and `ParseLine`
reads a line with the code's trims, comment test and unescaping. A value with a
line feed therefore comes back as two lines; so do not, for other reasons, values
with blanks at an end or in double quotes, and keys that hold `=` or begin with
`#`. `Plain` names them all, and a file with one of them is not claimed about.
The run sets a key and values of most of these kinds. Names in the ini parser are
from a small set, without brackets or `=`.

### ObjectBroker

Each operation is one critical section of the shared mutex. A
`registration_guard` unregisters by name at the end of its scope; `evicted`
remembers the registrations a guard of an earlier one removed, which the
property excepts - the weakness is real and listed among the hazards.

### MultipartDownloader, RestClient

The body of a multipart response is a sequence of tokens: markers, line ends,
header lines, data; it may be cut anywhere. Creating, writing, closing and
renaming a part's file may each fail; a flush at close that fails goes
unnoticed (`lostInFlush`), as in the code. The REST client is a libcurl handle
with the options of `curl_easy_setopt`; its pointers are the number of the call
whose locals they point into. Lines of headers are kept for every answer of a
chain of redirections, as `header_callback` does.

### DirectoryMaker, FileFinder

Every `status`, `exists` and `create_directory` is a step, with other makers
and other programs, which add and remove entries, in between. The walk keeps
the code's recursion as a stack of frames and takes the entries of a directory
in any order; errors occur where the code passes an `error_code`, in `status()` too
(`known`). `directory_entry::is_directory()` (`file_finder.cpp:201`) passes none:
it may throw inside the `noexcept` `find`, which is `EntryThrows`. `max_depth` 0
means what the code does with it, nothing below the root; `file_finder.hpp:53`
says "children only". `on_visit` is not set.

### XmlParser

The recursion over elements is a stack of frames over a document of tokens; a
child gets a copy of its parent's namespace map. Text is kept raw until a child,
an end or a section flushes it, under either policy for blanks. Serializer,
path selection and getters are functions of the tree. Elements and attributes are
compared with the namespaces declared around them, with the attribute whose prefix
is declared behind it in the same tag as the exception: it takes the outer
declaration (`xml_parser.cpp:405`).

### BitArray, U8String, StringBasic, DateTime, Cipher

The loops of the code are folds or functions over positions. Bytes of
`BitArray` have two bits in the instance, those of texts all values near the
boundaries of the encodings. Each call of `u8str` is applied to the bytes and,
in a second variable, to the code points it means. `StringBasic` has no state:
each pair of a text and a word is an initial state. Instants of `DateTime` are
seconds and milliseconds; the C library's calendar is defined by counting days.
`Cipher` follows the tables and the order of the steps of a block; the set key
is the state, and the property recomputes the table from the field's inverses.

## 3. Runs

| Run | Instance and bounds | Shows |
|---|---|---|
| `MCConcurrentQueue` | 3 threads, limits 0, 1 and 2, both policies, 3 items | six invariants and the refinement of `BlockingQueue` with its liveness |
| `ThreadUtilities` | 4 starts; 2 threads, 2 strings, scopes 2 deep | one worker, no task after `stop`, termination only by self-stop, `stop` ends; honest marks, no self-deadlock with one scope but through an operand, calls return |
| `MCLoggerManager` | 5 configurations with flush intervals 0, 1 and 2, 2 files, 2 edits | distributor, members and configuration agree; the thread ends and catches up; the disk is acted on |
| `MCLoggerSuspended` | 1 edit | **violated**: a reload re-attaches a file sink on a low disk |
| `MCLoggerStale` | 1 edit | **violated**: a change whose load failed, or that raced `init`, is never loaded |
| `TcpClient` | 2 descriptors | six safety and liveness properties of one client |
| `Sockets` | 3 descriptors, 2 handlers, 2 listed connections, 1 abandoned listener | no socket is forgotten but by three sequences of calls, none of another component is used, `quit` returns |
| `MCStores` | 4 calls on 2 sections x 2 keys, 2 settings, 2 x 2 registrations with 2 guards; responses of 2 parts; 3 servers and 5 answers; 2 makers on a path of 2; a tree of 7 nodes with 2 links and 448 combinations of options | stores return what was set and survive save and load; transfers are whole; makers share a path; a search is exact |
| `MCValues` | documents of up to 4 of 9 tokens and one of 12; 4 arrays of 2-bit bytes; 5 code points, raw texts of up to 4 bytes; texts of up to 5 bytes and patterns of up to 4; 5 instants, 6 formats, ISO texts of every shape; 4 keys and 7 texts; 3 calls; schedules of 3 ranges in 3 days of 3 minutes | seven properties, each against an independent definition |
| `MCUtcOffset` | the dates of `MCValues` | **violated**: `utc_offset_seconds()` is 0 in every zone |
| `WeeklyScheduleWrap` | 3 days of 3 minutes, 2 ranges | **violated**: a merged range that ends before it starts on one day is never active |
| `MutexStringNested` | 2 threads, 2 strings, scopes 2 deep | **violated**: nested guards deadlock where the assertion is promised |

Why the bounds are enough. *Queue*: three threads allow a sleeping consumer, a
barging consumer and a producer at once, or two sleeping consumers and a
producer; one slot makes every enqueue drop, two make a difference between
oldest and newest; three items let one be delivered, one dropped and one
queued. *Threads*: four starts give three restarts. *Logger*: two edits, each
of any configuration and readability, cover every pair of consecutive reloads
and a third state to come back to; the configurations turn on and off each
kind of sink and the guard, and move a file. *Sockets*: two descriptors suffice
for a number to be reused by another component while the client uses the
other, a third lets the server's listener stand beside both; two handlers allow
an old one and its successor on the same number; after one abandoned listener the
server may be quit and started again, and a second start on it replaces another. *Stores*: four calls are
enough to build two entries, erase the first and read the second, and to save
and load between; the removal of a position matters only to entries behind it.
*Transfers*: two parts let the second fail after the first; calls after calls
find what the earlier ones left in the handle. *Makers*: two on one component
race for it, the second component depends on the first. *Walk*: one link leads
to the root and one to a directory that is also reached without it.
*Documents*: four tokens give every nesting of two elements, and the long one
prefixes declared twice at three depths. *Texts*: the code points and bytes lie
on both sides of every boundary of the encodings, and words of one code point
can match at, before and behind each of them. *Dates*: leap days, ends of months
and the epoch are among the instants. *Schedule*: three days make "the days in
between" non-empty and the wrap proper; three ranges let a new one join two
that were apart; the arithmetic is the same for 7 and 1440, which only scale
it. *Strings*: two threads and two strings give opposite lock orders, depth two
gives nesting. *Cipher*: texts end with a block, before it and behind it; a
block is a fixed computation that is also compared with the standard's example.

Weakened properties say when they do not hold, by a history variable or a
condition in the formula, so that the exceptions are visible: e.g. `NoLeak` is
void once a client was restarted with its socket open. Each exception is a
weakness of the code, not an artefact of the model. Those that are not among
the hazards or findings of `PROJECT.json`:

* `file_finder.hpp:53` says of `max_depth` "0: children only"; the code finds nothing
  below the root with 0 and the children with 1, as its own comment at
  `file_finder.cpp:264` has it.
* `mutex_string.cpp:87`: the mark that a release gives up may come back (see above).
* The comment at `test_date_time_v1.cpp:356` has a month after 31 January 2020 be
  29 February; the code counts the days over, to 2 March, and the test asserts only
  that the date differs. `MonthsAreCounted` asks for what the code does.
* A `logger_manager` reload to `FLUSH_EVERY_SEC=0` keeps the periodic flusher, as its
  own warning says.
* The searches of `u8str` answer each in its own way for an empty text; the property
  leaves them out.
* `parse_iso8601_strict` rejects the compact form `20251017T093005.5+0900` that
  `datetime_string.hpp:133` gives as an example, and a date alone is read with
  the hour -1.
* The second before the epoch cannot be converted (`timegm` returns -1).
* `to_human_readable_korean` loses the sign of a number between -1 and 0.
* `wildcard_match` takes a star of the pattern for that character alone where the text has
  a star.
* `multipart_downloader` does not notice that bytes are lost when a file is closed.
* REST: headers and content type of redirections stay in the response, and after an
  exception `out_resp` keeps the fields of an earlier call, the error excepted.
* Local names alone close an XML element, whatever the prefix.
* `tcp_client::start` on a joinable thread is `std::terminate`, and `on_close` runs
  with `send_mutex` held, so that a callback which sends or closes would block.
* A second `logger_manager::init` with the same name throws after the sinks were replaced.
* `u8str::mid` and `bit_array::get` add a position and a count without a check for
  overflow; `from` accepts more bits than there are bytes; both are left out.

## 4. Fairness

No operation is obliged to begin, except by the environment assumptions below.

* Queue: `notify_one` and the return of a predicate are weakly fair (threads
  run). `Resume` is strongly fair: a woken consumer wants a mutex that others
  keep taking; the operating system's mutex starves nobody.
* Threads: every loop step of a worker and every step inside `stop()` is weakly
  fair: tasks return, sleeps end. A task that blocks for ever would block
  `stop()`.
* Logger: weak fairness of the thread and of calls in progress. `mu_` needs no
  more, because each holder releases it in a bounded number of steps and the
  owner holds it across steps only if the file changed.
* TCP client: weak fairness of the worker, strong fairness for the mutex. Three
  assumptions are about the world, not the code: the peer of a blocked `recv`
  at last speaks or ends the connection (on Linux `close` in another thread
  does not wake it), a reachable server does not refuse for ever, and the
  system does not deny sockets for ever.
* Server and UDP: weak fairness of the steps of `quit`, of the accept thread, the
  handlers and the receiver, with the assumption that a blocked `accept`, `recv`
  or `recvfrom` at last returns: `quit` joins the accept thread before it closes
  the listener, so without a connection it waits for ever.
* Strings: strong fairness of granting free mutexes and of scope ends.
* Stores and values: none; their properties are invariants.

## 5. Proofs

`ConcurrentQueueProofs` proves for every set of threads, every limit and every
bound on items: `Typing` (`TypeOK`), `Capacity`, `FifoOrder`, `Accounting`,
`NoLostWakeup`, `PredicateStable`, and `Refinement`: every behaviour of
`ConcurrentQueue` satisfies `BlockingQueue`'s safety specification under the
mapping of its variables. The assumptions are the three of the module: threads
are a finite set without `None`, limits are naturals, the bound is a natural.

None of the invariants is inductive alone. `IInv` conjoins `TypeOK`,
`WithinCapacity`, `WakeupsCoverItems` and `PredicateSeesWhatIsPopped`. The
wakeup invariant needs typing to count threads: a step that moves one thread
from a set to another changes a cardinality by one, stated once as lemmas on
`Cardinality`. `PredicateSeesWhatIsPopped` needs the clause of `TypeOK` that
ties the mutex to the predicate: no other thread can change the queue. Order
and accounting need each other: a new item is `produced + 1`, which follows
whatever was accepted only because every accepted item is accounted for below
it. Their conjunction `Ordered` is inductive relative to `IInv`, by lemmas on
what a pop or a push does to the elements of a sequence and to its order.
The refinement proof takes each action to the abstract one
it performs, or to a stutter (`NotifyOne` and `SpuriousWakeup` only move a
thread among the blocked or the idle).

`ThreadUtilitiesProofs` proves of `dynamic_thread`, for every bound on restarts, that one owner's object
has at most one worker, known to start() or to `workerThread_`
(`OneWorkerAlways`), that no task runs after stop() returned (`QuietAfterStop`),
and that std::thread ends the program only when a task stopped its own object
(`TerminationNeedsSelfStop`). The assumption is that the bound is a natural.
None of the three is inductive: nothing in them excludes a joinable
`workerThread_` while start() is about to assign. `ThreadInv` adds, for an object no
task has stopped, what `running_` and `workerThread_` can be at each place the
owner can be in (`HandleFitsPlace`), that a created worker not yet assigned
belongs to the start() in progress (`HeldFitsPlace`), that every live worker is
one of these two (`LiveAreKnown`), and that a finished stop() leaves neither
(`StoppedIsClean`). The step of a task that stops its own object ends what is
claimed, which is why every clause stands under `~selfStop`: the code then
terminates the program or leaves the worker joinable behind.

`TcpClientProofs` proves the client's four safety properties for every number of
descriptors (assumed to be a positive natural): `StraysNeedFailure`,
`NothingLeaks`, `StopCloses` and `CallbacksTakeTurns`. Each property looks at one
descriptor or at one history flag and says nothing of the thread that has read
`socket_fd` and not used it yet. `Inv` adds who holds `send_mutex` at which place
(`LockFits`), what the two registers name there (`UsesItsOwn`, `SocketIsKnown`),
that a stopped client has no socket once the owner has passed its close
(`ClosedByStop`), and that `on_connect` is owed exactly between creation and
connection (`UpFits`). That creating a socket loses none rests on a fact about
`stop_flag`: a worker sleeps with a socket open only when the flag is set, and
start() resets it only after a join.

The same module proves of `mutex_string`, for every set of threads and strings and every
depth of scopes, that marks are honest (`NoFalseAlarm`) and that the assertion precedes a
self-deadlock (`AssertionComesFirst`); the assumptions are those of the module. A
mark may be restored long after it was taken, when a with() ends, so `MarksFit`
gives every mark that is current, or that a with() in progress will restore, a
scope that stands for it: a with(), or a guard that has not given its mark up. Such
a guard owns its mutex or is the exception that `MarksAreHonest` names. An early unlock takes a guard's mark away; that it never
takes one that a with() inside of it restores is `MarksStayAway`: the guard still
owns its mutex, so no mark can have come to name its string again
(`LocksFit` ties mutexes to the scopes that own them).

`SocketsProofs` proves for every number of descriptors, handlers and connections
that no socket is forgotten but the `abandoned` and the `unheld` ones
(`NothingForgotten`) and that handlers, the receiver
and the sender use sockets of their own (`SocketsOwned`), with no assumption. The
components meet only in the descriptor table, so the invariant has a part for each:
a component's own steps keep its part, and a step of any other keeps it because it
leaves the component's variables and opens nothing in its name (`ServerUnharmed`,
`UdpUnharmed`). The server's part adds what the two properties do not look at: a
connection between `accept` and the start of its handler is open, in the list from
`push_back` on and served by nobody (`ServerFits`, `HandlersFit`); a server that has
quit has no listener but abandoned ones. The receiver's
adds that from `start()` to the close in `quit()` its socket is its own and not the
sender's (`UdpFits`).

`LoggerManagerProofs` proves for any files, configurations and number of edits that
the distributor holds what the members name (`DistributorIsExact`) and that sinks,
soft settings and a flush interval above 0 are those of the last loaded configuration,
but for what a reload that threw did not reach
(`ReloadEndsWhereInitWould`). The assumptions type the configurations and the bound,
and say that "no file" is no file. Between calls a distributor may be off only by a
sink that was opened during a suspension; the next suspension removes every
occurrence of it, so the invariant (`Fits`) has to say how often each sink is
attached, also in states that the property excepts, that a sink nobody points to is
never attached, and that until `init` has built the logger nothing runs and nothing
is suspended (`Fresh`). Each helper of the code (`CheckDisk`, `HardFile`,
`Fallback`, `ApplySoft`, `FlushEvery`) is a function on the record of members and has a lemma.

`SettingsProofs` proves `ReadsWhatWasSet` for the ini parser, the config manager and
the broker, with any names, entries, files and number of calls (`WhatWasSetIsRead`,
and `PromisesAreKept` for the broker alone). Assumed is that an entry is a kind and
a value, a text or one of the words for a bool or a number, and that a file is a
sequence of lines with texts behind their keys. What callers expect is compared
with `get` on all names in all states, so the properties become inductive with the
shape of the store: each index map has exactly the names of its vector, each at the
position of the entry that bears it (`Indexed`, `StoreOk`). That a removal keeps
this is arithmetic on positions; that `load()` builds it from any file, with keys
and sections twice, is an induction over the lines it has read. The library's
induction theorems are out of reach (they take an operator), so the induction is on
a set of numbers: `HasLeast` gives the least counterexample, from the
well-foundedness of the naturals, and `CountUp` the principle; a recursive function
is shown to satisfy its definition by building it up to each number. For the broker
`BrokerInv` states the whole storage: its keys are the promised ones without the
evicted ones, with the promised instances.

The same module proves `SettingsSurviveSaveAndLoad` for any settings (`SettingsComeBack`):
what `save()` writes, `load()` restores, in order and with the same indices, under the
conditions that the property states and the code sets: a value must be able to stand in a
line (`Storable`), and keys without a section come first; the config manager's keys and values are
written as they are, so they must be `Plain`. That such a line is one line of the file
and is read as it was written goes character by character (`TextIs`, `LineComesBack`). `TextsInv` adds to `SettingsInv` that every
value in a store and on disk is a text; for the store an argument in three layers follows.
A character of a value becomes a piece (`EscapeString`, `EscapeLiteral`); reading
the piece, from wherever the reading is, adds that character and no other (`PieceReads`),
so the joined pieces are read back as the value (`DecodedBack`, by induction on the
pieces). Between its quotes the value is `Clean`: it has no line feed and no mark behind a
quote, so neither `getline` nor the comment scan cuts it (`StripKeeps`, by induction
on the characters), and it is told apart from a value with the other quote
(`QuotedReads`); together this is `ReadsBack` for an entry. Last, `SavedStands` says at which line
each section of a saved file stands, and `SectionRead` that behind so many lines the
store read has so many sections, the last with so many entries (`AtEntry`): a name that
was not there yet adds a section, and a key an entry, because the indices of the saved
store say that names and keys differ. Two stores with the same sections and entries have
the same indices (`SameIndex`), so they are equal.

`StoresProofs` proves `PathIsShared` for any number of makers, paths of any positive
depth and any options. A maker acts on what it saw earlier; the property speaks of
what is there when it ends. `MakersInv` says what each place of the code has seen:
above the component it is at, something is there; what it reported is a directory,
in the order of the path; a result that was returned is true of the path (`Sees`).
Until something is removed or refused, entries are only added, so that what was seen
stays (`SeenStays`), and what one maker makes was missing, hence made by no other
(`Shared`).

`SearchFindsAll`, in the same module, proves `SearchIsExact` for every tree,
whatever its links, and every combination of options. Assumed is that a tree is
finite, that an entry is in one directory and the root in none, that links have been
followed to what is no link, and that the order asked for is one of numbers. Two
things are hard. The calls of `scan_dir_children` are no deeper than there are
directories, each of them a directory that was entered once (`FramesFit`), which
bounds the steps from the root by which `Within` defines what is asked for. And
nothing in the state says what was listed already: `AllTreated` says of each entry
of each directory entered that it is still to be listed by the call for it, or is
skipped, or is found and entered. When no call is left this is closure, and what is
within n steps was entered, by induction on n (`AllFound`). With a limit of the
depth it needs that without links there is one way to a directory (`OneWay`), and
this is why the property excepts links under such a limit. An entry that throws ends the
program and with it what is claimed (`ThrowKeeps`). Sorting and cutting keep
what was found because results are found once, so lengths are cardinalities.

`TransfersAreDelivered`, the last theorem of `StoresProofs`, proves `TransfersAreWhole`
for any lists of parts and any cut of the response, and for any servers, headers,
queries, answers and number of requests. Assumed of a list of parts is what makes it one
that fits a response (`PartListsAssumption`: no header holds an empty line, no line of
the data begins with the marker); of a server that there is no "?" in where it is, of a
query that its characters are characters and not escapes, and of an answer that it is a
status, lines and chunks, and that what names a content type has a colon
(`RestAssumption`). For downloads `PlaceOf` gives every part the place in the response at which its
marker stands, and the searches of the code find exactly these places (`FirstAt`), or the
end of what arrived. `DownloadInv` says that the scan stands at the place of the part it
counts, that each name on disk holds the data of the last saved part of that name
(`FilesOk`, with what a cut or a lost flush takes away), and that the part in hand is the
part of the response. For requests, the url of the handle is read as a server reads it:
what is escaped holds no reserved character (`EscapeGoes`), so cutting at "?", "&" and
"=" finds the pairs that were joined (`PiecesComeBack`, `QueryComesBack`) and in front of
them the server (`BaseIs`). A url that is read at every state changes only when a request
starts, so `AskedOk` asks no more than the property; what is not inductive is the answer.
`HopOk` ties what a running request has kept to what the server has left to send: so many
lines and chunks were taken (`LeftOf`), the body is the chunks taken (`BodyHas`), the type
is the last that they named (`TypeIs`), and of an answer that redirects no chunk is taken.

`WeeklyProofs` proves the two properties of the weekly schedule, for any number of days
from 2 to 7, of minutes in a day and of ranges: it is active exactly in the minutes that
were asked for, unless a merge stored an inverted range (see the run `WeeklyScheduleWrap`), and
its ranges are apart (`ScheduleAsAsked`); written to JSON and loaded,
or cut into days by the normalizer, it stays what it is (`ScheduleKept`). The assumptions
are those that type the constants. `WeeklyInv` says that the stored ranges cover the
minutes asked for and are `Proper`: each is one that the code can store, and no two meet
or touch. Minutes are counted around the week, so a range is compared in three places,
one week apart; `ClearIsApart` and `ApartIsClear` say that the comparison finds nothing
exactly when the ranges are apart around the week, and `SpansJoin` that ranges which meet
or touch cover what their hull covers. A pass over the ranges absorbs one or changes nothing
(`AbsorbGrows`), so that as many passes as there are ranges settle the span (`Settled`),
by the cardinality of what is left. Ranges that are apart never absorb each other, which
is why a saved schedule comes back unchanged. The normalizer's cuts are sorted (`SortedIs`:
a cut's place is the number of cuts before it) and joined; each join keeps the minutes held.

Only model-checked:

* liveness and fairness everywhere (TLAPS does not handle ENABLED), hence the
  liveness half of the refinement;
* five of the seven properties of `Values`: each compares what a fold or a recursive
  function of the code computes with another one, for texts, bits, dates or documents.

## 6. Plan

Done: all components whose status is `modelled` or `partly`. What is left:

1. Proofs: bits and dates, by induction over positions as in `SettingsProofs`.
2. `logger_manager`: UDP alerts with `UdpSockets`, a second `init`, several owners.
3. The weekly schedule's XML conversion over `XmlParser`, and its clock providers.

## 7. Not modelled

* FTP client: every operation is a stub that fails.
* `resource_monitor`, `crash_handler`, `device_id`, network interfaces, permissions,
  executable path, file information: each call asks the operating system and
  returns what it says.
* `uuid`: random bytes with fixed bits. `json`: wrappers of a vendored library.
* `expected`, `result`, `overload`, `try_opt`, `core`: header utilities without state.
* The conversions through iconv: they belong to the system, and the code pages
  of `encoding_function.cpp` are compiled in only with an option the build never sets.
* XML: SAX, the lexing of single characters, and the getters of numbers.
* Dates: names of days and months, `strftime`.
* Platform code under `#ifdef _WIN32` (the models follow the POSIX branches),
  memory safety, and timing beyond ordering.
