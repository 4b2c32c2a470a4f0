# redis-counter: a verification project in TLA+

redis-counter is a small counter database: a TCP server written in C that keeps
named texts in the hash table of Redis 5 (`dict.c`) and answers `get`, `set`,
`incr` and `decr`. This directory models it in TLA+, checks the models with TLC
on small instances, and proves the properties that matter most with TLAPS.

## The system

| Component | State | Operations | Interaction |
|---|---|---|---|
| hash table (`src/dict.c`, `include/dict.h`) | two tables `ht[0]`, `ht[1]`, `rehashidx`, `iterators`; the global `dict_can_resize` | create, add, replace, delete/unlink, find, expand, resize, rehash, empty, iterators, scan, sampling | called by `db.c`, `object.c`, `command.c`; every call may make a rehash step |
| commands (`src/command.c`, `src/db.c`, `src/object.c`) | the database dict; `outbuf` | `commandServer` → `get`, `setKey`, `incrKey`, `decrKey` → `lookupKey`, `dbAdd`, `dbOverwrite` | called by the server once per read; leaves the reply in `outbuf` |
| event loop (`src/server.c`) | epoll registrations, `events[20]`, one `outbuf` for all connections | wait, accept, read and execute, close, write | sockets and epoll of the kernel |
| client (`src/client.c`) | one connection | read a line, send a request, read a reply | one request at a time |
| request format (`clientBuf` in `db.c`, `sdssplitargs` in `sds.c`, the loop in `command.c`) | `inbuf`, `outbuf`, the byte stream | encode, split, pick the arguments | between client and server |
| strings (`src/sds.c`, `include/sds.h`) | header (type, `len`, `alloc`), bytes, block | make, grow, append, copy, cut, quote, split, join, convert numbers | keys, values, requests and replies |
| lists (`src/adlist.c`) | `head`, `tail`, `len`, nodes, iterators | add, insert, delete, rotate, join, copy, search, iterate | linked, not used by the server |
| allocator (`src/zmalloc.c`) | `used_memory` | allocate, reallocate, free | below everything |
| hash function, assertions (`siphash.c`, `redis_assert.c`) | none | | libraries |
| `sqlite.c`, `tests/` | | | demonstration programs, not linked |

The program has one thread. What makes it hard is state that survives between
steps: a rehash half-way between two tables, suspended by iterators; pointers
left in the database by one command and read by another; a reply that waits in a
shared buffer for the next event; and edge-triggered events, each of which is
told only once. `PROJECT.json` lists these hazards with their lines and the
properties that watch them.

What makes each component correct:

* hash table: callers see a map; the two tables, the counters and `rehashidx`
  agree; a rehash goes forward, stays inside the table, ends, and does not move
  entries under a safe iterator; the load stays near one;
* commands: each reply is the one the texts stored so far call for; no assertion
  fails; no key is lost; no command ends the process; counters count;
* traversals of the hash table: a complete iteration or scan has returned every
  key that stayed, whatever happened between its steps; samples are entries;
* request format: a plain request comes out of the server's parser as it went
  into the client's, and uses no uninitialized argument;
* strings: a header claims no more than its block holds, and the string holds
  what its calls say through every change of header; what is written reads back;
* lists: head, tail, both links and `len` agree; a list is a sequence; an
  iteration survives edits;
* event loop: each request is executed once and answered once, to its own
  client; nobody who is still there is disconnected; every connection is
  accepted; every request is answered; the process stays up.

## The modules

* `DictOps` – the operations of `dict.c` as operators from dict to dict. A dict
  is the record `[ht0, ht1, rehashidx, iterators]` and a table the record
  `[table, size, used]`; a bucket is the *set* of the entries of its chain, since
  no operation modelled shows the order of a chain. `dictFind` is two operators,
  the entry it returns (`dictFind`) and the dict it leaves (`AfterFind`), and so
  for the other calls. `dictRehash` is given in closed form: the first bucket at
  which one of the loop's three stopping conditions holds (`LoopStops`).
* `DictLoops` – the same loops turn by turn, as functions of the number of turns;
  `ClosedFormsAgree` compares the two in every reachable state.
* `Dict` – a caller that makes any sequence of calls. One call is one action.
  `ret` is the last call's result, `open` the number of safe iterators in use.
* `KVMap` – what `dict.h` promises: a finite map. `Dict` refines it with
  `map <- Contents(d)`.
* `Texts` – a stored text is the number `atol` reads from it, whether it is
  spelled as `sdsll2str` spells that number, and whether bytes follow a NUL in it
  (`tail`), which a C string does not have (`CText`).
* `Counters`, `CounterStore` – what the commands promise: texts that can be set,
  read and counted up (`Successor`: the largest long is followed by the smallest);
  a missing counter counts from 0; an action without a branch in `commandServer`
  leaves the last reply in place. The reply to a `get` that meets a NUL, in its key
  or in the text it finds, is left open (`OpenGet`).
* `Keyspace` – the commands on `DictOps`. Every lookup makes its own rehash step,
  in the order of the code. `get` makes a new string of its key, up to the first
  NUL (`CKey`, `command.c:32`), and copies the text it finds up to the first NUL;
  `set`, `incr` and `decr` take the whole key. `decrKey` works on the pointer of an object, so an
  object is a text, a null pointer or a pointer beside a text (`WildPtr`, from
  which `atol` may read any of `WildNumbers`); reading through a null pointer
  ends the process (`fault = "segv"`), a failed assertion too (`"assert"`). It
  refines `CounterStore`, where `spoiled` is the set of keys `decr` was used on.
* `DictWalk` – `Dict` with one traversal at a time between its other calls. An
  iterator is its table, its index, the saved `nextEntry` and the keys after it in
  the chain (`after`), taken in any order; an unsafe one keeps the fingerprint, a tuple of the numbers `dictFingerprint` mixes (the mixing is
  taken to tell them apart; the tables' addresses are left out, as an allocator
  may reuse them). Walking a dict that changed under an unsafe iterator may return
  anything. `dictScan` is the reversed-bits cursor on `CursorBits` bits with the
  loop over the larger table; a cursor survives any other call. `GetRandomKey` and
  `GetSomeKeys` choose over every value `random()` could give. The history
  variables are `must` (keys there at the beginning that stayed) and `seen`.
* `AdList` – `adlist.c` on a heap of nodes that are reused after `zfree`; an
  operation maps a heap to a heap, pointer by pointer. `ListSeq` is what it
  promises, and `AdList` refines it by reading each list from its head. Callers
  keep to the comments of `adlist.c` (during an iteration only the node returned
  last is deleted; nothing is said of rotating under an iterator, and the callers
  do not).
* `SdsText` – the functions of `sds.c` from texts to texts, on sequences of
  character codes: decimal numbers, quoting (`sdscatrepr`) and parsing
  (`sdssplitargs`, all modes), splitting, joining, trimming, ranges, comparison.
* `Zmalloc`, `Sds` – strings in memory: the header's type and fields, each of the
  width of its type, the bytes up to the terminator, and the size of the block.
  One caller makes any sequence of calls on one string; `text` is what the
  documentation of those calls says it holds (`TrimmedOf` for `sdstrim`). The
  caller trims only where no NUL is left at an end, which `sdstrim` would cut too,
  and appends the string to itself (`CatSelf`) only after room was made:
  otherwise `sdscatsds` reads from a block that `sdsMakeRoomFor` may have freed
  (`sds.c:394-403`). A second pair of variables is the
  value of a counter as `incrKey` makes it: `sdsll2str` into `sdsnew("")`, read
  back by `atol`. That these up to 21 bytes fit what malloc gave for the block is
  part of `CounterReads`, and follows from the assumption `CounterRoom`: `zmalloc`
  asks for 8 bytes it does not use and glibc gives at least 24, of which the header
  takes 3.
* `Request` – a line typed to `client.c` on its way: `sdssplitargs`, `clientBuf`,
  the stream, `read` of any prefix of up to `MAX_LINE` bytes, `sdssplitargs` again,
  the argument loop, the reply and `readline`. A pointer never assigned is
  `Uninit`, and using it, or a full `inbuf` (whose terminator falls one byte past
  its end), may end in `status = "undefined"`. Counts are one character (`HDR`)
  since nobody reads them. `get` and `set` stand for the commands; the action and
  the key of `get` are taken as C strings.
* `Server` – the epoll loop and clients that behave like `client.c`. The kernel's
  part is external: the accept queue, the receive buffers, the ready list (`rdl`)
  to which a file is linked once when something happens to it, or when it is
  registered while ready, and which `epoll_wait` empties, reporting the files
  that are still ready. `conn[c]` is what the connection is registered for,
  `batch` the events of the current `for` loop still to be handled. A write fails
  only on a connection that broke. The first failure (`gone[c] = "rst"`) drops the
  batch and leaves the connection registered for writing, its error now told; a
  write after that, or after the client closed and the connection then broke,
  (`"pipe"`) raises SIGPIPE, which `server.c` does not ignore, and ends the process
  (`HandleSigpipe`, `status = "killed"`). Commands are executed as in `Counters`,
  which `Keyspace` implements where no NUL is met (`ServerAssumption` asks for such
  texts), so `Server` need not carry the hash table. Not modelled: short writes
  (one reply is outstanding per connection).
* `MCDict`, `MCDictWalk`, `MCKeyspace`, `MCServer`, `MCRequest`, `MCParts` –
  instances for TLC. `MCParts` runs the four parts that share no state (lists,
  strings, counters' texts, requests) side by side: a behaviour picks one, so the
  state spaces add up.
* `NatProofs`, `DictOpsProofs`, `DictProofs`, `DictWalkProofs`, `KeyspaceProofs`,
  `ServerProofs`, `SdsProofs`, `AdListProofs` – lemmas and theorems.

Operators introduced by a comment `Mutant of ...` are wrong variants of the
definition that follows them. They are used by no specification; replacing the
definition by the variant makes TLC find the property violated that `PROJECT.json`
names, which shows that the property depends on that piece of the code.

## The runs

| Run | Instance | Shows |
|---|---|---|
| `dict_calls` | three keys, two values, tables of 1–8, one empty bucket per step, forced resize; all calls | tables, counters, placement, uniqueness and the shape of a rehash; iterators counted; no moves under an iterator; the rehash goes forward and in bounds; the table is a map (`MapSpec`); closed forms equal the loops |
| `dict_server` | six keys, tables of 1–16, the server's calls, lookups keep coming | load at most one per bucket; every rehash ends |
| `dict_walk` | three keys, tables of 1–8, cursors of 4 bits, all calls between steps | traversals are complete (`TraversalComplete`) and do not repeat (`NoRepeat`); scans end (`CursorForward`); an unsafe iterator's assertion fails only if it began during a rehash (`NoFalseAlarm`); random keys reach every entry; samples are sound and, in small tables, full |
| `parts` | two lists of three nodes; strings of up to 4 characters under every header type; counters of 8 bits; three requests of 9 kinds, read in any pieces of up to 24 bytes | lists are linked as sequences and implement `ListSeq`, iterations are exact; headers, blocks and texts of strings stay true (`Layout`, `Faithful`), quoting and splitting round-trip; counters read back; plain requests are answered in step, and are never undefined |
| `keyspace_commands` | three keys, table from one bucket, `LONG_MAX = 1`, all commands, a key and a text with a NUL | replies are those of `CounterStore`; assertions hold; no key is lost |
| `server_loop` | three clients, descriptors for two, an array of two events, connections break | one execution and one reply per request; only clients that left are disconnected; the process ends only without a descriptor for a connection that waits, by more events than the array holds, or by SIGPIPE over a reply to a client that left (`EndsForCause`) |
| `server_live` | two clients, connections do not break | no lost wakeup, every request answered, every client that left is reaped |

Violations (`expect: violation`), each a disagreement between the code and what
its comments or the README say:

| Run | Property | What happens |
|---|---|---|
| `keyspace_decr` | `DecrDecrements` | `decr` subtracts from the pointer |
| `server_accept` | `Accepted` | two connections at once, one edge-triggered event, one `accept` |
| `server_break` | `Answered` | a failed write drops the other events of the batch |
| `request_binary` | `BinarySafe` | an argument typed as `""` or `"a b"` is lost or cut: the server splits the request at blanks again and reads no count (`command.c:19`) |
| `server_reply` | `OwnReply` | a client receives the reply to a request of another, executed between its own execution and its own write: `outbuf` is shared |

The models show more that is not a run of its own. `dictEmpty` zeroes
`d->iterators` while iterators are open (`dict.c:986`), and releasing one then
wraps the count: `IteratorsCounted` holds only with `EmptyDuringIteration =
FALSE`, while the map is right even then (`DictImplementsMap` does not ask for
it). A lookup under an unsafe iterator that began during a rehash makes a rehash
step, and the release then aborts: `NoFalseAlarm` says that nothing else does.
The caller of an iterator must not delete the entry saved as `nextEntry`
(`dict.c:584`), which `dict.h:84-87` does not say. `sdstrim` also trims NUL bytes,
as `strchr` finds the terminator of the set, which its comment does not say
(`sds.c:680-691`; the guard of `Trim` keeps to the texts where the two agree); a key
set as `'"a\x00b"'` is missing for `get`, which looks up `a`, and a text stored with
a NUL comes back cut, while `incr` and `decr` find the whole key; `sdsrange` stops a negative end at
the first character; `sdsclear` of a type-5 string forgets its space; a line that is
empty or does not parse makes a request without an action, and the server then
compares an uninitialized pointer (`status = "undefined"` in `parts`), as it does
after a request that arrived in pieces; an unknown first command is answered with
the `MAX_LINE` bytes `outbuf` was made from (`server.c:47`). `decr` of a missing key
stores a null pointer, and `get` or `incr` of it ends the process (the state
`fault = "segv"` of `keyspace_commands`). `incr` at `LONG_MAX` wraps, as `Counters`
says. `epoll_wait` may return more events than `events[20]` holds
(`status = "overrun"` in `server_loop`). A client that is gone while its reply is
due may cost the process: a second write on its connection raises SIGPIPE
(`status = "killed"`).

### Bounds

Hash functions are chosen so that keys collide in the small table, part in the
next, leave gaps of empty buckets, and in one case never part. The runs scale the
initial size, the limit on empty buckets and the forced-resize ratio down to 1, so
that every limit is met with few keys; the proofs hold for the constants of
`dict.c`. Three keys are enough for two in one bucket and one in another table;
six fill tables of 1, 2 and 4 and start on 8. `MaxSize` stands for `LONG_MAX + 1`
and is never met by the keys (`DictAssumption`). `ULongSize = 4` lets `iterators`
wrap. `CursorBits = 4` is one bit more than the largest table needs.
`StepsPerKey = 4` and `EmptyJump = 7` scale the 10 and 5 of `dictGetSomeKeys` so
that it both jumps (in a table of 8) and does not (in smaller ones). In `parts` the
limits of the header types are 2, 4, 6 and 8 instead of 2^5, 2^8, 2^16 and 2^32,
with `SDS_MAX_PREALLOC = 4` and a printf buffer of 2, so that strings of up to 4
characters and the room made for them meet every type, both growth rules and two
doublings; the pieces hold a NUL, a backslash, a quote and a control character.
`LLONG_MAX = 127` takes counters from one digit to three and through the sign.
`MAX_LINE = 24` is the length of the longest request typed, which thus fills
`inbuf`. Three nodes are the fewest for a middle one. Three requests are a set, a
second request in its wake and a get.
`VIEW DictView` leaves out `ret`, which no action reads. `LONG_MAX` of 1 or 2
makes counters wrap within two increments. Two clients are enough for a reply to
reach the wrong one (with one client `OwnReply` holds) and for an event to be
dropped; three to run out of two
descriptors. The clients of `Server` come back after they leave, so
behaviours are unbounded in length. Symmetry among clients is used in the runs
without liveness.

### Fairness

`Dict!FairSpec` asks that lookups keep coming: every command of the server begins
with a `dictFind`, and nothing else ever moves a rehash on. `Server!FairSpec` asks
that the loop goes on while there is an event to report, which is what `while(1)`
around `epoll_wait` does; nothing is asked of the clients.

## The proofs

A theorem holds for every set of keys, values, clients, nodes and texts, every
hash function and every choice of the constants that satisfies the assumptions
below; a run of TLC shows the same property on one small instance, and it checked
the invariants named here before they were proved.

`NatProofs` holds what the others need of numbers. A nonempty set of naturals has a
least element (`Least`); every induction of this project is an argument by a least
counterexample, packed into a few rules about *sets* of numbers, since the library's
induction rules take an operator: upwards by one (`Climb`) and from all smaller
numbers (`FromBelow`). The equations of recursive functions come from the same
place: a function exists if it is defined step by step (`StepByStep`), if each
argument leads to one of lower rank (`ByDescent`), or if each value depends only on
arguments of lower rank (`ByRank`). The rest is division (`DivUnique`, `DivSplit`,
`DivOrder`) and the width of integers (`WrapInRange`).

**Hash table.** `DictOpsProofs` states what each operation does to a well-formed
dict (`WellFormed`): it leaves one, and changes the bindings as it should
(`RehashPreserves`, `ExpandPreserves`, `FindCorrect`, `AddCorrect`,
`ReplaceCorrect`, `DeleteCorrect`, `SetFoundReplaces`). They rest on lemmas about
single tables (`LinkAdds`, `UnlinkRemoves`, `SetValReplaces`, `TakeRemoves`,
`LinkAllAdds`) that track the entries, their placement and the counter at once.
`DictProofs` then proves:

* `DictSafety`: `Spec => []DictInv`. `DictInv` is the type invariant with
  `WellFormed(d)`. None of its parts is inductive alone: a lookup is right only
  if entries are where their hashes say and the buckets below `rehashidx` are
  empty, an addition keeps keys unique only if the lookup is right, a rehash may
  end on `used = 0` only if the counters are exact, and the counters stay exact
  only if no entry is in both tables. `TypeCorrect`, `TablesCorrect` and
  `RehashStaysInBounds` follow from it.
* `IteratorCountExact`: if no caller empties a dict it iterates over, the count
  of iterators is exact (`IteratorsCounted`): no operation but the two of an
  iterator touches it, and `MaxIterators < ULongSize`. With it
  `IterationUndisturbed`: no call moves an entry between the tables while a safe
  iterator is open (`NoMoveWhileIterating`).
* `DictImplementsMap`: `Spec => MapSpec`. The lemma `StepCorrect` shows for each
  call that it keeps the invariant and is the step of `KVMap` with its result.
* `RehashGoesForward`: the action property `RehashForward`, call by call.
* `LoadBounded`: `LoadFactor` for a caller that makes the server's calls only (no
  call of `ManualCalls`, which resize by hand, switch resizing off or hold
  iterators; with those the property is false). The invariant `LoadInv` relates
  the entries to the progress of the rehash: each addition makes at least one
  step, each step leaves a bucket behind, so the rehash of `size` buckets is over
  before `size` more entries have come.
* `LoopsAgree` (`ClosedFormsAgree`): what the model takes for `dictRehash` is what its
  loops compute. Before bucket `e` the loops are in the state with the buckets up to
  `e` moved, the full ones counted against `n` and the empty ones against
  `empty_visits` (`LoopState`). A bucket with no reason to stop takes one turn to the
  next one (`TurnGoesOn`); before the first with a reason the loop has returned, or does
  so in its next turn (`TurnReturns`), in time, as all of `ht0` moved is a reason
  (`AllVisited`). The loop of `_dictNextPower` keeps a size that is no larger than any
  size that is enough (`NextPowerAgrees`).

**Traversals.** `DictWalkProofs` proves `WalkSafety`: `WalkSpec => []WalkInv`. For an
iterator that is not stale, the keys it has returned and the keys still ahead of
it are disjoint and cover every key that stayed (`OnTrack`), whatever calls come
in between; for an unsafe one, `Marked` says what a caller that only looks keys up
can have done to the dict since the fingerprint was taken; `Fresh` says that an
iterator that has not begun has nothing behind it. The invariant also has to count
the one safe iterator exactly, since it is the count that keeps entries in their
table. From it follow `NothingReturnedTwice` (`NoRepeat`), `FalseAlarmsOnlyInRehash`
(`NoFalseAlarm`) and `RandomKeysReachAll` (`RandomReachesAll`).

For a scan, `ScanSafety` proves `ScanOK`: a key that stayed, and whose hash comes before
the cursor *in the order of reversed bits*, has been emitted. That order is the
reason for the design: the hashes of one bucket of a table of `2^b` buckets are the
numbers that agree in their `b` low bits (`LowAgree`), which is an interval once the
bits are reversed (`SameBucket`), with the masked cursor as its end (`RevMasked`); the
intervals of a larger table lie inside those of a smaller one (`Nested`). So a call emits a whole interval from the cursor on and moves the cursor
to its end (`CursorMoves`, `NextReached`), over two tables one interval of the
smaller, which the loop covers by those of the larger (`LoopCovers`), and no resize
between two calls can move a key from behind the cursor to ahead of it.
`CursorsGoForward` (`CursorForward`) is the same fact about the cursor alone, and
`TraversalsComplete` (`TraversalComplete`) puts iterations and scans together.

`SamplesAreSound` (`SampleSound`) follows `dictGetSomeKeys` turn by turn. A turn stores
the chains of one index in both tables, so what is stored is always a set of
entries. If the tables are too small for a jump, the index goes round both tables
once, passing over the buckets of the first that have moved, until all have been
visited (`Halfway`, `Through`) or enough is stored (`FullStays`).

**Commands.** `KeyspaceProofs` proves `AssertionsNeverFail`: `Spec => [](TypeOK /\
AssertionsHold)`: after the first lookup the bindings are the same, so the second
lookup of `dbOverwrite`, or `dictAdd`, finds what the first one saw. `KeysNeverLost`
proves `KeysKept` from the same invariant, by what a store does to the bindings
(`StoreEffect`, `StoreKeeps`). `CommandsImplementStore` (`Spec => StoreSpec`) is the
refinement of `CounterStore`: for each command the reply and the new bindings are
those of the abstract store (`CommandRefines`), and the rehash steps its lookups
make are invisible. The number `incrKey` stores is `WrapLong(n + 1)`, what a long
holds after the addition; the store promises the successor, and `WrapSuccessor`
shows the two equal. A `get` whose key or text has a NUL is only shown to change no
text: `CounterStore` leaves its reply open.

**Event loop.** `ServerProofs` proves `ServerSafety`: `Spec => []ServerInv`, for any
number of clients, descriptors and events. `OneReplyEach` and `EndsForCause` are
not inductive: that a read finds a request and an `accept` a connection follows
only if every event still in the batch is true when its turn comes (`EventsOK`), and
that holds after an event was handled only if no file is in the batch twice
(`ListsOK`). `ServerTypes`, `RequestsAnsweredOnce`, `ServerEndsForCause` and
`NoClientDropped` (`ClosesOnlyGone`) follow. `ServerEndsForCause` also needs that a
batch of distinct ready files is no larger than their set (`DistinctLength`) and that
a reply is due exactly while a connection is registered for writing. `EveryWakeupKept` proves `NoLostWakeup` if
connections do not break (`~MayReset`): a failed write drops the rest of the batch,
which is the disagreement `server_break` shows.

**Strings.** `SdsProofs` proves `StringsSafe`: `SdsSpec => []StringInv`, for any limits of
the header types, any preallocation and any texts. Of the invariant
(`Holds(str, text)`) the part `HeaderOK` says that the counts are no larger than the
block, and that every number put into a field fits it; a length cut to its field's
width would make the next write start in the wrong place, so neither `Layout` nor
`Faithful` is inductive. There is a lemma per call of `sds.c`, among them that the
buffer of `sdscatvprintf` grows until the text fits (`FormattedWhole`), and that
`sdscatrepr`, which appends piece by piece, makes room for each piece (`ReprHolds`).
What `sdstrim` computes by dropping characters of `cset` or NUL from both ends is what
its comment promises, if no NUL is where the cut ends (`TrimAsDocumented`). Of
`sdscatsds(s, s)` only the calls with room enough are covered.
`HeadersInBounds` (`Layout`) and `TextsKept` (`Faithful`) follow.

What is written reads back, for texts and numbers of any length. Numbers: the digits
`sdsll2str` produces, least first, are those of the number (`DigitsAgree`), and
`atol`, most significant first, accumulates the number (`HornerReads`); the least
number has the longest text (`LeastIsLongest`). `CountersReadBack` (`CounterReads`) is
the invariant that the cell of a counter holds the text of its value, in a block
made for the empty string, through the wrap. Texts: splitting and joining (`SplitJoins`), and quoting. The argument reader
is a function over places in the text, and every place it comes to leads to a later
one or to a later mode (`LevelsFall`), which gives its equations (`ArgsFromIs`); each
spelling `sdscatrepr` may choose for a character, plain, escaped or hexadecimal, is
read as that character (`Spellings`, `SpelledIsRead`), and so the quoted text is
read as one argument (`ArgsReadBack`). `TextsReadBack` is `RoundTrips`.

**Requests.** `SdsProofs` also proves the two properties of `Request`, which rest on the
same reader. A word that needs no quotes, followed by an end of line, is read as
itself (`WordIsRead`); the lines of a request, taken from the last to the first, are
read as the words `clientBuf` wrote (`WordsReadBack`), so the argument loop of
`commandServer` finds each argument behind its length (`PlainParsed`, `PlainUses`). The
invariant `RequestInv` says that as long as requests are plain and read at once the
dialogue is in one of three phases: nothing under way, one request on the wire, or
the right reply on its way, no longer than the client's buffer (`RightReply`,
`ShortReply`). `PlainRequestsDefined` proves `PlainIsDefined` and `RepliesInStep` proves
`ShownAsWanted`.

**Lists.** `AdListProofs` proves `ListsStayLinked`: `ListSpec => []ListInv`, for any finite
set of nodes, any lists and values. `WellLinked` compares what is read by following
links, and an operation that changes two links says nothing about that directly.
The invariant names the sequences instead (`Linked(heap, W)`): `W[l]` lists distinct
nodes, each linked to its neighbours, with `NULL` at both ends; no node is in two
sequences, and a node is allocated only if it is in one. Such sequences are the ones
read from the heads (`Canonical`), forward and, reversed, backward (`FollowsChain`,
`ReadsChain`). What an operation does to links is then an operation on sequences
(`InsertionLinked`, `DeletionLinked`, `JoiningLinked`, `RotateLinked` and a lemma for each
function of `adlist.c`); `listDup` appends node by node and is followed by a least
counterexample over the number of nodes copied (`CopyNodesCopies`). The second half,
`IterOK`, gives an iterator its place: there is a position in one sequence with the
nodes still owed ahead of it and those given behind it, and that place survives every
call in between, a join of its list into another one included (`IterMoves`,
`IterCarried`). Then `LinksAgree` (`WellLinked`), `LookupsFind` (`LookupsAgree`),
`NothingSkipped` (`IterationExact`) and `ListsImplementSequences`
(`ListSpec => SequenceSpec`), which has a lemma per operation that its effect on the
values is the step of `ListSeq`.

Assumptions: `DictAssumption` (sizes are `DICT_HT_INITIAL_SIZE` doubled up to
`MaxSize`, finitely many keys, fewer than half of `MaxSize`), `CallsAssumption`,
`WalkAssumption` (a size is a power of two that the bits of a cursor can index),
`LongAssumption`, `CountersAssumption`, `KeyspaceAssumption`, `ServerAssumption`,
`SdsAssumption` (the limits of the header types are positive and grow with the
type; pieces and separators are texts, no separator is empty), `RequestAssumption`
(lines are texts), `NumberRoom` (`SDS_LLSTR_SIZE` bytes hold the text of the least
number), `CounterRoom` (the chunk malloc gives for an empty string has room for
`SDS_LLSTR_SIZE` bytes) and `ListAssumption` (finitely many nodes; no node and no value is `NULL`).
`KeyspaceAssumption` asks of `CKey` that a C string is its own C string,
`ServerAssumption` that there are finitely many clients and no NUL in what they set.
TLC evaluates them in every run that uses the modules. The theorems with a hypothesis on a constant are `IteratorCountExact`,
`IterationUndisturbed` (`~EmptyDuringIteration`), `LoadBounded` (no `ManualCalls`) and
`EveryWakeupKept` (`~MayReset`); the runs of their properties satisfy it.

Only model-checked is liveness (`RehashCompletes`, `Answered`, `Reaped`), which is
outside the proof system's reach; `RehashGoesForward` and `EveryWakeupKept` are safety
facts it rests on. Every invariant and every action property of the passing runs,
and each refinement, is a theorem.

## Plan

Done: every component with state of its own, except for `used_memory`, and the
proofs above. What could be added is the text of `Request` under the commands of
`Keyspace` instead of a plain map, and short writes.

## Not modelled

Allocation failure (`zmalloc` aborts), the counter `used_memory` (decremented by
`zfree`, never incremented by `zmalloc`, and read by nobody), SipHash (any hash function takes its
place), reference counts and the LRU clock (nothing reads them), logging, the
sqlite demonstration and the programs under `tests/`, the parsing of the client's
options, lengths near `SIZE_MAX`, and clients that send several requests before
they read a reply (`client.c` does not; in `Request` the rest of a request that
was cut and the next request may be read as one).
