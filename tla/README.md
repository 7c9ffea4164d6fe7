# luapower in TLA+

TLA+ modules, TLC configurations and TLAPS proofs for the parts of this
repository where order or exactness is hard: threads that share objects, caches
and lists that hand out indices, a queue kept in files, HID devices read by
threads and callbacks on three systems, a lexer fed in pieces, and the
interpreter that programs are bundled with.

Contents: [the system](#the-system), [modules](#modules),
[how the modules correspond to the code](#how-the-modules-correspond-to-the-code),
[runs](#runs), [fairness](#fairness), [proofs](#proofs),
[divergences](#divergences), [only model-checked](#only-model-checked),
[not modelled](#not-modelled), [plan](#plan).

To check a run: `tlc -config MCThreadQueue.cfg MCThreadQueue`. To check the
proofs of a module: `tlapm QueueProofs.tla`.

## The system

luapower is a set of Lua modules on LuaJIT and of Terra libraries, with one
module per file and no process or server of its own. They make families:

| Family | Files | State | Operations | What is hard | What makes it correct |
|---|---|---|---|---|---|
| Threads | thread.lua, pthread.lua, luastate.lua | an event is a flag, a mutex and a condition variable; a queue is a Lua state whose stack holds the values, a mutex and two condition variables; a thread is a pthread, the Lua state it runs in and its arguments; a pool is a queue of one task and its workers | set, clear, isset, wait; push, pop, shift, peek, length, isfull, isempty; new, join; pool push, join | every interleaving; deadlines that race wakeups; spurious wakeups; errors raised with a mutex locked; objects passed as addresses between garbage collectors | calls take effect at one moment; nobody sleeps through what it waits for; an object is destroyed once and not under its users |
| File queue | filequeue.lua, glue.lua | files `first` and `last`, a file per message, and each process's own copy of the counters | push, peek, pull | two processes without locks, kills between any two writes, writes that fail | no accepted message skipped, order kept, all messages found |
| Containers | terra/linkedlist.t, lrucache.t, hashmap.t, dynarray.t, free lists | arrays with indices as handles; free-index stacks; a cache is a list, a set of indices by key, counts and the first active index | insert, remove, move, iterate; get, put, forget, shrink, limits | indices that outlive what they name and are given out again; removal inside an iteration; order that depends on references taken long before | a handle names what it was given for; no index lost or shared; least recently used goes first |
| Text renderer | terra/tr*.t | fonts in two LRU caches, glyph and run caches, layouts with text, spans and stages | load and forget fonts by spans, edit spans, itemize, shape, wrap, align, clip, paint | reference counts through lookups that themselves count; evictions under pointers; stale stages | a span's font exists; counts match users; an edit invalidates what depends on it |
| Layers, widgets | terra/layer*.t, layer.lua, ui*.lua | a tree of boxes, each with cached sizes and drawing state | set attributes, sync, draw, hit test | what an attribute invalidates | what is drawn is what a fresh tree would draw |
| Windows | nw.lua, nw_winapi.lua | application and window objects over a backend | create, close, quit, show, move, state changes | handlers that close or quit while they are asked | unanimous consent, each window closed once |
| Processes, files | proc.lua, fs*.lua | handles, the exec error pipe | exec, kill, exit code; open, read, map, mkdir | fork in a program with threads, steps that fail halfway | no descriptor leaked, the caller learns what happened |
| Events | events.lua | lists of observers by event and namespace | on, off, once, fire | handlers that change the list under fire() | each handler that stays is called once |
| HID devices | csrc/hidapi/hid_osx.c, hid_linux.c, hid_windows.c, hidapi.lua | an open device; on macOS a read thread with a run loop, a list of reports, a mutex, a condition variable, two barriers and flags; on Linux a file; on Windows an overlapped request with an event and a buffer | enumerate, open, read with and without a timeout, close; the device sends reports and is unplugged | callbacks, the read thread, readers and the closing thread at once; flags set without the mutex; requests left pending by a timeout | to its readers a device is one stream of reports; no reader sleeps for ever; closing comes to its end; the list is exact |
| Lexer | csrc/lx/lx.c, lx_strscan.c, lx.lua | the chunk being read, the current byte, the token buffer, line, column and place | next token, set number options, accessors | tokens cut by the ends of chunks; escapes and code points at their limits; literals at the limits of their types | the tokens, values and places are those of the text, whatever the chunks |
| Interpreter, bundling | csrc/bundle/luajit.c, bundle.c, bundle_loader.lua | the command line, the Lua stack, the global arg, the table of libraries, the handler of SIGINT and the hook | run options, scripts and the console; load bundled modules; Ctrl-C | signals at any moment; two passes over the arguments that must agree; errors that leave values on the stack | what was asked runs, in order, with its arguments; a failure shows in the exit status; an interrupt hits one call |
| The rest | oo*.lua, glue.lua, path.lua, color.lua, bitmap.lua, box2d | values | pure functions | | |
| Bindings, vendored | cairo, freetype, harfbuzz, winapi/, terralib.lua, jit/, the rest of csrc/ | | | | |

How they interact. A thread pool is a queue and threads; a queue or an event is
passed to a thread by encoding it (shareable objects). An LRU cache is a linked
list plus a hash set of its indices; the renderer keeps fonts, glyph runs and
glyphs in LRU caches, and its spans hold references to fonts. Layers own
layouts, widgets own layers, windows feed events to widgets. Calls are
synchronous everywhere but for threads (thread.lua), processes (filequeue.lua,
proc.lua), the read thread and the callbacks of a HID device, and signals. A
program is packed into an executable with the interpreter, which finds the
modules linked to it by the loaders of bundle.c and starts bundle_loader.lua;
the lexer is a C library that lx.lua drives, and its parser asks it for a token
at a time.

## Modules

| Module | What it is |
|---|---|
| `BoundedDeque` | abstract: a bounded deque shared by threads, each call atomic |
| `ThreadQueue` | thread.lua's queue, step by step under its mutex; implements `BoundedDeque` |
| `EventFlag` | abstract: a flag with a wait |
| `ThreadEvent` | thread.lua's event; implements `EventFlag` |
| `ThreadSharing` | thread creation and join, shareable objects, garbage collectors |
| `ThreadPool` | workers and client of a pool, composed with `BoundedDeque` for its queue |
| `OrderedList` | abstract: a sequence of stable handles |
| `LinkedList` | the operations of linkedlist.t as operators on a list object |
| `ArrayLinkedList` | a list, its caller and its iterations; implements `OrderedList` |
| `CachePairs` | the operations of lrucache.t as operators on a cache object, built on `LinkedList` |
| `RecencyOrder` | abstract: keys in order of use, least recently used dropped first |
| `LRUCache` | a cache and its callers; implements `RecencyOrder` when one pair is held at a time |
| `FontCache` | the renderer's fonts: two caches of `CachePairs` and the spans |
| `FileQueue` | the file queue with one pushing and one polling process |
| `HidStream` | abstract: a stream of input reports to threads that read |
| `HidOsx` | a device on macOS, step by step; implements `HidStream` |
| `HidEnumeration` | the lists that hid_enumerate() makes on the three systems, as operators |
| `HidFiles` | listing, and a device on Linux and on Windows; implements `HidStream` |
| `LexChars`, `LexNumber`, `LexScan` | classes of bytes, lx_strscan.c, and lx.c, as operators on the lexer's state |
| `LexSource` | reference: texts made of known tokens, exact values of literals as fractions |
| `Lexer` | a lexer and its host |
| `CommandLine`, `Bundle` | the arguments, what is meant by them and how they are taken apart; the loaders of bundled modules |
| `Interpreter` | main(), the Lua code it runs and Ctrl-C |
| `QueueProofs`, `ThreadProofs`, `LinkedListProofs`, `ArrayLinkedListProofs`, `CacheProofs`, `HidOsxProofs`, `HidFilesProofs`, `InterpreterProofs` | the theorems |
| `MC*` | instances for TLC |

Definitions marked "variant" are plausible mistakes: put in the place of the
definition that follows them they break the properties, which shows that the
properties depend on the code. No definition uses them.

## How the modules correspond to the code

**ThreadQueue** (thread.lua:154-274, pthread.lua). `stack` is the stack of the
queue's Lua state, `owner` the holder of the mutex, `pc`, `call` and `result`
the step, the arguments and the return values of each thread's call. What a
thread does with the mutex held is invisible to others until it waits or
unlocks, so a call is: `Lock`, then `Wait` (the loop condition holds; releases
the mutex), or the operation (`Push`, `Remove`, `Peek`, `Test`) with its
broadcast, then `Unlock`. `cond:wait()` ends by a broadcast, by `SpuriousWakeup`
or by `Expire`; the mutex is taken again by `Lock` or `GiveUp`. `PushRaises` is
luastate's refusal of a value: it leaves the call and not the mutex. `get` is
state:get(index): data is copied from its place, but a function is written by
`dump`, which takes what is on the top of the stack, or gives an empty function
when that is none. `BoundedDeque` says as much in `Copies`: from a place other
than the newest some function comes out.

**ThreadEvent** (thread.lua:94-150) is built the same way. A wait that expires
has its result at once: it does not look at the flag again.

**ThreadSharing** (thread.lua:15-90, 276-390). A reference is of a state, to an
object, made there or decoded, with the parts it has. `pointer_encode`,
`queue_encode`, `thread_encode` and the three decode operators are the fields
that the code writes and reads; `Arriving` puts a decoded value together from
them. `cells` are the values with a finalizer: one per object that was made, and
none of those that were decoded (`DecodedCells`). `KeptArgs` is what the thread
object's copy of the arguments still refers to: nothing, as they were encoded in
place. `Collect` destroys what a state made and has no reference to.

**ThreadPool** (thread.lua:392-426). The queue's variables are those of an
instance of `BoundedDeque` with maxlen 1; the workers and the client call it by
its `Invoke` and `Return`. The refinement of `ThreadQueue` justifies it. A task
that raises ends its worker; join() begins with the last worker.

**LinkedList**, **ArrayLinkedList** (terra/linkedlist.t). A list object is a
record of functions next and prev over the slots of the array, first, last, the
free-index stack and count. The actions are the public methods. An iteration
is a state of its own, so that the body can remove its link; the model
remembers what was promised when the iteration began (`todo`).

**CachePairs**, **LRUCache** (terra/lrucache.t). `cache` is the cache object;
`item` has each link's key, refcount and bytes. `held` are the references that
callers have and the index they were given. put() and shrink() evict one pair
per step (`Evict`) between `BeginPut`/`BeginShrink`/`SetMax...` and their ends,
so that invariants hold in the middle of the loop too; nothing else runs then.
`Order` is the keys as callers are shown them: in the middle of a call those that
will go are gone and the new one is in. The history variable `single` says that the
callers held one pair at a time so far and none made its pair grow; it is in
`SingleSpec` only.

**FontCache** (terra/tr_font.t and its callers in tr.t, tr_api.t, tr_types.t).
`fonts` has the two caches and the pointers in their links, `spans` the font_id
and the pointer of each span. Every action is one public call, with all the
evictions it makes.

**FileQueue** (filequeue.lua:5-46). `disk` is the directory. A message file
appears at once (it is renamed into place); a counter file is truncated and
then written, in two steps, and n, the counter in the closure, is incremented
before. `pusher` and `puller` are what each process has in memory and the step
it is at; a kill may come at any step, and a restart reads the files again.

**HidOsx** (hid_osx.c). `main` is the step of hid_open_path() or hid_close(),
`thread` that of read_thread(), `pc` that of each reader in hid_read_timeout().
The flags are set in steps of their own, as the code sets them with no mutex
held. A callback is `Report`, then `Attach` under the mutex; `attached` counts
the reports that it has put on the list or dropped. The list holds `Limit` + 2
reports: the count is tested before the new one is added and only one is
dropped (:573-594). The barriers are pthread_barrier_wait() of :75-94, which
waits without a loop; its wakeups are not spurious in the model. hid_close()
frees the device, so it starts when no thread is in a read; unplugging may
come at any step, between the removal of the callbacks and IOHIDDeviceClose()
too. Reports are numbers in the order they were sent.

**HidEnumeration** (hid_linux.c:389-618, hid_windows.c:298-447,
hid_osx.c:393-490). `Link` and the taking back of a record are the pointers
root, cur_dev and prev_dev; each platform's loop is a fold over the bus. What
can fail for a device (its uevent, its USB parent, its path, its class) is a
field of the device.

**HidFiles** (hid_linux.c:140-200, 620-737, hid_windows.c:270-300, 502-736,
809-815). A behaviour
lists the bus, opens the device, reads and closes. `numbered` is a fact of the
device, `described` whether the kernel told its descriptor (when it does not the
device is opened all the same), `uses_numbered_reports` what the code made of it, and
the bytes that a read returns depend on all three. On Windows `request` is the
overlapped request with the kernel, `read_pending` what the code believes of
it, `event` its event.

**LexChars, LexNumber, LexScan, Lexer** (lx.c, lx_strscan.c). Bytes are
numbers. `ls` is LX_State with the rest of the text in place of the reader;
each operator is the C function of its name, on a state that it takes and
returns, and loops are folds or recursive functions. A step is lx_next(): the
tokens so far are `tokens`, as the host sees them. A value is a fraction
(`over`, `under`), so that a literal can be compared exactly with what
`LexSource` computes from the same characters by the definition of a numeral.
The widths of integers are constants and scaled to 8 and 16 bits.

**CommandLine, Bundle, Interpreter** (luajit.c, bundle.c). An argument is its
first characters, which say which option it is, and the rest. `collectargs` and
`runargs` are the two passes; `Plan` is what a user means by a command. `pc` is
where main() is; `call` the Lua code that runs, with `guard` for docall(),
lua_pcall() or lua_call(); `stack` the Lua stack with tagged values.
`Sigint` is Ctrl-C, in any state; `handler` and `hook` are what it finds.
Whether a chunk ends well, what it makes of the global arg, and what is typed
are free; the code that may change arg with an effect is what runs between
createargtable() and the script: `Rewriters`. How an operand is spelled is given
by two constants: `Halves`, what stands before and after its first "=", and
`Pieces`, what stands between its commas. dojitcmd() takes the first half for
the name and the pieces of the second for arguments, runcmdopt() makes a nil of an
empty piece, and dobytecode() puts a hyphen before the x of `-bx`.

## Runs

| Run | Instance and bounds | What it shows |
|---|---|---|
| `queue` | 3 threads, maxlen 2, a plain value, a function and a value that cannot be pushed, peeks at both ends | `NoLostWakeup`; `RaiseIsForGood`; `ImplementsDeque` (refinement); `CallsReturnToOne` under fairness |
| `event` | 3 threads | `NoSleepWhileSet`; `ImplementsFlag` (refinement); `SetWakesAll` under fairness |
| `sharing` | main state and 2 threads, a queue and a thread object | `DestroyedOnce`, `KeptByMaker` |
| `pool` | 2 workers, 4 tasks, two of which raise | `NoTaskLost`, `TimedOutNeverRuns`; `AcceptedRuns` under fairness |
| `linked_list` | up to 4 links | `LinkCheckExact`, `IterationVisitsAll`; `ImplementsOrderedList` (refinement, with where each operation puts its link) |
| `lru` | 3 keys, one of them larger, 3 references at once, a pair that grows, changing limits | `HandlesValid`, `ActiveIsHeld`; `SingleKeepsRecency` (refinement to `RecencyOrder` for as long as callers hold one pair at a time and none grows, which the history variable `single` tells) |
| `font_cache` | 2 spans, two files in memory, one mapped, one missing, limits of 0 and 1 | `HeldFontAlive`, `RefsAccounted` |
| `file_queue` | 3 messages, one kill of the pushing and two of the polling process, one write that fails | `NothingSkipped`, `HandledInOrder`; `FoundIsHandled` under fairness |
| `hid_osx` | 2 readers, 3 reports, a list that is full with 2 | `RunLoopAlive`, `NobodyLeftAsleep`, `WaitingIsServed`; `ImplementsStream` (refinement); `ReadsReturn`, `CloseReturns` under fairness |
| `hid_files` | up to 3 devices of 6 kinds on 4 platforms, 4 queries; descriptors of up to 3 items; 4 reports, a kernel that keeps 2 | `ListIsExact`, `ReportsAreExact`; `ImplementsStream` (refinement); `ReadsReturn` under fairness |
| `lexer` | about 7800 texts, read in chunks of 1, 3 and 100 bytes, integers of 8 and 16 bits | `TokensExact`, `NumbersExact`, `PositionsExact` |
| `interpreter` | options alone and in pairs (-j with arguments, with none, with an empty one; -O with two), five endings of a command line, two environments; Ctrl-C twice, two lines typed | `RunsWhatIsAsked`, `ExitTellsFailure`, `CallsAreExact`, `InterruptsOnce` |

The type invariants `TypeOK` are no properties of the runs; those of the modules
with proofs are proved, as parts of the inductive invariants.

Why the bounds are enough. A wakeup can only be lost between one thread that
makes room or a value, one that takes it and one that sleeps: three threads.
With two places a queue can be empty, full or neither, so that a broadcast that
belongs to a transition can be missed; that longer queues lose no wakeup either is
proved. Two values show their order: the oldest and the newest differ, and either may
be the function, which comes out as itself from the top alone. One thread makes every
call and the other two make fewer kinds (`CallsOf`, in `MCThreadQueue`): all three push
and remove, with and without a timeout, and `CallsReturnToOne` is about the first. Four links are two neighbours of
a moved link on each side of its target; three cached pairs give a first active
one, one behind it and one in front. Two fonts of one cache with room for one
make an eviction on every change. Three messages are one in each place of the
file queue (handled, held, waiting), and the second kill of the poller reaches a
restart from what a restart left. With two HID readers a report can be taken
by one between the signal and the awakening of the other; three reports
overflow the list (30 in the code is `Limit` 0 in the run, so that it holds two),
and the proofs are for any number. Three devices are two that are taken back in a
row at the end, at the start and between others; a kernel that keeps two of four
reports overflows between a poll and a read. The lexer's texts are
sequences of up to four parts of a layout (blanks, line breaks, comments, names,
long strings), pairs of symbols, strings of up to two pieces of every kind of
escape, errors, and numbers of up to five characters and others about the limits of their types; chunks
of one byte end at every place. Scaled integers keep the relations that the
code depends on: the same digits are in range or out of it on the same side of
the same comparison, for each base. One option says how it is handled, two
whether it shifts the next one; a first Ctrl-C sets the hook and restores the
default, a second one then ends the process or hits another call.

Symmetry is used in `lru` and `font_cache` only, over keys of the same size,
spans, addresses and fonts of the same kind, which no definition tells apart;
neither checks liveness.

The bounds that are constants of the modules: `MaxLinks` (links at once),
`MaxHolds`, `MaxGrow` (references, bytes by which pairs grow), `MaxAsked`
(calls of font_face_num), `MaxPushes`, `PusherCrashes`, `PullerCrashes`,
`MaxFailures`, `MaxReports`, `Buffers`, `MaxSignals`, `MaxLines`. Deadlock is not
checked where the system may really stop: a queue after a push that raised,
threads that are all joined, a pool whose workers are all blocked, a freed
renderer, a file queue whose pushes are used up, a device that was closed, a
text that was read, a program that ended.

## Fairness

- **Queue, event.** A thread that holds the mutex goes on (weak fairness of its
  steps); a thread that wants the mutex is not passed over for ever (strong
  fairness of `Lock`/`GiveUp`: pthread mutexes do not promise it, schedulers
  provide it, and without it nothing can be said of any call); the deadline of
  a wait is absolute (pthread.lua:382-394, 568-578) so a thread that is put
  back to wait again and again is in the end past it (strong fairness of
  `Expire`). Nobody has to make a call and wakeups need not be spurious.
- **Pool.** The workers go on with what they can do, a call on the queue that can
  take effect does, the client returns from a push. Nobody has to push or join.
- **File queue.** A process goes on with the call it is in, and the polling one
  polls (filequeue.lua:83-88). Opening, pushing, kills and failures need not happen.
- **HID, macOS.** As for the queue: strong fairness of what needs the mutex
  (`Lock`, `Attach`, `WakeReaders`), of deadlines, and of the two sources of the
  run loop, `Removal` and `Perform`, which the system serves in the end though
  reports keep coming; weak fairness of the read thread, of hid_open_path() and
  hid_close(), and of a reader that holds the mutex. The device need not send
  anything, and nobody has to open it, read or close.
- **HID, Linux and Windows.** The call that runs goes on, as one thread calls:
  a poll or a wait ends by its report, its error or its timeout.

## Proofs

Proved by TLAPS for every value of the constants, from the assumptions that the
modules name (`QueueAssumption`, `CallsAssumption`, `EventAssumption`, `PoolAssumption`,
`SharingAssumption`, `FileQueueAssumption`, `MaxLinksAssumption`, `BytesAssumption`,
`LimitsAssumption`, `KeysAssumption`, `FontsAssumption`, `SpansAssumption`, `HidAssumption`,
`HidFilesAssumption`, `DescriptorsAssumption`, `BusesAssumption`, `CommandsAssumption`,
`SpellingAssumption`, `EnvironmentsAssumption`, ...), which say that constants have their
types, that values which must differ do, that the workers of a pool, the keys of a cache
and the spans of a renderer are finitely many, that a report descriptor is a string of whole items, as
the systems make no device of another, that a command is one that can be written as arguments,
that an operand is cut to arguments, and that
a table which Lua code leaves in the global `arg` is finite.

**QueueProofs.** For thread.lua's queue `IInv == TypeOK /\ HolderOwns /\ InCall /\ LengthBound /\
NoLostWakeup` is inductive. `NoLostWakeup` alone is not: that a thread about to
wait is the only one past the mutex comes from `HolderOwns`, that the waiting
threads are the ones a broadcast reaches from `InCall`, and that a removal from
a full queue is the only one that makes room from `LengthBound`. From it follow
`TypeCorrect`, `Bounded`, `Exclusion`, `WakeupsReach`, `NeverBothBlocked`,
`RaisePoisons` (an action property), and `Refinement`: every step of the queue is
a step of `BoundedDeque` or a stutter, with the stack lemmas `RemoveType` and
`RemoveIsWithout` for luastate's remove, and `GetGives` for its get: the value at the
index, or for a function below the top some function, is among the deque's `Copies`.

For the file queue `OrderInv` is inductive and gives `HandledInOrder` whatever crashes
and fails: the counter `first` on disk, the poller's copy of it and the file it handles
move together or one ahead of the other by the step the poller is at (`FirstOK`), and
files are in the order in which they were pushed (`FilesInOrder`), where a number given
twice is allowed only above everything that was handled (`AheadOK`). `SkipInv` gives
`NothingSkipped` where its condition holds: as long as the pusher goes well the number
of a file is that of its push (`NumbersOK`), every number passed was handled
(`PassedOK`), and what is not handled is on disk (`UnhandledKept`).

**ThreadProofs.** For the event, `EventInv == TypeOK /\ InCall /\ NoSleepWhileSet` gives
`NobodySleeps` and `EventIsFlag`, the refinement of `EventFlag`, which needs the last
part: a wait that gives up is mapped to giving up when its deadline passes, when
by `NoSleepWhileSet` the event is clear. For the pool, `IInv == QueueOK /\ PoolOK /\ PlacesExact`:
`PlacesExact` counts where each accepted task is (on the queue, handed by it to a worker,
running, done, or gone with its worker) and says that the places add up to one, which is
what keeps a task from being lost or run twice; `NoTaskLost` names the places and is not
inductive without the count. `TimedOutNeverRuns` follows, as a push that timed out has put
the task in no place. The queue is the abstract `BoundedDeque`, for which
`QueueProofs` shows the implementation. For the sharing of objects, `SharingInv`
adds two parts to `DestroyedOnce`: a value with a finalizer is that of a state which made
the object, and there is none once it was destroyed (`CellsOK`), so a decoded copy never
destroys; and as long as a state refers to what it made, the finalizer is still there
(`MadeOK`). `DestroyedOnceAlways` and `MakersKeepTheirs` follow.

**LinkedListProofs, ArrayLinkedListProofs.** Every operation keeps `ListInv` (types,
the free stack without repetitions, links chained both ways) and changes the set
of links by what it says; the lemmas on unlink and link_between are stated for
a list some of whose slots are in neither the list nor the stack, which is how
the methods are composed. That the chain is one chain, rather than a chain and cycles
beside it, is `ListedAs`: there is a sequence that has each link once, begins with
first, ends with last, and along which next and prev lead. Each method takes it to
the sequence that the caller would expect (`InsertAfterListing`, `MoveBeforeListing`, ...),
and `FollowIsListing` says that following next, or prev, from an end gives that
sequence, by induction over its places. `WellFormed` and `CheckIsExact` follow for the
module, then `IInv == TypeOK /\ ListedAs(list, Forward(list)) /\ IndicesBounded /\ IterOK`.
`IterOK` says how far an iteration came: the links ahead of its cursor are what was
promised and not yet visited, also after the body removed the link it was given. From it
`IterationsVisitAll` and `Refinement`: every method is its step of `OrderedList`, and
puts its link where `OrderedList` puts it.

**CacheProofs.** For the LRU cache `Inv == TypeOK /\ HandlesValid /\ ActiveIsHeld` is
inductive; `Coherent` in `TypeOK` (list, set, items and count agree) carries it, and the
proofs cite the list lemmas for each operation. `HandlesStayValid`: whatever is
evicted, moved or resized, an index names its pair while it is held.

`SingleCallersSeeLRU` is the refinement of `RecencyOrder` for callers that hold one
pair at a time, step by step. Its invariant is `SingleInv`: with one holder the pair
that is held is the first of the list, so that shrink() stops at it only when it is the
last one left; `size` is the sum of the bytes of the cached keys, as none grows; and the
list can be gone through from its ends. From these, at each turn of shrink()'s loop, the
loop goes on exactly while the keys in order are over the limits and not only the
held one is left (`RoomIsMade`), and dropping the last of them then does not change the
longest prefix that fits (`FitFewer`), so the turns are stutters of `RecencyOrder` and
the whole of what goes is decided when the call begins. get, evict and insert are shown
to move to the front, drop the last and put in front (`GetOrder`, `EvictOrder`,
`InsertOrder`) on `ListedAs` of the list. A sum over a set takes its members in an order
CHOOSE picks; that any order gives the same (`SumTake`, `SumOfListed`) is proved by
`SetInduction` over the size of the set.

For the fonts, `FontsInv == SpansOK /\ Right(fonts, spans, asked, Spans)`: both caches
are coherent, each font in them has its own object (`FontsOK`), every span with a font
holds the index that the cache has for it (`Holding`), and refcount is the number of
such spans and of the references asked for and never given back (`Accounted`). An action
makes several calls of the cache, with all their evictions, and spans are changed one
after the other, so `Right` has the set of spans still counted as a parameter and holds
between the calls. shrink() is a recursive function; that it keeps all this is proved on
the run of evictions that it makes (`RunsExist`, `RunsAgree`, `ShrinkIsRun`).
`HeldFontsStayAlive` and `RefsStayAccounted` follow.

Induction. Recursive definitions are functions here, and the induction they need is
`SetInduction`: a set of numbers with 0 and with each member's successor has all of
them, from the least number that is not in it.

**HidOsxProofs.** `IInv == TypeOK /\ HolderOwns /\ EndsAfterFlags /\ BarrierOrder
/\ HasReport /\ NobodyLeftAsleep` is inductive. The flags that tell a reader to
give up are set with no mutex held, so `NobodyLeftAsleep` rests on what the read
thread does after its loop: it has seen a flag (`EndsAfterFlags`), flags stay set,
and it takes the mutex before it broadcasts, when no reader can be between its
look at the flags and its sleep (`HolderOwns`). `RunLoopLives` is read off the two
barriers (`BarrierOrder`). `ServedInv` adds that a reader goes to sleep on an
empty list only, and `WaitingIsServed`: while a reader sleeps and no flag is set,
the reports on the list are at most as many as the readers on their way to it.
From it follow `ReportsAreServed` and `Refinement` to `HidStream`; the step that
needs it is a timed read that gives up and finds reports on the list, which the
stream allows only if others are on their way to each of them. `OnTheWayCounts`
is the counting lemma.

**HidFilesProofs.** `IInv == TypeOK /\ HandleOK /\ RequestOK /\ DescriptorOK /\
ReportsAreExact` is inductive. `RequestOK` describes the overlapped read across calls:
one that waits with the kernel does so with an empty ring, one that is done has its
report in the buffer and its event set until a wait takes it. `ReportsStayExact` rests on
`DescriptorOK`, what hid_open_path() concludes from the descriptor, and that on
`DescriptorIsUnderstood`: the loop that goes from key to key, over bytes whose data may
look like keys, stops at a Report ID exactly when there is such an item, by induction over
the items. Where an old Linux did not tell the descriptor what is due has the number twice
(`Due`). `Refinement` to `HidStream` maps the buffer of a finished request and the ring
to one sequence of reports (`FirstPending`), and a report dropped by Linux (the newest) or
by Windows (the oldest of the ring, the second of that sequence when the buffer is full)
to the removal of one of them (`DropLast`, `DropFirst`, `DropSecond`).
`ListsAreExact` is about hid_enumerate(): what the fold over the devices computes is a
loop (`EnumerateIsLoop`), after each device the records are a sequence chained by `next`
(`Holds`), which a device that is wanted extends (`HeldLink`) and one that is linked and
taken back leaves as it was (`HeldUnlink`), and following `next` from the first gives
that sequence (`ChainIs`). The devices of it are `Listed`, as the code asks of any device of
the set whether it is bound; where all are or none is (`AllOrNoneBound`) they are the ones
that are wanted (`ListedAreWanted`).

**InterpreterProofs.** `SignalInv == Recorded /\ Shape /\ HookOK` is inductive. Its
heart is a balance: each call that was interrupted, the one that just was and the hook
that is set took a signal of their own (`HookOK`), and code that began with the hook set
cannot end before the hook is called, so no second call begins under it; that is
`InterruptsHitOnce`. `ExitInv` says that as long as main() goes on nothing has failed but
in the console; `FailuresShow` follows from what each return of a call does to the exit
status (`DoneExits`). Neither depends on what the command line says.

`PlanIsRun` is about the two passes over the arguments, for every command that can be
written (`CommandsAssumption`). `ArgvIsLaid` lays a command out in argv: option k starts
at `Place(cmd, k)`, where the ones before it end (`PartsInPlace`, for sequences that are
joined). collectargs() is a recursion that looks only at what is behind the argument it is
at; `CollectWalk` follows it past the options one by one, with the flags of those passed,
`WrongIsRefused` to the first that the usage message does not allow, and `RightIsTaken` to
the end when none is. `OptionIsRead` says that runargs() finds the operand that was meant
and goes on at the next option, `BehindIs` and `ScriptIs` that the script is found. The
inductive invariant `WhereInv` then says where main() is (`Where`): `i` is the place of
option k and what has run is what LUA_INIT and the first k - 1 options ask for, or the
options are over, or the script is; and `Fine` that what has run is a prefix of the plan,
and the plan itself when the interpreter ended well. Each step is one lemma.

`CallsMade` is about the tags on the Lua stack. What is recorded of a call was read off the
stack when it began, so `CallsAreExact` rests on the place of everything under it. `Stacked`
says of a call that runs or has returned where its function lies, under how many values,
and that its results are on top of what was below (`BeginStack`, `EndStack`), so that what
docall() put under the function can be taken out and report() finds its message (`AfterIs`,
`ReportIs`). `TextOK` says that the line being read is alone on the stack, which loadline()
takes for granted when it looks at the bottom. One lemma per step then names the function
and the arguments that are called (`LoadedCalls`, `AddOnCalls`, `LineCalls`,
`LineDoneCalls`, `ScriptCalls`, ...). For the script, `ArgOK` says that the global `arg` is
still the table main() made, unless code that may change it (`Rewriters`) has run or is
running, an add-on before its function too (`AddOnArg`); the elements up
to the first nil (`NilIsFound`) are then the words after the script (`RestOfTable`), which
needs `Where` for the script to be where `argn` points, and `TableOut` takes the table
itself away from under them. That the arguments of -j, -O and -b are sequences, whatever the
operands are cut to, is `OperandsSeq`, from `SpellingAssumption`. `MeantInv` adds that the call that is on, and each that is
recorded, is exact.

## Divergences

What the code does and its own comments or tests say otherwise, found while
modelling and read again in the source. The first four are stated, each as a property
that no run lists because the code does not have it: put into the cfg of the module's
run, TLC finds it violated in a few steps. The others are in the model, or in the
conditions of the properties named.

- state:get(index) of a function does not look at the index: it dumps what is on the
  top of the stack (luastate.lua:203-221, 93-101). On a queue that holds several
  values, shift() and peek() of an older function give the newest one, or an empty
  function when the newest is data. The pool is not affected, as its queue holds one.
  `ValueAtIndex` of `ThreadQueue`; `ImplementsDeque` says what holds.
- thread.new() keeps its args "to avoid shareables from being collected"
  (thread.lua:350), but the table was encoded in place (:343) and refers to none
  of them: a queue given to a thread and forgotten by its maker is destroyed
  while the thread uses it. `ArgsAreKept` of `ThreadSharing`.
- thread.decode() reads `thread_addr`, encode() writes `pthread_addr`
  (thread.lua:378, 385). ptr() of nil takes the name of the type for the address
  (glue.lua:916-921), so the pthread that arrives is eight letters as a pointer.
  `ArrivesWhole` of `ThreadSharing`.
- On Windows hid_enumerate() means to "make sure this device" is of the HIDClass with
  a driver (hid_windows.c:345-346), but for each device it goes through the set from its
  start and stops at the first that is bound: one bound device lets all others pass.
  `ListedAreBound` of `HidFiles`; `ListIsExact` is about
  sets whose devices are all bound or all not.
- On Linux hid_open_path() goes on when the descriptor cannot be had
  (hid_linux.c:641-656), and takes reports for unnumbered; on an old kernel they then
  keep the number that it put before them. `Misread`, in `ReportsAreExact`.
- list:clear() frees the items of all slots of the array (linkedlist.t:163), also
  those freed when their links were removed (:209), so Renderer:free() frees
  evicted fonts twice. `FontCache` models it: the renderer ends as "failed".
- thread:join() closes the thread's state before it decodes what the thread
  returned (thread.lua:362, 367): objects made there are destroyed by then.
- The workers of a pool loop for ever (thread.lua:398): pool:join() waits for
  ever, or raises the error of the worker it began with. `JoinRaises` is the only
  step out of joining.
- An LRU cache with more than one pair held can stay over its limits though it
  holds a pair nobody references: get() of the first active pair moves it to the
  front (lrucache.t:171), and pairs released later stay in front of held ones,
  where shrink() stops (:185). The doc says that only referenced items may keep it
  over (lrucache.t:8-10). With one pair held it cannot happen
  (`SingleKeepsRecency`).
- `size` counts a pair with the bytes it has when it goes, not those it was
  counted with (lrucache.t:186, 202): pairs that grow, as glyph runs do
  (tr_rasterize.t:177), make it negative.
- font_face_num() takes a reference that nobody gives back (tr_api.t:291): `asked`
  in `RefsAccounted`.
- A file queue that is opened for polling before the first push has first = 0 for
  ever and finds nothing (filequeue.lua:17); one failed write of a counter
  leaves n ahead (:9), and pull() then asserts on a missing file (:39). A pushing
  process killed between its writes can number the next message with a number
  that was passed already, and that message is never handled. The conditions of
  `FoundIsHandled` and `NothingSkipped` leave these out.
- The list of reports on macOS holds 32, not the 30 of its comment
  (hid_osx.c:588-592): the count is of links, before the new report.
- On macOS a device unplugged between the removal of the callbacks and
  IOHIDDeviceClose() is closed though "it will crash" (hid_osx.c:990-993), as
  nothing sets the flag then. On Linux file descriptor 0 is taken for a failure
  (hid_linux.c:632). On Windows hid_open() compares the serial number it is
  asked for with that of a device that has none, a null pointer
  (hid_windows.c:531), and CancelIo() ends only the requests of its own thread
  (:813).
- The place in the file where a token starts counts a line break of two bytes
  once and is not reset after a comment, nor are its line and column until the
  next line break (lx.c:423-434); lx.lua cuts texts at that place (:373-395,
  720-728). The conditions of `PositionsExact` leave these out.
- With the option for C a number that starts with 0 has no decimal exponent:
  "0e1" and "0.5e1" are malformed (lx_strscan.c:436).
- bundle_main() takes any error that starts with "module " for bundle_loader not
  being there (bundle.c:170) and starts the plain interpreter. After an option whose
  operand is `--`, `-` is read as the name of a file. A script from standard
  input that fails, and bytecode that cannot be saved, end with success.
  An error without a message leaves its nil on the stack. A Ctrl-C just before
  docall() returns interrupts the next call instead, also one outside docall().
  `RunsWhatIsAsked`, `ExitTellsFailure` and `InterruptsOnce` name these cases.

## Only model-checked

Liveness (`queue`, `event`, `pool`, `file_queue`, `hid_osx`, `hid_files`), as
proofs of it need ENABLED. What the lexer and the number scanner compute: their
operators are RECURSIVE, over texts. Every other property that a run checks is
stated by a theorem.

## Not modelled

Within what is modelled:

- Threads: queue:free() with threads still in calls (undefined by pthread); what
  Lua values contain; the printing of the pool's workers.
- Containers: capacity and memory allocation, and clear()'s freeing of items
  except in FontCache; the hash table under the LRU cache's index set (a set
  with lookup by key). Font faces, sizes and glyphs.
- File queue: crashes of the machine, writes that fail halfway, more than one
  process on each side.
- HID: writes, feature reports and strings, which are single calls of the system;
  loading hid.dll; several readers on Linux and Windows, where no lock is taken;
  spurious wakeups of the barriers; kernels whose version cannot be told; read
  buffers that are too short.
- Lexer: the limit on the number of lines, rounding to a double (values are kept
  as fractions), literals of more than 800 digits or exponents past 65536, inf
  and nan, the option that takes strings for numbers; the parser of lx.lua.
- Interpreter: what is printed, bytecode that is damaged, the build with LUAPOWER_BUILD; the script that packs
  executables. csrc/luajit/src/src/luajit.c is LuaJIT's own copy of the
  interpreter and is not compiled into bundles.

Families: see the component list in PROJECT.json, with a reason for each.
Bindings and vendored code have no logic of this repository; widgets and
shaping are computations on values; sockets are unfinished.

## Plan

1. Built: threads (queue, event, sharing, pool), list, LRU cache, fonts, file
   queue, HID devices, lexer, interpreter and bundled modules.
2. Proofs: what the lexer computes is left, which needs its operators as recursive
   functions and inductions over the text.
3. Text layouts. `LayoutSpans`: split_spans, remove_duplicate_spans and
   remove_trailing_spans (tr_api.t:640-725) over texts of four characters,
   refining a sequence of attributes per character, composed with the references
   of `FontCache`; `LayoutStages`: which stage of a layout each edit invalidates.
4. Windows. `NwClosing`: close, quit, autoquit and their handlers re-entering
   (nw.lua:245-345, 569-645); consent is unanimous, each window closes once.
5. Containers. `HashMap`: insertion, deletion and rehashing in place
   (hashmap.t:230-350), refining a set; what failed allocations leave.
6. Processes and files. `ProcExec`: fork, exec error pipe, exit codes with
   failures at every call (proc.lua:207-371); `BufferedRead` refining a stream.
7. Events with re-entrant handlers (events.lua).

Hazards that go with these steps and that no property covers yet:

- events.lua: handlers that remove handlers of the event being fired (:99), or
  the whole event (:91).
- proc.lua: a failed prctl() that makes two parents (:284), a failed fork's pipe
  (:278), `arg_ptr` kept between calls (:222), a fork of another thread between
  pipe() and fcntl() (:268), a process reaped twice (:356).
- fs_common.lua: skipping in a buffered read (:218), reads at the end of the file
  (:225), mkdir that fails halfway (:325), mirror_map's retries (:685).
- terra: rehashing in place (hashmap.t:310) and a failed reallocation (:282); a
  double release in the freelist (fixedfreelist.t:63); spans that are split and
  merged (tr_api.t:701), spans beyond a shortened text (:719), a font forgotten
  before its successor is loaded (:819); `best_diff`, never updated (tr_font.t:102).
- nw.lua: handlers of quitting and closing that close or quit (:254), closing
  the last window (:614), events made up from differences of states (:863).
- thread.lua: queue:free() during calls (:170).
