# A TLA+ model of the ubus binding and its daemon

The repository is a Java binding (`java_ubus_example/`) for ubus, the message
bus of OpenWrt, together with the bus itself (`ubus/`: the daemon `ubusd`, the
client library `libubus`, a command line tool) and the libraries it stands on
(`libubox/`, `json-c/`). This directory holds TLA+ specifications of the parts
whose correctness depends on the order of events, the TLC runs that check them
on small instances, and TLAPS proofs that hold for instances of any size.

## 1. The system

### Inventory

| Component | State it keeps | Operations | Hard because |
|---|---|---|---|
| `UbusPoller.java` | a queue of invokables with its monitor, the table `mPendingInvoke` of outstanding calls, a state and a monitor per call, `mRequestQueue` | `ubusInvoke`, `ubusAddObject`, `acceptRequest`, `replyRequest`, the poller's `loop` | callers, the poller and application threads interleave; a reply, a timeout and the cancel that follows it race; wakeups travel through a pipe outside the lock |
| `jni/ubus_wrapper.c` | a context per call with its two flags, the list of returned calls, the list of incoming requests, the count of accepted ones, the wakeup pipe, the bus handle | `ubus_wrap_invoke`, `_fetch_return`, `_release`, `_accept_request`, `_reply`, `_add_object`, `_wakeup`, `_init` | list membership is encoded in flags; a context is freed by whoever comes last |
| `ubusd.c`, buffers and sending | reference-counted buffers, a ring of 32 per client with `txq_cur`, `txq_tail`, `txq_ofs`, the shared reply buffer | `ubus_msg_send`, `ubus_msg_ref`, `ubus_msg_free`, `client_cb`, `handle_client_disconnect` | partial writes, a full socket, a full ring, edge-triggered write events, buffers reused while they wait |
| `ubusd_obj.c`, `ubusd_id.c`, `ubusd_proto.c`, `ubusd_event.c` | clients, objects, types with counts, paths, subscriptions, event listeners | the request handlers, client creation and removal | everything points at everything else and is freed in any order; one global blob builds every message |
| `ubusd.c`, receiving | per client: a partly read header and body, a pending descriptor | `client_cb`'s read part, hang-up | reads end anywhere, events are edge-triggered, a descriptor belongs to one message |
| `ubusd_event.c` | patterns in a sorted tree, `event_seen` per object | register, send, clean up | the search stops early |
| `libubus-req.c`, `libubus.c`, `libubus-obj.c`, `libubus-sub.c` | requests in flight, postponed messages, objects with cached type ids, one receive buffer | synchronous and asynchronous requests, notifications, time-outs, dispatch | a synchronous wait polls inside a callback, and callbacks start requests |
| `libubus-io.c` | the connection, a message half read or half written | reading, writing, connect, reconnect, `ubus_auto_connect` | signals, `uloop_end`, a daemon that restarts at any point |
| `uloop.c` | registered descriptors with fetched events and a stack of running callbacks, timers, child processes | `uloop_run`, `uloop_end`, `uloop_fd_add`, `_delete`, timers, processes | callbacks add and delete what is being dispatched and run the loop again; signals |
| `cli.c` `wait_for` | the objects still missing | look up, register, wait | look-up-then-register |
| `runqueue.c`, `safe_list.c` | running and waiting tasks, a timer | add, complete, cancel, kill, stop, resume | callbacks change the list that is being walked |
| `ustream.c`, `ustream-fd.c` | lists of buffers, blocked and error flags, a timer | read, write, consume, block, poll | edges that must not be lost, limits, end of input with output pending |
| `avl.c`, `vlist.c`, `kvlist.c` | trees threaded by a list; versions | insert, delete, find; update, add, flush | rotations, equal keys, the version -1 of `vlist_flush_all` |
| `blob.c`, `blobmsg.c`, `blobmsg_json.c` | a buffer that is reallocated while attributes are open | add, nest, string buffers, parse, check, convert | pointers into a buffer that moves |
| `json_script.c` | a run counter, files with the number of their last run | `json_script_run` and its commands | includes, returns out of nested blocks, a counter that wraps |
| `json-c/` | a tokener's stack between calls; reference-counted values; hash tables | parse in pieces, serialize; get, put, add, delete, iterate | state kept across calls, open addressing, shared values |
| JNI glue, lua bindings, examples, utilities | none to speak of | | |

The threads of the binding meet in two monitors (an invoker's own and the
queue's) and in the wakeup pipe. The poller's thread is the only one that
enters the native code, which talks to the daemon over a socket through
`libubus`. The daemon has one thread: `uloop` calls `client_cb`, which flushes
the client's ring, reads messages and runs the handler of each to its end; the
handler changes the registry and sends to any number of clients.

### What makes each part correct

* **Binding.** A call is on a native list exactly when its context says so; a
  slot number fetched from the native side still names the call that returned;
  the poller never sleeps on queued work; a finished call holds no memory and
  its result never changes; every call returns; every accepted request is
  counted and answered.
* **Sending.** A client's stream can be cut into messages again; references
  are counted; the ring is a bounded queue; what is queued is eventually sent;
  what is sent is what was meant.
* **Registry.** Nothing refers to a freed object or client; a path names one
  object; a type lives as long as its objects; owners, subscribers and
  listeners are told of what concerns them, whichever way it came about.
* **Receiving.** The messages a side processes are those the other side wrote,
  whole, in order and each with its own descriptor; an event that is reported
  once is enough.
* **Requests.** A request ends with its own answer, once and after its data; a
  handler never runs within a request and never sees its message overwritten;
  what is put off is served; a notification waits for all it was sent to.
* **Connections.** There is always a way back to a daemon that went away, and
  then both agree on the program's objects.
* **Event loop.** No callback for what was deleted, no edge lost, no timer
  slept past, no child's exit forgotten.
* **Libraries.** A data structure is what it stands for (a sorted list, a map,
  a byte stream, a set of fields, a JSON value), whatever sequence of calls
  built it.

`PROJECT.json` lists the components with their status, and the hazards: the
lines where an unlucky order of events, a boundary or a reused buffer bites,
each with the properties that watch it. Where the sharpest case of a hazard is
outside what its properties say (a header in pieces, a signal in the middle of a
message, the gap in `wait_for`, SIGCHLD just before `epoll_wait`, the fragile JSON
texts), or no property watches it (the assert on accepted requests), its note says so.

## 2. Modules

| Module | Models | Role |
|---|---|---|
| `UbusWrapper` | `jni/ubus_wrapper.c` | state and one operator per C function; no `Next` of its own |
| `UbusPoller` | `UbusPoller.java` | composes the Java threads with `UbusWrapper` |
| `UbusdTx` | `ubusd.c` (buffers, ring, `client_cb`'s transmit part, disconnection), the end of `ubusd_proto_receive_message` | the sending half of the daemon |
| `UbusdTxFifo` | | the abstract specification of the ring: a bounded queue per client |
| `Ubusd` | `ubusd_obj.c`, `ubusd_id.c`, the handlers of `ubusd_proto.c` and `ubusd_event.c` that change the registry, `libubus-obj.c`'s type ids | the registry of the daemon |
| `UbusdProofs`, `UbusdTxProofs`, `UbusPollerProofs` | | theorems about the module of that name |
| `UbusBusProofs` | | theorems about `UbusBus` and `UbusdEvent` |
| `UbusIoProofs` | | theorems about `UbusdRx` and `LibubusRx` |
| `LibubusProofs` | | theorems about `LibubusReq`, `LibubusConn` and `UbusWaitFor` |
| `LibuboxProofs` | | theorems about `Uloop`, `UloopTimer`, `Runqueue`, `Vlist` and `Ustream` |
| `ListProofs` | | lemmas on lists, stacks and searches that the two before share |
| `UbusdRx` | `client_cb`'s read part in `ubusd.c`, `writev_retry` and `ubus_send_msg` in `libubus-io.c` | a client's stream to the daemon |
| `UbusdEvent` | `ubusd_event.c` | patterns and the search for the receivers of an event |
| `UbusBus` | INVOKE, NOTIFY, REMOVE_OBJECT and the forwarding of answers in `ubusd_proto.c`; the clients' side of them | composes several clients with the daemon |
| `LibubusReq` | `libubus-req.c`, `libubus.c`, dispatch in `libubus-obj.c` and `libubus-sub.c` | requests of one context and its callbacks |
| `LibubusRx` | `get_next_msg`, `recv_retry`, `ubus_handle_data` in `libubus-io.c` | the daemon's stream to a client |
| `LibubusConn` | `ubus_connect`, `ubus_reconnect`, `ubus_auto_connect`, `ubus_add_object` and `ubus_refresh_state` | a connection that is kept |
| `UbusWaitFor` | `wait_for` of `cli.c` | the command against a daemon and other programs |
| `Uloop`, `UloopTimer` | `uloop.c`: descriptors; timers, processes and signals | the event loop |
| `Runqueue` | `runqueue.c`, `safe_list.c` | tasks |
| `Ustream` | `ustream.c`, `ustream-fd.c` | buffered streams |
| `Avl`, `Vlist` | `avl.c`, `vlist.c` | trees and versioned trees |
| `Blobmsg` | `blob.c`, `blobmsg.c`, `blobmsg_json.c` | messages |
| `JsonScript` | `json_script.c` | the interpreter |
| `JsonTokener`, `JsonObject` | `json_tokener.c`, the serializers of `json_object.c`; `json_object.c`, `linkhash.c`, `arraylist.c` | JSON texts and values |
| `MCUbusPoller`, `MCUbusdTx`, `MCUbusd`, `MCBus`, `MCLibs` | | constants for TLC; the last two put specifications side by side |

A definition whose name ends in `_` and a word (`Ref_None`,
`ubus_wrap_release_Leaks`) is marked *Fault*: a plausible mistake in the
operator that follows it. No specification uses one; putting it in place of
the real operator breaks the property that `PROJECT.json` names for it, which
shows that the property depends on that code.

### UbusWrapper and UbusPoller

A Java block that holds a monitor is one step. The exception is
`invokeNative`, during which the poller keeps the invoker's monitor while the
native code waits for the bus: it is split (`RunInvoke`, `LookupAnswered`) and
the caller's steps are disabled in between (`MonitorFree`). `notify()` turns a
thread in `wait(4000)` into one that has been notified, which Java does not
tell apart from one whose time has run out: both go on to the same line. The
position of each thread is in `caller`, `poller` and `worker`.

The bus is external to these two modules: it answers or does not answer a
lookup, delivers the DATA and the STATUS of a call, sends INVOKEs and may go
away. DATA may be missing, and STATUS may never come. `ctx->pending`, where
libubus keeps INVOKEs that arrive during a lookup, is modelled with its
head insertion and the timer that empties it.

### UbusdTx and UbusdTxFifo

Sizes are counted in units: one for the header, the others for data; a socket
takes as many as it has room for. Every message has a number, and a buffer's
header and data carry the number they were filled for, so that a buffer that
was overwritten, zeroed or shared at the wrong time shows on the wire. The
three ways the daemon builds a message are three actions: borrowing the blob
(`SendShared`), owning a copy (`SendOwned`) and the one reply buffer
(`Reply`). The model follows the C arithmetic where it matters:
`ubus_msg_send`'s comparison of a signed -1 with an unsigned size makes a full
socket count as success. Write events are edge-triggered, as `uloop` asks of
epoll.

`UbusdTxFifo` knows no slots, offsets, buffers or sockets: a message is
appended, delivered from the front, dropped when the queue is full, or
bypasses an empty queue. `ImplementsFifo` maps the used slots from `txq_cur`
on to that queue.

### Ubusd

A handler is one step, since the daemon has one thread, except that
`ubusd_proto_free_client` frees a client's objects one step each (`FreeNext`).
`out` holds the notices of the latest step. The trees are functions; the two
subscription lists of an object are rows and columns of `subs`, which counts
because a client may subscribe twice. `known` is what the *library* of each
client remembers of its type's id: the daemon acts on the id that the library
sends, and the two can disagree.

### UbusdRx and LibubusRx

The two directions of the stream, in units rather than bytes. In `UbusdRx` the
client writes a message in as many pieces as the socket has room for, with a
descriptor or without, and may hang up at any time; the daemon is one program
counter through `client_cb` (`RecvHeader`, `NoHeader`, `ResumeBody`,
`RecvBody`, `RecvEnds`)
and what it hands to `ubusd_proto_receive_message` is recorded. The second
piece of a header is written behind `hdrbuf` (`&cl->hdrbuf + offset` counts
whole structs); the model records that the header is no longer the one that was
sent, and `StreamIntact` ends there. What the daemon sends back matters here
only as something that waits in the client's ring (`txLeft`): `client_cb` tries
it first, frees a client that has hung up when that write fails, and its `out:`
keeps a client whose ring is not empty. In `LibubusRx` `recv_retry` waits for the
rest of a message once it has begun, unless a signal has set
`uloop_cancelled`.

### LibubusReq, LibubusConn, UbusBus, UbusWaitFor

`LibubusReq` has the C call stack as a sequence of frames: a `sync` frame is a
synchronous request polling the socket, a `data` or `obj` frame a callback of
the program, which may start and abort requests of every kind or return. This
is how an answer for an outer request can arrive within an inner one, how a
time-out meets a late answer and how a handler's message in `ctx->msgbuf` could
be overwritten. `request_seq` counts modulo `SeqRange`. A complete callback is
recorded; it starts no request.

`UbusBus` puts several such clients on one daemon, which forwards a request and
forgets it: an answer finds its way by the ids in the message. A client that
waits serves nobody. Clients leave, remove objects and time out, a handler
answers at once or later, and the daemon may drop any message it sends, as
`ubus_msg_send` does when the ring is full or the socket is (finding 3);
`incomplete` notes the requests of which it did. `ubus_process_invoke` has both
its ends: an INVOKE for an object that its client has removed meanwhile is
answered with the zeroed struct of `libubus-obj.c:49-59`, which names neither
the caller nor the object (`ZeroedAnswer`); `ubusd_handle_response` drops that
answer, and the caller waits although the client it asked is there and idle.
`WaitsForAReason` counts this among the reasons: the object is gone. A method
that does not exist is answered like one that does.

`LibubusConn` is one program with `ubus_auto_connect`: the daemon stops and
starts between any two steps and other programs take paths. The library caches
the ids of its objects' types (`typeIds`), which `ubus_refresh_state` clears
before it pushes the objects again; an object added under an id that the new
daemon does not know would be there without its type (`untyped`). A daemon that
stops while the objects are pushed leaves the program in the wait of finding 2 below.

`UbusWaitFor` is the command's two requests and its loop, with objects coming
and going in between. `shown` is what a faithful command could know of: the
objects present at the lookup and those added once it was registered. One
added between the two is in neither set; the command waits for it until its
time-out, and no line of the code or its documentation says otherwise.

### UbusdEvent

Names and patterns are sequences of letters, ordered as `strcmp` orders them.
`ubusd_send_event` walks the sorted patterns from the first and stops at the
first that has less in common with the name than the one before, as the code does;
`EventReaches` compares this with the set of all patterns that match.

### Uloop, UloopTimer and Runqueue

Callbacks re-enter these libraries, so their state includes the stack. In
`Uloop` a frame is a `uloop_run` or a callback; `cur_fds`, the entries of
`fd_stack` and the buffered events of a callback that is running are as in the
code. `UloopTimer` counts time in ticks with the code's two-part `timeval`
arithmetic, so that `tv_diff`'s rounding is there. SIGCHLD may come between any
two steps. In `Runqueue` a frame says what remains to be done of a function that
called back (`run`, `complete`, `cancel`, `kill`, `empty_cb`), and a walk's
iterator is part of it, moved by `safe_list_del` as the code moves it.

### Avl, Ustream, Vlist

`Avl` follows the pointers, balances and the threaded list; the code's mirrored
halves are one operator with a side. `Ustream` numbers the bytes; a list of
buffers is a sequence with `data_tail` as an index, and the descriptor reports
edges. `Vlist` keeps a node per key (its tree is `Avl`'s business) and the
version and the two flags (`keep_old`, `no_delete`) that decide what the update callback is given.

### Blobmsg

The buffer is an array of cells with scaled sizes of headers, alignment and
growth; an address is a pair of an allocation and an offset, so that a pointer
kept over a `realloc` is told from a good one. Building is one action per
`blob_*` or `blobmsg_*` call; reading, checking, parsing and conversion are
operators evaluated on every state. A JSON object with an empty key cannot
survive the conversion, and `JsonSurvives` says what becomes of it:
`blobmsg_check_attr` refuses a field without a name in a table, so the receiver's
checks fail, and `blobmsg_format_element` writes only its value, `{1}` for
`{"": 1}`.

### JsonScript, JsonTokener, JsonObject

A run of a script is one step whose log (scripts, commands, errors, includes,
returns) is the observable. A file is a chain of scripts (`file->next`); a return
ends one of them, and the next in the chain is run. `jsRanAt` remembers in which
run each file was last run, so that the turn of the counter shows: a file that
last ran a full turn ago has the number of the present run, and
`__json_script_run` passes it over without a word. `IncludedOnce` says that it is
passed over then and only then. `JsonTokener` takes one character per step through the
states of `json_tokener_parse_ex`; a piece may end between any two, where the
function's local variables are lost and the fields of `tok` are kept. Numbers,
names and escapes are shortened to the least length at which they can be cut.
A double is written by `%.17g` (`General`: the zeros at the end of its fraction
go, and the point with the last of them) or, if it was made with a text of its
own, as that text. `RoundTrip` therefore reads a whole double such as 1.0, which
is written `1`, back as an integer; digits are those of the text, so that
`%.17g`'s binary rounding and its exponents do not occur.
`JsonObject` has values with counts, the slots of a table with tombstones, and
`json_object_object_foreach` as a cursor with its `next` read before the body.

## 3. Runs

| Run | Module | Shows |
|---|---|---|
| `calls` | MCUbusPoller | three calls, two slots, a bus that may be absent or die: lists match flags, slots match calls, fetched numbers stay valid, no wakeup is lost, finished calls are released, results are final and come from DATA |
| `live` | MCUbusPoller | under fairness, every call returns and every accepted request is answered, even if the peer never replies |
| `ring` | MCUbusdTx | a ring that fills, wraps and overflows, with partial writes at every point: shape, counts, framing, offsets, contents; the ring is a bounded queue and drains |
| `registry` | MCUbusd | three objects of two clients with types, paths, repeated subscriptions and listeners: nothing dangles, counts match, everybody concerned is told |
| `bus` | MCBus | the other parts of the bus: requests, both directions of receiving, events, calls between clients, `wait_for`, reconnecting, the event loop, timers, the run queue, and the binding serving incoming requests |
| `libs` | MCLibs | the libraries: trees, streams, versions, messages, scripts, JSON |
| `busdies`, `timeout`, `hello`, `retmsg`, `eagain`, `lookup` | | the findings below |

`bus` and `libs` check several specifications in one run. Those share no
variable: the constant variable `which` says which of them a behaviour is of,
the others stay in one initial state. Every property is over the variables of
one of them.

| `which` | Property | Made of |
|---|---|---|
| `req` | `RequestsEndRight` | `ListedAlive`, `CompletionLast`, `StatusIsMine`, `NotifyWaitsForAll` |
| `req` | `HandlersServed` | `HandlersOutsideRequests`, `HandlerDataIntact`, `QueuedIsServed` |
| `rx` | `StreamIntact` | |
| `io` | `MessagesWhole` | |
| `event` | `EventReaches` | |
| `bus` | `WaitsForAReason`, `HandledOnce` | |
| `wait` | `WaitsForUnseen` | |
| `conn` | `ObjectsAgree` | |
| `uloop` | `NotAfterDelete`, `EdgeEventsKept` | |
| `timer` | `TimersAndExitsKept` | `TimersInOrder`, `NoOversleep`, `ExitsNotForgotten` |
| `runqueue` | `QueueSound` | `ListsAgree`, `WalksStayOnList`, `StartsWhenItCan`, `EmptyIsTold` |
| `serve` | `AcceptedAccounted` | |
| `avl` | `AvlSound` | `AvlBalanced`, `AvlThreaded`, `AvlSearchesRight` |
| `ustream` | `UstreamSound` | `BytesKept`, `NoLostEdge`, `EofTold` |
| `vlist` | `FlushLeavesAdded` | |
| `blobmsg` | `MessagesReadBack` | `BuiltReadsBack`, `NoOverrun`, `ParsedByName`, `JsonSurvives` |
| `script` | `ScriptsRunRight` | `IncludedOnce`, `ReturnEnds`, `ArgumentsRight` |
| `tokener` | `TextsReadRight` | `ReadsTheText`, `RoundTrip` |
| `object` | `ValuesSound` | `RefsAccounted`, `TablesFind`, `WalkComplete` |

A property that is made of others is their conjunction; each part has its own
comment in the module.

### Bounds

* `calls`: three callers for two slots make the table full with a call
  waiting. `FetchSize` 1 makes one fetch leave returned calls behind;
  `ReadSize` 2 makes one read leave bytes in the pipe. Each caller makes one
  call; the slots it leaves are reused by another. The callers are
  interchangeable, hence the symmetry; none is used where liveness is checked.
* `live`, and `serve` in `bus`: two requests and two threads are the smallest
  number for which one `notify()` can go to the wrong thread. `AcceptLimit` is
  the number of requests there can be: below the limit of the assert.
* `ring`: two slots fill, overflow and wrap with four messages (`MaxMsgs`).
  A socket of three units and messages of two and three units produce every
  partial write: none, the header only, part of the data. One client is enough
  for the ring; what clients share is the reply buffer, which one client
  fills twice.
* `registry`: a target, its subscriber and a bystander, two of which share an
  owner; `MaxSubs` 2 allows a repeated subscription. `Heard` is restricted to
  removals, which are the case where a listener disappears with what it hears
  of.
* `bus`/`req`: any two (`MaxStarts`) of two synchronous requests, one with a
  time-out, an asynchronous one and a notification, one of them inside the
  other's callback; two data messages per request; an INVOKE in between; a
  notification with no subscriber, or three of which one is listed twice, with
  room for two (`MaxPeers`).
* `bus`/`rx` and `io`: header and body of two units can each be cut; a socket
  of five holds a message and the header of the next, three messages follow
  one another, two signals come.
* `bus`/`event`: three patterns of two objects from the texts "", "a", "aa" and
  the reserved prefix, which are prefixes of one another and of the events.
* `bus`/`bus`: three clients with an object each, of which two watch the
  third's; cycles of calls, a client that leaves and one that gives up. One
  object (`MayRemove`) may be removed while a call to it is on the way, and the
  messages of one request (`MaxLost`) may be dropped, any set of them.
* `bus`/`wait`: a path given twice, and again with another between.
* `bus`/`conn`: two deaths of the daemon, the second while objects are pushed
  after the first; a path taken by another program once; both objects of one
  type.
* `bus`/`uloop`: one edge-triggered and one level-triggered descriptor, one
  nested run, three arrivals. `timer`: two ticks to the millisecond and two of
  those to the second keep every carry and rounding of `timeval`; three timers
  can be out of order with two others. `runqueue`: two tasks, a limit of one,
  callbacks five frames deep.
* `libs`/`avl`: ten nodes, of which three have one key: deletions rotate, at the
  place or further up, and a node is replaced by an equal one or by another of
  its subtree. Two rotations within one deletion need more distinct keys than
  these, so that loop is followed past at most one of them. `ustream`: limits of one and two buffers of
  two bytes, writes smaller and larger than a buffer, a pipe of one byte.
  `blobmsg`: three operations on a first message and one, which may be a whole
  JSON object, on a second in the same buffer; growth by six cells so that each
  may move it; two levels of nesting; JSON objects with empty keys, at the top
  and within.
  `script`: a counter of two bits, of which 0 is not used, that starts at 0 and
  at 2, and five runs: more than a turn, so that files are met that last ran a
  turn ago. `tokener`:
  texts of five tokens, all cuts, depth three; doubles with and without a
  fraction, made with and without a text. `object`: a table of three slots
  in which two keys collide and which doubles once; arrays of two.

Deadlock is checked in `live` and `timeout`, where the workload can always go
on. A daemon all of whose clients are gone for good, or that has sent `MaxMsgs`
messages, may stop; so may a poller whose bus died during a lookup, and a
program that waits for one that left. In `bus` and `libs` the bounds end every
behaviour.

### Fairness

`UbusPoller`: the JVM schedules its threads; a timed wait ends; the daemon
answers a lookup while it is connected (weak fairness of each). Nothing is
assumed of the peers that should answer calls or might send requests, nor that
a caller ever starts. Application threads go back to `acceptRequest`.

`UbusdTx`: `uloop` delivers events, a callback runs to its end, a connected
client reads. A client that stops reading is not promised anything.

The specifications of `bus` and `libs` state no fairness. What must eventually
happen in them is said of the states in which nothing moves any more, or of
what has to be armed for it: an edge, a timer, an entry of a list
(`WaitsForAReason`, `QueuedIsServed`, `StreamIntact`, `NoLostEdge`,
`ObjectsAgree`, `StartsWhenItCan`, `EmptyIsTold`, `EofTold`).

## 4. Findings

Each is a run that TLC must find violated, and a quotation in `PROJECT.json`.

1. `timeout`. `setState(Pending)` notifies the caller that waits in
   `wait(4000)`, which cannot tell this from the end of the 4000 ms and
   cancels the call as soon as it has been sent.
2. `busdies`. The wait of a synchronous request has no exit for a lost
   connection: a daemon that dies during a lookup stops the poller, and every
   later call, for ever.
3. `eagain`. A full socket with an empty ring drops the message (a -1 compared
   as unsigned) although the lines after it mean to queue it.
4. `hello`. A message that borrowed the blob and has to wait is sent with a
   zeroed header, which reads as HELLO.
5. `retmsg`. A STATUS that waits in a ring is overwritten by the next request.
6. `lookup`. The reply to REMOVE_OBJECT is built in the blob that the notices
   of the removal are built in too; the library then keeps the id of a type
   that is gone, adds an object with it, and a lookup of that object follows a
   NULL type.

Visible in the code without a run, because no comment, test or document of the
repository says otherwise:

* `ubus_alloc_id`'s `continue` goes to the condition of its do-while and so
  registers the reserved id it means to reject (modelled; such an object cannot
  listen for events).
* `assert(_accept_incoming < 100)` in `dummy_defer_cb` ends the process when
  that many requests are being served and one more arrives.
* A header that arrives in pieces is written behind `hdrbuf`
  (`ubusd.c:244`; modelled).
* A descriptor goes out with the second piece of a message as well
  (`libubus-io.c:104`; modelled), and the daemon leaks the first.
* The body of a message that the end of the connection cut off is processed
  (`libubus-io.c:296`; modelled), and a signal in the middle of a message makes
  the next read begin there (modelled).
* A failed HELLO closes the socket but keeps its number, which a reconnect
  closes again (`libubus-io.c:404`).
* A hang-up may be handled before the last messages have been read.
* `wait_for` does not see an object added between its two requests (modelled).
* An INVOKE that arrives after its object was removed is answered with zeroed
  ids, which the daemon drops (`libubus-obj.c:56`; modelled): a caller without a
  time-out waits for ever.
* An empty key makes a JSON object that is refused as a message and formatted
  without the key (`blobmsg.c:43`, `blobmsg_json.c:227`; modelled).
* A whole double is read back as an integer (`json_object.c:582`; modelled).
* After 2^32 - 1 runs a file that was last run at the start of that turn is
  passed over (`json_script.c:76`; modelled).
* A nested `uloop_run` forgets an earlier `uloop_end` (modelled).
* After `runqueue_kill` the empty callback may not come (modelled).
* The tokener misreads a surrogate pair or "-Infinity" that is cut in certain
  places, and "/***/" (modelled; `JsonFragile` names the texts that
  `ReadsTheText` and `RoundTrip` leave out).
* An expression that is an empty array is tested by reading what lies behind it
  (`json_script.c:383`; not modelled).
* A script run from within a command of another gives its files a later number,
  so that the outer run may include them again.
* `blob_nest_start` and `blobmsg_realloc_string_buffer` go on after a failed
  allocation.

## 5. Proofs

Every theorem is checked by TLAPS for all values of the constants that satisfy
the named assumption in the component's module, which TLC evaluates in every
run. They only exclude values the code cannot have (a ring without slots, a
header of no bytes, a stream buffer of length zero, for which
`ustream_init_defaults` puts the default, a NULL that is a client) and say that what the program
lists is finite. One is a bound of the model: `ReqAssumption` starts
fewer requests than `request_seq` has numbers (`MaxStarts < SeqRange`, which is
2^16), so a number is not used again while an answer to its first request may
still come; the code relies on that and does not check it.

| Module | Theorem | States |
|---|---|---|
| `UbusdProofs` | `TypeCorrect`, `NothingDangles`, `OneObjectPerPath`, `TypesCounted` | `TypeOK`, `NoDangling`, `PathsUnique`, `RefsMatchUsers` are invariant |
| | `LossesTold`, `StatusesTold` | `DisappearanceTold`, `StatusChangesTold` (actions) |
| `UbusdTxProofs` | `RingKeepsShape`, `RefsStayCounted`, `StreamStaysFramed`, `ContentStaysIntact` | `RingShape`, `RefsCounted`, `Framed`, `ContentIntact` are invariant |
| | `RingIsFifo` | the ring implements `UbusdTxFifo` |
| `UbusPollerProofs` | `ListsAgree`, `SlotsAgree`, `WakeupsAreKept`, `CompletedAreReleased` | `ListsMatchFlags`, `SlotsMatchCalls`, `NoLostWakeup`, `CompletedReleased` are invariant |
| | `ReturnsAreFinal` | `ReturnedIsFinal` (action) |
| | `RequestsAreAccounted` | `AcceptedAccounted` is invariant, given `AssertsMet` |
| `UbusIoProofs` | `MessagesStayWhole`, `StreamStaysIntact` | `MessagesWhole` of `LibubusRx`, `StreamIntact` of `UbusdRx` are invariant |
| `LibubusProofs` | `RequestsAlwaysEndRight`, `HandlersAlwaysServed` | `RequestsEndRight`, `HandlersServed` of `LibubusReq` are invariant |
| | `ObjectsStayAgreed` | `ObjectsAgree` of `LibubusConn` is invariant |
| | `WaitForMissesNone` | `WaitsForUnseen` of `UbusWaitFor` is invariant |
| `UbusBusProofs` | `RequestsHandledOnce`, `NobodyWaitsForNothing` | `HandledOnce`, `WaitsForAReason` are invariant |
| | `EventsReachAll` | `EventReaches` of `UbusdEvent` (action) |
| `LibuboxProofs` | `EdgeEventsStayKept`, `NeverCalledAfterDelete` | `EdgeEventsKept` of `Uloop` is invariant; `NotAfterDelete` (action) |
| | `TimersStayKept` | `TimersAndExitsKept` of `UloopTimer` is invariant |
| | `QueueStaysSound` | `QueueSound` of `Runqueue` is invariant |
| | `UstreamStaysSound` | `UstreamSound` of `Ustream` is invariant |
| | `FlushesLeaveAdded` | `FlushLeavesAdded` of `Vlist` (action) |

Each component has an inductive invariant, made of named parts, one lemma per
action or kind of step, and lemmas about the lists and functions the
component is built from. The invariants were checked by TLC before they were
proved.

* **Registry** (`IInv`). The conjunction of the four invariants; the first,
  second and fourth are not inductive alone. That `refcount` stays in `Nat`
  when an object is freed follows from the count being the number of users
  (`UserCounted`), and that a notice is addressed to a client follows from
  subscriptions and listeners referring to live objects. `FreeKeepsIInv` is
  shared by removal and disconnection. The action properties rest on it:
  `OnlyFreed` says an object disappears only by being freed, `NoticesDiffer`
  that a status notice is taken for no other message, `FreeStatusTold` that
  the targets told are those that lose their last subscriber.
* **Ring** (`TxInv`). The used slots are those less than `Used(c)` ahead of
  `txq_cur`, counted modulo the ring's size (`RingInv`): this is what makes one
  slot's emptiness tell a full ring from an empty one. Every entry agrees with
  its buffer except for what the code really overwrites (`EntryOK`: replies
  share one buffer, a borrowed header may be zeroed), references are counted by
  cardinality (`HeapInv`), `txq_ofs` is within the first message (`OfsInv`),
  message numbers ascend along the ring (`OrderInv`), and the last units on the
  wire say where in a message the stream is (`StreamInv`). The refinement maps
  the used slots to the abstract queue, step by step.
* **Binding** (`PollerInv`). `CallInv` says for a call, wherever it is, which
  list it is on, which slot it has and which states its context allows, and of
  the numbers that were fetched and not yet looked at that they name calls that
  returned (`FetchedInv`); `RequestInv` that an incoming request is at one place
  on its way; `WakeInv` that an invokable queued since the poller last looked
  has its byte in the pipe. The asserts of the wrapper hold under
  `AssertsMet`: no more objects and requests than the arrays are made for, no
  path of another client and, if objects are added, a daemon that is there. The
  code asserts this much of its surroundings, and the runs `live` and `serve`
  are instances of it; without it the process ends.
* **Streams** (`IoInv`, `RxInv`). Both count units: what was begun is what was
  handed on, what is half read, what is in the socket and what is still to be
  written (`FlowInv`). The socket's units are consecutive ones of the stream,
  with a descriptor on the first of its message (`SocketInv`), so what
  `client_cb` has begun is the message after those it handed on (`ParseInv`).
  While a hang-up is being handled nothing is in the client's ring (`EofInv`), so
  that `out:` frees it. `EdgeInv` says where the callback may be when nothing will tell it again.
  Lengths are any numbers, so the argument needs that a unit belongs to one
  message (`OneMessagePerUnit`), by arithmetic.
* **Requests** (`ReqInv`). The stack may be of any depth, so the invariant says
  what any two of its frames may be: the main loop is at the bottom, no
  synchronous request is below a handler or below the loop that calls handlers,
  and an inner request found the context registered by the outer one
  (`StackOk`). A request waited for is active and on the stack once, a blocked
  one has its data callback on the stack, within its wait if it has one
  (`CallsOk`); the fields of a request tell how far it is (`ReqFine`: completed
  only when done, nothing put aside unless blocked, a notification waits for as
  many as it has not heard, `NotifyFine`); a listed one is active, has no
  status and is waited for (`ListOk`). That a status ends its own request needs
  that no two requests in use have the same number and that every message in
  the socket has the number of its request (`SeqsOk`, `MsgsOk`). Handling a
  message is a function of the stack it is handled on, and each of its
  operators is shown to end well (`Ends`) before the steps that use it.
* **Connection** (`ConnInv`). The list of objects still to be pushed has no
  repetitions; every object is in the library's tree, on that list, or was
  removed or refused (`PlaceInv`); a timer runs exactly while there is no
  connection (`LinkInv`); the type ids of what is still to be pushed are unknown
  or the present daemon's (`TypeInv`).
* **wait_for** (`WaitInv`). What the command still waits for and was shown has
  its message on the way (`OnItsWay`); the status is the last message of the
  lookup, and nothing comes until the daemon has the pattern.
* **Bus** (`BusInv`). The daemon forgets what it forwards, so the invariant
  follows each request to the one place where it is: in the daemon's queue and
  known to nobody else (`Sent`), answered as not found (`NotFound`), answered
  with the list of subscribers, which is ahead of every subscriber's own answer
  (`Listed`), or with the objects it was forwarded to, each of which has yet to
  handle it, has put off its answer, has it on the way, or is gone
  (`Forwarding`, `Owing`); when the daemon dropped its own answer it may be with
  those objects alone (`Unanswered`). `Owing` is met for good once an object is
  gone or a message of the request was dropped, which is why a zeroed answer and
  a full ring do not disturb it. That
  a request is handled once rests on an object having it open only before it
  ran, and in one place (`DownInv`, `QueueInv`); that a late answer of an
  earlier request does no harm, on every answer being one of a handler of the
  request it names (`UpInv`). Each step is shown to leave all requests but one
  where they are (`Same`) and to move that one. Clients, objects, subscriptions
  and the number of requests are any.
* **Events** (`EvInv`). The order of texts is shown to be total and transitive
  (`EitherOrder`, `OrderedOn`), so that insertion and removal keep the tree in
  order (`InsertedInOrder`, `FreedInOrder`). `PastTheName` is why stopping early
  is right: if a later text has less in common with the name, nothing after it
  begins the name. The loop is followed round by round (`SearchFinds`): while it
  goes on, `best` is what the last pattern has in common with the name, and the
  objects marked with the event's number are those it was sent to.
* **Event loop** (`UloopInv`). Neither property is inductive: a noted event is
  one of a registered descriptor (`StackInv`), which is not deleted; a fetched
  event's descriptor was not deleted since, is fetched once, and if its hang-up
  took it out no callback of it is still running (`FetchInv`). From these,
  pushing a callback keeps one entry per edge-triggered descriptor (`OnceInv`).
  The stack may be of any depth.
* **Timers and children** (`TimerInv`). Insertion keeps the list in order
  (`OrderKept`), the rest of a time in milliseconds is never more than the time
  itself (`MillisecondsCounted`, by arithmetic on `timeval` for any resolution),
  and so the loop does not sleep past the first timer; a child on the list was
  not told of yet, and one that exited is a reason to look (`ChildKept`).
* **Run queue** (`RqInv`). Lists, flags and the count agree (`RqLists`); the
  iterator of every walk on the stack waits at a task that is on a list or at
  the end, because deleting a task moves the iterators that wait at it
  (`IteratorsMove`, `WalkOn`); when there is something to start or to tell, the
  timer is armed, the queue was killed, or a frame on the stack will see to it
  (`RqDue`).
* **Versions** (`VlistInv`). A node's version tells whether its key was added
  since the last `vlist_update` or at version -1 (`VersionsTell`).
* **Streams with buffers** (`UsInv`). `UstreamSound` speaks of the bytes of a
  whole list of buffers and of a stream outside its callback; neither is
  inductive. A list of buffers comes with a list of places: buffer `i` holds the
  bytes between places `i` and `i + 1`, only the buffers up to `data_tail` hold
  any, and none before it is empty (`HeldBy`, `UsHolds`). Each operation on a list
  (cut, free, move, fill) is shown to give another such list, and the loops of
  `ustream_consume` and `ustream_write_buffered`, recursive functions of the
  round, are followed with `StepByStep`. What arrived is consumed, in the buffers
  or still in the pipe (`UsReads`), what was accepted is sent or in the buffers
  (`UsWrites`); the descriptor's flags follow the stream at every step
  (`UsArmed`); within a callback an edge may have been used up, but then the
  callback has yet to read or write (`UsReadEdge`, `UsWriteEdge`).

Only model-checked:

* `EveryCallReturns`, `EveryRequestAnswered` and `QueueDrains`: liveness, for
  which this prover has no rules.
* `Avl`, `Blobmsg`, `JsonScript`, `JsonTokener`, `JsonObject`: their
  operators walk trees, lists and nested values by recursion, and what a
  recursive definition computes for all inputs needs an induction that the
  provers cannot be given. (A loop over the places of a list is within reach:
  the proofs about `UbusdEvent` and `Ustream` argue by its first place that goes wrong,
  `StepByStep`.)

## 6. Not modelled

* The JSON type parser of `ubus_wrapper.c`; `ubus_wrap_remove_object`, which
  nothing calls; `InterruptedException`; exhaustion of memory anywhere.
* The daemon's own event object as the target of a subscription: it has no
  path, so no client library finds it by looking it up.
* The wrappers of `libubus-sub.c` that build a subscribe request, and the
  commands of `cli.c` other than `wait_for`, which make one request and print
  the answer: they keep no state.
* On the bus of several clients: notifications that ask for no reply and events
  (`UbusdEvent`), the notices of subscriptions and removals (`Ubusd`), objects
  that are added again, and data before the status of a call (`LibubusReq`).
* In a script, an expression that is an empty array: what the code reads then is
  whatever lies behind it in the message.
* Binary rounding of doubles and exponents in JSON texts.
* The kqueue half of `uloop.c`: the build uses epoll.
* Chained ustreams and `runqueue_process` (a task that is a child process: the
  task is in `Runqueue`, the process in `UloopTimer`).
* `kvlist`: a map on an avl tree, with nothing left over for an order of events.
* Of `json-c`: files, debugging, custom serializers, sorting, conversions
  between leaf types. Of `blobmsg`: byte order and the formatting of numbers.
* The JNI glue, the lua bindings, the examples, and utilities (hashing,
  encoding, logging, opening sockets, the shell filter `jshn`), which convert
  and pass on.
