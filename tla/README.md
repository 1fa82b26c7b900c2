# A TLA+ model of zdia

zdia is a small Diameter server in C: one thread accepts TCP connections, one
receiver thread per connection cuts the byte stream into Diameter messages, and
four worker threads parse and handle them.  A dictionary, read from
`dictionary.xml` when the process starts, tells the workers how to decode AVPs.
Everything is built without optimisation (`Makefile`: `-O0`), so a load and a
store in the source are a load and a store in the program.

This directory holds TLA+ modules translated from the source, TLC
configurations that check them on small instances, and TLAPS proofs of the
properties that matter most for every instance.

## The system

| component | files | state | operations | modules |
|---|---|---|---|---|
| event queue | `queue.c`, `event.h` | `head`, `tail`, slots, mutex | push, pop, size, new, free | `RingQueue`, `BoundedFifo`; new and free in `Worker` |
| dispatch and workers | `server.c`, `worker.c` | `curr_worker`, the worker array, each worker's queue and status | accept, dispatch, pop, parse, handle, start, stop, free | `Server`, `Worker`, `Listener`, `Service` |
| receiver | `receiver.c`, `conn.c` | the connection, `received`, `header`, `msg` | receive header, test version, receive body, dispatch; new, free | `Receiver`; new and free in `Listener` |
| dictionary | `dict.c`, `dictionary.xml` | arrays of applications, vendors, commands, AVPs, types and pointers between them | load, build, look up | `Dict` |
| parsing | `msg.c`, `avp.c` | the message, its decoded AVPs | parse header, parse all, decode, free | `Parse` |
| containers | `array.c`, `list.c` | data, size, capacity; a doubly linked ring | insert, erase, grow, sort, find; add, delete | `Array`, `ElemSequence`, `List`; arrays of pointers in `Dict` |
| listening socket | `tcp.c`, `conn.c` | sockets, the table of descriptors, clients that wait | create, bind, listen, accept, close | `Listener` |
| test program | `test.c` | - | builds a server, loads and frees the dictionary, waits | `Server!FreeDict`, `Listener!MainThread` |
| stubs | `sender.*`, `router.h`, `timer.h`, ... | none | none | - |

How they interact: `server_thread` calls `conn_serv_accept` and `receiver_new`
for each client; `receiver_thread` calls `conn_recv`, `msg_new`,
`msg_parse_header` and `server_dispatch`; `server_dispatch` picks a worker with
the shared, unlocked `curr_worker` and calls `worker_push_msg`, which pushes on
that worker's queue; `worker_thread` pops, and `worker_msg_proc` parses the
message with the dictionary the message points to.  The queues have a mutex;
nothing else that threads share has one.

What is hard: the race on `curr_worker`; the ring buffer's boundary cases under
concurrent calls; a queue that is full; TCP's freedom to cut the stream
anywhere, and connections that end in the middle of a message; the lifetime of
what threads share (the dictionary, a worker and its queue, a connection);
workers that are stopped, started again and freed in any order; what is left
behind when one of several steps fails (no thread, no descriptor); pointers
into arrays that are later sorted or reallocated (`dict.c`, `array.c`).
`PROJECT.json` lists these hazards line by line.

## The modules

**`BoundedFifo`** is the abstract queue: a sequence of at most `MaxLen`
elements, and calls that take effect in one step between call and return.

**`RingQueue`** is `queue.c`.  Any thread may call `queue_push` or `queue_pop`.
A call is cut where another thread can act: lock, test and memcpy, index update
and unlock.  Its last definitions map it to `BoundedFifo`: the fifo is the
occupied slots in order, and a call takes effect when the index moves or the
test fails.

**`Server`** is the running process: `Accept`, `Receive`, `HangUp` for the
connections; `Route`, `Push`, `BumpLoad`, `BumpStore`, `WrapTest`, `WrapReset`
for the accesses to `curr_worker` in `server_dispatch`; `Pop`, `Sleep`, `Wake`,
`Parse`, `Handle` for the worker loop; `FreeDict` for `main`.  A worker's queue
is the bounded FIFO of `BoundedFifo`, which `RingQueue` implements, so a push
and a pop are single steps here.  `process` records what killed the process.
The messages a worker was given are one sequence, `Track`: handled, in hand,
queued.

**`Receiver`** is `receiver_thread` and `conn_recv` with the peer and the
network around it.  A byte is its position in the stream, so a dispatched
message can be compared with the frame that was sent.  `Recv` is the blocking
`recv`: it returns at most what was asked and what has arrived, reports a reset
once as -1 and every other end of the stream as 0.

**`Dict`** is `dict_add_dict`: `Open`, `Fail` and `EndOfFile` for the file, one
action for each element `xml_elem_start` knows, and `BuildTables`, `ChainTypes`,
`BuildAvps`, `WalkUp` and `SetCodec` for `dict_build` in its order; `BuildCrash`
is the `strcmp` of an AVP that an earlier, failed load left without a type
(`dict.c:339`).  The arrays of `array.c` are real: a pointer is a block and a
slot, a push on a full array may move the block, a sort moves the elements under
the pointers, and equal elements may end in any order (`Places`).  `Names` are the strings of
the files and `Rank` the order `strcmp` puts type names in.  `section` stands
for the elements `fixed`, `required` and `optional`, which only group rules.  `seen` remembers the elements of the files, so that
the loaded tables can be compared with what was declared (`DeclaredAvp`,
`DeclaredCmd`, `CodecOf`).

**`Parse`** is `msg_parse_all` with `avp_new_from` and `avp_decode`: one turn of
the loop is one step.  It reads words by their position in the message and takes
from the dictionary only which codes it has, and their codecs.

**`Worker`** is the life of the workers, which `Server` takes for granted:
`worker_new`, `worker_start`, `worker_stop` and `worker_free` with `queue_new`
and `queue_free`, called one after the other by an owner in any order, against
the worker's thread.  A call is cut where the thread can see a difference:
`WorkerStart` and `ThreadCreated` or `ThreadNotCreated`, `WorkerStop` and
`Joined`, `WorkerFree` (the queue is gone), `FreeStops` (the status is 0) and
`FreeEnds`.  Receivers push to a worker whatever its owner does or has done
(`WorkerPush`), because `worker_push_msg` tests nothing and `server->workers`
keeps every pointer; a full queue refuses the message, and `worker_push_msg`
returns 0 all the same.  A use of freed memory either finds the old content,
`debris`, or ends the process, which `misuse` records.  `hasty` are the workers
freed while their thread ran.

**`Listener`** is `main`'s `server_start` and join, and `server_thread`: bind,
listen, accept, `receiver_new`, `array_push_back`, with each failure and what it
leaves open.  `files` is the kernel's table, `sock` the program's view of it;
`socket` and `accept` take the lowest free descriptor, so one that was closed
comes back for another client.  A receiver runs and ends here; what it does
in between is `Receiver`.

**`Service`** composes `Worker` and `Listener` into one process from `server_new`
to its end: the listening side starts when the workers are made, messages are
pushed while a receiver runs, and everything stops when `main` ends or a use of
freed memory ends the process.

**`Array`** is `array.c` and **`ElemSequence`** what `array.h` promises: a
sequence of elements and calls that report what they did.  The block and its
capacity are real.  An insert into a full block that moves leaves the iterator
behind (`array.c:129`): it crashes, or it reports success and the grown block
holds anything (`stale_iterator`), and the program goes on with that.  Of such
an insert and of what follows it `ArrayIsSequence` claims nothing.

**`List`** is `list.c`: next and previous links of elements and of list heads on
one set of nodes.  What `list_del` leaves in the links of a deleted element is
`NULL` as in the code.

The modules `MCRingQueue`, `MCServer`, `MCReceiver`, `MCDict`, `MCParse`,
`MCContainers` and `MCService` hold what TLC needs.
Definitions introduced as a *fault for mutation* are wrong on purpose: each is
what a plausible slip would make of the definition it stands before, and each
makes one of the properties fail.

## The runs

| run | instance | what it shows |
|---|---|---|
| `ring_three` | 3 threads, 2 elements, 3 slots, `size_t` of 9 values, fair | types, no memcpy races with an index update, `queue_size` exact; the ring implements the FIFO; the mutex is always released |
| `server_pair` | 2 connections, 2 workers, queues of 2, 2 messages each | one owner per message, order per connection and worker |
| `server_one` | 1 connection, 3 workers, 5 messages, fair | round robin, dispatch stays in the array, what is queued is handled |
| `receiver_frames` | 2 frames of 20 or 28 bytes, any segmentation, close and reset anywhere, fair | messages are frames; arrived frames are dispatched, closes outside a body stop the thread |
| `dict_load` | up to 2 of 5 files with 1 to 4 AVPs, arrays that begin with 2 elements, errors anywhere, fair | the tables hold what the files declare, rules of grouped AVPs and codecs are the declared ones, loading ends |
| `parse_all` | messages of up to 2 AVPs of 14 kinds, fair | all that the dictionary knows is decoded in order, the loop ends |
| `containers` | an array of up to 4 elements that begins with room for 1; 2 lists and 3 elements | the array is the sequence `array.h` promises until an insert spoils its block; rings keep their order forwards and backwards, deleted elements are on none |
| `service` | 1 worker with a queue of 1, 3 messages, 3 clients, 3 descriptors, a backlog of 2, fair | messages are handled once and in order, and lost only when a full queue refuses them or `worker_free` throws them away; no thread runs too many through stops, restarts and failed starts; who may use freed memory; sockets and connections, receivers and the array belong to each other; `worker_stop` returns; who waits is accepted |

Four runs show what the code does against what it says:

- `server_race`: two receivers race on `curr_worker`, it passes the end of the
  worker array and the process dereferences NULL (`server.c:75`).
- `server_dict`: `test.c:87` frees the dictionary before it waits for the server.
- `receiver_down`: a connection lost in a message body leaves the receiver in a
  loop that ignores what `recv` returns (`receiver.c:81-85`).
- `dict_pointers`: `dict_build` takes pointers to slots of tables and then sorts
  the tables.  A command's rule names one AVP and points to another (`test.c`
  prints the name in the rule next to the other's code), and a grouped AVP gets
  the type in slot `CODEC_GROUPED`, whatever sorts there.

`worker_push_msg` always returns 0 (`worker.c:135`), so a message a full queue
refused is neither reported nor freed by `receiver.c:93-96`.  In `Server` it
goes to `refused`, and `OneOwner` counts it there; in `Worker` too, and
`LossIsExplained` says that each message in it met a queue that had taken
`QueueMax` messages before it.  A worker that is stopped and not started again
refuses everything once its queue is full.

What uses freed memory (`UsedWhileAllocated`): the thread of a worker that
`worker_free` met running, which frees the queue before it stops the thread
(`worker.c:100`); `server_new`, when the first thread of a worker could not be
created (`worker.c:92`); and receivers, which dispatch to such a worker and to
any worker that `worker_free` was called for, stopped before or not.  A stopped
worker's thread never does.

Bounds.  Three slots hold two elements: enough to fill, wrap several times and
have `tail` below `head`; `WordSize` is a multiple of the capacity, as 2^64 is
of 1024.  Two connections suffice for a race on one variable, and two messages
each let a worker get two messages of one connection, at once or one after the
other; three workers and five messages go round the array and begin again.  Two
frames show an end, a boundary and a beginning; the header is four bytes as in
the code and a frame is never shorter than a Diameter header.  `MsgBound` and
`MaxFrames` bound what peers send and nothing else.  With an initial size of 2
the tables of `Dict` grow in every file; the files have codes in ascending,
descending and mixed order and one code twice, types before and after their
parents, declared again, and without a codec.  They keep to the order and the
nesting of `dictionary.xml`, stated as `Fits` (the code tests none of it, and
`dictionary.dtd` describes an older form of the file): every AVP has a type or is
grouped, no grouped AVP has enum values (they would share one union), names are
there.  In the runs no chain of types is a circle either; only `LoadEnds` needs
that.
Two AVPs of `Parse` show a first and a next one, with every remainder of a
length modulo four that matters.  An array that begins with room for one element
grows twice on the way to four.  With three elements a list has a first, a
middle and a last one, and two lists show an element that changes its list.
Workers share nothing but their code, so `Service` needs one; with a queue of
one, three messages are one in hand, one queued and one refused, before, across
or after a stop and a free.  `QueueMax` stands for the 1023 messages that fit
into 1024 slots.  Three clients and three descriptors,
one of them listening, mean that the last client finds the table full; a backlog
of two that it waits behind another.

Fairness.  A thread that can run is scheduled again (weak fairness of the
thread's steps); nothing is assumed of peers, of the network, or of the order in
which waiting threads get the mutex.  In `Service` the worker's thread and the
server's thread go on when they can, and a call an owner has begun goes on;
owners need not call anything, peers need not connect, and receivers need not
end.  `StopReturns` and `WaitingIsServed` except the end of the process, and
the latter a table of descriptors that is full: a receiver that ends keeps its
own (`receiver.c:100`), so it stays full.

`CHECK_DEADLOCK FALSE` stands where the system may stop: the process died, or
the peers have sent all they may and every receiver has ended, a worker is
stopped or freed and nobody calls again, or a container holds all it may.

## The proofs

`RingQueueProofs` proves, for every capacity and every set of threads and
elements, that `RingQueue` implements `BoundedFifo`.  The invariant is `IInv`:
types, `LockDiscipline` (the thread in the critical section is the holder of the
mutex), `CopyInPlace` (what was copied is still what gets published or
returned), `OccupiedWritten` (occupied slots hold pushed elements).  The first
three are mutually dependent: a copy stays in place because nobody else is in
the critical section.  The refinement then needs that publishing `tail` appends
to the contents and that moving `head` removes the first, which are sequence
lemmas about the occupied slots.  `SizeIsExact` is arithmetic: a remainder by
the capacity undoes the wrap of the subtraction because the capacity divides the
number of values of a `size_t`.

`ServerProofs` proves `TypeOK`, `OneOwner` and `ConnectionOrder` for every
number of connections, workers, messages and every queue length.  The argument:
popping and handling move a message along its worker's `Track` without changing
it; reading puts a new message into a receiver's hands; a push takes it from
there to the end of a track or to the refused ones.  `OneOwner` with `TypeOK` is
inductive, and `ConnectionOrder` follows because the message pushed is newer
than all messages of its connection that any track holds.  For a single
connection, `Turn` ties `curr_worker` to the number of messages read modulo the
number of workers; `WorkerExists` and `RoundRobin` follow.

`ParseProofs` proves `TypeOK` and `AllDecoded` for every dictionary and every
set of well-formed messages.  The invariant `Progress` says that at each turn
the loop stands at the start of AVP n + 1, or at the end, and that the array
holds what is known of the first n.  A turn keeps it because the length rounded
up to words is the distance to the next AVP; the loop ends after the last one
because only the end of the message is not before its end.

`ReceiverProofs` proves `TypeOK` and `FramesIntact`.  The invariant says that the
frames lie end to end (`Layout`), and that in each loop what was read is the
beginning of frame `Len(out) + 1` (`HeaderAligned`, `BodyAligned`), except after
a reset was added to `received`, when nothing can arrive any more.

`ServiceProofs` proves every invariant of run `service` for any number of
workers, messages, clients and descriptors.  `Stage` says what each place of an
owner means: whether the worker is allocated, whether its thread may run, what
the status is.  It is what makes a restart safe, for `LossIsExplained` alone
does not exclude a second thread that would overwrite `hand`.  `Side` says that
a worker has a queue or debris and never both, and that the messages it took,
`Taken`, are those pushed and not refused, ascending.  With it a pop and a
handling move a message within `Taken`, a push adds the newest to its end or to
the refused ones, a free turns the queue into debris, and `LossFollows` reads
`LossIsExplained` off.  `UsedWhileAllocated` is inductive with `Stage`: only
`WorkerFree` takes a queue from a running thread, and no place of an owner comes
back once it is among those in which the worker or its queue is freed.  `Ready`
adds that `main` serves nobody before `server_new` has returned.  On the other
side `Places` ties the server's thread to `main` and to the client in hand, and
`Waiting` says who waits has no receiver: `SocketIsOwned` needs both, since the
client that is accepted must hold no descriptor yet and the one whose receiver
fails must hold exactly one.  A step of `Service` is a step of one half and none
of the other.

`ContainerProofs` proves `RingOrder` for any number of lists and elements.
`Linked` says that each node's links are its neighbours' in the order of the
list, `Once` that an element is on one list at one place, `Loose` what the links
of the others are.  Adding and deleting touch the links of two neighbours; the
lemmas say which positions these are and that all others keep theirs.  It also
proves that `Array` implements `ElemSequence` for every first capacity.  The
invariant there is `ArrayTypeOK`: the size is within the block and, while memory
is sound, what lies below it are elements.  An insert moves the contents because the block has room
after `Room`; a sort is one of the permutations of the slots, carried over to
positions.

`DictProofs` proves `TypeOK`, `GroupedRulesNamed` and `LookupDecodes` for any
files that fit, any number of loads, failed ones among them, any first size of
the arrays and any order the sorts can leave.  It has three layers.

1. `HandlerInv` is about the pointers.  `TypeOK` alone does not say that a type
   or a rule goes where it should; `Context` does: depending on the element read
   last, `curr_avp` or `curr_cmd` is `array_back` of a table whose block has not
   moved since, and `curr_rules` is an array of rules.  `OwnContent` and
   `NoSharing` (no two AVPs or commands have one array) and `RulesOnly` keep a
   store to one entry from reaching another.  That every later action finds its
   entries again after a sort rests on `SortedIsReordered`: the places of a sort
   are a permutation, whatever it does with equal keys.
2. `Listed`, `Unbound` and `Bound` say when the rules of grouped AVPs are NULL
   and when they point into the table: nothing may bind them before the last
   sort, because `dict_build_rules` passes over rules that are bound.
3. `TypesInv` ties the table of types to the declarations: `DeclaredTypes` while
   the file is read, `Linked` after the sort of the types, `Walking` in the loop
   over the codecs.  `CodecOf`, what a name's codec should be, is the least
   closed set of names, not a recursion, so that it can be proved about:
   `CodecOfParent` says that a declared type has the codec of its parent, and
   that is all the loop needs, whichever way its chains run.

`DictLoadProofs` proves `LoadedAsDeclared` on top of that.  `LoadInv` pairs each
entry of a table with one AVP or command element and says that the entry, with
the names in its arrays, is what the element declares so far (`MatchedAvps`,
`MatchedCmds`); the last entry belongs to the declaration that is still open.
What an element adds is then shown twice: on the side of the files by lemmas
about declarations and one element more (`AvpsGrow`, `CmdsGrow`), on the side of
the tables by the handler's store to `array_back`.  `RulesCurrent` says that
`curr_rules` is the array of the section the next rule lies in, so the same name
is appended on both sides; `OwnContent`, `NoSharing` and `OwnRules` keep the
append from reaching another entry.  `Following` ties `seen` to the file being
read, because `Fits` speaks of files and the declarations are those of all files
so far.  A sort composes the pairing with its permutation, and the rest of
`dict_build` changes neither names nor the order of rules.

The assumptions are those stated in the modules: a positive capacity that
divides the number of values of a `size_t`, a positive number of workers and a
queue with room for one message, frames longer than the header buffer
(`receiver_thread` tests no length; a Diameter message is never shorter than
twenty bytes), messages whose AVPs lie end to end, a block with
room for one element at least, distinct values for "nothing", and dictionary
files that fit, with codes below 2^31 (`cmp_avp` subtracts them).

Only model-checked: liveness (`LockReleased`, `QueuedIsHandled`,
`FrameDelivered`, `StopsOutsideBody`, `LoadEnds`, `ParseEnds`, `StopReturns`,
`WaitingIsServed`), which TLAPS cannot prove.  Every invariant and every
refinement that a passing run checks is also a theorem.

## Not modelled, and the plan

The stubs have no behaviour.  `zd_malloc` ends the process when memory runs out,
so allocation failures have no paths of their own.  Logging is left out.

In `Dict`, an aborted load is an outcome (`array_init` frees an uninitialised
pointer, `dict.c:405`) and a failed one leaves tables that were never built;
nothing in the repository says what may be done with those.  `avp.app` is left
out: nothing reads it.  A second load leaves rules that count as bound
(`dict.c:295`) pointing into the old table, so `GroupedRulesNamed` speaks of the
first.  In `Parse`, malformed messages are left out, and so is memory: no code
frees a handled message.

Nothing calls `list.c` yet, `server_free` (which passes `worker_free` and
`receiver_free` the address of an array slot instead of its pointer),
`msg_new_from`, `avp_new`, `tcp_listen` or `conn_send`; `List` is modelled as a
data structure of its own, the others are left out.  `msg_free` and `avp_free`
are reached only when the array of workers is empty, which `server_new` excludes.
`server_stop` and `server_init` are empty.  Two threads that start and stop the
same worker would race on its status; no code does it, and `Worker` gives each
worker one owner.

What is left, in this order:

1. `Dict` on top of `Array`, so that its blocks are the ones proved about.
2. Malformed messages in `Parse`, once `avp_new_from` tests lengths.
