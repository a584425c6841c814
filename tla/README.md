# td_revent in TLA+

A verification project for td_revent, a small single-threaded event library in
Rust: an event loop with timers and sockets over epoll, kqueue or an IO
completion port. The modules model the library's own logic, TLC checks them on
small instances, and TLAPS proves theorems about the timers, the three selectors,
the byte buffer and the reference count for every value of the constants. Paths are relative to the repository's
crate: `timer.rs` is `src/src/timer.rs`, `epoll.rs` is `src/src/sys/unix/epoll.rs`,
`kqueue.rs` is `src/src/sys/unix/kqueue.rs`, `selector.rs` is
`src/src/sys/win/selector.rs`.

## 1. The system

| Component | State it keeps | Operations | Interacts with |
|---|---|---|---|
| Timer table (`timer.rs`) | a red-black tree of entries ordered by (tick, id), a map id → tick, the id cursor | `add_timer`, `add_first_timer`, `del_timer`, `tick_first`, `tick_time`, `calc_new_id` | called by the event loop; reads the wall clock (`lib.rs`, `now_micro`) |
| Event entry (`event_entry.rs`) | callbacks, flags, deadline and period of one timer or socket | constructors, callback wrappers, `merge` | owned by the table, a selector or the program |
| Event loop (`event_loop.rs`) | `run`, the table, the selector | `run`, `run_once`, `timer_process`, `shutdown`, the timer and socket methods | polls the selector, calls timer callbacks, which call any method of the loop |
| epoll selector (`epoll.rs`) | `event_maps` fd → Event; in the kernel, the interest list | `do_select`, `register_socket`, `modify_socket`, `unregister_socket`, `send_socket` | kernel; socket callbacks, which call any method |
| kqueue selector (`kqueue.rs`) | the same, and `sys_events`, at once the poll's result and the list of changes | the same | the same |
| IOCP selector (`selector.rs`) | `event_maps`; in the kernel, overlapped operations and the packets of the port | the same, by posting operations and handling packets | kernel; socket callbacks |
| Buffer, EventBuffer (`event_buffer.rs`) | a vector with a read and a write position; for a socket, one in each direction and the in-read, in-write marks | `read`, `write`, `drain...`, `clear`, the position setters | selectors and callbacks |
| FromRawArc (`sys/from_raw_arc.rs`) | a reference count, the data behind it | `new`, `from_raw`, `clone`, `deref`, `fetch_add`, `fetch_sub`, `drop` | the handlers of the IOCP selector |
| Windows glue (`net.rs`, `iocp.rs`, `handle.rs`, `mod.rs`) | the addresses of the last accept, cached extension pointers | results of overlapped calls, posting packets, timeouts, addresses | the kernel; the IOCP selector |
| Flags, re-exports | none | bit values | |

The library runs on one thread, and its difficulty is re-entrancy: a callback may
call any method of the loop that is in the middle of calling it. Added to it are
the kernel's reuse of descriptors, events reported before a callback and handled
after it, completions that come late, and partial writes. What each component
must get right:

* **Timer table**: the tree and the map are two structures changed by every
  operation. The map must never lead `del_timer` to a key that is not in the
  tree, no queued timer may be undeletable, ids must be unique, and the search
  for a free id must end while there is one.
* **Event loop**: a pass reads the time once and calls back between taking a
  timer out and putting it back. No timer may fire early or twice in a pass, a
  deleted one may not fire at all, due timers must fire although callbacks add
  others, and the loop must end after `shutdown`.
* **epoll, kqueue**: the map, the flags and the kernel's list are updated in
  separate steps with user code between them. Every registered socket must be
  watched for what its flags ask, nothing else may be watched, buffered data must
  keep its write event, the end callback must be the last and come once, and
  an event must not end a socket it is not about.
* **IOCP**: what the kernel holds refers to memory of the Event. One operation at
  a time may use each OVERLAPPED, none may be outstanding when the Event is
  dropped, bytes may not be sent twice, a socket that wants data must have a
  read posted, and an accept must be reported with its own peer.
* **All three selectors** make the program one promise: a socket's callbacks run
  between its registration and its one end callback, and OVER ends the socket of
  the callback that returned it and no other, although the code knows sockets by
  number only. On unix there is one way to break it: a callback ends its own
  socket, opens another, which gets the number, and returns OVER (section 6).
* **FromRawArc**: the box is dropped once, by the last reference, after every use.
* **Buffer**: no sequence of reads, writes and drains may make a position leave
  the vector or let a byte be read twice, lost or sent out of order.

`PROJECT.json` lists under `hazards` where in the source each of these bites.

## 2. Modules

| Module | Models | Lines on |
|---|---|---|
| `Timer` | the table and the timer fields of its entries | `timer.rs`, `event_entry.rs` |
| `EventLoop` (EXTENDS `Timer`) | the loop, one pass, timer callbacks that call back | `event_loop.rs` |
| `TimerService` | abstract: what the loop promises about timers | |
| `UnixSockets` | what both unix selectors share: descriptors, Events, running callbacks | `epoll.rs`, `event_entry.rs` |
| `EpollSelector` (EXTENDS `UnixSockets`) | the epoll selector | `epoll.rs` |
| `KqueueSelector` (EXTENDS `UnixSockets`) | the kqueue selector | `kqueue.rs` |
| `WinIo` | what the Windows layer makes of the kernel's answers | `net.rs`, `iocp.rs`, `mod.rs` |
| `IocpSelector` (EXTENDS `WinIo`) | the completion-port selector | `selector.rs` |
| `SocketService` | abstract: what a selector promises about callbacks; all three implement it | |
| `RawArc` | the counted reference, one atomic operation a step | `from_raw_arc.rs` |
| `Buffer` | one byte buffer | `event_buffer.rs` |
| `ByteQueue` | abstract: what users of a buffer rely on | |
| `TimerProofs`, `EventLoopProofs`, `EpollProofs`, `KqueueProofs`, `IocpProofs`, `BufferProofs`, `RawArcProofs` | theorems | |
| `UnixSocketsProofs` | the lemmas of the two unix selectors | |
| `MCTimer`, `MCEventLoop`, `MCEpoll`, `MCKqueue`, `MCIocp`, `MCRawArc` | instances for TLC | |

Definitions named `..._mut_...` are deliberate mistakes of the kind one could make
in that code. No specification uses them; the table in section 4 says which
property tells each from the real definition.

### How state and actions correspond to the code

**Timer.** `timer_queue` is the set of entries in the tree (`KeyBefore` is the order
of `TreeKey`), `time_maps` and `time_id` are the fields of that name. An entry is
a slot of `Entry`: in the tree, `held` by the program or by `timer_process`, or
vacant. Each public method is an action. `Later` is `now_micro() + tick_step` of
a release build, modulo 2^64 (`U64Max` + 1 here). `calc_new_id` is given by the
relation `IsNewId`; `scan` is the loop of the code, turn by turn, and `ScanAgrees` says
that the two agree. When every id is taken that loop never ends: `spin`, which sets
`hung`.

**EventLoop.** `pc` is where the loop's thread is; `now`, `size`, `is_op`, `firing`
are the locals of `run_once` and `timer_process`. `fire` is `tick_time` returning an
entry and the call of its callback; `callback_returns` is everything up to the next
`tick_time`. While `pc` is `callback`, `sockets` or `out`, the program may call
`add_new_timer`, `add_new_timer_at`, `add_timer`, `del_timer` and `shutdown`, any
number of times. The clock moves between any two steps. The selector is seen
through what `run_once` sees: no events, some, or an error (`select_fails`).

**UnixSockets, EpollSelector, KqueueSelector.** A `Sock` is the identity of one open
socket, which the code does not have: it knows descriptors, which the kernel hands
out lowest first and reuses. `stack` holds the running callbacks, innermost last.
`select` is the poll. Every half of `read_done` and `write_done` before a callback
is an action (`accept_ok`, `accept_err`, `read_data`, `read_end`, `write_all`,
`write_part`, `write_fails`), and so is every way back from one
(`callback_returns` for OK and CONTINUE, `callback_over` for OVER, `end_returns` for
the end callback). `unregister_socket` closes, removes and calls the end callback;
`EpollCtlDel` or `deregister` by number comes only when that callback is back. A
method is enabled outside the loop and in every kind of callback, as the constant
`Permits` of the run says. `Permits` also says whether a callback whose socket has
ended may return OVER when another socket is registered under its number
(`over_reused`, in `ReturnsOver`); the code itself does not ask. In the epoll model `watch` is the interest list and
`batch` what is left of the copied events. In the kqueue model `evts` is
`sys_events` and `todo` is `cnt - i`: `flush_changes` hands the kernel all of
`evts`, the last reports first, and clears it, also in the middle of do_select's
loop over it. `kevent` applies changes in order up to the first it refuses.

**WinIo.** Results of calls are sets of `io::Result` values: `cvt` and `last_err` decide
what a SOCKET_ERROR, `WSA_IO_PENDING` or a size becomes, `slice2buf` cuts a length to a
`u_long`, `dur2ms` turns a timeout into milliseconds, `INFINITE` included. An accepted
peer's address goes the whole way: the kernel writes a SOCKADDR in network byte
order (`Sockaddr`) where `AcceptAddrsBuf::args` tells it to, `parse` finds it there, and
`ptrs_to_socket_addr` takes it apart.

**IocpSelector.** `ev` is the Event, `io` what the kernel has (operations posted, bytes
handed over), `port` the packets of the completion port, `event_maps` the map by socket
number. The `post_*` functions are operators on one socket that return the set of
outcomes a call may come to, so that callers in the code are callers in the model
(`OrUnregister` is the error path). `do_select` copies its packets and handles them in
order, hence packet by packet. `running` is the callback that runs, at most one. Three
constants open what the run leaves closed: `Reuse` (a number comes back while its
old Event is registered), `PostFails` (posting a packet may fail), `Prefill` (an
EventBuffer may be registered with data in it).

**SocketService.** The selectors map to it by `live` (what `event_maps` holds), `running`
(the stack of callbacks) and `ended`. Every dispatch, return, registration and
unregistration of a selector must be one of its actions or none of its business.
`Over` ends the socket of the callback that returned; when that has ended already,
OVER is a `Return` and nothing else.

**RawArc.** Each step is one operation on the counter, or one access to the data. A
`Ref` is the identity of one count: a handle, or a count taken with `fetch_add` and no
handle. `fetch_sub` is two steps (`fetch_sub`, then `fetch_sub_last` or
`fetch_sub_some`), as in the code. `known` and `published` are the happens-before
relation: `Release` publishes what a thread knows, the fence acquires it. `Credited`
says that `fetch_sub` is called only to give a count back, or on the last reference.

**Buffer.** `val`, `rpos`, `wpos` as in the code; `got` is what the last `read` returned,
`moved` is history: whether the program has set a position by hand since the
last `clear`.

## 3. What TLC checks

`tlc -workers 2 -config <cfg> <module>`. Deadlock is checked unless said otherwise.

| Run | Module | Distinct states, time | Question |
|---|---|---|---|
| `timer` | `MCTimer` | 94 078, 8 s | does the table agree with itself under every sequence of its calls? |
| `loop_safety` | `MCEventLoop` | 362 276, 57 s | is the loop the timer service it promises, whatever callbacks call? |
| `loop_live` | `MCEventLoop` | 146 760, 27 s | do due timers fire and does a shut down loop end? |
| `epoll_any` | `MCEpoll` | 133 719, 55 s | do map, flags, buffer and interest list agree, and is buffered data written? |
| `epoll_all` | `MCEpoll` | 96 801, 17 s | what holds with every method from every callback? |
| `kqueue` | `MCKqueue` | 435 319, 90 s | the same for kqueue, up to the panic `kqueue_batch` shows |
| `iocp` | `MCIocp` | 398 040, 75 s | is the socket never deaf, stuck, dropped too early, sent twice or taken for another peer? |
| `buffer` | `Buffer` | 10 680, 2 s | is the buffer a queue of bytes? |
| `arc` | `MCRawArc` | 14 108, 3 s | is the box dropped once, by the last reference, after every use? |
| `loop_delete_firing`, `kqueue_batch`, `iocp_listener` | | | the code does otherwise than a comment says: section 6 |

`kqueue`, `iocp` and `arc` turn the deadlock check off because what they model can
stop: the program panics, or the last reference is gone. Every other passing run
checks it.

### Bounds, and why they are enough

* **Timers.** Three entry slots with two ids (`timer`): the ids come round, all can
  be taken, and an entry can be added again under an id that another one has
  meanwhile. `U64Max = 1` there makes `now + step` overflow. The clock may go back by
  one. Two slots with ids that do not come round (`IdReuse = FALSE`: exploration stops at
  the last id) for `loop_safety`: one timer fires while another is added, deleted or
  due; periods 0 and 1, deadlines in the past and ahead, `MaxNow = 2`. The theorems
  remove all these bounds.
* **Sockets.** Three sockets over two descriptors: two open at once, and a third that
  takes over a descriptor inside a batch of two. Callbacks nest to the depth the
  sockets allow. `MaxSend = 2` lets a write be partial; `MaxSend = 1` in `epoll_all`,
  whose properties do not read the buffer. A socket may be registered with READ,
  with READ and WRITE, or as a listener. FLAG_ACCEPT without FLAG_READ is left out:
  nothing polls for it. `MaxBatch = 2` is `select_catacity`, 1024 by default.
* **IOCP.** One socket, a stream or a listener with two peers, two units of data, and no
  new `modify_socket` or `send_socket` with two reads or two writes under way (`MaxOps`),
  which only bounds what those two calls add. Calls "from outside" stand for those of
  other sockets' callbacks; two sockets that have one number after the other are in
  `iocp_two.cfg` (by hand, 90 s, no violation), and the theorems remove the bound. `U32Max`,
  `U64Max` and `Byte` are `u32::MAX`, `u64::MAX` and 256 scaled down; every byte of a peer's
  address differs from its neighbours.
* **FromRawArc.** Three threads and four references at once: a drop that is not the last
  can fall between two steps of each of two others. The theorems remove the bound.
* **Buffer.** Length 4, arguments to length 3, two byte values: an argument that
  overwrites, extends, or leaves a hole. The theorems remove these bounds.

### Properties

* Timer: `MappedIsQueued`, `HangsOnlyWhenFull`, `ScanAgrees`; `QueuedIsMapped` and
  `UniqueIds` until ids come round.
* EventLoop: `OncePerPass`, `DeletedStaysSilent`, `ImplementsTimerService` (refinement),
  `DueTimerFires`, `ShutdownExits` (liveness).
* All selectors: `ImplementsSocketService` (refinement).
* Unix selectors: `RegisteredIsWatched` (epoll: exactly) or `AskedIsWatched` (kqueue:
  at least), `WatchedIsRegistered`, `PendingIsArmed`, `PendingFlushed` (liveness),
  `LiveGetsItsEvent` and `DispatchIsCurrent`.
* IOCP: `OneReadUntilModified`, `SentOnceUntilPending`, `AcceptedPeer`, `ReadArmed`,
  `WriteProgress`, `DroppedIsQuiet`, `UnregisterEnds` (liveness).
* Buffer: `NeverPanics`, `WriteAtEnd`, `ImplementsByteQueue` (refinement).
* FromRawArc: `NoUseAfterFree`, `NothingLeaks`, `UsesBeforeFree`.

`loop_safety` excludes two things the properties cannot survive: a clock set back
(`BackStep = 0`; `now_micro` is `SystemTime`) and deletion of the timer that is firing
(`DeleteFiring = FALSE`; see section 6). `epoll_any` excludes `modify_socket` (section 6)
and opening a socket inside an end callback, after which `EpollCtlDel` by number removes
the new one (`epoll_reconnect.cfg`). `kqueue` excludes sends and registrations from end
callbacks (`kqueue_farewell.cfg`, `kqueue_reconnect.cfg`). `epoll_all` and `kqueue`, which
check `ImplementsSocketService`, exclude `over_reused`: `unregister_socket` goes by number
and ends the socket that has it (`over_reused.cfg`). OVER from a callback whose socket has
ended stays in, as long as no other socket is registered under the number; `epoll_any` has
every OVER. In kqueue a socket can never be handed another's event, because what replaces
a socket also clears `sys_events`: `DispatchIsCurrent` shows that, and that the two early
returns of `read_done` and `write_done` are never taken, which is why the model has no
action for them. That the properties of `kqueue` that do not need these exclusions hold
with every method from every callback is proved (section 5). `iocp` excludes the three
faults of `Reuse`, `PostFails` and `Prefill`, each of which breaks a property (section 6),
and `arc` the calls of `fetch_sub` that give back a count nobody took
(`arc_uncredited.cfg`).

### Fairness

`EventLoop!Fairness`: the loop's thread takes its next step when it can and callbacks
return (`WF(LoopStep)`), and time passes (`WF(AdvanceClock)`). The library has one
thread and never blocks for ever in its own code: `do_select` is always given a
timeout, and a callback that does not return stops everything by design. Nothing
obliges the program to call anything or to start the loop. `EpollSelector!Fairness`:
the dispatch loop goes on and callbacks return (weak), and a descriptor the kernel
watches for EPOLLOUT is reported writable again and again (strong,
`Writable`): level-triggered epoll reports it in every poll in which it is, and the
peer is assumed to read on. `IocpSelector!LiveSpec`: packets in the port are taken and
callbacks return (weak). Nothing is assumed of the peer or of the kernel
completing an operation, except that closing a socket completes what it has
outstanding before the ENDED packet, which is what `selector.rs:467` relies on.

## 4. Which mistake each property finds

| Run | Property | Found by | What the mistake is |
|---|---|---|---|
| `timer` | `MappedIsQueued`, `HangsOnlyWhenFull` | `tick_time_mut_mapped` | firing leaves the id in the map |
| | `ScanAgrees` | `IsNewId_mut_least` | the search starts at 1 each time |
| `loop_safety` | `TypeOK` | `callback_returns_mut_holds` | the entry stays in hand after its callback |
| | `QueuedIsMapped` | `insert_mut_unmapped` | queued without an entry in the map |
| | `UniqueIds` | `calc_new_id_mut_still` | the cursor is not moved |
| | `DeletedStaysSilent` | `del_timer_mut_unmaps` | deleted from the map only |
| | `OncePerPass` | `add_timer_mut_zero` | a period of 0 is armed again |
| | `ImplementsTimerService` | `ReadNow_mut_ahead` | the pass compares with a later time |
| `loop_live` | `DueTimerFires` | `KeyBefore_mut_reversed` | the latest deadline first: a due timer starves |
| | `ShutdownExits` | `loop_test_mut_endless` | `run` is not read |
| `epoll_any` | `TypeOK` | `write_part_mut_drains_more` | drains more than was written |
| | `RegisteredIsWatched` | `disarm_mut_kernel` | the flag goes, EPOLLOUT stays |
| | `PendingIsArmed` | `disarm_mut_in_write` | `is_in_write` stays set |
| | `PendingFlushed` | `write_part_mut_disarms` | EPOLLOUT goes with data left |
| `epoll_all` | `WatchedIsRegistered` | `unregister_socket_mut_no_close` | removed, not closed |
| | `LiveGetsItsEvent` | `modify_socket_mut_forgets` | modified sockets leave the map |
| | `ImplementsSocketService` | `callback_over_mut_next` | the event's number is read after the loop moved on |
| `kqueue` | `TypeOK` | `select_mut_one_more` | one event more than reported is counted |
| | `AskedIsWatched` | `write_all_mut_flag` | the filter goes, the flag stays |
| | `PendingIsArmed` | `write_all_mut_in_write` | `is_in_write` stays set |
| | `WatchedIsRegistered` | `unregister_socket_mut_no_close` | removed, not closed |
| | `DispatchIsCurrent` | `flush_changes_mut_keeps` | reports stay in `sys_events` after a flush |
| | `ImplementsSocketService` | `unregister_socket_mut_keeps_entry` | the ended socket stays in the map |
| `buffer` | `TypeOK` | `drain_mut_unbounded` | positions below 0 |
| | `NeverPanics`, `WriteAtEnd` | `drain_mut_keeps_rpos`, `..._wpos` | a position not pulled back |
| | `ImplementsByteQueue` | `write_mut_at_start` | `wpos` set to the length of the argument |
| `iocp` | `TypeOK` | `write_done_mut_drains` | drains a second time on completion |
| | `OneReadUntilModified` | `check_socket_event_mut_reads_twice` | FLAG_WRITE posts a read |
| | `SentOnceUntilPending` | `Drained_mut_whole` | nothing drained after a partial send |
| | `AcceptedPeer` | `ntoh_mut_host_order` | the bytes of a network-order integer taken the other way round |
| | `ReadArmed` | `read_done_mut_in_read` | `is_in_read` stays set |
| | `WriteProgress` | `write_done_mut_in_write` | `is_in_write` stays set |
| | `DroppedIsQuiet` | `unregister_socket_mut_ended_first` | ENDED posted before the close |
| | `UnregisterEnds` | `unregister_socket_mut_no_end` | ENDED not posted |
| | `ImplementsSocketService` | `read_ended_mut_keeps` | the end callback leaves the entry in the map |
| `arc` | `NoUseAfterFree` | `drop_from_mut_early` | the last but one drops the box |
| | `NothingLeaks` | `fetch_sub_some_mut_keeps` | the count is loaded and not lowered |
| | `UsesBeforeFree` | `Release_mut_relaxed` | a relaxed decrement |

## 5. What is proved

`tlapm M.tla` for `TimerProofs`, `EventLoopProofs`, `UnixSocketsProofs`, `EpollProofs`,
`KqueueProofs`, `IocpProofs`, `BufferProofs` and `RawArcProofs`.

**Timer table** (`TimerProofs`, from the assumptions on constants in `Timer`). The
invariant `TableInv` is: the types; an entry is not both queued and held (`Apart`);
`MappedIsQueued`; and, until ids come round, `IdInv`: no entry's id is beyond the
cursor, queued entries have one, no two entries share one, and every queued entry
is mapped at its tick. `MappedIsQueued` alone is not inductive, because `tick_time` and
`del_timer` take an entry out by id: if two entries had the same id, unmapping the
one would strand the other, and with ids that come round it must be shown from
the map's side only. There is one lemma per operation (`InsertKeeps`, `RemoveKeeps`,
`DelKeeps`, ...), which the loop's proof cites. Theorems: `TimerTypeCorrect`,
`TimerMapsLeadToQueue` (for every use of ids and every clock), `TimerQueueIsMapped`,
`TimerIdsUnique`. Two more are about the search for an id. `TimerScanAgrees`: from the
cursors that occur (`CursorInv`) the loop of `calc_new_id`, however often it wraps,
stops at the id `IsNewId` describes; its turns are a function of their number, and the
proof is by induction on it. `TimerHangsOnlyWhenFull`: `CountInv` adds that the tree is
finite, and mapped ids are counted against queued entries. Both need `U32Max > 1`
(`IdAssumption`), which is 2^32 - 1 in the code.

**Event loop** (`EventLoopProofs`). `IInv` adds to `TableInv` the types of the loop, that
it holds one entry exactly while a callback runs, and two conditional parts.
`TimingInv`, if the clock is not set back and `now + tick_step` does not overflow: the
pass's `now` is behind the clock, the firing timer was due at `now`, and what was put
back since the pass began is later than `now`. `DeletionInv`, if ids do not come round
and a callback does not delete its own timer: a deleted id neither waits nor
fires. Theorems: `LoopTypeCorrect`; `LoopNeverEarly` and `LoopOncePerPass` for
`BackStep = 0` and `NoOverflow`; `LoopDeletedStaysSilent` for `~IdReuse` and
`~DeleteFiring`; and `LoopImplementsService` for `~IdReuse` and `BackStep = 0`: every step
of the loop, its tree and its map is a step of `TimerService` or none, with
`issued = 1 .. time_id`, `armed = time_maps`, `firing` the id of the running callback.

**Buffer** (`BufferProofs`, for every alphabet and bound). `IInv`: the types, the read
position inside the vector, and no panic. It holds whatever positions the
program sets, reading positions inside the data. Over it `WriteAtEnd` is inductive,
and every step that leaves no position set by hand is a step of `ByteQueue`. Theorems:
`BufferTypeCorrect`, `BufferNeverPanics`, `BufferWriteAtEnd`, `BufferIsQueue`.

**Unix sockets** (`UnixSocketsProofs`, from the assumptions in `UnixSockets`: no
descriptor is 0, and `NoSock` is no socket). That a selector is a `SocketService` is not
inductive: it depends on how the running callbacks stand to the map, which the code keeps
only by descriptor. `SockInv` says it: the types of the map and the stack (`Shape`); a
descriptor is that of one socket (`OneOwner`); an entry is of an open socket
(`RegisteredIsOpen`); what is in the map has not ended (`RegisteredLives`); a callback
runs for a socket that is in the map under the callback's descriptor, or has ended since
(`FramesKnown`); and a socket an accept callback holds is open, in no entry, and held by
no other callback (`GivenWaits`). There is one lemma for each way a step changes the
sockets, and one for what it is to the service: `ServiceStep` says that a step is one of
`SocketService` or leaves its state alone. It is shown for every program that `OwnOver`,
said of `Permits`: no callback whose socket has ended returns OVER while another is
registered under its number. Then what an OVER finds under the number has not been taken
over: the callback's socket has not ended, and `FramesKnown` says that the entry is its
own. No less will do: `over_reused` (section 6) violates the service with one such OVER.

**epoll** (`EpollProofs`, for every set of sockets and descriptors, every `Permits` and
batch size). `EpollInv` adds `WatchedIsRegistered`, and `EventsKnown`: an event still to
be dispatched is for a socket that is in the map under its descriptor, or has ended since.
A step disturbs no entry but of a socket it ends (`EntriesStay`), so the events stay
known; the new ones are, because the kernel reports only what is watched, what is watched
is registered, and its descriptor has one owner. Theorems, for every program:
`EpollTypeCorrect`, `EpollRegisteredIsOpen`, `EpollWatchedIsRegistered`,
`EpollLiveGetsItsEvent`; for every program that `OwnOver`, `EpollImplementsSocketService`.
The second half is about the flags. `SteadyProgram` is said of `Permits`: no
`modify_socket`, which in this code always ends the watching (`epoll_modify`), and no
socket opened in an end callback (`epoll_reconnect`). `AllAgree` says of every entry that
the kernel watches what its flags ask, that data in the buffer means `is_in_write`, and
that this means FLAG_WRITE. What makes it inductive is `Apart`: only end callbacks run
inside others, the descriptor of a running end callback, which the late `EpollCtlDel` will
take off the list, has no entry, and only accept callbacks hold a socket that was given to
them. Theorems `EpollRegisteredIsWatched` and `EpollPendingIsArmed`, for every
`SteadyProgram`.

**kqueue** (`KqueueProofs`, for every set of sockets and descriptors, and every answer of
the kernel to a list of changes). `SockInv` is inductive whatever `kevent` answers, and
gives `KqueueImplementsSocketService` for every program that `OwnOver`. The rest is about
what `kevent` does: it takes a list of changes up to the first it refuses (`took`), so
what it leaves is shown by induction on the list; `ChangesAre` and `FlushIs` then say what
a method's changes come to behind the reports that go back with them. `KqueueInv` is
`SockInv`, the types, `WatchedIsRegistered`, and `Reports`: while no end callback runs,
every event in `sys_events` is for the socket that has its descriptor in the map
(`SeenAreCurrent`); an open socket is in the map or was given to a running callback
(`OpenIsKnown`); and no event has the descriptor of a given socket (`GivenNotSeen`).
Without the last two a socket could be registered under the descriptor of an event still
in the buffer. Theorems, for every program: `KqueueTypeCorrect`,
`KqueueWatchedIsRegistered`, `KqueueDispatchIsCurrent`. That the kernel watches enough is
`AllWatched`: the filters of an entry are those its flags ask, data in its buffer means
`is_in_write`, and that means EVFILT_WRITE. It is inductive with `Apart` and with
`SeenAreThere`: while no end callback runs, the filters of the reports are there, so that
they change nothing as changes and nothing behind them is refused. Theorems
`KqueueAskedIsWatched` and `KqueuePendingIsArmed`, for every program that `QuietEnds`: one
whose end callbacks neither open a socket nor send. That is no more than is needed:
`kqueue_reconnect` and `kqueue_farewell` (section 6) violate the two properties with one
such call.

**IOCP** (`IocpProofs`, for every set of sockets and numbers, every answer of the kernel
and failing posts too; assuming `~Reuse` and `Prefill = 0`, without which
`DroppedIsQuiet` is false). A socket is in three places: its Event, the kernel's side,
the packets in the port. `IocpInv` is, for each socket, `Good`: the types; an Event that is
ended has nothing in the kernel, and until a send was pending nothing was handed over
twice (`SideOK`); its ENDED packet is its last (`EndedLast`); until `modify_socket` its
reads, posted and completed, are one at most (`OneReadAt`). Then the map leads to
sockets by their own number (`MapOK`); what is not in the map has nothing under way
(`Quiet`); what was never registered is as it came (`Fresh`); and a running callback is
of a socket in the map, or is the end callback of one that ended (`CallOK`).
`DroppedIsQuiet` alone is not inductive: that no packet outlives the Event rests on
where the ENDED packet stands among the others. What the `post_*` functions do is
proved of one socket; `BecomesKeeps` carries it to the state. Theorems:
`IocpTypeCorrect`, `IocpDroppedIsQuiet`, `IocpSentOnce`, `IocpOneRead`,
`IocpImplementsSocketService`. The second half says that what a socket waits for is under
way. The two properties speak of the times when the loop has the thread; `Alive` says what
is true of a socket while one of its callbacks runs, and of `is_in_read` and `is_in_write`,
which stop the next post: believed in, an operation must be with the kernel or in the
port (`ReadLive`, `WriteLive`). The rest of `read_done` and of `write_done` posts
after the callback, so a socket whose read, accept or write callback runs is exempt from
what that rest will post, and no more: a read that `modify_socket` asks for meanwhile is
posted at once, and must be there. A post that fails unregisters the socket or breaks its
connection, and then nothing is promised. No packet of another socket
can take its place, which rests on `IocpInv`. Theorems `IocpWriteProgress`, and
`IocpReadArmed` until the loop is dead: after the panic of `iocp_listener` nothing posts.
The last part is the address an accept callback gets. `PeersHeld` says that until
`modify_socket` puts a second accept next to the first, a packet of an accept that has a
peer finds that peer in its listener's buffer; it rests on `OneReadAt`, by which no accept
is with the kernel while such a packet waits. That the address comes out as it went in is
arithmetic: a number written byte by byte is given back by `from_be` (`TwoBytes`,
`FourBytes`), an octet by its shift (`FourOctets`), a group by its two bytes
(`EightGroups`). `PeersAssumption` says only that a peer is a `SocketAddrV4` or
`SocketAddrV6`; `Byte` may be any number. Theorem `IocpAcceptedPeer`.

**FromRawArc** (`RawArcProofs`, for every set of threads and every finite set of
references, assuming `Credited`). The counter is the number of references
(`CountIsExact`), each with one owner (`OwnedOnce`); a thread inside `fetch_sub` that saw
more than one owns a handle and the count it gives back, so that whatever others do
its subtraction is not the last (`MethodsOwn`); and what a thread did with the data
is published in the counter, or known to the owner of a reference, who will publish it
(`UsesKept`). Theorems: `ArcTypeCorrect`, `SafeToDrop` (`NoUseAfterFree`), `LastOneDrops`
(`NothingLeaks`), `OrderedDrop` (`UsesBeforeFree`).

Induction. The library's induction theorems take the formula as an operator, which
the provers cannot instantiate. `InductionOnNat` has a set in its place (one that has 0
and is closed under successor has every natural) and follows from the
well-foundedness of `<`; a recursive function is shown to exist by it before its
values are.

Only model-checked: liveness (`DueTimerFires`, `ShutdownExits`, `PendingFlushed`,
`UnregisterEnds`), which the prover does not reach under fairness. Every invariant and
every refinement of section 3 that passes is a theorem.

## 6. Where the code and its comments disagree

Runs whose expected result is a violation:

* `kqueue_batch` (`NeverPanics`). `do_select` takes `cnt` and then indexes `sys_events`,
  while any handler that unregisters, registers or sends ends in `flush_changes`,
  which clears it: two sockets that close in one poll are enough for an index out
  of bounds (`kqueue.rs:200`, `272`).
* `iocp_listener` (`NeverPanics`). The ENDED packet of a listener is handled as an
  accept and unwraps a socket that is no longer there (`selector.rs:126`).
* `loop_delete_firing` (`DeletedTimerStops`). `del_timer` of a timer from its own callback
  finds nothing, and the timer is armed again (`event_loop.rs:211` against `:111`).

Configurations kept for use by hand. Each ends in a violation, but for `iocp_two` (the
properties of `iocp` for two sockets that have one number, one after the other), which
passes:

| Configuration | Property | What it shows |
|---|---|---|
| `over_reused` (with `MCEpoll` and with `MCKqueue`) | `ImplementsSocketService` | a read callback unregisters its own socket, opens another, which gets the number, and returns OVER: `read_done` unregisters by number, and the new socket is ended (`epoll.rs:101`, `kqueue.rs:104`; the same after an accept callback, `epoll.rs:76`, `kqueue.rs:79`) |
| `kqueue_farewell` | `PendingIsArmed` | data sent to another socket from an end callback is stranded: the closed socket's report goes to the kernel ahead of the write filter and is refused, and `is_in_write` is already set (`kqueue.rs:395-396`) |
| `kqueue_reconnect`, `epoll_reconnect` | `AskedIsWatched`, `RegisteredIsWatched` | a socket opened in an end callback takes the number that `deregister` or `EpollCtlDel` then removes (`kqueue.rs:374`, `epoll.rs:349`) |
| `epoll_modify` | `RegisteredIsWatched` | `modify_socket` passes the new interest set with `EpollCtlDel`: any modification ends the watching (`epoll.rs:328`) |
| `epoll_stale` | `DispatchIsCurrent` | an event reported for a closed socket reaches the socket that took its number in the same batch (`epoll.rs:194`) |
| `iocp_two_reads` | `OneRead` | `modify_socket` with FLAG_READ posts a second read on the OVERLAPPED and cache of the first (`selector.rs:312`, `322`) |
| `iocp_resend` | `NothingSentTwice` | a pending WSASend neither drains nor marks the buffer, and the next send hands the same bytes over (`selector.rs:369`) |
| `iocp_reuse` | `DroppedIsQuiet` | a closed socket's number comes back before its ENDED packet is handled: `register_socket` drops the old Event, and the packet still points at it (`selector.rs:411`) |
| `iocp_lost` | `UnregisterEnds` | the ENDED packet cannot be posted after the socket was closed: the Event stays, its end callback never comes (`selector.rs:480`) |
| `iocp_prefilled` | `DroppedIsQuiet` | a socket registered with data to send: the read is posted, the send fails, and the Event is dropped under the read (`selector.rs:417`) |
| `iocp_infinite` | `SelectTimesOut` | a timeout of `u32::MAX` ms or more becomes INFINITE: the wait ends only with a packet, and timers starve (`win/mod.rs:48`, reached from `iocp.rs:96-98`) |
| `arc_uncredited` | `NoUseAfterFree` | `fetch_sub` with no count to give back: the handle is left with a count of 0, or the load and the subtraction of two threads cross (`from_raw_arc.rs:65`) |
| `arc_alias` | `ExclusiveUse` | two handles of one box are mutably dereferenced at once (`from_raw_arc.rs:97`) |
| `loop_one_shot` | `NonRepeatingIsDeleted` | a timer that is not repeating but returns CONTINUE is armed again (`event_loop.rs:202`) |
| `loop_zero_step` | `ZeroStepIsRefused` | `add_first_timer` does not refuse a step of 0 (`event_loop.rs:112`) |
| `loop_sleep` | `SleepsOnlyWhenIdle` | the loop sleeps after a turn that fired timers only, and does not after one that did nothing (`event_loop.rs:83`) |
| `loop_id_conflict` | `NewIdIsUnallocated` | once ids come round, a new one can be that of the timer whose callback runs (`timer.rs:108`) |
| `loop_shutdown_past` | `ShutdownExits` | callbacks that keep adding timers already due keep the pass from ending (`event_loop.rs:67`, `206`) |

## 7. What is not modelled, and why

* `epoll.rs` of this commit imports names that `lib.rs` has commented out (`epoll.rs:4`),
  so that it does not build as it stands; the model follows its text. On unix nothing
  calls the write callback of an entry.
* `Selector::select` of both unix selectors, which returns events to its caller and
  keeps no state; `Drop` of the selectors; EPOLLERR and EPOLLHUP alone.
* Closing a socket through its EventBuffer behind the selector's back, and calling
  `run` from inside a callback.
* WSASend failing otherwise than for a broken connection; GetQueuedCompletionStatusEx
  failing otherwise than by its timeout, which leaves `run_once` as any selector's error
  does (`select_fails` in `EventLoop`).
* What nothing in the crate calls, or what is a plain wrapper: UDP, `connect_overlapped`,
  `result`, reading and writing through `Handle`, `get`, `post`, conversions to and from
  raw handles (`net.rs`, `iocp.rs`, `handle.rs`), `overlapped.rs`. What the kernel's
  answers become on the way to the selector is in `WinIo`.
* Contents of messages, and the data a program hangs on an entry.

## 8. Plan

Done: the timer table, the loop, the service it implements and their theorems; the buffer
and its theorems; the three selectors, the service all of them implement (on unix, for
every program that `OwnOver`); for each also the theorems about flags, events or packets,
and what the kernel holds; the Windows layer under the IOCP selector; the reference count
and its theorems.

The loop and a selector are not composed in one module, because they share no state:
what a timer callback asks of a selector is its call from outside, what a socket
callback asks of the timers is done while `EventLoop` is at `sockets`, and a selector's
error is `select_fails`.

Left: **the selectors with `Buffer`** in place of the two counters of a write buffer,
under the program's own calls on the EventBuffer.
