# A verification of libmanu

libmanu is a small C/C++ library for media pipelines on Linux: buffer lists that carry
frames between threads, a tee, thread and lock wrappers, v4l2 capture, an RTP parser and
paced sender, file dumps, TCP, and some algorithms.  This directory models its core in
TLA+, checks the models with TLC on small instances, and proves theorems about them with
TLAPS for instances of every size.  Paths below are relative to `src/`.

- [What the library consists of](#the-system)
- [The modules and how they correspond to the code](#the-modules)
- [The runs, their bounds, the fairness](#the-runs)
- [What the runs refuted](#findings)
- [What is proved](#proofs)
- [What is not modelled](#what-is-left-out), [what could follow](#plan)

## The system

About 6000 lines are the library's own; `gtest/` (87000 lines) is vendored.

| Part | Keeps | Operations | What is hard, and what correct means |
|---|---|---|---|
| **buffer list** `buffer1/BufferList`, `Buffer` | a free and a used FIFO, a mutex and a condition for each; the parked array, its size and owner | two `Init`s, `GetFree/GetUsed(waitUS)`, `PutFree/PutUsed`, `Clean`, destructor | any thread calls; waits with and without time-out; the destructor drains one side, frees memory and waits for the other. A buffer is in one place; nobody sleeps beside one; nothing freed is used; the destructor ends |
| **tee** `buffer1/TeeInList`, `TeeOutList`, `TeeBuffer`, `VideoBuffer` | the input's FIFOs, linger list, clone counts, mask of active outputs, stop flag; two FIFOs per output | tee thread; `getTeeOutput`, `putTeeOutput`, `TeeOutList::PutFree`; `Init`, `Clean` | two lists share one mutex; flags are read without it; counts are set after the clones are out. A source stays while a clone of it is used, then goes back; the stop protocol of `buffer1/README` ends |
| **contiguous buffer** `cntBuffer/` | bytes, two offsets, two counters, a lock | `addData`, `getData(callback)`, `getAvailable` | unsigned arithmetic that wraps on purpose; a test outside the lock; a callback inside it; an overlapping `memcpy`. It is a FIFO of bytes |
| older list `buffer/` | two lists with locks | the same, polling | as above without waits |
| timed list `TimedBufferListLinux` | two lists, sizes, conditions | gets with time-out, drop policy | time-out against put; its parent class is not in the repository |
| threads `BaseThread.h`, `OSLinux`, `BaseLock.h`, `libcommon.h` | `m_toStop`, the thread, an init lock | `Start`, `Stop`, `Destroy`, `ThreadEntry`; `RateCtrl`, bit helpers | who may delete the init lock when; restart; stop before the thread runs |
| capture `v4l2/` | device state, a queue of filled buffers | capture thread, `streaming`, `getBuffer`, `putBuffer` | join against the init lock; a signal without the mutex; buffers are with the device, the queue or the user |
| RTP `rtp`, `rtpStreamTask` | two packet buffers, offsets, the first packet's attributes; the packet that waits, its media time | `getPacket`, `switchBuffer`; the sender's loop, its owner | packets that lie across reads and buffers; time stamps that wrap; a loop that ends without `m_toStop`. Packets go out whole, in order, paced by their time stamps; the thread does not outlive what it uses |
| files `FileStream`, `FileDump` | descriptor, chunk sizes, header | open, read, write, close | header only at close; pieces; failures; old bytes under a new dump. A reader gets the chunks written, in order, or word that it cannot |
| TCP `BaseTCP.hpp`, `LinuxTCP`, `app/` | descriptor, options | connect, read and write with retries | options applied in part; retry loops |
| B-tree `BTree.cpp` | nodes | search, insert, delete | split, borrow and merge keep order and fill |
| helpers `TimeSec.hpp`, `interpolation/` | - | pure functions | carries and boundaries |
| audio, y4m, samples, tests | - | - | no core logic |

How they interact: an upstream thread takes a buffer from a list's free side, fills it and
puts it on the used side; a downstream thread takes it there and returns it to the free
side.  The tee's input is such a list, whose downstream is the tee's own thread; each
output is another list, whose upstream is the tee thread.  A clone that comes back is put
in the output's free side under the **input's used mutex**, and wakes the tee thread on the
input's used condition.  Teardown runs along `buffer1/README`: stop threads from upstream
to downstream, clean from downstream to upstream, then delete the lists.  Capture, RTP and
file tasks are threads of `OSLinux` that fill or empty such lists.

`PROJECT.json` lists under "hazards" each place where this is hard to test, and the
properties that watch it.

## The modules

| Module | What it is |
|---|---|
| `BufferPool` | abstract: what a list promises. Every buffer is in one place and moves hand to hand; memory is released, and the list closed, only with all buffers home |
| `BufferList` | the list, call by call; implements `BufferPool` |
| `TeeList` | the tee, its users and its teardown; its input side implements `BufferPool` |
| `ByteFifo` | abstract: a bounded FIFO of bytes, filled by whole chunks |
| `CntBuffer` | the contiguous buffer; implements `ByteFifo` |
| `V4l2Capture` | the v4l2 capture class with its thread, its user and the driver; implements `BufferPool` |
| `KeySet` | abstract: a set of keys whose calls tell whether they succeeded |
| `BTree` | the B-tree, one step per node visited or rebuilt; implements `KeySet` |
| `RtpParser` | the RTP parser with its two buffers, call by call |
| `RtpSender` | the paced sender's thread, which owns an `RtpParser` (EXTENDS), its clock and its owner |
| `ChunkLog` | abstract: a log of chunks that a reader follows, and may give up |
| `FileDump` | the dump file, system call by system call, its writer and its reader; implements `ChunkLog` |
| `ClockArithmetic` | pure functions: due times, the time since a reset, seconds since a query |
| `MCBufferList`, `MCTeeList`, `MCCntBuffer`, `MCV4l2Capture`, `MCBTree`, `MCRtpSender`, `MCFileDump` | instances for TLC |
| `BufferListProofs`, `TeeListProofs`, `CntBufferProofs`, `V4l2CaptureProofs`, `BTreeProofs`, `RtpProofs`, `FileDumpProofs` | the theorems |

Operators that end in `_Something` (`Pop_Keep`, `Awake_Signal`, ...) are mutants: the
definition below them with a plausible bug.  For each property of a passing run a mutant
is listed that makes TLC find it violated, so that no property holds vacuously.

### BufferList

*Grain.*  One critical section is one action.  No section takes a second mutex, and nothing
outside a section touches what its mutex protects, so finer steps show nothing new.  A wait
splits a section: the thread is `blocked` (in the condition's wait set), leaves it by a
broadcast or a spurious wakeup (`woken`) or by its time-out (`late`), and goes on in a later
step, when others may have been faster.

| Code | Model |
|---|---|
| `m_freeList`, `m_usedList` | `queue["free"]`, `queue["used"]` |
| caller's buffers in hand | `hold[t]` |
| `m_buffers`, `m_count`, `m_usrAlloc`; `tmpBuf` and `usedBuf` of `Clean` | `buffers`, `count`, `usrAlloc`; `tmpBuf`, `todo` |
| `GetFree(waitUS)`, `GetUsed(waitUS)` | `GetFree`/`GetUsed` (found at once), `WaitFree`/`WaitUsed`, then `Wake`, or `Expire` and `GiveUp`; `Spurious` |
| `PutFree`, `PutUsed` | `PutFree`, `PutUsed`: push and broadcast (`Awake`) |
| `preInitBuffer`, `Init(Buffer **)`, `Init(count, size)` | `PreInit` in `InitUser`, `InitOwn`; `moveToFreeList` is `Park`, one `PutFree` a step |
| `Init` of an empty array, which calls `Clean` | `InitEmpty` |
| `~BufferList`, `Clean` | `Destroy`, `Drain`/`Refree` (a buffer at a time), `Reap` (delete), `Await` (the wait) |

What callers may do is taken from the header and `buffer1/README`: a list is used with
parked buffers or without, not both; the destructor runs when no thread is in a call, except
that holders still give buffers back.  Two constants relax this on purpose: `EmptyReInit`
(a second `Init` with an empty array) and `LateSelfAlloc` (deletion with the list's own
buffers outside).  A call that finds nothing and does not wait changes nothing: a stutter.

### TeeList

`threadRun` is modelled line by line, because what matters is what happens between its
lines: `TeeCheck` (the flag, without the mutex), `TeeClean` (`cleanOutFree`), `TeeArg` (the
mask, without the mutex), `TeePop` (`popLinger`), `TeeGet`/`TeeWake`/`TeeSpurious`
(`GetUsed(-1)`), `TeeGot`, `TeeClone` (one output per step, with the used mutex held: no
other section of that mutex may run, `UsedMutexFree`), `TeeSettle`.  The upstream thread is
`Up*`, an output's thread `Down*` with `GetTeeOutput` and `PutTeeOutput`, and the teardown
`CleanStop`, `CleanBroadcast`, `CleanJoin`, `BaseClean`.  The broadcast and the join are
steps of their own, as in the code.

A clone is a pair of its source and the number of the frame it was made of: a clone shares
its source's memory, and `frame[b]` is what that memory shows now, 0 while it is written.

The model starts where `Init(VideoBuffer **)` has succeeded.  `AnyRelease` allows an
application to release its last output while frames still flow, which `TeeInList.h` does not
forbid; without it the last release happens when the upstream has stopped.

### CntBuffer

`addData` holds `m_lock` from its first test to its return and is one action in three
cases: `AddAtEnd`, `AddAtFront` (with the move), `Refuse`.  `getData` is three: the test of
`m_dataAvailable` without the lock (`GetData`), the second look under it (`Callback`), and
the callback's answer (`Processed`), any amount up to what it was given.  `Wrap` is one
unsigned addition or subtraction, modulo `Word` (2^32); line 58's `sz` may be negative and
so nearly `Word`.  `Moved` is the `memcpy` of line 55, whose areas overlap: C leaves open in
which order it copies, and `CopyBackward` chooses.  The run, and the theorem `BufferIsFifo`, are for
a `memcpy` that copies forwards, as `memmove` would here; with `CopyBackward = TRUE` in
`CntBuffer.cfg` TLC refutes `ImplementsFifo`: unprocessed bytes are overwritten before they
are moved.

### V4l2Capture

`V4l2MMap` is a `V4l2Base` and a `LinuxThread`.  The model has the application (`apc`), the
capture thread (`cpc`), one user (`upc`; `V4l2Base.h` is "designed for SINGLE THREADING")
and the driver, which is external and known by its ioctls: it takes a buffer at
`VIDIOC_QBUF`, streaming or not, fills them in order while it streams, gives them back in
order, and lets go of all of them at `VIDIOC_STREAMOFF`.

| Code | Model |
|---|---|
| `V4l2MMap::initV4l2`, with `LinuxThread::Start` | `InitV4l2` |
| `streaming(true)`: flag, one `VIDIOC_QBUF` per buffer, `VIDIOC_STREAMON`, each of which may fail | `StreamOn`, `QueueNext`, `Streamed` |
| `streaming(false)`: flag, `VIDIOC_STREAMOFF`, `Destroy` (`Stop`, join) | `StreamOff`, `Streamoff`, `Destroy`, `Join`; destructor `Delete` |
| `BaseThread::ThreadEntry` with the init lock | `Entry`, `Entered`, `Test` |
| `ThreadMain` | `Loop`, `Dequeue`, `DequeueFails`, `Push`, `Last` |
| `getBuffer(offList)` | `GetBuffer` (`m_streaming`, without the mutex), `Look`, `Wait`, `Spurious`, `Woken` |
| `putBuffer` | `PutBuffer` (`m_streaming`), `Qbuf` |

The mutex is free between steps except from `Look` to `Wait`: the capture thread's last
signal is sent without it, so that this gap is visible.  `m_streaming` and `m_toStop` are read
without a lock, each in a step of its own.  `initV4l2` hands its arguments on one place too
far to the left (`V4l2MMap.cpp:53`), so that a buffer count is taken for `queryOnly`: with any
other, no buffer is allocated and `streaming(true)` reads a NULL array.  The
model starts from `bufCount = 0`, the only one that allocates buffers (two).  `VIDIOC_QBUF`
may fail in `putBuffer`, and the user keeps its buffer; `VIDIOC_DQBUF` may fail at any time
(`Dequeue` with the device off, `DequeueFails`), and the thread tries again.

### BTree

A node's element 0, which has a subtree and no key, is `zero[n]`; the others are `elems[n]`
with the code's indices, so `m_count` is `Len(elems[n]) + 1`.  Payloads go where their keys
go and are left out.  One step is a node visited by `search` or one call that rebuilds
nodes, so that the tree is also seen between the splits of one insertion and between the
merges of one deletion.

| Code | Actions |
|---|---|
| `main`: insert all, delete all, in any order | `Scripted`, then `Call` at will |
| `search`, and its result in `tree_insert`, `delete_element` | `Descend`, `Miss`, `HitKey` |
| `vector_insert`, `split_insert` | `VectorInsert`, `SplitInsert` (once per level), `NewRoot` |
| `delete_element` at a leaf; above | `DeleteFromLeaf`; `DeleteFromInner`, which goes on below |
| its repair loop | `RepairRoot`, `RotateFromRight`, `RotateFromLeft`, `MergeRight`, `MergeLeft` |

`PutAll` keeps what the merges do not test: an element for which `vector_insert` finds no
room is lost.  That this never happens is part of `ImplementsKeySet`.  Where the loop would
throw, or spin because there is no sibling, no action is possible; `RepairGoesOn` says that this is
never so.  Where no address is left for a new node, `new` throws, nobody catches it, and no step
is possible either.  The tracker's `mp_root` stands for `find_root()` too, which `Balanced` justifies.
In `ImplementsKeySet` the element on its way up counts as a key of the tree; an insertion has its
effect when its search has ended, a deletion when the key leaves its place, although its successor
may then be there twice until the search for the second one has ended.

### RtpParser and RtpSender

The parser finds packets in a byte stream that does not tell where they begin: a packet ends
where the next header of the same source is.  A byte is a *cell*, which knows its packet, its
place in it and the packet's time stamp; the first cell of a header stands for version,
sequence number and time stamp, the last for the source.  Any cell may have the version of a
header.  Payload that looks like a header of its own source is
left out, and so are the sequence numbers, which are logged only.

`parseHeader` takes its bits with the `getBit` that `libcommon.h:30-36` declares, and the model takes
that one at its word (`IsVersion`).  Its body is not in the repository: the `getBit` of `OSLinux.cpp:143` is
another overload, which does not read its data and returns ones, and with which no version would ever
be 2.  `parseHeader` also reads the time stamp and the source through `unsigned long *`, that is eight bytes where
`long` has 64 bits, of which `ntohl` then takes the first four on a little-endian machine; the reads
past the header are of bytes nothing depends on, and are left out.

| Code | Model |
|---|---|
| `m_buffer`, `m_curBuf`, `m_bufSize`, `m_EOF`, the offsets | `buffer`, `curBuf`, `bufSize`, `eof`, `readOffset`, `writeOffset`, `curPkt` |
| `FileStream::read`, with its -1 for a read of no bytes | `ReadResults` |
| `produceData` | `ProduceData`, part of each step that reads |
| `getPacket`: called; `get1stPacket`; a header is found; none is left | `GetPacket`; `First`; `Match`; `SwitchBuffer` |
| `ThreadMain` | `Top`, `Parsing`, `Got`, `Pace`, `SendTo` |
| owner: `Start`, `while( isRunning() )`, or not; `delete` | `Start`, `Watched` or `Leave`; `Stop`, `Join`, `Close` |

New memory is what it happens to be: `Memory` gives the buffers no header, or one that an
earlier parser left.  The first search looks for the second packet one place less far
(`rtp.cpp:210`) than the searches after it (line 265), and in the whole buffer, filled or not; both
are kept.

The search for the first header (`First`) tests the version only (`rtp.cpp:186`), and where it ends tells
the source (`ssrc`) for all later ones.  So a byte in front of the first packet whose upper bits are 10, one
in four, is taken for a header, and the parser looks for a source that is made of other bytes: as a rule it finds
none, and nothing is sent; or it takes payload for packets.  `rtp.h:95-98` says that the search may
fail there.  Such streams are in the run, and types, teardown and the owner's return are checked
on them.  What is sent is promised for streams that *start clean* (`StartsClean`: no cell in front of the
first packet has the version), among them those with bytes in front that do not pass.

`dTS` is "the diff of timestamp to previous packet" (`rtp.h:133`, `rtp.cpp:242`), but line 271 subtracts
the time stamp of the packet that is *returned* from that of the header that ends it, which is the next packet,
and the first packet gets 0.  `MediaTime[n]` is what the header file promises, the sum of the
differences up to packet `n`; what the thread adds up lacks the first of them, and has each of the others one packet too early.  With
time stamps 0, 100, 101 the second packet goes out at 1 and not at 100.  `EarlyByFirstGap` says how
far this goes: never further than the first difference.

### FileDump

A cell of the file is one number of the header or one piece of a chunk.  `::write` takes any
number of pieces of what it is given or fails, and the writer's process may die before any
system call (`Crash`).  `Write`, `WriteFails` and `Finished` are `FileStream::write` for its
four callers: `writeData` (`WriteData`, then `Entered`) and the three parts of the header in
`close` (`Close`).  The reader is `OpenRead`, `ReadData` and `ReadFails`, behind the writer's
end.

Three constants say which failures the run leaves out, because the code does not survive them
(each was set to `TRUE` in `FileDump.cfg`, and TLC refuted what is named):

- `CrashOverOld`: the writer dies although the file was there before.  The file was opened
  without `O_TRUNC` (`FileStream.cpp:40`), so that the old table is found beside new data:
  `ImplementsChunkLog`.
- `HalfDone`: a write fails after a part of a chunk, or in the header.  The part stays in the
  file and shifts all chunks behind it (`FileDump.cpp:34`): `ImplementsChunkLog`.
- `ReadsOn`: the reader goes on after `::read` failed.  The table's entry is passed by and the
  place in the file is not (`FileDump.cpp:51`): `ImplementsChunkLog`.

### ClockArithmetic

`calDueTime`, `RateCtrl::sizeSoFar`'s time, and `TimeSec`, as functions of the clock's values, with
the widths of their integers.  They have no state, and what matters about them is a matter of
numbers as large as clocks have: there is no run, the theorems speak of all values.  The signed
product of `OSLinux.h:88` is a `long`: the model, and `TimeSoFar`, are for one of 64 bits, and for times since
a reset (292000 years) with which it does not overflow.  One of 32 bits would overflow after 35 minutes.

## The runs

Deadlock checking is off where the system may stop (a destroyed list, threads that
all wait by choice, a capture object that is gone), and on for `CntBuffer`.

| Run | Instance | Shows |
|---|---|---|
| `buffer_list` | application + 2 clients, 2 caller's and 2 own buffers, arrays of 1 and 2, spurious wakeups; 86225 states | types, one place, no lost wakeup, no use after free, the destructor ends, the list is a `BufferPool` |
| `tee_safety` | 2 buffers, 2 outputs, 3 frames; 706167 states | clone counts exact, pictures kept, no lost wakeup on a queue, no clone outlives its output, the input side is a `BufferPool` |
| `tee_live` | 2 buffers, 1 output, 3 frames | every frame is taken up; a return, or a stop, that the tee thread sees is acted on |
| `tee_stop` | 1 buffer, 1 output, 1 frame | refutes `StopJoins` |
| `tee_release` | 1 buffer, 1 output, 3 frames, `AnyRelease` | refutes `PictureKept` |
| `cnt_buffer` | 4 bytes of 2 values, every chunk of 0 to 5 bytes, work space 2, 2 threads, `Word` 16; 4864 states | counters, the callback's data, its window, and the byte FIFO |
| `capture` | 2 buffers, with and without init lock and blocking user; 3213 states | no buffer of the driver's is anywhere else, no lost wakeup, `BufferPool`, the join ends if the stream was started, a sleeping user is woken by the thread's end |
| `capture_user` | same | refutes `UserReleased` |
| `b_tree` | 20 keys, nodes of 6 slots, 12 scripts, then 2 calls of any kind; 42491 states | order, balance and fill, no link to a deleted node, the repair loop never throws, and a set of keys |
| `rtp` | 90 streams of 0 to 4 packets of 2 to 7 cells behind no cell, one that passes for a header, or one that does not; buffers of 8, headers of 2, time stamps below 4, clean and used memory; 94550 states | the parser's offsets stay in its buffers; where the stream starts clean, packets are sent whole, in order, early by the first gap at most, and none is missed; the thread ends first, and a waiting owner comes back |
| `rtp_tail` | same | refutes `NothingAfterEnd` |
| `dump` | a table of 3 entries, chunks of 1 or 2 pieces, no file or one of three older dumps; 3584 states | the table and the places in the file, every chunk found after `close`, and `ChunkLog` |

*The bounds and why they are enough.*  Two clients are the fewest that can race for one
buffer, with the application making a third party in `Init` and in the destructor; two
buffers are the fewest with which a FIFO has an order and `Clean`'s drain can be interrupted
between buffers.  Own and caller's buffers are different objects because the one are freed
and the other not.  In the tee two outputs are needed for clones of one source to come back
in different order and for one output to come while the other goes; two buffers for a
linger list whose head blocks its second; `MaxFrames` = 3, the only bound that is not the
size of a set, makes a buffer be used again, so that a stale count or a clone of an older
frame can meet it.  The refuting runs use the smallest instance that shows the behaviour.
In the byte buffer four bytes and chunks of up to five reach: data at the end and moved,
overlapping and disjoint moves, a `sz` below, at and above zero, exactly full, refused, and
chunks of length zero and longer than the buffer; `Word` = 16 is the width at which a wrong
wrap still shows and no right sum overflows.

Six slots are the fewest the constructor of a B-tree node makes; the class as built has
nine, with the same formulas.  Twenty keys then give three levels, so that inner nodes, too,
are split, lend, borrow and merge on both sides, and the root is replaced both ways.  Three
orders of insertion and three of deletion (`MCBTree`) fill and empty the tree from either
end and from both; two free calls after each try every key.

In the capture class two buffers are what `initV4l2` allocates.

For the parser, headers of two cells are the fewest with a front and an end, so that a read can
end inside one; in buffers of eight, packets of two and three end with a buffer or lie across
its end, one of six fills it with the next header, and one of seven does not fit.  Four packets
take the search into the other buffer and back.  Two vectors of time stamps stand still, jump and wrap: the
first difference is smaller than the later ones in the one and larger in the other.  `MaxTime` bounds
the clock behind the media time of every stream of `MCRtpSender`.

In the dump three entries leave room for a chunk before and one behind the one that fails, and
for an entry that is not used; the older files are smaller, larger with the same count of
chunks, and larger with another.

*Fairness.*  Weak fairness throughout, and only of what a running thread does by itself.
`BufferList`: a thread that is out of its wait, or whose time-out is due, goes on;
the application goes on inside `Init` and the destructor; and once the destructor runs,
a holder gives its buffers back, which the README's protocol asks of it.  `TeeList`: the tee
thread runs; an output's thread returns clones it holds and finishes a drain it began; a
teardown that began goes on.  Nobody has to start a call, send, get, or release.  Mutexes
are held for finitely many steps, and no property depends on who gets one, so weak
fairness is what a pthread mutex without a fairness guarantee provides here.  `V4l2Capture`: the
capture thread runs where neither lock nor ioctl holds it (a failing `VIDIOC_DQBUF`, `DequeueFails`, may happen
but need not), the application goes on inside
`streaming(false)`, the user inside its calls; the driver need not fill anything.
`RtpSender`: the thread runs (its sleep is
finite), the clock goes on, and the owner starts its thread, looks at `isRunning()` again, and
goes on in the destructor; it need not leave early.
`CntBuffer` has no liveness property: it waits for nothing but its lock.  Nor has `BTree`, which
is sequential: a call descends, or climbs, a tree that `Balanced` keeps finite, and
`RepairGoesOn` excludes its getting stuck.  Nor has `FileDump`, whose process may die.

*Properties beside each other.*  `ReturnsIfSeen` and `StopsIfSeen` exclude the tee thread's
`Window`, the steps between its look and its sleep: what happens in them the thread may
miss, a clone that comes back as well as a stop.  `StopsIfSeen` is the part of `StopJoins` that holds.  Likewise `ReleasedIfAsleep` is the part of
`UserReleased` that holds: the user sleeps while the thread has its last signal still to send.
`JoinsIfStarted` speaks of an object whose `streaming(true)` has succeeded: where it has not,
the application still holds the init lock, and `streaming(false)`, or the destructor, joins
a thread that waits for it (`V4l2MMap.cpp:78`).  The usage text of `V4l2MMap.h:17-27` has `streaming(on)`
before `streaming(off)` and the destructor, and does not say what becomes of one that is left out or fails; this is
a condition of the property, and no run of its own.  `PictureKept` holds in `tee_safety`, where outputs are
released as `buffer1/README` describes, and fails in `tee_release`.  `InOrder` leaves out the last packet, which no header
ends: it is never returned (the bytes behind the last header are only counted, `rtp.cpp:280`), unless
the parser meets a stale header behind it, which is `NothingAfterEnd`.
`Complete` leaves out packets that fill the buffer so that no header fits behind them: the read
of no bytes that follows is taken for the end of the stream.  `OwnerReturns` leaves out a `sendto`
that failed: the loop ends without `m_toStop` (`rtpStreamTask.cpp:74`), and an owner that polls
`isRunning()` polls on.

## Findings

1. `StopJoins`: a stop between the look at `m_stopThread` (line 83) and the wait (line 86) is
   lost, and `pthread_join` does not return (`TeeInList.cpp:195`).
2. `PictureKept` with `AnyRelease`: `putTeeOutput` clears the mask bit first and collects the
   clones afterwards.  If it was the last bit, the tee thread returns all sources at once;
   the late clones are then subtracted from the next frame's count, and a source is
   overwritten under a clone in use (`TeeInList.cpp:85`, `:244`, `:253`, `:53`).
3. `UserReleased`: the capture thread's last signal, "make sure no block of user"
   (`V4l2MMap.cpp:46`), is sent without the mutex.  Between a user's look at the list and its
   wait it is lost, and the user does not come back.
4. `NothingAfterEnd`: the read that reaches the end of the file is short, but not EOS, and so does
   not shrink `m_bufSize` (`rtp.cpp:304`; `rtp.h:78`).  The parser searches the buffer up to its
   end, finds headers that an earlier read left there, and the sender sends those packets again.

Read from the code, and not made runs of their own:

- A get that "waits forever" waits once: `PutFree` broadcasts, all waiters leave, and the
  slower ones return NULL (`BufferList.cpp:159`; `BufferList.h:116`).  In the model `Wake`
  returns with what it finds.
- `m_usrAlloc` is never set back to true.  `Init(count, size)`, an `Init` of an empty array
  (whose `Clean` undoes the first), `Init(bufs)`, destructor: the caller's buffers are deleted
  (`BufferList.cpp:79`, `:115`; `BufferList.h:104`).  `EmptyReInit` admits such calls.
- A last clone that comes back between the tee thread's look at the outputs and its sleep is
  not noticed before the next frame (`TeeInList.cpp:84`, `:86`; `TeeOutList.cpp:85`);
  `TeeInList_utest.cc:154` expects the source back.
- `calDueTime` gives `pthread_cond_timedwait` a time with 10^9 nanoseconds or more for a wait that
  ends on a whole second or reaches into the second after the next
  (`BufferList.cpp:142`): `ClockArithmetic!DueTime`.
- `dTS` is not the difference "to previous packet" (`rtp.h:133`, `rtp.cpp:242`) but that to the next one, and
  0 for the first packet (`rtp.cpp:254`, `:271`): packets go out early, by up to the time between the first
  two.  `EarlyByFirstGap` bounds it; that nothing goes out before `MediaTime` fails for the second packet where
  the second difference is less than the first.
- A byte in front of the first packet that has the two version bits is taken for its header (`rtp.cpp:186`), and the packets
  behind it are not found.
- "destruct ... WAITING for free buffers" (`TeeInList.h:28`): `TeeInList::Clean` sets `m_buffers` to NULL
  (line 185), so that `BufferList::Clean`, which waits only where it is not (line 114), does not wait; an
  upstream that still holds a buffer finds the list gone.  In the model the upstream has stopped by then, as
  `buffer1/README` asks.
- "Previous file content is lost" (`FileDump.h:7`) is true of what the table reaches, not of the
  file, which is not truncated.

## Proofs

For all values of the constants that satisfy the modules' assumptions
(`BufferListAssumption`: arrays are not empty and name a buffer once, caller's and own
buffers differ, the application is a thread; `TeeListAssumption`; `CntBufferAssumption`: no sum of two sizes
reaches `Word`; `V4l2CaptureAssumption`: the array is not empty and names a buffer once; `BTreeAssumption`: keys are
integers, there is an address, and a node has six to nine slots, which is what its constructor makes; `RtpParserAssumption`: a buffer has room for a header,
and the streams and memories are made of cells; `RtpSenderAssumption`: the numbers are numbers;
`PacketStreams`: a stream is what a source has recorded, cells of no packet and then packets 1, 2 and
so on, each with its whole header, of one source, and no payload that looks like a header of that source, which
is what the parser is made for;
`FileDumpAssumption`: there is a chunk, of one byte at least, and a file is a sequence of numbers).

| Theorem | States |
|---|---|
| `BufferListProofs!TypeCorrect` | `Spec => []TypeOK` |
| `BufferListProofs!PlacesAndWaits` | `Spec => [](TypeOK /\ OnePlace /\ ClientsWait)`, with every use of the list allowed |
| `BufferListProofs!WakeupsKept` | `~EmptyReInit => (Spec => []NoLostWakeup)` |
| `BufferListProofs!FreedNotUsed` | `~EmptyReInit /\ ~LateSelfAlloc => (Spec => []NoUseAfterFree)` |
| `BufferListProofs!ListIsPool` | `~EmptyReInit /\ ~LateSelfAlloc => (Spec => ImplementsPool)` |
| `CntBufferProofs!BufferInOrder` | `Spec => [](TypeOK /\ Layout /\ CallbackHasData)` |
| `CntBufferProofs!TypeCorrect`, `DataForCallback` | `Spec => []TypeOK`, `Spec => []CallbackHasData` |
| `CntBufferProofs!WindowIsStable` | `Spec => WindowStable` |
| `CntBufferProofs!BufferIsFifo` | `~CopyBackward => (Spec => ImplementsFifo)` |
| `V4l2CaptureProofs!BuffersApart` | `Spec => [](TypeOK /\ OneOwner)`, for any number of buffers |
| `V4l2CaptureProofs!TypeCorrect` | `Spec => []TypeOK` |
| `V4l2CaptureProofs!NoSleepBesideBuffer` | `Spec => []NoLostWakeup` |
| `V4l2CaptureProofs!CaptureIsPool` | `Spec => ImplementsPool` |
| `TeeListProofs!TypeCorrect` | `Spec => []TypeOK`, for any use of the outputs (`AnyRelease`) |
| `TeeListProofs!NoSleepBesideBuffer` | `Spec => []NoLostWakeup` |
| `TeeListProofs!ClonesCollected` | `Spec => []NoCloneLeft` |
| `TeeListProofs!TeeIsPool` | `Spec => ImplementsPool`, for any use of the outputs (`AnyRelease`) |
| `TeeListProofs!CountsExact` | `~AnyRelease => (Spec => []CountExact)` |
| `TeeListProofs!PicturesKept` | `~AnyRelease => (Spec => []PictureKept)` |
| `BTreeProofs!TypeCorrect` | `Spec => []TypeOK`: among others, no pointer dangles |
| `BTreeProofs!StaysOrdered` | `Spec => []Ordered` |
| `BTreeProofs!StaysBalanced` | `Spec => []Balanced` |
| `BTreeProofs!LoopGoesOn` | `Spec => []RepairGoesOn` |
| `BTreeProofs!Implements` | `Spec => ImplementsKeySet` |
| `RtpProofs!ParserInBuffer` | `ParserSpec => []InBuffer`, for any caller that stops at NULL |
| `RtpProofs!TypeCorrect` | `Spec => []TypeOK` |
| `RtpProofs!OwnerOutlivesThread` | `Spec => []ThreadOutlived` |
| `RtpProofs!SendsInOrder`, `SendsAll` | `Spec => []InOrder`, `Spec => []Complete`, both of streams that start clean |
| `RtpProofs!SendsPaced` | `Spec => EarlyByFirstGap`: the pace is right but for the first difference |
| `FileDumpProofs!TypeCorrect` | `Spec => []TypeOK`, whatever the file held and whichever call fails |
| `FileDumpProofs!AllFound` | `~ReadsOn => (Spec => []Complete)` |
| `FileDumpProofs!DumpIsLog` | `~CrashOverOld /\ ~HalfDone /\ ~ReadsOn => (Spec => ImplementsChunkLog)` |
| `ClockArithmetic!DueTime`, `ShortWait` | the due time is exact, and where it is valid |
| `ClockArithmetic!TimeSoFar` | the time since a reset is exact through the unsigned difference, with a `long` of 64 bits |
| `ClockArithmetic!QueryTimes`, `ShownTime` | `TimeSec`'s differences across the wrap, and how they are shown |

*BufferList.*  `OnePlace` is not inductive: `Park` puts `Head(todo)` in the free side, and
nothing in `OnePlace` says that this buffer is still in the application's hands and comes
once in `todo`, while clients already take and return its neighbours.  `TodoHeld` says it.
With it, `PlaceInv == TypeOK /\ OnePlace /\ TodoHeld /\ ClientsWait` is inductive.  The
argument rests on three lemmas on the critical sections - `PopMoves`, `PushMoves`,
`AwakeMoves` - and has one lemma for each group of actions.  `Closing` adds what is true of
the destructor: it sleeps only while its free side is incomplete, since
every put that could complete it wakes it.  This needs that a second `Init` does not
enter `Clean`: after such a `Clean` the count and the FIFO no longer belong together.
`Freed` adds who may hold what the destructor deletes: nobody, but `Clean` itself for the
one buffer it moves.  `~LateSelfAlloc` is what `BufferList.h:86` asks of the caller.

`ListIsPool` adds `Homing`: parked buffers are the only ones that go round, none of them is lost,
and `m_count` is their number.  That turns the destructor's test, the length of the free FIFO
(`BufferList.cpp:123`), into the pool's, that every parked buffer is home: a FIFO that names
nothing twice and only parked buffers names all of them when it is as long as they are many
(`ElemsCount`, `HomeIfCounted`).  What is deleted before that wait is home already, because nobody
holds it (`Freed`) and the used side is empty (`HomeIfNotHeld`).  Each critical section is then one
`Takes` or `Gives`, which `PoolMove` maps to the pool's `Move`; `Init` is its `Park`.

*CntBuffer.*  `TypeOK` is not inductive: that an offset stays inside the buffer follows
from the other three counters, so it takes `Layout`; that `Processed` does not drive a
counter below zero takes `CallbackHasData`, and that one in turn takes the lock.  Lemma
`Sums` shows that the wrapped `sz` of line 58 and the sums of lines 66-67 cancel.
`BufferIsFifo` maps each step: `AddAtEnd` and `AddAtFront` append the chunk to the unprocessed
bytes (`AppendAtEnd`, `AppendAtFront`), `Processed` drops from the front (`DropProcessed`),
the rest stutter.

*V4l2Capture.*  `OneOwner` is not inductive.  `QueueNext` queues buffers that it knows only not
to be with the driver; that they are nowhere else follows because before the stream is on
nothing can have left it (`Early`).  That a pushed or returned buffer is one its holder has
takes `Handing`, which also carries the wakeup argument: from its look to its sleep the user
has seen an empty list, and the mutex keeps it empty.  `Late` says what is over behind the
join, so that the pool is open whenever a buffer moves.  `PoolStep` then maps `Dequeue`,
`Push`, the user's take and `Qbuf` to moves, `Delete` to the pool's end, and the rest to
stuttering.

*TeeList.*  That no clone is left takes more than the stop protocol: `Stopping` says where the
thread and its outputs are while the application stops, so that behind the join the last
`cleanOutFree` has seen every output, and no output has a user who still brings clones.
`InHand` says what the thread, the upstream and the users hold at each of their steps, and
`OutputOf` that an output that is being given back has one user.  With `TypeOK` and
`NoLostWakeup` they are inductive (`IInv`), for any number of buffers and outputs, and with
`AnyRelease`, which does break `PictureKept`.

`TeeIsPool` adds where each source is (`Apart`) and where the tee thread has one in hand (`Hands`):
each step that moves a source is the pool's `Move` (`PoolMove`), and when `BufferList::Clean` ends
nothing lingers, nothing is in hand and the upstream has returned everything.  `CountsExact` and
`PicturesKept` take one more invariant.  `CountExact` does not say why a count is right when it is set: in the middle
of the loop over the outputs the clones of the source in hand are those the thread has made, at outputs
it has been to, so that the next clone is a new one (`Counted`); a clone moves inside its output and is
nowhere twice (`ClonesApart`), so that every one is subtracted once.  A source is sent, and filled,
without clones (`Cloneless`), because a pop looks at the count, or is forced.  For the forced one
`Unused` is needed: until the upstream has stopped, no active output means no clones at all, and what
was so when `m_activeTee` was read stays so until the pop is over.  That is the one place where
`~AnyRelease` comes in, and it is what `tee_release` shows to be needed.

*BTree.*  All five properties hold for any set of keys, any script of calls and every node size the
constructor admits.  What makes them hard is that they speak of whole subtrees, and that an
induction over the tree is awkward for the prover.  The inductive invariant `IInv` says instead that
there *are* two functions, the keys `C[n]` below each node and its height `H[n]`, of which the tree
is a solution (`Tree`): a node's keys go up, its subtrees have one height, the keys below the `i`-th lie in
the `i`-th gap (`Good`), and `C[n]` is what is in the node and below (`Content`).  A lemma on a step names
the new `C` and `H`, which differ from the old ones at a few nodes, and shows each conjunct there.
`Links` ties the pointers up to the pointers down, `KeyOnce` keeps every key at one node, `Fill`
bounds the nodes.  Three conjuncts say what is halfway: `Searching`, that the key is below the node the search is
at if it is in the tree at all, and where the second copy of a key is while a deletion looks for it;
`Inserting`, that the element on its way up fits the gap beside the node that was split, and that its
subtree, which no node has yet, has the height of that gap; `Repair`, that the node has one key too
few, or is the root.  `Size \in 6 .. 9` is used where two halves of a split are full enough
(`SplitInsertInv`) and where a merge fits one node (`PutAllIs`).

The lemmas on one node carry most of it: a node's elements with one put in (`PutIs`,
`InsertGood`), taken out (`RemoveGood`), exchanged (`KeyGood`), joined with a neighbour's (`JoinGood`) and cut
(`SplitGood`); `BisectIs` and `IndexIs` show what the binary search finds, also after a deletion has
changed the keys on both sides of it.  A rotation is a join and a cut of two siblings (`RotateInv`), a merge a
join without a cut (`MergeInv`), for both directions.

`StaysOrdered` and `StaysBalanced` then relate the recursive functions in the properties to `C` and `H`:
by induction on the height, stated as a fact about a set of numbers (`NatSet`), what `below` collects has
no other keys than `C`, and `level` is the root's height less the node's.  `Implements` maps each step: a
search that ends is `Search`, a failed `Insert` or `Delete`, or an `Insert` that succeeds; the key that is
taken out is a `Delete`; splits, rotations, merges and the second search change neither the keys
(`KeysMoved`) nor the answer.  Two conditions of the model became visible in this proof: that a new
node is one that is free needs that there is one, and the parent and the node of a merge, which the model
told apart by the order of its cases, are two nodes.

*RtpParser.*  `InBuffer` is not inductive: after the end `m_bufSize` is no longer the size of the buffer
that is filled next, and before the first packet `m_writeOffset` must be 0; `PInv` says that the
end stops the calls.  `LeastInSet` gives the header that a search finds, by the well-foundedness
of the naturals.  The sender's invariant adds that the packet in hand is the parser's last one;
that the thread ends first is the join's doing, and needs that it is not started again.

*RtpSender.*  Of what is sent, `InOrder` says nothing until it is sent; that the next packet will be right
rests on where parser, file and thread are meanwhile.  The invariant `InvStep` counts packets by one
number, `Reported`, which does not change while a packet goes from the parser to the thread and the
socket.  `InStep(k)` is the heart of it: the buffer is a window of the file, packet `k + 1` begins where
the parser believes, and the packet behind it begins at `readOffset` or later.  The last is what
`switchBuffer` has to keep: it holds because the search leaves out no place at which the buffer
has room for a header (`Searched`), and a header that is in the window as a whole is found (`HeaderSeen`).
`NextHeader` is the lemma of the three searches: the first match is the next packet, although the buffer behind
`writeOffset` may hold a header of anything, because a buffer that is not full ends with the file.
Behind the last packet nothing is claimed (`Searching`), which is what the run `rtp_tail` is about.
Where a packet begins is the least place of a cell of its number (`Begin`), so that the properties
need no counting.  All this is of streams that start clean, in which the first match, too, is where a packet begins
(`MatchIsFront`), so that the source is the stream's; of the others the invariant (`CleanInv`) keeps `SInv` only,
which the theorems on types and on the owner need.  `InvTime` adds that with packet `n` at hand the thread's
`mediaTime` is `MediaTime[n + 1] - FirstGap`, to which each packet adds the next difference
(`MediaTimeSteps`); that is at least `MediaTime[n] - FirstGap`, because no sum is less than an earlier one
(`MediaTimeGrows`); the thread looks at the clock after its last change, and `DivGrows` takes the
inequality through the division by ticks.

*FileDump.*  Where a chunk lies in the file is a sum of the sizes before it, and sums over sequences are
out of the prover's reach.  The invariant (`LInv`) says instead that there is a function `at` from chunks to
places in which chunk `i` reaches from `at[i - 1]` to `at[i]` (`InPlace`); the step that ends a chunk
extends it by one value.  `Laid` relates all that there is to relate: the bytes in the file, the writer's
place and the piece it has written of the chunk in hand (`WriterAt`), how many words of the header are
written (`HeaderTo`; the others are zeros if the file is new, and an entry of zero ends the reader's log),
and the reader's place and table (`ReaderAt`).  `OpenReadLaid` is the lemma the design of the
file turns on: what the reader makes of a header that a death left half written.  `Reliable` names the conditions
of the theorems in the state; dropping one of them is what the model's `CrashOverOld`, `HalfDone` and
`ReadsOn` are for.  `DumpIsLog` maps the end of a chunk to `Put`, a read to `Take`.

*Only model-checked.*  Liveness (`DestructorEnds`, `EveryFrameTeed`, `ReturnsIfSeen`,
`StopsIfSeen`, `JoinsIfStarted`, `ReleasedIfAsleep`, `OwnerReturns`): temporal reasoning from fairness
needs ENABLED, which the prover does not handle.  What a recursive definition computes has no induction
theorem that the provers can use: the library's take an operator as a parameter.  Where a property speaks of one (the trees of `BTree`,
the sum of `MediaTime`), the proof states the induction as a fact about a set of numbers
(`BTreeProofs!NatSet`, `Recursion`, `RtpProofs!MediaTimeSteps`, `MediaTimeGrows`).
`RECURSIVE` operators, about which nothing can be proved here, are not used.

## What is left out

- Parts listed as not modelled in `PROJECT.json`, each with its reason.
- `Init` that fails: allocation failure in `Init(count, size)` makes `Clean` delete buffers
  and then wait for buffers that were never parked (`BufferList.cpp:73-76`); a tee
  whose thread cannot be created (`TeeInList.cpp:160-170`).
- `GetUsedCount`, an unlocked read whose result may be old when it is used.
- Capture: a failing `initV4l2`, the `NULL` buffer array that any other buffer count leaves,
  and `streaming(true)` after `streaming(false)`, which the class's usage text does not
  have: there is no thread any more, and the list still names buffers that are queued anew.
- `delete_all_subtrees`, which runs when no call can follow, and deletes the leaves only.
- A second user of a tee output while the first drains it.
- RTP payload that looks like a header of its own source, a recording that ends inside a header,
  sequence numbers, `getPacket` after NULL.  Of a stream that does not start clean, what is sent.
- In `FileDump`, what `CrashOverOld`, `HalfDone` and `ReadsOn` name; calls that the mode refuses.
- `TimedBufferListLinux` and `FileWriterLnxThread`: the class they derive from, and members they use
  (`m_usedSize`, `Reset`, `SetBufferSize`), are not in the repository, and the writer is a stub.
- The old `buffer/` list, which polls: its calls are `GetFree(0)`, `GetUsed(0)` and the puts of
  `BufferList`.
- TCP: blocking socket I/O without a state of its own.
- `interpolation/` computes in floating point; audio, y4m and the samples have no core logic.
- `gtest/`, which is vendored.  By lines it is most of what lies under `src/`.
- Payload, logging, formatting, and the `peek` argument, which changes no state.

## Plan

What would add most from here:

1. `V4l2Capture`: a capture that is started again; `TeeList`: an `Init` that fails, a second user of an
   output; the tee over `V4l2Capture` as its upstream.
2. `RtpParser`: a recording that ends inside a header, which `PacketStreams` leaves out, and payload that
   looks like a header.
3. `BTree`: what the tracker's destructor leaves (`delete_all_subtrees` frees the leaves, not
   the inner nodes).
4. The bit helpers of `OSLinux`, as functions.
