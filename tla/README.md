# Verification of NTB

NTB is a C++ library (Linux: epoll, eventfd, timerfd, POSIX threads) whose main
part, `SSClient`, is the client of a "service server".  A program submits
requests with `reqMsgAdd`; a thread in `start()` owns two connections to the
server, the *in* and the *out* channel, sends the requests in order, reads the
answers and publishes a result for each request.  Beside it stand the containers
it is built on (an intrusive list with a preallocated set of nodes, memory pools,
a spinlock), the choice of an identifier for each client process, and statistics.

This directory holds TLA+ modules for that core, TLC configurations that check
them on small instances, and theorems checked by TLAPS for every instance.

    tlc -workers 2 -config asis.cfg MCSSClient.tla     # one run
    tlapm SSClientProofs.tla                           # the proofs of a module

## Inventory

### SSClient: the request path (`ntb_ss_client.h`, `ntb_ss_client.cpp`)

*State*: `msg_queue`, a `List` of requests with its own spinlock; `exp_stamps`
(`exp_mmap`), the expiry stamp of each queued request, under `exp_mmap_lock`;
`res_umap`, request id to result, under `res_umap_lock`; `res_set`, the ids whose
result is ready, under `res_set_lock`; `msg_id`; `req_msg_evfd`, the eventfd that
wakes the loop.

*Operations*: `reqMsgAdd` (one submitting thread), `resMsgAdd` and `reqMsgDel`
(the loop), the consumer that takes a result out of `res_set` and `res_umap` (the
owner of the two containers, which are passed to the constructor).

*Hard*: a request goes through three locked containers in three steps while the
loop takes it out of two of them in two; the loop is woken by an edge-triggered
eventfd that nobody reads; `resMsgAdd` writes to a map entry after unlocking.

*Correct when*: each request is answered, once, in order; nothing is dropped in
silence; no wake-up is lost; stamps and queue agree; nothing is written to an
erased entry, and what is published is complete.

### SSClient: the epoll loop and the channels (`ntb_ss_client*.cpp`)

*State*: per channel a socket, a `chan_ready` flag, a receive buffer with
`recv.len`, a connect timer; for *out* also `msg_status` and `send.attempts`.

*Operations*: the branches of `start()`, `inEpollin`, `outEpollin`,
`inReconnect`, `outReconnect`, `ssConnect`, `cleanAll`, `init`.

*Hard*: descriptors are closed and reused while events for them wait in the
batch `epoll_wait` returned; connects fail and are retried by timers; exceptions
restart the loop half way through anything; the server closes, answers late, or
answers what nobody asked.

*Correct when*: no descriptor is lost or shared; the client never stops trying
to connect; a channel marked ready has a socket the loop watches.

### Several clients in one process (`resMsgAdd`)

Each `SSClient` has its own containers, but `msg_p`, the pointer to the result being
filled in, is a `static` of `resMsgAdd`.  *Hard*: two loops write and read it without
a lock.  *Correct when*: a result holds what its own call wrote.

### Containers

* `List` (`ntb_pdllist.h`): pointer-linked queue and free list in one array.
  Correct when the pointers always are those of a queue and of a free list that
  together with the nodes callers hold are all nodes, after removals anywhere.
* `MempoolTSFixed`, `MempoolFixed`, `MempoolFixedPO2`, `MempoolFixedPosArr`
  (`ntb_mempool.h`): stacks of free blocks, the first under a spinlock; they keep the
  addresses of the blocks, or their numbers, and convert with divisions or shifts.
  Correct when a block has one owner and lies in the memory of the pool.  *Hard*: a
  read after the unlock, exceptions with the lock held, 32-bit products.
* `Mempool` (`ntb_mempool.h`): blocks cut into sub-blocks, with bitmaps and sets of
  blocks per size.  Correct when live sub-blocks never overlap and every block is
  where `alloc` will look for it, before and after a `resize`.
* `Spinlock` (`ntb_spinlock.h`): test and set.

### Service identifiers (`nodeInit` in `ntb_ss_client_init.cpp`)

A process takes the time in milliseconds as `service_id` and holds a named semaphore
of its last nine digits for a millisecond, so that no other process gets the same.
*Hard*: processes die in between, the name wraps, the clock moves between the reading
and `sem_open`, or is set back.

### Statistics (`ntb_util.h`)

`Counter` keeps minimum, maximum, running average and number of the samples of each
collection; `CounterCircular` keeps the last samples in a ring and computes them on
demand.  Correct when the ring holds the newest samples and the `Stats` describe what
was taken.

### The rest

Logging, error strings, signal handlers, timers (`ntb_timers`), the SSL set-up and
send loop (`ntb_ssl`).  PROJECT.json says of each why it is left out.

## The modules

| module | models | kind |
| --- | --- | --- |
| `SSChannel` | sockets, timers, buffers of the two channels; connect, reconnect, restart; the kernel and the server | operators over its own variables |
| `SSClient` | extends it with `reqMsgAdd`, the consumer, the epoll loop, the input handlers, `resMsgAdd`, `reqMsgDel` | state machine |
| `MCSSClient` | what the server may send, symmetry | instances of `SSClient` |
| `SSClientProofs` | types; queue and stamps; answers, removals, wake-ups and the refinement of `AbsClient` | proofs |
| `SSClientChannels` | extends it: sockets, timers, lost descriptors and wake-ups | proofs |
| `AbsClient` | requests submitted, the sequences of those answered and taken: what the client promises | abstract specification, implemented by `SSClient` |
| `AbsList` | a queue with removal anywhere: what `List` promises | abstract specification |
| `PdlList` | `List`, pointer by pointer | state machine, refines `AbsList` |
| `PdlListProofs` | types, the shape of the pointers, the refinement of `AbsList` | proofs |
| `FixedPool`, `MCFixedPool` | the four pools of blocks of one size, and `Spinlock` | state machine, instance |
| `FixedPoolProofs` | the lock, conservation and placement of blocks | proofs |
| `SubPool`, `MCSubPool` | `Mempool` | state machine, instance |
| `SubPoolProofs` | sub-blocks, their accounting, what a resize keeps | proofs |
| `ResultStore` | `resMsgAdd` of several clients, with the static `msg_p` | state machine |
| `ResultStoreProofs` | which results can be mixed | proofs |
| `NodeInit` | `nodeInit` in several processes | state machine |
| `NodeInitProofs` | names and identifiers | proofs |
| `Counters`, `MCCounters` | `Stats`, `Counter`, `CounterCircular` | state machine, instance |
| `CountersProofs` | the rings and the statistics | proofs |

Definitions whose name starts with `Bad` are mistakes the code could contain.
Nothing uses them: each is there to see that a property fails when a definition
of the model is replaced by it.

### SSClient and SSChannel against the code

One step is what runs between two points where another thread or the kernel can
interfere.  `pc` is the point the loop has reached:

| `pc` | the loop is about to | action |
| --- | --- | --- |
| `next` | take an event of the batch, or call `epoll_wait` | `EpollWait`, `HupReconnect`, `ConnectFd`, `SockIn`, `Ignore`, the `Req...` actions |
| `in`, `out` | call `recv` in `inEpollin`, `outEpollin` | `RecvMore`, `In...`, `Out...` |
| `lookup`, `write`, `publish` | do the three parts of `resMsgAdd` | `ResLookup`, `ResWrite`, `ResPublish` |
| `del`, `unlink` | do the two parts of `reqMsgDel` | `ReqMsgDelStamp`, `ReqMsgDelUnlink` |
| `reconnect`, `wake`, `tail` | finish a branch: `outReconnect`, `eventfd_write`, the end of `outEpollin` | `OutReconnect`, `Wake`, `OutTail` |

`adder` does the same for `reqMsgAdd`.  `job` is the request in hand, its result
and what comes after `reqMsgDel`.  `batch` is the part of the array
`epoll_wait` filled that the loop has not reached; events are handled in any
order.  `req_edge` is the edge of `req_msg_evfd`: set by a write, cleared when
`epoll_wait` reports it, and never cleared by a read because the code has none.
A descriptor is open, watched or closed in `file`, with what the server sent and
nobody read; `socket()` may return any closed one.  Timers are `off`, `armed` or
`fired`.

Messages are records of what the handlers look at: a registration or not, the
`res` code, the `msg_id`, and whether the text ends with `MSG_END`.  A buffer
counts messages instead of bytes.  A message split between two `recv` calls does
not parse, as the second message of a buffer does not, and has no case of its
own.

Facts of the code that shape the model, and that a reader may not expect:

* `init()` allocates `in.recv.buff` and never `out.recv.buff`.  `recv` on the
  *out* channel fails with `EFAULT`, so *out* never becomes ready and every request
  is answered `unavailable`.  `OutBuff = FALSE` is the code; the runs with
  `OutBuff = TRUE` show the same handlers with a buffer.
* Both handlers compare the end of the text with `MSG_END` and take the branch
  that parses when it is *not* there (`strncmp` without `==0`).
* `recv.len` grows with each message and goes back to 0 only in a reconnect, so
  only the first message of a connection parses.
* `inReconnect` and `outReconnect` do not add the socket they connect to
  `ss_epoll`; only the timer branches of `start()` do.  A channel that
  reconnects at once is connected and deaf until something restarts the client.
* `cleanAll` resets `sock` before it closes it, so a restart loses both sockets,
  and keeps `chan_ready`.
* A restart drops the rest of the batch, the edge of `req_msg_evfd` included: queued
  requests then wait for the next `reqMsgAdd`.
* The expiry branch of `start()` begins with `continue` and never runs.

`AbsClient` sees `msg_id` as the requests submitted, and two histories of the client as
the answers and what was taken of them: `answers` grows with each insertion into `res_set`,
`taken` with each result the consumer takes.  They are sequences, so that a second answer to
a request, before or after the first was taken, is a step `AbsClient` does not have, and
not a stutter.  `ReqMsgAddEmplace` is its `Submit`, `ResPublish` its `Answer` of the
request after the last one answered, `Consume` its `Deliver`.

### The other modules against the code

Each member function of `List` takes the lock on entry and gives it back on
return, so each is one action; a null dereference sets `crashed`.  What callers in the
repository never do (unlink a free node, an `eventfd_write` that fails) may happen in
`list` too; from there on `after` counts the calls, and only the type invariant is claimed.
`NodeAdd` keeps the order of the assignments of the code where an already damaged list
would tell: `end->next` is written before `free_list->next` is read.

`FixedPool` has the four classes in one module, told apart by `kind`, since they differ
in three places: the lock, the late read of `alloc`, and what the stack holds.
`Lock` is the test-and-set that ends the loop of `lock()`; a thread that still spins is
`idle`.  A block is named by its offset in the pool.  A product of `resize` is
truncated as a 32-bit integer is (`Signed`), with `Half` for 2^31.

`Mempool` is single-threaded; a bitmap is the set of its set bits.  `Resize` of a pool with
nothing handed out renews blocks and bitmaps and keeps `free_sub_arr`; `kept` remembers
which of its entries are older, and `broken` that `alloc` used one whose bitmap does not fit.
`HandOut` is the address `alloc` returns; it adds the sub-block to `live` and sets `overlapped`
for good if a caller has the same one or one of that block cut to another size.

`ResultStore` gives the value of a field as the request whose call wrote it, so that a
mixed result is one whose fields name different requests.  `msg_p` may be read again at
each use or kept in a register: both are outcomes of the race, and `Write` has both.

In `NodeInit` a `Tick` is a millisecond: a `usleep(1000)` ends with one at the earliest.
`late` remembers the processes whose `sem_open` came after the millisecond they had read.

Three more places where the code and its comments differ, found while modelling
and not given a run of their own:

* `ntb_pdllist.h:132` and `:147`, "existance check": the removal of the only node of
  a list does not clear `prev`, so a second removal of that node passes the check,
  puts the node twice in the free list and makes `size` wrap.  No caller here does
  that.
* `ntb_pdllist.h:76`, "cancel added node": when `eventfd_write` fails, `nodeAdd2` sets
  `end->next=free_list`, where `end` *is* `free_list`: the rest of the free list is
  lost.  Nothing calls `nodeAdd2`.
* `ntb_mempool.h:235`, "always not full and not empty": a block of the full size,
  with nothing live in it, goes to `free_sub_arr` and not to `free_blocks`, and stays
  there over a `resize`.

## The runs

Passing runs:

| run | bounds | shows |
| --- | --- | --- |
| `asis` | 2 requests, 2 descriptors, batches of 3, one unread message per socket, buffer of 2 messages | the code as it stands: every safety property of the client under every interleaving of submitter, loop, consumer, timers and server, and that it implements `AbsClient`: one answer per request, in order, each taken once |
| `faults` | 1 request, 2 descriptors, batches of 3, buffers of 2 messages, with one for *out*, exceptions | the sending branch and `outEpollin` with a server that answers anything at any time, and restarts from every place a connect or a registration can throw: queue and stamps agree, no request leaves the queue without a result or the server's ok, timers are set, and sockets and wake-ups are lost in the named steps only |
| `live` | 2 requests, batches of 3, fairness, nothing throws | every request is answered, with a server that accepts registrations and may close any connection at any time |
| `list` | 4 nodes | the pointers of `List` and its refinement of `AbsList`; after a double removal, a removal of a free node or a failing wake-up, every pointer is null or a node, and `size` within its width |
| `pool_ts` | 3 holders, pools of 2, 3 and 5 blocks, 8-bit integers | the four pools: one thread inside the lock, which comes back; blocks plus owners are conserved; blocks are apart and inside the pool |
| `subpool` | 3 blocks, sizes 512, 1024, 2048 | sub-blocks do not overlap, bitmaps, sets and stack agree, and a resize keeps whole blocks only |
| `result_store` | 2 clients, 2 requests each | a result is mixed, or written to freed memory, only when two clients are in `resMsgAdd` at once |
| `nodeinit` | 3 processes, 4 milliseconds, 2 names | names are held by one process each; equal identifiers need a delay or a clock set back |
| `counters` | 2 collections, rings of 1 and 3 samples, 4 samples, one negative | the ring keeps the newest samples, `Stats` describe the samples taken |

Runs in which TLC finds a comment of the source contradicted:

| run | the comment | what happens |
| --- | --- | --- |
| `recv_full` | `ntb_ss_client_in.cpp:78` "buffer is full due too big msg" | small messages fill it: `recv.len` is not reset |
| `unlink_held` | `ntb_pdllist.h:100` "to be able to unlink allocated but not linked" | `nodeUnlink` of such a node follows a stale `next` |
| `pool_ts_owner` | `ntb_mempool.h:62` "thread safe" | `alloc` reads the array unlocked, and two threads get one block |

*Why the bounds are enough.*  Two requests are needed for order, for a queue that
stays non-empty after a removal, and for a submission that overtakes a removal.
Two descriptors let a channel get the number the other one just closed.  A batch of
three is what can be ready at once with two channels, each of which has either an
event of its socket or one of its timer, and the eventfd, so that every event but the
one handled first can be made stale by an earlier handler.  In `faults` lost sockets
report too, and ready events may be left for the next batch, and two descriptors are both
lost by one restart, after which the client goes on without.  `faults` has one request:
with two its state space passes eight million states and is still growing, with shorter
batches as well.  What a removal leaves in the queue there is therefore nothing, or a request
linked meanwhile; a queue that stays non-empty after `ReqTooMany` is in no run.  The four
properties for which that would matter, `StampsMatchQueue`, `SleepsOnlyAtRequest`,
`RemovedOnlyIfAnswered` and `LostOnlyInRestart`, are theorems for any number of requests,
with a buffer for *out* and with exceptions.  A buffer of two messages
is the smallest that can hold a first message that parses and a second that does not,
and one that is full.  `MaxAttempts` is 1: the limit is reached and refused.

Four list nodes give queues of three and a removal in the middle, with a node left in
the free list or held; `MaxAfter` bounds the steps after an abuse.  Three sizes of
sub-block cover many, two and one per block.  The arguments of `pool_ts` have a size
that is not a power of two, products that turn negative and that wrap to a smaller
pool, and refused ones.  Two clients make a race and two requests a result from before
it.  Three processes let two share a name while a third holds or has lost another;
with two names over four milliseconds every name comes back.  A ring of three
overflows with four samples, and one of one with each.

*Deadlock* is not checked where the system may stop: the client when all requests
have been made and the server is silent, the list and the pools after a crash or a
bounded abuse, the threads that spin on a lost lock, the processes that have their
identifier, and the counters at the bound of their samples.

*Fairness.*  The loop is a thread that runs whenever `epoll_wait` has something or a
handler is under way, and a thread inside `reqMsgAdd` does not stop between its
steps: weak fairness of each, and nothing more.  `FixedPool` assumes weak fairness of each
thread that holds the lock or has just released it; a thread need not begin a call, and
one that spins need not get the lock.  The other modules state none.  The caller need not submit, the
consumer need not consume, timers need not expire and the server need not answer.

*What does not hold.*  `NoDescriptorLeak` and `ReadyInWatched` fail across restarts
(`cleanAll`).  `NoLostWakeup` fails across restarts, and when *out* can become ready
(a request given up after too many attempts leaves the next without a wake-up).
`ReadyInWatched` fails, too, when *out* can become ready: a failed send closes the
socket of *out* while an input event for it waits in the batch; *in* reconnects in
the same batch and gets the number; the stale event is taken for one of *in*, the
registration is read, and *in* is ready on a socket `ss_epoll` does not watch.  What
`faults` checks instead is that nothing else does it: `LostOnlyInRestart` and
`SleepsOnlyAtRequest` name the steps at which a socket or a wake-up is lost.

Two processes get one `service_id` when one of them is delayed after reading the clock
until the other has unlinked the name (`late`); `nodeInit` has no defence against
it, and `IdsDistinct` shows that nothing else, deaths and wrapped names included, leads
there while the clock runs forward.  A block of the largest size stays in `free_sub_arr`
over a `resize` of `Mempool`, and `alloc` then takes it for one of the new pool
(`broken`); `OnlyWholeBlocksKept` shows that it is the only one that does.  No
text of the repository claims otherwise, so the runs check these where they hold
and this page says where they do not.

## The proofs

Every invariant and action property of the passing runs, and both refinements, are
theorems here, for every value of the constants; the runs check the same formulas on
small instances.  Each proof has the same outline: an inductive invariant that
contains the property, one lemma per group of actions, and a temporal step at the end.
What follows is what each invariant adds, and why the property needs it.

| theorem | states | assumes, beyond the modules' ASSUMEs |
| --- | --- | --- |
| `SSClientProofs!TypeCorrect` | `TypeOK` | |
| `SSClientProofs!StampsMatch` | `StampsMatchQueue` | |
| `SSClientProofs!RemovalsAnswered` | `RemovedOnlyIfAnswered` | |
| `SSClientProofs!AnswersCorrect` | `NoSilentDrop`, `AnsweredInOrder`, `NoWriteToErased`, `PublishedIsFilled` | `AsIs` |
| `SSClientProofs!RequestsImplemented` | `ImplementsRequests` | `AsIs` |
| `SSClientProofs!WakeupsKept` | `NoLostWakeup` | `AsIs`, `MayThrow = FALSE` |
| `SSClientChannels!ChannelsSound` | `SocketsOpen`, `ReconnectPending` | |
| `SSClientChannels!LossesAreRestarts` | `LostOnlyInRestart` | |
| `SSClientChannels!SleepsOnlyThere` | `SleepsOnlyAtRequest` | |
| `SSClientChannels!NoLeakUnlessThrown` | `NoDescriptorLeak` | `MayThrow = FALSE` |
| `SSClientChannels!ReadyMeansWatched` | `ReadyInWatched` | `AsIs`, `MayThrow = FALSE` |
| `PdlListProofs!TypeCorrect` | `TypeOK` | |
| `PdlListProofs!ListCorrect` | `TypeOK`, `WellFormed` | |
| `PdlListProofs!QueueImplemented` | `ImplementsQueue` | |
| `FixedPoolProofs!LockCorrect` | `OneInside`, `LockNotLost` | |
| `FixedPoolProofs!PoolCorrect` | `TypeOK`, `CountConserved` | |
| `FixedPoolProofs!BlocksCorrect` | `BlocksApart` | |
| `SubPoolProofs!SubBlocksCorrect` | `TypeOK`, `NoOverlap`, `Accounting` | |
| `SubPoolProofs!KeptAreWhole` | `OnlyWholeBlocksKept` | |
| `NodeInitProofs!IdentifiersCorrect` | `TypeOK`, `NamesAreHeld`, `IdsDistinct` | |
| `ResultStoreProofs!MixingNeedsOverlap` | `TypeOK`, `OnlyOverlappingMix` | |
| `CountersProofs!CountersCorrect` | `TypeOK`, `RingKeepsNewest`, `StatsDescribeSamples` | |

`AsIs` is the code as it stands: *out* has no buffer, and the server sends no result of a
request of this process.  The second follows from the first in a server that
answers requests, as none reaches it; it is an assumption because the server is not
part of the repository.  `MayThrow = FALSE` says that no exception restarts `start()`.
"What does not hold", above, says what happens without either; runs `asis` and `faults`
are instances with and without them.

### The client

*Types.*  `TypeOK` is not inductive: that `Head(msg_queue)` is a request, or
that `file[sock["in"]]` is a file, depends on where the loop is.  `TypeInv` adds
`ControlInv`, which says of each value of `pc` what the loop may rely on: a socket
while it reads, a request in `Ids` while it stores a result, a non-empty queue
while it removes one.

*Queue and stamps.*  `StampsMatchQueue` alone does not survive
`ReqMsgDelStamp`, which removes the stamp of the head: with a request twice in
the queue its other node would be left without one.  `QueueInv` says what makes
that impossible: the queue holds the consecutive identifiers from `Oldest` to
`Newest`, where `Newest` leaves out the one `reqMsgAdd` has not linked yet.
`StampInv` restates the property over that interval, and `SafeInv` is their
conjunction with `TypeInv`.  Most steps of the loop touch none of it and are dealt
with together (`Quiet`).

*Answers.*  The invariant says that what is answered is every request before
`FirstOpen`, the head of the queue or, while the loop is between the publication and
the removal, the one after it; that an entry of a request not taken is there; and
that `job` is about the head.  `AnswersSoFar` says the same of the history: `answers` is
1, 2, ... up to `FirstOpen - 1`.  So `ResPublish`, which appends `Oldest`, appends the next
number, as `Answer` does.  `TakenOnce`, that no id is both in `res_set` and taken,
makes the id `Consume` finds in `res_set` one that is not in `taken`, the guard of `Deliver`.
Every other step leaves the three abstract variables alone.

*Removals.*  `RemovedOnlyIfAnswered` holds for every server and with exceptions, where the
answers need be neither in order nor of the request the server meant.  `RemovalInv` says
that what `resMsgAdd` has in hand when `reqMsgDel` follows is the head of the queue
(`InHandIsOldest`), and that when `reqMsgDel` runs the head has its result or the server's
ok (`OldestSettled`).  That the submitter appends and the consumer takes results meanwhile
changes neither.

*Channels.*  `ChannelStep` sorts all the steps of the client by what they do to sockets,
timers and events: nothing much (`Calm`), `epoll_wait`, a reconnect, a connect of a
timer, a restart, a timer that expires.  The proofs then have six cases instead of
one for each action.  `ChannelInv` is `SocketsOpen` and `ReconnectPending` with what they lack: that the
timer of a connect event in the batch is off, so that handling the event may set it.
`NoDescriptorLeak` needs `OutInv` besides: `outReconnect` is asked for only while *out*
has a socket, else its failure would be the restart that loses one.  For `ReadyInWatched`
the invariant follows an input event from the batch to the handler: as long as *out*
cannot become ready, an input event still in the batch is for a descriptor that
`ss_epoll` watches (`InEvents`), and so is the descriptor `inEpollin` reads (`InRead`).  With a
buffer for *out* that is false, which is why the theorem assumes `AsIs`.

### The list

`Shape(q, s)` says that the pointers are those of the queue `q` and the free list `s`,
and that with the nodes held they are all nodes, each in one place.  `ListInv` is that
some `q` and `s` have the shape while no caller has broken the contract.  The lemmas
`QueueAppend`, `QueueRemove`, `FreePush` and `FreePop` say what the assignments to `next` and
`prev` do to a queue or free list of any length; each member function combines two.
`WellFormed` is defined by walks along the pointers, recursive functions, and that
the walks find `q` and `s` is proved by well-founded induction on the length.  The walk
is also the refinement mapping, so every member function is, through `ListInv`, one
step of `AbsList`.  `TypeOK` is proved for misuse too.

### The pools

`LockInv` adds to `OneInside` and `LockNotLost` that whoever is inside has set the
flag, and that the classes without a lock have nobody inside.  `PoolInv` adds what
each place of a call may rely on, above all that without an array nobody has a block
and, in `MempoolTSFixed`, that the lock is then held for ever or the index is 0.
Conservation counts sets of threads; the steps use the library's facts on
cardinalities.  `ApartInv` is `BlocksApart` in terms of addresses: an entry of the stack
is an address, a number or a shifted address according to the class, and
`Address` and `Entry` are shown to be inverse on the pool's memory, divisions included.

In `SubPool` the properties are about live sub-blocks and the code decides by bitmaps,
sets and the stack.  `LiveInv` says that what is live are the clear bits of the blocks
that are off the stack, `SetsInv` that the set of a size holds the blocks of it that have a
free bit and what a resize kept, and `KeptInv` that while the set of a size has a kept
entry no block is cut to that size, since `alloc` looks in the set first and finds the
entry unfit.  None of them is inductive without the others.  `OverlapStep` then shows that
`overlapped` stays false: the bit `alloc` takes is set, so nothing live has its position, and
what is live in a block has the size the block is cut to.

### Identifiers, results, statistics

`IdsDistinct` needs to know when the holders took their time: `TimesInv` says that until the
clock is set back no identifier is ahead of it, and that a process that has slept and
was not late is behind it.  A process that is not late opens the name of the present
millisecond: one with the same identifier still holds that name, and `sem_open` fails.

`CallOk` says what a call of `resMsgAdd` may rely on: its entry is
there and unpublished, and until another client overlaps with it `msg_p` is its own and
the fields written so far are in its entry.  `MarkedInv` says that two clients inside
have both been marked, and that a `msg_p` that is not one's own points at a marked
request, so that a stray write never reaches an unmarked result.

In `Counters`, `Holds` gives the place of each of the newest samples in the ring, with the
wrap that is still to come when `current_pos` is the size.  `StatsOf` keeps, beside the
average, that a least and a greatest sample enclose it: a truncated step moves it
towards the new sample and never past it, whatever the signs.  `TakeAll`, the loop of
`updateStats`, is a recursive function; that it is defined for every sequence, and what
it does to `StatsOf`, go by well-founded induction (`UpTo`).

### What the proofs changed

The attempts found places where the model, not the code, was wrong: `Entry` of `FixedPool`
rounded a negative offset of `MempoolFixedPosArr` down, where C++ rounds towards zero, and
the assumptions on constants let in a machine of one-bit integers (`Half = 1`), a
`Mempool` without sizes (`Size = {}`) and a list whose abuse ends before it begins
(`MaxAfter = 0`), for which lemmas or theorems are false.  `Counters` folded over
sequences with an operator the provers cannot expand; `TakeAll` is the same loop as a
recursive function.

### Only model-checked

Liveness, which needs fairness and ENABLED: `EveryRequestAnswered` of the client and
`LockReturned` of the spinlock.  The three properties TLC refutes have no theorem
either; they are the comments of the source, not what the code does.

## Not modelled

* Contents and formatting of messages, the values of expiry stamps, wrap-around of
  `msg_id` (2^64 requests), and failures of `init()` itself.
* The expiry handler of `start()`: the `continue` at `ntb_ss_client.cpp:161` makes it
  unreachable.
* Exceptions of `timerSet` in `inReconnect` and `outReconnect`
  (`ntb_ss_client.cpp:259-262`, `:278-281`):
  `timerfd_settime` on a timer that `init()` created does not fail.  Exceptions come from
  connects and registrations.
* A `resize` of a pool while blocks are handed out, which no caller does.
* A `resize` of `Mempool` to other sizes: each resize of `SubPool` has the same arguments.
* A `Counter` index one past the last collection, which the check lets through, and
  `max_samples=0`: the result is undefined behaviour at once, with no state after it.
* A second result of the server for a request whose first was not yet taken, in
  `ResultStore`: for one client `AnswersCorrect` excludes it.
* `tryLock` of `Spinlock`, and the SSL send loop: nothing calls them.
* Logging, error texts, signal handlers, printing of statistics: output only.

## Plan

Done: every component with state of its own, but for what "Not modelled" lists, and the
theorems above.  What could still be said by proof:

1. `NoLostWakeup` and `ReadyInWatched` with weaker assumptions: up to the first
   exception, instead of in a client that never throws.
2. The properties `WakeupsKept` and `ReadyMeansWatched` assume `AsIs` for: which of them
   survive a buffer for *out* in part, and which steps break them.
3. That in `FixedPool` with the lock a block has one owner as long as no two threads
   overlap in the late read of `alloc`, the converse of run `pool_ts_owner`.
