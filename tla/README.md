# UNR: a verification project in TLA+

UNR (Unified Notifiable RMA) moves data between the processes of an MPI job and
tells both sides by *signals* that a transfer has completed. This directory
models the library's protocol code (`src/src`), checks the models with TLC, and
proves with TLAPS every safety property that the passing runs check, and the
refinements of the signal ring and of both channels.

## 1. The system

| Part | Code | State | Operations |
|---|---|---|---|
| Signals, signal pools | `unr/base/unr_sig.c` | a 64-bit counter per signal (low word: events still missing; high words: parts of divided messages), `idx`, `queue` | create, check, wait, reset, pool create, pool detect |
| Signal ring | `uru/type/queue.c` | ring, `head`, `tail`, spin lock | push (daemon), pop (application) |
| Memory, blocks, plans | `unr/base/unr_mem.c`, `unr_blk.c` | registered memories, the view of the other ranks' memories, plans with their per-channel writes or their kept arguments | register, collective sync, plan create (now, later, once), start, destroy |
| Division over channels | `unr_blk.c` 308-394 | rotation per side | size, offset and increment of every part |
| MPI channel | `uri/mpi/*.c` | pools of tags and batch ids, request array, slots of the receiver's batches, MPI requests | plan create, start, destroy, the daemon's pass, close |
| Verbs channel | `uri/verbs/*.c` | queue pairs and `qp2rank`; `req_submit`, `req_finish`, `send_lock`; send queues, shared receive queue, completion queue | open, plan create, start, destroy, the daemon's pass |
| Init, daemon thread, finalize | `unr/base/unr_channel.c` | channel lists, `intra_channel_reuse`, handle offsets, two volatile flags | select, init, loop over channels, stop, close |
| Channel layer | `uri/base/uri_channel.c`, `uri_mem.c` | `opened`, `mem_h_offset`, `channel_id` | open, daemon, close, handle size |
| Flag pool | `uru/type/flag.c` | the signals that verbs messages can name: an array, a count, the addresses of all ranks' arrays | init, alloc |
| Utilities | `uru/sys`, `uru/dev`, `uru/mpi` | none of protocol interest | wrappers |

**How they interact.** The application calls `unr_blk_*_start/plan` and
`unr_plan_start`; these divide the message over channels and call the channel's
`plan_create/start`. One daemon thread per process runs each channel's daemon:
it tests requests or polls completions, adds the increment of a part to the
counter of its signal (`counter += flag_add`), and, when the counter has reached
zero and the signal is in a pool, pushes the signal's index to the pool's ring.
The application polls counters or rings. Between processes travel data, the MPI
channel's control messages (create, start, destroy, execute) and the verbs
channel's immediate data.

**What is hard.** Counters are shared between the daemon and the application
without a lock or an atomic instruction; ring and request array are read outside
their locks; parts of a message arrive in any order; tags and batch ids are
reused while messages that carry them are under way; plans are created before
the memory they name is known; the verbs daemon posts to a send queue that
application threads fill; completions may overtake the counting of the request;
ranks open and close channels at their own pace while others already, or still,
send; one thread serves several channels and is stopped by a volatile flag.
`PROJECT.json` lists each of these hazards at its line.

**What makes each part correct.** Signals: zero means that everything has
arrived, no update is lost, each trigger is reported once. Ring: a FIFO that may
only miss. Pools: unique numbers, none lost. Request array: each request handled
exactly once. MPI channel: receives get their own data, slots agree with plans,
no request is misused, one event per half and start, nothing is left half way.
Division: the parts tile the message and their increments make one event. Plans:
what is executed is what was asked. Verbs: queues are never overrun, receive
requests are conserved, one event per half and start; a rank that is through
opening finds its peers ready. Both channels: data first, then one event per end
(`Transfer`). Init and finalize: the selection is the user's, each channel has one
handle area, is opened once and closed after its last use, and finalize returns.
Close: nothing is left to send and nobody waits for a rank that is gone. Flag
pool: a signal has one owner, and an index names it on every rank.

## 2. Modules

| Module | Models | Correspondence |
|---|---|---|
| `UnrSignal` | signals, pools, the daemon's event | application calls `SigCreate`, `PlanStart`, `SigCall` / `CheckOverflow` / `CheckZero`, `SigReset`, `SigPoolCreate` / `PoolStore`, `SigPoolDetect` / `DetectRearm`; daemon steps `DaemonLoad`, `DaemonStore`, `DaemonTest`, `DaemonPush`: the load and the store of `counter += flag_add` are two steps |
| `UruQueue` | the ring, step by step | implements `Fifo`, an abstract queue whose poll may miss a value (`ImplementsFifo`) |
| `MpiIntPool` | tags and batch ids of one peer, over all ranks | `Get` (recycled, new or limit), `Return` |
| `MpiReqQueue` | the request array | `AppLock/Put/Unlock`; `ReadTail`, `Copy`, `TestSome`, `Process`, `RemoveLock`, `Drop`, `Move`, `RemoveUnlock` |
| `MpiChannel` | plans and once_now transfers of several ranks with the daemons | `PlanCreate`, `RdmaStart`, `PlanStart`, `PlanDestroy`; `DaemonCtrl` with one disjunct per control message, `DaemonTest`, `DaemonEvent`, `DaemonRelease`. MPI (matching, buffered sends, order per pair) is external |
| `UnrSplit` | the division of one message as functions | used by `UnrPlan` and `VerbsFlags`; `UnrDivide` states what it must give, for the plans of `UnrPlan` and for any size and position of the rotation |
| `UnrPlan` | registration, collective sync, plans | `MemReg`, `SyncEnter/SyncExit`, `RdmaStart`, `RdmaPlan`, `Overwrite` (the caller reuses its arrays), `PlanStart`, `PlanDestroy` |
| `VerbsChannel` | several application threads and one daemon per rank on queue pairs | `PlanCreate`, `PlanStart`, `StartLock`, `PostSend`, `SpaceTimeout`, `CountSubmit`, `StartUnlock`, `PlanDestroy`; `Poll`, `Handle`, `Notify`, `Repost`. The interface (`Execute`, `Post`) is external |
| `VerbsOpen` | `uri_verbs_channel_open` on all ranks | `Create`, `Enter`/`Leave` of each collective call, `Connect`; `VerbsChannel` starts where it ends |
| `VerbsFlags` | the flag pool and the index in verbs immediate data; extends `VerbsOpen`, whose statement "pool" is its first `InitPool`/`Gather`, and `UnrSplit` | `Opening`, `InitPool`/`Gather`, `AllocLock`, `AllocTake`, `AllocCount`, `Send` (division, `uri_verbs_event_fill`), `Progress` |
| `MpiClose` | `unr_finalize` and `uri_mpi_channel_close`; extends `MpiChannel` and uses its actions | `App`, `Finalize`, `Leave`, `Stopped`; `Ctrl`, `Test`, `Signal`, `CtrlSent`, `TestNone` for the passes of the daemon; `AllReduce`, `PassEnd` |
| `UnrChannel` | selection, `unr_init`, the daemon thread, `unr_finalize`, with `uri_channel_open/daemon/close` | `Select`, `CheckDuplicates`, `CombineInter`, `CombineIntra`, `CombineEnd`, `OpenNext`, `InitEnd`; `DaemonTop`, `DaemonItem`, `DaemonNext`; `Finalize`, `FinalizeWait`, `CloseNext`, `FinalizeEnd` |
| `Transfer` | what any channel promises of a started transfer: moved once, then one event per end, the receiving end only after the data | abstract |
| `MpiTransfer`, `VerbsTransfer` | the refinement mappings from `MpiChannel` and `VerbsChannel` to `Transfer`; `VerbsTransfer` adds the fairness of the threads | a transfer is moved when its receive is matched, or its request executed |

Modules whose name begins with `MC` hold the instances;
the theorems are in eight modules: `UnrSignal_proofs`, `UruQueue_proofs`,
`UnrChannel_proofs` and `UnrPlan_proofs` extend the module they are named after,
`MpiUtils_proofs` extends `MpiIntPool` and `MpiReqQueue`, `MpiChannel_proofs` extends
`MpiTransfer` and `MpiClose`, `VerbsChannel_proofs` extends `VerbsTransfer`, and
`VerbsOpen_proofs` extends `VerbsFlags`.
Definitions whose comment says "X when ..." are wrong variants of X; a property
must fail when X is replaced by one (`PROJECT.json`, "mutants").

Modelling decisions: sizes are numbers of bytes with tiny block sizes; data is
identified by the transfer it belongs to; the word size 2^32 is a constant `W`
and the counter an integer (its 64 bits do not overflow for the counts the code
admits). Growing arrays, logging, and the printing in `unr_sig_wait` are left
out. A failed `URU_ASSERT` is a step to a halted state. `UnrSignal` covers builds
with and without assertions in one run (`asserts`, chosen at the start);
`UnrChannel` always has them, as `fast/build.sh` builds it
(`-DASSERT_CHECK=ON`), since without the assertions `unr_init` goes on with
channels that do not exist. `unr_init` writes as many names as the environment
holds into lists with room for the registered channels, which lie one behind the
other; `UnrChannel` keeps them as cells of one array so that an overlong list
overwrites its neighbour, as in the code.

## 3. Runs

| Run | Instance | Shows |
|---|---|---|
| `signal` | two pooled signals, one of which takes two messages per round in up to two parts each, and a polled and awaited signal with undivided messages; with and without assertions | `TriggerExact`, `NoLostUpdate`, `ReportOnce` in any order of arrival; `HaltsOnlyDivided`: the process exits only over a signal with divided messages, which does happen in the build with assertions (finding 1); unless it does, triggered signals are detected; `unr_sig_wait` returns. With two messages of two parts a message's second part can come first, and parts of both can be mixed |
| `signal_overflow` | one checked signal, messages in two parts | *violated*: a legal arrival order is reported as overflow |
| `queue` | two consumers, ring of two signals (three places: it wraps) | the ring implements `Fifo`; `RingExact`: never full, every value once; everything pushed is popped |
| `int_pool` | two ranks, limit 6 | numbers are unique over ranks, none is lost, the limit is hit only when all are used |
| `req_queue` | four requests in batches of up to two | `RequestsExact`: the compaction loses and repeats nothing; every request is served |
| `channel` | two plans of one rank, reusing tags and a batch id, one started twice, and a once_now get of the other rank | `MpiChannel` implements `Transfer`; slots agree with plans, nothing freed is used, nothing is left half way |
| `channel_early` | a plan destroyed when all its signals have fired | *violated*: the daemon still reads the freed operation |
| `plan` | three ranks on two nodes, two memories each, two syncs, a plan with empty sends and one with a late memory; two and three channels | `HandlesInOrder`, `AsAsked`, `EventsDue`, `ExitsUnsyncedOnly`; `PlanDivided`: the parts of a send tile it, none is a runt, the load is even, the increments make one event |
| `verbs` | two threads on a send queue of two entries, gets and puts with and without signals, one plan started twice | no overrun, conserved receive requests, the owner told after the read; `VerbsChannel` implements `Transfer` and completes or exits; the exits by timeout and by an empty receive queue both occur |
| `close` | a once_now put and a plan with a get the other way, unr_finalize at any moment | `CleanClose`; finalize returns on all ranks (`AllClose`) |
| `unr_channel` | all values of `UNR_INTER` and `UNR_INTRA` with up to four names out of three channels and an unknown one, an item at each channel, finalize at any moment | `AsSelected`, `AreasAgree`, `ChannelCalls`, `Served`, `FinalizeReturns`; four names overflow a list of three |
| `verbs_start` | two ranks that open two channels each, any assignment of queue pair numbers, InfiniBand and RoCE; then three threads and pools of two usable entries | `PeersReady`, `CountedForPeer`, every opening returns; `SignalsExact`, `RightSignal`: allocation under the lock, indices, the exit when used up. An assumption of the instance, `WideDivision`, makes TLC evaluate the division for every size up to 40 over two and three channels: that is more than six full rounds of blocks, and after one round only the number of full rounds changes |

`CHECK_DEADLOCK FALSE` stands where the system stops because all bounded starts,
requests or syncs are used up, or where the program has exited (`UnrSignal` says so
itself, with the step `Exited`). `Delivered`
says what such a rest must look like.

**Fairness.** Daemon steps and calls in progress are weakly fair: threads run.
Peers send what they owe (weak). Polling a pool is strongly fair, since an
unlucky poll may miss; the spin lock is granted to some waiter infinitely often
(strong); `MPI_Testsome` finds a complete request sooner or later (strong). The
application is never assumed to start anything. `MpiChannel` needs no fairness:
each of its steps uses up a message, a request or a start, so it comes to rest,
and `Delivered` is an invariant about rest. `MpiClose` states
liveness: daemon steps weakly fair, `MPI_Iprobe` and `MPI_Testsome` strongly (each
may miss now and then); no application has to call anything, and `AllClose` starts
from the moment all have called `unr_finalize`. In `VerbsTransfer` the lock
is strongly fair and the interface executes what it is given. In `UnrChannel` both
threads run; `Served` needs that each of the other channels finds something only
finitely often, which `MaxArrive` bounds: a channel whose traffic never pauses does
starve the others, and nothing in the code prevents it. `VerbsFlags`: every rank
calls `unr_init`, and of its statements every one that can be executed is.

`OwnDone` is what the drain of `uri_mpi_channel_close` really gives: the receiving
half of a put may never run if the receiver closes first, because its control
message is in no rank's array any more when the ranks look; a program that wants
it has to wait for the signal.

With two consumers the ring implements `Fifo` only because a poll may miss a
value that is there: the emptiness test looks at `head` and `tail` at two moments.

**Findings.** (1) `unr_sig_check` tests `counter & (1<<31)`; the mask is
sign-extended, so a divided message whose parts arrive out of order, or whose
first part arrives first, ends the program with an overflow report. The same
order fails `URU_ASSERT(counter >= 0)` of the MPI daemon (`uri_mpi_channel.c:238`)
in builds with assertions, for every signal with divided messages, checked or not:
`HaltsOnlyDivided` says that only such signals are concerned, and
`TriggeredIsDetected` and `WaitReturns` except this exit. (2) The
MPI daemon reads an operation after it has published its event; a plan may be
destroyed in between although its communication is finished.

Further observations without a run of their own: the tag of a once_now transfer is
recycled at local completion, and for transfers of a rank with itself the next
receive with that tag takes the wrong message (with a put and a get of rank 0 to
itself in the instance, `ImplementsTransfer` fails); the bound on the number of
events, `num_event < (1<<31)`, is a comparison with 2^64 - 2^31, so a larger number
is accepted and reported as an overflow by the first check; messages divided over
two verbs channels fail the assertion that every increment is -1
(`uri_verbs_rdma.c:5`; with two channels in the instance `RightSignal` fails, so the run, with one, does
not put that assertion to the test); ports of which only some have a lid would take
different branches of the gid exchange and wait for each other
(`uri_verbs_channel.c:265`; `Lids` in `VerbsOpen` leaves them out, so `AllOpen` does not
speak of them); a
pool keeps pointers to the caller's array of signals (`unr_sig.c:81`), which has to
live and stay as it is (in `UnrSignal` it does); a signal triggered before
`unr_sig_pool_create` is never reported by the pool (`PoolFirst` states the order
the models assume); a verbs receiver that falls behind by the size of its shared
receive queue makes senders exit; `unr_rdma_plan_create` reads a freed once_now
plan; queue pairs get the largest MTU of all ranks, not the smallest;
`initialized` in `init_flag_pool` is never set, which is harmless as long as signals
are created after the last opening (`RightSignal`); `unr_init` after `unr_finalize`
does nothing and says it succeeded.

## 4. Proofs

The theorems hold for every value of the constants that satisfies the named
assumptions of the modules:

| Assumptions | Say |
|---|---|
| `WordAssumption`, `SizeAssumption`, `PoolAssumption`, `OrderAssumption` (`UnrSignal`) | twice the number of events of a signal is below the word size; sizes are natural numbers; no signal is pooled twice; `PoolFirst` is true or false |
| `QueueAssumption` (`UruQueue`), `PoolSizes` (`MpiIntPool`), `QueueBounds` (`MpiReqQueue`) | sizes and bounds are natural numbers, positive where the code divides by them |
| `ChannelAssumption`, `NoneAssumption` (`MpiChannel`) | a plan is a sequence of one or more puts and gets |
| `VerbsAssumption` (`VerbsChannel`), `OpenAssumption` (`VerbsOpen`), `FlagsAssumption` (`VerbsFlags`) | depths are positive, a plan is a sequence of work requests; numbers are enough for all queue pairs |
| `SplitAssumption` (`UnrSplit`), `PlanAssumption` (`UnrPlan`) | a side has one channel or more, of a positive block size; a plan has one send or more, between blocks whose offsets and sizes are natural numbers; the sizes of whole blocks may differ, as a build without assertions allows (`unr_blk.c:286`) |
| `ChannelsAssumption` (`UnrChannel`) | finitely many channels, whose handles have any size, 0 as that of "mpi" (`uri_mpi.h:53`) included; the head has a positive size |

Some theorems have a hypothesis of their own. `NoErrorEver`, `AllDelivered`,
`ChannelImplementsTransfer` and `ChannelClosesCleanly` take a plan to be destroyed
only after the daemon has let go of its operations (`~EarlyDestroy`; the earlier
destroy is finding 2); the last three of them that no rank transfers to itself
(`NoSelf`; see the observations). `IndexNamesSignal` has one inter-node channel
(with two, a message divided by `uri_verbs_rdma.c:5` fails its assertion).
`TriggersReportedOnce` has pools made before their signals are used (`PoolFirst`).

* `UnrSignal_proofs`: `SignalInvariant` (`Spec => []SignalInv`), from which
  `SignalTypes`, `TriggersAreExact`, `NoUpdateIsLost`, `ExitsOnlyDivided` and
  `TriggersReportedOnce`. `TriggerExact` alone is not inductive: the counter
  must be tied to the messages and parts still to come (`CounterExact`, `Budget`,
  `PartsOK`), the daemon's local copy to the counter (`DaemonOK`), and the
  application's unlocked writes must be known to happen only when no part can
  arrive: a pooled signal at zero has no open messages (`ReportsOK`), a user call
  works on a signal of its own (`UserOK`), pool slots are filled in order (`PoolOK`).
  `SignalInv` gives at most one report; that there is one needs `Reported`, which
  each step keeps only because a pool's members are untouched until the pool
  watches them (`PoolQuiet`, from `PoolFirst`).
  `ExitsOnlyDivided` adds that the messages of an undivided signal are single parts
  (`Whole`), so that its counter is the number of messages not applied yet.
* `UruQueue_proofs`: `RingNeverFull`, `ValuesAreExact`, together `RingIsExact`, and the refinement
  `RingImplementsFifo`. The invariant ties `head` and `tail` to the values between
  them, says that a signal is in the ring at most once (so the ring of one more
  place never fills), that one thread at most is inside the lock, and that a
  consumer's peeked `head` and `tail` are positions the ring has passed: a poll that
  missed is a stutter or the abstract miss, a taken value the abstract pop.
* `MpiUtils_proofs`, first part: `PoolTypes`, `PoolIsExact`, `RanksAreApart`,
  `GetIsFresh`, `LimitMeansFull`. The invariant
  `PoolInv` says that numbers in use and numbers on the stack partition those
  below `max`, without repetition; uniqueness over ranks follows from
  `n * size + rank`, and that the limit
  means full by counting: the numbers below `max` are all in use once the stack is empty.
  Second part: `QueueInvariant`, from which `RequestsAreKept`, `NothingTwice` and,
  together, `RequestsAreExact`. `QueueInv` adds to them that the daemon's copy
  equals the front of the array until it takes the lock again and that the
  compaction's two indices bound a region of moved entries.
* `MpiChannel_proofs`, in four parts. (1) `TypeCorrect` and `BatchesAlwaysAgree`. The
  invariant `CtrlInv` is about control messages: for a plan, create comes before
  start before destroy on each way; a start or destroy finds its plan in the slot,
  unless the create is still ahead of it; a slot that a create will fill is free by
  the time it arrives; a batch id is held by one plan at a time.
  (2) `NoErrorEver`. `OpInv` says that every operation of a started plan is owed its
  event for one reason only (a message, a request, the daemon's set), that its
  state and its plan's life cycle agree, and what the daemon holds.
  (3) `AllDelivered` and `ChannelImplementsTransfer`. Tags are used again while messages
  with them are under way, so matching by tag is right only by order: `PostedOrder`
  says that receives and sends with one tag lie in the order in which their
  transfers were started, because control messages are. With `MatchRight` the two
  halves of a transfer are matched with each other or not at all. The mapping takes
  a transfer as moved when the message that starts its remote half has arrived and
  the receive is matched (`MovedRight`, `ReceiveWaits`); each step of the channel is
  then a start, a move, an event or a stutter.
  (4) `ChannelClosesCleanly`. `CloseInv`: a rank's sample is true while it has operations
  (`SampleRight`), ranks agree on whether a pass is the last (`PassesAgree`), and
  in the last pass only receiving halves are left (`LastPass`).
* `VerbsChannel_proofs`, first part: `VerbsInvariant`, from which `VerbsTypes`,
  `PostsAlwaysFit`, `CountersStayOrdered` and `ReceivesAreConserved`.
  The `load` of a queue pair is what its send queue holds or still owes: entries in
  use, polled completions not yet subtracted, GETs whose notification is not posted
  and the notification that is due. `Credit` ties it to the counters: `req_submit`
  plus what the lock holder has posted and not counted equals `req_finish` plus the
  load. A thread posts only when this difference is below `Depth`; a flagged GET
  adds two, so the load may be `Depth + 1`, but then a GET is still unprocessed,
  whose own entry is free again before its notification is posted. That is why the
  unchecked post of the daemon fits. `LockOK` (one holder per rank) is needed
  because only the holder may be between the post and the count.
  Second part: `NothingLostOrDoubled`. Each start of a transfer, at each end, is in exactly one
  place: not posted yet, queued, completed, due as a notification, or its event has
  been given (`Balance`). `ToldOnlyAfterRead` is one inequality of this balance, and
  the others make `VerbsImplementsTransfer`: `PlanStart` is the abstract start of all
  transfers of the plan, the execution of a request the move, `Handle` the events;
  all other steps stutter.
* `VerbsOpen_proofs`: `OpenedPeersReady` and `CompletionsCountedForPeer`. The invariant
  says how far behind a rank any other may be: one that has left a collective call
  has seen all enter it, so a rank that has left the first barrier knows that all
  are connected; and that ranks take the same branch on gids because the ports of a
  fabric are of one kind. With the flag pools (`ReadyWithFlagPools`) the steps of the
  opening are the same. `PoolGivesEachOnce` and `IndexNamesSignal` need `FlagInv`: the entries
  handed out are those below `used`, and the one that the holder of the lock has taken and
  not counted; signals of different threads differ; there are counters for exactly the
  signals in use; every notification under way names one.
* `UnrChannel_proofs`: `SelectionIsAsked`, `AreasApart`, `CallsAreRight` and
  `NothingLeftOpen`, from `ChannelInvariant`. An overlong list is known only up to its room; that it
  is refused all the same follows because one name more than there are channels must
  repeat one. `AvailInv`: the available channels are the inter list and what the intra list adds,
  without repetition; `Layout`: the areas of the channels laid out so far, empty ones included,
  do not overlap; `OpenInv` and `DaemonInv`: a channel is open from its turn until close, and
  the daemon is gone before the first is closed.
* `UnrPlan_proofs`: the division is a recursive function, and the library's induction
  theorems cannot be used; the proofs take the smallest counterexample instead, and
  first show that each recursive function and each fold exists. `DivisionIsExact`: for
  any size, rotation, number of channels and block size the parts tile the message,
  their increments add up to one event, and no part is a runt. `PlanTypes` and
  `HandlesAreInOrder` rest on `SyncInv`: no rank leaves a sync that another has not
  entered, so all take the same lengths, and the displacements lay the handles in the
  order of ranks. `ExitsAreUnsynced`: with `KeepInv` (a deferred plan keeps the
  arguments of its call) a rank exits only over a block whose owner has not registered
  it in a completed sync. `PlansAreDivided`, `PlansAreAsAsked` and
  `PlansTriggerOnce` follow from `BuiltInv`: the writes of a built plan are those of the non-empty parts of the
  arguments *of the call*, each with one write on its channel, whatever the caller has done to
  its arrays since; the sums over channels and parts are then exchanged with the
  sums over sends.

Some theorems have no run of their own: the types, `CountersOrdered`, `FreshGet`,
`Balance`, `NothingLeftOpen` and the division for all sizes (the runs evaluate it for the
plans of `MCPlan` and, in `WideDivision`, up to 40 bytes).

Only model-checked: liveness (`TriggeredIsDetected`, `WaitReturns`, `Drained`, `Served`,
`CompletesOrExits`, `AllClose`, `FinalizeReturns`, `AllOpen`); it and the fairness it
needs are outside the prover.

## 5. Not modelled

The glex channel is not in the repository. `uri_rdma.c` and the rest of
`uri_mem.c` only call through function pointers after asserting that the channel
is open. Querying verbs devices, choosing the device and freeing at the end of
`uri_verbs_channel_close` are input and output. Utilities, tools, benchmarks and
the empty collectives directory hold no protocol. What a device does with a full
completion queue or with unequal MTUs is the device's.

## 6. Plan

Done, in this order: signals (the library's promise), the structures the daemon
relies on (ring, pools, request array), the MPI channel that uses them, the
division, the plans, the verbs channel; then the ends of the life cycle (init,
daemon loop, finalize, opening and closing of the channels), the flag pool with
divided messages, and the abstract transfer; then the theorems of section 4. What is left:
a composition of several channels that share one signal, with the daemon of
each applying parts in turn, in place of the arbitrary order of `UnrSignal`, which
includes it.
