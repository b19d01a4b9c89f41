# Specifications of ptrace-alloc

TLA+ modules, TLC runs and TLAPS proofs about the code of this repository: a
ptrace based tracer that is to redirect the memory allocation calls of its
tracees, and the allocator that is to serve them. Paths below are relative to
the repository; line numbers are those of the commit the modules were written
from. `PROJECT.json` maps each definition to the lines it stands for.

## The system

| Component | State | Operations | Hard behaviours |
|---|---|---|---|
| FirstFitAllocator (`src/FirstFitAllocator.*`) | an array of nodes, two linked lists through it (free, occupied), a pool of addresses | Initialize, Allocate, Free, GetFreeSpace, GetTopAddress, IsValidDataStructure, Contains, IsAddressAllocated | long sequences of calls that reuse, split, move and combine nodes; running out of nodes; boundaries of half-open chunks |
| Ptrace (`src/Ptrace.*`, `src/Process.h`, `src/Syscall.*`) | `process_list_` with three flags per tracee | startTracing: waitpid, dispatch, seven handlers, callbacks, PTRACE_SYSCALL; the destructor | tracees run concurrently with the tracer; stops in any order; flags that mirror kernel state; SIGKILL between two requests; pids used again; vfork |
| TraceeLib (`TraceeLib/`) | in each tracee: FIFO path and descriptor, two signal handlers, a server object | constructor (install handlers, `kill(getpid(), 0)`), create_fifo (SIGUSR2), allocate_handler with serveRequest (SIGUSR1), destructor; in the tracer: SendMessageCallback of the tests | every system call may find what another process left; descriptors outlive an image, globals do not, a fork copies both; signals that coalesce; a message to an image that is not ready; SIGKILL skips the destructor |
| MosaicRegion, MemoryIntervalList (`src/MosaicRegion.*`, `src/MemoryIntervalList.*`) | base, current and maximal size; a sorted list of intervals with page sizes | Initialize, Resize (ExtendRegion, ShrinkRegion); AddInterval, Sort | alignment and rounding for three page sizes at once, the order of the intervals, mappings of other threads in the window between munmap and mmap |
| MosaicConfiguration (`src/MosaicConfiguration.*`) | parameters of three pools | read once from the environment | none; its check is a precondition of MosaicRegion |
| Syscall table, Logger, main, examples, tests | generated table; none | | a log line can throw |

How they interact. `Ptrace` is driven by the kernel (waitpid) and drives it
(ptrace requests); it calls back into a class derived from `EventCallbacks`,
which may replace a call on entry, set a return value on exit and ask for a
signal. With `load_lib` each tracee runs the TraceeLib constructor, whose
`kill(self, 0)` the tracer recognises and answers with SIGUSR2. The allocator
and the regions are libraries without callers in this repository other than
the tests: the Mosaic configuration gives a region its offsets, a region is the
pool an allocator would work in.

What makes each component correct:

* FirstFitAllocator: chunks never overlap, no byte and no node is lost, the
  lists stay sorted, the caller gets what it asked for at the first place that
  fits, and keeps it until it frees it.
* Ptrace: the flags agree with the kernel, the callbacks of a tracee come in
  order, every stop is answered, and only a killed tracee, or one that makes a
  call the table has no number for, can make the tracer give up.
* TraceeLib: a message is handled once, whole, and by the process it was sent
  to; a process the tracer takes for one that listens does listen; no call of
  the library fails. The code achieves this only under conditions it does not
  establish: see `lib_fork`, `lib_reuse` and `lib_tail`.
* MosaicRegion: what is mapped is the prefix of the intervals that
  `GetRegionSize` reports, and nothing else of the address space is touched.

## Modules

| Module | What it is |
|---|---|
| `FirstFitAllocator` | the allocator: array, lists, Allocate, Free |
| `Heap` | the abstract specification its caller relies on |
| `MCFirstFitAllocator` | sizes for the TLC runs |
| `FirstFitAllocatorProofs` | theorems about the allocator: its lists and chunks |
| `FirstFitAllocatorSpaceProofs` | theorems about the allocator: its bytes, and its caller |
| `Tracees` | the kernel's side of ptrace and the tracees; external to the repository |
| `Ptrace` | the tracer, composed with `Tracees` |
| `EventCallbacks` | the abstract specification a derived callback class relies on |
| `PtraceProofs` | theorems about the tracer |
| `Fifos` | the kernel's named pipes and descriptors; external to the repository |
| `TraceeLib` | the preloaded library in every tracee, and the tracer's half of the protocol |
| `Mailbox` | the abstract specification of the message channel |
| `TraceeLibProofs` | theorems about the library |
| `MosaicRegion` | the region and its list of intervals, in an address space it shares with other threads |
| `Region` | the abstract specification its user relies on |
| `MCMosaicRegion` | layouts of small pools for the TLC runs |
| `MosaicRegionProofs` | theorems about the region |
| `RegionProofs` | the proof that it implements `Region` |

### FirstFitAllocator

`start`, `end`, `next` are the fields of `_array`, `free_head` and
`occupied_head` the heads. `held` and `ret` are the caller's: the regions it
has been given and the last return value. `NULL` is 0 and the pool starts
above it; sizes are bytes, as in the code. A call is one step, since the code
runs in one thread per allocator (`MUTEX_GUARD` is empty, so that nothing else
would be correct).

A loop over a list is `ListFrom`; a loop that breaks at the first node with
some property is `FirstOn`, with `PrevOn` for its `prev_i`. Both are defined
by closure and not recursively, so that they can be reasoned about.
`AllocateMemoryRegionNode` and `AddFreedRegionToFreeList` insert in the same
way (`InsertNext`, `InsertHead`), and both removals are `UnlinkNext`,
`UnlinkHead`. `CombineAdjacentFreeNodes`, a loop that stays on a node while it
absorbs the next, is stated by its result: each maximal run of touching
neighbours becomes its first node (`RunEnd`, `Absorbed`).

The three branches of `Allocate` and the four of `Free` are actions of their
own. `AddFreedRegionToFreeList` works on the array as it is by then, after the
occupied node was reset or shortened, because its search for an unused node
may find the one just released.

The caller (`MayFree`) frees regions it holds, whole or with `PartialFrees` a
prefix, asks for too much, or frees what it does not hold. It does not free
from the middle of a region, which the code leaves as a TODO, nor with size 0.

### Heap

Regions handed out are pieces of the pool and disjoint; freeing a whole region
succeeds; a call that fails changes nothing for the caller. Placement and
refusals are left open. `HeapSpec` is checked as a property of the allocator:
`held` and `ret` have the same names in both.

### Tracees and Ptrace

`Tracees` says what Linux does: a tracee stops on entry to a call, at a fork or
exec event, on exit, and when it takes a signal; a child is traced from birth
and owes a SIGSTOP, taken after signals with lower numbers; rt_sigreturn leaves
`orig_rax` -1; a signal passed with PTRACE_SYSCALL is sent at a call's stop,
taken at a signal's stop, ignored at an event; a SIGSTOP that is let through
stops the process a second time; SIGKILL works at any moment; a pid is free
once reaped. All of it is marked external.

`Ptrace` has the variables of `process_list_` and `TracedProcess`; `pc`,
`waited` and `inject` stand for the position in startTracing and the locals of
the handlers, `event` for the last callback. A handler is two steps. The first
does everything up to the last ptrace request: erase or emplace the entry,
toggle, log, call back, update the flags. The second is PTRACE_SYSCALL. A
SIGKILL may fall before either, and a request for a tracee that is no longer
stopped throws (`system_error`). The log line of `handleSyscalledProcess` is
modelled since it can throw: getSyscall for a dead tracee, toString for a
number out of the table's range.

The callback chooses freely: on entry it may replace the call by one of
`Replacements` (never exit, so that programs end), on either side it may ask
for a signal. `setReturnValue` changes data only and is left out, as are exit
codes, EINTR (the loop just waits again) and the contents of log lines.
`PTRACE_SETOPTIONS` cannot fail where PTRACE_SYSCALL after it does not, and
children inherit the options; the two requests are one step.

`EventCallbacks` is the life of a pid as a callback class sees it. The
refinement mapping `phase` reads it off the tracer: no entry, an entry with
`in_kernel_` clear, or set; and "lost" once startTracing was left by an
exception.

### Fifos, TraceeLib and Mailbox

`Fifos` is what the kernel does for the library, all of it external: a name per
pid in `dir`, the messages in each pipe, the pipe behind each descriptor. A
pipe lives on without its name while a descriptor is open, and is empty once
nobody has it open.

`TraceeLib` has the globals of each image (`fifo_fd`, `fifo_path`, the handlers,
the server's `test_member_`) and the tracer's flag `has_user_signal_handlers_`.
`at` is the position of a tracee, named after the system call it makes next, so
that between two calls of the library any other process may run. Where a call
stops the tracee and the tracer answers, the answer is in the same step: a
tracee does not go on before it. `SafeSyscall` is TRACEE_SAFE_SYSCALL, whose
exception nobody catches; `Handled` is a signal, deadly without its handler.

The callback is the one of `unittests/tracee_lib_fifo_test.cxx`, the only one in
the repository that sends anything: after an mmap, if the flag is set and the
FIFO can be written, it writes a command and injects SIGUSR1. The loader maps
memory too, so that it may do so at "begin" and "handshake".

Three constants choose what the environment does. `ChildrenExec`: a forked
child only executes another program, as the tests' do; `lib_fork` shows what
happens else. `Kills` and `ReuseKilled`: SIGKILL may come, and its pid may come
back. `Tails` is what follows the message in the buffer serveRequest reads into,
which it does not terminate: the end of a string, a digit, or so many digits
that stoi throws. The tracer sends the digit of a command alone, so that what
follows is whatever the stack holds there; `lib_tail` shows what a digit does.

`Mailbox` is what the tests expect of all that: a process has at most one
message waiting, and serves that one. `TraceeLib` implements it under three
conditions: `ChildrenExec`, `~ReuseKilled` and `Tails \subseteq {"end"}`. The refinement mapping `box` is what the
handler is about to read, `member` the server's member, `alive` the processes.

### MosaicRegion and Region

`region_start`, `region_max_size`, `region_current_size` and
`region_intervals` are the fields; `layout` the arguments of Initialize,
`base_addr` its local; `memory` says of each 4KB page with which page size it
is mapped, or that another thread has it. Initialize is three actions, since
between its mmap, its munmap and the mappings of Resize other threads may map
memory (`ForeignMmap`): `Reserve`, `Release`, `Reallocate`. `Resize` is one;
between two of its mappings nothing can happen that could not happen before
the first.

The loops of ExtendRegion and ShrinkRegion select intervals by comparing
with sizes that do not change meanwhile, so each is the part it maps or unmaps
of every interval it selects, a function on the numbers of those intervals
(`ExtendedParts`, `ShrunkParts`). The kernel refuses a part whose ends are not
aligned to its page size, and a reservation there is no room for, and memory may
run out, of any pages; any of these ends the process (`THROW_EXCEPTION` calls `_exit`),
with pc "EINVAL" or "ENOMEM". `MemoryIntervalList` is a sequence: AddInterval
appends, and Sort puts each interval where the number of those that do not start
after it says, which is the result of the code's sort when no two start at the
same offset. The loop of Initialize that fills the gaps between the huge
intervals is the set of the gaps (`Intervals`). Nothing here is recursive, so
that all of it can be reasoned about.

Layouts are those MosaicConfiguration lets through (`PoolMatchesOffsets`).
Huge intervals that overlap, or that are not whole huge pages long, are left
out of the run: what the kernel makes of the second is not a matter of this code.

`Region` is what a user sees of all that: no reservation, no intervals, no parts.
Each offset lies on a page, whose size and end follow from the layout
(`PageSizeOf`, `PageEnd`); a Resize leaves just the pages that hold the bytes
asked for, all of the right size and at the right place, and touches no other.
Where the region is placed and when the process exits are left open. The
refinement mapping (`start_seen`, `size_seen`, `memory_seen`) shows the region
once Initialize is done: its three steps are a stutter, a stutter and
`Initialize`.

## Runs

| Run | Question | Bounds |
|---|---|---|
| `ffa_whole` | is the allocator right for a caller that frees whole regions? | 5 nodes, 6 bytes, sizes 0, 1, 4 |
| `ffa_prefix` | and with prefixes, while nodes last? | 4 nodes, 4 bytes, every size |
| `ffa_leak` (violation) | RUN_VALIDATION's assertion, nodes running out | 3 nodes, 5 bytes, every size |
| `mosaic_layouts` | is the region what it says it is? | 3 page sizes 2, 4, 8; pools of 6 and 16 bytes; 40 layouts; every place in 30 bytes; every size; one foreign page |
| `ptrace_signals` | flags, callbacks and return, with signals and replaced calls | 2 pids, 4 calls, 2 signals |
| `ptrace_fork` | the same for fork, vfork, clone and exec | 3 pids, 4 calls |
| `ptrace_kill` | what holds when tracees are killed or make a call without a name, with the handshake's SIGUSR2 on its way? | 2 pids, 4 calls, statx among them, 2 signals or kills |
| `ptrace_newborn` (violation) | "after the newborn has stopped" | 2 pids, 2 calls, 1 kill |
| `lib_exec` | is the channel a mailbox, over exec, fork and exec, exit and kill, if messages end where they end? | 3 pids, 4 pipes, 2 descriptors |
| `lib_fork` (violation) | a child that goes on without an exec | 3 pids, 4 pipes, 2 descriptors |
| `lib_reuse` (violation) | a killed process whose pid comes back | 3 pids, 5 pipes, 3 descriptors |
| `lib_tail` (violation) | a digit on the stack after a message | 2 pids, 3 pipes, 2 descriptors |

Why the bounds are enough. In `ffa_whole` a pool of six bytes holds up to five
chunks of sizes 1 and 4 with gaps, so that an insertion finds the front, the
middle and the end of a list, a freed chunk touches no, one or two neighbours,
combining absorbs a run of more than two, and a split is refused for lack of a
node; the run explores all sequences of calls of any length. `ffa_prefix` has
as many nodes as bytes, so that nodes never run out: it separates what prefixes
do from what exhaustion does. `ffa_leak` has fewer nodes than pieces. That the
lists stay sound even then is proved (see below).
In the tracer's runs the handlers keep one entry per pid and interact only
through waitpid's order; two pids give every order of two, the third in
`ptrace_fork` lets a vfork parent, its child and a sibling overlap. The calls
suffice for a process to install a handler, be signalled, return and fork, and
pids are used again within the bound. Programs that make more calls repeat
the same transitions: the flags are back to their initial values after every
call.

`mosaic_layouts` has every way to put one interval of each huge page size, or
none, into the pool, at offsets that are multiples of the small page: those
where an interval lies first, last, in the middle, next to the other, and
those where no address aligns both. A page is of two bytes, so that a size may
end inside one, and the reservation may be at every alignment. Resizes cross
no, one or several intervals.

`lib_exec` has a process, its child and the child's or its own next child, each
of at most two images (`MaxFds`: every image keeps the descriptors of those
before, and `Fork` and `Exec` stop short of the limit, where the code aborts);
two commands, one that sets the server's member and one that resets it. Pids
are used again without bound. `Pipes` is large enough: a process that waited
for a fresh pipe for ever would violate `EveryImageListens`. The theorems hold
for any number of each.

Deadlock is checked for the allocator, which can always be called. It is not
for the tracer, which stops after its destructor has run; there the liveness
properties say that it does not stop before, and not for the library, whose
processes end. Nor is it for the region, whose
process may exit.

Fairness. `FairSpec` has weak fairness of the tracer, a loop that never
sleeps but in waitpid, and of each tracee: the kernel schedules it, and a
traced program is taken to be one that ends. Signals and kills are not fair.
Since the number of calls is bounded, no fairness among the tracees waitpid
chooses from is needed, and none is claimed. In `TraceeLib` a process inside the
library is scheduled and every stop of it is answered, which is what
`EveryStopIsAnswered` of `Ptrace` says; a program need not do anything ever.

Results that are violations:

* `ffa_leak`: freeing a prefix with no unused node loses the bytes and returns
  an error for a call that took effect (`FirstFitAllocator.cpp:380`).
* `ptrace_newborn`: any status of an unknown pid is taken for a newborn's stop
  (`Ptrace.cxx:100`); a child killed at birth ends startTracing.
* `lib_fork`: a forked child has its parent's FIFO as its own; whoever exits
  first unlinks it, and the other aborts or is not heard (`tracee_lib.cxx:76`).
* `lib_reuse`: a message left in the FIFO of a killed process is read by the
  next process with its pid, together with its own (`tracee_lib.cxx:112`).
* `lib_tail`: the buffer a message is read into is not terminated
  (`tracee_server.cxx:14`); with a digit after it, the message is another number.

Noticed without a run, since one look at the lines settles it: the call of
ValidateRegionOffsets is commented out under its comment
(`MosaicRegion.cpp:200`), and MAX_SYSCALL_NUM is the largest call number and not
one more (`gen_tables.py:75`, `Syscall.cxx:21`), so that the log line of a call
to statx throws and ends the tracing of every process: `ptrace_kill` has such a
call, and shows that it and SIGKILL are the only causes of an exception. Free
chunks that touch may remain, since a freed region joins one neighbour only
(`FirstFitAllocator.cpp:249`), as the TODO at the head of the file says; `Heap`
leaves open when a request is refused. IsAddressAllocated returns the test that Contains makes, and
its search of the occupied list is never reached (`FirstFitAllocator.cpp:460`).

## Properties

Of the allocator: `TypeOK`; `NoDisconnectedNode`, `NoOverlap`, `ListsSorted`
(the structure); `RunValidation` (the code's own assertion); `AgreesWithCaller`
(occupied chunks are what the caller holds, GetFreeSpace and GetTopAddress
report it); `FirstFitByAddress`, `FailedFreeChangesNothing` (steps);
`HeapSpec` (the caller's view).

Of the tracer: `TypeOK`; `InsideKernelAgrees`, `ReturningAgrees`,
`HandlersAreThere`, `ProcessListTracksTracees` (its state mirrors the
kernel's); `ThrowsHaveTheirReason`, `DestructorKillsTheRest` (failure);
`HandshakeKillsNobody` (where nobody but the tracer sends SIGUSR2);
`CallbackOrder` (refinement); `EveryStopIsAnswered`, `StartTracingReturns`
(liveness; the second only without kills and for calls that have a name, since
either ends startTracing by an exception).

Of the library: `TypeOK`; `ToldListens` (the tracer's flag and what the tracee
has open); `NobodyAborts` (no call of the library fails; that stoi does not
throw is what `Tails` without "digits" assumes, not something shown);
`FifoGoesWithItsProcess` (names); `EveryImageListens` (liveness); `MailboxSpec`
(refinement, under the three conditions named with `Mailbox`).

Of the region: `TypeOK` (with the order of the intervals);
`RegionWithinReservation`, `ValidOffsetsAreMapped` (alignment);
`MappedIsPrefix`, `SizeIsWhatIsNeeded` (what is mapped);
`GrowingKeepsContents` (what may be mapped next: mmap uses MAP_FIXED here, which
silently replaces pages that are there); `OnlyGrowingTakesForeignPages` (steps);
`RegionSpec` (refinement: pages by the layout, not by the intervals made of it).

Definitions introduced by a comment "Fault" are variants of a definition with
a plausible mistake in it. No specification uses them; each property is checked
to fail when one of them replaces the definition after it.

## Proofs

`FirstFitAllocatorProofs`, for every array length, pool and set of sizes, from
`FFAAssumption` alone: Len positive, PoolStart above NULL and below PoolEnd.

The inductive invariant `IInv` is `TypeOK` together with two sets of nodes, F
and O, the free and the occupied ones, for which

* `Shape`: each is an ordered list (`Ordered`: its head has the least start,
  the successor of a node is the node of the set with the next greater start,
  and the last one ends the list), they are disjoint and cover the nodes
  whose start is not NULL, and their chunks are nonempty and apart (`Apart`);
* `Caller`: the regions held are apart from one another and from every free
  chunk, and every occupied chunk is the end of one of them, the whole of it
  unless a prefix was freed and lost.

`NoOverlap` and `ListsSorted` alone are not inductive: they say nothing of how
a list is threaded, and so not that a loop over it ends or what it meets.
Stated with F and O as sets and the order of `start`, a list needs no
induction over its length: `OrderedList` shows once that `ListFrom` of such a
list is the set. `Caller` is needed since a freed region goes to the free list
by the caller's address, not by the node's.

The argument: what `FirstOn` and `PrevOn` find on an ordered list; then one
lemma per list operation (`OrderedInsert`, `OrderedUnlink`, `Combined`) which
gives the new list; then one lemma per action that changes the array
(`ExactFitKeeps`, `SplitKeeps`, `FreeWholeKeeps`, `FreePartKeeps`), the two
frees sharing `AddFreedKeepsShape`.

Theorems: `TypeCorrect`, `ChunksNeverOverlap`, `NoNodeDisconnected`,
`ListsStaySorted`, `AllocateIsFirstFit`; all of them for prefixes too, and however
few nodes there are.

`FirstFitAllocatorSpaceProofs` proves what depends on no byte being lost. Its
hypothesis is `NothingLost`: the caller frees whole regions, so that every Free
releases a node, or there is a node for every byte of the pool. One of the two is
needed: `ffa_leak` is a caller of prefixes with fewer nodes than bytes, for whom
the code loses some. `ffa_whole` and `ffa_prefix` are instances of one each.

* `Covered` (every byte of the pool is in a chunk) is the invariant added to
  `IInv`. That a Free of a prefix finds a node is a matter of counting:
  chunks that are apart and a byte that is in none of them
  (`NodeToSpare`).
* The sums of GetFreeSpace and IsValidDataStructure, which the model writes with a
  fold over a set, are numbers of bytes (`SizesAddUp`). The library's induction over
  finite sets cannot be used here; instead, if two functions added up sizes as the fold
  does (`Adds`) and differed, they would differ on a smallest set of nodes, from which
  one node can be taken away (`SumIs`, `AddsOnce`).
* `Backed`: every region held has an occupied node of its own, which prefix frees
  that lose bytes do not keep. With it `AllocateRefines` and `FreeRefines` map the
  branches of a call to steps of `Heap`.

Theorems: `ValidationSucceeds` (RUN_VALIDATION's assertion), `AllocatorAgrees`,
`FreesAreAtomic`, and the refinement `AllocatorIsHeap`.

`PtraceProofs`, for any processes, calls and signals and any bound on them, with
SIGKILL at any moment, from `PtraceAssumption`. The inductive invariant `IInv`
is `TypeOK` with

* `Shape` of every process: which stop it can be in at which point of a call,
  and that a call that needs a handler or a handler's frame has it;
* `Known` of every process: without an entry it is `Newborn`, which is to say
  that it has never been let go on; with one it is `Followed`, unless it is the
  one waitpid has just reaped, whose pid may be a newborn's again before its
  entry is erased. `Followed` is what the properties say when the tracer waits,
  carried over to the moments between a handler's two steps, at which
  `in_kernel_` is ahead of the process (`Inside`);
* `Waits`: what a handler knows of the status it was called with (`Handles`),
  which may be out of date in one way only, a SIGKILL, and what its last request
  finds (`Continues`).

`InsideKernelAgrees` alone is about the moments the tracer waits, and says nothing
of a process that died or came back between a wait and the request that answers
it. The tracees' steps are shown to keep `IInv` by `RunningKeeps` and
`GrownUpKeeps`, which leave of each action what it does to the process that takes
it; the handlers by `HandlingKeeps`; both rest on what leaves other processes
alone (`Untouched`). `HandshakeIsSafe` adds `Answers` (a SIGUSR2 on its way finds
its handler, since only an execve takes handlers away and a process with a signal
pending makes none), `ThrowsAreExcused` adds `Excused` (a tracee that made the
tracer throw stays killed, or in the call without a name or dead in it).

Theorems: `TypeCorrect`, `InKernelIsRight`, `ReturningIsRight`, `EntriesAreRight`,
`HandlersAreRight`, `DestructorIsThorough`, `ThrowsAreExcused`; `HandshakeIsSafe`, if nobody else sends SIGUSR2; and
`TracerIsEventCallbacks`, the refinement: handlers map to `Step`, what leaves
startTracing to `GiveUp`, everything else to a stutter.

`MosaicRegionProofs`, for any three page sizes that divide one another, any address
space and any other threads, from `MosaicRegionAssumption`. `RegionIsReserved` holds
for every layout, by the arithmetic of ROUND_UP (`RoundUp`, `AlignmentFits`). The
others assume `AllPlausible`: the huge intervals of a layout are whole huge pages,
begin at a 4KB page of the pool and do not overlap. The code counts on this
and does not check it, since the call of ValidateRegionOffsets, which checks the
first two, is commented out; the test for an overlap is nowhere. It is also
what the layouts of `mosaic_layouts` satisfy, some of which ValidateRegionOffsets
would refuse.

The inductive invariant `IInv` follows Initialize step by step, and says once it is
done (`Placed`, `Prefix`, `Needed`) where the region is, that the mapped pages are
its first `region_current_size` bytes, and that this is the least boundary of a page
that is not below the size asked for. It rests on

* `IntervalsPartition`: Sort, AddInterval and the gaps give intervals in order
  which divide the pool (`Partition`);
* `ExtendIs`, `ShrinkIs`: whatever the sizes, the parts mapped or unmapped are
  the pieces of the intervals between the old size and the one needed
  (`PartsAre`), which is where the boundaries of the code's comparisons matter;
  `PartsPages` turns pieces into pages;
* `ResizedKeeps`: so that both branches of Resize lead from a prefix to a prefix.

The properties alone are not inductive: `SizeIsWhatIsNeeded` does not say what is
mapped, `MappedIsPrefix` not that the prefix ends at a page, and neither says that
the intervals divide the pool, without which ExtendRegion would map over what it has.

Theorems: `TypeCorrect`, `RegionIsPrefix`, `SizeIsLeast`, `ContentsAreKept`,
`ForeignPagesAreKept`, and `ValidIsMapped`, which for layouts that
ValidateRegionOffsets accepts shows that one alignment suits both huge pages.

`RegionProofs` shows `MosaicRegionIsRegion`, under the same hypothesis. The intervals
say of every offset what the layout does (`LayoutPage`), and the least boundary not
below a size is the end of the page its last byte lies on (`NeededIsPageEnd`), so that
what Resize leaves is what `Region` asks (`ResizedHolds`). Then one lemma per action:
`Reallocate` is `Initialize` or `Exit`, `Resize` is `Resize` or `Exit`, a page taken by
another thread is `Mmap`, the rest are stutters.

`TraceeLibProofs`, for any processes, pipes, descriptors and commands, from
`FifosAssumption` and `TraceeLibAssumption`. `TypeCorrect` needs nothing more. The
others assume what they name: `ChildrenExec` (else `lib_fork`), that stoi does not
overflow ("digits" \notin Tails), for the mailbox that a message ends where it
ends (Tails \subseteq {"end"}, else `lib_tail`), and for what survives a kill ~ReuseKilled (else
`lib_reuse`).

The inductive invariant `IInv` is `TypeOK`, `OneName` (no pipe has two names)
and `Where`, which says for each position in the library what the process then
knows: that its path is its own, that the name is not there at mkfifo and is
there at open and unlink, that no descriptor is left over when one is opened,
that it listens in main unless it is a child that has only to execute.
`ToldListens` alone says nothing of the calls in between, at which another
process might have removed or made the name. `MInv` adds `Clean`: a name goes
with its process, a tracee in the handler has one message, and a pipe has none
but that of such a tracee or of one killed there. One lemma per action shows
that it keeps both, most of them through a few lemmas on `Fifos`' operations.

Theorems: `TypeCorrect`; `ToldTraceesListen`, `NoCallFails`, `FifosGo`; and
`ChannelIsMailbox`, the refinement, whose steps map to Send, Serve, Renew, Clone,
Die or a stutter, action by action.

Only model-checked: liveness (`StartTracingReturns`, `EveryStopIsAnswered`,
`EveryImageListens`), since the prover has no support for ENABLED and so for fairness.
Every other property of a passing run is stated by a theorem, for the layouts and
callers named above. What the runs that expect a violation show, TLC's
counterexamples show.

## Not modelled, and why

* Logger, the text of traces and error messages, main, the examples: output.
* The contents of the call table: generated; only which calls are out of range.
* The mapping of the node array, and the allocator's destructor: one call each,
  no interleaving.
* Threads inside the allocator: the build has no guard (`MUTEX_GUARD` is empty)
  and nothing in the repository calls an allocator from two threads.
* Threads of a tracee: planned.

Most of the lines of the repository are those of a vendored googletest; of the
rest what is left out is mainly output, the generated table and the tests
themselves.

## Plan

1. Done: `FirstFitAllocator` with `Heap`, its runs and its proofs; `Ptrace`
   with `Tracees` and `EventCallbacks`, their runs and proofs; `TraceeLib` with
   `Fifos` and `Mailbox`, its runs and its proofs; `MosaicRegion` with `Region`,
   its run and its proofs.
2. Threads of a tracee in `Tracees` (clone with CLONE_THREAD, execve by
   another thread than the leader).
