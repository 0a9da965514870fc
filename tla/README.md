# A verification project for the Raspberry Pi kernel

The repository is a bare-metal kernel for the four cores of a Raspberry Pi 3.
One core boots, builds a console, page tables, a heap and two barriers, wakes
the other three, and then all four run a test's `work()` one after the other
and stop. It is small, but every line of it runs before there is an operating
system to lean on: the locks are built from exclusive accesses and `wfe`, the
cores are started through a table of the firmware, and the order in which
things come up is the only protection they have.

This directory holds TLA+ models of that code, the TLC runs that check them and
the TLAPS proofs about them. Paths below are relative to the repository.

## The system

| Part | Source | State | Operations | What is hard |
|---|---|---|---|---|
| Spin lock, `critical()` | `include/atomic.h`, `include/loop.h`, `include/critical.h`, `src/utils.S` | one byte; each core's exclusive monitor and event register | `lock`, `unlock`, `critical(work)` | interleaving of exchanges, which events wake a `wfe` |
| Barrier | `include/atomic.h` | one `uint32_t` | `sync` | a decrement is a load and a store, wrap-around, early leavers |
| Boot and `kernel_init` | `src/boot.S`, `src/kernel.cpp`, `include/percpu.h`, `include/core.h` | bss, spin table, `smpInitDone`, `coresAwoken`, the two `Barrier*`, stack pointers | `_start`, `secondary`, `wake_up_cores`, `pickKernelStack`, `kernel_init` | order across cores, a lost wake-up, shared stacks |
| Tests | `tests/t0.cpp`, `tests/t1.cpp` | `counter` | `kernelMain` on every core | a counter shared by four cores |
| Heap | `src/heap.cpp` | `array` with boundary tags, `avail`, `theLock` | `heapInit`, `malloc`, `free`, `new`, `delete` | merging, a list inside the blocks, several cores at once |
| Console | `src/printf.cpp`, `src/debug.cpp`, `src/exec.cpp` | the printf lock | `printf`, `printf_no_lock`, `panic`, `exc_handler` | a lock taken twice, output of several cores |
| Formatting, libk | `src/printf.cpp`, `src/uart.cpp`, `src/libk.cpp` | none but its loops' | `tfp_format`, `putchw`, `a2d`, `a2i`, `ui2a`, `i2a`, `printf_no_lock`, `sprintf`, `uart_puts`, `uart_hex`, `strlen`, `streq` | digits and divisors at the boundary, texts that end in a conversion |
| UART | `src/uart.cpp` | device registers | `uart_init`, `uart_putc`, `uart_getc` | device I/O, one device for all cores |
| Page tables | `src/mmu.cpp`, `src/utils.S` | four tables, the VideoCore split, five system registers | `MMU_setup_pagetable`, `MMU_enable` | loops bounded by an outside answer, writes that take effect late |
| Mailbox | `src/rpi-SmartStart.cpp` | device registers | `mailbox_write`, `mailbox_read`, `mailbox_tag_message` | answers for others, failure |

How they interact: `kernel_init` calls every other part in turn on core 0;
`wake_up_cores` and the firmware's loop are the only way the other cores learn
of it; from then on the cores share the two barriers, the critical-section
lock, the printf lock, the heap and `counter`.

Left out for good: `custon_printf.cpp`, `mmuOld.h`, `sched.h`, `spinlock.h` and
the page-mapping code of `kernel.cpp` (called by nothing), what `libk` has
besides `strlen` and `streq` (expressions and declarations), `uart_getc` (called by
nothing), and `Debug` (its sink is never set, so it prints nothing).

## The modules

| Module | Models | How it corresponds to the code |
|---|---|---|
| `Mutex` | what a lock promises | abstract: `owner`, `want` |
| `SpinLock` | `SpinLock::lock`, `unlock` | one action per instruction that other cores can see: `Monitor` is the `ldxr` of `monitor()`, `WakeOnEvent`/`WakeEarly` the two `wfe`, `Exchange` the `exchange(true)` with both results, `Unlock` the store. `held` is the only ghost: the locks between the return of `lock()` and the call of `unlock()` |
| `SpinLockProof` | | invariant and refinement, proved |
| `Rendezvous` | what a barrier promises | abstract: `arrived`, `departed` |
| `Barrier` | `Barrier::sync` | `LoadExclusive`, `StoreExclusive`, `StoreFails` are the loop the compiler makes of `__atomic_add_fetch`; `Leave` is the iteration of the spin that reads 0 |
| `BarrierProof` | | invariant and refinement, proved |
| `Kernel` | `boot.S`, `kernel_init`, `tests/t0.cpp` | begins at `_start` with whatever RAM holds in bss, which `ClearBss` clears before `SetStack` and `PickBootStack` choose a stack (until then the boot core has none: `eret` leaves it on an sp nobody has set); a program counter per core, one action per line of `kernel_init` that others can see, three stores of the spin table that land when they like, the firmware's `wfe; ldr; cbz` loop. The two locks are instances of `Mutex`, and `add_fetch` is one step: that is what `SpinLock` and `Barrier` are shown to provide. Using a thing before it exists leads to the place `"fault"` |
| `KernelProof` | | the bring-up's order, the stacks, both meetings and the order of the output, proved |
| `Allocator` | what `malloc`/`free` promise | abstract: a set of disjoint regions |
| `Heap` | `heap.cpp` | an operator per function, on a record of `array` and `avail`, in the source's order of reads and writes. Requests are in bytes; `Units` is the rounding in a `size_t` and the assignment to an `int` behind it. `New` and `Delete` are the two C++ operators, with the panic for a null pointer |
| `HeapProof` | | what `Units` and `FreeIndex` compute, and every property of run `heap`, proved |
| `SmpHeap` | `malloc` on several cores | the guard, the search and the split as separate steps; what the search saved (`bestFitIndex`, `minSize`) is what the split uses, and a search that meets a damaged list panics (`SearchPanics`); one copy of `coresAwoken` per translation unit |
| `Console` | `printf`, `panic`, `exc_handler`, `uart_putc_wrapper` | a program counter per core and one step per byte at the UART; `after` is the return address of the `printf` a core is in. The lock is `Mutex` again. `output` is what a terminal would show, with the number of the text each byte belongs to |
| `ConsoleProof` | | whole texts and paired line endings, proved |
| `Format` | `tfp_format` and all it calls, `printf_no_lock`, `sprintf`, `uart_puts`, `uart_hex`; `strlen` and `streq` of libk | one action per iteration of a loop over the text or over the digits; the variables are the code's (`fmt`, `ch`, `lz`, `w`, `num`, `d`, `bf`). The index `Len(text) + 1` reads the NUL. The width `w` is an int that wraps (`AsInt`). `Rendered` is the reference: what a format means, as a walk over the whole text, a conversion at a time, that knows nothing of the loops |
| `FormatProof` | | reads inside the text, the divisor, the size of `bf` and the whole output, proved |
| `Powers` | | powers as a recursive function, for `Format` and what is proved about it |
| `Mailbox` | `mailbox_write`, `mailbox_read`, `mailbox_tag_message` | one action per function; `message` is the array in the caller's frame, which the VideoCore (external) writes between taking the request and sending its address back |
| `PageTable` | `MMU_setup_pagetable`, `MMU_enable`, `enable_mmu_tables` | extends `Mailbox` with the four tables; one operator per loop, from the index the loop before left. `Walk1to1` and `WalkVirtual` are the processor's table walks. `EnableMmuTables` is the list of barriers and of the registers written; a register write is `posted` until an `isb`, or the processor on its own, makes it `effective`, and the stores to the tables are on their way until they are `drained` |
| `PageTableProof` | | the mailbox, the map and the MMU's start, proved |
| `Numbers` | | facts about `\div`, powers, induction and walks that three proof modules use |
| `MC*` | | instances for TLC |

Operators introduced by the comment "Mistake:" are not part of any
specification. Each is a definition of the model with one plausible slip, and
`PROJECT.json` says which property notices it.

## The runs

| Run | Bounds | Result |
|---|---|---|
| `spinlock` | 3 cores, 2 nested locks, any initial event registers | exclusion, a truthful lock byte, progress, `Mutex` implemented |
| `spinlock_hardware` | the same | **violated**: `LockProgress` |
| `barrier` | 4 cores, a counter of 8 values | nobody leaves early, exact counter, everyone leaves, `Rendezvous` implemented |
| `kernel` | 4 cores | no fault, private stacks, output in order, both meetings, termination with the whole output |
| `kernel_hardware` | the same | **violated**: `CalledByAllCores` |
| `heap` | 24 words of 8 bytes, requests of 0, 1 and 33 bytes, searches of 2 blocks | tags, free list, merging, no leak, clients' words untouched, a null pointer only for a reason, `Allocator` implemented |
| `heap_free` | 20 words, requests of 1, 17 and 40 bytes | **violated**: `NoFalsePanic` |
| `heap_race` | 2 cores, one call each | **violated**: `OneCorePerBlock` |
| `console` | 3 cores, 3 texts, an exception on any core at any byte | whole texts, paired line endings, no `printf` waits but behind a core that was struck |
| `console_panic` | 3 cores, 2 texts, any core may panic | **violated**: `PanicIsPrinted` |
| `mmu` | tables of 16 entries, blocks of 2 MB, 2 of them devices, every split; FIFOs of 2 words, 3 words unasked | the frame outlives the request, the result is the answer, a one-to-one map, shared memory uncached, RAM cached when there is an answer, the MMU on only with its tables and registers in effect, and on in the end |
| `format` | 256 unsigned ints, every text of up to 4 of 6 letters and conversions with 7 more, widths on both sides of the largest int, 14 numbers, 4 strings | nothing read behind the text, no wrap of the divisor, `bf` large enough, the output equal to the reference, termination |

Why the bounds are enough. Three cores give a lock a holder and two waiters, the
smallest case in which one waiter's exchange can disturb another's monitor; two
locks give the nesting the tests use. The kernel has four cores and so have the
runs of `Barrier` and `Kernel`; counters of eight values leave room for four
cores and for a wrap to show. Twenty-four words hold the two sentinels, `theLock`
and four blocks of the smallest size, so that a block can be freed with both, one
or none of its neighbours free, and requests of 1 and 33 bytes (blocks of 4 and
7 words) meet remainders on both sides of the split's limit of 4. `Attempts` is 2
there, and a list of the blocks that fit into 24 words is never longer, so the
case of a list longer than the search, which `HonestOutOfMemory` excuses, does not
happen; in the kernel it takes 21 free blocks. `SizeModulus` (1024) and
`IntModulus` (64) keep a `size_t` wider than an `int` by more than a word's
bytes, as on the board; no request of a run is large enough to be narrowed, and
the proofs say what happens to those that are.

A text of four letters ends in every place a conversion has; the alphabet has the
`%`, both kinds of digit, a letter that is a digit only to `a2d`, and a conversion
of each kind of argument. With 256 unsigned ints the least int and the largest
unsigned int have three digits each, as with 2^32 they have ten each, and `bf` has
the one byte more for the sign and the one for the NUL that it has in the code.
The texts `%05` with another conversion behind show that no state of the first
conversion is left in the second. The largest int is 127 there: the widths 127, 128,
200 and 300 are the limit, the first beyond it, one that ends negative and one that
comes round to a positive number. The type invariant
covers all four, `OutputIsFormatted` the first: the others are not `Understood`.

Three texts of a character and a newline let a core print, another wait behind
it and a third one be struck at each of the places a text has: before, between
and after its bytes, in the middle of a line ending. `exc_handler` is two of its
`printf` calls, the first without a newline, since the others repeat these.

Sixteen entries with two device blocks keep the code's proportions of 512 and 8:
splits of 0, 1 and 14 blocks are the ends of every loop, and megabytes in blocks
of two make splits that fall inside a block. FIFOs of two words can be empty,
half full with words of an earlier boot stage, and full. No earlier stage leaves
a word on the tags channel: the kernel has no other sender, and such a word would
be taken for the answer, since `mailbox_read` does not compare the address.

Deadlock is checked in every run but `barrier`, where the cores stop when they
are through. `Kernel` has a step `Halted` for the machine with every core in
`proc_hang`, so that a core waiting for ever anywhere else is an error. `Console` has a step
`Quiet`, which is there only when every core is through, halted, or waits for a
lock somebody holds; that the waiting ends is what `PrintfReturns` says.

### Fairness

A core that can go on does so: there is no scheduler, each core is a processor.
Hence weak fairness of each core's steps. A lock is not handed out in turn (it
is a test-and-set lock), so fairness of acquisition in `Kernel` is of "some
waiting core gets it" only; `critical()` is called once by each core, which makes
that enough. The same holds in `Console`, where the number of texts is bounded and so
nobody can be overtaken for ever. An exception or a panic need not happen and has no fairness.
In `PageTable` the VideoCore works on what it is sent, the words it sends unasked
are finitely many, and a register write takes effect in the end. `Format` is one
core running on, so its fairness is of the whole next-state relation.
A store-exclusive that is retried for ever succeeds at last (strong
fairness), the progress the architecture gives such loops. `wfe` is the
interesting one. Under QEMU, where the tests run, it is a yield, and
`QemuSpec` makes waking early as sure as any other step. The architecture only
promises to wake a core after an event, and `HardwareSpec` has no fairness for
waking early.

### What the violated runs show

- `spinlock_hardware`: `monitor()` ends in a `wfe`, so `lock()` sleeps before it
  looks at the lock, and the exchange disarms the monitor, so the `wfe` after it
  has nothing to wake it. On hardware without stray events callers sleep beside
  a free lock.
- `kernel_hardware`: no `dsb` orders the spin-table stores before `sev`. A core
  can use up the event before it can see its word.
- `heap_free`: `free` divides the byte offset by 4 where `malloc` and `heapInit`
  were changed to 8. Run `heap` therefore gives the rest of `free` the header it
  means to find (`HeaderSpec`), and shows that with the right index the merging
  is correct; the program as coded is `Spec`.
- `console_panic`: `panic` takes the printf lock and calls `tfp_printf`, which
  takes it again. `Message`, `LastNewline` and `PanicUnlock` are therefore never
  reached; they are in `PanicNext` only, so that the passing run's relation holds
  no step the program cannot take. `printf.h` calls the code re-entrant and "safe
  to call it from interupts too", which is the older, lock-free printf: the case
  `OwnerIsStruck` of `PrintfReturns` is the exception that prints inside a `printf`.
- `heap_race`: the guard in `malloc` is gone before the search starts, and the
  flag that switches it on is another translation unit's copy.

### Disagreements without a run of their own

Met while modelling; the models follow the code.

- `heapInit` prints a line (`heap.cpp:127`) that `tests/t0.ok` does not have, so the
  comparison the Makefile makes cannot succeed. `OutputInOrder` puts that line
  first and shows that the rest is as the file says.
- `heap.cpp:6` calls the heap "first-fit"; `malloc` takes the best of the first 20
  free blocks.
- The `if` around the mailbox call (`mmu.cpp:136`) has no `else`. Refused, the split
  stays 0 and all RAM becomes `MT_NORMAL_NC`, where the comment in line 152 says
  RAM is normal memory. On uncached memory the locks' exclusive accesses are no
  longer sure to work. `RamIsCachedOnAnswer` states what an answer gives.
- `malloc(0)` is a null pointer, so `operator new` panics for an empty array.
- `tfp_format` has no `%p`, which `heap.cpp:166` uses, and `%X` takes an unsigned int
  where `exec.cpp:68` passes an unsigned long: the upper half is lost. Zero
  padding comes before the minus sign (`00-5`). `Format` models all three.
- `a2i` gathers the width in an int and stops at a digit *above* the base
  (`printf.cpp:105`). `%2a` is therefore read as a width of 30, and from 2^31 on a width overflows:
  `%3000000000d` prints no padding. The language leaves the overflow open. The
  Makefile's build has no `-O`, so the compiler multiplies and adds in a 32-bit
  register, and `AsInt` keeps the low bits. No text of the kernel has such a width.
  `Understood` names the texts without either, and `OutputIsFormatted` is about those.
- `boot.S:42` says EL1h, but 0x3c4 is EL1t: after `eret` sp is `SP_EL0`, which
  nothing has set, until line 61 sets it. `memzero` uses no stack in between.
- `memzero` clears bss eight bytes at a time and so writes up to seven bytes past
  `__bss_end`, which the linker script leaves unused.

## The proofs

Every theorem holds for all values of the constants that the named assumptions
of the module allow, and each is proved from one inductive invariant per
component. What the invariants say was checked with TLC first; those of the
heap and of the formatting are the ones that no run evaluates, since they quantify
over functions.

`SpinLockProof`, for all sets of cores and locks and any nesting, from
`NoCore \notin Core`, `NoLock \notin Lock` and `Focus \in Lock`:

- `LockExcludes`, `ByteTellsTheTruth`, `TypeCorrect` from one inductive invariant,
  `TypeOK /\ MutualExclusion /\ ByteIsTrue`. Neither exclusion nor the byte's
  truth is inductive alone: an exchange that reads `false` keeps exclusion
  because a clear byte means no holder, and an unlock keeps the byte right
  because there is one holder. Events and monitors play no part: they decide
  when a core runs, not what it finds.
- `SpinLockImplementsMutex`: with `Focus` any one lock, the owner is the core that
  holds it and the wanting cores are those inside its `lock()`.

`BarrierProof`, for every finite set of cores whose number is below the range of
the counter:

- `BarrierTypes`, `BarrierHolds` and `CounterIsExact` from an invariant that adds
  `MonitorsAreFresh`: while a core's monitor is armed, what it loaded is still the
  counter. That is what makes the two-step decrement exact; the rest is that a
  finite set with one element less has a cardinality of one less.
- `BarrierImplementsRendezvous`.

`KernelProof`, for every set of cores, whatever RAM holds at reset:

- `KernelTypes`, `BringUpIsSafe` and `StacksArePrivate` from `TypeOK /\ BringUp /\
  OwnStacks`. `BringUp` says what exists when the boot core is at a line, and that no
  secondary is past the firmware's loop before the boot core is past that line.
  The link between the two is the spin table: a word in it, or a store on its
  way there, means the boot core has executed `wake_up_cores`. `OwnStacks` ties
  each stack to the place of the core that uses it.
- `CoresStartTogether` and `CoresStopTogether`, the refinements of `Rendezvous`, with two
  hypotheses of their own: the set of cores is finite and `BarrierCount` is its
  cardinality. The invariant adds that each counter is the number of cores still
  to come, so that 0 means all of them.
- `LinesComeInOrder`, for a finite set of cores: `OutputInOrder`. Its invariant `WorkInv`
  ties three things together: the owner of `critical_section_lock` is the one core
  inside, `counter` is the number of cores that are through, and the length of the
  output is two lines for each of them and what the owner has sent (`Abreast`). A
  core's reading of `counter` is still right when it is used (`Fresh`) because nobody
  else is inside. That the output never outgrows the test's lines follows from
  the owner not being counted yet.

`ConsoleProof`, for any number of cores and texts, an exception anywhere:

- `ConsoleTypes`, `TextsComeOutWhole` and `LinesEndWell` from `ConsoleInv`. Its parts are:
  the lock has one sender (`OneSender`); a sender's text is its own and later than
  all that is finished (`OwnCall`, `Fresh`); the bytes of a text are together and the
  last one is open only while its sender is in it or lost (`Together`, `Open`); and
  a carriage return is followed by what its sender has next (`Feeds`).
  It is about `Spec`, in which nobody panics; `NoPanic` is a part of the invariant.

`FormatProof`, for all texts and arguments and every size of an unsigned int that
`FormatAssumption` allows:

- `FormatTypes`, `FormatReadsInside` and `DivisorIsSafe` from `IInv`, which knows for each
  place in the loop whether the character read last was the text's NUL: if so
  the loop is about to return. The divisor stays at most the number because it is
  multiplied only after the quotient was found to be at least the base. `w` is any int:
  a long width overflows and may be negative (`IntLaws` says what a sum below the
  limit keeps), and reading inside the text does not depend on it.
- `BfIsEnough`: `BufferHolds`. `NumberInv` adds what ui2a has done of the number: in the first
  loop the divisor is a power of the base not above the number (`GrowInv`); in the
  second, with `r` digits to go, the number is `q` times the base's `r`-th power
  plus `num`, and `bf` holds the sign and the digits before them (`DigitsInv`).
  `NextDigit` is one division. A word has a number of digits since it is below
  a power of the base (`DigitsExist`), and never more than `BufferSize - 2` of them.
- `OutputFormatted`: `OutputIsFormatted`, for all six functions, and for `printf_no_lock` and
  `sprintf` on texts that are `Understood`. `Rendered` is a recursive
  function, and what it computes cannot be had by induction over the text. But the
  code takes the same walk: `Walked(r)` says that some number of its steps leads to `r`,
  and a step of the walk is added whenever a conversion is done (`WalkGoesOn`).
  `FormatInv` says for each place in tfp_format where the walk is: at `fmt` in the
  loop over the text, and still at the `%` inside a conversion, with nothing but digits
  between that and the character read last (`InConversion`). The walk that has passed the
  text's end is the one `Rendered` means, however many steps it took (`WalkEnds`). An
  argument taken later does not change a walk that was within the arguments
  (`WalkLasts`). The four others have an invariant each: `HexInv`, `PutsInv`, `StrlenInv`, `StreqInv`.

  `FormatAssumption` is what the proof takes for granted: texts and strings hold no
  NUL, which is no letter or digit itself; a word is some tetrads wide, at least two,
  and `BufferSize - 2` decimal digits are enough for it: for 32 bits these are 8 tetrads
  and 10 digits. `Understood` is a hypothesis of the property: each width in the text is at most the
  largest int and has no `a` or `A` behind it. About other texts the theorem says
  nothing of what is printed; `FormatTypes`, `FormatReadsInside`, `DivisorIsSafe` and
  `BfIsEnough` hold for them too.

`HeapProof`, for every width of word, `int` and `size_t`:

- `UnitsHoldTheRequest`: the block looked for holds the bytes asked for, up to half
  an `int`'s range of words. `HugeRequestGetsFourWords` is the request behind that.
- `FreeFindsTheHeader` and `FreeMissesTheHeader`: the index `free` computes is the block's
  when the divisor is the size of a word, and never is when it is half of that,
  as it is in the code.

The rest of `HeapProof` is about `HeaderSpec`, in which the body of `free` gets the header
it means to find, for every size of the heap from 12 words, every number of
attempts and all requests that `HeapAssumption` allows:

- `HeapInvariant`. The array only encodes its blocks, so the invariant names them: there are
  a set `B` of headers, their sizes `sz` and a set `F` of free ones such that the blocks
  tile the array between the sentinels (`Tiling`), the tags say so (`Shape`), the
  free ones are on the list (`Linked`), no two of them are neighbours (`Merged`), and the
  others are the clients' (`OwnedBy`).
- That the list has no loop and misses no block cannot be said by counting steps,
  which would need induction over data. `Linked` says instead that every set of free
  blocks that does not hold the head has a block whose `prev` is outside the set. The steps
  preserve it, and the walk of `FreeListAlwaysExact` follows.
- A call is a few moves on `B`, `sz` and `F`, one lemma each: a block leaves the list
  (`TakenOff`), is joined with a neighbour (`JoinRight`, `JoinLeft`), is cut (`CutOff`), gets its
  tags (`PutTaken`) and is put on the list (`PutFree`). Between two moves one block is
  `Loose`: its tags say nothing. `Keeps` is what a move leaves of the other blocks' words.
- From the invariant `NeverAFalsePanic`, `BlocksAlwaysTile`, `NeighboursAlwaysMerged`,
  `NothingIsLeaked`, `FreeListAlwaysExact` and `OutOfMemoryIsHonest`; from what a step keeps of
  the blocks `ClientsAreUntouched` and `HeapIsAnAllocator`.
- The little induction that is needed is over sets of numbers (`SetInduction` in `Numbers`),
  from the fact that a set of numbers has a least one.

`PageTableProof`, for tables, blocks, splits and FIFOs of any size:

- `FrameIsInUse` and `CallReturnsTheAnswer`. The invariant is a token argument: the
  address of the message is in exactly one place, the caller, a FIFO or the
  VideoCore, and the answer is in the message once the address is on its way back.
- `TablesMapOneToOne`, `SharedMemoryStaysUncached` and `AnsweredRamIsCached` from the contents of
  each entry by its index. The assumption on the VideoCore (its memory begins at or below
  the devices) is what keeps the first loop inside the second's range.
- `MmuFindsItsTables`: at each line of `enable_mmu_tables`, which registers have been
  written and which are surely in effect.
- `PageTableTypes`.

The type invariants of `Kernel`, `Console` and `PageTable` are proved and therefore not
checked again in a run.

### Only model-checked

- Liveness (`LockProgress`, `EveryoneLeaves`, `EverythingIsPrinted`, `PrintfReturns`,
  `MmuComesOn`, `FormatReturns`), which is out of the prover's reach.

### Not modelled

- The code under "Left out for good", and the `PRINTF_LONG_SUPPORT` parts of
  `printf.cpp`, which no build defines.
- An exception inside `panic` or `exc_handler`.
- The addresses past the tables that a VideoCore base above the peripherals would
  make the first loop write: `PageTableAssumption` excludes it.
- `XN`: the properties of the page tables are about addresses and memory types, not
  about what may be executed (`mmu.cpp:260`).
- The register sequence of `uart_init`, which is one step of `Kernel`.
- When the write that switches the MMU on takes effect: no `isb` follows it.
  `MmuComesOn` says that it does, and `Kernel` takes it to be done in `EnableMMU`.

## The plan

Done: every component above. Every invariant and action property that a passing run
checks is also a theorem, and so is every refinement; liveness stays with TLC.
What could follow is a text longer than an `int` counts, which neither `strlen` nor
`streq` is modelled for, and the exceptions inside `exc_handler`.
