# A specification of ntibux

ntibux is a small 32-bit x86 kernel in C++ and assembly: it boots from
multiboot, sets up segments, interrupts, paging and a kernel heap, starts a
round-robin scheduler driven by the timer, and runs a shell as the first task.
There is one address space, one privilege level and one processor. (Some files
include `cpus.hpp`; neither it nor `cpus.cpp` is in the repository.)

The modules here model the parts of it that are concurrent or that keep linked
state, check them with TLC on small instances, and prove the most important
facts for every instance with TLAPS.

## The system

| Part | State | Operations | What is hard | What makes it correct |
|---|---|---|---|---|
| Interrupt gate (`asm_misc.s`) | IF, `interrupts_semaphore` | `push_ints`, `pop_ints` | pairs that span a context switch | the count is 1 in every task, IF is set when it is positive |
| Spinlock (`spinlock.cpp`) | a word | `lock`, `release` | on one processor a spin with interrupts off never ends | a holder is unique and is never waited for with the gate closed |
| Scheduler (`scheduler.cpp`) | the run list, `current`, `idle`, per-task `esp`, `sleep`, `last_switched` | `yield`, `new_task`, `kill_task`, `kill_current_task`, `dump` | called from tasks and from the timer; the switch of stacks happens after the lock is released | every listed task is resumable; no freed task is listed; fairness |
| Timer interrupt (`interrupts.s`, `interrupt_handlers.cpp`, `timer.cpp`) | `ticks` | the stub, `timer_handler` | a handler that switches away and is finished much later, nested ticks | handlers leave the gate as they found it |
| System calls (`syscalls.cpp`) | - | `sleep`, `kill_me` | `sleep` edits the task before the gate is closed | no early wake, every sleep ends |
| Exceptions | - | log and return, `kill_me` or panic | `kill_me` does not come back to the stub | the gate stays regular |
| Kernel heap (`mem.cpp`) | free lists by order, `reserve_order`, a lock | `alloc`, `free`, `double_reserve` | growth maps pages, and mapping allocates; the limit of the reserve | blocks are disjoint, aligned, conserved, merged back |
| Frames and paging (`mem.cpp`) | a bitmap, page tables, directories, the translation buffer | `map`, `unmap`, `get_page`, `clone`, the switch | two views of a table; nothing flushes the buffer; frame 0 means none | a frame has one owner; what is mapped is marked; the processor follows the tables |
| Intrusive list (`list.cpp`) | `next`, `prev` | `push`, `push_back`, `del`, `rotate`, the walk | the head is a node; nodes are freed under a walk | both directions describe the same ring, which is the run list |
| Keyboard and line (`terminal.cpp`) | ring of 256, modifiers, the line | `put` in the interrupt, `get_scancode`, `tread_line` in the shell | no full test, no lock; a handler that nests once the interrupt count has drifted | keys come out once and in order, up to 255 unread and as long as arrivals do not overlap; modifiers follow |
| Screen (`terminal.cpp`) | `x`, `y`, a cache of cells, the VGA memory | `tputc`, scrolling, `clear`, the copy | printing without a copy; backspaces across rows | the line is on the screen and the screen is the cache |
| Shell (`interpreter.cpp`, `misc.cpp`, `terminal_printk.cpp`) | a line, its words | `split`, `exec_cmd`, the commands, `atoi`, `putuint_b` | a line cut while it is read; bases and prefixes | the call is the one meant; the words fit |
| Descriptor tables, boot, VGA, debug | - | run once or pure output | - | not modelled |

How they meet: the timer interrupts whatever runs with IF set and, at the end
of a slice, calls `yield` on the interrupted stack. `yield` closes the gate with
`pop_ints`, takes `sched.lock`, chooses a task and exchanges stacks; the
`push_ints` that opens the gate again is executed by `context_switch` on the
*other* stack. `new_task` and the kills use the heap, whose lock the shell also
takes with interrupts on. Growing the heap maps pages and mapping may use the
heap.

## The modules

- `Interrupts`: the gate. Both routines start with `cli`, so each is one action.
  `MaxSem` bounds the counter from above.
- `Spinlock`: the lock word. A processor that spins is one whose `Lock` is not
  enabled.
- `Scheduler`: everything between an entry into the scheduler and its return.
  Each task has a stack of frames; a frame's `at` is the place in the code it has
  reached, and one action takes it to the next place. The actions are cut where
  something else may happen in between: an interrupt, or a step that others
  can see (lock taken, lock released, `esp` read, stacks exchanged). The places
  and the code:

  | place | code |
  |---|---|
  | `run` | code of the task itself |
  | `tick`, `undo`, `exit`, `iret` | `timer_handler` from its start; its `interrupts_semaphore--`; the stub's `push_ints`; its `iret` |
  | `pop`, `lock` | `pop_ints()`, `lock.lock()` at the top of an entry point |
  | `select` | `yield` after the lock, `select_next`, `perform_context_switch` up to its release |
  | `link`, `unlist`, `heap_lock`, `heap` | `new_task`, `kill_task`, `kill_current_task_locked` and the heap calls they make |
  | `unlock`, `load`, `swap`, `resume` | `lock.release()`, the arguments of `context_switch`, its exchange of stacks, its `push_ints` |
  | `leave`, `push` | `lock.release(); push_ints();` at the end of an entry point |

  `cpu` is the task whose stack `esp` is in; it differs from `current` while a
  switch is under way. `esp[t]` says whose top the saved `t->esp` marks, or
  `Nowhere` once that stack has moved on. Resuming a stack anywhere but at its
  top is undefined: mode `wild`, which nothing leaves.
- `SchedulerSpec`: the abstract promise. One task runs; sleepers are not run
  before their time; idle only while everyone sleeps. `Scheduler` maps `running`
  to `current`, `listed` to the run list, `asleep` to the tasks with `sleep > 0`.
- `Kheap`: the buddy allocator behind the heap's lock, one action per step of
  `alloc` and `free`. `at` is `take` in the descent of `buddy_alloc` to the first
  free block (`level` is the order it has recursed to), `split` on the way back,
  `merge` in `buddy_free`; `table`, `panic` and `wild` are the ends that do not
  return. `free[k]` is the list of order `k`, head first, and `held` the blocks
  that callers have.
- `KheapSpec`: the abstract promise of a heap: whoever asks for pages gets a run of
  at least so many that nobody else has. `Kheap` implements it.
- `Paging`: frames, tables, directories and the translation buffer. A page is
  its two indices. `tables` and `paddrs` are the two arrays of a `page_directory`:
  the kernel follows the first, the processor the second. `entry[t]` are the
  entries of table `t`, `marked` the bitmap. `clone` is a loop over tables and one over
  pages, one action per turn; `Access` and `Evict` are the processor's.
- `Console`: the keyboard's interrupt, the ring, and the shell from the prompt to the end
  of the line, with the screen. While the gate is closed in it, the interrupt's handler is one step
  (`KeyboardInterrupt`). Once `open` is set, `frame[h]` is where a handler is suspended: behind
  `inb(0x60)` (`ReadScancode`), or between the loads and stores of `put` (`LoadPlace`,
  `StoreScancode`, `LoadIndex`, `StoreIndex`). `pc` is `wait` in the loop on `kb.available()`, `get`
  between it and the read of `buffer[rindex]`, `got` between that read and the move of
  `rindex`, `print` while commands run.
- `KeyQueue`: the abstract promise of a ring without a full test: a queue, of which
  everything is lost when one more comes than there is room for; and none any more (`void`) once
  arrivals have overlapped. `Console` implements it.
- `Shell`: the printing of a number, the typing of a line, `split` character by
  character, and `exec_cmd`. `call` is the kernel function that the command calls, with its
  arguments. `typed` and `meant` are history variables.
- `List`: `list.cpp`, one assignment after the other, as operators over a memory of `next` and
  `prev`.
- `RunList`: the pointers under the run list of `Scheduler`, which is a sequence there: what the
  calls of `List` make of it, and that they represent it. The head is the node `"tasks"`.
- `MCScheduler`, `MCPaging`, `MCConsole`, `MCShell`: small instances. `MCScheduler` also says
  what each task may call, per run.
- `SchedulerProofs`, `SchedulerListProofs`, `SchedulerGateProofs` (each builds on the one before),
  `KheapProofs`, `PagingProofs`, `ConsoleProofs`, `ShellProofs`, `ListProofs`: the theorems.

### What the model abstracts

- A task's own code is the set of kernel entries it may make (`Calls`).
- Time is kept as differences: `since[t]` is `ticks - last_switched` up to
  `SinceCap`, `phase` is `ticks % TIME_SLICE`. A sleep never exceeds `SinceCap`
  ticks (`TimeAssumption`), so the cap loses nothing a comparison can see.
- `due` is a history variable: the ticks that must pass before a sleeper may wake.
- The keyboard interrupt and the exceptions that return are left out: with the
  gate paired by the stub they touch nothing the module has. (A tick inside the keyboard's handler,
  which a drifted count lets in, is like one between two steps of the task.)
- `interrupts_semaphore++` and `--` in C++ are one action each. The compiler may take a load and a
  store for one; a tick between the two needs the gate open in the handler.
- `Tick` is the handler up to its call of `yield`, one action. With a drifted count another tick may
  come between `timer.tick()` and the test of the slice, and both handlers, or neither, then see the
  slice end.
- The two allocations of `new_task` are one critical section of the heap.
- All tasks share `kernel_pd`; the reload of `cr3` is left out, and so are
  names, `cpu_time`, `created` and `status`.
- `dump` is its gate and lock: it only prints the list.
- A freed task structure keeps its contents. In the program the heap writes its
  free-list pointer over the first word (`id`) and may hand the block out again;
  what a task does after it was killed and resumed is therefore only
  approximated, and only `sched_drift` and `sched_killed` go there.
- What `load` pushed for `context_switch` is kept in the frame and compared with nothing afterwards: if
  ticks that nest between `load` and `swap` have moved the stack it names on and back, the model
  takes it for as good as new. Only a drifted count lets a tick in there.
- The initial states are those right after `kernel_main`'s `push_ints`
  (`kernel.cpp:68`), with the tasks of `Started` created.

In `Kheap`:

- Pages are counted from `free_zone` and orders from `min_order`. The program
  aligns `free_zone` to the largest block, so that flipping an address bit is
  flipping the same bit of the count.
- Calls follow one another: `KheapExclusion`, checked in `Scheduler`, says that
  the lock does this.
- The pages of a growing reserve get frames without fail: the reserve is an
  eighth of the memory. The state of page tables is the one fact growth depends
  on, which tables exist; `free_zone` is at a multiple of what a table maps,
  or the whole reserve is within one.
- Callers return blocks that `alloc` gave them, once and with the size they asked
  for. (The shell's `mem free` passes on any address; its `nbr * PAGESIZE` may
  overflow. Neither is modelled, nor sizes above 2^31, for which the loop of
  `get_order` does not end.) The kernel task's structure, the first allocation,
  is never freed.
- `free_blocks` read beyond its end yields 0 or garbage; garbage taken for a block
  is `wild`, and nothing is said of what follows.

In `Paging`:

- The flags of pages and what is in them are left out, and so are `status` and `dump`. (The
  former counts the frames by the length of the bitmap, not by its set bits.)
- The last frames, if they do not fill a word of the bitmap, are never used (`Words`).
- The load and the switch of a directory are one action, as they are in
  `perform_context_switch`; `copy_page` switches paging off and on, which empties the buffer.
- `unmap` and `clone` have no caller in the repository, `map` only the heap; the model lets
  them be called in any order, one at a time.
- Freeing a table that another directory points to, or the first table, which did not come
  from the heap, is `wild`, and so is an access through the stale address that `unmap`
  leaves in `paddrs`: nothing is said of what follows.
- Tables come from the heap without fail; what happens when the heap needs a table
  itself is in `Kheap`.

In `Console`:

- A scancode is a key and whether it went down; keys may repeat while they are held. Which
  character a key gives is a constant.
- What the shell does between two accesses to the ring is one step, since the interrupt
  touches nothing else.
- The handler is one step while `pop_ints` of its stub closes the gate, that is, up to the first `Idle`:
  a shell that finds no key sleeps, comes back from idle and has raised the count (`sched_idle`), so
  that `pop_ints` leaves IF set; the EOI has been sent before the handler is called
  (`interrupt_handlers.cpp:55`). From then on a handler may be suspended, by another keyboard
  interrupt or by a tick. Suspended handlers go on in any order and the shell may run meanwhile, which is more
  than the stacks of one processor allow. `put` is four steps there, the loads and stores of an
  unoptimised build (the Makefile asks for no optimisation).
- Only idle opens the gate: `LockFoundFree`, of `Scheduler`, says that nothing else raises the count.
- `torn` is a history variable: a keyboard interrupt came while a handler was suspended, or a handler was
  suspended inside `put`. What the ring holds from there on is modelled, and nothing is promised of it.
- The ring's slots start with the scancode 0, as memory that the boot loader clears; no key gives it.
- Colours are left out; a command prints a few characters (`MaxPrinted`), with the copy to the
  VGA memory, as `printk` does, or without it, as `echo` does.
- One task prints: the shell. (Two would move `x` and `y` without a lock.)

In `Shell`:

- The letters of a name are one character. A word of the buffer is what lies between
  `splits[k]` and the next 0, as for the program.
- `Formats` are those of `vprintk` for unsigned numbers: `%u`, `%x`, `%8x`, `%p` and `%b`. No caller
  pads a `%u` or prints a `%b`. `%d` and `%i` (also the padded `%2d` of `colortest`) and the 64-bit `%U` are left
  out; they print the same digits for the numbers below 2^31.
- The user copies a number off the screen, or writes a number below 10. Where it was printed bare, as
  `%x` and `%b` print it (`interpreter.cpp:266`, `mem.cpp:271`, `debug.cpp:31`), he writes the `0x` or `0b`
  before it (`TypeCopied`), or he does not (`TypeBare`): then `atoi` takes it for base 10, or for base 8 if it
  is padded, and nothing is promised of the call. He may type
  anything else too (`Scribbles`), of which only the words are judged.
- What commands print is left out. `mem free` converts both its arguments before it asks whether there are any
  (`interpreter.cpp:206-207`); where one is missing, that reads the string at address 0 and drops the number, which is
  left out. `log_level` reads one character of its argument.

## The runs

| Run | What it asks | Bounds |
|---|---|---|
| `sched_preempt` | locks, gate, stacks and run list under preemption, creation and killing; refinement | two tasks created and killed by the shell, slice of 2 ticks, no nested ticks |
| `sched_sleep` | sleeps end, not early; every task is served; refinement | two sleepers and one that is always ready, sleeps of one and one and a half slices, fair |
| `sched_drift` | what remains true once the counter has drifted | the shell sleeps, a task exits or faults, one tick inside a handler, counter up to 2 |
| `sched_idle` | violated: regular count, by the idle branch | the shell alone |
| `sched_tail` | violated: regular count, by a tick in a handler's tail, after `interrupts_semaphore--` | two tasks, nested ticks |
| `sched_flags` | violated: regular count, by an unwritten flags word | one new task |
| `sched_killed` | violated: a killed task is switched out | one task that ends |
| `kheap` | blocks partition the reserve and are merged back; when `alloc` does not end; refinement | memories whose largest block is 8 and 16 pages, a first reserve of 2, page tables of 8 pages, requests for 1, 3, 5, 9 and 17 pages |
| `kheap_table` | violated: the reserve can grow to an eighth of the memory | the larger of these memories |
| `paging` | who owns a frame; what the processor may still believe; what a clone has copied | five frames in words of three, so that the last two are dropped; two tables of two pages; two clones; four tables; one remembered translation |
| `console` | reads against the interrupt, overruns, handlers that nest after idle, editing across rows and scrolls; refinement; every key is read in its turn until idle runs | a ring of 3, four interrupts (`MaxTyped`), two once an arrival is torn (`MaxTorn`), two handlers suspended at once, seven scancodes of which 0 is no key's, a screen of 3 by 2, lines of up to 4 characters |
| `shell` | print, type, split, convert, dispatch: is the call the one that was meant? | numbers of 7 bits in all six formats, each in every command that takes one, behind its prefix and bare; all lines of four characters over two letters, a blank and 0; lines as long as the buffer |

`TimeSlice = 2` is the shortest slice in which a tick need not switch; the tasks
are enough for a list of one, two and three elements, so that `rotate` is a
no-op, a swap and a rotation. `MaxDepth` is the number of handlers on one stack: 1
in the first two runs, which assumes that no tick comes in a handler's tail;
`sched_tail` shows what happens without that assumption, and `sched_drift` does
not make it. `StaleFlags = {FALSE}` assumes fresh stacks were zero; `sched_flags`
drops that. `MaxSem` only matters in `sched_drift`, where the counter would
grow for ever: 2 is one more than regular, enough for a `pop_ints` that does
not close the gate.

Deadlock is checked in `sched_sleep`. The other runs allow the system to stop,
because it may: a panic, a wild stack, or a spin on the heap's lock with
interrupts off, which `DeafSpinOnlyBehindShell` confines to one situation.

In `kheap` the memory of 64 pages makes a heap that ends exactly with its first page
table, so that it fills up; in the other, of 127 pages, half of the heap is
beyond that table. The first reserve is smaller than both, so it doubles twice
with free and held blocks in every arrangement. The requests need each of the
orders 0 (1), 2 (3), 3 (5), 4 (9) and 5 (17, above the limit of either), rounded up
but for the first; they reach order 1 by splits and merges. Deadlock is not
checked: a call that panics or waits for itself stops.

In `paging`, three frames can be had and one of them is the kernel's, so that memory runs out,
the first table is shared or not, and a table is freed and used again while a clone
or the other directory is about. The properties speak of pairs, of pages, tables, directories
and views; two pages in a table, two tables, two directories and one remembered translation make each.
In `console`, two unread keys fill a ring of three, the third empties it and a fourth comes after; two handlers
are suspended at once, behind `inb` and inside `put`, with the shell reading between their steps; the prompt takes two
of the six cells, so the line crosses a row and scrolls within four characters. In `shell` the
numbers have one to seven binary, one to three decimal and one or two hexadecimal digits, so that
every loop of `putuint_b` ends at once, after one turn and after several; the buffer of
20 is one more than the longest line. In `sched_preempt`, `RunListLinked` sees every order of
one, two and three tasks.

**Fairness** (`FairSpec` of `Scheduler`): the processor keeps executing the kernel's code
(weak fairness of `KernelStep`); and the interrupt controller keeps the timer's
line raised until the gate opens, so a tick is taken if the gate opens again and
again (strong fairness of `TimerInterrupt`). Nothing is assumed of tasks. In `Kheap`, the
processor keeps executing the call in hand (weak fairness of `Step`). In `Console`, the shell's
reading goes on as long as idle has not run (weak fairness of `~open /\ Shell`): its task is served, which is
`EveryTaskServed` and `EverySleepEnds` of `Scheduler`, checked where another task stays ready. Once idle
has run nothing is assumed, since a tick may then spin on `sched.lock` for ever. The liveness presupposes, as those two
properties do, that no tick in a handler's tail has upset the count. Nothing is assumed of
the user, nor that commands end.

### The properties

- `LockExclusion`, `KheapExclusion`: each lock word tells the truth about who is
  in its section, through preemption, kills, and the idle branch's second release.
- `RegularCount`: a task's own code runs with the count at 1 and interrupts on.
- `CountMovesOnlyBy`: summed over all stacks, pushes and pops stay paired except
  at the two places named in the findings.
- `Switchable`, `NoDangling`: whatever is chosen can be resumed; nothing freed is listed.
- `DeafSpinOnlyBehindShell`, `ContentionNeedsDrift`: when the system may hang on a lock.
- `NoEarlyWake`, `EverySleepEnds`, `EveryTaskServed`, `KeepsPromise`: the promise to tasks.

- `Partition`: every page of the reserve is in one free list, once, or with one caller.
- `Merged`, `FullMeansFull`: nothing stays split that could be merged, and `alloc` gives
  up only when no run of the size is left.
- `CallsEnd`: the ways in which a call does not end are the three named there.
- `KeepsPromise` (of `Kheap`): the promise to callers.

- `Isolated`, `Accounted`: a frame has one page, but for the tables shared with the kernel; a
  frame is marked while a table holds it, or was dropped by a second `map` of its page.
- `PanicMeansFull`: memory is exhausted when the panic says so, unless frame 0 was given back.
- `ProcessorAgrees`: which translations may be wrong, and that the two views of a
  table that is there are one.
- `CloneCovers`: a clone maps what its original maps.

- `KeyQueueKept`: the ring without a lock is a queue, which an overrun empties, up to the first arrival that
  another interrupt tears apart.
- `EveryKeyRead`: the n-th key to be typed is read in its turn, or an overrun came, or idle has run.
- `ModifiersTrue`: the modifiers are those of the keyboard once all is put and read, with the same exceptions.
- `LineOnScreen`, `ScreenTrue`: what is edited is what is seen.

- `CallIsMeant`: printing, copying, splitting, converting and dispatching give the call meant, if the number
  that is copied tells its base or is given its prefix.
- `WordsFound`, `ArgumentsFit`: `split` finds the words of any line, and they fit.
- `RunListLinked`: the pointers are the run list, also under the walk that frees a node.

### What the violated runs show

1. `sched_idle`: `yield` pays its `pop_ints` back twice when it comes back from
   idle (`scheduler.cpp:174`, then `leave:`), so each such sleep adds one to the count.
2. `sched_tail`: after `interrupts_semaphore--` (`interrupt_handlers.cpp:113`) and before the stub's `push_ints`
   (`interrupts.s:132`) the count is 0 with interrupts on; a tick there that ends a slice leaves the count one
   short. Before the decrement, and between that `push_ints` and the `iret`, the count is 1 and a tick does no harm.
3. `sched_flags`: the `memset` of `task::init` misses the frame it is meant to clear.
4. `sched_killed`: a killed task is switched to itself.
5. `kheap_table`: `double_reserve` maps pages with the heap's lock held; the first
   page beyond a page table makes `get_page` call `alloc`, which waits for that lock.

## The proofs

`SchedulerProofs` proves, for every set of tasks, run list, slice, request, fault
set, bound and stale flag:

- `TypeCorrect`: `Spec => []TypeOK`;
- `MutualExclusion`: `Spec => []LockExclusion`.

`LockExclusion` is not inductive, and neither is `TypeOK`: that an `iret` or the
resumption of a stack yields a well-formed state depends on the shapes of the
frames below. The inductive invariant is `IInv`, three parts:

- `TypeOK`;
- `Shape`: what place, call and operands of a frame have to do with one another,
  and that an interrupt's frame lies above the code it interrupted;
- `LockInv`: only the stack in use is inside `sched.lock`, in at most one frame,
  and every frame above that one is an interrupt on its way to the lock, spinning
  on it, or leaving because its slice has not ended (`Waiting`).

One lemma per part shows that every action preserves it (`NextType`, `NextShape`,
`NextLock`), from small lemmas on what taking, releasing, pushing a handler and
exchanging stacks do to the set of holders (`LockTaken`, `LockReleased`,
`LockKept`, `PushLock`, `PopLock`, `SwitchLock`). `LockInvExcludes` derives
`LockExclusion`. The proof does not use the
counter: exclusion holds however far it has drifted and however deep interrupts
nest. What a tick that comes inside the section costs is not exclusion but
progress: it spins for ever.

`SchedulerListProofs` proves, without any hypothesis but that the head of the run list is the node of no
task (`HeadAssumption`):

- `HeapLockExcludes`: `Spec => []KheapExclusion`;
- `NobodyWokenEarly`: `Spec => NoEarlyWake`;
- `RunListSound`: the run list names each task once, never idle, and nothing that is freed;
- `BirthsApart`: a task that `new_task` is still making is in nobody else's hands;
- `RunListIsLinked`: `Spec => []RunListLinked`. `RunListSound` says that the list is a sequence of
  different tasks; `ListProofs`, instantiated as `Links`, says what the pointers are for any such.

They speak of all stacks at once, so the module has a small theory of the frames that are in
a set `P` (`Sites`): `NextSteps` says that a step stands still, moves the top frame, pushes or pops
a handler, makes a stack or exchanges two, and a lemma each what that does to
`Sites(P)`. The inductive invariants are then sentences about sites. `KheapInv`: at most one site
is in the heap, and the lock word is their number. `SleepInv`: `due[t]` is never
more than what `sleep[t]` has still to wait, counting the ticks since the last switch and the
sleep that `sleep()` is just about to set. `BirthInv`: besides
the list itself, what the calls on the stacks have promised: a task in the
hands of a `new_task` has one such call and nobody has listed, killed or freed it; one in
the hands of a `kill_task` is off the list. Without that part two calls in flight could
list a task twice or free it twice.

`SchedulerGateProofs` proves what needs the gate. First, about its count:

- `PairsKept`: `Spec => CountMovesOnlyBy`, without any hypothesis;
- `ContentionDrifts`: `[]ContentionNeedsDrift`, if no exception kills (`FaultKill`);
- `LockFoundFree`: the same, and that the spin on `sched.lock` is never taken, until the first
  switch to idle, whatever exceptions kill and however ticks nest.

`Count` is the counter and what all frames of all stacks still owe it or are owed by it. It is
stated with the cardinalities of two sets of sites, `Owing` and `Suspended`, so that a step changes it
by the site that it moves and no induction over the stacks is needed (`Tally`, `BooksInv`, `StepBooked`).
`DriftInv` then says who can be inside the lock with the gate open: only a frame whose `pop_ints` did not
close it, for which the count must have been at 2.

Then, about the gate in every task. Four kinds of step upset it: an exception
handler that kills (`FaultKill`; what it loses is in `CountMovesOnlyBy`), a tick inside a handler,
the switch to idle, and the first switch to a stack whose flags word has IF set. `Steady` says
that a step is none of these. For the last three, `sched_tail`, `sched_idle` and `sched_flags` show that
`RegularCount` fails without that part. For every set of tasks, requests and any preemption,
`Spec /\ [][Steady]_vars` implies:

- `CountRegular`: `[]RegularCount`;
- `DeafOnlyBehindShell`: `[]DeafSpinOnlyBehindShell`.

What the tasks see of the scheduler does not need that much. `Calm` says of a step that it is no tick between
`select_next` and the exchange of the stacks, where the lock is no longer held and `current` is
already another. `Spec /\ [][Calm]_vars` implies:

- `AlwaysSwitchable`: `[]Switchable`;

and, if besides no task kills itself, nor does an exception of its (`NoSuicide`; `sched_killed` shows why):

- `NothingDangles`: `[]NoDangling`;
- `PromiseKept`: `KeepsPromise`: every step of `Scheduler` is one of `SchedulerSpec` or a stutter.

So these survive idle, ticks inside handlers, unwritten flags words and a count that has drifted, up to
the first tick in that window; and

- `CalmUntilIdle`: no step fails to be calm before the first switch to idle.

The inductive invariant `CalmInv` adds to those above, while the mode is `run`, `Switching`: stacks that are not in use are
at their last `push_ints`, nothing lies above a switch that is under way, and where `esp` and `current`
stand in the middle of it. `ChosenInv` adds that no call on any stack is out to kill its own task.
`SteadyInv` adds `Flat` (a stack is one
frame, or a handler's above one frame of code that runs with interrupts on), `Dormant` (what lies on the stacks
that are not in use) and `Gate` (the count and IF at each place). `CalmUntilIdle` follows from `DriftInv`: a tick in the window
needs a count of 2, which only idle brings.

These hypotheses are conditions on behaviours; that they are met is proved too, from conditions on the constants
alone. `Awake(awake)`: no killing exceptions, and a listed task that never sleeps and that nobody kills, so
that idle is never chosen. `AwakePromise` draws the conclusions of `PromiseKept`, `NothingDangles` and `AlwaysSwitchable`
for such systems, if nobody kills himself. `Orderly(awake)`: besides, one handler deep and clear flags words. `OrderlyIsSteady`
proves `Spec => [][Steady]_vars` from it, and `OrderlyGate` draws the conclusions. `sched_preempt` (`awake` is the shell) and `sched_sleep` (the
task that is always ready) are orderly instances. `IdleAssumption` says that idle's code, `busy_loop`, calls nothing.

`KheapProofs` proves, for every memory, first reserve, page table size and set of
requests:

- `TypeCorrect`: `Spec => []TypeOK`;
- `ReservePartitioned`: `Spec => []Partition`;
- `PromiseKept`: `Spec => KeepsPromise`, that is, `Kheap` implements `KheapSpec`;
- `BuddiesMerged`: `Spec => []Merged`;
- `FullOnlyWhenTaken`: `Spec => []FullMeansFull`.

`Partition` is not inductive: it does not say that blocks are aligned, without which
flipping a bit does not lead to the other half, nor how far a call may climb. The
inductive invariant `IInv` adds:

- `Reach`: the order asked for is large enough and not above `level`, and `level` is at most
  `max_order` once a block is in hand;
- `Distinct`: no list holds a block twice;
- `Layout`: free blocks, held blocks and the one in hand are aligned, apart, and tile
  the reserve (`Sound`), and the kernel task's block, page 0, is among the held.

The last point is what makes `double_reserve` safe although it links the new
half to the successor of the old head: a free block of the reserve's own order
would contain page 0, so the list it extends is always empty (`SoundGrow`).
The argument has three layers: tilings of an interval under splitting, merging
and doubling (`SplitTiles`, `MergeTiles`, `GrowTiles`), sequences without
repetition (`PushList`, `TailList`, `UnlinkList`), and one lemma per action that
joins the two. Powers of two enter only through `SpanAssumption`, three facts
about the finite table `Span` that TLC evaluates in every run of `Kheap`. The other
assumptions say that the memory fits in 32 bits and is large enough for its eighth
to be a page (`max_order >= min_order`), and that sizes are numbers.

`Merged` is about the heap at rest; its invariant, `NoPairs`, is about every moment: no two buddies are
ever both in free lists. A split lists one half and keeps the other in hand, a merge
takes the buddy out before it goes up, and a block is listed only where its buddy was not found.
`FullMeansFull` needs `NoPairs`: `Searched` says that the lists from the order asked for up to
`level` were empty when the climb passed them, so every free block is smaller than
the request; and a run that smaller free blocks cover, without a page of anybody's, has among
them two that are buddies (`RunHasPair`: take a smallest one; what
covers the pages of its buddy is no smaller, so it is the buddy).

`PagingProofs` proves, for every memory, word and table size, set of directories and of tables:
`TypeCorrect`, `SpacesIsolated` (`Isolated`), `FramesAccounted` (`Accounted`), `ProcessorFollows`
(`ProcessorAgrees`), `PanicIsFull` (`PanicMeansFull`) and `CloneComplete` (`CloneCovers`). None of the first three is inductive: that
a freed table does not bring a frame back depends on free tables being blank, that a clone makes
no frame shared on what it has still to fill being empty. `IInv` adds, to `TypeOK`:

- `Tidy`: no frame is in two entries, and marks, entries and dropped frames agree;
- `FreeBlank`: tables that are not in use are blank;
- `Walked`: where the kernel sees a table, the processor walks the same one;
- while the kernel runs, `Apart` (a table is shared only at one index and with the
  kernel), `Ready` (what the clone under way has to fill is empty), `Remembers` (the buffer).

There is a lemma for each part and each thing a step does to it (an entry is put or taken, a
table is added, a directory pointed to), and one per action that combines them. `CloneCovers` rests on
`CopyInv`: the pages behind the clone's two loops are mapped by both directories or by
neither, and the table that it fills is nobody else's, so that filling it changes neither the original nor
what was copied before.

`ConsoleProofs` proves, for every keyboard, ring, screen, length of line and number of suspended handlers: `TypeCorrect`,
`RingIsQueue` (`KeyQueueKept`: every step is a step of `KeyQueue` or a stutter), `ModifiersFollow`
(`ModifiersTrue`), `ScreenFollows` (`ScreenTrue`) and `LineFollows` (`LineOnScreen`). The second and third hold up to the
first torn arrival; `NothingTornBeforeIdle` says that there is none, nor a suspended handler, before idle runs. `IInv` adds to
`TypeOK` that a line being read has room, who can be suspended (`Handled`: nobody while the gate is closed, and one handler, behind
`inb`, while nothing is torn), and, while nothing
was lost or torn, `Reflects`: of the unread scancodes, the last one about a modifier says whether it is down,
and a modifier that none is about is in `flags` exactly when it is held; where held means the keys that the ring has been told
of (`Told`), all but the one that a suspended handler has in hand. Arithmetic on the
ring is by cases on the wrap, without `%`. `LineOnScreen` is inductive with `TypeOK`
once it is said in positions counted from the cursor: a character, also one that scrolls, moves
every cell and the cursor by the same distance (`PutShows`), and a backspace steps back to the
cell of the line's last character (`BackspaceShows`).

`ShellProofs` proves, for every size of a word and a page, every length of line and whatever is typed:

- `TypesHold`: `Spec => []TypeOK`;
- `EveryWordFound`: `Spec => []WordsFound`;
- `ArgumentsAlwaysFit`: `Spec => []ArgumentsFit`: `split` has found at most half as many words as it has
  read characters, rounded up (`Found`);
- `WhatIsMeantIsCalled`: `Spec => []CallIsMeant`.

The invariant, `ShellInv`, has a part per loop. `PrintInv`: `out.l` is the power of the base that the digits
put out so far leave, and what has been put out spells the number up to it (`Spells`). `SplitInv`: the places
in `splits` are where the words of the line as it was typed begin, and the line read so far is
that one with its blanks cut. `MeantInv`: what is meant is what the words call, which goes by cases
over the requests. `PrefixSpelled`, `SpelledMore` and `AtoiSpelled` are the core: a text that spells a number
in a base, behind the prefix of that base, is what `atoi` makes the number of. `Given` joins the prefix that the user
writes to what was printed, from the first digit on. Of numbers that are copied bare the theorem says nothing.

These are inductions over data, which the provers do not do by themselves. They are made with sets: a set of naturals that
has 0 and with each number the next is all of them (`Induction`, from `LeastNatural`), and
a function that is defined by recursion exists (`Recursion`), so that it is what its definition says.
`BoundAssumption` asks that the nine pages a user may ask for are counted in a word (`9 * PAGESIZE < Word`);
larger counts wrap, as the hazards say.

`ListProofs` proves, of any ring of any length, what the assignments of `push_back` (`PushBackLinks`),
`del` (`DelUnlinks`) and `rotate` (`RotateMovesFirst`) do: a ring stays one in both directions, with the
order of the nodes that the run list of `Scheduler` has. `BuiltRepresents`, `RotatedRepresents` and
`WalkUnlinks` say the same of what a reader of the pointers sees, who follows them step by step: from a
head and any sequence of pushes; of a rotation; and of the walk that unlinks a node and
then reads its `next`. They use the same induction as `ShellProofs`.

Every invariant and every action property that a run checks is stated by a theorem, but some under hypotheses that
the runs do not make: `sched_drift` checks `ContentionNeedsDrift` also with exceptions that kill.

Only model-checked: `EverySleepEnds`, `EveryTaskServed`, `CallsEnd` and `EveryKeyRead`, liveness under fairness, which
the provers do not reach.

## Not modelled

- Descriptor tables, the boot code, the programming of the PIT and the PIC: straight lines before
  interrupts are enabled. Their outcome is the initial state of the models.
- `debug.cpp` (walks of the stack and of symbols) and `vga.cpp`: pure output.
- In `terminal_printk.cpp`: strings, colours and the log header are layout; the signed and the 64-bit formats are left out.
- `list::pop`, `pop_back` and `size` have no caller. (`size` of an empty list is 1.)
- `memcpy`, `memset` and the string copies are the values they make.
- `cpus.hpp` and `cpus.cpp` are not in the repository.

## Plan

The composition of `Console` with `Scheduler`: logging tasks that print over the shell.
