# A verification project for AuriOS

AuriOS is a kernel for the i386: C, Zig and some assembly, one processor, no
processes. It boots, sets up memory and paging, and then lives in its interrupt
handlers, where a shell runs. The TLA+ modules here model its core, TLC checks them
on small instances and TLAPS proves their safety properties, but for where the logo
stands, for every value of their constants. `PROJECT.json` has the machine-readable side: components,
runs, a mutant for each property, the source lines of each definition, the
findings, the hazards and the theorems. Paths below are relative to the
kernel's source directory.

## The system

| Component | State | Operations | Talks to |
|---|---|---|---|
| boot sequence, `kernel/kernel.c` | the stack of `kernel_main` | the init calls in their order, `init_mem`, sleeps, the idle loop | everything below, by calls |
| physical memory manager, `mm/pmm.zig` | one bit per frame | init, mark a region free or used, allocate, free a frame | called by `init_mem`, `mmu.zig`, `memory.c` |
| paging, `mm/mmu.zig` | directory, tables, CR3, the TLB | init, enable, map a page, page fault handler, peek, poke | takes frames; called by the heap and by exception 14 |
| heap, `lib/memory.c` | block list in the heap itself, `head`, `heap_end` | `memory_init`, `malloc`, `free`, growth | takes frames, maps pages; called by commands |
| interrupts, `cpu/irq.c`, `pic.c`, `idt.c`, `isr.c` | handler table, mask registers | register, dispatch, unmask | calls the drivers' callbacks |
| timer, `drivers/timer.c` | `tick` | callback, `sleep` | `kernel_main` sleeps on it |
| keyboard, `drivers/keyboard.c` | shift, control, prefix flags | callback | calls the shell |
| line editor, `kernel/shell.c` | line, position | keys, completion, arrows, commands | history, terminal, commands |
| history, `kernel/history.c` | ring of lines, position, draft | push, prev, next | called by the shell |
| terminal, `kernel/terminal.c`, `ainsi.zig` | cells, cursor, colours, parser state | put a character, clear, move, backspace | called by everyone who prints |
| commands and prompt, `kernel/shell.c`, `commands/*.c` | the words cut out of the line, two names | parse, dispatch, each command, the prompt | everything above |
| strings, blocks, integers, `lib/string.c`, `memory.c`, `integer.c` | none | copies, comparisons, conversions | pure; called by all |
| serial port and log, `drivers/serial.c`, `kernel/log.c` | the UART's FIFO (input in test builds only) | write, receive callback | test builds feed keys to the shell |
| segments, framebuffer, loader | constants | | |

What is hard about it:

* **Interleaving.** There are no threads, but `kernel_main` can be interrupted
  between any two instructions: `sleep` compares and halts in two steps, and
  `shell_init` clears a line the keyboard handler may already be editing.
* **Requests that are edges.** The PIC latches one request a line; the UART's
  line stays high while its FIFO is full enough, and its callback takes one byte.
* **Parsing in place.** A command line is cut into words where it stands, over
  what the longer line before it left behind.
* **Cached translations.** The TLB keeps what the tables no longer say; every
  change needs its `invlpg`, also for the window through which tables are written.
* **Exhaustion.** Frames run out in the middle of a growth, or between a page
  and its table. Frame 0 doubles as "no frame".
* **Long sequences.** The block list, the history ring, the edited line and the
  scrolled screen are right only if every sequence of operations keeps them so.
* **Writes anywhere.** `poke` writes to any page, the tables among them.
* **Edges.** Words that wrap (`tick`, region ends, sizes), ranges rounded to
  pages, bits rounded to bytes, saturated parameters.

What makes each component correct: the PMM hands a frame to one owner and
never a reserved one; the boot map frees RAM and nothing else; paging keeps
the kernel's own mappings, shares no frame and never uses a stale translation;
the heap keeps its blocks apart and what callers hold untouched, and returns;
interrupts lose no wake-up and no key; the editor shows the line it will run;
a line is answered as its words ask; the history is a log; the screen is a
strip of cells.

## Modules

Each model has a module, an abstract specification where there is one worth
stating, an `MC` module that fixes the constants and its `.cfg` files.

| Module | Models | Abstract specification |
|---|---|---|
| `Heap` | `lib/memory.c`: `malloc`, `free`, growth | `AllocatorContract` |
| `Pmm` | `mm/pmm.zig` after boot | `FrameAllocator` |
| `BootMemory` | `init_mem`, `pmm_init`, the region walks | uses `FrameAllocator` for what follows |
| `AddressSpace` | `mm/mmu.zig` and `heap_map_pages` | uses `FrameAllocator` for frames |
| `History` | `kernel/history.c` | `CommandLog` |
| `LineEditor` | key handling of `kernel/shell.c`, over `History` | `CommandLog` through `History` |
| `Terminal` | `kernel/terminal.c`, `kernel/ainsi.zig` | `ScreenRoll` |
| `Logo` | `animate_logo` of `kernel/kernel.c`, over `Terminal` | what must be on the screen |
| `Strings` | `lib/string.c`, `lib/integer.c`, the blocks of `lib/memory.c` | a reference for each routine |
| `Commands` | `shell_parse`, `shell_execute`, `commands/*.c`, over `Strings` | the answer a line's words ask for |
| `Interrupts` | `kernel_main`, `shell_init`, `irq.c`, `pic.c`, `idt.c`, `timer.c`, `keyboard.c`, `serial.c` | |
| `HeapProofs`, `PmmProofs`, `BootMemoryProofs`, `AddressSpaceProofs`, `InterruptsProofs` | proofs about the module each is named after | |
| `LineEditorProofs` | proofs about `LineEditor` and `History` | |
| `TerminalProofs` | proofs about `Terminal` and `Logo` | |
| `StringsProofs` | proofs about `Strings` and `Commands` | |

How they compose: `Pmm` implements `FrameAllocator` (checked and proved), and
`BootMemory` and `AddressSpace` take their frames from `FrameAllocator`, lowest
first, as `LowestFirst` of `Pmm` allows them to. `Heap` keeps only the number of
frames left and lets each mapped page take one or two of them, as
`AddressSpace` shows a page and its table do. `LineEditor` extends `History`.
It counts cells from the prompt on, and rows only where `'\n'` does; `MovesBack` of
`Terminal` shows that drawing, moving back and rubbing out on the real screen come to the same.
`Interrupts` ends in the calls of the shell that begin in `LineEditor`; of the line
it keeps the length and the position only. What `LineEditor` hands over at Enter is
where `Commands` begins, and the characters `Logo` writes are actions of `Terminal`.

**Heap.** `hdr` maps the address of each header in the list to its four fields;
an absorbed header leaves it. `pc` walks through `malloc`: `scan` (the loop), `grow`
(the loop of `heap_map_pages`, one page a step), `take` (split, mark, return).
`free` is one step with both merges. `live` records what callers hold and is
compared to the headers, never read by them. All of it runs with interrupts
off or before anything else calls it, so calls do not overlap.

**Pmm, BootMemory.** `Pmm` has the bitmap as a function from bytes to sets of
bits and searches it as the code does. `BootMemory` sees it as a set of pages,
walks the memory map in the two passes of `init_mem` and halts where the checks
of the ReleaseSafe build would.

**AddressSpace.** Every frame is a potential table: `mem` maps frames to slots
to entries, `Walk` is the processor's walk from CR3, `tlb` holds every
translation used since its page's last `invlpg`. A frame nobody cleared holds
`Junk`, an entry that may turn out to be anything. The tables are reached
through the window only, by translations that can be stale. `mmu_map_page` is
three steps: take or make the table, write the entry. An access that finds its page
reads, or writes to the frame as if it were a table (`Overwritten`): in `AccessDone` a frame that is none,
in `TableOverwritten` the directory or a table, reached through the identity map or
the directory's own page. After that `pc` is `poked`, where the model stops, since any page may
then lead anywhere; the invariants are about the time before (`OwnTables`).

**History, LineEditor.** One action per key; each runs in a handler and is
atomic. `cells` is the screen behind the prompt, and `margin` where in its row that
begins. `'\n'` goes to the row below the cursor (`NextRow`) and clears nothing: after Enter the new
prompt has behind it whatever was there (`Below`), for a command that clears the screen
nothing. A command's output and the prompt come to a number of cells of `Output`.

**Terminal.** One action per character as the parser's state takes it, plus
the calls that go past the parser.

**Logo.** The animation is a script of characters and `at` a place in it; before
and after it the terminal does anything it can do. The noise behind the text is
any glyph.

**Strings.** A memory is a function from addresses to bytes, and a routine
that writes is a function of memories, byte after byte in the code's order. A byte
read as `char` is a signed number on the i386 (`Signed`): that is how `strcmp` and `strncmp`
order, while `memcmp` reads it as `unsigned char`. Words
have `HexDigits` digits and wrap. Beside the routines stand the operators that say
what they should return (`ComparisonsAgree` to `DecimalAgrees`).

**Commands.** One memory holds the line buffer and the two names of the prompt.
`Type` puts a line over what the last one left, `Enter` is the whole of
`shell_handle_key` for a newline: parse, dispatch, the command, the prompt. An
answer is a sequence of what is written; fixed texts are named, not spelt. `pages` are those
that are mapped. `Access` is a peek or poke with the fault it raises: `isr_handler` writes the
exception (`isr.c:45`) before the handler maps the page and the access goes on, or halts.
`EnterLast` is the same for a command after which nothing runs.

**Interrupts.** `kernel_main` goes through `timer_init`, in test builds the serial
line, `sti`, its sleeps, `keyboard_init` and the two assignments of `shell_init`;
`check` and `hlt` are the two halves of the loop of `sleep`. Handlers run with
interrupts off and are one step. The keyboard and the UART are modelled as
devices: `meant` is what was typed on each, and the calls the callbacks make
(`shell`) are compared with that. `line` is what those calls do to the line,
with the history and the completions left open.

## Runs

| Run | Distinct states | What it checks |
|---|---|---|
| `heap` | 78 216 | blocks, list and callers' allocations, the contract, termination of calls |
| `pmm` | 41 553 | accounting, lowest first, the allocator |
| `boot` | 1 223 | which pages the boot frees, when it gets through |
| `space` | 152 168 | identity map, TLB, sharing, heap pages, faults, pokes |
| `editor` | 178 445 | buffer, log and what is handed back from it, echo, completion |
| `commands` | 16 089 | words, answers, faults, prompt; the string and number routines |
| `terminal` | 76 979 | bounds, the strip of cells, moving back, the animation |
| `interrupts` | 210 104 | sleeps, wake-ups, keys, serial bytes, the line across `shell_init` |
| `boot_tail`, `boot_ragged`, `space_oom`, `line_lost` | violated | the four findings below |

Bounds, all of them constants of the `.cfg` files or of the `MC` modules:

* `heap`: pages of 8 units, a header of 2, three initial pages, frames for no more
  than one further page or its table; requests of 1, 7 and 11 units. One of them is rounded,
  one fills a block without a split, one is larger than a page. Runs split, merge
  on the left, on the right and on both sides, grow, and fail to grow at the
  first page or half way.
* `pmm`: three bytes of three bits, from every bitmap that reserves page 0: full
  bytes before, between and behind others.
* `boot`: 47 maps of a PC in miniature, with low memory, a video hole, extended
  memory that ends inside a page, at a page and at a byte of the bitmap, with
  and without flash that ends at the end of the word; some unsorted, with
  overlapping available regions, or with regions of no length.
* `space`: tables of five slots, 12 frames, eight of them free at first: the heap
  spans two directory slots, so pages need new tables, the machine runs out
  of frames at every point of a growth or a fault, and growth meets pages an
  earlier fault has mapped. Touched are pages of every kind: plain RAM, the directory and the
  first table through the identity map, a page whose frame becomes a table later, an unmapped
  page, the heap and what is beyond it; inside the window only the directory (see *Not modelled*).
* `editor`: lines of three characters of an alphabet of a letter and the space, a ring of
  two, commands `l` and `ll`: completions in full, in part and ambiguous. Copies into
  the history leave two bytes of an entry unused, as the code does, so the longest
  lines are cut. Rows have two cells, and output ends in the middle or at the end of
  one, so that a line of three goes on below wherever it begins.
* `commands`: words of 8 bits, a buffer of 12 characters, names of at most 2, three
  arguments, minutes of 3 seconds and hours of 3 minutes, 16 pages of which three are mapped and
  the last three are the heap's range; 56 lines, two of which are
  typed in a row: blanks and tabs in every place, unknown and prefixed names, flags in
  order and out of it, one word too many, sizes and addresses at and past each
  limit, pages mapped, missing and missing in the heap's range, accessed once and twice, bytes that
  are negative as `char`, names that are too long or spell a token; times and heap addresses on
  both sides of the int's sign. The references are evaluated on every buffer a line leaves.
* `terminal`: three columns by two rows, two parameters of a sequence, values saturated at
  12; text of up to three cells, which wraps and scrolls.
* `interrupts`: both builds; `tick` wraps after 4; one sleep of two ticks; three
  presses, releases or serial bytes, of both shift keys, a control key with a prefix, an arrow
  and a letter, and of a letter and a backspace on the port; a FIFO of 3 bytes that asks at 2;
  a line of two characters. `MaxEvents` bounds keys and bytes, nothing bounds the ticks.

These sizes are enough because each hazard needs two or three of the things it
is about: two neighbours to merge, two tables to confuse, one wrap of a ring,
a word or a screen.

`CHECK_DEADLOCK FALSE` stands where the kernel really stops: `cli; hlt` in
the panic handler (`MCBootMemory`), in the page fault handler
(`MCAddressSpace`, `MCSpaceOom`) and in `crash`, `exit` and `reboot`
(`MCCommands`, where the bound on lines also ends a run).

### Fairness

`Heap`, `BootMemory` and `AddressSpace` have weak fairness on the code that runs on by
itself once it was called: the processor executes and nothing there waits.
No caller is fair. In `Interrupts` the processor and the timer are weakly fair, and
so is the acceptance of a timer interrupt; the keyboard's and the serial port's are
strongly fair, because a tick may take precedence at any time but a handler takes far
less than a tick. The UART's timeout is weakly fair: it is hardware that counts
character times. Keys and senders are never fair. `Lag` bounds the ticks that pass before
`kernel_main` runs its loop once: ticks are a millisecond apart, and
what `sleep` compares, a difference modulo 2^32, would pass over the length it
waits for only if the loop were not run for 49 days. `Pmm`, `LineEditor`,
`Terminal`, `Logo` and `Commands` are checked for safety only.

`KeysHandled` has a condition for the serial port: its FIFO is never filled past the
trigger level. Past it the UART keeps its line high, `serial_callback` takes one byte
(`serial.c:13`), no edge follows and the port stays silent: TLC finds that when the
condition is left out. At 14 of 16 bytes a sender gets there if a handler is kept
waiting for fourteen characters.

## Findings

Each is a run that TLC ends with a violation.

* `boot_tail`: the reservation of the kernel image and the bitmap rounds its
  end down (`kernel.c:130`, `pmm.zig:96`); the page with their last bytes stays
  free, against "Bit is 1 : Page is USED or RESERVED" (`pmm.zig:112`).
  `KernelReserved` is what does hold.
* `boot_ragged`: the bitmap has whole bytes only (`pmm.zig:73`), against "The
  entire RAM is represented as an array of bytes" (`pmm.zig:110`). Freeing a page
  without a bit halts the boot; the trace goes on to that halt. `BootReachesRun` says for which maps it does not.
* `space_oom`: `mmu_map_page` puts a table in frame 0 when there is no frame for
  it (`mmu.zig:126`), where the handler has a message for that case
  (`mmu.zig:261`). Nothing that is mapped gets shared by it (`NoSharedFrame` still holds).
* `line_lost`: the down arrow replaces the line being typed by an old draft
  (`history.c:46`, `shell.c:263`), against "Current line" (`history.c:12`).

Read off the code while modelling, with no run of their own: `help.c:20` says of
`setprompt` "no arg prints current", while without arguments it prints its usage
(`setprompt.c:43`). `uptime -r` prints a negative number from 2^31 ticks on, and
`memtest` does for every address of the heap, because `print_unit` hands its unsigned
value to `itoa` (`shell.c:68`): `NumbersAgree` says exactly for which values the text
is right.

## Proofs

`tlapm` proves everything in the eight modules whose names end in `Proofs`.

**Heap.** Assumptions: `HeapConstants` (sizes are natural numbers, a header fits a page,
all of RAM mapped at the heap's start stays below the end of the word) and
`RequestsFit` (no request within a page and two roundings of 2^32), which is part of
each statement. Nothing is assumed about alignment or about how the constants relate
otherwise. Under them, for every size of header, page, RAM and request: the type
invariant, `BlocksDisjoint`, `WellLinked`, `NoAdjacentFree`, `LiveBlocks`, `FirstFit`,
`HeapTiled`, the action property `HeldBlocksStay` and the refinement `ImplementsContract`.

None of these is inductive alone. `WellLinked` needs the blocks apart, or a split could write
into a neighbour; `LiveBlocks` needs the block in `take` to be free and large
enough; that needs what the scan has passed over (`FirstFit`), and for a
grown block how many pages were asked for. `IInv` adds to them `Bounded` (mapped
pages and frames left never exceed RAM), `TakeFits`, and where `malloc` and
`memory_init` stand (`Booting`, `Searching`, `Growing`). The proof works on lists of headers, not on
the state: one lemma says what `Split`, `Absorb`, `LinkBehind` and `SetFree` do to
the fields, one that each keeps a well-formed list well formed, tiled and without touching free
blocks. One lemma per action then puts `IInv'` together. The refinement
follows from what `take` and `free` do to `live`: a new allocation lies inside a
block that was free, and used blocks are apart.

**Pmm.** Assumption: `PmmConstants`. For every length of bitmap and width of byte:
`PmmTypeOK`, `Accounted`, `LowestFirst`, `ImplementsAllocator`, by the
correspondence of pages and (byte, bit) pairs (`PageSplit`, `PageJoin`, `PageOrder`).

**BootMemory.** Assumption: `BootConstants`, among it that the boot stack begins and
ends at a page, as the linker script has it. For every memory map, also unsorted,
overlapping and of any length: `BootTypeOK` and `KernelReserved`. `OnlyRamFree` is
proved of maps that are `PlainMaps`, whose available regions begin at a page and meet no
reserved one, which the statement names; what happens otherwise is under *Not modelled*.
The invariant `BootInv` says which entries the pass under way has worked through
(`Progress`): a free page came from an entry before the current one and is outside every
range reserved so far.

**AddressSpace.** Assumption: `SpaceConstants`; within the window only the directory is
touched (see *Not modelled*). For every number of slots, frames and pages, with RAM running out and pokes going
anywhere, until one goes into a table:
`SpaceTypeOK`, `KernelMapIntact`, `TlbCoherent`, `NoSharedFrame` and the action property
`HeapStays`. Coherence is not inductive alone: entries are written through the window, so what
a write reaches depends on the TLB, the TLB on the tables, and both on a table having
been cleared before anything walks through it. `IInv` therefore says that
the tables behind the directory are apart and hold what the step under way has put there
(`TablesGood`, `Job`), what `mmu_init` has built so far (`Setup`) and that every page
below `heap_end` is mapped (`HeapMapped`). The tables are a value in the proof; one lemma
says what every page resolves to after an entry is written, another after a table is added.

**Interrupts.** Assumption: `InterruptConstants`: among them that the scancode table has a
letter L for Ctrl-L and none at the modifiers' codes (`keyboard.c:10`), and that the ticks a handler keeps
`kernel_main` waiting (`Lag`) do not add up to a whole wrap. For every keyboard,
table, FIFO and number of keys, both builds: `InterruptTypeOK`, `LineSettles`, `SleepsLongEnough`,
`KeysReachShell`. The types need to know which handlers each step of the boot
has registered (`Boots`). `SleepInv` bounds the ticks since the call by those the loop has seen
plus those it can be late. `KeysInv` is what the last one needs: it follows the
callback's flags through the bytes that are still waiting, byte by byte (`Tracks`), and says
that the calls it will make are the ones typed (`Agrees`) and that the flags it ends with are
the keys then down (`Held`).

**LineEditor, History.** Assumption: `EditorConstants`. For every buffer, ring, alphabet and table of
commands: `EditorTypeOK`, the action properties `CompletionKeepsChoices` and `Echo`,
and the refinement `ImplementsLog`. `Echo` says that no key but a completion inside the line takes the
screen out of step with the line, and that none leaves anything behind the line, but for Enter with the cursor
in an upper row of a line that goes on below. The types are inductive with one more
bound: the cursor is never a whole buffer behind the position (`EditorInv`; TLC agrees). For the
refinement every index of the ring is a slot counted from its oldest entry, and pushing to a full ring
shifts those by one.

**Terminal, Logo.** Assumptions: `TerminalConstants` and, for the animation,
`ScriptCharacters`: the logo and its text consist of characters the terminal has. For every size of screen, number and
size of parameters and table of colours: `TerminalTypeOK`, `MovesBack` for every text of up
to `LineMax` characters, and the refinement `ImplementsRoll`. They are theorems of
`TerminalSpec`, the terminal under any writer; `LogoIsTerminal` is that the animation
and what the kernel writes around it are such a writer. The state is one screen,
a value; each operator on it moves from a place to a place of the strip (`StepsTo`). `MovesBack`
goes by induction on the length of the text: `n` characters back from the place stand the
`n` characters, in the same column modulo the width, whether or not the last of them scrolled the
screen (`Drawn`), and after so many backspaces these cells are blank and no other
differs (`RubbedOut`).

**Strings, Commands.** Assumptions: `StringConstants`; `CommandConstants`, among it that a scan may cross
the whole of the shell's memory and the longest number, that every line fits the buffer, as the editor has it, and
that no two commands have the same name; `TemplateConstants`, that the template has each token once. For every
memory: what `ComparisonsAgree`, `BlocksAgree`, `CopiesAgree` and `TrimsAgree` ask, and more than
the run can, as the theorems about single routines are for every count, size and block length
(`BlockHolds`, `strncmpAgrees`, `strlcpyAgrees` and their neighbours). Each loop is shown to leave a memory given
cell by cell. For `memmove` that is the argument why it has two loops: from the near end each cell
is read before it is overwritten if the destination begins first, from the far end if it begins last
(`memcpyIs`, `memmoveDownIs`). The comparisons rest on where two texts, with their NULs, part (`Parted`), and on the reading of a
byte, signed or not, telling any two apart; that a byte from 128 on comes before the end of a string is part of the theorem.
`MemoryInvariant` carries this to the shell: `MemoryOK` (TLC agrees) says that the memory has a
character in each cell, that a line that is typed ends in the buffer and each name in its array. It is inductive because
parsing moves within the string it trims, so that the words it hands over end in the buffer
(`ParsedTo`) and `setprompt` copies from there into the names. Then `StringsAgree` is an invariant.

`NumbersAgree` is proved for every width of a word. A word is followed digit by digit: what
`htoi` has read after `k` digits is the word without the others (`Lead`), and a digit too
many drops out of the wrap on the left (`HexShiftedOut`). What `itoa` divides down to (`Falls`) is, turned around
by its swaps (`SwapHalfIs`), what `atoi` multiplies up to (`Spelt`); no product on the way leaves the int but
the last, and that one wraps to the right value (`NumeralMore`). From 2^31 on
the text has a minus sign, and at 2^31 no digit (`WordShown`).

`AnswersLine` is proved in four parts. Words (`WordsCut`): the parser's position always stands where
the next word of the reference begins, those cut out so far being the first of them (`CutOut`), so the
arguments are the words (`Handed`). Dispatch: as an argument compares equal to a literal only if it was typed so,
one command runs, the one whose name was typed (`Dispatched`). Answers: `echo` and `uptime` find
the options the user typed (`OptionsRead`); `peek`, `poke` and `memdump` the address and the size
(`AddressRead`, `SizeRead`), and an access is answered by the exception only if its page is missing (`AccessAnswers`); hours, minutes and seconds add up to the time although each is divided out
by itself (`TimeIs`). Prompt: from every place of the template on, the renderer writes what is left
of it with a name for each token (`RestIs`), and after `setprompt` a name is the word that was
typed, cut off to its array, while the other name stays as it was (`setpromptIs`).

Induction over numbers is done with sets of numbers (`UpTo`, by `WFMin` of
`WellFoundedInduction`), also for the loops of `Strings` and the functions that `MovesBack` defines by recursion.

Only model-checked: `LogoStands` (where each of the script's characters ends up), and all liveness,
which is beyond this prover as ENABLED is. `FirstFit` is proved and checked by no run of its own:
`ImplementsContract` and `LiveBlocks` rest on it.

## Not modelled

* Peek and poke inside the page table window, but for the directory: a fault at
  an empty slot makes the handler install an uncleared table through the
  window, after which accesses are undefined. `PROJECT.json` lists it.
* What follows a poke into the directory or a table: every later access and every table written through the
  window may then go anywhere. `AddressSpace` has the poke and stops; in `Commands` it is answered like any other.
* Translations the processor fetches ahead of use.
* Memory maps with RAM above 4 GB (`base_addr_high` is ignored), or whose available
  regions overlap a reserved one or begin inside a page: `pmm_mark_region_free` would
  then free a page that is not all RAM.
* `malloc` of sizes next to 2^32, and a command that runs before `memory_init`.
* The colours of cells, the hardware cursor, the wording of fixed texts.
* The stubs that save and restore registers, and a page fault inside a handler as
  far as the stack is concerned; exceptions other than the page fault, which print
  and halt.
* A backspace between the two assignments of `shell_init` writes a 0 one byte before
  the buffer; which variable lies there is the linker's choice.
* What two writers interleave on the screen: serial handlers of test builds write
  while `kernel_main` still draws.
* Segments, framebuffer, loader: constants, or code nobody calls.

## Plan

In this order; all are done.

1. Memory: `Heap` with its contract and proofs, `Pmm` with its proofs, `BootMemory`,
   `AddressSpace`.
2. The shell: `History`, `LineEditor`, `Terminal`.
3. `Interrupts`, with the serial port of test builds and `shell_init`.
4. `Strings` with references, `Commands` over it.
5. `Logo` over `Terminal`.
6. Proofs about paging, boot memory, interrupts, the editor with its history, and the terminal.
7. `StringsProofs`: the routines of `memory.c` and `string.c` for every memory, and the
   invariant of the shell's memory.
8. `AnswersLine`: the words `shell_parse` cuts out, what each command answers to them, the prompt
   behind a `setprompt`.
