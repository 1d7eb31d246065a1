# Formal models of nsst

nsst is a terminal emulator for X11 and Wayland, written in C. It is a
single-threaded program around a `ppoll()` loop: everything that happens is a
callback of a descriptor, a callback of a timer or the *tick* at the end of a
pass. What runs beside it is outside the process: the application on the other
side of the pty, the X server or the Wayland compositor, clients of the daemon,
and one signal handler (SIGCHLD).

The modules here are translated from the C source. TLC checks them on small
instances (`*.cfg`), TLAPS checks the proofs in the modules named `*Proofs`.
`PROJECT.json` lists the components, the runs, the source lines each definition
models, what mutation of the model each property detects, and the hazards of the
code the properties are aimed at.

## 1. Components of the program

| component | state it keeps | operations | hard part |
|---|---|---|---|
| poller (`poller.c`) | slots of `pollfd`, a heap of timers, the event whose callback runs | add, remove, toggle events; `poller_run()` | callbacks change the structures the loop runs over |
| window (`window.c`) | nine timers, `inhibit_read_counter`, `inhibit_render_counter`, `force_redraw`, `any_event_happened` | delays, synchronous update, resize, reload, close, tick | counters that stand for timers; callbacks that re-arm their own timer |
| terminal (`term.c`) | modes, cursor, escape parser, `requested_resize` | `term_read()`, `term_hang()`, the dispatch of ~250 sequences | reading stops at a requested resize; closing while data is left |
| tty (`tty.c`) | input buffer, deferred writes, watcher of the child | refill, write, hang, SIGCHLD | partial writes, EAGAIN, a signal between two steps |
| multipool (`multipool.c`) | pools, list of unsealed pools, counters | alloc, free, realloc, pin, set parameters | resizing in place, pools recycled under the right conditions only |
| lines (`line.c`) | cells, attribute tables, handles into lines | create, resize, split, join, copy | handles follow the cells; attributes are compacted |
| screen (`screen.c`) | lines of the screen, history ring, view, two buffers, cursor, margins | scroll, insert, delete, wrap on resize, redraw | positions are translated through a rewrap; history is a ring |
| selection, mouse (`mouse.c`) | selection state, handles, pressed buttons | press, move, release, rotate, clear | selection moves with lines that scroll, wrap and are freed |
| input (`input.c`) | keyboard modes | key to bytes | tables by mode |
| URIs (`uri.c`) | table of ids with reference counts, matcher | add, ref, unref, match | ids are reused |
| X11, Wayland (`window-*.c`) | connection, atoms, serials, frame callbacks | events, actions, selections | events for windows that are gone, callbacks that outlive a window |
| render, fonts (`render-*.c`, `font.c`, `image.c`, `boxdraw.c`) | glyph caches, damage | draw, free | reference counts |
| config (`config.c`) | global and instance options | parse, copy, reload | ownership of strings |
| daemon (`daemon.c`, `nsstc.c`, `nsst.c`) | pending launches | accept, receive, launch, exit | clients that go away in the middle |

How they interact: `poller_run()` calls `handle_term_read()` of a window when
its pty is readable; this fills the buffer of the tty, runs the parser of the
terminal, which changes the screen, answers through the tty, and asks the
window for delays (`window_delay_redraw()`, `window_set_sync()`,
`window_request_scroll_flush()`, `window_resize()`). Events of the display
server come in through the backend and reach the window (`handle_resize()`,
`handle_keydown()`, `free_window()`), the mouse and the terminal. The tick
redraws windows, handles children that have exited, and flushes the backend,
which may handle events again. Lines live in the multipool of their screen.

What makes each of them correct, and the property that states it (in italics
what no module states):

- poller: a slot, a heap position and a pointer of a client belong to one event; an
  event is in the heap or has a slot exactly while it is enabled (`EventsRight`); timers
  fire in order (`HeapRight`, `Implements`), and everything that stays due or ready is
  served (`FdServed`, `TimersFire`).
- window: a counter equals the number of timers that stand for it (`RedrawRight`); what is
  read is drawn (`Shown`); reading that was switched off is switched on again (`NotDeaf`);
  no timer outlives the window (`NothingLeft`); what is hidden for a time or blinks comes
  back, and pushed titles do (`EffectsRight`).
- terminal: output is interpreted in order, also across a requested resize
  (`NothingWaits`); the effect of a stream does not depend on how it is split into reads
  (`ParserRight`); modes, colours, attributes and the cursor that are saved or reported are
  restored (`ModesRight`, `ColorsRight`, `AttributesRight`, `CursorRight`).
- tty: bytes reach the application in order, none lost or twice; a list of deferred
  writes is flushed and freed once (`InOrder`, `PollOut`, `Delivered`, `FreedOnce`); the
  printer gets what is for it (`PrinterRight`).
- multipool: live blocks are disjoint, aligned and unchanged by operations on others;
  pools are returned exactly when they are empty.
- lines, screen: rows go on through the paragraphs, and everything that points into them
  follows (`RowsGoOn`, `Refolded`, `ViewFollows`); an attribute is in its
  table while a cell has it (`LinesRight`, `ShownKept`); rectangles change their cells only
  (`CellsRight`). *A resize loses no text that fits in the history.*
- selection, mouse: what is selected is what was meant, whatever the text under it does
  (`SelectionRight`); reports say where the mouse is and which buttons are down, once
  (`MouseRight`).
- URIs: a number is reused only when nothing has it (`LinesRight`); the links found are the
  URIs of the output (`UrisRight`).
- backends: no use of a window that was freed; keys repeat while they are held; frames come
  (`SeatsRight`, `FramesRight`); what is pasted is whole and in its frame, what is
  offered is what was selected last (`ClipboardRight`).
- daemon: a window has the command line of one client, all of it (`LaunchRight`).
- *input: every key is encoded as the modes ask for. config: every option of a window is
  its own after a reload. fonts: a cache is freed with its last user.*

## 2. Modules

| module | models | kind |
|---|---|---|
| `Multipool` | `multipool.c` | the allocator, one action per operation |
| `MultipoolProofs` | | proofs about `Multipool` |
| `TimerSet` | what `poller.c` promises about timers | abstract specification |
| `TimerHeap` | the binary heap of `poller.c` | one action per iteration of its loops; implements `TimerSet` |
| `TimerHeapProofs` | | proofs about `TimerHeap` |
| `Events` | the operations of `poller.c` | functions from a state of the poller to the next |
| `Poller` | `poller_run()` with an arbitrary client | state machine over `Events` |
| `EventsProofs`, `PollerProofs` | | lemmas on every operation of `Events`; proofs about `Poller` |
| `Tty` | what the terminal writes to the application: `tty.c` | one action per call of `write(2)` |
| `TtyProofs` | | proofs about `Tty` |
| `WindowLoop` | one X11 window in `poller_run()`: `window.c`, parts of `term.c`, `tty.c` | state machine over `Events` |
| `WindowLoopProofs` | | proofs about `WindowLoop` |
| `UriTable` | the table of links of `uri.c` | functions |
| `Lines` | attributes and links of paragraphs: `line.c`, parts of `screen.c` | state machine over `UriTable` |
| `Paragraphs` | lists of paragraphs, rows and handles: `line.c`, `line.h` | functions |
| `Screen` | the geometry of the screen: `screen.c` | state machine over `Paragraphs` |
| `EscapeParser` | the parser of control sequences: `term.c` | two parsers that get the same bytes |
| `TermModes` | modes of terminal, screen and keyboard: `term.c`, `input.h` | state machine |
| `Palette` | the palette under reverse video, the visual bell | state machine |
| `TerminalProofs` | | proofs about `Palette`, `TermModes` and `Mouse` |
| `FrontendProofs` | | proofs about `Launch` and `Effects` |
| `Regions` | margins, motion, rectangles, columns: `screen.c`, `term.c` | state machine |
| `Sgr` | decoding and encoding of attributes | state machine over requests |
| `Charsets`, `CursorState` | character sets (`nrcs.c`); what is reported of the cursor and restored | functions; state machine |
| `Selection` | segments of what is selected: `mouse.c` | state machine |
| `Mouse` | reports, the locator, links under the pointer: `mouse.c` | state machine |
| `UriMatch` | links that are found in the output: `uri.c`, `do_read()` | state machine |
| `Printer` | printer controller mode, printing, the child: `tty.c`, `screen.c` | one action per byte and per system call |
| `Effects` | blinking, hiding, titles: `window.c`, `render-shm.c` | state machine |
| `Launch` | the daemon and its clients: `daemon.c`, `nsstc.c`, `nsst.c` | processes over a socket |
| `Seats` | keyboards, pastes and frames: `window-wayland.c` | program and compositor |
| `PointerFrames` | pointers and their images: `window-wayland.c` | program and compositor |
| `XSelection` | what is offered to and pasted from other clients: `window-x11.c`, `term_paste()`, OSC 52 | program, X server and another client |
| `MCParts`, `MCFrontend`, `MCScreen` | several of these beside each other | sums: the first state chooses the component |
| other `MC*` | | values of the constants for TLC |

`Events` has no variables, so that `Poller` and `WindowLoop` share one
translation of `poller.c`. In `Events` the timers are a set with due times;
`TimerHeap` justifies that: it shows that the heap in the array behaves as the
set (`Implements`).

### Multipool

`mp` is `struct multipool` with what is reachable from it. A pool is an address
with `n_alloc`, `offset`, `size` and `sealed`; a live block is a pair of pool
and offset in `header`, whose value is the size stored in `struct header`. The
list of unsealed pools is a set with the order in which `get_fitting_pool()`
visits it. Addresses are chosen by `malloc()`, that is by `\E`. `promise` is a
history variable: the `max_pad` under which each block was allocated, until it is
pinned, and `given` has the blocks whose room a pin of another one gave away. The actions are the functions of `multipool.h`; `Release` is
`mpa_release()`, called by `free_screen()` when all lines are gone, followed by
a new terminal.

### TimerHeap and TimerSet

`at` is the local `index` of the sift loops; the timer that moves is the only
one whose stored `index` is not up to date while `pc` is not `"idle"`. `firing`
is `poller.current_event` while its callback runs; the callback may add and
remove other timers, so `Add` and `Remove` are enabled then. The refinement maps
the elements of the heap to the armed timers and their `current` to the time
they are due. A removal takes effect in the abstract specification when it
starts, an insertion as well; iterations are stuttering steps.

### Events and Poller

`p` is the global `poller` with the pointers of its clients (`ptr`), which
`pptr` of an event refers to. `phase` and `slot` are where `poller_run()` is.
`Poller` lets a client do up to `MaxOps` operations in every callback and every
tick, with any of its pointers, including those of the event whose callback
runs. The only restriction is one all callers keep: a timer is not toggled
in its own callback. The readiness of files changes at any time. `failed`
becomes true when an assertion fails or the code calls `die()`.

### WindowLoop

`w` is the part of `struct window`, `struct term` and `struct tty` that decides
when the terminal is read and when the window is redrawn, and the kernel's side
of the pty. What an application writes is a sequence of commands, one for each
way in which output acts on the window (`"text"`, `"clear"`, `"scroll"`, `"bsu"`,
`"esu"`, `"resize"`). A callback, or the tick, is one action, because the process
is single-threaded and nothing else changes its state; the application, the
server and the signal handler act between them. A real signal may also arrive
within a callback; its handler only sets `child` and `had_sigchld`, which are
read in the tick (with the signal blocked) and in `tty_refill()`.
`Block` and `Wake` split `ppoll()` so that a signal before it blocks and one that
interrupts it are different. A server that handles a resize sends the event;
one that does not simply sends nothing. Without memory for a timer's event the program
ends (`xzalloc()`), which is `failed`; the sets of events in the cfgs are large enough for this
never to happen, or `NothingLeft` would be violated.

Left out of `WindowLoop`: keys and several windows, blinking and the pointer timer (`Effects`),
bells (`Palette`), Wayland (`Seats`, `PointerFrames`), and deferred writes (`Tty`).

### Tty

The state is that of `struct tty` without its input buffer: `fd` and `child` of
the watcher, the mask of `tty->evt` and whether it is enabled (`on`), the list of
deferred writes and its counter. `tty->evt` is set exactly while the file is open.
Bytes are numbers in the order in which `tty_write()` was asked to write them,
and a node of the list, or the piece that `tty_write_raw()` works on, is a range of
them. `got` and `taken` are the pty: what it took, and how much of that the
application has read. `POLLOUT` is reported while there is room in it (Linux
reports it for a pty from a threshold on).

Inside `tty_write()` and `flush_deferred()` each `write(2)` is an action, so that
the application can read or close the terminal, and SIGCHLD can be handled,
between any two of them. `pc` says which loop the process is in, `piece` whether
`flush_deferred()` was called by `tty_write_raw()` or by `tty_refill()`.
`FlushSome`, `FlushEnds`, `FlushStops`, `FlushFails` are what a pass of its loop may find;
`NextPiece`, `WriteSome`, `WriteStops`, `WriteFails` are those of `tty_write_raw()`, and
`Refill`, `RefillFails`, `ToggleRead`, `Hang`, `FreeTerm` the other entries, which the window
calls one at a time. `tty_hang()` frees the nodes of the list but does not unlink
them; `freed` says so, and touching the list then leads to `pc = "undefined"`,
where the model stops. What `tty_refill()` reads is left out: `WindowLoop` has it.

### UriTable and Lines

`lines` are the paragraphs; a cell is the number of an attribute in the table of
its line (0 the default), `pad` that of the part behind the cells. A table is a
sequence of slots in the order of `hash_attr()`, so that the probing, the growth
and the compaction of `line.c` happen as they do there. `uris` is the table of
links with its reference counts and the free list that runs through the slots
themselves. References are also held by the current and the saved attributes of
the screen (`cur`, `saved`) and by the link under the pointer. Actions are the
operations of `line.c` as `screen.c` uses them: printing, detecting a link,
erasing, splitting, joining, optimising, freeing. What a cell *shows* is a history
variable that `ShownKept` compares.

### Paragraphs and Screen

`Paragraphs` has the two lists of lines, the rows (a row is a line, an offset and
a width), and handles, with the functions of `line.c` and `line.h` that split, join,
resize and free a line and move what points into it. `Screen` is `struct screen`
over it; its actions are the functions that the dispatch of sequences, the shortcuts
and the resize call, each with everything it calls: `screen_wrap()` joins paragraphs,
`screen_scroll_fast()` pushes rows to the history, which frees the oldest paragraphs
and may free those the view is in. Characters are one column wide and only counted.
Addresses of lines are named in the order of the lists (`Canon`), so that states that
differ in `malloc()` only are one.

### The emulation: EscapeParser, TermModes, Palette, Regions, Sgr, CursorState

`EscapeParser` is the loop of `term_dispatch()`, with every state of `esc.state`, over
bytes by class; handlers are outputs. Two parsers get the same stream, one in chunks
as `read()` returned them, the other a byte at a time and renewed in the ground state:
`SameOutput` says that no chunk and no earlier sequence can be told from the output.
`TermModes` has the flags with what they switch: the screen and its saved cursors, the
mouse, VT52 mode, levels of emulation, resets. `Palette` has the entries that
`term_set_reverse()` swaps, the copies the window keeps and the bell. `Regions` computes
on cells that know where they were written, so that "this rectangle and nothing else" is
a comparison with the cells before. `Sgr` decodes groups of parameters and encodes what
results. `CursorState` reports the cursor (DECCIR) and the tab stops, changes them and
restores the report; `Charsets` has the designators by level and the tables of some sets.

### Selection, Mouse, UriMatch

`Selection` keeps for each paragraph its list of segments as the code does, each at an
offset from the one before; `append_segment()`, `selection_concat()`,
`selection_split()` are translated with the cases that are wrong in them (section 7).
`want` is what a user meant, `exact` whether nothing else may be selected. `Mouse` is
`mouse_handle_input()` with the modes of the terminal; `told` is what a program must
believe from the reports. `UriMatch` is `do_read()`'s search: the states of
`uri_match_next_from_colon()`, the bookmark, and the tail of the buffer that is kept for
the next read.

### Printer, Effects, Launch

`Printer` reads in chunks of up to `MaxRead` bytes and prints a byte at a time; the child
may exit, and SIGCHLD be handled, between `fork()` and `add_watcher()` and inside
`remove_watcher()`. `paper` is what was written. In `Effects` a timer is armed or not and
expires at any time; `shown` is the cursor on the window after the last redraw. In
`Launch` clients and daemons are processes whose steps are system calls; the socket keeps
messages apart and in order, also those of a client that has been killed. `path` is the
daemon that owns the socket file.

### Seats and PointerFrames

Events that the compositor has sent wait in `sent`; the program handles them in order,
later. Weak pointers (`struct window_ptr`) are lists in the windows they point to, in
the order `win_ptr_ping()` gives them. A window may close, a seat go, a key be released in
between. `bad` is a use of what was freed. In `PointerFrames` events are noted
(`mask`) and take effect at the frame, as in `handle_pointer_frame()`; the compositor's
idea of where the pointer is and which buttons are down (`at`, `held`) is compared with
what the terminals were told. Pointer images are shared, with counts.

### XSelection

One selection of the X server, the window and another client that takes it and answers.
Requests of the program (`reqs`) are granted one by one, later, or all at its next
round trip; `x11_set_clip()` and each iteration of `receive_selection_data()` are one. What
the server tells waits in `events`. The property that carries a text is one for all
pastes, as in the code. `got` is what the program in the terminal received, `due` the texts
that were answered; `PastedWhole` compares them, with the brackets or the header of OSC 52
around each. `Block` is 4 for `PASTE_BLOCK_SIZE` 1024, both one more than a multiple of
three, so that texts are cut within and between the groups of three bytes.

## 3. Runs

All runs use the values of their `.cfg`. Deadlock is checked in `MCMultipool` only; the other
systems may stop, or reach the bounds of the model.

| run | question | bounds |
|---|---|---|
| `MCMultipool` | do blocks stay apart, are the counters exact, does the last block of a pool grow in place as promised | 3 pools of 40 bytes, blocks of 16 and 32 bytes, paddings 16 and 48 (the latter larger than a pool) |
| `MCTimerHeap` | does the heap implement the set of timers | 6 timers (the smallest heap in which the element that replaces a removed one moves up), 3 delays, clock up to 2 |
| `MCPoller` | dangling pointers, assertions, slots, events of another descriptor, timers in the heap exactly while enabled, starvation | 1 timer, 2 descriptors, an array that starts with 1 slot, 2 operations per callback, 1 per tick |
| `MCTty` | are bytes delivered in order, none lost or twice; is POLLOUT asked for exactly when needed; does everything arrive | calls of one piece of 1 or 3 bytes or of three pieces, until 6 bytes were asked for; chunks of 2 bytes; a pty of 3 bytes |
| `MCWindow` | are the counters exact, do the assertions hold, does a timer outlive the window | 3 commands of output, 1 event of the server, on-exit close |
| `MCWindowRead` | is output read, interpreted and drawn in the end | 3 commands with requested resizes, 1 event, on-exit keep |
| `MCScreen` | do rows, cursors (a saved one while its character is on a row), the view and the history fit together after every operation and resize | 2×2 cells, 3 paragraphs of up to 3 characters, history of 1; resizing between 2×1 and 1×2 |
| `MCParts` | does the emulation do what was asked, whatever came before or in between; do the backends keep to windows and texts that are there | twelve alphabets of bytes in reads of 1 or 2; 3×3 cells; 3 commands between a report and its restoring; 4 steps of a selection's user or of what is printed; seven streams of links; 5 steps of a seat, a pointer or a selection of X11 |
| `MCFrontend` | is what the terminal keeps for programs, users and clients what they asked for: attributes, modes, palette, reports of the mouse, what is hidden and titled, windows that the daemon opens | thirteen groups of modes that act on each other, at levels 0 and 4; the instances in `MCFrontend.tla`, each with 4 or 5 steps of its user, or until what it counts ends |

The window runs use ten events (eight pointers, the one that is replaced and the
one that closes the window), an array that starts with two slots, and delays of
one or two units so that timers fall due together and in both orders. Three
commands are enough for an output that arms a timer, one that arrives while it
runs and one that arrives in its callback. In `MCPoller` one event more than
there are pointers lets a callback replace its own timer. In `MCTty` a piece of
3 bytes takes two chunks and fills the pty, so that a piece is split by a chunk, by
a full pty and by both, and with 6 bytes two pieces wait on the list behind one
that was written in part.

`MCScreen`, `MCParts` and `MCFrontend` are sums: their first state chooses the component,
and a state is one of that component, so the number of states is the sum of theirs and
nothing is hidden by a product. The parts of `MCFrontend` have their bounds as constants, which the
theorems of `TerminalProofs` and `FrontendProofs` range over; those of `MCParts` are only model-checked. Each instance is the smallest in which the cases of its
component meet. Two rows are enough for a region, a row behind it and a wrapped
paragraph; three by three cells for rectangles that overlap in every way with
something beside them. `ESC_MAX_PARAM` is 2 and `ESC_MAX_STR` 3, so that both limits are
passed; the table of links has 3 slots and so is full; the grid of the mouse is 230 columns
wide, so that the X10 and UTF-8 formats end within it. Two daemons and three clients let one
start while another ends. Five steps of a seat are focus, press, a second focus, release or
close, and what follows.

Runs that end in a violation show where a statement of the repository and the
code differ (`findings` in `PROJECT.json` quotes the statements):

| run | what the counterexample shows |
|---|---|
| `MCFreedOnce` | a terminal that is closed with writes deferred is closed again by `free_term()`, or by `term_hang()` at the next SIGCHLD: the list is walked and freed again |
| `MCCloses` | SIGCHLD between the tick and `ppoll()` is noticed only at the next event; after the pty was closed by a read from a timer there is none, and the window stays |
| `MCOnDemand` | of two daemons started at the same time the one that fails to bind removes the socket of the other, and a client on demand ends without one |

### What the passing runs leave out

Where the code is wrong in a way that would hide everything behind it, the passing runs
leave the case out, and section 7 lists it. It is left out in one of two ways. A constant
says so; setting it to the other value shows the failure:

| constant | value | the case |
|---|---|---|
| `EscapeParser.ControlsInStrings` | FALSE | NUL and DEL in a string of an OSC or DCS sequence |
| `EscapeParser.Abandoned` | FALSE | a string that was allocated and is ended by another introducer |
| `TermModes.Vt52InAlt` | FALSE | VT52 mode entered on the alternative screen |
| `Palette.AnyOrder` | FALSE | single colours set, or all reset, while reversed; reverse video changed during the bell; a reload in reverse video or where it is configured, or with another background |
| `Regions.TopBeyondLeft` | FALSE | in origin mode, a top margin further from the top than the left one from the left |
| `Selection.LeavesPressed` | FALSE | paragraphs that go while Ctrl+click has left segments on them |
| `Printer.PartialWrites` | FALSE | a `write()` that takes a part |
| `XSelection.InFlight` | FALSE | another client takes the selection, or writes its next part, before what it did last was handled |
| `Seats.InFlight`, `Bursts` | FALSE | keys on their way to a window that closes; several writes of what is pasted |
| `PointerFrames.Abrupt` | FALSE | windows closed with buttons held or by their border; a border pressed with buttons held |

Where what is lost can be told, the model has the case and a history variable says what the property must
do without, and the property that everything else is kept: `given` in `Multipool`, `cut` in `Printer`
(bytes of a sequence that had begun when a read ended) and in `UriMatch` (names of protocols that were
last in a read), `refused` in `Effects`.

Or the choice of inputs does: `MCWindow` closes, so that smooth scrolling is not combined
with `keep`, and has no requested resizes; `MCWindowRead` has them with `keep`, but
`NothingWaits` ends where the terminal hangs up; `Effects`' sessions reload only between
configurations whose timers the reload takes along, and each session has one kind of title;
`Charsets` and `CursorState` get characters and sets that are not among the exceptions; and the users of
`Mouse` have the buttons, modifiers and points of `MouseAssumption` (section 5). The
comment of each property names its exceptions. `NotDeaf`, `RedrawRight` and `Shown` end at the first
failed assertion (`failed`), which ends the program; in `MCWindowRead` that can only come after the
terminal hung up (`poller.c:380`, section 7); and `NothingLeft` says that there is none in the runs that
state it.

## 4. Fairness

`Poller`: callbacks return and the loop goes on (weak fairness of the loop); a
signal that interrupts `ppoll()` is not assumed to come. Strong fairness of
`TimePasses` says that the clock runs: `ppoll()` cannot return infinitely often
without any time passing. Nothing is assumed of clients; `TimersFire` is about
behaviours in which timers are re-armed by clients finitely often.

`WindowLoop`: the loop goes on unless it is blocked without a timer and without
anything to read, or stopped; SIGCHLD is delivered. The application and the server
need do nothing. The condition is weak fairness of `Loop` with its enabling
condition written out, since TLC would enumerate all of `Loop` to find it.

`Tty`: the process goes on from one call of `write(2)` to the next (`Step`), because
the pty never blocks it; `ppoll()` reports what the kernel would report when the
event is enabled and `POLLOUT` is asked for, and the window then calls `tty_refill()`
(`PolledRefill`); the application reads what it can (`Take`), without which nothing
can be delivered. That the window may switch `POLLIN` off for ever, that reads come
from timers, and that the child exits or closes the terminal is left open: the
last two are the excuses in `Delivered`.

The other modules state no fairness. What should happen in the end is there an invariant
about what is left to happen: drawing that waits for a frame has a callback under way
(`FrameComes`), what is hidden for a time has its timer (`InhibitEnds`), a daemon holds
nothing of clients whose messages it has read (`Settled`). That names what would have to take
place and needs no assumption about servers and users.

## 5. Proofs

`MultipoolProofs` proves, for every set of addresses, pool size, set of request
sizes and of parameters (`MultipoolAssumption` only says that these are natural
numbers): type correctness, `BlocksDisjoint`, `Aligned`, `Accounting`,
`GrowsInPlace` and the action property `OthersUntouched`. The invariants are not
inductive by themselves. `IInv` adds that blocks start at offsets that are 8
modulo 16 and have sizes that are multiples of 16 (otherwise a block placed at
`offset` need not be aligned), that `offset` is at least the end of every block and not
beyond the size of the pool, that the list holds exactly the pools that are not
sealed, that sets are finite (for the cardinalities), and that a sealed pool is
not empty except for the pool `mpa_free()` is about to recycle. The operations
are built from steps (`pool_seal`, `pool_unseal`, `PutAtEnd`, `Drop`, ...); each
has a lemma on what it preserves, and the lemmas on the actions combine them. `GrowsInPlace` rests on
`Held`: a block with a promise is the last one of a pool that is off the list, so that nothing is placed behind it; there
is one such block in a pool (`HeldOnce`), and each operation leaves a block that is held where and as it is (`StillHeld`), except
a pin of another block that unseals the pool, which puts it into `given`.

`TtyProofs` proves, for every size of a chunk, capacity of the pty, bound and set
of calls (`TtyAssumption`: sequences of natural numbers, chunk and capacity not
zero): type correctness, `InOrder` and `PollOut`. `InOrder` is not inductive: a
piece could be written in front of the list. `Control` says that a piece is written
only while the list is empty, that there is no piece outside `tty_write()`, and
what the mask of the event is in each place; `Hung` that a list with freed nodes
belongs to a terminal that is closed. `Chain` states, node by node, that the list and
the piece continue what the pty has taken without a gap, while the child runs;
`Order` is what remains afterwards, when `defer_write()` drops what follows: numbers
still increase. `Types` adds to `TypeOK` that the counter is the length of the
list. One lemma per action (`FlushSomeKeepsOrder`, `DeferKeepsOrder`, ...) and one per
property (`TypesKept`, `ControlKept`, `HungKept`, `OrderKept`) lead to `Inductive`;
`ChainInOrder` translates `Chain` into the concatenation that `InOrder` speaks of.

`TimerHeapProofs` proves, for every set of timers and of periods and for heaps of any size,
`HeapRight` and that `TimerHeap` implements `TimerSet` (`Implements`). `HeapRight` speaks of
the moments between operations only, and says nothing while a loop runs. `IInv` does: `Contents`
says that no timer is lost or twice in the heap, `Indices` that all but the one that moves know
their place, and `Order` which edges of the tree hold, namely all but those at the hole, and
those from the parent of the hole to its children, which become edges when the timer moves
(without them a sift down after a sift up could break the heap). `Last` is for the
removal of the last timer, which is sifted where it is. `SmallestOf` shows that the first timer
of a heap is one that is due first. It is the only place where an induction over positions is needed, and
takes the form of a least counterexample (`WFMin` of `WellFoundedInduction`), the form
that the provers can use. The refinement then has one step per action: the iterations of
the loops stutter, the start of an insertion or removal and a timer that fires are steps of `TimerSet`.

`EventsProofs` has for each operation of `poller.c` a lemma that says what it keeps, for any
set of events, pointers and slots. `Consistent(q, x, d)` is what holds between calls; `x` is the
event that is out of the poller while its callback runs, and `d` whether it is to be
deleted. It says that pointers and events in use are in one-to-one correspondence (`Pointers`; the
event that is to be deleted has no pointer any more), that the heap has exactly the timers that are
enabled and do not run (`Heap`), that events with a descriptor and used slots are in
one-to-one correspondence (`Slots`), and that the free list has each free slot once (`FreeSlots`).
`AddFdOK` includes the growth of the array, whose new free list is a sequence
reversed; `RemoveOK` both meanings of `poller_remove()`.

`PollerProofs` proves `EventsRight`, for every number of events, pointers, files, slots and
operations, from these. `EventsRight` is not inductive: it does not say what the current event
is in each phase of the loop (`Current`), which kind of event a pointer has
(`PtrKinds`), or that a slot the loop has still to look at has events of the last `ppoll()` for
the event it had then, enabled or not (`Fresh`; one that is disabled and enabled again in
callbacks of the same pass is why `OwnEvents` alone is not kept). `ClientStep` reduces an operation of the
client to what `EventsProofs` says of it; one lemma for each action leads to `Inductive`. The assumptions
are `EventsAssumption` and `PollerAssumption`, of which the one that matters is that a free
event can be allocated: `alloc_event()` calls `malloc()`, and nsst ends when that fails.

`WindowLoopProofs` proves `RedrawRight` and `NotDeaf` for every set of commands and of events of the
server, every output, delay, lateness and `on-exit` (`WindowLoopAssumption`: there is memory for
the two events a window starts with). `IInv` relates the counters to timers in the states between
callbacks; `Right(s, 0)` is the part that every function of `window.c` has to keep, in the middle of a
callback as well. There a timer whose callback runs is no longer counted though its pointer may
still be set, hence `Live`; between the removal of a timer and the
decrease of its counter there is one more to count (`Right(s, 1)`). `Sound` is what the counting rests on: a
pointer that is set names a timer with that callback, a render timer in use has its pointer
(`Owning`; not so for `configure`, whose callback resets the pointer first, so that these are counted one by
one in `Configures`), every timer that does not run is armed (`Arming`), and the open terminal has one
slot (`Terminal`). `rd` is bounded by the number of timers that hold it, and need not be equal: `smooth` may be armed
again by its own callback without being counted (section 7). `NotDeaf` needs no more, since
a positive counter then has a timer. Both say nothing of a window that is gone or a program that has ended
(`Alive`), and so only types are kept there (`Types`). There is one lemma per function,
`do_read_Does`, `dec_read_inhibit_Does`, `handle_resize_Does`, ..., which says that it keeps `Right` and changes nothing
of what the callback that runs depends on (`Step`). Three functions loop over a
sequence; in the model they are recursive functions, of which `ReadRuns`, `AllRuns` and `EventsRun` show that they exist, by
induction over sets of naturals (`Steps`), and the invariant follows with the same lemma.

`FrontendProofs` is about windows and the daemon, two parts of `MCFrontend`; its theorems hold beside the other parts,
whatever their constants are. The first is `LaunchRight`, for any clients with command lines of any length, any number of daemons and
whatever is killed; `LaunchesAssumption` says only what clients are, and that there is a daemon where one runs at the
start. None of its three parts is inductive. `LaunchInv` says of each client (`ClientRight`) that what is on its way and what was
read of it make up a prefix of its script; that a connection waits only before anything was read; that the options and
arguments of a pending launch are those of the items that were read; and that once all was read nothing is held and there is a
window, an answer or a reason for neither. `EachWindow` says it of the windows, which remain when the daemon is gone, and
`Sockets` who has the socket file. A step acts on one client: `OneClient` and `OneClientOpens` leave to prove what
holds of that one. `HasArguments` and `HasOptions` speak of the first items of a command line by
counting (`OfNext`), so that one item more (`HasNextArgument`, `HasNextOption`) needs no induction. There
is a lemma for each action (`ConnectKeeps`, ..., `EndKeeps`), and for what a message does (`HoldsKeeps`,
`FreesKeeps`, `OpensKeeps`).

The second is `EffectsRight`, for any titles and any configurations of a window and of its reload that
`WindowsAssumption` has: what blinks has a timer (`blinking_shape` only with `allow_blinking`),
a cursor that is hidden on input blinks, and the reload keeps the timer. The code needs this: without
it the program ends or the cursor stays away (section 7). `EffectsInv` has three parts, and each step disturbs at
most one of them. `PointerOK`: whether the pointer is hidden is recomputed with whatever it depends on, and stays only when there was no image to show. `CursorOK` is
what makes `CursorSettles` inductive: what the window shows at the cursor is what was drawn there, which is decided by
`prev_hidden`, the state at the last redraw, and not by `hidden`; only when no event is pending are the two the same, and
only then does the blink timer have to be as the drawn cells want it. `TickKeeps` follows the order in which a
tick looks at the timers, decides and draws (`SteadyDoes`, `SubmitDoes`, `DamageDoes`). `TitlesOK`: each item of the stack is what
`window_push_title()` was to save of the titles of its time, so that popping the kinds that were pushed
finds them in the top item, however deep the stack (`FirstIs`, by the least position that has the kind).

`TerminalProofs` is about what programs ask of a terminal: three more parts of `MCFrontend`. The first is
`ColorsRight`, for every set of colours that programs use and for either configured mode (the run has normal video), without the cases of
`AnyOrder`; its second half, `WindowColors`, where the background under the cursor (`ColorsCursor`) is configured to the background,
since OSC 111 gives the window the former (`term.c:941`). `PaletteExact` compares the palette with
the one of a terminal that draws its colours swapped. The
invariant adds to it that the bell holds the mode it has to restore (`BellRestores`). The argument is `SetMapped`: an entry that
is set through the mapping of `selector_to_cid()` in a swapped palette is the entry set before the swap;
`ChangedDoes` applies it to the dynamic colours, two of which change together.

The second is `ModesRight`, for any groups of modes, levels and configurations (`ModesAssumption`: the modes are
those of the tables, and no option turns on the alternative screen). `ModesInv` adds three things to what is checked. What XTSAVE
stored in each slot is what a query answered then (`AnswersBy`, in terms of the slot and not of the modes, so that it
outlives every change of these). The screen and its mode agree, and the motion that the window
was asked for and the mouse mode (`ModesSound`). And in VT52 mode neither the modes nor those it keeps for later have the
alternative screen, without which leaving it would show the one and say the other. `SrmCases` separates the cases
of `term_srm()` and `term_get_mode()`, whose tables are shown not to meet (`FlagsApart`, `MouseIs`); `SrmIs` and `RestoreIs` then show, case
by case, that a mode which is set or restored is answered so. `HardStep` compares a terminal after a hard reset with a
new one field by field.

The third is `MouseRight`, for any programs and users that `MouseAssumption` has, a border, cells and a grid of any size,
any cells with links, with and without `USE_URI`. The assumption has three parts, each a case in which a report
says something else than what happened (section 7): no button above the 11th, since the code of the 12th is the 8th's with
a modifier; no modifier but shift, mod 1 and control; and, for programs that use a mode beyond X10, no point
behind column or row 223, of which a press is remembered and not reported in the default format. `MouseInv` has a part for each property.
`ButtonsOK` says that what the reports said of buttons is what is down, in every mode (`ButtonsTold`
speaks of some), and that a button which is the only one pressed is the one that drags will name. `OnceOK` tells the shots of a one-shot locator from
those it has left, and that a filter that is set was not left. `LatestOK` is why no position is repeated: the
last report has the position that is remembered, in the format that was used then. `OutOK` is about the report of this step,
at most one; `HeardOK` is `MotionHeard`. The argument about coordinates is `Coordinates` (a pixel that is clamped is in the
window, its cell in the grid, by `Product` and `Quotient`); that about codes goes through the sums
of codes, modifiers and offsets one by one (`NumberIs`).
`EventDoes` says what `mouse_handle_input()` may do, of which four lemmas show that the parts of the invariant are kept
(`TypesKept`, `ButtonsKept`, `OnceKept`, `ReportsKept`), and `Commanded` what a command of a program may.

Only model-checked: `NothingLeft`, which does not hold for every value of the constants: section 7 has the
cases (requested resizes, `keep` with smooth scrolling, timers armed when the terminal closes), which the inputs of its run leave out, and it
needs enough events; `Delivered`, `FdServed`, `TimersFire` and the other liveness properties, which are out
of the prover's reach; and the properties of the modules not named above. Those of `EscapeParser`, `Paragraphs`,
`Printer`, `Screen`, `Selection` and `Sgr`, and with them several of `MCParts` and `MCScreen`, are
about what recursive definitions compute from sequences of any length.

## 6. Plan

Done: the modules of section 2, and proofs about `Multipool`, `Tty`, `TimerHeap`,
`Poller`, `WindowLoop`, `Palette`, `Launch`, `Effects`, `TermModes` and `Mouse`. Next, in this order:

1. Proofs. `UriTable`: a slot is free exactly
   when nothing refers to it (what `LinesRight` says of attributes cannot be proved for every constant: the bitmap of
   `optimize_attributes()` misses a number when the capacity is a multiple of 64, `line.c:256`). `XSelection`: what is offered is what was selected.
2. `XSelection` with the conversions of `term_paste()` (quoting, encodings), and with several
   selections, which share `paste` of the terminal.
3. `Offers`: data offers and sources, and drag and drop of Wayland; `Configure`: the
   sequences of `configure` events and the outputs of Wayland.
4. `HashTable` and `GlyphCache`: rehashing while an entry is held; the sharing of a cache by
   windows of one font size.
5. `Input`: the encoding of keys as a table by mode. `Config`: the ownership of options over
   a copy and a reload.
6. Smooth scrolling and damage of `screen_redraw()` against a reference screen, with wide
   characters and protected cells.

### Not modelled

- Fonts, images, box drawing (`font.c`, `image.c`, `boxdraw.c`), the compositing part of
  `render-*.c`: computations on pixels, sequential and without a state that later steps
  depend on except caches.
- `precompose-table.h`, `width-table.h`, `iswide.h` and the larger part of `nrcs.c`: tables. Five
  sets are in `Charsets` because what is special in them (a national set, a 96 character
  set, a set with holes) is what the encoding depends on.
- `config.c`, `util.c`: conversions of text.
- `hashtable.h`, `list.h`: their contents are sets and sequences in the modules that use them.
- `input.c`: what it computes from a key and the modes has no memory; its modes are in `TermModes`.
- `configure`, shell integration, terminfo, documentation.
- Of modelled components: what `PROJECT.json` says under their names. The dispatch of
  sequences is modelled where its handlers keep state; device reports, DECRQSS and termcap
  queries answer from constants and from state that other modules have.

## 7. Differences between code and intention

These were met while translating. Three have a run (section 3); the others were followed
in the code, and are kept apart in the runs by what section 3 says, or are outside what a
property is about. "Excepted" names the property that leaves the case out.

**Window and terminal** (`WindowLoop`). `handle_smooth_scroll()` (`window.c:325`) reads the
terminal while its own event is still in `smooth_scroll_timer`: a scroll in that read re-arms the
timer without counting, and the delay that `docs/nsst.1:544` promises runs with reading on.
`handle_configure_timeout()` (`window.c:197`) clears `configure_delay_timer` before its event
is freed: a resize requested by what it reads stores a new timer whose pointer `free_event()` resets,
so that it stays armed after `free_window()` (assertion `poller.c:127`). With `on-exit` not
`close`, `term_hang()` from `window_check_sigchld()` closes the terminal while such a timer is
armed, and its callback toggles an event that is gone (`poller.c:380`). `handle_resize()`
(`window.c:761`) reads the terminal if the resize *was* requested; its comment says the
opposite. Output that follows a requested resize in the buffer is lost when the terminal is
closed in `keep` mode (`term.c:3918-3930`).

**Blinking and titles** (`Effects`). `reload_window()` frees the timers of the inhibition
of blinking, the pointer and the bell without undoing what waits for them (excepted in
`InhibitEnds` and `CursorSettles`, `cut`). Without `allow-blinking`, a blinking shape or text leads to
`poller_toggle()` of no event (`render-shm.c:272`, `render-xrender-x11.c:872`); with
`cursor-hide-on-input` nothing draws after the inhibition. With a steady shape, an event
between the end of the inhibition and the next blink turns the blink timer off with the cursor
not drawn (`WindowsAssumption` has none of these configurations). A new window has no image for the pointer
until the pointer was in it (`reload_cursors` selects one only when `cursor_user` differs from none), so that a pointer hidden by
a key is not shown again when the timer ends, nor at the first motion, which looks at it before it selects the image
(`window-x11.c:995`); the model has this (`refused` in `PointerAsAsked`). On Wayland a change of mouse reports shows or hides the
pointer by the decision made last (`window-wayland.c:401`), where `SetMouse`, which is X11's, decides again. Popping a kind of title that the top item lacks takes it from below and
drops the top.

**tty and printer** (`Tty`, `Printer`). `write()` of no bytes returns 0, the empty piece is
deferred and never leaves the head of the list (`tty.c:572`; an ENQ with an empty
answerback, `term.c:3040`; the comment `tty.c:557` expects it not to). Printing starts again at
the first byte after a partial write (`tty.c:635`); what is held
back at the end of a read because it may begin a sequence is printed neither then nor by the next call, whose block begins
at its own first byte (`tty.c:750`): of CSI at the end of one read and `x` in the next one the printer gets `x` only, where `tty.c:697-702`
has all but NUL, XON, XOFF and four sequences redirected (`cut` in `PaperExact`); a NUL within a sequence prints its first bytes.
`handle_chld()` closes the pipe and leaves its number in `w->fd` (`tty.c:74`). A child that is
reaped before `add_watcher()`, or after `remove_watcher()` has taken it from the list, is signalled by a
number that is no longer its own (`NoStray` says nothing of these two windows, and no text of the repository denies them).

**Allocator, attributes, links** (`Multipool`, `Lines`, `UriTable`, `UriMatch`). The
"guaranteed maximal size" of `multipool.h:31-33` is not: `check_unseal()` unseals the pool of a block that
is pinned again, although the last one in it is another one that was not pinned. That happens: `optimize_line()` pins a line
each time it goes to the history (`line.c:357`, `screen.c:427`), and a resize brings lines back (`screen.c:431`). `GrowsInPlace` is what
does hold: with two blocks in a pool, the first one pinned and the second not, pin the first again and allocate, and the new block
lies behind the second, which can then only move (`given`). `alloc_attr()` may keep a reference (`uri.c:37`). The bitmap of `optimize_attributes()`
has no bit for the number that equals a capacity of 64 or a multiple of it (`line.c:256`), and
clears no word for it. `init_proto_tree()` tests a length that is never
positive. A link is not found when its protocol's name was in the previous read:
the last bytes are kept "for URL parsing matching" (`tty.c:511`) and `match_reverse_proto_tree()` finds the name there, but
`offset` is then negative and no bookmark is taken (`term.c:3510`, 3522; `cut` in `SameLinks`). A link lacks its last cell at the right margin
(`screen.c:1993`, `term.c:3464`; excepted in `LinkExact`), and starts a cell early behind a
pending cursor. `user:password@` is not recognised; an incomplete port or escape at the end
loses the link; `$` is missing from the characters that `uri.c:247` lists.
`apply_matched_uri()` gives all cells the first one's attribute.

**Screen** (`Screen`, `Regions`). A saved cursor whose character goes to the history or is cut off by a resize is
clamped to where it was (`screen.c:758`, 766; `Refolded` follows it while its character is on a row). The loop of `push_history_until()` that pulls never runs, and
`sb_limit` is not decremented (`screen.c:432-434`). `screen_scroll_view_top()` does not look at the
alternative screen. A resize with a pending cursor moves it to the last column.
`screen_wrap()` below the bottom margin, or on a screen of one row, joins what is not
adjacent. Scrolling without saving adds a paragraph to the history that is not counted.
`screen_print_screen()` leaves out the last row. In insert mode cells up to the right margin
are moved, also when the row is shorter (`screen.c:1981`). `rect_pre()` clamps a column with the row's minimum
(`screen.c:962`). CUB with reverse wrap goes one column too far after whole rows. Parameters
above 32767 are cut to 16 bits.

**Emulation** (`EscapeParser`, `TermModes`, `Palette`, `Sgr`, `CursorState`, `Charsets`). A
control character in a string makes the rest of the buffer part of it (`term.c:3212-3216`; the
comment above says it is skipped). An allocated string is kept when another introducer ends
it. Digits beyond `ESC_MAX_PARAM` go to the last parameter. A single shift holds for the whole
chunk. DECRQM of 1000 reports that of X10, those of 2005 and 2006 are exchanged. XTRESTORE of 2026 ends
the synchronous update (`term.c:2225` expects otherwise); of 2 it enters VT52. VT52
mode entered on the alternative screen leaves its rows shown. OSC 111 sets the
window's background to the configured cursor's. DECSCNM during the bell is undone. 90–97 and
100–107 are decoded as 0–7. DECCIR's position is not decremented when restored, a single
underline comes back double, the shift is restored from the old cursor, an empty
report of tabs writes before the array. Of the national sets £ is encoded as `$` and `#` decoded as £;
the Turkish `&` comes back as ğ; 0xFF of a set of 96 is encoded as DEL; these are excepted in `Restored` and
`SameCharacter`.

**Selection and mouse** (`Selection`, `Mouse`). `append_segment()` keeps the last of the
segments it swallows; a segment before another one selects the gap; above `SNAP_RIGHT`
cells are lost when paragraphs are joined; `selection_split()` drops segments behind the
first that passes; `damage_changed()` goes on in a list that has ended (excepted in
`TurnedIsDrawn`). Ctrl+click leaves segments that `selection_clear()` does not remove (assertion `line.c:93`).
DECEFR passes its parameters 1, 0, 3, 4, with a row where a column is the default (`term.c:2753-2757`). A one-shot
locator is disabled by a motion that reports nothing, and not cleared by DECELR. On X11 with NumLock a
motion is reported as a drag (`mouse.c:1018`). A second button or the wheel replaces the button that
is reported; the code of the 12th button, which X11 passes on (`window-x11.c:1006`), is that of the 8th with shift; a press that is too far for the format is remembered though not reported. The check of
a row in `update_active_uri()` (`mouse.c:954`) always holds.

**Daemon** (`Launch`). `recv()` that returns 0 in the middle of a command is ignored: the
launch is held for ever and `poll()` spins (excepted in `Settled`). The value of a short option
keeps its `=` (`daemon.c:176-184`; `WholeCommand` has it so), empty arguments are dropped (excepted
there), messages above 512 bytes are cut. A stale socket file fails the first start. A window that could not be created is not told to the client.

**Wayland** (`Seats`, `PointerFrames`). Events under way for a window that was freed: a key
uses no window (`window-wayland.c:1449-1454`), an enter a surface that is gone (1355); a
leave or button left over in `event_mask` reaches the next window (1758), or fails an
assertion (1564). Leave and enter in one frame clear the new window. A click on the border that closes
the window uses it afterwards (1680, 1812). A paste ends early when its second read finds nothing
(1201-1208); it is never the first part (1210), so that bracketed paste is not opened. `repeat_info` with
rate 0 divides by zero (1494). Setting the clipboard with no seat focused uses none (1160,
1182). Seats that appear later have no data device (2413). A frame callback replaced by a
forced redraw outlives its window. `free_window()` reads a pointer after what holds it was
freed (790-796).

**Pasting and the clipboard** (`XSelection`). An OSC 52 answer is encoded in groups of three
bytes; when a part leaves two, the first is kept twice and the last is lost
(`term.c:3634-3635`), so that answers above 2048 bytes are damaged. A last part of one or two bytes,
and a text of up to three, is only kept (`term.c:3630-3639`). When nobody answers,
`paste.from` stays set and the next paste goes out as an answer. The model has these cases
(`LeftOver`, `Encoded`); its inputs have answers of 4 to 8 bytes and an owner with a text.
An INCR transfer deletes the property a second time (`window-x11.c:871`, 887), which may erase a
part that was not read, and a PropertyNotify that finds nothing ends the transfer (861); each part
is bracketed on its own, and after an OSC 52 header only the first is an answer, so that the inputs with
`query` have no parts and that with parts no brackets. Pastes that overlap may lose a text
(`PastedWhole` allows it); with different owners they may be cut. A SelectionClear handled
after the window took the selection again erases the new text (`InFlight`), and one for
CLIPBOARD erases that of PRIMARY (`window-x11.c:1018`). Quoting reads a buffer that only a
conversion fills (`term.c:3646`). An incomplete character at the end of a part, with a terminal
that is not UTF-8, is never consumed. The loop of the local echo compares the bytes at its ends
instead of the ends (`term.c:3835`).
