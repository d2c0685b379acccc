# Verification of ezpn's session daemon

ezpn is a terminal multiplexer: a daemon owns PTYs, tabs and layouts, and
clients attach to it over a Unix socket. This directory holds TLA+ models of
the daemon's core, the TLC runs that check them on small instances, and TLAPS
proofs of the results that hold for every value of the constants. `PROJECT.json`
lists components, runs, mutants, the map from definitions to source lines,
findings, hazards and theorems.

## 1. The system

| Component | State | Operations | Hard behaviour |
|---|---|---|---|
| Client output (`server/connection.rs`, `QueuedWriter`) | pending bytes, queue of blocks, `closed`, `failed`, byte counter | `write`, `flush`, `fail`, `drop`; worker: take, write, release, stop | two threads, a lock, a condition variable and two atomics; write errors in the middle of a frame; close racing with flush |
| Client input (`client_reader`, `ClientReceiver`) | bounded channel, byte budget, `closed` | read, reserve, send, last word; `try_recv`, `drop` | backpressure against a client that is being dropped; a last word nobody has room for |
| Session loop (`server/mod.rs`) | clients, their sizes and modes, the shared size, `RenderUpdate`, `tab_action`, `output_disconnects` | accept, steal, events, resize, detach, disconnect, kill, auto-save, render | everything of one round interacts: order of departures, resizes, save, tab action and frame |
| Tab manager (`tab.rs`) | stored tabs with a gap, `active_idx`, `count`, `next_id` | `from_tabs`, `switch_to`, `create_tab`, `close_active`, views | index arithmetic around the gap, partial failure of a new tab |
| Pane (`pane.rs`) | channel from the reader thread, `alive`, `reader_eof`, `exit_code`, `sync_opened_at` | reader thread; `read_output`, `kill`, `drop`; 33 ms watchdog | exit and end of file in either order; drop against a blocked reader; windows that race with the watchdog |
| Pane supervision (`bootstrap.rs`, `server/mod.rs`) | panes per tab, restart policies, `restart_state`, `spawned_seen` | `restart_panes`, dead-tab test, split, close, replace, load, new-pane detector | ids that are unique per tab only, budgets over time, background tabs |
| Event bus (`events.rs`) | a bounded queue and a loss count per subscriber | subscribe, publish, receive | a subscriber that does not read; a notice that needs room itself |
| Hooks (`hooks.rs`) | registry, queue, workers, `active`, `accepting`, `cancel` | fire, take, run, time out, replace, shutdown | one condition variable for workers and shutdown, deadlines, cancellation |
| Control IPC (`ipc.rs`, `ext_handlers.rs`) | connections, bounded channel, one answer channel per request | accept, request, execute, answer, time out | late answers, a full channel, peers that leave |
| Handshake (`handshake.rs`) | pending threads, results with their age | accept, hear, deadline, take or discard | silent peers, results that come too late |
| Snapshots (`workspace.rs`, `capture_snapshot`) | document, temporary files, path | capture, validate, write, sync, rename, migrate, restore | crash between two steps, two writers, tab numbering around the gap |
| Session socket (`session.rs`, `socket_security.rs`, `attach.rs`) | directory entries and inodes | probe, remove stale, bind, rename, clean up | several daemons and commands on one name |
| Attached client (`client.rs`) | raw terminal, reader thread, channel for one message | copy both ways, restore, join | ends in any state of the other thread |
| Layout (`layout.rs`) | a binary tree with ratios | split, remove, swap, resize, equalize, specs, drag, hit tests | several walks that must agree down to empty areas |
| Input modes, mouse, commands, settings (`server/input_modes.rs`, `mouse.rs`, `actions.rs`, `settings.rs`) | mode, zoom, focus, prompts | every key, click, command and bound action | state left behind by one event of a batch and used by the next |
| Terminal (`vt100/`), frames (`render_diff.rs`), copy mode, buffers | grids, a model of the client's screen, cursor and selection, named texts | control functions, format, difference, motions, yank, paste | wide characters, pending wraps, soft wraps, stale models |
| Interceptor and clipboard (`pane.rs`) | a second parser with the pane's modes; queues of requests and one prompt | bytes cut anywhere; requests, answers, restarts | two parsers of one stream; a prompt that outlives its pane |

The main loop calls everything else; the output worker, the input reader, the
PTY reader, the acceptor, the hook workers and the IPC workers are threads that
talk to it through bounded channels and wake it with `wake_main_loop`.

What makes each part correct: a client sees an ordered prefix of whole frames
and is never frozen by a lost wake-up; no client can make the daemon hold more
than its budget; the session always has the size its writable clients agree on
and every client a valid redraw baseline; what was done is in the auto-save; the
tabs behave like a list; a pane is dead only after all of its output was shown,
and is then restarted within its budget or its tab closed. A subscriber can count
what it missed, an answer belongs to its request, the path of a snapshot always
holds a whole one that restores the session; panes tile the screen and have the
size they are drawn with; a client's terminal shows the frame, a copy is what
was typed, and the clipboard is touched with consent only.

## 2. The modules

| Module | Models | State and actions |
|---|---|---|
| `FrameStream` | abstract: what a client is promised about its output | `accepted`, `frame_ends`, `delivered`, `broken`; accept, deliver, break |
| `OutputQueue` | `QueuedWriter`, `write_msg` | one action per critical section or atomic access of the producer and of the worker; a block is a range of positions of the accepted byte stream |
| `TabList` | abstract: the user's list of tabs with a selection | open, select, close, rename, replace |
| `TabManager` | `tab.rs` and the tab actions of the main loop | the methods are operators on the manager record; one action per `TabAction`, the automatic close, IPC Load and the frame that refreshes the cached names |
| `ClientInput` | `client_reader`, `ClientReceiver` | one action per step of the reader; the drop of a client is three steps, in the order of the fields of `ConnectedClient` |
| `Session` | the client half of the main loop, `accept_client`, `effective_size`, `RenderUpdate` | phases `top`, `events`, `tabs`, `render` of a round; one message of a client is one step |
| `MainLoop` | `Session` and `TabManager` side by side | `part` as in `Daemon` |
| `PanePty` | child, PTY reader thread, `read_output`, `kill`, `drop`, watchdog | output counted in chunks; a chunk leaves, closes or (re)opens the synchronization window |
| `Panes` | all panes of all tabs in the loop's round | `Watch`, `Restart`, dead-tab test, `Wait`, and the operations of users and IPC peers |
| `PaneSetup` | the new-pane detector on top of `Panes` | each step of `Panes` extended by what it does to `spawned_seen` and to the configured panes |
| `EventBus` | `events.rs` | `Subscribe`, `Publish` under the lock, `Receive` by another thread |
| `HookPool` | `hooks.rs` | critical sections of the queue's lock; predicates and templates as operators |
| `ControlIpc` | `ipc.rs`, the request part of the loop | one state per connection thread; `Execute` runs one request, with an operator per command |
| `Snapshots` | `workspace.rs`, `capture_snapshot` | documents are records; one action per file-system call of a writer; process and machine crashes |
| `SessionSocket` | naming and binding of sockets | one action per file-system call of a daemon, `rename` and the clean-up guard |
| `Handshake` | `handshake.rs` and the loop's `try_recv` | peers, their threads, results with an age in ticks |
| `AttachClient` | `client.rs` | main thread and reader thread, channel for one message |
| `Daemon` | the seven modules above side by side | `part` says which one a behaviour moves: they share no state |
| `LayoutTree` | `layout.rs` | a tree is a function from paths to panes and splits, an edit is the function after it; ratios in ten-thousandths |
| `LayoutEdit` | one tab's geometry with `DragState` | one action per edit, grab, drag, release, resize |
| `Workbench` | a round of the loop with all modes, mouse, commands, settings, zoom and sizes | phases `top`, `door`, `events`, `leave`, `act`, `ipc`; one action per handler |
| `Editing` | `LayoutEdit` and `Workbench` side by side | |
| `Vt100` | `vt100/` cells, rows, grid, screen | operators: one per control function |
| `ScreenDiff` | the writers `state_formatted` and `state_diff` | operators that produce control functions |
| `Terminal` | a pane's screen; the frame encoder and a client's terminal | `Output`, `Resize`, `ScrollView`; `BeginFrame`, `Draw`, `ShowCursor`, `Encode`, `Bypass` |
| `Buffers` | the store of `buffers.rs` | `BufferSet`, with eviction and renumbering |
| `CopyMode` | `copy_mode.rs` over a printing program, with `Buffers` | motions, selections, search, yank, paste, buffers |
| `PaneControl` | the interceptor of `pane.rs` and vt100's parser | `ReadByte` feeds both |
| `Clipboard` | OSC 52 requests, prompt and answers | `Emit`, `Forward`, `Answer`, `Replace`, `LoadWorkspace` |
| `Display` | `Terminal`, `CopyMode`, `PaneControl` and `Clipboard` side by side | `part` as in `Daemon` |
| `SeqOps` | sums and filters of sequences | operators |

`*Proofs` modules hold the theorems (`SeqOpsProofs` the lemmas about `SeqOps`,
`LayoutProofs` those about the tree and about `Workbench`, `PaneProofs` those
about `PanePty`, `PaneControl` and the screen of `Terminal`),
`MC*` modules the values of constants that a cfg cannot write. Every mutant (a definition changed the way a plausible bug
would) stands next to the definition it changes and is used by nothing else.

How they fit together: `Session` abstracts `ClientInput` to "any message may
come next, a disconnect included" and `OutputQueue` to "a frame may fail to be
queued", both of which the detailed modules justify; it abstracts `TabManager`
to "a tab action happens after the auto-save". `Panes` abstracts `PanePty` to
"some panes are found dead", justified by `ExitAfterOutput` and `ExitNoticed`.
`Workbench` abstracts the storage of tabs to the list `TabManager` implements,
`Panes` to "a program ends" and "Enter starts it again", and `ControlIpc` to
"a request changes the panes"; `ControlIpc` in turn keeps only which panes
exist. `CopyMode` and `Terminal` share `Vt100`, and `PaneControl` feeds the same
kind of bytes to the interceptor that `Vt100` gets as control functions.

Abstractions: bytes are positions or sizes, messages are numbers, names and
tabs are identities, time is "the watchdog is due", ticks or units of two
seconds. Logging, wording and OS errors that do not occur in normal operation
(a failing `poll` on an open descriptor, a failing `wait` on an own child) are
left out. A full PTY channel is retried every 2 ms in the code; the model
retries without counting.

* `Workbench` leaves out broadcast, tab names, mouse text selection and the
  clipboard prompt (`Clipboard`); `last_active` may be any pane; restart
  policies are in `Panes`, IPC Load in `Snapshots`. A bound key that opens a mode
  or a tab action is the prefix key followed by the built-in one. The keys of all
  clients form one stream, as in the code. `unfit` and `stray` mark what the
  deviations of section 6 leave behind.
* `CopyMode`: the pane is not resized, search matches are not kept between keys.
* `PaneControl`: a decimal number counts as one byte; titles, colour queries,
  directory reports and the encoding of keys are left out.
* `Clipboard`: ill-formed and oversized requests are dropped, hence not modelled.
* `Vt100`: the vte byte parser is external; attributes are a function of a few
  fields.

## 3. The runs

| Run | Shows | Bounds and why they are enough |
|---|---|---|
| `output_queue` | accounting, no stranding, delivery, no lost wake-up, refinement of `FrameStream` | header 1, payloads 0, 1, 3, queue 4 bytes, blocks of 3: frames that are coalesced, that do not fit a block, that fill the queue and are refused; up to 9 bytes |
| `client_input` | order, budget accounting, all endings, backpressure ends | channel of 2, budget 5, sizes 1, 3, 5: both the channel and the budget fill up; 4 messages |
| `main_loop` | shared size, redraw baseline, auto-save; refinement of `TabList`, freshness of the cached names | 3 clients over a behaviour, 2 at once, batches of 2, two terminal shapes, one with no columns, neither smaller in both directions; up to 4 tabs at once (first, middle, last and right neighbour are different), 4 opened over a behaviour |
| `pane_pty` | exit after output, exit noticed, drop ends | channel, drain limit and kernel buffer of 2 chunks: each can be full while another is empty |
| `panes` | budget, dead tabs end | 2 tabs, 2 ids, 5 retries: the backoff passes its constant part, and a pane that waits for its longest delay reaches the 3 units of stability while dead, the case in which the age of an entry alone must not clear it |
| `daemon` | losses counted, hooks drained, answers true, path whole, session restored, socket reachable, pool, door and client end | queues of 2 and 7 events (a queue is full, drained and full again); 2 workers, 2 queued hooks, 2 fires; 2 connections with 2 requests each over a channel of 2; sessions of up to 3 tabs with repeated ids, a missing process, a stale zoom and a history over its limit, 2 saves by two writers; 2 daemons and 2 names; 3 peers at a door for 2; 3 messages to a client |
| `display` | wide halves, replay, client shows the frame, yanks, buffers, parsers agree, consent | screens of 2 by 3 cells, resized to 1 by 2 up to 3 by 3, scrollback 2, three control functions in a row: every pair of wide character, edge, wrap and scroll occurs; 3 draws; texts of two characters plus three long ones; a store of 2 buffers with sequence numbers up to 3; the bytes on which a parser branches, two mode numbers, bodies of 3 bytes; 3 panes in 2 tabs, 3 requests |
| `editing` | tiling, drags, views agree, sizes fit, answers | 4 panes and 4 edits in areas from 44 by 16 down to 0 by 2; 3 tabs of at most 2 panes, two terminal sizes, three looks, 3 outside events, enough for zoom, close, leave and for prompt, other event, answer |
| `pane_sync`, `pane_policy`, `autosave_zoom`, `tab_revert` | violations, see section 6 | as small as shows them |

Deadlock is checked except in `daemon` and `editing`, whose systems do stop: the
pool has wound down, the client has left, the session is over. In the other runs
a finished system stutters explicitly.

Fairness: weak fairness of each thread of its own steps (the OS schedules
threads, no thread holds a lock while it waits), of the steps inside `drop` and
`notify`, and of the main loop's round, which reads every pane and every client
each time; in `Panes` strong fairness of a wait that lets time pass, in `PanePty`
weak fairness of the passing of 33 ms. In `daemon` weak fairness of hook workers,
of the shutdown with its deadline, of the acceptor and its deadlines, and of the
client's two threads: none of them waits without a timeout or a wake-up for
anything but the others. Nothing is assumed of peers, children or users.

## 4. The proofs

All are by an inductive invariant: `Init => Inv`, `Inv /\ [Next]_vars => Inv'`
with one step per action, `Inv => P`.

* `OutputQueueProofs`: blocks are contiguous and non-empty, the first starts at
  `delivered` or at the end of the block in the worker's hand, the last ends at
  `accepted`, and each block ends on a frame boundary; the counter equals what
  queue and worker hold. Without contiguity neither the cap nor delivery is
  inductive. From it: types, `QueueBounded`, `NothingStranded`,
  `CleanExitDeliversAll`, `WholeFrames`, finality of a failure, and the step
  simulation for `FrameStream`. `ByteAccounting` follows because the lengths of
  contiguous blocks add up to the distance from the first to `accepted`.
* `MainLoopProofs`, tabs: `count = Len(tabs) + 1`, `active_idx < count`, distinct ids
  below `opened`; lemmas say what inserting into and removing from the stored
  list does to the list with the gap filled. From it: `GapConsistent`,
  `NoDuplicateTab`, `IndexViewsAgree`, the simulation of `TabList`, and
  `BarFreshUnlessAutoClosed`: the names shown are those of that list, so a step
  that keeps the list keeps them fresh.
* `ClientInputProofs`: the numbers in channel, hand and history are consecutive,
  and the last word is the last element. From it: `InputBounded`, `InOrder`,
  `DisconnectIsLast`. `InputAccounting` needs to know in addition that a
  counter whose receiver is gone still covers what the reader has reserved
  (`Covered`); it gives the bounds of the counter (`BytesNeverWrap`).
* `PaneProofs`, threads: a reader that has ended without a stop has seen the end
  of file with nothing left to read, and `reader_eof` is only set with an empty
  channel. From it: types and `ExitAfterOutput`.
* `PaneProofs`, parsers: `ParsersAgree` only says where vt100's parser is and
  which modes agree. `ControlInv` adds what the interceptor's buffer may hold in
  each mode (parameters of a control sequence, text of a command), that vt100
  keeps no parameters between two bytes, and that the other screen's Kitty stack
  is the one the pane has put aside: without the last, a switch of the screen
  could bring up any stack. The lemmas follow a whole sequence through vt100's
  parser, by induction over its bytes, and the private modes of a body, by
  induction over its numbers: the rewriting of 1047 to 47 with an erasure in
  front has the same effect on the screen as the sequence has on the modes.
* `PaneProofs`, screen: `TermInv` says that the screen is well formed and that
  the frame to be run through it is a run of control functions. A screen is well
  formed when both its grids are: the cursor is inside (one column behind the
  last at most, where the next character wraps), the scroll region has a first
  row not below its last, every line is as wide as the grid, and in every row of
  lines and history the halves of wide characters are paired. Pairing alone is
  not inductive: with a cursor outside, a region upside down or a short line, a
  function would write or cut where the code's indexing panics. One lemma per
  operation of rows, grid and screen says that it keeps this, the repeated ones
  (insert, delete, shift, scroll) by induction on the count. From it:
  `WideHalvesPaired`, for any size, resize, text and parameters.
* `PanesProofs`: the entry of a pane that exists accounts for all its restarts
  since it last ran for 30 s, ids that were not given out yet and closed tabs
  have no history. The first part alone is not inductive: a split or a new tab
  would inherit the history of an earlier pane. From it: types and
  `RestartBudget`.
* `MainLoopProofs`, clients: the three properties hold between rounds and are
  stretched over a round: the size is right until the first resize of a batch
  (`SizeAgreed`), the baseline is owed in every phase to the clients the round
  has not given up (`Owed`), and sizes are legal, so that a smallest one exists. From it: `SharedSize`, `RedrawBaseline`, `AutoSaveCoversInput`.
* `MainLoopProofs`, clipboard: every request a queue holds as ready has been
  consented to under the pane's answer (`ReadyIsSound`), and the queues of the
  visible tab hold no undecided copy when keys are handled
  (`DrainedBeforeKeys`), for the next key may answer for another pane. From it:
  `ClipboardConsent`.
* `MainLoopProofs`, buffers: the store's ages order its names as they were set,
  below the next number; so the least age is the oldest name, and numbering anew
  keeps the order. From it: `BuffersAreLatest`.
* `LayoutProofs`, round of the loop: `BenchInv` says of every tab, on screen or
  not, that its layout is a tree, that focus, zoom and every process were given
  out by that tab, and that map and layout have the same panes (`GoodTab`); of
  the tab on screen, that its panes have the sizes of its rectangles unless one
  is zoomed (`Fits`); and that an open question is about the focused pane
  (`Settled`). Frames come at one place of the round only, but what they need
  has to survive every handler: a tab in the background is drawn after the next
  switch, so its goodness counts now, while its sizes do not, because a switch
  resizes. Zoom is right at the top of a round only (`Zoomed`), in between it
  need only name a pane that existed. From it: `ViewsAgree`, `PanesFit`,
  `AnswerIsForAsked`.
* `LayoutProofs`, geometry: `LayoutInv` says that the layout is a tree, that its
  panes are below the next id, that the terminal fits 16 bits, and that a drag
  knows an area that does: it may be that of a split that is gone. `PanesTile`
  follows for any tree in any such area (`TreeTiles`): a split's two halves and
  the bar between them partition its area, down to halves without a cell
  (`HalvesTile`), so by induction on the length of a path no two panes overlap,
  every cell of no pane lies on the bar of exactly one split, and the segments
  `separators` returns are those bars cut to what is visible. Three walks of
  the code, `pane_rects`, `separators` and `find_at`, each descend on their own;
  the lemmas say that all three find the same thing at a cell.
* `DaemonProofs`, hooks: `active` is the number of workers that have a job,
  nothing is cut before the shutdown gives up, nothing is accepted once it waits.
  From it: `DrainedMeansRun`.
* `DaemonProofs`, snapshots: a writer's temporary file holds its whole document
  from the sync on, and the names left in its numbering are free, so no two
  saves share a file. From it: `PathHoldsWhole`. For `RestoresSession`: sessions
  are well formed, every captured document is a session's capture that was
  validated, and capture followed by restore gives the session back: the tabs on
  both sides of the gap, and each pane of each tab.
* `DaemonProofs`, control IPC: a request is queued at most once, one that was
  not asked was not executed, a connection waits for its last request only, and
  the answer channel holds results of executed requests. From it:
  `AnswersAreTrue`.
* `DaemonProofs`, event bus: no event in a stream is newer than the last one
  published, which makes appending keep the order; the sum of what events and
  notices stand for changes by one with each event. From it: `LossesAccounted`.
* `DaemonProofs`, session sockets: while nobody has worked on a name with
  another (`raced`), a daemon that serves has its own inode under its name, one
  that found a socket stale found it dead, a guard removes its own daemon's
  names only, and a rename that is to remove the old name has linked the new one.
  From it: `ReachableUnlessRaced`.

In `DaemonProofs` and `LayoutProofs` the theorems are about the `Spec` of the
composition, `Daemon` and `Editing`; elsewhere they are about a part's own
specification. The parts share no variable, so a step of one is a stutter of
another.

`SeqOps` holds the sums and the filter that models and proofs share, as
recursive functions. `SeqOpsProofs` proves what they do. Its induction is
derived from the library's theorem that `<` is well-founded on the naturals,
applied to a set of numbers; for each recursive function the existence of a
function that satisfies the recursion is proved first, and for the functions
inside `PaneControl` and `Vt100` likewise in `PaneProofs`.

Assumptions are the named ASSUMEs of the modules: sizes are natural numbers,
capacities positive, a payload fits the cap, as the constants of the code do;
workers and daemons are finite sets; the sessions snapshots are taken of are
well formed (an active tab inside the list, panes of the layout's leaves), and a
document found on disk is empty, torn, of the first version, or has tabs, as the
decoder guarantees; there are more sequence numbers than buffers; a byte is
below 256; a layout spec has rows, a row panes, a pane a positive weight
(`from_spec` refuses others); a terminal's columns and rows are natural numbers,
a screen has rows and columns (`Pane::resize` refuses others), a blank is neither
wide nor a combining mark, and a frame's labels are text;
one of the terminals is the widest (the first one), and in `LayoutEdit` with the
border added they fit 16 bits; the value for "none" is not a number.

Proved for all values and no longer among the runs' properties: `TypeOK`,
`QueueBounded`, `WholeFrames`, `GapConsistent`, `NoDuplicateTab`,
`IndexViewsAgree`, `InputBounded`, `DisconnectIsLast`.

Only model-checked:

* liveness (`QueueDrains`, `LossIsNoticed`, `ReaderEnds`, `ExitNoticed`,
  `DropEnds`, `DeadTabEnds`, `PoolWindsDown`, `DoorAnswers`, `ClientEnds`), for
  the prover has neither fairness nor ENABLED;
* `ReplayShowsScreen` and `ClientShowsFrame`: they compare a screen with what all
  the control functions the writers of `ScreenDiff` produce for it leave on
  another one. The writers are folds over rows and cells that carry position and
  attributes along, and what they produce is run through the emulator in turn:
  what a definition by recursion computes for every input, not what it preserves;
* `YankIsTyped`, for the same reason: a selection is text gathered over rows and
  cells, compared with what a program's printing has put there;
* `DragFollows`: whether a dragged separator lands on the mouse depends on the
  precision of ratios. The code has 24-bit fractions, the model steps of a
  ten-thousandth, which are enough for areas of up to some thousand cells. A
  proof for all sizes of the model would be about its rounding, not the code's.

## 5. Not modelled

* Drawing of borders, status bar, tab bar and themes, the command lines and the
  parsing of configuration, key chords and commands: functions from values to
  text or back, without state that evolves.
* `BufferedPtyWriter`: input that a program does not read is bounded and refused
  as a whole; a bracketed paste is three writes.
* The event and hook fan-out of the main loop (which step announces what);
  `EventBus` and `HookPool` take any sequence of events.
* Signals and logging; the effect of SIGTERM and SIGHUP is an action of
  `Session` and `Workbench`.
* `ezpn-ctl`, which sends one request and prints the answer.

## 6. Findings

1. `pane_policy`: panes whose id has been seen before (restored tabs, replaced
   panes, background restarts) never get the configured byte budget and
   clipboard policy.
2. `pane_sync`: synchronization windows that are closed and reopened within one
   batch of output postpone redraws without bound; the documentation promises a
   redraw at the close or after 33 ms.
3. `autosave_zoom`: zoom a pane, close it, and let the last client leave in the
   same batch: the snapshot of the auto-save names a pane that is gone, its
   validation fails and nothing is saved.

4. `tab_revert`: a new tab whose shell cannot be spawned is closed again and
   brings up the last tab (mod.rs:1176), not the one the user was on, as the
   comment before it says. Input modes stay: a question "close this pane?" asked
   in that batch is then about the focused pane of the tab that came up.

Deviations met while modelling, which the models show as they are and the
properties exempt by name:

* The automatic close of a
  dead tab (mod.rs:807) leaves the cached tab names, so that the bar that is drawn
  and the list clicks are resolved against differ until the next tab action
  (`auto_closed` in `BarFreshUnlessAutoClosed`).
* `swap-pane` and a border chosen in the settings panel leave the panes at their
  old sizes (`unfit` in `PanesFit`). Within a round zoom may name a closed pane,
  and a click on its title makes it active (`stray` in `ViewsAgree`).
* Of two tab commands in one round the last wins; keys after a tab command in
  the same batch go to the old tab; a tab action in the round the last client
  leaves is applied after the auto-save. `TabAction::KillSession` returns without
  draining the output queues.
* A control request that moves the focus changes what the open question "close
  pane?" is about (`None` in `AnswerIsForAsked`).
* `remove_stale_socket` compares inodes and then removes by name: a daemon that
  binds in between loses its socket (`raced` in `ReachableUnlessRaced`).
  `upgrade-snapshot` reads, converts and replaces a snapshot that the daemon may
  save meanwhile.
* The clipboard prompt and `exited_fired` keep bare pane ids: after a tab switch
  by mouse or a restart the answer goes to another pane (`mistaken` in
  `ClipboardConsent`). A request that arrives under an open prompt leads to a
  second prompt for a pane that has been decided.
* A private mode with a colon or an intermediate byte (`ESC [ ? 47 SP h`) is
  understood by vt100 alone (`odd` in `ParsersAgree`).
* The padding before a wide character that did not fit is not reproduced by
  `state_formatted`; selections of copy mode are positions of the view, under
  which output moves the text; the mouse selection joins rows differently from
  copy mode; scroll keys act while a search is typed.
* A per-pane `persist_scrollback` and an effective scrollback limit are not
  restored by Load.

## 7. Plan

Done: all modules of section 2, and theorems for every safety property but the
four of section 4 that stay with TLC. Left, in this order:

1. Bounds of the handshake's results, and the refinement of a one-slot channel by
   the attached client.
2. `PtyInput`: the bounded input writer with bracketed paste; the event fan-out
   of `Panes` (an exit is announced once).
