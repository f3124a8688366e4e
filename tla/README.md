# Verification of scomp-agent

TLA+ specifications of the scomp agent: the process that runs on a developer's
machine, finds tmux and GNU Screen sessions, and relays their terminals to
browsers through a relay server. TLC checks every component on small instances;
TLAPS proves, for every value of the constants, all the safety properties that the passing
runs check: those of what lies between a multiplexer session and a browser (the ring,
the byte streams of the terminals, the replay, the catalog, the watcher, the main loop, the
registry and the linked sessions), of the identity files and the pairing prompt, and of the
simulated sessions with their line editor and file tree.

## The system

One process (`cmd/scomp`) holds one WebSocket connection to the relay and makes
a new one five seconds after the last ended. Its parts:

| Part | State | Operations | Runs in |
|---|---|---|---|
| identity files (`internal/auth`) | `uid` and `key` under the configuration directory | load, or create exclusively | `main`, before anything else; several agents may start at once |
| replay ring (`internal/ring`) | array, head, full | Write, Snapshot, Reset | callers, under its mutex |
| stream (`internal/stream`) | ring, subscriber channels | Emit, EmitReset, Subscribe, Unsubscribe, RequestSnapshot | PTY read loop, main loop |
| PTY session (`internal/pty`) | process, done channel, mode tracker | read loop, Write, Resize, Close | one goroutine for each PTY |
| registry (`internal/sessions`) | id -> terminal, source -> id | CreateWithID, Add, Get, Remove, cleanup | main loop, scanners, one cleanup goroutine for each registration |
| catalog (`session_catalog.go`) | key -> stable id, subscriber channel | scan, snapshotAndSubscribe | watcher goroutine, each new connection |
| watcher (`session_watch.go`) | watched directories, tmux control client | file system and tmux events -> scan | own goroutine, and one for the control client |
| linked sessions (`multiplexer.go`) | the tmux sessions `scomp-X` the agent made | recorded on activation, killed by scans and at shutdown | main loop, scanners, the signal's goroutine |
| main loop (`runAgent`) | modes, lazy entries, forwarders, outbound queue | relay messages (attach, input, resize), session changes, ended sessions | one goroutine for each connection |
| forwarder (`startForwarder`) | its event channel | output and snapshots -> outbound queue | one goroutine for each active session |
| writer, reader (`runAgent`) | the socket | queue -> relay, relay -> main loop | one goroutine each |
| pairing prompt (`pairing_prompt.go`) | request queue, prompt, timer, current sender | request, connected, run | own goroutine, and one for stdin |
| fake sessions (`fakeshell/session.go`) | key queue, program, shell state | Write, Resize, Close, supervise | main loop, one goroutine for each session |
| key decoder (`fakeshell/term/keys.go`) | parser state, parameters, partial rune, last CR | Feed | callers of Write, under its mutex |
| simulated output (`TTY`) | last CR, start of line | Write, Frame, ClearScreen | the session's goroutine |
| line editor (`fakeshell/term/editor.go`) | line, cursor, history, cursor row | one step for each key | the session's goroutine |
| file tree (`fakeshell/vfs`) | overlay of files and directories, bytes used | WriteFile, Touch, Mkdir, Remove, Reset | the session's goroutine |

They interact through channels of fixed capacity (subscriber channel 256,
outbound queue 512, session changes 128, ended sessions 64, pair requests 4),
through `connDone`, which every goroutine of a connection selects on, and
through the registry and the catalog, which outlive connections.

What is hard: a replay has to sit at one exact point of the output stream while
the PTY writes; every full channel has a policy of its own (block, drop, tear the
connection down); teardown has to release goroutines that wait for each other;
sessions, PTYs and connections end in any order, each noticed later by someone
else; ids, names and aliases are reused while clean-ups of their former owners
are still on their way; byte streams are cut at arbitrary places; the multiplexers tell
of their changes through channels that lose some of them. `PROJECT.json` lists these hazards by line.

## Modules

| Module | Models | Composes |
|---|---|---|
| `SlidingWindow` | what a replay ring promises (abstract) | |
| `RingBuffer` | `ring.go`: array, head, full | refines `SlidingWindow` |
| `ModeTracker` | the DECCKM tracker and the translation of arrow keys (`pty/session.go`), with a reference definition | |
| `KeyDecoder` | `term/keys.go`: bytes to keys | |
| `Terminal` | both kinds of terminal, byte by byte: output into the ring, input to keys | extends `RingBuffer`, `ModeTracker`, `KeyDecoder` |
| `TerminalProofs` | theorems about the ring and the terminals | extends `Terminal` |
| `AttachReplay`, `MCAttachReplay`, `AttachReplayProofs` | one session's path from the PTY to its clients: stream, forwarder, queue, writer, attach, retirement, teardown, reconnect | uses the ring as the window it is proved to be |
| `SessionCatalog`, `SessionCatalogProofs` | catalog, scans, subscriber; what is heard of the multiplexers is left open | |
| `Watcher`, `WatcherProofs` | `session_watch.go`: directories, events, control client | extends `SessionCatalog`, and refines its specification |
| `AgentSessions`, `AgentSessionsProofs` | the main loop's tables and the input policy over the catalog | extends `SessionCatalog` |
| `SessionRegistry` | the registry and its callers | |
| `LinkedSessions`, `MCSessionRegistry`, `LinkedSessionsProofs` | the agent's own tmux sessions and shutdown; theorems about both | extends `SessionRegistry` |
| `PairPrompter` | pairing prompt | |
| `Identity` | identity files | |
| `PairingProofs` | theorems about identity files and pairing prompt | extends `Identity`, `PairPrompter` |
| `LineZipper` | what a line editor promises (abstract) | |
| `LineEditor` | `term/editor.go` and the shell's completion | refines `LineZipper` |
| `FakeSession` | `fakeshell/session.go` and the control of its three programs | |
| `Vfs`, `MCVfs` | `fakeshell/vfs`: the overlay over the fixed tree | |
| `FakeShellProofs` | theorems about the simulated sessions | extends `Vfs`, `FakeSession`, `LineEditor` |

How code becomes actions. A critical section, or the code between two channel
operations, is one step; whatever another goroutine can observe in between is a
step of its own. `select` is a disjunction: every ready case may be taken. A
non-blocking send has its `default` branch as an alternative. Operators named
`...Always`, `...Any`, `...Stale` and so on, each introduced as "Mutant of X", are
deliberately wrong variants of the definition that follows them. They are not
part of any specification; they exist to show that a property notices.

### RingBuffer
`buf`, `head` and `full` are the fields of `ring.Buffer`. A byte is its position
in the output stream, so no two bytes are equal and a misplaced one is seen.
`Write` has the code's four branches: nothing to do, at least a full ring, fits,
wraps. Seen through `Snapshot` the ring is a `SlidingWindow`.

### Terminal, ModeTracker, KeyDecoder
A byte is named by what the code distinguishes ("esc", "[", "cr", "lead" of a rune, "x"
for any other letter). A behaviour exercises one of three paths that share no state: the
output of a PTY (`PtyRead` is the locked call of the tracker, `RingWrite` the emission
after it), the output of a simulated program (`TtyWrite`, `Frame`, `ClearScreen`; a frame
empties the ring before it writes), the input of a simulated session (`KeyWrite` feeds a
message to the decoder). The messages and reads cut the stream anywhere. What the tracker
should know is defined a second time from the whole output (`AskedModes`), what the
decoder should return from the keystrokes (`KeysOf`).

The decoder takes ESC at the end of a message for the Escape key, and any other for the
beginning of a sequence; its comment says that clients send whole sequences. `torn` marks
behaviours in which they do not, and `KeysAsTyped` leaves these out: there is no right
answer. `DecoderResyncs` is about all of them.

### AttachReplay
`pos` and `lo` are the end of the stream and the oldest byte in the ring. Data is
an interval of positions. `events` is `outputCh`; `job` is what the forwarder is
sending, and walks through `sendSnapshot`'s loop one message a step; `sendCh` and
`others` share the outbound queue; `closing` holds the goroutines inside
`closeConnection`, whose `sync.Once` makes later callers wait for the first, even
one that holds the stream's mutex (`MuFree`). `view` is what the relay, which is
external, makes of the messages for each client: output is dropped until
`snapshot_start` and forwarded after it (`Deliver`), the contract in
`protocol/protocol.go`.

A session gets a `session_remove` for two reasons. When its forwarder has exited,
`finishSession` sends one (`Retire`). When a scan has taken it out of the catalog
(`CatalogRemove`), the main loop sends one at once (`MainRemove`), without stopping the
forwarder; the scan closes the PTY only after it has published the removal (`SessionClose`),
and the retirement that follows sends a second one. So output may follow the first: the
view of a client is "closed" by a `session_remove`, "late" by output behind it, and
"closed" again by the next. `QuietAfterRemove` says that the last is always followed by
silence. What an attach does after a retirement, reactivation, is in `AgentSessions`.

### SessionCatalog and AgentSessions
`mux` is the set of multiplexer sessions that exist. A scan is four steps: list
(under `scanMu`), apply and publish (under `mu`), close PTYs of removed sessions,
return. A listing that fails is empty, as `tmuxsess.List` has it. A change may
reach the watcher (`dirty`) or be lost (`missed`); a scan may also come for no reason
(`Rumour`), which the constant `Rumours` leaves out where it only adds states. Ids are numbers that are never
reused, as 128 random bits are not; `Ids` has as many as the events can use up, since
one event (a listing that fails, then one that does not) can renew every entry.
`AgentSessions` adds `lazyMap`, `modes`,
`forwarders` and the relay's list; a handler that looks a PTY up twice is split
between the two lookups, because the PTY may exit there. A control message is
applied to the relay's list when it is sent. The handlers of input and resize change
nothing but the terminal: `InputTo` and `ResizeTo` give the PTYs they reach, and
`InputConfined` asks for every message and every mode in every state between handlers.

### Watcher
`there` are the socket directories that exist, `hooked` what inotify watches, `watched` the
map of the code; inotify drops a watch with its directory, the map only when the event is
taken. `pc` walks through `watchDir(tmuxDir)`, `watchDir(screenDir)`, the scan and
`startTmuxMonitor`; the directory may change between the two `Add` calls of a `watchDir`.
The scan is `SessionCatalog`'s. The control client is "starting" until tmux has attached it,
which it announces with `%session-changed`, and "ended" from its end until the loop has taken
`tmuxDone`, while the flag `tmuxMonitorRunning` is still set. A tmux server has one socket, there before its
first session is; a Screen session has one each.

The refinement maps `dirty` to `Pending`: a scan is owed while an event waits, is being
handled, or the control client is on its way. Through it, what `AgentSessions` assumes
of the watcher is what the watcher does.

### SessionRegistry
`CreateWithID` is three steps (lookup, spawn without the lock, insert), `Remove`
and `Add` two (critical section, Close). Every registration has its
`forgetWhenDone`. `SourceOf` stands for `sourceKey`: which ids attach to the same
multiplexer session. Only the main loop creates, and only scans remove, as in the
program.

### LinkedSessions
`tmux new-session -A -t =X -s scomp-X` makes a session that outlives its PTY. `starting` are
the clients that have not got that far; `owed` is an activation between `CreateWithID` and
`onTmuxActivated`, `toKill` a scan between `Remove` and `KillLinkedSession`. The signal's
goroutine takes the list (`TakeNames`), kills (`CleanupKills`), and ends the process wherever
the others are (`ExitProcess`). A kill command may fail.

### PairPrompter
Requests are numbered; a typed line is a PIN or empty.
`held` is the line the stdin goroutine is offering. `sendOK`'s two selects are two
steps.

### Identity
Each agent looks for a file, then reads it, or creates it: open with `O_EXCL`,
write, sync, close, or the deferred removal after a failure. `Kill` ends a process
anywhere, `PowerLoss` ends all of them and may lose or truncate what is not synced. A
synced file survives a loss of power with its directory entry; the code does not
sync the directory, so this is an assumption about the file system.

### LineEditor
One action for each key of `ReadLine`. The terminal is external: a cursor that
wraps late at the margin. `Painted` follows `render`. The window keeps its width
while a line is read. `typed` is a history variable: what the keys pressed below the
history have made of the line, untouched by walking up, by editing a recalled line and by
coming down. Every character counts as one column, as in `render`: `Printable` also lets
in wide and zero-width runes, for which the terminal's column is another, and these are
outside the model.

### FakeSession
`keys` is the bounded queue; `Write` decodes a message and `Enqueue` offers one key
at a time, so that the program takes keys in between and a full queue drops the rest.
`pc` says in which select the program's goroutine waits: `read` (the line editor),
`timed`, `logout` and `task` (`TTY.Sleep`), `top` (`topWait`), `log`; every key, timer
and `ctx.Done()` case of these selects is an action. The text of a line is reduced to
whether it is blank or empty, a command to what it does to the control and to the
shell's state, and that state to four flags: dirty, a failed status, a changed
directory, variable or file, a history. A timer may fire whenever its select waits.
`Panic` and `Restart` are `supervise`. Keys and commands are small sets, so that every
case of every select is there while the state space stays finite.

### Vfs
`files`, `dirs`, `mtime` and `used` are the fields of `vfs.FS`. A path is the sequence of
its elements, as `Resolve` leaves it; the path with NUL, which `Resolve` turns into `""`
and every operation refuses, is left out. The fixed tree (`Base`, `ExtraDirs`, `Static`,
`Generated`) is given by constants, and `VfsAssumption` says that it is a tree, as the
embedded one and that of the tests are. `Listed` follows `ReadDir`: an entry is there
because a path of one of the six sources leads to it. Operations that fail change
nothing and are no steps, but a `mkdir -p` that fails half way leaves what it made.

## Runs

| Run | Shows | Bounds |
|---|---|---|
| `terminal` | the ring holds exactly the last bytes (`SnapshotExact`) and refines the window (`ImplementsWindow`); an arrow key has the form the program asked for (`ArrowsAsAsked`); LF becomes CR LF once (`LinesReturn`); keys are those typed (`KeysAsTyped`), and a torn sequence costs at most the next two letters (`DecoderResyncs`) | ring of 4; five reads or writes of one to five bytes, so that every residue of head, several laps and oversized writes occur; three keystrokes of eleven kinds cut into all possible messages, of which five bytes are read; parameters of two bytes |
| `replay_two_clients` | no client misses or repeats a byte on an open connection (`ReplayExact`), drained means current (`LiveIsCurrent`), no output after the last `session_remove` (`QuietAfterRemove`) | two clients, ring of 2, four bytes, chunks of one byte, channels of 2: batches of several messages, overwritten and reset rings, both overflows. One connection, followed until `connDone` closes (`ConnOpen`): the three properties speak of nothing later |
| `replay_reconnect` | attaches are answered, teardown completes | one client, one byte, channels of one slot, traffic of another session, two connections |
| `watcher` | the catalog has the tmux sessions that exist while the control client is attached (`AttachedIsCurrent`) and the Screen sessions while their directory is watched (`WatchedIsCurrent`), when nothing is outstanding; the map of watches is right or about to be (`WatchNotForgotten`); a socket event that finds no control client running retries it (`MonitorRetried`); the watcher refines the catalog (`ImplementsCatalog`) | two sessions, of tmux or of Screen; two changes or failed listings besides server starts and directories removed and made again; one failing call or control client; event queue of 2; one connection's refresh |
| `agent_sessions` | input reaches what it may (`InputConfined`), the relay lists the catalog (`ListingMatchesCatalog`), sessions stay attachable (`ServedStaysAttachable`), removed sessions' PTYs close (`RemovedPtyCloses`), ended sessions are retired (`EndedIsRetired`) | one key with ids 1 to 4, two PTYs, two connections, two attaches; three modes and eleven messages |
| `registry` | no leaked terminal, one terminal for each source, late clean-up harmless, linked sessions accounted for (`LinkedAccounted`) | two ids of one tmux source and a simulated one, three terminals, a shutdown at any time, kills that fail |
| `pairing` | one answer for each pairing, only the prompt's own timer ends it, a queued request is shown | queue of one, two requests, two lines, two connections |
| `identity` | a saved identity is kept, running agents agree, malformed material is neither loaded, replaced nor removed (`FailsClosed`) | two agents, three starts |
| `line_editor` | index arithmetic refines the text with a cursor, the redraw never drifts, below the history stands the line that was typed (`DraftComesBack`) | two characters, lines of two after a prompt of one, widths 1 to 3, history of 2 (walked, trimmed, refilled) |
| `fake_session` | a shell that does not count as used is as after login (`CleanUnlessDirty`), one that was used is reset once input ends (`IdleResets`), `Close` ends the goroutine wherever it waits (`CloseStops`) | queue of 2, messages of one or two keys, four keys, two waits in a timed command, one panic |
| `vfs` | no orphans below a removed directory (`TreeWhole`), the fixed tree is never shadowed and the overlay stays where it may be (`Confined`), the limits hold and are given back (`Accounted`) | 16 paths: three levels below a writable home, a private directory, an implicit one, a read-only one; four entries, two bytes |

A bound is enough when every branch of the code is taken and every capacity is
reached: the capacities in the models are one or two so that full, one short of full
and empty all occur. `terminal`, `watcher`, `agent_sessions`, `registry`, `pairing` and
`identity` do not check deadlock: an agent with nothing to do may rest. Clients are
interchangeable, and so are the two ids of a source: `replay_two_clients` and `registry`,
which have no liveness property, use symmetry.

### Where the code departs from its documentation

`agent_unserved` ends in a counterexample: a PTY that exits between its activation and
`startForwarder`'s own lookup leaves a session that the relay lists as active, without
a forwarder and without a lazy entry. No notification will ever retire it; each attach
gets an empty snapshot until the agent reconnects or the multiplexer session ends. The
passing run shows that this is the only way: `ServedStaysAttachable` holds for every
other session.

Also met while modelling, without a run of their own:

* `select` may take `sess.Done()` while output waits in `outputCh`: the comment on
  `finishSession` says the last output is queued before `session_remove`; it may be lost.
* Creating an identity file is exclusive, not atomic. A start that looks between open
  and write finds an empty file and fails; a crash there leaves a file that every
  later start refuses.
* Between `close(connDone)` and `conn.Close()` the writer still writes while forwarders
  give up messages, so a client may see output after a gap just before it is
  disconnected.
* "A later socket event will retry", says the comment in `watchSessions` of a control client that
  has ended. When a tmux server ends and is started again at once, the loop may take the event of
  the new socket before it takes `tmuxDone`: `startTmuxMonitor` finds the flag still set and
  returns, and `tmuxDone` clears it and only scans. No client is then attached to the new server,
  and sessions made in it later go unnoticed until some socket comes or goes. `MonitorRetried`
  is about the events that still wait once the flag is cleared.
* A session that a scan removes has its `session_remove` sent before its PTY is closed: output
  follows it, and it may fall into the middle of a snapshot batch, until the retirement's
  second one. `protocol.go:37` says of the message only that the session ended.
* When the PTY ends between `finishIfEnded` and `requestSnapshot`, the main loop's empty
  snapshot may fall into another client's batch.
* A line typed before any prompt, still unread or in the stdin goroutine's hand, answers
  the next prompt. A full request queue drops the newest pair request, not the oldest.
  `sendOK` may report a message as queued on a connection that was closed between its
  two selects.
* `dirty` is "input since the last reset", but text that was typed and not entered does
  not set it: the idle timeout then starts a new prompt and discards the text.
* `top -b -n N` has no bound on N, and the idle reset waits for it.
* `rmdir` removes plain files.
* A key that arrives as a `Sleep` ends may be read by the next prompt, although `Sleep`
  discards what is typed ahead.
* The decoder forgets a CR only in its ground state: CR, an arrow key, LF is one Enter. The
  first byte of a rune that is not completed swallows the byte that follows it. The
  Escape key followed by other keys in one message decodes as Alt or as a sequence.
* Under DECCKM only a message that is one arrow key is translated; two arrow keys in one
  message are not. The tracker misses `CSI ? 1 ; 25 h`, and a switch that begins inside another
  unfinished sequence.
* The log line "start one and the agent will detect it automatically"
  (`session_catalog.go:155`) holds only if the socket directory or its parent exists:
  otherwise nothing is watched. Sessions made between the first scan and the first
  `watcher.Add`, and a directory made between `watchDir`'s two calls of `Add`, are unseen until
  the next event or connection. A tmux server's socket appears before its first session, so
  that the scan it leads to may find none and start no control client.
* A scan that removes a session whose PTY has ended skips `KillLinkedSession`: the linked
  session keeps the windows of the removed one alive until shutdown.
* A linked session is left behind when the shutdown overtakes its activation or its client.
* The catalog keeps a Screen session's `pid.name` from its first listing. If a session is
  replaced by one of the same name between two scans, every attach fails although
  `rejectAttach` lists it again "so it stays listed and can be attached again".

## Fairness

Weak fairness says that a goroutine that can run does: forwarders, the main loop
inside a handler, the writer (each write has a deadline, so it ends or fails), the
close of the socket, scans, clean-ups, the prompt loop, a process that is not killed.
Strong fairness is assumed only of the prompt loop's cases, because Go's `select`
picks a ready case at random. Nothing is assumed of PTYs, users, the relay, clients
or the multiplexers. `FakeSession` assumes that the session's goroutine takes a case
that stays ready and that a timer it waits on fires; input is bounded, so that "once
input ends" is reached. `AgentSessions` has the scans fair because the watcher is a
goroutine of its own. `Watcher` assumes that its loop and its scans run and that a control
client attaches or ends: both are short exchanges with a local server. `Identity`,
`LinkedSessions` and `Terminal` make no promise that needs fairness.

## Proofs

Every theorem is checked by TLAPS. Folds and recursive functions over sequences and sets
(`FlattenSeq`, `SumFunctionOnSet`, the loops of the tracker, the decoder, the redraw and
`mkdir -p`) need induction over data, and the library's induction theorems take an operator as a
parameter, which the provers cannot instantiate. Where a proof needs it, the step that fails
first is excluded instead: the set of the lengths up to which a claim holds is a
set like any other, and `UpTo` (every natural number is in a set that has 0 and is closed under
successor) and `SubsetInduction` (the same for the subsets of a finite set) follow from `WFMin`,
which has no such parameter.

`TerminalProofs`, about the ring (for every `Size` and every `MaxPos`):

* `RingSafe`: `Spec => [](TypeOK /\ SnapshotExact)`. `SnapshotExact` is not inductive: it
  speaks of the bytes a snapshot returns and not of where they lie. The
  strengthening `Layout` says for every cell of the array which stream position it
  holds, before the first wrap and after. `WriteInv` shows that each branch of
  `Write` preserves it, `LayoutSnapshot` that it implies `SnapshotExact`.
* `RingImplementsWindow`: `Spec => Window!WindowSpec`. With `SnapshotExact` before and
  after a step, a `Write` appends to the window and cuts it to the last `Size` bytes
  (`EndingAppend`, `EndingCut`), and `Reset` empties it.

The only assumption is `RingAssumption`: `Size` and `MaxPos` are natural numbers. A
ring of size 0, which the code allows, is included. `Spec` is the ring's own; in a terminal
`TerminalRingExact` says `TermSpec => []SnapshotExact`, because every step of a terminal is a
step of the ring (or none) whatever it is that is written. `MaxPos` bounds the window's stream,
which a terminal's `MaxOps` bounds in another way, so that the refinement of the window is
proved for the ring alone; the run checks it of the terminal too.

`TerminalProofs`, about the byte streams (for every number of reads, writes and keystrokes):

* `ArrowsAlwaysAsAsked`: `TermSpec => []ArrowsAsAsked`. The tracker keeps a few bytes, the
  property speaks of the whole output. `Tracks` relates the two: where the
  tracker is in a sequence is where the output ends (`StateIsEnd`), a switch that begins outside
  any other sequence is followed byte by byte (`FollowsSwitch`), and the mode is the
  one the last such switch asked for, or a later one the tracker saw (`Asked`). It is
  preserved by every byte, hence by every read, wherever it is cut.
* `LinesAlwaysReturn`: `TermSpec => []LinesReturn`. `Agree` says of output and text that they are
  the same without the returns before a line feed, and end in the same byte; `lastCR` is
  whether that byte is a CR.
* `DecoderAlwaysResyncs`: `TermSpec => []DecoderResyncs`. The invariant `KeyInv` confines the decoder
  to `Decoders`, the states that `Feed` can leave behind; from each of these the three
  letters are followed.
* `KeysAlwaysAsTyped`: `TermSpec => []KeysAsTyped`, wherever the messages cut the bytes. The
  property counts the strokes that were fed; the decoder knows only a state, its parameters and
  the bytes of a rune. `HasRead` relates the two: there are `c` whole strokes and `r` bytes of the
  next behind the decoder, its state is the one those `r` bytes lead to (`Partway`), it remembers a
  CR just when the strokes end in one that an LF would belong to (`Remembers`, `CRBefore`), and
  the keys are those of the `c` strokes. `StrokeEnds` says which bytes of the input are
  whose, `ReadsStroke` that the next byte of any stroke is read as that stroke's, and
  `ReadsByte` that this keeps `HasRead`. It needs `MaxCsi` to be at least 1 (`DecoderAssumption`), since
  Delete has a parameter; a longer sequence is discarded whole. It says nothing once
  an ESC was cut from its sequence, or a message was longer than `MaxInput`, as the property does not.

`FakeShellProofs`, about the file tree (for every tree, limits and user that satisfy `VfsAssumption`):

* `VfsSafe`: `Spec => [](TreeWhole /\ OnlyOverlay)`, and `VfsConfined`: `Spec => []Confined`.
  The inductive invariant is `TypeInv`, `TreeWhole` and `Confined` together; neither of the
  last two is inductive alone. `Remove` ignores an error of `ReadDir` and stops at the first
  child it cannot remove, so that it leaves no orphan only because what lies below an overlay
  directory is all the overlay's (`TreeWhole` and the tree assumption), is never private
  (`Confined`), and is all listed: `OnlyOverlay`, which follows from the two.
* `VfsAccounted`: `Spec => []Accounted`. `Counted` states the limits for files and directories
  separately and `used` as a sum over finite sets, which each operation changes by
  the entry it adds or the entries it removes (`SumParts`); `mkdir -p` keeps it element by
  element, up to the one at which the limit stops it.

`FakeShellProofs`, about the simulated session and its line editor:

* `UnusedIsFresh`: `FakeSpec => []CleanUnlessDirty`, for every queue, message, number of waits and
  panics. `FakeInv` adds that a timed command runs in a shell that counts as used: the
  status it leaves when it is interrupted is set long after the line that set `dirty`.
* `CursorStaysInPlace`: `EditSpec => []CursorInPlace`, for every width, prompt, line length and history.
  `Placed` gives row and column as quotient and remainder; the redraw's three
  moves and the terminal's late wrap lead back to them at any width, also at the margin.
* `EditorIsZipper`: `EditSpec => ImplementsZipper`: each key's slicing and index arithmetic is a
  step of the text before and the text after the cursor, word boundaries included.
* `TypedLineComesBack`: `EditSpec => []DraftComesBack`. The property speaks of the bottom of the
  history; `DraftInv` adds that further up `draft` is the line that was typed, which Up
  sets only when it leaves the bottom.

`PairingProofs`, about the pairing prompt (for every capacity, number of requests, lines and
connections):

* `PairedOnce`: `PairSpec => []AnsweredOnce`. `InOrder` is the strengthening: pairings whose PIN was
  taken are older than the prompt that shows, which is older than all that is queued, and
  the queue is in order; so what is submitted is newer than all that was sent.
* `TimerIsOwn`: `PairSpec => OwnTimer`, an action property: the channel the loop selects on is that
  of the prompt it shows (`TimerOfPrompt`).

`PairingProofs`, about the identity files (for any number of agents and starts):

* `IdentitySafe`: `Spec => []IdentityKept`, `RunsShareIdentity`: `Spec => []RunsAgree`.
  Neither is inductive: what matters is who may still withdraw a file. `OneCreator` says that
  `O_EXCL` leaves a file one creator at a time, `CreatorOwns` that the file holds what its
  creator has done so far, and `CompletedStays` and `LoadedStays` that a value that was
  returned or loaded lies in a file that no deferred removal can reach.
* `PartialFailsClosed`: `Spec => FailsClosed`, an action property, by cases on the system calls: what
  an agent does when it meets a partial file, and what any agent does to one.

`LinkedSessionsProofs` (for any ids, sources, removers and terminals):

* `RegistrySafe`: `Spec => []NoLeakedTerminal`; `SourceServedOnce`: `Spec =>
  []OneTerminalPerSource`. `CreateWithID` drops the lock to spawn. `CreatorAlone` says that the
  id and the source it found free are still free when it inserts, and `SourceFound` that a
  running terminal of a source is found by the index unless a goroutine has it in hand.
  This needs the assumption in `RegistryAssumption` that there is one creator: activation
  runs in the main loop alone. The constant stays a set, so that the assumption is visible.
* `CleanupHarmless`: `Spec => LateCleanupHarmless`, an action property, by cases on who
  changes an entry.
* `LinkedImplementsRegistry`: `LinkedSpec => Spec`; so the three hold of the composition.
* `LinkedSafe`: `LinkedSpec => []LinkedAccounted`, with `StartingRecorded` (a client that has
  not made its session yet belongs to an activation the clean-up will find) and `OweOnce`.

`SessionCatalogProofs` (for any finite set of keys, any number of events, spawns, connections):

* `CatalogSafe`: `CatalogSpec => [](CatalogTypeOK /\ RemovedPtyCloses)`. `Serial`: `scanMu` admits
  one scan between its listing and its end. `IdsFresh` and `RemovedOut`: an id that left the
  catalog does not return. That ids stay within `Ids` needs `Budget`, an accounting of what
  has been issued and what listings may yet cost against the events so far. The lemmas about
  `SetToSeq`, `IndexOf` and `Publish` are shared by the two modules that extend this one.

`AgentSessionsProofs` (over the catalog's invariant, for any number of attaches):

* `AgentConfined`: `Spec => [](TypeOK /\ InputConfined /\ RemovedPtyCloses)`; `ListingExact`: `Spec
  => []ListingMatchesCatalog`; `ServedAttachable`: `Spec => []ServedStaysAttachable`. One invariant
  serves the three. `Placed`: the relay lists what the loop takes to be available, less what
  it has yet to advertise, and has as active exactly the sessions with a mode. `Tracked`: the
  catalog is what the subscriber has, plus the adds and less the removals in the channel,
  unless a change was dropped. `Pending` makes that exact: an add is the first change of its
  id. `Current`: a forwarder's PTY is the running one or none runs, so that a notification in
  `sessionEnded` never is about a PTY that still runs.

`AttachReplayProofs` (for any number of clients, ring, chunk and channel sizes, connections):

* `ReplayIsExact`: `Spec => []ReplayExact`, the replay contract of `protocol.go`;
  `LiveClientsCurrent`: `Spec => []LiveIsCurrent`. What a client has depends on everything
  between it and the PTY: its own view, the queue, the job the forwarder is at, the
  channel. `Contract` says that there is a function `f` giving for each message of the queue
  where the forwarder stood (stream position, and place in whose snapshot) before it: each
  message moves it from there to the next place, the first place is what the clients have
  (`Agrees`), the last is where the forwarder stands, and the channel goes on from there to
  `pos` (`Linked`). A send extends `f` at its end, a write cuts its head, an emit
  changes only the channel. Messages of the main loop (empty snapshots, the removal) leave
  the place alone.
* `RemovalIsLast`: `Spec => [](TypeOK /\ QuietAfterRemove)`. `UntilScan`: until a scan removes the
  session, a `session_remove` in the queue means that the forwarder has exited and no output is
  behind it. `Retired`: once it is retired, the last `session_remove` is yet to be queued, or has no
  output behind it, or has arrived. In between, output may follow the one of the scan, and
  the retirement is still to come.

`WatcherProofs` (over the catalog's invariant, for any sessions, faults and event queue):

* `AttachedCurrent`: `WatcherSpec => []AttachedIsCurrent`; `WatchedCurrent`: `WatcherSpec =>
  []WatchedIsCurrent`; `WatchKept`: `WatcherSpec => []WatchNotForgotten`. Both notions of current
  speak of quiet states; the inductive `Current` speaks of all states in which no scan is owed
  and of what the last listing saw (`Seen`), applied or not. A change that the watcher hears
  makes it `Pending` at once (`SessionSteps`), and only a listing of its own ends that
  (`ScanSteps`). `Phase` says where the goroutine is: a directory that is watched for the
  first time after set-up is followed by a scan.
* `WatcherImplements`: `WatcherSpec => ImplementsCatalog`, the refinement, step by step: a
  session's start or end is `MuxChange`, everything the watcher does between scans is a `Rumour`
  or nothing, a scan is the catalog's. So the theorems of `SessionCatalogProofs` hold
  of what the watcher really hears.

Only model-checked:

* liveness (`AttachAnswered`, `TeardownCompletes`, `MonitorRetried`, `EndedIsRetired`, `QueuedIsShown`,
  `IdleResets`, `CloseStops`): it needs fairness and `ENABLED`, which the prover does not have.

The constants of every run satisfy the assumptions the proofs make, which TLC evaluates.

## Not modelled

The text that the simulated programs and commands print, their word splitting and globbing
(`shell.go`, `commands.go`, `date.go`): formatting of fixed data, of which `FakeSession` keeps
what it does to the control and `Vfs` what it does to the tree. Parsing of the
multiplexers' listings, with Screen's `pid.name`. The handshake's cryptography, JSON, the
banner and the QR code. A window that is resized while a line is edited: where the cursor
is then depends on how the client's emulator reflows its rows. Read deadlines and pings are
the failures of reader and writer in `AttachReplay`.

## Plan

Screen's `pid.name` in the catalog, and a shutdown in the middle of the main loop's handlers.
