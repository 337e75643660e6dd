# A verification of switch-mods

TLA+ models of the parts of this repository that keep state, the TLC runs that
check them on small instances, and TLAPS proofs of what matters most for every
value of the constants. Paths are from the repository's `src/`; `CC` stands for
`pokemon_sv/mod_crowd_control/src`, `NET` for `common/src/net`.

## 1. The system

The repository holds modifications for games of the Nintendo Switch. Each is a
module loaded beside a game: it hooks functions of the game with trampolines,
runs threads of its own, draws a menu with ImGui on the game's graphics API and
talks to services on the network. Nearly all hard behaviour comes from there:
the game calls the hooks when and on which thread it likes, and the mod's
threads share memory with them and take no locks.

### Components, their state and operations

| Component | State | Operations | Hard behaviour |
|---|---|---|---|
| Global heap (`pokemon_sv/common/src/GlobalHeap_Utils.cpp`, copied for Z-A; the Sword/Shield file is commented out) | table of blocks (pointer, size, alignment), its count; the game's heap, which appears late | `malloc`, `aligned_alloc`, `calloc`, `realloc`, `free`, `new`, `delete` | threads without a lock; full table; blocks from before the heap |
| Tomodachi Life allocator (`tomodachi_life_ltd/common/src/allocator.cpp`) | table of blocks and the heap each came from | the same | holes, `realloc` that leaves the table alone |
| Sockets (`NET/socket/`) | state, descriptor number, TLS contexts; the one start of the network | constructors, `connect`, `send`, `recv`, `close`, destructors, `initCommon` | numbers reused by the system; second close; start race |
| Websocket client (`NET/WebsocketClient.cpp`) | its socket, `isOpen` | `reconnect`, `close`, `send`, `receive` | errors inside a frame, pings, reconnects |
| Archipelago client (`NET/archipelago/ArchipelagoClientBase.cpp`) | a websocket client, `isDisconnected` | `sendPacket`, `handleOnePacket`, `reconnect` | reporting a lost connection |
| HTTP client (`NET/HttpClient.cpp`, `ClientWithHttp.cpp`) | one exchange | `execute` | answers in pieces, redirects, connections that end |
| Twitch client (`NET/twitch/TwitchClient.cpp`) | tokens, token file, the statics `isRecursive` | requests, refresh after a 401, start | copies of the client, power off, lost answers |
| Crowd control effects (`CC/crowd_control.cpp`, `cc_hooks.h`, `ui.cpp`) | thirteen flags and timers, the game's type table | events, four battle hooks, panel | overlap of effects; threads |
| Crowd control polls (`CC/lua.cpp`, `config.cpp`) | `running`, two loops | `luaCCStart`, `wsLoop`, `eventLoop` | two threads and a service; delays; errors of each |
| Lua effects and boot scripts (`pokemon_sv/*/romfs/script/lua/boot`) | five deadlines and their listeners; queues of notices | start, tick listeners | effects launched again, order of loads |
| Logger and crash report (`common/src/logger`, `common/src/main.cpp`) | listeners, recursion guard; report buffer | `log`, `reportException` | all threads; damaged stacks |
| Helpers (`MemoryObject`, `FileUtil`, `InputUtil`) | reference count, file, pad state | | races, truncation |
| ImGui on NVN (`common/src/imgui_backend`), UI toolkit (`common/src/ui`) | function pointers, start flag, buffers; tree of elements | hooks, render | order of the game's calls; frames that grow |
| Lua hooks, redirection (`pokemon_sv`, `pokemon_za`: `lua_hooks.cpp`, `romfs_redirect.cpp`) | load counter | boot scripts, files in place of the game's | order of loads; two looks at a file |
| Debug menus (`pokemon_za/mod_debug_tools`, `pokemon_sv/mod_debug_tools`) | copies of game data, settings, remembered sizes | editors, inspectors, panels, battle hooks | the game changes what is edited |
| The other mods, SDK headers, build | | | patches and declarations |

### How they interact

* All C++ code allocates through the **global heap**, from the game's threads
  and the mod's own.
* The **polls** own a **websocket client** (`wsLoop`) and call the **Twitch
  client**; a notification calls `triggerEvent`, which sets flags of the
  **effects** and writes the game's table, on the websocket thread. The menu calls
  it too, on the thread that draws. The game's battle thread runs the hooks.
* A **websocket client** owns one **socket** and replaces it on `reconnect`. The
  **Archipelago client** owns a websocket client and turns its `open()` into
  one call of `onDisconnect`.
* Sockets share the process's descriptor numbers with one another and the game,
  and the start of the network with every thread that makes the first one.
* The **logger** is called by all of these and sends on a websocket of its own,
  whose errors are logged.
* The **hooks** of the graphics driver start ImGui; from then on each frame
  reads the **pad**, walks the **tree of elements**, whose callbacks are the
  **debug menus**, and hands ImGui's lists to the **backend**. The menus set
  variables that hooks on the game's threads read.
* The **boot scripts** are loaded by the Lua hooks and call back into the
  polls (`cc_Start`); an effect that needs Lua runs in the state of the game.

### What makes them correct

The heap: each entry stands for one live block with its exact size and
alignment, and each block goes back to the allocator it came from. Sockets: no
object closes or uses a number that is another's, and nobody is told of a network
that is not there. Websocket: the caller gets each text once, in order and whole,
and pings are answered. Archipelago: a lost connection is reported once. HTTP: an
answer is that of the last server, and whole. Twitch: the file holds a token that
works, and a thread gives up only without one. Effects: what the hooks do follows
from which effects were launched less than their duration ago, and what they change
is the game's own again when none is. Polls: one at a time, one effect each, the
option with the most votes; if one thread stops so does the other, and the player
is told. The menu: started once and whole, draws its own triangles, leaves no key
down and no scope open; an editor changes what was edited and nothing else.

## 2. Modules

| Module | Models | Uses |
|---|---|---|
| `GlobalHeap` | the heap, one call per step | |
| `GlobalHeapThreads` | the same, one table access per step | instantiates `GlobalHeap` as its abstraction |
| `TomodachiHeap` | the allocator of the Tomodachi Life mods | |
| `MemoryObject` | reference counts under threads | |
| `NetworkStart` | `initCommon`, one access of its statics per step | |
| `RawSocket` | sockets over descriptor numbers | abstraction of `WebsocketClient` and, by that, of `ArchipelagoClient` (proved) |
| `SSLSocket` | TLS sockets over the same numbers | extends `RawSocket` |
| `WebsocketClient` | the client, its peer | extends `RawSocket` |
| `ArchipelagoClient` | the Archipelago client | extends `WebsocketClient` |
| `HttpClient` | one HTTP exchange and the servers | |
| `TwitchClient` | tokens, their file, the copies, restarts | |
| `LogPipeline` | `Logger::log` and the listeners | |
| `CrashReport` | `reportException` | |
| `CrowdControlEffects` | events, hooks, panel, one call per step | |
| `CrowdControlThreads` | the same for the type table, one access per step | instantiates `CrowdControlEffects` |
| `CrowdControlPolls` | both loops and Twitch | |
| `PollTally` | the vote count in `wsLoop` | |
| `LuaEffects` | the effects in Lua, the start of the mod, notices | |
| `NvnHooks`, `NvnBackend` | the start of ImGui; its buffers and draws | |
| `MenuInput` | the pad between game and menu | |
| `UiFrame` | one frame of the tree of elements | |
| `BootScripts`, `RomfsRedirect` | what is loaded from the mod, and when | |
| `PokemonEditor` | the inputs both editors share | |
| `PartyEditor`, `EncounterEditor` | the editors, with the game beside them | extend `PokemonEditor` |
| `QuestInspector`, `BattleSettings`, `HeapPanel` | other sections of the debug menus, with their hooks | |
| `GlobalHeapProofs`, `CrowdControlEffectsProofs`, `CrowdControlPollsProofs` | theorems about the module of that name | extend it and `TLAPS` |
| `WebsocketClientProofs` | theorems about `RawSocket`, `WebsocketClient`, `ArchipelagoClient` | extends the last |
| `SerialProofs`, `NetworkProofs`, `ScreenProofs`, `GameProofs` | theorems about the modules that the instance of that name puts side by side | extend `MCSerial`, ... |
| `MC*` | model-checking instances | extend what they check |

`MCSerial`, `MCNetwork`, `MCScreen` and `MCGame` put modules side by side that share
no state: a variable `part` is chosen at the start, the module of that name goes on
and the others stay as they begin. Their fairness is that of the module chosen.

Names are the source's where there is one. Variables marked "history" in a
module are not in the code: they record the past for the properties. Operators
whose comment says "Mutant" are never part of a specification; they are the
plausible mistakes that show that a property can be violated.

### Correspondence to the code

Each module's first comment names its files. What follows are the choices a
reader needs to know, and the cases that a property leaves out by name because
the code does not do better in them.

**`GlobalHeap`.** `data` and `count` are `m_heapAllocData` and
`m_heapAllocCount`; `heapUp` is whether `s_globalHeap` is set. `live`, `block` and
`sys` are the two allocators, `owned` what callers hold. Each action is a whole
exported function: `Malloc`, `AlignedAlloc`, `Calloc`, `Free`, `Realloc`.
`faults` collects calls that would give an allocator something it
does not own. A caller frees only what it holds. `calloc` multiplies modulo
the word, `2^64` in the code.

**`GlobalHeapThreads`.** One action per read or write of the table by a call:
the test of the count and the store of the entry (lines 68-69 of the Scarlet/Violet
file), each entry a search looks at (85-86, 127-128), and the four accesses of line
88. `PROJECT.json` maps this module to the copy for Z-A, which differs in line
numbers and the length of the table only. Between
calls of one thread, `SerialCallsAreAtomic` says, the state is one of
`GlobalHeap`, and each call is one of its steps.

**`TomodachiHeap`.** `table` is the array up to the count, with the holes that
`free` leaves. `FoundWhenFreed` leaves out a block that `realloc` moved and one
that came while the table was full: both are found in no entry.

**`MemoryObject`.** The test of `m_invalid`, the atomic count and the store of
`m_invalid` are three steps. `ReleasedUnused` leaves out a reference taken between
the last decrement and the store, which revives the object.

**`NetworkStart`.** Every access of `didInit` and `initResult` is a step.
`ResultIsTrue` leaves out callers that overlap with the first: they are told of
success at once (`SocketBase.cpp:75`).

**`RawSocket`.** `obj` is the C++ object, `owner` the system's table of
descriptors. `Close` sets `CLOSED` and releases the number the object keeps, whoever
has it. `OtherOpens` and `OtherCloses` are the rest of the process. `robbed` holds the
live objects whose number another object closed, and `theft` the states in which
objects that were not robbed themselves closed a number of another. That happens to a
`CLOSED` or `ERRORED` object only (`WorkingTakesNothing`): by a second close, or by
the first of an object whose constructor found no network and kept whatever
its storage held. A robbed object closes another's number too; it was not the first
to go wrong, and is left out.

**`SSLSocket`.** The same table; `close` forgets its number, as
`mbedtls_net_free` does. What remains is the constructor that finds no network:
it closes before `init()` has run, on a context that is all zero, and so
descriptor 0. `SslTakesOnlyUnstarted` leaves that out, and objects robbed by it.

**`WebsocketClient`.** `pc` is the place in the call, at each call of the socket.
`wire` is what the peer has sent: its answer to the upgrade, and a header and a
payload per frame. `reconnect` is ten actions in the source's order, with the new
socket made before the old is destroyed (`sock = makeSocket(...)`). A call
through a null `sock` goes to the state "crashed". Of a frame's length the model keeps
whether it needs 64 bits: `SocketBase.h:24-29` lacks parentheses around the macros, so
that line 136 misreads every size of 65536 bytes or more. The client then hands over a
part of such a "large" frame (`ret = "part"`) and looks for the next header inside it
(`garbled`). `DeliveredInOrder` is about the texts below that size, up to the place
lost there. That `send` writes such sizes wrongly too (line 95), masking and the text
of the handshake are left out. `read` and `lost` count the frames the client took
and those the handshake took for it; `Delivered(n)` and `Pings(n)` are the texts handed
over and the pings among the frames between `lost` and `n`.

**`ArchipelagoClient`.** Each call begins and returns, with the websocket
client's steps between. `MustReport` is the condition of lines 16 and 26. A part of a
text does not parse, and the mods are built without exceptions: `ParseAborts` ends
the program there, and nothing is reported any more.

**`HttpClient`.** One `execute`, with a server that sends its answer in pieces.
`cut` marks a connection that was refused, ended early or broke: the code cannot
tell these from a short answer. `paused` marks an exchange whose loop ended because
nothing had come yet after a piece: the sockets do not block (`RawSocket.cpp:50`),
`recv` gives 0 when there is nothing to read (line 90), and `HttpClient.cpp:40` takes
that for the end of the answer. `HttpAnswers` says that an answer is whole but for a
cut or a pause, and that the loop ends once some of it has come; while nothing has,
it sleeps and reads on, for ever if the peer ends then.

**`TwitchClient`.** A client is a pair of tokens and whether it is ready; Twitch
takes a refresh token once. The four copies are those the code makes: the static
one, `luaCCInit`'s, and one for each thread. `isRecursive` is kept per function as in
the code, and shared by the copies. `trouble` marks a request or answer that was
lost, after which the token in use is unknown to the client; both properties leave
it out, and `GivesUpWithoutToken` also `getUserData`, whose static another thread may
have set. `AccessExpires` does not happen between a refresh and the retry.

**`LogPipeline`.** `stack` holds, per thread, the nested calls of `log` and where
each is. The file listener looks at the guard, opens the file and sets the guard in
three steps (`FileTries`, the place "opening", `OpenFile`). `RecursionNeedsCause` names the two ways in which `log` nests
deeper than once: a lost connection that counts as open, and two threads that share the guard.

**`CrashReport`.** The stack that the crash left is any linking of the records,
rings and addresses that cannot be read included. The loop's `module` is never
initialised: it holds null or garbage at first and what was found last after that, and
the instruction at an address outside all modules is then read as one of that module.
`CrashIsShown` leaves out the crashes whose report hangs or crashes in turn, by their
cause: those on the render thread, of which `common/src/main.cpp:322` says "FIXME:
Crashes on render thread", stacks that are rings or lead to an unreadable record, and
addresses outside all modules. Every other report must be shown; a fault is not
an outcome.

**`CrowdControlEffects`.** `active` and `timer` are `CC_flags`; `table` is who
wrote `btl::TYPE_EFFECT_TBL` last. `TriggerEvent` is `CC_ENABLE` and the write of
the table; `ExpMultiplier`, `Capture`, `STAB` and `TypeMatch` are the hooks with all
their checks in order. A hook reads the clock more than once, so each check gets
a time of its own, no earlier than the one before. `PanelSays` is `CC_INFO`.
`TypeMatchesHistory` compares the table a calculation used with `latest`, the type
effect launched last. `PanelAgrees` is about the effects that the hooks apply, and
leaves out one line of the panel among them: `CC/ui.cpp:75` shows `invertTypeEffects`
under the name of `disableTypeEffects`. The effects in Lua are not among them, for
they end by the clock of `CC/lua.cpp:197` and not by the timer that the panel reads.

**`CrowdControlThreads`.** Each store to flags, timers and bytes of the table
is an action: `TriggerBegin` (flag), `TriggerTimer`, `TriggerWrite` (one
byte), and the hook's checks, clears and resets.

**`CrowdControlPolls`, `PollTally`.** `events` and `ws` are the places of the two
threads; `Second` counts down what sleeps, polls and effects have left. Twitch is
external: it refuses a poll while there is one (or any request for any reason), ends
polls after `PollDuration` and at most `EndDelay` later, and sends the notices
"completed" and "archived" for a poll that ran its time, "archived" for one ended by
the streamer. The tally is one item of `choices` per step; `Draw` picks one of the leaders.

**`LuaEffects`.** A Lua call is one step. `deadline` is the effect's timer, 0
when it is off; `listeners` counts coroutines on it; `lasts` is history. Notices and
announcements are kept as the counts of tags that wait.

**`NvnHooks`.** `cmdBufInit` is taken apart at its test, `InitImGui` and
`setup_ui`. `StartsWhole` leaves out `together`: two threads that make their first
command buffer at the same time.

**`NvnBackend`.** A frame's lists are copied to the buffers at once; the GPU reads
when `GpuDraws` happens. Sizes are in vertices. `DrawsOwnLists` leaves out `late`:
a frame that began before the GPU had run the last, for which nothing waits.

**`MenuInput`.** The game's read and the menu's are taken apart around the flag
`isReadInput`. `NoKeyStuck` leaves out `missed`: a button that went up while the menu
was closed, as those of its own chord do.

**`UiFrame`.** The tree is a chain of containers with a leaf; `scopes` is ImGui's
stack, and a leaf takes input only while no `BeginDisabled` is among them.
`ScopesBalanced` leaves out what follows a Child that reports itself hidden.
`DisabledIsInert`, that nothing disabled is changed or calls back, leaves out a
slider that is disabled itself: its `render` has no `BeginDisabled`
(`slider.h:19`, `:37`), unlike that of its siblings.

**`BootScripts`, `RomfsRedirect`.** `LastLoad` is the only difference between the two
copies of `lua_hooks.cpp`; what each script needs and brings is read from the scripts.
`std::sort` is `ByName`: the sequence in the order of names that holds what the
directory listed.
`ToldSizeIsRead` leaves out a file of the mod that cannot be opened and, in Z-A, a
loader of another mode.

**`PokemonEditor`, `PartyEditor`, `EncounterEditor`.** Species, form and level are kept
apart, as one restricts the other; the fields that are only copied are `traits`.
`raced` marks a frame in which the game changed the party between the copy and the
writing back, in which its change is lost; `LookingChangesNothing` leaves it out.

**`QuestInspector`, `BattleSettings`, `HeapPanel`.** The elements of the menu and the
variables behind them are kept apart, as in the code. The inspector keeps the pointer
of the quest it shows from frame to frame while the menu may show the list of another
type; `OnlyShownWritten` says that no write goes to a quest outside the list shown.
That `Complete` tells the game of the value before it is written
(`ui.cpp:718-720`) no property is about; `PROJECT.json` has it as a hazard.
`ChangeSinceLastFrame` speaks of a position in the list, which is all that the panel
knows of a heap.

## 3. Runs

| Run | Shows | Bounds | States |
|---|---|---|---|
| `heap` | table, allocators and callers agree after any sequence of calls | 3 heap blocks, 1 early block, table of 2, sizes 0..2, word of 4 | 135,787 |
| `serial` | calls and events taken apart implement those as steps: two refinements | 1 thread, 3 blocks, table of 2; 2 triggering threads, table of 2 bytes | 261,469 |
| `heap_overlap` | **violated**: two threads break the table | 2 threads, 2 blocks | |
| `websocket` | order, wholeness, pings; which closes can hit another's descriptor | 2 sockets, 2 numbers, 2 connections, 2 frames each, of up to and over 65535 bytes | 297,566 |
| `websocket_reconnect` | **violated**: a new socket loses its number | the same | |
| `effects` | overlapping effects on one table and on each hook, panel | duration 2, clock to 4; the effects of one hook at a time | 384,226 |
| `effects_overlap` | **violated**: table rewritten for ever | 1 triggering thread, 2 bytes | |
| `polls` | polls apart, one effect per poll; liveness of the two threads | interval 3, poll 2, effect 1, slack 2, delays 1, early ends | 18,871 |
| `polls_documented` | **violated**: config.cpp's rule for the effect's length | effect 5 = interval + duration | |
| `network` | start of the network, TLS sockets, HTTP, tokens, logger, crash report, Archipelago | 3 callers; 2 sockets, 2 numbers; answers of 3 pieces, 2 redirects; 4 pairs of tokens, 2 starts; 2 logging threads, nesting 4; 2 stack records and an unreadable address, 3 lines; 1 connection, 1 frame | 493,593 |
| `screen` | start of ImGui, backend, pad, tree of elements | 2 rendering threads; page of 2, 3 frames; the chord; 3 containers | 138,298 |
| `game` | Tomodachi heap, reference counts, editors, inspector, battle settings, heap panel, files, boot scripts, Lua effects, vote count | 2 + 2 addresses, table of 3; 2 threads with 2 references; 2 quests; files of 2 and 3; 2 effects, clock to 4; 4 options, 0..3 votes | 376,392 |

**Why the bounds are enough.** The heap's cases are: entry present or not, first
or last, table full or not, before or after the heap exists. A table of two and
a third block reach all of them; sizes 0, 1, 2 with a word of 4 include the zero
size and a product that wraps. Tomodachi's table needs a third entry, for a hole
between two. Socket properties relate an object, one other
user of its number and a free number to move to. The websocket needs a
second connection for a reconnect, and a second frame to put a frame after an error
or ping. Effects need a clock past one duration and one renewal: with
duration 2 and time to 4 an effect can run, end unnoticed, and run again while another
is on. Effects meet only within a menu of `OneHook`: those of one hook or of the
table, with one that has nothing to do with them; others read and write nothing in
common. `polls` is at its limits: without the slack polls collide, and an effect of
2 seconds overlaps the next when the streamer ends that poll at once. Poll numbers go
round in a ring of four, more than can be under way together. In `network`, a third
caller comes while one starts and one waits; three pieces have one that is neither
first nor last; four pairs of tokens let each copy refresh, and two starts read what
the first left; nesting of four is two more than the guard allows; two records
make every ring. In `screen`, three frames make a buffer, grow it and use it again. In
`game`, the file of the mod is longer than the game's own, so that a size told for one
and a read from the other differ.

Bounds not in a configuration are definitions of their module, with the word
"bound" beside them and what the code has: `Typed`, `Size`, `MaxHeaps`, `Slot`,
`Species`, `Form`, `Level`, `Part`, `Shown`, `MaxNesting`, `MaxRefs`; and the guards on
`noticeTags` and `announceTags` in `LuaEffects`.

**Deadlock.** Checked in the runs of polls. The other
configurations say in a comment where the system may stop: addresses or the bounded
clock run out, the vote is counted, a client is destroyed or waits for a peer, a frame
or a script was the last.

### Findings

1. `GlobalHeap_Utils.cpp:67`: the lock is commented out (`heap_overlap`).
2. `NET/socket/RawSocket.cpp:97` with `NET/WebsocketClient.cpp:22`: the destructor
   of the old socket closes the new one's number (`websocket_reconnect`).
3. `CC/cc_hooks.h:14`: the flag is set before its timer; a hook in between ends
   the effect that is about to be written, and nothing takes it back
   (`effects_overlap`).
4. `CC/config.cpp:17`: effects overlap when longer than `pollInterval` + 5, not
   `pollInterval+pollDuration`; the default 420 does (`polls_documented`).

`PROJECT.json` lists more hazards than these. Those without a property have a note:
no line of the repository says what should happen, or the answer lies outside the code.
So have those whose properties leave the failing case out by name, as section 2 says.

## 4. Fairness

Safety properties assume none.

* **Archipelago** (`ApSpec`): weak fairness of the client's
  own steps except failures, since a thread in a call goes on; weak fairness of
  a call's return; and strong fairness of `HandleOnePacket`, because the game calls
  it every frame, so it is possible again and again between other calls. Peers, the
  network and the user have none.
* **HTTP** (`HttpFairness`): weak fairness of `Execute`, a thread in one call.
  Servers have none, and may never answer; `HttpAnswers` is about those that do.
* **Crash report** (`ReportFairness`): weak fairness of the one thread that runs.
* **Lua effects**: weak fairness of the clock and of each `ResumeListener`, as the
  game resumes coroutines once a frame. Nothing else is fair; that
  launches come to an end follows from the bound `MaxTick`, and `EffectEnds`
  is to be read as "if it is not launched again for ever".
* **Polls**: time passes (`Second`),
  each thread runs (`EventStep`, `WsStep`), Twitch ends a poll whose time and
  delay are over, and a notice is received by a thread that receives
  again and again (strong, for other messages arrive between). `Start`, the loss
  of the link and the streamer have none.

In `MCNetwork` and `MCGame` these are conjoined for the chosen part.

## 5. Proofs

All are for every value of the constants that the modules' `ASSUME`s allow. Each
theorem follows the same argument: the initial states satisfy an inductive invariant,
each action preserves it (one lemma or step per action), and it implies the property;
the model checker checked the conjuncts first. Theorems about an action property
derive it from the invariant before the step. The assumptions say what the code
takes for granted; those that a proof needed are that the mark of a hole is no address
(`TomodachiAssumption`), that threads are finitely many where references are counted
(`RefAssumption`), and ranges of numbers.

**The heap.**

* **`GlobalHeapProofs`**: `TypeCorrect`, `TableIsSound`, `DeallocatesExactly`,
  `SystemFreeNeedsOverflow`, `CallersHoldTheBlocks`. The table alone is not
  inductive: that an entry is exact after `free` needs that callers hold each block
  once and that what is live is in the table until it overflows. `Bookkeeping` says
  that. The lemmas are about the two table operators, `SwapRemoved` (the entries
  left are the old ones but one) and `Moved`.
* **`SerialProofs`**, the two refinements of `serial`:
  * `SerialCalls`: `Spec /\ []Alone => SerialCallsAreAtomic`. `Alone` says that no two
    threads are inside a call, which is what the lock that is commented out would
    bring about and nothing more; `OneThread` shows that one thread needs no lock.
    `CallsInv` states, for each place of a call, what the accesses so far have made of
    the state in which the call began: which entries a search has passed, which of the
    four accesses of the removal are done. The call takes effect for `GlobalHeap` at
    its last access.
  * `SerialEffects`: the same for `CrowdControlThreads`, under `~MayOverlap`. An event
    takes effect when its timer is set, the hook when it returns. The clock goes on
    within both, so `HookSoFar` cannot name one time: `Reached` says that there are
    times, in order and between the hook's begin and now, at which the checks that were
    made lead from the state at the begin to flags and table as they are.

**The crowd control mod.**

* **`CrowdControlEffectsProofs`**: `TypeCorrect`, `TableIsOwned`,
  `TypeEffectsLast`, `BattleEffectsLast`, `PanelIsRight`. `FlagsMatchHistory` is the
  strengthening: a set flag has the timer of its last launch, and an effect
  whose flag is clear is over. One lemma states what the three checks of the type hook
  do to flags and table; it is applied three times.
* **`CrowdControlPollsProofs`**: `PollsDoNotCollide`, from the assumptions
  `PollDuration < PollInterval`, which config.cpp:13 demands ("pollDuration MUST be
  shorter than pollInterval, or the mod WILL break!"), and that Twitch ends polls
  within the slack of five seconds. The invariant bounds what a poll may have
  left by what the loop has left to sleep.

**The network** (`WebsocketClientProofs`, `NetworkProofs`).

* Sockets: `WorkingSocketsTakeNothing`, `ConnectedSocketsHold`, `WorkingSocketsApart`,
  `NoSocketLeak`, `SocketsStayClosed`, for any sockets, called in any order.
  `SocketIInv` adds that an owner of a number keeps it (`OwnersKeepTheirNumber`), that a
  connected socket was given one, and that the number of a working socket that was not
  robbed is its own (`WorkingHolds`), however many were robbed before; the states in
  which a socket can take another's number follow.
* `ClientUsesSockets`, `ClientSpec => SocketSpec`: each step of the client, its peer or
  another thread is a step of the sockets or leaves them alone, so the theorems above
  hold of the client (`ClientSocketsAreSound`); and `OpenClientHasSocket`. Both need to
  know at which places of a call there is a socket (`PlaceTellsSocket`), and that the
  one made by `reconnect` is not the one it replaces (`SocketsAlive`). `ApIsClient`
  does the same for the Archipelago client.
* `TextsInOrder`, `PingsHavePongs`, for any number of frames. `StreamIInv` says that
  what nobody read is the end of what the peer sent (`WireIsRest`), that a reader that
  keeps its place is between two frames or at the payload of one (`ReaderInStep`), and
  what it did with each frame it took (`TextsDelivered`, `PongsSent`), all while the
  call is anywhere. `garbled`, a handshake that took part of a frame or a frame whose
  size was misread, is why these have a hypothesis; that nothing else makes the client
  lose its place (`PlaceKept`) is part of the first.
* `LossReportedOnce`: the flag `isDisconnected` tells exactly whether the loss was
  reported (`ReportsAreFlag`).
* `ResultTold`, for any number of threads. `StartInv` says what holds until two callers
  overlap: at most one thread is bringing the network up; while it does nothing is
  stored and nobody was told anything (`Fresh`); when nobody is at it and `didInit` is
  set, the result agrees with the network (`Stored`).
* `SslTakesOnly`, `SslPartTakesOnly`: a number that a TLS socket keeps is its own or
  the zero of a context never set up (`SslIInv`).
* `HttpAnswerIsWhole`: how far the exchange with the present server is, over any number
  of redirects, unless the connection is cut or the answer pauses (`HttpIInv`).
* `FileKeepsToken`, `GivesUpOnlyWithout`. `TokenIInv`: of the copies that hold a token
  Twitch takes, one that is saving is the only one, and when none is the token is that
  in the file (`SaverAlone`, `OthersFromFile`); who can be where and hold it at each
  stage of the start (`PlacesByStage`, `HeldByStage`); whose static is set
  (`SetByItsCaller`).
* `LogNestsForACause`, for any number of threads. `LogIInv`: until two threads shared
  the guard it is set while any reports that the file would not open, and nothing that
  is logged in a report reaches the file (`GuardHolds`), so nesting is in a report only.

**The screen** (`ScreenProofs`).

* `StartedWhole`, for any number of rendering threads: `NvnInv` says that of those that
  take their first command buffer one at a time, one starts ImGui (`OneBusy`,
  `StartsOnce`), and that the tree is there or being set up (`TreeOrSetup`).
* `OwnListsAreDrawn`, for any page size and lists: `BackInv` says of every list handed
  to the GPU that the buffers at its offsets hold it (`AllRead`), through growth and
  reuse of the buffers.
* `KeysComeUp` (`KeyInv`). `DisabledStaysInert`, for any chain of containers:
  `InertInv` says that once the walk is past a disabled container, its
  `BeginDisabled` is among the scopes open around the leaf.
* `EveryScopeCloses`: `ScopeInv` says that there is a history of what was open at each
  level of the walk, each level adding what its element opens, and that what is open
  now is the history's last (`Nested`); and that `endDraw` runs for exactly the levels
  that opened (`LevelsPaired`).

**The game** (`GameProofs`).

* `BlocksAreFound`, for any addresses and length of the table: each entry is right
  about the heap of its block, no address has two, and what the callers own has one
  unless it came while the table was full or was moved (`HeapInv`).
* `ReleasedOnce`, for any number of threads: the object is in use, about to be
  released, or released (`RefInv`). In use, the count is the cardinality of the set of
  references that are counted; the rest is what a thread may be doing in each.
* `WholeFileIsRead` (`RomfsInv`), with the exceptions of `ToldSizeIsRead`;
  `BattlesGoAsShown` (`BattleInv`); `ChangesAreShown` (`PanelInv`), by position in the
  list; `MadeAsEdited` (`EncounterInv`). `WritesOnlyShown`: `QuestInv` says that the
  pointer that the inspector keeps is in the list of the type that is chosen.
* `LookingIsHarmless` (`PartyInv`): what the frame copied is what the game had, and is
  the same after it was taken apart and put together, as long as nobody edited it, the
  game did not race the frame and the form exists.
* `FailuresHaveReasons`: the order of names is the only one that `ByName` can give
  (`SortedByName`), and of the scripts that had their turn each failed or brought what
  it brings (`Turned`).
* `EffectsLast`, for any effects and times: `LastInv` ties the timer to the last
  launch, the listener count to the timer, and an effect that is off to a clock that has
  passed its end.
* `MostVotesWin`, `TiesAreDrawn`, for any number of options and votes, by the loop
  invariant `LoopInv` (`max` is the set of options so far with `maxValue` votes, which
  is the maximum).

Theorems of `PROJECT.json` without a property (`TypeCorrect`, `DeallocatesExactly`,
`CallersHoldTheBlocks`, `TableIsOwned`, `TiesAreDrawn`, `ConnectedSocketsHold`,
`WorkingSocketsApart`, `NoSocketLeak`, `SocketsStayClosed`, `ClientUsesSockets`,
`ApIsClient`, `HttpAnswerIsWhole`) are shown by their proof alone.

### Only model-checked

Liveness (`LossIsReported`, `HttpAnswers`, `CrashIsShown`, `StopTogetherAndTell`,
`EachPollOneEffect`, `EffectEnds`), which the prover cannot do. What happens when calls
overlap is not a matter of proof: `heap_overlap` and `effects_overlap` show it.

The theorems hold for whatever the constants can be. A bound that is a definition of
its module (end of section 3) is part of what they are about: proofs that only need it
to be a number or a finite set say so, and the scripts of `BootScripts`, the levels and
species of the editors and the references of a thread are taken as they are defined.
The vote count is written as steps, not recursion, so that it could be proved.

## 6. Not modelled

Components with status `not_modelled` in `PROJECT.json`: the Archipelago packet types
(conversions without state), `imgui_backend_v2` (commented out as a whole), messages,
code patches and diagnostics (wrappers and single instructions), the tables of flags
and works of Z-A (names), the other mods (menus whose buttons call one function of the
game), SDK declarations, symbols, build and tools.

Within the modelled parts: the size that `send` writes for a large frame, and an end
of connection without close frame; the choice of a poll's options and the reading of the configuration; `endPoll`,
which nothing calls; Lua effects that act once on the party; the version checks and
directories at the start; `ThreadUtil`; buttons of the debug menus that call one
function of the game; what the GPU does; two threads inside one Lua state, whose
interpreter is the game's.

## 7. What could come next

`WebsocketClient` over TLS sockets as well as plain ones; an end of the connection
without close frame, with the loop of `recvAll`; the composition of `LuaEffects` with
`CrowdControlPolls`, so that a notice is followed to the screen; a theorem about the
safety half of `EachPollOneEffect`, that no notice launches a second effect; that
`CrashReport` prints each record once on a stack without rings.
