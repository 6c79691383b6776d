# Verification of svarm

svarm keeps coding agents alive in terminals that a per-user background server
owns, and lets a terminal client attach to them, detach and come back. This
directory holds TLA+ specifications of the parts of it that are hard to test:
what the threads and processes do to each other, what queue limits, crashes,
takeovers and late answers leave behind, and the algorithms whose inputs no test
enumerates. TLC checks them on small instances and TLAPS proves the safety
properties of thirteen of them for all.

To check a run: `tlc -config <run>.cfg <module>`; to check the proofs: `tlapm
M.tla` for each module M in `*_proofs.tla`. `PROJECT.json` names the
runs, the source lines of each definition, and for every checked property a
mutated definition that violates it. Paths below are relative to the repository,
`agent/` is `crates/svarm-agent/src/`, `tui/` is `crates/svarm-tui/src/`.

## 1. The system

### Processes and threads

- **Coordinator**: one thread of the server (`Server::run`, agent/server.rs).
  It owns the connections, the sessions and everything in them, accepts
  connections, handles one input at a time, and polls all sessions when a frame
  boundary (16 ms) is due.
- **Connection threads**: per connection a reader, which puts envelopes and
  finally the end of the connection into the coordinator's bounded input queue,
  and a writer, which takes envelopes from the connection's bounded
  `OutgoingQueue`.
- **PTY readers**: per agent a thread that feeds the terminal emulator, counts
  in an atomic, and notes the agent in a bounded channel (`spawn_reader`,
  agent/terminal_process.rs).
- **Workers**: git probes, title generation, usage probes; results come back
  over channels and are looked at in a poll.
- **Client**: the main loop with its caches (`RemoteAgents`, tui/agents.rs),
  a reader thread, and background loaders.
- **Control clients**: `svarm stop`, `svarm server stop|status`, `svarm list`.

### Components

| Component | State | Operations | What makes it correct |
|---|---|---|---|
| Coordinator (agent/server.rs, server_session.rs) | connections with role and attachment; sessions with lease; identifiers and tokens; `stopping` | accept, hello, create, attach/takeover, detach, stop session/server, disconnect, idle end, signal | lease and attachment agree; only a takeover moves a lease; tokens are spent once; shutdown completes |
| Conversations (SessionRuntime in agent/server.rs; session.rs, naming.rs, history.rs, recognition.rs) | agents, drafts (identity, title), archive | spawn, close, archive, resume, quit, switch, learn | nothing resumable is lost, nothing is both active and archived |
| Conversation store (agent/conversation_store.rs) | index files; copy in memory | open, sync | files are whole; old or new after any interruption; durable after success |
| Frame synchronisation (agent/server.rs, protocol.rs; tui/agents.rs) | frame sequences, bases, outgoing queue; client cache, pending resync | poll, acknowledge, resync, viewport, resize, push, pop, apply | the client shows frames the server produced; what pressure discards is repaired; it catches up |
| Output path (agent/terminal_process.rs, manager.rs, session.rs) | generation, dirty channel, observed generations | read, count, note, poll | no output is forgotten |
| Agent manager, sessions (manager.rs, session.rs) | PTYs, order, sizes; what is known of session files | spawn, kill, resize, probe | an agent is in a conversation of its own |
| Control sequences (terminal.rs, recognition.rs 405-507, terminal_process.rs) | keyboard stack, cursor style, partial sequences, palette | read, answer | a query is answered once, with what held when it was asked |
| Semantic model (terminal_backend.rs, terminal_model.rs) | snapshot, tables of styles and links | snapshot, diff, patch, encode | diff followed by apply is the identity |
| Recognition (recognition.rs, server.rs 771-864) | last evidence, completed generation | observe | no false completion |
| Git contexts (git.rs, server.rs 866-1031) | cache by directory, probe in flight | poll, probe | a context is of the directory it is shown for |
| Usage (usage/, server.rs 1477-1513) | reports, probes in flight | refresh, absorb, overview | a refresh that is shown is going on; no invented numbers |
| Harness updates (harness_update.rs, tui/harness_updates.rs, app.rs) | status of each harness, releases known | check, update, drain | announced once, busy only while busy |
| Naming (naming.rs, server.rs 1055-1110) | drafts, generators | request, apply | a late title never names another conversation |
| Server start and commands (paths.rs, ipc/unix.rs, src/server_start.rs, client.rs, main.rs) | lock, socket, PID file, chooser | probe, start, bind, stop | one server, and it is found |
| Client model (tui/app.rs, runtime.rs) | lists, selection, mode, confirmations | keys, clicks, remote events | a confirmation acts on what it was opened for |
| New agent dialog (app.rs, runtime.rs, workspace.rs, worktree.rs) | page, draft, generations, picker | choose, browse, create | late results are ignored, waits end |
| Drawing and mouse (tui/ui.rs, selection.rs) | scroll, sizes, selected rows | draw, click, drag | a click does what is drawn under it |
| Input encoding (agent/input.rs, tui/input.rs) | modes | key, mouse, paste | different input is different bytes |
| Settings, logging, framing, upgrade | - | sequential or pure I/O | unit tests |

They interact through four channels that matter for the models: the input queue
(requests, ends of connections and wakes, from many threads to the coordinator),
each connection's outgoing queue (coordinator to writer), the dirty channel with
the generations (readers to poll), and the files of the conversation store
(coordinator to its next incarnation).

### Hard behaviours

`PROJECT.json` lists the hazards with their lines. In short: the outgoing queue
gives up frames and must owe what it gave up; diffs, resyncs, viewports,
resizes and spawns cross each other; a takeover races with queued requests;
`StopServer` is an ordinary request after which the loop round goes on; agents
quit and switch conversations before or after their identity is known; a sync
of the store may stop anywhere; the poll reads an atomic and a locked screen at
different times; background workers answer for a directory, a conversation, a
dialog or a release that the user has left; a row is clicked that was drawn by
another function; harness output is cut into reads anywhere.

## 2. Modules

### FrameSync (with ScreenMirror, MCFrameSync and FrameSync_proofs)

One session and one client at a time. A screen is the number of changes its
terminal has seen; a diff is a pair of screens, and applying it to any other
screen than the one it was computed from gives `Torn`. `frames[a]` is the
history of all frames numbered for agent a, so a sequence number is an index.

| Code | Model |
|---|---|
| `terminal_event_with_snapshot`, `next_terminal_sequence`, `frame_bases` | `FullFrame`, `DiffFrame`, `TerminalEvent`, `Issue` |
| the events of one handler on their way through `send` | `outbox`; a handler starts when it is empty |
| `OutgoingQueue::push` | `PushQueued`, `PushUnderPressure`, `PushFails`; `QueueResult::NeedsFull` is an `owed` entry at the head of `outbox` that `SendOwed` or `OwedAgentIsGone` takes |
| writer thread and socket | `Write`, `wire` |
| handlers of `apply_request` that touch frames | `HandleAck`, `HandleResync`, `HandleViewport`, `HandleResize`, `HandleSpawn`, `HandleClose` |
| `poll_events` | `Poll(quit)` |
| `TerminalFrameTracker` | `Newer`, `Duplicate`, `Gap` |
| `RemoteAgents::apply_full/apply_diff/apply_viewport/after frame` | the `Receive...` actions |
| `send_and_wait` | `waiting`, `ReceiveWhileWaiting`, `SpawnTimesOut` |
| `scroll`, `show_live`, `resize`, `spawn`, `close` | the user's actions |

A resize redraws all terminals or (same size) none. `ConnectionLost` stands for
everything that ends a connection. `dropped` is a history variable: the agents
that lost a frame to `send_and_wait`.

`ScreenMirror` is the abstract specification: the server publishes screens, the
client moves forward among the published ones or forgets. `MirrorSpec` is the
refinement FrameSync => ScreenMirror with the cache as the mirror.

### Server (with MCServer and Server_proofs)

The coordinator loop is the variable `phase`: `top` (signals, accept), `inputs`
(the queue is drained), `end` (after the poll, before `update_lifetime`), `down`
(no process). An agent stands for the conversation it holds. `known` is what the
server knows of the conversation of a running agent: its identity ("id"), a title in
the draft ("title"), and that a poll has observed that title ("shown"). The code uses
the two titles for different things: the index takes the draft's, so identity and
title make a conversation resumable on disk (`Named`), while archiving takes the
observed one (`Archivable`). Clients are part of the module: they send the token they
were given until their socket is closed; requests stay in `inbox` while the lease
changes.

| Code | Model |
|---|---|
| `accept_connections`, `begin_shutdown`, `finish_shutdown`, `update_lifetime` | `Accept`, `Signal`, `Finish`, `EndLoop` |
| `poll_sessions`, `poll_events`, `archive_after_quit` | `Poll`: any of the agents are seen, any of those have quit or moved; what is left is archived with the title observed before this poll (`ArchivedOnLeaving`), then the rest are observed (`Arrived`, `Observed`) |
| `check_role`, `attached_session`, `validate_lease`, `validate_attach` | `LeaseValid`, `MayAttach`, `Permitted`, `Refuse`, `Panic` |
| `create_session`, `attach_session`, `stop_session_runtime`, `remove_connection` | `HandleCreate`, `HandleAttach`, `SessionStops`, `Removed` |
| requests with a lease | `HandleUse` (input, resize, selection, acknowledgements), `HandleSpawn`, `HandleClose`, `HandleArchive`, `HandleResume`, `HandleDetach`, `HandleStopAttached` |
| `Server::new` | `Start`, from `saved` |
| `persist_conversations` | `Persist`: atomic here; ConversationStore says when that is justified (no call fails and nothing is killed midway) |

`RefuseHello` removes the connection without persisting, as `handle_hello` does.
The crash of the process and the panic at `attached_session` lose everything but
the files.

### ConversationStore (with ConversationStore_proofs)

Every file operation of `sync()` is a step; between any two the process may be
killed, the machine may lose power, and every operation may fail. `file` is what
the file system shows, `survivors[s]` the set of contents a power loss may leave
of session s: it grows with each rename or removal and collapses when the
directory is flushed. An index is abstracted to "the conversation is held by an
agent / is archived / nothing is held"; `Foreign` is a file of another version
(ignored by `open()`), `Torn` one whose contents were not flushed.

### OutputPath (with OutputPath_proofs)

What FrameSync takes as one step (output marks an agent dirty, a poll sends its
screen), thread by thread: `Read` (part of a chunk, under the terminal's lock),
`Count` (the atomic), `Note` (the bounded channel), against `DrainNotes`,
`ReadGeneration`, `Capture`, `SendFrame`. It justifies the abstraction: the
`dirty` of FrameSync is "the generation differs from the observed one".

### App (with MCApp and App_proofs)

One interactive client and the session behind it: the lists of agents and archived
conversations that the client keeps by replaying events, the selection, the mode
that keys and clicks go to, and the confirmations. Requests travel up and events
down over one connection, in order, while agents quit, are archived and change
conversation on their own.

| Code | Model |
|---|---|
| `apply_remote_update` and the methods of `App` it calls | `ApplyRemoteUpdate`, `AddRemoteAgent`, `RemoveAgent`, `ArchiveAfterSwitch`, `Selecting` |
| `set_mode` and what the pages draw from | `mode`, `Goto`; `shown` is the subject the prompt was opened for |
| `request_close`, `request_archive`, `request_resume_archived` and the keys of the prompts | `AskClose`, `CloseSelected`, `RequestArchive`, `ArchiveTarget`, `AskResume`, `ResumePending`, `CancelConfirmation` |
| `send_and_wait` of a spawn | `waiting`, `ReceiveWhileWaiting`, `SpawnTimesOut`, `DisconnectedWhileWaiting`; `lost` remembers that an event was dropped |
| `Incoming::Disconnected` | `ConnectionFails` ends a client that is not in `send_and_wait`; one that is has a failed spawn and is `deaf` from then on: nothing arrives, and it ends when a request cannot be written (`RequestFails`) |
| `apply_request`, `poll_events` as they concern lists | `HandleSpawn`, `HandleClose`, `HandleArchive`, `HandleResume`, `HandleSelect`, `PollConversation`, `PollQuit` |
| Hunk in a PTY of the client | `hunk`: shown, or hidden by another mode |

`shown`, `lost` and `hidden` are history: the code has no such variables, the
properties compare its state with them. `deaf` is what became of the reader thread.
Titles are left open: a conversation with an identity may or may not have one, so
archiving it may be refused, and quitting or leaving it may drop it. Whether it must not
is Server's question.

### NewAgentDialog

The dialog behind App's mode "NewAgent", page by page, with the workers behind it.
`events` is the loop's queue with its bound; a worker's `try_send` that finds it
full blocks (listings, creations) or gives up (the picker's wake-up, which then
lowers the flag `notified`). `generation` is the draft's number for creations,
`dialog.since` and `dialog.wanted` are history: which creations belong to this
opening of the dialog, and which of them is the last.

### GitContexts, Conversations, Recognition, HarnessUpdates, Usage, Startup

Six services, each a module of its own:

- **GitContexts**: the worker with one probe at a time, the cache keyed by
  directory, `apply_git_result` and `schedule_git_refresh` in one `Poll`. Ages
  count polls up to the longest interval.
- **Conversations**: what Server takes as told or arrived in a poll: an identity comes from
  an assigned identifier, a hook, the output or the newest session file
  (`Probe`, `AnySession`, `NewerSessions`), a title from the first prompt, the
  history or a generator that answers late. `been` is the history of what the
  process really was in.
- **Recognition**: the screen rules of five harnesses as sets of labels
  (`Rule(activity, required, any, excluded)`), the title rules, and `Observe`, which
  turns evidence into activity and attention. `doing` is what the harness really
  does; `Screens` is what it may then draw: half of a frame, a quoted prompt, an
  overlay of its history. This is an assumption about the harnesses, and
  `ActivityIsReal` rests on it: half a frame shows no marks at all rather than some of
  them, a question's text is quoted only while the harness works (Grok's never), and a
  title is missing or right, but for Grok's, which may drop in the middle of a turn.
- **HarnessUpdates**: the status of each harness as the client's loop and the one
  worker change it. `asserting` says whether debug assertions are compiled in, since
  an update is begun inside one.
- **Usage**: the cache with its worker, the overview and the tabs of the client, and
  as operators what every answer of the three providers is reported as
  (`Fetched`, `Credentials`, `GrokWindows`, `Absorb`, `CodexReport`). Left out: a server
  without a home directory, which probes nothing (agent/usage/mod.rs:86, 91), and Grok
  products without a name, which are skipped (agent/usage/grok.rs:254).
- **Startup**: `svarm` commands and server processes over one lock, one socket and
  one PID file; processes crash between any two steps, and a server may be of a
  build that does not speak the protocol. A `stop` that finds no server is done in the
  model, where the code returns an error (main.rs:179): what counts as failed there are
  launches.

### Layout, Selection, Snapshots, TerminalControls, InputEncoding

Five parts between the user and the harness:

- **Layout**: what is drawn and what a click does are two functions in the code, and
  two in the model: `SidebarRows` and `Drawn(page)` say what each row shows,
  `AgentItemAt` and `Clicked(page, line)` what a click on it picks.
- **Selection**: rows collected by a mouse selection from the live screen and from
  history viewports, by their distance from the live screen, while the agent
  writes.
- **Snapshots**: `Encode`, `Decode`, `Diff` and `Apply` over screens of one or two
  rows: cells with a wide character, a grapheme, two styles, two links. FrameSync
  takes for granted that a frame brings what it was made of; this module checks it.
- **TerminalControls**: the detectors over fragments of output, cut into reads
  anywhere, and the reader thread that answers. `Meant` is the reference: what the
  fragments mean one by one.
- **InputEncoding**: every key, mouse event and paste in every combination of modes.

### Display and Services (with MCDisplay, MCServices, Display_proofs and Services_proofs)

`Display` (Layout, Selection, Snapshots, TerminalControls, InputEncoding) and
`Services` (the six above) put these modules side by side for TLC. In the program
they share no variable, so their product would only multiply the states. The
variable `part` chooses the module that takes the steps; the others keep one of
their first states. Each property of Services is the conjunction of a module's type
invariant and its properties, where that module runs; Display has one of what the user
does (Layout, InputEncoding), one of what a client has of a screen (Selection, Snapshots),
and one of what the harness writes (TerminalControls).

## 3. Runs

| Run | Bounds | Question and result |
|---|---|---|
| `frames_mirror` | 1 agent (spawned during the run), queue 3, wire 1, uplink 1, 3 screens, 2 scroll rows, 3 user operations of any kind | Is what the client shows always a frame the server numbered, whatever was dropped? Are acknowledgements never ahead, viewport requests always answered? Does it refine ScreenMirror? Holds. |
| `frames_repair` | 2 agents, queue 2, 2 screens, 1 resize | Does pressure always leave a repair behind? Holds, without scrolling and spawning. |
| `frames_live` | 1 agent, queue 2, 2 screens, 2 attachments, resize, close or quit | Does the client catch up? Holds under the fairness below. |
| `server_leases` | 2 connections, 1 session, 2 tokens, 2 starts, input queue 2, 2 conversations (symmetric) | Leases, tokens, index and conversations: nothing resumable is lost but by a close, a stop, or by leaving it before a poll has observed its title. Holds. |
| `server_stop` | as above, 1 start, 1 conversation | Does a stopping server keep its index? Violated (finding). |
| `store_files` | 2 sessions | Files whole, old or new, durable, restored. Holds, with the hypothesis that no earlier sync was cut short where stated. |
| `output_path` | 2 agents, channel of 1, 4 reads | No output is forgotten; the last screen is sent. Holds. |
| `client_lists` | 2 agents, 2 conversations (symmetric), 1 request and 2 events on their way; what follows a dropped event, or a connection that ended during a spawn, only for clients and sessions of one conversation | Do the lists of a client that lost nothing and still hears the session end up as the session's? Does every prompt keep its subject, and is the review shown while it runs? Holds. |
| `new_agent_dialog` | 2 workspaces, one a repository; 2 creations or listings, a queue of 2 | Do late results stay without effect, is the dialog never on a page without its state, does every wait end? Holds under the fairness below. |
| `display` | terminals of 80x24 and 120x40, 9 cards, 2 archived, lists of 6; 4 lines on a screen of 2; screens of 2 cells from 6; all pairs of 16 fragments, stack 2; columns 0 and 256 | Do clicks meet what is drawn? Is selected text of one screen? Is a copy exact? Is every query answered as of its place? Is input told apart? Holds. |
| `services` | 2 agents, 2 directories, 1 commit; 1 agent at a time, 2 conversations, 2 visits; 5 redraws; 2 harnesses, 2 releases; 3 providers, 1 client, 2 probes; 2 commands, 3 servers, one of another build | Is what the workers report of its subject and current? Is there one server? Holds. |
| `conversation_resume` | 2 agents one after the other, 2 conversations | Does a resumed agent stay in its conversation? Violated (finding). |

Why these bounds are enough for the interesting cases: a connection queue of 2 or
3 fills while a handler of three to five envelopes is being sent, so every branch
of `push` is taken, including the one where no frame can be given up. Three
screens make a skipped, a repeated and a following diff. Two agents make one
agent's frame evict another's. Two tokens allow a takeover and two starts allow
what was saved to be restored and changed. An input queue of two holds a request
behind the one that invalidates it. A channel of one note drops the second
reader's. Four reads let both readers overtake a poll. Nine cards of three rows do
not fit 24 rows, so the sidebar scrolls; a text of 60 columns does not fit a
dialog at 80 and does at 120. Two cells are enough for a wide character, a run of
one style and a run of two, and for every pair of neighbouring links; pairs of
fragments put every query before and behind every change it must or must not see,
and each is cut at every byte. Columns 0 and 256 are on either side of what a byte
of the legacy mouse encoding can hold. Two visits let an agent leave a conversation
while its name is being generated; five redraws let a screen be half drawn, covered
and quoted within one turn. Two probes and one tick let a report go stale while
another one is asked for. Two servers of this build and a foreign one let a start
race another start, a stop and a crash.

Deadlock checking is off in all runs: users and agents may stop, identifiers and
bounded counters run out.

The constants called bounds in the modules (`MaxScreen`, `MaxScroll`,
`MaxAttach`, `MaxOps`, `MaxConnection`, `MaxSession`, `MaxToken`, `MaxStart`,
`MaxReads`, `WireCapacity`, `UplinkCapacity`) limit the state space only; `Capacity`,
`InboxCapacity` and `NoteCapacity` are the code's (`CONNECTION_QUEUE`, `INPUT_QUEUE`
and the dirty channel's 1024) at a smaller value.

### What the runs found

`PROJECT.json` quotes the line of the code, test or document each of these
disagrees with. Shown by a run listed there:

1. After `StopServer` the same loop round persists an index of no sessions and
   removes the files (agent/server.rs:2251, 2256; `server_stop`). The test
   `explicit_server_stop_keeps_the_conversation_index` passes as long as no frame
   boundary falls into that round and its connection ends after it.
2. A resumed agent of a harness that keeps session files takes over the session
   another agent writes in the same directory (agent/session.rs:448;
   `conversation_resume`).

Shown by configurations beside the runs, to be checked with `tlc` in the same way
(TLC reports the violation named in the file):

3. `server_quit.cfg` (MCServer, `PolledStaysResumable`): a conversation that is titled
   and quit (or left) between two polls is dropped, though the index already held it: the
   index has the draft's title, `archive` wants the observed one (agent/server.rs:591,
   729-734, 1278-1283). The window is one poll, and `ConversationsSurvive` excepts exactly it (`DropsUnobserved`).
4. `frames_scroll.cfg` (MCFrameSync): a viewport that meets a full queue discards the
   agent's queued full frame and owes nothing (agent/server.rs:225-238), while the
   client waits for it in `pending_resync`.
5. `frames_spawn.cfg` (MCFrameSync): `spawn()` waits with `send_and_wait`, which drops
   frames of all agents (tui/agents.rs:688).
6. `server_panic.cfg` (MCServer): after `StopServer` a queued lease request panics the
   coordinator (agent/server.rs:2233).
7. `store_retry.cfg` (ConversationStore): after a failed sync, `saved` no longer
   describes the files, and a later successful sync may leave an old index or a
   file of a session that is gone (agent/conversation_store.rs:109-117).
8. `client_selection.cfg` (MCApp): the selection moves to another agent when one
   before it leaves the list (tui/app.rs:941).

Met while modelling; the modules contain the behaviour, and the properties are
stated so that they hold beside it:

9. A prompt that wraps, and hints below an empty list, are drawn one row below the
   row that answers (tui/ui.rs:472, 990; the hypothesis of `ClicksFollowTheDialog`).
10. Reopening the New agent dialog starts the worktree generations again
   (tui/app.rs:1308; `dialog.since` in `OnlyTheLatestWorktree`).
11. Without debug assertions an update is never begun in the model of the client, and
    its failure is shown as a failed check (tui/runtime.rs:2197; `asserting`).
12. Ctrl with i, m and ? shares its byte with Tab, Enter and Backspace in
    disambiguated mode (agent/input.rs:46; the keys of `KeysAreToldApart`).
13. A selection begun on a history view mixes rows (tui/agents.rs:544;
    `fromLive` in `MixedTextIsCancelled`).
14. The PID of a server to be stopped is used after a prompt (src/main.rs:283).
15. Grok's missing percentages are reported as 0% (agent/usage/grok.rs:267-280;
    `NamedByGrok` counts them as named), and an error for a foreign identifier ends
    a Codex exchange (agent/usage/codex.rs:227; `Absorb`).
16. The usage worker joins a reader that may be blocked on a channel nobody reads
    (agent/usage/codex.rs:163): the one behaviour here that no module contains.
17. A connection that ends while the client waits for a spawn is told to `send_and_wait`
    alone, which makes a notice of it: the client runs on over a dead connection with
    lists that follow nothing (tui/agents.rs:696, tui/runtime.rs:1540, 2131-2134;
    `deaf`, a hypothesis of `ListsFollowTheSession`).

### Fairness

`FrameSync!FairSpec`: the coordinator polls when there is output, pushes what it
holds and handles what is queued; the writer writes; the client reads. Each of
these is a loop that blocks only on the others (the client on a full uplink,
which the coordinator empties; the writer on a full wire, which the client
empties). Weak fairness is enough because none of these steps is disabled by
another party but through the end of the connection, which `CatchesUp` excepts.
Agents, users and the fate of a connection owe nothing; in particular
`SpawnTimesOut` needs no fairness because spawning is not part of that run.

`NewAgentDialog!Fairness`: the two workers and the spawn answer or time out, a
blocked notification is sent when the queue has room, and the loop drains its
queue. Draining is strongly fair: it is disabled while a spawn is waited for, and
a user who spawned again and again would starve it under weak fairness; but the
keys that would do so come through the same queue, behind what is in it. The user,
the picker and the agents owe nothing: a picker that runs for ever is not a hang.

`OutputPath!FairSpec`: a poll is due every `EVENT_TICK`, timed by `recv_timeout`
and not by wakes, and a reader that has processed a chunk goes on to count it.
`Note`, the channel and the next read need no fairness.

## 4. Proofs

The proof modules keep every constant arbitrary; they rest on `ServerAssumption`,
`StoreAssumption`, `OutputAssumption`, `DialogAssumption`, `FrameSyncAssumption`,
`AppAssumption`, `DisplayAssumption` and `ServicesAssumption`, which say that the bounds
are natural numbers (those of the queues and the height of a screen at least 1), that repositories are workspaces,
servers of another build are servers, agents are finitely many and numbered, and that
`None` and `Nowhere` are nothing else. Two assumptions of Display are about sizes: a
terminal is at least 80x24, below which nothing is drawn, and at most 1092 (`Largest`), up
to which the percentages of a dialog do not saturate a u16 (`LayoutAssumption`); the screens
of Snapshots are of any size (`SnapshotsAssumption`: pairs of natural numbers); and a cell
is below 2^15, so that its number is a character in UTF-8 (`InputAssumption`). What the theorems state was checked by TLC before it was
proved.

**FrameSync_proofs.** Four invariants, each resting on the one before:

    ContentInv   what is in flight carries what was numbered
    OrderInv     per agent, what is in flight is in the order it was made
    ScrollInv    every viewport request that was sent has its answer in flight
    RepairInv    what was given up is asked for again, or superseded

`ContentInv` says of every full frame, wherever it is (outbox, queue, wire), that it
holds the screen its number stands for, of every diff that it goes from the screen of
its base to the one of its number, of every basis of the server that it is the screen
of its sequence, and of every acknowledgement that the client was there. From it follow
the types (`FrameTypesHold`), that the client shows frames the server made and never a
torn one (`ScreensAreFrames`), that the server's bases are never ahead of the client
(`BasesFollowTheClient`), and the refinement `FramesMirrorScreens`, `Spec => MirrorSpec`,
step by step: a full or following diff is the mirror's `Show`, what forgets a cache its
`Forget`, everything else a stutter.

`OrderInv` is about `Pipe`, the wire, the queue and the outbox behind one another.
`push` may take a frame out of the middle, so what survives is an order of what is
left: `EnvelopesStay` and `NewRemovals` say what any step can do to it. `ScrollInv`
numbers requests and answers against each other (`LastAsked`, `LastAnswered`): the
answer to the last request is behind every earlier one, and no pressure gives it up
because `push` never discards a viewport. `ScrollbackIsAnswered` has no hypothesis.

`RepairInv` is

    OrderInv /\ Born /\ Undisturbed /\ Known /\ PendingEnds /\ NewsIsSent /\ Repaired

`NewsIsSent`: a screen the server has numbered and the client has not seen is in the
pipe, or owed. `PendingEnds`: a client that waits for a full frame has its request or a
full frame on the way. `Repaired`: behind every frame that was given up comes a full
frame, or the agent's debt at the head of the outbox, or the agent is gone. They hold of
users who neither scroll nor spawn (`"scroll" \notin UserOps`, `"spawn" \notin UserOps`,
hypotheses of `ResynchronisationIsAnswered` and `ScreensAreRepaired`), and of no others:
`frames_scroll.cfg` and `frames_spawn.cfg` show what the code does to a waiting client
when a viewport takes a full frame's place, or `spawn()` drops it (findings 4 and 5).
Without those two operations every envelope that `push` discards is replaced.

**Server_proofs.** `TypeCorrect`: `Spec => []TypeOK`, one lemma per group of
actions (clients, loop, handlers that change contents, handlers that change
leases, endings). `LeasesAreMutual` and `ClientsAreNotFooled` follow from the
inductive invariant

    LeaseInv == TypeOK /\ LeaseIsMutual /\ IssuedBefore /\ NothingElseLeased /\ ClientLease

`LeaseIsMutual` alone is not inductive. After `StopServer` connections are
attached to sessions that no longer exist; were such an identifier issued again,
the new session's holder would not be the old connection, hence `IssuedBefore`.
Freeing the lease of a removed session must leave no other session leased to the
same connection, hence `NothingElseLeased`. What a client believes about a
session that StopServer removed says nothing, so the client's part is kept
conditional in `ClientLease`, and `ClientsKeepTheirLease` follows from it. Each
way a lease can change (create, attach with takeover, detach, disconnect, stop of
a session, stop of the server, end of the process, start) has a lemma;
`UntouchedKeepsLeases` covers all the others at once.

There too, `TokensAreSpentOnce` and `OnlyTakeoversMoveLeases` are action
properties and follow from `LeaseInv`: by `OnlyTwoGrant` every step but a creation
and an attach leaves each lease or ends it, and those two use `nextToken`, which no
lease has had. That an attach without takeover finds its session free, and that a
new session had no holder, comes from the types and `IssuedBefore`.

Of the index, `SavedStaysCurrent` and `NothingResumableIsLost` follow from

    IndexInv == TypeOK /\ HeldBySessions /\ SavedCovers /\ SavedIsCurrent

The index is computed from the sessions that exist, so nothing else may hold a
conversation (`HeldBySessions`). A conversation that is resumed or taken over by an
agent is still resumable there, because it arrives with its identity and title (`Facts`,
`Arrived`). What a poll does to what could be resumed is `PollEffect`: it stays, or it
was left without an observed title; `NothingResumableIsLost` therefore has the exception
`DropsUnobserved`, which `server_quit.cfg` shows to be needed. While the server stops, the
files may hold more than the sessions, as `StopServer` does not persist, but never
less (`SavedCovers`); otherwise a crash in that round could lose one. Steps are
grouped by what they do: quiet, to contents, to sessions, to connections, and
those that end or start the process.

**ConversationStore_proofs.** All properties of `store_files` follow from

    StoreInv == TypeOK /\ AtWork /\ Whole /\ WrittenStays /\ Settled /\ Agreed
                  /\ OkIsSaved /\ OldOrNew

`AtWork` ties the steps of one write or removal to the session and the pass of the
loop they belong to. `Agreed` is the loop invariant: without an interruption the
files behind the loop are what the new indexes say and those ahead are what was
saved, `Settled` says that all but the entry being replaced is on the disk, and
`WrittenStays` that a later pass does not touch what an earlier one wrote.

**OutputPath_proofs.** `OutputTypeCorrect` and `OutputIsNeverForgotten` follow from

    OutputInv == TypeOK /\ KnownGenerations /\ CapturedIsFresh /\ NoOutputIsForgotten

`KnownGenerations`: the generations a poll has read or recorded are never ahead of
the reader's, so a count always makes a difference. `CapturedIsFresh`: a captured
screen that the terminal has moved on from is followed by news that no poll has
observed, so sending it loses nothing.

**App_proofs.** All invariants of `client_lists` follow from

    IInv == ClientInv /\ EventsLeadToTheSession
    ClientInv == TypeInv /\ EndedIsEmpty /\ WaitingInDialog
                   /\ ConfirmationsKeepTheirSubject /\ ReviewIsShown

`ListsFollowTheSession` speaks of the moment when no event is on its way, so it needs
an invariant of all others: `EventsLeadToTheSession` says that there is a chain of pairs
of lists, the first the client's, the last the session's, each made of the one before by
the next event on its way (`After`). A request or a poll prolongs the chain by its event
(`LeadsOn`), an event that arrives is its first link (`LeadsNext`), and a client that
begins has a chain of one (`LeadsNowhere`), so no induction over the queue is needed.
Each handler of the session has a lemma that its change of the lists is what its event
makes of them, and `EventIsApplied` says the same of the client's. `TypeInv` adds to
`TypeOK` what the queues hold. The chain is broken where events are lost, so the
invariant is of clients that neither dropped one (`lost`) nor missed the end of their
connection (`deaf`). `ConfirmationsKeepTheirSubject` needs of the events only
that whatever adds or removes an agent closes the prompt.

**NewAgentDialog_proofs.** `SoundDialog` and `LatestWorktree` follow from

    IInv == QueueInv /\ CounterInv /\ ScreenInv /\ DraftInv /\ LatestInv

`LatestInv` is about everything on its way, requests and results: none is numbered
beyond the last request, and what the open dialog asked for carries an older
generation or is the one it wants (`Superseded`). Reopening the dialog keeps this
because all that is on its way was asked for before (`since`), cancelling because
it takes a generation nothing has. `DraftInv` adds to the checked properties that a
draft that believes in a repository has one, without which a location could be
confirmed that has none; `ScreenInv` that a wait has a dialog to return to.

**Display_proofs.** `ScreensStayOfOneState` is about Selection and Snapshots, and follows from

    MouseInv   == LinesInv /\ QueueInv /\ ViewInv /\ SelectionInv
    ScreensInv == the screen and the marks of its rows have the terminal's size, the last
                  snapshot sent is one (IsSnapshot), and the client's copy is that one

A row of a selection is numbered by its distance from the live screen, so what it stands
for depends on the screen it was taken from. `SelectionInv` says `Taken`: the rows of a
selection begun on the live screen come from screens of no fewer lines than the client's
frame and no more than the agent has written. When the client's frame is of the last line,
the two bounds meet and all rows are of one screen (`TextIsOfOneScreen`). It needs
`QueueInv`, that no message under way is of an older screen than the client's frame or
than a message before it: a viewport that arrived behind a later frame would add rows of
a screen the user no longer sees. It also shows what the cancelling is for: with the
client's frame the lower bound rises, and only a selection that is gone survives that.

That the copy stays the snapshot is two facts about every screen of every size. A full
frame decodes to what it encodes (`FramesAreDecoded`). The table of styles holds the style of
each cell (`EveryElementIsSeen`: the first place a style occurs at has a rank among the
first places, by `NthNumbers`). The runs of a row follow each other without a gap
(`RunsFollowEachOther`), no cell in a run differs from its first in what is sent once
(`RunsAreUniform`, by the least that would), and so a run expands to its part of the row.
Parts of one whole that follow each other make the whole (`PiecesAreTheWhole`, used for the
runs of a row and for the rows of a screen). And a diff between two snapshots of one size,
applied to the first, is accepted and makes the second (`DiffsAreApplied`), because what it
leaves as it was is what does not differ, and all links of the second are in its table.
`AcceptedPatches` is about a patch for another basis: what is accepted leaves a valid
snapshot.

`InputStaysUnderstood` is about Layout and InputEncoding, and follows from

    DrawingInv == TypeOK, the selected card is one of the sidebar, and a browser or a
                  chooser of sessions has a row
    InputInv   == what was sent last is the encoding of the last event, in these modes

These two are easily kept; the work is in what they imply. In the sidebar the rows drawn
are cards of one or three rows, one after the other (`FlattenSeq`), the header and the
archived conversations. `Flattened`, by `LeastNatural` over the number of sequences, says
which element is at a place, and `SidebarRowsAre` the row at any offset; that a click agrees
is then the arithmetic of `div` and `mod` by the height of a card (`SidebarIsClicked`). In a
dialog a page is put together of two or three parts, and `PartAnswers` says of a part that
its rows answer for what they show from a row on. The parts of every page do
(`FormAnswers` to `SessionsAnswer`); a list's because what is shown of it starts at `Start`
and never exceeds the room there is (`ListIs`), so that the hints below it stay inside the
dialog at 24 rows. `NothingWraps` brings in the hypothesis that no line is too wide. Both
hypotheses of `ClicksFollowTheDialog` are needed: a line that wraps, and a list of
workspaces that is empty, shift the rows below (number 9 of what the runs found).
For the input, `KeysDiffer` shows that what the new form sends for a key is sent for no
other (`NewIsNotOld`: a legacy encoding has another length or another end), and
`CellsDiffer` that in each of the three encodings of the mouse the cell, and in SGR the
button and the kind, can be read back: the byte of the default encoding wraps at 256 and
would not, but for the check that the cell is at most 223.

**Services_proofs.** A step of Services is a step of one part and leaves the variables
of the others alone, so an invariant of a part is one of Services. All six have one.

Updates: `UpdatesHold` follows from

    UpdatesInv == WorldInv /\ ChannelInv /\ StatusInv /\ ReportsInv /\ AnnouncedInv

That no release is announced twice needs `ReportsInv`: what checks report of a
harness never falls along the channel, starts no lower than what was announced and
ends no higher than the newest release. Comparing with the one release announced
last (`AlreadyKnown`) is enough only because of that. `StatusInv` adds that a check
is of every harness that can be busy, so that its result ends every "Checking".

Git: `ContextsStayCurrent` follows from `GitInv`. A poll is several steps of the code in
one action, so `RoundInv` says what holds between them: what the cache, a request and a
result hold of a directory was reported of that directory, an agent's context is of the
directory it is shown in, an agent that is closed shows nothing, and an agent whose
context the poll changed is among its events. At the end of a poll the client has been
told what is shown (`told = shown`). The agent to be probed is the first that is due; that there is a
first is `LeastNatural`, the principle of the least number for sets.

Starting: `OneServerIsAlwaysFound` follows from

    StartInv == FilesInv /\ CommandInv

`FilesInv`: from before it looks at the socket until after it has removed its PID file
exactly the process that holds the lock is under way, and the socket and the PID file are
its own for as long as it relies on them. No step of a command touches a file.
`CommandInv` says what a command waits for: one that waits has a server that starts or
serves, one that lists has found one that serves, or else a server was ended or is of
another build (`Started`, `Found`, `Over`). No step of any process takes that away again
(`Progress`), so a launch has no other reason to fail. That a chooser's rows are the
sessions in order is `ListsExist`, by `LeastNatural` over the identifiers.

Activity: `ActivityStaysReal` follows from `ActivityInv`, whose core is `Telling`: what is
drawn of an agent that is not blocked shows no permission and no question, and an
approval only beside the mark of a running turn (and never in Grok); what is drawn of one
that is not idle shows its prompt at the bottom only beside that mark, or the screen is an
overlay. `BlockedRules` and `IdleRules` go through the rules of each harness with that;
the prompt of Claude, whose rule excludes nothing, is safe only because the rule for a
running turn comes first (`FirstRule`). An overlay keeps the evidence of before, and the
completion looks at the last affirmative claim, which is that evidence.

Reporting: `UsageStaysReal` follows from

    UsageInv == ObservedInv /\ FlightInv /\ ViewersInv

`FlightInv`: what is in flight is at one place of one of the worker's two channels, and
nothing else is; `Ordered` lists no provider twice, again by `ListsExist`. `ViewersInv`
looks at the last overview on its way to a client, or at the one shown if there is none:
it is `Fresh`, because whatever lands sends every client another. What it shows as
refreshing may be less than what is in flight (others ask too), never more. A client that
dropped an overview while it waited for an answer has no such claim until the next.
What a report names is followed from the answers (`AnswersAreKept`): for Codex line by
line, since `DrivenHolds` says that after any number of lines the exchange holds nothing
that none of them answered, and since no request is answered twice.

Identity: `ConversationsStayKept` follows from

    IdentityInv == types /\ SessionFilesInv /\ ItemsInv(archived) /\ every agent is Sound
                   /\ no two agents that write files run, if OneWriter

and from what `Leaves` says of every step. `Sound` is of one agent: its draft is named
after the conversation shown (`DraftInv`), and `Own`: every identifier the server holds of
it (reported, observed, assigned, signalled, and the probe's own) is one its process was in.
For an agent that writes files that needs `Wrote`: the files of the directory, in the order
they were last written, are up to some place those it found when it started, and behind
that its own, the one its probe shows among them. Without the latter the probe, which takes
any file that was written later than the one it shows (`NewerSessions`), could go back to
a file of before. A poll observes all agents one after the other, so `PollInv` is the
invariant of that loop: an agent not yet reached is as it was, and a named conversation one
of those before is no longer shown in is archived, or another of them was switched to it
(`Kept`), since a later agent may take back what an earlier one left. That the loop has its values is `PollsExist`, that they keep
`PollInv` is `PollsKeep`. `OneWriter` is the one hypothesis: either one agent runs at a time,
or at most one of them writes session files. It is needed: of several in one directory a
harness that only writes files takes the newest file for its own, whoever wrote it
(`NewerSessions`). `NamesAndLeavesAreKept` is what holds without it.

Only model-checked: liveness (`CatchesUp`, `LastScreenIsSent`, `WaitsEnd`), which
needs fairness and `ENABLED`, and `OutputIsUnderstood` of Display.
The properties of TerminalControls are about what algorithms compute over the bytes of
fragments whose meaning is a constant: a proof would be an induction over data, and the
library's induction theorems take an operator as a parameter, which the provers cannot
instantiate. `LeastNatural`, the principle of the least number for sets, carries the
inductions that were needed: `DroppingIsAList` of App_proofs, `AllGrow`, `Flattened`,
`PiecesAreTheWhole` and `RunsAreUniform` of Display_proofs, `ListsExist`, `RunsExist`,
`DrivenHolds`, `PollsExist` and `PollsKeep` of Services_proofs. No module uses RECURSIVE.

## 5. Not modelled

`PROJECT.json` has every component with the reason. The main ones: the terminal
emulator and the formats of third-party files and answers (data), drawing of cells,
colours and wording (no protocol), framing (sequential), HTTP, JSON, downloads and
processes of git and of harnesses (I/O; their outcomes are chosen freely). The wake
of the coordinator (`OutputWake`) is left out of OutputPath because polls are
timed. A resize that fails for one PTY and is rolled back is left out: what fails is
outside the program. The settings pages, notices and toasts of the client, and what
`list` and `status` print, are left out too.

Time is not modelled but in GitContexts (polls), HarnessUpdates and Usage (ticks): a
timeout may happen whenever its action is enabled. GitContexts takes a probe to end
within one second. In Server a new or switched-to conversation is not held
elsewhere; Conversations shows when it is. Server and Conversations are two views of
the same sessions and are not composed: the first has every way a session lives and
ends over two lives of the server, the second every way an identity and a title
become known, and the product is out of TLC's reach.

## 6. Plan

Done: the coordinator, the store, the output path, the New agent dialog, the frames, the
client's model, the mouse selection, updates, Git contexts, the server's start, recognition,
usage and conversations with their proofs; drawing, input, control sequences and screens. What would come next:

1. **OutputWake**: the coalesced wake between readers and the input queue, with
   its real bound (readers + 2) as an invariant to prove.
2. **AgentLifecycle**: spawn, kill and the rollback of a resize.
