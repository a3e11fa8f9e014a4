# shebbak: a TLA+ verification of the shared-application protocol

shebbak shares the windows of chosen applications from a host Mac to a client.
Each shared application appears at the client as an application of its own: a
*mirror helper* process with its own Dock tile and one native window per remote
window. This directory models the program's control logic in TLA+, checks it
with TLC and proves part of it with TLAPS. Paths below are relative to `src/`.

## 1. Inventory

### Components, their state, their operations

| Component | Code | State | Operations |
|---|---|---|---|
| Window tracker | `core/src/tracker.rs` | known windows per shared pid, with the size last seen unminimized | `diff` of a poll, `remove_pid` |
| Host session | `host/src/session.rs`, `host/src/main.rs` | peer, watcher, tracker, window runtimes (track, encoder, capture), keyframe routing, announced applications | set-up: offer, answer, control channel, watcher; reconciler loop: tick or poke, unsubscription, window events, renegotiation; teardown |
| Mapping forwarder | `host/src/session.rs` 372-405, `core/src/mapping.rs` | last mapping sent per window | derive a mapping from a frame's metadata, forward a change |
| Input worker, sinks | `host/src/session.rs` 274-346, `input/src/` | window-to-pid map, frontmost application, mouse button | focus, pointer, key, resize, map update, shutdown |
| Encoder pipeline | `host/src/pipeline.rs` | one-slot frame queue, keyframe flag | push, request a keyframe, stop |
| Peer transport | `transport/src/peer.rs` | pending answers, chunk assembler | send a message in chunks, renegotiate, dispatch |
| Signalling | `transport/src/signalling.rs` | none | one offer/answer exchange |
| Client network task | `client/src/net.rs` | connection, track readers | deliver host messages, read tracks, ask for keyframes |
| Coordinator | `client/src/coordinator.rs` | per application: helper, recorded windows, respawned and given-up marks; window and track indexes; buffered mappings | host messages, helper messages, helper exits, disconnection |
| Video router | `client/src/router.rs` | helper per track, decode progress | set, clear, forward, stalled |
| Mirror helper | `client/src/bin/srw-mirror-helper.rs`, `client/src/mirror_app.rs`, `client/src/ipc.rs` | mirrors with their sizes, buffered mappings, early frames, exit reason | drain frames, decode, relay input and resizes, exit |
| Pickers, bundles, Dock, capture | `client/src/bundle.rs`, `client/src/dock.rs`, `capture/src/` | the operating system's | windows listed, captures started, bundles written |

### How they interact

```
 window server --poll--> AppTracker --events--> HostSession ==data channel==> HelperManager --FIFO--> HelperProcess
 captured frames --meta--> MappingForwarder ------^   ^                          |   ^  ^                 |
 InputWorker <--work channel-- input, map updates ----+----- client messages ----+   |  +-- up messages --+
                                                                                     +----- exit report --+
```

The control channel is reliable and ordered, and every hop from the coordinator
to a helper is a FIFO (channel, socket, channel). What makes the system hard is
what is *not* ordered: a helper's exit report comes from a reaper thread and its
last messages from a reader thread, both race with host messages; the mapping
forwarder runs beside the reconciler; the host acts on an `UnsubscribeApp` only
after it has sent more windows; the reconciler waits on the network with the
input worker going on; the coordinator's queue outlives the session; and a window
has a size at the host, in the tracker, in the capture and in the mirror, which the
user and the application change at either end.

### What makes each part correct

* **Coordinator and helpers.** One helper per application; a (re)spawned helper
  shows exactly what the host last said, with its icon once; tracks are routed
  to the helper that shows the window; no recorded window is left without a
  helper; a crash is repaired once; giving an application up is final and the
  host is told once; no helper outlives the coordinator.
* **Host session.** The client is told exactly what is mirrored, in an order it can
  follow, through any sequence of polls and failing captures; tracks, encoders, captures and tracker
  agree; a dropped application never comes back; the end of a session, in
  its set-up too, releases everything.
* **Mappings and input.** The client's pointer mapping follows the captured
  frames, and a click lands on what is shown under it; what is typed lands in the
  application that was focused; the mouse button comes up again.
* **Sizes.** Mirror and window end up with the same size, however the two directions
  of the size sync cross, and do not chase each other.

`PROJECT.json` lists the hazards line by line, each with the properties that
would catch it going wrong, or the reason why none does yet.

## 2. Modules

The client and the host are two stacks of modules over a shared vocabulary; the
transport, the path of a window's video and the geometry of a mirror are modelled on
their own.

| Module | Models |
|---|---|
| `MirrorFrames` | host messages and helper frames, what a drained frame does to a helper's world, what is replayed into a fresh helper (pure) |
| `HelperProcess` | the helper processes: threads, queues, exit reasons, crashes |
| `HelperManager` | the coordinator's handlers and the video router |
| `HostStream` | which host message may come when: the seam between the two sessions |
| `ClientSession` | the client composed with the user and any host that keeps to `HostStream`; the client's properties |
| `AppLifecycle` | abstract specification: what the client promises about an application |
| `ClientRefinement` | the refinement mapping from `ClientSession` to `AppLifecycle` |
| `ClientInvariant` | the client's inductive invariant |
| `ClientProofs`, `ClientLifecycleProofs`, `ClientFidelityProofs` | the theorems about the client and their proofs: types, tables, routes and giving up; the refinement; what the helpers show |
| `AppTracker` | `diff`: a poll against the known windows (pure) |
| `MappingForwarder` | captured frames' metadata to `InputMapping` messages |
| `InputWorker` | the worker thread with the Accessibility sink, and the client's user: focus, keys, the mouse button |
| `HostSession` | set-up, reconciler loop and teardown, composed with all three; the host's properties |
| `HostInvariant`, `HostProofs` | the host's inductive invariants, the theorems about it and their proofs |
| `MirrorGeometry` | the sizes of one window at both ends, the size sync with its echo guard, and the arithmetic of the pointer mapping |
| `ChunkChannel` | one direction of the control channel: chunked messages and their reassembly |
| `Renegotiation` | renegotiation of the peer connection over two such channels, in the middle of other traffic |
| `ChunkProofs`, `RenegotiationProofs` | the theorems about the two and their proofs |
| `VideoPath` | one window's video: frame slot, encoder thread, access units, decoder, stall state, keyframe requests |
| `GeometryProofs`, `VideoProofs` | the theorems about `MirrorGeometry` and `VideoPath` and their proofs |
| `MCClient`, `MCHost` | small instances |

### Correspondence with the code

Variables carry the names of the fields they stand for: `known` is the key set
of `HelperManager.apps`; `running`, `windows`, `respawned_once` and `given_up`
are the fields of `AppState`; `routes` and `progress` are `VideoRouter`'s;
`runtimes`, `tracks`, `pli_pipelines` and `announced` are the locals of
`run_session_body`; `live` and `pids` are `AppTracker`'s. A map is a function
that is `None` for absent keys. A window's track is called `win-<id>` by the
host, so a track *is* its window in the model. A helper's channel is the helper:
a process identifier stands for the sender held in `running` and `routes`.

One action is one handler on the thread that runs it, split where another thread can see the
middle of it. The coordinator handles
its events one at a time on its main thread, and its tables are that thread's own. The
video router is not: a task per track reads the routes whenever an access unit arrives. So a
handler that both feeds a helper and sets or clears a route is two steps, in the order of the
code (`OpenOrder`, `CloseOrder`): `WindowOpenedRunning` announces and `FinishOpen` routes; `OnWindowClosed`
clears the route and `FinishClose` forwards the close; a spawn sends the replay
and `FinishReplay` routes the tracks to the new helper. Between the two `handler` names the handler under way and
`about` its windows; no other event is handled (`Handling`), while video, helpers and crashes go on.
Only the halves are split, not each call: the routes a handler changes change together. Events queue up in the coordinator between their
arrival and their handling; producers are independent, so the queue may hold
them in any order, and a handler is enabled as soon as its producer has something
to report. The host's loop is an `async` task: a step runs from one await to the
next, and between steps frames, forwarder, worker and client go on.
`pc` names the await (`answer`, `channel`, `announce`, `untrack`, `closing`, `renegotiate`,
`join`). What the set-up leaves with `?` ends in `abandoned`.

The events of one `diff` are a set and not a list: a window has at most one event of each
type, so the set loses nothing, and the order of the list becomes an order on it, by the loop
of `diff` that pushes an event (`PushLoop`) and its place within one turn of that loop
(`PushPlace`). Which window comes first within a loop is left open, as the hash map and
the poll leave it. `subject` is the window whose turn has begun. A pass takes `Foremost`
events until none is left.

**The two sessions meet in `HostStream`.** `ClientSession` does not contain
`HostSession`: its `HostX` actions conjoin the actions of `HostStream`, so everything
checked and proved of the client holds for every stream of messages that module
allows. `HostSession` instantiates the same module and is checked to keep to it
(`KeepsToStream`): whenever the loop sends a message, `HostStream` allows it. A window
whose capture could not be started is not announced, but its later events are sent
all the same; writing the seam down is what showed that, and the client is now
checked with such updates of windows it never heard of (`HostOpenFails`).

In `MirrorGeometry` sizes are numbers and there is one axis, the horizontal one, in
which a sheet overhangs its window on both sides; the vertical axis has the same
scale and no offset. The mirror's drain, its waiting `Resized` events and the
requests on their way are what the two directions of the size sync pass through.

In `Renegotiation` the host's loop, the forwarder, the two message handlers and
the client's sender are the tasks of `transport/src/peer.rs` and its callers; one
task sends one chunk a step. A session description is the number of its media
sections, since that is what `validate_answer_matches_offer` compares, and
`add_track` reuses a section as the WebRTC library does. In `VideoPath` a frame is
"new" or "old" against the last capture and an access unit is an IDR or not; the
stall clock is `progress`, which ages from "recent" to "old".

`PROJECT.json` maps every definition to its lines.

**Assumed of code outside the repository.**
winit delivers user events that wait when `event_loop.exit()` is called, so a
helper drains frames until it has left its loop; the data channel is reliable and
ordered and awaits the handler of a message before it delivers the next; an encoder
told to make an IDR keeps that in mind over a failed encode; a process identifier is handed out again only when nothing refers to the
old process (the program identifies helpers by their channel, never by pid);
nobody else at the host changes which application is frontmost; the pointer
mapping of a frame is a function of its metadata, so outside `MirrorGeometry`
metadata is written as the mapping it gives; winit applies a requested size at once and
reports a changed size, and nothing else, as one `Resized` event; a closed peer connection
lets go of its handlers.

**Left out of the modelled parts.** Pixels and H.264 data, pointer moves, the second mouse
button, close requests, modifier translation, the pid-targeted sink that `SRW_INPUT=pid` selects, the content of icons and bundle files, wording of titles.
Wall-clock throttling becomes a choice (a progress report may or may not be sent).

**Mutants.** Operators marked *mutant* in a comment are the plausible slips that
`PROJECT.json` pairs with each property: put in place of the modelled definition
they make the property fail. They are used nowhere else.

## 3. What is checked

Bounds: process identifiers and the queue bounds `MaxDown` (frames waiting for a
helper), `MaxUp` (messages from one helper), `MaxToHost`, `MaxMeta`,
`MaxInput`, `MaxEvents` and `MaxWire`; window identifiers are below `IdBound`. The queue bounds only stop a *producer* (host, video source, user) from
running further ahead; no handler refuses work because of them. `Faults` and
`Traffic` say what may go wrong and what the environment does in an instance, so
that each run spends its states on one question.

### Client

| Run | Instance | Shows |
|---|---|---|
| `client_replay` | 1 window, 2 sizes and mappings, every update, video and input; crashes, quits, a decoder that cannot be built, captures that fail | `ReplayFidelity`: a running helper, once it has drained its queue, shows what the coordinator remembers; `IconOnce`; `NoOrphanFrames`: no access unit reaches a helper outside the life of its mirror, also not between the halves of a handler |
| `client_apps` | 2 applications, with two windows and with one, 3 processes; missing bundles, refused windows, failed spawns, crashes, quits | `TypeOK`, `ClientInv`, `HelperOwnership`, `RouteOwnership`, `UnsubscribeOnce`, `StaysGivenUp`, `ImplementsLifecycle` (refinement of `AppLifecycle`) |
| `client_progress` | 1 window, crashes, quits, the end of the session, fair scheduling | `EveryWindowShown`, `EmptiedHelpersLeave`, `HelpersFollow` |

Two windows are enough for everything that relates windows of an application
(the helper survives the close of one; the last one idles it out); a queue of
four frames (`client_progress`) lets an announcement, a close and a re-announcement of a
window wait at once, which is the idle race; two processes let a dying helper and its
successor coexist, three let two applications do so. The tables are indexed by
application and window, and no handler touches two applications. In `client_apps` states that differ only
in the leftovers of a process identifier that is free again (its last application, exit reason and
Cmd-Q) count as one (`ReuseView`): no action and no property of the run reads them before the next `Fork` overwrites them.

### Host

| Run | Instance | Shows |
|---|---|---|
| `host_view` | 2 applications with a window each, 2 sizes, minimizing, captures that fail to start or restart, ids that come back, unsubscriptions, fair scheduling | `ClientInformed`: what a client makes of the messages is what the tracker mirrors; `RuntimesAgree`; `SinkFollows`; `DroppedForGood`; `KeepsToStream`; `UnsubscribeCarriedOut`; `TypeOK` |
| `host_session` | 1 window, 2 mappings, a set-up that may fail, frames at any time, focus, keys and mouse with 2 inputs under way, accessibility calls that fail (`AxFails`), loss of the peer at any time, fair scheduling | `MappingFollows` (as long as no window id comes back), `ButtonReleased`, `SessionEnds` |

A poll is any function from windows to a window's attributes or absence, in any
order, so `host_view` explores every sequence of polls over two windows; a pass handles
its events one await at a time. In `ClientInformed` the client is the helper
model of `MirrorFrames` (`Deliver`): the host's messages are read by the same
definition that the client part is checked with.

### Geometry

| Run | Instance | Shows |
|---|---|---|
| `mirror_geometry` | widths 2 and 4, a sheet of width 4 or none, 2 messages and 2 window events waiting; refused requests, captures that keep their size, fair scheduling | `Agreed`: at rest the mirror has the window's size; `ClicksLand`: the mapping inverts what is shown, but for the two kinds of frame it excludes (below); `OnlyOverlapsEcho`, `Settles`: the size sync does not answer itself |

Two sizes give every comparison of the echo guard both outcomes, a sheet as wide as the
larger one overhangs only the smaller, and two waiting window events are what an echo
needs. With these widths every quotient of the mapping is exact, so the equality of
`ClicksLand` is checked without a tolerance.

### Transport and video

| Run | Instance | Shows |
|---|---|---|
| `transport` | 2 renegotiations, up to 3 media sections (so descriptions of 1 to 3 chunks), 2 frames under way each way; timeouts, refused offers and answers, offers taken without an answer, sends that break off | `Reassembly`: what was sent is received whole, once, in the order in which the sends ended, never spliced; `NoDeadEntry`, `AnswerFindsCaller`: the pending-answer queue; `AppliedMatches`: no answer for other media sections is applied; `RenegotiationEnds`; `TypeOK` |
| `video` | the periodic IDR at any frame or never, 2 access units under way, 2 mishaps (loss, failed encode, replaced helper), fair scheduling | `LatestWins`, `KeyframeKept`, `PipelineStops`, `KeyframesRequested`, `RecoversWhileChanging`, `TypeOK` |

Two renegotiations are what a late answer needs; three sections let a late answer
differ from the current offer or agree with it although a track was replaced; two
frames under way let a message that broke off be followed by another's first chunk,
and a small message come between two chunks when the channel has drained. Two
mishaps let a loss meet a respawn.

### Disagreements between the code and what is said of it

Four runs are expected to fail; each shows what a comment or the README says and
the code does not keep.

| Run | Shows |
|---|---|
| `lost_quit` | `QuitUnsubscribes`: the close of the last window, drained after Cmd-Q, overwrites the exit reason, and the host is not told (`README.md` 40, `client/src/mirror_app.rs` 263) |
| `stale_mapping` | `MappingFollows`: a window id that leaves one poll and is back in the next keeps the forwarder's memory, so the new mirror never gets its mapping (`core/src/mapping.rs` 77-80, `host/src/session.rs` 385) |
| `typing_astray` | `TypingLandsRight`: a window is announced before the input sink learns of it; focusing it fails and the keys go to the application focused before (`README.md` 41, `host/src/session.rs` 681) |
| `static_window` | `Recovers`: a keyframe request is served only when a frame is pushed, so a mirror that lost its keyframe gets no picture until its window changes (`client/src/router.rs` 50-52, `host/src/pipeline.rs` 79) |

Others have no run: the properties name them as exceptions, or the model only shows them.
When two size changes of a mirror wait for its event loop together, the echo guard holds
only the later and both bounce to the host as requests (`client/src/mirror_app.rs` 559-577,
"only a genuine client-side drag-resize should round-trip"; `OnlyOverlapsEcho`). A request
that the application refuses, or undoes before a poll, is never answered, and the mirror
keeps a size its window does not have (`Agreed`). A frame's metadata that the forwarder
combines with the size the tracker has before or after it gives a mapping that stays until
the metadata changes again, since `frame_sink` takes unchanged metadata for an unchanged mapping
(`host/src/session.rs` 91-94; `Torn`, excluded by `ClicksLand`). A capture that could not be reconfigured
to a smaller window delivers frames larger than what they show; `mapping_for_frame` takes them for 1:1
("no letterboxing ⇒ frame is 1:1 with the window", `core/src/mapping.rs` 112) and the client's clicks land at the wrong
place until a reconfiguration succeeds (`LargerThanShown`, excluded by `ClicksLand`; a capture left smaller is letterboxed, and covered). A mouse release that reaches the worker
after its window closed is dropped, and the host's button stays down (`host/src/session.rs`
297-306; `ButtonReleased`). A set-up that ends with `?` in the answer or in `AxWatcher::spawn` leaves its
peer, and then its worker, behind, which the comment at `host/src/session.rs` 414-418 calls a leak
on the neighbouring path (`abandoned`; `SessionEnds` leaves those sessions out).
A decoder that cannot be built ends
one thread of the helper and not the process, as a comment has it
(`client/src/bin/srw-mirror-helper.rs` 93-98; the step is `DecoderPanics`). The coordinator's queue is
drained after `Disconnected`, so a `WindowOpened` behind it spawns a second helper
for its application (`client/src/coordinator.rs` 1-2, 712); `HelperOwnership` is
therefore stated for the time before. `shutdown_all` leaves the senders that
routes hold, so a helper with a window sees no end of stream before the
coordinator's process exits (474-476). When the respawn of a crashed helper fails, the application's windows
stay recorded without a helper until its next `WindowOpened` (456-459); `AppLifecycle` allows that, and
`client_progress` leaves failing spawns out. A dead helper's last progress report can
count for its successor (409, against `client/src/net.rs` 125-126), which puts its
keyframe off by the stall interval (`Reported` after `Respawn` in `VideoPath`). A late
answer that fails validation costs the next call its own answer too
(`transport/src/peer.rs` 415); tracks stay unnegotiated until the next change.

### Fairness

*Client.* Weak fairness of a helper's reading and leaving and of the end of the
handler under way (`ManagerFinishes`): these are threads and an event loop that
the operating system schedules. Strong fairness of what the coordinator does with reader and
reaper events: they cannot be handled in the middle of another handler, so they are enabled only
again and again, but its queue is first in, first out, and an event in it is handled after those before it. Nothing is
assumed of the host, the user, the video source, or failures.

*Host.* Weak fairness of the session's task, the watcher's thread and the worker: every
await of the task ends, since the channel's opening, sends, track changes and renegotiation
are bounded by timeouts, and ticks recur. `Settle` waits until the watcher's run loop runs: the
20 ms sleep of the code is taken to be long enough, and the mutant `SettleAtOnce` shows that
without it a session whose peer is lost in the set-up hangs in `AxWatcher::stop`. `select!` without `biased` picks at random among the
ready branches, so an unsubscription that keeps waiting is taken although a tick
may be ready each time: strong fairness of `Unsubscribe`.

*Geometry.* Weak fairness of the reconciler, the forwarder, the helper's event loop and the
input worker; nothing of user, application or frames. `Settles` takes as its hypothesis that
the user and the application leave the window alone.

*Transport and video.* Weak fairness of tasks, threads, timers and the arrival of
what is not lost. Nothing is assumed of the user (a window may stop changing), of
the traffic or of failures; `RecoversWhileChanging` takes the changing of the window
as its hypothesis and no periodic IDR, which may come at any frame or never: the recovery is the
work of the requests.

## 4. What is proved

For every value of the constants, from the named assumptions `DataAssumption`,
`ReplayAssumption`, `ProcessAssumption`, `SessionAssumption` for the client,
`TrackerAssumption`, `ForwarderAssumption`, `HostAssumption` (and `DataAssumption`) for the host,
`RenegotiationAssumption`, `LinkAssumption` for the transport, `GeometryAssumption` and
`VideoAssumption` (which TLC evaluates in the runs). What they say of `None` is that
`Option` is what it is in the code: nothing that a map holds is the absent value.

| Theorem | Says |
|---|---|
| `ClientProofs!TypeCorrect` | `Spec => []TypeOK` |
| `ClientProofs!TablesAgree` | `Spec => []ClientInv` |
| `ClientProofs!OneHelper` | `Spec => []HelperOwnership` |
| `ClientProofs!RoutesFollowHelpers` | `Spec => []RouteOwnership` |
| `ClientProofs!GivingUpIsFinal` | `Spec => StaysGivenUp` (an action property) |
| `ClientLifecycleProofs!ClientImplementsLifecycle` | `Spec => ImplementsLifecycle`: the client refines `AppLifecycle`, for each application |
| `ClientLifecycleProofs!UnsubscribedOnce` | `Spec => []UnsubscribeOnce` |
| `ClientFidelityProofs!WorldsAgree` | `Spec => []FidelityInv` |
| `ClientFidelityProofs!ReplaysAreFaithful` | `Spec => []ReplayFidelity` if `"create" \notin Faults` |
| `ClientFidelityProofs!IconsComeOnce` | `Spec => []IconOnce` |
| `ClientFidelityProofs!VideoFindsMirrors` | `Spec => []NoOrphanFrames` if `"create" \notin Faults` |
| `HostProofs!HostTypeCorrect` | `Spec => []TypeOK` |
| `HostProofs!ClientIsInformed` | `Spec => []ClientInformed` |
| `HostProofs!RuntimesAlwaysAgree` | `Spec => []RuntimesAgree` |
| `HostProofs!SinkAlwaysFollows` | `Spec => []SinkFollows` |
| `HostProofs!DroppedStaysDropped` | `Spec => DroppedForGood` (an action property) |
| `HostProofs!HostKeepsToStream` | `Spec => KeepsToStream` (an action property) |
| `HostProofs!MappingAlwaysFollows` | `Spec => []MappingFollows` if `"reappear" \notin Faults` |
| `HostProofs!ButtonAlwaysReleased` | `Spec => []ButtonReleased` if `"reappear" \notin Faults` |
| `ChunkProofs!ChannelNeverSplices` | `Spec => []NoSplice` for one direction alone, any messages and chunk counts |
| `ChunkProofs!ChannelReassembles` | `Spec => Reassembly` for one direction alone (an action property) |
| `RenegotiationProofs!TypesHold` | `Spec => []TypeOK` |
| `RenegotiationProofs!NeverSpliced` | `Spec => []NoSplice`, in both directions |
| `RenegotiationProofs!MessagesReassembled` | `Spec => Reassembly`, in both directions (an action property) |
| `RenegotiationProofs!EntriesLive` | `Spec => []NoDeadEntry` |
| `RenegotiationProofs!AnswersMatch` | `Spec => AppliedMatches` (an action property) |
| `RenegotiationProofs!AnswersFindCallers` | `Spec => []AnswerFindsCaller` |
| `GeometryProofs!SizesAgree` | `Spec => []Agreed` |
| `GeometryProofs!EchoesOverlap` | `Spec => OnlyOverlapsEcho` (an action property) |
| `GeometryProofs!ClicksAlwaysLand` | `Spec => []ClicksLand` if every sheet wider than a window is a multiple of its width; `LargerThanShown` and `Torn` frames are excluded |
| `VideoProofs!TypesHold` | `Spec => []TypeOK` |
| `VideoProofs!NewestEncoded` | `Spec => []LatestWins` |
| `VideoProofs!RequestsNotLost` | `Spec => []KeyframeKept` |

**The client's inductive invariant.** `HelperOwnership` ("a process not yet reaped is the
one its application's record holds") is not inductive: an exit report resets
`running` by application and not by process, so the step of handling it is safe
only if the record still names the process that exited. That in turn needs that
a spawn happens only when the record is empty (`ProcessesHeld`, both directions),
that a reported process is gone (`ProcessTable`), and that an application that
was never accepted or was given up holds neither helper nor windows
(`Stations`), since otherwise an exit report could revive it. Routes are
cleared through the recorded windows, so `RouteOwnership` needs the indexes to
name exactly those (`WindowTables`, `WindowsRouted`). `ClientInv` is the
conjunction; the part about processes is promised only while the session is up:
after `Disconnected` the code does not keep it. In the middle of a handler the routes of the windows it is
about are behind the tables (`HandlerUnderWay`), which is why `RouteOwnership` leaves those out. The proofs have one lemma per
handler and combine them over `Next`.

**The refinement.** The stage of an application in `AppLifecycle` is a function of its record, its
process and the subscription. A lemma per handler says which stage each application is in
afterwards; the invariant is needed where the code decides by the record what the lifecycle
decides by the process: an exit report of a process that the record does not name, a
respawn while the old process is still there. The host is told in the step in
which the stage becomes final, and by `GivingUpIsFinal` that step does not recur;
`UnsubscribedOnce` adds that a request is taken from the queue in the step in which the host drops the
application, and it counts requests by naming the one there is.

**What the helpers show.** A helper *settles* on the world it has once its queue is drained
(`Settled`). `FidelityInv` says that a running helper settles on the recorded mirrors and,
for mirrors yet to come, on the recorded mappings (`WorldsFollow`), that a routed track has a
mirror there (`RoutedShown`), and that no early frame is left. The steps then fall into four groups:
a helper that takes a frame settles where it settled before; a frame forwarded changes the settled world as
it changes the record (`RecordUpdates` for the updates, one lemma each for opening, closing
and mapping); a fresh helper settles on what its replay rebuilds (`ReplayRebuilds`); the
others touch no helper. Two facts about the tables are needed that `ClientInv` says only up to the end of the
session, or not at all: whom `running` names (`RunningNamed`), and that a window which the host may
open is not recorded (`OpensAnew`), for its helper would ignore the announcement of a window that it shows. A window whose close
is half handled is still recorded although the host may open it again: `Forgotten` counts it as closed.
The second rests on `HostStream`, which says what may be opened.

`Draining` and `ReplayFrom` are recursive functions on numbers, so what a queue does to a world, or
a replay to an empty one, is proved by induction over a *set* of numbers (`SetInduction`,
from the well-foundedness of `<`), which needs no operator as a parameter. `IdBound` bounds the window
identifiers, as the 32 bits of the code do; `ReplayFrom` counts up to it.

`ReplayFidelity` and `NoOrphanFrames` are false if the toolkit may refuse to create a window: the helper
drops the announcement and goes on, so its record has no mirror and its video waits for
none. Their theorems assume that it does not; `IconsComeOnce` holds in any case.

**The host's inductive invariant.** The properties of the host speak of the time between two
passes, when every event of a diff has been handled. `HostInv` says what holds in the middle of
one: each event that is due says what the tracker knows already, and can be said after what the
client was told (`EventFits`); what the tracker knows and what the client was told differ by exactly the due events,
attribute by attribute (`ToldOrDue`, `MirrorFits`); and tracks, keyframe routing and captures
differ from the mirrored windows only for the window that is being opened or closed
(`RuntimeFits`, `Phases`). Since the events are a set that shrinks by one a step, no
induction over the data of a poll is needed: `Reconcile` establishes the invariant from two
arbitrary maps, window by window, and each event step gives back one event's worth. The order of
`Foremost` is needed for windows with several events: a restore before its catch-up resize, an
opening before its minimizing. `ClientInformed` and `RuntimesAgree` are
`HostInv` with no events due; `KeepsToStream` follows from `EventFits`, whose clauses
about what was told are `HostStream`'s guards.

`SinkFollows` needs only `SinkInv`: the last map on its way to the sink, or else the one it has,
names what the tracker knew when the last pass ended.

`MappingFollows` and `ButtonReleased` are false if a window id may leave the polls and come back (the first by the
run `stale_mapping`; for the second the release that the worker drops would be forgotten
when the window is tracked again). Their theorems therefore assume that ids do not come back. Under
that assumption a window that was never tracked is untouched: nothing of it is anywhere (`SeenInv`). `MappingInv` says that for
a captured window the client's mapping, the message being sent, the entry `last_sent` and the
metadata waiting chain up to the last frame's mapping, identity standing in for a message never sent;
`ButtonInv` says that the presses and releases waiting at the worker end as the user's button
is, and that a held button is released by one of them unless its window is gone.

**The transport's inductive invariant.** `NoSplice` speaks of the frame that is
about to arrive; it holds because of all the frames behind it. `LinkInv` says that
the assembler holds a prefix of one message, and that every chunk on the wire but a
first one, and the chunk the sender comes to next, has its predecessor before it,
on the wire or as the last part held, with only small messages in between. A
message that breaks off is followed by another's first chunk, which needs no predecessor, so
the sequence gap in `push` drops the torn one; that is the case the mutant
`HeldAnyway` breaks. `Renegotiation` uses two channels: one lemma
(`ChannelSteps`) shows that each of its steps is a step of either channel or
leaves it alone, so the channel's theorem carries over.

`Reassembly` speaks of what the assembler will yield from all the frames on the wire (`Due`).
The proof follows the assembler along the wire: after each frame it holds what the next chunk
follows (`Fits`, kept by `PushFits`), so `Due` is the sequence of the messages whose last frames are
under way (`Counted`), and a step changes that by the frame it adds or takes away. The wire has any length,
so this is an induction over the positions on it, in the form of `SetInduction`.

A late answer does no harm because it can only be the same or behind: media
sections are never taken back, so the offers on the wire never decrease and lie between
what the client accepted and the current offer (`OffersInOrder`), and no answer
anywhere is ahead of what the client accepted (`AnswersBehind`). An answer with
as many sections as the current offer therefore finds the client there.
`NoDeadEntry` needs that the queue is empty once a call has its answer
(`OneEntry`), since applying an answer takes nothing out of it. `RenegotiationInv`
is the conjunction, with one lemma per part.

`AnswerFindsCaller` says that offer or answer are under way, which is not inductive: a first chunk
may be under way whose last one never comes. `CallerInv` asks for the frame that *completes* one
of them (`ToCome`), in the channel or still with its sender; a channel hands over the message in the step
in which that frame arrives, which is where `NoSplice` is needed again. It also says that no other
description is under way (`CallAlone`), or the answer might be another call's, and that the
call's entry stays in the queue until it is answered (`CallUnderWay`).

**The size sync's inductive invariant.** `Agreed` speaks only of the moment at which nothing
is under way; `SyncInv` follows the size through everything that may be. The mirror has
the size of the last of its events that wait, or the guard's if none does
(`EventsCurrent`); the last message under way to the client carries the tracker's size
(`KnownTold`); and once no such message is left, a guard that differs from the tracker's size
is a request, the last one under way or the last one applied (`GuardExplained`). At
rest the three chain mirror to guard to tracker to window. The echo needs two more facts about the waiting
events: one behind another is marked so (`FollowersMarked`), and a lone one that the host
caused has the guard's size (`LoneGuarded`), so that a step that sends a request
for it contradicts the guard's test.

`ClicksLand` adds to this that the metadata that waits last is the one `frame_sink` passed on last, and that
once none waits the client has the mapping it gives with the size that the tracker had then (`MappingInv` in `GeometryProofs`).
At rest the mirror has the window's width (`Agreed`) and the rest is arithmetic (`MappingInverts`): a frame that shows all there is
to show has the window's width or is excluded, and a letterboxed one, of whatever width, has the scale of the union to the window. Its theorem assumes that
sizes divide evenly since the model counts in whole numbers where the code has floating point.

**The video path.** `LatestWins` is inductive together with what the slot and the thread
hold: nothing old waits in the slot, and with nothing waiting the thread holds nothing
old (`Freshest`). `KeyframeKept` is inductive as it stands, because an encoder that
fails keeps `intra` and a request that comes during an encode sets `idr`, which that encode no longer touches.

**Only model-checked.** All liveness, which is beyond these provers. The client's `TypeOK` leaves the queues `down`
and the worlds to `FramesTyped`, a part of `FidelityInv`.

## 5. Not modelled

The HTTP exchange of an offer and its answer and the client's side of connecting (library calls
without state of their own); the framing of the helper's pipe (`client/src/ipc.rs`), a length before
each frame on an ordered socket. Codec and pixel conversion, rounding to even pixels and the
tolerances of the mapping, bundle files, Dock and capture calls are data or operating-system
calls without a protocol of their own; the unit tests cover them. A failing `write_pli`, which ends a
track's keyframe requester, is not in `VideoPath`. The end of a session in the middle
of a renegotiation is a timeout in `Renegotiation`. A forwarder that works on torn metadata is in
`MirrorGeometry` only; `HostSession` has one mapping per frame.

## 6. Plan

Done, in this order: frames, helper processes, the manager, the client session,
the lifecycle and its refinement, the client's invariant and proofs; tracker,
forwarder, worker and the host session; video path; chunked channel and
renegotiation, and the proofs about them; geometry and size sync; the seam between the
sessions; set-up and mouse at the host; the proofs about the size sync and the video path;
the proofs about the host, the refinement of the lifecycle, the answer of an undisturbed call and the mapping;
the proofs about what the helpers show and about reassembly.

Next, by importance:

1. The helper's threads one by one, so that a panic of one is seen by the others.
2. The framing of the helper's pipe with partial writes and a bounded frame.
