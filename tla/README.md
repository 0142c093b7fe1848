# Code Rouge in TLA+

Code Rouge is an escape game for a dozen teams in one room: a Node server on a
NUC, an Android tablet per team (*Attaque de Bots*), an Electron PC per team
(*Assaut*) and the game master's tablet (*Débriefing*), all on one local network
and all expected to survive a force-kill in the middle of a game.  This
directory holds models of the parts where that promise is hard to keep, the TLC
configurations that check them, and theorems checked by TLAPS.

Paths below are relative to the repository.

## 1. Inventory

| component | state it keeps | operations | what makes it correct |
|---|---|---|---|
| **Assaut sequence engine** `apps/assaut/.../engine/` | none (pure); a session is phase, current step, choices made, percentage, visited steps | `createSession`, `advance`, `applyChoice`, `restoreSession`, `projectToGameState` | sessions stay coherent over any series of events, jumps and restores; the percentage stays in 0..100 |
| **GM-mediated access loop** `messages.ts`, server, Assaut and Débriefing `sync.ts` | sockets, `wsMeta`, the engine's step, the code shown, each GM's list of submissions | submit, forward to the GMs, rule, relay, apply the verdict; send and show a code | no team passes its entry point without a verdict, none is shown another team's verdict or code, a waiting team is answered |
| **Assaut device** `persistence.ts`, `useAssautSequence.ts`, `main/store.ts`, `main/index.ts` | session and GameState in the renderer, IPC calls in flight, one JSON file | boot, commit, keystroke, serve or fail a write, revert, kill | a relaunch finds at least what had been written, and the two halves of the file agree |
| **Report aggregation** `debriefing/src/sync.ts` | the pending load and its timer, `loading`, the report | load, teams, log replies, timeout, change of address | a report says what it lacks; every load ends |
| **Server handlers** `server-nuc/src/index.ts` | `wsMeta`, connection windows, message counters, reset attempts | one handler per frame type, upgrade, close, `/admin/reset`, start, shutdown | routing by team, limits that do not lock out healthy clients |
| **Server database** `server-nuc/src/db.ts` | `sessions`, `team_state`, `event_log` | guarded upsert, log append, lookups, session wipe | newest state wins; a session is wiped as a whole |
| **Team sync and restore** bots `sync.ts`, server, `reconcile()` | GameState on the tablet, its row on the server | push, hello, restore, reconcile | progress made offline is not lost, a restore never goes backwards |
| **Bots flow** `attaque-de-bots/src/engine/`, `useFlow.ts`, `screens/` | section, cursor, phase, attempts, score, log; the screen on display and the answer on it | `dispatch` (CONTINUE, BACK, ANSWER, RETRY, OPEN_MAIL, SET_VARIANT), `createFlow`, timers | no énigme is skipped or paid twice whatever is tapped twice, caps hold, score and log agree, the answer sent is the one shown |
| **WebSocket client** `shared-utils/src/ws-client.ts` | socket, reconnect timer, attempt count | connect, send, close, back off, disconnect | one live socket at a time, reconnection for ever |
| **Config parsers** `shared-types/src/configs.ts`, `content.ts`, `sequence-config.ts` | none; the content of the last install | `parseParcoursConfig`, `parseMailboxConfig`, `parseAssautSequenceConfig` | what they accept can be played to its end, over whatever an earlier content left on the disk |
| **Admin reset** `/admin/reset`, `debriefing/src/App.tsx` | failures and lockout per address; draft, status, requests in flight | post a code, compare, lock out, sweep, wipe | spraying is bounded, a GM with the right code gets through, the form does not claim a wipe that was not made |
| **Statistics** `debriefing/src/stats` | none | `computeTeamStats`, `computeGlobalStats` | the figures tell the game that was played |
| **Slides, suspects** `debriefing/src/slides`, `suspects.ts` | a list of names in a ref, on screen, on its way to the disk and on it | read at boot, add, remove, build the deck | no tap is lost, the slide is the list, a restart shows it again |
| **User interface, kiosk, design system, tooling** | — | — | — |

How they interact: the applications talk to the server only, by JSON frames on a
WebSocket; the server relays between Assaut and Débriefing and keeps rows in
SQLite.  Inside Assaut the renderer talks to the main process by asynchronous
IPC calls.  Every handler runs to completion in one event loop, so a handler is
one action; what interleaves is handlers of different processes, frames in
flight, IPC calls in flight, timers, kills and restarts.

What is hard to test here: verdicts that arrive late or twice; two GM devices
that hold the same submission; a second tap on a screen the flow has left; device
clocks that disagree; a restore that races the player; frames the server reads from a socket its client
has given up; the two writes of one transition; writes that tear or fail after
the screen has moved on; replies that outlive the request they answer; state
that is only React state; content edited under a game that is stored; a start, a
push or a wipe cut between two statements; a shutdown that finds sockets and
requests under way.  `PROJECT.json` lists each hazard at its line, with
the properties that watch it, or the reason none does yet.

## 2. The modules

| module | models | extends |
|---|---|---|
| `AssautSequence` | the engine of Assaut, as operators over a flow given by constants | |
| `SequenceJson` | the flow shipped in `sequence.json`, and cuts of it | |
| `AccessGate` | **abstract**: submissions, rulings, verdicts heard; nothing about messages | |
| `AccessLoop` | the server, the Assaut applications, the GM devices and their sockets | `AssautSequence` |
| `AssautDevice` | renderer, IPC and file of one Assaut installation | `AssautSequence` |
| `Aggregation` | the report of Débriefing, its socket and the server's tables | |
| `BotsFlow` | the flow reducer of the tablets, as operators over a parcours | |
| `BotsPlay` | a tablet being played: flow, screen on display, answer on it | `BotsFlow` |
| `Statistics` | the figures of Débriefing, as operators over logs | |
| `Slides` | the deck of slides, as operators over those figures and the suspects | `Statistics` |
| `PlayReport` | what the GM is shown of a game | `BotsPlay`, `Statistics`, `Slides` |
| `ParcoursJson` | the shipped `parcours.json` and `mailbox.json` | |
| `TabletSync` | tablets, their storage and sockets, the server's rows and logs | `BotsFlow` |
| `TeamRegister` | **abstract**: per team a report and a journal, and what is afloat | |
| `Reconnect` | the WebSocket client of the three applications, the connection window of the server | |
| `AdminReset` | the form of Débriefing, `/admin/reset`, its lockout and sweep | |
| `ServerLife` | sockets and process of the server: admission, frame budget, close, shutdown | |
| `ParcoursContent` | the tablets' parsers, and `BotsFlow` played over edited contents | instances of `BotsFlow` |
| `SequenceContent` | Assaut's parser, and `AssautSequence` played over edited files | instances of `AssautSequence` |
| `MC...` | instances for TLC, one per module with a specification | the modules above |
| `AssautSequence_proofs`, `AccessLoop_proofs`, `AssautDevice_proofs`, `Bots_proofs` (of `BotsFlow`, `BotsPlay`, `PlayReport` and `TabletSync`), `Aggregation_proofs`, `Reconnect_proofs`, `Server_proofs` (of `AdminReset` and `ServerLife`), `Content_proofs` (of `ParcoursContent` and `SequenceContent`) | theorems | the modules they are about |

### From code to model

**AssautSequence.** `NextStep(s, event)` is the target computed by `advance()`:
the first matching transition, else the next id of the flow *whatever the event
was*; `MoveTo` is `moveTo()`, clamping included; `ButtonEvents(s)` is what
`SequenceRunner` lets a player dispatch on each screen.  What
`parseAssautSequenceConfig` refuses is excluded by `FlowAssumption` and
`ConfigAssumption`.  Two renderings are abstract: a step's `kind` is identified
with the step (one step per access-point kind, as shipped), and the text of a
choice or a response is left out.

**AccessLoop.** A device has a current socket (`open`, `up`, `down`) and a queue
`late` of frames of its dead sockets: a server may read those after the client
is back, until it sees their close event (`ForgetLate`).  `known` says that
`wsMeta` has the current socket, that is, hello was processed.  `Serve` is
`handleAppMessage` for the three frames of the loop.  `step` is the engine's
step, `kept` the step of the blob on disk: `Persist` is the main process serving
`setSession`, and `AssautRestart` resumes `kept`.  `submitted`, `ruled`, `heard`
and `coded` record what happened and exist in no program.  `welcome` and
`restore` are not represented, since both receivers drop them; nor are the
`state` frames Assaut pushes, which carry the team id of its hello, so the
server's routing stays as it was.  A program that dies loses its React state:
the code shown, the GM's list.

**AssautDevice.** `ipc` is the calls received by the main process in order;
`Rewritten` is `writeGameState` / `writeSession`, which read the file back and
replace one half; `FailWrite` is a `writeFileSync` that throws, after which
`Revert` gives the renderer the value that commit had replaced.  `game` is what the
commits read and replace (`getLatest()`), `shown` what React drew last (`Render`):
a keystroke is made in the field as drawn and merged into `game`.  `Kill` takes
both processes with all pending calls; `KillInWrite` leaves text that
`JSON.parse` refuses.  `of` and `blobOf` number the transition a GameState or a
blob belongs to; the program has no such field, the properties need it, as they need
`behind` (a kill lost writes, and no transition was made since) and `crossed` (since
boot, a GameState write failed while another was queued, or a commit was made while the
rejection was on its way back).  A save by the access-code screen is `TypeCode`;
drafts are members of a small set.

**Aggregation.** The log of a team is its length: within a session it only
grows.  `button` is the one drawn last (`Draw`), so a second press before a render
starts a second load.  `socket = "closing"` is the moment between a socket leaving `OPEN` and
`onclose`, when the button is still enabled and `send()` returns false.
`ChangeUrl` is the effect's cleanup; the old socket's frames are dropped with
it (its handlers could otherwise run on a load of the new one: not modelled).
`owed` is what each team had logged when the button was pressed; `moved` and
`wiped` record an address change during the load, a reset or a restart.

**BotsFlow, BotsPlay.** `Dispatch(s, e)` is `dispatch()`; an event it would throw
on leaves the flow as it is, as `useFlow.dispatch` catches.  A flow's log is
that of the code, without times.  `BotsPlay` separates `current` (the ref the
handlers read) from `screen` (the state React last drew): every tap is an event
of `screen` applied to `current`, so a double tap or a timer that races a tap is two
`Tap`s before one `Draw`.  An answer is blank, right or wrong; `value` is the
screen's `useState`, `marks` what the player sees entered.  `Draw` keeps
`value` where React keeps the component and clears `marks` where a `key` changes.

**Statistics, Slides, PlayReport.** Two folds, as the two functions are; a slide is its
id and the figures of its lines, a name a person and how it was typed.  `PlayReport`
reads the log of the tablet `BotsPlay` plays at every moment of its game, in a
session with a team that never answered and one whose log arrived twice, which the
server's order by time lists event by event, each twice (`Twice`).

**TabletSync.** A transition changes `flow` and `game` at once and puts two
writes on `writes`; `Render` hands `game` to the socket's handlers (`shown`) and
pushes a state frame when team, step or score changed; `Flush` completes the
oldest write.  `Receive` reconciles a restore with `shown`, as `sync.ts:85`
does.  `row` is what `upsertTeamState` keeps, with its timestamp guard and
clocks ahead of each other by `Skew`; a hello is answered with the latest row of
the device.  A restarted server starts a new session with empty tables.  `typed`,
`told`, `torn` and the `sent` of a row are history.  Its abstract specification is
`TeamRegister`: `record` and `journal` are the server's `row` and `logs` with what
only the properties need taken off (`Filed`, `Entered`), `afloat` every frame on
a live or dead socket.

**Reconnect.** `insts[c]` is the calls of `createWsClient` a hook has made and
that still have something to do, the last of them its `clientRef`; `shown` is the
state the hook gives to the screens.  A socket is dialling, admitted or refused
by the server with the event still to come, open, dead with `onclose` to come, or
left by `disconnect()`.  Time is ticks: a timer fires when due or later, so the
least delay jitter can give stands for all.  The window is a count and the ticks
left to `resetAt`; whether an expired entry was swept makes no difference.

**AdminReset.** A GM device is its address.  `calls` are the requests in flight,
each with the answer on its way back; a form that gave up still has its request
there (`waiting` false), as an abort does not take back what the server may read.
`drawn` is the draft and status of the last render, which is what the button and
its handler see, so two taps before a render are two requests.  An entry's
`lockedFor` is what is left to `lockedUntil`, and `locked` that it is not 0, which
is what the sweep tests.  A tick is longer than the five seconds of a request.
`age` (when the last failures were) and `wiped` are history.

**ServerLife.** `Upgrade` is separate from `Dial`, as the upgrade request may come
after the signal.  `Message` is the handler's prefix up to `handleAppMessage`,
which only `meta` and the database matter to here.  `Signal` closes idle HTTP
connections, as Node's `http.close()` does, and tells the sockets admitted so far;
`Drained` is its callback, `ForceExit` the unreferenced timer.

**ParcoursContent, SequenceContent.** The content is a variable.  Contents are
small and of every kind: duplicate ids, gotos that lead nowhere, no trap, two
traps; the parsers are the predicates `ParcoursAccepted`, `MailboxAccepted` and
`Accepted`, and the engines are instantiated on what they let through.  `Update`
installs any content in place of any other; what the disk holds was made under an
earlier one.  `Fits` is what `renderView()` takes for granted of a flow; `skewed` says
that the flow in play was resumed from a blob that did not fit.  In `SequenceContent` writes are served in order,
and the next event waits for them: how they overlap and fail is `AssautDevice`.

## 3. Runs

| run | instance | what it shows |
|---|---|---|
| `access` | an installation of a team and one without, one GM, one code, one fault, the entry point, both verdict screens and the choice after them | `GateEarned`, `ValidOnlyIfApproved`, `VerdictsTraced`, `CodeFromGm`; the refinement `GateSpec` |
| `access_liveness` | one installation, one GM, two faults, fairness | `EntryResolved` |
| `device` | 5 transitions, 1 keystroke, 2 kills, 2 writes that throw or are cut | `SessionsCoherent`, `HalvesAgree`, `NoDriftFromDisk`, `CommitsSurvive`, `FinishedStaysFinished` |
| `report_loads` | 2 teams, 2 loads, 3 faults among lost sockets, address changes, resets and restarts | `ListedTeamsReported`, `FirstReportComplete`, `ReportFromLog`, `LoadEnds` |
| `bots_play` | the shipped variant A, `MaxSlips = 4` mistakes | `NoEnigmeSkipped`, `CapRespected`, `ScoreIsLogged`, `LogClosedAtEnd`, `AnswerAsShown`, `Figures` |
| `tablets` | two tablets with one team code, one clock ahead, one fault among kills, lost sockets, resets and restarts | `TeamsTyped`, `RowCurrent`, `ScoreNotPaidTwice`, `LogPushedOnce`; the refinement `RegisterSpec` |
| `reconnect` | two clients, a window of one connection in three ticks, two faults, one change of address | `OneSocket`, `ShownIsCurrent`, `Reconnects` |
| `reset` | one form, a cap of two, four typos, one restart, fairness | `Ceiling`, `SuccessWiped`, `GmGetsThrough` |
| `server_life` | two sockets, one HTTP connection, one client that vanishes | `TwoBudgetsASecond`, `DbUsable`, `ShutdownEnds` |
| `content_edited` | every content of up to two steps and two mails, two updates to any other | `FlowFits`, `StaysFit`, `GameEnds` |
| `sequence_edited` | every file of one preparation and two assault steps, one edit | `StandsOnStep`, `ForwardFlowsEnd` |

`TypeOK` (`PlayTypeOK` in `BotsPlay`, `LifeTypeOK` in `ServerLife`, `FileTypeOK` in `SequenceContent`) is the first conjunct of one invariant of each
module (`SessionsCoherent`, `TeamsTyped`, `CapRespected`, `ReportFromLog`, `TwoBudgetsASecond`, `FlowFits`,
`StandsOnStep`); in `AccessLoop`, `Reconnect` and `AdminReset` it is proved.  Deadlock is
checked except where the system may stop: the end of a game, a budget of faults or
attempts used up.

One run ends in a counterexample, which is a finding of `PROJECT.json`:

| run | what the code does |
|---|---|
| `access_refused_passes` | the engine takes a verdict at any step and moves linearly when no transition matches: refused twice, a team is past the gate |

The other findings of `PROJECT.json` have no run of their own; each was met while
a model was written, and where a property is near it, the property states the exception.

* *Access, device*: an Assaut has no team as shipped (`EntryResolved`), a cut write loses
  the file (`CommitsSurvive`).  A revert overlapped by another commit shows a state the
  disk does not hold: `ShowsWhatIsStored`, which is what `persistence.ts` says of the
  revert, is false, and `NoDriftFromDisk` is it without that case.
* *Report*: an address change leaves the button disabled (`LoadEnds`), a reply of a load
  that timed out ends the next one with other teams missing (`FirstReportComplete` speaks
  of the first).
* *Tablets*: a reconnect pushes no state (`RowCurrent`), a restore may take a step back and
  the score merged by `reconcile()` does not last (`ScoreNotPaidTwice` claims no more), a
  kill may push the log again and a tablet offline on its step into the final screen never
  sends it (`LogPushedOnce` is an upper bound), an answer outlives its widget
  (`AnswerAsShown`), no variant is ever chosen.
* *Contents*: a stored flow of the right shape is resumed on a parcours that has no such
  step.  `SkewFallsBack`, which is what `useFlow.ts` says of such a blob, is false (as an
  invariant of `content_edited.cfg` TLC violates it in six states: a launch, the
  step onto a mailbox, a flush, an update that puts a password there, a launch);
  `FlowFits` is what is left of it, and `StaysFit` says which updates are harmless.
* *Server*: failed reset attempts below the cap never expire, nobody is told of a reset,
  nobody can read the reset code, no ping is ever sent, and a socket upgraded after the
  signal is not told to close, which forces the exit although everybody answers
  (`ShutdownEnds` claims an end, not a clean one).
* *Suspects*: after a failed read the next name added overwrites the list on the disk.

### Bounds

* `MaxInFlight` (frames per direction of a socket) is 1 in the passing runs of
  `AccessLoop` and 2 where a verdict must overtake another.  With one frame per
  queue and several queues, a duplicate submission, a second ruling of the same entry
  and a frame read late after a reconnect all occur, `late` being unbounded by it.
* `MaxFaults` counts dropped sockets, restarts, resets, kills and address
  changes, as the module says.  One fault reaches each recovery path from each
  state; the second hits a recovery in progress.
* In `access` the second installation has no team, as a fresh one has none: it is where
  a frame routed to everybody would show.  Two GM devices, and two teams that both play,
  are several million states each; these cases are left to the theorems, which state every
  property of this run for any number of installations, GM devices, teams and codes.
* The flow of `access_refused_passes` is the shipped one entire.  The passing
  runs cut the screens that only lead to the next one (`GatePrep`, `ShortPrep`);
  the theorems hold for any flow.
* `MCAssautDevice` has a flow of its own: deltas that leave 0..100 at both ends,
  a choice that jumps over the assault, a loop.  Five transitions go round the
  loop or to the end; two kills interrupt a transition and the boot after it.
* Two loads let a reply be a load late; two teams let one answer and the other
  not; three faults empty the tables, lose a socket and move the server.
* `bots_play` is the shipped game, every screen of variant A; four mistakes
  exhaust a cap of three and leave one for another énigme.  Variants differ in
  their steps and their order, and none but A is ever played.
* `MCTabletSync` cuts the parcours to connexion and one énigme without mistakes
  (`MaxMistakes = 0`): it has the four events a push depends on, a team, a step, a
  score and the end.  Only one tablet plays past connexion (`Players`); the other claims
  the same team, which is all it takes to share a row.  Taps on stale screens are the
  business of `BotsPlay`.  One fault reaches every recovery from every state.
* `reset` has a cap of two failures in two ticks: four typos are two lockouts, or one, a
  sweep and another, so that a GM may be locked out again after a lockout.  It has one
  request at a time; with two (the double tap) there are ten times the states, and
  `Ceiling` and `SuccessWiped` are proved for every number of requests, cap and lockout.
* `server_life` has a budget of one frame per connection and `MaxFlood` frames
  between two resets; two sockets let one be admitted late, or vanish, while the
  other answers.
* `content_edited` and `sequence_edited` enumerate contents: two steps are a first
  and a next one, two mails a harmless and a trap, two assault steps and one
  preparation step every pair of ids that can collide and every goto that can
  dangle.  A file is edited once, since what a disk holds after two edits one could
  leave.  A content is updated twice: a flow that did not fit may fit the next content
  again, wherever play has taken it in between.
* `reconnect` has 1 connection in 3 ticks and delays 1, 2, 4 for 10 connections
  in 10 s and 1, 2, 4, ... 30 s: two clients overrun the window as twelve tablets
  overrun the real one, and the longest delay exceeds the window in both.

### Fairness

`FairSpec` of `AccessLoop` separates `SystemFairness`, what the programs do by
themselves (`scheduleReconnect` never gives up; an event loop takes what its
socket received), from `OperatorFairness`: a team that can press « Valider »
again and again does so in the end, a GM rules in the end on an entry that keeps
being listed.  These are strong, as a lost socket disables the button and
restores it.  Nothing forces a fault to stop but `MaxFaults`: a network that
fails for ever is not promised anything.  `FairSpec` of `Aggregation` assumes
only that an armed timer fires: the network and the server owe nothing.
`FairSpec` of `Reconnect` is weak fairness of timers and socket events, of the
arrival of requests, of the passing of time, and of the restart of a stopped
server, which systemd does after a crash or a forced exit (`Restart=on-failure`,
`tools/scripts/install-nuc.sh:157`; after a clean stop an operator does).  `AdminReset` assumes
that time passes, that React renders and a fetch is aborted by its timer; for
`GmGetsThrough` also a GM who presses again with the right code and a network
that lets one of her requests through: strong, as lockouts and lost requests come
between.  `ServerLife` assumes timers and callbacks, and that a client that is
there answers a close frame within the grace period (`Prompt`).
`ParcoursContent` and `SequenceContent` assume a player who goes on, and on the
tablets one who is right in the end.  Nothing is assumed of `AssautDevice`,
`BotsPlay` and `TabletSync`, whose properties are safety.

## 4. Proofs

`AccessLoop_proofs` proves, for **every** set of installations, GM devices,
teams and codes, every bound and every flow satisfying the assumptions:

| theorem | statement |
|---|---|
| `TypeCorrect` | `Spec => []TypeOK` |
| `VerdictsAlwaysTraced` | `Spec => []VerdictsTraced` |
| `CodesAlwaysFromGm` | `Spec => []CodeFromGm` |
| `GateAlwaysEarned` | `Spec => []GateEarned` |
| `ValidAlwaysApproved` | `Spec => []ValidOnlyIfApproved` |
| `LoopImplementsGate` | `Spec => GateSpec`, the refinement of `AccessGate` |

*The argument.*  What a screen shows was a frame first, so none of these is
inductive alone.  `TracedInv` says of each frame in flight, on a live socket or
a dead one, that what it says happened: a submission in `up` is in `submitted`,
a ruling in `ruled`, a verdict on its way down to an installation was ruled for
its team.  The history variables only grow, so a frame stays traced while other
steps are taken (`TracedGrows`); handling one turns its tracing into the
receiver's.  `TypeOK`, `VerdictsTraced` and `CodeFromGm` follow, and the step
simulation of `AccessGate` needs it to know that a ruling was asked for and a
verdict given.

For the gate, `GateInv` adds `KeptEarned`: the blob on disk is past the gate
only if a verdict was heard, or a relaunch could open it.  The engine's part is
in two lemmas on flows, `StaysBeforeGate` (no button event or choice leaves the
steps up to `point-entree`) and `OnlyWayToValide` (the success screen is entered
from `point-entree` only).

*Assumptions.*  `FlowAssumption` and `ConfigAssumption` are what the config
parser checks.  `GateAssumption` is a fact about the shipped `sequence.json`, not
about the code: TLC evaluates it on that flow in every run of `MCAccessLoop`,
and a content editor who breaks it breaks the theorem.  `ActorsAssumption`:
device sets are disjoint, a team id is not null.  `AssautSequence_proofs` holds
the lemmas about the engine's operators (what `find`, `linearNext`, `advance`,
`applyChoice` and the clamp can return).

`Reconnect_proofs` proves, for **every** set of clients, every backoff table,
limit and window, and every number of faults and changes of address:

| theorem | statement |
|---|---|
| `ReconnectTypeCorrect` | `Spec => []TypeOK` |
| `ShownAlwaysCurrent` | `Spec => []ShownIsCurrent` |
| `OneSocketAlways` | `Spec => []OneSocket` |

*The argument.*  `OneSocket` counts the instances in use and is not inductive:
nothing in it keeps a predecessor's socket from opening.  `ClientInv` says what
the predecessors are: in a hook's succession every instance but the last was
disconnected, has no timer and only waits for `onclose` (`LeftBehind`), the last
is not stopped, and `shown` is the last one's state.  So `Connect`, `Open` and
`LoseSocket` can only be steps of the last instance; `onclose` of another one
reports "disconnected" to an instance that is so already, and `setState` drops
it; a request that arrives after `close()` is closed.  The lemmas on successions
(`SuccessionUpdate`, `SuccessionRemove`, `SuccessionMove`,
`SuccessionPointwise`) cover the four ways a step changes the sequence.
`ReconnectAssumption` is all that is assumed.

`Server_proofs` proves of the reset, for **every** set of forms and codes, every cap and
lockout, every number of slots, typos and restarts:

| theorem | statement |
|---|---|
| `ResetTypeCorrect` | `Spec => []TypeOK` |
| `CeilingHolds` | `Spec => []Ceiling` |
| `SuccessIsWiped` | `Spec => []SuccessWiped` |

*The argument.*  `Ceiling` speaks of times and the code of a counter, so the
invariant ties them.  `CountBounds` says of an address without an entry that none
of its failures is recent; with a count below the cap, that at most as many are
as it counts; and with an entry that is or was locked, that each failure is at
least as old as the lockout has run (`age + lockedFor >= Lockout`).  A failure is
compared only when `lockedFor` is 0, and so always finds the oldest place of the
window free; a sweep removes only entries whose lockout is over, and not those
that still count, which is where the test `lockedUntil > 0` of the code matters.

`SuccessWiped` is about what a form shows, which an answer brought.
`GrantsWiped` says of every request still awaited whose answer is 200 that its
form was wiped for since it last awaited nothing; a request given up is no longer
awaited, so its late answer is not shown.

It also proves of the sockets and the process, for **every** budget, interval, grace period and
number of connections and requests:

| theorem | statement |
|---|---|
| `TwoBudgetsAlways` | `Spec => []TwoBudgetsASecond` |
| `DbAlwaysUsable` | `Spec => []DbUsable` |

*The argument.*  The property speaks of times, the server keeps a counter and an
interval.  `BudgetBounds` says that of the frames parsed only those the counter
counts are later than the last run of the interval, and that a budget further
back they are from before the run before it, which is a second; a frame dropped
is never compared.  `DbInv`: until the process has exited the database is open.
`LifeAssumption` (positive budget and second) is all that is assumed.

`Aggregation_proofs` proves, for **every** finite set of teams and every number
of loads, events and faults:

| theorem | statement |
|---|---|
| `ListedAlwaysReported` | `Spec => []ListedTeamsReported` |
| `ReportAlwaysFromLog` | `Spec => []ReportFromLog` |
| `FirstAlwaysComplete` | `Spec => []FirstReportComplete` |

*The argument.*  A reply carries no mark of the load that asked for it.  The
first theorem keeps, along a load, that the teams listed are those answered and
those still expected, until the report is made of both.  The second says of every
log collected or on its way that the server held at least as much for that team.
The third holds of a first load only (`FirstInv`): every frame in flight is then
of that load, which either has asked for the list and expects nothing yet
(`Asking`), or has it (`Collecting`), and then each team that logged something
when the button was pressed is expected still, or answered with at least as much.

`Bots_proofs` proves of a tablet being played, for **every** parcours, kinds,
points, caps and mails that satisfy `ParcoursAssumption`, and any number of mistakes:

| theorem | statement |
|---|---|
| `PlaysStayPlays` | `PlaySpec => []PlayInv` |
| `EnigmesNotSkipped` | `PlaySpec => []NoEnigmeSkipped` |
| `AttemptsCapped` | `PlaySpec => []CapRespected`, with `PlayTypeOK` |
| `ScoreFollowsLog` | `PlaySpec => []ScoreIsLogged` |
| `LogClosedOnce` | `PlaySpec => []LogClosedAtEnd` |
| `AnswersAreShown` | `TwinsApart` implies `PlaySpec => []AnswerAsShown` |

*The argument.*  None of the four properties of the log is inductive: what keeps a
step from paying twice is not in the log but in the phase the reducer is in.  `Plays`
is the set of flows play can make: a step not yet reached has no event, the present
one has as many errors as `attempts` says, fewer than its cap where it can still be
answered, and one solve exactly when its phase is "success", one left behind was
solved or used up, and the log is closed exactly in the epilogue.  `Dispatch`
takes a play to a play (`DispatchPlays`) whatever screen its event comes from, with
one exception: the reducer takes RETRY on any error, and one whose attempts are used
up could then be answered once more.  Only the screen withholds the button, and a
screen may be old; so `PlayInv` adds `RetryLag`: a screen that offers « Recommencer »
is that of the flow itself, or of the flow just before it was tapped.
The score is a sum over a set of steps, which the community modules define by a fold:
`Worth` of a set with one more step is proved once from the definition of
the fold, by the least size of a set for which it would fail (`SmallestMember`)
in place of an induction.

`AnswerAsShown` needs what a screen may miss: between two drawings the flow may
go on, but only by what the screen's own buttons dispatch.  `Follows` says how far:
the flow is on the screen's step or ahead of it with no énigme between, and an énigme it
stands on ahead of the screen is one not answered yet (`AheadOf`).  So a body that
keeps its state is that of the same step, or of the next énigme, of the same kind.
`TwinsApart` excludes the latter for the kinds whose screen has no field;
without it the property is false, as TLC showed with two neighbouring énigmes of kind
"reseau": taps that outrun the drawing bring the second saisie into the component of the
first, which keeps its `useState` under a widget drawn blank.  `parseParcoursConfig`
accepts such a content.  The shipped content has none, which TLC evaluates in every
run of `MCBotsPlay` (`ShippedTwinsApart`); an editor of `parcours.json` who
breaks it breaks the theorem.

It proves of what Débriefing reports of such a game, again for **every** parcours, points
and caps:

| theorem | statement |
|---|---|
| `TriesStayTold` | `PlaySpec => []ReportInv`, with `AttemptsTold` |
| `ReportTellsGame` | `PlaySpec => []Figures` |

*The argument.*  The statistics are folds over logs of any length, and `FoldLeft` takes
an operator, which no lemma can quantify over.  So `Fold` is the fold of a *function* of
an accumulator and an element, and each fold of the code is shown equal to one
(`Counting`, `Summing`, `Tallying`, `Gathering`, `Hardening`, `Adding` and so on) from the
definition of the community modules' fold.  What a fold does is then a fact about a set of
sequences: one that has the empty sequence, and each of its sequences with one more
element, has all (`AllSequences`, by a shortest sequence it would lack, in place of the
induction theorems, which take an operator as well).

`Tells` says what a team's figures say of a log, and holds of **any** log (`StatsTell`),
played or not: an end and its points, a mistake counted once whether it was an answer
or a click, errors and solution of each énigme.  That points and mistakes are those of
the game is then a fact about plays.  The tries are not: the code takes them from
the `attempts` of the events (a solve's, or the highest of the errors'), which in an
arbitrary log may be anything.  `AttemptsTold` says they are the wrong answers and the right one; it is kept by
each event because the reducer numbers its answers by the very count the phase carries
(`Plays`), and an énigme left is not answered again.  TLC checks it as part of
`Figures`.

The session is the three teams of `PlayReport`: `Doubled` has twice the errors and the
same points as `Player`.  The tallies by step keep each step once and add
up (`Sums`), so the hardest énigme is one with the most errors of the session (`Picks`).
Of the suspects, that a second pass changes nothing (`NeatStays`) and that each person is
there once, trimmed, in order of first appearance (`ListsNormal`) holds for lists of any
length, of which `SuspectsOnce` states those of up to three.  `ReportAssumption`
(no record is the null value) is all that is assumed beyond the parcours.

It also proves, for **every** set of tablets and teams, parcours, skew of clocks,
length of queues and number of faults:

| theorem | statement |
|---|---|
| `TeamsAlwaysTyped` | `Spec => []TeamsTyped`, with `TypeOK` |
| `RegisterImplemented` | `Spec => RegisterSpec`, the refinement of `TeamRegister` |
| `RowAlwaysCurrent` | `Spec => []RowCurrent` |
| `ScoreNeverPaidTwice` | `Spec => []ScoreNotPaidTwice` |
| `LogOncePushed` | `Spec => []LogPushedOnce` |

*The argument.*  A frame keeps the team it was made for wherever it waits.  So
the teams entered on a tablet bound what it remembers, what it has still to
write, what is on its disk, in either direction of its socket and in the queues
of its dead sockets (`TabletOK`), and what the server holds was filed by a tablet
on which the team was entered (`ServerOK`); a hello is first on its socket
(`QueueOK`), or a state could be filed before the server knows who speaks.  The
refinement maps what is in flight or late to what is afloat: a step of play makes
reports, a socket that opens, drops or is forgotten loses some, a frame read files
the report it carries or loses it to a later one, a reset or restart wipes.
For `RowCurrent`, `NewestPush` says of a tablet that pushed since it connected that
no frame it has under way and no row it filed is dated later than its newest push,
that whatever has that date shows what the tablet shows, and that the push is still
on the socket or is the row.  Frames of dead sockets and a clock ahead of the others
are harmless then: a late frame is older than the row, and nobody else files under
the team (`SoleTypist`), without which it would be false.

`ScoreNotPaidTwice` compares a score with what the parcours is worth, whatever came
back in a restore.  The invariant says of every place a score can wait (a frame, a
write, the disk, a row) that it is one a parcours can pay, and of every flow, in memory or
stored, that it is one of `Plays`, whose score is by `ScoreIsLogged` the worth of
steps of its own variant.  Projection replaces the score by the flow's and
`reconcile()` takes the larger of two, so neither leaves the range.

`LogPushedOnce` is about a log pushed by the step into the end, and a relaunch that
finds the game over or not.  `OnceInv` says of a tablet that lost no write: what
its disk and the writes still to come leave as its flow is the flow it has in memory
(`FlowKept`), so a relaunch after all of them finds the end again and does not make the
step a second time; a tablet on which no flow was hydrated yet has none to write
(`Asleep`); and at most one place holds a push, in which case the flow that is kept is a
finished one (`OneLog`).  A frame that is read, late or lost moves the push or
removes it.  TLC checked `OnceInv` on the instance of `tablets`, and it fails
without the exception of a torn tablet, which is the finding above.

*Assumptions.*  `ParcoursAssumption` and `SyncAssumption` are what the parsers and the
types of the clocks guarantee: variants are finitely many, as they are listed in a
file, with ids the parser keeps apart, and "no flow stored" is no flow.  One part is a
fact of the shipped content which `parseParcoursConfig` does not check: no step id
occurs twice within a variant.

`AssautDevice_proofs` proves, for **every** flow the parser accepts and every
number of transitions, keystrokes, kills and failures:

| theorem | statement |
|---|---|
| `SessionsAlwaysCoherent` | `Spec => []SessionsCoherent`, with `TypeOK` |
| `HalvesAlwaysAgree` | `Spec => []HalvesAgree` |
| `CommitsAlwaysSurvive` | `Spec => CommitsSurvive` |
| `NeverDriftsFromDisk` | `Spec => []NoDriftFromDisk` |
| `FinishedAlwaysStaysFinished` | `Spec => FinishedStaysFinished` |

*The argument.*  The engine makes coherent sessions of coherent ones (`Good`,
`MoveToGood`, `ApplyChoiceGood`), and every session in memory, in the queue or on
disk was made by it (`WellTyped`).  The other properties compare memory and disk,
and commits overlap, so their invariants are about the queue between them.

For `HalvesAgree` and `CommitsSurvive`, which are of disks no write failed on, `InOrder`
says: blobs are queued in the order of their transitions (`BlobsInOrder`), a GameState
only behind the blob of its transition (`GamesBehindBlobs`), the last GameState sent, or
the one stored when none is, is the one committed (`ShownIsLast`), and the last blob
sent or stored is of that GameState's transition unless a kill lost writes (`Halves`).
One failure leaves a gap in that order.

For `NoDriftFromDisk`, under any failures, `DriftInv` says instead that each GameState in
the queue was committed on top of the one before it, down to the one stored (`Chained`,
`Knows`, `WrittenBefore`); so the first to fail carries the one stored, and while nothing
else is queued the revert restores it (`GoingBack`).  A commit that overlaps the
rejection is where this ends, and with it the property.  `FinishedInv` needs neither: a
finished session in the queue or on disk is the one in memory, since the engine
refuses to advance it.  `DeviceAssumption` says that a torn file is no file.

`Content_proofs` proves, for **every** set of files and contents, sound or not, that have
the shape the schemas ask for, and any number of edits, updates, starts and kills:

| theorem | statement |
|---|---|
| `AlwaysOnStep` | `FileSpec => []StandsOnStep`, with `FileTypeOK` |
| `FlowAlwaysFits` | `Spec => []FlowFits`, with `TypeOK` |
| `AlwaysStaysFit` | `Spec => StaysFit` |

*The argument.*  In Assaut the session and the GameState on disk may name steps of any
version of the file, and neither is tied to the other.  So the invariant asks little
of the disk, that what is stored or queued is of the shape the engine writes, and the
theorem rests on what a start does with it: a session is resumed only if its step is in the
file just parsed, else the GameState's step is, else the first (`InitialSession`).
From there a step leads to a step of the file or to the end: `parseAssautSequenceConfig`
resolves the gotos, and `linearNext()` stays in the flow (`ListsOfStep`, `NextInFile`).

On a tablet a stored flow is taken as it is.  The invariant (`ContentInv`) says of a flow in
play that it is on a node of the installed content and in a phase of that node
(`OnNode`) unless it is skewed, and that it fits whenever the stored one does, so that a
later flush does not undo what `StaysFit` promises.  Each event the screen offers keeps
a flow on a node (`Keeps`, `ContinueFits` and its like); an update that only adds keeps
the steps a flow was on and the mails it may have open where they were (`AddedFits`).
The mail shown
is the one tapped because the parser refuses two mails of one id (`TapShows`).
`FilesAssumption` and `ContentAssumption` ask that lists are lists, deltas are within
their bounds and only preparation steps have choices, and that "none" is none of the
values it stands beside.

*Model-checked only.*  `EntryResolved`, `LoadEnds`, `Reconnects`,
`GmGetsThrough`, `ShutdownEnds`, `GameEnds` and `ForwardFlowsEnd`, since liveness
under fairness (and `ENABLED`) is beyond the prover.  Every safety property of a run
is stated by a theorem.
No module declares a `RECURSIVE` operator,
so that theorems can be stated about all of them.

## 5. Plan

Built so far, in this order: the engine and the access loop, the Assaut device,
the report, the tablets' flow and sync, the reconnecting client, the statistics;
then the reset, the life of the server, the contents, the deck of slides, the
abstract specification of the sync, and the proofs of every module with actors, the
play of a tablet, the whole of its sync and the edited contents included.

What is left: the state frames of Assaut and Débriefing, which the same server
handlers store.

## 6. Not modelled

* Zod validation of single fields, in particular an empty entry point, which the
  server's parser refuses.
* The contents of `/health` and `/diag`, which only read; in `ServerLife` they are
  requests that keep a connection.
* `parseGameVariantConfig`, which no application calls; the frames `cmd`, `ping` and
  `pong`, which nothing sends.
* Double presses within one render of Assaut: a handler reads refs, and each
  press is one action, so they are two presses.
* The reverts of several failed writes in flight are in `AssautDevice`, but
  agreement of screen and disk is not claimed for them: `commitGameState` keeps one
  previous value per call, and two failures leave the screen on a value the disk
  never had.
* A kill between a transition's two writes leaves the GameState one transition
  behind the blob until the next commit, and so what the server is told of the
  team: of `HalvesAgree` only the
  direction that the blob is not the older one holds then.
* A failing AsyncStorage write of a tablet; the deviceId, which is on disk before
  the first frame, so that a tablet stands for its deviceId.
* `onopen` of a socket that React Native delivers after `close()`: the WebSocket
  interface does not, and `Reconnect` follows the interface.
* The text of the slides and their HTML export, layout, media, timers' display,
  kiosk calls, logging, build scripts.
* The list of suspects a device of Débriefing keeps and edits before the deck is
  built (`Slides` takes the list as given); migrations, pragmas and transactions
  of the database, whose tables the models hold as functions.
