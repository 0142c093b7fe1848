----------------------------- MODULE TabletSync -----------------------------
(***************************************************************************)
(* The tablets of Attaque de Bots and the server that keeps their progress. *)
(* A tablet holds the flow, the GameState projected from it and the          *)
(* GameState React last rendered, which is what its socket reads; it writes  *)
(* flow and GameState to AsyncStorage, pushes a state frame after a render   *)
(* that changed team, step or score, and its log on the step into the final  *)
(* screen.  The server keeps one row per team and the log; a hello is        *)
(* answered with the latest row of that device, which the tablet reconciles. *)
(*                                                                          *)
(* Covered: kills with writes pending, sockets that drop while frames are on *)
(* their way, frames of a dead socket read late, restores that race the      *)
(* player, reset and restart of the server, device clocks that disagree.     *)
(*                                                                          *)
(* A deviceId is on disk before the first frame (useGameState awaits that    *)
(* write), so a tablet stands for its deviceId.                              *)
(***************************************************************************)
EXTENDS BotsFlow

CONSTANTS
    Tablets, Teams,
    NoTeam,       \* teamId null
    NoFlow,       \* no blob; in memory, not hydrated yet
    NoRow,
    Skew,         \* tablet -> how far its clock is ahead
    Players,      \* bound: the tablets that go past connexion
    MaxMistakes,  \* bound: wrong answers of a tablet
    MaxPending,   \* bound: writes a tablet has pending
    MaxInFlight,  \* bound: frames on their way to the server on one socket
    MaxFaults     \* bound: force-kills, dropped sockets, resets and restarts of the server

Steps == StepIds \cup {Prologue[i] : i \in DOMAIN Prologue} \cup {"init", "fin"}

DefaultGame == [team |-> NoTeam, step |-> "init", score |-> 0]

Games == [team : Teams \cup {NoTeam}, step : Steps, score : Nat]
Rows == [device : Tablets, step : Steps, score : Nat, time : Nat, sent : Nat]
Restores == [team : Teams, step : Steps, score : Nat]

ASSUME SyncAssumption ==
    /\ NoTeam \notin Teams /\ NoRow \notin Rows /\ NoFlow \notin FlowStates
    /\ Skew \in [Tablets -> Nat]
    /\ Players \subseteq Tablets
    /\ MaxMistakes \in Nat /\ MaxPending \in Nat /\ MaxInFlight \in Nat
    /\ MaxFaults \in Nat

VARIABLES
    (* a tablet *)
    running, flow, game,
    shown,     \* the GameState of the last render: stateRef of useServerSync
    writes,    \* AsyncStorage writes not yet done
    disk,
    (* its socket *)
    open,
    up, down,  \* frames on their way
    late,      \* frames of dead sockets the server may still read
    (* the server *)
    row,       \* team_state of the session: team -> row
    log,       \* event_log of the session: team -> pushes
    now,
    (* what happened so far *)
    typed,     \* teams entered on a tablet
    told,      \* whether a state frame went out on the present socket, for this session
    torn,      \* whether a kill lost writes of a tablet
    faults

device == <<running, flow, game, shown, writes, disk>>
socket == <<open, up, down, late>>
server == <<row, log>>
ghosts == <<typed, told, torn, faults>>
vars == <<device, socket, server, now, ghosts>>

TypeOK ==
    /\ running \in [Tablets -> BOOLEAN] /\ open \in [Tablets -> BOOLEAN]
    /\ flow \in [Tablets -> FlowStates \cup {NoFlow}]
    /\ game \in [Tablets -> Games] /\ shown \in [Tablets -> Games]
    /\ \A d \in Tablets :
          /\ disk[d].game \in Games /\ disk[d].flow \in FlowStates \cup {NoFlow}
          /\ \A i \in DOMAIN writes[d] : writes[d][i].key \in {"game", "flow"}
          /\ down[d] \in Seq(Restores)
          /\ \A i \in DOMAIN up[d] : up[d][i].type \in {"hello", "state", "log"}
          /\ \A i \in DOMAIN late[d] : late[d][i].team \in Teams
          /\ open[d] => running[d]
          /\ ~open[d] => up[d] = <<>> /\ down[d] = <<>>
          /\ ~running[d] => writes[d] = <<>>
    /\ row \in [Teams -> Rows \cup {NoRow}]
    /\ \A t \in Teams : \A i \in DOMAIN log[t] : log[t][i].events \in Seq(Events)
    /\ typed \in [Tablets -> SUBSET Teams]
    /\ told \in [Tablets -> BOOLEAN] /\ torn \in [Tablets -> BOOLEAN]
    /\ now \in Nat /\ faults \in Nat

Init ==
    /\ running = [d \in Tablets |-> FALSE] /\ open = [d \in Tablets |-> FALSE]
    /\ flow = [d \in Tablets |-> NoFlow]
    /\ game = [d \in Tablets |-> DefaultGame] /\ shown = game
    /\ writes = [d \in Tablets |-> <<>>]
    /\ disk = [d \in Tablets |-> [game |-> DefaultGame, flow |-> NoFlow]]
    /\ up = writes /\ down = writes /\ late = writes
    /\ row = [t \in Teams |-> NoRow] /\ log = [t \in Teams |-> <<>>]
    /\ typed = [d \in Tablets |-> {}] /\ told = running /\ torn = running
    /\ now = 0 /\ faults = 0

-----------------------------------------------------------------------------
(***************************************************************************)
(* Boot: the GameState, then the flow.                                      *)
(***************************************************************************)
Launch(d) ==
    /\ ~running[d]
    /\ running' = [running EXCEPT ![d] = TRUE]
    /\ game' = [game EXCEPT ![d] = disk[d].game]
    /\ shown' = [shown EXCEPT ![d] = disk[d].game]
    /\ UNCHANGED <<flow, writes, disk, socket, server, now, ghosts>>

\* Variant (mistake): a finished game is taken for no game.
HydratedUnlessComplete(blob) ==
    IF blob = NoFlow THEN CreateFlow ELSE IF IsComplete(blob) THEN CreateFlow ELSE blob

Hydrated(blob) == IF blob = NoFlow THEN CreateFlow ELSE blob

Hydrate(d) ==
    /\ running[d] /\ flow[d] = NoFlow
    /\ flow' = [flow EXCEPT ![d] = Hydrated(disk[d].flow)]
    /\ UNCHANGED <<running, game, shown, writes, disk, socket, server, now, ghosts>>

-----------------------------------------------------------------------------
(***************************************************************************)
(* Play: useFlow.dispatch and submitTeam.                                   *)
(***************************************************************************)
GameWrite(value) == [key |-> "game", value |-> value]
FlowWrite(value) == [key |-> "flow", value |-> value]

\* Variant (mistake): the projection adds to the score it was given.
ProjectedAdding(next, base) ==
    [base EXCEPT !.step = NodeId(next), !.score = @ + next.score]

Projected(next, base) == [base EXCEPT !.step = NodeId(next), !.score = next.score]

PlayEvents(s) ==
    ScreenEvents(s) \cup IF s.phase = "saisie" THEN {Answer(i) : i \in Inputs} ELSE {}

\* A frame for a closed socket is dropped (ws-client.ts).
Sent(d, frame) == IF open[d] THEN [up EXCEPT ![d] = Append(@, frame)] ELSE up

LogFrame(d, events) == [type |-> "log", team |-> shown[d].team, device |-> d, events |-> events]

\* The player answers a screen that React has drawn; taps on a screen already left
\* are BotsPlay's.
OnScreen(d) == running[d] /\ flow[d] # NoFlow /\ shown[d] = game[d]

Play(d) ==
    /\ OnScreen(d) /\ d \in Players
    /\ \E e \in PlayEvents(flow[d]) :
          LET next == Dispatch(flow[d], e)
              ended == IsComplete(next) /\ ~IsComplete(flow[d])
          IN  /\ next # flow[d] /\ Mistakes(next) <= MaxMistakes
              /\ flow' = [flow EXCEPT ![d] = next]
              /\ game' = [game EXCEPT ![d] = Projected(next, @)]
              /\ writes' = [writes EXCEPT ![d] =
                               @ \o <<FlowWrite(next), GameWrite(game'[d])>>]
              /\ Len(writes'[d]) <= MaxPending
              /\ up' = IF ended /\ shown[d].team # NoTeam
                       THEN Sent(d, LogFrame(d, next.log)) ELSE up
    /\ UNCHANGED <<running, shown, disk, open, down, late, server, now, ghosts>>

\* The team is committed first, then the flow moves on and is projected over it.
SubmitTeam(d) ==
    /\ OnScreen(d)
    /\ OnConnexion(flow[d])
    /\ \E t \in Teams :
          LET named == [game[d] EXCEPT !.team = t]
              next == Dispatch(flow[d], Continue)
          IN  /\ flow' = [flow EXCEPT ![d] = next]
              /\ game' = [game EXCEPT ![d] = Projected(next, named)]
              /\ writes' = [writes EXCEPT ![d] =
                     @ \o <<GameWrite(named), FlowWrite(next), GameWrite(game'[d])>>]
              /\ Len(writes'[d]) <= MaxPending
              /\ typed' = [typed EXCEPT ![d] = @ \cup {t}]
    /\ UNCHANGED <<running, shown, disk, socket, server, now, told, torn, faults>>

StateFrame(d, g, time) ==
    [type |-> "state", device |-> d, team |-> g.team, step |-> g.step, score |-> g.score,
     time |-> time + Skew[d], sent |-> time]

\* Variant (mistake): the effect lists the step and not the score.
PushDueOnStep(old, new) == new.team # NoTeam /\ (new.team # old.team \/ new.step # old.step)

\* What the effect of App.tsx depends on; a GameState has nothing else that changes.
PushDue(old, new) == new.team # NoTeam /\ new # old

\* React renders the latest GameState, then runs the effect that pushes it.
Render(d) ==
    /\ running[d] /\ shown[d] # game[d]
    /\ shown' = [shown EXCEPT ![d] = game[d]]
    /\ Len(up[d]) < MaxInFlight
    /\ IF PushDue(shown[d], game[d])
       THEN /\ now' = now + 1
            /\ up' = Sent(d, StateFrame(d, game[d], now + 1))
            /\ told' = [told EXCEPT ![d] = open[d]]
       ELSE UNCHANGED <<now, up, told>>
    /\ UNCHANGED <<running, flow, game, writes, disk, open, down, late, server,
                   typed, torn, faults>>

Flush(d) ==
    /\ writes[d] # <<>>
    /\ disk' = [disk EXCEPT ![d] = IF Head(writes[d]).key = "game"
                                   THEN [@ EXCEPT !.game = Head(writes[d]).value]
                                   ELSE [@ EXCEPT !.flow = Head(writes[d]).value]]
    /\ writes' = [writes EXCEPT ![d] = Tail(@)]
    /\ UNCHANGED <<running, flow, game, shown, socket, server, now, ghosts>>

-----------------------------------------------------------------------------
(***************************************************************************)
(* The socket of a tablet.                                                  *)
(***************************************************************************)
\* onOpen: hello first; nothing else is sent for it.  A connection takes longer than a
\* render; what arrives on it may still overtake one.
Connect(d) ==
    /\ running[d] /\ ~open[d] /\ shown[d] = game[d]
    /\ open' = [open EXCEPT ![d] = TRUE]
    /\ up' = [up EXCEPT ![d] = <<[type |-> "hello"]>>]
    /\ now' = now + 1
    /\ UNCHANGED <<device, down, late, server, ghosts>>

\* What the server may still read of a socket that is gone; hello comes first.
Unread(d) ==
    IF up[d] # <<>> /\ Head(up[d]).type = "hello" THEN Tail(up[d]) ELSE up[d]

Lose(d) ==
    /\ open' = [open EXCEPT ![d] = FALSE]
    /\ late' = [late EXCEPT ![d] = @ \o Unread(d)]
    /\ up' = [up EXCEPT ![d] = <<>>] /\ down' = [down EXCEPT ![d] = <<>>]
    /\ told' = [told EXCEPT ![d] = FALSE]

Drop(d) ==
    /\ open[d] /\ faults < MaxFaults
    /\ faults' = faults + 1
    /\ Lose(d)
    /\ UNCHANGED <<device, server, now, typed, torn>>

\* What was on its way on a dead socket is lost.
ForgetLate(d) ==
    /\ late[d] # <<>>
    /\ late' = [late EXCEPT ![d] = <<>>]
    /\ UNCHANGED <<device, open, up, down, server, now, ghosts>>

Kill(d) ==
    /\ running[d] /\ faults < MaxFaults
    /\ faults' = faults + 1
    /\ running' = [running EXCEPT ![d] = FALSE]
    /\ flow' = [flow EXCEPT ![d] = NoFlow]
    /\ game' = [game EXCEPT ![d] = DefaultGame] /\ shown' = [shown EXCEPT ![d] = DefaultGame]
    /\ writes' = [writes EXCEPT ![d] = <<>>]
    /\ torn' = [torn EXCEPT ![d] = @ \/ writes[d] # <<>>]
    /\ Lose(d)
    /\ UNCHANGED <<disk, server, now, typed>>

Reconcile(local, restore) ==
    IF local.step # "init"
    THEN [local EXCEPT !.team = restore.team,
                       !.score = IF restore.score > @ THEN restore.score ELSE @]
    ELSE restore

\* A restore is reconciled with the GameState last rendered.
Receive(d) ==
    /\ down[d] # <<>>
    /\ game' = [game EXCEPT ![d] = Reconcile(shown[d], Head(down[d]))]
    /\ writes' = [writes EXCEPT ![d] = Append(@, GameWrite(game'[d]))]
    /\ down' = [down EXCEPT ![d] = Tail(@)]
    /\ UNCHANGED <<running, flow, shown, disk, open, up, late, server, now, ghosts>>

-----------------------------------------------------------------------------
(***************************************************************************)
(* The server.                                                              *)
(***************************************************************************)
\* Variant (mistake): the lookup forgets the device.
PriorOfAny(d) == {t \in Teams : row[t] # NoRow}

Prior(d) == {t \in Teams : row[t] # NoRow /\ row[t].device = d}

\* getTeamStateByDevice orders by timestamp; equal ones come in any order.
ServeHello(d) ==
    /\ up[d] # <<>> /\ Head(up[d]).type = "hello"
    /\ up' = [up EXCEPT ![d] = Tail(@)]
    /\ \/ Prior(d) = {} /\ UNCHANGED down
       \/ \E t \in Prior(d) :
             /\ \A u \in Prior(d) : row[u].time <= row[t].time
             /\ down' = [down EXCEPT ![d] = Append(@,
                    [team |-> t, step |-> row[t].step, score |-> row[t].score])]
    /\ UNCHANGED <<device, open, late, server, now, ghosts>>

\* Variant (mistake): ON CONFLICT without its WHERE.
UpsertAnyTime(f) ==
    row' = [row EXCEPT ![f.team] = [device |-> f.device, step |-> f.step, score |-> f.score,
                                    time |-> f.time, sent |-> f.sent]]

Upsert(f) ==
    IF row[f.team] = NoRow \/ f.time >= row[f.team].time
    THEN row' = [row EXCEPT ![f.team] = [device |-> f.device, step |-> f.step,
                                         score |-> f.score, time |-> f.time, sent |-> f.sent]]
    ELSE UNCHANGED row

\* A frame without a team changes nothing (db.ts).
Store(f) ==
    \/ f.type # "hello" /\ f.team = NoTeam /\ UNCHANGED server
    \/ f.type = "state" /\ f.team # NoTeam /\ Upsert(f) /\ UNCHANGED log
    \/ /\ f.type = "log" /\ f.team # NoTeam
       /\ log' = [log EXCEPT ![f.team] = Append(@, [device |-> f.device, events |-> f.events])]
       /\ UNCHANGED row

ServeFrame(d) ==
    /\ up[d] # <<>>
    /\ Store(Head(up[d]))
    /\ up' = [up EXCEPT ![d] = Tail(@)]
    /\ UNCHANGED <<device, open, down, late, now, ghosts>>

ServeLate(d) ==
    /\ late[d] # <<>>
    /\ Store(Head(late[d]))
    /\ late' = [late EXCEPT ![d] = Tail(@)]
    /\ UNCHANGED <<device, open, up, down, now, ghosts>>

Wiped ==
    /\ row' = [t \in Teams |-> NoRow]
    /\ log' = [t \in Teams |-> <<>>]

\* POST /admin/reset: the tables only; no tablet is told.
Reset ==
    /\ faults < MaxFaults
    /\ faults' = faults + 1
    /\ Wiped
    /\ told' = [d \in Tablets |-> FALSE]
    /\ UNCHANGED <<device, socket, now, typed, torn>>

\* A new process opens a new session: nothing of the old one is looked up.
Restart ==
    /\ faults < MaxFaults
    /\ faults' = faults + 1
    /\ Wiped
    /\ open' = [d \in Tablets |-> FALSE]
    /\ up' = [d \in Tablets |-> <<>>] /\ down' = up' /\ late' = up'
    /\ told' = [d \in Tablets |-> FALSE]
    /\ UNCHANGED <<device, now, typed, torn>>

Next ==
    \/ \E d \in Tablets :
          \/ Launch(d) \/ Hydrate(d) \/ Play(d) \/ SubmitTeam(d) \/ Render(d) \/ Flush(d)
          \/ Connect(d) \/ Drop(d) \/ ForgetLate(d) \/ Kill(d) \/ Receive(d)
          \/ ServeHello(d) \/ ServeFrame(d) \/ ServeLate(d)
    \/ Reset \/ Restart

Spec == Init /\ [][Next]_vars

-----------------------------------------------------------------------------
(***************************************************************************)
(* Safety.                                                                  *)
(***************************************************************************)
Frames(d) == {up[d][i] : i \in DOMAIN up[d]} \cup {late[d][i] : i \in DOMAIN late[d]}

\* Whatever is restored, delayed or restarted, a tablet plays for, and the server
\* files its progress and log under, a team that was entered on that tablet.
TeamsTyped ==
    /\ TypeOK
    /\ \A d \in Tablets : {game[d].team, shown[d].team, disk[d].game.team} \subseteq
                              typed[d] \cup {NoTeam}
    /\ \A t \in Teams :
          /\ row[t] # NoRow => t \in typed[row[t].device]
          /\ \A i \in DOMAIN log[t] : t \in typed[log[t][i].device]

\* "Latest-known UI state" (001_init.sql): the tablets, their sockets and the server
\* implement the register of each team.  A frame that comes late never puts it back, it is
\* wiped with all the others only, and the log only grows, whatever is lost, late,
\* repeated or restarted.
Filed(t) ==
    IF row[t] = NoRow THEN NoRow
    ELSE [type |-> "state", device |-> row[t].device, team |-> t, step |-> row[t].step,
          score |-> row[t].score, time |-> row[t].time, sent |-> row[t].sent]

Entered(t) ==
    [i \in DOMAIN log[t] |-> [type |-> "log", team |-> t, device |-> log[t][i].device,
                             events |-> log[t][i].events]]

Register == INSTANCE TeamRegister WITH
    None    <- NoRow,
    afloat  <- {f \in UNION {Frames(d) : d \in Tablets} : f.type # "hello"},
    record  <- [t \in Teams |-> Filed(t)],
    journal <- [t \in Teams |-> Entered(t)]

RegisterSpec == Register!Spec

\* Teams entered on one tablet only.
SoleTypist(d) == \A c \in Tablets \ {d} : typed[c] \cap typed[d] = {}

\* "One push per transition" (App.tsx): an online tablet that pushed since it
\* connected, with nothing on its way, is in the database as it was last rendered.
RowCurrent ==
    \A d \in Tablets :
        open[d] /\ told[d] /\ up[d] = <<>> /\ SoleTypist(d) =>
            LET r == row[shown[d].team]
            IN  r # NoRow /\ r.device = d /\ r.step = shown[d].step /\ r.score = shown[d].score

\* A score that went to the server and came back is not paid again: neither side
\* ever exceeds what the parcours is worth.
AllPoints == Worth(UNION {{Parcours[v][i] : i \in DOMAIN Parcours[v]} : v \in Variants})

ScoreNotPaidTwice ==
    /\ \A d \in Tablets : game[d].score <= AllPoints
    /\ \A t \in Teams : row[t] # NoRow => row[t].score <= AllPoints

\* "Push the event log once" (useFlow.ts): a tablet that lost no write to a kill
\* sends its log at most once, relaunched on the final screen or not: one place at most,
\* on the way or in the database, holds a push of it.
LogPushes(d) ==
    {<<"up", d, i>> : i \in {j \in DOMAIN up[d] : up[d][j].type = "log"}}
    \cup {<<"late", d, i>> : i \in {j \in DOMAIN late[d] : late[d][j].type = "log"}}
    \cup UNION {{<<"log", t, i>> : i \in {j \in DOMAIN log[t] : log[t][j].device = d}} : t \in Teams}

LogPushedOnce == \A d \in Tablets : ~torn[d] => \A p, q \in LogPushes(d) : p = q
=============================================================================
