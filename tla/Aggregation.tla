----------------------------- MODULE Aggregation -----------------------------
(***************************************************************************)
(* The end-of-session report of Débriefing (sync.ts): the GM presses        *)
(* « Charger les statistiques », the hook asks the NUC server for the       *)
(* session's teams, then for the event log of each, and reports once all    *)
(* have answered or AGGREGATION_TIMEOUT_MS have passed.                     *)
(*                                                                          *)
(* Covered: replies overtaken by the timeout, sockets that die with         *)
(* requests and replies in flight, a change of server address in the middle *)
(* of a load, several loads, teams that keep logging, a session reset.      *)
(* An event log only grows within a session: it is its length here.         *)
(***************************************************************************)
EXTENDS Integers, Sequences, FiniteSets
LOCAL INSTANCE Functions

CONSTANTS
    Teams,
    NoLoad,          \* pendingRef null
    NoReport,        \* stats null
    MaxLoads,        \* bound: presses of the button
    MaxEvents,       \* bound: events per team
    MaxFaults        \* bound: sockets lost, changes of address, resets and restarts

ASSUME AggregationAssumption ==
    /\ IsFiniteSet(Teams)
    /\ MaxLoads \in Nat /\ MaxEvents \in Nat /\ MaxFaults \in Nat

VARIABLES
    (* Débriefing *)
    socket,    \* "closed", "open", or "closing": no longer OPEN, onclose not fired yet
    pending,   \* pendingRef: [expected, logs], or NoLoad; its timer runs meanwhile
    loading,   \* the loading flag
    button,    \* the button as last drawn: it can be pressed
    report,    \* stats and missingTeamIds: team -> events, or NoReport
    (* wire and server *)
    up, down,  \* frames in flight
    known,     \* teams with a row in team_state or event_log for the session
    log,       \* team -> events in event_log
    (* what happened so far *)
    owed,      \* team -> events, as of the start of the load, in this session
    listed,    \* teams of the last `teams' frame taken for the current load
    timedOut,  \* the report was made by the timer
    moved,     \* the server address was changed
    wiped,     \* the session was reset, or the server restarted
    loads, faults

client == <<pending, loading, report, listed, timedOut>>
db == <<known, log>>
upsets == <<moved, wiped, faults>>
vars == <<socket, client, up, down, db, owed, loads, button, upsets>>

NoLog == [t \in {} |-> 0]

PartialLogs == UNION {[T -> Nat] : T \in SUBSET Teams}
UpFrames == [type : {"teams-request"}] \cup [type : {"log-request"}, team : Teams]
DownFrames == [type : {"teams"}, teams : SUBSET Teams]
              \cup [type : {"log-result"}, team : Teams, events : Nat]

TypeOK ==
    /\ socket \in {"closed", "open", "closing"}
    /\ pending # NoLoad => /\ pending.expected \subseteq Teams
                           /\ DOMAIN pending.logs \subseteq Teams
    /\ loading \in BOOLEAN /\ button \in BOOLEAN
    /\ report # NoReport => DOMAIN report \subseteq Teams
    /\ \A i \in DOMAIN up : up[i] \in UpFrames
    /\ \A i \in DOMAIN down : down[i] \in DownFrames
    /\ known \subseteq Teams
    /\ log \in [Teams -> 0..MaxEvents]
    /\ \A t \in Teams \ known : log[t] = 0

Init ==
    /\ socket = "closed"
    /\ pending = NoLoad /\ loading = FALSE /\ button = FALSE /\ report = NoReport
    /\ up = <<>> /\ down = <<>>
    /\ known = {} /\ log = [t \in Teams |-> 0]
    /\ owed = NoLog /\ listed = {} /\ timedOut = FALSE
    /\ moved = FALSE /\ wiped = FALSE
    /\ loads = 0 /\ faults = 0

-----------------------------------------------------------------------------
(***************************************************************************)
(* The socket.                                                              *)
(***************************************************************************)
\* hello is answered by welcome, which onMessage ignores: neither is represented.
Open ==
    /\ socket = "closed"
    /\ socket' = "open"
    /\ UNCHANGED <<client, up, down, db, owed, loads, button, upsets>>

Die ==
    /\ socket = "open"
    /\ faults < MaxFaults
    /\ faults' = faults + 1
    /\ socket' = "closing"
    /\ up' = <<>> /\ down' = <<>>
    /\ UNCHANGED <<client, db, owed, loads, button, moved, wiped>>

\* Variant (mistake): onclose gives up the load that was waiting on the socket.
OnCloseForgetsLoad ==
    /\ socket = "closing"
    /\ socket' = "closed"
    /\ pending' = NoLoad
    /\ UNCHANGED <<loading, report, listed, timedOut, up, down, db, owed, loads, button, upsets>>

OnClose ==
    /\ socket = "closing"
    /\ socket' = "closed"
    /\ UNCHANGED <<client, up, down, db, owed, loads, button, upsets>>

\* The effect's cleanup on a new url: the load and its timer go, the old socket
\* with its frames too; `loading' is not touched.
ChangeUrl ==
    /\ faults < MaxFaults
    /\ faults' = faults + 1
    /\ moved' = TRUE
    /\ pending' = NoLoad
    /\ socket' = "closed"
    /\ up' = <<>> /\ down' = <<>>
    /\ UNCHANGED <<loading, report, db, owed, listed, timedOut, wiped, loads, button>>

-----------------------------------------------------------------------------
(***************************************************************************)
(* Débriefing.                                                              *)
(***************************************************************************)
\* Variant (mistake): teams that did not answer are left out.
FilledOnlyAnswers(load) == load.logs

\* finalize(): a team that did not answer has an empty log.
Filled(load) ==
    [t \in DOMAIN load.logs \cup load.expected |->
        IF t \in DOMAIN load.logs THEN load.logs[t] ELSE 0]

Finalize(load, byTimer) ==
    /\ report' = Filled(load)
    /\ loading' = FALSE
    /\ pending' = NoLoad
    /\ timedOut' = byTimer

\* Disabled while loading and while the connection is not 'connected', as of the last
\* render: a second tap may come before it, and starts the load over.
Draw ==
    /\ button' = (~loading /\ socket \in {"open", "closing"})
    /\ button' # button
    /\ UNCHANGED <<socket, client, up, down, db, owed, loads, upsets>>

LoadStats ==
    /\ button
    /\ loads < MaxLoads
    /\ loads' = loads + 1
    /\ report' = NoReport
    /\ listed' = {}
    /\ timedOut' = FALSE
    /\ owed' = [t \in known |-> log[t]]
    /\ IF socket = "open"
       THEN /\ pending' = [expected |-> {}, logs |-> NoLog]
            /\ loading' = TRUE
            /\ up' = Append(up, [type |-> "teams-request"])
       ELSE /\ pending' = NoLoad    \* send() returned false
            /\ loading' = FALSE
            /\ UNCHANGED up
    /\ UNCHANGED <<socket, down, db, button, upsets>>

\* One log-request per team, in any order (the server lists them by number).
LogRequests(teams) ==
    {q \in [1..Cardinality(teams) -> [type : {"log-request"}, team : teams]] :
        \A i, j \in DOMAIN q : q[i].team = q[j].team => i = j}

ReceiveTeams ==
    /\ down # <<>> /\ Head(down).type = "teams"
    /\ down' = Tail(down)
    /\ LET teams == Head(down).teams
       IN  \/ /\ pending = NoLoad
              /\ UNCHANGED <<client, up>>
           \/ /\ pending # NoLoad /\ teams = {}
              /\ Finalize(pending, FALSE)
              /\ listed' = {}
              /\ UNCHANGED up
           \/ /\ pending # NoLoad /\ teams # {}
              /\ pending' = [pending EXCEPT !.expected = teams]
              /\ listed' = teams
              /\ \E q \in LogRequests(teams) : up' = up \o q
              /\ UNCHANGED <<loading, report, timedOut>>
    /\ UNCHANGED <<socket, db, owed, loads, button, upsets>>

Answered(load, t, n) ==
    [expected |-> load.expected \ {t},
     logs |-> [x \in DOMAIN load.logs \cup {t} |-> IF x = t THEN n ELSE load.logs[x]]]

\* Variant (mistake): the first log to arrive ends the load.
ReceiveLogNoWait ==
    /\ down # <<>> /\ Head(down).type = "log-result"
    /\ down' = Tail(down)
    /\ IF pending = NoLoad
       THEN UNCHANGED client
       ELSE /\ Finalize(Answered(pending, Head(down).team, Head(down).events), FALSE)
            /\ UNCHANGED listed
    /\ UNCHANGED <<socket, up, db, owed, loads, button, upsets>>

\* log-result: whatever load it was asked for, it counts for the current one.
ReceiveLog ==
    /\ down # <<>> /\ Head(down).type = "log-result"
    /\ down' = Tail(down)
    /\ LET load == Answered(pending, Head(down).team, Head(down).events)
       IN  \/ /\ pending = NoLoad
              /\ UNCHANGED client
           \/ /\ pending # NoLoad /\ load.expected = {}
              /\ Finalize(load, FALSE)
              /\ UNCHANGED listed
           \/ /\ pending # NoLoad /\ load.expected # {}
              /\ pending' = load
              /\ UNCHANGED <<loading, report, listed, timedOut>>
    /\ UNCHANGED <<socket, up, db, owed, loads, button, upsets>>

Timeout ==
    /\ pending # NoLoad
    /\ Finalize(pending, TRUE)
    /\ UNCHANGED <<socket, up, down, db, owed, listed, loads, button, upsets>>

-----------------------------------------------------------------------------
(***************************************************************************)
(* The server.                                                              *)
(***************************************************************************)
ServeTeams ==
    /\ up # <<>> /\ Head(up).type = "teams-request"
    /\ up' = Tail(up)
    /\ down' = Append(down, [type |-> "teams", teams |-> known])
    /\ UNCHANGED <<socket, client, db, owed, loads, button, upsets>>

\* Variant (mistake): the query does not filter on the team.
ServeLogOfAll ==
    /\ up # <<>> /\ Head(up).type = "log-request"
    /\ up' = Tail(up)
    /\ down' = Append(down, [type |-> "log-result", team |-> Head(up).team,
                             events |-> FoldFunction(+, 0, log)])
    /\ UNCHANGED <<socket, client, db, owed, loads, button, upsets>>

ServeLog ==
    /\ up # <<>> /\ Head(up).type = "log-request"
    /\ up' = Tail(up)
    /\ down' = Append(down, [type |-> "log-result", team |-> Head(up).team,
                             events |-> log[Head(up).team]])
    /\ UNCHANGED <<socket, client, db, owed, loads, button, upsets>>

\* A `state' frame of a team that was not known.
TeamState(t) ==
    /\ t \notin known
    /\ known' = known \cup {t}
    /\ UNCHANGED <<socket, client, up, down, log, owed, loads, button, upsets>>

LogPush(t) ==
    /\ log[t] < MaxEvents
    /\ log' = [log EXCEPT ![t] = @ + 1]
    /\ known' = known \cup {t}
    /\ UNCHANGED <<socket, client, up, down, owed, loads, button, upsets>>

\* /admin/reset deletes the session's rows; nothing is owed from then on.
Reset ==
    /\ known # {}
    /\ faults < MaxFaults
    /\ faults' = faults + 1
    /\ wiped' = TRUE
    /\ known' = {}
    /\ log' = [t \in Teams |-> 0]
    /\ owed' = NoLog
    /\ UNCHANGED <<socket, client, up, down, moved, loads, button>>

\* A restarted server has a session of its own, without rows.
Restart ==
    /\ faults < MaxFaults
    /\ faults' = faults + 1
    /\ wiped' = TRUE
    /\ known' = {}
    /\ log' = [t \in Teams |-> 0]
    /\ owed' = NoLog
    /\ socket' = IF socket = "open" THEN "closing" ELSE socket
    /\ up' = <<>> /\ down' = <<>>
    /\ UNCHANGED <<client, moved, loads, button>>

Next ==
    \/ Open \/ Die \/ OnClose \/ ChangeUrl
    \/ Draw \/ LoadStats \/ ReceiveTeams \/ ReceiveLog \/ Timeout
    \/ ServeTeams \/ ServeLog \/ Reset \/ Restart
    \/ \E t \in Teams : TeamState(t) \/ LogPush(t)

Spec == Init /\ [][Next]_vars

(***************************************************************************)
(* Fairness: an armed timer fires unless it is cleared first.  Nothing is   *)
(* assumed of the network or of the server.                                 *)
(***************************************************************************)
FairSpec == Spec /\ WF_vars(Timeout)

-----------------------------------------------------------------------------
(***************************************************************************)
(* Safety.                                                                  *)
(***************************************************************************)
\* "Teams that never answered before the timeout are recorded with an empty log so
\* they surface as missing rather than vanishing" (finalize): once the list of teams
\* was received, each of them is in the report.
ListedTeamsReported ==
    report # NoReport => listed \subseteq DOMAIN report

\* "compute stats once all answer (or a timeout fires)" (sync.ts): a report the
\* timer did not make has, for every team of the session when the button was
\* pressed, at least the events it had then.
CompleteUnlessTimedOut ==
    report # NoReport /\ ~timedOut =>
        \A t \in DOMAIN owed : t \in DOMAIN report /\ report[t] >= owed[t]

\* The same while no reply of an earlier load is on its way: the first load.
FirstReportComplete == loads <= 1 => CompleteUnlessTimedOut

\* A report never counts events nobody logged: short of a reset, each entry is part
\* of what event_log holds.
ReportFromLog ==
    /\ TypeOK
    /\ report # NoReport /\ ~wiped => \A t \in DOMAIN report : report[t] <= log[t]

(***************************************************************************)
(* Liveness.                                                                *)
(***************************************************************************)
\* "abort cleanly so the button doesn't hang on loading" (loadStats): a load ends,
\* whatever happened to its requests and replies, short of a change of address.
LoadEnds == loading ~> ~loading \/ moved
=============================================================================
