------------------------------ MODULE Reconnect ------------------------------
(***************************************************************************)
(* The reconnecting client of the three applications (ws-client.ts), as     *)
(* their hooks use it, against the connection window of the server          *)
(* (attachWebSocket).  The clients here share one remote address, and so    *)
(* one window.                                                              *)
(*                                                                          *)
(* Covered: lost sockets, refused connections, a server that stops and      *)
(* starts, a change of server address with a socket or a timer of the old   *)
(* client still there.                                                      *)
(*                                                                          *)
(* Time is counted in ticks.  A timer fires when it is due or later, so     *)
(* jitter is covered by the least delay it can give.                        *)
(***************************************************************************)
EXTENDS Integers, Sequences, FiniteSets

CONSTANTS
    Clients,
    Limit,     \* CONNECTION_RATE_LIMIT
    Window,    \* CONNECTION_RATE_WINDOW_MS
    Delay,     \* retry -> least nextBackoffDelay; the last is maxDelayMs
    NoTimer,
    MaxFaults, \* bound: sockets lost, stops of the server
    MaxMoves   \* bound: changes of address, of all clients

ASSUME ReconnectAssumption ==
    /\ Limit \in Nat \ {0} /\ Window \in Nat \ {0}
    /\ Delay \in Seq(Nat) /\ Delay # <<>>
    /\ NoTimer \notin Nat
    /\ MaxFaults \in Nat /\ MaxMoves \in Nat

VARIABLES
    insts,    \* client -> its instances of createWsClient; the last is clientRef
    shown,    \* client -> connection, the state the hook gives to the screens
    serving,  \* the server runs
    count, left, \* its connectionWindow: attempts, ticks before resetAt
    faults, moves

vars == <<insts, shown, serving, count, left, faults, moves>>

States == {"disconnected", "connecting", "connected"}

\* The socket of an instance: on its way to the server, taken or refused by it, open,
\* dead with onclose to come; after close(), with its request still to arrive or not.
Sockets == {"none", "dialling", "admitted", "refused", "open", "dead",
            "withdrawn", "closing"}

Instances ==
    [stopped : BOOLEAN, state : States, attempt : DOMAIN Delay,
     timer : Nat \cup {NoTimer}, ws : Sockets, reachable : BOOLEAN]

TypeOK ==
    /\ \A c \in Clients :
          /\ insts[c] \in Seq(Instances) \ {<<>>}
          /\ \A i \in DOMAIN insts[c] : insts[c][i].stopped =>
                insts[c][i].timer = NoTimer /\ i < Len(insts[c])
    /\ shown \in [Clients -> States]
    /\ serving \in BOOLEAN
    /\ count \in 0..Limit + 1 /\ left \in 0..Window
    /\ faults \in 0..MaxFaults /\ moves \in 0..MaxMoves

\* createWsClient: connect() at once.  `reachable': the url is the server's.
Fresh(reachable) ==
    [stopped |-> FALSE, state |-> "connecting", attempt |-> 1, timer |-> NoTimer,
     ws |-> "dialling", reachable |-> reachable]

Current(c) == insts[c][Len(insts[c])]

Init ==
    /\ insts = [c \in Clients |-> <<Fresh(TRUE)>>]
    /\ shown = [c \in Clients |-> "connecting"]
    /\ serving = TRUE /\ count = 0 /\ left = 0
    /\ faults = 0 /\ moves = 0

-----------------------------------------------------------------------------
(***************************************************************************)
(* The client.                                                              *)
(***************************************************************************)
\* Variant (mistake): setState tells the hook what it knows already.
EmittedAlways(old, new, c) == shown' = [shown EXCEPT ![c] = new]

\* setState: the hook hears of a change only.
Emitted(old, new, c) ==
    shown' = IF old = new THEN shown ELSE [shown EXCEPT ![c] = new]

Become(c, i, inst) ==
    /\ insts' = [insts EXCEPT ![c][i] = inst]
    /\ Emitted(insts[c][i].state, inst.state, c)

\* Variant (mistake): no retry beyond the longest delay.
ScheduledGivesUp(inst) ==
    IF inst.attempt = Len(Delay) THEN inst
    ELSE [inst EXCEPT !.timer = Delay[inst.attempt], !.attempt = @ + 1]

\* scheduleReconnect
Scheduled(inst) ==
    [inst EXCEPT !.timer = Delay[inst.attempt],
                 !.attempt = IF @ < Len(Delay) THEN @ + 1 ELSE @]

\* connect, by the reconnect timer.
Connect(c, i) ==
    /\ insts[c][i].timer = 0 /\ ~insts[c][i].stopped
    /\ Become(c, i, [insts[c][i] EXCEPT !.timer = NoTimer, !.ws = "dialling",
                                        !.state = "connecting"])
    /\ UNCHANGED <<serving, count, left, faults, moves>>

\* onopen
Open(c, i) ==
    /\ insts[c][i].ws = "admitted"
    /\ Become(c, i, [insts[c][i] EXCEPT !.ws = "open", !.attempt = 1, !.state = "connected"])
    /\ UNCHANGED <<serving, count, left, faults, moves>>

Over(inst) ==
    \/ inst.ws \in {"refused", "dead", "closing", "withdrawn"}
    \/ inst.ws = "dialling" /\ ~(inst.reachable /\ serving)

\* onclose.  A stopped instance has nothing left to do and is dropped.
OnClose(c, i) ==
    LET inst == insts[c][i]
        closed == [inst EXCEPT !.ws = "none", !.state = "disconnected"]
    IN  /\ Over(inst)
        /\ Emitted(inst.state, "disconnected", c)
        /\ insts' = [insts EXCEPT ![c] =
               IF inst.stopped THEN SubSeq(@, 1, i - 1) \o SubSeq(@, i + 1, Len(@))
               ELSE [@ EXCEPT ![i] = Scheduled(closed)]]
        /\ UNCHANGED <<serving, count, left, faults, moves>>

LeftSocket(ws) ==
    CASE ws = "none" -> "none"
      [] ws = "dialling" -> "withdrawn"
      [] OTHER -> "closing"

\* Variant (mistake): disconnect leaves the reconnect loop running.
DisconnectedOnly(inst) ==
    [inst EXCEPT !.timer = NoTimer, !.ws = LeftSocket(@), !.state = "disconnected"]

Disconnected(inst) ==
    [inst EXCEPT !.stopped = TRUE, !.timer = NoTimer, !.ws = LeftSocket(@),
                 !.state = "disconnected"]

\* The effect on [ready, url]: cleanup, then a new client.
Move(c) ==
    /\ moves < MaxMoves /\ moves' = moves + 1
    /\ \E reachable \in BOOLEAN :
          LET before == SubSeq(insts[c], 1, Len(insts[c]) - 1)
              old == Disconnected(Current(c))
          IN  insts' = [insts EXCEPT ![c] =
                  before \o (IF old.ws = "none" /\ old.timer = NoTimer THEN <<>> ELSE <<old>>)
                         \o <<Fresh(reachable)>>]
    /\ shown' = [shown EXCEPT ![c] = "connecting"]
    /\ UNCHANGED <<serving, count, left, faults>>

-----------------------------------------------------------------------------
(***************************************************************************)
(* The server and the network.                                              *)
(***************************************************************************)
\* The count with this attempt; beyond the limit it makes no difference.
Counted == IF left = 0 THEN 1 ELSE IF count <= Limit THEN count + 1 ELSE count

\* http.on('upgrade').
Upgrade(c, i) ==
    /\ serving /\ insts[c][i].reachable
    /\ insts[c][i].ws \in {"dialling", "withdrawn"}
    /\ count' = Counted
    /\ left' = IF left = 0 THEN Window ELSE left
    /\ insts' = [insts EXCEPT ![c][i].ws =
           CASE @ = "withdrawn" -> "closing"
             [] @ = "dialling" /\ count' <= Limit -> "admitted"
             [] OTHER -> "refused"]
    /\ UNCHANGED <<shown, serving, faults, moves>>

LoseSocket(c, i) ==
    /\ insts[c][i].ws \in {"admitted", "open"}
    /\ faults < MaxFaults /\ faults' = faults + 1
    /\ insts' = [insts EXCEPT ![c][i].ws = "dead"]
    /\ UNCHANGED <<shown, serving, count, left, moves>>

\* The window is in memory.
Stop ==
    /\ serving /\ serving' = FALSE
    /\ faults < MaxFaults /\ faults' = faults + 1
    /\ count' = 0 /\ left' = 0
    /\ insts' = [c \in Clients |-> [i \in DOMAIN insts[c] |->
           [insts[c][i] EXCEPT !.ws = IF @ \in {"admitted", "open"} THEN "dead" ELSE @]]]
    /\ UNCHANGED <<shown, moves>>

Start ==
    /\ ~serving /\ serving' = TRUE
    /\ UNCHANGED <<insts, shown, count, left, faults, moves>>

Less(n) == IF n \in Nat \ {0} THEN n - 1 ELSE n

\* An entry of the window whose time is up counts for nothing: swept or not, it is 0.
Tick ==
    /\ left' = Less(left)
    /\ count' = IF left' = 0 THEN 0 ELSE count
    /\ insts' = [c \in Clients |-> [i \in DOMAIN insts[c] |->
           [insts[c][i] EXCEPT !.timer = Less(@)]]]
    /\ UNCHANGED <<shown, serving, faults, moves>>

ClientStep(c) == \E i \in DOMAIN insts[c] : Connect(c, i) \/ Open(c, i) \/ OnClose(c, i)

Next ==
    \/ Stop \/ Start \/ Tick
    \/ \E c \in Clients :
          \/ Move(c)
          \/ \E i \in DOMAIN insts[c] :
                Connect(c, i) \/ Open(c, i) \/ OnClose(c, i) \/ Upgrade(c, i) \/ LoseSocket(c, i)

Spec == Init /\ [][Next]_vars

(***************************************************************************)
(* Fairness: timers and events of a running program are served, requests    *)
(* arrive, a server that stopped is started again (systemd), time passes.   *)
(***************************************************************************)
FairSpec ==
    /\ Spec /\ WF_vars(Tick) /\ WF_vars(Start)
    /\ \A c \in Clients :
          /\ WF_vars(ClientStep(c))
          /\ WF_vars(\E i \in DOMAIN insts[c] : Upgrade(c, i))

-----------------------------------------------------------------------------
(***************************************************************************)
(* Properties.                                                              *)
(***************************************************************************)
\* One live socket at a time: at most one instance of a hook has a socket it means to
\* use or a timer that will open one ("disconnect() halts the reconnect loop").
Active(inst) == inst.timer # NoTimer \/ inst.ws \in Sockets \ {"none", "closing", "withdrawn"}

OneSocket ==
    \A c \in Clients : Cardinality({i \in DOMAIN insts[c] : Active(insts[c][i])}) <= 1

\* What the screens enable their buttons by is the state of the hook's own client,
\* whatever the sockets of its predecessors still say.
ShownIsCurrent == \A c \in Clients : shown[c] = Current(c).state

\* "10 attempts / 10 s allows a healthy reconnect storm" (index.ts): a client with the
\* right address is connected in the end, refused or not.
Reconnects ==
    \A c \in Clients : Current(c).reachable ~> shown[c] = "connected" \/ ~Current(c).reachable
=============================================================================
