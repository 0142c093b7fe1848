----------------------------- MODULE ServerLife -----------------------------
(***************************************************************************)
(* The life of the sockets and of the process of server-nuc: admission,     *)
(* the frame budget of a connection and the timer that renews it, close,    *)
(* and the shutdown on SIGTERM or SIGINT with requests and sockets pending. *)
(*                                                                          *)
(* Covered: floods, frames that do not parse, clients that vanish without   *)
(* closing, HTTP requests and upgrades that arrive during the shutdown.     *)
(* What a frame means is the business of AccessLoop, Aggregation and        *)
(* TabletSync; here it is stored, unreadable or binary.                     *)
(*                                                                          *)
(* Time is ticks.  A timer fires when due or later.                         *)
(***************************************************************************)
EXTENDS Naturals, FiniteSets

CONSTANTS
    Sockets,     \* WebSocket connections
    Posts,       \* HTTP connections
    Budget,      \* WS_RATE_LIMIT_PER_SEC
    Second,      \* the 1000 ms of rateLimitInterval
    Grace,       \* the 5000 ms before the exit is forced
    MaxVanished, \* bound: clients that vanish
    MaxFlood     \* bound: frames a connection counts between two resets

ASSUME LifeAssumption ==
    /\ Budget \in Nat \ {0} /\ Second \in Nat \ {0} /\ Grace \in Nat
    /\ MaxVanished \in Nat /\ MaxFlood \in Nat

VARIABLES
    phase,   \* up, draining (shuttingDown), exited
    dbOpen,
    grace,   \* ticks to the forced exit
    forced,  \* whether process.exit was the forced one
    tcp,     \* a socket: none, dialling, open, told (1001 sent, its answer to come)
    there,   \* whether its client can still answer
    meta,    \* wsMeta has it
    count,   \* messageCount
    resetIn, \* ticks to the next run of its rateLimitInterval
    armed,   \* whether that interval exists
    post,    \* an HTTP connection: none, asking, idle
    (* what happened so far *)
    frameAge, \* ages of the last frames of a connection that were parsed, newest first
    misused, \* whether a handler ran into a closed database
    vanished

server == <<phase, dbOpen, grace, forced>>
socket == <<tcp, there, meta, count, resetIn, armed, frameAge>>
lifeVars == <<server, socket, post, misused, vanished>>

FrameAges == [0..2 * Budget -> 0..Second]
NoneRecent == [i \in 0..2 * Budget |-> Second]

\* Types; metadata and the interval of a connection last exactly as long as it does.
LifeTypeOK ==
    /\ phase \in {"up", "draining", "exited"} /\ dbOpen \in BOOLEAN
    /\ grace \in 0..Grace /\ forced \in BOOLEAN
    /\ tcp \in [Sockets -> {"none", "dialling", "open", "told"}]
    /\ there \in [Sockets -> BOOLEAN] /\ meta \in [Sockets -> BOOLEAN]
    /\ count \in [Sockets -> 0..MaxFlood] /\ resetIn \in [Sockets -> 0..Second]
    /\ armed \in [Sockets -> BOOLEAN]
    /\ \A c \in Sockets :
          /\ armed[c] <=> tcp[c] \in {"open", "told"}
          /\ meta[c] => armed[c]
    /\ post \in [Posts -> {"none", "asking", "idle"}]
    /\ frameAge \in [Sockets -> FrameAges] /\ misused \in BOOLEAN
    /\ vanished \in Nat

LifeInit ==
    /\ phase = "up" /\ dbOpen = TRUE /\ grace = Grace /\ forced = FALSE
    /\ tcp = [c \in Sockets |-> "none"] /\ there = [c \in Sockets |-> TRUE]
    /\ meta = [c \in Sockets |-> FALSE] /\ count = [c \in Sockets |-> 0]
    /\ resetIn = [c \in Sockets |-> Second] /\ armed = [c \in Sockets |-> FALSE]
    /\ post = [w \in Posts |-> "none"]
    /\ frameAge = [c \in Sockets |-> NoneRecent]
    /\ misused = FALSE /\ vanished = 0

-----------------------------------------------------------------------------
(***************************************************************************)
(* A connection.                                                            *)
(***************************************************************************)
\* The listener accepts; http.close() stops it.
Dial(c) ==
    /\ phase = "up" /\ tcp[c] = "none" /\ there[c]
    /\ tcp' = [tcp EXCEPT ![c] = "dialling"]
    /\ UNCHANGED <<server, there, meta, count, resetIn, armed, frameAge, post, misused, vanished>>

\* Its request arrives and is upgraded, whatever the phase.
Upgrade(c) ==
    /\ phase # "exited" /\ tcp[c] = "dialling"
    /\ tcp' = [tcp EXCEPT ![c] = "open"]
    /\ count' = [count EXCEPT ![c] = 0]
    /\ resetIn' = [resetIn EXCEPT ![c] = Second] /\ armed' = [armed EXCEPT ![c] = TRUE]
    /\ frameAge' = [frameAge EXCEPT ![c] = NoneRecent]
    /\ UNCHANGED <<server, there, meta, post, misused, vanished>>

\* Variant (mistake): only frames that could be read are counted.
CountsReadable(kind) == kind \in {"hello", "state"}

Counts(kind) == kind # "binary"

Kinds == {"binary", "unreadable", "hello", "state"}

\* ws.on('message'): during a shutdown nothing is done; a binary frame is rejected
\* uncounted; beyond the budget frames are dropped; then the frame is parsed and handled.
Message(c) ==
    /\ phase = "up" /\ tcp[c] = "open" /\ there[c]
    /\ \E kind \in Kinds :
          LET n == IF Counts(kind) THEN count[c] + 1 ELSE count[c]
              parsed == kind # "binary" /\ n <= Budget
          IN  /\ n <= MaxFlood
              /\ count' = [count EXCEPT ![c] = n]
              /\ meta' = [meta EXCEPT ![c] = @ \/ (parsed /\ kind = "hello")]
              /\ frameAge' = IF ~parsed THEN frameAge
                             ELSE [frameAge EXCEPT ![c] =
                                     [i \in 0..2 * Budget |-> IF i = 0 THEN 0 ELSE @[i - 1]]]
              /\ misused' = (misused \/ (parsed /\ kind \in {"hello", "state"} /\ ~dbOpen))
    /\ UNCHANGED <<server, tcp, there, resetIn, armed, post, vanished>>

ResetCount(c) ==
    /\ phase # "exited" /\ armed[c] /\ resetIn[c] = 0
    /\ count' = [count EXCEPT ![c] = 0]
    /\ resetIn' = [resetIn EXCEPT ![c] = Second]
    /\ UNCHANGED <<server, tcp, there, meta, armed, frameAge, post, misused, vanished>>

\* ws.on('close'): interval and metadata go with the connection.
Gone(c) ==
    /\ tcp' = [tcp EXCEPT ![c] = "none"]
    /\ meta' = [meta EXCEPT ![c] = FALSE]
    /\ armed' = [armed EXCEPT ![c] = FALSE]

\* The client closes, or answers the close frame of the shutdown.
Close(c) ==
    /\ phase # "exited" /\ tcp[c] # "none" /\ there[c]
    /\ Gone(c)
    /\ UNCHANGED <<server, there, count, resetIn, frameAge, post, misused, vanished>>

\* A client goes without a word: out of range, out of power.
Vanish(c) ==
    /\ phase # "exited" /\ tcp[c] # "none" /\ there[c] /\ vanished < MaxVanished
    /\ there' = [there EXCEPT ![c] = FALSE]
    /\ vanished' = vanished + 1
    /\ UNCHANGED <<server, tcp, meta, count, resetIn, armed, frameAge, post, misused>>

-----------------------------------------------------------------------------
(***************************************************************************)
(* HTTP: /health, /diag, /admin/reset.  A connection is kept for the next   *)
(* request until it is dropped.                                             *)
(***************************************************************************)
Ask(w) ==
    /\ \/ post[w] = "none" /\ phase = "up"
       \/ post[w] = "idle" /\ phase # "exited"
    /\ post' = [post EXCEPT ![w] = "asking"]
    /\ UNCHANGED <<server, socket, misused, vanished>>

Serve(w) ==
    /\ phase # "exited" /\ post[w] = "asking"
    /\ \E kept \in {"none", "idle"} : post' = [post EXCEPT ![w] = kept]
    /\ misused' = (misused \/ ~dbOpen)
    /\ UNCHANGED <<server, socket, vanished>>

DropIdle(w) ==
    /\ post[w] = "idle"
    /\ post' = [post EXCEPT ![w] = "none"]
    /\ UNCHANGED <<server, socket, misused, vanished>>

-----------------------------------------------------------------------------
(***************************************************************************)
(* The process.                                                             *)
(***************************************************************************)
\* Variant (mistake): the database is closed with the sockets, not after the last request.
SignalClosesDb ==
    /\ phase = "up" /\ phase' = "draining"
    /\ tcp' = [c \in Sockets |-> IF tcp[c] = "open" THEN "told" ELSE tcp[c]]
    /\ post' = [w \in Posts |-> IF post[w] = "idle" THEN "none" ELSE post[w]]
    /\ dbOpen' = FALSE
    /\ UNCHANGED <<grace, forced, there, meta, count, resetIn, armed, frameAge, misused, vanished>>

\* shutdown(): every admitted socket is sent 1001; http.close() stops the listener and
\* closes idle connections.  A second signal does nothing.
Signal ==
    /\ phase = "up" /\ phase' = "draining"
    /\ tcp' = [c \in Sockets |-> IF tcp[c] = "open" THEN "told" ELSE tcp[c]]
    /\ post' = [w \in Posts |-> IF post[w] = "idle" THEN "none" ELSE post[w]]
    /\ UNCHANGED <<dbOpen, grace, forced, there, meta, count, resetIn, armed,
                   frameAge, misused, vanished>>

Exit(byForce) ==
    /\ phase' = "exited" /\ dbOpen' = FALSE /\ forced' = byForce
    /\ tcp' = [c \in Sockets |-> "none"]
    /\ meta' = [c \in Sockets |-> FALSE] /\ armed' = meta'
    /\ post' = [w \in Posts |-> "none"]
    /\ UNCHANGED <<grace, there, count, resetIn, frameAge, misused, vanished>>

\* The callback of http.close(): the last connection has ended.
Drained ==
    /\ phase = "draining"
    /\ \A c \in Sockets : tcp[c] = "none"
    /\ \A w \in Posts : post[w] = "none"
    /\ Exit(FALSE)

\* Variant (mistake): no timer behind http.close().
ForceExitNever == FALSE /\ Exit(TRUE)

ForceExit == phase = "draining" /\ grace = 0 /\ Exit(TRUE)

Lower(n) == IF n > 0 THEN n - 1 ELSE 0

\* Whoever can answer the shutdown does so within the grace period: the last tick of it
\* waits for sockets that were told, for requests and for kept connections.
Prompt ==
    phase = "draining" /\ grace = 1 =>
        /\ \A c \in Sockets : there[c] => tcp[c] \notin {"dialling", "told"}
        /\ \A w \in Posts : post[w] = "none"
        /\ \E c \in Sockets : tcp[c] # "none"

LifeTick ==
    /\ phase # "exited" /\ Prompt
    /\ grace' = IF phase = "draining" THEN Lower(grace) ELSE grace
    /\ resetIn' = [c \in Sockets |-> IF armed[c] THEN Lower(resetIn[c]) ELSE resetIn[c]]
    /\ frameAge' = [c \in Sockets |-> [i \in 0..2 * Budget |->
                  IF frameAge[c][i] < Second THEN frameAge[c][i] + 1 ELSE Second]]
    /\ UNCHANGED <<phase, dbOpen, forced, tcp, there, meta, count, armed, post, misused, vanished>>

LifeNext ==
    \/ \E c \in Sockets :
          \/ Dial(c) \/ Upgrade(c) \/ Message(c) \/ ResetCount(c) \/ Close(c) \/ Vanish(c)
    \/ \E w \in Posts : Ask(w) \/ Serve(w) \/ DropIdle(w)
    \/ Signal \/ Drained \/ ForceExit \/ LifeTick

LifeSpec == LifeInit /\ [][LifeNext]_lifeVars

(***************************************************************************)
(* Fairness: time passes, timers and callbacks run, requests are served and *)
(* what is on its way arrives, kept connections are dropped in the end, a   *)
(* client that is there answers a close frame.                              *)
(***************************************************************************)
LifeFairSpec ==
    /\ LifeSpec
    /\ WF_lifeVars(LifeTick) /\ WF_lifeVars(Drained) /\ WF_lifeVars(ForceExit)
    /\ \A c \in Sockets :
          /\ WF_lifeVars(there[c] /\ Upgrade(c)) /\ WF_lifeVars(ResetCount(c))
          /\ WF_lifeVars(tcp[c] = "told" /\ Close(c))
    /\ \A w \in Posts : WF_lifeVars(Serve(w)) /\ SF_lifeVars(DropIdle(w))

-----------------------------------------------------------------------------
(***************************************************************************)
(* Properties.                                                              *)
(***************************************************************************)
\* "100 frames / second per connection" (index.ts), as a counter that is reset each
\* second gives it: no connection has more than two budgets parsed within a second,
\* readable or not, and no interval outlives its connection.
TwoBudgetsASecond ==
    /\ LifeTypeOK
    /\ \A c \in Sockets : frameAge[c][2 * Budget] = Second

\* db.close() comes after the last handler that could use it, in a shutdown that finds
\* requests under way, forced or not.
DbUsable == ~misused

\* A shutdown ends, whoever does not answer it.
ShutdownEnds == phase = "draining" ~> phase = "exited"
=============================================================================
