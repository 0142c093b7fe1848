----------------------------- MODULE AccessLoop -----------------------------
(***************************************************************************)
(* The GM-mediated access loop: Assaut installations submit an entry point, *)
(* the NUC server forwards it to every Débriefing (GM) device, a GM rules,  *)
(* the server relays the verdict to the team's Assaut, whose engine takes   *)
(* it as an event; the GM also sends the MG authorisation code.             *)
(*                                                                          *)
(* Covered: frames in flight in FIFO order, sockets that die with frames in *)
(* both directions, frames a server still reads from a dead socket after    *)
(* the client is back, hello processed after other clients' frames,         *)
(* restarts of each program, several GM devices.  welcome and restore are   *)
(* not represented: Assaut and Débriefing drop them.  `state' frames are    *)
(* the subject of TabletSync.                                               *)
(***************************************************************************)
EXTENDS AssautSequence

CONSTANTS
    Assaut,        \* Assaut installations (one PC each)
    Gms,           \* Débriefing devices (the GM's tablet and any backup)
    Teams,         \* team ids
    Team,          \* installation -> its persisted teamId, or NoTeam
    NoTeam,        \* teamId null
    Codes,         \* MG authorisation codes a GM may type
    NoCode,        \* no code received
    MaxInFlight,   \* bound: frames queued on one socket
    MaxFaults      \* bound: dropped sockets and restarts

Decisions == {"approved", "refused"}
Devices == Assaut \cup Gms

ASSUME ActorsAssumption ==
    /\ Assaut \cap Gms = {}
    /\ NoTeam \notin Teams
    /\ Team \in [Assaut -> Teams \cup {NoTeam}]
    /\ NoCode \notin Codes
    /\ MaxInFlight \in Nat /\ MaxFaults \in Nat

VARIABLES
    (* clients and their current sockets *)
    open,       \* device -> its socket is OPEN
    up,         \* device -> frames in flight to the server
    down,       \* device -> frames in flight from the server
    late,       \* device -> frames of its dead sockets the server may still read
    (* server *)
    known,      \* device -> wsMeta holds its current socket (hello processed)
    (* applications *)
    step,       \* installation -> the engine's current step
    kept,       \* installation -> the step of the session blob on its disk
    mgCode,     \* installation -> the code on screen (React state)
    pending,    \* GM -> teams in its list of submissions (React state)
    (* what happened so far *)
    submitted,  \* teams an access-submit was sent for
    ruled,      \* team -> verdicts GMs sent for it
    heard,      \* installation -> verdicts its engine was given
    coded,      \* team -> codes GMs sent for it
    faults

sockets == <<open, up, down, late, known>>
history == <<submitted, ruled, heard, coded>>
vars == <<open, up, down, late, known, step, kept, mgCode, pending,
          submitted, ruled, heard, coded, faults>>

HelloFrames == [type : {"hello"}]
SubmitFrames == [type : {"submit"}, team : Teams \cup {NoTeam}]
DecisionFrames == [type : {"decision"}, team : Teams, decision : Decisions]
CodeSetFrames == [type : {"code-set"}, team : Teams, code : Codes]
UpFrames == HelloFrames \cup SubmitFrames \cup DecisionFrames \cup CodeSetFrames

PendingFrames == [type : {"pending"}, team : Teams]
ResultFrames == [type : {"result"}, decision : Decisions]
CodeFrames == [type : {"code"}, code : Codes]
DownFrames == PendingFrames \cup ResultFrames \cup CodeFrames

TypeOK ==
    /\ open \in [Devices -> BOOLEAN]
    /\ known \in [Devices -> BOOLEAN]
    /\ up \in [Devices -> Seq(UpFrames)]
    /\ late \in [Devices -> Seq(UpFrames)]
    /\ down \in [Devices -> Seq(DownFrames)]
    /\ step \in [Assaut -> StepIds \cup {NoStep}]
    /\ kept \in [Assaut -> StepIds \cup {NoStep}]
    /\ mgCode \in [Assaut -> Codes \cup {NoCode}]
    /\ pending \in [Gms -> SUBSET Teams]
    /\ submitted \in SUBSET Teams
    /\ ruled \in [Teams -> SUBSET Decisions]
    /\ heard \in [Assaut -> SUBSET Decisions]
    /\ coded \in [Teams -> SUBSET Codes]
    /\ faults \in Nat

Init ==
    /\ open = [d \in Devices |-> FALSE]
    /\ known = [d \in Devices |-> FALSE]
    /\ up = [d \in Devices |-> <<>>]
    /\ late = [d \in Devices |-> <<>>]
    /\ down = [d \in Devices |-> <<>>]
    /\ step = [a \in Assaut |-> CreateSession.step]
    /\ kept = [a \in Assaut |-> CreateSession.step]
    /\ mgCode = [a \in Assaut |-> NoCode]
    /\ pending = [g \in Gms |-> {}]
    /\ submitted = {}
    /\ ruled = [t \in Teams |-> {}]
    /\ heard = [a \in Assaut |-> {}]
    /\ coded = [t \in Teams |-> {}]
    /\ faults = 0

-----------------------------------------------------------------------------
(***************************************************************************)
(* Sockets.  ws-client's send(): a frame leaves only on an OPEN socket.     *)
(***************************************************************************)
CanSend(d) == open[d] /\ Len(up[d]) < MaxInFlight

Send(d, frame) == up' = [up EXCEPT ![d] = Append(@, frame)]

\* Variant (mistake): onOpen forgets the hello.
ConnectNoHello(d) ==
    /\ ~open[d]
    /\ open' = [open EXCEPT ![d] = TRUE]
    /\ UNCHANGED <<up, down, late, known, step, kept, mgCode, pending, history, faults>>

\* The reconnect loop opens a socket; onOpen sends hello before anything else.
Connect(d) ==
    /\ ~open[d]
    /\ open' = [open EXCEPT ![d] = TRUE]
    /\ up' = [up EXCEPT ![d] = <<[type |-> "hello"]>>]
    /\ UNCHANGED <<down, late, known, step, kept, mgCode, pending, history, faults>>

\* The client's socket dies: what was on its way down is lost, what was on its
\* way up may still be read by the server.
LoseSocket(d) ==
    /\ faults < MaxFaults
    /\ faults' = faults + 1
    /\ open' = [open EXCEPT ![d] = FALSE]
    /\ known' = [known EXCEPT ![d] = FALSE]
    /\ late' = [late EXCEPT ![d] = @ \o up[d]]
    /\ up' = [up EXCEPT ![d] = <<>>]
    /\ down' = [down EXCEPT ![d] = <<>>]

Drop(d) ==
    /\ open[d]
    /\ LoseSocket(d)
    /\ UNCHANGED <<step, kept, mgCode, pending, history>>

\* The server's close event for a dead socket: what it had not read is gone.
ForgetLate(d) ==
    /\ late[d] # <<>>
    /\ late' = [late EXCEPT ![d] = <<>>]
    /\ UNCHANGED <<open, up, down, known, step, kept, mgCode, pending, history, faults>>

-----------------------------------------------------------------------------
(***************************************************************************)
(* The server.  broadcastToApp and relayToTeam send to every OPEN socket    *)
(* whose hello was processed and that matches; nobody matching: frame lost. *)
(***************************************************************************)
Forward(recipients, frame) ==
    /\ \A d \in recipients : Len(down[d]) < MaxInFlight
    /\ down' = [d \in Devices |->
                   IF d \in recipients THEN Append(down[d], frame) ELSE down[d]]

BroadcastToGms(frame) == Forward({g \in Gms : open[g] /\ known[g]}, frame)

\* Variant (mistake): the relay does not compare team ids.
RelayToAll(t, frame) == Forward({a \in Assaut : open[a] /\ known[a]}, frame)

RelayToTeam(t, frame) ==
    Forward({a \in Assaut : open[a] /\ known[a] /\ Team[a] = t}, frame)

\* handleAppMessage, for the frames of this loop other than hello.
Serve(frame) ==
    \/ /\ frame.type = "submit" /\ frame.team = NoTeam
       /\ UNCHANGED down
    \/ /\ frame.type = "submit" /\ frame.team # NoTeam
       /\ BroadcastToGms([type |-> "pending", team |-> frame.team])
    \/ /\ frame.type = "decision"
       /\ RelayToTeam(frame.team, [type |-> "result", decision |-> frame.decision])
    \/ /\ frame.type = "code-set"
       /\ RelayToTeam(frame.team, [type |-> "code", code |-> frame.code])

ServeHello(d) ==
    /\ up[d] # <<>>
    /\ Head(up[d]).type = "hello"
    /\ known' = [known EXCEPT ![d] = TRUE]
    /\ up' = [up EXCEPT ![d] = Tail(@)]
    /\ UNCHANGED <<open, down, late, step, kept, mgCode, pending, history, faults>>

ServeFrame(d) ==
    /\ up[d] # <<>>
    /\ Serve(Head(up[d]))
    /\ up' = [up EXCEPT ![d] = Tail(@)]
    /\ UNCHANGED <<open, late, known, step, kept, mgCode, pending, history, faults>>

\* A frame of a socket its client has given up on.  A hello read there registers
\* a socket nobody listens to.
ServeLate(d) ==
    /\ late[d] # <<>>
    /\ \/ Head(late[d]).type = "hello" /\ UNCHANGED down
       \/ Serve(Head(late[d]))
    /\ late' = [late EXCEPT ![d] = Tail(@)]
    /\ UNCHANGED <<open, up, known, step, kept, mgCode, pending, history, faults>>

\* Shutdown or power loss, then boot: every socket and wsMeta entry is gone.
ServerRestart ==
    /\ faults < MaxFaults
    /\ faults' = faults + 1
    /\ open' = [d \in Devices |-> FALSE]
    /\ known' = [d \in Devices |-> FALSE]
    /\ up' = [d \in Devices |-> <<>>]
    /\ late' = [d \in Devices |-> <<>>]
    /\ down' = [d \in Devices |-> <<>>]
    /\ UNCHANGED <<step, kept, mgCode, pending, history>>

-----------------------------------------------------------------------------
(***************************************************************************)
(* Assaut.                                                                  *)
(***************************************************************************)
\* « Valider » on the entry-point screen: the screen stays, and can be pressed again.
SubmitAccessPoint(a) ==
    /\ step[a] = PointEntree
    /\ CanSend(a)
    /\ Send(a, [type |-> "submit", team |-> Team[a]])
    /\ submitted' = IF Team[a] = NoTeam THEN submitted ELSE submitted \cup {Team[a]}
    /\ UNCHANGED <<open, down, late, known, step, kept, mgCode, pending,
                   ruled, heard, coded, faults>>

Press(a) ==
    /\ step[a] # NoStep
    /\ \E e \in ButtonEvents(step[a]) : step' = [step EXCEPT ![a] = NextStep(@, e)]
    /\ UNCHANGED <<sockets, kept, mgCode, pending, history, faults>>

Choose(a) ==
    /\ step[a] # NoStep
    /\ \E i \in DOMAIN Choices[step[a]] :
          step' = [step EXCEPT ![a] = ChoiceTarget(@, Choices[@][i].id)]
    /\ UNCHANGED <<sockets, kept, mgCode, pending, history, faults>>

\* Variant (mistake): the verdict advances the engine without its event.
ReceiveResultNoEvent(a) ==
    /\ down[a] # <<>>
    /\ Head(down[a]).type = "result"
    /\ heard' = [heard EXCEPT ![a] = @ \cup {Head(down[a]).decision}]
    /\ step' = IF AdvanceThrows(step[a]) THEN step
               ELSE [step EXCEPT ![a] = NextStep(@, NoEvent)]
    /\ down' = [down EXCEPT ![a] = Tail(@)]
    /\ UNCHANGED <<open, up, late, known, kept, mgCode, pending, submitted, ruled, coded, faults>>

\* access-result: the verdict is submitted to the engine as an event, at whatever
\* step the engine is; an exception of the engine ends in ws-client's onError.
ReceiveResult(a) ==
    /\ down[a] # <<>>
    /\ Head(down[a]).type = "result"
    /\ LET verdict == Head(down[a]).decision
       IN  /\ heard' = [heard EXCEPT ![a] = @ \cup {verdict}]
           /\ step' = IF AdvanceThrows(step[a]) THEN step
                      ELSE [step EXCEPT ![a] = NextStep(@, verdict)]
    /\ down' = [down EXCEPT ![a] = Tail(@)]
    /\ UNCHANGED <<open, up, late, known, kept, mgCode, pending, submitted, ruled, coded, faults>>

ReceiveCode(a) ==
    /\ down[a] # <<>>
    /\ Head(down[a]).type = "code"
    /\ mgCode' = [mgCode EXCEPT ![a] = Head(down[a]).code]
    /\ down' = [down EXCEPT ![a] = Tail(@)]
    /\ UNCHANGED <<open, up, late, known, step, kept, pending, history, faults>>

\* The main process serves the engine's last setSession (AssautDevice details it).
Persist(a) ==
    /\ kept[a] # step[a]
    /\ kept' = [kept EXCEPT ![a] = step[a]]
    /\ UNCHANGED <<sockets, step, mgCode, pending, history, faults>>

\* Force-kill and relaunch: the blob gives back the step it has, the code shown was
\* React state.
AssautRestart(a) ==
    /\ LoseSocket(a)
    /\ step' = [step EXCEPT ![a] = kept[a]]
    /\ mgCode' = [mgCode EXCEPT ![a] = NoCode]
    /\ UNCHANGED <<kept, pending, history>>

-----------------------------------------------------------------------------
(***************************************************************************)
(* Débriefing.                                                              *)
(***************************************************************************)
ReceivePending(g) ==
    /\ down[g] # <<>>
    /\ Head(down[g]).type = "pending"
    /\ pending' = [pending EXCEPT ![g] = @ \cup {Head(down[g]).team}]
    /\ down' = [down EXCEPT ![g] = Tail(@)]
    /\ UNCHANGED <<open, up, late, known, step, kept, mgCode, history, faults>>

\* Variant (mistake): a ruling for a team number the GM types, as setMgCode takes one.
DecideAnyTeam(g, t, decision) ==
    /\ CanSend(g)
    /\ Send(g, [type |-> "decision", team |-> t, decision |-> decision])
    /\ pending' = [pending EXCEPT ![g] = @ \ {t}]
    /\ ruled' = [ruled EXCEPT ![t] = @ \cup {decision}]
    /\ UNCHANGED <<open, down, late, known, step, kept, mgCode, submitted, heard, coded, faults>>

\* decideAccess: the entry leaves the list once the frame is sent.
DecideAccess(g, t, decision) ==
    /\ t \in pending[g]
    /\ CanSend(g)
    /\ Send(g, [type |-> "decision", team |-> t, decision |-> decision])
    /\ pending' = [pending EXCEPT ![g] = @ \ {t}]
    /\ ruled' = [ruled EXCEPT ![t] = @ \cup {decision}]
    /\ UNCHANGED <<open, down, late, known, step, kept, mgCode, submitted, heard, coded, faults>>

\* setMgCode: any team number, whether or not that team waits for a code.
SetMgCode(g, t, c) ==
    /\ CanSend(g)
    /\ Send(g, [type |-> "code-set", team |-> t, code |-> c])
    /\ coded' = [coded EXCEPT ![t] = @ \cup {c}]
    /\ UNCHANGED <<open, down, late, known, step, kept, mgCode, pending,
                   submitted, ruled, heard, faults>>

GmRestart(g) ==
    /\ LoseSocket(g)
    /\ pending' = [pending EXCEPT ![g] = {}]
    /\ UNCHANGED <<step, kept, mgCode, history>>

-----------------------------------------------------------------------------
Network ==
    \E d \in Devices : Connect(d) \/ Drop(d) \/ ForgetLate(d)

Server ==
    \/ \E d \in Devices : ServeHello(d) \/ ServeFrame(d) \/ ServeLate(d)
    \/ ServerRestart

AssautApp ==
    \E a \in Assaut : \/ SubmitAccessPoint(a) \/ Press(a) \/ Choose(a)
                      \/ ReceiveResult(a) \/ ReceiveCode(a)
                      \/ Persist(a) \/ AssautRestart(a)

GmApp ==
    \E g \in Gms : \/ ReceivePending(g) \/ GmRestart(g)
                   \/ \E t \in Teams, v \in Decisions : DecideAccess(g, t, v)
                   \/ \E t \in Teams, c \in Codes : SetMgCode(g, t, c)

Next == Network \/ Server \/ AssautApp \/ GmApp

Spec == Init /\ [][Next]_vars

(***************************************************************************)
(* Fairness.  The reconnect loop never gives up (ws-client.ts) and the      *)
(* event loops serve what they received.  The operators' part is the        *)
(* game's: a team that waits presses « Valider » again, a GM rules on what  *)
(* is listed.  Faults stop after MaxFaults.                                 *)
(***************************************************************************)
SystemFairness ==
    /\ \A d \in Devices : WF_vars(Connect(d)) /\ WF_vars(ServeHello(d))
                          /\ WF_vars(ServeFrame(d))
    /\ \A a \in Assaut : WF_vars(ReceiveResult(a)) /\ WF_vars(ReceiveCode(a))
    /\ \A g \in Gms : WF_vars(ReceivePending(g))

OperatorFairness ==
    /\ \A a \in Assaut : SF_vars(SubmitAccessPoint(a))
    /\ \A g \in Gms, t \in Teams : SF_vars(\E v \in Decisions : DecideAccess(g, t, v))

FairSpec == Spec /\ SystemFairness /\ OperatorFairness

-----------------------------------------------------------------------------
(***************************************************************************)
(* The gate of the flow: the steps up to the entry-point screen, and what   *)
(* sequence.json says of the way out of it.                                 *)
(***************************************************************************)
BeforeGate ==
    {Flow[i] : i \in {j \in DOMAIN Flow :
                        \A k \in DOMAIN Flow : Flow[k] = PointEntree => j <= k}}

ASSUME GateAssumption ==
    /\ PointValide \notin BeforeGate
    /\ Choices[PointEntree] = <<>>
    /\ NextStep(PointEntree, "approved") = PointValide
    /\ NextStep(PointEntree, "refused") = PointRefus
    /\ \A s \in BeforeGate \ {PointEntree} :
          /\ \A i \in DOMAIN Transitions[s] : Transitions[s][i].goto \in BeforeGate
          /\ \A i \in DOMAIN Choices[s] : Choices[s][i].goto \in BeforeGate \cup {NoStep}
    /\ \A s \in StepIds : LinearNext(s) = PointValide => s = PointEntree
    /\ \A s \in StepIds \ {PointEntree} : \A i \in DOMAIN Transitions[s] :
          Transitions[s][i].goto # PointValide
    /\ \A s \in StepIds : \A i \in DOMAIN Choices[s] : Choices[s][i].goto # PointValide

(***************************************************************************)
(* Safety.                                                                  *)
(***************************************************************************)
\* No team passes the entry-point screen unless its engine was given a verdict
\* (App.tsx onAccessResult): no screen button and no restart gets it through.
GateEarned ==
    \A a \in Assaut : step[a] \notin BeforeGate => heard[a] # {}

\* A verdict given to an engine was ruled by a GM for that installation's own
\* team (relayToTeam routes by teamId), and that team had submitted a point.
VerdictsTraced ==
    \A a \in Assaut : heard[a] # {} =>
        /\ Team[a] \in submitted
        /\ heard[a] \subseteq ruled[Team[a]]

\* The success screen is shown only to a team the GM approved.
ValidOnlyIfApproved ==
    \A a \in Assaut : step[a] = PointValide => "approved" \in heard[a]

\* A code on an Assaut screen was typed by a GM for that team (mg-code-set).
CodeFromGm ==
    \A a \in Assaut : mgCode[a] # NoCode => Team[a] \in Teams /\ mgCode[a] \in coded[Team[a]]

\* A GM's list only holds teams that submitted: a ruling is never about a team
\* that asked nothing, after any loss, restart or late frame.
ListedTeamsSubmitted ==
    \A g \in Gms : pending[g] \subseteq submitted

\* The loop implements the abstract gate.
Gate == INSTANCE AccessGate WITH
    TeamOf <- Team, submitted <- submitted, ruled <- ruled, heard <- heard
GateSpec == Gate!Spec

(***************************************************************************)
(* What App.tsx and sequence.json say the verdict routes to.                *)
(***************************************************************************)
\* "refused --> point-acces-refus --retry--> point-entree": a team is past the
\* entry-point, success and refusal screens only once the GM approved.
PastGateOnlyIfApproved ==
    \A a \in Assaut : step[a] \notin BeforeGate \cup {PointRefus} => "approved" \in heard[a]

(***************************************************************************)
(* Liveness.                                                                *)
(***************************************************************************)
\* A provisioned team at the entry-point screen eventually gets a verdict,
\* whatever was lost, since the team may press « Valider » again.
EntryResolved ==
    \A a \in Assaut : Team[a] # NoTeam =>
        (step[a] = PointEntree ~> step[a] # PointEntree)
=============================================================================
