-------------------------- MODULE AccessLoop_proofs --------------------------
(***************************************************************************)
(* Proofs about the access loop: for any number of installations, GM        *)
(* devices, teams and codes, any flow the config parser accepts, any bound  *)
(* on frames in flight and on faults.                                       *)
(*                                                                          *)
(* The invariants about what the applications show are not inductive: what  *)
(* a device shows was a frame first, so the strengthening says where every  *)
(* frame in flight, on a live socket or a dead one, comes from.             *)
(***************************************************************************)
EXTENDS AccessLoop, AssautSequence_proofs

(***************************************************************************)
(* Frames that say what happened.                                           *)
(***************************************************************************)
\* A submission, a ruling or a code on its way to the server was made.
TracedUp ==
    HelloFrames
    \cup {f \in SubmitFrames : f.team # NoTeam => f.team \in submitted}
    \cup {f \in DecisionFrames : f.decision \in ruled[f.team]}
    \cup {f \in CodeSetFrames : f.code \in coded[f.team]}

\* What is on its way to a device was made, and by or for its team.
TracedDown(d) ==
    {f \in PendingFrames : f.team \in submitted}
    \cup {f \in ResultFrames : /\ d \in Assaut /\ Team[d] \in Teams
                               /\ f.decision \in ruled[Team[d]]}
    \cup {f \in CodeFrames : /\ d \in Assaut /\ Team[d] \in Teams
                             /\ f.code \in coded[Team[d]]}

FramesTraced ==
    /\ up \in [Devices -> Seq(TracedUp)]
    /\ late \in [Devices -> Seq(TracedUp)]
    /\ down = [d \in Devices |-> down[d]]
    /\ \A d \in Devices : down[d] \in Seq(TracedDown(d))

\* A GM only rules on a team of its list, and the list on submissions.
RulingsAsked == \A t \in Teams : ruled[t] # {} => t \in submitted

HeardTraced ==
    \A a \in Assaut : heard[a] # {} =>
        Team[a] \in Teams /\ heard[a] \subseteq ruled[Team[a]]

\* The part of TypeOK that is not about frames.
ScalarsOK ==
    /\ open \in [Devices -> BOOLEAN] /\ known \in [Devices -> BOOLEAN]
    /\ step \in [Assaut -> StepIds \cup {NoStep}]
    /\ kept \in [Assaut -> StepIds \cup {NoStep}]
    /\ mgCode \in [Assaut -> Codes \cup {NoCode}]
    /\ pending \in [Gms -> SUBSET Teams]
    /\ submitted \in SUBSET Teams
    /\ ruled \in [Teams -> SUBSET Decisions]
    /\ heard \in [Assaut -> SUBSET Decisions]
    /\ coded \in [Teams -> SUBSET Codes]
    /\ faults \in Nat

History == RulingsAsked /\ HeardTraced /\ ListedTeamsSubmitted /\ CodeFromGm

TracedInv == ScalarsOK /\ FramesTraced /\ History

-----------------------------------------------------------------------------
(***************************************************************************)
(* Queues.                                                                  *)
(***************************************************************************)
\* Appending a frame, taking the first one and joining two queues keep their type.
LEMMA QueueOps ==
    ASSUME NEW S, NEW q \in Seq(S)
    PROVE  /\ <<>> \in Seq(S)
           /\ \A x \in S : Append(q, x) \in Seq(S)
           /\ \A r \in Seq(S) : q \o r \in Seq(S)
           /\ q # <<>> => Head(q) \in S /\ Tail(q) \in Seq(S)
<1>1. <<>> \in Seq(S) /\ \A x \in S : Append(q, x) \in Seq(S)
  BY EmptySeq, AppendProperties
<1>2. \A r \in Seq(S) : q \o r \in Seq(S)
  BY ConcatProperties
<1>3. q # <<>> => Head(q) \in S /\ Tail(q) \in Seq(S)
  BY HeadTailProperties
<1> QED
  BY <1>1, <1>2, <1>3

\* What happened stays so: traced frames stay traced as the history grows.
LEMMA TracedGrows ==
    ASSUME submitted \subseteq submitted',
           \A t \in Teams : ruled[t] \subseteq ruled'[t],
           \A t \in Teams : coded[t] \subseteq coded'[t]
    PROVE  /\ Seq(TracedUp) \subseteq Seq(TracedUp')
           /\ \A d \in Devices : Seq(TracedDown(d)) \subseteq Seq(TracedDown(d)')
<1>1. TracedUp \subseteq TracedUp'
  BY DEF TracedUp, HelloFrames, SubmitFrames, DecisionFrames, CodeSetFrames
<1>2. \A d \in Devices : TracedDown(d) \subseteq TracedDown(d)'
  BY DEF TracedDown, PendingFrames, ResultFrames, CodeFrames
<1>3. Seq(TracedUp) \subseteq Seq(TracedUp')
  BY <1>1, SeqMonotonic
<1>4. ASSUME NEW d \in Devices
      PROVE  Seq(TracedDown(d)) \subseteq Seq(TracedDown(d)')
  BY <1>2, SeqMonotonic
<1> QED
  BY <1>3, <1>4

\* Without a new submission, ruling or code, what counts as traced is the same.
LEMMA TracedSame ==
    ASSUME UNCHANGED <<submitted, ruled, coded>>
    PROVE  /\ TracedUp' = TracedUp
           /\ \A d \in Devices : TracedDown(d)' = TracedDown(d)
BY DEF TracedUp, TracedDown, HelloFrames, SubmitFrames, DecisionFrames, CodeSetFrames,
       PendingFrames, ResultFrames, CodeFrames

\* Traced frames are frames of the protocol.
LEMMA TracedType == TracedInv => TypeOK
<1> SUFFICES ASSUME TracedInv PROVE TypeOK
  OBVIOUS
<1>1. TracedUp \subseteq UpFrames
  BY DEF TracedUp, UpFrames
<1>2. \A d \in Devices : TracedDown(d) \subseteq DownFrames
  BY DEF TracedDown, DownFrames
<1>3. Seq(TracedUp) \subseteq Seq(UpFrames)
  BY <1>1, SeqMonotonic
<1>4. \A d \in Devices : down[d] \in Seq(DownFrames)
  <2>1. TAKE d \in Devices
  <2>2. Seq(TracedDown(d)) \subseteq Seq(DownFrames)
    BY <1>2, SeqMonotonic
  <2> QED
    BY <2>2 DEF TracedInv, FramesTraced
<1>5. up \in [Devices -> Seq(UpFrames)] /\ late \in [Devices -> Seq(UpFrames)]
  BY <1>3 DEF TracedInv, FramesTraced
<1>6. down \in [Devices -> Seq(DownFrames)]
  BY <1>4 DEF TracedInv, FramesTraced
<1> QED
  BY <1>5, <1>6 DEF TypeOK, TracedInv, ScalarsOK

-----------------------------------------------------------------------------
(***************************************************************************)
(* The invariant holds at the start, and of the sockets' own steps.         *)
(***************************************************************************)
\* Nothing is in flight and nothing has happened at the start.
LEMMA TracedInit == Init => TracedInv
<1> SUFFICES ASSUME Init PROVE TracedInv
  OBVIOUS
<1>1. ScalarsOK
  <2>1. Flow[1] \in StepIds
    BY FlowSequence DEF StepIds
  <2> QED
    BY <2>1 DEF Init, ScalarsOK, CreateSession
<1>2. FramesTraced
  BY EmptySeq DEF Init, FramesTraced
<1>3. History
  BY DEF Init, History, RulingsAsked, HeardTraced, ListedTeamsSubmitted, CodeFromGm
<1> QED
  BY <1>1, <1>2, <1>3 DEF TracedInv

\* Steps of the sockets alone: frames move or go, the applications do not.
LEMMA SocketsStep ==
    ASSUME TracedInv, UNCHANGED <<mgCode, pending, history>>,
           open' \in [Devices -> BOOLEAN], known' \in [Devices -> BOOLEAN],
           step' \in [Assaut -> StepIds \cup {NoStep}],
           kept' \in [Assaut -> StepIds \cup {NoStep}], faults' \in Nat,
           up' \in [Devices -> Seq(TracedUp)],
           late' \in [Devices -> Seq(TracedUp)],
           down' = [d \in Devices |-> down'[d]],
           \A d \in Devices : down'[d] \in Seq(TracedDown(d))
    PROVE  TracedInv'
<1>1. TracedUp' = TracedUp /\ \A d \in Devices : TracedDown(d)' = TracedDown(d)
  BY TracedSame DEF history
<1>2. ScalarsOK'
  BY DEF TracedInv, ScalarsOK, history
<1>3. FramesTraced'
  BY <1>1 DEF FramesTraced
<1>4. History'
  BY DEF TracedInv, History, RulingsAsked, HeardTraced, ListedTeamsSubmitted, CodeFromGm,
         history
<1> QED
  BY <1>2, <1>3, <1>4 DEF TracedInv

\* Opening a socket puts a hello, and nothing else, on its way.
LEMMA ConnectTraced ==
    ASSUME TracedInv, NEW d \in Devices, Connect(d)
    PROVE  TracedInv'
<1>1. <<[type |-> "hello"]>> \in Seq(TracedUp)
  <2>1. [type |-> "hello"] \in TracedUp
    BY DEF TracedUp, HelloFrames
  <2> QED
    BY <2>1
<1>2. up' \in [Devices -> Seq(TracedUp)]
  BY <1>1 DEF TracedInv, FramesTraced, Connect
<1>3. UNCHANGED <<mgCode, pending, history>> /\ step' = step /\ kept' = kept
      /\ faults' = faults /\ late' = late /\ down' = down /\ known' = known
  BY DEF Connect
<1>4. open' \in [Devices -> BOOLEAN]
  BY DEF Connect, TracedInv, ScalarsOK
<1> QED
  BY <1>2, <1>3, <1>4, SocketsStep DEF TracedInv, ScalarsOK, FramesTraced

\* Frames of a socket that dies are lost or still read later: either way traced.
LEMMA LoseSocketTraced ==
    ASSUME TracedInv, NEW d \in Devices, LoseSocket(d)
    PROVE  /\ open' \in [Devices -> BOOLEAN] /\ known' \in [Devices -> BOOLEAN]
           /\ faults' \in Nat
           /\ up' \in [Devices -> Seq(TracedUp)]
           /\ late' \in [Devices -> Seq(TracedUp)]
           /\ down' = [e \in Devices |-> down'[e]]
           /\ \A e \in Devices : down'[e] \in Seq(TracedDown(e))
<1>1. open' \in [Devices -> BOOLEAN] /\ known' \in [Devices -> BOOLEAN] /\ faults' \in Nat
  BY DEF TracedInv, ScalarsOK, LoseSocket
<1>2. <<>> \in Seq(TracedUp) /\ \A e \in Devices : <<>> \in Seq(TracedDown(e))
  BY EmptySeq
<1>3. late[d] \o up[d] \in Seq(TracedUp)
  BY QueueOps DEF TracedInv, FramesTraced
<1>4. up' \in [Devices -> Seq(TracedUp)] /\ late' \in [Devices -> Seq(TracedUp)]
  BY <1>2, <1>3 DEF TracedInv, FramesTraced, LoseSocket
<1>5. /\ down' = [e \in Devices |-> down'[e]]
      /\ \A e \in Devices : down'[e] \in Seq(TracedDown(e))
  BY <1>2 DEF TracedInv, FramesTraced, LoseSocket
<1> QED
  BY <1>1, <1>4, <1>5

\* The network only moves or loses frames.
LEMMA NetworkTraced ==
    ASSUME TracedInv, Network
    PROVE  TracedInv'
<1> PICK d \in Devices : Connect(d) \/ Drop(d) \/ ForgetLate(d)
  BY DEF Network
<1>1. CASE Connect(d)
  BY <1>1, ConnectTraced
<1>2. CASE Drop(d)
  <2>1. UNCHANGED <<mgCode, pending, history>> /\ step' = step /\ kept' = kept
    BY <1>2 DEF Drop
  <2> QED
    BY <1>2, <2>1, LoseSocketTraced, SocketsStep DEF Drop, TracedInv, ScalarsOK
<1>3. CASE ForgetLate(d)
  <2>1. late' \in [Devices -> Seq(TracedUp)]
    BY <1>3, EmptySeq DEF ForgetLate, TracedInv, FramesTraced
  <2> QED
    BY <1>3, <2>1, SocketsStep DEF ForgetLate, TracedInv, ScalarsOK, FramesTraced
<1> QED
  BY <1>1, <1>2, <1>3

-----------------------------------------------------------------------------
(***************************************************************************)
(* The server: what it forwards is traced for each of the recipients.       *)
(***************************************************************************)
DownTraced(queues) ==
    /\ queues = [d \in Devices |-> queues[d]]
    /\ \A d \in Devices : queues[d] \in Seq(TracedDown(d))

\* A frame forwarded to devices it is traced for keeps every queue traced.
LEMMA ForwardTraced ==
    ASSUME TracedInv, NEW frame, NEW recipients \in SUBSET Devices,
           \A d \in recipients : frame \in TracedDown(d),
           Forward(recipients, frame)
    PROVE  DownTraced(down')
<1>1. \A d \in recipients : Append(down[d], frame) \in Seq(TracedDown(d))
  BY QueueOps DEF TracedInv, FramesTraced
<1>2. down' = [d \in Devices |->
                  IF d \in recipients THEN Append(down[d], frame) ELSE down[d]]
  BY DEF Forward
<1>3. down' = [d \in Devices |-> down'[d]]
  BY <1>2
<1>4. ASSUME NEW d \in Devices
      PROVE  down'[d] \in Seq(TracedDown(d))
  <2>1. down'[d] = IF d \in recipients THEN Append(down[d], frame) ELSE down[d]
    BY <1>2
  <2>2. down[d] \in Seq(TracedDown(d))
    BY DEF TracedInv, FramesTraced
  <2> QED
    BY <1>1, <2>1, <2>2
<1> QED
  BY <1>3, <1>4 DEF DownTraced

\* handleAppMessage forwards what it read to devices it is traced for.
LEMMA ServeTraced ==
    ASSUME TracedInv, NEW frame \in TracedUp, Serve(frame)
    PROVE  DownTraced(down')
<1>1. CASE frame.type = "submit" /\ frame.team = NoTeam /\ UNCHANGED down
  BY <1>1 DEF TracedInv, FramesTraced, DownTraced
<1>2. CASE /\ frame.type = "submit" /\ frame.team # NoTeam
           /\ BroadcastToGms([type |-> "pending", team |-> frame.team])
  <2> DEFINE msg == [type |-> "pending", team |-> frame.team]
             gms == {g \in Gms : open[g] /\ known[g]}
  <2>1. frame.team \in Teams /\ frame.team \in submitted
    BY <1>2 DEF TracedUp, HelloFrames, SubmitFrames, DecisionFrames, CodeSetFrames
  <2>2. \A d \in gms : msg \in TracedDown(d)
    BY <2>1 DEF TracedDown, PendingFrames
  <2>3. gms \in SUBSET Devices
    BY DEF Devices
  <2>4. Forward(gms, msg)
    BY <1>2 DEF BroadcastToGms
  <2> HIDE DEF msg, gms
  <2> QED
    BY <2>2, <2>3, <2>4, ForwardTraced
<1>3. CASE /\ frame.type = "decision"
           /\ RelayToTeam(frame.team, [type |-> "result", decision |-> frame.decision])
  <2> DEFINE msg == [type |-> "result", decision |-> frame.decision]
             ours == {a \in Assaut : open[a] /\ known[a] /\ Team[a] = frame.team}
  <2>1. /\ frame.team \in Teams /\ frame.decision \in Decisions
        /\ frame.decision \in ruled[frame.team]
    BY <1>3 DEF TracedUp, HelloFrames, SubmitFrames, DecisionFrames, CodeSetFrames
  <2>2. \A d \in ours : msg \in TracedDown(d)
    BY <2>1 DEF TracedDown, ResultFrames
  <2>3. ours \in SUBSET Devices
    BY DEF Devices
  <2>4. Forward(ours, msg)
    BY <1>3 DEF RelayToTeam
  <2> HIDE DEF msg, ours
  <2> QED
    BY <2>2, <2>3, <2>4, ForwardTraced
<1>4. CASE /\ frame.type = "code-set"
           /\ RelayToTeam(frame.team, [type |-> "code", code |-> frame.code])
  <2> DEFINE msg == [type |-> "code", code |-> frame.code]
             ours == {a \in Assaut : open[a] /\ known[a] /\ Team[a] = frame.team}
  <2>1. frame.team \in Teams /\ frame.code \in Codes /\ frame.code \in coded[frame.team]
    BY <1>4 DEF TracedUp, HelloFrames, SubmitFrames, DecisionFrames, CodeSetFrames
  <2>2. \A d \in ours : msg \in TracedDown(d)
    BY <2>1 DEF TracedDown, CodeFrames
  <2>3. ours \in SUBSET Devices
    BY DEF Devices
  <2>4. Forward(ours, msg)
    BY <1>4 DEF RelayToTeam
  <2> HIDE DEF msg, ours
  <2> QED
    BY <2>2, <2>3, <2>4, ForwardTraced
<1> QED
  BY <1>1, <1>2, <1>3, <1>4 DEF Serve

\* No action of the server, a restart included, invents a frame.
LEMMA ServerTraced ==
    ASSUME TracedInv, Server
    PROVE  TracedInv'
<1>1. ASSUME NEW d \in Devices, ServeHello(d)
      PROVE  TracedInv'
  <2>1. up' \in [Devices -> Seq(TracedUp)]
    BY <1>1, QueueOps DEF ServeHello, TracedInv, FramesTraced
  <2>2. known' \in [Devices -> BOOLEAN]
    BY <1>1 DEF ServeHello, TracedInv, ScalarsOK
  <2> QED
    BY <1>1, <2>1, <2>2, SocketsStep DEF ServeHello, TracedInv, ScalarsOK, FramesTraced
<1>2. ASSUME NEW d \in Devices, ServeFrame(d)
      PROVE  TracedInv'
  <2>1. up[d] \in Seq(TracedUp) /\ up[d] # <<>>
    BY <1>2 DEF ServeFrame, TracedInv, FramesTraced
  <2>2. Head(up[d]) \in TracedUp /\ Tail(up[d]) \in Seq(TracedUp)
    BY <2>1, QueueOps
  <2>3. DownTraced(down')
    BY <1>2, <2>2, ServeTraced DEF ServeFrame
  <2>4. up' \in [Devices -> Seq(TracedUp)]
    BY <1>2, <2>2 DEF ServeFrame, TracedInv, FramesTraced
  <2>5. /\ UNCHANGED <<mgCode, pending, history>> /\ open' = open /\ known' = known
        /\ step' = step /\ kept' = kept /\ faults' = faults /\ late' = late
    BY <1>2 DEF ServeFrame
  <2> QED
    BY <2>3, <2>4, <2>5, SocketsStep DEF DownTraced, TracedInv, ScalarsOK, FramesTraced
<1>3. ASSUME NEW d \in Devices, ServeLate(d)
      PROVE  TracedInv'
  <2>1. late[d] \in Seq(TracedUp) /\ late[d] # <<>>
    BY <1>3 DEF ServeLate, TracedInv, FramesTraced
  <2>2. Head(late[d]) \in TracedUp /\ Tail(late[d]) \in Seq(TracedUp)
    BY <2>1, QueueOps
  <2>3. DownTraced(down')
    <3>1. CASE UNCHANGED down
      BY <3>1 DEF DownTraced, TracedInv, FramesTraced
    <3>2. CASE Serve(Head(late[d]))
      BY <2>2, <3>2, ServeTraced
    <3> QED
      BY <1>3, <3>1, <3>2 DEF ServeLate
  <2>4. late' \in [Devices -> Seq(TracedUp)]
    BY <1>3, <2>2 DEF ServeLate, TracedInv, FramesTraced
  <2>5. /\ UNCHANGED <<mgCode, pending, history>> /\ open' = open /\ known' = known
        /\ step' = step /\ kept' = kept /\ faults' = faults /\ up' = up
    BY <1>3 DEF ServeLate
  <2> QED
    BY <2>3, <2>4, <2>5, SocketsStep DEF DownTraced, TracedInv, ScalarsOK, FramesTraced
<1>4. CASE ServerRestart
  <2>1. open' \in [Devices -> BOOLEAN] /\ known' \in [Devices -> BOOLEAN] /\ faults' \in Nat
    BY <1>4 DEF ServerRestart, TracedInv, ScalarsOK
  <2>2. /\ up' \in [Devices -> Seq(TracedUp)] /\ late' \in [Devices -> Seq(TracedUp)]
        /\ DownTraced(down')
    BY <1>4, EmptySeq DEF ServerRestart, DownTraced
  <2>3. UNCHANGED <<mgCode, pending, history>> /\ step' = step /\ kept' = kept
    BY <1>4 DEF ServerRestart
  <2> QED
    BY <2>1, <2>2, <2>3, SocketsStep DEF DownTraced, TracedInv, ScalarsOK
<1> QED
  BY <1>1, <1>2, <1>3, <1>4 DEF Server

-----------------------------------------------------------------------------
(***************************************************************************)
(* The applications.                                                        *)
(***************************************************************************)
LEMMA SubmitAccessPointTraced ==
    ASSUME TracedInv, NEW a \in Assaut, SubmitAccessPoint(a)
    PROVE  TracedInv'
<1> DEFINE frame == [type |-> "submit", team |-> Team[a]]
<1>1. Team[a] \in Teams \cup {NoTeam}
  BY ActorsAssumption
<1>2. /\ submitted \subseteq submitted' /\ submitted' \subseteq Teams
      /\ Team[a] # NoTeam => Team[a] \in submitted'
  BY <1>1 DEF SubmitAccessPoint, TracedInv, ScalarsOK
<1>3. frame \in TracedUp'
  BY <1>1, <1>2 DEF TracedUp, SubmitFrames
<1>4. /\ Seq(TracedUp) \subseteq Seq(TracedUp')
      /\ \A d \in Devices : Seq(TracedDown(d)) \subseteq Seq(TracedDown(d)')
  BY <1>2, TracedGrows DEF SubmitAccessPoint
<1>5. Append(up[a], frame) \in Seq(TracedUp')
  <2>1. up[a] \in Seq(TracedUp')
    BY <1>4 DEF TracedInv, FramesTraced, Devices
  <2> HIDE DEF frame
  <2> QED
    BY <1>3, <2>1, AppendProperties
<1>6. FramesTraced'
  <2>1. up' = [up EXCEPT ![a] = Append(@, frame)]
    BY DEF SubmitAccessPoint, Send
  <2>2. up' \in [Devices -> Seq(TracedUp')]
    BY <1>4, <1>5, <2>1 DEF TracedInv, FramesTraced, Devices
  <2>3. late' = late /\ down' = down
    BY DEF SubmitAccessPoint
  <2> QED
    BY <1>4, <2>2, <2>3 DEF TracedInv, FramesTraced
<1>7. ScalarsOK'
  BY <1>2 DEF SubmitAccessPoint, TracedInv, ScalarsOK
<1>8. History'
  BY <1>2 DEF SubmitAccessPoint, TracedInv, History, RulingsAsked, HeardTraced,
              ListedTeamsSubmitted, CodeFromGm
<1> QED
  BY <1>6, <1>7, <1>8 DEF TracedInv

\* A screen button moves the engine within the flow and touches nothing else.
LEMMA PressTraced ==
    ASSUME TracedInv, NEW a \in Assaut, Press(a)
    PROVE  TracedInv'
<1>1. PICK e : step' = [step EXCEPT ![a] = NextStep(@, e)]
  BY DEF Press
<1>2. step[a] \in StepIds
  BY DEF Press, TracedInv, ScalarsOK
<1>3. step' \in [Assaut -> StepIds \cup {NoStep}]
  BY <1>1, <1>2, NextStepType DEF TracedInv, ScalarsOK
<1> QED
  BY <1>3, SocketsStep DEF Press, sockets, TracedInv, ScalarsOK, FramesTraced

\* A choice moves the engine within the flow and touches nothing else.
LEMMA ChooseTraced ==
    ASSUME TracedInv, NEW a \in Assaut, Choose(a)
    PROVE  TracedInv'
<1>1. PICK i \in DOMAIN Choices[step[a]] :
         step' = [step EXCEPT ![a] = ChoiceTarget(@, Choices[@][i].id)]
  BY DEF Choose
<1>2. step[a] \in StepIds
  BY DEF Choose, TracedInv, ScalarsOK
<1>3. ChoiceMatches(step[a], Choices[step[a]][i].id) # {}
  BY DEF ChoiceMatches
<1>4. step' \in [Assaut -> StepIds \cup {NoStep}]
  BY <1>1, <1>2, <1>3, ChoiceTargetType DEF TracedInv, ScalarsOK
<1> QED
  BY <1>4, SocketsStep DEF Choose, sockets, TracedInv, ScalarsOK, FramesTraced

\* What a device reads is traced, and what remains too.
LEMMA ReadTraced ==
    ASSUME TracedInv, NEW d \in Devices, down[d] # <<>>,
           down' = [down EXCEPT ![d] = Tail(@)]
    PROVE  Head(down[d]) \in TracedDown(d) /\ DownTraced(down')
<1>1. down[d] \in Seq(TracedDown(d))
  BY DEF TracedInv, FramesTraced
<1>2. Head(down[d]) \in TracedDown(d) /\ Tail(down[d]) \in Seq(TracedDown(d))
  BY <1>1, QueueOps
<1> QED
  BY <1>2 DEF DownTraced, TracedInv, FramesTraced

\* Steps that read a frame keep the frames in flight traced.
LEMMA ReadFrames ==
    ASSUME TracedInv, UNCHANGED <<submitted, ruled, coded>>, UNCHANGED <<up, late>>,
           DownTraced(down')
    PROVE  FramesTraced'
<1>1. TracedUp' = TracedUp /\ \A d \in Devices : TracedDown(d)' = TracedDown(d)
  BY TracedSame
<1> QED
  BY <1>1 DEF TracedInv, FramesTraced, DownTraced

\* A verdict read from a socket was ruled for that team (onAccessResult).
LEMMA ReceiveResultTraced ==
    ASSUME TracedInv, NEW a \in Assaut, ReceiveResult(a)
    PROVE  TracedInv'
<1> DEFINE verdict == Head(down[a]).decision
<1>1. Head(down[a]) \in TracedDown(a) /\ DownTraced(down')
  BY ReadTraced DEF ReceiveResult, Devices
<1>2. Team[a] \in Teams /\ verdict \in Decisions /\ verdict \in ruled[Team[a]]
  BY <1>1 DEF ReceiveResult, TracedDown, PendingFrames, ResultFrames, CodeFrames
<1>3. FramesTraced'
  BY <1>1, ReadFrames DEF ReceiveResult
<1>4. step' \in [Assaut -> StepIds \cup {NoStep}]
  <2>1. CASE AdvanceThrows(step[a])
    BY <2>1 DEF ReceiveResult, TracedInv, ScalarsOK
  <2>2. CASE ~AdvanceThrows(step[a])
    <3>1. step[a] \in StepIds
      BY <2>2 DEF AdvanceThrows, TracedInv, ScalarsOK
    <3>2. step' = [step EXCEPT ![a] = NextStep(@, verdict)]
      BY <2>2 DEF ReceiveResult
    <3> HIDE DEF verdict
    <3> QED
      BY <3>1, <3>2, NextStepType DEF TracedInv, ScalarsOK
  <2> QED
    BY <2>1, <2>2
<1>5. heard' = [heard EXCEPT ![a] = @ \cup {verdict}]
  BY DEF ReceiveResult
<1>6. ScalarsOK'
  BY <1>2, <1>4, <1>5 DEF ReceiveResult, TracedInv, ScalarsOK
<1>7. HeardTraced'
  BY <1>2, <1>5 DEF ReceiveResult, TracedInv, ScalarsOK, History, HeardTraced
<1>8. RulingsAsked' /\ ListedTeamsSubmitted' /\ CodeFromGm'
  BY DEF ReceiveResult, TracedInv, History, RulingsAsked, ListedTeamsSubmitted, CodeFromGm
<1> QED
  BY <1>3, <1>6, <1>7, <1>8 DEF TracedInv, History

\* A code read from a socket was typed for that team (onMgCode).
LEMMA ReceiveCodeTraced ==
    ASSUME TracedInv, NEW a \in Assaut, ReceiveCode(a)
    PROVE  TracedInv'
<1>1. Head(down[a]) \in TracedDown(a) /\ DownTraced(down')
  BY ReadTraced DEF ReceiveCode, Devices
<1>2. /\ Team[a] \in Teams /\ Head(down[a]).code \in Codes
      /\ Head(down[a]).code \in coded[Team[a]]
  BY <1>1 DEF ReceiveCode, TracedDown, PendingFrames, ResultFrames, CodeFrames
<1>3. FramesTraced'
  BY <1>1, ReadFrames DEF ReceiveCode, history
<1>4. ScalarsOK'
  BY <1>2 DEF ReceiveCode, history, TracedInv, ScalarsOK
<1>5. CodeFromGm'
  BY <1>2 DEF ReceiveCode, history, TracedInv, ScalarsOK, History, CodeFromGm
<1>6. RulingsAsked' /\ ListedTeamsSubmitted' /\ HeardTraced'
  BY DEF ReceiveCode, history, TracedInv, History, RulingsAsked, ListedTeamsSubmitted,
         HeardTraced
<1> QED
  BY <1>3, <1>4, <1>5, <1>6 DEF TracedInv, History

\* A restart keeps the history and the disk, and forgets what was only on screen.
LEMMA RestartTraced ==
    ASSUME TracedInv, NEW d \in Devices, LoseSocket(d), UNCHANGED <<kept, history>>,
           step' \in [Assaut -> StepIds \cup {NoStep}],
           mgCode' \in [Assaut -> Codes \cup {NoCode}],
           \A a \in Assaut : mgCode'[a] \in {mgCode[a], NoCode},
           pending' \in [Gms -> SUBSET Teams],
           \A g \in Gms : pending'[g] \subseteq pending[g]
    PROVE  TracedInv'
<1>1. TracedUp' = TracedUp /\ \A e \in Devices : TracedDown(e)' = TracedDown(e)
  BY TracedSame DEF history
<1>2. FramesTraced'
  BY <1>1, LoseSocketTraced DEF FramesTraced
<1>3. ScalarsOK'
  BY LoseSocketTraced DEF TracedInv, ScalarsOK, history
<1>4. History'
  BY DEF TracedInv, History, RulingsAsked, HeardTraced, ListedTeamsSubmitted, CodeFromGm,
         history
<1> QED
  BY <1>2, <1>3, <1>4 DEF TracedInv

\* Every action of an Assaut installation preserves the invariant.
LEMMA AssautAppTraced ==
    ASSUME TracedInv, AssautApp
    PROVE  TracedInv'
<1> PICK a \in Assaut : \/ SubmitAccessPoint(a) \/ Press(a) \/ Choose(a)
                        \/ ReceiveResult(a) \/ ReceiveCode(a)
                        \/ Persist(a) \/ AssautRestart(a)
  BY DEF AssautApp
<1>1. CASE SubmitAccessPoint(a)
  BY <1>1, SubmitAccessPointTraced
<1>2. CASE Press(a)
  BY <1>2, PressTraced
<1>3. CASE Choose(a)
  BY <1>3, ChooseTraced
<1>4. CASE ReceiveResult(a)
  BY <1>4, ReceiveResultTraced
<1>5. CASE ReceiveCode(a)
  BY <1>5, ReceiveCodeTraced
<1>6. CASE AssautRestart(a)
  <2>1. /\ mgCode' \in [Assaut -> Codes \cup {NoCode}]
        /\ \A b \in Assaut : mgCode'[b] \in {mgCode[b], NoCode}
    BY <1>6 DEF AssautRestart, TracedInv, ScalarsOK
  <2>2. a \in Devices /\ LoseSocket(a) /\ UNCHANGED <<kept, history>> /\ pending' = pending
    BY <1>6 DEF AssautRestart, Devices
  <2>3. step' \in [Assaut -> StepIds \cup {NoStep}]
    BY <1>6 DEF AssautRestart, TracedInv, ScalarsOK
  <2> QED
    BY <2>1, <2>2, <2>3, RestartTraced DEF TracedInv, ScalarsOK
<1>7. CASE Persist(a)
  <2>1. kept' \in [Assaut -> StepIds \cup {NoStep}]
    BY <1>7 DEF Persist, TracedInv, ScalarsOK
  <2> QED
    BY <1>7, <2>1, SocketsStep DEF Persist, sockets, TracedInv, ScalarsOK, FramesTraced
<1> QED
  BY <1>1, <1>2, <1>3, <1>4, <1>5, <1>6, <1>7

\* A submission that reaches a GM list was made (onMessage, access-pending).
LEMMA ReceivePendingTraced ==
    ASSUME TracedInv, NEW g \in Gms, ReceivePending(g)
    PROVE  TracedInv'
<1>1. Head(down[g]) \in TracedDown(g) /\ DownTraced(down')
  BY ReadTraced DEF ReceivePending, Devices
<1>2. Head(down[g]).team \in Teams /\ Head(down[g]).team \in submitted
  BY <1>1 DEF ReceivePending, TracedDown, PendingFrames, ResultFrames, CodeFrames
<1>3. FramesTraced'
  BY <1>1, ReadFrames DEF ReceivePending, history
<1>4. ScalarsOK'
  BY <1>2 DEF ReceivePending, history, TracedInv, ScalarsOK
<1>5. ListedTeamsSubmitted'
  BY <1>2 DEF ReceivePending, history, TracedInv, ScalarsOK, History, ListedTeamsSubmitted
<1>6. RulingsAsked' /\ CodeFromGm' /\ HeardTraced'
  BY DEF ReceivePending, history, TracedInv, History, RulingsAsked, CodeFromGm, HeardTraced
<1> QED
  BY <1>3, <1>4, <1>5, <1>6 DEF TracedInv, History

\* A frame the GM sends records what it says in the history first.
LEMMA GmSendTraced ==
    ASSUME TracedInv, NEW g \in Gms, NEW frame, Send(g, frame),
           UNCHANGED <<submitted, late, down>>,
           \A t \in Teams : ruled[t] \subseteq ruled'[t],
           \A t \in Teams : coded[t] \subseteq coded'[t],
           frame \in TracedUp'
    PROVE  FramesTraced'
<1>1. /\ Seq(TracedUp) \subseteq Seq(TracedUp')
      /\ \A d \in Devices : Seq(TracedDown(d)) \subseteq Seq(TracedDown(d)')
  BY TracedGrows
<1>2. g \in Devices /\ up[g] \in Seq(TracedUp')
  BY <1>1 DEF TracedInv, FramesTraced, Devices
<1>3. Append(up[g], frame) \in Seq(TracedUp')
  BY <1>2, AppendProperties
<1>4. up' \in [Devices -> Seq(TracedUp')]
  BY <1>1, <1>2, <1>3 DEF TracedInv, FramesTraced, Send
<1> QED
  BY <1>1, <1>4 DEF TracedInv, FramesTraced

\* A ruling is about a listed team, so one that submitted (decideAccess).
LEMMA DecideAccessTraced ==
    ASSUME TracedInv, NEW g \in Gms, NEW t \in Teams, NEW v \in Decisions,
           DecideAccess(g, t, v)
    PROVE  TracedInv'
<1> DEFINE frame == [type |-> "decision", team |-> t, decision |-> v]
<1>1. ruled' = [ruled EXCEPT ![t] = @ \cup {v}] /\ UNCHANGED <<submitted, coded, heard>>
  BY DEF DecideAccess
<1>2. (\A s \in Teams : ruled[s] \subseteq ruled'[s]) /\ v \in ruled'[t]
  BY <1>1 DEF TracedInv, ScalarsOK
<1>3. frame \in TracedUp'
  BY <1>2 DEF TracedUp, DecisionFrames
<1>4. FramesTraced'
  <2> HIDE DEF frame
  <2>1. Send(g, frame)
    BY DEF DecideAccess, frame
  <2> QED
    BY <1>1, <1>2, <1>3, <2>1, GmSendTraced DEF DecideAccess
<1>5. t \in submitted
  BY DEF DecideAccess, TracedInv, History, ListedTeamsSubmitted
<1>6. ScalarsOK'
  BY DEF DecideAccess, TracedInv, ScalarsOK
<1>7. RulingsAsked'
  BY <1>1, <1>5 DEF TracedInv, ScalarsOK, History, RulingsAsked
<1>8. HeardTraced'
  BY <1>1, <1>2 DEF TracedInv, History, HeardTraced
<1>9. ListedTeamsSubmitted' /\ CodeFromGm'
  BY DEF DecideAccess, TracedInv, ScalarsOK, History, ListedTeamsSubmitted, CodeFromGm
<1> QED
  BY <1>4, <1>6, <1>7, <1>8, <1>9 DEF TracedInv, History

\* A code is recorded for its team as it is sent (setMgCode).
LEMMA SetMgCodeTraced ==
    ASSUME TracedInv, NEW g \in Gms, NEW t \in Teams, NEW c \in Codes,
           SetMgCode(g, t, c)
    PROVE  TracedInv'
<1> DEFINE frame == [type |-> "code-set", team |-> t, code |-> c]
<1>1. /\ coded' = [coded EXCEPT ![t] = @ \cup {c}]
      /\ UNCHANGED <<submitted, ruled, heard, mgCode, pending>>
  BY DEF SetMgCode
<1>2. (\A s \in Teams : coded[s] \subseteq coded'[s]) /\ c \in coded'[t]
  BY <1>1 DEF TracedInv, ScalarsOK
<1>3. frame \in TracedUp'
  BY <1>2 DEF TracedUp, CodeSetFrames
<1>4. FramesTraced'
  <2> HIDE DEF frame
  <2>1. Send(g, frame)
    BY DEF SetMgCode, frame
  <2> QED
    BY <1>1, <1>2, <1>3, <2>1, GmSendTraced DEF SetMgCode
<1>5. ScalarsOK'
  BY DEF SetMgCode, TracedInv, ScalarsOK
<1>6. CodeFromGm'
  BY <1>1, <1>2 DEF TracedInv, History, CodeFromGm
<1>7. RulingsAsked' /\ HeardTraced' /\ ListedTeamsSubmitted'
  BY <1>1 DEF TracedInv, History, RulingsAsked, HeardTraced, ListedTeamsSubmitted
<1> QED
  BY <1>4, <1>5, <1>6, <1>7 DEF TracedInv, History

\* Every action of a GM device preserves the invariant.
LEMMA GmAppTraced ==
    ASSUME TracedInv, GmApp
    PROVE  TracedInv'
<1>1. ASSUME NEW g \in Gms, ReceivePending(g)
      PROVE  TracedInv'
  BY <1>1, ReceivePendingTraced
<1>2. ASSUME NEW g \in Gms, GmRestart(g)
      PROVE  TracedInv'
  <2>1. /\ pending' \in [Gms -> SUBSET Teams]
        /\ \A h \in Gms : pending'[h] \subseteq pending[h]
    BY <1>2 DEF GmRestart, TracedInv, ScalarsOK
  <2>2. /\ g \in Devices /\ LoseSocket(g) /\ UNCHANGED <<kept, history>>
        /\ mgCode' = mgCode /\ step' = step
    BY <1>2 DEF GmRestart, Devices
  <2> QED
    BY <2>1, <2>2, RestartTraced DEF TracedInv, ScalarsOK
<1>3. ASSUME NEW g \in Gms, NEW t \in Teams, NEW v \in Decisions, DecideAccess(g, t, v)
      PROVE  TracedInv'
  BY <1>3, DecideAccessTraced
<1>4. ASSUME NEW g \in Gms, NEW t \in Teams, NEW c \in Codes, SetMgCode(g, t, c)
      PROVE  TracedInv'
  BY <1>4, SetMgCodeTraced
<1> QED
  BY <1>1, <1>2, <1>3, <1>4 DEF GmApp

\* The invariant is inductive.
LEMMA TracedStep == TracedInv /\ [Next]_vars => TracedInv'
<1> SUFFICES ASSUME TracedInv, [Next]_vars PROVE TracedInv'
  OBVIOUS
<1>1. CASE Next
  BY <1>1, NetworkTraced, ServerTraced, AssautAppTraced, GmAppTraced DEF Next
<1>2. CASE UNCHANGED vars
  <2>1. UNCHANGED <<mgCode, pending, history>>
    BY <1>2 DEF vars, history
  <2> QED
    BY <1>2, <2>1, SocketsStep DEF vars, TracedInv, ScalarsOK, FramesTraced
<1> QED
  BY <1>1, <1>2

-----------------------------------------------------------------------------
(***************************************************************************)
(* Theorems about frames.                                                   *)
(***************************************************************************)
\* Every frame, list and screen of every behaviour shows what really happened.
THEOREM TracedAlways == Spec => []TracedInv
<1>1. Init => TracedInv
  BY TracedInit
<1>2. TracedInv /\ [Next]_vars => TracedInv'
  BY TracedStep
<1> QED
  BY <1>1, <1>2, PTL DEF Spec

\* Every frame, in any queue, is one of the protocol's: the server never forwards a
\* submission without a team, whatever is lost, late or restarted.
THEOREM TypeCorrect == Spec => []TypeOK
BY TracedAlways, TracedType, PTL

\* A verdict an engine was given was ruled by a GM for that installation's team,
\* which had submitted an entry point (relayToTeam, handleAppMessage).
THEOREM VerdictsAlwaysTraced == Spec => []VerdictsTraced
<1>1. TracedInv => VerdictsTraced
  BY DEF TracedInv, ScalarsOK, History, HeardTraced, RulingsAsked, VerdictsTraced
<1> QED
  BY <1>1, TracedAlways, PTL

\* A code on an Assaut screen was typed by a GM for that installation's team.
THEOREM CodesAlwaysFromGm == Spec => []CodeFromGm
<1>1. TracedInv => CodeFromGm
  BY DEF TracedInv, History
<1> QED
  BY <1>1, TracedAlways, PTL

-----------------------------------------------------------------------------
(***************************************************************************)
(* The gate.                                                                *)
(***************************************************************************)
\* The flow in order leads from before the gate up to the entry-point screen.
LEMMA LinearBeforeGate ==
    ASSUME NEW s \in BeforeGate, s # PointEntree
    PROVE  LinearNext(s) \in BeforeGate
<1>1. PICK i \in DOMAIN Flow :
         s = Flow[i] /\ \A k \in DOMAIN Flow : Flow[k] = PointEntree => i <= k
  BY DEF BeforeGate
<1>2. PICK p \in DOMAIN Flow : Flow[p] = PointEntree
  BY ConfigAssumption DEF StepIds
<1>3. i \in 1..Len(Flow) /\ p \in 1..Len(Flow) /\ Len(Flow) \in Nat /\ i < p
  BY <1>1, <1>2, FlowSequence
<1>4. \A j \in DOMAIN Flow : Flow[j] = s => j = i
  BY <1>1, FlowAssumption
<1>5. LinearNext(s) = Flow[i + 1]
  BY <1>1, <1>3, <1>4 DEF LinearNext
<1>6. i + 1 \in DOMAIN Flow
  BY <1>3, FlowSequence
<1>7. ASSUME NEW k \in DOMAIN Flow, Flow[k] = PointEntree
      PROVE  i + 1 <= k
  <2>1. k = p
    BY <1>2, <1>7, FlowAssumption
  <2> QED
    BY <1>3, <2>1
<1> QED
  BY <1>5, <1>6, <1>7 DEF BeforeGate

\* The steps before the gate are steps of the flow.
LEMMA BeforeGateSteps == BeforeGate \subseteq StepIds /\ NoStep \notin BeforeGate
<1>1. BeforeGate \subseteq StepIds
  BY DEF BeforeGate, StepIds
<1> QED
  BY <1>1, FlowAssumption

\* No event and no choice of a screen before the gate leads past it.
LEMMA StaysBeforeGate ==
    ASSUME NEW s \in BeforeGate, s # PointEntree
    PROVE  /\ \A e : NextStep(s, e) \in BeforeGate
           /\ \A c : ChoiceMatches(s, c) # {} => ChoiceTarget(s, c) \in BeforeGate
<1>1. s \in StepIds /\ LinearNext(s) \in BeforeGate
  BY BeforeGateSteps, LinearBeforeGate
<1>2. ASSUME NEW e
      PROVE  NextStep(s, e) \in BeforeGate
  <2>1. CASE e # NoEvent /\ Matches(s, e) # {}
    <3>1. FirstOf(Matches(s, e)) \in DOMAIN Transitions[s]
      BY <1>1, <2>1, MatchedTransition
    <3> QED
      BY <2>1, <3>1, GateAssumption DEF NextStep
  <2>2. CASE ~(e # NoEvent /\ Matches(s, e) # {})
    BY <1>1, <2>2 DEF NextStep
  <2> QED
    BY <2>1, <2>2
<1>3. ASSUME NEW c, ChoiceMatches(s, c) # {}
      PROVE  ChoiceTarget(s, c) \in BeforeGate
  <2>1. FirstOf(ChoiceMatches(s, c)) \in DOMAIN Choices[s]
    BY <1>1, <1>3, MatchedChoice
  <2>2. ChosenOption(s, c).goto \in BeforeGate \cup {NoStep}
    BY <2>1, GateAssumption DEF ChosenOption
  <2> QED
    BY <1>1, <2>2 DEF ChoiceTarget
<1> QED
  BY <1>2, <1>3

\* The success screen is only reached from the entry-point screen.
LEMMA OnlyWayToValide ==
    ASSUME NEW s \in StepIds
    PROVE  /\ \A e : NextStep(s, e) = PointValide => s = PointEntree
           /\ \A c : ChoiceMatches(s, c) # {} /\ ChoiceTarget(s, c) = PointValide
                        => s = PointEntree
<1>1. ASSUME NEW e, NextStep(s, e) = PointValide, s # PointEntree
      PROVE  FALSE
  <2>1. CASE e # NoEvent /\ Matches(s, e) # {}
    <3>1. FirstOf(Matches(s, e)) \in DOMAIN Transitions[s]
      BY <2>1, MatchedTransition
    <3>2. Transitions[s][FirstOf(Matches(s, e))].goto # PointValide
      BY <1>1, <3>1, GateAssumption
    <3> QED
      BY <1>1, <2>1, <3>2 DEF NextStep
  <2>2. CASE ~(e # NoEvent /\ Matches(s, e) # {})
    BY <1>1, <2>2, GateAssumption DEF NextStep
  <2> QED
    BY <2>1, <2>2
<1>2. ASSUME NEW c, ChoiceMatches(s, c) # {}, ChoiceTarget(s, c) = PointValide
      PROVE  s = PointEntree
  <2>1. FirstOf(ChoiceMatches(s, c)) \in DOMAIN Choices[s]
    BY <1>2, MatchedChoice
  <2>2. ChosenOption(s, c).goto # PointValide
    BY <2>1, GateAssumption DEF ChosenOption
  <2> QED
    BY <1>2, <2>2, GateAssumption DEF ChoiceTarget
<1> QED
  BY <1>1, <1>2

\* What a relaunch resumes is past the gate only if its engine heard a verdict too.
KeptEarned ==
    \A a \in Assaut : /\ kept[a] \notin BeforeGate => heard[a] # {}
                      /\ kept[a] = PointValide => "approved" \in heard[a]

GateInv == GateEarned /\ ValidOnlyIfApproved /\ KeptEarned

\* A fresh session starts before the gate (createSession).
LEMMA GateInit == Init => GateInv
<1> SUFFICES ASSUME Init PROVE GateInv
  OBVIOUS
<1>1. 1 \in DOMAIN Flow /\ DOMAIN Flow \subseteq Nat /\ \A k \in DOMAIN Flow : 1 <= k
  BY FlowSequence
<1>2. Flow[1] \in BeforeGate
  BY <1>1 DEF BeforeGate
<1>3. Flow[1] # PointValide
  BY <1>2, GateAssumption
<1> QED
  BY <1>2, <1>3 DEF Init, GateInv, GateEarned, ValidOnlyIfApproved, KeptEarned,
                    CreateSession

\* Steps of the program that leave steps and verdicts alone.
LEMMA GateSame ==
    ASSUME GateInv, UNCHANGED <<step, kept, heard>>
    PROVE  GateInv'
BY DEF GateInv, GateEarned, ValidOnlyIfApproved, KeptEarned

\* A step of one installation's engine preserves the gate if where it lands does.
LEMMA GateMove ==
    ASSUME TracedInv, GateInv, NEW a \in Assaut, NEW target,
           step' = [step EXCEPT ![a] = target], heard' = heard, kept' = kept,
           target \notin BeforeGate => heard[a] # {},
           target # PointValide
    PROVE  GateInv'
<1>1. \A b \in Assaut : step'[b] = IF b = a THEN target ELSE step[b]
  BY DEF TracedInv, ScalarsOK
<1> QED
  BY <1>1 DEF GateInv, GateEarned, ValidOnlyIfApproved, KeptEarned

\* A screen button never takes an unheard team past the gate.
LEMMA PressGate ==
    ASSUME TracedInv, GateInv, NEW a \in Assaut, Press(a)
    PROVE  GateInv'
<1>1. PICK e \in ButtonEvents(step[a]) : step' = [step EXCEPT ![a] = NextStep(@, e)]
  BY DEF Press
<1>2. step[a] \in StepIds /\ step[a] # PointEntree
  BY <1>1 DEF Press, TracedInv, ScalarsOK, ButtonEvents
<1>3. NextStep(step[a], e) # PointValide
  BY <1>2, OnlyWayToValide
<1>4. NextStep(step[a], e) \notin BeforeGate => heard[a] # {}
  BY <1>2, StaysBeforeGate DEF GateInv, GateEarned
<1>5. step' = [step EXCEPT ![a] = NextStep(step[a], e)]
  BY <1>1
<1>6. heard' = heard /\ kept' = kept
  BY DEF Press, history
<1> QED
  BY <1>3, <1>4, <1>5, <1>6, GateMove

\* A choice never takes an unheard team past the gate.
LEMMA ChooseGate ==
    ASSUME TracedInv, GateInv, NEW a \in Assaut, Choose(a)
    PROVE  GateInv'
<1>1. PICK i \in DOMAIN Choices[step[a]] :
         step' = [step EXCEPT ![a] = ChoiceTarget(@, Choices[@][i].id)]
  BY DEF Choose
<1> DEFINE c == Choices[step[a]][i].id
<1>2. step[a] \in StepIds
  BY DEF Choose, TracedInv, ScalarsOK
<1>3. step[a] # PointEntree
  BY <1>1, GateAssumption
<1>4. ChoiceMatches(step[a], c) # {}
  BY DEF ChoiceMatches
<1>5. step' = [step EXCEPT ![a] = ChoiceTarget(step[a], c)] /\ heard' = heard /\ kept' = kept
  BY <1>1 DEF Choose, history
<1> HIDE DEF c
<1>6. ChoiceTarget(step[a], c) # PointValide
  BY <1>2, <1>3, <1>4, OnlyWayToValide
<1>7. ChoiceTarget(step[a], c) \notin BeforeGate => heard[a] # {}
  BY <1>3, <1>4, StaysBeforeGate DEF GateInv, GateEarned
<1> QED
  BY <1>5, <1>6, <1>7, GateMove

\* A verdict opens the gate, and only an approval the success screen.
LEMMA ReceiveResultGate ==
    ASSUME TracedInv, GateInv, NEW a \in Assaut, ReceiveResult(a)
    PROVE  GateInv'
<1> DEFINE verdict == Head(down[a]).decision
<1>1. verdict \in Decisions
  <2>1. Head(down[a]) \in TracedDown(a)
    BY ReadTraced DEF ReceiveResult, Devices
  <2> QED
    BY <2>1 DEF ReceiveResult, TracedDown, PendingFrames, ResultFrames, CodeFrames
<1>2. \A b \in Assaut : heard'[b] = IF b = a THEN heard[a] \cup {verdict} ELSE heard[b]
  BY DEF ReceiveResult, TracedInv, ScalarsOK
<1>3. GateEarned' /\ KeptEarned'
  <2>1. \A b \in Assaut : b # a => step'[b] = step[b]
    BY DEF ReceiveResult, TracedInv, ScalarsOK
  <2>2. GateEarned'
    BY <1>2, <2>1 DEF GateInv, GateEarned
  <2>3. kept' = kept
    BY DEF ReceiveResult
  <2>4. KeptEarned'
    <3> HIDE DEF verdict
    <3> QED
      BY <1>2, <2>3 DEF GateInv, KeptEarned
  <2> QED
    BY <2>2, <2>4
<1>4. CASE AdvanceThrows(step[a])
  <2>1. step' = step
    BY <1>4 DEF ReceiveResult
  <2>2. ValidOnlyIfApproved'
    BY <1>2, <2>1 DEF GateInv, ValidOnlyIfApproved
  <2> QED
    BY <1>3, <2>2 DEF GateInv
<1>5. CASE ~AdvanceThrows(step[a])
  <2>1. step[a] \in StepIds
    BY <1>5 DEF AdvanceThrows, TracedInv, ScalarsOK
  <2>2. \A b \in Assaut :
           step'[b] = IF b = a THEN NextStep(step[a], verdict) ELSE step[b]
    BY <1>5 DEF ReceiveResult, TracedInv, ScalarsOK
  <2>3. NextStep(step[a], verdict) = PointValide => verdict = "approved"
    <3>1. NextStep(step[a], verdict) = PointValide => step[a] = PointEntree
      BY <2>1, OnlyWayToValide
    <3>2. NextStep(PointEntree, "refused") # PointValide
      BY GateAssumption, ConfigAssumption
    <3> HIDE DEF verdict
    <3> QED
      BY <1>1, <3>1, <3>2 DEF Decisions
  <2>4. ValidOnlyIfApproved'
    <3> HIDE DEF verdict
    <3> QED
      BY <1>2, <2>2, <2>3 DEF GateInv, ValidOnlyIfApproved
  <2> QED
    BY <1>3, <2>4 DEF GateInv
<1> QED
  BY <1>4, <1>5

\* The gate invariant is inductive, given what is known of verdicts.
LEMMA GateStep == TracedInv /\ GateInv /\ [Next]_vars => GateInv'
<1> SUFFICES ASSUME TracedInv, GateInv, [Next]_vars PROVE GateInv'
  OBVIOUS
<1>1. CASE Network
  BY <1>1, GateSame DEF Network, Connect, Drop, LoseSocket, ForgetLate, history
<1>2. CASE Server
  BY <1>2, GateSame DEF Server, ServeHello, ServeFrame, ServeLate, ServerRestart, history
<1>3. CASE AssautApp
  <2> PICK a \in Assaut : \/ SubmitAccessPoint(a) \/ Press(a) \/ Choose(a)
                          \/ ReceiveResult(a) \/ ReceiveCode(a)
                          \/ Persist(a) \/ AssautRestart(a)
    BY <1>3 DEF AssautApp
  <2>1. CASE SubmitAccessPoint(a)
    BY <2>1, GateSame DEF SubmitAccessPoint
  <2>2. CASE Press(a)
    BY <2>2, PressGate
  <2>3. CASE Choose(a)
    BY <2>3, ChooseGate
  <2>4. CASE ReceiveResult(a)
    BY <2>4, ReceiveResultGate
  <2>5. CASE ReceiveCode(a)
    BY <2>5, GateSame DEF ReceiveCode, history
  <2>6. CASE AssautRestart(a)
    <3>1. heard' = heard /\ kept' = kept /\ step' = [step EXCEPT ![a] = kept[a]]
      BY <2>6 DEF AssautRestart, history
    <3> QED
      BY <3>1 DEF TracedInv, ScalarsOK, GateInv, GateEarned, ValidOnlyIfApproved, KeptEarned
  <2>7. CASE Persist(a)
    <3>1. heard' = heard /\ step' = step /\ kept' = [kept EXCEPT ![a] = step[a]]
      BY <2>7 DEF Persist, history
    <3> QED
      BY <3>1 DEF TracedInv, ScalarsOK, GateInv, GateEarned, ValidOnlyIfApproved, KeptEarned
  <2> QED
    BY <2>1, <2>2, <2>3, <2>4, <2>5, <2>6, <2>7
<1>4. CASE GmApp
  <2>1. UNCHANGED <<step, kept, heard>>
    BY <1>4 DEF GmApp, ReceivePending, GmRestart, DecideAccess, SetMgCode, history
  <2> QED
    BY <2>1, GateSame
<1>5. CASE UNCHANGED vars
  BY <1>5, GateSame DEF vars
<1> QED
  BY <1>1, <1>2, <1>3, <1>4, <1>5 DEF Next

\* The gate invariant holds of every behaviour.
LEMMA GateAlways == Spec => []GateInv
<1>1. Init => GateInv
  BY GateInit
<1>2. TracedInv /\ GateInv /\ [Next]_vars => GateInv'
  BY GateStep
<1> QED
  BY <1>1, <1>2, TracedAlways, PTL DEF Spec

\* No button, choice, restart, lost or late frame takes an installation past the
\* entry-point screen before a GM's verdict reached its engine.
THEOREM GateAlwaysEarned == Spec => []GateEarned
BY GateAlways, PTL DEF GateInv

\* The success screen is only ever shown after an approval.
THEOREM ValidAlwaysApproved == Spec => []ValidOnlyIfApproved
BY GateAlways, PTL DEF GateInv

-----------------------------------------------------------------------------
(***************************************************************************)
(* The three programs and their sockets implement AccessGate.               *)
(***************************************************************************)
\* The loop starts where the abstract gate starts.
LEMMA GateRefinementInit == Init => Gate!Init
BY DEF Init, Gate!Init

\* Every step of the loop is a step of the abstract gate or a stutter.
LEMMA GateRefinementStep == TracedInv /\ [Next]_vars => [Gate!Next]_(Gate!gateVars)
<1> SUFFICES ASSUME TracedInv, [Next]_vars PROVE [Gate!Next]_(Gate!gateVars)
  OBVIOUS
<1> USE DEF Gate!gateVars
<1>1. CASE Network
  BY <1>1 DEF Network, Connect, Drop, ForgetLate, history
<1>2. CASE Server
  BY <1>2 DEF Server, ServeHello, ServeFrame, ServeLate, ServerRestart, history
<1>3. ASSUME NEW a \in Assaut, SubmitAccessPoint(a)
      PROVE  [Gate!Next]_(Gate!gateVars)
  <2>1. UNCHANGED <<ruled, heard>>
    BY <1>3 DEF SubmitAccessPoint
  <2>2. CASE Team[a] = NoTeam
    BY <1>3, <2>1, <2>2 DEF SubmitAccessPoint
  <2>3. CASE Team[a] # NoTeam
    <3>1. Team[a] \in Teams
      BY <2>3, ActorsAssumption
    <3>2. Gate!Submit(Team[a])
      BY <1>3, <2>1, <2>3 DEF SubmitAccessPoint, Gate!Submit
    <3> QED
      BY <3>1, <3>2 DEF Gate!Next
  <2> QED
    BY <2>2, <2>3
<1>4. ASSUME NEW a \in Assaut, ReceiveResult(a)
      PROVE  [Gate!Next]_(Gate!gateVars)
  <2> DEFINE verdict == Head(down[a]).decision
  <2>1. Head(down[a]) \in TracedDown(a)
    BY <1>4, ReadTraced DEF ReceiveResult, Devices
  <2>2. Team[a] \in Teams /\ verdict \in Decisions /\ verdict \in ruled[Team[a]]
    BY <1>4, <2>1 DEF ReceiveResult, TracedDown, PendingFrames, ResultFrames, CodeFrames
  <2>3. Gate!Hear(a, verdict)
    BY <1>4, <2>2 DEF ReceiveResult, Gate!Hear
  <2> QED
    BY <2>2, <2>3 DEF Gate!Next
<1>5. ASSUME NEW g \in Gms, NEW t \in Teams, NEW v \in Decisions, DecideAccess(g, t, v)
      PROVE  [Gate!Next]_(Gate!gateVars)
  <2>1. t \in submitted
    BY <1>5 DEF DecideAccess, TracedInv, History, ListedTeamsSubmitted
  <2>2. Gate!Rule(t, v)
    BY <1>5, <2>1 DEF DecideAccess, Gate!Rule
  <2> QED
    BY <2>2 DEF Gate!Next
<1>6. CASE AssautApp
  BY <1>3, <1>4, <1>6 DEF AssautApp, Press, Choose, ReceiveCode, Persist, AssautRestart,
                       history
<1>7. CASE GmApp
  BY <1>5, <1>7 DEF GmApp, ReceivePending, GmRestart, SetMgCode, history
<1>8. CASE UNCHANGED vars
  BY <1>8 DEF vars
<1> QED
  BY <1>1, <1>2, <1>6, <1>7, <1>8 DEF Next

\* Whatever is lost, late, dropped or restarted, the loop only does what AccessGate
\* allows: teams submit, GMs rule on submissions, engines hear their team's rulings.
THEOREM LoopImplementsGate == Spec => GateSpec
<1>1. Init => Gate!Init
  BY GateRefinementInit
<1>2. TracedInv /\ [Next]_vars => [Gate!Next]_(Gate!gateVars)
  BY GateRefinementStep
<1> QED
  BY <1>1, <1>2, TracedAlways, PTL DEF Spec, GateSpec, Gate!Spec
=============================================================================
