------------------------ MODULE Aggregation_proofs ------------------------
(***************************************************************************)
(* What a report of Débriefing says, for every set of teams and every       *)
(* number of loads, events and faults.                                      *)
(***************************************************************************)
EXTENDS Aggregation, FiniteSetTheorems, TLAPS

Loads == [expected : SUBSET Teams, logs : PartialLogs]

TypeInv ==
    /\ TypeOK
    /\ up \in Seq(UpFrames) /\ down \in Seq(DownFrames)
    /\ pending # NoLoad => pending \in Loads
    /\ report # NoReport => report \in PartialLogs
    /\ owed \in PartialLogs /\ listed \subseteq Teams /\ loads \in Nat

(***************************************************************************)
(* Operators.                                                               *)
(***************************************************************************)
LEMMA LogIntro ==
    ASSUME NEW T \in SUBSET Teams, NEW f \in [T -> Nat]
    PROVE  f \in PartialLogs
  BY DEF PartialLogs

LEMMA LogElim ==
    ASSUME NEW f \in PartialLogs
    PROVE  DOMAIN f \subseteq Teams /\ f \in [DOMAIN f -> Nat]
  BY DEF PartialLogs

LEMMA NoLogTyped == NoLog \in PartialLogs /\ DOMAIN NoLog = {}
  <1>1. NoLog \in [{} -> Nat]
    BY DEF NoLog
  <1> QED
    BY <1>1, LogIntro

LEMMA FilledTyped ==
    ASSUME NEW load \in Loads
    PROVE  /\ Filled(load) \in PartialLogs
           /\ DOMAIN Filled(load) = DOMAIN load.logs \cup load.expected
           /\ \A t \in DOMAIN load.logs : Filled(load)[t] = load.logs[t]
           /\ \A t \in load.expected \ DOMAIN load.logs : Filled(load)[t] = 0
  <1>1. load.logs \in PartialLogs /\ load.expected \in SUBSET Teams
    BY DEF Loads
  <1>2. DOMAIN load.logs \subseteq Teams /\ load.logs \in [DOMAIN load.logs -> Nat]
    BY <1>1, LogElim
  <1>3. Filled(load) \in [DOMAIN load.logs \cup load.expected -> Nat]
    BY <1>2 DEF Filled
  <1> QED
    BY <1>1, <1>2, <1>3, LogIntro DEF Filled

LEMMA AnsweredTyped ==
    ASSUME NEW load \in Loads, NEW t \in Teams, NEW n \in Nat
    PROVE  /\ Answered(load, t, n) \in Loads
           /\ Answered(load, t, n).expected = load.expected \ {t}
           /\ DOMAIN Answered(load, t, n).logs = DOMAIN load.logs \cup {t}
           /\ \A x \in DOMAIN load.logs \cup {t} :
                 Answered(load, t, n).logs[x] = IF x = t THEN n ELSE load.logs[x]
  <1>1. load.logs \in PartialLogs /\ load.expected \in SUBSET Teams
    BY DEF Loads
  <1>2. DOMAIN load.logs \subseteq Teams /\ load.logs \in [DOMAIN load.logs -> Nat]
    BY <1>1, LogElim
  <1>3. Answered(load, t, n).logs \in [DOMAIN load.logs \cup {t} -> Nat]
    BY <1>2 DEF Answered
  <1>4. Answered(load, t, n).logs \in PartialLogs
    BY <1>2, <1>3, LogIntro
  <1> QED
    BY <1>1, <1>4 DEF Answered, Loads

LEMMA QueueEmpty ==
    ASSUME NEW S
    PROVE  <<>> \in Seq(S) /\ DOMAIN <<>> = {}
  OBVIOUS

LEMMA QueueTyped ==
    ASSUME NEW S, NEW s \in Seq(S)
    PROVE  \A i \in DOMAIN s : s[i] \in S
  OBVIOUS

LEMMA QueueTail ==
    ASSUME NEW S, NEW s \in Seq(S), s # <<>>
    PROVE  /\ Head(s) \in S /\ Head(s) = s[1] /\ 1 \in DOMAIN s
           /\ Tail(s) \in Seq(S) /\ Len(Tail(s)) = Len(s) - 1
           /\ \A i \in DOMAIN Tail(s) : i + 1 \in DOMAIN s /\ Tail(s)[i] = s[i + 1]
  OBVIOUS

LEMMA QueueAppend ==
    ASSUME NEW S, NEW s \in Seq(S), NEW e \in S
    PROVE  /\ Append(s, e) \in Seq(S) /\ Len(Append(s, e)) = Len(s) + 1
           /\ \A i \in DOMAIN Append(s, e) :
                 \/ i \in DOMAIN s /\ Append(s, e)[i] = s[i]
                 \/ Append(s, e)[i] = e
  OBVIOUS

\* loadStats asks for each team once; the queue only gains log-requests.
LEMMA RequestsTyped ==
    ASSUME NEW teams \in SUBSET Teams, NEW q \in LogRequests(teams), NEW s \in Seq(UpFrames)
    PROVE  /\ s \o q \in Seq(UpFrames)
           /\ s = <<>> => \A i \in DOMAIN (s \o q) : (s \o q)[i].type = "log-request"
  <1>1. Cardinality(teams) \in Nat
    BY AggregationAssumption, FS_Subset, FS_CardinalityType
  <1>2. q \in [1..Cardinality(teams) -> [type : {"log-request"}, team : teams]]
    BY DEF LogRequests
  <1>3. q \in Seq(UpFrames) /\ \A i \in DOMAIN q : q[i].type = "log-request"
    BY <1>1, <1>2 DEF UpFrames
  <1> QED
    BY <1>3

-----------------------------------------------------------------------------
(***************************************************************************)
(* Types.                                                                   *)
(***************************************************************************)
LEMMA TypeInitial == Init => TypeInv
  <1> SUFFICES ASSUME Init PROVE TypeInv
    OBVIOUS
  <1>1. 0 \in 0..MaxEvents
    BY AggregationAssumption
  <1>2. log \in [Teams -> 0..MaxEvents] /\ \A t \in Teams : log[t] = 0
    BY <1>1 DEF Init
  <1> QED
    BY <1>2, NoLogTyped, QueueEmpty DEF Init, TypeInv, TypeOK

\* A load that ends.
LEMMA FinalizeTyped ==
    ASSUME TypeInv, NEW load \in Loads, NEW b \in BOOLEAN, Finalize(load, b)
    PROVE  /\ loading' = FALSE /\ pending' = NoLoad /\ timedOut' = b
           /\ report' = Filled(load) /\ report' \in PartialLogs
           /\ DOMAIN report' = DOMAIN load.logs \cup load.expected
           /\ DOMAIN report' \subseteq Teams
  BY FilledTyped, LogElim DEF Finalize

LEMMA HeadTyped ==
    ASSUME TypeInv, down # <<>>
    PROVE  /\ Head(down) = down[1] /\ 1 \in DOMAIN down
           /\ Head(down).type = "teams" => Head(down).teams \in SUBSET Teams
           /\ Head(down).type = "log-result" => /\ Head(down).team \in Teams
                                               /\ Head(down).events \in Nat
           /\ Tail(down) \in Seq(DownFrames)
           /\ \A i \in DOMAIN Tail(down) : Tail(down)[i] \in DownFrames
  <1>1. Head(down) \in DownFrames /\ Tail(down) \in Seq(DownFrames)
    BY QueueTail DEF TypeInv
  <1> QED
    BY <1>1, QueueTail DEF TypeInv, DownFrames

LEMMA ReceiveTyped ==
    ASSUME TypeInv, ReceiveTeams \/ ReceiveLog
    PROVE  TypeInv'
  <1>1. /\ down # <<>> /\ down' = Tail(down)
        /\ UNCHANGED <<socket, db, owed, loads, button, upsets>>
    BY DEF ReceiveTeams, ReceiveLog
  <1>2. down' \in Seq(DownFrames) /\ \A i \in DOMAIN down' : down'[i] \in DownFrames
    BY <1>1, HeadTyped
  <1>3. ASSUME UNCHANGED <<client, up>> PROVE TypeInv'
    BY <1>1, <1>2, <1>3 DEF TypeInv, TypeOK, client, db
  <1>4. CASE ReceiveTeams
    <2> DEFINE teams == Head(down).teams
    <2>1. teams \in SUBSET Teams
      BY <1>4, HeadTyped DEF ReceiveTeams
    <2>2. ASSUME pending # NoLoad, Finalize(pending, FALSE), listed' = {}, UNCHANGED up
          PROVE  TypeInv'
      <3>1. pending \in Loads
        BY <2>2 DEF TypeInv
      <3> QED
        BY <1>1, <1>2, <2>2, <3>1, FinalizeTyped DEF TypeInv, TypeOK, db
    <2>3. ASSUME pending # NoLoad, pending' = [pending EXCEPT !.expected = teams],
                 listed' = teams, NEW q \in LogRequests(teams), up' = up \o q,
                 UNCHANGED <<loading, report, timedOut>>
          PROVE  TypeInv'
      <3>1. up' \in Seq(UpFrames) /\ \A i \in DOMAIN up' : up'[i] \in UpFrames
        BY <2>1, <2>3, RequestsTyped DEF TypeInv
      <3>2. pending \in Loads /\ DOMAIN pending.logs \subseteq Teams
        BY <2>3 DEF TypeInv, TypeOK
      <3>3. pending' \in Loads /\ pending'.logs = pending.logs /\ pending'.expected = teams
        BY <2>1, <2>3, <3>2 DEF Loads
      <3> QED
        BY <1>1, <1>2, <2>1, <2>3, <3>1, <3>2, <3>3 DEF TypeInv, TypeOK, db
    <2> QED
      BY <1>3, <1>4, <2>2, <2>3 DEF ReceiveTeams
  <1>5. CASE ReceiveLog
    <2> DEFINE load == Answered(pending, Head(down).team, Head(down).events)
    <2>1. Head(down).team \in Teams /\ Head(down).events \in Nat
      BY <1>5, HeadTyped DEF ReceiveLog
    <2>2. ASSUME pending # NoLoad PROVE load \in Loads
      BY <2>1, <2>2, AnsweredTyped DEF TypeInv
    <2>3. ASSUME pending # NoLoad, Finalize(load, FALSE), UNCHANGED <<listed, up>>
          PROVE  TypeInv'
      BY <1>1, <1>2, <2>2, <2>3, FinalizeTyped DEF TypeInv, TypeOK, db
    <2>4. ASSUME pending # NoLoad, pending' = load,
                 UNCHANGED <<loading, report, listed, timedOut, up>>
          PROVE  TypeInv'
      <3>1. load \in Loads /\ load.expected \subseteq Teams /\ DOMAIN load.logs \subseteq Teams
        BY <2>2, <2>4, LogElim DEF Loads
      <3> HIDE DEF load
      <3> QED
        BY <1>1, <1>2, <2>4, <3>1 DEF TypeInv, TypeOK, db
    <2> QED
      BY <1>3, <1>5, <2>3, <2>4 DEF ReceiveLog
  <1> QED
    BY <1>4, <1>5

LEMMA LoadStatsTyped ==
    ASSUME TypeInv, LoadStats
    PROVE  TypeInv'
  <1>1. /\ loads' = loads + 1 /\ report' = NoReport /\ listed' = {}
        /\ owed' = [t \in known |-> log[t]]
        /\ UNCHANGED <<socket, down, db, button, upsets>>
    BY DEF LoadStats
  <1>2. owed' \in PartialLogs
    <2>1. owed' \in [known -> Nat] /\ known \in SUBSET Teams
      BY <1>1 DEF TypeInv, TypeOK
    <2> QED
      BY <2>1, LogIntro
  <1>3. [expected |-> {}, logs |-> NoLog] \in Loads
    BY NoLogTyped DEF Loads
  <1>4. CASE socket = "open"
    <2>1. [type |-> "teams-request"] \in UpFrames
      BY DEF UpFrames
    <2>2. up' = Append(up, [type |-> "teams-request"]) /\ loading' = TRUE
          /\ pending' = [expected |-> {}, logs |-> NoLog]
      BY <1>4 DEF LoadStats
    <2>3. up' \in Seq(UpFrames) /\ \A i \in DOMAIN up' : up'[i] \in UpFrames
      BY <2>1, <2>2, QueueAppend DEF TypeInv
    <2> QED
      BY <1>1, <1>2, <1>3, <2>2, <2>3, NoLogTyped DEF TypeInv, TypeOK, db
  <1>5. CASE socket # "open"
    <2>1. pending' = NoLoad /\ loading' = FALSE /\ UNCHANGED up
      BY <1>5 DEF LoadStats
    <2>2. TypeOK'
      BY <1>1, <2>1 DEF TypeInv, TypeOK, db
    <2> QED
      BY <1>1, <1>2, <2>1, <2>2 DEF TypeInv
  <1> QED
    BY <1>4, <1>5

LEMMA ServeTyped ==
    ASSUME TypeInv, ServeTeams \/ ServeLog
    PROVE  TypeInv'
  <1>1. Head(up) \in UpFrames /\ up' \in Seq(UpFrames) /\ \A i \in DOMAIN up' : up'[i] \in UpFrames
    <2>1. up # <<>> /\ up' = Tail(up) /\ up \in Seq(UpFrames)
      BY DEF TypeInv, ServeTeams, ServeLog
    <2>2. Head(up) \in UpFrames /\ up' \in Seq(UpFrames)
      BY <2>1, QueueTail
    <2> QED
      BY <2>2, QueueTyped
  <1>2. PICK f \in DownFrames : down' = Append(down, f)
    <2>1. CASE ServeTeams
      <3>1. [type |-> "teams", teams |-> known] \in DownFrames
        BY DEF TypeInv, TypeOK, DownFrames
      <3> QED
        BY <2>1, <3>1 DEF ServeTeams
    <2>2. CASE ServeLog
      <3>1. Head(up).team \in Teams
        BY <1>1, <2>2 DEF ServeLog, UpFrames
      <3>2. log[Head(up).team] \in Nat
        BY <3>1, AggregationAssumption DEF TypeInv, TypeOK
      <3> QED
        BY <2>2, <3>1, <3>2 DEF ServeLog, DownFrames
    <2> QED
      BY <2>1, <2>2
  <1>3. down' \in Seq(DownFrames) /\ \A i \in DOMAIN down' : down'[i] \in DownFrames
    BY <1>2, QueueAppend DEF TypeInv
  <1> QED
    BY <1>1, <1>3 DEF ServeTeams, ServeLog, TypeInv, TypeOK, client, db

LEMMA OtherTyped ==
    ASSUME TypeInv,
           \/ Open \/ Draw \/ Die \/ OnClose \/ ChangeUrl \/ Timeout \/ Reset \/ Restart
           \/ \E t \in Teams : TeamState(t) \/ LogPush(t)
    PROVE  TypeInv'
  <1>1. CASE Open \/ Draw \/ Die \/ OnClose \/ ChangeUrl
    BY <1>1, QueueEmpty DEF Open, Draw, Die, OnClose, ChangeUrl, TypeInv, TypeOK, client, db
  <1>2. CASE Timeout
    <2>1. pending \in Loads /\ Finalize(pending, TRUE)
      BY <1>2 DEF Timeout, TypeInv
    <2> QED
      BY <1>2, <2>1, FinalizeTyped DEF Timeout, TypeInv, TypeOK, db
  <1>3. CASE Reset \/ Restart
    <2>1. log' \in [Teams -> 0..MaxEvents]
      BY <1>3, AggregationAssumption DEF Reset, Restart
    <2> QED
      BY <1>3, <2>1, NoLogTyped, QueueEmpty DEF Reset, Restart, TypeInv, TypeOK, client
  <1>4. ASSUME NEW t \in Teams, TeamState(t) \/ LogPush(t)
        PROVE  TypeInv'
    <2>1. log' \in [Teams -> 0..MaxEvents]
      BY <1>4, AggregationAssumption DEF TeamState, LogPush, TypeInv, TypeOK
    <2>2. known' \subseteq Teams /\ \A u \in Teams \ known' : log'[u] = 0
      BY <1>4 DEF TeamState, LogPush, TypeInv, TypeOK
    <2> QED
      BY <1>4, <2>1, <2>2 DEF TeamState, LogPush, TypeInv, TypeOK, client
  <1> QED
    BY <1>1, <1>2, <1>3, <1>4

LEMMA TypeStep == TypeInv /\ [Next]_vars => TypeInv'
  <1>1. ASSUME TypeInv, UNCHANGED vars PROVE TypeInv'
    BY <1>1 DEF vars, client, db, TypeInv, TypeOK
  <1> QED
    BY <1>1, ReceiveTyped, LoadStatsTyped, ServeTyped, OtherTyped DEF Next

LEMMA TypeAlways == Spec => []TypeInv
  BY TypeInitial, TypeStep, PTL DEF Spec

-----------------------------------------------------------------------------
(***************************************************************************)
(* Teams that are listed.                                                   *)
(***************************************************************************)
\* A load under way has no report yet; each team of its list has answered or is expected.
ListedInv ==
    /\ ListedTeamsReported
    /\ pending # NoLoad =>
          report = NoReport /\ listed \subseteq pending.expected \cup DOMAIN pending.logs

LEMMA ListedReceive ==
    ASSUME TypeInv, ListedInv, ReceiveTeams \/ ReceiveLog
    PROVE  ListedInv'
  <1>1. ASSUME UNCHANGED client PROVE ListedInv'
    BY <1>1 DEF ListedInv, ListedTeamsReported, client
  <1>2. CASE ReceiveTeams
    <2> DEFINE teams == Head(down).teams
    <2>1. ASSUME pending # NoLoad, Finalize(pending, FALSE), listed' = {}
          PROVE  ListedInv'
      BY <2>1 DEF ListedInv, ListedTeamsReported, Finalize
    <2>2. ASSUME pending # NoLoad, pending' = [pending EXCEPT !.expected = teams],
                 listed' = teams, UNCHANGED report
          PROVE  ListedInv'
      <3>1. pending'.expected = teams
        BY <2>2 DEF TypeInv, Loads
      <3> QED
        BY <2>2, <3>1 DEF ListedInv, ListedTeamsReported
    <2> QED
      BY <1>1, <1>2, <2>1, <2>2 DEF ReceiveTeams
  <1>3. CASE ReceiveLog
    <2> DEFINE load == Answered(pending, Head(down).team, Head(down).events)
    <2>1. Head(down).team \in Teams /\ Head(down).events \in Nat
      BY <1>3, HeadTyped DEF ReceiveLog
    <2>2. ASSUME pending # NoLoad
          PROVE  load \in Loads /\ listed \subseteq load.expected \cup DOMAIN load.logs
      <3>1. pending \in Loads
        BY <2>2 DEF TypeInv
      <3> QED
        BY <2>1, <2>2, <3>1, AnsweredTyped DEF ListedInv
    <2> HIDE DEF load
    <2>3. ASSUME pending # NoLoad, Finalize(load, FALSE), UNCHANGED listed
          PROVE  ListedInv'
      <3>1. pending' = NoLoad /\ DOMAIN report' = DOMAIN load.logs \cup load.expected
        BY <2>2, <2>3, FinalizeTyped
      <3> QED
        BY <2>2, <2>3, <3>1 DEF ListedInv, ListedTeamsReported
    <2>4. ASSUME pending # NoLoad, pending' = load, UNCHANGED <<report, listed>>
          PROVE  ListedInv'
      BY <2>2, <2>4 DEF ListedInv, ListedTeamsReported
    <2> QED
      BY <1>1, <1>3, <2>3, <2>4 DEF ReceiveLog, load
  <1> QED
    BY <1>2, <1>3

LEMMA ListedStep == TypeInv /\ ListedInv /\ [Next]_vars => ListedInv'
  <1> SUFFICES ASSUME TypeInv, ListedInv, [Next]_vars
               PROVE  ListedInv'
    OBVIOUS
  <1>1. ASSUME UNCHANGED client PROVE ListedInv'
    BY <1>1 DEF ListedInv, ListedTeamsReported, client
  <1>2. CASE ChangeUrl
    BY <1>2 DEF ChangeUrl, ListedInv, ListedTeamsReported
  <1>3. CASE LoadStats
    BY <1>3 DEF LoadStats, ListedInv, ListedTeamsReported
  <1>4. CASE Timeout
    <2>1. pending # NoLoad /\ pending \in Loads /\ Finalize(pending, TRUE) /\ UNCHANGED listed
      BY <1>4 DEF Timeout, TypeInv
    <2>2. pending' = NoLoad /\ DOMAIN report' = DOMAIN pending.logs \cup pending.expected
      BY <2>1, FinalizeTyped
    <2> QED
      BY <2>1, <2>2 DEF ListedInv, ListedTeamsReported
  <1>5. CASE Open \/ Draw \/ Die \/ OnClose \/ ServeTeams \/ ServeLog \/ Reset \/ Restart
    BY <1>1, <1>5 DEF Open, Draw, Die, OnClose, ServeTeams, ServeLog, Reset, Restart
  <1>6. CASE \E t \in Teams : TeamState(t) \/ LogPush(t)
    BY <1>1, <1>6 DEF TeamState, LogPush
  <1>7. CASE UNCHANGED vars
    BY <1>1, <1>7 DEF vars
  <1> QED
    BY <1>2, <1>3, <1>4, <1>5, <1>6, <1>7, ListedReceive DEF Next

\* A team of the list that the server sent is in the report, with an empty log if it did
\* not answer in time, for every number of teams and loads, whatever is lost or late.
THEOREM ListedAlwaysReported == Spec => []ListedTeamsReported
  <1>1. Init => ListedInv
    BY DEF Init, ListedInv, ListedTeamsReported
  <1>2. ListedInv => ListedTeamsReported
    BY DEF ListedInv
  <1> QED
    BY <1>1, <1>2, ListedStep, TypeAlways, PTL DEF Spec

-----------------------------------------------------------------------------
(***************************************************************************)
(* Events that are reported.                                                *)
(***************************************************************************)
Within(logs, bound) == \A t \in DOMAIN logs : logs[t] <= bound[t]

\* Until a wipe, what is on its way or kept was in the log, which only grows.
LogInv ==
    ~wiped =>
        /\ report # NoReport => Within(report, log)
        /\ pending # NoLoad => Within(pending.logs, log)
        /\ \A i \in DOMAIN down : down[i].type = "log-result" =>
               down[i].events <= log[down[i].team]

LEMMA LogFinalize ==
    ASSUME TypeInv, NEW load \in Loads, Within(load.logs, log), NEW b \in BOOLEAN,
           Finalize(load, b), UNCHANGED log
    PROVE  Within(report', log')
  <1>1. \A t \in Teams : log[t] \in Nat /\ 0 <= log[t]
    BY AggregationAssumption DEF TypeInv, TypeOK
  <1>2. report' = Filled(load) /\ DOMAIN report' \subseteq Teams
    BY FinalizeTyped
  <1> QED
    BY <1>1, <1>2, FilledTyped DEF Within

LEMMA LogReceive ==
    ASSUME TypeInv, LogInv, ReceiveTeams \/ ReceiveLog
    PROVE  LogInv'
  <1>1. /\ down # <<>> /\ down' = Tail(down) /\ down \in Seq(DownFrames)
        /\ UNCHANGED <<log, wiped>>
    BY DEF ReceiveTeams, ReceiveLog, TypeInv, db, upsets
  <1>2. ASSUME ~wiped, NEW i \in DOMAIN down', down'[i].type = "log-result"
        PROVE  down'[i].events <= log[down'[i].team]
    BY <1>1, <1>2, QueueTail DEF LogInv
  <1>3. ASSUME UNCHANGED client PROVE LogInv'
    BY <1>1, <1>2, <1>3 DEF LogInv, Within, client
  <1>4. CASE ReceiveTeams
    <2> DEFINE teams == Head(down).teams
    <2>1. ASSUME pending # NoLoad, Finalize(pending, FALSE), ~wiped
          PROVE  Within(report', log') /\ pending' = NoLoad
      <3>1. pending \in Loads /\ Within(pending.logs, log)
        BY <2>1 DEF TypeInv, LogInv
      <3> QED
        BY <1>1, <2>1, <3>1, LogFinalize, FinalizeTyped
    <2>2. ASSUME pending # NoLoad, pending' = [pending EXCEPT !.expected = teams],
                 UNCHANGED report
          PROVE  LogInv'
      <3>1. pending'.logs = pending.logs
        BY <2>2 DEF TypeInv, Loads
      <3> QED
        BY <1>1, <1>2, <2>2, <3>1 DEF LogInv, Within
    <2>3. ASSUME pending # NoLoad, Finalize(pending, FALSE)
          PROVE  LogInv'
      BY <1>1, <1>2, <2>1, <2>3 DEF LogInv
    <2> QED
      BY <1>3, <1>4, <2>2, <2>3 DEF ReceiveTeams
  <1>5. CASE ReceiveLog
    <2> DEFINE load == Answered(pending, Head(down).team, Head(down).events)
    <2>1. /\ Head(down).team \in Teams /\ Head(down).events \in Nat
          /\ ~wiped => Head(down).events <= log[Head(down).team]
      BY <1>5, HeadTyped DEF ReceiveLog, LogInv
    <2>2. ASSUME pending # NoLoad
          PROVE  load \in Loads /\ (~wiped => Within(load.logs, log))
      <3>1. pending \in Loads
        BY <2>2 DEF TypeInv
      <3> QED
        BY <2>1, <2>2, <3>1, AnsweredTyped DEF LogInv, Within
    <2> HIDE DEF load
    <2>3. ASSUME pending # NoLoad, Finalize(load, FALSE)
          PROVE  LogInv'
      <3>1. ~wiped => Within(report', log')
        BY <1>1, <2>2, <2>3, LogFinalize
      <3>2. pending' = NoLoad
        BY <2>3 DEF Finalize
      <3> QED
        BY <1>1, <1>2, <3>1, <3>2 DEF LogInv
    <2>4. ASSUME pending # NoLoad, pending' = load, UNCHANGED report
          PROVE  LogInv'
      BY <1>1, <1>2, <2>2, <2>4 DEF LogInv, Within
    <2> QED
      BY <1>3, <1>5, <2>3, <2>4 DEF ReceiveLog, load
  <1> QED
    BY <1>4, <1>5

LEMMA LogServe ==
    ASSUME TypeInv, LogInv, ServeTeams \/ ServeLog
    PROVE  LogInv'
  <1>1. UNCHANGED <<report, pending, log, wiped>> /\ up # <<>> /\ Head(up) \in UpFrames
    BY QueueTail DEF ServeTeams, ServeLog, client, db, upsets, TypeInv
  <1>2. PICK f \in DownFrames :
            /\ down' = Append(down, f)
            /\ f.type = "log-result" => f.events <= log[f.team]
    <2>1. CASE ServeTeams
      <3>1. [type |-> "teams", teams |-> known] \in DownFrames
        BY DEF TypeInv, TypeOK, DownFrames
      <3> QED
        BY <2>1, <3>1 DEF ServeTeams
    <2>2. CASE ServeLog
      <3>1. Head(up).team \in Teams
        BY <1>1, <2>2 DEF ServeLog, UpFrames
      <3>2. log[Head(up).team] \in Nat
        BY <3>1, AggregationAssumption DEF TypeInv, TypeOK
      <3> QED
        BY <2>2, <3>1, <3>2 DEF ServeLog, DownFrames
    <2> QED
      BY <2>1, <2>2
  <1>3. ASSUME NEW i \in DOMAIN down'
        PROVE  (i \in DOMAIN down /\ down'[i] = down[i]) \/ down'[i] = f
    BY <1>2, QueueAppend DEF TypeInv
  <1> QED
    BY <1>1, <1>2, <1>3 DEF LogInv, Within

LEMMA LogStep == TypeInv /\ LogInv /\ [Next]_vars => LogInv'
  <1> SUFFICES ASSUME TypeInv, LogInv, [Next]_vars
               PROVE  LogInv'
    OBVIOUS
  <1>1. ASSUME UNCHANGED <<report, pending, log, wiped>>, down' = down \/ down' = <<>>
        PROVE  LogInv'
    BY <1>1, QueueEmpty DEF LogInv, Within
  <1>2. CASE Open \/ Draw \/ Die \/ OnClose
    BY <1>1, <1>2 DEF Open, Draw, Die, OnClose, client, db, upsets
  <1>3. CASE ChangeUrl
    BY <1>3, QueueEmpty DEF ChangeUrl, LogInv, Within, db
  <1>4. CASE LoadStats
    <2>1. /\ report' = NoReport /\ UNCHANGED <<down, log, wiped>>
          /\ pending' = NoLoad \/ pending'.logs = NoLog
      BY <1>4 DEF LoadStats, db, upsets
    <2> QED
      BY <2>1, NoLogTyped DEF LogInv, Within
  <1>5. CASE Timeout
    <2>1. /\ pending # NoLoad /\ pending \in Loads /\ Finalize(pending, TRUE)
          /\ UNCHANGED <<down, log, wiped>>
      BY <1>5 DEF Timeout, TypeInv, db, upsets
    <2>2. ~wiped => Within(report', log')
      BY <2>1, LogFinalize DEF LogInv
    <2> QED
      BY <2>1, <2>2 DEF LogInv, Finalize
  <1>6. CASE Reset \/ Restart
    BY <1>6 DEF Reset, Restart, LogInv
  <1>7. ASSUME NEW t \in Teams, TeamState(t) \/ LogPush(t)
        PROVE  LogInv'
    <2>1. \A u \in Teams : log[u] \in Nat /\ log'[u] \in Nat /\ log[u] <= log'[u]
      BY <1>7, AggregationAssumption DEF TeamState, LogPush, TypeInv, TypeOK
    <2>2. UNCHANGED <<report, pending, down, wiped>>
      BY <1>7 DEF TeamState, LogPush, client, upsets
    <2>3. ASSUME NEW f \in PartialLogs, Within(f, log)
          PROVE  Within(f, log')
      BY <2>1, <2>3, LogElim DEF Within
    <2>4. ~wiped => /\ report # NoReport => Within(report, log')
                    /\ pending # NoLoad => Within(pending.logs, log')
      BY <2>2, <2>3 DEF LogInv, TypeInv, Loads, Within
    <2>5. ASSUME ~wiped, NEW i \in DOMAIN down, down[i].type = "log-result"
          PROVE  down[i].events <= log'[down[i].team]
      <3>1. down[i] \in DownFrames
        BY QueueTyped DEF TypeInv
      <3>2. down[i].team \in Teams /\ down[i].events \in Nat
        BY <2>5, <3>1 DEF DownFrames
      <3> QED
        BY <2>1, <2>5, <3>2 DEF LogInv
    <2> QED
      BY <2>2, <2>4, <2>5 DEF LogInv
  <1>8. CASE UNCHANGED vars
    BY <1>1, <1>8 DEF vars, client, db, upsets
  <1> QED
    BY <1>2, <1>3, <1>4, <1>5, <1>6, <1>7, <1>8, LogReceive, LogServe DEF Next

\* No report counts an event that is not in event_log, short of a wipe: replies of an
\* earlier load, duplicated requests and a timer that fires first only make it older.
THEOREM ReportAlwaysFromLog == Spec => []ReportFromLog
  <1>1. Init => LogInv
    BY QueueEmpty DEF Init, LogInv
  <1>2. TypeInv /\ LogInv => ReportFromLog
    BY DEF TypeInv, LogInv, Within, ReportFromLog
  <1> QED
    BY <1>1, <1>2, LogStep, TypeAlways, PTL DEF Spec

-----------------------------------------------------------------------------
(***************************************************************************)
(* The first load.  Before its list of teams has come nothing is on its way *)
(* but the request for it or the list, which has every team that is owed    *)
(* something; from then on only requests and replies of this load, each     *)
(* reply with what is owed, and a team owed something is expected or has    *)
(* answered.                                                                *)
(***************************************************************************)
Pays(t, n) == t \in DOMAIN owed => owed[t] <= n

Asking ==
    /\ pending.expected = {} /\ DOMAIN pending.logs = {}
    /\ Len(up) + Len(down) <= 1
    /\ \A i \in DOMAIN up : up[i].type = "teams-request"
    /\ \A i \in DOMAIN down : down[i].type = "teams" /\ DOMAIN owed \subseteq down[i].teams

Collecting ==
    /\ DOMAIN owed \subseteq pending.expected \cup DOMAIN pending.logs
    /\ \A t \in DOMAIN pending.logs : Pays(t, pending.logs[t])
    /\ \A i \in DOMAIN up : up[i].type = "log-request"
    /\ \A i \in DOMAIN down : down[i].type = "log-result" /\ Pays(down[i].team, down[i].events)

FirstInv ==
    loads <= 1 =>
        /\ CompleteUnlessTimedOut
        /\ DOMAIN owed \subseteq known /\ Within(owed, log)
        /\ loads = 0 => pending = NoLoad /\ report = NoReport /\ up = <<>> /\ down = <<>>
        /\ pending # NoLoad => Asking \/ Collecting

\* Losing what is on its way, forgetting the load, and owing nothing any more.
LEMMA FirstLost ==
    ASSUME FirstInv, UNCHANGED <<report, timedOut, loads>>,
           pending' = pending \/ pending' = NoLoad,
           up' = up \/ up' = <<>>, down' = down \/ down' = <<>>,
           \/ UNCHANGED <<owed, known, log>>
           \/ owed' = NoLog
    PROVE  FirstInv'
  <1>1. /\ DOMAIN owed' \subseteq DOMAIN owed
        /\ \A t \in DOMAIN owed' : owed'[t] = owed[t]
    BY NoLogTyped
  <1>2. loads <= 1 => DOMAIN owed' \subseteq known' /\ Within(owed', log')
    BY NoLogTyped DEF FirstInv, Within
  <1>3. Len(<<>>) = 0 /\ DOMAIN <<>> = {} /\ Len(up) \in Nat /\ Len(down) \in Nat
    OBVIOUS
  <1> QED
    BY <1>1, <1>2, <1>3 DEF FirstInv, CompleteUnlessTimedOut, Asking, Collecting, Pays

LEMMA FirstLoadStats ==
    ASSUME TypeInv, FirstInv, LoadStats
    PROVE  FirstInv'
  <1> SUFFICES ASSUME loads' <= 1 PROVE FirstInv'
    BY DEF FirstInv
  <1>1. /\ loads' = loads + 1 /\ report' = NoReport /\ owed' = [t \in known |-> log[t]]
        /\ UNCHANGED <<known, log, down>>
    BY DEF LoadStats, db
  <1>2. loads = 0 /\ loads' = 1 /\ up = <<>> /\ down = <<>>
    BY <1>1 DEF FirstInv, TypeInv
  <1>3. \A t \in Teams : log[t] \in Nat
    BY AggregationAssumption DEF TypeInv, TypeOK
  <1>4. DOMAIN owed' \subseteq known' /\ Within(owed', log') /\ CompleteUnlessTimedOut'
    BY <1>1, <1>3 DEF Within, CompleteUnlessTimedOut, TypeInv, TypeOK
  <1>5. CASE socket = "open"
    <2>1. /\ pending' = [expected |-> {}, logs |-> NoLog]
          /\ up' = Append(<<>>, [type |-> "teams-request"])
      BY <1>2, <1>5 DEF LoadStats
    <2>2. Len(up') = 1 /\ DOMAIN up' = {1} /\ up'[1].type = "teams-request"
      BY <2>1
    <2>3. Len(down') = 0 /\ DOMAIN down' = {}
      BY <1>1, <1>2
    <2>4. Asking'
      BY <2>1, <2>2, <2>3, NoLogTyped DEF Asking
    <2> QED
      BY <1>2, <1>4, <2>4 DEF FirstInv
  <1>6. CASE socket # "open"
    BY <1>2, <1>4, <1>6 DEF LoadStats, FirstInv
  <1> QED
    BY <1>5, <1>6

\* The list of a load that expects nothing yet is that of its own request.
LEMMA FirstTeams ==
    ASSUME TypeInv, FirstInv, ReceiveTeams
    PROVE  FirstInv'
  <1> SUFFICES ASSUME loads <= 1 PROVE FirstInv'
    BY DEF FirstInv, ReceiveTeams
  <1> DEFINE teams == Head(down).teams
  <1>1. /\ down # <<>> /\ down' = Tail(down) /\ down \in Seq(DownFrames) /\ down[1] = Head(down)
        /\ Head(down).type = "teams" /\ teams \in SUBSET Teams /\ 1 \in DOMAIN down
        /\ UNCHANGED <<known, log, owed, loads>>
    BY HeadTyped DEF ReceiveTeams, TypeInv, db
  <1>2. loads # 0
    BY <1>1 DEF FirstInv
  <1>3. ASSUME pending # NoLoad
        PROVE  Asking /\ DOMAIN owed \subseteq teams /\ pending \in Loads
    BY <1>1, <1>3 DEF FirstInv, Collecting, Asking, TypeInv
  <1>4. CASE pending = NoLoad
    <2>1. UNCHANGED <<pending, report, timedOut>>
      BY <1>4 DEF ReceiveTeams, client
    <2> QED
      BY <1>1, <1>2, <1>4, <2>1 DEF FirstInv, CompleteUnlessTimedOut, Within
  <1>5. ASSUME pending # NoLoad, teams = {}, Finalize(pending, FALSE)
        PROVE  FirstInv'
    <2>1. pending' = NoLoad /\ DOMAIN owed = {}
      BY <1>3, <1>5 DEF Finalize
    <2> QED
      BY <1>1, <1>2, <2>1 DEF FirstInv, CompleteUnlessTimedOut, Within
  <1>6. ASSUME pending # NoLoad, pending' = [pending EXCEPT !.expected = teams],
               NEW q \in LogRequests(teams), up' = up \o q, UNCHANGED <<report, timedOut>>
        PROVE  FirstInv'
    <2>1. pending'.expected = teams /\ pending'.logs = pending.logs
      BY <1>3, <1>6 DEF Loads
    <2>2. /\ Len(down) \in Nat /\ Len(up) \in Nat /\ Len(down) >= 1
          /\ Len(up) + Len(down) <= 1
      BY <1>1, <1>3, <1>6 DEF Asking, TypeInv
    <2>3. up = <<>> /\ Len(down) = 1
      <3>1. Len(up) = 0 /\ Len(down) = 1
        <4>1. \A a, b \in Nat : b >= 1 /\ a + b <= 1 => a = 0 /\ b = 1
          OBVIOUS
        <4> QED
          BY <2>2, <4>1
      <3>2. up \in Seq(UpFrames)
        BY DEF TypeInv
      <3> QED
        BY <3>1, <3>2
    <2>4. DOMAIN down' = {}
      BY <1>1, <2>3, QueueTail
    <2>5. \A i \in DOMAIN up' : up'[i].type = "log-request"
      BY <1>1, <1>6, <2>3, RequestsTyped DEF TypeInv
    <2>6. Collecting'
      BY <1>1, <1>3, <1>6, <2>1, <2>4, <2>5 DEF Collecting, Asking
    <2> QED
      BY <1>1, <1>2, <1>6, <2>6 DEF FirstInv, CompleteUnlessTimedOut, Within
  <1> QED
    BY <1>3, <1>4, <1>5, <1>6 DEF ReceiveTeams

LEMMA FirstLog ==
    ASSUME TypeInv, FirstInv, ReceiveLog
    PROVE  FirstInv'
  <1> SUFFICES ASSUME loads <= 1 PROVE FirstInv'
    BY DEF FirstInv, ReceiveLog
  <1> DEFINE team == Head(down).team
             n == Head(down).events
             load == Answered(pending, team, n)
  <1>1. /\ down # <<>> /\ down' = Tail(down) /\ down \in Seq(DownFrames) /\ down[1] = Head(down)
        /\ Head(down).type = "log-result" /\ team \in Teams /\ n \in Nat /\ 1 \in DOMAIN down
        /\ UNCHANGED <<known, log, owed, loads, up>>
    BY HeadTyped DEF ReceiveLog, TypeInv, db
  <1>2. loads # 0
    BY <1>1 DEF FirstInv
  <1>3. ASSUME pending # NoLoad
        PROVE  Collecting /\ Pays(team, n) /\ pending \in Loads
    BY <1>1, <1>3 DEF FirstInv, Collecting, Asking, TypeInv
  <1>4. ASSUME pending # NoLoad
        PROVE  /\ load \in Loads
               /\ DOMAIN owed \subseteq load.expected \cup DOMAIN load.logs
               /\ \A t \in DOMAIN load.logs : Pays(t, load.logs[t])
    <2>1. /\ load \in Loads
          /\ load.expected = pending.expected \ {team}
          /\ DOMAIN load.logs = DOMAIN pending.logs \cup {team}
          /\ \A t \in DOMAIN load.logs : load.logs[t] = IF t = team THEN n ELSE pending.logs[t]
      BY <1>1, <1>3, <1>4, AnsweredTyped
    <2> HIDE DEF load
    <2> QED
      BY <1>3, <1>4, <2>1 DEF Collecting, Pays
  <1> HIDE DEF load
  <1>5. CASE pending = NoLoad
    <2>1. UNCHANGED <<pending, report, timedOut>>
      BY <1>5 DEF ReceiveLog, client
    <2> QED
      BY <1>1, <1>2, <1>5, <2>1 DEF FirstInv, CompleteUnlessTimedOut, Within
  <1>6. ASSUME pending # NoLoad, load.expected = {}, Finalize(load, FALSE)
        PROVE  FirstInv'
    <2>1. pending' = NoLoad /\ report' = Filled(load)
      BY <1>6 DEF Finalize
    <2>2. \A t \in DOMAIN owed : t \in DOMAIN report' /\ report'[t] = load.logs[t]
      BY <1>4, <1>6, <2>1, FilledTyped
    <2>3. \A t \in DOMAIN owed : load.logs[t] \in Nat /\ owed[t] \in Nat /\ owed[t] <= load.logs[t]
      BY <1>4, <1>6, LogElim DEF Pays, Loads, TypeInv
    <2>4. CompleteUnlessTimedOut'
      BY <1>1, <2>2, <2>3 DEF CompleteUnlessTimedOut
    <2> QED
      BY <1>1, <1>2, <2>1, <2>4 DEF FirstInv, Within
  <1>7. ASSUME pending # NoLoad, pending' = load, UNCHANGED <<report, timedOut>>
        PROVE  FirstInv'
    <2>1. \A i \in DOMAIN down' : down'[i].type = "log-result" /\ Pays(down'[i].team, down'[i].events)
      BY <1>1, <1>3, <1>7, QueueTail DEF Collecting
    <2>2. Collecting'
      BY <1>1, <1>3, <1>4, <1>7, <2>1 DEF Collecting, Pays
    <2> QED
      BY <1>1, <1>2, <1>7, <2>2 DEF FirstInv, CompleteUnlessTimedOut, Within
  <1> QED
    BY <1>5, <1>6, <1>7 DEF ReceiveLog, load

LEMMA FirstServe ==
    ASSUME TypeInv, FirstInv, ServeTeams \/ ServeLog
    PROVE  FirstInv'
  <1> SUFFICES ASSUME loads <= 1 PROVE FirstInv'
    BY DEF FirstInv, ServeTeams, ServeLog
  <1>1. /\ UNCHANGED <<pending, report, timedOut, known, log, owed, loads>>
        /\ up # <<>> /\ up' = Tail(up) /\ up \in Seq(UpFrames) /\ Head(up) \in UpFrames
    BY QueueTail DEF ServeTeams, ServeLog, client, db, TypeInv
  <1>2. /\ Head(up) = up[1] /\ 1 \in DOMAIN up
        /\ Len(up') = Len(up) - 1
        /\ \A i \in DOMAIN up' : i + 1 \in DOMAIN up /\ up'[i] = up[i + 1]
    BY <1>1, QueueTail
  <1>3. loads # 0
    BY <1>1 DEF FirstInv
  <1>4. CASE pending = NoLoad
    BY <1>1, <1>3, <1>4 DEF FirstInv, CompleteUnlessTimedOut, Within
  <1>5. CASE pending # NoLoad /\ ServeTeams
    <2> DEFINE f == [type |-> "teams", teams |-> known]
    <2>1. Asking /\ DOMAIN owed \subseteq known
      BY <1>2, <1>5 DEF ServeTeams, FirstInv, Collecting
    <2>2. f \in DownFrames
      BY DEF TypeInv, TypeOK, DownFrames
    <2>3. /\ Len(down') = Len(down) + 1
          /\ \A i \in DOMAIN down' : (i \in DOMAIN down /\ down'[i] = down[i]) \/ down'[i] = f
      BY <1>5, <2>2, QueueAppend DEF ServeTeams, TypeInv
    <2>4. Asking'
      BY <1>1, <1>2, <2>1, <2>3 DEF Asking, TypeInv
    <2> QED
      BY <1>1, <1>3, <2>4 DEF FirstInv, CompleteUnlessTimedOut, Within
  <1>6. CASE pending # NoLoad /\ ServeLog
    <2> DEFINE f == [type |-> "log-result", team |-> Head(up).team, events |-> log[Head(up).team]]
    <2>1. Collecting /\ Within(owed, log)
      BY <1>2, <1>6 DEF ServeLog, FirstInv, Asking
    <2>2. Head(up).team \in Teams
      BY <1>1, <1>6 DEF ServeLog, UpFrames
    <2>3. log[Head(up).team] \in Nat
      BY <2>2, AggregationAssumption DEF TypeInv, TypeOK
    <2>4. f \in DownFrames
      BY <2>2, <2>3 DEF DownFrames
    <2>5. \A i \in DOMAIN down' : (i \in DOMAIN down /\ down'[i] = down[i]) \/ down'[i] = f
      BY <1>6, <2>4, QueueAppend DEF ServeLog, TypeInv
    <2>6. f.type = "log-result" /\ Pays(f.team, f.events)
      BY <2>1 DEF Within, Pays
    <2> HIDE DEF f
    <2>7. Collecting'
      BY <1>1, <1>2, <2>1, <2>5, <2>6 DEF Collecting, Pays
    <2> QED
      BY <1>1, <1>3, <2>7 DEF FirstInv, CompleteUnlessTimedOut, Within
  <1> QED
    BY <1>4, <1>5, <1>6

LEMMA FirstStep == TypeInv /\ FirstInv /\ [Next]_vars => FirstInv'
  <1> SUFFICES ASSUME TypeInv, FirstInv, [Next]_vars
               PROVE  FirstInv'
    OBVIOUS
  <1>1. CASE Open \/ Draw \/ Die \/ OnClose \/ ChangeUrl
    BY <1>1, FirstLost DEF Open, Draw, Die, OnClose, ChangeUrl, client, db
  <1>2. CASE Reset \/ Restart
    BY <1>2, FirstLost DEF Reset, Restart, client
  <1>3. CASE UNCHANGED vars
    BY <1>3, FirstLost DEF vars, client, db
  <1>4. CASE Timeout
    <2>1. /\ timedOut' = TRUE /\ pending' = NoLoad /\ pending # NoLoad
          /\ UNCHANGED <<up, down, known, log, owed, loads>>
      BY <1>4 DEF Timeout, Finalize, db
    <2> QED
      BY <2>1 DEF FirstInv, CompleteUnlessTimedOut, Within
  <1>5. ASSUME NEW t \in Teams, TeamState(t) \/ LogPush(t)
        PROVE  FirstInv'
    <2>1. /\ \A u \in Teams : log[u] \in Nat /\ log'[u] \in Nat /\ log[u] <= log'[u]
          /\ known \subseteq known'
      BY <1>5, AggregationAssumption DEF TeamState, LogPush, TypeInv, TypeOK
    <2>2. UNCHANGED <<pending, report, timedOut, up, down, owed, loads>>
      BY <1>5 DEF TeamState, LogPush, client
    <2>3. owed \in [DOMAIN owed -> Nat] /\ DOMAIN owed \subseteq Teams
      BY LogElim DEF TypeInv
    <2>4. Within(owed, log) => Within(owed, log')
      BY <2>1, <2>3 DEF Within
    <2> QED
      BY <2>1, <2>2, <2>4 DEF FirstInv, CompleteUnlessTimedOut, Asking, Collecting, Pays, Within
  <1> QED
    BY <1>1, <1>2, <1>3, <1>4, <1>5, FirstLoadStats, FirstTeams, FirstLog, FirstServe DEF Next

\* The first report that the timer did not make has every event its teams had logged when
\* the button was pressed, for any number of teams and order of replies.
THEOREM FirstAlwaysComplete == Spec => []FirstReportComplete
  <1>1. Init => FirstInv
    <2>1. Init => Within(owed, log) /\ DOMAIN owed = {}
      BY NoLogTyped DEF Init, Within
    <2> QED
      BY <2>1 DEF Init, FirstInv, CompleteUnlessTimedOut
  <1>2. FirstInv => FirstReportComplete
    BY DEF FirstInv, FirstReportComplete
  <1> QED
    BY <1>1, <1>2, FirstStep, TypeAlways, PTL DEF Spec
=============================================================================
