------------------------ MODULE AssautDevice_proofs ------------------------
(***************************************************************************)
(* One Assaut installation and its disk, for every flow the config parser   *)
(* accepts and every number of transitions, keystrokes, kills and failures. *)
(***************************************************************************)
EXTENDS AssautDevice, AssautSequence_proofs

(***************************************************************************)
(* The engine makes coherent sessions of coherent ones.  A session has      *)
(* visited a step, or "ends where its visits end" would say nothing.        *)
(***************************************************************************)
Good == {s \in Sessions : Coherent(s) /\ s.visited # <<>>}

LEMMA SessionFields ==
    ASSUME NEW s \in Good
    PROVE  /\ s.step \in StepIds \cup {NoStep} /\ s.percent \in 0..100
           /\ s.visited \in Seq(StepIds) /\ s.visited # <<>>
           /\ DOMAIN s.choices \subseteq StepIds
           /\ s.choices \in [DOMAIN s.choices -> ChoiceIds]
  BY DEF Good, Sessions, ChoiceMaps

LEMMA MoveToGood ==
    ASSUME NEW s \in Good, NEW target \in StepIds \cup {NoStep}, NEW delta \in -100..100
    PROVE  /\ MoveTo(s, target, delta) \in Good
           /\ MoveTo(s, target, delta).choices = s.choices
           /\ \A i \in DOMAIN s.visited :
                 /\ i \in DOMAIN MoveTo(s, target, delta).visited
                 /\ MoveTo(s, target, delta).visited[i] = s.visited[i]
  <1>1. ClampPercent(s.percent + delta) \in 0..100
    <2>1. s.percent \in 0..100
      BY SessionFields
    <2>2. \A n \in 0..100 : n + delta \in Int
      OBVIOUS
    <2>3. s.percent + delta \in Int
      BY <2>1, <2>2
    <2> QED
      BY <2>3, ClampPercentRange
  <1>2. CASE target = NoStep
    <2>1. MoveTo(s, target, delta) =
             [s EXCEPT !.percent = ClampPercent(s.percent + delta), !.phase = "complete",
                       !.step = NoStep]
      BY <1>2 DEF MoveTo, Good, Sessions
    <2> QED
      BY <1>1, <2>1 DEF Good, Sessions, Coherent
  <1>3. CASE target # NoStep
    <2>1. MoveTo(s, target, delta) =
             [s EXCEPT !.percent = ClampPercent(s.percent + delta), !.phase = PhaseOf(target),
                       !.step = target, !.visited = Append(s.visited, target)]
      BY <1>3 DEF MoveTo, Good, Sessions
    <2>2. /\ Append(s.visited, target) \in Seq(StepIds) /\ Append(s.visited, target) # <<>>
          /\ Append(s.visited, target)[Len(Append(s.visited, target))] = target
          /\ \A i \in DOMAIN s.visited : /\ i \in DOMAIN Append(s.visited, target)
                                         /\ Append(s.visited, target)[i] = s.visited[i]
      BY <1>3, SessionFields, AppendProperties, LenProperties
    <2>3. PhaseOf(target) \in {"prep", "assault", "complete"}
      BY DEF PhaseOf
    <2>4. MoveTo(s, target, delta) \in Sessions
      BY <1>1, <1>3, <2>1, <2>2, <2>3 DEF Good, Sessions
    <2>5. Coherent(MoveTo(s, target, delta))
      BY <1>3, <2>1, <2>2 DEF Good, Sessions, Coherent
    <2> QED
      BY <2>1, <2>2, <2>4, <2>5 DEF Good, Sessions
  <1> QED
    BY <1>2, <1>3

LEMMA AdvanceGood ==
    ASSUME NEW s \in Good, ~AdvanceThrows(s.step), NEW e
    PROVE  Advance(s, e) \in Good
  <1>1. s.step \in StepIds
    BY SessionFields DEF AdvanceThrows
  <1> QED
    BY <1>1, NextStepType, EventDeltaType, MoveToGood DEF Advance

LEMMA ApplyChoiceGood ==
    ASSUME NEW s \in Good, NEW c \in ChoiceIds, ~ChoiceThrows(s.step, c)
    PROVE  ApplyChoice(s, c) \in Good
  <1>1. s.step \in StepIds /\ ChoiceMatches(s.step, c) # {}
    BY SessionFields DEF ChoiceThrows
  <1> DEFINE m == MoveTo(s, ChoiceTarget(s.step, c), ChosenOption(s.step, c).delta)
             chosen == [x \in DOMAIN s.choices \cup {s.step} |->
                           IF x = s.step THEN c ELSE s.choices[x]]
  <1>2. /\ m \in Good /\ m.choices = s.choices
        /\ \A i \in DOMAIN s.visited : i \in DOMAIN m.visited /\ m.visited[i] = s.visited[i]
    <2>1. /\ ChoiceTarget(s.step, c) \in StepIds \cup {NoStep}
          /\ ChosenOption(s.step, c).delta \in -100..100
      BY <1>1, ChoiceTargetType
    <2> QED
      BY <2>1, MoveToGood
  <1>3. ApplyChoice(s, c) = [m EXCEPT !.choices = chosen]
    BY <1>2 DEF ApplyChoice
  <1> HIDE DEF m
  <1>4. chosen \in ChoiceMaps
    <2>1. DOMAIN s.choices \cup {s.step} \in SUBSET StepIds
      BY <1>1, SessionFields
    <2>2. chosen \in [DOMAIN s.choices \cup {s.step} -> ChoiceIds]
      BY SessionFields
    <2> QED
      BY <2>1, <2>2 DEF ChoiceMaps
  <1>5. \A p \in DOMAIN chosen : /\ ChoiceMatches(p, chosen[p]) # {}
                                 /\ \E i \in DOMAIN m.visited : m.visited[i] = p
    <2>1. \E i \in DOMAIN s.visited : s.visited[i] = s.step
      <3>1. Len(s.visited) \in DOMAIN s.visited
        BY SessionFields, LenProperties, EmptySeq
      <3> QED
        BY <1>1, <3>1, FlowAssumption DEF Good, Coherent
    <2>2. \A p \in DOMAIN s.choices : /\ ChoiceMatches(p, s.choices[p]) # {}
                                      /\ \E i \in DOMAIN s.visited : s.visited[i] = p
      BY DEF Good, Coherent
    <2> QED
      BY <1>1, <1>2, <2>1, <2>2
  <1> HIDE DEF chosen
  <1>6. /\ ApplyChoice(s, c) \in Sessions
        /\ ApplyChoice(s, c).choices = chosen /\ ApplyChoice(s, c).visited = m.visited
        /\ ApplyChoice(s, c).step = m.step /\ ApplyChoice(s, c).phase = m.phase
    BY <1>2, <1>3, <1>4 DEF Good, Sessions
  <1>7. Coherent(ApplyChoice(s, c))
    BY <1>2, <1>5, <1>6 DEF Good, Coherent
  <1> QED
    BY <1>2, <1>6, <1>7 DEF Good

LEMMA StartedGood ==
    ASSUME NEW s \in StepIds, NEW n \in 0..100
    PROVE  [phase |-> PhaseOf(s), step |-> s, choices |-> EmptyChoices, percent |-> n,
            visited |-> <<s>>] \in Good
  <1>1. EmptyChoices \in ChoiceMaps /\ DOMAIN EmptyChoices = {}
    BY DEF EmptyChoices, ChoiceMaps
  <1>2. <<s>> \in Seq(StepIds) /\ <<s>> # <<>> /\ Len(<<s>>) = 1 /\ <<s>>[1] = s
    OBVIOUS
  <1>3. PhaseOf(s) \in {"prep", "assault", "complete"} /\ s # NoStep
    BY FlowAssumption DEF PhaseOf
  <1> QED
    BY <1>1, <1>2, <1>3 DEF Good, Sessions, Coherent

LEMMA InitialSessionGood ==
    /\ CreateSession \in Good
    /\ \A step : \A score \in 0..100 : RestoreSession(step, score) \in Good
  <1>1. ClampPercent(StartPercent) \in 0..100 /\ Flow[1] \in StepIds
    BY ClampPercentRange, ConfigAssumption, FlowSequence DEF StepIds
  <1>2. CreateSession \in Good
    BY <1>1, StartedGood DEF CreateSession
  <1>3. ASSUME NEW step, NEW score \in 0..100 PROVE RestoreSession(step, score) \in Good
    <2>1. ClampPercent(score) \in 0..100
      BY ClampPercentRange
    <2> QED
      BY <1>2, <2>1, StartedGood DEF RestoreSession, HasStep
  <1> QED
    BY <1>2, <1>3

-----------------------------------------------------------------------------
(***************************************************************************)
(* What is in memory, on its way to the disk and on it.                     *)
(***************************************************************************)
Writes ==
    [kind : {"session"}, value : Good, of : Nat]
    \cup [kind : {"game"}, value : GameType, previous : GameType]

GoodFiles == [gameState : GameType, session : Good \cup {NoBlob}, blobOf : Nat]

WellTyped ==
    /\ running \in BOOLEAN
    /\ session \in Good /\ game \in GameType /\ shown \in GameType
    /\ rejected \in Seq(GameType)
    /\ ipc \in Seq(Writes)
    /\ file # Truncated => file \in GoodFiles
    /\ minted \in Nat /\ moves \in Nat /\ keys \in Nat /\ written \in Nat
    /\ kills \in Nat /\ failures \in Nat
    /\ behind \in BOOLEAN /\ crossed \in BOOLEAN
    /\ ~running => ipc = <<>> /\ rejected = <<>>

LEMMA DefaultsTyped ==
    /\ DefaultGame \in GameType /\ EmptyFile \in GoodFiles
    /\ <<>> \in Seq(Writes) /\ <<>> \in Seq(GameType)
  <1>1. DefaultGame \in GameType
    <2>1. "" \in Drafts
      BY Zenon, DeviceAssumption DEF DeviceAssumption
    <2>2. 0 \in 0..100 /\ 0 \in Nat
      OBVIOUS
    <2> QED
      BY <2>1, <2>2 DEF DefaultGame, GameType
  <1> QED
    BY <1>1, EmptySeq DEF EmptyFile, GoodFiles

LEMMA ContentsTyped ==
    ASSUME WellTyped PROVE Contents \in GoodFiles
  BY DefaultsTyped DEF WellTyped, Contents, Readable

LEMMA GameFields ==
    ASSUME NEW g \in GameType
    PROVE  /\ g.score \in 0..100 /\ g.of \in Nat /\ g.device \in Nat
           /\ \A n \in Nat : [g EXCEPT !.device = n] \in GameType
           /\ \A text \in Drafts : [g EXCEPT !.draft = text] \in GameType
  BY DEF GameType

LEMMA Resumed ==
    ASSUME WellTyped, NEW g \in GameType, Resume(g)
    PROVE  game' = g /\ shown' = g /\ session' \in Good
  <1>1. Contents.session \in Good \cup {NoBlob}
    BY ContentsTyped DEF GoodFiles
  <1>2. g.score \in 0..100
    BY GameFields
  <1> QED
    BY <1>1, <1>2, InitialSessionGood DEF Resume, InitialSession

LEMMA InitTyped == Init => WellTyped
  <1> SUFFICES ASSUME Init PROVE WellTyped
    OBVIOUS
  <1>1. session \in Good /\ game \in GameType /\ shown \in GameType
    BY DefaultsTyped, InitialSessionGood DEF Init
  <1>2. rejected \in Seq(GameType) /\ ipc \in Seq(Writes) /\ file \in GoodFiles
    BY DefaultsTyped DEF Init
  <1> QED
    BY <1>1, <1>2 DEF Init, WellTyped

LEMMA BootTyped ==
    ASSUME WellTyped, Boot \/ BootUnpersisted
    PROVE  WellTyped'
  <1>1. Contents \in GoodFiles /\ Contents.gameState \in GameType
    BY ContentsTyped DEF GoodFiles
  <1>2. CASE Boot /\ Contents.gameState.device # 0
    BY <1>1, <1>2, Resumed DEF Boot, WellTyped
  <1>3. CASE Boot /\ Contents.gameState.device = 0
    <2> DEFINE named == [Contents.gameState EXCEPT !.device = minted + 1]
    <2>1. named \in GameType
      <3>1. minted + 1 \in Nat
        BY DEF WellTyped
      <3> QED
        BY <1>1, <3>1, GameFields
    <2>2. Resume(named) /\ file' = [Contents EXCEPT !.gameState = named]
      BY <1>3 DEF Boot
    <2> HIDE DEF named
    <2>3. file' \in GoodFiles
      BY <1>1, <2>1, <2>2 DEF GoodFiles
    <2> QED
      BY <1>3, <2>1, <2>2, <2>3, Resumed DEF Boot, WellTyped
  <1>4. CASE BootUnpersisted
    <2>1. [DefaultGame EXCEPT !.device = minted + 1] \in GameType
      <3>1. minted + 1 \in Nat
        BY DEF WellTyped
      <3> QED
        BY <3>1, DefaultsTyped, GameFields
    <2> QED
      BY <1>4, <2>1, Resumed DEF BootUnpersisted, WellTyped
  <1> QED
    BY <1>2, <1>3, <1>4

LEMMA ProjectionTyped ==
    ASSUME WellTyped, NEW next \in Good
    PROVE  ProjectToGameState(next) \in GameType
  <1>1. Len(next.visited) \in DOMAIN next.visited
    BY SessionFields, LenProperties, EmptySeq
  <1>2. next.visited[Len(next.visited)] \in StepIds
    BY <1>1, SessionFields, ElementOfSeq, LenProperties
  <1>3. ProjectStep(next, game.step) \in StepIds
    BY <1>2, SessionFields DEF ProjectStep
  <1>4. next.percent \in 0..100
    BY SessionFields
  <1> QED
    <2>1. moves + 1 \in Nat /\ game \in GameType
      BY DEF WellTyped
    <2> QED
      BY <1>3, <1>4, <2>1 DEF ProjectToGameState, GameType

\* The two writes of a transition, one after the other.
LEMMA PairAppended ==
    ASSUME NEW S, NEW q \in Seq(S), NEW a \in S, NEW b \in S
    PROVE  q \o <<a, b>> = Append(Append(q, a), b)
  <1>1. <<a, b>> \in Seq(S) /\ Len(<<a, b>>) = 2 /\ <<a, b>>[1] = a /\ <<a, b>>[2] = b
    OBVIOUS
  <1>2. /\ Len(q) \in Nat /\ q \o <<a, b>> \in Seq(S) /\ Len(q \o <<a, b>>) = Len(q) + 2
        /\ \A i \in 1..Len(q) + 2 :
              (q \o <<a, b>>)[i] = IF i <= Len(q) THEN q[i] ELSE <<a, b>>[i - Len(q)]
    BY <1>1, ConcatProperties, LenProperties
  <1>3. /\ Append(q, a) \in Seq(S) /\ Len(Append(q, a)) = Len(q) + 1
        /\ \A i \in 1..Len(q) : Append(q, a)[i] = q[i]
        /\ Append(q, a)[Len(q) + 1] = a
    BY AppendProperties
  <1>4. /\ Append(Append(q, a), b) \in Seq(S) /\ Len(Append(Append(q, a), b)) = Len(q) + 2
        /\ \A i \in 1..Len(q) + 1 : Append(Append(q, a), b)[i] = Append(q, a)[i]
        /\ Append(Append(q, a), b)[Len(q) + 2] = b
    BY <1>2, <1>3, AppendProperties
  <1>5. \A i \in 1..Len(q) + 2 : (q \o <<a, b>>)[i] = Append(Append(q, a), b)[i]
    <2> SUFFICES ASSUME NEW i \in 1..Len(q) + 2
                 PROVE  (q \o <<a, b>>)[i] = Append(Append(q, a), b)[i]
      OBVIOUS
    <2>1. i \in 1..Len(q) \/ i = Len(q) + 1 \/ i = Len(q) + 2
      BY <1>2
    <2> QED
      BY <1>1, <1>2, <1>3, <1>4, <2>1
  <1> QED
    BY <1>2, <1>4, <1>5, SeqEqual

LEMMA CommitTyped ==
    ASSUME WellTyped, NEW next \in Good, Commit(next)
    PROVE  /\ session' \in Good /\ game' \in GameType /\ ipc' \in Seq(Writes) /\ moves' \in Nat
           /\ game' = ProjectToGameState(next)
           /\ behind' = FALSE /\ crossed' = (crossed \/ rejected # <<>>)
           /\ SessionWrite(next, moves + 1) \in Writes /\ GameWrite(game') \in Writes
           /\ ipc' = Append(Append(ipc, SessionWrite(next, moves + 1)), GameWrite(game'))
  <1>1. game' = ProjectToGameState(next) /\ game' \in GameType
    BY ProjectionTyped DEF Commit
  <1>2. SessionWrite(next, moves + 1) \in Writes
    BY DEF SessionWrite, Writes, WellTyped
  <1>3. GameWrite(game') \in Writes
    BY <1>1 DEF GameWrite, Writes, WellTyped
  <1>4. ipc' = ipc \o <<SessionWrite(next, moves + 1), GameWrite(game')>>
    BY DEF Commit, GameWrite
  <1>5. ipc' = Append(Append(ipc, SessionWrite(next, moves + 1)), GameWrite(game'))
    BY <1>2, <1>3, <1>4, PairAppended DEF WellTyped
  <1> QED
    BY <1>1, <1>2, <1>3, <1>5, AppendProperties DEF Commit, CrossesRejection, WellTyped

LEMMA TransitionTyped ==
    ASSUME WellTyped, Submit \/ Choose
    PROVE  WellTyped' /\ \E next \in Good : Commit(next)
  <1>1. PICK next \in Good : Commit(next)
    BY AdvanceGood, ApplyChoiceGood DEF Submit, Choose, WellTyped
  <1>2. running /\ UNCHANGED <<running, shown, rejected, file, minted, keys, written, kills, failures>>
    BY DEF Submit, Choose
  <1> QED
    BY <1>1, <1>2, CommitTyped DEF WellTyped

LEMMA TypeCodeTyped ==
    ASSUME WellTyped, TypeCode
    PROVE  /\ WellTyped' /\ GameWrite(game') \in Writes
           /\ ipc' = Append(ipc, GameWrite(game'))
           /\ game'.of = game.of /\ game'.device = game.device
  <1>1. PICK text \in Drafts : /\ game' = [game EXCEPT !.draft = text]
                               /\ ipc' = Append(ipc, GameWrite([game EXCEPT !.draft = text]))
    BY DEF TypeCode, Typed
  <1>2. game' \in GameType /\ game'.of = game.of /\ game'.device = game.device
    BY <1>1, GameFields DEF WellTyped, GameType
  <1>3. ipc' = Append(ipc, GameWrite(game'))
    BY <1>1 DEF GameWrite
  <1>4. GameWrite(game') \in Writes
    BY <1>2 DEF GameWrite, Writes, WellTyped
  <1>5. ipc' \in Seq(Writes)
    BY <1>3, <1>4, AppendProperties DEF WellTyped
  <1> QED
    BY <1>2, <1>3, <1>4, <1>5 DEF TypeCode, CrossesRejection, WellTyped

\* The write at the head of the queue.
LEMMA HeadWrite ==
    ASSUME WellTyped, ipc # <<>>
    PROVE  /\ Head(ipc) \in Writes /\ Tail(ipc) \in Seq(Writes)
           /\ Len(ipc) \in Nat \ {0} /\ Head(ipc) = ipc[1]
           /\ Len(Tail(ipc)) = Len(ipc) - 1
           /\ \A i \in 1..Len(Tail(ipc)) : Tail(ipc)[i] = ipc[i + 1]
  BY HeadTailProperties, EmptySeq, LenProperties DEF WellTyped

LEMMA WriteFields ==
    ASSUME NEW w \in Writes
    PROVE  \/ /\ w.kind = "session" /\ w.value \in Good /\ w.of \in Nat
           \/ /\ w.kind = "game" /\ w.value \in GameType /\ w.previous \in GameType
  BY DEF Writes

LEMMA RewrittenTyped ==
    ASSUME WellTyped, NEW w \in Writes
    PROVE  /\ Rewritten(w) \in GoodFiles
           /\ w.kind = "session" => /\ Rewritten(w).gameState = Contents.gameState
                                    /\ Rewritten(w).session = w.value
                                    /\ Rewritten(w).blobOf = w.of
           /\ w.kind = "game" => /\ Rewritten(w).gameState = w.value
                                 /\ Rewritten(w).session = Contents.session
                                 /\ Rewritten(w).blobOf = Contents.blobOf
  BY ContentsTyped, WriteFields DEF Rewritten, GoodFiles

LEMMA ServeTyped ==
    ASSUME WellTyped, ServeWrite \/ FailWrite \/ Revert \/ Render
    PROVE  WellTyped'
  <1>1. CASE ServeWrite
    <2>1. Head(ipc) \in Writes /\ Tail(ipc) \in Seq(Writes)
      BY <1>1, HeadWrite DEF ServeWrite
    <2>2. file' \in GoodFiles /\ written' \in Nat
      BY <1>1, <2>1, RewrittenTyped, WriteFields DEF ServeWrite, WellTyped
    <2> QED
      BY <1>1, <2>1, <2>2 DEF ServeWrite, WellTyped
  <1>2. CASE FailWrite
    <2>1. Head(ipc) \in Writes /\ Tail(ipc) \in Seq(Writes)
      BY <1>2, HeadWrite DEF FailWrite
    <2>2. rejected' \in Seq(GameType)
      <3>1. CASE Head(ipc).kind = "game"
        <4>1. Head(ipc).previous \in GameType
          BY <2>1, <3>1, WriteFields
        <4> QED
          BY <1>2, <3>1, <4>1, AppendProperties DEF FailWrite, WellTyped
      <3>2. CASE Head(ipc).kind # "game"
        BY <1>2, <3>2 DEF FailWrite, WellTyped
      <3> QED
        BY <3>1, <3>2
    <2>3. crossed' \in BOOLEAN
      BY <1>2 DEF FailWrite, WellTyped
    <2>4. /\ ipc' = Tail(ipc) /\ failures' = failures + 1 /\ running
          /\ UNCHANGED <<running, session, game, shown, file, minted, moves, keys, written,
                         kills, behind>>
      BY <1>2 DEF FailWrite
    <2> QED
      BY <2>1, <2>2, <2>3, <2>4 DEF WellTyped
  <1>3. CASE Revert
    <2>1. Head(rejected) \in GameType /\ Tail(rejected) \in Seq(GameType)
      BY <1>3, HeadTailProperties DEF Revert, WellTyped
    <2> QED
      BY <1>3, <2>1 DEF Revert, WellTyped, counters
  <1>4. CASE Render
    BY <1>4 DEF Render, WellTyped, counters
  <1> QED
    BY <1>1, <1>2, <1>3, <1>4

LEMMA KillTyped ==
    ASSUME WellTyped, Kill \/ KillInWrite
    PROVE  WellTyped'
  <1>1. /\ running' = FALSE /\ ipc' = <<>> /\ rejected' = <<>>
        /\ session' = CreateSession /\ game' = DefaultGame /\ shown' = DefaultGame
        /\ kills' = kills + 1 /\ behind' = (behind \/ ipc # <<>>) /\ crossed' = FALSE
        /\ UNCHANGED <<minted, moves, keys, written>>
    BY DEF Kill, KillInWrite, Die
  <1>2. (file' = file /\ failures' = failures) \/ (file' = Truncated /\ failures' = failures + 1)
    BY DEF Kill, KillInWrite
  <1>3. failures' \in Nat /\ kills' \in Nat
    BY <1>1, <1>2 DEF WellTyped
  <1>4. file' # Truncated => file' \in GoodFiles
    BY <1>2 DEF WellTyped
  <1>5. /\ session' \in Good /\ game' \in GameType /\ shown' \in GameType
        /\ rejected' \in Seq(GameType) /\ ipc' \in Seq(Writes)
    BY <1>1, DefaultsTyped, InitialSessionGood
  <1> QED
    BY <1>1, <1>3, <1>4, <1>5 DEF WellTyped

LEMMA StepTyped ==
    ASSUME WellTyped, [Next]_vars
    PROVE  WellTyped'
  <1>1. CASE UNCHANGED vars
    BY <1>1 DEF vars, WellTyped
  <1>2. CASE Next
    BY <1>2, BootTyped, TransitionTyped, TypeCodeTyped, ServeTyped, KillTyped DEF Next
  <1> QED
    BY <1>1, <1>2

\* Memory, queue and file are always well typed: every session in them is one the
\* engine makes, every GameState one of its projections.
THEOREM AlwaysWellTyped == Spec => []WellTyped
  <1> QED
    BY InitTyped, StepTyped, PTL DEF Spec

\* A session in memory or on disk is always one the engine can make.
THEOREM SessionsAlwaysCoherent == Spec => []SessionsCoherent
  <1>1. WellTyped => SessionsCoherent
    <2> SUFFICES ASSUME WellTyped PROVE SessionsCoherent
      OBVIOUS
    <2>1. ASSUME NEW i \in DOMAIN ipc PROVE ipc[i].kind \in {"session", "game"}
      <3>1. ipc[i] \in Writes
        BY <2>1, ElementOfSeq, LenProperties DEF WellTyped
      <3> QED
        BY <3>1, WriteFields
    <2>2. Readable => file \in Files
      BY DEF WellTyped, Readable, GoodFiles, Files, Good
    <2>3. \A v \in {minted, moves, keys, written, kills, failures} : v \in Nat
      BY DEF WellTyped
    <2>4. session \in Sessions /\ Coherent(session)
      BY DEF WellTyped, Good
    <2>5. Readable /\ file.session # NoBlob => Coherent(file.session)
      BY DEF WellTyped, Readable, GoodFiles, Good
    <2> QED
      BY <2>1, <2>2, <2>3, <2>4, <2>5 DEF WellTyped, TypeOK, SessionsCoherent
  <1> QED
    BY <1>1, AlwaysWellTyped, PTL

-----------------------------------------------------------------------------
(***************************************************************************)
(* While no write fails.  A GameState follows its blob through the queue to *)
(* the disk, and the last GameState sent, or else stored, is the one shown. *)
(***************************************************************************)
\* With the blobs up to `done' written, that of transition n is too, or is in the
\* queue q before position i.
BlobAhead(q, done, n, i) ==
    \/ n <= done
    \/ \E j \in DOMAIN q : j < i /\ q[j].kind = "session" /\ n <= q[j].of

DiskWhole ==
    /\ rejected = <<>> /\ file # Truncated
    /\ file.blobOf = written /\ written <= moves /\ file.gameState.of <= written

BlobsInOrder ==
    /\ \A i \in DOMAIN ipc :
          ipc[i].kind = "session" => written <= ipc[i].of /\ ipc[i].of <= moves
    /\ \A i, j \in DOMAIN ipc :
          i < j /\ ipc[i].kind = "session" /\ ipc[j].kind = "session" => ipc[i].of <= ipc[j].of

GamesBehindBlobs ==
    /\ \A i \in DOMAIN ipc : ipc[i].kind = "game" => BlobAhead(ipc, written, ipc[i].value.of, i)
    /\ running => BlobAhead(ipc, written, game.of, Len(ipc) + 1)

ShownIsLast ==
    running =>
        \/ /\ game = file.gameState
           /\ \A i \in DOMAIN ipc : ipc[i].kind # "game"
        \/ \E i \in DOMAIN ipc :
              /\ ipc[i].kind = "game" /\ ipc[i].value = game
              /\ \A j \in DOMAIN ipc : j > i => ipc[j].kind # "game"

OneDevice ==
    /\ running => game.device = file.gameState.device
    /\ \A i \in DOMAIN ipc :
          ipc[i].kind = "game" => ipc[i].value.device = file.gameState.device

\* The last blob sent, or else stored, is of the transition `of'.
LastBlobOf(of) ==
    \/ /\ file.blobOf = of
       /\ \A i \in DOMAIN ipc : ipc[i].kind # "session"
    \/ \E i \in DOMAIN ipc :
          /\ ipc[i].kind = "session" /\ ipc[i].of = of
          /\ \A j \in DOMAIN ipc : j > i => ipc[j].kind # "session"

Halves == ~behind => LastBlobOf(IF running THEN game.of ELSE file.gameState.of)

InOrder ==
    DiskWhole /\ BlobsInOrder /\ GamesBehindBlobs /\ ShownIsLast /\ OneDevice /\ Halves

DiskInv == WellTyped /\ (failures = 0 => InOrder)

LEMMA DefaultsOrdered ==
    /\ DefaultGame.of = 0 /\ EmptyFile.gameState = DefaultGame /\ EmptyFile.blobOf = 0
    /\ EmptyFile # Truncated
  <1>1. EmptyFile \in GoodFiles
    BY DefaultsTyped
  <1>2. GoodFiles \subseteq Files
    BY DEF GoodFiles, Files, Good
  <1>3. Truncated \notin Files
    BY Zenon, DeviceAssumption DEF DeviceAssumption
  <1> QED
    BY <1>1, <1>2, <1>3 DEF DefaultGame, EmptyFile

LEMMA NotTruncated == ASSUME NEW f \in GoodFiles PROVE f # Truncated
  <1>1. GoodFiles \subseteq Files
    BY DEF GoodFiles, Files, Good
  <1>2. Truncated \notin Files
    BY Zenon, DeviceAssumption DEF DeviceAssumption
  <1> QED
    BY <1>1, <1>2

LEMMA InitOrdered == Init => DiskInv
  <1> SUFFICES ASSUME Init PROVE DiskInv
    OBVIOUS
  <1>1. ipc = <<>> /\ running = FALSE /\ DOMAIN ipc = {}
    BY DEF Init
  <1>2. DiskWhole
    BY DefaultsOrdered DEF Init, DiskWhole
  <1>3. BlobsInOrder /\ GamesBehindBlobs /\ ShownIsLast /\ OneDevice
    BY <1>1 DEF BlobsInOrder, GamesBehindBlobs, ShownIsLast, OneDevice
  <1>4. Halves
    BY <1>1, DefaultsOrdered DEF Init, Halves, LastBlobOf
  <1> QED
    BY <1>2, <1>3, <1>4, InitTyped DEF DiskInv, InOrder

LEMMA BootOrdered ==
    ASSUME DiskInv, Boot, failures = 0 PROVE InOrder'
  <1>1. /\ WellTyped /\ InOrder /\ ipc = <<>> /\ ipc' = <<>> /\ Contents = file /\ file \in GoodFiles
        /\ rejected' = rejected /\ written' = written /\ moves' = moves
    BY DEF Boot, DiskInv, InOrder, DiskWhole, WellTyped, Contents, Readable
  <1>2. /\ game' = file'.gameState /\ file'.gameState.of = file.gameState.of
        /\ file'.blobOf = file.blobOf /\ file' # Truncated
    <2>1. CASE file.gameState.device # 0
      BY <1>1, <2>1, NotTruncated DEF Boot, Resume
    <2>2. CASE file.gameState.device = 0
      <3> DEFINE named == [file.gameState EXCEPT !.device = minted + 1]
      <3>1. file' = [file EXCEPT !.gameState = named] /\ game' = named
        BY <1>1, <2>2 DEF Boot, Resume
      <3>2. named.of = file.gameState.of /\ named \in GameType
        <4>1. file.gameState \in GameType /\ minted + 1 \in Nat
          BY <1>1 DEF GoodFiles, WellTyped
        <4> QED
          BY <4>1, GameFields DEF GameType
      <3> HIDE DEF named
      <3>3. /\ file'.gameState = named /\ file'.blobOf = file.blobOf /\ file' \in GoodFiles
        BY <1>1, <3>1, <3>2 DEF GoodFiles
      <3> QED
        BY <3>1, <3>2, <3>3, NotTruncated
    <2> QED
      BY <2>1, <2>2
  <1>3. DOMAIN ipc' = {}
    BY <1>1
  <1>4. DiskWhole'
    BY <1>1, <1>2 DEF InOrder, DiskWhole
  <1>5. BlobsInOrder' /\ ShownIsLast' /\ OneDevice'
    BY <1>2, <1>3 DEF BlobsInOrder, ShownIsLast, OneDevice
  <1>6. GamesBehindBlobs'
    BY <1>2, <1>3, <1>4 DEF GamesBehindBlobs, BlobAhead, DiskWhole
  <1>7. Halves'
    <2>1. ~behind => file.blobOf = file.gameState.of
      BY <1>1, <1>3 DEF InOrder, Halves, LastBlobOf, Boot
    <2>2. running' /\ behind' = behind
      BY DEF Boot
    <2> QED
      BY <1>2, <1>3, <2>1, <2>2 DEF Halves, LastBlobOf
  <1> QED
    BY <1>4, <1>5, <1>6, <1>7 DEF InOrder

\* A GameState sent, with or without a newer blob before it.
LEMMA AppendFacts ==
    ASSUME WellTyped, NEW w \in Writes
    PROVE  /\ Append(ipc, w) \in Seq(Writes) /\ DOMAIN Append(ipc, w) = 1..Len(ipc) + 1
           /\ Len(Append(ipc, w)) = Len(ipc) + 1 /\ Len(ipc) \in Nat
           /\ DOMAIN ipc = 1..Len(ipc)
           /\ \A i \in DOMAIN ipc : Append(ipc, w)[i] = ipc[i]
           /\ Append(ipc, w)[Len(ipc) + 1] = w
  BY AppendProperties, LenProperties DEF WellTyped

LEMMA TypeCodeOrdered ==
    ASSUME DiskInv, TypeCode, failures = 0 PROVE InOrder'
  <1> DEFINE w == GameWrite(game')
             n == Len(ipc)
  <1>1. WellTyped /\ InOrder /\ running
    BY DEF DiskInv, TypeCode
  <1>2. /\ w \in Writes /\ w.kind = "game" /\ w.value = game' /\ ipc' = Append(ipc, w)
        /\ game'.of = game.of /\ game'.device = game.device
    BY <1>1, TypeCodeTyped DEF GameWrite
  <1>3. UNCHANGED <<running, rejected, file, moves, written>>
    BY DEF TypeCode
  <1> HIDE DEF w
  <1>4. /\ DOMAIN ipc' = 1..n + 1 /\ Len(ipc') = n + 1 /\ n \in Nat /\ DOMAIN ipc = 1..n
        /\ \A i \in 1..n : ipc'[i] = ipc[i]
        /\ ipc'[n + 1] = w
    BY <1>1, <1>2, AppendFacts
  <1> HIDE DEF n
  <1>5. \A i \in DOMAIN ipc' : i \in DOMAIN ipc \/ i = n + 1
    BY <1>4
  <1>6. \A k, i : BlobAhead(ipc, written, k, i) => BlobAhead(ipc', written', k, i)
    BY <1>3, <1>4 DEF BlobAhead
  <1>7. DiskWhole'
    BY <1>1, <1>3 DEF InOrder, DiskWhole
  <1>8. BlobsInOrder'
    BY <1>1, <1>2, <1>3, <1>4, <1>5 DEF InOrder, BlobsInOrder
  <1>9. ShownIsLast'
    BY <1>2, <1>4 DEF ShownIsLast
  <1>10. OneDevice'
    BY <1>1, <1>2, <1>3, <1>4, <1>5 DEF InOrder, OneDevice
  <1>11. GamesBehindBlobs'
    <2>1. BlobAhead(ipc, written, game.of, n + 1)
      BY <1>1 DEF InOrder, GamesBehindBlobs, n
    <2>2. BlobAhead(ipc', written', game'.of, n + 1)
      BY <1>2, <1>6, <2>1
    <2>3. BlobAhead(ipc', written', game'.of, n + 2)
      BY <1>4, <2>2 DEF BlobAhead
    <2>4. \A i \in DOMAIN ipc : ipc[i].kind = "game" => BlobAhead(ipc, written, ipc[i].value.of, i)
      BY <1>1 DEF InOrder, GamesBehindBlobs
    <2>5. ASSUME NEW i \in DOMAIN ipc', ipc'[i].kind = "game"
          PROVE  BlobAhead(ipc', written', ipc'[i].value.of, i)
      <3>1. CASE i = n + 1
        BY <1>2, <1>4, <2>2, <3>1
      <3>2. CASE i \in DOMAIN ipc
        BY <1>4, <1>6, <2>4, <2>5, <3>2
      <3> QED
        BY <1>5, <3>1, <3>2
    <2>6. Len(ipc') + 1 = n + 2
      BY <1>4
    <2> QED
      BY <2>3, <2>5, <2>6 DEF GamesBehindBlobs
  <1>12. Halves'
    <2>1. running' /\ behind' = behind /\ file'.blobOf = file.blobOf /\ game'.of = game.of
      BY <1>1, <1>2, <1>3 DEF TypeCode
    <2>2. ipc'[n + 1].kind = "game"
      BY <1>2, <1>4
    <2>3. LastBlobOf(game.of) => LastBlobOf(game.of)'
      BY <1>4, <1>5, <2>1, <2>2 DEF LastBlobOf
    <2> QED
      BY <1>1, <2>1, <2>3 DEF InOrder, Halves
  <1> QED
    BY <1>7, <1>8, <1>9, <1>10, <1>11, <1>12 DEF InOrder

LEMMA TransitionOrdered ==
    ASSUME DiskInv, Submit \/ Choose, failures = 0 PROVE InOrder'
  <1>1. WellTyped /\ InOrder /\ running
    BY DEF DiskInv, Submit, Choose
  <1>2. UNCHANGED <<running, rejected, file, written>>
    BY DEF Submit, Choose
  <1>3. PICK next \in Good : Commit(next)
    BY <1>1, TransitionTyped
  <1> DEFINE a == SessionWrite(next, moves + 1)
             b == GameWrite(game')
             n == Len(ipc)
  <1>4. /\ a \in Writes /\ b \in Writes /\ ipc' = Append(Append(ipc, a), b)
        /\ game' = ProjectToGameState(next) /\ game' \in GameType
    BY <1>1, <1>3, CommitTyped
  <1>5. /\ a.kind = "session" /\ a.of = moves + 1 /\ b.kind = "game" /\ b.value = game'
        /\ moves' = moves + 1 /\ moves \in Nat /\ written \in Nat
    BY <1>1, <1>3 DEF SessionWrite, GameWrite, Commit, WellTyped
  <1>6. game'.of = moves + 1 /\ game'.device = game.device
    <2>1. game \in GameType
      BY <1>1 DEF WellTyped
    <2> QED
      BY <1>4, <2>1 DEF ProjectToGameState, GameType
  <1> HIDE DEF a, b
  <1>7. /\ DOMAIN ipc' = 1..n + 2 /\ Len(ipc') = n + 2 /\ n \in Nat /\ DOMAIN ipc = 1..n
        /\ \A i \in 1..n : ipc'[i] = ipc[i]
        /\ ipc'[n + 1] = a /\ ipc'[n + 2] = b
    <2>1. /\ Append(ipc, a) \in Seq(Writes) /\ Len(Append(ipc, a)) = n + 1 /\ n \in Nat
          /\ DOMAIN ipc = 1..n /\ \A i \in 1..n : Append(ipc, a)[i] = ipc[i]
          /\ Append(ipc, a)[n + 1] = a
      BY <1>1, <1>4, AppendFacts
    <2>2. /\ ipc' \in Seq(Writes) /\ Len(ipc') = n + 2
          /\ \A i \in 1..n + 1 : ipc'[i] = Append(ipc, a)[i]
          /\ ipc'[n + 2] = b
      BY <1>4, <2>1, AppendProperties
    <2> QED
      BY <2>1, <2>2, LenProperties
  <1> HIDE DEF n
  <1>8. \A i \in DOMAIN ipc' : i \in DOMAIN ipc \/ i = n + 1 \/ i = n + 2
    BY <1>7
  <1>9. \A k, i : BlobAhead(ipc, written, k, i) => BlobAhead(ipc', written', k, i)
    BY <1>2, <1>7 DEF BlobAhead
  <1>10. DiskWhole'
    BY <1>1, <1>2, <1>5 DEF InOrder, DiskWhole
  <1>11. BlobsInOrder'
    <2>1. ASSUME NEW i \in DOMAIN ipc', ipc'[i].kind = "session"
          PROVE  /\ i = n + 1 \/ (i \in DOMAIN ipc /\ ipc[i] = ipc'[i])
                 /\ ipc'[i].of \in Nat
      <3>1. ipc' \in Seq(Writes) /\ ipc'[i] \in Writes
        BY <1>1, <1>3, CommitTyped, ElementOfSeq, LenProperties
      <3> QED
        BY <1>5, <1>7, <1>8, <2>1, <3>1, WriteFields
    <2>2. ASSUME NEW i \in DOMAIN ipc', ipc'[i].kind = "session"
          PROVE  written' <= ipc'[i].of /\ ipc'[i].of <= moves'
      BY <1>1, <1>2, <1>5, <1>7, <2>1, <2>2 DEF InOrder, BlobsInOrder, DiskWhole
    <2>3. ASSUME NEW i \in DOMAIN ipc', NEW j \in DOMAIN ipc', i < j,
                 ipc'[i].kind = "session", ipc'[j].kind = "session"
          PROVE  ipc'[i].of <= ipc'[j].of
      <3>1. CASE j = n + 1
        BY <1>5, <1>7, <2>2, <2>3, <3>1
      <3>2. CASE j \in DOMAIN ipc /\ ipc[j] = ipc'[j]
        <4>1. i \in DOMAIN ipc /\ ipc[i] = ipc'[i]
          BY <1>7, <2>3, <3>2
        <4> QED
          BY <1>1, <2>3, <3>2, <4>1 DEF InOrder, BlobsInOrder
      <3> QED
        BY <2>1, <2>3, <3>1, <3>2
    <2> QED
      BY <2>2, <2>3 DEF BlobsInOrder
  <1>12. ShownIsLast'
    BY <1>5, <1>7 DEF ShownIsLast
  <1>13. OneDevice'
    BY <1>1, <1>2, <1>5, <1>6, <1>7, <1>8 DEF InOrder, OneDevice
  <1>14. GamesBehindBlobs'
    <2>1. \A i : i \in Int /\ n + 1 < i => BlobAhead(ipc', written', game'.of, i)
      BY <1>5, <1>6, <1>7 DEF BlobAhead
    <2>2. \A i \in DOMAIN ipc : ipc[i].kind = "game" => BlobAhead(ipc, written, ipc[i].value.of, i)
      BY <1>1 DEF InOrder, GamesBehindBlobs
    <2>3. ASSUME NEW i \in DOMAIN ipc', ipc'[i].kind = "game"
          PROVE  BlobAhead(ipc', written', ipc'[i].value.of, i)
      <3>1. CASE i = n + 2
        BY <1>5, <1>7, <2>1, <3>1
      <3>2. CASE i \in DOMAIN ipc
        BY <1>7, <1>9, <2>2, <2>3, <3>2
      <3>3. CASE i = n + 1
        BY <1>5, <1>7, <2>3, <3>3
      <3> QED
        BY <1>8, <3>1, <3>2, <3>3
    <2>4. Len(ipc') + 1 \in Int /\ n + 1 < Len(ipc') + 1
      BY <1>7
    <2> QED
      BY <2>1, <2>3, <2>4 DEF GamesBehindBlobs
  <1>15. Halves'
    BY <1>1, <1>2, <1>5, <1>6, <1>7 DEF Halves, LastBlobOf
  <1> QED
    BY <1>10, <1>11, <1>12, <1>13, <1>14, <1>15 DEF InOrder

LEMMA ServeOrdered ==
    ASSUME DiskInv, ServeWrite, failures = 0 PROVE InOrder'
  <1> DEFINE w == ipc[1]
             n == Len(ipc)
  <1>1. WellTyped /\ InOrder /\ running /\ ipc # <<>>
    BY DEF DiskInv, ServeWrite
  <1>2. UNCHANGED <<running, game, rejected, moves>>
    BY DEF ServeWrite
  <1>3. /\ w \in Writes /\ n \in Nat \ {0} /\ ipc' = Tail(ipc) /\ Len(ipc') = n - 1
        /\ ipc' \in Seq(Writes) /\ \A i \in 1..n - 1 : ipc'[i] = ipc[i + 1]
        /\ file' = Rewritten(w) /\ written' = IF w.kind = "session" THEN w.of ELSE written
    BY <1>1, HeadWrite DEF ServeWrite
  <1>4. /\ DOMAIN ipc = 1..n /\ DOMAIN ipc' = 1..n - 1
        /\ \A i \in DOMAIN ipc' : i + 1 \in DOMAIN ipc /\ ipc'[i] = ipc[i + 1] /\ i \in Nat
        /\ \A i \in DOMAIN ipc : i = 1 \/ (i - 1 \in DOMAIN ipc' /\ ipc'[i - 1] = ipc[i])
        /\ 1 \in DOMAIN ipc
    BY <1>1, <1>3, LenProperties DEF WellTyped
  <1>5. Contents = file /\ file' # Truncated
    BY <1>1, <1>3, RewrittenTyped, NotTruncated DEF InOrder, DiskWhole, Contents, Readable
  <1>6. /\ w.kind = "session" => /\ file'.gameState = file.gameState /\ file'.blobOf = w.of
                                 /\ w.of \in Nat
        /\ w.kind = "game" => /\ file'.gameState = w.value /\ file'.blobOf = file.blobOf
                              /\ w.value \in GameType
        /\ w.kind \in {"session", "game"}
    BY <1>1, <1>3, <1>5, RewrittenTyped, WriteFields
  <1>7. /\ written \in Nat /\ written' \in Nat /\ moves \in Nat /\ written <= written'
        /\ written' <= moves /\ file'.blobOf = written'
    BY <1>1, <1>3, <1>4, <1>6 DEF WellTyped, InOrder, BlobsInOrder, DiskWhole
  <1>8. \A i \in DOMAIN ipc : /\ ipc[i].kind = "game" => ipc[i].value \in GameType
                              /\ ipc[i].kind = "session" => ipc[i].of \in Nat
    <2>1. \A i \in DOMAIN ipc : ipc[i] \in Writes
      BY <1>1, ElementOfSeq, LenProperties DEF WellTyped
    <2> QED
      BY <2>1, WriteFields
  <1> HIDE DEF w, n
  <1>9. ASSUME NEW k \in Nat, NEW i \in Nat, BlobAhead(ipc, written, k, i + 1)
        PROVE  BlobAhead(ipc', written', k, i)
    <2>1. CASE k <= written
      BY <1>7, <2>1 DEF BlobAhead
    <2>2. ASSUME NEW j \in DOMAIN ipc, j < i + 1, ipc[j].kind = "session", k <= ipc[j].of
          PROVE  BlobAhead(ipc', written', k, i)
      <3>1. CASE j = 1
        BY <1>3, <2>2, <3>1 DEF BlobAhead, w
      <3>2. CASE j # 1
        <4>1. j - 1 \in DOMAIN ipc' /\ ipc'[j - 1] = ipc[j] /\ j - 1 < i
          BY <1>4, <2>2, <3>2
        <4> QED
          BY <2>2, <4>1 DEF BlobAhead
      <3> QED
        BY <3>1, <3>2
    <2> QED
      BY <1>9, <2>1, <2>2 DEF BlobAhead
  <1>10. DiskWhole'
    <2>1. file'.gameState.of <= written'
      <3>1. CASE w.kind = "session"
        <4>1. file'.gameState.of = file.gameState.of /\ file.gameState.of <= written
          BY <1>1, <1>6, <3>1 DEF InOrder, DiskWhole
        <4>2. file.gameState.of \in Nat
          <5>1. file.gameState \in GameType
            BY <1>1 DEF InOrder, DiskWhole, WellTyped, GoodFiles
          <5> QED
            BY <5>1, GameFields
        <4> QED
          BY <1>7, <4>1, <4>2
      <3>2. CASE w.kind = "game"
        <4>1. BlobAhead(ipc, written, w.value.of, 1)
          BY <1>1, <1>4, <3>2 DEF InOrder, GamesBehindBlobs, w
        <4>2. w.value.of <= written
          BY <1>4, <4>1 DEF BlobAhead
        <4> QED
          BY <1>3, <1>6, <3>2, <4>2
      <3> QED
        BY <1>6, <3>1, <3>2
    <2> QED
      BY <1>1, <1>2, <1>5, <1>7, <2>1 DEF InOrder, DiskWhole
  <1>11. BlobsInOrder'
    <2>1. ASSUME NEW i \in DOMAIN ipc', ipc'[i].kind = "session"
          PROVE  written' <= ipc'[i].of /\ ipc'[i].of <= moves'
      <3>1. i + 1 \in DOMAIN ipc /\ ipc'[i] = ipc[i + 1] /\ 1 < i + 1
        BY <1>4
      <3>2. /\ written <= ipc[i + 1].of /\ ipc[i + 1].of <= moves
            /\ w.kind = "session" => w.of <= ipc[i + 1].of
        BY <1>1, <1>4, <2>1, <3>1 DEF InOrder, BlobsInOrder, w
      <3> QED
        BY <1>2, <1>3, <3>1, <3>2
    <2>2. ASSUME NEW i \in DOMAIN ipc', NEW j \in DOMAIN ipc', i < j,
                 ipc'[i].kind = "session", ipc'[j].kind = "session"
          PROVE  ipc'[i].of <= ipc'[j].of
      <3>1. /\ i + 1 \in DOMAIN ipc /\ j + 1 \in DOMAIN ipc /\ i + 1 < j + 1
            /\ ipc'[i] = ipc[i + 1] /\ ipc'[j] = ipc[j + 1]
        BY <1>4, <2>2
      <3> QED
        BY <1>1, <2>2, <3>1 DEF InOrder, BlobsInOrder
    <2> QED
      BY <2>1, <2>2 DEF BlobsInOrder
  <1>12. GamesBehindBlobs'
    <2>1. ASSUME NEW i \in DOMAIN ipc', ipc'[i].kind = "game"
          PROVE  BlobAhead(ipc', written', ipc'[i].value.of, i)
      <3>1. i + 1 \in DOMAIN ipc /\ ipc'[i] = ipc[i + 1] /\ i \in Nat
        BY <1>4
      <3>2. BlobAhead(ipc, written, ipc'[i].value.of, i + 1)
        BY <1>1, <2>1, <3>1 DEF InOrder, GamesBehindBlobs
      <3>3. ipc'[i].value.of \in Nat
        BY <1>8, <2>1, <3>1, GameFields
      <3> QED
        BY <1>9, <3>1, <3>2, <3>3
    <2>2. BlobAhead(ipc', written', game'.of, Len(ipc') + 1)
      <3>1. BlobAhead(ipc, written, game.of, n + 1)
        BY <1>1 DEF InOrder, GamesBehindBlobs, n
      <3>2. game.of \in Nat /\ n \in Nat /\ Len(ipc') + 1 = n
        BY <1>1, <1>3, GameFields DEF WellTyped
      <3> QED
        BY <1>2, <1>9, <3>1, <3>2
    <2> QED
      BY <2>1, <2>2 DEF GamesBehindBlobs
  <1>13. ShownIsLast'
    <2>1. CASE \A i \in DOMAIN ipc : ipc[i].kind # "game"
      <3>1. game = file.gameState /\ w.kind = "session"
        BY <1>1, <1>4, <1>6, <2>1 DEF InOrder, ShownIsLast, w
      <3> QED
        BY <1>2, <1>4, <1>6, <2>1, <3>1 DEF ShownIsLast
    <2>2. ASSUME NEW i \in DOMAIN ipc, ipc[i].kind = "game", ipc[i].value = game,
                 \A j \in DOMAIN ipc : j > i => ipc[j].kind # "game"
          PROVE  ShownIsLast'
      <3>1. CASE i = 1
        <4>1. file'.gameState = game'
          BY <1>2, <1>6, <2>2, <3>1 DEF w
        <4>2. \A j \in DOMAIN ipc' : ipc'[j].kind # "game"
          BY <1>4, <2>2, <3>1
        <4> QED
          BY <4>1, <4>2 DEF ShownIsLast
      <3>2. CASE i # 1
        <4>1. i - 1 \in DOMAIN ipc' /\ ipc'[i - 1] = ipc[i]
          BY <1>4, <3>2
        <4>2. \A j \in DOMAIN ipc' : j > i - 1 => ipc'[j].kind # "game"
          BY <1>4, <2>2
        <4> QED
          BY <1>2, <2>2, <4>1, <4>2 DEF ShownIsLast
      <3> QED
        BY <3>1, <3>2
    <2> QED
      BY <1>1, <2>1, <2>2 DEF InOrder, ShownIsLast
  <1>14. OneDevice' /\ file'.gameState.device = file.gameState.device
    <2>1. file'.gameState.device = file.gameState.device
      BY <1>1, <1>4, <1>6 DEF InOrder, OneDevice, w
    <2> QED
      BY <1>1, <1>2, <1>4, <2>1 DEF InOrder, OneDevice
  <1>15. Halves'
    <2>1. running' /\ behind' = behind /\ game' = game
      BY <1>1, <1>2 DEF ServeWrite
    <2>2. ASSUME LastBlobOf(game.of) PROVE LastBlobOf(game.of)'
      <3>1. CASE \A i \in DOMAIN ipc : ipc[i].kind # "session"
        <4>1. file.blobOf = game.of /\ w.kind = "game"
          BY <1>4, <1>6, <2>2, <3>1 DEF LastBlobOf, w
        <4> QED
          BY <1>2, <1>4, <1>6, <3>1, <4>1 DEF LastBlobOf
      <3>2. ASSUME NEW i \in DOMAIN ipc, ipc[i].kind = "session", ipc[i].of = game.of,
                   \A j \in DOMAIN ipc : j > i => ipc[j].kind # "session"
            PROVE  LastBlobOf(game.of)'
        <4>1. CASE i = 1
          <5>1. file'.blobOf = game'.of
            BY <1>2, <1>6, <3>2, <4>1 DEF w
          <5>2. \A j \in DOMAIN ipc' : ipc'[j].kind # "session"
            BY <1>4, <3>2, <4>1
          <5> QED
            BY <5>1, <5>2 DEF LastBlobOf
        <4>2. CASE i # 1
          <5>1. i - 1 \in DOMAIN ipc' /\ ipc'[i - 1] = ipc[i]
            BY <1>4, <4>2
          <5>2. \A j \in DOMAIN ipc' : j > i - 1 => ipc'[j].kind # "session"
            BY <1>4, <3>2
          <5> QED
            BY <1>2, <3>2, <5>1, <5>2 DEF LastBlobOf
        <4> QED
          BY <4>1, <4>2
      <3> QED
        BY <2>2, <3>1, <3>2 DEF LastBlobOf
    <2> QED
      BY <1>1, <2>1, <2>2 DEF InOrder, Halves
  <1> QED
    BY <1>10, <1>11, <1>12, <1>13, <1>14, <1>15 DEF InOrder

LEMMA StepOrdered ==
    ASSUME DiskInv, [Next]_vars
    PROVE  DiskInv'
  <1>1. WellTyped /\ WellTyped' /\ failures \in Nat
    BY StepTyped DEF DiskInv, WellTyped
  <1>2. ASSUME failures' = 0 PROVE InOrder'
    <2>1. failures = 0 \/ failures' = failures + 1
      BY <1>2 DEF Next, Boot, BootUnpersisted, Submit, Choose, TypeCode, Render, Revert, counters,
                  ServeWrite, FailWrite, Kill, KillInWrite, vars
    <2>2. failures = 0 /\ InOrder
      BY <1>1, <1>2, <2>1 DEF DiskInv
    <2>3. CASE Kill
      <3>1. /\ running' = FALSE /\ ipc' = <<>> /\ rejected' = <<>> /\ DOMAIN ipc' = {}
            /\ UNCHANGED <<file, moves, written>>
        BY <2>3 DEF Kill, Die
      <3>2. DiskWhole'
        BY <2>2, <3>1 DEF InOrder, DiskWhole
      <3>3. Halves'
        <4>1. ~behind' => ~behind /\ ipc = <<>> /\ running
          BY <2>3 DEF Kill, Die
        <4>2. ~behind' => file.blobOf = file.gameState.of
          BY <2>2, <4>1 DEF InOrder, Halves, LastBlobOf, ShownIsLast
        <4> QED
          BY <3>1, <4>2 DEF Halves, LastBlobOf
      <3> QED
        BY <3>1, <3>2, <3>3 DEF InOrder, BlobsInOrder, GamesBehindBlobs, ShownIsLast, OneDevice
    <2>4. CASE UNCHANGED vars
      BY <2>2, <2>4 DEF vars, InOrder, DiskWhole, BlobsInOrder, GamesBehindBlobs, ShownIsLast,
                        OneDevice, Halves, LastBlobOf
    <2>5. CASE BootUnpersisted \/ FailWrite \/ KillInWrite
      <3>1. failures' = failures + 1
        BY <2>5 DEF BootUnpersisted, FailWrite, KillInWrite
      <3> QED
        BY <1>2, <2>2, <3>1
    <2>6. CASE Revert
      BY <2>2, <2>6 DEF Revert, InOrder, DiskWhole
    <2>7. CASE Render
      <3>1. UNCHANGED <<running, game, rejected, ipc, file, moves, written, behind>>
        BY <2>7 DEF Render, counters
      <3> QED
        BY <2>2, <3>1 DEF InOrder, DiskWhole, BlobsInOrder, GamesBehindBlobs, ShownIsLast,
                          OneDevice, Halves, LastBlobOf
    <2> QED
      BY <2>2, <2>3, <2>4, <2>5, <2>6, <2>7, BootOrdered, TransitionOrdered, TypeCodeOrdered,
         ServeOrdered DEF Next
  <1> QED
    BY <1>1, <1>2 DEF DiskInv

LEMMA AlwaysDiskInv == Spec => []DiskInv
  <1> QED
    BY InitOrdered, StepOrdered, PTL DEF Spec

\* While no write fails, the blob stored is never older than the GameState beside it,
\* and keystrokes and transitions that were mixed in any way leave the two of one
\* transition, unless a kill lost writes since.
THEOREM HalvesAlwaysAgree == Spec => []HalvesAgree
  <1>1. DiskInv => HalvesAgree
    <2> SUFFICES ASSUME DiskInv, failures = 0
                 PROVE  /\ Contents.gameState.of <= Contents.blobOf
                        /\ ~behind /\ ipc = <<>> => Contents.gameState.of = Contents.blobOf
      BY DEF HalvesAgree, DiskSound
    <2>1. InOrder /\ Contents = file
      BY DEF DiskInv, InOrder, DiskWhole, Contents, Readable
    <2>2. ASSUME ~behind, ipc = <<>> PROVE file.gameState.of = file.blobOf
      <3>1. DOMAIN ipc = {} /\ (running => game = file.gameState)
        BY <2>1, <2>2 DEF InOrder, ShownIsLast
      <3> QED
        BY <2>1, <2>2, <3>1 DEF InOrder, Halves, LastBlobOf
    <2>3. file.gameState.of <= file.blobOf
      BY <2>1 DEF InOrder, DiskWhole
    <2> QED
      BY <2>1, <2>2, <2>3
  <1> QED
    BY <1>1, AlwaysDiskInv, PTL

\* While no write fails, a transition once written stays on disk, and so does the
\* deviceId the server restores by, whatever kills and relaunches follow.
THEOREM CommitsAlwaysSurvive == Spec => CommitsSurvive
  <1>1. ASSUME DiskInv, DiskInv', [Next]_vars, failures' = 0,
               Contents.gameState.device # 0
        PROVE  Contents'.gameState.device = Contents.gameState.device
    <2>1. failures = 0 \/ failures' = failures + 1
      BY <1>1 DEF Next, Boot, BootUnpersisted, Submit, Choose, TypeCode, Render, Revert, counters,
                  ServeWrite, FailWrite, Kill, KillInWrite, vars
    <2>2. failures = 0 /\ InOrder /\ InOrder' /\ WellTyped
      BY <1>1, <2>1 DEF DiskInv, WellTyped
    <2>3. Contents = file /\ Contents' = file'
      BY <2>2 DEF InOrder, DiskWhole, Contents, Readable
    <2>4. file' = file \/ ServeWrite
      BY <1>1, <2>2, <2>3 DEF Next, Boot, BootUnpersisted, Submit, Choose, TypeCode, Render, Revert,
                  FailWrite, Kill, KillInWrite, vars
    <2>5. CASE ServeWrite
      <3>1. ipc # <<>> /\ file' = Rewritten(Head(ipc))
        BY <2>5 DEF ServeWrite
      <3>2. Head(ipc) \in Writes /\ Head(ipc) = ipc[1] /\ 1 \in DOMAIN ipc
        BY <2>2, <3>1, HeadWrite, LenProperties DEF WellTyped
      <3>3. \/ file'.gameState = file.gameState
            \/ ipc[1].kind = "game" /\ file'.gameState = ipc[1].value
        BY <2>2, <2>3, <3>1, <3>2, RewrittenTyped, WriteFields
      <3> QED
        BY <2>2, <2>3, <3>2, <3>3 DEF InOrder, OneDevice
    <2> QED
      BY <2>3, <2>4, <2>5
  <1>2. ASSUME DiskInv', failures' = 0
        PROVE  Contents'.blobOf >= written'
    BY <1>2 DEF DiskInv, WellTyped, InOrder, DiskWhole, Contents, Readable
  <1>3. DiskInv /\ DiskInv' /\ [Next]_vars =>
            [DiskSound' =>
                /\ Contents'.blobOf >= written'
                /\ Contents.gameState.device # 0 =>
                      Contents'.gameState.device = Contents.gameState.device]_vars
    BY <1>1, <1>2 DEF DiskSound
  <1> QED
    BY <1>3, AlwaysDiskInv, PTL DEF Spec, CommitsSurvive

-----------------------------------------------------------------------------
(***************************************************************************)
(* A finished session, on disk or on its way to it, is the one in memory.    *)
(***************************************************************************)
FinishedInv ==
    /\ WellTyped
    /\ running /\ Contents.session # NoBlob /\ Contents.session.step = NoStep =>
           session.step = NoStep
    /\ \A i \in DOMAIN ipc :
          ipc[i].kind = "session" /\ ipc[i].value.step = NoStep => session.step = NoStep

LEMMA NothingAfterTheEnd == Submit \/ Choose => session.step # NoStep
  BY DEF Submit, Choose, AdvanceThrows

\* A boot finds the blob and leaves it.
LEMMA BootFinished ==
    ASSUME FinishedInv, Boot \/ BootUnpersisted
    PROVE  /\ Contents'.session = Contents.session
           /\ Contents.session # NoBlob /\ Contents.session.step = NoStep =>
                 session'.step = NoStep
  <1>1. WellTyped /\ Contents \in GoodFiles
    BY ContentsTyped DEF FinishedInv
  <1>2. Contents.session # NoBlob /\ Contents.session.step = NoStep =>
           session' = Contents.session
    <2>1. PICK state : Resume(state)
      BY DEF Boot, BootUnpersisted
    <2> QED
      BY <2>1 DEF Resume, InitialSession
  <1>3. CASE file' = file
    BY <1>2, <1>3 DEF Contents, Readable
  <1>4. CASE Boot /\ Contents.gameState.device = 0
    <2> DEFINE named == [Contents.gameState EXCEPT !.device = minted + 1]
    <2>1. named \in GameType
      <3>1. Contents.gameState \in GameType /\ minted + 1 \in Nat
        BY <1>1 DEF GoodFiles, WellTyped
      <3> QED
        BY <3>1, GameFields
    <2>2. file' = [Contents EXCEPT !.gameState = named]
      BY <1>4 DEF Boot
    <2> HIDE DEF named
    <2>3. file' \in GoodFiles /\ file'.session = Contents.session
      BY <1>1, <2>1, <2>2 DEF GoodFiles
    <2> QED
      BY <1>2, <2>3, NotTruncated DEF Contents, Readable
  <1> QED
    BY <1>3, <1>4 DEF Boot, BootUnpersisted

LEMMA TransitionFinished ==
    ASSUME FinishedInv, Submit \/ Choose
    PROVE  FinishedInv'
  <1>1. WellTyped /\ WellTyped' /\ running /\ session.step # NoStep /\ file' = file
    BY TransitionTyped, NothingAfterTheEnd DEF FinishedInv, Submit, Choose
  <1>2. PICK next \in Good : Commit(next)
    BY <1>1, TransitionTyped
  <1> DEFINE a == SessionWrite(next, moves + 1)
             b == GameWrite(game')
             n == Len(ipc)
  <1>3. /\ a \in Writes /\ b \in Writes /\ ipc' = Append(Append(ipc, a), b)
        /\ a.value = session' /\ b.kind = "game"
    BY <1>1, <1>2, CommitTyped DEF SessionWrite, GameWrite, Commit
  <1> HIDE DEF a, b
  <1>4. Append(ipc, a) \in Seq(Writes) /\ Len(Append(ipc, a)) = n + 1 /\ n \in Nat
    BY <1>1, <1>3, AppendFacts
  <1>5. /\ DOMAIN ipc' = 1..n + 2 /\ DOMAIN ipc = 1..n
        /\ \A i \in 1..n : ipc'[i] = ipc[i]
        /\ ipc'[n + 1] = a /\ ipc'[n + 2] = b
    <2>1. /\ \A i \in 1..n : Append(ipc, a)[i] = ipc[i]
          /\ Append(ipc, a)[n + 1] = a /\ DOMAIN ipc = 1..n
      BY <1>1, <1>3, AppendFacts
    <2>2. /\ ipc' \in Seq(Writes) /\ Len(ipc') = n + 2
          /\ \A i \in 1..n + 1 : ipc'[i] = Append(ipc, a)[i]
          /\ ipc'[n + 2] = b
      BY <1>3, <1>4, AppendProperties
    <2> QED
      BY <1>4, <2>1, <2>2, LenProperties
  <1>6. \A i \in DOMAIN ipc' : i \in DOMAIN ipc \/ i = n + 1 \/ i = n + 2
    BY <1>4, <1>5
  <1>7. ~(Contents.session # NoBlob /\ Contents.session.step = NoStep)
    BY <1>1 DEF FinishedInv
  <1>8. Contents' = Contents
    BY <1>1 DEF Contents, Readable
  <1>9. ASSUME NEW i \in DOMAIN ipc', ipc'[i].kind = "session", ipc'[i].value.step = NoStep
        PROVE  session'.step = NoStep
    <2>1. CASE i \in DOMAIN ipc
      BY <1>1, <1>5, <1>9, <2>1 DEF FinishedInv
    <2>2. CASE i = n + 1
      BY <1>3, <1>5, <1>9, <2>2
    <2>3. CASE i = n + 2
      BY <1>3, <1>5, <1>9, <2>3
    <2> QED
      BY <1>6, <2>1, <2>2, <2>3
  <1> QED
    BY <1>1, <1>7, <1>8, <1>9 DEF FinishedInv

LEMMA TypeCodeFinished ==
    ASSUME FinishedInv, TypeCode
    PROVE  FinishedInv'
  <1> DEFINE w == GameWrite(game')
             n == Len(ipc)
  <1>1. /\ WellTyped /\ WellTyped' /\ running' = running /\ session' = session
        /\ Contents' = Contents
    BY TypeCodeTyped DEF FinishedInv, TypeCode, Contents, Readable
  <1>2. w \in Writes /\ w.kind = "game" /\ ipc' = Append(ipc, w)
    BY <1>1, TypeCodeTyped DEF GameWrite
  <1> HIDE DEF w
  <1>3. /\ DOMAIN ipc' = 1..n + 1 /\ DOMAIN ipc = 1..n /\ n \in Nat
        /\ \A i \in 1..n : ipc'[i] = ipc[i]
        /\ ipc'[n + 1] = w
    BY <1>1, <1>2, AppendFacts
  <1>4. \A i \in DOMAIN ipc' : i \in DOMAIN ipc \/ i = n + 1
    BY <1>3
  <1> QED
    BY <1>1, <1>2, <1>3, <1>4 DEF FinishedInv

LEMMA ServeFinished ==
    ASSUME FinishedInv, ServeWrite \/ FailWrite
    PROVE  FinishedInv'
  <1>1. /\ WellTyped /\ WellTyped' /\ running /\ running' /\ session' = session /\ ipc # <<>>
        /\ ipc' = Tail(ipc)
    BY ServeTyped DEF FinishedInv, ServeWrite, FailWrite
  <1>2. /\ Head(ipc) \in Writes /\ Head(ipc) = ipc[1] /\ 1 \in DOMAIN ipc
        /\ \A i \in DOMAIN ipc' : i + 1 \in DOMAIN ipc /\ ipc'[i] = ipc[i + 1]
    BY <1>1, HeadWrite, LenProperties DEF WellTyped
  <1>3. Contents'.session # NoBlob /\ Contents'.session.step = NoStep => session'.step = NoStep
    <2>1. CASE FailWrite
      <3>1. Contents' = Contents
        BY <2>1 DEF FailWrite, Contents, Readable
      <3> QED
        BY <1>1, <3>1 DEF FinishedInv
    <2>2. CASE ServeWrite
      <3>1. /\ Contents' = Rewritten(Head(ipc))
            /\ Head(ipc).kind = "session" \/ Head(ipc).kind = "game"
        <4>1. file' = Rewritten(Head(ipc)) /\ file' \in GoodFiles
          BY <1>1, <1>2, <2>2, RewrittenTyped DEF ServeWrite
        <4> QED
          BY <1>2, <4>1, NotTruncated, WriteFields DEF Contents, Readable
      <3>2. \/ Contents'.session = Contents.session
            \/ ipc[1].kind = "session" /\ Contents'.session = ipc[1].value
        BY <1>1, <1>2, <3>1, RewrittenTyped
      <3> QED
        BY <1>1, <1>2, <3>2 DEF FinishedInv
    <2> QED
      BY <2>1, <2>2
  <1> QED
    BY <1>1, <1>2, <1>3 DEF FinishedInv

LEMMA StepFinished ==
    ASSUME FinishedInv, [Next]_vars
    PROVE  /\ FinishedInv'
           /\ Contents.session # NoBlob /\ Contents.session.step = NoStep /\ running' =>
                 session'.step = NoStep
  <1>1. WellTyped /\ WellTyped'
    BY StepTyped DEF FinishedInv
  <1>2. CASE Boot \/ BootUnpersisted
    <2>1. running' = TRUE /\ DOMAIN ipc' = {}
      BY <1>1, <1>2 DEF Boot, BootUnpersisted, WellTyped
    <2> QED
      BY <1>1, <1>2, <2>1, BootFinished DEF FinishedInv
  <1>3. CASE Submit \/ Choose
    <2>1. session.step # NoStep /\ running
      BY <1>3, NothingAfterTheEnd DEF Submit, Choose
    <2> QED
      BY <1>3, <2>1, TransitionFinished DEF FinishedInv
  <1>4. CASE TypeCode
    <2>1. running /\ session' = session
      BY <1>4 DEF TypeCode
    <2> QED
      BY <1>4, <2>1, TypeCodeFinished DEF FinishedInv
  <1>5. CASE ServeWrite \/ FailWrite
    <2>1. running /\ session' = session
      BY <1>5 DEF ServeWrite, FailWrite
    <2> QED
      BY <1>5, <2>1, ServeFinished DEF FinishedInv
  <1>6. CASE Revert \/ Render \/ UNCHANGED vars
    <2>1. UNCHANGED <<running, session, ipc, file>>
      BY <1>6 DEF Revert, Render, vars
    <2>2. Contents' = Contents
      BY <2>1 DEF Contents, Readable
    <2> QED
      BY <1>1, <2>1, <2>2 DEF FinishedInv
  <1>7. CASE Kill \/ KillInWrite
    <2>1. running' = FALSE /\ DOMAIN ipc' = {}
      BY <1>7 DEF Kill, KillInWrite, Die
    <2> QED
      BY <1>1, <2>1 DEF FinishedInv
  <1> QED
    BY <1>2, <1>3, <1>4, <1>5, <1>6, <1>7 DEF Next

LEMMA AlwaysFinishedInv == Spec => []FinishedInv
  <1>1. Init => FinishedInv
    <2> SUFFICES ASSUME Init PROVE FinishedInv
      OBVIOUS
    <2>1. running = FALSE /\ DOMAIN ipc = {}
      BY DEF Init
    <2> QED
      BY <2>1, InitTyped DEF FinishedInv
  <1> QED
    BY <1>1, StepFinished, PTL DEF Spec

\* Whatever writes fail and wherever a kill falls, an epilogue once stored is not
\* played again.
THEOREM FinishedAlwaysStaysFinished == Spec => FinishedStaysFinished
  <1>1. FinishedInv /\ [Next]_vars =>
            [Contents.session # NoBlob /\ Contents.session.step = NoStep /\ running' =>
                session'.step = NoStep]_vars
    BY StepFinished
  <1> QED
    BY <1>1, AlwaysFinishedInv, PTL DEF Spec, FinishedStaysFinished
-----------------------------------------------------------------------------
(***************************************************************************)
(* Writes that fail.  Each GameState write knows the one before it, down to  *)
(* the one stored; a rejection on its way back carries the one stored.       *)
(***************************************************************************)
Stored(g) == Contents.gameState.device # 0 => g = Contents.gameState

NoGame(q) == \A i \in DOMAIN q : q[i].kind # "game"

\* g is the GameState written last before position i of the queue q.
WrittenBefore(q, i, g) ==
    \/ Stored(g) /\ \A j \in DOMAIN q : j < i => q[j].kind # "game"
    \/ \E j \in DOMAIN q :
          /\ j < i /\ q[j].kind = "game" /\ q[j].value = g
          /\ \A k \in DOMAIN q : j < k /\ k < i => q[k].kind # "game"

Knows(q) ==
    \A i \in DOMAIN q : q[i].kind = "game" => WrittenBefore(q, i, q[i].previous)

Chained == rejected = <<>> /\ Knows(ipc) /\ WrittenBefore(ipc, Len(ipc) + 1, game)

GoingBack ==
    /\ rejected # <<>> /\ Tail(rejected) = <<>> /\ Stored(Head(rejected))
    /\ NoGame(ipc)

DriftInv == WellTyped /\ (running /\ ~crossed => Chained \/ GoingBack)

LEMMA BootChained ==
    ASSUME DriftInv, Boot \/ BootUnpersisted
    PROVE  Chained'
  <1>1. WellTyped /\ Contents \in GoodFiles /\ minted + 1 \in Nat
    BY ContentsTyped DEF DriftInv, WellTyped
  <1>2. rejected' = <<>> /\ ipc' = <<>> /\ DOMAIN ipc' = {} /\ Len(ipc') = 0
    BY <1>1 DEF Boot, BootUnpersisted, WellTyped
  <1>3. Stored(game)'
    <2>1. CASE Boot /\ Contents.gameState.device # 0
      BY <2>1 DEF Boot, Resume, Stored, Contents, Readable
    <2>2. CASE Boot /\ Contents.gameState.device = 0
      <3> DEFINE named == [Contents.gameState EXCEPT !.device = minted + 1]
      <3>1. named \in GameType
        BY <1>1, GameFields DEF GoodFiles
      <3>2. game' = named /\ file' = [Contents EXCEPT !.gameState = named]
        BY <2>2 DEF Boot, Resume
      <3> HIDE DEF named
      <3>3. file' \in GoodFiles /\ file'.gameState = named
        BY <1>1, <3>1, <3>2 DEF GoodFiles
      <3> QED
        BY <3>2, <3>3, NotTruncated DEF Stored, Contents, Readable
    <2>3. CASE BootUnpersisted
      BY <2>3 DEF BootUnpersisted, Stored, Contents, Readable
    <2> QED
      BY <2>1, <2>2, <2>3
  <1> QED
    BY <1>2, <1>3 DEF Chained, Knows, WrittenBefore

\* A write added to the queue.
LEMMA AppendKnows ==
    ASSUME NEW q \in Seq(Writes), NEW w \in Writes, Knows(q), NEW g,
           WrittenBefore(q, Len(q) + 1, g), w.kind = "game" => w.previous = g
    PROVE  /\ Append(q, w) \in Seq(Writes) /\ Knows(Append(q, w))
           /\ w.kind = "session" => WrittenBefore(Append(q, w), Len(Append(q, w)) + 1, g)
           /\ w.kind = "game" => WrittenBefore(Append(q, w), Len(Append(q, w)) + 1, w.value)
  <1> DEFINE r == Append(q, w)
             n == Len(q)
  <1>1. /\ r \in Seq(Writes) /\ DOMAIN r = 1..n + 1 /\ DOMAIN q = 1..n /\ n \in Nat
        /\ Len(r) = n + 1 /\ \A i \in 1..n : r[i] = q[i]
        /\ r[n + 1] = w
    BY AppendProperties, LenProperties
  <1> HIDE DEF r, n
  <1>2. \A j \in DOMAIN r : j \in DOMAIN q \/ j = n + 1
    BY <1>1
  <1>3. ASSUME NEW i \in 1..n + 1, NEW h, WrittenBefore(q, i, h)
        PROVE  WrittenBefore(r, i, h)
    <2>1. \A j \in DOMAIN r : j < i => j \in DOMAIN q
      BY <1>1
    <2> QED
      BY <1>1, <1>3, <2>1 DEF WrittenBefore
  <1>4. WrittenBefore(r, n + 1, g)
    BY <1>1, <1>3 DEF n
  <1>5. Knows(r)
    <2> SUFFICES ASSUME NEW i \in DOMAIN r, r[i].kind = "game"
                 PROVE  WrittenBefore(r, i, r[i].previous)
      BY DEF Knows
    <2>1. CASE i = n + 1
      BY <1>1, <1>4, <2>1
    <2>2. CASE i \in DOMAIN q
      <3>1. WrittenBefore(q, i, r[i].previous) /\ i \in 1..n + 1
        BY <1>1, <2>2 DEF Knows
      <3> QED
        BY <1>3, <3>1
    <2> QED
      BY <1>2, <2>1, <2>2
  <1>6. w.kind = "session" => WrittenBefore(r, n + 2, g)
    BY <1>1, <1>2, <1>4 DEF WrittenBefore
  <1>7. w.kind = "game" => WrittenBefore(r, n + 2, w.value)
    BY <1>1 DEF WrittenBefore
  <1>8. Len(r) + 1 = n + 2
    BY <1>1
  <1> QED
    BY <1>1, <1>5, <1>6, <1>7, <1>8 DEF r

LEMMA CommitChained ==
    ASSUME DriftInv, Submit \/ Choose \/ TypeCode, ~crossed'
    PROVE  Chained'
  <1>1. WellTyped /\ running /\ rejected = <<>> /\ rejected' = rejected /\ file' = file
    BY DEF DriftInv, Submit, Choose, TypeCode, Commit, CrossesRejection
  <1>2. Chained
    BY <1>1 DEF DriftInv, GoingBack, Submit, Choose, TypeCode, Commit, CrossesRejection
  <1>3. ipc \in Seq(Writes) /\ Knows(ipc) /\ WrittenBefore(ipc, Len(ipc) + 1, game)
    BY <1>1, <1>2 DEF WellTyped, Chained
  <1> DEFINE b == GameWrite(game')
  <1>4. b.kind = "game" /\ b.previous = game /\ b.value = game'
    BY DEF GameWrite
  <1>5. PICK q : /\ q \in Seq(Writes) /\ Knows(q) /\ WrittenBefore(q, Len(q) + 1, game)
                 /\ b \in Writes /\ ipc' = Append(q, b)
    <2>1. CASE TypeCode
      BY <1>1, <1>3, <2>1, TypeCodeTyped
    <2>2. CASE Submit \/ Choose
      <3>1. PICK next \in Good : Commit(next)
        BY <1>1, <2>2, TransitionTyped
      <3> DEFINE a == SessionWrite(next, moves + 1)
      <3>2. a \in Writes /\ b \in Writes /\ ipc' = Append(Append(ipc, a), b)
        BY <1>1, <3>1, CommitTyped
      <3>3. a.kind = "session"
        BY DEF SessionWrite
      <3> HIDE DEF a, b
      <3>4. /\ Append(ipc, a) \in Seq(Writes) /\ Knows(Append(ipc, a))
            /\ WrittenBefore(Append(ipc, a), Len(Append(ipc, a)) + 1, game)
        BY <1>3, <3>2, <3>3, AppendKnows
      <3> QED
        BY <3>2, <3>4
    <2> QED
      BY <2>1, <2>2
  <1>6. Knows(ipc') /\ WrittenBefore(ipc', Len(ipc') + 1, game')
    <2> HIDE DEF b
    <2> QED
      BY <1>4, <1>5, AppendKnows
  <1>7. /\ \A g : Stored(g) => Stored(g)'
    BY <1>1 DEF Stored, Contents, Readable
  <1>8. Knows(ipc)' /\ WrittenBefore(ipc, Len(ipc) + 1, game)'
    BY <1>6, <1>7 DEF Knows, WrittenBefore
  <1> QED
    BY <1>1, <1>8 DEF Chained

\* The write at the head of the queue is served, or a blob is lost.
LEMMA ServeKnows ==
    ASSUME WellTyped, ipc # <<>>, ipc' = Tail(ipc), NEW i \in Nat \ {0}, NEW g,
           WrittenBefore(ipc, i + 1, g),
           \/ ipc[1].kind = "session" /\ Contents'.gameState = Contents.gameState
           \/ ipc[1].kind = "game" /\ Contents'.gameState = ipc[1].value
    PROVE  WrittenBefore(ipc, i, g)'
  <1>1. /\ \A j \in DOMAIN ipc' : /\ j + 1 \in DOMAIN ipc /\ ipc'[j] = ipc[j + 1]
                                  /\ j \in Nat \ {0}
        /\ \A j \in DOMAIN ipc : j = 1 \/ (j - 1 \in DOMAIN ipc' /\ ipc'[j - 1] = ipc[j])
        /\ 1 \in DOMAIN ipc /\ DOMAIN ipc \subseteq Nat
    <2>1. /\ DOMAIN ipc = 1..Len(ipc) /\ DOMAIN ipc' = 1..Len(ipc) - 1
          /\ Len(ipc) \in Nat \ {0} /\ \A j \in 1..Len(ipc) - 1 : ipc'[j] = ipc[j + 1]
      BY HeadWrite, LenProperties
    <2> QED
      BY <2>1
  <1>2. CASE Stored(g) /\ \A j \in DOMAIN ipc : j < i + 1 => ipc[j].kind # "game"
    <2>1. Contents'.gameState = Contents.gameState
      BY <1>1, <1>2
    <2>2. Stored(g)'
      BY <1>2, <2>1 DEF Stored
    <2>3. \A j \in DOMAIN ipc' : j < i => ipc'[j].kind # "game"
      BY <1>1, <1>2
    <2> QED
      BY <2>2, <2>3 DEF WrittenBefore
  <1>3. ASSUME NEW j \in DOMAIN ipc, j < i + 1, ipc[j].kind = "game", ipc[j].value = g,
               \A k \in DOMAIN ipc : j < k /\ k < i + 1 => ipc[k].kind # "game"
        PROVE  WrittenBefore(ipc, i, g)'
    <2>1. CASE j = 1
      <3>1. Stored(g)'
        BY <1>3, <2>1 DEF Stored
      <3>2. \A k \in DOMAIN ipc' : k < i => ipc'[k].kind # "game"
        BY <1>1, <1>3, <2>1
      <3> QED
        BY <3>1, <3>2 DEF WrittenBefore
    <2>2. CASE j # 1
      <3>1. /\ j - 1 \in DOMAIN ipc' /\ j - 1 < i
            /\ ipc'[j - 1].kind = "game" /\ ipc'[j - 1].value = g
        BY <1>1, <1>3, <2>2
      <3>2. \A k \in DOMAIN ipc' : j - 1 < k /\ k < i => ipc'[k].kind # "game"
        BY <1>1, <1>3
      <3> QED
        BY <3>1, <3>2 DEF WrittenBefore
    <2> QED
      BY <2>1, <2>2
  <1> QED
    BY <1>2, <1>3 DEF WrittenBefore

LEMMA ServeChained ==
    ASSUME DriftInv, ServeWrite \/ FailWrite, ~crossed'
    PROVE  Chained' \/ GoingBack'
  <1>1. /\ WellTyped /\ running /\ ~crossed /\ ipc # <<>> /\ ipc' = Tail(ipc) /\ game' = game
        /\ Chained \/ GoingBack
    BY DEF DriftInv, ServeWrite, FailWrite
  <1>2. /\ Head(ipc) = ipc[1] /\ ipc[1] \in Writes /\ Len(ipc) \in Nat \ {0}
        /\ DOMAIN ipc = 1..Len(ipc) /\ DOMAIN ipc' = 1..Len(ipc) - 1 /\ 1 \in DOMAIN ipc
        /\ Len(ipc') = Len(ipc) - 1
        /\ \A i \in DOMAIN ipc' : ipc'[i] = ipc[i + 1] /\ i + 1 \in DOMAIN ipc \ {1}
    <2>1. /\ Head(ipc) = ipc[1] /\ ipc[1] \in Writes /\ Len(ipc) \in Nat \ {0}
          /\ Len(ipc') = Len(ipc) - 1 /\ ipc' \in Seq(Writes)
          /\ \A i \in 1..Len(ipc') : ipc'[i] = ipc[i + 1]
      BY <1>1, HeadWrite
    <2>2. DOMAIN ipc = 1..Len(ipc) /\ DOMAIN ipc' = 1..Len(ipc')
      BY <1>1, <2>1, LenProperties DEF WellTyped
    <2> QED
      BY <2>1, <2>2
  <1>3. \/ /\ ipc[1].kind = "session" /\ Contents'.gameState = Contents.gameState
           /\ rejected' = rejected
        \/ /\ ipc[1].kind = "game" /\ Contents'.gameState = ipc[1].value
           /\ rejected' = rejected
        \/ FailWrite /\ ipc[1].kind = "game" /\ file' = file
    <2>1. CASE FailWrite
      BY <1>2, <2>1, WriteFields DEF FailWrite, Contents, Readable
    <2>2. CASE ServeWrite
      <3>1. Contents' = Rewritten(ipc[1]) /\ rejected' = rejected
        <4>1. file' = Rewritten(ipc[1]) /\ file' \in GoodFiles
          BY <1>1, <1>2, <2>2, RewrittenTyped DEF ServeWrite
        <4> QED
          BY <2>2, <4>1, NotTruncated DEF ServeWrite, Contents, Readable
      <3> QED
        BY <1>1, <1>2, <3>1, RewrittenTyped, WriteFields
    <2> QED
      BY <1>1, <2>1, <2>2 DEF ServeWrite, FailWrite
  <1>4. CASE Chained /\ ~(FailWrite /\ ipc[1].kind = "game")
    <2>1. \/ ipc[1].kind = "session" /\ Contents'.gameState = Contents.gameState
          \/ ipc[1].kind = "game" /\ Contents'.gameState = ipc[1].value
      BY <1>3, <1>4
    <2>2. rejected' = <<>>
      BY <1>3, <1>4 DEF Chained
    <2>3. ASSUME NEW i \in DOMAIN ipc', ipc'[i].kind = "game"
          PROVE  WrittenBefore(ipc, i, ipc[i].previous)'
      <3>1. WrittenBefore(ipc, i + 1, ipc'[i].previous) /\ i \in Nat \ {0}
        BY <1>2, <1>4, <2>3 DEF Chained, Knows
      <3>2. PICK g : g = ipc'[i].previous
        OBVIOUS
      <3>3. WrittenBefore(ipc, i, g)'
        BY <1>1, <2>1, <3>1, <3>2, ServeKnows
      <3> QED
        BY <3>2, <3>3 DEF WrittenBefore
    <2>4. WrittenBefore(ipc, Len(ipc) + 1, game)'
      <3>1. WrittenBefore(ipc, Len(ipc') + 1 + 1, game) /\ Len(ipc') + 1 \in Nat \ {0}
        BY <1>2, <1>4 DEF Chained
      <3>2. PICK n \in Nat \ {0} : n = Len(ipc') + 1
        BY <3>1
      <3>3. WrittenBefore(ipc, n, game)'
        <4>1. PICK g : g = game /\ g = game'
          BY <1>1
        <4>2. WrittenBefore(ipc, n, g)'
          BY <1>1, <2>1, <3>1, <3>2, <4>1, ServeKnows
        <4> QED
          BY <4>1, <4>2 DEF WrittenBefore, Stored
      <3> QED
        BY <3>2, <3>3 DEF WrittenBefore
    <2> QED
      BY <2>2, <2>3, <2>4 DEF Chained, Knows
  <1>5. CASE Chained /\ FailWrite /\ ipc[1].kind = "game"
    <2>1. /\ rejected' = Append(rejected, ipc[1].previous) /\ rejected = <<>>
          /\ \A i \in DOMAIN ipc \ {1} : ipc[i].kind # "game"
      BY <1>2, <1>5 DEF FailWrite, Chained
    <2>2. /\ rejected' # <<>> /\ Tail(rejected') = <<>> /\ Head(rejected') = ipc[1].previous
      BY <2>1
    <2>3. Stored(ipc[1].previous)
      BY <1>2, <1>5 DEF Chained, Knows, WrittenBefore
    <2>4. file' = file
      BY <1>5 DEF FailWrite
    <2>5. Stored(Head(rejected))'
      BY <2>2, <2>3, <2>4 DEF Stored, Contents, Readable
    <2> QED
      BY <1>2, <2>1, <2>2, <2>5 DEF GoingBack, NoGame
  <1>6. CASE GoingBack
    <2>1. ipc[1].kind # "game" /\ rejected # <<>>
      BY <1>2, <1>6 DEF GoingBack, NoGame
    <2>2. Contents'.gameState = Contents.gameState /\ rejected' = rejected
      BY <1>3, <2>1
    <2> QED
      BY <1>2, <1>6, <2>2 DEF GoingBack, NoGame, Stored
  <1> QED
    BY <1>1, <1>4, <1>5, <1>6

LEMMA StepChained ==
    ASSUME DriftInv, [Next]_vars
    PROVE  DriftInv'
  <1>1. WellTyped /\ WellTyped'
    BY StepTyped DEF DriftInv
  <1>2. CASE Boot \/ BootUnpersisted
    BY <1>1, <1>2, BootChained DEF DriftInv
  <1>3. CASE Submit \/ Choose \/ TypeCode
    BY <1>1, <1>3, CommitChained DEF DriftInv
  <1>4. CASE ServeWrite \/ FailWrite
    BY <1>1, <1>4, ServeChained DEF DriftInv
  <1>5. CASE Revert
    <2>1. /\ rejected # <<>> /\ running /\ crossed' = crossed
          /\ game' = Head(rejected) /\ rejected' = Tail(rejected)
          /\ ipc' = ipc /\ Contents' = Contents
      BY <1>5 DEF Revert, counters, Contents, Readable
    <2>2. ~crossed' => Stored(game)' /\ rejected' = <<>> /\ NoGame(ipc')
      BY <2>1 DEF DriftInv, Chained, GoingBack, Stored
    <2>3. ~crossed' => Chained'
      BY <2>2 DEF Chained, Knows, WrittenBefore, NoGame
    <2> QED
      BY <1>1, <2>3 DEF DriftInv
  <1>6. CASE Render \/ UNCHANGED vars
    <2>1. UNCHANGED <<running, game, rejected, ipc, file, crossed>>
      BY <1>6 DEF Render, counters, vars
    <2> QED
      BY <1>1, <2>1 DEF DriftInv, Chained, GoingBack, Knows, WrittenBefore, NoGame, Stored,
                        Contents, Readable
  <1>7. CASE Kill \/ KillInWrite
    BY <1>1, <1>7 DEF Kill, KillInWrite, Die, DriftInv
  <1> QED
    BY <1>2, <1>3, <1>4, <1>5, <1>6, <1>7 DEF Next

\* Whatever writes fail and wherever kills fall: with nothing in flight a device shows
\* what it has stored, unless a commit overlapped the rejection of another.
THEOREM NeverDriftsFromDisk == Spec => []NoDriftFromDisk
  <1>1. Init => DriftInv
    BY InitTyped DEF Init, DriftInv
  <1>2. DriftInv => NoDriftFromDisk
    <2> SUFFICES ASSUME DriftInv, ~crossed, running, ipc = <<>>, rejected = <<>>
                 PROVE  Stored(game)
      BY DEF NoDriftFromDisk, ShowsWhatIsStored, Stored
    <2>1. DOMAIN ipc = {} /\ WrittenBefore(ipc, Len(ipc) + 1, game)
      BY DEF DriftInv, Chained, GoingBack
    <2> QED
      BY <2>1 DEF WrittenBefore
  <1> QED
    BY <1>1, <1>2, StepChained, PTL DEF Spec
=============================================================================
