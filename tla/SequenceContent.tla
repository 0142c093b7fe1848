-------------------------- MODULE SequenceContent --------------------------
(***************************************************************************)
(* sequence.json as its editors leave it ("edited here WITHOUT recompiling"),*)
(* parseAssautSequenceConfig, and the Assaut flow that it describes, played  *)
(* over the session and the GameState kept from an earlier version of it.    *)
(* The engine is AssautSequence, run on the file that was loaded; how the    *)
(* writes of one installation overlap and fail is AssautDevice's.            *)
(*                                                                          *)
(* Covered: edits at any moment, files the parser refuses, kills between the *)
(* write of the session and that of the GameState.                           *)
(***************************************************************************)
EXTENDS Integers, Sequences, FiniteSets

CONSTANTS
    Files,      \* files: [prep, steps], sequences of [id, choices, transitions]
    Events,     \* events that the screens dispatch
    NoStep, NoEvent,
    NoFile,     \* no flow loaded
    NoBlob,
    InitStep,   \* DEFAULT_GAME_STATE.currentStep
    MaxEdits    \* bound: edits of the file

VARIABLES
    file,     \* on disk
    started,  \* the app is running
    loaded,   \* configRef: the file as it was parsed at boot
    session,  \* sessionRef
    kept,     \* session of game-state.v1.json
    game,     \* gameState of game-state.v1.json: step and score
    behind,   \* writes sent and not yet served
    edits

fileVars == <<file, started, loaded, session, kept, game, behind, edits>>

-----------------------------------------------------------------------------
(***************************************************************************)
(* parseAssautSequenceConfig.                                               *)
(***************************************************************************)
FlowOf(f) == f.prep \o f.steps
Ids(f) == {FlowOf(f)[i].id : i \in DOMAIN FlowOf(f)}

\* The gotos of a list of transitions or choices; a choice may have none.
Gotos(list) == {list[i].goto : i \in DOMAIN list}

\* Variant (mistake): ids are compared among the assault steps only.
StepIdsUniqueInSteps(f) == \A i, j \in DOMAIN f.steps : f.steps[i].id = f.steps[j].id => i = j

StepIdsUnique(f) == \A i, j \in DOMAIN FlowOf(f) : FlowOf(f)[i].id = FlowOf(f)[j].id => i = j

\* Variant (mistake): the transitions of preparation steps are not looked at.
GotosResolveAssault(f) ==
    /\ \A i \in DOMAIN f.prep : Gotos(f.prep[i].choices) \subseteq Ids(f) \cup {NoStep}
    /\ \A i \in DOMAIN f.steps : Gotos(f.steps[i].transitions) \subseteq Ids(f)

GotosResolve(f) ==
    /\ \A i \in DOMAIN f.prep : Gotos(f.prep[i].choices) \subseteq Ids(f) \cup {NoStep}
    /\ \A i \in DOMAIN FlowOf(f) : Gotos(FlowOf(f)[i].transitions) \subseteq Ids(f)

Accepted(f) ==
    /\ Len(f.prep) <= 16 /\ Len(f.steps) \in 1..32
    /\ StepIdsUnique(f) /\ GotosResolve(f)

-----------------------------------------------------------------------------
(***************************************************************************)
(* The engine over a file.                                                  *)
(***************************************************************************)
StepOf(f, id) ==
    LET i == CHOOSE i \in DOMAIN FlowOf(f) :
                 FlowOf(f)[i].id = id /\ \A j \in 1..i-1 : FlowOf(f)[j].id # id
    IN  FlowOf(f)[i]

\* What the schema asks of every file, sound or not: lists, bounded scores, choices in
\* preparation steps only.
IsList(l) == l \in Seq({l[i] : i \in DOMAIN l})

BoundedDeltas(list) == IsList(list) /\ \A i \in DOMAIN list : list[i].delta \in -100..100

Shaped(f) ==
    /\ IsList(f.prep) /\ IsList(f.steps)
    /\ \A i \in DOMAIN f.steps : f.steps[i].choices = <<>>
    /\ \A i \in DOMAIN FlowOf(f) :
          BoundedDeltas(FlowOf(f)[i].transitions) /\ BoundedDeltas(FlowOf(f)[i].choices)

\* Whatever any version of the file has.
AllIds == UNION {Ids(f) : f \in Files}
AllChoices ==
    UNION {UNION {{FlowOf(f)[i].choices[j].id : j \in DOMAIN FlowOf(f)[i].choices}
                      : i \in DOMAIN FlowOf(f)} : f \in Files}

\* AssautSession, with the last visit only.
Sessions ==
    [phase : {"prep", "assault", "complete"}, step : AllIds \cup {NoStep},
     choices : UNION {[S -> AllChoices] : S \in SUBSET AllIds}, percent : 0..100,
     visited : Seq(AllIds)]

ASSUME FilesAssumption ==
    /\ \A f \in Files : Shaped(f)
    /\ MaxEdits \in Nat /\ NoEvent \notin Events
    /\ NoStep \notin AllIds /\ NoFile \notin Files /\ NoBlob \notin Sessions

Assaut(f) == INSTANCE AssautSequence WITH
    Prep <- [i \in DOMAIN f.prep |-> f.prep[i].id],
    Steps <- [i \in DOMAIN f.steps |-> f.steps[i].id],
    Transitions <- [s \in Ids(f) |-> StepOf(f, s).transitions],
    Choices <- [s \in Ids(f) |-> StepOf(f, s).choices],
    Responses <- [s \in Ids(f) |-> {}], StartPercent <- 0,
    PointEntree <- NoStep, PointValide <- NoStep, PointRefus <- NoStep

\* Of the visits only the last is read again (projectToGameState).
LastVisit(s) == [s EXCEPT !.visited = <<@[Len(@)]>>]

FileInit ==
    /\ file \in Files /\ started = FALSE /\ loaded = NoFile
    /\ session = NoBlob /\ kept = NoBlob
    /\ game = [step |-> InitStep, score |-> 0]
    /\ behind = <<>> /\ edits = 0

\* readSequenceConfig, once per start; a file the parser refuses leaves the entry screen,
\* which moves nothing.
Boot ==
    /\ ~started /\ started' = TRUE
    /\ IF Accepted(file)
       THEN /\ loaded' = file
            /\ session' = Assaut(file)!InitialSession(kept # NoBlob, kept, game.step, game.score)
       ELSE UNCHANGED <<loaded, session>>
    /\ UNCHANGED <<file, kept, game, behind, edits>>

\* commit(): the session, then the GameState projected from it.
Commit(next) ==
    /\ session' = LastVisit(next)
    /\ behind' = behind \o << [kind |-> "session", value |-> session'],
                              [kind |-> "game",
                               value |-> [step |-> Assaut(loaded)!ProjectStep(next, game.step),
                                          score |-> next.percent]] >>
    /\ UNCHANGED <<file, started, loaded, kept, game, edits>>

Active == started /\ loaded # NoFile /\ behind = <<>>

Submit ==
    /\ Active /\ ~Assaut(loaded)!AdvanceThrows(session.step)
    /\ \E e \in Events \cup {NoEvent} : Commit(Assaut(loaded)!Advance(session, e))

Choose ==
    /\ Active /\ session.step # NoStep
    /\ \E c \in Assaut(loaded)!ChoiceIds :
          /\ ~Assaut(loaded)!ChoiceThrows(session.step, c)
          /\ Commit(Assaut(loaded)!ApplyChoice(session, c))

Write ==
    /\ behind # <<>>
    /\ LET w == Head(behind) IN
          IF w.kind = "session" THEN kept' = w.value /\ UNCHANGED game
                                ELSE game' = w.value /\ UNCHANGED kept
    /\ behind' = Tail(behind)
    /\ UNCHANGED <<file, started, loaded, session, edits>>

Quit ==
    /\ started /\ started' = FALSE
    /\ loaded' = NoFile /\ session' = NoBlob /\ behind' = <<>>
    /\ UNCHANGED <<file, kept, game, edits>>

Edit ==
    /\ edits < MaxEdits
    /\ \E f \in Files \ {file} : file' = f
    /\ edits' = edits + 1
    /\ UNCHANGED <<started, loaded, session, kept, game, behind>>

FileNext == Boot \/ Submit \/ Choose \/ Write \/ Quit \/ Edit

FileSpec == FileInit /\ [][FileNext]_fileVars

\* Writes are served, and the team goes on.
FileFairSpec == FileSpec /\ WF_fileVars(Write) /\ WF_fileVars(Submit) /\ WF_fileVars(Choose)

-----------------------------------------------------------------------------
(***************************************************************************)
(* Properties.                                                              *)
(***************************************************************************)
IsSession(s) ==
    s \in Sessions /\ (s.step = NoStep <=> s.phase = "complete") /\ Len(s.visited) = 1

\* Sessions have their type, in memory, on disk and on their way; one is there exactly while
\* a flow is loaded.
FileTypeOK ==
    /\ file \in Files /\ started \in BOOLEAN /\ edits \in 0..MaxEdits
    /\ loaded \in Files \cup {NoFile}
    /\ loaded # NoFile <=> session # NoBlob
    /\ session # NoBlob => IsSession(session)
    /\ kept # NoBlob => IsSession(kept)
    /\ game.step \in AllIds \cup {InitStep} /\ game.score \in 0..100
    /\ \A i \in DOMAIN behind : behind[i].kind = "session" => IsSession(behind[i].value)

\* "refuse to run a malformed flow rather than boot into a broken sequence"
\* (sequence-config.ts) and "a config edit orphaned a persisted step" (session-bridge.ts):
\* whatever was edited since the session was kept, a team stands on a step of the loaded
\* flow, or is at its end; the engine never looks up a step that is not there.
StandsOnStep ==
    /\ FileTypeOK
    /\ loaded # NoFile => session.step \in Assaut(loaded)!StepIds \cup {NoStep}

\* Every branch of the file leads to a later step.
Forward(f) ==
    \A i, j \in DOMAIN FlowOf(f) :
        FlowOf(f)[j].id \in Gotos(FlowOf(f)[i].transitions) \cup Gotos(FlowOf(f)[i].choices)
            => j > i

\* A flow whose branches only lead forward comes to its end, from whatever the disk held
\* when it was loaded: linear moves never come round to a step again.
ForwardFlowsEnd ==
    loaded # NoFile /\ Forward(loaded) ~> loaded = NoFile \/ session.step = NoStep
=============================================================================
