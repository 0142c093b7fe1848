---------------------------- MODULE AssautDevice ----------------------------
(***************************************************************************)
(* One Assaut installation and its disk.  The renderer holds the engine's   *)
(* session and the GameState; every transition sends two writes over IPC,   *)
(* the session blob then the GameState; the main process serves them one    *)
(* after the other by rewriting one JSON file; a rejected GameState write   *)
(* makes the renderer go back to the value it had before that commit.  A    *)
(* commit is made at once; what the operator sees of it is the next render. *)
(*                                                                          *)
(* Covered: commits that overlap, writes that fail, a kill between the two  *)
(* writes or in the middle of one, relaunch from whatever the file holds.   *)
(***************************************************************************)
EXTENDS AssautSequence

CONSTANTS
    Drafts,         \* contents of the access-code field, "" among them
    NoBlob,         \* StoreFile.session null
    Truncated,      \* contents of the file that JSON.parse refuses
    InitStep,       \* DEFAULT_GAME_STATE.currentStep, "init"
    MaxMoves,       \* bound: transitions
    MaxKeys,        \* bound: keystrokes
    MaxKills,       \* bound: force-kills
    MaxFailures     \* bound: writes that throw (disk full, file locked) or are cut by a kill

GameType ==
    [device : Nat, step : StepIds \cup {InitStep}, score : 0..100, draft : Drafts, of : Nat]

\* StoreFile.
Files == [gameState : GameType, session : Sessions \cup {NoBlob}, blobOf : Nat]

ASSUME DeviceAssumption ==
    /\ "" \in Drafts
    /\ InitStep \notin StepIds
    /\ Truncated \notin Files
    /\ MaxMoves \in Nat /\ MaxKeys \in Nat /\ MaxKills \in Nat /\ MaxFailures \in Nat

VARIABLES
    (* renderer *)
    running,   \* booted
    session,   \* sessionRef
    game,      \* stateRef: the GameState last committed or gone back to
    shown,     \* state: the GameState of the last render
    rejected,  \* rejections on their way back: the GameStates to go back to
    (* main process *)
    ipc,       \* writes received and not yet served
    file,      \* game-state.v1.json
    (* what happened so far *)
    minted,    \* deviceIds generated
    moves,     \* transitions committed
    keys,      \* keystrokes committed
    written,   \* newest transition whose blob was written
    kills, failures,
    behind,    \* a kill lost writes, and no transition was committed since
    crossed    \* since boot, a rejected GameState write and another commit overlapped

counters == <<minted, moves, keys, written, kills, failures, behind, crossed>>
vars == <<running, session, game, shown, rejected, ipc, file, minted, moves, keys, written,
          kills, failures, behind, crossed>>

\* deviceId 0 is the empty string of DEFAULT_GAME_STATE.
\* `of' numbers the transition whose outcome a GameState shows; the program
\* has no such field.
DefaultGame == [device |-> 0, step |-> InitStep, score |-> 0, draft |-> "", of |-> 0]

\* What readFile() makes of a missing or unreadable file.
EmptyFile == [gameState |-> DefaultGame, session |-> NoBlob, blobOf |-> 0]

Readable == file # Truncated
Contents == IF Readable THEN file ELSE EmptyFile

TypeOK ==
    /\ running \in BOOLEAN
    /\ session \in Sessions
    /\ game \in GameType /\ shown \in GameType
    /\ rejected \in Seq(GameType)
    /\ Readable => file \in Files
    /\ \A i \in DOMAIN ipc : ipc[i].kind \in {"session", "game"}
    /\ \A v \in {minted, moves, keys, written, kills, failures} : v \in Nat
    /\ behind \in BOOLEAN /\ crossed \in BOOLEAN

Init ==
    /\ running = FALSE
    /\ session = CreateSession
    /\ game = DefaultGame /\ shown = DefaultGame
    /\ rejected = <<>>
    /\ ipc = <<>>
    /\ file = EmptyFile
    /\ minted = 0 /\ moves = 0 /\ keys = 0 /\ written = 0 /\ kills = 0 /\ failures = 0
    /\ behind = FALSE /\ crossed = FALSE

-----------------------------------------------------------------------------
(***************************************************************************)
(* Boot: useGameState reads the GameState (main mints a deviceId and        *)
(* writes it when there is none), then useAssautSequence resumes a session. *)
(***************************************************************************)
Resume(state) ==
    LET blob == Contents.session
    IN  /\ game' = state /\ shown' = state
        /\ session' = InitialSession(blob # NoBlob,
                                     IF blob # NoBlob THEN blob ELSE CreateSession,
                                     state.step, state.score)

Boot ==
    /\ ~running
    /\ running' = TRUE
    /\ IF Contents.gameState.device # 0
       THEN /\ Resume(Contents.gameState)
            /\ UNCHANGED <<file, minted>>
       ELSE LET named == [Contents.gameState EXCEPT !.device = minted + 1]
            IN  /\ minted' = minted + 1
                /\ file' = [Contents EXCEPT !.gameState = named]
                /\ Resume(named)
    /\ UNCHANGED <<rejected, ipc, moves, keys, written, kills, failures, behind, crossed>>

\* The deviceId cannot be written: getGameState rejects, the renderer runs with
\* defaults and a deviceId of its own.
BootUnpersisted ==
    /\ ~running
    /\ failures < MaxFailures
    /\ Contents.gameState.device = 0
    /\ running' = TRUE
    /\ minted' = minted + 1
    /\ Resume([DefaultGame EXCEPT !.device = minted + 1])
    /\ failures' = failures + 1
    /\ UNCHANGED <<rejected, ipc, file, moves, keys, written, kills, behind, crossed>>

-----------------------------------------------------------------------------
(***************************************************************************)
(* The renderer's commits.                                                  *)
(***************************************************************************)
\* Variant (mistake): `previous' is read after `next' was applied.
GameWriteApplied(next) == [kind |-> "game", value |-> next, previous |-> next]

\* commitGameState keeps `previous', to go back to if the write is rejected.
GameWrite(next) == [kind |-> "game", value |-> next, previous |-> game]
SessionWrite(next, of) == [kind |-> "session", value |-> next, of |-> of]

ProjectToGameState(next) ==
    [game EXCEPT !.step = ProjectStep(next, game.step), !.score = next.percent,
                 !.of = moves + 1]

\* Another commit is made while a rejection is on its way back.
CrossesRejection == crossed' = (crossed \/ rejected # <<>>)

\* Variant (mistake): onCommit runs before the blob is sent.
CommitGameFirst(next) ==
    /\ session' = next
    /\ game' = ProjectToGameState(next)
    /\ ipc' = ipc \o <<GameWrite(ProjectToGameState(next)), SessionWrite(next, moves + 1)>>
    /\ moves' = moves + 1
    /\ behind' = FALSE /\ CrossesRejection

\* useAssautSequence.commit, then App.onCommit's setState.
Commit(next) ==
    /\ session' = next
    /\ game' = ProjectToGameState(next)
    /\ ipc' = ipc \o <<SessionWrite(next, moves + 1), GameWrite(ProjectToGameState(next))>>
    /\ moves' = moves + 1
    /\ behind' = FALSE /\ CrossesRejection

Submit ==
    /\ running /\ moves < MaxMoves
    /\ ~AdvanceThrows(session.step)
    /\ \E e \in ButtonEvents(session.step) \cup {"approved", "refused"} :
          Commit(Advance(session, e))
    /\ UNCHANGED <<running, shown, rejected, file, minted, keys, written, kills, failures>>

Choose ==
    /\ running /\ moves < MaxMoves
    /\ session.step # NoStep
    /\ \E c \in ChoiceIds : /\ ~ChoiceThrows(session.step, c)
                            /\ Commit(ApplyChoice(session, c))
    /\ UNCHANGED <<running, shown, rejected, file, minted, keys, written, kills, failures>>

\* Variant (mistake): the keystroke is merged into the GameState of the render.
TypedRendered(text) == [shown EXCEPT !.draft = text]

\* ... it is merged into getLatest().
Typed(text) == [game EXCEPT !.draft = text]

\* onCodeChange: a GameState commit at each keystroke in the field as rendered.
TypeCode ==
    /\ running /\ keys < MaxKeys
    /\ \E text \in Drafts \ {shown.draft} :
          /\ game' = Typed(text)
          /\ ipc' = Append(ipc, GameWrite(Typed(text)))
    /\ keys' = keys + 1
    /\ CrossesRejection
    /\ UNCHANGED <<running, session, shown, rejected, file, minted, moves, written, kills,
                   failures, behind>>

\* React draws the state last set.
Render ==
    /\ running
    /\ shown # game
    /\ shown' = game
    /\ UNCHANGED <<running, session, game, rejected, ipc, file, counters>>

\* The rejection of setGameState reaches commitGameState.
Revert ==
    /\ running
    /\ rejected # <<>>
    /\ game' = Head(rejected)
    /\ rejected' = Tail(rejected)
    /\ UNCHANGED <<running, session, shown, ipc, file, counters>>

-----------------------------------------------------------------------------
(***************************************************************************)
(* The main process: read the file, replace one half, write it back.        *)
(***************************************************************************)
\* Variant (mistake): writeSession forgets the GameState beside it.
RewrittenNoGame(write) ==
    IF write.kind = "session"
    THEN [EmptyFile EXCEPT !.session = write.value, !.blobOf = write.of]
    ELSE [Contents EXCEPT !.gameState = write.value]

Rewritten(write) ==
    IF write.kind = "session"
    THEN [Contents EXCEPT !.session = write.value, !.blobOf = write.of]
    ELSE [Contents EXCEPT !.gameState = write.value]

ServeWrite ==
    /\ running
    /\ ipc # <<>>
    /\ file' = Rewritten(Head(ipc))
    /\ written' = IF Head(ipc).kind = "session" THEN Head(ipc).of ELSE written
    /\ ipc' = Tail(ipc)
    /\ UNCHANGED <<running, session, game, shown, rejected, minted, moves, keys, kills, failures,
                   behind, crossed>>

\* writeFileSync throws: the invoke rejects; a lost blob is only logged.
FailWrite ==
    /\ running
    /\ ipc # <<>>
    /\ failures < MaxFailures
    /\ failures' = failures + 1
    /\ IF Head(ipc).kind = "game"
       THEN /\ rejected' = Append(rejected, Head(ipc).previous)
            /\ crossed' = (crossed \/ \E i \in DOMAIN ipc \ {1} : ipc[i].kind = "game")
       ELSE UNCHANGED <<rejected, crossed>>
    /\ ipc' = Tail(ipc)
    /\ UNCHANGED <<running, session, game, shown, file, minted, moves, keys, written, kills, behind>>

-----------------------------------------------------------------------------
(***************************************************************************)
(* Force-kill: both processes go, with every write not yet served.          *)
(***************************************************************************)
Die ==
    /\ running
    /\ kills < MaxKills
    /\ kills' = kills + 1
    /\ running' = FALSE
    /\ ipc' = <<>>
    /\ rejected' = <<>>
    /\ session' = CreateSession
    /\ game' = DefaultGame /\ shown' = DefaultGame
    /\ behind' = (behind \/ ipc # <<>>)
    /\ crossed' = FALSE
    /\ UNCHANGED <<minted, moves, keys, written>>

Kill == Die /\ UNCHANGED <<file, failures>>

\* writeFileSync truncates the file, then writes it.
KillInWrite ==
    /\ ipc # <<>> /\ failures < MaxFailures
    /\ Die
    /\ file' = Truncated
    /\ failures' = failures + 1

Next ==
    \/ Boot \/ BootUnpersisted
    \/ Submit \/ Choose \/ TypeCode \/ Render \/ Revert
    \/ ServeWrite \/ FailWrite
    \/ Kill \/ KillInWrite

Spec == Init /\ [][Next]_vars

-----------------------------------------------------------------------------
(***************************************************************************)
(* Safety.                                                                  *)
(***************************************************************************)
\* A session, in memory or on disk, is one the engine can make: its phase is
\* that of its step, it ends where its visits end, and a recorded choice was
\* made on a visited choice step.
Coherent(s) ==
    /\ s.phase = IF s.step = NoStep THEN "complete" ELSE PhaseOf(s.step)
    /\ s.step # NoStep => s.visited[Len(s.visited)] = s.step
    /\ \A p \in DOMAIN s.choices : /\ ChoiceMatches(p, s.choices[p]) # {}
                                   /\ \E i \in DOMAIN s.visited : s.visited[i] = p

SessionsCoherent ==
    /\ TypeOK
    /\ Coherent(session)
    /\ Readable /\ file.session # NoBlob => Coherent(file.session)

DiskSound == failures = 0

\* Every commit writes the whole GameState, a transition the blob before it, and "two
\* keystrokes between renders can't merge from a stale base" (App.tsx).  However they
\* are mixed, and killed between any two writes, a relaunch resumes a session at least
\* as far as the GameState beside it; once all is written both are of one transition,
\* unless a kill lost writes since.
HalvesAgree ==
    DiskSound =>
        /\ Contents.gameState.of <= Contents.blobOf
        /\ ~behind /\ ipc = <<>> => Contents.gameState.of = Contents.blobOf

\* "writes synchronously so a force-kill right after a transition keeps the last
\* commit" (store.ts): each write carries over the half it does not own, so that a
\* transition once written stays on disk, and so does the deviceId the server
\* restores by.  A kill inside a write breaks it: writeFileSync is no atomic
\* replacement.
CommitsSurvive ==
    [][DiskSound' =>
          /\ Contents'.blobOf >= written'
          /\ Contents.gameState.device # 0 =>
                Contents'.gameState.device = Contents.gameState.device]_vars

\* "revert the optimistic local state so the UI doesn't drift from disk"
\* (persistence.ts): once the device has stored a GameState, with nothing in flight
\* the one committed last or gone back to is the one stored.  The code does not
\* keep this: with two keystrokes under way, the write of the first rejected and that
\* of the second served, the revert shows the GameState before both.
ShowsWhatIsStored ==
    running /\ ipc = <<>> /\ rejected = <<>> /\ Contents.gameState.device # 0 =>
        game = Contents.gameState

\* What it does keep: whatever writes fail, one after the other or in any number,
\* and wherever kills fall, it drifts only once another commit was under way
\* between a GameState write that failed and the revert of it.
NoDriftFromDisk == ~crossed => ShowsWhatIsStored

\* An epilogue once stored is not played again: no relaunch reopens a finished
\* session.
FinishedStaysFinished ==
    [][Contents.session # NoBlob /\ Contents.session.step = NoStep /\ running' =>
          session'.step = NoStep]_vars
=============================================================================
