----------------------------- MODULE PlayReport -----------------------------
(***************************************************************************)
(* What the GM is shown of a game: the statistics of Débriefing over the    *)
(* log a tablet pushes.  The session is that of three teams: one whose log  *)
(* never came, one that played, one that played the same and whose tablet   *)
(* pushed its log twice (as after a kill before the completed flow was on   *)
(* disk).                                                                   *)
(***************************************************************************)
EXTENDS BotsPlay, Statistics, Slides

(* A null is no entry of errorsByStep. *)
ASSUME ReportAssumption == NoOne \notin [step : StepIds, errors : Nat]

\* A log whose events came twice: ORDER BY at leaves the two of an event side by side.
Twice(events) == [i \in 1..2 * Len(events) |-> events[(i + 1) \div 2]]

SessionLogs == <<<<>>, current.log, Twice(current.log)>>

SessionTeams == [i \in DOMAIN SessionLogs |-> TeamStats(i, SessionLogs[i])]

Session == GlobalStats(SessionTeams)

Solutions(s) == {step \in StepIds : Solved(s.log, step)}

\* "Tries taken — the solve attempt number, or the highest error attempt"
\* (EnigmeResult): the figures of a team tell its game.  The attempts shown for an
\* énigme are its wrong answers, and the right one if there was one; score and end
\* are those of the final screen.
TeamFigures ==
    LET t == TeamStats(1, current.log)
    IN  /\ t.completed = IsComplete(current)
        /\ t.score = IF IsComplete(current) THEN current.score ELSE 0
        /\ SolvedCount(t) = Cardinality(Solutions(current))
        /\ ErrorCount(t) + t.phishingClicks = Mistakes(current)
        /\ \A i \in DOMAIN t.enigmes :
              LET e == t.enigmes[i]
              IN  /\ e.errors = Errors(current, e.step)
                  /\ e.solved = (e.step \in Solutions(current))
                  /\ e.attempts = e.errors + IF e.solved THEN 1 ELSE 0

\* The figures of the session: the missing team counts as unfinished without points,
\* a tie goes to the first team, a log pushed twice adds mistakes and no points, and
\* the hardest énigme is one with the most wrong answers of all teams.
SessionFigures ==
    IsComplete(current) =>
        /\ Session.completedCount = 2
        /\ current.score > 0 => Session.bestTeamId = 2
        /\ \E d \in -3..3 : 6 * Session.averageScore = 4 * current.score + d
        /\ IF \A step \in StepIds : Errors(current, step) = 0
           THEN Session.hardestEnigme = NoOne
           ELSE \A step \in StepIds :
                   3 * Errors(current, step) <= Session.hardestEnigme.errors
                   /\ (step = Session.hardestEnigme.step =>
                          Session.hardestEnigme.errors = 3 * Errors(current, step))

\* What a GM may have typed: every list of up to three names.
SuspectLists == UNION {[1..n -> Names] : n \in 0..3}

\* The slide of the suspects has each person entered, once, trimmed, as first typed and
\* in that order; it is the list on the GM's screen, which went through the same
\* function at every addition (suspects.ts:62), so one more pass changes nothing.
SuspectsOnce ==
    \A list \in SuspectLists :
        LET names == NormalizeSuspectList(list)
            first == {i \in DOMAIN list : list[i].person # 0
                                /\ \A j \in 1..i - 1 : list[j].person # list[i].person}
        IN  /\ Len(names) = Cardinality(first)
            /\ \A i \in first : names[Cardinality(first \cap 1..i)] = Trimmed(list[i])
            /\ NormalizeSuspectList(names) = names

\* No two slides have the same id (their key in React), and each team has one, with the
\* figures of its game; suspects appear only when somebody was named.
DeckTold ==
    LET teams == SessionTeams
        global == GlobalStats(teams)
        mistakes == Mistakes(current)
    IN  \A person \in 0..1 :
        LET deck == BuildDebriefDeck(teams, global, <<[person |-> person, form |-> "padded"]>>)
            Ids == {deck[i].id : i \in DOMAIN deck}
        IN  /\ Cardinality(Ids) = Len(deck)
            /\ Ids = {<<"title">>, <<"global">>} \cup {<<"team", i>> : i \in DOMAIN teams}
                        \cup (IF person = 0 THEN {} ELSE {<<"suspects">>})
            /\ \E i \in DOMAIN deck :
                  LET errors == ErrorCount(teams[2])
                  IN  deck[i] = Slide(<<"team", 2>>,
                          <<IF IsComplete(current) THEN current.score ELSE 0, IsComplete(current),
                            Cardinality(Solutions(current)), errors, mistakes - errors>>)

\* The report of a game, at any moment of it, is that of the game played, and so is the
\* deck made of it.
Figures == TeamFigures /\ SessionFigures /\ SuspectsOnce /\ DeckTold
=============================================================================
