----------------------------- MODULE Statistics -----------------------------
(***************************************************************************)
(* The statistics engine of Débriefing (stats/index.ts): figures per team   *)
(* and for the session, from the event logs.  Events are those of BotsFlow. *)
(* A null is NoOne.                                                         *)
(***************************************************************************)
EXTENDS Integers, FiniteSets, SequencesExt

CONSTANT NoOne

-----------------------------------------------------------------------------
(***************************************************************************)
(* computeTeamStats: one pass over the log; an entry per énigme, in order   *)
(* of first appearance.                                                     *)
(***************************************************************************)
Listed(enigmes, step) == \E i \in DOMAIN enigmes : enigmes[i].step = step

\* ensure
EntryOf(enigmes, step) ==
    IF Listed(enigmes, step)
    THEN enigmes[CHOOSE i \in DOMAIN enigmes : enigmes[i].step = step]
    ELSE [step |-> step, attempts |-> 0, errors |-> 0, solved |-> FALSE]

WithEntry(enigmes, entry) ==
    IF Listed(enigmes, entry.step)
    THEN [i \in DOMAIN enigmes |-> IF enigmes[i].step = entry.step THEN entry ELSE enigmes[i]]
    ELSE Append(enigmes, entry)

SolvedEntry(e, ev) == [e EXCEPT !.solved = TRUE, !.attempts = ev.attempts]

ErrorEntry(e, ev) ==
    [e EXCEPT !.errors = @ + 1, !.attempts = IF ev.attempts > @ THEN ev.attempts ELSE @]

CountEvent(acc, ev) ==
    CASE ev.kind = "phishing-clicked" -> [acc EXCEPT !.phishingClicks = @ + 1]
      [] ev.kind = "session-complete" -> [acc EXCEPT !.completed = TRUE, !.score = ev.about]
      [] ev.kind = "enigme-solved" ->
             [acc EXCEPT !.enigmes = WithEntry(@, SolvedEntry(EntryOf(@, ev.about), ev))]
      [] ev.kind = "enigme-error" ->
             [acc EXCEPT !.enigmes = WithEntry(@, ErrorEntry(EntryOf(@, ev.about), ev))]
      [] OTHER -> acc

TeamStats(team, events) ==
    LET none == [teamId |-> team, score |-> 0, completed |-> FALSE, phishingClicks |-> 0,
                 enigmes |-> <<>>]
    IN  FoldLeft(CountEvent, none, events)

SolvedCount(t) == Cardinality({i \in DOMAIN t.enigmes : t.enigmes[i].solved})

ErrorCount(t) == FoldLeft(LAMBDA n, e : n + e.errors, 0, t.enigmes)

-----------------------------------------------------------------------------
(***************************************************************************)
(* computeGlobalStats, over a sequence of TeamStats.                        *)
(***************************************************************************)
\* Variant (mistake): a tie goes to the later team.
BetterOrEqual(a, b) == IF b.score >= a.score THEN b ELSE a

Better(a, b) == IF b.score > a.score THEN b ELSE a

\* errorsByStep, in order of first appearance.
CountErrors(acc, e) ==
    IF Listed(acc, e.step)
    THEN [i \in DOMAIN acc |-> IF acc[i].step = e.step
                               THEN [acc[i] EXCEPT !.errors = @ + e.errors] ELSE acc[i]]
    ELSE Append(acc, [step |-> e.step, errors |-> e.errors])

ErrorsByStep(teams) ==
    FoldLeft(LAMBDA acc, t : FoldLeft(CountErrors, acc, t.enigmes), <<>>, teams)

Harder(a, b) ==
    IF b.errors > 0 /\ (IF a = NoOne THEN TRUE ELSE b.errors > a.errors) THEN b ELSE a

\* Math.round
Rounded(total, n) == (2 * total + n) \div (2 * n)

GlobalStats(teams) ==
    IF teams = <<>>
    THEN [teamCount |-> 0, averageScore |-> 0, bestTeamId |-> NoOne, completedCount |-> 0,
          totalPhishingClicks |-> 0, hardestEnigme |-> NoOne]
    ELSE [teamCount |-> Len(teams),
          averageScore |-> Rounded(FoldLeft(LAMBDA n, t : n + t.score, 0, teams), Len(teams)),
          bestTeamId |-> FoldLeft(Better, Head(teams), Tail(teams)).teamId,
          completedCount |-> Cardinality({i \in DOMAIN teams : teams[i].completed}),
          totalPhishingClicks |-> FoldLeft(LAMBDA n, t : n + t.phishingClicks, 0, teams),
          hardestEnigme |-> FoldLeft(Harder, NoOne, ErrorsByStep(teams))]
=============================================================================
