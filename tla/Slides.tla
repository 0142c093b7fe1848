------------------------------- MODULE Slides -------------------------------
(***************************************************************************)
(* The deck of Débriefing (slides/build-slides.ts), made of the session's   *)
(* statistics and of the suspects the GM typed.  A slide is its id and the  *)
(* figures of its lines, wording and the HTML export left out.  A name is a *)
(* person, 0 for nobody, and the form it was typed in.                      *)
(***************************************************************************)
EXTENDS Statistics

Names == [person : 0..2, form : {"plain", "capitals", "padded"}]

Trimmed(name) == IF name.form = "padded" THEN [name EXCEPT !.form = "plain"] ELSE name

\* Nobody is left out, and whoever is listed in any case.
AddName(out, name) ==
    IF name.person = 0 \/ \E i \in DOMAIN out : out[i].person = name.person
    THEN out ELSE Append(out, Trimmed(name))

NormalizeSuspectList(suspects) == FoldLeft(AddName, <<>>, suspects)

Slide(id, lines) == [id |-> id, lines |-> lines]

TitleSlide(global) == Slide(<<"title">>, <<global.teamCount, global.completedCount>>)

GlobalSlide(global) ==
    Slide(<<"global">>, <<global.averageScore, global.bestTeamId,
                          global.totalPhishingClicks, global.hardestEnigme>>)

TeamSlide(t) ==
    Slide(<<"team", t.teamId>>,
          <<t.score, t.completed, SolvedCount(t), ErrorCount(t), t.phishingClicks>>)

BuildDebriefDeck(teams, global, suspects) ==
    LET names == NormalizeSuspectList(suspects)
    IN  <<TitleSlide(global), GlobalSlide(global)>>
        \o [i \in DOMAIN teams |-> TeamSlide(teams[i])]
        \o IF names = <<>> THEN <<>> ELSE <<Slide(<<"suspects">>, names)>>
=============================================================================
