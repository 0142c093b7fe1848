----------------------------- MODULE MCBotsPlay -----------------------------
(* The tablets' shipped content, played and reported.                        *)
EXTENDS PlayReport, ParcoursJson

(* What AnswersAreShown asks of the content, the shipped one has. *)
ASSUME ShippedTwinsApart == TwinsApart
=============================================================================
