----------------------------- MODULE AccessGate -----------------------------
(***************************************************************************)
(* What the point-d'accès loop promises, whatever carries it: a verdict     *)
(* that reaches a team's Assaut was given by a GM for that very team, and   *)
(* a GM only rules on a team that submitted an entry point.  AccessLoop,    *)
(* the three programs and their sockets, implements this specification.     *)
(***************************************************************************)
CONSTANTS
    Assaut,     \* Assaut installations
    Teams,      \* team ids
    Decisions,  \* verdicts a GM can give
    TeamOf      \* installation -> the team it is provisioned for, if any

VARIABLES
    submitted,  \* teams that submitted an entry point
    ruled,      \* team -> verdicts a GM gave for it
    heard       \* installation -> verdicts handed to its engine

gateVars == <<submitted, ruled, heard>>

Init ==
    /\ submitted = {}
    /\ ruled = [t \in Teams |-> {}]
    /\ heard = [a \in Assaut |-> {}]

Submit(t) ==
    /\ submitted' = submitted \cup {t}
    /\ UNCHANGED <<ruled, heard>>

Rule(t, d) ==
    /\ t \in submitted
    /\ ruled' = [ruled EXCEPT ![t] = @ \cup {d}]
    /\ UNCHANGED <<submitted, heard>>

Hear(a, d) ==
    /\ TeamOf[a] \in Teams
    /\ d \in ruled[TeamOf[a]]
    /\ heard' = [heard EXCEPT ![a] = @ \cup {d}]
    /\ UNCHANGED <<submitted, ruled>>

Next ==
    \/ \E t \in Teams : Submit(t) \/ \E d \in Decisions : Rule(t, d)
    \/ \E a \in Assaut, d \in Decisions : Hear(a, d)

Spec == Init /\ [][Next]_gateVars
=============================================================================
