---------------------------- MODULE TeamRegister ----------------------------
(***************************************************************************)
(* What the server promises of the progress its tablets report, whatever    *)
(* carries it: per team a register that takes a report unless it already     *)
(* holds one with a later time, and a journal that only grows; both are      *)
(* emptied together, for every team at once.  What is afloat may be lost,    *)
(* repeated or filed out of order.  TabletSync, with its queues, sockets     *)
(* and late frames, implements this specification.                           *)
(***************************************************************************)
EXTENDS Naturals, Sequences

CONSTANTS
    Teams,
    None     \* no report filed

VARIABLES
    afloat,  \* reports and pushes made and perhaps still on their way
    record,  \* team -> the report it holds
    journal  \* team -> the pushes filed for it, in the order they came

registerVars == <<afloat, record, journal>>

Init ==
    /\ afloat = {}
    /\ record = [t \in Teams |-> None]
    /\ journal = [t \in Teams |-> <<>>]

\* Something is sent, for a team.
Make ==
    /\ \E m \in afloat' : m.team \in Teams /\ afloat' = afloat \cup {m}
    /\ UNCHANGED <<record, journal>>

Lose ==
    /\ afloat' \subseteq afloat
    /\ UNCHANGED <<record, journal>>

Supersedes(m) == record[m.team] = None \/ m.time >= record[m.team].time

File(m) ==
    /\ m.type = "state" /\ Supersedes(m)
    /\ record' = [record EXCEPT ![m.team] = m]
    /\ afloat' \subseteq afloat
    /\ UNCHANGED journal

Enter(m) ==
    /\ m.type = "log"
    /\ journal' = [journal EXCEPT ![m.team] = Append(@, m)]
    /\ afloat' \subseteq afloat
    /\ UNCHANGED record

Wipe ==
    /\ record' = [t \in Teams |-> None]
    /\ journal' = [t \in Teams |-> <<>>]
    /\ afloat' \subseteq afloat

Next ==
    \/ Make \/ Lose \/ Wipe
    \/ \E m \in afloat : File(m) \/ Enter(m)

Spec == Init /\ [][Next]_registerVars
=============================================================================
