----------------------------- MODULE AdminReset -----------------------------
(***************************************************************************)
(* POST /admin/reset and the form of Débriefing that sends it.  The server   *)
(* compares the code posted with the one it minted at its start, counts the  *)
(* failures of an address and locks it out for a while; the form keeps a     *)
(* draft, one status, and gives a request up after five seconds.             *)
(*                                                                          *)
(* Covered: several requests of one form in flight, requests the server      *)
(* takes up after the form has given them up, lost requests and answers, the *)
(* sweep of expired lockouts, restarts of the server with a new code.        *)
(*                                                                          *)
(* Time is ticks, one of them longer than the five seconds of a request, so  *)
(* giving up takes no tick.  A GM device stands for its address.             *)
(***************************************************************************)
EXTENDS Naturals

CONSTANTS
    Gms,
    Codes,        \* what may be typed; the server mints one of them
    Blank,        \* an empty field
    NoEntry,      \* an address without failures
    MaxAttempts,  \* RESET_MAX_ATTEMPTS
    Lockout,      \* RESET_LOCKOUT_MS, in ticks
    Slots,        \* bound: requests of one form in flight
    MaxTypos,     \* bound: failed comparisons
    MaxRestarts   \* bound: restarts of the server

ASSUME ResetAssumption ==
    /\ Blank \notin Codes
    /\ NoEntry \notin [count : Nat, lockedFor : Nat, locked : BOOLEAN]
    /\ MaxAttempts \in Nat \ {0} /\ Lockout \in Nat \ {0}
    /\ MaxTypos \in Nat /\ MaxRestarts \in Nat

VARIABLES
    (* the server *)
    code,     \* resetCode
    entry,    \* resetAttempts: lockedFor is what is left to lockedUntil, locked says it is not 0
    sweepIn,  \* ticks to the next sweep
    (* a form *)
    draft, status,
    drawn,    \* the draft and the status of the last render: what the button sees
    calls,    \* requests in flight
    (* what happened so far *)
    age,      \* ages of the last failures of an address since its last success, newest first
    wiped,    \* whether the server granted a request since the form last waited for none
    typos, restarts

serverVars == <<code, entry, sweepIn>>
formVars == <<draft, status, drawn, calls>>
ghosts == <<age, wiped, typos, restarts>>
vars == <<serverVars, formVars, ghosts>>

Entries == [count : Nat, lockedFor : 0..Lockout, locked : BOOLEAN]
Statuses == {"idle", "pending", "success", "error"}
Drafts == Codes \cup {Blank}
Calls == [gm : Gms, slot : Slots, code : Codes, answer : {"none", "lost", "200", "401", "429"},
          waiting : BOOLEAN]
Ages == [0..MaxAttempts -> 0..Lockout]
Old == [i \in 0..MaxAttempts |-> Lockout]

\* Types; an entry is locked, or was and is not swept yet, exactly when its count has
\* reached the cap; nothing answers a form that gave up.
TypeOK ==
    /\ code \in Codes
    /\ entry \in [Gms -> Entries \cup {NoEntry}]
    /\ \A g \in Gms : entry[g] # NoEntry =>
          /\ entry[g].locked <=> entry[g].count >= MaxAttempts
          /\ entry[g].lockedFor > 0 => entry[g].locked
    /\ sweepIn \in 0..Lockout
    /\ draft \in [Gms -> Drafts] /\ status \in [Gms -> Statuses]
    /\ drawn \in [Gms -> [draft : Drafts, status : Statuses]]
    /\ calls \subseteq Calls
    /\ \A c \in calls : ~c.waiting => c.answer = "none"
    /\ age \in [Gms -> Ages] /\ wiped \in [Gms -> BOOLEAN]
    /\ typos \in Nat /\ restarts \in Nat

Init ==
    /\ code \in Codes
    /\ entry = [g \in Gms |-> NoEntry] /\ sweepIn = Lockout
    /\ draft = [g \in Gms |-> Blank] /\ status = [g \in Gms |-> "idle"]
    /\ drawn = [g \in Gms |-> [draft |-> Blank, status |-> "idle"]]
    /\ calls = {}
    /\ age = [g \in Gms |-> Old] /\ wiped = [g \in Gms |-> FALSE]
    /\ typos = 0 /\ restarts = 0

-----------------------------------------------------------------------------
(***************************************************************************)
(* The form.                                                                *)
(***************************************************************************)
Type(g) ==
    /\ \E d \in Drafts : draft' = [draft EXCEPT ![g] = d]
    /\ UNCHANGED <<serverVars, status, drawn, calls, ghosts>>

Render(g) ==
    /\ drawn' = [drawn EXCEPT ![g] = [draft |-> draft[g], status |-> status[g]]]
    /\ UNCHANGED <<serverVars, draft, status, calls, ghosts>>

\* onResetSession: the handler and the disabled button are those of the last render, so
\* a second tap before the next one sends a second request.
Press(g) ==
    /\ drawn[g].draft # Blank /\ drawn[g].status # "pending"
    /\ \E k \in Slots :
          /\ \A c \in calls : c.gm = g => c.slot # k
          /\ calls' = calls \cup {[gm |-> g, slot |-> k, code |-> drawn[g].draft,
                                   answer |-> "none", waiting |-> TRUE]}
    /\ status' = [status EXCEPT ![g] = "pending"]
    /\ wiped' = [wiped EXCEPT ![g] = @ /\ \E c \in calls : c.gm = g /\ c.waiting]
    /\ UNCHANGED <<serverVars, draft, drawn, age, typos, restarts>>

\* Variant (mistake): a failure is recognised by its 401 only.
OutcomeUnless401(answer) == IF answer = "401" THEN "error" ELSE "success"

Outcome(answer) == IF answer = "200" THEN "success" ELSE "error"

\* The answer reaches the form, which a success empties.
Answered(c) ==
    /\ c.waiting /\ c.answer \notin {"none", "lost"}
    /\ calls' = calls \ {c}
    /\ status' = [status EXCEPT ![c.gm] = Outcome(c.answer)]
    /\ draft' = [draft EXCEPT ![c.gm] = IF Outcome(c.answer) = "success" THEN Blank ELSE @]
    /\ UNCHANGED <<serverVars, drawn, ghosts>>

\* The fetch rejects: aborted by its timer, or refused or reset by the network.  The
\* server may have the request all the same, and take it up later.
GiveUp(c) ==
    /\ c.waiting
    /\ calls' = (calls \ {c}) \cup IF c.answer = "none" THEN {[c EXCEPT !.waiting = FALSE]} ELSE {}
    /\ status' = [status EXCEPT ![c.gm] = "error"]
    /\ UNCHANGED <<serverVars, draft, drawn, ghosts>>

\* The network, or a server that dies, loses a request or its answer.
Lose(c) ==
    /\ c.answer # "lost"
    /\ calls' = (calls \ {c}) \cup IF c.waiting THEN {[c EXCEPT !.answer = "lost"]} ELSE {}
    /\ UNCHANGED <<serverVars, draft, status, drawn, ghosts>>

-----------------------------------------------------------------------------
(***************************************************************************)
(* The server.                                                              *)
(***************************************************************************)
LockedOut(g) == entry[g] # NoEntry /\ entry[g].lockedFor > 0

Counted(e) == IF e = NoEntry THEN 1 ELSE e.count + 1

Failed(e) ==
    IF Counted(e) >= MaxAttempts
    THEN [count |-> Counted(e), lockedFor |-> Lockout, locked |-> TRUE]
    ELSE [count |-> Counted(e), lockedFor |-> 0, locked |-> FALSE]

Reply(c, answer) ==
    calls' = (calls \ {c}) \cup IF c.waiting THEN {[c EXCEPT !.answer = answer]} ELSE {}

\* Variant (mistake): every refusal starts the lockout again.
RefuseLockedAgain(c) ==
    /\ c.answer = "none" /\ LockedOut(c.gm)
    /\ Reply(c, "429")
    /\ entry' = [entry EXCEPT ![c.gm].lockedFor = Lockout]
    /\ UNCHANGED <<code, sweepIn, draft, status, drawn, ghosts>>

RefuseLocked(c) ==
    /\ c.answer = "none" /\ LockedOut(c.gm)
    /\ Reply(c, "429")
    /\ UNCHANGED <<serverVars, draft, status, drawn, ghosts>>

RefuseCode(c) ==
    /\ c.answer = "none" /\ ~LockedOut(c.gm)
    /\ c.code # code /\ typos < MaxTypos
    /\ typos' = typos + 1
    /\ entry' = [entry EXCEPT ![c.gm] = Failed(@)]
    /\ age' = [age EXCEPT ![c.gm] = [i \in 0..MaxAttempts |-> IF i = 0 THEN 0 ELSE @[i - 1]]]
    /\ Reply(c, "401")
    /\ UNCHANGED <<code, sweepIn, draft, status, drawn, wiped, restarts>>

\* The counter of the address is cleared and the session wiped.
Grant(c) ==
    /\ c.answer = "none" /\ ~LockedOut(c.gm)
    /\ c.code = code
    /\ entry' = [entry EXCEPT ![c.gm] = NoEntry]
    /\ age' = [age EXCEPT ![c.gm] = Old]
    /\ wiped' = [wiped EXCEPT ![c.gm] = TRUE]
    /\ Reply(c, "200")
    /\ UNCHANGED <<code, sweepIn, draft, status, drawn, typos, restarts>>

\* Variant (mistake): entries that never locked, whose lockedUntil is 0, are swept too.
ExpiredAny(e) == e # NoEntry /\ e.lockedFor = 0

Expired(e) == e # NoEntry /\ e.locked /\ e.lockedFor = 0

\* The interval fires when due or later.
Sweep ==
    /\ sweepIn = 0
    /\ sweepIn' = Lockout
    /\ entry' = [g \in Gms |-> IF Expired(entry[g]) THEN NoEntry ELSE entry[g]]
    /\ UNCHANGED <<code, formVars, ghosts>>

Down(n) == IF n > 0 THEN n - 1 ELSE 0

Tick ==
    /\ entry' = [g \in Gms |-> IF entry[g] = NoEntry THEN NoEntry
                               ELSE [entry[g] EXCEPT !.lockedFor = Down(@)]]
    /\ sweepIn' = Down(sweepIn)
    /\ age' = [g \in Gms |-> [i \in 0..MaxAttempts |->
                                 IF age[g][i] < Lockout THEN age[g][i] + 1 ELSE Lockout]]
    /\ UNCHANGED <<code, formVars, wiped, typos, restarts>>

\* A new process: a new code and an empty map.
Restart ==
    /\ restarts < MaxRestarts
    /\ restarts' = restarts + 1
    /\ \E k \in Codes \ {code} : code' = k
    /\ entry' = [g \in Gms |-> NoEntry] /\ sweepIn' = Lockout
    /\ age' = [g \in Gms |-> Old]
    /\ UNCHANGED <<formVars, wiped, typos>>

Next ==
    \/ \E g \in Gms : Type(g) \/ Render(g) \/ Press(g)
    \/ \E c \in calls :
          \/ Answered(c) \/ GiveUp(c) \/ Lose(c)
          \/ RefuseLocked(c) \/ RefuseCode(c) \/ Grant(c)
    \/ Sweep \/ Tick \/ Restart

Spec == Init /\ [][Next]_vars

(***************************************************************************)
(* Fairness: time passes, React renders, a fetch is aborted by its timer and *)
(* what was sent for it is served or lost in the end.                        *)
(* The second part is a GM who presses again and again while the right code  *)
(* is on the screen, on a network that lets a request through in the end.    *)
(***************************************************************************)
FormFairness ==
    /\ WF_vars(Tick)
    /\ \A g \in Gms : WF_vars(Render(g) /\ drawn'[g] # drawn[g])
    /\ \A g \in Gms, k \in Slots :
          /\ WF_vars(\E c \in calls : c.gm = g /\ c.slot = k /\ GiveUp(c))
          /\ WF_vars(\E c \in calls : c.gm = g /\ c.slot = k /\ ~c.waiting /\ Lose(c))

GmFairness ==
    \A g \in Gms :
        /\ SF_vars(Press(g) /\ drawn[g].draft = code)
        /\ SF_vars(\E c \in calls : c.gm = g /\ Grant(c))

FairSpec == Spec /\ FormFairness /\ GmFairness

-----------------------------------------------------------------------------
(***************************************************************************)
(* Properties.                                                              *)
(***************************************************************************)
\* "A 5-attempt-per-60-second ceiling" (index.ts): however an address spreads its
\* attempts over lockouts, sweeps and requests in flight, the failure before its last
\* MaxAttempts ones is a whole Lockout old.
Ceiling == \A g \in Gms : age[g][MaxAttempts] = Lockout

\* The form says the session was reset only if the server did it for a request of this
\* form since it last waited for none, whatever other requests, aborts and restarts did.
SuccessWiped == \A g \in Gms : status[g] = "success" => wiped[g]

\* A lockout delays a GM and does not exclude her: with the right code left in the field
\* and pressed on through 429s, which neither extend a lockout nor start it again, the
\* session is wiped in the end.
GmGetsThrough == \A g \in Gms : []<>(draft[g] # code \/ wiped[g])
=============================================================================
