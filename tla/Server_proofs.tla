--------------------------- MODULE Server_proofs ---------------------------
(***************************************************************************)
(* Theorems of AdminReset and of ServerLife.                                *)
(*                                                                          *)
(* AdminReset: the ceiling on failed attempts and what the form reports, for *)
(* every number of attempts, length of the lockout, set of addresses and     *)
(* codes, and number of requests in flight.                                 *)
(*                                                                          *)
(* ServerLife: the frame budget of a connection and the life of the          *)
(* database, for every budget, length of the interval and of the grace       *)
(* period, and every number of connections and requests.                    *)
(***************************************************************************)
EXTENDS AdminReset, ServerLife, TLAPS


(***************************************************************************)
(* The ceiling is not inductive: nothing in it ties the ages to the counter *)
(* the server keeps.  Below the cap the counter bounds the failures that are *)
(* not old; at the cap they are as old as the lockout has run, so that what  *)
(* the sweep or a success forgets is old.                                    *)
(***************************************************************************)
CountBounds(g) ==
    /\ entry[g] = NoEntry => \A i \in 0..MaxAttempts : age[g][i] = Lockout
    /\ entry[g] # NoEntry =>
          /\ entry[g].count < MaxAttempts =>
                \A i \in 0..MaxAttempts : entry[g].count <= i => age[g][i] = Lockout
          /\ entry[g].locked =>
                \A i \in 0..MaxAttempts : age[g][i] + entry[g].lockedFor >= Lockout

IInv == TypeOK /\ Ceiling /\ \A g \in Gms : CountBounds(g)

LEMMA ResetInitial == Init => IInv
  BY ResetAssumption, SMT
     DEF Init, IInv, TypeOK, Ceiling, CountBounds, Old, Ages, Drafts, Statuses, Calls, Entries

\* What the invariant says beyond types is of these two.
Counters == <<entry, age>>

LEMMA CountersKept ==
    ASSUME IInv, TypeOK', UNCHANGED Counters
    PROVE  IInv'
  BY DEF IInv, Ceiling, CountBounds, Counters

LEMMA ReplyTyped ==
    ASSUME TypeOK, NEW c \in calls, NEW a \in {"200", "401", "429"}, Reply(c, a)
    PROVE  /\ calls' \subseteq Calls
           /\ \A d \in calls' : ~d.waiting => d.answer = "none"
  <1>1. c \in Calls
    BY DEF TypeOK
  <1>2. [c EXCEPT !.answer = a] \in Calls
    BY <1>1 DEF Calls
  <1>3. c.waiting => [c EXCEPT !.answer = a].waiting
    BY <1>1 DEF Calls
  <1> QED
    BY <1>2, <1>3 DEF Reply, TypeOK

\* An entry after a failure.
LEMMA FailedTyped ==
    ASSUME NEW e \in Entries \cup {NoEntry}
    PROVE  /\ Failed(e) \in Entries /\ Failed(e) # NoEntry
           /\ Failed(e).count = Counted(e)
           /\ Failed(e).locked <=> Counted(e) >= MaxAttempts
           /\ Failed(e).locked => Failed(e).lockedFor = Lockout
           /\ Failed(e).lockedFor > 0 => Failed(e).locked
  <1>1. Counted(e) \in Nat
    BY ResetAssumption DEF Entries, Counted
  <1>2. Lockout \in Nat /\ 0 \in 0..Lockout /\ Lockout \in 0..Lockout /\ MaxAttempts \in Nat
    BY ResetAssumption
  <1>3. Failed(e) \in [count : Nat, lockedFor : Nat, locked : BOOLEAN]
    BY <1>1, <1>2 DEF Failed
  <1>4. Failed(e) # NoEntry
    BY <1>3, ResetAssumption
  <1> QED
    BY <1>1, <1>2, <1>4 DEF Failed, Entries

LEMMA RefusedCode ==
    ASSUME IInv, NEW c \in calls, RefuseCode(c)
    PROVE  IInv'
  <1> DEFINE g == c.gm
             n == Counted(entry[g])
  <1>1. g \in Gms /\ entry[g] \in Entries \cup {NoEntry} /\ age[g] \in Ages
    BY DEF IInv, TypeOK, Calls
  <1>2. /\ entry' = [entry EXCEPT ![g] = Failed(entry[g])]
        /\ age' = [age EXCEPT ![g] = [i \in 0..MaxAttempts |-> IF i = 0 THEN 0 ELSE age[g][i - 1]]]
    BY DEF RefuseCode
  <1>3. MaxAttempts \in Nat \ {0} /\ Lockout \in Nat \ {0}
    BY ResetAssumption
  <1>4. entry'[g] = Failed(entry[g]) /\ \A h \in Gms \ {g} : entry'[h] = entry[h] /\ age'[h] = age[h]
    BY <1>1, <1>2 DEF IInv, TypeOK
  <1>5. /\ age'[g] \in Ages
        /\ age'[g][0] = 0
        /\ \A i \in 1..MaxAttempts : age'[g][i] = age[g][i - 1]
    BY <1>1, <1>2, <1>3 DEF IInv, TypeOK, Ages
  <1>6. TypeOK'
    <2>1. entry' \in [Gms -> Entries \cup {NoEntry}]
      BY <1>1, <1>2, FailedTyped DEF IInv, TypeOK
    <2>2. age' \in [Gms -> Ages]
      BY <1>1, <1>2, <1>5 DEF IInv, TypeOK
    <2>3. \A h \in Gms : entry'[h] # NoEntry =>
             /\ entry'[h].locked <=> entry'[h].count >= MaxAttempts
             /\ entry'[h].lockedFor > 0 => entry'[h].locked
      BY <1>1, <1>4, FailedTyped DEF IInv, TypeOK
    <2>4. /\ calls' \subseteq Calls
          /\ \A d \in calls' : ~d.waiting => d.answer = "none"
      BY ReplyTyped DEF RefuseCode, IInv
    <2> QED
      BY <2>1, <2>2, <2>3, <2>4 DEF IInv, TypeOK, RefuseCode
  <1>7. n \in Nat /\ n >= 1 /\ (n > 1 => entry[g] # NoEntry /\ entry[g].count = n - 1)
    BY <1>1 DEF Counted, Entries
  <1>8. \A i \in 0..MaxAttempts : i + 1 >= n \/ n > MaxAttempts => age[g][i] = Lockout
    <2>1. CASE entry[g] = NoEntry
      BY <1>1, <2>1 DEF IInv, CountBounds
    <2>2. CASE entry[g] # NoEntry
      <3>1. entry[g].count = n - 1 /\ entry[g].lockedFor = 0 /\ entry[g] \in Entries
        BY <1>1, <2>2 DEF Counted, RefuseCode, LockedOut, Entries
      <3>2. CASE n > MaxAttempts
        <4>1. entry[g].locked
          BY <1>1, <1>3, <1>7, <2>2, <3>1, <3>2 DEF IInv, TypeOK
        <4>2. \A i \in 0..MaxAttempts : age[g][i] + 0 >= Lockout
          BY <1>1, <2>2, <3>1, <4>1 DEF IInv, CountBounds
        <4> QED
          BY <1>1, <1>3, <4>2 DEF Ages
      <3>3. CASE ~(n > MaxAttempts)
        <4>1. entry[g].count < MaxAttempts
          BY <1>3, <1>7, <3>1, <3>3
        <4>2. \A i \in 0..MaxAttempts : n - 1 <= i => age[g][i] = Lockout
          BY <1>1, <2>2, <3>1, <4>1 DEF IInv, CountBounds
        <4> QED
          BY <1>3, <1>7, <3>3, <4>2
      <3> QED
        BY <3>2, <3>3
    <2> QED
      BY <2>1, <2>2
  <1>9. age'[g][MaxAttempts] = Lockout
    <2>1. age'[g][MaxAttempts] = age[g][MaxAttempts - 1]
      BY <1>3, <1>5
    <2>2. MaxAttempts - 1 \in 0..MaxAttempts /\ (MaxAttempts - 1 + 1 >= n \/ n > MaxAttempts)
      BY <1>3, <1>7
    <2> QED
      BY <1>8, <2>1, <2>2
  <1>10. CountBounds(g)'
    <2>1. entry'[g] # NoEntry /\ entry'[g].count = n
      BY <1>1, <1>4, FailedTyped
    <2>2. ASSUME n < MaxAttempts, NEW i \in 0..MaxAttempts, n <= i
          PROVE  age'[g][i] = Lockout
      BY <1>3, <1>5, <1>7, <1>8, <2>2
    <2>3. entry'[g].locked => \A i \in 0..MaxAttempts : age'[g][i] + entry'[g].lockedFor >= Lockout
      <3>1. entry'[g].locked => entry'[g].lockedFor = Lockout
        BY <1>1, <1>4, FailedTyped
      <3> QED
        BY <1>3, <1>5, <3>1 DEF Ages
    <2> QED
      BY <2>1, <2>2, <2>3 DEF CountBounds
  <1>11. ASSUME NEW h \in Gms, h # g
         PROVE  CountBounds(h)' /\ age'[h][MaxAttempts] = Lockout
    BY <1>4, <1>11 DEF IInv, CountBounds, Ceiling
  <1> QED
    BY <1>6, <1>9, <1>10, <1>11 DEF IInv, Ceiling

LEMMA Granted ==
    ASSUME IInv, NEW c \in calls, Grant(c)
    PROVE  IInv'
  <1> DEFINE g == c.gm
  <1>1. g \in Gms
    BY DEF IInv, TypeOK, Calls
  <1>2. /\ entry'[g] = NoEntry /\ age'[g] = Old
        /\ \A h \in Gms \ {g} : entry'[h] = entry[h] /\ age'[h] = age[h]
    BY <1>1 DEF Grant, IInv, TypeOK
  <1>3. Old \in Ages /\ \A i \in 0..MaxAttempts : Old[i] = Lockout
    BY ResetAssumption DEF Old, Ages
  <1>4. TypeOK'
    <2>1. /\ calls' \subseteq Calls
          /\ \A d \in calls' : ~d.waiting => d.answer = "none"
      BY ReplyTyped DEF Grant, IInv
    <2> QED
      BY <1>1, <1>2, <1>3, <2>1 DEF IInv, TypeOK, Grant
  <1>5. MaxAttempts \in 0..MaxAttempts
    BY ResetAssumption
  <1> QED
    BY <1>1, <1>2, <1>3, <1>4, <1>5 DEF IInv, Ceiling, CountBounds

LEMMA Swept ==
    ASSUME IInv, Sweep
    PROVE  IInv'
  <1>1. TypeOK'
    BY ResetAssumption DEF Sweep, IInv, TypeOK, formVars, ghosts
  <1>2. ASSUME NEW g \in Gms
        PROVE  CountBounds(g)'
    <2>1. entry'[g] = (IF Expired(entry[g]) THEN NoEntry ELSE entry[g]) /\ age'[g] = age[g]
      BY DEF Sweep, ghosts
    <2>2. CASE Expired(entry[g])
      <3>1. \A i \in 0..MaxAttempts : age[g][i] + 0 >= Lockout
        BY <2>2 DEF IInv, CountBounds, Expired
      <3>2. \A i \in 0..MaxAttempts : age[g][i] = Lockout
        BY <3>1, ResetAssumption DEF IInv, TypeOK, Ages
      <3> QED
        BY <2>1, <2>2, <3>2 DEF CountBounds
    <2>3. CASE ~Expired(entry[g])
      BY <2>1, <2>3 DEF IInv, CountBounds
    <2> QED
      BY <2>2, <2>3
  <1>3. Ceiling'
    BY DEF Sweep, ghosts, IInv, Ceiling
  <1> QED
    BY <1>1, <1>2, <1>3 DEF IInv

LEMMA Ticked ==
    ASSUME IInv, Tick
    PROVE  IInv'
  <1>1. MaxAttempts \in Nat \ {0} /\ Lockout \in Nat \ {0}
    BY ResetAssumption
  <1>2. ASSUME NEW g \in Gms
        PROVE  /\ entry'[g] = (IF entry[g] = NoEntry THEN NoEntry
                                ELSE [entry[g] EXCEPT !.lockedFor = Down(entry[g].lockedFor)])
               /\ age'[g] = [i \in 0..MaxAttempts |->
                                IF age[g][i] < Lockout THEN age[g][i] + 1 ELSE Lockout]
    BY DEF Tick
  <1>3. ASSUME NEW g \in Gms
        PROVE  /\ age'[g] \in Ages
               /\ \A i \in 0..MaxAttempts :
                     /\ age[g][i] = Lockout => age'[g][i] = Lockout
                     /\ age'[g][i] = Lockout \/ age'[g][i] = age[g][i] + 1
    <2>1. age[g] \in Ages
      BY DEF IInv, TypeOK
    <2>2. age'[g] = [i \in 0..MaxAttempts |-> IF age[g][i] < Lockout THEN age[g][i] + 1 ELSE Lockout]
      BY <1>2
    <2>3. \A i \in 0..MaxAttempts : age[g][i] \in 0..Lockout
      BY <2>1 DEF Ages
    <2>4. \A i \in 0..MaxAttempts :
             /\ age'[g][i] = (IF age[g][i] < Lockout THEN age[g][i] + 1 ELSE Lockout)
             /\ age'[g][i] \in 0..Lockout
      BY <1>1, <2>2, <2>3
    <2>5. age'[g] \in Ages
      BY <2>2, <2>4 DEF Ages
    <2> QED
      BY <1>1, <2>3, <2>4, <2>5
  <1>4. ASSUME NEW e \in Entries
        PROVE  /\ [e EXCEPT !.lockedFor = Down(e.lockedFor)] \in Entries
               /\ [e EXCEPT !.lockedFor = Down(e.lockedFor)] # NoEntry
               /\ [e EXCEPT !.lockedFor = Down(e.lockedFor)].count = e.count
               /\ [e EXCEPT !.lockedFor = Down(e.lockedFor)].locked = e.locked
               /\ [e EXCEPT !.lockedFor = Down(e.lockedFor)].lockedFor = Down(e.lockedFor)
    <2>1. Down(e.lockedFor) \in 0..Lockout
      BY <1>1 DEF Down, Entries
    <2>2. [e EXCEPT !.lockedFor = Down(e.lockedFor)] \in [count : Nat, lockedFor : Nat, locked : BOOLEAN]
      BY <1>1, <2>1 DEF Entries
    <2> QED
      BY <2>1, <2>2, ResetAssumption DEF Entries
  <1>5. TypeOK'
    <2>1. entry' \in [Gms -> Entries \cup {NoEntry}]
      BY <1>4 DEF Tick, IInv, TypeOK
    <2>2. \A g \in Gms : entry'[g] # NoEntry =>
             /\ entry'[g].locked <=> entry'[g].count >= MaxAttempts
             /\ entry'[g].lockedFor > 0 => entry'[g].locked
      <3> SUFFICES ASSUME NEW g \in Gms, entry'[g] # NoEntry
                   PROVE  /\ entry'[g].locked <=> entry'[g].count >= MaxAttempts
                          /\ entry'[g].lockedFor > 0 => entry'[g].locked
        OBVIOUS
      <3>1. /\ entry[g] \in Entries /\ entry[g] # NoEntry
            /\ entry'[g] = [entry[g] EXCEPT !.lockedFor = Down(entry[g].lockedFor)]
        BY <1>2 DEF IInv, TypeOK
      <3>2. /\ entry'[g].count = entry[g].count /\ entry'[g].locked = entry[g].locked
            /\ entry'[g].lockedFor = Down(entry[g].lockedFor)
        BY <1>4, <3>1
      <3>3. entry'[g].lockedFor > 0 => entry[g].lockedFor > 0
        BY <1>1, <3>1, <3>2 DEF Down, Entries
      <3> QED
        BY <3>1, <3>2, <3>3 DEF IInv, TypeOK
    <2>3. age' \in [Gms -> Ages]
      BY <1>3 DEF Tick
    <2>4. sweepIn' \in 0..Lockout
      BY <1>1 DEF Tick, IInv, TypeOK, Down
    <2> QED
      BY <2>1, <2>2, <2>3, <2>4 DEF Tick, formVars, IInv, TypeOK
  <1>6. ASSUME NEW g \in Gms
        PROVE  CountBounds(g)'
    <2>1. CASE entry[g] = NoEntry
      BY <1>2, <1>3, <2>1 DEF IInv, CountBounds
    <2>2. CASE entry[g] # NoEntry
      <3>1. /\ entry[g] \in Entries /\ entry'[g] # NoEntry
            /\ entry'[g].count = entry[g].count /\ entry'[g].locked = entry[g].locked
            /\ entry'[g].lockedFor + 1 >= entry[g].lockedFor
            /\ entry'[g].lockedFor \in Nat
        <4>1. /\ entry[g] \in Entries
              /\ entry'[g] = [entry[g] EXCEPT !.lockedFor = Down(entry[g].lockedFor)]
          BY <1>2, <2>2 DEF IInv, TypeOK
        <4>2. /\ entry'[g] # NoEntry
              /\ entry'[g].count = entry[g].count /\ entry'[g].locked = entry[g].locked
              /\ entry'[g].lockedFor = Down(entry[g].lockedFor)
          BY <1>4, <4>1
        <4>3. /\ Down(entry[g].lockedFor) + 1 >= entry[g].lockedFor
              /\ Down(entry[g].lockedFor) \in Nat
          BY <1>1, <4>1 DEF Down, Entries
        <4> QED
          BY <4>1, <4>2, <4>3
      <3>2. ASSUME entry[g].count < MaxAttempts, NEW i \in 0..MaxAttempts, entry[g].count <= i
            PROVE  age'[g][i] = Lockout
        BY <1>3, <2>2, <3>2 DEF IInv, CountBounds
      <3>3. ASSUME entry[g].locked, NEW i \in 0..MaxAttempts
            PROVE  age'[g][i] + entry'[g].lockedFor >= Lockout
        <4>1. age[g][i] + entry[g].lockedFor >= Lockout
          BY <2>2, <3>3 DEF IInv, CountBounds
        <4>2. age[g][i] \in Nat /\ age'[g][i] \in Nat /\ entry[g].lockedFor \in Nat
          BY <1>1, <1>3, <3>1 DEF IInv, TypeOK, Ages, Entries
        <4>3. age'[g][i] = Lockout \/ age'[g][i] = age[g][i] + 1
          BY <1>3
        <4> QED
          BY <1>1, <3>1, <4>1, <4>2, <4>3
      <3> QED
        BY <3>1, <3>2, <3>3 DEF CountBounds
    <2> QED
      BY <2>1, <2>2
  <1>7. Ceiling'
    BY <1>1, <1>3 DEF IInv, Ceiling
  <1> QED
    BY <1>5, <1>6, <1>7 DEF IInv

LEMMA Restarted ==
    ASSUME IInv, Restart
    PROVE  IInv'
  <1>1. Old \in Ages /\ \A i \in 0..MaxAttempts : Old[i] = Lockout
    BY ResetAssumption DEF Old, Ages
  <1>2. MaxAttempts \in 0..MaxAttempts /\ Lockout \in 0..Lockout
    BY ResetAssumption
  <1> QED
    BY <1>1, <1>2 DEF Restart, IInv, TypeOK, Ceiling, CountBounds, formVars

\* One step per action; those of the form leave counters and ages alone.
LEMMA ResetStep == IInv /\ [Next]_vars => IInv'
  <1> SUFFICES ASSUME IInv, [Next]_vars
               PROVE  IInv'
    OBVIOUS
  <1> USE DEF Counters
  <1>1. ASSUME NEW g \in Gms, Type(g)
        PROVE  IInv'
    <2>1. TypeOK'
      BY <1>1 DEF Type, IInv, TypeOK, serverVars, ghosts
    <2> QED
      BY <1>1, <2>1, CountersKept DEF Type, serverVars, ghosts
  <1>2. ASSUME NEW g \in Gms, Render(g)
        PROVE  IInv'
    <2>1. TypeOK'
      BY <1>2 DEF Render, IInv, TypeOK, serverVars, ghosts
    <2> QED
      BY <1>2, <2>1, CountersKept DEF Render, serverVars, ghosts
  <1>3. ASSUME NEW g \in Gms, Press(g)
        PROVE  IInv'
    <2>1. drawn[g].draft \in Codes
      BY <1>3 DEF Press, IInv, TypeOK, Drafts
    <2>2. PICK k \in Slots :
             calls' = calls \cup {[gm |-> g, slot |-> k, code |-> drawn[g].draft,
                                   answer |-> "none", waiting |-> TRUE]}
      BY <1>3 DEF Press
    <2>3. /\ calls' \subseteq Calls
          /\ \A d \in calls' : ~d.waiting => d.answer = "none"
      <3> DEFINE new == [gm |-> g, slot |-> k, code |-> drawn[g].draft,
                         answer |-> "none", waiting |-> TRUE]
      <3>1. new \in Calls /\ new.waiting
        BY <2>1 DEF Calls
      <3>2. calls' = calls \cup {new}
        BY <2>2
      <3> HIDE DEF new
      <3> QED
        BY <3>1, <3>2 DEF IInv, TypeOK
    <2>4. wiped' \in [Gms -> BOOLEAN] /\ status' \in [Gms -> Statuses]
      BY <1>3 DEF Press, IInv, TypeOK, Statuses
    <2>5. TypeOK'
      BY <1>3, <2>3, <2>4 DEF Press, IInv, TypeOK, serverVars
    <2> QED
      BY <1>3, <2>5, CountersKept DEF Press, serverVars
  <1>4. ASSUME NEW c \in calls, Answered(c)
        PROVE  IInv'
    <2>1. TypeOK'
      BY <1>4 DEF Answered, Outcome, IInv, TypeOK, serverVars, ghosts, Statuses, Drafts, Calls
    <2> QED
      BY <1>4, <2>1, CountersKept DEF Answered, serverVars, ghosts
  <1>5. ASSUME NEW c \in calls, GiveUp(c)
        PROVE  IInv'
    <2>1. TypeOK'
      BY <1>5 DEF GiveUp, IInv, TypeOK, serverVars, ghosts, Statuses, Calls
    <2> QED
      BY <1>5, <2>1, CountersKept DEF GiveUp, serverVars, ghosts
  <1>6. ASSUME NEW c \in calls, Lose(c)
        PROVE  IInv'
    <2>1. TypeOK'
      BY <1>6 DEF Lose, IInv, TypeOK, serverVars, ghosts, Calls
    <2> QED
      BY <1>6, <2>1, CountersKept DEF Lose, serverVars, ghosts
  <1>7. ASSUME NEW c \in calls, RefuseLocked(c)
        PROVE  IInv'
    <2>1. /\ calls' \subseteq Calls
          /\ \A d \in calls' : ~d.waiting => d.answer = "none"
      BY <1>7, ReplyTyped DEF RefuseLocked, IInv
    <2>2. TypeOK'
      BY <1>7, <2>1 DEF RefuseLocked, IInv, TypeOK, serverVars, ghosts
    <2> QED
      BY <1>7, <2>2, CountersKept DEF RefuseLocked, serverVars, ghosts
  <1>8. CASE UNCHANGED vars
    <2>1. TypeOK'
      BY <1>8 DEF IInv, TypeOK, vars, serverVars, formVars, ghosts
    <2> QED
      BY <1>8, <2>1, CountersKept DEF vars, serverVars, ghosts
  <1> QED
    BY <1>1, <1>2, <1>3, <1>4, <1>5, <1>6, <1>7, <1>8, RefusedCode, Granted, Swept, Ticked,
       Restarted DEF Next

\* Types, the cap and the flag of a locked entry agree in every reachable state, whatever
\* the requests in flight, the sweeps and the restarts.
THEOREM ResetTypeCorrect == Spec => []TypeOK
  <1>1. IInv => TypeOK
    BY DEF IInv
  <1> QED
    BY <1>1, ResetInitial, ResetStep, PTL DEF Spec

\* The ceiling of the comment over RESET_MAX_ATTEMPTS, for every cap and lockout: an
\* address never has more than MaxAttempts comparisons fail within one Lockout.
THEOREM CeilingHolds == Spec => []Ceiling
  <1>1. IInv => Ceiling
    BY DEF IInv
  <1> QED
    BY <1>1, ResetInitial, ResetStep, PTL DEF Spec

(***************************************************************************)
(* What the form shows comes from answers: one that says 200 and is still    *)
(* awaited was given for a wipe since the form last awaited nothing, so the  *)
(* next press cannot have forgotten that wipe.                               *)
(***************************************************************************)
GrantsWiped == \A c \in calls : c.waiting /\ c.answer = "200" => wiped[c.gm]

FormInv == SuccessWiped /\ GrantsWiped

\* A call that is answered, given up or lost is still that form's.
LEMMA CallAmended ==
    ASSUME NEW c \in Calls
    PROVE  /\ c.gm \in Gms
           /\ \A a \in {"none", "lost", "200", "401", "429"} :
                 [c EXCEPT !.answer = a].answer = a /\ [c EXCEPT !.answer = a].gm = c.gm
           /\ ~[c EXCEPT !.waiting = FALSE].waiting
  BY DEF Calls

\* Nothing new to report: no form changes, and no call but unanswered or refused ones is new.
LEMMA FormKept ==
    ASSUME FormInv, UNCHANGED <<status, wiped>>,
           \A d \in calls' \ calls : ~(d.waiting /\ d.answer = "200")
    PROVE  FormInv'
  BY DEF FormInv, SuccessWiped, GrantsWiped

LEMMA PressedForm ==
    ASSUME TypeOK, FormInv, NEW g \in Gms, Press(g)
    PROVE  FormInv'
  <1>1. /\ status' = [status EXCEPT ![g] = "pending"]
        /\ wiped' = [wiped EXCEPT ![g] = @ /\ \E c \in calls : c.gm = g /\ c.waiting]
    BY DEF Press
  <1>2. SuccessWiped'
    BY <1>1 DEF TypeOK, FormInv, SuccessWiped
  <1>3. ASSUME NEW d \in calls', d.waiting, d.answer = "200"
        PROVE  wiped'[d.gm]
    <2>1. PICK k \in Slots :
             calls' = calls \cup {[gm |-> g, slot |-> k, code |-> drawn[g].draft,
                                   answer |-> "none", waiting |-> TRUE]}
      BY DEF Press
    <2>2. d \in calls /\ d.gm \in Gms
      BY <1>3, <2>1 DEF TypeOK, Calls
    <2>3. wiped[d.gm]
      BY <1>3, <2>2 DEF FormInv, GrantsWiped
    <2> QED
      BY <1>1, <1>3, <2>2, <2>3 DEF TypeOK
  <1> QED
    BY <1>2, <1>3 DEF FormInv, GrantsWiped

LEMMA AnsweredForm ==
    ASSUME TypeOK, FormInv, NEW c \in calls, Answered(c)
    PROVE  FormInv'
  <1>1. c.gm \in Gms /\ wiped' = wiped /\ calls' \subseteq calls
    BY CallAmended DEF Answered, TypeOK, ghosts
  <1>2. Outcome(c.answer) = "success" => wiped[c.gm]
    BY DEF Answered, Outcome, FormInv, GrantsWiped
  <1>3. status' = [status EXCEPT ![c.gm] = Outcome(c.answer)]
    BY DEF Answered
  <1> QED
    BY <1>1, <1>2, <1>3 DEF TypeOK, FormInv, SuccessWiped, GrantsWiped

LEMMA GivenUpForm ==
    ASSUME TypeOK, FormInv, NEW c \in calls, GiveUp(c)
    PROVE  FormInv'
  <1>1. c.gm \in Gms /\ wiped' = wiped
    BY CallAmended DEF GiveUp, TypeOK, ghosts
  <1>2. \A d \in calls' : d \in calls \/ ~d.waiting
    <2>1. c \in Calls
      BY DEF TypeOK
    <2>2. ~[c EXCEPT !.waiting = FALSE].waiting
      BY <2>1, CallAmended
    <2>3. \A d \in calls' : d \in calls \/ d = [c EXCEPT !.waiting = FALSE]
      BY DEF GiveUp
    <2> QED
      BY <2>2, <2>3
  <1>3. status' = [status EXCEPT ![c.gm] = "error"]
    BY DEF GiveUp
  <1> QED
    BY <1>1, <1>2, <1>3 DEF TypeOK, FormInv, SuccessWiped, GrantsWiped

LEMMA GrantedForm ==
    ASSUME TypeOK, FormInv, NEW c \in calls, Grant(c)
    PROVE  FormInv'
  <1>1. c.gm \in Gms /\ wiped' = [wiped EXCEPT ![c.gm] = TRUE] /\ status' = status
    BY CallAmended DEF Grant, TypeOK
  <1>2. \A d \in calls' : d \in calls \/ d.gm = c.gm
    <2>1. c \in Calls
      BY DEF TypeOK
    <2>2. [c EXCEPT !.answer = "200"].gm = c.gm
      BY <2>1, CallAmended
    <2>3. \A d \in calls' : d \in calls \/ d = [c EXCEPT !.answer = "200"]
      BY DEF Grant, Reply
    <2> QED
      BY <2>2, <2>3
  <1>3. \A h \in Gms : wiped[h] => wiped'[h]
    BY <1>1 DEF TypeOK
  <1>4. SuccessWiped'
    BY <1>1, <1>3 DEF FormInv, SuccessWiped
  <1>5. ASSUME NEW d \in calls', d.waiting, d.answer = "200"
        PROVE  wiped'[d.gm]
    BY <1>1, <1>2, <1>3, <1>5 DEF TypeOK, Calls, FormInv, GrantsWiped
  <1> QED
    BY <1>4, <1>5 DEF FormInv, GrantsWiped

LEMMA RefusedForm ==
    ASSUME TypeOK, FormInv, NEW c \in calls, RefuseLocked(c) \/ RefuseCode(c)
    PROVE  FormInv'
  <1>1. UNCHANGED <<status, wiped>>
    BY DEF RefuseLocked, RefuseCode, ghosts
  <1>2. \A d \in calls' \ calls : d.answer # "200"
    <2>1. c \in Calls
      BY DEF TypeOK
    <2>2. PICK a \in {"401", "429"} : Reply(c, a)
      BY DEF RefuseLocked, RefuseCode
    <2>3. [c EXCEPT !.answer = a].answer = a /\ a # "200"
      BY <2>1, <2>2, CallAmended
    <2> QED
      BY <2>2, <2>3 DEF Reply
  <1> QED
    BY <1>1, <1>2, FormKept

LEMMA LostForm ==
    ASSUME TypeOK, FormInv, NEW c \in calls, Lose(c)
    PROVE  FormInv'
  <1>1. UNCHANGED <<status, wiped>>
    BY DEF Lose, ghosts
  <1>2. \A d \in calls' \ calls : d.answer # "200"
    BY CallAmended DEF Lose, TypeOK
  <1> QED
    BY <1>1, <1>2, FormKept

LEMMA FormStep == TypeOK /\ FormInv /\ [Next]_vars => FormInv'
  <1> SUFFICES ASSUME TypeOK, FormInv, [Next]_vars
               PROVE  FormInv'
    OBVIOUS
  <1>1. ASSUME NEW g \in Gms, Type(g) \/ Render(g)
        PROVE  FormInv'
    BY <1>1, FormKept DEF Type, Render, ghosts
  <1>2. ASSUME Sweep \/ Tick \/ Restart \/ UNCHANGED vars
        PROVE  FormInv'
    BY <1>2, FormKept DEF Sweep, Tick, Restart, vars, formVars, ghosts
  <1> QED
    BY <1>1, <1>2, PressedForm, AnsweredForm, GivenUpForm, LostForm, RefusedForm, GrantedForm
       DEF Next

\* « Session réinitialisée » is shown only after a wipe made for this form since it last
\* awaited nothing, for any number of requests in flight, given up or answered late.
THEOREM SuccessIsWiped == Spec => []SuccessWiped
  <1>1. Init => FormInv
    BY DEF Init, FormInv, SuccessWiped, GrantsWiped
  <1>2. FormInv => SuccessWiped
    BY DEF FormInv
  <1> QED
    BY <1>1, <1>2, FormStep, ResetTypeCorrect, PTL DEF Spec

-----------------------------------------------------------------------------
(***************************************************************************)
(* ServerLife.                                                              *)
(***************************************************************************)
(***************************************************************************)
(* TwoBudgetsASecond speaks of times and the server keeps a counter and an  *)
(* interval.  Of the frames parsed, only those the counter counts are later *)
(* than the last run of the interval, the others are at least as old as the *)
(* interval has been running; and a budget further back they are from       *)
(* before the run before it, which is a second.                             *)
(***************************************************************************)
Spent(n) == IF n < Budget THEN n ELSE Budget

BudgetBounds(c) ==
    \A i \in 0..2 * Budget :
        /\ Spent(count[c]) <= i => frameAge[c][i] + resetIn[c] >= Second
        /\ Spent(count[c]) + Budget <= i => frameAge[c][i] = Second

\* Until the process has exited the database is open.
DbInv == (phase # "exited" => dbOpen) /\ ~misused

LifeInv == LifeTypeOK /\ (\A c \in Sockets : BudgetBounds(c)) /\ DbInv

LEMMA LifeInitial == LifeInit => LifeInv
  <1> SUFFICES ASSUME LifeInit PROVE LifeInv
    OBVIOUS
  <1>1. Budget \in Nat \ {0} /\ Second \in Nat \ {0} /\ Grace \in Nat /\ MaxFlood \in Nat
    BY LifeAssumption
  <1>2. NoneRecent \in FrameAges /\ \A i \in 0..2 * Budget : NoneRecent[i] = Second
    BY <1>1 DEF NoneRecent, FrameAges
  <1>3. LifeTypeOK
    <2>1. /\ armed \in [Sockets -> BOOLEAN] /\ meta \in [Sockets -> BOOLEAN]
          /\ \A c \in Sockets : ~armed[c] /\ ~meta[c] /\ tcp[c] = "none"
      BY DEF LifeInit
    <2>2. frameAge \in [Sockets -> FrameAges]
      BY <1>2 DEF LifeInit
    <2>3. grace \in 0..Grace
      BY <1>1 DEF LifeInit
    <2>4. count \in [Sockets -> 0..MaxFlood] /\ resetIn \in [Sockets -> 0..Second]
      BY <1>1 DEF LifeInit
    <2>5. /\ tcp \in [Sockets -> {"none", "dialling", "open", "told"}]
          /\ post \in [Posts -> {"none", "asking", "idle"}]
      BY DEF LifeInit
    <2>6. there \in [Sockets -> BOOLEAN]
      BY DEF LifeInit
    <2> QED
      BY <2>1, <2>2, <2>3, <2>4, <2>5, <2>6 DEF LifeInit, LifeTypeOK
  <1>4. \A c \in Sockets : BudgetBounds(c)
    BY <1>1, <1>2 DEF LifeInit, BudgetBounds, Spent
  <1> QED
    BY <1>3, <1>4 DEF LifeInit, LifeInv, DbInv

\* What the bounds of a connection are about.
FrameCounters(c) == <<count[c], resetIn[c], frameAge[c]>>

LEMMA BoundsKept ==
    ASSUME NEW c \in Sockets, BudgetBounds(c), UNCHANGED FrameCounters(c)
    PROVE  BudgetBounds(c)'
  BY DEF BudgetBounds, FrameCounters

-----------------------------------------------------------------------------
(***************************************************************************)
(* The steps that count, forget or let time pass.                           *)
(***************************************************************************)
LEMMA MessageStep ==
    ASSUME LifeInv, NEW c \in Sockets, Message(c)
    PROVE  LifeInv'
  <1>1. PICK kind \in Kinds :
          LET n == IF Counts(kind) THEN count[c] + 1 ELSE count[c]
              parsed == kind # "binary" /\ n <= Budget
          IN  /\ n <= MaxFlood
              /\ count' = [count EXCEPT ![c] = n]
              /\ meta' = [meta EXCEPT ![c] = @ \/ (parsed /\ kind = "hello")]
              /\ frameAge' = IF ~parsed THEN frameAge
                             ELSE [frameAge EXCEPT ![c] =
                                     [i \in 0..2 * Budget |-> IF i = 0 THEN 0 ELSE @[i - 1]]]
              /\ misused' = (misused \/ (parsed /\ kind \in {"hello", "state"} /\ ~dbOpen))
    BY DEF Message
  <1> DEFINE n == IF Counts(kind) THEN count[c] + 1 ELSE count[c]
             parsed == kind # "binary" /\ n <= Budget
             ages == [i \in 0..2 * Budget |-> IF i = 0 THEN 0 ELSE frameAge[c][i - 1]]
  <1>2. /\ phase = "up" /\ tcp[c] = "open"
        /\ UNCHANGED <<server, tcp, there, resetIn, armed, post, vanished>>
    BY DEF Message
  <1>3. Budget \in Nat \ {0} /\ Second \in Nat \ {0} /\ MaxFlood \in Nat
    BY LifeAssumption
  <1>4. count[c] \in 0..MaxFlood /\ resetIn[c] \in 0..Second /\ frameAge[c] \in FrameAges /\ armed[c]
    BY <1>2 DEF LifeInv, LifeTypeOK
  <1>5. n \in 0..MaxFlood
    BY <1>1, <1>3, <1>4
  <1>6. ages \in FrameAges
    BY <1>3, <1>4 DEF FrameAges
  <1>7. frameAge' = IF parsed THEN [frameAge EXCEPT ![c] = ages] ELSE frameAge
    BY <1>1
  <1>8. LifeTypeOK'
    <2>1. count' \in [Sockets -> 0..MaxFlood]
      BY <1>1, <1>5 DEF LifeInv, LifeTypeOK
    <2>2. frameAge' \in [Sockets -> FrameAges]
      BY <1>6, <1>7 DEF LifeInv, LifeTypeOK
    <2>3. meta' \in [Sockets -> BOOLEAN] /\ \A b \in Sockets : meta'[b] => armed[b]
      BY <1>1, <1>4 DEF LifeInv, LifeTypeOK
    <2>4. misused' \in BOOLEAN
      BY <1>1 DEF LifeInv, LifeTypeOK
    <2> QED
      BY <1>2, <2>1, <2>2, <2>3, <2>4 DEF LifeInv, LifeTypeOK, server
  <1>9. BudgetBounds(c)'
    <2>1. CASE parsed
      <3>1. Counts(kind) /\ n = count[c] + 1 /\ count[c] < Budget
        BY <2>1, <1>3, <1>4 DEF Counts
      <3>2. count'[c] = n /\ frameAge'[c] = ages /\ resetIn'[c] = resetIn[c]
        BY <1>1, <1>2, <1>7, <2>1 DEF LifeInv, LifeTypeOK
      <3>3. Spent(n) = Spent(count[c]) + 1 /\ Spent(count[c]) \in Nat
        BY <3>1, <1>3, <1>4 DEF Spent
      <3>4. ASSUME NEW i \in 0..2 * Budget, Spent(n) <= i
            PROVE  i - 1 \in 0..2 * Budget /\ Spent(count[c]) <= i - 1 /\ ages[i] = frameAge[c][i - 1]
        BY <3>3, <3>4, <1>3
      <3>5. ASSUME NEW i \in 0..2 * Budget, Spent(n) + Budget <= i
            PROVE  Spent(n) <= i /\ Spent(count[c]) + Budget <= i - 1
        BY <3>3, <3>5, <1>3
      <3> QED
        BY <3>2, <3>4, <3>5 DEF LifeInv, BudgetBounds
    <2>2. CASE ~parsed
      <3>1. Spent(n) = Spent(count[c])
        BY <2>2, <1>3, <1>4 DEF Spent, Counts
      <3>2. count'[c] = n /\ frameAge'[c] = frameAge[c] /\ resetIn'[c] = resetIn[c]
        BY <1>1, <1>2, <1>7, <2>2 DEF LifeInv, LifeTypeOK
      <3> QED
        BY <3>1, <3>2 DEF LifeInv, BudgetBounds
    <2> QED
      BY <2>1, <2>2
  <1>10. ASSUME NEW b \in Sockets, b # c
         PROVE  BudgetBounds(b)'
    BY <1>1, <1>2, <1>7, <1>10, BoundsKept DEF LifeInv, LifeTypeOK, FrameCounters
  <1>11. DbInv'
    BY <1>1, <1>2 DEF LifeInv, DbInv, server
  <1> QED
    BY <1>8, <1>9, <1>10, <1>11 DEF LifeInv

\* A second after its last run the interval forgets the count: nothing parsed before
\* that run, and no more than a budget since, is less than a second old.
LEMMA ResetCountStep ==
    ASSUME LifeInv, NEW c \in Sockets, ResetCount(c)
    PROVE  LifeInv'
  <1>1. Budget \in Nat \ {0} /\ Second \in Nat \ {0} /\ MaxFlood \in Nat
    BY LifeAssumption
  <1>2. count[c] \in 0..MaxFlood /\ resetIn[c] = 0 /\ frameAge[c] \in FrameAges
    BY DEF LifeInv, LifeTypeOK, ResetCount
  <1>3. /\ count' = [count EXCEPT ![c] = 0] /\ resetIn' = [resetIn EXCEPT ![c] = Second]
        /\ UNCHANGED <<server, tcp, there, meta, armed, frameAge, post, misused, vanished>>
    BY DEF ResetCount
  <1>4. LifeTypeOK'
    BY <1>1, <1>3 DEF LifeInv, LifeTypeOK, server
  <1>5. BudgetBounds(c)'
    <2>1. Spent(count[c]) <= Budget /\ Spent(0) = 0
      BY <1>1, <1>2 DEF Spent
    <2>2. \A i \in 0..2 * Budget : Budget <= i => frameAge[c][i] = Second
      <3> SUFFICES ASSUME NEW i \in 0..2 * Budget, Budget <= i
                   PROVE  frameAge[c][i] = Second
        OBVIOUS
      <3>1. frameAge[c][i] \in 0..Second /\ Spent(count[c]) <= i
        BY <1>1, <1>2, <2>1 DEF FrameAges, Spent
      <3>2. frameAge[c][i] + 0 >= Second
        BY <1>2, <3>1 DEF LifeInv, BudgetBounds
      <3> QED
        BY <1>1, <3>1, <3>2
    <2>3. count'[c] = 0 /\ resetIn'[c] = Second /\ frameAge'[c] = frameAge[c]
      BY <1>3 DEF LifeInv, LifeTypeOK
    <2>4. \A i \in 0..2 * Budget : frameAge[c][i] + Second >= Second
      BY <1>1, <1>2 DEF FrameAges
    <2> QED
      BY <1>1, <2>1, <2>2, <2>3, <2>4 DEF BudgetBounds
  <1>6. ASSUME NEW b \in Sockets, b # c
        PROVE  BudgetBounds(b)'
    BY <1>3, <1>6, BoundsKept DEF LifeInv, LifeTypeOK, FrameCounters
  <1> QED
    BY <1>3, <1>4, <1>5, <1>6 DEF LifeInv, DbInv, server

LEMMA UpgradeStep ==
    ASSUME LifeInv, NEW c \in Sockets, Upgrade(c)
    PROVE  LifeInv'
  <1>1. Budget \in Nat \ {0} /\ Second \in Nat \ {0} /\ MaxFlood \in Nat
    BY LifeAssumption
  <1>2. NoneRecent \in FrameAges /\ \A i \in 0..2 * Budget : NoneRecent[i] = Second
    BY <1>1 DEF NoneRecent, FrameAges
  <1>3. /\ tcp' = [tcp EXCEPT ![c] = "open"] /\ count' = [count EXCEPT ![c] = 0]
        /\ resetIn' = [resetIn EXCEPT ![c] = Second] /\ armed' = [armed EXCEPT ![c] = TRUE]
        /\ frameAge' = [frameAge EXCEPT ![c] = NoneRecent]
        /\ UNCHANGED <<server, there, meta, post, misused, vanished>>
    BY DEF Upgrade
  <1>4. LifeTypeOK'
    BY <1>1, <1>2, <1>3 DEF LifeInv, LifeTypeOK, server
  <1>5. BudgetBounds(c)'
    BY <1>1, <1>2, <1>3 DEF LifeInv, LifeTypeOK, BudgetBounds
  <1>6. ASSUME NEW b \in Sockets, b # c
        PROVE  BudgetBounds(b)'
    BY <1>3, <1>6, BoundsKept DEF LifeInv, LifeTypeOK, FrameCounters
  <1> QED
    BY <1>3, <1>4, <1>5, <1>6 DEF LifeInv, DbInv, server

LEMMA TickStep ==
    ASSUME LifeInv, LifeTick
    PROVE  LifeInv'
  <1>1. Budget \in Nat \ {0} /\ Second \in Nat \ {0} /\ Grace \in Nat
    BY LifeAssumption
  <1>2. /\ grace' = IF phase = "draining" THEN Lower(grace) ELSE grace
        /\ resetIn' = [c \in Sockets |-> IF armed[c] THEN Lower(resetIn[c]) ELSE resetIn[c]]
        /\ frameAge' = [c \in Sockets |-> [i \in 0..2 * Budget |->
                      IF frameAge[c][i] < Second THEN frameAge[c][i] + 1 ELSE Second]]
        /\ UNCHANGED <<phase, dbOpen, forced, tcp, there, meta, count, armed, post, misused,
                       vanished>>
    BY DEF LifeTick
  <1>3. ASSUME NEW c \in Sockets
        PROVE  /\ resetIn[c] \in 0..Second
               /\ \A i \in 0..2 * Budget : frameAge[c][i] \in 0..Second
    BY DEF LifeInv, LifeTypeOK, FrameAges
  <1>4. grace' \in 0..Grace
    BY <1>1, <1>2 DEF LifeInv, LifeTypeOK, Lower
  <1>5. resetIn' \in [Sockets -> 0..Second]
    BY <1>1, <1>2, <1>3 DEF Lower
  <1>6. frameAge' \in [Sockets -> FrameAges]
    <2>1. ASSUME NEW c \in Sockets, NEW i \in 0..2 * Budget
          PROVE  (IF frameAge[c][i] < Second THEN frameAge[c][i] + 1 ELSE Second) \in 0..Second
      BY <1>1, <1>3
    <2> QED
      BY <1>2, <2>1 DEF FrameAges
  <1>7. LifeTypeOK'
    BY <1>2, <1>4, <1>5, <1>6 DEF LifeInv, LifeTypeOK
  <1>8. ASSUME NEW c \in Sockets
        PROVE  BudgetBounds(c)'
    <2>1. ASSUME NEW i \in 0..2 * Budget
          PROVE  /\ frameAge'[c][i] + resetIn'[c] >= frameAge[c][i] + resetIn[c] \/ frameAge'[c][i] = Second
                 /\ frameAge[c][i] = Second => frameAge'[c][i] = Second
                 /\ frameAge'[c][i] \in 0..Second /\ resetIn'[c] \in 0..Second
      BY <1>1, <1>2, <1>3 DEF Lower
    <2>2. count'[c] = count[c] /\ BudgetBounds(c)
      BY <1>2 DEF LifeInv
    <2> QED
      BY <1>1, <1>3, <2>1, <2>2 DEF BudgetBounds
  <1> QED
    BY <1>2, <1>7, <1>8 DEF LifeInv, DbInv

-----------------------------------------------------------------------------
(***************************************************************************)
(* The steps that leave the counters alone.                                 *)
(***************************************************************************)
LEMMA FrameCountersKept ==
    ASSUME LifeInv, UNCHANGED <<count, resetIn, frameAge>>, LifeTypeOK', DbInv'
    PROVE  LifeInv'
  BY BoundsKept DEF LifeInv, FrameCounters

LEMMA SocketStep ==
    ASSUME LifeInv, NEW c \in Sockets, Dial(c) \/ Close(c) \/ Vanish(c)
    PROVE  LifeInv'
  <1>1. CASE Dial(c)
    BY <1>1, FrameCountersKept DEF Dial, LifeInv, LifeTypeOK, DbInv, server
  <1>2. CASE Close(c)
    BY <1>2, FrameCountersKept DEF Close, Gone, LifeInv, LifeTypeOK, DbInv, server
  <1>3. CASE Vanish(c)
    BY <1>3, FrameCountersKept DEF Vanish, LifeInv, LifeTypeOK, DbInv, server
  <1> QED
    BY <1>1, <1>2, <1>3

LEMMA PostStep ==
    ASSUME LifeInv, NEW w \in Posts, Ask(w) \/ Serve(w) \/ DropIdle(w)
    PROVE  LifeInv'
  <1>1. CASE Ask(w)
    BY <1>1, FrameCountersKept DEF Ask, LifeInv, LifeTypeOK, DbInv, server, socket
  <1>2. CASE Serve(w)
    BY <1>2, FrameCountersKept DEF Serve, LifeInv, LifeTypeOK, DbInv, server, socket
  <1>3. CASE DropIdle(w)
    BY <1>3, FrameCountersKept DEF DropIdle, LifeInv, LifeTypeOK, DbInv, server, socket
  <1> QED
    BY <1>1, <1>2, <1>3

LEMMA ProcessStep ==
    ASSUME LifeInv, Signal \/ Drained \/ ForceExit
    PROVE  LifeInv'
  <1>1. CASE Signal
    <2>1. tcp' \in [Sockets -> {"none", "dialling", "open", "told"}]
      BY <1>1 DEF Signal, LifeInv, LifeTypeOK
    <2>2. \A c \in Sockets : tcp'[c] \in {"open", "told"} <=> tcp[c] \in {"open", "told"}
      BY <1>1 DEF Signal, LifeInv, LifeTypeOK
    <2>3. post' \in [Posts -> {"none", "asking", "idle"}]
      BY <1>1 DEF Signal, LifeInv, LifeTypeOK
    <2>4. LifeTypeOK'
      BY <1>1, <2>1, <2>2, <2>3 DEF Signal, LifeInv, LifeTypeOK
    <2> QED
      BY <1>1, <2>4, FrameCountersKept DEF Signal, LifeInv, DbInv
  <1>2. ASSUME NEW byForce \in BOOLEAN, Exit(byForce)
        PROVE  LifeInv'
    <2>1. LifeTypeOK'
      BY <1>2 DEF Exit, LifeInv, LifeTypeOK
    <2> QED
      BY <1>2, <2>1, FrameCountersKept DEF Exit, LifeInv, DbInv
  <1> QED
    BY <1>1, <1>2 DEF Drained, ForceExit

LEMMA LifeStep == LifeInv /\ [LifeNext]_lifeVars => LifeInv'
  <1> SUFFICES ASSUME LifeInv, [LifeNext]_lifeVars
               PROVE  LifeInv'
    OBVIOUS
  <1>1. CASE UNCHANGED lifeVars
    BY <1>1, FrameCountersKept DEF lifeVars, server, socket, LifeInv, LifeTypeOK, DbInv
  <1> QED
    BY <1>1, MessageStep, ResetCountStep, UpgradeStep, TickStep, SocketStep, PostStep,
       ProcessStep
       DEF LifeNext

-----------------------------------------------------------------------------
LEMMA LifeInvariant == LifeSpec => []LifeInv
  BY LifeInitial, LifeStep, PTL DEF LifeSpec

\* No connection has more than two budgets of frames parsed within a second, for every
\* budget and interval, however late the interval runs; and an interval never outlives
\* its connection.
THEOREM TwoBudgetsAlways == LifeSpec => []TwoBudgetsASecond
  <1>1. LifeInv => TwoBudgetsASecond
    <2> SUFFICES ASSUME LifeInv, NEW c \in Sockets
                 PROVE  frameAge[c][2 * Budget] = Second
      BY DEF LifeInv, TwoBudgetsASecond
    <2>1. Budget \in Nat \ {0} /\ MaxFlood \in Nat /\ count[c] \in 0..MaxFlood
      BY LifeAssumption DEF LifeInv, LifeTypeOK
    <2>2. 2 * Budget \in 0..2 * Budget /\ Spent(count[c]) + Budget <= 2 * Budget
      BY <2>1 DEF Spent
    <2> QED
      BY <2>2 DEF LifeInv, BudgetBounds
  <1> QED
    BY <1>1, LifeInvariant, PTL

\* No handler meets a closed database, whenever the signal comes and however many requests
\* and frames it finds under way.
THEOREM DbAlwaysUsable == LifeSpec => []DbUsable
  <1>1. LifeInv => DbUsable
    BY DEF LifeInv, DbInv, DbUsable
  <1> QED
    BY <1>1, LifeInvariant, PTL
=============================================================================
