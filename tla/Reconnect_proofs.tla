--------------------------- MODULE Reconnect_proofs ---------------------------
(***************************************************************************)
(* Safety of the reconnecting client, for every number of clients, every    *)
(* backoff, every connection window and every number of faults.             *)
(***************************************************************************)
EXTENDS Reconnect, SequenceTheorems, FiniteSetTheorems, TLAPS

-----------------------------------------------------------------------------
(***************************************************************************)
(* The inductive invariant.  All instances of a hook but its last have been *)
(* disconnected and only wait for their sockets to end; the screens show    *)
(* the state of the last.                                                   *)
(***************************************************************************)
\* disconnect() was called, and onclose is to come.
LeftBehind(inst) ==
    /\ inst.stopped /\ inst.state = "disconnected"
    /\ inst.timer = NoTimer /\ inst.ws \in {"withdrawn", "closing"}

Succession(s) ==
    /\ s # <<>>
    /\ ~s[Len(s)].stopped
    /\ \A i \in 1..Len(s) - 1 : LeftBehind(s[i])

ClientInv ==
    /\ insts \in [Clients -> Seq(Instances)]
    /\ shown \in [Clients -> States]
    /\ \A c \in Clients : Succession(insts[c]) /\ shown[c] = Current(c).state

CounterInv ==
    /\ serving \in BOOLEAN
    /\ count \in 0..Limit + 1 /\ left \in 0..Window
    /\ faults \in 0..MaxFaults /\ moves \in 0..MaxMoves

IInv == ClientInv /\ CounterInv

-----------------------------------------------------------------------------
(***************************************************************************)
(* Sequences of instances.                                                  *)
(***************************************************************************)
\* A sequence without its element i.
LEMMA WithoutElement ==
    ASSUME NEW S, NEW s \in Seq(S), NEW i \in 1..Len(s)
    PROVE  LET r == SubSeq(s, 1, i - 1) \o SubSeq(s, i + 1, Len(s))
           IN  /\ r \in Seq(S) /\ Len(r) = Len(s) - 1
               /\ \A j \in 1..Len(s) - 1 : r[j] = IF j <= i - 1 THEN s[j] ELSE s[j + 1]
<1> DEFINE a == SubSeq(s, 1, i - 1)
           b == SubSeq(s, i + 1, Len(s))
           r == a \o b
<1>1. Len(s) \in Nat /\ i \in Nat /\ 1 <= i /\ i <= Len(s)
  BY LenProperties
<1>2. \A j \in 1..Len(s) : s[j] \in S
  BY ElementOfSeq
<1>3. a \in Seq(S) /\ Len(a) = i - 1 /\ \A j \in 1..i - 1 : a[j] = s[j]
  <2>1. \A j \in 1..i - 1 : s[j] \in S
    BY <1>1, <1>2
  <2> QED
    BY <1>1, <2>1, SubSeqProperties
<1>4. b \in Seq(S) /\ Len(b) = Len(s) - i /\ \A j \in 1..Len(s) - i : b[j] = s[j + i]
  <2>1. \A j \in i + 1..Len(s) : s[j] \in S
    BY <1>1, <1>2
  <2>2. /\ b \in Seq(S)
        /\ Len(b) = IF i + 1 <= Len(s) THEN Len(s) - (i + 1) + 1 ELSE 0
        /\ \A j \in 1..Len(s) - (i + 1) + 1 : b[j] = s[i + 1 + j - 1]
    BY <1>1, <2>1, SubSeqProperties
  <2> HIDE DEF b
  <2> QED
    BY <1>1, <2>2
<1> HIDE DEF a, b
<1>5. /\ r \in Seq(S) /\ Len(r) = Len(a) + Len(b)
      /\ \A j \in 1..Len(a) + Len(b) : r[j] = IF j <= Len(a) THEN a[j] ELSE b[j - Len(a)]
  BY <1>3, <1>4, ConcatProperties
<1> HIDE DEF r
<1>6. ASSUME NEW j \in 1..Len(s) - 1
      PROVE  r[j] = IF j <= i - 1 THEN s[j] ELSE s[j + 1]
  <2>1. j \in 1..Len(a) + Len(b)
    BY <1>1, <1>3, <1>4
  <2>2. CASE j <= i - 1
    BY <1>1, <1>3, <1>5, <2>1, <2>2
  <2>3. CASE ~(j <= i - 1)
    <3>1. j - (i - 1) \in 1..Len(s) - i /\ j - (i - 1) + i = j + 1
      BY <1>1, <2>3
    <3>2. r[j] = b[j - (i - 1)]
      BY <1>1, <1>3, <1>5, <2>1, <2>3
    <3>3. b[j - (i - 1)] = s[j + 1]
      BY <1>4, <3>1
    <3> QED
      BY <1>1, <2>3, <3>2, <3>3
  <2> QED
    BY <2>2, <2>3
<1>7. r \in Seq(S) /\ Len(r) = Len(s) - 1
  BY <1>1, <1>3, <1>4, <1>5
<1> QED
  BY <1>6, <1>7 DEF r, a, b

\* What makes a sequence of instances a succession, element by element.
LEMMA SuccessionUpdate ==
    ASSUME NEW s \in Seq(Instances), Succession(s),
           NEW i \in 1..Len(s), NEW inst,
           i < Len(s) => LeftBehind(inst),
           i = Len(s) => ~inst.stopped,
           NEW t \in Seq(Instances), Len(t) = Len(s),
           \A j \in 1..Len(s) : t[j] = IF j = i THEN inst ELSE s[j]
    PROVE  /\ Succession(t)
           /\ t[Len(t)] = IF i = Len(s) THEN inst ELSE s[Len(s)]
<1>1. Len(s) \in Nat /\ Len(s) >= 1
  BY LenProperties
<1>2. t # <<>>
  BY <1>1, EmptySeq
<1>3. t[Len(t)] = IF i = Len(s) THEN inst ELSE s[Len(s)]
  BY <1>1
<1>4. ~t[Len(t)].stopped
  BY <1>3 DEF Succession
<1>5. ASSUME NEW j \in 1..Len(t) - 1
      PROVE  LeftBehind(t[j])
  <2>1. j \in 1..Len(s) /\ j < Len(s) /\ j \in 1..Len(s) - 1
    BY <1>1
  <2>2. CASE j = i
    BY <2>1, <2>2
  <2>3. CASE j # i
    <3>1. t[j] = s[j] /\ LeftBehind(s[j])
      BY <2>1, <2>3 DEF Succession
    <3> QED
      BY <3>1
  <2> QED
    BY <2>2, <2>3
<1> QED
  BY <1>2, <1>3, <1>4, <1>5 DEF Succession

\* onclose of an instance left behind: it goes, the last stays.
LEMMA SuccessionRemove ==
    ASSUME NEW s \in Seq(Instances), Succession(s),
           NEW i \in 1..Len(s), i < Len(s),
           NEW r \in Seq(Instances), Len(r) = Len(s) - 1,
           \A j \in 1..Len(s) - 1 : r[j] = IF j <= i - 1 THEN s[j] ELSE s[j + 1]
    PROVE  Succession(r) /\ r[Len(r)] = s[Len(s)]
<1>1. Len(s) \in Nat /\ Len(s) >= 2 /\ i \in Nat /\ i >= 1
  BY LenProperties
<1>2. r[Len(r)] = s[Len(s)]
  <2>1. Len(r) \in 1..Len(s) - 1 /\ Len(r) + 1 = Len(s) /\ ~(Len(r) <= i - 1)
    BY <1>1
  <2> QED
    BY <2>1
<1>3. r # <<>>
  BY <1>1, EmptySeq
<1>4. ASSUME NEW j \in 1..Len(r) - 1
      PROVE  LeftBehind(r[j])
  <2>1. j \in 1..Len(s) - 1 /\ j + 1 \in 1..Len(s) - 1
    BY <1>1
  <2>2. LeftBehind(s[j]) /\ LeftBehind(s[j + 1])
    BY <2>1 DEF Succession
  <2> QED
    BY <2>1, <2>2
<1>5. ~r[Len(r)].stopped
  BY <1>2 DEF Succession
<1> QED
  BY <1>2, <1>3, <1>4, <1>5 DEF Succession

\* Two sequences and a last element.
LEMMA JoinedElements ==
    ASSUME NEW S, NEW s \in Seq(S), NEW old \in Seq(S), NEW x \in S
    PROVE  LET r == s \o old \o <<x>>
           IN  /\ r \in Seq(S) /\ Len(r) = Len(s) + Len(old) + 1
               /\ r[Len(s) + Len(old) + 1] = x
               /\ \A j \in 1..Len(s) + Len(old) :
                     r[j] = IF j <= Len(s) THEN s[j] ELSE old[j - Len(s)]
<1> DEFINE a == s \o old
           b == <<x>>
           r == a \o b
<1>1. Len(s) \in Nat /\ Len(old) \in Nat
  BY LenProperties
<1>2. /\ a \in Seq(S) /\ Len(a) = Len(s) + Len(old)
      /\ \A j \in 1..Len(s) + Len(old) : a[j] = IF j <= Len(s) THEN s[j] ELSE old[j - Len(s)]
  BY ConcatProperties
<1>3. b \in Seq(S) /\ Len(b) = 1 /\ b[1] = x
  OBVIOUS
<1> HIDE DEF a, b
<1>4. /\ r \in Seq(S) /\ Len(r) = Len(a) + Len(b)
      /\ \A j \in 1..Len(a) + Len(b) : r[j] = IF j <= Len(a) THEN a[j] ELSE b[j - Len(a)]
  <2>1. a \in Seq(S) /\ b \in Seq(S)
    BY <1>2, <1>3
  <2> QED
    BY <2>1, ConcatProperties
<1> HIDE DEF r
<1>5. r \in Seq(S) /\ Len(r) = Len(s) + Len(old) + 1
  BY <1>1, <1>2, <1>3, <1>4
<1>6. r[Len(s) + Len(old) + 1] = x
  <2>1. /\ Len(s) + Len(old) + 1 \in 1..Len(a) + Len(b)
        /\ ~(Len(s) + Len(old) + 1 <= Len(a))
        /\ Len(s) + Len(old) + 1 - Len(a) = 1
    BY <1>1, <1>2, <1>3
  <2> QED
    BY <1>3, <1>4, <2>1
<1>7. ASSUME NEW j \in 1..Len(s) + Len(old)
      PROVE  r[j] = IF j <= Len(s) THEN s[j] ELSE old[j - Len(s)]
  <2>1. j \in 1..Len(a) + Len(b) /\ j <= Len(a)
    BY <1>1, <1>2, <1>3
  <2> QED
    BY <1>2, <1>4, <2>1
<1> QED
  BY <1>5, <1>6, <1>7 DEF r, a, b

AllLeftBehind(s) == \A j \in 1..Len(s) : LeftBehind(s[j])

\* A new client after a change of address: the others were disconnected.
LEMMA SuccessionMove ==
    ASSUME NEW s \in Seq(Instances), AllLeftBehind(s),
           NEW old \in Seq(Instances), AllLeftBehind(old),
           NEW inst, ~inst.stopped,
           NEW r \in Seq(Instances), Len(r) = Len(s) + Len(old) + 1,
           r[Len(s) + Len(old) + 1] = inst,
           \A j \in 1..Len(s) + Len(old) :
              r[j] = IF j <= Len(s) THEN s[j] ELSE old[j - Len(s)]
    PROVE  Succession(r) /\ r[Len(r)] = inst
<1>1. Len(s) \in Nat /\ Len(old) \in Nat
  BY LenProperties
<1>2. r # <<>>
  BY <1>1, EmptySeq
<1>3. ASSUME NEW j \in 1..Len(r) - 1
      PROVE  LeftBehind(r[j])
  <2>0. j \in 1..Len(s) + Len(old)
    BY <1>1
  <2>1. CASE j <= Len(s)
    <3>1. j \in 1..Len(s) /\ r[j] = s[j]
      BY <1>1, <2>0, <2>1
    <3> QED
      BY <3>1 DEF AllLeftBehind
  <2>2. CASE ~(j <= Len(s))
    <3>1. j - Len(s) \in 1..Len(old) /\ r[j] = old[j - Len(s)]
      BY <1>1, <2>0, <2>2
    <3> QED
      BY <3>1 DEF AllLeftBehind
  <2> QED
    BY <2>1, <2>2
<1> QED
  BY <1>2, <1>3 DEF Succession

\* A tick, or a server that stops, changes every instance in its place.
LEMMA SuccessionPointwise ==
    ASSUME NEW s \in Seq(Instances), Succession(s),
           NEW t, DOMAIN t = DOMAIN s, t = [i \in DOMAIN t |-> t[i]],
           \A i \in DOMAIN s :
              /\ t[i] \in Instances
              /\ LeftBehind(s[i]) => LeftBehind(t[i])
              /\ t[i].stopped = s[i].stopped /\ t[i].state = s[i].state
    PROVE  /\ t \in Seq(Instances) /\ Succession(t)
           /\ t[Len(t)].state = s[Len(s)].state
<1>1. Len(s) \in Nat /\ DOMAIN s = 1..Len(s) /\ Len(s) >= 1
  <2>1. Len(s) \in Nat /\ DOMAIN s = 1..Len(s)
    BY LenProperties
  <2>2. Len(s) # 0
    BY EmptySeq DEF Succession
  <2> QED
    BY <2>1, <2>2
<1>2. t \in [1..Len(s) -> Instances]
  BY <1>1
<1>3. t \in Seq(Instances)
  BY <1>1, <1>2
<1>4. Len(t) = Len(s)
  BY <1>1, <1>2, <1>3, LenProperties
<1>5. t # <<>>
  BY <1>1, <1>3, <1>4, EmptySeq
<1>6. \A i \in 1..Len(s) - 1 : LeftBehind(t[i])
  BY <1>1 DEF Succession
<1>7. t[Len(t)].stopped = s[Len(s)].stopped /\ t[Len(t)].state = s[Len(s)].state
  BY <1>1, <1>4
<1> QED
  BY <1>3, <1>4, <1>5, <1>6, <1>7 DEF Succession

\* A sequence of one element.
LEMMA OneElement ==
    ASSUME NEW S, NEW x \in S
    PROVE  <<x>> \in Seq(S) /\ Len(<<x>>) = 1 /\ <<x>>[1] = x /\ <<x>> # <<>>
OBVIOUS

\* A sequence with another element i.
LEMMA ReplacedElement ==
    ASSUME NEW S, NEW s \in Seq(S), NEW i \in 1..Len(s), NEW x \in S
    PROVE  LET t == [s EXCEPT ![i] = x]
           IN  /\ t \in Seq(S) /\ Len(t) = Len(s)
               /\ \A j \in 1..Len(s) : t[j] = IF j = i THEN x ELSE s[j]
BY LenProperties, ElementOfSeq

-----------------------------------------------------------------------------
(***************************************************************************)
(* One client.                                                              *)
(***************************************************************************)
\* What the invariant says of one instance of a hook.
LEMMA OneInstance ==
    ASSUME ClientInv, NEW c \in Clients, NEW i \in DOMAIN insts[c]
    PROVE  /\ insts[c] \in Seq(Instances) /\ Succession(insts[c])
           /\ Len(insts[c]) \in Nat \ {0} /\ i \in 1..Len(insts[c])
           /\ DOMAIN insts[c] = 1..Len(insts[c])
           /\ insts[c][i] \in Instances
           /\ i < Len(insts[c]) => LeftBehind(insts[c][i])
           /\ i = Len(insts[c]) => ~insts[c][i].stopped /\ shown[c] = insts[c][i].state
<1>1. insts[c] \in Seq(Instances) /\ Succession(insts[c])
  BY DEF ClientInv
<1>2. Len(insts[c]) \in Nat /\ DOMAIN insts[c] = 1..Len(insts[c])
  BY <1>1, LenProperties
<1>3. insts[c][i] \in Instances
  BY <1>1, <1>2, ElementOfSeq
<1>4. i < Len(insts[c]) => LeftBehind(insts[c][i])
  BY <1>1, <1>2 DEF Succession
<1>5. i = Len(insts[c]) => ~insts[c][i].stopped /\ shown[c] = insts[c][i].state
  BY <1>1 DEF Succession, ClientInv, Current
<1> QED
  BY <1>1, <1>2, <1>3, <1>4, <1>5

\* A client whose instances change to another succession, the others staying.
LEMMA OneClient ==
    ASSUME ClientInv, NEW c \in Clients,
           NEW t \in Seq(Instances), Succession(t), t[Len(t)].state \in States,
           insts' = [insts EXCEPT ![c] = t],
           shown' = [shown EXCEPT ![c] = t[Len(t)].state]
    PROVE  ClientInv'
<1>1. insts' \in [Clients -> Seq(Instances)] /\ shown' \in [Clients -> States]
  BY DEF ClientInv
<1>2. ASSUME NEW d \in Clients
      PROVE  Succession(insts'[d]) /\ shown'[d] = insts'[d][Len(insts'[d])].state
  <2>1. CASE d = c
    <3>1. insts'[d] = t /\ shown'[d] = t[Len(t)].state
      BY <2>1 DEF ClientInv
    <3> QED
      BY <3>1
  <2>2. CASE d # c
    <3>1. insts'[d] = insts[d] /\ shown'[d] = shown[d]
      BY <2>2 DEF ClientInv
    <3> QED
      BY <3>1 DEF ClientInv, Current
  <2> QED
    BY <2>1, <2>2
<1> QED
  BY <1>1, <1>2 DEF ClientInv, Current

\* The last instance of a client changes, and the screens hear of its state; or one left
\* behind changes, and they hear nothing.
LEMMA OneReplaced ==
    ASSUME ClientInv, NEW c \in Clients, NEW i \in DOMAIN insts[c],
           NEW inst \in Instances,
           i < Len(insts[c]) => LeftBehind(inst) /\ shown' = shown,
           i = Len(insts[c]) => ~inst.stopped /\ shown' = [shown EXCEPT ![c] = inst.state],
           insts' = [insts EXCEPT ![c] = [insts[c] EXCEPT ![i] = inst]]
    PROVE  ClientInv'
<1> DEFINE s == insts[c]
           t == [s EXCEPT ![i] = inst]
<1>1. /\ s \in Seq(Instances) /\ Succession(s)
      /\ Len(s) \in Nat \ {0} /\ i \in 1..Len(s)
      /\ Len(s) \in DOMAIN s
  BY OneInstance
<1>2. /\ t \in Seq(Instances) /\ Len(t) = Len(s)
      /\ \A j \in 1..Len(s) : t[j] = IF j = i THEN inst ELSE s[j]
  BY <1>1, ReplacedElement
<1>3. insts' = [insts EXCEPT ![c] = t]
  OBVIOUS
<1>4. /\ shown[c] = s[Len(s)].state
      /\ shown \in [Clients -> States]
  BY DEF ClientInv, Current
<1> HIDE DEF s, t
<1>5. i < Len(s) => LeftBehind(inst)
  BY DEF s
<1>6. i = Len(s) => ~inst.stopped
  BY DEF s
<1>7. Succession(t) /\ t[Len(t)] = IF i = Len(s) THEN inst ELSE s[Len(s)]
  BY <1>1, <1>2, <1>5, <1>6, SuccessionUpdate
<1>8. shown' = [shown EXCEPT ![c] = t[Len(t)].state]
  <2>1. CASE i = Len(s)
    BY <1>7, <2>1 DEF s
  <2>2. CASE i # Len(s)
    <3>1. shown' = shown
      BY <1>1, <2>2 DEF s
    <3>2. t[Len(t)].state = shown[c]
      BY <1>4, <1>7, <2>2
    <3> QED
      BY <1>4, <3>1, <3>2
  <2> QED
    BY <2>1, <2>2
<1>9. t[Len(t)].state \in States
  <2>1. CASE i = Len(s)
    BY <1>7, <2>1 DEF Instances
  <2>2. CASE i # Len(s)
    BY <1>4, <1>7, <2>2
  <2> QED
    BY <2>1, <2>2
<1> QED
  BY <1>2, <1>3, <1>7, <1>8, <1>9, OneClient

-----------------------------------------------------------------------------
(***************************************************************************)
(* The steps.                                                               *)
(***************************************************************************)
\* nextBackoffDelay has a delay for every attempt it is asked for.
LEMMA DelayFacts ==
    /\ Len(Delay) \in Nat \ {0} /\ DOMAIN Delay = 1..Len(Delay)
    /\ \A n \in DOMAIN Delay : Delay[n] \in Nat
<1>1. Len(Delay) \in Nat /\ DOMAIN Delay = 1..Len(Delay)
  BY ReconnectAssumption, LenProperties
<1>2. Len(Delay) # 0
  BY ReconnectAssumption, EmptySeq
<1>3. \A n \in 1..Len(Delay) : Delay[n] \in Nat
  BY ReconnectAssumption, ElementOfSeq
<1> QED
  BY <1>1, <1>2, <1>3

\* createWsClient gives an instance that is connecting and not stopped.
LEMMA FreshType ==
    ASSUME NEW reachable \in BOOLEAN
    PROVE  /\ Fresh(reachable) \in Instances /\ ~Fresh(reachable).stopped
           /\ Fresh(reachable).state = "connecting"
BY DelayFacts DEF Fresh, Instances, States, Sockets

\* Disconnecting a client's last instance leaves one that only waits for onclose, or
\* nothing.
LEMMA DisconnectedType ==
    ASSUME NEW inst \in Instances
    PROVE  /\ Disconnected(inst) \in Instances
           /\ Disconnected(inst).ws # "none" => LeftBehind(Disconnected(inst))
           /\ Disconnected(inst).timer = NoTimer
BY DEF Disconnected, LeftSocket, LeftBehind, Instances, States, Sockets

\* scheduleReconnect arms a timer with a delay of the backoff, and changes no state.
LEMMA ScheduledType ==
    ASSUME NEW inst \in Instances
    PROVE  /\ Scheduled(inst) \in Instances
           /\ Scheduled(inst).stopped = inst.stopped
           /\ Scheduled(inst).state = inst.state
<1>1. inst.attempt \in 1..Len(Delay) /\ Delay[inst.attempt] \in Nat
  BY DelayFacts DEF Instances
<1>2. (IF inst.attempt < Len(Delay) THEN inst.attempt + 1 ELSE inst.attempt) \in DOMAIN Delay
  BY <1>1, DelayFacts
<1> QED
  BY <1>1, <1>2 DEF Scheduled, Instances

\* A change of state reaches the screens, if it is one.
LEMMA EmittedState ==
    ASSUME ClientInv, NEW c \in Clients, NEW new,
           Emitted(shown[c], new, c)
    PROVE  shown' = [shown EXCEPT ![c] = new]
BY DEF ClientInv, Emitted

\* Only the hook's present client has a timer to run out.
LEMMA ConnectStep ==
    ASSUME ClientInv, NEW c \in Clients, NEW i \in DOMAIN insts[c], Connect(c, i)
    PROVE  ClientInv'
<1> DEFINE inst == [insts[c][i] EXCEPT !.timer = NoTimer, !.ws = "dialling",
                                       !.state = "connecting"]
<1>1. insts[c][i] \in Instances /\ i = Len(insts[c])
      /\ ~insts[c][i].stopped /\ shown[c] = insts[c][i].state
  BY OneInstance DEF Connect, LeftBehind
<1>2. inst \in Instances /\ ~inst.stopped /\ inst.state = "connecting"
  BY <1>1 DEF Instances, States, Sockets
<1>3. /\ insts' = [insts EXCEPT ![c] = [insts[c] EXCEPT ![i] = inst]]
      /\ Emitted(shown[c], inst.state, c)
  BY <1>1 DEF Connect, Become, ClientInv
<1> HIDE DEF inst
<1>4. shown' = [shown EXCEPT ![c] = inst.state]
  BY <1>3, EmittedState
<1>5. ~(i < Len(insts[c]))
  BY <1>1, OneInstance
<1> QED
  BY <1>1, <1>2, <1>3, <1>4, <1>5, OneReplaced

\* Only the present client's socket can open: the others were closed.
LEMMA OpenStep ==
    ASSUME ClientInv, NEW c \in Clients, NEW i \in DOMAIN insts[c], Open(c, i)
    PROVE  ClientInv'
<1> DEFINE inst == [insts[c][i] EXCEPT !.ws = "open", !.attempt = 1, !.state = "connected"]
<1>1. insts[c][i] \in Instances /\ i = Len(insts[c])
      /\ ~insts[c][i].stopped /\ shown[c] = insts[c][i].state
  BY OneInstance DEF Open, LeftBehind
<1>2. inst \in Instances /\ ~inst.stopped /\ inst.state = "connected"
  <2>1. 1 \in DOMAIN Delay
    BY DelayFacts
  <2> QED
    BY <1>1, <2>1 DEF Instances, States, Sockets
<1>3. /\ insts' = [insts EXCEPT ![c] = [insts[c] EXCEPT ![i] = inst]]
      /\ Emitted(shown[c], inst.state, c)
  BY <1>1 DEF Open, Become, ClientInv
<1> HIDE DEF inst
<1>4. shown' = [shown EXCEPT ![c] = inst.state]
  BY <1>3, EmittedState
<1>5. ~(i < Len(insts[c]))
  BY <1>1, OneInstance
<1> QED
  BY <1>1, <1>2, <1>3, <1>4, <1>5, OneReplaced

\* The socket of one instance changes, and nobody is told.
LEMMA SocketStep ==
    ASSUME ClientInv, NEW c \in Clients, NEW i \in DOMAIN insts[c],
           NEW ws \in Sockets, NEW inst,
           inst = [insts[c][i] EXCEPT !.ws = ws],
           i < Len(insts[c]) => ws \in {"withdrawn", "closing"},
           insts' = [insts EXCEPT ![c] = [insts[c] EXCEPT ![i] = inst]],
           shown' = shown
    PROVE  ClientInv'
<1>1. /\ insts[c][i] \in Instances
      /\ i < Len(insts[c]) => LeftBehind(insts[c][i])
      /\ i = Len(insts[c]) => ~insts[c][i].stopped /\ shown[c] = insts[c][i].state
  BY OneInstance
<1>2. inst \in Instances /\ inst.stopped = insts[c][i].stopped
      /\ inst.state = insts[c][i].state
  BY <1>1 DEF Instances
<1>3. i < Len(insts[c]) => LeftBehind(inst)
  BY <1>1 DEF LeftBehind, Instances
<1>4. i = Len(insts[c]) => ~inst.stopped /\ shown' = [shown EXCEPT ![c] = inst.state]
  BY <1>1, <1>2 DEF ClientInv
<1>5. i < Len(insts[c]) => LeftBehind(inst) /\ shown' = shown
  BY <1>3
<1> QED
  BY <1>2, <1>4, <1>5, OneReplaced

\* A request of a client left behind is closed on arrival.
LEMMA UpgradeStep ==
    ASSUME ClientInv, NEW c \in Clients, NEW i \in DOMAIN insts[c], Upgrade(c, i)
    PROVE  ClientInv'
<1> DEFINE ws == CASE insts[c][i].ws = "withdrawn" -> "closing"
                   [] insts[c][i].ws = "dialling" /\ count' <= Limit -> "admitted"
                   [] OTHER -> "refused"
           inst == [insts[c][i] EXCEPT !.ws = ws]
<1>1. insts' = [insts EXCEPT ![c] = [insts[c] EXCEPT ![i] = inst]] /\ shown' = shown
  BY OneInstance DEF Upgrade, ClientInv, Instances
<1>2. ws \in Sockets
  BY DEF Sockets
<1>3. i < Len(insts[c]) => ws \in {"withdrawn", "closing"}
  BY OneInstance DEF Upgrade, LeftBehind
<1> HIDE DEF ws
<1>4. inst = [insts[c][i] EXCEPT !.ws = ws]
  OBVIOUS
<1> HIDE DEF inst
<1> QED
  BY <1>1, <1>2, <1>3, <1>4, SocketStep

\* A live socket is the present client's.
LEMMA LoseSocketStep ==
    ASSUME ClientInv, NEW c \in Clients, NEW i \in DOMAIN insts[c], LoseSocket(c, i)
    PROVE  ClientInv'
<1> DEFINE inst == [insts[c][i] EXCEPT !.ws = "dead"]
<1>1. insts' = [insts EXCEPT ![c] = [insts[c] EXCEPT ![i] = inst]] /\ shown' = shown
  BY DEF LoseSocket, ClientInv
<1>2. i < Len(insts[c]) => "dead" \in {"withdrawn", "closing"}
  BY OneInstance DEF LoseSocket, LeftBehind
<1>3. "dead" \in Sockets
  BY DEF Sockets
<1>4. inst = [insts[c][i] EXCEPT !.ws = "dead"]
  OBVIOUS
<1> HIDE DEF inst
<1> QED
  BY <1>1, <1>2, <1>3, <1>4, SocketStep

\* onclose: one left behind goes and nobody hears of it; the present one retries.
LEMMA OnCloseStep ==
    ASSUME ClientInv, NEW c \in Clients, NEW i \in DOMAIN insts[c], OnClose(c, i)
    PROVE  ClientInv'
<1> DEFINE s == insts[c]
           closed == [s[i] EXCEPT !.ws = "none", !.state = "disconnected"]
           r == SubSeq(s, 1, i - 1) \o SubSeq(s, i + 1, Len(s))
<1>1. /\ s \in Seq(Instances) /\ Succession(s) /\ s[i] \in Instances
      /\ Len(s) \in Nat \ {0} /\ i \in 1..Len(s)
      /\ i < Len(s) => LeftBehind(s[i])
      /\ i = Len(s) => ~s[i].stopped /\ shown[c] = s[i].state
  BY OneInstance
<1>2. CASE s[i].stopped
  <2>1. i < Len(s) /\ s[i].state = "disconnected"
    BY <1>1, <1>2 DEF LeftBehind
  <2>2. /\ r \in Seq(Instances) /\ Len(r) = Len(s) - 1
        /\ \A j \in 1..Len(s) - 1 : r[j] = IF j <= i - 1 THEN s[j] ELSE s[j + 1]
    BY <1>1, WithoutElement
  <2>3. insts' = [insts EXCEPT ![c] = r] /\ shown' = shown
    BY <1>2, <2>1 DEF OnClose, Emitted
  <2>4. shown[c] = s[Len(s)].state /\ shown \in [Clients -> States]
    BY DEF ClientInv, Current
  <2> HIDE DEF r, s
  <2>5. Succession(r) /\ r[Len(r)] = s[Len(s)]
    BY <1>1, <2>1, <2>2, SuccessionRemove
  <2>6. r[Len(r)].state \in States /\ shown' = [shown EXCEPT ![c] = r[Len(r)].state]
    BY <2>3, <2>4, <2>5
  <2> QED
    BY <2>2, <2>3, <2>5, <2>6, OneClient
<1>3. CASE ~s[i].stopped
  <2> DEFINE inst == Scheduled(closed)
  <2>1. i = Len(s)
    BY <1>1, <1>3 DEF LeftBehind
  <2>2. closed \in Instances /\ ~closed.stopped /\ closed.state = "disconnected"
    BY <1>1, <1>3 DEF Instances, States, Sockets
  <2>3. inst \in Instances /\ ~inst.stopped /\ inst.state = "disconnected"
    BY <2>2, ScheduledType
  <2>4. /\ insts' = [insts EXCEPT ![c] = [insts[c] EXCEPT ![i] = inst]]
        /\ Emitted(shown[c], inst.state, c)
    BY <1>1, <1>3, <2>1, <2>3 DEF OnClose
  <2> HIDE DEF inst
  <2>5. shown' = [shown EXCEPT ![c] = inst.state]
    BY <2>4, EmittedState
  <2>6. i = Len(insts[c]) /\ ~(i < Len(insts[c]))
    BY <1>1, <2>1
  <2> QED
    BY <2>3, <2>4, <2>5, <2>6, OneReplaced
<1> QED
  BY <1>2, <1>3

\* The effect on [ready, url]: the present client joins those left behind.
LEMMA MoveStep ==
    ASSUME ClientInv, NEW c \in Clients, Move(c)
    PROVE  ClientInv'
<1> DEFINE s == insts[c]
           before == SubSeq(s, 1, Len(s) - 1)
           last == Disconnected(Current(c))
           old == IF last.ws = "none" /\ last.timer = NoTimer THEN <<>> ELSE <<last>>
<1>1. s \in Seq(Instances) /\ Succession(s)
  BY DEF ClientInv
<1>2. Len(s) \in Nat \ {0}
  BY <1>1, LenProperties, EmptySeq DEF Succession
<1>3. s[Len(s)] \in Instances
  BY <1>1, <1>2, ElementOfSeq
<1>4. before \in Seq(Instances) /\ AllLeftBehind(before)
  <2>1. \A j \in 1..Len(s) - 1 : s[j] \in Instances
    BY <1>1, <1>2, ElementOfSeq
  <2>2. /\ before \in Seq(Instances) /\ Len(before) = Len(s) - 1
        /\ \A j \in 1..Len(s) - 1 : before[j] = s[j]
    BY <1>2, <2>1, SubSeqProperties
  <2> HIDE DEF before
  <2> QED
    BY <1>1, <2>2 DEF Succession, AllLeftBehind
<1>5. old \in Seq(Instances) /\ AllLeftBehind(old)
  <2>1. /\ last \in Instances /\ last.timer = NoTimer
        /\ last.ws # "none" => LeftBehind(last)
    BY <1>3, DisconnectedType DEF Current
  <2> HIDE DEF last
  <2>2. CASE last.ws = "none"
    BY <2>1, <2>2 DEF AllLeftBehind
  <2>3. CASE last.ws # "none"
    <3>1. old = <<last>>
      BY <2>3
    <3>2. old \in Seq(Instances) /\ Len(old) = 1 /\ old[1] = last
      BY <2>1, <3>1
    <3> HIDE DEF old
    <3> QED
      BY <2>1, <2>3, <3>2 DEF AllLeftBehind
  <2> QED
    BY <2>2, <2>3
<1>6. PICK reachable \in BOOLEAN :
         insts' = [insts EXCEPT ![c] = before \o old \o <<Fresh(reachable)>>]
  BY DEF Move
<1>7. shown' = [shown EXCEPT ![c] = "connecting"]
  BY DEF Move
<1> DEFINE new == Fresh(reachable)
           r == before \o old \o <<new>>
<1>8. new \in Instances /\ ~new.stopped /\ new.state = "connecting"
  BY FreshType
<1> HIDE DEF before, old, new
<1>9. /\ r \in Seq(Instances) /\ Len(r) = Len(before) + Len(old) + 1
      /\ r[Len(before) + Len(old) + 1] = new
      /\ \A j \in 1..Len(before) + Len(old) :
            r[j] = IF j <= Len(before) THEN before[j] ELSE old[j - Len(before)]
  <2>1. before \in Seq(Instances) /\ old \in Seq(Instances) /\ new \in Instances
    BY <1>4, <1>5, <1>8
  <2> QED
    BY <2>1, JoinedElements
<1>10. insts' = [insts EXCEPT ![c] = r]
  BY <1>6 DEF new
<1> HIDE DEF r
<1>11. Succession(r) /\ r[Len(r)] = new
  BY <1>4, <1>5, <1>8, <1>9, SuccessionMove
<1>12. r[Len(r)].state \in States /\ shown' = [shown EXCEPT ![c] = r[Len(r)].state]
  BY <1>7, <1>8, <1>11 DEF States
<1> QED
  BY <1>9, <1>10, <1>11, <1>12, OneClient

\* Every instance changes in its place, and the states stay.
LEMMA AllInPlace ==
    ASSUME ClientInv, shown' = shown,
           insts' = [c \in Clients |-> [i \in DOMAIN insts[c] |-> insts'[c][i]]],
           \A c \in Clients : \A i \in DOMAIN insts[c] :
              /\ insts'[c][i] \in Instances
              /\ LeftBehind(insts[c][i]) => LeftBehind(insts'[c][i])
              /\ insts'[c][i].stopped = insts[c][i].stopped
              /\ insts'[c][i].state = insts[c][i].state
    PROVE  ClientInv'
<1>1. ASSUME NEW c \in Clients
      PROVE  /\ insts'[c] \in Seq(Instances) /\ Succession(insts'[c])
             /\ insts'[c][Len(insts'[c])].state = shown[c]
  <2> DEFINE s == insts[c]
             t == insts'[c]
  <2>1. s \in Seq(Instances) /\ Succession(s) /\ shown[c] = s[Len(s)].state
    BY DEF ClientInv, Current
  <2>2. DOMAIN t = DOMAIN s /\ t = [i \in DOMAIN t |-> t[i]]
    <3>1. t = [i \in DOMAIN s |-> insts'[c][i]]
      OBVIOUS
    <3> QED
      BY <3>1
  <2>3. \A i \in DOMAIN s :
           /\ t[i] \in Instances
           /\ LeftBehind(s[i]) => LeftBehind(t[i])
           /\ t[i].stopped = s[i].stopped /\ t[i].state = s[i].state
    OBVIOUS
  <2> HIDE DEF s, t
  <2>4. t \in Seq(Instances) /\ Succession(t) /\ t[Len(t)].state = s[Len(s)].state
    BY <2>1, <2>2, <2>3, SuccessionPointwise
  <2> QED
    BY <2>1, <2>4 DEF t
<1>2. insts' = [c \in Clients |-> insts'[c]]
  OBVIOUS
<1> QED
  BY <1>1, <1>2 DEF ClientInv, Current

\* A server that stops kills sockets of present clients only.
LEMMA StopStep == ClientInv /\ Stop => ClientInv'
<1> SUFFICES ASSUME ClientInv, Stop PROVE ClientInv'
  OBVIOUS
<1> DEFINE dead(inst) ==
        [inst EXCEPT !.ws = IF @ \in {"admitted", "open"} THEN "dead" ELSE @]
<1>1. insts' = [c \in Clients |-> [i \in DOMAIN insts[c] |-> dead(insts[c][i])]]
      /\ shown' = shown
  BY DEF Stop
<1>2. ASSUME NEW inst \in Instances
      PROVE  /\ dead(inst) \in Instances
             /\ LeftBehind(inst) => LeftBehind(dead(inst))
             /\ dead(inst).stopped = inst.stopped /\ dead(inst).state = inst.state
  BY DEF Instances, Sockets, LeftBehind
<1> HIDE DEF dead
<1>3. \A c \in Clients : \A i \in DOMAIN insts[c] :
         insts[c][i] \in Instances /\ insts'[c][i] = dead(insts[c][i])
  BY <1>1, OneInstance
<1>4. insts' = [c \in Clients |-> [i \in DOMAIN insts[c] |-> insts'[c][i]]]
  BY <1>1
<1> QED
  BY <1>1, <1>2, <1>3, <1>4, AllInPlace

\* A tick arms nothing: a client left behind has no timer.
LEMMA TickStep == ClientInv /\ Tick => ClientInv'
<1> SUFFICES ASSUME ClientInv, Tick PROVE ClientInv'
  OBVIOUS
<1> DEFINE later(inst) == [inst EXCEPT !.timer = Less(@)]
<1>1. insts' = [c \in Clients |-> [i \in DOMAIN insts[c] |-> later(insts[c][i])]]
      /\ shown' = shown
  BY DEF Tick
<1>2. ASSUME NEW inst \in Instances
      PROVE  /\ later(inst) \in Instances
             /\ LeftBehind(inst) => LeftBehind(later(inst))
             /\ later(inst).stopped = inst.stopped /\ later(inst).state = inst.state
  <2>1. Less(inst.timer) \in Nat \cup {NoTimer} /\ Less(NoTimer) = NoTimer
    BY ReconnectAssumption DEF Instances, Less
  <2> QED
    BY <2>1 DEF Instances, LeftBehind
<1> HIDE DEF later
<1>3. \A c \in Clients : \A i \in DOMAIN insts[c] :
         insts[c][i] \in Instances /\ insts'[c][i] = later(insts[c][i])
  BY <1>1, OneInstance
<1>4. insts' = [c \in Clients |-> [i \in DOMAIN insts[c] |-> insts'[c][i]]]
  BY <1>1
<1> QED
  BY <1>1, <1>2, <1>3, <1>4, AllInPlace

\* Every step keeps the invariant of the clients.
LEMMA ClientStepLemma == ClientInv /\ [Next]_vars => ClientInv'
<1> SUFFICES ASSUME ClientInv, [Next]_vars PROVE ClientInv'
  OBVIOUS
<1>1. CASE Stop
  BY <1>1, StopStep
<1>2. CASE Start
  BY <1>2 DEF Start, ClientInv, Current
<1>3. CASE Tick
  BY <1>3, TickStep
<1>4. ASSUME NEW c \in Clients, Move(c) PROVE ClientInv'
  BY <1>4, MoveStep
<1>5. ASSUME NEW c \in Clients, NEW i \in DOMAIN insts[c], Connect(c, i) PROVE ClientInv'
  BY <1>5, ConnectStep
<1>6. ASSUME NEW c \in Clients, NEW i \in DOMAIN insts[c], Open(c, i) PROVE ClientInv'
  BY <1>6, OpenStep
<1>7. ASSUME NEW c \in Clients, NEW i \in DOMAIN insts[c], OnClose(c, i) PROVE ClientInv'
  BY <1>7, OnCloseStep
<1>8. ASSUME NEW c \in Clients, NEW i \in DOMAIN insts[c], Upgrade(c, i) PROVE ClientInv'
  BY <1>8, UpgradeStep
<1>9. ASSUME NEW c \in Clients, NEW i \in DOMAIN insts[c], LoseSocket(c, i) PROVE ClientInv'
  BY <1>9, LoseSocketStep
<1>10. CASE UNCHANGED vars
  BY <1>10 DEF vars, ClientInv, Current
<1> QED
  BY <1>1, <1>2, <1>3, <1>4, <1>5, <1>6, <1>7, <1>8, <1>9, <1>10 DEF Next

\* Every step keeps the server's window and the bounds.
LEMMA CounterStepLemma == CounterInv /\ [Next]_vars => CounterInv'
<1> SUFFICES ASSUME CounterInv, [Next]_vars PROVE CounterInv'
  OBVIOUS
<1> USE ReconnectAssumption DEF CounterInv
<1>1. CASE Stop
  <2>1. /\ serving' = FALSE /\ count' = 0 /\ left' = 0
        /\ faults < MaxFaults /\ faults' = faults + 1 /\ moves' = moves
    BY <1>1 DEF Stop
  <2>2. serving' \in BOOLEAN
    BY <2>1
  <2>3. count' \in 0..Limit + 1 /\ left' \in 0..Window
    BY <2>1
  <2>4. faults' \in 0..MaxFaults /\ moves' \in 0..MaxMoves
    BY <2>1
  <2> QED
    BY <2>2, <2>3, <2>4
<1>2. CASE Start
  BY <1>2 DEF Start
<1>3. CASE Tick
  BY <1>3 DEF Tick, Less
<1>4. ASSUME NEW c \in Clients, Move(c) PROVE CounterInv'
  BY <1>4 DEF Move
<1>5. ASSUME NEW c \in Clients, NEW i \in DOMAIN insts[c],
             Connect(c, i) \/ Open(c, i) \/ OnClose(c, i)
      PROVE  CounterInv'
  BY <1>5 DEF Connect, Open, OnClose
<1>6. ASSUME NEW c \in Clients, NEW i \in DOMAIN insts[c], Upgrade(c, i) PROVE CounterInv'
  BY <1>6 DEF Upgrade, Counted
<1>7. ASSUME NEW c \in Clients, NEW i \in DOMAIN insts[c], LoseSocket(c, i)
      PROVE  CounterInv'
  BY <1>7 DEF LoseSocket
<1>8. CASE UNCHANGED vars
  BY <1>8 DEF vars
<1> QED
  BY <1>1, <1>2, <1>3, <1>4, <1>5, <1>6, <1>7, <1>8 DEF Next

\* It holds at the start.
LEMMA InitLemma == Init => IInv
<1> SUFFICES ASSUME Init PROVE IInv
  OBVIOUS
<1> DEFINE s == <<Fresh(TRUE)>>
<1>1. Fresh(TRUE) \in Instances /\ ~Fresh(TRUE).stopped /\ Fresh(TRUE).state = "connecting"
  BY FreshType
<1>2. s \in Seq(Instances) /\ Len(s) = 1 /\ s[1] = Fresh(TRUE) /\ s # <<>>
  BY <1>1, OneElement
<1> HIDE DEF s
<1>3. Succession(s) /\ s[Len(s)].state = "connecting"
  <2>1. \A i \in 1..Len(s) - 1 : LeftBehind(s[i])
    BY <1>2
  <2> QED
    BY <1>1, <1>2, <2>1 DEF Succession
<1>4. insts = [c \in Clients |-> s] /\ shown = [c \in Clients |-> "connecting"]
  BY DEF Init, s
<1>5. ClientInv
  BY <1>2, <1>3, <1>4 DEF ClientInv, Current, States
<1>6. CounterInv
  BY ReconnectAssumption DEF Init, CounterInv
<1> QED
  BY <1>5, <1>6 DEF IInv

\* The invariant is inductive.
LEMMA Inductive == Spec => []IInv
<1>1. IInv /\ [Next]_vars => IInv'
  BY ClientStepLemma, CounterStepLemma DEF IInv
<1> QED
  BY InitLemma, <1>1, PTL DEF Spec

-----------------------------------------------------------------------------
(***************************************************************************)
(* The results.                                                             *)
(***************************************************************************)
\* Type correctness; in particular no timer outlives disconnect(), and a stopped
\* instance is never the one the hook holds.
THEOREM ReconnectTypeCorrect == Spec => []TypeOK
<1>1. IInv => TypeOK
  <2> SUFFICES ASSUME IInv PROVE TypeOK
    OBVIOUS
  <2>1. ASSUME NEW c \in Clients
        PROVE  /\ insts[c] \in Seq(Instances) \ {<<>>}
               /\ \A i \in DOMAIN insts[c] : insts[c][i].stopped =>
                     insts[c][i].timer = NoTimer /\ i < Len(insts[c])
    <3>1. insts[c] \in Seq(Instances) \ {<<>>}
      BY DEF IInv, ClientInv, Succession
    <3>2. ASSUME NEW i \in DOMAIN insts[c], insts[c][i].stopped
          PROVE  insts[c][i].timer = NoTimer /\ i < Len(insts[c])
      <4>1. i \in 1..Len(insts[c]) /\ Len(insts[c]) \in Nat /\ i # Len(insts[c])
            /\ (i < Len(insts[c]) => LeftBehind(insts[c][i]))
        BY <3>2, OneInstance DEF IInv
      <4> QED
        BY <4>1 DEF LeftBehind
    <3> QED
      BY <3>1, <3>2
  <2> QED
    BY <2>1 DEF IInv, ClientInv, CounterInv, TypeOK
<1> QED
  BY Inductive, <1>1, PTL

\* Whatever the sockets of earlier clients still report, in whatever order, the hook's
\* `connectionState' is the state of its present client.
THEOREM ShownAlwaysCurrent == Spec => []ShownIsCurrent
<1>1. IInv => ShownIsCurrent
  BY DEF IInv, ClientInv, ShownIsCurrent
<1> QED
  BY Inductive, <1>1, PTL

\* No sequence of losses, refusals, server stops and changes of address leaves a hook
\* with two sockets in use or two reconnect loops.
THEOREM OneSocketAlways == Spec => []OneSocket
<1>1. IInv => OneSocket
  <2> SUFFICES ASSUME IInv, NEW c \in Clients
               PROVE  Cardinality({i \in DOMAIN insts[c] : Active(insts[c][i])}) <= 1
    BY DEF OneSocket
  <2> DEFINE active == {i \in DOMAIN insts[c] : Active(insts[c][i])}
             last == {Len(insts[c])}
  <2>1. active \subseteq last
    <3>1. ASSUME NEW i \in DOMAIN insts[c], Active(insts[c][i])
          PROVE  i = Len(insts[c])
      <4>1. /\ i \in 1..Len(insts[c]) /\ Len(insts[c]) \in Nat
            /\ i < Len(insts[c]) => LeftBehind(insts[c][i])
        BY OneInstance DEF IInv
      <4>2. ~LeftBehind(insts[c][i])
        BY <3>1 DEF Active, LeftBehind
      <4> QED
        BY <4>1, <4>2
    <3> QED
      BY <3>1
  <2>2. IsFiniteSet(last) /\ Cardinality(last) = 1
    BY FS_Singleton
  <2> HIDE DEF active, last
  <2>3. IsFiniteSet(active) /\ Cardinality(active) <= Cardinality(last)
    BY <2>1, <2>2, FS_Subset
  <2>4. Cardinality(active) <= 1
    BY <2>2, <2>3
  <2> QED
    BY <2>4 DEF active
<1> QED
  BY Inductive, <1>1, PTL
=============================================================================
