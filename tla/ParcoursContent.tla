-------------------------- MODULE ParcoursContent --------------------------
(***************************************************************************)
(* The game content of Attaque de Bots as its editors leave it: a parcours  *)
(* and a mailbox, bundled into the APK, read by the parsers of shared-types *)
(* when the app starts, and played over the flow that AsyncStorage kept from *)
(* an earlier start, whatever the content was then (useFlow.ts).  The engine *)
(* is BotsFlow, run on the installed content; the screens are those that     *)
(* renderView() chooses, for the states an earlier content left too.         *)
(*                                                                          *)
(* A step stands for its kind and cap; points, solutions and the log do not *)
(* matter here.  Covered: edits that the parsers refuse, updates of the app  *)
(* in the middle of a game, kills with the flow not yet written.             *)
(***************************************************************************)
EXTENDS Integers, Sequences, FiniteSets

CONSTANTS
    Contents,     \* contents: [variants, mails], both sequences
    Kind, Cap,    \* of a step; cap 0 when absent
    NoFlow, NoMail,
    MaxUpdates,   \* bound: updates of the app
    MaxWrong      \* bound: wrong answers to an énigme

VARIABLES
    content,  \* of the installed APK
    on,       \* the app is running
    flow,     \* flowRef
    blob,     \* FLOW_KEY on disk
    tapped,   \* the mail of the inbox just opened: its position in the list, or 0
    skewed,   \* the flow in play was resumed from a blob that did not fit the content
    updates

vars == <<content, on, flow, blob, tapped, skewed, updates>>

-----------------------------------------------------------------------------
(***************************************************************************)
(* The parsers.                                                             *)
(***************************************************************************)
IdsUnique(list) == \A i, j \in DOMAIN list : list[i].id = list[j].id => i = j

ParcoursAccepted(variants) ==
    /\ Len(variants) \in 1..4
    /\ \A i \in DOMAIN variants : Len(variants[i].steps) \in 1..32
    /\ IdsUnique(variants)

MailboxAccepted(mails) ==
    /\ Len(mails) \in 1..64
    /\ Cardinality({i \in DOMAIN mails : mails[i].phishing}) = 1
    /\ IdsUnique(mails)

\* content.ts parses at module load, createFlow() wants its default variant at the first
\* render: if either throws, the app does not start.
Startable(c) ==
    /\ ParcoursAccepted(c.variants) /\ MailboxAccepted(c.mails)
    /\ \E i \in DOMAIN c.variants : c.variants[i].id = "A"

-----------------------------------------------------------------------------
(***************************************************************************)
(* The engine over a content.                                               *)
(***************************************************************************)
VariantIds(c) == {c.variants[i].id : i \in DOMAIN c.variants}
MailIds(c) == {c.mails[i].id : i \in DOMAIN c.mails}

\* Array.find
First(list, id) == CHOOSE i \in DOMAIN list : list[i].id = id /\ \A j \in 1..i-1 : list[j].id # id

Engine(c) == INSTANCE BotsFlow WITH
    Prologue <- <<"connexion">>, DefaultVariant <- "A",
    Variants <- VariantIds(c),
    Parcours <- [v \in VariantIds(c) |-> c.variants[First(c.variants, v)].steps],
    Points <- [s \in DOMAIN Kind |-> 0], Unauthored <- {},
    Mails <- MailIds(c),
    Trap <- {c.mails[i].id : i \in {j \in DOMAIN c.mails : c.mails[j].phishing}}

\* A flow as it is kept, whatever content it was made by; its log is left out.
FlowsOver(c) ==
    [section : {"prologue", "enigmes", "epilogue"}, variant : {"A"}, cursor : 1..32,
     phase : Engine(c)!Phases, score : {0}, attempts : 0..MaxWrong,
     openedMailId : (UNION {MailIds(d) : d \in Contents}) \cup {NoMail}, log : {<<>>}]

(* What the schemas ask of every content, sound or not: lists of steps and mails. *)
Elements(list) == {list[i] : i \in DOMAIN list}

ASSUME ContentAssumption ==
    /\ MaxUpdates \in Nat /\ MaxWrong \in Nat
    /\ \A c \in Contents :
          /\ c.variants \in Seq(Elements(c.variants)) /\ c.mails \in Seq(Elements(c.mails))
          /\ \A i \in DOMAIN c.variants : c.variants[i].steps \in Seq(DOMAIN Kind)
          /\ \A i \in DOMAIN c.mails : c.mails[i].phishing \in BOOLEAN
          /\ NoFlow \notin FlowsOver(c)

\* A flow is on a node of the content, in a phase of that node, with a mail of the inbox.
Fits(c, s) ==
    /\ s.section = "enigmes" => s.variant \in VariantIds(c) /\ Engine(c)!InEnigme(s)
    /\ Engine(c)!PhaseOK(s)
    /\ s.openedMailId \in MailIds(c) \cup {NoMail}

\* Variant (mistake): an error screen only offers Recommencer.
WiredRetryOnly(c, s) ==
    LET kind == Kind[Engine(c)!CurrentStep(s)]
        open == {Engine(c)!OpenMail(m) : m \in MailIds(c)}
        go == {Engine(c)!Continue}
    IN  CASE s.section = "epilogue" -> {}
          [] s.section = "prologue" \/ ~Engine(c)!InEnigme(s) -> go
          [] kind = "mailbox" -> IF s.phase \in {"reading", "phishing"} THEN {} ELSE open \cup go
          [] kind = "piratage" -> go
          [] s.phase = "saisie" -> {Engine(c)!Answer("right"), Engine(c)!Answer("wrong")}
          [] s.phase = "error" -> IF Engine(c)!CanRetry(s) THEN {Engine(c)!Retry} ELSE {}
          [] OTHER -> go

\* renderView(): the events of the screen drawn for a flow, by kind first.
Wired(c, s) ==
    LET kind == Kind[Engine(c)!CurrentStep(s)]
        open == {Engine(c)!OpenMail(m) : m \in MailIds(c)}
        go == {Engine(c)!Continue}
    IN  CASE s.section = "epilogue" -> {}
          [] s.section = "prologue" \/ ~Engine(c)!InEnigme(s) -> go
          [] kind = "mailbox" -> IF s.phase \in {"reading", "phishing"} THEN {} ELSE open \cup go
          [] kind = "piratage" -> go
          [] s.phase = "saisie" -> {Engine(c)!Answer("right"), Engine(c)!Answer("wrong")}
          [] s.phase = "error" -> Engine(c)!ErrorEvents(s)
          [] OTHER -> go

-----------------------------------------------------------------------------
Init ==
    /\ content \in Contents
    /\ on = FALSE /\ flow = NoFlow /\ blob = NoFlow
    /\ tapped = 0 /\ skewed = FALSE /\ updates = 0

\* A blob of the shape of a FlowState is taken as it is, whatever the content.
Hydrated == IF blob = NoFlow THEN Engine(content)!CreateFlow ELSE blob

Launch ==
    /\ ~on /\ Startable(content)
    /\ on' = TRUE
    /\ flow' = Hydrated
    /\ tapped' = 0
    /\ skewed' = (blob # NoFlow /\ ~Fits(content, blob))
    /\ UNCHANGED <<content, blob, updates>>

Unlogged(s) == [s EXCEPT !.log = <<>>]

\* An event of the screen or of the back key; one the engine refuses changes nothing.
Tap(e) ==
    /\ on
    /\ flow' = Unlogged(Engine(content)!Dispatch(flow, e))
    /\ flow' # flow /\ flow'.attempts <= MaxWrong
    /\ tapped' \in IF e.type # "OPEN_MAIL" THEN {0}
                   ELSE {i \in DOMAIN content.mails : content.mails[i].id = e.mail}
    /\ UNCHANGED <<content, on, blob, skewed, updates>>

Play ==
    /\ on
    /\ \E e \in Wired(content, flow) \cup {Engine(content)!Back} : Tap(e)

\* setItem is not awaited: what is on disk is the flow of some earlier moment.
Flush ==
    /\ on /\ blob # flow
    /\ blob' = flow
    /\ tapped' = 0
    /\ UNCHANGED <<content, on, flow, skewed, updates>>

Kill ==
    /\ on /\ on' = FALSE /\ flow' = NoFlow
    /\ tapped' = 0 /\ skewed' = FALSE
    /\ UNCHANGED <<content, blob, updates>>

\* An update stops the app, brings any content and keeps AsyncStorage.
Update ==
    /\ updates < MaxUpdates
    /\ content' \in Contents
    /\ on' = FALSE /\ flow' = NoFlow
    /\ updates' = updates + 1
    /\ tapped' = 0 /\ skewed' = FALSE
    /\ UNCHANGED blob

Next == Launch \/ Play \/ Flush \/ Kill \/ Update

Spec == Init /\ [][Next]_vars

(***************************************************************************)
(* Fairness: the player goes on, and is right in the end.                   *)
(***************************************************************************)
Does(type) == on /\ \E e \in Wired(content, flow) : e.type = type /\ Tap(e)

FairSpec ==
    /\ Spec
    /\ SF_vars(Does("CONTINUE")) /\ SF_vars(Does("RETRY"))
    /\ SF_vars(on /\ flow.phase = "saisie" /\ Tap(Engine(content)!Answer("right")))
    /\ WF_vars(on /\ flow.openedMailId # NoMail /\ Tap(Engine(content)!Back))

-----------------------------------------------------------------------------
(***************************************************************************)
(* Properties.                                                              *)
(***************************************************************************)
TypeOK ==
    /\ content \in Contents /\ on \in BOOLEAN
    /\ {flow, blob} \ {NoFlow} \subseteq FlowsOver(content)
    /\ on <=> flow # NoFlow

\* MailsScreen looks the open mail up by its id: it shows the mail that was tapped, and
\* a mail read as harmless is not the phishing one.
MailAsTapped ==
    tapped # 0 =>
        /\ First(content.mails, flow.openedMailId) = tapped
        /\ flow.phase = "phishing" <=> content.mails[tapped].phishing

\* "A corrupt or version-skewed blob falls back to a fresh flow rather than crashing"
\* (useFlow.ts): whatever the disk held, the flow in play is on a node of the installed
\* content, in a phase that node has, so that renderView() draws the screen meant for it.
\* The code does not keep this: it refuses a blob for its shape only, and one stored on a
\* mailbox is resumed as it is where an update has put a password.
SkewFallsBack == on => Fits(content, flow)

\* What it does keep, whatever the updates: only a launch on a blob that does not fit puts
\* the flow out of the content, no event or kill does; and the mail shown is the one
\* tapped, whatever the flow was resumed from.
FlowFits ==
    /\ TypeOK
    /\ ~skewed => SkewFallsBack
    /\ MailAsTapped

\* A content that adds to another, after what it has.
IsPrefixOf(list, longer) ==
    Len(list) <= Len(longer) /\ \A i \in DOMAIN list : longer[i] = list[i]

Adds(old, new) ==
    /\ \A v \in VariantIds(old) :
          /\ v \in VariantIds(new)
          /\ IsPrefixOf(old.variants[First(old.variants, v)].steps,
                        new.variants[First(new.variants, v)].steps)
    /\ IsPrefixOf(old.mails, new.mails)

\* A flow on disk that fits the content goes on fitting through play, kills, launches
\* and every update of the app that only adds to its content: a game is resumed where
\* it was.
StaysFit ==
    [][Startable(content) /\ Adds(content, content') /\ blob # NoFlow /\ Fits(content, blob) =>
          Fits(content', blob')]_vars

\* Every content the parsers accept can be played to its end, from a fresh flow and from
\* any blob that fits it: no screen leaves the player without an event the engine takes.
GameEnds == on ~> ~on \/ skewed \/ Engine(content)!IsComplete(flow)
=============================================================================
