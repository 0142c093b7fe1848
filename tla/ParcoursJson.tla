---------------------------- MODULE ParcoursJson ----------------------------
(* The content shipped with the tablets: parcours.json and mailbox.json.      *)
(* A step is named by its kind: kinds do not repeat within a variant.         *)
JsonPrologue == <<"connexion", "accueil", "tuto", "choix">>
JsonVariants == {"A", "B", "C", "D"}

JsonParcours ==
    [A |-> <<"mailbox", "mdp", "telephone", "reseau", "serveurs", "bdd",
             "lecteur-carte", "finale", "piratage">>,
     B |-> <<"mailbox", "telephone", "mdp", "disques-durs", "serveurs", "bdd",
             "finale", "piratage">>,
     C |-> <<"mdp", "mailbox", "reseau", "disques-durs-2", "lecteur-carte",
             "finale", "piratage">>,
     D |-> <<"telephone", "reseau", "mailbox", "serveurs", "disques-durs", "bdd",
             "finale", "piratage">>]

JsonSteps ==
    {"mailbox", "mdp", "telephone", "reseau", "serveurs", "disques-durs",
     "disques-durs-2", "bdd", "lecteur-carte", "finale", "piratage"}

JsonKind == [step \in JsonSteps |-> step]

JsonPoints ==
    [step \in JsonSteps |->
        CASE step = "finale" -> 200
          [] step \in {"mailbox", "piratage"} -> 0
          [] OTHER -> 100]

JsonCap == [step \in JsonSteps |-> IF step = "finale" THEN 3 ELSE 0]

JsonUnauthored == {"mailbox", "piratage"}

JsonMails == {"welcome-team", "phishing-update-creds", "ops-checklist"}
JsonTrap == {"phishing-update-creds"}
=============================================================================
