----------------------- MODULE CommandesMaillage_proofs -----------------------
(***************************************************************************)
(* Theorems about CommandesMaillage, for any commands, any number of       *)
(* deliveries at once, any deadlines and retention, any faults.            *)
(***************************************************************************)
EXTENDS CommandesMaillage, TLAPS

\* What an executor answered is a verdict that ends the command.
Faites ==
  \A c \in Commandes, v \in Voies :
    EnEtape(c, v, {"faite"}) => requetes[c][v].verdict \in {"SUCCESS", "FAILED"}

Table == [Commandes -> [Voies -> Requetes \cup {Rien}]]

-----------------------------------------------------------------------------
(* Requests, one replaced at a time                                        *)

LEMMA Remplacee ==
  ASSUME requetes \in Table, NEW c \in Commandes, NEW v \in Voies,
         NEW r \in Requetes \cup {Rien}, Avancee(c, v, r)
  PROVE  /\ requetes' \in Table
         /\ requetes'[c][v] = r
         /\ \A a \in Commandes, b \in Voies :
              a # c \/ b # v => requetes'[a][b] = requetes[a][b]
  BY DEF Avancee, Table

LEMMA FaitesApres ==
  ASSUME requetes \in Table, Faites, NEW c \in Commandes, NEW v \in Voies,
         NEW r \in Requetes \cup {Rien}, Avancee(c, v, r),
         r # Rien /\ r.etape = "faite" => r.verdict \in {"SUCCESS", "FAILED"}
  PROVE  Faites'
<1> SUFFICES ASSUME NEW a \in Commandes, NEW b \in Voies,
                    EnEtape(a, b, {"faite"})'
             PROVE  requetes'[a][b].verdict \in {"SUCCESS", "FAILED"}
  BY DEF Faites, EnEtape
<1>1. CASE a = c /\ b = v BY <1>1, Remplacee DEF EnEtape
<1>2. CASE a # c \/ b # v BY <1>2, Remplacee DEF EnEtape, Faites
<1> QED BY <1>1, <1>2

LEMMA EnvolType ==
  /\ Envol \in Requetes /\ Envol.etape = "vol" /\ Envol.verdict = Rien
  /\ Envol.dejaFaite = FALSE
  BY DEF Envol, Requetes, Etapes

LEMMA ReponseType ==
  ASSUME NEW r \in Requetes, NEW s \in Statuts \cup {"ERREUR"}
  PROVE  /\ Reponse(r, s) \in Requetes \cup {Rien}
         /\ Reponse(r, s) # Rien =>
              Reponse(r, s).etape = "repond" /\ Reponse(r, s).verdict = s
  BY DEF Reponse, Requetes, Etapes

LEMMA MarquerType ==
  ASSUME NEW S, NEW t \in [Commandes -> S], NEW c \in Commandes, NEW s \in S
  PROVE  Marquer(t, c, s) \in [Commandes -> S]
  BY DEF Marquer

LEMMA PerimerType ==
  ASSUME NEW S, NEW t \in [Commandes -> S], "EXPIRED" \in S
  PROVE  Perimer(t) \in [Commandes -> S]
  BY DEF Perimer

LEMMA InitType == Init => TypeOK /\ Faites
  BY MeshNumbers DEF Init, TypeOK, Faites, EnEtape, SansReprise, MeshNumbers

LEMMA EnvoyerType ==
  ASSUME TypeOK, Faites, NEW c \in Commandes, Envoyer(c)
  PROVE  TypeOK' /\ Faites'
<1> USE DEF TypeOK
<1>1. CASE Demander(c) \/ Inscrire(c) \/ LaisserCollecter(c) \/ Absent(c)
           \/ ConclureSansReponse(c)
  <2>1. requetes' = requetes /\ UNCHANGED <<maintenant, pannes, releve, reprise,
          cible, telephone>>
    BY <1>1 DEF Demander, Inscrire, LaisserCollecter, Absent, ConclureSansReponse
  <2>2. expiration' \in [Commandes -> Nat]
    BY <1>1, MeshNumbers DEF Demander, Inscrire, LaisserCollecter, Absent,
      ConclureSansReponse, DureeDe, MeshNumbers
  <2>3. file' \in [Commandes -> Statuts \cup {Rien}]
    BY <1>1 DEF Demander, Inscrire, LaisserCollecter, Absent, Marquer,
      ConclureSansReponse, Politique, Statuts
  <2>4. envoi' \in [Commandes -> {"neuve", "signee", "collecte", "inscrite",
                             "attend", "finie"}]
    BY <1>1 DEF Demander, Inscrire, LaisserCollecter, Absent,
      ConclureSansReponse
  <2> QED BY <2>1, <2>2, <2>3, <2>4 DEF cible, telephone, Faites, EnEtape
<1>2. CASE Livrer(c)
  <2>1. Avancee(c, "directe", Envol) BY <1>2 DEF Livrer, Avancee
  <2>2. "directe" \in Voies BY DEF Voies
  <2>3. requetes' \in Table
    BY <2>1, <2>2, EnvolType, Remplacee DEF Table
  <2>4. Faites'
    BY <2>1, <2>2, EnvolType, FaitesApres DEF Table
  <2> QED BY <1>2, <2>3, <2>4 DEF Livrer, cible, telephone, Table
<1>3. CASE Conclure(c)
  <2> DEFINE r == requetes[c]["directe"]
  <2>1. "directe" \in Voies BY DEF Voies
  <2>2. Avancee(c, "directe", Rien) BY <1>3 DEF Conclure, Avancee
  <2>3. requetes' \in Table /\ Faites'
    BY <2>1, <2>2, Remplacee, FaitesApres DEF Table
  <2>4. r \in Requetes BY <1>3, <2>1 DEF Conclure
  <2>5. file' \in [Commandes -> Statuts \cup {Rien}]
    BY <1>3, <2>4 DEF Conclure, Politique, Marquer, Statuts, Requetes
  <2> QED BY <1>3, <2>3, <2>5 DEF Conclure, cible, telephone, Table
<1> QED BY <1>1, <1>2, <1>3 DEF Envoyer
LEMMA BattreType ==
  ASSUME TypeOK, Faites, Battre
  PROVE  TypeOK' /\ Faites'
<1>1. CASE Expirer
  <2>1. file' \in [Commandes -> Statuts \cup {Rien}]
    BY <1>1, PerimerType DEF Expirer, TypeOK, Statuts
  <2> QED BY <1>1, <2>1 DEF Expirer, TypeOK, cible, telephone, Faites, EnEtape
<1>2. CASE Reprendre
  <2>1. file' \in [Commandes -> Statuts \cup {Rien}]
    BY <1>2, PerimerType DEF Reprendre, TypeOK, Statuts
  <2>2. reprise' \in [etape : {"repos", "prend", "attend"},
                     reste : SUBSET Commandes,
                     encours : (Commandes \X Essais) \cup {Rien}]
    BY <1>2 DEF Reprendre
  <2> QED BY <1>2, <2>1, <2>2 DEF Reprendre, TypeOK, cible, telephone, Faites,
    EnEtape
<1>3. ASSUME NEW c \in Commandes, Relivrer(c) PROVE TypeOK' /\ Faites'
  <2>1. PICK v \in Essais :
          /\ Avancee(c, v, Envol)
          /\ reprise' = [etape |-> "attend", encours |-> <<c, v>>,
                         reste |-> reprise.reste \ {c}]
    BY <1>3 DEF Relivrer, Avancee
  <2>2. v \in Voies BY DEF Voies
  <2>3. requetes' \in Table /\ Faites'
    BY <2>1, <2>2, EnvolType, Remplacee, FaitesApres DEF Table, TypeOK
  <2>4. reprise' \in [etape : {"repos", "prend", "attend"},
                     reste : SUBSET Commandes,
                     encours : (Commandes \X Essais) \cup {Rien}]
    BY <2>1 DEF TypeOK
  <2> QED BY <1>3, <2>3, <2>4 DEF Relivrer, TypeOK, cible, telephone, Table
<1>4. ASSUME NEW c \in Commandes, NEW v \in Essais, RepriseConclue(c, v)
      PROVE  TypeOK' /\ Faites'
  <2>1. v \in Voies BY DEF Voies
  <2>2. Avancee(c, v, Rien) BY <1>4 DEF RepriseConclue, Avancee
  <2>3. requetes' \in Table /\ Faites'
    BY <2>1, <2>2, Remplacee, FaitesApres DEF Table, TypeOK
  <2>4. requetes[c][v] \in Requetes BY <1>4, <2>1 DEF RepriseConclue, TypeOK
  <2>5. file' \in [Commandes -> Statuts \cup {Rien}]
    BY <1>4, <2>4 DEF RepriseConclue, TypeOK, Marquer, Requetes
  <2>6. reprise' \in [etape : {"repos", "prend", "attend"},
                     reste : SUBSET Commandes,
                     encours : (Commandes \X Essais) \cup {Rien}]
    BY <1>4 DEF RepriseConclue, SansReprise, Reposer, TypeOK
  <2> QED BY <1>4, <2>3, <2>5, <2>6 DEF RepriseConclue, TypeOK, cible, telephone,
    Table
<1>5. ASSUME NEW c \in Commandes, NEW v \in Essais, RepriseSansReponse(c, v)
      PROVE  TypeOK' /\ Faites'
  BY <1>5 DEF RepriseSansReponse, SansReprise, TypeOK, cible, telephone, Faites,
    EnEtape
<1> QED BY <1>1, <1>2, <1>3, <1>4, <1>5 DEF Battre

LEMMA RecevoirType ==
  ASSUME TypeOK, Faites, NEW c \in Commandes, NEW v \in Voies, Recevoir(c, v)
  PROVE  TypeOK' /\ Faites'
<1> DEFINE r == requetes[c][v]
<1>0. r # Rien
  BY DEF Recevoir, Verifier, Chercher, Enregistrer, Executer, NoterVerdict,
    EnEtape
<1>1. r \in Requetes
  BY <1>0 DEF TypeOK
<1>2. ASSUME NEW n \in Requetes \cup {Rien}, Avancee(c, v, n),
             n # Rien /\ n.etape = "faite" => n.verdict \in {"SUCCESS", "FAILED"}
      PROVE  requetes' \in Table /\ Faites'
  BY <1>2, Remplacee, FaitesApres DEF TypeOK, Table
<1>3. CASE Verifier(c, v)
  <2> DEFINE q == [r EXCEPT !.dejaFaite = DejaFaite(c)]
  <2>1. q \in Requetes BY <1>1 DEF Requetes, DejaFaite
  <2>2. requetes' \in Table /\ Faites'
    <3>1. CASE Avancee(c, v, Reponse(q, "EXPIRED"))
      BY <2>1, <3>1, <1>2, ReponseType DEF Statuts
    <3>2. CASE Avancee(c, v, Reponse(q, "DENIED"))
      BY <2>1, <3>2, <1>2, ReponseType DEF Statuts
    <3>3. CASE Avancee(c, v, [q EXCEPT !.etape = "verifiee"])
      <4>1. /\ [q EXCEPT !.etape = "verifiee"] \in Requetes
            /\ [q EXCEPT !.etape = "verifiee"].etape = "verifiee"
        BY <2>1 DEF Requetes, Etapes
      <4> QED BY <4>1, <3>3, <1>2
    <3> QED BY <1>3, <3>1, <3>2, <3>3 DEF Verifier
  <2>3. nonces' \in [Commandes -> 0..DateMax \cup {-1}]
    BY <1>3, MeshNumbers DEF Verifier, Gardees, Depensee, TypeOK, MeshNumbers
  <2> QED BY <1>3, <2>2, <2>3 DEF Verifier, TypeOK, emetteur, telephone, Table
<1>4. CASE Chercher(c, v)
  <2>1. ASSUME NEW e \in ReponduePar(c), Avancee(c, v, Reponse(r, recues[e]))
        PROVE  requetes' \in Table /\ Faites'
    <3>1. recues[e] \in Statuts \cup {"ERREUR"}
      BY DEF ReponduePar, MemeIntention, TypeOK, Statuts, Attente
    <3> QED BY <3>1, <1>1, <2>1, <1>2, ReponseType
  <2>2. ASSUME Avancee(c, v, [r EXCEPT !.etape = "inconnue"])
        PROVE  requetes' \in Table /\ Faites'
    <3> DEFINE n == [r EXCEPT !.etape = "inconnue"]
    <3>1. n \in Requetes /\ n.etape = "inconnue"
      BY <1>1 DEF Requetes, Etapes
    <3>2. Avancee(c, v, n) BY <2>2
    <3> HIDE DEF n
    <3> QED BY <3>1, <3>2, <1>2
  <2>3. \/ \E e \in ReponduePar(c) : Avancee(c, v, Reponse(r, recues[e]))
        \/ Avancee(c, v, [r EXCEPT !.etape = "inconnue"])
    BY <1>4 DEF Chercher
  <2>4. requetes' \in Table /\ Faites'
    BY <2>1, <2>2, <2>3
  <2> QED BY <1>4, <2>4 DEF Chercher, TypeOK, emetteur, cible, telephone, Table
<1>5. CASE Enregistrer(c, v)
  <2>1. /\ [r EXCEPT !.etape = "lancee"] \in Requetes
        /\ [r EXCEPT !.etape = "lancee"].etape = "lancee"
    BY <1>1 DEF Requetes, Etapes
  <2>2. requetes' \in Table /\ Faites'
    BY <2>1, <1>2, <1>5 DEF Enregistrer
  <2>3. recues' \in [Commandes -> (Statuts \ Attente) \cup {Rien}]
    BY <1>5 DEF Enregistrer, TypeOK, StatutRecu, Statuts, Attente
  <2> QED BY <1>5, <2>2, <2>3 DEF Enregistrer, TypeOK, emetteur, telephone, Table
<1>6. CASE Executer(c, v)
  <2>1. PICK ok \in BOOLEAN :
          /\ effets' = IF ok THEN [effets EXCEPT ![c] = @ + 1] ELSE effets
          /\ Avancee(c, v, [r EXCEPT !.etape = "faite", !.verdict = Verdict(ok)])
    BY <1>6 DEF Executer
  <2> DEFINE n == [r EXCEPT !.etape = "faite", !.verdict = Verdict(ok)]
  <2>2. Verdict(ok) \in {"SUCCESS", "FAILED"} BY DEF Verdict
  <2>3. n \in Requetes /\ n.verdict = Verdict(ok)
    BY <1>1, <2>2 DEF Requetes, Etapes, Statuts
  <2>4. requetes' \in Table /\ Faites'
    BY <2>1, <2>2, <2>3, <1>2
  <2>5. effets' \in [Commandes -> Nat] BY <2>1 DEF TypeOK
  <2> QED BY <1>6, <2>4, <2>5 DEF Executer, TypeOK, emetteur, telephone, Table
<1>7. CASE NoterVerdict(c, v)
  <2>1. r.verdict \in {"SUCCESS", "FAILED"}
    BY <1>7 DEF NoterVerdict, EnEtape, Faites
  <2>2. requetes' \in Table /\ Faites'
    <3> DEFINE s == IF recues[c] = Rien THEN "ERREUR" ELSE r.verdict
    <3>1. s \in Statuts \cup {"ERREUR"} BY <2>1 DEF Statuts
    <3> QED BY <3>1, <1>1, <1>2, <1>7, ReponseType DEF NoterVerdict
  <2>3. recues' \in [Commandes -> (Statuts \ Attente) \cup {Rien}]
    BY <1>7, <2>1 DEF NoterVerdict, Marquer, TypeOK, Statuts, Attente
  <2> QED BY <1>7, <2>2, <2>3 DEF NoterVerdict, TypeOK, emetteur, telephone, Table
<1> QED BY <1>3, <1>4, <1>5, <1>6, <1>7 DEF Recevoir
LEMMA ResteType ==
  ASSUME TypeOK, Faites, Collecter \/ ExpirerCible \/ Tic \/ Pannes
  PROVE  TypeOK' /\ Faites'
<1>1. CASE Relever
  BY <1>1 DEF Relever, TypeOK, Faites, EnEtape, emetteur, cible
<1>2. ASSUME NEW c \in Commandes, Accomplir(c) PROVE TypeOK' /\ Faites'
  <2>1. /\ effets' \in [Commandes -> Nat]
        /\ compteRendu' \in [Commandes -> {"SUCCESS", "FAILED", Rien}]
    BY <1>2 DEF Accomplir, TypeOK
  <2> QED BY <1>2, <2>1 DEF Accomplir, TypeOK, Faites, EnEtape, emetteur
<1>3. ASSUME NEW c \in Commandes, Accuser(c) PROVE TypeOK' /\ Faites'
  BY <1>3 DEF Accuser, TypeOK, Faites, EnEtape, emetteur, cible
<1>4. ASSUME NEW c \in Commandes, NoterAccuse(c) PROVE TypeOK' /\ Faites'
  <2>1. file' \in [Commandes -> Statuts \cup {Rien}]
    BY <1>4 DEF NoterAccuse, TypeOK, Marquer, Statuts
  <2> QED BY <1>4, <2>1 DEF NoterAccuse, TypeOK, Faites, EnEtape, cible
<1>5. CASE ExpirerCible
  <2>1. recues' \in [Commandes -> (Statuts \ Attente) \cup {Rien}]
    BY <1>5 DEF ExpirerCible, Perimer, TypeOK, Statuts, Attente
  <2> QED BY <1>5, <2>1 DEF ExpirerCible, TypeOK, Faites, EnEtape, emetteur,
    telephone
<1>6. CASE Tic
  <2>1. maintenant' \in 0..DateMax
    BY <1>6, MeshNumbers DEF Tic, TypeOK, MeshNumbers
  <2> QED BY <1>6, <2>1 DEF Tic, TypeOK, Faites, EnEtape, emetteur, cible,
    telephone
<1>7. CASE Pannes
  <2>1. pannes' \in 0..PannesMax
    <3>1. PannesMax \in Nat BY MeshNumbers DEF MeshNumbers
    <3>2. pannes < PannesMax /\ pannes' = pannes + 1
      BY <1>7 DEF Pannes, Perdre, MourirEmetteur, MourirCible
    <3>3. pannes \in 0..PannesMax BY DEF TypeOK
    <3> QED BY <3>1, <3>2, <3>3
  <2>2. ASSUME NEW r \in Requetes
        PROVE  /\ [r EXCEPT !.attendue = FALSE] \in Requetes
               /\ [r EXCEPT !.attendue = FALSE].etape = r.etape
               /\ [r EXCEPT !.attendue = FALSE].verdict = r.verdict
    BY DEF Requetes
  <2>3. ASSUME NEW c \in Commandes, NEW v \in Voies, Perdre(c, v)
        PROVE  TypeOK' /\ Faites'
    <3> DEFINE r == requetes[c][v]
    <3>1. r \in Requetes BY <2>3 DEF Perdre, TypeOK
    <3>2. Avancee(c, v, Rien) \/ Avancee(c, v, [r EXCEPT !.attendue = FALSE])
      BY <2>3 DEF Perdre
    <3>3. r.etape = "faite" => r.verdict \in {"SUCCESS", "FAILED"}
      BY <2>3 DEF Perdre, Faites, EnEtape
    <3>4. requetes' \in Table /\ Faites'
      <4> DEFINE n == [r EXCEPT !.attendue = FALSE]
      <4>1. /\ n \in Requetes
            /\ n.etape = "faite" => n.verdict \in {"SUCCESS", "FAILED"}
        BY <2>2, <3>1, <3>3
      <4>2. Avancee(c, v, Rien) \/ Avancee(c, v, n) BY <3>2
      <4> HIDE DEF n
      <4> QED BY <4>1, <4>2, Remplacee, FaitesApres DEF TypeOK, Table
    <3> QED BY <2>1, <2>3, <3>4 DEF Perdre, TypeOK, Table, emetteur, cible,
      telephone
  <2>4. CASE MourirEmetteur
    <3>1. requetes' \in Table
      <4>1. ASSUME NEW c \in Commandes, NEW v \in Voies
            PROVE  (IF requetes[c][v] = Rien \/ requetes[c][v].etape = "repond"
                    THEN Rien ELSE [requetes[c][v] EXCEPT !.attendue = FALSE])
                   \in Requetes \cup {Rien}
        BY <2>2 DEF TypeOK
      <4> QED BY <2>4, <4>1 DEF MourirEmetteur, Table
    <3>2. Faites'
      <4> SUFFICES ASSUME NEW c \in Commandes, NEW v \in Voies,
                          EnEtape(c, v, {"faite"})'
                   PROVE  requetes'[c][v].verdict \in {"SUCCESS", "FAILED"}
        BY DEF Faites, EnEtape
      <4>1. /\ requetes[c][v] \in Requetes
            /\ requetes'[c][v] = [requetes[c][v] EXCEPT !.attendue = FALSE]
        BY <2>4 DEF MourirEmetteur, EnEtape, TypeOK
      <4> QED BY <4>1, <2>2, RienEstAPart DEF EnEtape, Faites
    <3>3. envoi' \in [Commandes -> {"neuve", "signee", "collecte", "inscrite",
                                   "attend", "finie"}]
      BY <2>4 DEF MourirEmetteur, TypeOK
    <3> QED BY <2>1, <2>4, <3>1, <3>2, <3>3 DEF MourirEmetteur, SansReprise,
      TypeOK, Table, cible
  <2>5. CASE MourirCible
    <3>1. requetes' \in Table BY <2>5 DEF MourirCible, TypeOK, Table
    <3>2. Faites' BY <2>5 DEF MourirCible, Faites, EnEtape
    <3> QED BY <2>1, <2>5, <3>1, <3>2 DEF MourirCible, TypeOK, Table, emetteur,
      cible, telephone
  <2> QED BY <1>7, <2>3, <2>4, <2>5 DEF Pannes
<1> QED BY <1>1, <1>2, <1>3, <1>4, <1>5, <1>6, <1>7 DEF Collecter

LEMMA NextType == TypeOK /\ Faites /\ [Next]_vars => TypeOK' /\ Faites'
<1> SUFFICES ASSUME TypeOK, Faites, [Next]_vars PROVE TypeOK' /\ Faites'
  OBVIOUS
<1>1. CASE UNCHANGED vars
  BY <1>1 DEF vars, emetteur, cible, telephone, TypeOK, Faites, EnEtape
<1>2. CASE Next
  BY <1>2, EnvoyerType, BattreType, RecevoirType, ResteType DEF Next
<1> QED BY <1>1, <1>2

\* Every reachable state of both machines is well typed; what is received never
\* waits.
THEOREM TypeCorrect == Spec => []TypeOK
<1>1. Spec => [](TypeOK /\ Faites)
  BY InitType, NextType, PTL DEF Spec
<1> QED BY <1>1, PTL
-----------------------------------------------------------------------------
(* The target: what keeps a redelivery from a second effect                *)

\* A target that collects is sent nothing; one that is dialled collects nothing.
Releves ==
  /\ releve =>
       /\ \A c \in Commandes : envoi[c] \notin {"inscrite", "attend"}
       /\ reprise.etape = "repos"
       /\ \A c \in Commandes, v \in Voies : requetes[c][v] = Rien
  /\ ~releve => enMain = {}

Verifiees == {"verifiee", "inconnue"}
EnCours == {"inconnue", "lancee", "faite"}

\* Until its row is looked up and written, a request is covered by its nonce.
NoncesTenus ==
  \A c \in Commandes, v \in Voies : EnEtape(c, v, Verifiees) =>
    nonces[c] # -1 /\ maintenant <= nonces[c] + Retention

SeuleVerifiee ==
  \A c \in Commandes, v, w \in Voies :
    EnEtape(c, v, Verifiees) /\ EnEtape(c, w, Verifiees) => v = w

SeuleEnCours ==
  \A c \in Commandes, v, w \in Voies :
    EnEtape(c, v, EnCours) /\ EnEtape(c, w, EnCours) => v = w

\* From then on it is covered by the row of its intention.
Couverte(c) == \E e \in MemeIntention(c) : recues[e] # Rien
Inscrites ==
  \A c \in Commandes :
    /\ ~releve /\ effets[c] > 0 => Couverte(c)
    /\ \A v \in Voies : EnEtape(c, v, {"lancee", "faite"}) => Couverte(c)

Fraiches ==
  \A c \in Commandes, v \in Voies :
    /\ EnEtape(c, v, {"inconnue", "lancee"}) =>
         effets[c] = 0 /\ ~requetes[c][v].dejaFaite
    /\ EnEtape(c, v, {"verifiee"}) /\ requetes[c][v].dejaFaite => Couverte(c)

Rendues ==
  \A c \in Commandes : recues[c] \in {"SUCCESS", "FAILED"} =>
    \A v \in Voies : ~EnEtape(c, v, EnCours)

UneFois == ~releve => \A c \in Commandes : effets[c] <= 1

Cible ==
  /\ NoncesTenus /\ SeuleVerifiee /\ SeuleEnCours
  /\ Inscrites /\ Fraiches /\ Rendues /\ UneFois

LEMMA InitCible == Init => Releves /\ Cible
  BY DEF Init, Releves, Cible, NoncesTenus, SeuleVerifiee, SeuleEnCours,
    Inscrites, Fraiches, Rendues, UneFois, EnEtape, SansReprise

\* What the sender, the network and the deaths do to requests: they send new
\* ones, drop some, and no longer wait for others.
Adoucies ==
  \A c \in Commandes, v \in Voies : requetes'[c][v] # Rien =>
    \/ requetes'[c][v].etape \in {"vol", "repond"}
    \/ /\ requetes[c][v] # Rien
       /\ requetes'[c][v].etape = requetes[c][v].etape
       /\ requetes'[c][v].dejaFaite = requetes[c][v].dejaFaite

LEMMA Adoucir ==
  ASSUME Cible, Adoucies, UNCHANGED <<maintenant, releve, recues, nonces, effets>>
  PROVE  Cible'
<1>1. \A c \in Commandes, v \in Voies :
        /\ EnEtape(c, v, Verifiees)' => EnEtape(c, v, Verifiees)
        /\ EnEtape(c, v, EnCours)' => EnEtape(c, v, EnCours)
        /\ EnEtape(c, v, {"lancee", "faite"})' => EnEtape(c, v, {"lancee", "faite"})
        /\ EnEtape(c, v, {"inconnue", "lancee"})' =>
             /\ EnEtape(c, v, {"inconnue", "lancee"})
             /\ requetes'[c][v].dejaFaite = requetes[c][v].dejaFaite
        /\ EnEtape(c, v, {"verifiee"})' =>
             /\ EnEtape(c, v, {"verifiee"})
             /\ requetes'[c][v].dejaFaite = requetes[c][v].dejaFaite
  BY DEF Adoucies, EnEtape, Verifiees, EnCours
<1>2. \A c : Couverte(c)' <=> Couverte(c)
  BY DEF Couverte, MemeIntention
<1>3. NoncesTenus' BY <1>1 DEF Cible, NoncesTenus
<1>4. SeuleVerifiee' BY <1>1 DEF Cible, SeuleVerifiee
<1>5. SeuleEnCours' BY <1>1 DEF Cible, SeuleEnCours
<1>6. Inscrites' BY <1>1, <1>2 DEF Cible, Inscrites
<1>7. Fraiches' BY <1>1, <1>2 DEF Cible, Fraiches
<1>8. Rendues' BY <1>1 DEF Cible, Rendues
<1>9. UneFois' BY DEF Cible, UneFois
<1> QED BY <1>3, <1>4, <1>5, <1>6, <1>7, <1>8, <1>9 DEF Cible
LEMMA UneAdoucie ==
  ASSUME TypeOK, NEW c \in Commandes, NEW v \in Voies,
         NEW r \in Requetes \cup {Rien}, Avancee(c, v, r),
         \/ r = Rien
         \/ r.etape = "vol"
         \/ /\ requetes[c][v] # Rien
            /\ r.etape = requetes[c][v].etape
            /\ r.dejaFaite = requetes[c][v].dejaFaite
  PROVE  Adoucies
<1> SUFFICES ASSUME NEW a \in Commandes, NEW b \in Voies, requetes'[a][b] # Rien
             PROVE  \/ requetes'[a][b].etape \in {"vol", "repond"}
                    \/ /\ requetes[a][b] # Rien
                       /\ requetes'[a][b].etape = requetes[a][b].etape
                       /\ requetes'[a][b].dejaFaite = requetes[a][b].dejaFaite
  BY DEF Adoucies
<1>1. CASE a = c /\ b = v BY <1>1, Remplacee DEF TypeOK, Table
<1>2. CASE a # c \/ b # v BY <1>2, Remplacee DEF TypeOK, Table
<1> QED BY <1>1, <1>2

LEMMA EnvoyerCible ==
  ASSUME TypeOK, Releves, Cible, NEW c \in Commandes, Envoyer(c)
  PROVE  Releves' /\ Cible'
<1>1. UNCHANGED <<maintenant, releve, recues, nonces, effets, enMain>>
      /\ reprise' = reprise
  BY DEF Envoyer, Demander, Inscrire, LaisserCollecter, Absent, Livrer, Conclure,
    ConclureSansReponse, cible, telephone
<1>2. "directe" \in Voies BY DEF Voies
<1>3. CASE requetes' = requetes
  <2>1. Adoucies BY <1>3 DEF Adoucies
  <2>2. releve => \A e \in Commandes : envoi'[e] \notin {"inscrite", "attend"}
    BY <1>3, EnvolType DEF Envoyer, Demander, Inscrire, LaisserCollecter, Absent,
      Livrer, Conclure, ConclureSansReponse, Releves, TypeOK
  <2> QED BY <1>1, <1>3, <2>1, <2>2, Adoucir DEF Releves
<1>4. CASE Livrer(c)
  <2>1. Avancee(c, "directe", Envol) BY <1>4 DEF Livrer, Avancee
  <2>2. Adoucies BY <2>1, <1>2, EnvolType, UneAdoucie
  <2>3. ~releve BY <1>4 DEF Livrer, Releves
  <2> QED BY <1>1, <2>2, <2>3, Adoucir DEF Releves
<1>5. CASE Conclure(c)
  <2>1. Avancee(c, "directe", Rien) BY <1>5 DEF Conclure, Avancee
  <2>2. Adoucies BY <2>1, <1>2, UneAdoucie
  <2>3. ~releve BY <1>5 DEF Conclure, Releves
  <2> QED BY <1>1, <2>2, <2>3, Adoucir DEF Releves
<1>6. requetes' = requetes \/ Livrer(c) \/ Conclure(c)
  BY DEF Envoyer, Demander, Inscrire, LaisserCollecter, Absent,
    ConclureSansReponse
<1> QED BY <1>3, <1>4, <1>5, <1>6

LEMMA BattreCible ==
  ASSUME TypeOK, Releves, Cible, Battre
  PROVE  Releves' /\ Cible'
<1>1. CASE Expirer
  <2>1. Adoucies BY <1>1 DEF Expirer, Adoucies
  <2> QED BY <1>1, <2>1, Adoucir DEF Expirer, Releves, cible, telephone
<1>2. CASE Reprendre
  <2>1. Adoucies BY <1>2 DEF Reprendre, Adoucies
  <2> QED BY <1>2, <2>1, Adoucir DEF Reprendre, Releves, cible, telephone
<1>3. ASSUME NEW c \in Commandes, Relivrer(c) PROVE Releves' /\ Cible'
  <2>1. PICK v \in Essais : Avancee(c, v, Envol) BY <1>3 DEF Relivrer, Avancee
  <2>2. v \in Voies BY DEF Voies
  <2>3. Adoucies BY <2>1, <2>2, EnvolType, UneAdoucie
  <2> QED BY <1>3, <2>3, Adoucir DEF Relivrer, Releves, cible, telephone
<1>4. ASSUME NEW c \in Commandes, NEW v \in Essais, RepriseConclue(c, v)
      PROVE  Releves' /\ Cible'
  <2>1. v \in Voies BY DEF Voies
  <2>2. Avancee(c, v, Rien) BY <1>4 DEF RepriseConclue, Avancee
  <2>3. Adoucies BY <2>1, <2>2, UneAdoucie
  <2> QED BY <1>4, <2>3, Adoucir DEF RepriseConclue, Releves, cible, telephone
<1>5. ASSUME NEW c \in Commandes, NEW v \in Essais, RepriseSansReponse(c, v)
      PROVE  Releves' /\ Cible'
  <2>1. Adoucies BY <1>5 DEF RepriseSansReponse, Adoucies
  <2> QED BY <1>5, <2>1, Adoucir DEF RepriseSansReponse, Releves, SansReprise,
    cible, telephone
<1> QED BY <1>1, <1>2, <1>3, <1>4, <1>5 DEF Battre

LEMMA PannesCible ==
  ASSUME TypeOK, Releves, Cible, Pannes
  PROVE  Releves' /\ Cible'
<1>1. \A r \in Requetes :
        /\ [r EXCEPT !.attendue = FALSE] \in Requetes
        /\ [r EXCEPT !.attendue = FALSE].etape = r.etape
        /\ [r EXCEPT !.attendue = FALSE].dejaFaite = r.dejaFaite
  BY DEF Requetes
<1>2. ASSUME NEW c \in Commandes, NEW v \in Voies, Perdre(c, v)
      PROVE  Releves' /\ Cible'
  <2> DEFINE r == requetes[c][v]
             n == [r EXCEPT !.attendue = FALSE]
  <2>1. r # Rien /\ r \in Requetes BY <1>2 DEF Perdre, TypeOK
  <2>2. n \in Requetes /\ n.etape = r.etape /\ n.dejaFaite = r.dejaFaite
    BY <1>1, <2>1
  <2>3. Avancee(c, v, Rien) \/ Avancee(c, v, n) BY <1>2 DEF Perdre
  <2>4. Adoucies
    <3> HIDE DEF n
    <3> QED BY <2>1, <2>2, <2>3, UneAdoucie
  <2> QED BY <1>2, <2>1, <2>4, Adoucir DEF Perdre, Releves, emetteur, cible,
    telephone
<1>3. CASE MourirEmetteur
  <2>1. Adoucies
    <3> SUFFICES ASSUME NEW c \in Commandes, NEW v \in Voies,
                        requetes'[c][v] # Rien
                 PROVE  /\ requetes[c][v] # Rien
                        /\ requetes'[c][v].etape = requetes[c][v].etape
                        /\ requetes'[c][v].dejaFaite = requetes[c][v].dejaFaite
      BY DEF Adoucies
    <3>1. /\ requetes[c][v] # Rien
          /\ requetes'[c][v] = [requetes[c][v] EXCEPT !.attendue = FALSE]
      BY <1>3 DEF MourirEmetteur
    <3> QED BY <3>1, <1>1 DEF TypeOK
  <2> QED BY <1>3, <2>1, Adoucir DEF MourirEmetteur, Releves, SansReprise, cible
<1>4. CASE MourirCible
  <2>1. Adoucies BY <1>4 DEF MourirCible, Adoucies
  <2> QED BY <1>4, <2>1, Adoucir DEF MourirCible, Releves, emetteur, cible,
    telephone
<1> QED BY <1>2, <1>3, <1>4 DEF Pannes

LEMMA CollecterCible ==
  ASSUME TypeOK, Releves, Cible, Collecter
  PROVE  Releves' /\ Cible'
<1>1. CASE UNCHANGED cible
  <2>1. requetes' = requetes /\ UNCHANGED <<maintenant, releve, envoi, reprise>>
    BY DEF Collecter, Relever, Accomplir, Accuser, NoterAccuse, emetteur
  <2>2. Adoucies BY <2>1 DEF Adoucies
  <2>3. ~releve => enMain' = enMain
    BY DEF Collecter, Relever, Accomplir, Accuser, NoterAccuse, telephone
  <2> QED BY <1>1, <2>1, <2>2, <2>3, Adoucir DEF Releves, cible
<1>2. ASSUME NEW c \in Commandes, Accomplir(c) PROVE Releves' /\ Cible'
  <2>1. releve BY <1>2 DEF Accomplir, Releves
  <2>2. \A a \in Commandes, v \in Voies : requetes'[a][v] = Rien
    BY <1>2, <2>1 DEF Accomplir, Releves
  <2>3. releve' = releve BY <1>2 DEF Accomplir
  <2>4. Releves' BY <1>2, <2>1 DEF Accomplir, Releves, emetteur
  <2> QED BY <2>1, <2>2, <2>3, <2>4 DEF Cible, NoncesTenus, SeuleVerifiee,
    SeuleEnCours, Inscrites, Fraiches, Rendues, UneFois, EnEtape
<1>3. UNCHANGED cible \/ \E c \in Commandes : Accomplir(c)
  BY DEF Collecter, Relever, Accuser, NoterAccuse, cible
<1> QED BY <1>1, <1>2, <1>3
LEMMA VerifierCible ==
  ASSUME TypeOK, Releves, Cible, NEW c \in Commandes, NEW v \in Voies,
         Verifier(c, v)
  PROVE  Cible'
<1> DEFINE r == requetes[c][v]
           q == [r EXCEPT !.dejaFaite = DejaFaite(c)]
           n == [q EXCEPT !.etape = "verifiee"]
<1>1. r # Rien /\ r \in Requetes /\ r.etape = "vol" /\ ~releve
  BY DEF Verifier, EnEtape, TypeOK, Releves
<1>2. q \in Requetes BY <1>1 DEF Requetes, DejaFaite
<1>3. UNCHANGED <<maintenant, releve, recues, effets>> BY DEF Verifier
<1>4. \A a \in Commandes, b \in Voies :
        EnEtape(a, b, Verifiees) => Gardees[a] = nonces[a]
  BY MeshNumbers DEF Cible, NoncesTenus, Gardees, TypeOK, MeshNumbers
<1>5. ASSUME NEW s \in Statuts, Avancee(c, v, Reponse(q, s)),
             nonces' \in {nonces, Gardees}
      PROVE  Cible'
  <2>1. \A a \in Commandes, b \in Voies : requetes'[a][b] # Rien =>
          \/ requetes'[a][b].etape = "repond"
          \/ requetes'[a][b] = requetes[a][b]
    <3>1. Reponse(q, s) \in Requetes \cup {Rien}
          /\ (Reponse(q, s) # Rien => Reponse(q, s).etape = "repond")
      BY <1>2, ReponseType
    <3> DEFINE p == Reponse(q, s)
    <3>2. Avancee(c, v, p) BY <1>5
    <3>3. p \in Requetes \cup {Rien} /\ (p # Rien => p.etape = "repond") BY <3>1
    <3> HIDE DEF p
    <3>4. /\ requetes'[c][v] = p
          /\ \A a \in Commandes, b \in Voies :
               a # c \/ b # v => requetes'[a][b] = requetes[a][b]
      BY <3>2, <3>3, Remplacee DEF TypeOK, Table
    <3> QED BY <3>3, <3>4
  <2>2. \A a \in Commandes, b \in Voies :
          /\ EnEtape(a, b, Verifiees)' => EnEtape(a, b, Verifiees)
          /\ EnEtape(a, b, EnCours)' => EnEtape(a, b, EnCours)
          /\ EnEtape(a, b, {"lancee", "faite"})'
               => EnEtape(a, b, {"lancee", "faite"})
          /\ EnEtape(a, b, {"inconnue", "lancee"})' =>
               /\ EnEtape(a, b, {"inconnue", "lancee"})
               /\ requetes'[a][b] = requetes[a][b]
          /\ EnEtape(a, b, {"verifiee"})' =>
               /\ EnEtape(a, b, {"verifiee"})
               /\ requetes'[a][b] = requetes[a][b]
    BY <2>1 DEF EnEtape, Verifiees, EnCours
  <2>3. \A a : Couverte(a)' <=> Couverte(a)
    BY <1>3 DEF Couverte, MemeIntention
  <2>4. NoncesTenus' BY <2>2, <1>3, <1>4, <1>5 DEF Cible, NoncesTenus
  <2>5. SeuleVerifiee' BY <2>2 DEF Cible, SeuleVerifiee
  <2>6. SeuleEnCours' BY <2>2 DEF Cible, SeuleEnCours
  <2>7. Inscrites' BY <2>2, <2>3, <1>3 DEF Cible, Inscrites
  <2>8. Fraiches' BY <2>2, <2>3, <1>3 DEF Cible, Fraiches
  <2>9. Rendues' BY <2>2, <1>3 DEF Cible, Rendues
  <2>10. UneFois' BY <1>3 DEF Cible, UneFois
  <2> QED BY <2>4, <2>5, <2>6, <2>7, <2>8, <2>9, <2>10 DEF Cible
<1>6. ASSUME Avancee(c, v, n), Gardees[c] = -1, nonces' = Depensee(c, Gardees)
      PROVE  Cible'
  <2>1. n \in Requetes /\ n.etape = "verifiee" /\ n.dejaFaite = DejaFaite(c)
    BY <1>1 DEF Requetes, Etapes, DejaFaite
  <2>2. /\ requetes'[c][v] = n /\ n # Rien
        /\ \A a \in Commandes, b \in Voies :
             a # c \/ b # v => requetes'[a][b] = requetes[a][b]
    <3>1. Avancee(c, v, n) BY <1>6
    <3>2. n # Rien BY <2>1, RienEstAPart
    <3> HIDE DEF n
    <3> QED BY <2>1, <3>1, <3>2, Remplacee DEF TypeOK, Table
  <2> HIDE DEF n
  <2>3. \A a \in Commandes, b \in Voies :
          /\ EnEtape(a, b, EnCours)' => EnEtape(a, b, EnCours)
          /\ EnEtape(a, b, {"lancee", "faite"})'
               => EnEtape(a, b, {"lancee", "faite"})
          /\ EnEtape(a, b, {"inconnue", "lancee"})' =>
               /\ EnEtape(a, b, {"inconnue", "lancee"})
               /\ requetes'[a][b] = requetes[a][b]
          /\ EnEtape(a, b, {"verifiee"})' =>
               \/ a = c /\ b = v
               \/ /\ EnEtape(a, b, {"verifiee"})
                  /\ requetes'[a][b] = requetes[a][b]
          /\ EnEtape(a, b, Verifiees)' =>
               (a = c /\ b = v) \/ EnEtape(a, b, Verifiees)
    BY <2>1, <2>2 DEF EnEtape, Verifiees, EnCours
  <2>4. \A a : Couverte(a)' <=> Couverte(a)
    BY <1>3 DEF Couverte, MemeIntention
  <2>5. \A b \in Voies : ~EnEtape(c, b, Verifiees)
    BY <1>4, <1>6 DEF Cible, NoncesTenus
  <2>6. DejaFaite(c) => Couverte(c)
    BY <1>1 DEF DejaFaite, Cible, Inscrites, Couverte, MemeIntention
  <2>7. NoncesTenus'
    <3>1. \A a \in Commandes : nonces'[a] = IF a = c THEN maintenant ELSE Gardees[a]
      BY <1>6 DEF Depensee, Gardees
    <3>2. maintenant \in Int /\ Retention \in Nat /\ maintenant # -1
      BY MeshNumbers DEF MeshNumbers, TypeOK
    <3> SUFFICES ASSUME NEW a \in Commandes, NEW b \in Voies,
                        EnEtape(a, b, Verifiees)'
                 PROVE  nonces'[a] # -1 /\ maintenant <= nonces'[a] + Retention
      BY <1>3 DEF NoncesTenus
    <3>3. CASE a = c BY <3>1, <3>2, <3>3
    <3>4. CASE a # c
      BY <3>1, <3>4, <2>3, <1>4 DEF Cible, NoncesTenus
    <3> QED BY <3>3, <3>4
  <2>8. SeuleVerifiee' BY <2>3, <2>5 DEF Cible, SeuleVerifiee
  <2>9. SeuleEnCours' BY <2>3 DEF Cible, SeuleEnCours
  <2>10. Inscrites' BY <2>3, <2>4, <1>3 DEF Cible, Inscrites
  <2>11. Fraiches' BY <2>1, <2>2, <2>3, <2>4, <2>6, <1>3 DEF Cible, Fraiches
  <2>12. Rendues' BY <2>3, <1>3 DEF Cible, Rendues
  <2>13. UneFois' BY <1>3 DEF Cible, UneFois
  <2> QED BY <2>7, <2>8, <2>9, <2>10, <2>11, <2>12, <2>13 DEF Cible
<1>7. \/ Avancee(c, v, Reponse(q, "EXPIRED")) /\ nonces' = nonces
      \/ Avancee(c, v, Reponse(q, "DENIED")) /\ nonces' = Gardees
      \/ /\ Avancee(c, v, n) /\ Gardees[c] = -1
         /\ nonces' = Depensee(c, Gardees)
  BY DEF Verifier
<1>8. "EXPIRED" \in Statuts /\ "DENIED" \in Statuts BY DEF Statuts
<1> HIDE DEF q, n
<1> QED BY <1>5, <1>6, <1>7, <1>8

LEMMA ChercherCible ==
  ASSUME TypeOK, Releves, Cible, NEW c \in Commandes, NEW v \in Voies,
         Chercher(c, v)
  PROVE  Cible'
<1> DEFINE r == requetes[c][v]
           n == [r EXCEPT !.etape = "inconnue"]
<1>1. /\ r # Rien /\ r \in Requetes /\ r.etape = "verifiee" /\ ~releve
      /\ EnEtape(c, v, Verifiees) /\ EnEtape(c, v, {"verifiee"})
  BY DEF Chercher, EnEtape, TypeOK, Releves, Verifiees
<1>2. UNCHANGED <<maintenant, releve, recues, nonces, effets>>
  BY DEF Chercher, cible
<1>3. ASSUME NEW e \in ReponduePar(c), Avancee(c, v, Reponse(r, recues[e]))
      PROVE  Cible'
  <2> DEFINE p == Reponse(r, recues[e])
  <2>1. recues[e] \in Statuts
    BY <1>3 DEF ReponduePar, MemeIntention, TypeOK, Attente
  <2>2. p \in Requetes \cup {Rien} /\ (p # Rien => p.etape = "repond")
    BY <1>1, <2>1, ReponseType
  <2>3. Avancee(c, v, p) BY <1>3
  <2> HIDE DEF p
  <2>4. /\ requetes'[c][v] = p
        /\ \A a \in Commandes, b \in Voies :
             a # c \/ b # v => requetes'[a][b] = requetes[a][b]
    BY <2>2, <2>3, Remplacee DEF TypeOK, Table
  <2>5. Adoucies BY <2>2, <2>4 DEF Adoucies
  <2> QED BY <2>5, <1>2, Adoucir
<1>4. ASSUME Avancee(c, v, n), ReponduePar(c) = {} PROVE Cible'
  <2>1. n \in Requetes /\ n.etape = "inconnue" /\ n.dejaFaite = r.dejaFaite
    BY <1>1 DEF Requetes, Etapes
  <2>2. /\ requetes'[c][v] = n /\ n # Rien
        /\ \A a \in Commandes, b \in Voies :
             a # c \/ b # v => requetes'[a][b] = requetes[a][b]
    <3>1. Avancee(c, v, n) BY <1>4
    <3>2. n # Rien BY <2>1, RienEstAPart
    <3> HIDE DEF n
    <3> QED BY <2>1, <3>1, <3>2, Remplacee DEF TypeOK, Table
  <2> HIDE DEF n
  <2>3. ~Couverte(c) /\ recues[c] = Rien
    BY <1>4 DEF ReponduePar, Couverte, MemeIntention, TypeOK
  <2>4. effets[c] = 0 /\ ~r.dejaFaite
    <3>1. ~(effets[c] > 0) BY <1>1, <2>3 DEF Cible, Inscrites
    <3>2. effets[c] = 0 BY <3>1 DEF TypeOK
    <3>3. ~r.dejaFaite BY <1>1, <2>3 DEF Cible, Fraiches
    <3> QED BY <3>2, <3>3
  <2>5. \A b \in Voies : EnEtape(c, b, EnCours) => b = v
    <3> SUFFICES ASSUME NEW b \in Voies, EnEtape(c, b, EnCours) PROVE b = v
      OBVIOUS
    <3>1. ~EnEtape(c, b, {"lancee", "faite"}) BY <2>3 DEF Cible, Inscrites
    <3>2. EnEtape(c, b, Verifiees) BY <3>1 DEF EnEtape, EnCours, Verifiees
    <3> QED BY <3>2, <1>1 DEF Cible, SeuleVerifiee
  <2>6. \A a \in Commandes, b \in Voies :
          /\ EnEtape(a, b, Verifiees)' => EnEtape(a, b, Verifiees)
          /\ EnEtape(a, b, {"lancee", "faite"})'
               => EnEtape(a, b, {"lancee", "faite"})
          /\ EnEtape(a, b, {"verifiee"})' =>
               EnEtape(a, b, {"verifiee"}) /\ requetes'[a][b] = requetes[a][b]
          /\ EnEtape(a, b, EnCours)' =>
               (a = c /\ b = v) \/ EnEtape(a, b, EnCours)
          /\ EnEtape(a, b, {"inconnue", "lancee"})' =>
               \/ a = c /\ b = v
               \/ /\ EnEtape(a, b, {"inconnue", "lancee"})
                  /\ requetes'[a][b] = requetes[a][b]
    BY <2>1, <2>2, <1>1 DEF EnEtape, Verifiees, EnCours
  <2>7. \A a : Couverte(a)' <=> Couverte(a)
    BY <1>2 DEF Couverte, MemeIntention
  <2>8. NoncesTenus' BY <2>6, <1>2 DEF Cible, NoncesTenus
  <2>9. SeuleVerifiee' BY <2>6 DEF Cible, SeuleVerifiee
  <2>10. SeuleEnCours' BY <2>5, <2>6 DEF Cible, SeuleEnCours
  <2>11. Inscrites' BY <2>6, <2>7, <1>2 DEF Cible, Inscrites
  <2>12. Fraiches' BY <2>1, <2>2, <2>4, <2>6, <2>7, <1>2 DEF Cible, Fraiches
  <2>13. Rendues' BY <2>3, <2>6, <1>2, RienEstAPart DEF Cible, Rendues, Statuts
  <2>14. UneFois' BY <1>2 DEF Cible, UneFois
  <2> QED BY <2>8, <2>9, <2>10, <2>11, <2>12, <2>13, <2>14 DEF Cible
<1> QED
  <2>1. \/ \E e \in ReponduePar(c) : Avancee(c, v, Reponse(r, recues[e]))
        \/ ReponduePar(c) = {} /\ Avancee(c, v, n)
    BY DEF Chercher
  <2> QED BY <2>1, <1>3, <1>4

LEMMA EnregistrerCible ==
  ASSUME TypeOK, Releves, Cible, NEW c \in Commandes, NEW v \in Voies,
         Enregistrer(c, v)
  PROVE  Cible'
<1> DEFINE r == requetes[c][v]
           n == [r EXCEPT !.etape = "lancee"]
<1>1. /\ r # Rien /\ r \in Requetes /\ r.etape = "inconnue"
      /\ EnEtape(c, v, EnCours) /\ EnEtape(c, v, {"inconnue", "lancee"})
  BY DEF Enregistrer, EnEtape, TypeOK, EnCours
<1>2. UNCHANGED <<maintenant, releve, nonces, effets>>
  BY DEF Enregistrer
<1>3. /\ n \in Requetes /\ n.etape = "lancee" /\ n.dejaFaite = r.dejaFaite
      /\ n # Rien
  BY <1>1, RienEstAPart DEF Requetes, Etapes
<1>4. /\ requetes'[c][v] = n
      /\ \A a \in Commandes, b \in Voies :
           a # c \/ b # v => requetes'[a][b] = requetes[a][b]
  <2>1. Avancee(c, v, n) BY DEF Enregistrer
  <2> HIDE DEF n
  <2> QED BY <1>3, <2>1, Remplacee DEF TypeOK, Table
<1> HIDE DEF n
<1>5. \A e \in Commandes : recues'[e] # recues[e] =>
        e = c /\ recues'[e] = "RUNNING"
  BY DEF Enregistrer, StatutRecu, TypeOK
<1>6. \A e \in Commandes : recues[e] # Rien => recues'[e] # Rien
  BY <1>5, RienEstAPart DEF Statuts
<1>7. \A a : Couverte(a) => Couverte(a)'
  BY <1>6 DEF Couverte, MemeIntention
<1>8. Couverte(c)'
  <2>1. CASE Connues(recues, c) = {}
    <3>1. recues'[c] = "RUNNING" BY <2>1 DEF Enregistrer, StatutRecu, TypeOK
    <3>2. "RUNNING" # Rien BY RienEstAPart DEF Statuts
    <3> QED BY <3>1, <3>2 DEF Couverte, MemeIntention
  <2>2. CASE Connues(recues, c) # {}
    BY <2>2, <1>7 DEF Connues, Couverte
  <2> QED BY <2>1, <2>2
<1>9. \A a \in Commandes, b \in Voies :
        /\ EnEtape(a, b, Verifiees)' => EnEtape(a, b, Verifiees)
        /\ EnEtape(a, b, EnCours)' => EnEtape(a, b, EnCours)
        /\ EnEtape(a, b, {"lancee", "faite"})' =>
             a = c \/ EnEtape(a, b, {"lancee", "faite"})
        /\ EnEtape(a, b, {"inconnue", "lancee"})' =>
             /\ EnEtape(a, b, {"inconnue", "lancee"})
             /\ requetes'[a][b].dejaFaite = requetes[a][b].dejaFaite
        /\ EnEtape(a, b, {"verifiee"})' =>
             EnEtape(a, b, {"verifiee"}) /\ requetes'[a][b] = requetes[a][b]
  BY <1>1, <1>3, <1>4 DEF EnEtape, Verifiees, EnCours
<1>10. NoncesTenus' BY <1>9, <1>2 DEF Cible, NoncesTenus
<1>11. SeuleVerifiee' BY <1>9 DEF Cible, SeuleVerifiee
<1>12. SeuleEnCours' BY <1>9 DEF Cible, SeuleEnCours
<1>13. Inscrites' BY <1>9, <1>7, <1>8, <1>2 DEF Cible, Inscrites
<1>14. Fraiches' BY <1>9, <1>7, <1>2 DEF Cible, Fraiches
<1>15. Rendues' BY <1>9, <1>5 DEF Cible, Rendues
<1>16. UneFois' BY <1>2 DEF Cible, UneFois
<1> QED BY <1>10, <1>11, <1>12, <1>13, <1>14, <1>15, <1>16 DEF Cible

LEMMA ExecuterCible ==
  ASSUME TypeOK, Releves, Cible, NEW c \in Commandes, NEW v \in Voies,
         Executer(c, v)
  PROVE  Cible'
<1> DEFINE r == requetes[c][v]
<1>1. /\ r # Rien /\ r \in Requetes /\ r.etape = "lancee"
      /\ EnEtape(c, v, EnCours) /\ EnEtape(c, v, {"inconnue", "lancee"})
      /\ EnEtape(c, v, {"lancee", "faite"})
  BY DEF Executer, EnEtape, TypeOK, EnCours
<1>2. UNCHANGED <<maintenant, releve, recues, nonces>> BY DEF Executer
<1>3. /\ \A e \in Commandes : e # c => effets'[e] = effets[e]
      /\ effets'[c] \in {0, 1}
  BY <1>1 DEF Executer, Cible, Fraiches, TypeOK
<1>4. PICK ok \in BOOLEAN :
        Avancee(c, v, [r EXCEPT !.etape = "faite", !.verdict = Verdict(ok)])
  BY DEF Executer
<1> DEFINE n == [r EXCEPT !.etape = "faite", !.verdict = Verdict(ok)]
<1>5. n \in Requetes /\ n.etape = "faite" /\ n # Rien
  BY <1>1, RienEstAPart DEF Requetes, Etapes, Verdict, Statuts
<1>6. /\ requetes'[c][v] = n
      /\ \A a \in Commandes, b \in Voies :
           a # c \/ b # v => requetes'[a][b] = requetes[a][b]
  <2>1. Avancee(c, v, n) BY <1>4
  <2> HIDE DEF n
  <2> QED BY <1>5, <2>1, Remplacee DEF TypeOK, Table
<1> HIDE DEF n
<1>7. \A a : Couverte(a)' <=> Couverte(a)
  BY <1>2 DEF Couverte, MemeIntention
<1>8. \A b \in Voies : EnEtape(c, b, EnCours) => b = v
  BY <1>1 DEF Cible, SeuleEnCours
<1>9. \A a \in Commandes, b \in Voies :
        /\ EnEtape(a, b, Verifiees)' => EnEtape(a, b, Verifiees)
        /\ EnEtape(a, b, EnCours)' => EnEtape(a, b, EnCours)
        /\ EnEtape(a, b, {"lancee", "faite"})'
             => EnEtape(a, b, {"lancee", "faite"})
        /\ EnEtape(a, b, {"inconnue", "lancee"})' =>
             /\ EnEtape(a, b, {"inconnue", "lancee"}) /\ (a # c \/ b # v)
             /\ requetes'[a][b] = requetes[a][b]
        /\ EnEtape(a, b, {"verifiee"})' =>
             EnEtape(a, b, {"verifiee"}) /\ requetes'[a][b] = requetes[a][b]
  BY <1>1, <1>5, <1>6 DEF EnEtape, Verifiees, EnCours
<1>10. \A a \in Commandes, b \in Voies :
         EnEtape(a, b, {"inconnue", "lancee"})' => a # c
  BY <1>8, <1>9 DEF EnEtape, EnCours
<1>11. NoncesTenus' BY <1>9, <1>2 DEF Cible, NoncesTenus
<1>12. SeuleVerifiee' BY <1>9 DEF Cible, SeuleVerifiee
<1>13. SeuleEnCours' BY <1>9 DEF Cible, SeuleEnCours
<1>14. Inscrites'
  <2>1. Couverte(c) BY <1>1 DEF Cible, Inscrites
  <2> QED BY <2>1, <1>2, <1>3, <1>7, <1>9 DEF Cible, Inscrites
<1>15. Fraiches' BY <1>2, <1>3, <1>7, <1>9, <1>10 DEF Cible, Fraiches
<1>16. Rendues' BY <1>9, <1>2 DEF Cible, Rendues
<1>17. UneFois' BY <1>2, <1>3 DEF Cible, UneFois
<1> QED BY <1>11, <1>12, <1>13, <1>14, <1>15, <1>16, <1>17 DEF Cible

LEMMA NoterVerdictCible ==
  ASSUME TypeOK, Faites, Cible, NEW c \in Commandes, NEW v \in Voies,
         NoterVerdict(c, v)
  PROVE  Cible'
<1> DEFINE r == requetes[c][v]
           s == IF recues[c] = Rien THEN "ERREUR" ELSE r.verdict
           p == Reponse(r, s)
<1>1. /\ r # Rien /\ r \in Requetes /\ EnEtape(c, v, EnCours)
      /\ r.verdict \in {"SUCCESS", "FAILED"}
  BY DEF NoterVerdict, EnEtape, TypeOK, EnCours, Faites
<1>2. UNCHANGED <<maintenant, releve, nonces, effets>> BY DEF NoterVerdict
<1>3. p \in Requetes \cup {Rien} /\ (p # Rien => p.etape = "repond")
  <2>1. s \in Statuts \cup {"ERREUR"} BY <1>1 DEF Statuts
  <2> QED BY <1>1, <2>1, ReponseType
<1>4. Avancee(c, v, p) BY DEF NoterVerdict
<1> HIDE DEF p
<1>5. /\ requetes'[c][v] = p
      /\ \A a \in Commandes, b \in Voies :
           a # c \/ b # v => requetes'[a][b] = requetes[a][b]
  BY <1>3, <1>4, Remplacee DEF TypeOK, Table
<1>6. /\ \A e \in Commandes : e # c => recues'[e] = recues[e]
      /\ recues[c] = Rien => recues'[c] = Rien
      /\ recues[c] # Rien => recues'[c] # Rien
  BY <1>1, RienEstAPart DEF NoterVerdict, Marquer, TypeOK, Statuts
<1>7. \A a : Couverte(a)' <=> Couverte(a)
  BY <1>6 DEF Couverte, MemeIntention
<1>8. \A b \in Voies : EnEtape(c, b, EnCours) => b = v
  BY <1>1 DEF Cible, SeuleEnCours
<1>9. \A a \in Commandes, b \in Voies :
        /\ EnEtape(a, b, Verifiees)' => EnEtape(a, b, Verifiees)
        /\ EnEtape(a, b, EnCours)' =>
             EnEtape(a, b, EnCours) /\ (a # c \/ b # v)
        /\ EnEtape(a, b, {"lancee", "faite"})'
             => EnEtape(a, b, {"lancee", "faite"})
        /\ EnEtape(a, b, {"inconnue", "lancee"})' =>
             /\ EnEtape(a, b, {"inconnue", "lancee"})
             /\ requetes'[a][b] = requetes[a][b]
        /\ EnEtape(a, b, {"verifiee"})' =>
             EnEtape(a, b, {"verifiee"}) /\ requetes'[a][b] = requetes[a][b]
  BY <1>3, <1>5 DEF EnEtape, Verifiees, EnCours
<1>10. NoncesTenus' BY <1>9, <1>2 DEF Cible, NoncesTenus
<1>11. SeuleVerifiee' BY <1>9 DEF Cible, SeuleVerifiee
<1>12. SeuleEnCours' BY <1>9 DEF Cible, SeuleEnCours
<1>13. Inscrites' BY <1>9, <1>7, <1>2 DEF Cible, Inscrites
<1>14. Fraiches' BY <1>9, <1>7, <1>2 DEF Cible, Fraiches
<1>15. Rendues' BY <1>6, <1>8, <1>9 DEF Cible, Rendues
<1>16. UneFois' BY <1>2 DEF Cible, UneFois
<1> QED BY <1>10, <1>11, <1>12, <1>13, <1>14, <1>15, <1>16 DEF Cible

LEMMA HorlogesCible ==
  ASSUME TypeOK, Cible, ExpirerCible \/ Tic
  PROVE  Cible'
<1>1. UNCHANGED <<releve, requetes, nonces, effets>>
  BY DEF ExpirerCible, Tic, cible
<1>2. \A a \in Commandes, b \in Voies :
        /\ EnEtape(a, b, Verifiees)' <=> EnEtape(a, b, Verifiees)
        /\ EnEtape(a, b, EnCours)' <=> EnEtape(a, b, EnCours)
        /\ EnEtape(a, b, {"lancee", "faite"})'
             <=> EnEtape(a, b, {"lancee", "faite"})
        /\ EnEtape(a, b, {"inconnue", "lancee"})'
             <=> EnEtape(a, b, {"inconnue", "lancee"})
        /\ EnEtape(a, b, {"verifiee"})' <=> EnEtape(a, b, {"verifiee"})
  BY <1>1 DEF EnEtape
<1>3. \A e \in Commandes :
        /\ recues[e] # Rien => recues'[e] # Rien
        /\ recues'[e] \in {"SUCCESS", "FAILED"} => recues'[e] = recues[e]
  BY RienEstAPart DEF ExpirerCible, Tic, cible, Perimer, TypeOK, Statuts
<1>4. \A a : Couverte(a) => Couverte(a)'
  BY <1>3 DEF Couverte, MemeIntention
<1>5. NoncesTenus'
  <2>1. CASE ExpirerCible BY <2>1, <1>1, <1>2 DEF ExpirerCible, Cible, NoncesTenus
  <2>2. CASE Tic
    BY <2>2, <1>1, <1>2, MeshNumbers DEF Tic, Cible, NoncesTenus, Verifiees,
      TypeOK, MeshNumbers
  <2> QED BY <2>1, <2>2
<1>6. SeuleVerifiee' BY <1>2 DEF Cible, SeuleVerifiee
<1>7. SeuleEnCours' BY <1>2 DEF Cible, SeuleEnCours
<1>8. Inscrites' BY <1>1, <1>2, <1>4 DEF Cible, Inscrites
<1>9. Fraiches' BY <1>1, <1>2, <1>4 DEF Cible, Fraiches
<1>10. Rendues' BY <1>2, <1>3 DEF Cible, Rendues
<1>11. UneFois' BY <1>1 DEF Cible, UneFois
<1> QED BY <1>5, <1>6, <1>7, <1>8, <1>9, <1>10, <1>11 DEF Cible

Inv == TypeOK /\ Faites /\ Releves /\ Cible

LEMMA NextInv == Inv /\ [Next]_vars => Inv'
<1> SUFFICES ASSUME TypeOK, Faites, Releves, Cible, [Next]_vars
             PROVE  Releves' /\ Cible'
  BY NextType DEF Inv
<1>1. CASE UNCHANGED vars
  <2>1. Adoucies BY <1>1 DEF vars, Adoucies
  <2> QED BY <1>1, <2>1, Adoucir DEF vars, emetteur, cible, telephone, Releves
<1>2. ASSUME NEW c \in Commandes, NEW v \in Voies, Recevoir(c, v)
      PROVE  Releves' /\ Cible'
  <2>1. Cible'
    BY <1>2, VerifierCible, ChercherCible, EnregistrerCible, ExecuterCible,
      NoterVerdictCible DEF Recevoir
  <2>2. requetes[c][v] # Rien
    BY <1>2 DEF Recevoir, Verifier, Chercher, Enregistrer, Executer,
      NoterVerdict, EnEtape
  <2>3. ~releve BY <2>2 DEF Releves
  <2>4. releve' = releve /\ enMain' = enMain
    BY <1>2 DEF Recevoir, Verifier, Chercher, Enregistrer, Executer,
      NoterVerdict, telephone
  <2> QED BY <2>1, <2>3, <2>4 DEF Releves
<1>3. CASE ExpirerCible \/ Tic
  BY <1>3, HorlogesCible DEF ExpirerCible, Tic, Releves, emetteur, telephone
<1>4. CASE Next
  BY <1>2, <1>3, <1>4, EnvoyerCible, BattreCible, PannesCible, CollecterCible
    DEF Next
<1> QED BY <1>1, <1>4

LEMMA Invariante == Spec => []Inv
<1>1. Init => Inv BY InitType, InitCible DEF Inv
<1> QED BY <1>1, NextInv, PTL DEF Spec

\* A target that is dialled carries each command out at most once, whatever is
\* lost, delivered again or dies between two of its transactions, and it starts
\* none whose intention was carried out before it arrived.
THEOREM CarriedOutOnce == Spec => []UneSeuleFois
<1>1. Inv => UneSeuleFois
  BY DEF Inv, Cible, UneFois, Fraiches, UneSeuleFois
<1> QED BY <1>1, Invariante, PTL

\* Once the target has written what came of a command, no delivery, expiry or
\* death changes it.
THEOREM VerdictsStand == Spec => VerdictTenu
<1>1. Inv /\ [Next]_vars =>
        [\A c \in Commandes :
           recues[c] \in {"SUCCESS", "FAILED"} => recues'[c] = recues[c]]_vars
  <2> SUFFICES ASSUME Inv, Next, NEW c \in Commandes,
                      recues[c] \in {"SUCCESS", "FAILED"}
               PROVE  recues'[c] = recues[c]
    OBVIOUS
  <2>0. recues[c] # Rien /\ recues \in [Commandes -> (Statuts \ Attente) \cup {Rien}]
    BY RienEstAPart DEF Statuts, Inv, TypeOK
  <2>1. ASSUME NEW e \in Commandes, NEW v \in Voies, Recevoir(e, v)
        PROVE  recues'[c] = recues[c]
    <3>1. CASE Verifier(e, v) \/ Chercher(e, v) \/ Executer(e, v)
      BY <3>1 DEF Verifier, Chercher, Executer, cible
    <3>2. CASE Enregistrer(e, v)
      <4>1. c = e => Connues(recues, e) # {}
        BY <2>0 DEF Connues, MemeIntention
      <4> QED BY <3>2, <4>1, <2>0 DEF Enregistrer
    <3>3. CASE NoterVerdict(e, v)
      <4>1. EnEtape(e, v, EnCours) BY <3>3 DEF NoterVerdict, EnEtape, EnCours
      <4>2. c # e BY <4>1 DEF Inv, Cible, Rendues
      <4> QED BY <3>3, <4>2, <2>0 DEF NoterVerdict, Marquer
    <3> QED BY <2>1, <3>1, <3>2, <3>3 DEF Recevoir
  <2>2. CASE ExpirerCible
    BY <2>2 DEF ExpirerCible, Perimer, Vivants, Attente
  <2>3. ASSUME NEW e \in Commandes, Envoyer(e) PROVE recues'[c] = recues[c]
    BY <2>3 DEF Envoyer, Demander, Inscrire, LaisserCollecter, Absent, Livrer,
      Conclure, ConclureSansReponse, cible
  <2>4. CASE Battre \/ Collecter \/ Tic \/ Pannes
    BY <2>4 DEF Battre, Expirer, Reprendre, Relivrer, RepriseConclue,
      RepriseSansReponse, Collecter, Relever, Accomplir, Accuser, NoterAccuse,
      Tic, Pannes, Perdre, MourirEmetteur, MourirCible, cible
  <2> QED BY <2>1, <2>2, <2>3, <2>4 DEF Next
<1> QED BY <1>1, Invariante, PTL DEF Spec, VerdictTenu
-----------------------------------------------------------------------------
(* The sender: what it may say of a command                                *)

ReponduesVraies ==
  \A c \in Commandes, v \in Voies :
    EnEtape(c, v, {"faite", "repond"}) /\ requetes[c][v].verdict = "SUCCESS"
      => DejaFaite(c)
DitVrai(table) == \A c \in Commandes : table[c] = "SUCCESS" => DejaFaite(c)

\* Everywhere a success is written or carried, the intention was carried out.
Vraies ==
  ReponduesVraies /\ DitVrai(recues) /\ DitVrai(compteRendu) /\ DitVrai(file)

LEMMA InitVraies == Init => Vraies
  BY RienEstAPart DEF Init, Vraies, ReponduesVraies, DitVrai, EnEtape, Statuts

\* What was done stays done.
LEMMA EffetsCroissent ==
  ASSUME TypeOK, [Next]_vars
  PROVE  \A c : DejaFaite(c) => DejaFaite(c)'
<1>1. \A e \in Commandes : effets[e] > 0 => effets'[e] > 0
  <2> SUFFICES ASSUME NEW e \in Commandes, effets[e] > 0 PROVE effets'[e] > 0
    OBVIOUS
  <2>1. effets \in [Commandes -> Nat] BY DEF TypeOK
  <2>2. ASSUME NEW c \in Commandes, effets' = [effets EXCEPT ![c] = @ + 1]
        PROVE  effets'[e] > 0
    BY <2>1, <2>2
  <2>3. effets' = effets
        \/ \E c \in Commandes : effets' = [effets EXCEPT ![c] = @ + 1]
    <3>1. ASSUME NEW c \in Commandes, NEW v \in Voies, Recevoir(c, v)
          PROVE  effets' = effets \/ effets' = [effets EXCEPT ![c] = @ + 1]
      <4>1. CASE Executer(c, v) BY <4>1 DEF Executer
      <4> QED BY <3>1, <4>1 DEF Recevoir, Verifier, Chercher, Enregistrer,
        NoterVerdict, cible
    <3>2. ASSUME NEW c \in Commandes, Envoyer(c) PROVE effets' = effets
      BY <3>2 DEF Envoyer, Demander, Inscrire, LaisserCollecter, Absent, Livrer,
        Conclure, ConclureSansReponse, cible
    <3>3. CASE Battre
      BY <3>3 DEF Battre, Expirer, Reprendre, Relivrer, RepriseConclue,
        RepriseSansReponse, cible
    <3>4. CASE Collecter
      BY <3>4 DEF Collecter, Relever, Accomplir, Accuser, NoterAccuse, cible
    <3>5. CASE ExpirerCible \/ Tic \/ Pannes
      BY <3>5 DEF ExpirerCible, Tic, Pannes, Perdre, MourirEmetteur,
        MourirCible, cible
    <3>6. CASE UNCHANGED vars BY <3>6 DEF vars, cible
    <3> QED BY <3>1, <3>2, <3>3, <3>4, <3>5, <3>6 DEF Next
  <2> QED BY <2>2, <2>3
<1> QED BY <1>1 DEF DejaFaite, MemeIntention

LEMMA MemesFaites ==
  ASSUME NEW c \in Commandes, NEW e \in MemeIntention(c), DejaFaite(e)
  PROVE  DejaFaite(c)
  BY DEF DejaFaite, MemeIntention

\* Who carries an answer that says SUCCESS, after a step.
LEMMA RequetesVraies ==
  ASSUME TypeOK, Vraies, [Next]_vars
  PROVE  ReponduesVraies'
<1> SUFFICES ASSUME NEW c \in Commandes, NEW v \in Voies,
                    EnEtape(c, v, {"faite", "repond"})',
                    requetes'[c][v].verdict = "SUCCESS"
             PROVE  DejaFaite(c)'
  BY DEF ReponduesVraies
<1>0. /\ requetes \in Table
      /\ \A a, b : EnEtape(a, b, {"faite", "repond"}) <=>
           requetes[a][b] # Rien /\ requetes[a][b].etape \in {"faite", "repond"}
      /\ requetes'[c][v] # Rien
      /\ requetes'[c][v].etape \in {"faite", "repond"}
  BY DEF TypeOK, Table, EnEtape
<1> DEFINE Deja == /\ requetes[c][v] # Rien
                   /\ requetes[c][v].etape \in {"faite", "repond"}
                   /\ requetes[c][v].verdict = requetes'[c][v].verdict
<1>1. CASE Deja
  <2>1. DejaFaite(c) BY <1>0, <1>1 DEF Vraies, ReponduesVraies
  <2> QED BY <2>1, EffetsCroissent
<1>2. CASE requetes' = requetes BY <1>0, <1>1, <1>2
<1>3. ASSUME NEW a \in Commandes, NEW b \in Voies,
             NEW r \in Requetes \cup {Rien}, Avancee(a, b, r),
             \/ r = Rien
             \/ r.etape \notin {"faite", "repond"}
             \/ r.verdict = "SUCCESS" => DejaFaite(a)
             \/ /\ requetes[a][b] # Rien /\ requetes[a][b].etape = r.etape
                /\ requetes[a][b].verdict = r.verdict
      PROVE  DejaFaite(c)'
  <2>1. CASE a = c /\ b = v
    <3>1. requetes'[c][v] = r BY <1>0, <1>3, <2>1, Remplacee
    <3>2. CASE DejaFaite(c) BY <3>2, EffetsCroissent
    <3> QED BY <1>0, <1>1, <1>3, <2>1, <3>1, <3>2
  <2>2. CASE a # c \/ b # v
    <3>1. requetes'[c][v] = requetes[c][v] BY <1>0, <1>3, <2>2, Remplacee
    <3> QED BY <1>0, <1>1, <3>1
  <2> QED BY <2>1, <2>2
<1>4. Rien \in Requetes \cup {Rien} /\ Envol \in Requetes \cup {Rien}
      /\ Envol.etape = "vol" /\ "directe" \in Voies /\ Essais \subseteq Voies
  BY EnvolType DEF Voies
<1>5. ASSUME NEW a \in Commandes, Envoyer(a) PROVE DejaFaite(c)'
  <2>1. CASE Livrer(a)
    <3>1. Avancee(a, "directe", Envol) BY <2>1 DEF Livrer, Avancee
    <3> QED BY <3>1, <1>3, <1>4
  <2>2. CASE Conclure(a)
    <3>1. Avancee(a, "directe", Rien) BY <2>2 DEF Conclure, Avancee
    <3> QED BY <3>1, <1>3, <1>4
  <2>3. requetes' = requetes \/ Livrer(a) \/ Conclure(a)
    BY <1>5 DEF Envoyer, Demander, Inscrire, LaisserCollecter, Absent,
      ConclureSansReponse
  <2> QED BY <2>1, <2>2, <2>3, <1>2
<1>6. CASE Battre
  <2>1. ASSUME NEW a \in Commandes, Relivrer(a) PROVE DejaFaite(c)'
    <3>1. PICK b \in Essais : Avancee(a, b, Envol) BY <2>1 DEF Relivrer, Avancee
    <3> QED BY <3>1, <1>3, <1>4
  <2>2. ASSUME NEW a \in Commandes, NEW b \in Essais, RepriseConclue(a, b)
        PROVE  DejaFaite(c)'
    <3>1. Avancee(a, b, Rien) BY <2>2 DEF RepriseConclue, Avancee
    <3> QED BY <3>1, <1>3, <1>4
  <2>3. \/ requetes' = requetes
        \/ \E a \in Commandes : Relivrer(a)
        \/ \E a \in Commandes, b \in Essais : RepriseConclue(a, b)
    BY <1>6 DEF Battre, Expirer, Reprendre, RepriseSansReponse
  <2> QED BY <2>1, <2>2, <2>3, <1>2
<1>7. ASSUME NEW a \in Commandes, NEW b \in Voies, Recevoir(a, b)
      PROVE  DejaFaite(c)'
  <2> DEFINE r == requetes[a][b]
  <2>1. r \in Requetes
    <3>1. requetes[a][b] # Rien
      BY <1>7 DEF Recevoir, Verifier, Chercher, Enregistrer, Executer,
        NoterVerdict, EnEtape
    <3> QED BY <3>1 DEF TypeOK
  <2>2. ASSUME NEW q \in Requetes, NEW s \in Statuts \cup {"ERREUR"},
               Avancee(a, b, Reponse(q, s)), s = "SUCCESS" => DejaFaite(a)
        PROVE  DejaFaite(c)'
    <3> DEFINE p == Reponse(q, s)
    <3>1. /\ p \in Requetes \cup {Rien}
          /\ p = Rien \/ (p.verdict = "SUCCESS" => DejaFaite(a))
      BY <2>2, ReponseType
    <3>2. Avancee(a, b, p) BY <2>2
    <3> HIDE DEF p
    <3> QED BY <3>1, <3>2, <1>3
  <2>3. CASE Verifier(a, b)
    <3> DEFINE q == [r EXCEPT !.dejaFaite = DejaFaite(a)]
               n == [q EXCEPT !.etape = "verifiee"]
    <3>1. q \in Requetes BY <2>1 DEF Requetes, DejaFaite
    <3>2. /\ n \in Requetes /\ n.etape = "verifiee"
      BY <2>1 DEF Requetes, DejaFaite, Etapes
    <3>3. \/ Avancee(a, b, Reponse(q, "EXPIRED"))
          \/ Avancee(a, b, Reponse(q, "DENIED"))
          \/ Avancee(a, b, n)
      BY <2>3 DEF Verifier
    <3>4. "EXPIRED" \in Statuts /\ "DENIED" \in Statuts BY DEF Statuts
    <3> HIDE DEF q, n
    <3> QED BY <3>1, <3>2, <3>3, <3>4, <2>2, <1>3
  <2>4. CASE Chercher(a, b)
    <3>1. ASSUME NEW e \in ReponduePar(a), Avancee(a, b, Reponse(r, recues[e]))
          PROVE  DejaFaite(c)'
      <4>1. recues[e] \in Statuts
        BY <3>1 DEF ReponduePar, MemeIntention, TypeOK, Attente
      <4>2. recues[e] = "SUCCESS" => DejaFaite(a)
        BY MemesFaites DEF ReponduePar, MemeIntention, Vraies, DitVrai
      <4> QED BY <2>1, <2>2, <3>1, <4>1, <4>2
    <3> DEFINE n == [r EXCEPT !.etape = "inconnue"]
    <3>2. n \in Requetes /\ n.etape = "inconnue" BY <2>1 DEF Requetes, Etapes
    <3>3. \/ \E e \in ReponduePar(a) : Avancee(a, b, Reponse(r, recues[e]))
          \/ Avancee(a, b, n)
      BY <2>4 DEF Chercher
    <3> HIDE DEF n
    <3> QED BY <3>1, <3>2, <3>3, <1>3
  <2>5. CASE Enregistrer(a, b)
    <3> DEFINE n == [r EXCEPT !.etape = "lancee"]
    <3>1. n \in Requetes /\ n.etape = "lancee" BY <2>1 DEF Requetes, Etapes
    <3>2. Avancee(a, b, n) BY <2>5 DEF Enregistrer
    <3> HIDE DEF n
    <3> QED BY <3>1, <3>2, <1>3
  <2>6. CASE Executer(a, b)
    <3>1. PICK ok \in BOOLEAN :
            /\ effets' = IF ok THEN [effets EXCEPT ![a] = @ + 1] ELSE effets
            /\ Avancee(a, b, [r EXCEPT !.etape = "faite",
                                       !.verdict = Verdict(ok)])
      BY <2>6 DEF Executer
    <3> DEFINE n == [r EXCEPT !.etape = "faite", !.verdict = Verdict(ok)]
    <3>2. /\ n \in Requetes /\ n.verdict = Verdict(ok)
      BY <2>1 DEF Requetes, Etapes, Verdict, Statuts
    <3>3. Avancee(a, b, n) BY <3>1
    <3> HIDE DEF n
    <3>4. CASE ok
      <4>1. effets'[a] > 0 BY <3>1, <3>4 DEF TypeOK
      <4>2. DejaFaite(a)' BY <4>1 DEF DejaFaite, MemeIntention
      <4>3. CASE a = c BY <4>2, <4>3
      <4>4. CASE a # c
        <5>1. requetes'[c][v] = requetes[c][v]
          BY <1>0, <3>2, <3>3, <4>4, Remplacee
        <5> QED BY <1>0, <1>1, <5>1
      <4> QED BY <4>3, <4>4
    <3>5. CASE ~ok
      <4>1. n.verdict # "SUCCESS" BY <3>2, <3>5 DEF Verdict
      <4> QED BY <3>2, <3>3, <4>1, <1>3
    <3> QED BY <3>4, <3>5
  <2>7. CASE NoterVerdict(a, b)
    <3> DEFINE s == IF recues[a] = Rien THEN "ERREUR" ELSE r.verdict
    <3>1. Avancee(a, b, Reponse(r, s)) BY <2>7 DEF NoterVerdict
    <3>2. r.verdict = "SUCCESS" => DejaFaite(a)
      BY <2>7 DEF NoterVerdict, Vraies, ReponduesVraies, EnEtape
    <3>3. s \in Statuts \cup {"ERREUR", Rien} BY <2>1 DEF Requetes
    <3> DEFINE p == Reponse(r, s)
    <3>5. p \in Requetes \cup {Rien}
          /\ (p = Rien \/ (p.verdict = "SUCCESS" => DejaFaite(a)))
      BY <2>1, <3>2, <3>3 DEF Reponse, Requetes, Etapes
    <3>6. Avancee(a, b, p) BY <3>1
    <3> HIDE DEF p
    <3> QED BY <3>5, <3>6, <1>3
  <2> QED BY <1>7, <2>3, <2>4, <2>5, <2>6, <2>7 DEF Recevoir
<1>8. CASE Pannes
  <2>0. \A r \in Requetes :
          /\ [r EXCEPT !.attendue = FALSE] \in Requetes
          /\ [r EXCEPT !.attendue = FALSE].etape = r.etape
          /\ [r EXCEPT !.attendue = FALSE].verdict = r.verdict
    BY DEF Requetes
  <2>1. ASSUME NEW a \in Commandes, NEW b \in Voies, Perdre(a, b)
        PROVE  DejaFaite(c)'
    <3> DEFINE n == [requetes[a][b] EXCEPT !.attendue = FALSE]
    <3>1. requetes[a][b] # Rien /\ requetes[a][b] \in Requetes
      BY <2>1 DEF Perdre, TypeOK
    <3>2. /\ n \in Requetes /\ n.etape = requetes[a][b].etape
          /\ n.verdict = requetes[a][b].verdict
      BY <3>1, <2>0
    <3>3. Avancee(a, b, Rien) \/ Avancee(a, b, n) BY <2>1 DEF Perdre
    <3> HIDE DEF n
    <3> QED BY <3>1, <3>2, <3>3, <1>3
  <2>2. CASE MourirEmetteur
    <3>1. /\ requetes[c][v] # Rien /\ requetes[c][v] \in Requetes
          /\ requetes'[c][v] = [requetes[c][v] EXCEPT !.attendue = FALSE]
      BY <2>2, <1>0 DEF MourirEmetteur, TypeOK
    <3> QED BY <3>1, <2>0, <1>0, <1>1
  <2>3. CASE MourirCible
    <3>1. requetes'[c][v] = requetes[c][v] BY <2>3, <1>0 DEF MourirCible
    <3> QED BY <3>1, <1>0, <1>1
  <2> QED BY <1>8, <2>1, <2>2, <2>3 DEF Pannes
<1>9. CASE UNCHANGED vars \/ ExpirerCible \/ Collecter \/ Tic
  <2>1. requetes' = requetes
    BY <1>9 DEF vars, ExpirerCible, Collecter, Relever, Accomplir, Accuser,
      NoterAccuse, Tic
  <2> QED BY <2>1, <1>2
<1> QED BY <1>5, <1>6, <1>7, <1>8, <1>9 DEF Next

\* The tables: what each step may newly write as a success is one.
LEMMA NextVraies == Inv /\ Vraies /\ [Next]_vars => Vraies'
<1> SUFFICES ASSUME TypeOK, Faites, Vraies, [Next]_vars PROVE Vraies'
  BY DEF Inv
<1> DEFINE Neuve(t, u) ==
      \A c \in Commandes :
        u[c] = "SUCCESS" => t[c] = "SUCCESS" \/ DejaFaite(c) \/ DejaFaite(c)'
<1>1. ASSUME NEW t, NEW u, DitVrai(t), Neuve(t, u)
      PROVE  \A c \in Commandes : u[c] = "SUCCESS" => DejaFaite(c)'
  BY <1>1, EffetsCroissent DEF DitVrai
<1>2. Neuve(recues, recues')
  <2>1. CASE recues' = recues BY <2>1
  <2>2. ASSUME NEW c \in Commandes, NEW v \in Voies, Enregistrer(c, v)
        PROVE  Neuve(recues, recues')
    BY <2>2 DEF Enregistrer, StatutRecu, TypeOK
  <2>3. ASSUME NEW c \in Commandes, NEW v \in Voies, NoterVerdict(c, v)
        PROVE  Neuve(recues, recues')
    <3>1. requetes[c][v].verdict = "SUCCESS" => DejaFaite(c)
      BY <2>3 DEF NoterVerdict, Vraies, ReponduesVraies, EnEtape
    <3>2. recues' = Marquer(recues, c, requetes[c][v].verdict)
      BY <2>3 DEF NoterVerdict
    <3> QED BY <3>1, <3>2 DEF Marquer, TypeOK
  <2>4. CASE ExpirerCible BY <2>4 DEF ExpirerCible, Perimer
  <2>5. \/ recues' = recues \/ ExpirerCible
        \/ \E c \in Commandes, v \in Voies : Enregistrer(c, v) \/ NoterVerdict(c, v)
    <3>1. ASSUME NEW e \in Commandes, Envoyer(e) PROVE recues' = recues
      BY <3>1 DEF Envoyer, Demander, Inscrire, LaisserCollecter, Absent, Livrer,
        Conclure, ConclureSansReponse, cible
    <3>2. CASE Battre \/ Collecter \/ Tic \/ Pannes
      BY <3>2 DEF Battre, Expirer, Reprendre, Relivrer, RepriseConclue,
        RepriseSansReponse, Collecter, Relever, Accomplir, Accuser, NoterAccuse,
        Tic, Pannes, Perdre, MourirEmetteur, MourirCible, cible
    <3>3. ASSUME NEW c \in Commandes, NEW v \in Voies, Recevoir(c, v)
          PROVE  recues' = recues \/ Enregistrer(c, v) \/ NoterVerdict(c, v)
      BY <3>3 DEF Recevoir, Verifier, Chercher, Executer, cible
    <3>4. CASE UNCHANGED vars BY <3>4 DEF vars, cible
    <3> QED BY <3>1, <3>2, <3>3, <3>4 DEF Next
  <2> QED BY <2>1, <2>2, <2>3, <2>4, <2>5
<1>3. Neuve(compteRendu, compteRendu')
  <2>1. CASE compteRendu' = compteRendu BY <2>1
  <2>2. ASSUME NEW c \in Commandes, Accomplir(c)
        PROVE  Neuve(compteRendu, compteRendu')
    <3>1. compteRendu'[c] = "SUCCESS" => DejaFaite(c)'
      <4>1. effets' = [effets EXCEPT ![c] = @ + 1]
            \/ compteRendu'[c] = "FAILED"
        BY <2>2 DEF Accomplir, TypeOK
      <4>2. effets' = [effets EXCEPT ![c] = @ + 1] => effets'[c] > 0
        BY DEF TypeOK
      <4> QED BY <4>1, <4>2 DEF DejaFaite, MemeIntention
    <3>2. \A e \in Commandes : e # c => compteRendu'[e] = compteRendu[e]
      BY <2>2 DEF Accomplir, TypeOK
    <3> QED BY <3>1, <3>2
  <2>3. compteRendu' = compteRendu \/ \E c \in Commandes : Accomplir(c)
    <3>1. ASSUME NEW e \in Commandes, Envoyer(e) PROVE compteRendu' = compteRendu
      BY <3>1 DEF Envoyer, Demander, Inscrire, LaisserCollecter, Absent, Livrer,
        Conclure, ConclureSansReponse, telephone
    <3>2. CASE Battre \/ Tic \/ Pannes \/ ExpirerCible
      BY <3>2 DEF Battre, Expirer, Reprendre, Relivrer, RepriseConclue,
        RepriseSansReponse, Tic, Pannes, Perdre, MourirEmetteur, MourirCible,
        ExpirerCible, telephone
    <3>3. ASSUME NEW c \in Commandes, NEW v \in Voies, Recevoir(c, v)
          PROVE  compteRendu' = compteRendu
      BY <3>3 DEF Recevoir, Verifier, Chercher, Enregistrer, Executer,
        NoterVerdict, telephone
    <3>4. CASE Collecter
      BY <3>4 DEF Collecter, Relever, Accuser, NoterAccuse
    <3>5. CASE UNCHANGED vars BY <3>5 DEF vars, telephone
    <3> QED BY <3>1, <3>2, <3>3, <3>4, <3>5 DEF Next
  <2> QED BY <2>1, <2>2, <2>3
<1>4. Neuve(file, file')
  <2>1. ASSUME NEW c \in Commandes, NEW s, file' = Marquer(file, c, s),
               s = "SUCCESS" => DejaFaite(c)
        PROVE  Neuve(file, file')
    BY <2>1 DEF Marquer, TypeOK
  <2>2. CASE file' = file BY <2>2
  <2>3. CASE file' = Perimer(file) BY <2>3 DEF Perimer
  <2>4. ASSUME NEW c \in Commandes, Envoyer(c) PROVE Neuve(file, file')
    <3>1. CASE Inscrire(c) BY <3>1 DEF Inscrire, TypeOK
    <3>2. CASE LaisserCollecter(c)
      BY <3>2, <2>1 DEF LaisserCollecter
    <3>3. file' = Politique(c) => Neuve(file, file')
      BY <2>1 DEF Politique
    <3>4. CASE Conclure(c)
      <4>1. requetes[c]["directe"].verdict = "SUCCESS" => DejaFaite(c)
        BY <3>4 DEF Conclure, Vraies, ReponduesVraies, EnEtape, Voies
      <4>2. \/ file' = Politique(c)
            \/ file' = Marquer(file, c, requetes[c]["directe"].verdict)
        BY <3>4 DEF Conclure
      <4> QED BY <4>1, <4>2, <3>3, <2>1
    <3> QED BY <2>4, <3>1, <3>2, <3>3, <3>4, <2>2 DEF Envoyer, Demander, Absent,
      Livrer, ConclureSansReponse
  <2>5. CASE Battre
    <3>1. ASSUME NEW c \in Commandes, NEW v \in Essais, RepriseConclue(c, v)
          PROVE  Neuve(file, file')
      <4>1. requetes[c][v].verdict = "SUCCESS" => DejaFaite(c)
        BY <3>1 DEF RepriseConclue, Vraies, ReponduesVraies, EnEtape, Voies
      <4>2. file' = file \/ file' = Marquer(file, c, requetes[c][v].verdict)
        BY <3>1 DEF RepriseConclue
      <4> QED BY <4>1, <4>2, <2>1, <2>2
    <3>2. \/ file' = file \/ file' = Perimer(file)
          \/ \E c \in Commandes, v \in Essais : RepriseConclue(c, v)
      BY <2>5 DEF Battre, Expirer, Reprendre, Relivrer, RepriseSansReponse
    <3> QED BY <3>1, <3>2, <2>2, <2>3
  <2>6. CASE Collecter
    <3>1. ASSUME NEW c \in Commandes, NoterAccuse(c) PROVE Neuve(file, file')
      <4>1. compteRendu[c] = "SUCCESS" => DejaFaite(c) BY DEF Vraies, DitVrai
      <4> QED BY <3>1, <4>1, <2>1 DEF NoterAccuse
    <3>2. file' = file \/ \E c \in Commandes : NoterAccuse(c)
      BY <2>6 DEF Collecter, Relever, Accomplir, Accuser, emetteur
    <3> QED BY <3>1, <3>2, <2>2
  <2>7. CASE Tic \/ Pannes \/ ExpirerCible \/ UNCHANGED vars
    BY <2>2, <2>7 DEF Tic, Pannes, Perdre, MourirEmetteur, MourirCible,
      ExpirerCible, vars, emetteur
  <2>8. ASSUME NEW c \in Commandes, NEW v \in Voies, Recevoir(c, v)
        PROVE  file' = file
    BY <2>8 DEF Recevoir, Verifier, Chercher, Enregistrer, Executer,
      NoterVerdict, emetteur
  <2> QED BY <2>2, <2>4, <2>5, <2>6, <2>7, <2>8 DEF Next
<1> HIDE DEF Neuve
<1>5. /\ \A c \in Commandes : recues'[c] = "SUCCESS" => DejaFaite(c)'
      /\ \A c \in Commandes : compteRendu'[c] = "SUCCESS" => DejaFaite(c)'
      /\ \A c \in Commandes : file'[c] = "SUCCESS" => DejaFaite(c)'
  BY <1>1, <1>2, <1>3, <1>4 DEF Vraies
<1> QED BY <1>5, RequetesVraies DEF Vraies, DitVrai

\* The sender never says SUCCESS of an intention no target carried out, whatever
\* was lost, redelivered, expired or answered from another command's record.
THEOREM NeverFalselyDone == Spec => []JamaisFaux
<1>1. Inv /\ Vraies => JamaisFaux BY DEF Vraies, DitVrai, JamaisFaux
<1> QED BY <1>1, InitVraies, NextVraies, Invariante, PTL DEF Spec
=============================================================================
