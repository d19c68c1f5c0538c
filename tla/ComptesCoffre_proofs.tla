-------------------------- MODULE ComptesCoffre_proofs --------------------------
(***************************************************************************)
(* That nobody is walled out of an account, for any devices, passwords,    *)
(* gestures and losses. What the server keeps sealed agrees with what it   *)
(* keeps in clear because only a device that knows the vault of now may    *)
(* still write one: every rotation and reset kills the tokens of before.   *)
(*                                                                         *)
(* What a person knows still opens the account: no request brings a former *)
(* password back, and the recovery key the server counts on has been shown *)
(* to the person. The first rests on the types alone, the second on an     *)
(* invariant of its own beside the first one.                              *)
(***************************************************************************)
EXTENDS ComptesCoffre, TLAPS

(* The invariant: what the server holds in clear agrees with what it cannot *)
(* read, and whoever may still speak to it knows the vault of now.         *)

Sain(c) == c.scelle = Scelle(c.incarnation, c.version, c.mdp, c.cle)

\* Typing that TypeOK leaves open: what a request and a gesture of each kind
\* carry.
Formee(q) ==
  /\ q.genre = "commit" => q.coffre \in Coffres /\ q.mode \in {"keep", "replace", "remove"}
  /\ q.genre = "resetComplete" => q.coffre \in Coffres
  /\ q.genre \in {"account", "resetComplete"} => q.secret # 0
Formes ==
  /\ \A q \in EnRoute : Formee(q)
  /\ \A d \in Appareils :
       appel[d] # Rien /\ appel[d].geste # "reinitConfirmer" => appel[d].mdp \in Mdps

\* A device whose session the server knows has its incarnation and its vault.
AppareilJuste(a) ==
  /\ a.locale <= compte.incarnation
  /\ a.jeton \in sessions =>
       /\ a.planchers.incarnation = compte.incarnation
       /\ a.enveloppe # Rien => a.enveloppe = compte.scelle
       /\ a.serrure # Rien => a.serrure = Trousseau(compte.scelle)

\* A rotation the server would take keeps the incarnation and the key; a reset
\* opens the next incarnation.
Recevable(q) ==
  IF q.preuve = "recovery" THEN q.secret \in recuperations ELSE q.jeton \in sessions
DemandeJuste(q) ==
  /\ q.genre = "commit" /\ Recevable(q) =>
       /\ q.coffre.incarnation = compte.incarnation
       /\ q.mode = "keep" => q.coffre.cle = compte.cle
       /\ q.mode = "remove" => q.coffre.cle = 0
  /\ q.genre = "resetComplete" =>
       /\ q.coffre.version = 1 /\ q.coffre.cle = 0
       /\ q.secret = codes.reinit => q.coffre.incarnation = compte.incarnation + 1

\* The answer r to the request q of the device a: an account that was in order,
\* the one of now if a token of before or the one it brings is still known.
Incarnee(a) ==
  IF a.locale > a.planchers.incarnation THEN a.locale ELSE a.planchers.incarnation
ReponseJuste(a, q, r) ==
  /\ r.code = "ok" =>
       /\ Sain(r.compte) /\ r.compte.incarnation <= compte.incarnation
       /\ {a.jeton, r.jeton} \cap (sessions \cup recuperations) # {} => r.compte = compte
       /\ q.genre \in {"commit", "resetComplete"} => r.compte.scelle = q.coffre
  /\ q.genre = "account" /\ q.secret = codes.reinit =>
       /\ r.code = "ok" => r.compte.incarnation = compte.incarnation
       /\ r.code = "sessionExpired" => Incarnee(a) = compte.incarnation

Justes ==
  /\ \A d \in Appareils : AppareilJuste(appareil[d])
  /\ \A q \in EnRoute : DemandeJuste(q)
  /\ \A d \in Appareils : appel[d] # Rien =>
       /\ appel[d].requete.genre = "account" => appel[d].requete.jeton = appareil[d].jeton
       /\ appel[d].reponse # Rien =>
            ReponseJuste(appareil[d], appel[d].requete, appel[d].reponse)

IComptes == TypeOK /\ Formes /\ JamaisMuree /\ Justes

-----------------------------------------------------------------------------
(* Lemmas about the operators                                              *)

Trousseaux == [incarnation : Nat, epoque : Nat, cle : 0..ClesMax]
Attentes == [cle : 1..ClesMax, mdp : Mdps]

LEMMA Bornes ==
  /\ VersionMax \in Nat /\ IncarnationMax \in Nat
  /\ JetonsMax \in Nat \ {0} /\ ClesMax \in Nat \ {0}
  /\ 0 \notin Jetons /\ Jetons \subseteq Secrets /\ 0 \in Secrets
  /\ 0 \in 0..ClesMax /\ 1..ClesMax \subseteq 0..ClesMax
  BY AccountBounds DEF Jetons, Secrets

LEMMA ScelleEst ==
  ASSUME NEW i \in Nat, NEW v \in Nat, NEW m \in Mdps, NEW k \in 0..ClesMax
  PROVE  /\ Scelle(i, v, m, k) \in Coffres
         /\ Scelle(i, v, m, k).incarnation = i /\ Scelle(i, v, m, k).version = v
         /\ Scelle(i, v, m, k).mdp = m /\ Scelle(i, v, m, k).cle = k
  BY DEF Scelle, Coffres

LEMMA TrousseauEst ==
  ASSUME NEW c \in Coffres
  PROVE  /\ Trousseau(c) \in Trousseaux
         /\ Trousseau(c).incarnation = c.incarnation /\ Trousseau(c).cle = c.cle
  BY DEF Trousseau, Coffres, Trousseaux

LEMMA RelevesEst ==
  ASSUME NEW p \in [incarnation : Nat, version : Nat], NEW c \in Coffres
  PROVE  /\ Releves(p, c) \in [incarnation : Nat, version : Nat]
         /\ Releves(p, c).incarnation = c.incarnation
  BY DEF Releves, PlancherPour, Coffres

\* A token that is drawn is held by nobody.
LEMMA TireNeuf ==
  ASSUME TypeOK, NEW j \in Jetons, Tirable(j)
  PROVE  /\ j # 0 /\ j \notin sessions \cup recuperations /\ j # codes.reinit
         /\ \A d \in Appareils : j # appareil[d].jeton
         /\ \A q \in EnRoute : j # q.jeton /\ j # q.secret
         /\ \A d \in Appareils : appel[d] # Rien /\ appel[d].reponse # Rien =>
              j # appel[d].reponse.jeton
<1>1. j \notin EnUsage
  BY DEF Tirable
<1>2. j # 0
  BY Bornes
<1>3. QED
  BY <1>1, <1>2 DEF EnUsage

\* What _installer leaves of a device, whole or cut, stays in order.
LEMMA InstalleJuste ==
  ASSUME TypeOK, JamaisMuree,
         NEW a \in EtatsDAppareil, AppareilJuste(a),
         NEW c \in Coffres, c.incarnation <= compte.incarnation,
         NEW j \in Secrets, NEW n \in 1..4,
         a.jeton \in sessions \/ j \in sessions => c = compte.scelle
  PROVE  /\ Installe(a, c, j, n) \in EtatsDAppareil
         /\ AppareilJuste(Installe(a, c, j, n))
<1> DEFINE p == Releves(a.planchers, c)
           t == Trousseau(c)
           r == Installe(a, c, j, n)
<1>1. a.planchers \in [incarnation : Nat, version : Nat]
  BY DEF EtatsDAppareil
<1>2. /\ p \in [incarnation : Nat, version : Nat]
      /\ p.incarnation = c.incarnation
  BY <1>1, RelevesEst
<1>3. t \in Trousseaux
  BY TrousseauEst
<1>4. c.incarnation \in Nat
  BY DEF Coffres
<1>5. r = [planchers |-> p,
           enveloppe |-> IF n >= 2 THEN c ELSE a.enveloppe,
           jeton     |-> IF n >= 3 THEN j ELSE a.jeton,
           locale    |-> IF n = 4 THEN c.incarnation ELSE a.locale,
           pose      |-> IF n = 4 THEN Rien ELSE a.pose,
           serrure   |-> IF n = 4 THEN t ELSE Rien,
           attente   |-> IF n = 4 THEN a.attente ELSE Rien]
  BY DEF Installe
<1>6. compte.scelle.incarnation = compte.incarnation
  BY ScelleEst DEF JamaisMuree, TypeOK, Comptes
<1> HIDE DEF p, t, r
<1>7. r \in EtatsDAppareil
  BY <1>2, <1>3, <1>4, <1>5 DEF EtatsDAppareil, Trousseaux
<1>8. /\ r.locale \in {c.incarnation, a.locale}
      /\ r.planchers = p
      /\ r.jeton = IF n >= 3 THEN j ELSE a.jeton
      /\ r.enveloppe = IF n >= 2 THEN c ELSE a.enveloppe
      /\ r.serrure \in {t, Rien}
  BY <1>5
<1>9. r.jeton \in sessions => c = compte.scelle
  BY <1>8
<1>10. r.jeton \in sessions /\ n < 2 => a.jeton \in sessions
  BY <1>8
<1>11. AppareilJuste(r)
  BY <1>2, <1>6, <1>8, <1>9, <1>10 DEF AppareilJuste, t
<1> QED BY <1>7, <1>11 DEF r

LEMMA AttenteIndifferente ==
  ASSUME NEW a \in EtatsDAppareil, AppareilJuste(a), NEW x \in Attentes \cup {Rien}
  PROVE  /\ [a EXCEPT !.attente = x] \in EtatsDAppareil
         /\ AppareilJuste([a EXCEPT !.attente = x])
         /\ [a EXCEPT !.attente = x].jeton = a.jeton
         /\ [a EXCEPT !.attente = x].serrure = a.serrure
  BY DEF EtatsDAppareil, AppareilJuste, Attentes

Poses == {Rien, "sessionExpired", "serverRolledBack", "accountReset"}
LEMMA PoseIndifferente ==
  ASSUME NEW a \in EtatsDAppareil, AppareilJuste(a), NEW x \in Poses
  PROVE  /\ [a EXCEPT !.pose = x] \in EtatsDAppareil
         /\ AppareilJuste([a EXCEPT !.pose = x])
  BY DEF EtatsDAppareil, AppareilJuste, Poses

LEMMA SerrureOtee ==
  ASSUME NEW a \in EtatsDAppareil, AppareilJuste(a)
  PROVE  /\ [a EXCEPT !.serrure = Rien] \in EtatsDAppareil
         /\ AppareilJuste([a EXCEPT !.serrure = Rien])
  BY DEF EtatsDAppareil, AppareilJuste

LEMMA SessionPerdueJuste ==
  ASSUME TypeOK, NEW a \in EtatsDAppareil, AppareilJuste(a), NEW k
  PROVE  /\ SessionPerdue(a, k) \in EtatsDAppareil
         /\ AppareilJuste(SessionPerdue(a, k))
<1> DEFINE b == [a EXCEPT !.jeton = 0, !.enveloppe = Rien, !.pose = "sessionExpired",
                          !.serrure = Rien, !.attente = Rien]
<1>1. b \in EtatsDAppareil /\ b.jeton = 0 /\ b.locale = a.locale
  BY Bornes DEF EtatsDAppareil
<1>2. 0 \notin sessions
  BY Bornes DEF TypeOK
<1>3. AppareilJuste(b)
  BY <1>1, <1>2 DEF AppareilJuste
<1>4. SessionPerdue(a, k) \in {b, [a EXCEPT !.pose = "sessionExpired"]}
  BY DEF SessionPerdue
<1> QED BY <1>1, <1>3, <1>4, PoseIndifferente DEF Poses

LEMMA InconnuJuste ==
  ASSUME TypeOK
  PROVE  Inconnu \in EtatsDAppareil /\ AppareilJuste(Inconnu)
<1>1. 0 \notin sessions /\ 0 \in Secrets /\ compte.incarnation \in Nat
  BY Bornes DEF TypeOK, Comptes
<1> QED BY <1>1 DEF Inconnu, EtatsDAppareil, AucunPlancher, AppareilJuste

-----------------------------------------------------------------------------
(* What the rest of the system keeps while the server moves                *)

TypeServeur ==
  /\ compte \in Comptes
  /\ sessions \subseteq Jetons /\ expirees \subseteq sessions
  /\ recuperations \subseteq Jetons \ sessions
  /\ codes \in [coffre : Secrets, reinit : Secrets]
  /\ echeance \in {"aucune", "prevue", "echue"}

\* The server moves and nothing becomes false of what does not hold a token of F.
Conserve(F) ==
  /\ \A a \in EtatsDAppareil :
       AppareilJuste(a) /\ a.jeton \notin F => AppareilJuste(a)'
  /\ \A q \in EnRoute :
       DemandeJuste(q) /\ Formee(q) /\ {q.jeton, q.secret} \cap F = {} => DemandeJuste(q)'
  /\ \A a \in EtatsDAppareil, q \in EnRoute, r \in Reponses :
       ReponseJuste(a, q, r) /\ Formee(q) /\ {a.jeton, r.jeton} \cap F = {}
         => ReponseJuste(a, q, r)'

\* No new vault: tokens go, at most those of F come.
Monde(F) ==
  /\ compte' = compte
  /\ sessions' \subseteq sessions \cup F /\ recuperations' \subseteq recuperations \cup F
  /\ \/ codes'.reinit = codes.reinit
     \/ \A q \in EnRoute : q.genre \in {"account", "resetComplete"} =>
                             q.secret # codes'.reinit

\* A new vault: one token lives, that nobody holds yet.
Tourne(j) ==
  /\ sessions' = {j} /\ recuperations' = {}
  /\ \/ compte'.incarnation = compte.incarnation /\ codes'.reinit = codes.reinit
     \/ compte'.incarnation = compte.incarnation + 1 /\ codes'.reinit = 0

LEMMA MondeGarde ==
  ASSUME NEW F, Monde(F)
  PROVE  Conserve(F)
<1>1. ASSUME NEW a \in EtatsDAppareil, AppareilJuste(a), a.jeton \notin F
      PROVE  AppareilJuste(a)'
  BY <1>1 DEF Monde, AppareilJuste
<1>2. ASSUME NEW q \in EnRoute, DemandeJuste(q), {q.jeton, q.secret} \cap F = {}
      PROVE  DemandeJuste(q)'
  <2>1. Recevable(q)' => Recevable(q)
    BY <1>2 DEF Monde, Recevable
  <2>2. q.genre = "resetComplete" /\ q.secret = codes'.reinit => q.secret = codes.reinit
    BY DEF Monde
  <2> QED BY <1>2, <2>1, <2>2 DEF DemandeJuste, Monde
<1>3. ASSUME NEW a \in EtatsDAppareil, NEW q \in EnRoute, NEW r \in Reponses,
             ReponseJuste(a, q, r), {a.jeton, r.jeton} \cap F = {}
      PROVE  ReponseJuste(a, q, r)'
  <2>1. {a.jeton, r.jeton} \cap (sessions' \cup recuperations') # {} =>
          {a.jeton, r.jeton} \cap (sessions \cup recuperations) # {}
    BY <1>3 DEF Monde
  <2>2. q.genre = "account" /\ q.secret = codes'.reinit => q.secret = codes.reinit
    BY DEF Monde
  <2> QED BY <1>3, <2>1, <2>2 DEF ReponseJuste, Monde, Sain
<1> QED BY <1>1, <1>2, <1>3 DEF Conserve

LEMMA MondeTourne ==
  ASSUME TypeOK, NEW j \in Jetons, Tourne(j)
  PROVE  Conserve({j})
<1>0. compte.incarnation \in Nat
  BY DEF TypeOK, Comptes
<1>1. ASSUME NEW a \in EtatsDAppareil, AppareilJuste(a), a.jeton \notin {j}
      PROVE  AppareilJuste(a)'
  <2>1. a.locale \in Nat
    BY DEF EtatsDAppareil
  <2> QED BY <1>0, <1>1, <2>1 DEF Tourne, AppareilJuste
<1>2. ASSUME NEW q \in EnRoute, DemandeJuste(q), Formee(q), {q.jeton, q.secret} \cap {j} = {}
      PROVE  DemandeJuste(q)'
  <2>1. ~Recevable(q)'
    BY <1>2 DEF Tourne, Recevable
  <2>2. q.genre = "resetComplete" /\ q.secret = codes'.reinit =>
          q.secret = codes.reinit /\ compte'.incarnation = compte.incarnation
    BY <1>2 DEF Tourne, Formee
  <2> QED BY <1>2, <2>1, <2>2 DEF DemandeJuste
<1>3. ASSUME NEW a \in EtatsDAppareil, NEW q \in EnRoute, NEW r \in Reponses,
             ReponseJuste(a, q, r), Formee(q), {a.jeton, r.jeton} \cap {j} = {}
      PROVE  ReponseJuste(a, q, r)'
  <2>1. {a.jeton, r.jeton} \cap (sessions' \cup recuperations') = {}
    BY <1>3 DEF Tourne
  <2>2. q.genre = "account" /\ q.secret = codes'.reinit =>
          q.secret = codes.reinit /\ compte'.incarnation = compte.incarnation
    BY <1>3 DEF Tourne, Formee
  <2>3. r.code = "ok" => r.compte.incarnation \in Nat
    BY DEF Reponses, Comptes
  <2>4. r.code = "ok" => r.compte.incarnation <= compte'.incarnation
    BY <1>0, <1>3, <2>3 DEF Tourne, ReponseJuste
  <2> QED BY <1>3, <2>1, <2>2, <2>4 DEF ReponseJuste, Sain
<1> QED BY <1>1, <1>2, <1>3 DEF Conserve

-----------------------------------------------------------------------------
(* A request is served                                                     *)

LEMMA EnRouteServie ==
  ASSUME TypeOK, NEW q \in EnRoute, NEW r, Repondre(q, r)
  PROVE  /\ EnRoute' \subseteq EnRoute
         /\ tardives' \subseteq tardives
         /\ \/ appel' = appel
            \/ /\ q.de \in Appareils /\ appel[q.de] # Rien /\ appel[q.de].requete = q
               /\ appel' = [appel EXCEPT ![q.de].reponse = r]
<1>1. tardives' \subseteq tardives
  BY DEF Repondre
<1>2. CASE q \in tardives
  BY <1>2, <1>1 DEF Repondre, EnRoute
<1>3. CASE q \notin tardives
  <2>1. /\ appel[q.de] # Rien /\ appel[q.de].requete = q /\ tardives' = tardives
        /\ appel' = [appel EXCEPT ![q.de].reponse = r]
    BY <1>3 DEF Repondre
  <2>2. PICK d \in Appareils : appel[d] # Rien /\ q = appel[d].requete
    BY <1>3 DEF EnRoute
  <2>3. q \in Requetes /\ q.de \in Appareils
    BY <2>2 DEF TypeOK, Appels, Requetes
  <2>4. \A e \in Appareils : appel'[e] # Rien =>
          appel[e] # Rien /\ appel'[e].requete = appel[e].requete
    BY <2>1, <2>3 DEF TypeOK, Appels
  <2>5. EnRoute' \subseteq EnRoute
    BY <2>1, <2>4 DEF EnRoute
  <2> QED BY <1>1, <2>1, <2>3, <2>5
<1> QED BY <1>2, <1>3

LEMMA EnRouteTypee ==
  ASSUME TypeOK, NEW q \in EnRoute
  PROVE  q \in Requetes
  BY DEF TypeOK, EnRoute, Appels

\* Served, with an answer that is right for any device that asks, everything
\* stays in order.
LEMMA PasServeur ==
  ASSUME IComptes, NEW q \in EnRoute, NEW r \in Reponses, NEW F,
         Repondre(q, r), TypeServeur', JamaisMuree', Conserve(F),
         \A d \in Appareils : appareil[d].jeton \notin F,
         \A p \in EnRoute : {p.jeton, p.secret} \cap F = {},
         \A d \in Appareils : appel[d] # Rien /\ appel[d].reponse # Rien =>
           appel[d].reponse.jeton \notin F,
         \A a \in EtatsDAppareil :
           /\ AppareilJuste(a) /\ a.jeton \notin F
           /\ q.genre = "account" => q.jeton = a.jeton
           => ReponseJuste(a, q, r)',
         UNCHANGED <<appareil, moteur, montrees, permis, gestes, pannes>>
  PROVE  IComptes'
<1>1. /\ EnRoute' \subseteq EnRoute
      /\ tardives' \subseteq tardives
      /\ \/ appel' = appel
         \/ /\ q.de \in Appareils /\ appel[q.de] # Rien /\ appel[q.de].requete = q
            /\ appel' = [appel EXCEPT ![q.de].reponse = r]
  BY EnRouteServie DEF IComptes
<1>2. ASSUME NEW d \in Appareils, appel'[d] # Rien
      PROVE  /\ appel'[d] \in Appels /\ appel[d] # Rien /\ appel[d] \in Appels
             /\ appel'[d].requete = appel[d].requete
             /\ appel'[d].geste = appel[d].geste /\ appel'[d].mdp = appel[d].mdp
             /\ \/ appel'[d].reponse = appel[d].reponse
                \/ appel[d].requete = q /\ appel'[d].reponse = r
  BY <1>1, <1>2 DEF IComptes, TypeOK, Appels
<1>3. appel' \in [Appareils -> Appels \cup {Rien}]
  <2>1. appel' \in [Appareils -> {appel'[d] : d \in Appareils}]
    BY <1>1 DEF IComptes, TypeOK
  <2> QED BY <2>1, <1>2
<1>4. TypeOK'
  BY <1>1, <1>3 DEF IComptes, TypeOK, TypeServeur
<1>5. Formes'
  BY <1>1, <1>2 DEF IComptes, Formes, Formee
<1>6. \A d \in Appareils : AppareilJuste(appareil[d])'
  <2>1. \A d \in Appareils : appareil'[d] = appareil[d] /\ appareil[d] \in EtatsDAppareil
    BY DEF IComptes, TypeOK
  <2> QED BY <2>1 DEF IComptes, Justes, Conserve, AppareilJuste
<1>7. \A p \in EnRoute' : DemandeJuste(p)'
  BY <1>1 DEF IComptes, Justes, Formes, Conserve
<1>8. ASSUME NEW d \in Appareils, appel'[d] # Rien
      PROVE  /\ appel'[d].requete.genre = "account" =>
                  appel'[d].requete.jeton = appareil'[d].jeton
             /\ appel'[d].reponse # Rien =>
                  ReponseJuste(appareil[d], appel[d].requete, appel[d].reponse)'
  <2>1. /\ appareil[d] \in EtatsDAppareil /\ AppareilJuste(appareil[d])
        /\ appareil[d].jeton \notin F
    BY DEF IComptes, TypeOK, Justes
  <2>2. /\ appel[d] # Rien /\ appel'[d].requete = appel[d].requete
        /\ appel[d].requete \in EnRoute /\ Formee(appel[d].requete)
    BY <1>2, <1>8 DEF EnRoute, IComptes, Formes
  <2>3. appel[d].requete.genre = "account" => appel[d].requete.jeton = appareil[d].jeton
    BY <2>2 DEF IComptes, Justes
  <2>4. ASSUME appel'[d].reponse # Rien,
               NEW x \in EtatsDAppareil, NEW y \in EnRoute, NEW z \in Reponses,
               x = appareil[d], y = appel[d].requete, z = appel'[d].reponse
        PROVE  ReponseJuste(x, y, z)'
    <3>1. CASE z = appel[d].reponse
      <4>1. appel[d].reponse # Rien
        BY <2>4, <3>1
      <4>2. ReponseJuste(x, y, z) /\ z.jeton \notin F
        BY <4>1, <2>2, <2>4, <3>1 DEF IComptes, Justes
      <4> QED BY <4>2, <2>1, <2>2, <2>4 DEF Conserve
    <3>2. CASE y = q /\ z = r
      BY <2>1, <2>3, <2>4, <3>2
    <3> QED BY <1>2, <1>8, <2>4, <3>1, <3>2
  <2>5. appel'[d].reponse # Rien => appel'[d].reponse \in Reponses
    BY <1>2, <1>8 DEF Appels
  <2>6. appel'[d].reponse # Rien =>
          ReponseJuste(appareil[d], appel[d].requete, appel[d].reponse)'
    BY <2>1, <2>2, <2>4, <2>5 DEF ReponseJuste, Sain, Incarnee
  <2> QED BY <2>2, <2>3, <2>6
<1>9. Justes'
  BY <1>6, <1>7, <1>8 DEF Justes
<1> QED BY <1>4, <1>5, <1>9 DEF IComptes

-----------------------------------------------------------------------------
(* A device moves                                                          *)

\* A device d becomes a, its call z: what it had asked may still arrive.
Ici(d, a, z) ==
  /\ appareil' = [appareil EXCEPT ![d] = a]
  /\ appel' = [appel EXCEPT ![d] = z]
  /\ tardives' \subseteq tardives \cup {q \in {appel[d].requete} : appel[d] # Rien}

\* A call just begun, by a device a.
Neuf(a, z) ==
  /\ z \in Appels /\ z.reponse = Rien /\ Formee(z.requete) /\ DemandeJuste(z.requete)
  /\ z.geste # "reinitConfirmer" => z.mdp \in Mdps
  /\ z.requete.genre = "account" => z.requete.jeton = a.jeton

LEMMA EnRouteIci ==
  ASSUME TypeOK, NEW d \in Appareils, NEW a, NEW z, Ici(d, a, z)
  PROVE  EnRoute' \subseteq EnRoute \cup {q \in {z.requete} : z # Rien}
<1>1. \A e \in Appareils : appel'[e] = IF e = d THEN z ELSE appel[e]
  BY DEF TypeOK, Ici
<1>2. tardives' \subseteq EnRoute
  BY DEF Ici, EnRoute
<1>3. QED
  BY <1>1, <1>2 DEF EnRoute

\* Whatever a device does, its new state and its new call being in order and
\* the account being the same, everything stays in order.
LEMMA PasIci ==
  ASSUME IComptes, NEW d \in Appareils, NEW a \in EtatsDAppareil, NEW z,
         Ici(d, a, z), AppareilJuste(a), Monde({}),
         \/ z = Rien
         \/ z = appel[d] /\ a = appareil[d]
         \/ Neuf(a, z) /\ codes'.reinit = codes.reinit,
         expirees' \subseteq sessions', codes' \in [coffre : Secrets, reinit : Secrets],
         echeance' \in {"aucune", "prevue", "echue"},
         moteur' \in [de : Appareils, jeton : Secrets] \cup {Rien},
         montrees' \subseteq 1..ClesMax, permis' = permis,
         gestes' \in Nat, pannes' \in 0..PannesMax
  PROVE  IComptes'
<1>1. TypeOK /\ Formes /\ Justes /\ JamaisMuree
  BY DEF IComptes
<1>2. \A e \in Appareils : /\ appel'[e] = IF e = d THEN z ELSE appel[e]
                           /\ appareil'[e] = IF e = d THEN a ELSE appareil[e]
  BY <1>1 DEF TypeOK, Ici
<1>3. Conserve({})
  BY MondeGarde
<1>4. z \in Appels \cup {Rien}
  BY <1>1 DEF TypeOK, Neuf
<1>5. EnRoute' \subseteq EnRoute \cup {q \in {z.requete} : z # Rien}
  BY <1>1, EnRouteIci
<1>6. z # Rien => z.requete \in EnRoute \/ Neuf(a, z)
  BY DEF EnRoute
<1>7. TypeOK'
  <2>1. tardives' \subseteq Requetes
    BY <1>1 DEF TypeOK, Ici, Appels
  <2>2. appareil' \in [Appareils -> EtatsDAppareil]
    BY <1>1 DEF TypeOK, Ici
  <2>3. appel' \in [Appareils -> Appels \cup {Rien}]
    BY <1>1, <1>4 DEF TypeOK, Ici
  <2>4. /\ compte' \in Comptes /\ sessions' \subseteq Jetons
        /\ recuperations' \subseteq Jetons \ sessions'
    BY <1>1 DEF TypeOK, Monde
  <2> QED BY <1>1, <2>1, <2>2, <2>3, <2>4 DEF TypeOK
<1>8. JamaisMuree'
  BY <1>1 DEF JamaisMuree, Monde
<1>9. \A q \in EnRoute' : Formee(q)
  BY <1>1, <1>5, <1>6 DEF Formes, Neuf
<1>10. Formes'
  <2>1. ASSUME NEW e \in Appareils, appel'[e] # Rien, appel'[e].geste # "reinitConfirmer"
        PROVE  appel'[e].mdp \in Mdps
    BY <1>1, <1>2, <2>1 DEF Formes, Neuf
  <2> QED BY <1>9, <2>1 DEF Formes, Formee
<1>11. ASSUME NEW q \in EnRoute' PROVE DemandeJuste(q)'
  <2>1. CASE q \in EnRoute
    BY <1>1, <1>3, <2>1 DEF Justes, Formes, Conserve
  <2>2. CASE Neuf(a, z) /\ q = z.requete /\ codes'.reinit = codes.reinit
    BY <2>2 DEF Neuf, DemandeJuste, Recevable, Monde
  <2> QED BY <1>5, <1>6, <2>1, <2>2 DEF EnRoute
<1>12. ASSUME NEW e \in Appareils PROVE AppareilJuste(appareil[e])'
  <2>1. \A x \in EtatsDAppareil : AppareilJuste(x) => AppareilJuste(x)'
    BY <1>3 DEF Conserve
  <2>2. appareil'[e] \in EtatsDAppareil /\ AppareilJuste(appareil'[e])
    BY <1>1, <1>2 DEF TypeOK, Justes
  <2> QED BY <2>1, <2>2 DEF AppareilJuste
<1>13. ASSUME NEW e \in Appareils, appel'[e] # Rien
       PROVE  /\ appel'[e].requete.genre = "account" =>
                   appel'[e].requete.jeton = appareil'[e].jeton
              /\ appel'[e].reponse # Rien =>
                   ReponseJuste(appareil[e], appel[e].requete, appel[e].reponse)'
  <2>1. CASE appel'[e] = appel[e] /\ appareil'[e] = appareil[e]
    <3>1. appel[e] \in Appels /\ appareil[e] \in EtatsDAppareil
      BY <1>1, <1>13, <2>1 DEF TypeOK
    <3>2. appel[e].requete \in EnRoute /\ Formee(appel[e].requete)
      BY <1>1, <1>13, <2>1 DEF EnRoute, Formes
    <3>3. appel[e].reponse # Rien =>
            /\ appel[e].reponse \in Reponses
            /\ ReponseJuste(appareil[e], appel[e].requete, appel[e].reponse)
      BY <1>1, <1>13, <2>1, <3>1 DEF Appels, Justes
    <3>4. ASSUME appel[e].reponse # Rien,
                 NEW x \in EtatsDAppareil, NEW y \in EnRoute, NEW w \in Reponses,
                 x = appareil[e], y = appel[e].requete, w = appel[e].reponse
          PROVE  ReponseJuste(x, y, w)'
      BY <1>3, <3>2, <3>3, <3>4 DEF Conserve
    <3>5. appel[e].reponse # Rien =>
            ReponseJuste(appareil[e], appel[e].requete, appel[e].reponse)'
      BY <2>1, <3>1, <3>2, <3>3, <3>4 DEF ReponseJuste, Sain, Incarnee
    <3> QED BY <1>1, <1>13, <2>1, <3>5 DEF Justes
  <2>2. CASE e = d /\ Neuf(a, z)
    BY <1>2, <2>2 DEF Neuf
  <2> QED BY <1>2, <1>13, <2>1, <2>2
<1>14. Justes'
  BY <1>11, <1>12, <1>13 DEF Justes
<1> QED BY <1>7, <1>8, <1>10, <1>14 DEF IComptes

-----------------------------------------------------------------------------
(* The handlers of the server                                              *)

LEMMA RefusJuste ==
  ASSUME IComptes, NEW q \in EnRoute, NEW k \in {"refus", "sessionRevoked", "sessionExpired"},
         Repondre(q, Refus(k)), UNCHANGED serveur,
         k = "sessionExpired" /\ q.genre = "account" => q.jeton \in sessions,
         UNCHANGED <<appareil, moteur, montrees, permis, gestes, pannes>>
  PROVE  IComptes'
<1> DEFINE r == Refus(k)
<1>1. r \in Reponses /\ r.code = k
  BY Bornes DEF Refus, Reponses
<1>2. Conserve({}) /\ TypeServeur' /\ JamaisMuree'
  <2>1. Monde({})
    BY DEF serveur, Monde
  <2> QED BY <2>1, MondeGarde DEF IComptes, TypeOK, TypeServeur, serveur, JamaisMuree
<1>3. ASSUME NEW a \in EtatsDAppareil, AppareilJuste(a),
             q.genre = "account" => q.jeton = a.jeton
      PROVE  ReponseJuste(a, q, r)'
  <2>1. a.locale \in Nat /\ compte.incarnation \in Nat /\ a.planchers.incarnation \in Nat
    BY DEF IComptes, TypeOK, Comptes, EtatsDAppareil
  <2>2. k = "sessionExpired" /\ q.genre = "account" => Incarnee(a) = compte.incarnation
    BY <1>3, <2>1 DEF AppareilJuste, Incarnee
  <2>3. compte' = compte
    BY DEF serveur
  <2> HIDE DEF r
  <2> QED BY <1>1, <2>2, <2>3 DEF ReponseJuste
<1> HIDE DEF r
<1>4. Repondre(q, r)
  BY DEF r
<1> QED BY <1>1, <1>2, <1>3, <1>4, PasServeur

LEMMA AccordEst ==
  ASSUME NEW c \in Comptes, NEW j \in Secrets
  PROVE  /\ Accord(c, j) \in Reponses /\ Accord(c, j).code = "ok"
         /\ Accord(c, j).compte = c /\ Accord(c, j).jeton = j
  BY DEF Accord, Reponses

\* A positive answer about the account as it becomes, with a token drawn (or
\* none), is right.
LEMMA AccordJuste ==
  ASSUME NEW a, NEW q, NEW c \in Comptes, NEW j \in Secrets, Sain(c), c = compte',
         q.genre \in {"commit", "resetComplete"} => c.scelle = q.coffre
  PROVE  ReponseJuste(a, q, Accord(c, j))'
<1>1. /\ Accord(c, j).code = "ok" /\ Accord(c, j).compte = c
  BY AccordEst
<1>2. c.incarnation \in Nat
  BY DEF Comptes
<1> DEFINE r == Accord(c, j)
<1>3. r.code = "ok" /\ r.compte = c
  BY <1>1
<1> HIDE DEF r
<1>4. ReponseJuste(a, q, r)'
  BY <1>2, <1>3 DEF ReponseJuste, Sain
<1> QED BY <1>4 DEF r

LEMMA SainOuNon ==
  JamaisMuree <=> Sain(compte)
  BY DEF JamaisMuree, Sain

\* Someone the server answers with a token drawn, without a new vault.
LEMMA JetonDonne ==
  ASSUME IComptes, NEW q \in EnRoute, q.genre \notin {"commit", "resetComplete"},
         NEW j \in Jetons, Tirable(j), Repondre(q, Accord(compte, j)),
         compte' = compte, codes' = codes, echeance' = echeance,
         sessions' \subseteq sessions \cup {j}, expirees' \subseteq sessions',
         expirees' \subseteq expirees,
         recuperations' \subseteq (recuperations \cup {j}) \ sessions',
         UNCHANGED <<appareil, moteur, montrees, permis, gestes, pannes>>
  PROVE  IComptes'
<1>1. /\ TypeOK /\ JamaisMuree /\ compte \in Comptes /\ j \in Secrets
  BY Bornes DEF IComptes, TypeOK
<1>2. PICK c \in Comptes : c = compte
  BY <1>1
<1> DEFINE r == Accord(c, j)
<1>3. r \in Reponses /\ Repondre(q, r)
  BY <1>1, <1>2, AccordEst
<1>4. /\ \A d \in Appareils : appareil[d].jeton \notin {j}
      /\ \A p \in EnRoute : {p.jeton, p.secret} \cap {j} = {}
      /\ \A d \in Appareils : appel[d] # Rien /\ appel[d].reponse # Rien =>
           appel[d].reponse.jeton \notin {j}
  BY <1>1, TireNeuf
<1>5. Conserve({j})
  BY MondeGarde DEF Monde
<1>6. TypeServeur' /\ JamaisMuree'
  BY <1>1 DEF TypeOK, TypeServeur, JamaisMuree
<1>7. \A a \in EtatsDAppareil : ReponseJuste(a, q, r)'
  BY <1>1, <1>2, AccordJuste, SainOuNon DEF Sain
<1> HIDE DEF r
<1> QED BY <1>3, <1>4, <1>5, <1>6, <1>7, PasServeur

LEMMA LoginJuste ==
  ASSUME IComptes, NEW q \in EnRoute, Login(q),
         UNCHANGED <<appareil, moteur, montrees, permis, gestes, pannes>>
  PROVE  IComptes'
<1>1. CASE q.mdp # compte.mdp
  BY <1>1, RefusJuste DEF Login, serveur
<1>2. CASE q.mdp = compte.mdp
  <2>1. PICK j \in Jetons, p \in {{}, expirees} :
          /\ Tirable(j)
          /\ sessions' = (sessions \ p) \cup {j} /\ expirees' = expirees \ p
          /\ Repondre(q, Accord(compte, j))
    BY <1>2 DEF Login
  <2>2. expirees \subseteq sessions /\ recuperations \cap sessions = {}
    BY DEF IComptes, TypeOK
  <2>3. j \notin recuperations
    BY TireNeuf, <2>1 DEF IComptes
  <2>4. /\ sessions' \subseteq sessions \cup {j} /\ expirees' \subseteq sessions'
        /\ expirees' \subseteq expirees
        /\ recuperations' \subseteq (recuperations \cup {j}) \ sessions'
    BY <2>1, <2>2, <2>3 DEF Login
  <2> QED BY <2>1, <2>4, JetonDonne DEF Login
<1> QED BY <1>1, <1>2

LEMMA RecoveryUnwrapJuste ==
  ASSUME IComptes, NEW q \in EnRoute, RecoveryUnwrap(q),
         UNCHANGED <<appareil, moteur, montrees, permis, gestes, pannes>>
  PROVE  IComptes'
<1>1. CASE q.cle # compte.cle
  BY <1>1, RefusJuste DEF RecoveryUnwrap, serveur
<1>2. CASE q.cle = compte.cle
  <2>1. PICK j \in Jetons : /\ Tirable(j) /\ recuperations' = recuperations \cup {j}
                            /\ Repondre(q, Accord(compte, j))
    BY <1>2 DEF RecoveryUnwrap
  <2>2. expirees \subseteq sessions /\ recuperations \cap sessions = {}
    BY DEF IComptes, TypeOK
  <2>3. j \notin sessions
    BY TireNeuf, <2>1 DEF IComptes
  <2> QED BY <2>1, <2>2, <2>3, JetonDonne DEF RecoveryUnwrap
<1> QED BY <1>1, <1>2

LEMMA AccountJuste ==
  ASSUME IComptes, NEW q \in EnRoute, Account(q),
         UNCHANGED <<appareil, moteur, montrees, permis, gestes, pannes>>
  PROVE  IComptes'
<1>1. TypeOK /\ JamaisMuree /\ compte \in Comptes /\ expirees \subseteq sessions
  BY DEF IComptes, TypeOK
<1>2. CASE Authentifie(q.jeton)
  <2>1. PICK c \in Comptes : c = compte
    BY <1>1
  <2> DEFINE r == Accord(c, 0)
  <2>2. /\ r \in Reponses /\ Repondre(q, r)
        /\ q.genre \notin {"commit", "resetComplete"} /\ UNCHANGED serveur
    BY <1>2, <2>1, AccordEst, Bornes DEF Account
  <2>3. Conserve({}) /\ TypeServeur' /\ JamaisMuree'
    <3>1. Monde({})
      BY <2>2 DEF serveur, Monde
    <3> QED BY <1>1, <2>2, <3>1, MondeGarde DEF TypeOK, TypeServeur, serveur, JamaisMuree
  <2>4. \A a \in EtatsDAppareil : ReponseJuste(a, q, r)'
    BY <1>1, <2>1, <2>2, AccordJuste, SainOuNon, Bornes DEF Sain, serveur
  <2> HIDE DEF r
  <2> QED BY <2>2, <2>3, <2>4, PasServeur
<1>3. CASE ~Authentifie(q.jeton)
  <2>1. /\ NonAuthentifie(q.jeton) \in {"sessionExpired", "sessionRevoked"}
        /\ NonAuthentifie(q.jeton) = "sessionExpired" => q.jeton \in sessions
    BY <1>1 DEF NonAuthentifie
  <2>2. Repondre(q, Refus(NonAuthentifie(q.jeton))) /\ UNCHANGED serveur
    BY <1>3 DEF Account
  <2> HIDE DEF NonAuthentifie
  <2> QED BY <2>1, <2>2, RefusJuste
<1> QED BY <1>2, <1>3

\* A vault is replaced: the token drawn is the only one left, and the answer
\* describes the account as it becomes.
LEMMA CoffreChange ==
  ASSUME IComptes, NEW q \in EnRoute, NEW j \in Jetons, Tirable(j),
         NEW c \in Comptes, compte' = c, Sain(c), c.scelle = q.coffre,
         Repondre(q, Accord(c, j)), Tourne(j), expirees' = {},
         codes' \in [coffre : Secrets, reinit : Secrets],
         echeance' \in {"aucune", "prevue", "echue"}, q.genre # "account",
         UNCHANGED <<appareil, moteur, montrees, permis, gestes, pannes>>
  PROVE  IComptes'
<1> DEFINE r == Accord(c, j)
<1>1. TypeOK /\ j \in Secrets
  BY Bornes DEF IComptes
<1>2. r \in Reponses /\ Repondre(q, r)
  BY <1>1, AccordEst
<1>3. /\ \A d \in Appareils : appareil[d].jeton \notin {j}
      /\ \A p \in EnRoute : {p.jeton, p.secret} \cap {j} = {}
      /\ \A d \in Appareils : appel[d] # Rien /\ appel[d].reponse # Rien =>
           appel[d].reponse.jeton \notin {j}
  BY <1>1, TireNeuf
<1>4. Conserve({j})
  BY <1>1, MondeTourne
<1>5. TypeServeur' /\ JamaisMuree'
  BY DEF TypeServeur, JamaisMuree, Tourne, Sain
<1>6. \A a \in EtatsDAppareil : ReponseJuste(a, q, r)'
  BY <1>1, AccordJuste
<1> HIDE DEF r
<1> QED BY <1>2, <1>3, <1>4, <1>5, <1>6, PasServeur

LEMMA CoffresEst ==
  ASSUME NEW c \in Coffres
  PROVE  /\ c.incarnation \in Nat /\ c.version \in Nat /\ c.mdp \in Mdps /\ c.cle \in 0..ClesMax
         /\ c = Scelle(c.incarnation, c.version, c.mdp, c.cle)
  BY DEF Coffres, Scelle

LEMMA CommitJuste ==
  ASSUME IComptes, NEW q \in EnRoute, q.genre = "commit", CommitAccepte(q), Recevable(q),
         UNCHANGED <<appareil, moteur, montrees, permis, gestes, pannes>>
  PROVE  IComptes'
<1> DEFINE k == CASE q.mode = "keep" -> compte.cle
                  [] q.mode = "replace" -> q.coffre.cle
                  [] q.mode = "remove" -> 0
           c == [compte EXCEPT !.version = q.coffre.version, !.mdp = q.coffre.mdp,
                               !.cle = k, !.scelle = q.coffre]
<1>1. /\ TypeOK /\ compte \in Comptes /\ codes \in [coffre : Secrets, reinit : Secrets]
      /\ echeance \in {"aucune", "prevue", "echue"}
  BY DEF IComptes, TypeOK
<1>2. q.coffre \in Coffres /\ q.mode \in {"keep", "replace", "remove"}
  BY DEF IComptes, Formes, Formee
<1>3. k = q.coffre.cle /\ q.coffre.incarnation = compte.incarnation
  <2>1. DemandeJuste(q)
    BY DEF IComptes, Justes
  <2>2. /\ q.coffre.incarnation = compte.incarnation
        /\ q.mode = "keep" => q.coffre.cle = compte.cle
        /\ q.mode = "remove" => q.coffre.cle = 0
    BY <2>1 DEF DemandeJuste
  <2> QED BY <1>2, <2>2
<1>4. compte' = c
  BY DEF CommitAccepte
<1> HIDE DEF k
<1>5. /\ c \in Comptes /\ c.incarnation = compte.incarnation /\ c.version = q.coffre.version
      /\ c.mdp = q.coffre.mdp /\ c.cle = k /\ c.scelle = q.coffre
  BY <1>1, <1>2, <1>3, CoffresEst DEF Comptes
<1>6. Sain(c)
  BY <1>2, <1>3, <1>5, CoffresEst DEF Sain
<1>7. PICK j \in Jetons : Tirable(j) /\ sessions' = {j} /\ expirees' = {}
                          /\ Repondre(q, Accord(compte', j))
  BY DEF CommitAccepte
<1>8. /\ codes' = [codes EXCEPT !.coffre = 0] /\ recuperations' = {} /\ echeance' = echeance
  BY DEF CommitAccepte
<1>9. codes' \in [coffre : Secrets, reinit : Secrets] /\ codes'.reinit = codes.reinit
  BY <1>1, <1>8, Bornes
<1> HIDE DEF c
<1>10. PICK n \in Comptes : n = c
  BY <1>5
<1>11. Tourne(j)
  BY <1>4, <1>5, <1>7, <1>8, <1>9 DEF Tourne
<1>12. /\ compte' = n /\ Sain(n) /\ n.scelle = q.coffre /\ Repondre(q, Accord(n, j))
  BY <1>4, <1>5, <1>6, <1>7, <1>10
<1> QED BY <1>1, <1>7, <1>8, <1>9, <1>11, <1>12, CoffreChange

LEMMA VaultCommitJuste ==
  ASSUME IComptes, NEW q \in EnRoute, VaultCommit(q),
         UNCHANGED <<appareil, moteur, montrees, permis, gestes, pannes>>
  PROVE  IComptes'
<1>1. q.genre = "commit"
  BY DEF VaultCommit
<1>2. CASE q.preuve # "recovery" /\ ~Authentifie(q.jeton)
  <2>1. NonAuthentifie(q.jeton) \in {"sessionExpired", "sessionRevoked"}
    BY DEF NonAuthentifie
  <2>2. Repondre(q, Refus(NonAuthentifie(q.jeton))) /\ UNCHANGED serveur
    BY <1>2 DEF VaultCommit
  <2> HIDE DEF NonAuthentifie
  <2> QED BY <1>1, <2>1, <2>2, RefusJuste
<1>3. CASE ~(q.preuve # "recovery" /\ ~Authentifie(q.jeton))
  <2>1. CASE CommitAccepte(q)
    <3>1. Recevable(q)
      BY <1>3, <2>1 DEF CommitAccepte, PreuveTenue, Recevable, Authentifie
    <3> QED BY <1>1, <2>1, <3>1, CommitJuste
  <2>2. CASE Repondre(q, Refus("refus")) /\ UNCHANGED serveur
    BY <2>2, RefusJuste
  <2> QED BY <1>3, <2>1, <2>2 DEF VaultCommit
<1> QED BY <1>2, <1>3

LEMMA ResetCompleteJuste ==
  ASSUME IComptes, NEW q \in EnRoute, ResetComplete(q),
         UNCHANGED <<appareil, moteur, montrees, permis, gestes, pannes>>
  PROVE  IComptes'
<1>1. q.genre = "resetComplete"
  BY DEF ResetComplete
<1>2. CASE q.secret # codes.reinit \/ echeance # "echue"
  BY <1>2, RefusJuste DEF ResetComplete
<1>3. CASE q.secret = codes.reinit /\ echeance = "echue"
  <2> DEFINE c == [incarnation |-> compte.incarnation + 1, version |-> 1,
                   mdp |-> q.coffre.mdp, cle |-> 0, scelle |-> q.coffre]
  <2>1. compte.incarnation \in Nat
    BY DEF IComptes, TypeOK, Comptes
  <2>2. q.coffre \in Coffres
    BY <1>1 DEF IComptes, Formes, Formee
  <2>3. /\ q.coffre.version = 1 /\ q.coffre.cle = 0
        /\ q.coffre.incarnation = compte.incarnation + 1
    BY <1>1, <1>3 DEF IComptes, Justes, DemandeJuste
  <2>4. c \in Comptes
    BY <2>1, <2>2, CoffresEst, Bornes DEF Comptes
  <2>5. Sain(c)
    BY <2>2, <2>3, CoffresEst DEF Sain
  <2>6. PICK j \in Jetons : Tirable(j) /\ sessions' = {j} /\ expirees' = {}
                            /\ Repondre(q, Accord(compte', j))
    BY <1>3 DEF ResetComplete
  <2>7. /\ compte' = c /\ recuperations' = {} /\ codes' = [coffre |-> 0, reinit |-> 0]
        /\ echeance' = "aucune"
    BY <1>3 DEF ResetComplete
  <2>8. codes' \in [coffre : Secrets, reinit : Secrets] /\ codes'.reinit = 0
    BY <2>7, Bornes
  <2>9. c.incarnation = compte.incarnation + 1 /\ c.scelle = q.coffre
    OBVIOUS
  <2>10. Tourne(j)
    BY <2>6, <2>7, <2>8, <2>9 DEF Tourne
  <2> HIDE DEF c
  <2>11. PICK n \in Comptes : n = c
    BY <2>4
  <2>12. /\ compte' = n /\ Sain(n) /\ n.scelle = q.coffre /\ Repondre(q, Accord(n, j))
    BY <2>5, <2>6, <2>7, <2>9, <2>11
  <2> QED BY <1>1, <2>6, <2>7, <2>8, <2>10, <2>12, CoffreChange
<1> QED BY <1>2, <1>3

LEMMA ServirJuste ==
  ASSUME IComptes, Servir
  PROVE  IComptes'
<1>1. PICK q \in EnRoute : VaultCommit(q) \/ Login(q) \/ Account(q)
                             \/ RecoveryUnwrap(q) \/ ResetComplete(q)
  BY DEF Servir
<1>2. UNCHANGED <<appareil, moteur, montrees, permis, gestes, pannes>>
  BY DEF Servir
<1> QED BY <1>1, <1>2, VaultCommitJuste, LoginJuste, AccountJuste, RecoveryUnwrapJuste,
           ResetCompleteJuste

-----------------------------------------------------------------------------
(* The gestures of a device                                                *)

LEMMA PasSansAppel ==
  ASSUME IComptes, NEW d \in Appareils, NEW a \in EtatsDAppareil, AppareilJuste(a),
         SansAppel(d), appareil' = [appareil EXCEPT ![d] = a], UNCHANGED <<appel, tardives>>,
         Monde({}),
         expirees' \subseteq sessions', codes' \in [coffre : Secrets, reinit : Secrets],
         echeance' \in {"aucune", "prevue", "echue"},
         moteur' \in [de : Appareils, jeton : Secrets] \cup {Rien},
         montrees' \subseteq 1..ClesMax, permis' = permis,
         gestes' \in Nat, pannes' \in 0..PannesMax
  PROVE  IComptes'
<1>1. Ici(d, a, Rien)
  BY DEF Ici, SansAppel, IComptes, TypeOK
<1> QED BY <1>1, PasIci

\* A call just begun, its device being a; nothing else has moved.
LEMMA PasAppel ==
  ASSUME IComptes, NEW d \in Appareils, NEW a \in EtatsDAppareil, AppareilJuste(a),
         NEW z, Neuf(a, z), appareil' = [appareil EXCEPT ![d] = a],
         appel' = [appel EXCEPT ![d] = z], gestes' \in Nat,
         UNCHANGED <<serveur, moteur, tardives, montrees, permis, pannes>>
  PROVE  IComptes'
<1>1. Ici(d, a, z)
  BY DEF Ici
<1>2. /\ expirees' \subseteq sessions' /\ codes' \in [coffre : Secrets, reinit : Secrets]
      /\ echeance' \in {"aucune", "prevue", "echue"}
      /\ moteur' \in [de : Appareils, jeton : Secrets] \cup {Rien}
      /\ montrees' \subseteq 1..ClesMax /\ pannes' \in 0..PannesMax /\ permis' = permis
      /\ codes'.reinit = codes.reinit
  BY DEF IComptes, TypeOK, serveur
<1>3. Monde({})
  BY DEF Monde, serveur
<1> QED BY <1>1, <1>2, <1>3, PasIci

LEMMA IciMeme ==
  ASSUME IComptes, NEW d \in Appareils
  PROVE  /\ appareil[d] \in EtatsDAppareil /\ AppareilJuste(appareil[d])
         /\ appareil = [appareil EXCEPT ![d] = appareil[d]]
         /\ appel = [appel EXCEPT ![d] = appel[d]]
  BY DEF IComptes, TypeOK, Justes

LEMMA RequeteEst ==
  ASSUME NEW d \in Appareils,
         NEW g \in {"login", "commit", "unwrap", "account", "resetComplete"}
  PROVE  /\ Requete(d, g) \in Requetes /\ Requete(d, g).genre = g
         /\ Requete(d, g).preuve = Rien /\ Requete(d, g).secret = 0
         /\ Requete(d, g).jeton = 0
  BY Bornes DEF Requete, Requetes

Gestuelle == {"connecter", "changer", "retirer", "deconnecterAppareil", "confirmerCle",
              "recuperer", "recupererRemplacer", "reinitConfirmer", "reinitTerminer"}
LEMMA AppelEst ==
  ASSUME NEW g \in Gestuelle, NEW m \in Mdps \cup {Rien}, NEW q \in Requetes
  PROVE  /\ Appel(g, m, q) \in Appels /\ Appel(g, m, q).reponse = Rien
         /\ Appel(g, m, q).requete = q /\ Appel(g, m, q).geste = g /\ Appel(g, m, q).mdp = m
  BY DEF Appel, Appels, Gestuelle

LEMMA RotationEst ==
  ASSUME NEW q \in Requetes, NEW t \in Trousseaux, NEW v \in Nat, NEW m \in Mdps,
         NEW k \in 0..ClesMax, NEW mode \in {"keep", "replace", "remove"}
  PROVE  LET x == Rotation(q, t, v, m, k, mode)
         IN  /\ x \in Requetes /\ x.genre = q.genre /\ x.jeton = q.jeton
             /\ x.secret = q.secret /\ x.preuve = q.preuve /\ x.mode = mode
             /\ x.coffre \in Coffres /\ x.coffre.incarnation = t.incarnation
             /\ x.coffre.cle = k
<1>1. t.incarnation \in Nat /\ t.epoque + 1 \in Nat /\ v + 1 \in Nat
  BY DEF Trousseaux
<1> DEFINE c == Scelle(t.incarnation, v + 1, m, k)
           e == t.epoque + 1
<1>2. c \in Coffres /\ c.incarnation = t.incarnation /\ c.cle = k
  BY <1>1, ScelleEst
<1>3. e \in Nat
  BY <1>1
<1>4. Rotation(q, t, v, m, k, mode) =
        [q EXCEPT !.base = v, !.epoque = e, !.mode = mode, !.coffre = c]
  BY DEF Rotation
<1> HIDE DEF c, e
<1> QED BY <1>2, <1>3, <1>4 DEF Requetes

\* A rotation asked from an open device keeps the incarnation, and the key it
\* is said to keep, if its session is still one.
LEMMA RotationIciNeuve ==
  ASSUME IComptes, NEW d \in Appareils, Ouvert(d), appareil[d].enveloppe # Rien,
         NEW q \in Requetes, q.genre = "commit", q.preuve # "recovery",
         NEW m \in Mdps, NEW k \in 0..ClesMax, NEW mode \in {"keep", "replace", "remove"},
         mode = "keep" => k = appareil[d].serrure.cle, mode = "remove" => k = 0,
         NEW g \in Gestuelle \ {"reinitConfirmer"}
  PROVE  Neuf(appareil[d], Appel(g, m, RotationIci(d, q, m, k, mode)))
<1> DEFINE a == appareil[d]
           p == [q EXCEPT !.jeton = JetonDe(a)]
           x == RotationIci(d, q, m, k, mode)
           z == Appel(g, m, x)
<1>1. /\ a \in EtatsDAppareil /\ AppareilJuste(a) /\ TypeOK /\ JamaisMuree
      /\ compte \in Comptes
  BY IciMeme DEF IComptes, TypeOK
<1>2. /\ a.serrure # Rien /\ a.serrure \in Trousseaux /\ a.enveloppe \in Coffres
      /\ a.jeton \in Secrets
  BY <1>1 DEF Ouvert, EtatsDAppareil, Trousseaux
<1>3. JetonDe(a) \in {0, a.jeton} /\ JetonDe(a) \in Secrets
  BY <1>2, Bornes DEF JetonDe
<1>4. /\ p \in Requetes /\ p.genre = "commit" /\ p.jeton = JetonDe(a)
      /\ p.preuve # "recovery"
  BY <1>3 DEF Requetes
<1>5. a.enveloppe.version \in Nat
  BY <1>2 DEF Coffres
<1>6. /\ x \in Requetes /\ x.genre = "commit" /\ x.jeton = JetonDe(a)
      /\ x.preuve # "recovery" /\ x.mode = mode /\ x.coffre \in Coffres
      /\ x.coffre.incarnation = a.serrure.incarnation /\ x.coffre.cle = k
  <2> HIDE DEF p
  <2>1. x = Rotation(p, a.serrure, a.enveloppe.version, m, k, mode)
    BY DEF RotationIci, p
  <2> HIDE DEF a, x
  <2> QED BY <1>2, <1>4, <1>5, <2>1, RotationEst
<1> HIDE DEF x
<1>7. x.jeton \in sessions =>
        a.serrure.incarnation = compte.incarnation /\ a.serrure.cle = compte.cle
  <2>1. 0 \notin sessions
    BY <1>1, Bornes DEF TypeOK
  <2>2. x.jeton \in sessions => a.serrure = Trousseau(compte.scelle)
    BY <1>1, <1>2, <1>3, <1>6, <2>1 DEF AppareilJuste
  <2>3. /\ compte.scelle \in Coffres /\ compte.scelle.incarnation = compte.incarnation
        /\ compte.scelle.cle = compte.cle
    BY <1>1, ScelleEst DEF JamaisMuree, Comptes
  <2> QED BY <2>2, <2>3, TrousseauEst
<1>8. Formee(x) /\ DemandeJuste(x)
  BY <1>6, <1>7 DEF Formee, DemandeJuste, Recevable
<1>9. z \in Appels /\ z.reponse = Rien /\ z.requete = x /\ z.geste = g /\ z.mdp = m
  BY <1>6, AppelEst
<1> HIDE DEF z
<1>10. Neuf(a, z)
  BY <1>6, <1>8, <1>9 DEF Neuf
<1> QED BY <1>10 DEF z, x

\* Tourner, on such a rotation.
LEMMA TournerJuste ==
  ASSUME IComptes, NEW d \in Appareils, NEW g \in Gestuelle \ {"reinitConfirmer"}, NEW m,
         NEW q, Tourner(d, g, m, q), Neuf(appareil[d], Appel(g, m, q))
  PROVE  IComptes'
<1>1. /\ gestes' \in Nat /\ appareil' = appareil
      /\ appel' = [appel EXCEPT ![d] = Appel(g, m, q)]
      /\ UNCHANGED <<serveur, moteur, tardives, montrees, permis, pannes>>
  BY DEF Tourner, Geste, IComptes, TypeOK
<1> QED BY <1>1, IciMeme, PasAppel

LEMMA ParMotDePasseEst ==
  ASSUME NEW d \in Appareils, NEW m \in Mdps
  PROVE  /\ ParMotDePasse(d, m) \in Requetes /\ ParMotDePasse(d, m).genre = "commit"
         /\ ParMotDePasse(d, m).preuve # "recovery"
<1>1. PICK r \in Requetes : r = Requete(d, "commit") /\ r.genre = "commit"
  BY RequeteEst
<1>2. ParMotDePasse(d, m) = [r EXCEPT !.preuve = "password", !.mdp = m]
  BY <1>1 DEF ParMotDePasse
<1> QED BY <1>1, <1>2 DEF Requetes

LEMMA OuvertEst ==
  ASSUME IComptes, NEW d \in Appareils, Ouvert(d), appareil[d].enveloppe # Rien
  PROVE  /\ appareil[d].enveloppe.mdp \in Mdps /\ appareil[d].serrure.cle \in 0..ClesMax
         /\ Gardee(appareil[d].serrure) \in {"keep", "remove"}
         /\ Gardee(appareil[d].serrure) = "remove" => appareil[d].serrure.cle = 0
  BY IciMeme DEF Ouvert, EtatsDAppareil, Coffres, Gardee

LEMMA ChangerMotDePasseJuste ==
  ASSUME IComptes, NEW d \in Appareils, NEW m \in Mdps, ChangerMotDePasse(d, m)
  PROVE  IComptes'
<1> DEFINE t == appareil[d].serrure
           q == ParMotDePasse(d, appareil[d].enveloppe.mdp)
<1>1. Ouvert(d) /\ appareil[d].enveloppe # Rien
  BY DEF ChangerMotDePasse, Jugeable
<1>2. q \in Requetes /\ q.genre = "commit" /\ q.preuve # "recovery"
  BY <1>1, OuvertEst, ParMotDePasseEst
<1>3. Neuf(appareil[d], Appel("changer", m, RotationIci(d, q, m, t.cle, Gardee(t))))
  BY <1>1, <1>2, OuvertEst, RotationIciNeuve DEF Gestuelle
<1>4. Tourner(d, "changer", m, RotationIci(d, q, m, t.cle, Gardee(t)))
  BY DEF ChangerMotDePasse
<1> QED BY <1>3, <1>4, TournerJuste DEF Gestuelle

LEMMA OubliIciJuste ==
  ASSUME IComptes, NEW d \in Appareils, NEW m \in Mdps, OubliIci(d, m)
  PROVE  IComptes'
<1> DEFINE t == appareil[d].serrure
           q == [Requete(d, "commit") EXCEPT !.preuve = "emailCode", !.secret = codes.coffre]
<1>1. Ouvert(d) /\ appareil[d].enveloppe # Rien
  BY DEF OubliIci
<1>2. q \in Requetes /\ q.genre = "commit" /\ q.preuve # "recovery"
  <2>1. PICK r \in Requetes : r = Requete(d, "commit") /\ r.genre = "commit"
    BY RequeteEst
  <2>2. codes.coffre \in Secrets
    BY DEF IComptes, TypeOK
  <2>3. q = [r EXCEPT !.preuve = "emailCode", !.secret = codes.coffre]
    BY <2>1
  <2> QED BY <2>1, <2>2, <2>3 DEF Requetes
<1>3. Neuf(appareil[d], Appel("changer", m, RotationIci(d, q, m, t.cle, Gardee(t))))
  BY <1>1, <1>2, OuvertEst, RotationIciNeuve DEF Gestuelle
<1>4. Tourner(d, "changer", m, RotationIci(d, q, m, t.cle, Gardee(t)))
  BY DEF OubliIci
<1> QED BY <1>3, <1>4, TournerJuste DEF Gestuelle

LEMMA RetirerCleJuste ==
  ASSUME IComptes, NEW d \in Appareils, RetirerCle(d)
  PROVE  IComptes'
<1> DEFINE m == appareil[d].enveloppe.mdp
           q == ParMotDePasse(d, m)
<1>1. Ouvert(d) /\ appareil[d].enveloppe # Rien
  BY DEF RetirerCle, Jugeable
<1>2. m \in Mdps
  BY <1>1, OuvertEst
<1>3. q \in Requetes /\ q.genre = "commit" /\ q.preuve # "recovery"
  BY <1>2, ParMotDePasseEst
<1>4. Neuf(appareil[d], Appel("retirer", m, RotationIci(d, q, m, 0, "remove")))
  BY <1>1, <1>2, <1>3, RotationIciNeuve, Bornes DEF Gestuelle
<1>5. Tourner(d, "retirer", m, RotationIci(d, q, m, 0, "remove"))
  BY DEF RetirerCle
<1> QED BY <1>4, <1>5, TournerJuste DEF Gestuelle

LEMMA ConfirmerCleJuste ==
  ASSUME IComptes, NEW d \in Appareils, ConfirmerCle(d)
  PROVE  IComptes'
<1> DEFINE x == appareil[d].attente
           q == ParMotDePasse(d, x.mdp)
<1>1. Ouvert(d) /\ appareil[d].enveloppe # Rien /\ x # Rien
  BY DEF ConfirmerCle
<1>2. x.mdp \in Mdps /\ x.cle \in 0..ClesMax
  BY <1>1, IciMeme, Bornes DEF EtatsDAppareil
<1>3. q \in Requetes /\ q.genre = "commit" /\ q.preuve # "recovery"
  BY <1>2, ParMotDePasseEst
<1>4. Neuf(appareil[d], Appel("confirmerCle", x.mdp, RotationIci(d, q, x.mdp, x.cle, "replace")))
  BY <1>1, <1>2, <1>3, RotationIciNeuve DEF Gestuelle
<1>5. Tourner(d, "confirmerCle", x.mdp, RotationIci(d, q, x.mdp, x.cle, "replace"))
  BY DEF ConfirmerCle
<1> QED BY <1>4, <1>5, TournerJuste DEF Gestuelle

LEMMA DeconnecterAppareilJuste ==
  ASSUME IComptes, NEW d \in Appareils, NEW j \in Jetons, DeconnecterAppareil(d, j)
  PROVE  IComptes'
<1> DEFINE m == appareil[d].enveloppe.mdp
           t == appareil[d].serrure
           q == ParMotDePasse(d, m)
           x == RotationIci(d, q, m, t.cle, Gardee(t))
           y == [x EXCEPT !.revoquee = j]
           g == "deconnecterAppareil"
<1>1. Ouvert(d) /\ appareil[d].enveloppe # Rien
  BY DEF DeconnecterAppareil, Jugeable
<1>2. m \in Mdps
  BY <1>1, OuvertEst
<1>3. q \in Requetes /\ q.genre = "commit" /\ q.preuve # "recovery"
  BY <1>2, ParMotDePasseEst
<1>4. Neuf(appareil[d], Appel(g, m, x))
  BY <1>1, <1>2, <1>3, OuvertEst, RotationIciNeuve DEF Gestuelle
<1>5. Tourner(d, g, m, y)
  BY DEF DeconnecterAppareil
<1> HIDE DEF x
<1>6. /\ Appel(g, m, x).requete = x /\ Appel(g, m, x).mdp = m /\ Appel(g, m, x).geste = g
      /\ Appel(g, m, y).requete = y /\ Appel(g, m, y).mdp = m /\ Appel(g, m, y).geste = g
      /\ Appel(g, m, y).reponse = Rien
  BY DEF Appel
<1>7. x \in Requetes
  BY <1>4, <1>6 DEF Neuf, Appels
<1>8. /\ y \in Requetes /\ y.genre = x.genre /\ y.preuve = x.preuve /\ y.secret = x.secret
      /\ y.jeton = x.jeton /\ y.mode = x.mode /\ y.coffre = x.coffre
  BY <1>7, Bornes DEF Requetes
<1>9. Appel(g, m, y) \in Appels
  BY <1>2, <1>8, AppelEst DEF Gestuelle
<1> HIDE DEF y
<1>10. Formee(y) /\ DemandeJuste(y)
  BY <1>4, <1>6, <1>8 DEF Neuf, Formee, DemandeJuste, Recevable
<1>11. y.genre = "account" => y.jeton = appareil[d].jeton
  BY <1>4, <1>6, <1>8 DEF Neuf
<1>12. Neuf(appareil[d], Appel(g, m, y))
  BY <1>2, <1>6, <1>9, <1>10, <1>11 DEF Neuf
<1> QED BY <1>5, <1>12, TournerJuste DEF Gestuelle

LEMMA FermeeJuste ==
  ASSUME IComptes, NEW d \in Appareils
  PROVE  \E a \in EtatsDAppareil :
           AppareilJuste(a) /\ Fermee(d) = [appareil EXCEPT ![d] = a]
             /\ a.jeton = appareil[d].jeton
<1> DEFINE b == [appareil[d] EXCEPT !.serrure = Rien]
<1>1. b \in EtatsDAppareil /\ AppareilJuste(b)
  BY IciMeme, SerrureOtee
<1>2. b.jeton = appareil[d].jeton
  BY IciMeme DEF EtatsDAppareil
<1>3. Fermee(d) = [appareil EXCEPT ![d] = b]
  BY DEF Fermee, IComptes, TypeOK
<1> HIDE DEF b
<1> QED BY <1>1, <1>2, <1>3

LEMMA ConnecterJuste ==
  ASSUME IComptes, NEW d \in Appareils, NEW m \in Mdps, Connecter(d, m)
  PROVE  IComptes'
<1> DEFINE q == [Requete(d, "login") EXCEPT !.mdp = m]
           z == Appel("connecter", m, q)
<1>1. q \in Requetes /\ q.genre = "login"
  BY RequeteEst DEF Requetes
<1>2. z \in Appels /\ z.reponse = Rien /\ z.requete = q /\ z.mdp = m
  BY <1>1, AppelEst DEF Gestuelle
<1>3. PICK a \in EtatsDAppareil : AppareilJuste(a) /\ Fermee(d) = [appareil EXCEPT ![d] = a]
  BY FermeeJuste
<1>4. appel' = [appel EXCEPT ![d] = z]
  BY DEF Connecter
<1>5. appareil' = [appareil EXCEPT ![d] = a] /\ gestes' \in Nat
  BY <1>3 DEF Connecter, Geste, IComptes, TypeOK
<1> HIDE DEF q, z
<1>6. Neuf(a, z)
  BY <1>1, <1>2 DEF Neuf, Formee, DemandeJuste
<1> QED BY <1>3, <1>4, <1>5, <1>6, PasAppel DEF Connecter

LEMMA RecupererJuste ==
  ASSUME IComptes, NEW d \in Appareils, NEW m \in Mdps, NEW k \in montrees,
         NEW g \in {"recuperer", "recupererRemplacer"}, Recuperer(d, k, m, g)
  PROVE  IComptes'
<1> DEFINE q == [Requete(d, "unwrap") EXCEPT !.cle = k]
           z == Appel(g, m, q)
<1>0. k \in 0..ClesMax
  BY Bornes DEF IComptes, TypeOK
<1>1. q \in Requetes /\ q.genre = "unwrap"
  BY <1>0, RequeteEst DEF Requetes
<1>2. z \in Appels /\ z.reponse = Rien /\ z.requete = q /\ z.mdp = m
  BY <1>1, AppelEst DEF Gestuelle
<1>3. PICK a \in EtatsDAppareil : AppareilJuste(a) /\ Fermee(d) = [appareil EXCEPT ![d] = a]
  BY FermeeJuste
<1>4. appel' = [appel EXCEPT ![d] = z]
  BY DEF Recuperer
<1>5. appareil' = [appareil EXCEPT ![d] = a] /\ gestes' \in Nat
  BY <1>3 DEF Recuperer, Geste, IComptes, TypeOK
<1> HIDE DEF q, z
<1>6. Neuf(a, z)
  BY <1>1, <1>2 DEF Neuf, Formee, DemandeJuste
<1> QED BY <1>3, <1>4, <1>5, <1>6, PasAppel DEF Recuperer

LEMMA ReinitialiserJuste ==
  ASSUME IComptes, NEW d \in Appareils, NEW m \in Mdps \cup {Rien},
         NEW g \in {"reinitConfirmer", "reinitTerminer"}, g = "reinitTerminer" => m \in Mdps,
         Reinitialiser(d, g, m)
  PROVE  IComptes'
<1> DEFINE s == codes.reinit
           q == [Requete(d, "account") EXCEPT !.jeton = JetonDe(appareil[d]), !.secret = s]
           z == Appel(g, m, q)
<1>1. /\ JetonDe(appareil[d]) = appareil[d].jeton /\ appareil[d].jeton \in Secrets
      /\ s # 0 /\ s \in Secrets
  BY IciMeme DEF Reinitialiser, JetonDe, EtatsDAppareil, IComptes, TypeOK
<1>2. appel' = [appel EXCEPT ![d] = z]
  BY DEF Reinitialiser
<1> HIDE DEF s
<1>3. /\ q \in Requetes /\ q.genre = "account" /\ q.jeton = appareil[d].jeton /\ q.secret = s
  <2>1. PICK r \in Requetes : r = Requete(d, "account") /\ r.genre = "account"
    BY RequeteEst
  <2>2. q = [r EXCEPT !.jeton = JetonDe(appareil[d]), !.secret = s]
    BY <2>1
  <2> QED BY <1>1, <2>1, <2>2 DEF Requetes
<1>4. z \in Appels /\ z.reponse = Rien /\ z.requete = q /\ z.mdp = m /\ z.geste = g
  BY <1>3, AppelEst DEF Gestuelle
<1>5. appareil' = appareil /\ gestes' \in Nat
  BY DEF Reinitialiser, Geste, IComptes, TypeOK
<1> HIDE DEF q, z
<1>6. Neuf(appareil[d], z)
  BY <1>1, <1>3, <1>4 DEF Neuf, Formee, DemandeJuste
<1> QED BY <1>2, <1>5, <1>6, IciMeme, PasAppel DEF Reinitialiser

-----------------------------------------------------------------------------
(* The gestures without a call                                             *)

\* The device d becomes a, the server and the engine do not move.
LEMMA PasCalme ==
  ASSUME IComptes, NEW d \in Appareils, NEW a \in EtatsDAppareil, AppareilJuste(a),
         SansAppel(d), appareil' = [appareil EXCEPT ![d] = a], montrees' \subseteq 1..ClesMax,
         UNCHANGED <<serveur, appel, moteur, tardives, permis, gestes, pannes>>
  PROVE  IComptes'
<1>1. /\ expirees' \subseteq sessions' /\ codes' \in [coffre : Secrets, reinit : Secrets]
      /\ echeance' \in {"aucune", "prevue", "echue"}
      /\ moteur' \in [de : Appareils, jeton : Secrets] \cup {Rien}
      /\ gestes' \in Nat /\ pannes' \in 0..PannesMax /\ permis' = permis
  BY DEF IComptes, TypeOK, serveur
<1>2. Monde({})
  BY DEF Monde, serveur
<1> QED BY <1>1, <1>2, PasSansAppel

LEMMA PreparerCleJuste ==
  ASSUME IComptes, NEW d \in Appareils, PreparerCle(d)
  PROVE  IComptes'
<1>1. Ouvert(d) /\ appareil[d].enveloppe # Rien
  BY DEF PreparerCle, Jugeable
<1>2. PICK k \in 1..ClesMax :
        /\ appareil' = [appareil EXCEPT ![d].attente =
                          [cle |-> k, mdp |-> appareil[d].enveloppe.mdp]]
        /\ montrees' = montrees \cup {k}
  BY DEF PreparerCle
<1>3. PICK x \in Attentes : x = [cle |-> k, mdp |-> appareil[d].enveloppe.mdp]
  BY <1>1, OuvertEst DEF Attentes
<1>4. PICK a \in EtatsDAppareil : AppareilJuste(a) /\ a = [appareil[d] EXCEPT !.attente = x]
  BY IciMeme, AttenteIndifferente
<1>5. appareil' = [appareil EXCEPT ![d] = a]
  BY <1>2, <1>3, <1>4 DEF IComptes, TypeOK
<1>6. montrees' \subseteq 1..ClesMax
  BY <1>2 DEF IComptes, TypeOK
<1> QED BY <1>4, <1>5, <1>6, PasCalme DEF PreparerCle

\* The session of d is refused: it stays in order.
LEMMA PerdueIci ==
  ASSUME IComptes, NEW d \in Appareils, NEW k
  PROVE  \E a \in EtatsDAppareil :
           /\ AppareilJuste(a) /\ a = SessionPerdue(appareil[d], k)
           /\ [appareil EXCEPT ![d] = SessionPerdue(@, k)] = [appareil EXCEPT ![d] = a]
<1>1. PICK a \in EtatsDAppareil : AppareilJuste(a) /\ a = SessionPerdue(appareil[d], k)
  BY IciMeme, SessionPerdueJuste DEF IComptes
<1>2. [appareil EXCEPT ![d] = SessionPerdue(@, k)]
        = [appareil EXCEPT ![d] = SessionPerdue(appareil[d], k)]
  BY DEF IComptes, TypeOK
<1> QED BY <1>1, <1>2

LEMMA CodeCoffreJuste ==
  ASSUME IComptes, NEW d \in Appareils, CodeCoffre(d)
  PROVE  IComptes'
<1>1. codes' \in [coffre : Secrets, reinit : Secrets] /\ codes'.reinit = codes.reinit
  BY Bornes DEF CodeCoffre, IComptes, TypeOK
<1>2. PICK k : k = NonAuthentifie(JetonDe(appareil[d]))
  OBVIOUS
<1>3. PICK a \in EtatsDAppareil :
        AppareilJuste(a) /\ appareil' = [appareil EXCEPT ![d] = a]
  <2>1. CASE appareil' = appareil
    BY <2>1, IciMeme
  <2>2. CASE appareil' = [appareil EXCEPT ![d] = SessionPerdue(@, NonAuthentifie(JetonDe(@)))]
    <3>1. PICK a \in EtatsDAppareil : AppareilJuste(a) /\ a = SessionPerdue(appareil[d], k)
      BY PerdueIci
    <3>2. appareil' = [appareil EXCEPT ![d] = a]
      BY <1>2, <2>2, <3>1 DEF IComptes, TypeOK
    <3> QED BY <3>1, <3>2
  <2> QED BY <2>1, <2>2 DEF CodeCoffre
<1>4. Monde({})
  BY <1>1 DEF Monde, CodeCoffre
<1>5. /\ expirees' \subseteq sessions' /\ echeance' \in {"aucune", "prevue", "echue"}
      /\ moteur' \in [de : Appareils, jeton : Secrets] \cup {Rien}
      /\ montrees' \subseteq 1..ClesMax /\ gestes' \in Nat /\ pannes' \in 0..PannesMax
      /\ permis' = permis /\ SansAppel(d) /\ UNCHANGED <<appel, tardives>>
  BY DEF IComptes, TypeOK, CodeCoffre
<1> QED BY <1>1, <1>3, <1>4, <1>5, PasSansAppel

LEMMA ReinitDemanderJuste ==
  ASSUME IComptes, NEW d \in Appareils, ReinitDemander(d)
  PROVE  IComptes'
<1>1. PICK j \in Secrets : codes' = [codes EXCEPT !.reinit = j] /\ (j # 0 => Tirable(j) /\ j \in Jetons)
  BY Bornes DEF ReinitDemander
<1>2. codes' \in [coffre : Secrets, reinit : Secrets] /\ codes'.reinit = j
  BY <1>1 DEF IComptes, TypeOK
<1>3. \A q \in EnRoute : q.genre \in {"account", "resetComplete"} => q.secret # j
  <2>1. CASE j = 0
    BY <2>1 DEF IComptes, Formes, Formee
  <2>2. CASE j # 0
    BY <1>1, <2>2, TireNeuf DEF IComptes
  <2> QED BY <2>1, <2>2
<1>4. Monde({})
  BY <1>2, <1>3 DEF Monde, ReinitDemander
<1>5. /\ expirees' \subseteq sessions' /\ echeance' \in {"aucune", "prevue", "echue"}
      /\ moteur' \in [de : Appareils, jeton : Secrets] \cup {Rien}
      /\ montrees' \subseteq 1..ClesMax /\ gestes' \in Nat /\ pannes' \in 0..PannesMax
      /\ permis' = permis /\ SansAppel(d) /\ UNCHANGED <<appel, tardives, appareil>>
  BY DEF IComptes, TypeOK, ReinitDemander
<1> QED BY <1>2, <1>4, <1>5, IciMeme, PasSansAppel

LEMMA ReinitAnnulerJuste ==
  ASSUME IComptes, NEW d \in Appareils, ReinitAnnuler(d)
  PROVE  IComptes'
<1>1. PICK k : k = NonAuthentifie(JetonDe(appareil[d]))
  OBVIOUS
<1>2. PICK a \in EtatsDAppareil :
        AppareilJuste(a) /\ appareil' = [appareil EXCEPT ![d] = a]
  <2>1. CASE appareil' = appareil
    BY <2>1, IciMeme
  <2>2. CASE appareil' = [appareil EXCEPT ![d] = SessionPerdue(@, NonAuthentifie(JetonDe(@)))]
    <3>1. PICK a \in EtatsDAppareil : AppareilJuste(a) /\ a = SessionPerdue(appareil[d], k)
      BY PerdueIci
    <3>2. appareil' = [appareil EXCEPT ![d] = a]
      BY <1>1, <2>2, <3>1 DEF IComptes, TypeOK
    <3> QED BY <3>1, <3>2
  <2> QED BY <2>1, <2>2 DEF ReinitAnnuler
<1>3. Monde({})
  BY DEF Monde, ReinitAnnuler
<1>4. /\ expirees' \subseteq sessions' /\ echeance' \in {"aucune", "prevue", "echue"}
      /\ codes' \in [coffre : Secrets, reinit : Secrets]
      /\ moteur' \in [de : Appareils, jeton : Secrets] \cup {Rien}
      /\ montrees' \subseteq 1..ClesMax /\ gestes' \in Nat /\ pannes' \in 0..PannesMax
      /\ permis' = permis /\ SansAppel(d) /\ UNCHANGED <<appel, tardives>>
  BY DEF IComptes, TypeOK, ReinitAnnuler, Geste
<1> QED BY <1>2, <1>3, <1>4, PasSansAppel

LEMMA DeverrouillerJuste ==
  ASSUME IComptes, NEW d \in Appareils, Deverrouiller(d)
  PROVE  IComptes'
<1> DEFINE e == appareil[d].enveloppe
<1>1. e \in Coffres
  BY IciMeme DEF Deverrouiller, EtatsDAppareil
<1>2. PICK t \in Trousseaux : t = Trousseau(e)
  BY <1>1, TrousseauEst
<1>3. PICK a : a = [appareil[d] EXCEPT !.serrure = t]
  OBVIOUS
<1>4. a \in EtatsDAppareil
  BY <1>3, IciMeme DEF EtatsDAppareil, Trousseaux
<1>5. /\ a.jeton = appareil[d].jeton /\ a.locale = appareil[d].locale /\ a.serrure = t
      /\ a.planchers = appareil[d].planchers /\ a.enveloppe = appareil[d].enveloppe
  BY <1>3, IciMeme DEF EtatsDAppareil
<1>6. e # Rien
  BY DEF Deverrouiller
<1>7. AppareilJuste(a)
  BY <1>2, <1>5, <1>6, IciMeme DEF AppareilJuste
<1>8. appareil' = [appareil EXCEPT ![d] = a]
  BY <1>2, <1>3 DEF Deverrouiller, IComptes, TypeOK
<1>9. montrees' \subseteq 1..ClesMax
  BY DEF Deverrouiller, IComptes, TypeOK
<1> QED BY <1>4, <1>7, <1>8, <1>9, PasCalme DEF Deverrouiller

LEMMA VerrouillerJuste ==
  ASSUME IComptes, NEW d \in Appareils, Verrouiller(d)
  PROVE  IComptes'
<1>1. PICK b \in EtatsDAppareil : AppareilJuste(b) /\ b = [appareil[d] EXCEPT !.serrure = Rien]
  BY IciMeme, SerrureOtee
<1>2. PICK a \in EtatsDAppareil : AppareilJuste(a) /\ a = [b EXCEPT !.attente = Rien]
  BY <1>1, AttenteIndifferente
<1>3. appareil' = [appareil EXCEPT ![d] = a]
  BY <1>1, <1>2, IciMeme DEF Verrouiller, IComptes, TypeOK, EtatsDAppareil
<1>4. montrees' \subseteq 1..ClesMax
  BY DEF Verrouiller, IComptes, TypeOK
<1> QED BY <1>2, <1>3, <1>4, PasCalme DEF Verrouiller

LEMMA PanneEst ==
  ASSUME TypeOK, NEW b \in BOOLEAN, Panne(b)
  PROVE  pannes' \in 0..PannesMax
  BY AccountBounds DEF TypeOK, Panne

LEMMA RefermerEst ==
  ASSUME TypeOK, NEW j, Refermer(j), expirees' = expirees
  PROVE  sessions' \subseteq sessions /\ expirees' \subseteq sessions' /\ pannes' \in 0..PannesMax
<1>1. PICK b \in BOOLEAN : Panne(b) /\ sessions' = IF b THEN sessions ELSE sessions \ ({j} \ expirees)
  BY DEF Refermer
<1>2. pannes' \in 0..PannesMax
  BY <1>1, PanneEst
<1> QED BY <1>1, <1>2 DEF TypeOK

LEMMA DeconnecterJuste ==
  ASSUME IComptes, NEW d \in Appareils, Deconnecter(d)
  PROVE  IComptes'
<1>1. Inconnu \in EtatsDAppareil /\ AppareilJuste(Inconnu)
  BY InconnuJuste DEF IComptes
<1>2. sessions' \subseteq sessions /\ expirees' \subseteq sessions' /\ pannes' \in 0..PannesMax
  BY RefermerEst DEF Deconnecter, IComptes
<1>3. Monde({})
  BY <1>2 DEF Monde, Deconnecter
<1>4. /\ echeance' \in {"aucune", "prevue", "echue"}
      /\ codes' \in [coffre : Secrets, reinit : Secrets]
      /\ moteur' \in [de : Appareils, jeton : Secrets] \cup {Rien}
      /\ montrees' \subseteq 1..ClesMax /\ gestes' \in Nat
      /\ permis' = permis /\ SansAppel(d) /\ UNCHANGED <<appel, tardives>>
      /\ appareil' = [appareil EXCEPT ![d] = Inconnu]
  BY DEF IComptes, TypeOK, Deconnecter, Geste
<1> QED BY <1>1, <1>2, <1>3, <1>4, PasSansAppel

-----------------------------------------------------------------------------
(* What a device does with an answer                                       *)

LEMMA EnCours ==
  ASSUME IComptes, NEW d \in Appareils, appel[d] # Rien
  PROVE  /\ appel[d] \in Appels /\ appel[d].requete \in Requetes
         /\ appel[d].requete \in EnRoute
         /\ Formee(appel[d].requete) /\ DemandeJuste(appel[d].requete)
         /\ appel[d].geste \in Gestuelle /\ appel[d].mdp \in Mdps \cup {Rien}
         /\ appel[d].geste # "reinitConfirmer" => appel[d].mdp \in Mdps
<1>1. appel[d] \in Appels
  BY DEF IComptes, TypeOK
<1>2. appel[d].requete \in EnRoute
  BY DEF EnRoute
<1> QED BY <1>1, <1>2 DEF IComptes, Formes, Justes, Appels, Gestuelle

\* What a device may rely on of the account a positive answer describes.
LEMMA ReponseEst ==
  ASSUME IComptes, NEW d \in Appareils, appel[d] # Rien, appel[d].reponse # Rien,
         appel[d].reponse.code = "ok"
  PROVE  LET r == appel[d].reponse
             c == r.compte.scelle
         IN  /\ r.compte \in Comptes /\ r.jeton \in Secrets /\ c \in Coffres
             /\ c.incarnation = r.compte.incarnation /\ c.cle = r.compte.cle
             /\ c.incarnation <= compte.incarnation
             /\ appareil[d].jeton \in sessions \/ r.jeton \in sessions => c = compte.scelle
             /\ r.jeton \in recuperations => r.compte = compte
             /\ appel[d].requete.genre \in {"commit", "resetComplete"} =>
                  c = appel[d].requete.coffre
<1>1. appel[d].reponse \in Reponses
  BY EnCours DEF Appels
<1>2. PICK r \in Reponses : r = appel[d].reponse
  BY <1>1
<1>3. r.code = "ok" /\ r.compte \in Comptes /\ r.jeton \in Secrets
  BY <1>2 DEF Reponses
<1>4. PICK k \in Comptes : k = r.compte
  BY <1>3
<1>5. ReponseJuste(appareil[d], appel[d].requete, r)
  BY <1>2 DEF IComptes, Justes
<1>6. /\ Sain(k) /\ k.incarnation <= compte.incarnation
      /\ appareil[d].jeton \in sessions \/ r.jeton \in sessions \/ r.jeton \in recuperations
           => k = compte
      /\ appel[d].requete.genre \in {"commit", "resetComplete"} =>
           k.scelle = appel[d].requete.coffre
  BY <1>3, <1>4, <1>5 DEF ReponseJuste
<1>7. k.scelle \in Coffres /\ k.scelle.incarnation = k.incarnation /\ k.scelle.cle = k.cle
  BY <1>6, ScelleEst DEF Sain, Comptes
<1> QED BY <1>2, <1>3, <1>4, <1>6, <1>7

\* The device d, now a, is done with its call.
LEMMA FinJuste ==
  ASSUME IComptes, NEW d \in Appareils, NEW a \in EtatsDAppareil, AppareilJuste(a),
         appel[d] # Rien, appareil' = [appareil EXCEPT ![d] = a], Finir(d),
         tardives' \subseteq tardives \cup {appel[d].requete},
         compte' = compte, sessions' \subseteq sessions, recuperations' \subseteq recuperations,
         codes' \in [coffre : Secrets, reinit : Secrets], codes'.reinit \in {0, codes.reinit},
         expirees' \subseteq sessions', echeance' \in {"aucune", "prevue", "echue"},
         moteur' = moteur, montrees' \subseteq 1..ClesMax, permis' = permis,
         gestes' = gestes, pannes' \in 0..PannesMax
  PROVE  IComptes'
<1>1. Ici(d, a, Rien)
  BY DEF Ici, Finir
<1>2. \A q \in EnRoute : q.genre \in {"account", "resetComplete"} => q.secret # 0
  BY DEF IComptes, Formes, Formee
<1>3. Monde({})
  BY <1>2 DEF Monde
<1>4. gestes' \in Nat /\ moteur' \in [de : Appareils, jeton : Secrets] \cup {Rien}
  BY DEF IComptes, TypeOK
<1> QED BY <1>1, <1>3, <1>4, PasIci

\* _installer, whole or cut, from a vault and a token that go together.
LEMMA InstallerJuste ==
  ASSUME IComptes, NEW d \in Appareils, NEW c \in Coffres, NEW j \in Secrets,
         NEW x \in Attentes \cup {Rien}, Installer(d, c, j, x),
         c.incarnation <= compte.incarnation,
         appareil[d].jeton \in sessions \/ j \in sessions => c = compte.scelle
  PROVE  /\ \E a \in EtatsDAppareil :
              AppareilJuste(a) /\ appareil' = [appareil EXCEPT ![d] = a]
         /\ pannes' \in 0..PannesMax
<1>1. PICK n \in 1..4 :
        /\ Panne(n < 4)
        /\ appareil' = [appareil EXCEPT ![d] =
             [Installe(@, c, j, n) EXCEPT !.attente = IF n = 4 THEN x ELSE Rien]]
  BY DEF Installer
<1>2. PICK b \in EtatsDAppareil : AppareilJuste(b) /\ b = Installe(appareil[d], c, j, n)
  BY IciMeme, InstalleJuste DEF IComptes
<1>3. PICK y \in Attentes \cup {Rien} : y = IF n = 4 THEN x ELSE Rien
  OBVIOUS
<1>4. PICK a \in EtatsDAppareil : AppareilJuste(a) /\ a = [b EXCEPT !.attente = y]
  BY <1>2, AttenteIndifferente
<1>5. appareil' = [appareil EXCEPT ![d] = a]
  BY <1>1, <1>2, <1>3, <1>4 DEF IComptes, TypeOK
<1>6. pannes' \in 0..PannesMax
  BY <1>1, AccountBounds DEF Panne, IComptes, TypeOK
<1> QED BY <1>4, <1>5, <1>6

LEMMA PoseIci ==
  ASSUME IComptes, NEW d \in Appareils, NEW x \in Poses,
         appareil' = [appareil EXCEPT ![d].pose = x]
  PROVE  \E a \in EtatsDAppareil :
           AppareilJuste(a) /\ appareil' = [appareil EXCEPT ![d] = a]
<1>1. PICK a \in EtatsDAppareil : AppareilJuste(a) /\ a = [appareil[d] EXCEPT !.pose = x]
  BY IciMeme, PoseIndifferente
<1>2. appareil' = [appareil EXCEPT ![d] = a]
  BY <1>1 DEF IComptes, TypeOK
<1> QED BY <1>1, <1>2

LEMMA ConnexionJuste ==
  ASSUME IComptes, NEW d \in Appareils, Connexion(d)
  PROVE  IComptes'
<1> DEFINE r == appel[d].reponse
<1>1. appel[d] # Rien /\ r # Rien /\ r.code = "ok"
  BY DEF Connexion, Repondu
<1>2. PICK c \in Coffres : c = r.compte.scelle /\ c.incarnation <= compte.incarnation
        /\ (appareil[d].jeton \in sessions \/ r.jeton \in sessions => c = compte.scelle)
  BY <1>1, ReponseEst
<1>3. PICK j \in Secrets : j = r.jeton
  BY <1>1, ReponseEst
<1>4. PICK x \in Attentes \cup {Rien} : x = appareil[d].attente
  BY IciMeme DEF EtatsDAppareil, Attentes
<1>5. /\ compte' = compte /\ expirees' = expirees /\ recuperations' = recuperations
      /\ codes' = codes /\ echeance' = echeance /\ moteur' = moteur /\ tardives' = tardives
      /\ montrees' = montrees /\ permis' = permis /\ gestes' = gestes /\ Finir(d)
  BY DEF Connexion
<1>6. /\ \E a \in EtatsDAppareil :
           AppareilJuste(a) /\ appareil' = [appareil EXCEPT ![d] = a]
      /\ sessions' \subseteq sessions /\ expirees' \subseteq sessions'
      /\ pannes' \in 0..PannesMax
  <2>1. CASE Installer(d, r.compte.scelle, r.jeton, appareil[d].attente) /\ UNCHANGED sessions
    <3>1. Installer(d, c, j, x)
      BY <2>1, <1>2, <1>3, <1>4
    <3>2. expirees' \subseteq sessions'
      BY <2>1, <1>5 DEF IComptes, TypeOK
    <3> QED BY <2>1, <3>1, <3>2, <1>2, <1>3, InstallerJuste
  <2>2. CASE /\ appareil' = [appareil EXCEPT ![d] = Installe(@, r.compte.scelle, r.jeton, 4)]
             /\ Refermer(JetonDe(appareil[d]))
    <3>1. PICK a \in EtatsDAppareil : AppareilJuste(a) /\ a = Installe(appareil[d], c, j, 4)
      BY <1>2, <1>3, IciMeme, InstalleJuste DEF IComptes
    <3>2. appareil' = [appareil EXCEPT ![d] = a]
      BY <1>2, <1>3, <2>2, <3>1 DEF IComptes, TypeOK
    <3>3. PICK k : k = JetonDe(appareil[d])
      OBVIOUS
    <3> QED BY <1>5, <2>2, <3>1, <3>2, <3>3, RefermerEst DEF IComptes
  <2>3. CASE /\ appareil' = [appareil EXCEPT ![d].pose =
                               IF RetourArriere(d) THEN "serverRolledBack" ELSE @]
             /\ Refermer(r.jeton)
    <3>1. PICK p \in Poses : p = IF RetourArriere(d) THEN "serverRolledBack" ELSE appareil[d].pose
      BY IciMeme DEF Poses, EtatsDAppareil
    <3>2. appareil' = [appareil EXCEPT ![d].pose = p]
      BY <2>3, <3>1 DEF IComptes, TypeOK
    <3>3. Refermer(j)
      BY <1>3, <2>3
    <3> QED BY <1>5, <3>2, <3>3, PoseIci, RefermerEst DEF IComptes
  <2>4. CASE ~RetourArriere(d) /\ CoffreLisible(d) /\ r.compte.scelle.mdp = appel[d].mdp
    BY <2>1, <2>2, <2>4 DEF Connexion
  <2>5. CASE ~(~RetourArriere(d) /\ CoffreLisible(d) /\ r.compte.scelle.mdp = appel[d].mdp)
    BY <2>3, <2>5 DEF Connexion
  <2> QED BY <2>4, <2>5
<1>7. codes' \in [coffre : Secrets, reinit : Secrets] /\ echeance' \in {"aucune", "prevue", "echue"}
      /\ montrees' \subseteq 1..ClesMax
  BY <1>5 DEF IComptes, TypeOK
<1> QED BY <1>1, <1>5, <1>6, <1>7, FinJuste

LEMMA DeballageJuste ==
  ASSUME IComptes, NEW d \in Appareils, Deballage(d)
  PROVE  IComptes'
<1> DEFINE r == appel[d].reponse
           k == r.compte
<1>1. /\ appel[d] # Rien /\ r # Rien /\ r.code = "ok"
      /\ appel[d].geste \in {"recuperer", "recupererRemplacer"}
  BY DEF Deballage, Repondu
<1>2. UNCHANGED <<serveur, moteur, tardives, montrees, permis, gestes, pannes>>
  BY DEF Deballage
<1>3. CASE /\ appel' = [appel EXCEPT ![d] = Appel(@.geste, @.mdp, CleDuCommit(d, k))]
           /\ UNCHANGED appareil
  <2>1. PICK t \in Trousseaux : t = Trousseau(k.scelle) /\ t.incarnation = k.scelle.incarnation
    BY <1>1, ReponseEst, TrousseauEst
  <2>2. /\ k \in Comptes /\ k.version \in Nat /\ k.scelle.cle \in 0..ClesMax
        /\ appel[d].reponse.jeton \in Secrets
        /\ k.scelle.incarnation = k.incarnation /\ k.scelle.cle = k.cle
        /\ r.jeton \in recuperations => k = compte
    BY <1>1, ReponseEst DEF Comptes, Coffres
  <2>3. PICK q \in Requetes :
          /\ q = [Requete(d, "commit") EXCEPT !.preuve = "recovery",
                                              !.secret = appel[d].reponse.jeton]
          /\ q.genre = "commit" /\ q.preuve = "recovery" /\ q.secret = appel[d].reponse.jeton
    <3>1. PICK x \in Requetes : x = Requete(d, "commit") /\ x.genre = "commit"
      BY RequeteEst
    <3>2. PICK s \in Secrets : s = appel[d].reponse.jeton
      BY <2>2
    <3>3. PICK y : y = [x EXCEPT !.preuve = "recovery", !.secret = s]
      OBVIOUS
    <3>4. /\ y \in Requetes /\ y.genre = "commit" /\ y.preuve = "recovery" /\ y.secret = s
      BY <3>1, <3>3 DEF Requetes
    <3> QED BY <3>1, <3>2, <3>3, <3>4
  <2>4. PICK m \in Mdps : m = appel[d].mdp
    BY <1>1, EnCours
  <2>5. PICK v \in Nat : v = k.version
    BY <2>2
  <2>6. PICK l \in 0..ClesMax : l = k.scelle.cle
    BY <2>2
  <2>7. PICK x : /\ x = Rotation(q, t, v, m, l, "keep") /\ x \in Requetes
                 /\ x.genre = "commit" /\ x.preuve = "recovery" /\ x.mode = "keep"
                 /\ x.secret = q.secret /\ x.coffre \in Coffres
                 /\ x.coffre.incarnation = t.incarnation /\ x.coffre.cle = l
    <3>0. PICK o \in {"keep", "replace", "remove"} : o = "keep"
      OBVIOUS
    <3>1. PICK x : x = Rotation(q, t, v, m, l, o)
      OBVIOUS
    <3>2. /\ x \in Requetes /\ x.genre = q.genre /\ x.preuve = q.preuve /\ x.mode = o
          /\ x.secret = q.secret /\ x.coffre \in Coffres
          /\ x.coffre.incarnation = t.incarnation /\ x.coffre.cle = l
      BY <3>1, RotationEst
    <3> QED BY <2>3, <3>0, <3>1, <3>2
  <2>8. x = CleDuCommit(d, k)
    BY <2>1, <2>3, <2>4, <2>5, <2>6, <2>7 DEF CleDuCommit
  <2>9. Formee(x) /\ DemandeJuste(x)
    BY <2>1, <2>2, <2>3, <2>6, <2>7 DEF Formee, DemandeJuste, Recevable
  <2>10. PICK g \in Gestuelle : g = appel[d].geste
    BY <1>1, EnCours
  <2>11. PICK z \in Appels : /\ z = Appel(g, m, x) /\ z.reponse = Rien /\ z.requete = x
                             /\ z.mdp = m
    BY <2>7, AppelEst
  <2>12. Neuf(appareil[d], z)
    BY <2>7, <2>9, <2>11 DEF Neuf
  <2>13. appel' = [appel EXCEPT ![d] = z]
    BY <1>3, <2>4, <2>8, <2>10, <2>11 DEF IComptes, TypeOK
  <2>14. gestes' \in Nat
    BY <1>2 DEF IComptes, TypeOK
  <2> QED BY <1>2, <1>3, <2>12, <2>13, <2>14, IciMeme, PasAppel
<1>4. CASE /\ appareil' = [appareil EXCEPT ![d].pose =
                             IF RetourArriere(d) THEN "serverRolledBack" ELSE @]
           /\ Finir(d)
  <2>1. PICK p \in Poses : p = IF RetourArriere(d) THEN "serverRolledBack" ELSE appareil[d].pose
    BY IciMeme DEF Poses, EtatsDAppareil
  <2>2. appareil' = [appareil EXCEPT ![d].pose = p]
    BY <1>4, <2>1 DEF IComptes, TypeOK
  <2>3. PICK a \in EtatsDAppareil : AppareilJuste(a) /\ appareil' = [appareil EXCEPT ![d] = a]
    BY <2>2, PoseIci
  <2>4. /\ tardives' = tardives /\ compte' = compte /\ sessions' = sessions
        /\ recuperations' = recuperations /\ codes' = codes /\ moteur' = moteur
        /\ permis' = permis /\ gestes' = gestes /\ echeance' = echeance
        /\ expirees' = expirees /\ montrees' = montrees /\ pannes' = pannes
    BY <1>2 DEF serveur
  <2>5. /\ expirees' \subseteq sessions' /\ codes' \in [coffre : Secrets, reinit : Secrets]
        /\ echeance' \in {"aucune", "prevue", "echue"} /\ montrees' \subseteq 1..ClesMax
        /\ pannes' \in 0..PannesMax
    BY <2>4 DEF IComptes, TypeOK
  <2> QED BY <1>1, <1>4, <2>3, <2>4, <2>5, FinJuste
<1> QED BY <1>3, <1>4 DEF Deballage

\* The end of a call after which only the device, what was shown and the losses
\* have changed.
LEMMA FinIci ==
  ASSUME IComptes, NEW d \in Appareils, NEW a \in EtatsDAppareil, AppareilJuste(a),
         appel[d] # Rien, appareil' = [appareil EXCEPT ![d] = a], Finir(d),
         montrees' \subseteq 1..ClesMax, pannes' \in 0..PannesMax,
         UNCHANGED <<serveur, moteur, tardives, permis, gestes>>
  PROVE  IComptes'
<1>1. /\ tardives' = tardives /\ compte' = compte /\ sessions' = sessions
      /\ recuperations' = recuperations /\ codes' = codes /\ moteur' = moteur
      /\ permis' = permis /\ gestes' = gestes /\ echeance' = echeance /\ expirees' = expirees
  BY DEF serveur
<1>2. /\ expirees' \subseteq sessions' /\ codes' \in [coffre : Secrets, reinit : Secrets]
      /\ echeance' \in {"aucune", "prevue", "echue"}
  BY <1>1 DEF IComptes, TypeOK
<1> QED BY <1>1, <1>2, FinJuste

LEMMA ProposerJuste ==
  ASSUME IComptes, NEW d \in Appareils, NEW c \in Coffres, NEW j \in Secrets,
         Proposer(d, c, j), appel[d].mdp \in Mdps,
         c.incarnation <= compte.incarnation,
         appareil[d].jeton \in sessions \/ j \in sessions => c = compte.scelle
  PROVE  /\ \E a \in EtatsDAppareil :
              AppareilJuste(a) /\ appareil' = [appareil EXCEPT ![d] = a]
         /\ pannes' \in 0..PannesMax /\ montrees' \subseteq 1..ClesMax
<1>1. PICK k \in 1..ClesMax :
        /\ Installer(d, c, j, [cle |-> k, mdp |-> appel[d].mdp])
        /\ montrees' = IF appareil'[d].serrure # Rien THEN montrees \cup {k} ELSE montrees
  BY DEF Proposer
<1>2. PICK x \in Attentes \cup {Rien} : x = [cle |-> k, mdp |-> appel[d].mdp]
  BY DEF Attentes
<1>3. Installer(d, c, j, x)
  BY <1>1, <1>2
<1>4. montrees' \subseteq 1..ClesMax
  BY <1>1 DEF IComptes, TypeOK
<1> QED BY <1>3, <1>4, InstallerJuste

LEMMA RotationFaiteJuste ==
  ASSUME IComptes, NEW d \in Appareils, RotationFaite(d)
  PROVE  IComptes'
<1> DEFINE r == appel[d].reponse
           q == appel[d].requete
<1>1. /\ appel[d] # Rien /\ r # Rien /\ r.code = "ok" /\ q.genre = "commit"
  BY DEF RotationFaite, Repondu
<1>2. PICK c \in Coffres : c = q.coffre /\ c.incarnation <= compte.incarnation
        /\ (appareil[d].jeton \in sessions \/ r.jeton \in sessions => c = compte.scelle)
  BY <1>1, ReponseEst
<1>3. PICK j \in Secrets : j = r.jeton
  BY <1>1, ReponseEst
<1>4. /\ \E a \in EtatsDAppareil :
              AppareilJuste(a) /\ appareil' = [appareil EXCEPT ![d] = a]
      /\ pannes' \in 0..PannesMax /\ montrees' \subseteq 1..ClesMax
  <2>1. CASE /\ Installer(d, q.coffre, r.jeton, IF appel[d].geste = "confirmerCle" THEN Rien
                                                ELSE appareil[d].attente)
             /\ UNCHANGED montrees
    <3>1. PICK x \in Attentes \cup {Rien} :
            x = IF appel[d].geste = "confirmerCle" THEN Rien ELSE appareil[d].attente
      BY IciMeme DEF EtatsDAppareil, Attentes
    <3>2. Installer(d, c, j, x)
      BY <1>2, <1>3, <2>1, <3>1
    <3>3. montrees' \subseteq 1..ClesMax
      BY <2>1 DEF IComptes, TypeOK
    <3> QED BY <1>2, <1>3, <3>2, <3>3, InstallerJuste
  <2>2. CASE appel[d].geste = "recupererRemplacer" /\ Proposer(d, q.coffre, r.jeton)
    <3>1. appel[d].mdp \in Mdps
      BY <1>1, <2>2, EnCours
    <3>2. Proposer(d, c, j)
      BY <1>2, <1>3, <2>2
    <3> QED BY <1>2, <1>3, <3>1, <3>2, ProposerJuste
  <2> QED BY <2>1, <2>2 DEF RotationFaite
<1> QED BY <1>1, <1>4, FinIci DEF RotationFaite

LEMMA ReinitFaiteJuste ==
  ASSUME IComptes, NEW d \in Appareils, ReinitFaite(d)
  PROVE  IComptes'
<1> DEFINE r == appel[d].reponse
           q == appel[d].requete
<1>1. /\ appel[d] # Rien /\ r # Rien /\ r.code = "ok" /\ q.genre = "resetComplete"
      /\ appel[d].geste = "reinitTerminer"
  BY DEF ReinitFaite, Repondu
<1>2. PICK c \in Coffres : c = q.coffre /\ c.incarnation <= compte.incarnation
        /\ (appareil[d].jeton \in sessions \/ r.jeton \in sessions => c = compte.scelle)
  BY <1>1, ReponseEst
<1>3. PICK j \in Secrets : j = r.jeton
  BY <1>1, ReponseEst
<1>4. /\ \E a \in EtatsDAppareil :
              AppareilJuste(a) /\ appareil' = [appareil EXCEPT ![d] = a]
      /\ pannes' \in 0..PannesMax /\ montrees' \subseteq 1..ClesMax
  <2>1. CASE Proposer(d, q.coffre, r.jeton)
    <3>1. appel[d].mdp \in Mdps
      BY <1>1, EnCours
    <3>2. Proposer(d, c, j)
      BY <1>2, <1>3, <2>1
    <3> QED BY <1>2, <1>3, <3>1, <3>2, ProposerJuste
  <2>2. CASE /\ appareil' = [appareil EXCEPT ![d].pose = "accountReset"]
             /\ UNCHANGED <<montrees, permis, pannes>>
    <3>1. pannes' \in 0..PannesMax /\ montrees' \subseteq 1..ClesMax
      BY <2>2 DEF IComptes, TypeOK
    <3> QED BY <2>2, <3>1, PoseIci DEF Poses
  <2> QED BY <2>1, <2>2 DEF ReinitFaite
<1> QED BY <1>1, <1>4, FinIci DEF ReinitFaite

LEMMA EchouerJuste ==
  ASSUME IComptes, NEW d \in Appareils, Echouer(d)
  PROVE  IComptes'
<1>1. PICK k : k = appel[d].reponse.code
  OBVIOUS
<1>2. PICK a \in EtatsDAppareil : AppareilJuste(a) /\ appareil' = [appareil EXCEPT ![d] = a]
  <2>1. CASE appareil' = appareil
    BY <2>1, IciMeme
  <2>2. CASE appareil' = [appareil EXCEPT ![d] = SessionPerdue(@, appel[d].reponse.code)]
    <3>1. PICK a \in EtatsDAppareil : AppareilJuste(a) /\ a = SessionPerdue(appareil[d], k)
      BY PerdueIci
    <3>2. appareil' = [appareil EXCEPT ![d] = a]
      BY <1>1, <2>2, <3>1 DEF IComptes, TypeOK
    <3> QED BY <3>1, <3>2
  <2> QED BY <2>1, <2>2 DEF Echouer
<1>3. pannes' \in 0..PannesMax /\ montrees' \subseteq 1..ClesMax
  BY DEF Echouer, IComptes, TypeOK
<1> QED BY <1>2, <1>3, FinIci DEF Echouer

LEMMA PerdreJuste ==
  ASSUME IComptes, NEW d \in Appareils, Perdre(d)
  PROVE  IComptes'
<1>1. pannes' \in 0..PannesMax
  BY AccountBounds DEF Perdre, Panne, IComptes, TypeOK
<1>2. /\ compte' = compte /\ sessions' = sessions
      /\ recuperations' = recuperations /\ codes' = codes /\ moteur' = moteur
      /\ permis' = permis /\ gestes' = gestes /\ echeance' = echeance /\ expirees' = expirees
      /\ montrees' = montrees /\ appareil' = appareil /\ appel[d] # Rien /\ Finir(d)
      /\ tardives' \subseteq tardives \cup {appel[d].requete}
  BY DEF Perdre, serveur
<1>3. /\ expirees' \subseteq sessions' /\ codes' \in [coffre : Secrets, reinit : Secrets]
      /\ echeance' \in {"aucune", "prevue", "echue"} /\ montrees' \subseteq 1..ClesMax
  BY <1>2 DEF IComptes, TypeOK
<1> QED BY <1>1, <1>2, <1>3, IciMeme, FinJuste

\* What an account answer leaves of the device.
LEMMA ApresAccountEst ==
  ASSUME IComptes, NEW d \in Appareils, ApresAccount(d)
  PROVE  /\ appel[d] # Rien /\ appel[d].reponse # Rien /\ appel[d].requete.genre = "account"
         /\ \E a \in EtatsDAppareil :
              AppareilJuste(a) /\ appareil' = [appareil EXCEPT ![d] = a]
<1>1. appel[d] # Rien /\ appel[d].reponse # Rien /\ appel[d].requete.genre = "account"
  BY DEF ApresAccount, Repondu
<1>2. PICK k : k = appel[d].reponse.code
  OBVIOUS
<1>3. CASE appareil' = appareil
  BY <1>1, <1>3, IciMeme
<1>4. CASE appareil' = [appareil EXCEPT ![d] = SessionPerdue(@, appel[d].reponse.code)]
  <2>1. PICK a \in EtatsDAppareil : AppareilJuste(a) /\ a = SessionPerdue(appareil[d], k)
    BY PerdueIci
  <2>2. appareil' = [appareil EXCEPT ![d] = a]
    BY <1>2, <1>4, <2>1 DEF IComptes, TypeOK
  <2> QED BY <1>1, <2>1, <2>2
<1> QED BY <1>3, <1>4 DEF ApresAccount

LEMMA ReinitConfirmeeJuste ==
  ASSUME IComptes, NEW d \in Appareils, ReinitConfirmee(d)
  PROVE  IComptes'
<1>1. PICK a \in EtatsDAppareil : AppareilJuste(a) /\ appareil' = [appareil EXCEPT ![d] = a]
  BY ApresAccountEst DEF ReinitConfirmee
<1>2. /\ codes' \in [coffre : Secrets, reinit : Secrets] /\ codes'.reinit \in {0, codes.reinit}
      /\ echeance' \in {"aucune", "prevue", "echue"}
  BY Bornes DEF ReinitConfirmee, IComptes, TypeOK
<1>3. /\ compte' = compte /\ sessions' = sessions /\ expirees' = expirees
      /\ recuperations' = recuperations /\ moteur' = moteur /\ tardives' = tardives
      /\ permis' = permis /\ gestes' = gestes /\ montrees' = montrees /\ pannes' = pannes
      /\ Finir(d)
  BY DEF ReinitConfirmee
<1>4. /\ expirees' \subseteq sessions' /\ montrees' \subseteq 1..ClesMax
      /\ pannes' \in 0..PannesMax
  BY <1>3 DEF IComptes, TypeOK
<1>5. appel[d] # Rien
  BY ApresAccountEst DEF ReinitConfirmee
<1> QED BY <1>1, <1>2, <1>3, <1>4, <1>5, FinJuste

\* A confirmed incarnation is the one of the account while the code the request
\* carries is still the code of the reset.
LEMMA ConfirmeeEst ==
  ASSUME IComptes, NEW d \in Appareils, appel[d] # Rien, appel[d].reponse # Rien,
         appel[d].requete.genre = "account", IncarnationConfirmee(d),
         appel[d].requete.secret = codes.reinit
  PROVE  Locale(d) = compte.incarnation
<1>1. ReponseJuste(appareil[d], appel[d].requete, appel[d].reponse)
  BY DEF IComptes, Justes
<1>2. Locale(d) = Incarnee(appareil[d])
  BY DEF Locale, Incarnee
<1> QED BY <1>1, <1>2 DEF ReponseJuste, IncarnationConfirmee

LEMMA ReinitPrepareeJuste ==
  ASSUME IComptes, NEW d \in Appareils, ReinitPreparee(d)
  PROVE  IComptes'
<1>1. PICK a \in EtatsDAppareil : AppareilJuste(a) /\ appareil' = [appareil EXCEPT ![d] = a]
  BY ApresAccountEst DEF ReinitPreparee
<1>2. /\ appel[d] # Rien /\ appel[d].reponse # Rien /\ appel[d].requete.genre = "account"
      /\ appel[d].geste = "reinitTerminer"
  BY ApresAccountEst DEF ReinitPreparee
<1>3. UNCHANGED <<serveur, moteur, tardives, montrees, permis, gestes, pannes>>
  BY DEF ReinitPreparee
<1>4. CASE ~IncarnationConfirmee(d)
  <2>1. Finir(d)
    BY <1>4 DEF ReinitPreparee
  <2>2. montrees' \subseteq 1..ClesMax /\ pannes' \in 0..PannesMax
    BY <1>3 DEF IComptes, TypeOK
  <2> QED BY <1>1, <1>2, <1>3, <2>1, <2>2, FinIci
<1>5. CASE IncarnationConfirmee(d)
  <2>1. PICK m \in Mdps : m = appel[d].mdp
    BY <1>2, EnCours
  <2>2. PICK s \in Secrets : s = appel[d].requete.secret
    BY <1>2, EnCours DEF Requetes
  <2>3. s # 0
    BY <1>2, <2>2, EnCours DEF Formee
  <2>4. Locale(d) \in Nat
    BY IciMeme DEF Locale, EtatsDAppareil
  <2>5. PICK i \in Nat : i = Locale(d) + 1
    BY <2>4
  <2>6. PICK c \in Coffres : /\ c = Scelle(i, 1, m, 0) /\ c.incarnation = i
                             /\ c.version = 1 /\ c.cle = 0
    BY ScelleEst, Bornes
  <2>7. PICK x \in Requetes : x = Requete(d, "resetComplete") /\ x.genre = "resetComplete"
    BY RequeteEst
  <2>8. PICK q : q = [x EXCEPT !.secret = s, !.coffre = c]
    OBVIOUS
  <2>9. q \in Requetes /\ q.genre = "resetComplete" /\ q.secret = s /\ q.coffre = c
    BY <2>7, <2>8 DEF Requetes
  <2>10. s = codes.reinit => i = compte.incarnation + 1
    BY <1>2, <1>5, <2>2, <2>5, ConfirmeeEst
  <2>11. Formee(q) /\ DemandeJuste(q)
    BY <2>3, <2>6, <2>9, <2>10 DEF Formee, DemandeJuste
  <2>12. PICK g \in Gestuelle : g = appel[d].geste
    BY <1>2, EnCours
  <2>13. PICK z \in Appels : /\ z = Appel(g, m, q) /\ z.reponse = Rien /\ z.requete = q
                             /\ z.mdp = m
    BY <2>9, AppelEst
  <2>14. Neuf(a, z)
    BY <2>9, <2>11, <2>13 DEF Neuf
  <2>15. appel' = [appel EXCEPT ![d] = z]
    BY <1>5, <2>1, <2>2, <2>5, <2>6, <2>7, <2>8, <2>12, <2>13
       DEF ReinitPreparee, IComptes, TypeOK
  <2>16. gestes' \in Nat
    BY <1>3 DEF IComptes, TypeOK
  <2> QED BY <1>1, <1>3, <2>14, <2>15, <2>16, PasAppel
<1> QED BY <1>4, <1>5

-----------------------------------------------------------------------------
(* The engine of a device, and time that passes                            *)

LEMMA MoteurJuste ==
  ASSUME IComptes, NEW d \in Appareils, UNCHANGED <<serveur, appareil, appel, tardives,
         montrees, permis, gestes, pannes>>,
         moteur' \in [de : Appareils, jeton : Secrets] \cup {Rien}
  PROVE  IComptes'
<1>1. PICK a \in EtatsDAppareil : a = appareil[d] /\ AppareilJuste(a)
  BY IciMeme
<1>2. PICK z : z = appel[d]
  OBVIOUS
<1>3. Ici(d, a, z)
  BY <1>1, <1>2, IciMeme DEF Ici
<1>4. Monde({})
  BY DEF Monde, serveur
<1>5. /\ expirees' \subseteq sessions' /\ codes' \in [coffre : Secrets, reinit : Secrets]
      /\ echeance' \in {"aucune", "prevue", "echue"} /\ montrees' \subseteq 1..ClesMax
      /\ permis' = permis /\ gestes' \in Nat /\ pannes' \in 0..PannesMax
  BY DEF IComptes, TypeOK, serveur
<1> QED BY <1>1, <1>2, <1>3, <1>4, <1>5, PasIci

LEMMA MoteurDemandeJuste ==
  ASSUME IComptes, NEW d \in Appareils, MoteurDemande(d)
  PROVE  IComptes'
<1>1. JetonDe(appareil[d]) \in Secrets
  BY IciMeme, Bornes DEF JetonDe, EtatsDAppareil
<1>2. moteur' \in [de : Appareils, jeton : Secrets]
  BY <1>1 DEF MoteurDemande
<1> QED BY <1>2, MoteurJuste DEF MoteurDemande

LEMMA MoteurServiJuste ==
  ASSUME IComptes, MoteurServi
  PROVE  IComptes'
<1>1. moteur.de \in Appareils
  BY DEF MoteurServi, IComptes, TypeOK
<1> QED BY <1>1, MoteurJuste DEF MoteurServi

LEMMA SessionRefuseeJuste ==
  ASSUME IComptes, SessionRefusee
  PROVE  IComptes'
<1>1. PICK d \in Appareils : d = moteur.de
  BY DEF SessionRefusee, IComptes, TypeOK
<1>2. PICK k : k = NonAuthentifie(moteur.jeton)
  OBVIOUS
<1>3. PICK a \in EtatsDAppareil : AppareilJuste(a) /\ appareil' = [appareil EXCEPT ![d] = a]
  <2>1. CASE appareil' = appareil
    BY <2>1, IciMeme
  <2>2. CASE appareil' = [appareil EXCEPT ![moteur.de] =
                            SessionPerdue(@, NonAuthentifie(moteur.jeton))]
    <3>1. PICK a \in EtatsDAppareil : AppareilJuste(a) /\ a = SessionPerdue(appareil[d], k)
      BY PerdueIci
    <3>2. appareil' = [appareil EXCEPT ![d] = a]
      BY <1>1, <1>2, <2>2, <3>1 DEF IComptes, TypeOK
    <3> QED BY <3>1, <3>2
  <2> QED BY <2>1, <2>2 DEF SessionRefusee
<1>4. /\ expirees' \subseteq sessions' /\ codes' \in [coffre : Secrets, reinit : Secrets]
      /\ echeance' \in {"aucune", "prevue", "echue"}
      /\ moteur' \in [de : Appareils, jeton : Secrets] \cup {Rien}
      /\ montrees' \subseteq 1..ClesMax /\ permis' = permis
      /\ gestes' \in Nat /\ pannes' \in 0..PannesMax
      /\ SansAppel(d) /\ UNCHANGED <<appel, tardives>>
  BY <1>1 DEF SessionRefusee, IComptes, TypeOK, serveur
<1>5. Monde({})
  BY DEF SessionRefusee, Monde, serveur
<1> QED BY <1>3, <1>4, <1>5, PasSansAppel

\* Nothing is on its way and every code is dead: all that is left to keep is
\* what each device holds.
LEMMA ToutSeTait ==
  ASSUME IComptes, \A d \in Appareils : appel[d] = Rien, tardives' = {}, recuperations' = {},
         codes' = [coffre |-> 0, reinit |-> 0], expirees' \subseteq sessions,
         echeance' \in {"aucune", "prevue", "echue"},
         appareil' = [d \in Appareils |-> [appareil[d] EXCEPT !.attente = Rien]],
         UNCHANGED <<compte, sessions, appel, moteur, montrees, permis, gestes, pannes>>
  PROVE  IComptes'
<1>1. ASSUME NEW d \in Appareils
      PROVE  appareil'[d] \in EtatsDAppareil /\ AppareilJuste(appareil'[d])
  <2>1. PICK a \in EtatsDAppareil :
          AppareilJuste(a) /\ a = [appareil[d] EXCEPT !.attente = Rien]
    BY IciMeme, AttenteIndifferente
  <2> QED BY <2>1
<1>2. appareil' \in [Appareils -> EtatsDAppareil]
  BY <1>1
<1>3. codes' \in [coffre : Secrets, reinit : Secrets]
  BY Bornes
<1>4. TypeOK'
  BY <1>2, <1>3 DEF IComptes, TypeOK
<1>5. EnRoute' = {}
  BY DEF EnRoute
<1>6. \A d \in Appareils : AppareilJuste(appareil[d])'
  BY <1>1 DEF AppareilJuste
<1>7. Formes' /\ Justes'
  BY <1>5, <1>6 DEF Formes, Justes
<1>8. JamaisMuree'
  BY DEF IComptes, JamaisMuree
<1> QED BY <1>4, <1>7, <1>8 DEF IComptes

LEMMA EcheanceArriveeJuste ==
  ASSUME IComptes, EcheanceArrivee
  PROVE  IComptes'
<1>1. expirees' \subseteq sessions
  BY DEF EcheanceArrivee, IComptes, TypeOK
<1> QED BY <1>1, ToutSeTait DEF EcheanceArrivee

LEMMA AbsenceJuste ==
  ASSUME IComptes, NEW d \in Appareils, Absence(d)
  PROVE  IComptes'
<1>1. JetonDe(appareil[d]) \in sessions
  BY DEF Absence, Authentifie
<1>2. appareil[d].jeton \in sessions
  BY <1>1, Bornes DEF JetonDe, IComptes, TypeOK
<1>3. expirees' \subseteq sessions
  BY <1>2 DEF Absence, IComptes, TypeOK
<1>4. echeance' \in {"aucune", "prevue", "echue"}
  BY DEF Absence, IComptes, TypeOK
<1> QED BY <1>3, <1>4, ToutSeTait DEF Absence

-----------------------------------------------------------------------------
(* The invariant                                                           *)

LEMMA InitIComptes ==
  ASSUME Init
  PROVE  IComptes
<1>1. PICK m \in Mdps : compte = [incarnation |-> 1, version |-> 1, mdp |-> m, cle |-> 1,
                                  scelle |-> Scelle(1, 1, m, 1)]
  BY DEF Init
<1>2. PICK f \in [Appareils -> 1..Cardinality(Appareils)] :
        /\ sessions = {f[d] : d \in Appareils}
        /\ appareil = [d \in Appareils |-> Installe(Inconnu, compte.scelle, f[d], 4)]
  BY DEF Init
<1>3. 1 \in 0..ClesMax /\ 1 \in 1..ClesMax
  BY Bornes
<1>4. PICK c \in Coffres : /\ c = Scelle(1, 1, m, 1) /\ c.incarnation = 1 /\ c.version = 1
                           /\ c.mdp = m /\ c.cle = 1
  BY <1>3, ScelleEst
<1>5. /\ compte.scelle = c /\ compte.incarnation = 1 /\ compte.version = 1
      /\ compte.mdp = m /\ compte.cle = 1
  BY <1>1, <1>4
<1>6. compte \in Comptes
  BY <1>1, <1>3, <1>4 DEF Comptes
<1>7. \A d \in Appareils : f[d] \in Jetons /\ f[d] \in Secrets
  BY AccountBounds DEF Jetons, Secrets
<1>8. PICK t \in Trousseaux : t = Trousseau(c)
  BY TrousseauEst
<1>9. PICK p \in [incarnation : Nat, version : Nat] :
        p = Releves(AucunPlancher, c) /\ p.incarnation = 1
  <2>1. AucunPlancher \in [incarnation : Nat, version : Nat]
    BY DEF AucunPlancher
  <2> QED BY <1>4, <2>1, RelevesEst
<1>10. ASSUME NEW d \in Appareils
       PROVE  /\ appareil[d] \in EtatsDAppareil /\ AppareilJuste(appareil[d])
  <2>1. PICK j \in Secrets : j = f[d]
    BY <1>7
  <2>2. PICK a : a = [planchers |-> p, locale |-> 1, enveloppe |-> c, jeton |-> j,
                      pose |-> Rien, serrure |-> t, attente |-> Rien]
    OBVIOUS
  <2>3. /\ Inconnu.planchers = AucunPlancher /\ Inconnu.attente = Rien
    BY DEF Inconnu
  <2>4. Installe(Inconnu, c, j, 4) = a
    BY <1>4, <1>8, <1>9, <2>2, <2>3 DEF Installe
  <2>5. appareil[d] = a
    BY <1>2, <1>5, <2>1, <2>4
  <2>6. a \in EtatsDAppareil
    BY <2>2 DEF EtatsDAppareil, Trousseaux
  <2>7. /\ a.locale = 1 /\ a.planchers = p /\ a.enveloppe = c /\ a.serrure = t
    BY <2>2
  <2>8. AppareilJuste(a)
    BY <1>5, <1>8, <1>9, <2>7 DEF AppareilJuste
  <2> QED BY <2>5, <2>6, <2>8
<1>11. appareil \in [Appareils -> EtatsDAppareil]
  BY <1>2, <1>10
<1>12. sessions \subseteq Jetons
  BY <1>2, <1>7
<1>13. /\ expirees = {} /\ recuperations = {} /\ codes = [coffre |-> 0, reinit |-> 0]
       /\ echeance = "aucune" /\ appel = [d \in Appareils |-> Rien] /\ moteur = Rien
       /\ tardives = {} /\ montrees = {1} /\ permis \in Familles /\ gestes = 0 /\ pannes = 0
  BY DEF Init
<1>14. codes \in [coffre : Secrets, reinit : Secrets] /\ 0 \in 0..PannesMax
  BY <1>13, Bornes, AccountBounds
<1>15. appel \in [Appareils -> Appels \cup {Rien}] /\ \A d \in Appareils : appel[d] = Rien
  BY <1>13
<1>16. TypeOK
  BY <1>3, <1>6, <1>11, <1>12, <1>13, <1>14, <1>15 DEF TypeOK
<1>17. EnRoute = {}
  BY <1>13, <1>15 DEF EnRoute
<1>18. Formes /\ Justes
  BY <1>10, <1>15, <1>17 DEF Formes, Justes
<1>19. JamaisMuree
  BY <1>4, <1>5 DEF JamaisMuree
<1> QED BY <1>16, <1>18, <1>19 DEF IComptes

LEMMA GestesJustes ==
  ASSUME IComptes, NEW d \in Appareils, Gestes(d)
  PROVE  IComptes'
<1>1. ASSUME NEW m \in Mdps, Connecter(d, m) \/ ChangerMotDePasse(d, m) \/ OubliIci(d, m)
      PROVE  IComptes'
  BY <1>1, ConnecterJuste, ChangerMotDePasseJuste, OubliIciJuste
<1>2. ASSUME NEW m \in Mdps, NEW k \in montrees, NEW g \in {"recuperer", "recupererRemplacer"},
             Recuperer(d, k, m, g)
      PROVE  IComptes'
  <2>1. PICK c : c = k
    OBVIOUS
  <2> QED BY <1>2, <2>1, RecupererJuste
<1>3. ASSUME RetirerCle(d) \/ PreparerCle(d) \/ ConfirmerCle(d)
               \/ \E j \in Jetons : DeconnecterAppareil(d, j)
      PROVE  IComptes'
  BY <1>3, RetirerCleJuste, PreparerCleJuste, ConfirmerCleJuste, DeconnecterAppareilJuste
<1>4. ASSUME CodeCoffre(d) \/ ReinitDemander(d) \/ ReinitAnnuler(d)
      PROVE  IComptes'
  BY <1>4, CodeCoffreJuste, ReinitDemanderJuste, ReinitAnnulerJuste
<1>5. ASSUME Reinitialiser(d, "reinitConfirmer", Rien)
               \/ \E m \in Mdps : Reinitialiser(d, "reinitTerminer", m)
      PROVE  IComptes'
  <2>1. PICK g \in {"reinitConfirmer", "reinitTerminer"}, m \in Mdps \cup {Rien} :
          Reinitialiser(d, g, m) /\ (g = "reinitTerminer" => m \in Mdps)
    BY <1>5
  <2> QED BY <2>1, ReinitialiserJuste
<1>6. ASSUME Deverrouiller(d) \/ Verrouiller(d) \/ Deconnecter(d)
      PROVE  IComptes'
  BY <1>6, DeverrouillerJuste, VerrouillerJuste, DeconnecterJuste
<1> QED BY <1>1, <1>2, <1>3, <1>4, <1>5, <1>6 DEF Gestes

LEMMA SuitesJustes ==
  ASSUME IComptes, NEW d \in Appareils, Suites(d)
  PROVE  IComptes'
<1>1. CASE Connexion(d)
  BY <1>1, ConnexionJuste
<1>2. CASE Deballage(d)
  BY <1>2, DeballageJuste
<1>3. CASE RotationFaite(d)
  BY <1>3, RotationFaiteJuste
<1>4. CASE ReinitConfirmee(d)
  BY <1>4, ReinitConfirmeeJuste
<1>5. CASE ReinitPreparee(d)
  BY <1>5, ReinitPrepareeJuste
<1>6. CASE ReinitFaite(d)
  BY <1>6, ReinitFaiteJuste
<1>7. CASE Echouer(d) \/ Perdre(d)
  BY <1>7, EchouerJuste, PerdreJuste
<1> QED BY <1>1, <1>2, <1>3, <1>4, <1>5, <1>6, <1>7 DEF Suites

LEMMA NextIComptes ==
  ASSUME IComptes, [Next]_vars
  PROVE  IComptes'
<1>1. ASSUME NEW d \in Appareils, Gestes(d) \/ Suites(d) \/ MoteurDemande(d) \/ Absence(d)
      PROVE  IComptes'
  BY <1>1, GestesJustes, SuitesJustes, MoteurDemandeJuste, AbsenceJuste
<1>2. CASE Servir \/ EcheanceArrivee \/ MoteurServi \/ SessionRefusee
  BY <1>2, ServirJuste, EcheanceArriveeJuste, MoteurServiJuste, SessionRefuseeJuste
<1>3. CASE UNCHANGED vars
  <2>1. UNCHANGED <<compte, sessions, expirees, recuperations, codes, echeance>>
    BY <1>3 DEF vars, serveur
  <2>2. UNCHANGED <<appareil, appel, moteur, tardives, montrees, permis, gestes, pannes>>
    BY <1>3 DEF vars
  <2>3. TypeOK' /\ JamaisMuree' /\ EnRoute' = EnRoute
    BY <2>1, <2>2 DEF IComptes, TypeOK, JamaisMuree, EnRoute
  <2>4. Formes'
    BY <2>2, <2>3 DEF IComptes, Formes, Formee
  <2>5. Justes'
    BY <2>1, <2>2, <2>3
       DEF IComptes, Justes, AppareilJuste, DemandeJuste, Recevable, ReponseJuste, Incarnee, Sain
  <2> QED BY <2>3, <2>4, <2>5 DEF IComptes
<1> QED BY <1>1, <1>2, <1>3 DEF Next

\* A device whose session the server knows holds the vault of now: the second
\* part of AppareilJuste, stated for every device.
LEMMA IComptesSessionAJour ==
  ASSUME IComptes
  PROVE  SessionAJour
  BY DEF IComptes, Justes, AppareilJuste, SessionAJour

\* The inductive invariant, whatever the devices, the passwords, the order and
\* the losses of the requests (diapason_comptes and compte/service.py).
THEOREM AccountInductive == Spec => []IComptes
<1>1. Init => IComptes
  BY InitIComptes
<1>2. IComptes /\ [Next]_vars => IComptes'
  BY NextIComptes
<1> QED BY <1>1, <1>2, PTL DEF Spec

\* Nobody is walled out of an account: what vault_commit and reset_complete
\* store sealed always agrees with what they store in clear beside it.
THEOREM NeverWalledIn == Spec => []JamaisMuree
<1>1. IComptes => JamaisMuree
  BY DEF IComptes
<1> QED BY <1>1, AccountInductive, PTL

\* A session the server still knows goes with the current vault on the device
\* that holds its token (_installer's order of writes, and the sessions every
\* rotation revokes).
THEOREM SessionsGoWithTheVault == Spec => []SessionAJour
<1>1. IComptes => SessionAJour
  BY IComptesSessionAJour
<1> QED BY <1>1, AccountInductive, PTL

\* Types, and no token at once a session and a proof of recovery.
THEOREM AccountTypes == Spec => []TypeOK
<1>1. IComptes => TypeOK
  BY DEF IComptes
<1> QED BY <1>1, AccountInductive, PTL

-----------------------------------------------------------------------------
(* The password is the one that was wanted                                 *)

\* The one request a handler answers is the one that was served.
LEMMA ServiesEst ==
  ASSUME TypeOK, NEW q \in EnRoute, NEW r, Repondre(q, r)
  PROVE  Servies \subseteq {q}
<1>1. CASE q \in tardives
  <2>1. tardives \ tardives' \subseteq {q} /\ appel' = appel
    BY <1>1 DEF Repondre
  <2> QED BY <2>1 DEF Servies
<1>2. CASE q \notin tardives
  <2>1. /\ tardives' = tardives /\ appel[q.de] # Rien /\ appel[q.de].requete = q
        /\ appel' = [appel EXCEPT ![q.de].reponse = r]
    BY <1>2 DEF Repondre
  <2>2. \A d \in Appareils : d # q.de => appel'[d] = appel[d]
    BY <2>1 DEF TypeOK
  <2> QED BY <2>1, <2>2 DEF Servies
<1> QED BY <1>1, <1>2

\* Only two handlers write the row of the account.
LEMMA CompteEcrit ==
  ASSUME TypeOK, Next, compte' # compte
  PROVE  \E q \in EnRoute : \/ q.genre = "commit" /\ CommitAccepte(q)
                            \/ ResetComplete(q)
<1>1. ASSUME NEW d \in Appareils, Gestes(d) \/ Suites(d) \/ MoteurDemande(d) \/ Absence(d)
      PROVE  FALSE
  <2>1. CASE Gestes(d)
    BY <2>1 DEF Gestes, Connecter, ChangerMotDePasse, OubliIci, Reinitialiser, Recuperer,
                RetirerCle, PreparerCle, ConfirmerCle, DeconnecterAppareil, CodeCoffre,
                ReinitDemander, ReinitAnnuler, Deverrouiller, Verrouiller, Deconnecter,
                Tourner, serveur
  <2>2. CASE Suites(d)
    BY <2>2 DEF Suites, Connexion, Deballage, RotationFaite, ReinitConfirmee, ReinitPreparee,
                ReinitFaite, Echouer, Perdre, serveur
  <2> QED BY <1>1, <2>1, <2>2 DEF MoteurDemande, Absence, serveur
<1>2. CASE EcheanceArrivee \/ MoteurServi \/ SessionRefusee
  BY <1>2 DEF EcheanceArrivee, MoteurServi, SessionRefusee, serveur
<1>3. CASE Servir
  BY <1>3 DEF Servir, VaultCommit, Login, Account, RecoveryUnwrap, serveur
<1> QED BY <1>1, <1>2, <1>3 DEF Next

LEMMA MotDePasseGarde ==
  ASSUME TypeOK, Next, NEW q \in Servies, q.genre = "commit", q.preuve = "password",
         q.mdp = q.coffre.mdp
  PROVE  compte'.mdp = compte.mdp
<1>1. CASE compte' = compte
  BY <1>1
<1>2. CASE compte' # compte
  <2>1. PICK p \in EnRoute : \/ p.genre = "commit" /\ CommitAccepte(p)
                             \/ ResetComplete(p)
    BY <1>2, CompteEcrit
  <2>2. PICK r : Repondre(p, r)
    BY <2>1 DEF CommitAccepte, ResetComplete
  <2>3. q = p
    BY <2>2, ServiesEst
  <2>4. CommitAccepte(q)
    BY <2>1, <2>3 DEF ResetComplete
  <2>5. q.mdp = compte.mdp
    BY <2>4 DEF CommitAccepte, PreuveTenue
  <2>6. compte'.mdp = q.coffre.mdp
    BY <2>4 DEF CommitAccepte, TypeOK, Comptes
  <2> QED BY <2>5, <2>6
<1> QED BY <1>1, <1>2

\* A request that chooses no password changes none, even when it arrives late
\* (vault_commit compares its proof with the verifier of now).
THEOREM NoFormerPassword == Spec => MotDePasseVoulu
<1>1. TypeOK /\ [Next]_vars =>
        [\A q \in Servies : q.genre = "commit" /\ q.preuve = "password" /\ q.mdp = q.coffre.mdp
                              => compte'.mdp = compte.mdp]_vars
  BY MotDePasseGarde
<1> QED BY <1>1, AccountTypes, PTL DEF Spec, MotDePasseVoulu

-----------------------------------------------------------------------------
(* The recovery key the account counts on has been shown                   *)

Remplace(q) == q.genre = "commit" /\ q.mode = "replace"

\* The key of the account was shown, and so were the key that waits to be
\* confirmed and the one a request on its way puts in place of the former.
Detenues ==
  /\ CleDetenue
  /\ \A q \in EnRoute : Remplace(q) => q.coffre.cle \in montrees
  /\ \A d \in Appareils : appareil[d].attente # Rien => appareil[d].attente.cle \in montrees

\* How every step but a commit keeps it.
AttentesGardees ==
  \A d \in Appareils : \/ appareil'[d].attente \in {Rien, appareil[d].attente}
                       \/ appareil'[d].attente.cle \in montrees'
AppelsGardes ==
  \A d \in Appareils : \/ appel'[d] = Rien
                       \/ appel[d] # Rien /\ appel'[d].requete = appel[d].requete
                       \/ Remplace(appel'[d].requete) =>
                            appel'[d].requete.coffre.cle \in montrees

LEMMA DetenuesPas ==
  ASSUME Detenues, montrees \subseteq montrees', compte'.cle \in {0, compte.cle} \cup montrees,
         tardives' \subseteq EnRoute, AttentesGardees, AppelsGardes
  PROVE  Detenues'
<1>1. ASSUME NEW q \in EnRoute', Remplace(q)
      PROVE  q.coffre.cle \in montrees'
  <2>1. CASE q \in EnRoute
    BY <1>1, <2>1 DEF Detenues
  <2>2. CASE q \notin EnRoute
    <3>1. PICK d \in Appareils : appel'[d] # Rien /\ q = appel'[d].requete
      BY <2>2 DEF EnRoute
    <3>2. ~(appel[d] # Rien /\ appel'[d].requete = appel[d].requete)
      BY <2>2, <3>1 DEF EnRoute
    <3> QED BY <1>1, <3>1, <3>2 DEF AppelsGardes
  <2> QED BY <2>1, <2>2
<1>2. \A d \in Appareils : appareil'[d].attente # Rien => appareil'[d].attente.cle \in montrees'
  BY DEF AttentesGardees, Detenues
<1>3. CleDetenue'
  BY DEF Detenues, CleDetenue
<1> QED BY <1>1, <1>2, <1>3 DEF Detenues, Remplace

LEMMA ServirDetenues ==
  ASSUME IComptes, Detenues, Servir
  PROVE  Detenues'
<1>1. PICK q \in EnRoute : VaultCommit(q) \/ Login(q) \/ Account(q)
                             \/ RecoveryUnwrap(q) \/ ResetComplete(q)
  BY DEF Servir
<1>2. UNCHANGED <<appareil, moteur, montrees, permis, gestes, pannes>>
  BY DEF Servir
<1>3. PICK r : Repondre(q, r)
  BY <1>1 DEF VaultCommit, CommitAccepte, Login, Account, RecoveryUnwrap, ResetComplete
<1>4. EnRoute' \subseteq EnRoute
  BY <1>3, EnRouteServie DEF IComptes
<1>5. compte'.cle \in {0, compte.cle} \cup montrees
  <2>1. CASE q.genre = "commit" /\ CommitAccepte(q)
    <3>1. q.mode \in {"keep", "replace", "remove"} /\ compte \in Comptes
      BY <2>1 DEF IComptes, Formes, Formee, TypeOK
    <3>2. q.mode = "replace" => q.coffre.cle \in montrees
      BY <2>1 DEF Detenues, Remplace
    <3>3. compte'.cle = CASE q.mode = "keep" -> compte.cle
                          [] q.mode = "replace" -> q.coffre.cle
                          [] q.mode = "remove" -> 0
      BY <2>1, <3>1 DEF CommitAccepte, Comptes
    <3> QED BY <3>1, <3>2, <3>3
  <2>2. CASE compte' = compte
    BY <2>2
  <2>3. CASE ResetComplete(q)
    BY <2>3 DEF ResetComplete, serveur
  <2> QED BY <1>1, <2>1, <2>2, <2>3 DEF VaultCommit, Login, Account, RecoveryUnwrap, serveur
<1>6. CleDetenue'
  BY <1>2, <1>5 DEF Detenues, CleDetenue
<1> QED BY <1>2, <1>4, <1>6 DEF Detenues

\* A gesture that starts a call: only the confirmation of a key puts one in
\* place of another, the one that was waiting.
LEMMA TournerDetenues ==
  ASSUME IComptes, Detenues, NEW d \in Appareils, NEW g, NEW m, NEW q, Tourner(d, g, m, q),
         Remplace(q) => q.coffre.cle \in montrees
  PROVE  Detenues'
<1>1. /\ compte' = compte /\ tardives' = tardives /\ montrees' = montrees /\ appareil' = appareil
      /\ appel' = [appel EXCEPT ![d] = Appel(g, m, q)]
  BY DEF Tourner, serveur
<1>2. AppelsGardes
  <2>1. appel'[d].requete = q
    BY <1>1 DEF IComptes, TypeOK, Appel
  <2>2. \A e \in Appareils \ {d} : appel'[e] = appel[e]
    BY <1>1 DEF IComptes, TypeOK
  <2> QED BY <2>1, <2>2 DEF AppelsGardes
<1>3. AttentesGardees /\ tardives' \subseteq EnRoute
  BY <1>1 DEF AttentesGardees, EnRoute
<1> QED BY <1>1, <1>2, <1>3, DetenuesPas

LEMMA RotationMode ==
  ASSUME NEW q, NEW t, NEW v, NEW m, NEW k, NEW mode, q \in Requetes
  PROVE  /\ Rotation(q, t, v, m, k, mode).mode = mode
         /\ Rotation(q, t, v, m, k, mode).coffre.cle = k
  BY DEF Rotation, Requetes, Scelle

LEMMA RotationIciMode ==
  ASSUME NEW d \in Appareils, NEW q \in Requetes, NEW m, NEW k, NEW mode
  PROVE  /\ RotationIci(d, q, m, k, mode).mode = mode
         /\ RotationIci(d, q, m, k, mode).coffre.cle = k
  BY DEF RotationIci, Rotation, Requetes, Scelle

LEMMA RotationsDetenues ==
  ASSUME IComptes, Detenues, NEW d \in Appareils,
         \/ RetirerCle(d) \/ ConfirmerCle(d)
         \/ \E m \in Mdps : ChangerMotDePasse(d, m) \/ OubliIci(d, m)
         \/ \E j \in Jetons : DeconnecterAppareil(d, j)
  PROVE  Detenues'
<1> DEFINE a == appareil[d]
<1>1. CASE RetirerCle(d)
  <2>1. PICK m : m = a.enveloppe.mdp
    OBVIOUS
  <2>2. PICK q : q = ParMotDePasse(d, m)
    OBVIOUS
  <2>3. q \in Requetes
    BY <1>1, <2>1, <2>2, OuvertEst, ParMotDePasseEst DEF RetirerCle, Jugeable
  <2>4. PICK x : x = RotationIci(d, q, m, 0, "remove")
    OBVIOUS
  <2>5. Tourner(d, "retirer", m, x)
    BY <1>1, <2>1, <2>2, <2>4 DEF RetirerCle
  <2>6. ~Remplace(x)
    BY <2>3, <2>4, RotationIciMode DEF Remplace
  <2> QED BY <2>5, <2>6, TournerDetenues
<1>2. CASE ConfirmerCle(d)
  <2>1. PICK w : w = a.attente /\ w # Rien
    BY <1>2 DEF ConfirmerCle
  <2>2. PICK q : q = ParMotDePasse(d, w.mdp)
    OBVIOUS
  <2>3. w.mdp \in Mdps /\ w.cle \in montrees
    BY <2>1, IciMeme DEF EtatsDAppareil, Detenues
  <2>4. q \in Requetes
    BY <2>2, <2>3, ParMotDePasseEst
  <2>5. PICK x : x = RotationIci(d, q, w.mdp, w.cle, "replace")
    OBVIOUS
  <2>6. Tourner(d, "confirmerCle", w.mdp, x)
    BY <1>2, <2>1, <2>2, <2>5 DEF ConfirmerCle
  <2>7. x.coffre.cle \in montrees
    BY <2>3, <2>4, <2>5, RotationIciMode
  <2> QED BY <2>6, <2>7, TournerDetenues
<1>3. ASSUME NEW m \in Mdps, ChangerMotDePasse(d, m)
      PROVE  Detenues'
  <2>1. PICK t : t = a.serrure
    OBVIOUS
  <2>2. PICK q : q = ParMotDePasse(d, a.enveloppe.mdp)
    OBVIOUS
  <2>3. q \in Requetes
    BY <1>3, <2>2, OuvertEst, ParMotDePasseEst DEF ChangerMotDePasse, Jugeable
  <2>4. PICK x : x = RotationIci(d, q, m, t.cle, Gardee(t))
    OBVIOUS
  <2>5. Tourner(d, "changer", m, x)
    BY <1>3, <2>1, <2>2, <2>4 DEF ChangerMotDePasse
  <2>6. ~Remplace(x)
    BY <2>3, <2>4, RotationIciMode DEF Remplace, Gardee
  <2> QED BY <2>5, <2>6, TournerDetenues
<1>4. ASSUME NEW m \in Mdps, OubliIci(d, m)
      PROVE  Detenues'
  <2>1. PICK t : t = a.serrure
    OBVIOUS
  <2>2. PICK y \in Requetes : y = Requete(d, "commit")
    BY RequeteEst
  <2>3. PICK s \in Secrets : s = codes.coffre
    BY DEF IComptes, TypeOK
  <2>4. PICK q : q = [y EXCEPT !.preuve = "emailCode", !.secret = s]
    OBVIOUS
  <2>5. q \in Requetes
    BY <2>2, <2>4 DEF Requetes
  <2>6. PICK x : x = RotationIci(d, q, m, t.cle, Gardee(t))
    OBVIOUS
  <2>7. Tourner(d, "changer", m, x)
    BY <1>4, <2>1, <2>2, <2>3, <2>4, <2>6 DEF OubliIci
  <2>8. ~Remplace(x)
    BY <2>5, <2>6, RotationIciMode DEF Remplace, Gardee
  <2> QED BY <2>7, <2>8, TournerDetenues
<1>5. ASSUME NEW j \in Jetons, DeconnecterAppareil(d, j)
      PROVE  Detenues'
  <2>1. PICK t, m : t = a.serrure /\ m = a.enveloppe.mdp
    OBVIOUS
  <2>2. PICK q : q = ParMotDePasse(d, m)
    OBVIOUS
  <2>3. q \in Requetes
    BY <1>5, <2>1, <2>2, OuvertEst, ParMotDePasseEst DEF DeconnecterAppareil, Jugeable
  <2>4. PICK x : x = RotationIci(d, q, m, t.cle, Gardee(t))
    OBVIOUS
  <2>5. PICK y : y = [x EXCEPT !.revoquee = j]
    OBVIOUS
  <2>6. Tourner(d, "deconnecterAppareil", m, y)
    BY <1>5, <2>1, <2>2, <2>4, <2>5 DEF DeconnecterAppareil
  <2>7. x.mode # "replace"
    BY <2>3, <2>4, RotationIciMode DEF Gardee
  <2>8. ~Remplace(y)
    BY <2>3, <2>4, <2>5, <2>7 DEF Remplace, RotationIci, Rotation, Requetes
  <2> QED BY <2>6, <2>8, TournerDetenues
<1> QED BY <1>1, <1>2, <1>3, <1>4, <1>5

\* A device d becomes a, its call z, the account staying as it is.
LEMMA DetenuesIci ==
  ASSUME IComptes, Detenues, NEW d \in Appareils, NEW a, NEW z,
         appareil' = [appareil EXCEPT ![d] = a], appel' = [appel EXCEPT ![d] = z],
         a.attente \in {Rien, appareil[d].attente} \/ a.attente.cle \in montrees',
         z \in {Rien, appel[d]} \/ ~Remplace(z.requete),
         compte' = compte, montrees \subseteq montrees', tardives' \subseteq EnRoute
  PROVE  Detenues'
<1>1. \A e \in Appareils : /\ appel'[e] = IF e = d THEN z ELSE appel[e]
                           /\ appareil'[e] = IF e = d THEN a ELSE appareil[e]
  BY DEF IComptes, TypeOK
<1>2. AttentesGardees
  BY <1>1 DEF AttentesGardees
<1>3. AppelsGardes
  BY <1>1 DEF AppelsGardes
<1> QED BY <1>2, <1>3, DetenuesPas

LEMMA PerdueAttente ==
  ASSUME NEW a \in EtatsDAppareil, NEW k
  PROVE  SessionPerdue(a, k).attente \in {Rien, a.attente}
  BY DEF SessionPerdue, EtatsDAppareil

\* A call that is not a rotation.
LEMMA AppelsSansCle ==
  ASSUME IComptes, Detenues, NEW d \in Appareils, Gestes(d),
         \/ \E m \in Mdps : Connecter(d, m) \/ Reinitialiser(d, "reinitTerminer", m)
         \/ \E m \in Mdps, k \in montrees, g \in {"recuperer", "recupererRemplacer"} :
              Recuperer(d, k, m, g)
         \/ Reinitialiser(d, "reinitConfirmer", Rien)
  PROVE  Detenues'
<1>1. PICK z : appel' = [appel EXCEPT ![d] = z] /\ ~Remplace(z.requete)
  <2>1. ASSUME NEW m \in Mdps, Connecter(d, m)
        PROVE  \E z : appel' = [appel EXCEPT ![d] = z] /\ ~Remplace(z.requete)
    <3>1. PICK z : z = Appel("connecter", m, [Requete(d, "login") EXCEPT !.mdp = m])
      OBVIOUS
    <3>2. z.requete.genre = "login"
      BY <3>1 DEF Appel, Requete
    <3> QED BY <2>1, <3>1, <3>2 DEF Connecter, Remplace
  <2>2. ASSUME NEW m, NEW g, Reinitialiser(d, g, m)
        PROVE  \E z : appel' = [appel EXCEPT ![d] = z] /\ ~Remplace(z.requete)
    <3>1. PICK z : z = Appel(g, m, [Requete(d, "account") EXCEPT
                                      !.jeton = JetonDe(appareil[d]), !.secret = codes.reinit])
      OBVIOUS
    <3>2. z.requete.genre = "account"
      BY <3>1 DEF Appel, Requete
    <3> QED BY <2>2, <3>1, <3>2 DEF Reinitialiser, Remplace
  <2>3. ASSUME NEW m, NEW k, NEW g, Recuperer(d, k, m, g)
        PROVE  \E z : appel' = [appel EXCEPT ![d] = z] /\ ~Remplace(z.requete)
    <3>1. PICK z : z = Appel(g, m, [Requete(d, "unwrap") EXCEPT !.cle = k])
      OBVIOUS
    <3>2. z.requete.genre = "unwrap"
      BY <3>1 DEF Appel, Requete
    <3> QED BY <2>3, <3>1, <3>2 DEF Recuperer, Remplace
  <2> QED BY <2>1, <2>2, <2>3
<1>2. /\ compte' = compte /\ montrees' = montrees /\ tardives' = tardives
      /\ appareil' \in {appareil, Fermee(d)}
  BY DEF Connecter, Reinitialiser, Recuperer, serveur
<1>3. PICK b : b = [appareil[d] EXCEPT !.serrure = Rien]
  OBVIOUS
<1>4. Fermee(d) = [appareil EXCEPT ![d] = b] /\ b.attente = appareil[d].attente
  BY <1>3, IciMeme DEF Fermee, EtatsDAppareil, IComptes, TypeOK
<1>5. PICK a : appareil' = [appareil EXCEPT ![d] = a] /\ a.attente = appareil[d].attente
  BY <1>2, <1>4, IciMeme
<1>6. tardives' \subseteq EnRoute
  BY <1>2 DEF EnRoute
<1> QED BY <1>1, <1>2, <1>5, <1>6, DetenuesIci

LEMMA CalmeDetenues ==
  ASSUME IComptes, Detenues, NEW d \in Appareils,
         \/ PreparerCle(d) \/ CodeCoffre(d) \/ ReinitDemander(d) \/ ReinitAnnuler(d)
         \/ Deverrouiller(d) \/ Verrouiller(d) \/ Deconnecter(d)
  PROVE  Detenues'
<1>0. /\ appel' = appel /\ compte' = compte /\ tardives' = tardives
      /\ montrees \subseteq montrees'
  BY DEF PreparerCle, CodeCoffre, ReinitDemander, ReinitAnnuler, Deverrouiller, Verrouiller,
         Deconnecter, serveur
<1>1. PICK a : /\ appareil' = [appareil EXCEPT ![d] = a]
               /\ a.attente \in {Rien, appareil[d].attente} \/ a.attente.cle \in montrees'
  <2>1. CASE PreparerCle(d)
    <3>1. PICK k : /\ appareil' = [appareil EXCEPT ![d].attente =
                                     [cle |-> k, mdp |-> appareil[d].enveloppe.mdp]]
                   /\ montrees' = montrees \cup {k}
      BY <2>1 DEF PreparerCle
    <3>2. PICK x : x = [cle |-> k, mdp |-> appareil[d].enveloppe.mdp]
      OBVIOUS
    <3>3. PICK b : b = [appareil[d] EXCEPT !.attente = x]
      OBVIOUS
    <3>4. appareil' = [appareil EXCEPT ![d] = b] /\ b.attente = x /\ x.cle = k
      BY <3>1, <3>2, <3>3, IciMeme DEF IComptes, TypeOK, EtatsDAppareil
    <3> QED BY <3>1, <3>4
  <2>2. CASE appareil' = appareil
    BY <2>2, IciMeme
  <2>3. CASE appareil' = [appareil EXCEPT ![d] = SessionPerdue(@, NonAuthentifie(JetonDe(@)))]
    <3>1. PICK k : k = NonAuthentifie(JetonDe(appareil[d]))
      OBVIOUS
    <3>2. PICK b : b = SessionPerdue(appareil[d], k)
      OBVIOUS
    <3>3. appareil' = [appareil EXCEPT ![d] = b]
      BY <2>3, <3>1, <3>2 DEF IComptes, TypeOK
    <3> QED BY <3>2, <3>3, IciMeme, PerdueAttente
  <2>4. CASE Deverrouiller(d)
    <3>1. PICK t : t = Trousseau(appareil[d].enveloppe)
      OBVIOUS
    <3>2. PICK b : b = [appareil[d] EXCEPT !.serrure = t]
      OBVIOUS
    <3>3. appareil' = [appareil EXCEPT ![d] = b] /\ b.attente = appareil[d].attente
      BY <2>4, <3>1, <3>2, IciMeme DEF Deverrouiller, IComptes, TypeOK, EtatsDAppareil
    <3> QED BY <3>3
  <2>5. CASE Verrouiller(d)
    <3>1. PICK b : b = [appareil[d] EXCEPT !.serrure = Rien, !.attente = Rien]
      OBVIOUS
    <3>2. appareil' = [appareil EXCEPT ![d] = b] /\ b.attente = Rien
      BY <2>5, <3>1, IciMeme DEF Verrouiller, IComptes, TypeOK, EtatsDAppareil
    <3> QED BY <3>2
  <2>6. CASE Deconnecter(d)
    <3>1. PICK b : b = Inconnu
      OBVIOUS
    <3>2. appareil' = [appareil EXCEPT ![d] = b]
      BY <2>6, <3>1 DEF Deconnecter
    <3>3. b.attente = Rien
      BY <3>1 DEF Inconnu
    <3> QED BY <3>2, <3>3
  <2> QED BY <2>1, <2>2, <2>3, <2>4, <2>5, <2>6 DEF CodeCoffre, ReinitDemander, ReinitAnnuler
<1>2. appel' = [appel EXCEPT ![d] = appel[d]] /\ tardives' \subseteq EnRoute
  BY <1>0, IciMeme DEF EnRoute
<1>3. PICK z : z = appel[d]
  OBVIOUS
<1> QED BY <1>0, <1>1, <1>2, <1>3, DetenuesIci

\* An installation leaves no other key to confirm than the one it is given.
LEMMA InstallerAttente ==
  ASSUME IComptes, NEW d \in Appareils, NEW c \in Coffres, NEW j, NEW x, Installer(d, c, j, x)
  PROVE  \E a : /\ appareil' = [appareil EXCEPT ![d] = a]
                /\ a.attente = Rien \/ (a.attente = x /\ a.serrure # Rien)
<1>1. PICK n \in 1..4 :
        appareil' = [appareil EXCEPT ![d] =
             [Installe(@, c, j, n) EXCEPT !.attente = IF n = 4 THEN x ELSE Rien]]
  BY DEF Installer
<1>2. PICK b : b = [Installe(appareil[d], c, j, n) EXCEPT !.attente = IF n = 4 THEN x ELSE Rien]
  OBVIOUS
<1>3. appareil' = [appareil EXCEPT ![d] = b]
  BY <1>1, <1>2 DEF IComptes, TypeOK
<1>4. b.attente = IF n = 4 THEN x ELSE Rien
  BY <1>2 DEF Installe
<1>5. n = 4 => b.serrure = Trousseau(c)
  BY <1>2 DEF Installe
<1>6. Trousseau(c) # Rien
  <2>1. c.incarnation \in Nat /\ c.version \in Nat /\ c.cle \in Nat
    BY DEF Coffres
  <2>2. Trousseau(c) \in [incarnation : Nat, epoque : Nat, cle : Nat]
    BY <2>1 DEF Trousseau
  <2> QED BY <2>2, AccountBounds
<1>7. b.attente = Rien \/ (b.attente = x /\ b.serrure # Rien)
  <2>1. CASE n = 4
    BY <2>1, <1>4, <1>5, <1>6
  <2>2. CASE n # 4
    BY <2>2, <1>4
  <2> QED BY <2>1, <2>2
<1> QED BY <1>3, <1>7

LEMMA ConnexionDetenues ==
  ASSUME IComptes, Detenues, NEW d \in Appareils, Connexion(d)
  PROVE  Detenues'
<1> DEFINE r == appel[d].reponse
<1>1. /\ appel[d] # Rien /\ r # Rien /\ r.code = "ok"
  BY DEF Connexion, Repondu
<1>2. PICK c \in Coffres : c = r.compte.scelle
  BY <1>1, ReponseEst
<1>3. PICK j, x : j = r.jeton /\ x = appareil[d].attente
  OBVIOUS
<1>4. PICK a : /\ appareil' = [appareil EXCEPT ![d] = a]
               /\ a.attente \in {Rien, appareil[d].attente}
  <2>1. CASE Installer(d, r.compte.scelle, r.jeton, appareil[d].attente)
    <3>1. Installer(d, c, j, x)
      BY <1>2, <1>3, <2>1
    <3> QED BY <1>3, <3>1, InstallerAttente
  <2>2. CASE appareil' = [appareil EXCEPT ![d] = Installe(@, r.compte.scelle, r.jeton, 4)]
    <3>1. PICK b : b = Installe(appareil[d], c, j, 4)
      OBVIOUS
    <3>2. appareil' = [appareil EXCEPT ![d] = b]
      BY <1>2, <1>3, <2>2, <3>1 DEF IComptes, TypeOK
    <3>3. b.attente = appareil[d].attente
      BY <3>1 DEF Installe
    <3> QED BY <3>2, <3>3
  <2>3. CASE appareil' = [appareil EXCEPT ![d].pose =
                               IF RetourArriere(d) THEN "serverRolledBack" ELSE @]
    <3>1. PICK b : b = [appareil[d] EXCEPT !.pose = IF RetourArriere(d) THEN "serverRolledBack" ELSE @]
      OBVIOUS
    <3>2. appareil' = [appareil EXCEPT ![d] = b]
      BY <2>3, <3>1 DEF IComptes, TypeOK
    <3>3. b.attente = appareil[d].attente
      BY <3>1, IciMeme DEF EtatsDAppareil
    <3> QED BY <3>2, <3>3
  <2>4. CASE ~RetourArriere(d) /\ CoffreLisible(d) /\ r.compte.scelle.mdp = appel[d].mdp
    BY <2>1, <2>2, <2>4 DEF Connexion
  <2>5. CASE ~(~RetourArriere(d) /\ CoffreLisible(d) /\ r.compte.scelle.mdp = appel[d].mdp)
    BY <2>3, <2>5 DEF Connexion
  <2> QED BY <2>4, <2>5
<1>5. /\ compte' = compte /\ montrees' = montrees /\ tardives' \subseteq EnRoute
      /\ appel' = [appel EXCEPT ![d] = Rien]
  BY DEF Connexion, Finir, EnRoute
<1> QED BY <1>4, <1>5, DetenuesIci

LEMMA DeballageDetenues ==
  ASSUME IComptes, Detenues, NEW d \in Appareils, Deballage(d)
  PROVE  Detenues'
<1> DEFINE k == appel[d].reponse.compte
<1>1. /\ compte' = compte /\ montrees' = montrees /\ tardives' \subseteq EnRoute
  BY DEF Deballage, serveur, EnRoute
<1>2. CASE /\ appel' = [appel EXCEPT ![d] = Appel(@.geste, @.mdp, CleDuCommit(d, k))]
           /\ UNCHANGED appareil
  <2>1. PICK x : x = CleDuCommit(d, k)
    OBVIOUS
  <2>2. PICK z : z = Appel(appel[d].geste, appel[d].mdp, x)
    OBVIOUS
  <2>3. appel' = [appel EXCEPT ![d] = z]
    BY <1>2, <2>1, <2>2 DEF IComptes, TypeOK
  <2>4. x.mode = "keep"
    BY <2>1 DEF CleDuCommit, Rotation, Requete
  <2>5. ~Remplace(z.requete)
    BY <2>2, <2>4 DEF Appel, Remplace
  <2>6. PICK a : a = appareil[d]
    OBVIOUS
  <2>7. appareil' = [appareil EXCEPT ![d] = a]
    BY <1>2, <2>6, IciMeme
  <2> QED BY <1>1, <2>3, <2>5, <2>6, <2>7, DetenuesIci
<1>3. CASE /\ appareil' = [appareil EXCEPT ![d].pose =
                             IF RetourArriere(d) THEN "serverRolledBack" ELSE @]
           /\ Finir(d)
  <2>1. PICK b : b = [appareil[d] EXCEPT !.pose = IF RetourArriere(d) THEN "serverRolledBack" ELSE @]
    OBVIOUS
  <2>2. appareil' = [appareil EXCEPT ![d] = b]
    BY <1>3, <2>1 DEF IComptes, TypeOK
  <2>3. b.attente = appareil[d].attente
    BY <2>1, IciMeme DEF EtatsDAppareil
  <2>4. appel' = [appel EXCEPT ![d] = Rien]
    BY <1>3 DEF Finir
  <2> QED BY <1>1, <2>2, <2>3, <2>4, DetenuesIci
<1> QED BY <1>2, <1>3 DEF Deballage

\* A key that is proposed has been shown, or its installation was cut.
LEMMA ProposerAttente ==
  ASSUME IComptes, NEW d \in Appareils, NEW c \in Coffres, NEW j, Proposer(d, c, j)
  PROVE  /\ montrees \subseteq montrees'
         /\ \E a : /\ appareil' = [appareil EXCEPT ![d] = a]
                   /\ a.attente = Rien \/ a.attente.cle \in montrees'
<1>1. PICK k \in 1..ClesMax :
        /\ Installer(d, c, j, [cle |-> k, mdp |-> appel[d].mdp])
        /\ montrees' = IF appareil'[d].serrure # Rien THEN montrees \cup {k} ELSE montrees
  BY DEF Proposer
<1>2. PICK x : x = [cle |-> k, mdp |-> appel[d].mdp]
  OBVIOUS
<1>3. x.cle = k /\ Installer(d, c, j, x)
  BY <1>1, <1>2
<1>4. PICK a : /\ appareil' = [appareil EXCEPT ![d] = a]
               /\ a.attente = Rien \/ (a.attente = x /\ a.serrure # Rien)
  BY <1>3, InstallerAttente
<1>5. appareil'[d] = a
  BY <1>4 DEF IComptes, TypeOK
<1>6. a.attente = Rien \/ a.attente.cle \in montrees'
  BY <1>1, <1>3, <1>4, <1>5
<1> QED BY <1>1, <1>4, <1>6

LEMMA RotationFaiteDetenues ==
  ASSUME IComptes, Detenues, NEW d \in Appareils, RotationFaite(d)
  PROVE  Detenues'
<1>1. /\ appel[d] # Rien /\ appel[d].reponse # Rien /\ appel[d].reponse.code = "ok"
      /\ appel[d].requete.genre = "commit"
  BY DEF RotationFaite, Repondu
<1>2. PICK c \in Coffres : c = appel[d].requete.coffre
  BY <1>1, ReponseEst
<1>3. PICK j : j = appel[d].reponse.jeton
  OBVIOUS
<1>4. /\ compte' = compte /\ tardives' \subseteq EnRoute /\ appel' = [appel EXCEPT ![d] = Rien]
  BY DEF RotationFaite, Finir, EnRoute, serveur
<1>5. /\ montrees \subseteq montrees'
      /\ \E a : /\ appareil' = [appareil EXCEPT ![d] = a]
                /\ a.attente \in {Rien, appareil[d].attente} \/ a.attente.cle \in montrees'
  <2>1. CASE /\ Installer(d, appel[d].requete.coffre, appel[d].reponse.jeton,
                  IF appel[d].geste = "confirmerCle" THEN Rien ELSE appareil[d].attente)
             /\ UNCHANGED montrees
    <3>1. PICK x : /\ x = IF appel[d].geste = "confirmerCle" THEN Rien ELSE appareil[d].attente
                   /\ x \in {Rien, appareil[d].attente}
      OBVIOUS
    <3>2. Installer(d, c, j, x)
      BY <1>2, <1>3, <2>1, <3>1
    <3> QED BY <2>1, <3>1, <3>2, InstallerAttente
  <2>2. CASE Proposer(d, appel[d].requete.coffre, appel[d].reponse.jeton)
    <3>1. Proposer(d, c, j)
      BY <1>2, <1>3, <2>2
    <3> QED BY <3>1, ProposerAttente
  <2> QED BY <2>1, <2>2 DEF RotationFaite
<1> QED BY <1>4, <1>5, DetenuesIci

LEMMA ReinitFaiteDetenues ==
  ASSUME IComptes, Detenues, NEW d \in Appareils, ReinitFaite(d)
  PROVE  Detenues'
<1>1. /\ appel[d] # Rien /\ appel[d].reponse # Rien /\ appel[d].reponse.code = "ok"
      /\ appel[d].requete.genre = "resetComplete"
  BY DEF ReinitFaite, Repondu
<1>2. PICK c \in Coffres : c = appel[d].requete.coffre
  BY <1>1, ReponseEst
<1>3. PICK j : j = appel[d].reponse.jeton
  OBVIOUS
<1>4. /\ compte' = compte /\ tardives' \subseteq EnRoute /\ appel' = [appel EXCEPT ![d] = Rien]
  BY DEF ReinitFaite, Finir, EnRoute, serveur
<1>5. /\ montrees \subseteq montrees'
      /\ \E a : /\ appareil' = [appareil EXCEPT ![d] = a]
                /\ a.attente \in {Rien, appareil[d].attente} \/ a.attente.cle \in montrees'
  <2>1. CASE Proposer(d, appel[d].requete.coffre, appel[d].reponse.jeton)
    <3>1. Proposer(d, c, j)
      BY <1>2, <1>3, <2>1
    <3> QED BY <3>1, ProposerAttente
  <2>2. CASE /\ appareil' = [appareil EXCEPT ![d].pose = "accountReset"]
             /\ UNCHANGED <<montrees, permis, pannes>>
    <3>1. PICK b : b = [appareil[d] EXCEPT !.pose = "accountReset"]
      OBVIOUS
    <3>2. appareil' = [appareil EXCEPT ![d] = b]
      BY <2>2, <3>1 DEF IComptes, TypeOK
    <3>3. b.attente = appareil[d].attente
      BY <3>1, IciMeme DEF EtatsDAppareil
    <3> QED BY <2>2, <3>2, <3>3
  <2> QED BY <2>1, <2>2 DEF ReinitFaite
<1> QED BY <1>4, <1>5, DetenuesIci

LEMMA AutresSuitesDetenues ==
  ASSUME IComptes, Detenues, NEW d \in Appareils,
         ReinitConfirmee(d) \/ ReinitPreparee(d) \/ Echouer(d) \/ Perdre(d)
  PROVE  Detenues'
<1>1. /\ compte' = compte /\ montrees' = montrees /\ tardives' \subseteq EnRoute
  BY DEF ReinitConfirmee, ReinitPreparee, Echouer, Perdre, serveur, EnRoute
<1>2. PICK a : /\ appareil' = [appareil EXCEPT ![d] = a]
               /\ a.attente \in {Rien, appareil[d].attente}
  <2>1. CASE appareil' = appareil
    BY <2>1, IciMeme
  <2>2. CASE appareil' = [appareil EXCEPT ![d] = SessionPerdue(@, appel[d].reponse.code)]
    <3>1. PICK k : k = appel[d].reponse.code
      OBVIOUS
    <3>2. PICK b : b = SessionPerdue(appareil[d], k)
      OBVIOUS
    <3>3. appareil' = [appareil EXCEPT ![d] = b]
      BY <2>2, <3>1, <3>2 DEF IComptes, TypeOK
    <3> QED BY <3>2, <3>3, IciMeme, PerdueAttente
  <2> QED BY <2>1, <2>2 DEF ReinitConfirmee, ReinitPreparee, ApresAccount, Echouer, Perdre
<1>3. PICK z : appel' = [appel EXCEPT ![d] = z] /\ (z = Rien \/ ~Remplace(z.requete))
  <2>1. CASE Finir(d)
    BY <2>1 DEF Finir
  <2>2. CASE ~Finir(d)
    <3>1. PICK x : x = [Requete(d, "resetComplete") EXCEPT
                          !.secret = appel[d].requete.secret,
                          !.coffre = Scelle(Locale(d) + 1, 1, appel[d].mdp, 0)]
      OBVIOUS
    <3>2. PICK w : w = Appel(appel[d].geste, appel[d].mdp, x)
      OBVIOUS
    <3>3. appel' = [appel EXCEPT ![d] = w]
      BY <2>2, <3>1, <3>2 DEF ReinitConfirmee, ReinitPreparee, Echouer, Perdre, IComptes, TypeOK
    <3>4. x.genre = "resetComplete"
      BY <3>1 DEF Requete
    <3>5. ~Remplace(w.requete)
      BY <3>2, <3>4 DEF Appel, Remplace
    <3> QED BY <3>3, <3>5
  <2> QED BY <2>1, <2>2
<1> QED BY <1>1, <1>2, <1>3, DetenuesIci

LEMMA MoteurDetenues ==
  ASSUME IComptes, Detenues,
         \/ \E d \in Appareils : MoteurDemande(d) \/ Absence(d)
         \/ EcheanceArrivee \/ MoteurServi \/ SessionRefusee
  PROVE  Detenues'
<1>1. /\ compte' = compte /\ montrees' = montrees /\ tardives' \subseteq EnRoute
      /\ appel' = appel
  BY DEF MoteurDemande, Absence, EcheanceArrivee, MoteurServi, SessionRefusee, serveur, EnRoute
<1>2. AppelsGardes
  BY <1>1 DEF AppelsGardes
<1>3. ASSUME NEW d \in Appareils
      PROVE  appareil'[d].attente \in {Rien, appareil[d].attente}
  <2>1. CASE appareil' = appareil
    BY <2>1
  <2>2. CASE appareil' = [e \in Appareils |-> [appareil[e] EXCEPT !.attente = Rien]]
    <3>1. PICK b : b = [appareil[d] EXCEPT !.attente = Rien]
      OBVIOUS
    <3>2. appareil'[d] = b
      BY <2>2, <3>1
    <3>3. b.attente = Rien
      BY <3>1, IciMeme DEF EtatsDAppareil
    <3> QED BY <3>2, <3>3
  <2>3. CASE appareil' = [appareil EXCEPT ![moteur.de] =
                            SessionPerdue(@, NonAuthentifie(moteur.jeton))]
    <3>1. PICK k : k = NonAuthentifie(moteur.jeton)
      OBVIOUS
    <3>2. PICK b : b = SessionPerdue(appareil[d], k)
      OBVIOUS
    <3>3. appareil'[d] \in {appareil[d], b}
      BY <2>3, <3>1, <3>2 DEF IComptes, TypeOK
    <3> QED BY <3>2, <3>3, IciMeme, PerdueAttente
  <2> QED BY <2>1, <2>2, <2>3
          DEF MoteurDemande, Absence, EcheanceArrivee, MoteurServi, SessionRefusee
<1>4. AttentesGardees
  BY <1>3 DEF AttentesGardees
<1> QED BY <1>1, <1>2, <1>4, DetenuesPas

LEMMA NextDetenues ==
  ASSUME IComptes, Detenues, [Next]_vars
  PROVE  Detenues'
<1>1. ASSUME NEW d \in Appareils, Gestes(d)
      PROVE  Detenues'
  <2>1. CASE \/ \E m \in Mdps : Connecter(d, m) \/ Reinitialiser(d, "reinitTerminer", m)
             \/ \E m \in Mdps, k \in montrees, g \in {"recuperer", "recupererRemplacer"} :
                  Recuperer(d, k, m, g)
             \/ Reinitialiser(d, "reinitConfirmer", Rien)
    BY <1>1, <2>1, AppelsSansCle
  <2>2. CASE \/ RetirerCle(d) \/ ConfirmerCle(d)
             \/ \E m \in Mdps : ChangerMotDePasse(d, m) \/ OubliIci(d, m)
             \/ \E j \in Jetons : DeconnecterAppareil(d, j)
    BY <2>2, RotationsDetenues
  <2>3. CASE \/ PreparerCle(d) \/ CodeCoffre(d) \/ ReinitDemander(d) \/ ReinitAnnuler(d)
             \/ Deverrouiller(d) \/ Verrouiller(d) \/ Deconnecter(d)
    BY <2>3, CalmeDetenues
  <2> QED BY <1>1, <2>1, <2>2, <2>3 DEF Gestes
<1>2. ASSUME NEW d \in Appareils, Suites(d)
      PROVE  Detenues'
  BY <1>2, ConnexionDetenues, DeballageDetenues, RotationFaiteDetenues, ReinitFaiteDetenues,
     AutresSuitesDetenues DEF Suites
<1>3. CASE Servir
  BY <1>3, ServirDetenues
<1>4. CASE \/ \E d \in Appareils : MoteurDemande(d) \/ Absence(d)
           \/ EcheanceArrivee \/ MoteurServi \/ SessionRefusee
  BY <1>4, MoteurDetenues
<1>5. CASE UNCHANGED vars
  BY <1>5 DEF vars, serveur, Detenues, CleDetenue, EnRoute, Remplace
<1> QED BY <1>1, <1>2, <1>3, <1>4, <1>5 DEF Next

\* The recovery key the account counts as a means of rescue was shown, whatever
\* answers and processes were lost (_proposer_cle, nouvelle_cle_confirmer).
THEOREM RecoveryKeyWasShown == Spec => []CleDetenue
<1>1. Init => Detenues
  <2>1. ASSUME Init PROVE Detenues
    <3>1. /\ compte.cle = 1 /\ montrees = {1} /\ tardives = {}
          /\ \A d \in Appareils : appel[d] = Rien
      BY <2>1 DEF Init
    <3>2. EnRoute = {}
      BY <3>1 DEF EnRoute
    <3>3. \A d \in Appareils : appareil[d].attente = Rien
      BY <2>1 DEF Init, Installe, Inconnu
    <3> QED BY <3>1, <3>2, <3>3 DEF Detenues, CleDetenue
  <2> QED BY <2>1
<1>2. IComptes /\ Detenues /\ [Next]_vars => Detenues'
  BY NextDetenues
<1>3. Detenues => CleDetenue
  BY DEF Detenues
<1> QED BY <1>1, <1>2, <1>3, AccountInductive, PTL DEF Spec

==============================================================================
