----------------------------- MODULE ComptesCoffre -----------------------------
(***************************************************************************)
(* One account: its vault, sessions, codes and reset on the server         *)
(* (diapason_comptes), and the devices that use it (diapason/compte).      *)
(*                                                                         *)
(* The server keeps sealed envelopes it cannot read: what they were sealed *)
(* for (incarnation, version, password, recovery key) must agree with what *)
(* it holds in clear beside them, or nobody opens the account again.       *)
(*                                                                         *)
(* A device serialises its gestures (ServiceCompte._operation); the server *)
(* handles each request in one transaction; between the two, an answer or  *)
(* a request may be lost, a request may arrive after the device gave up,   *)
(* and a process may die in the middle of an installation.  vaultVersion,  *)
(* keyringVersion and keyEpoch move together: one `version' stands for     *)
(* them.  Keys and tokens are drawn at random: one nobody holds.           *)
(***************************************************************************)
EXTENDS Naturals, FiniteSets

CONSTANTS
  Appareils, Mdps, Rien,
  VersionMax, IncarnationMax, \* bounds: rotations, resets
  JetonsMax,  \* bound: tokens and codes alive at once
  ClesMax,    \* bound: recovery keys drawn
  Familles,   \* bound: gestures explored together, how many of them reach the server
  PannesMax   \* bound: lost messages and dead processes

ASSUME AccountBounds ==
  /\ {VersionMax, IncarnationMax, JetonsMax, ClesMax} \subseteq Nat \ {0}
  /\ PannesMax \in Nat
  /\ IsFiniteSet(Appareils) /\ Cardinality(Appareils) \in 1..JetonsMax
  /\ Rien \notin Mdps /\ Rien \notin [incarnation : Nat, epoque : Nat, cle : Nat]

VARIABLES
  \* the server
  compte,    \* the row of the account; `scelle': what its envelopes are sealed for
  sessions, expirees, recuperations, \* tokens; expirees are still rows
  codes,     \* the one living code of each purpose that someone was sent
  echeance,  \* the reset: none, awaited, due
  \* the devices
  appareil, appel, moteur,
  \* the wire, and what the person has seen
  tardives, montrees, permis, gestes, pannes

serveur == <<compte, sessions, expirees, recuperations, codes, echeance>>
vars == <<serveur, appareil, appel, moteur, tardives, montrees, permis, gestes, pannes>>

Coffres == [incarnation : Nat, version : Nat, mdp : Mdps, cle : 0..ClesMax]
Scelle(i, v, m, k) == [incarnation |-> i, version |-> v, mdp |-> m, cle |-> k]

Jetons == 1..JetonsMax
EnRoute == {appel[d].requete : d \in {e \in Appareils : appel[e] # Rien}} \cup tardives

\* A token or a code nobody holds.
EnUsage ==
  sessions \cup recuperations \cup {codes.coffre, codes.reinit}
    \cup {appareil[d].jeton : d \in Appareils}
    \cup (IF moteur = Rien THEN {} ELSE {moteur.jeton})
    \cup {q.jeton : q \in EnRoute}
    \cup {q.secret : q \in EnRoute}
    \cup {appel[d].reponse.jeton :
            d \in {e \in Appareils : appel[e] # Rien /\ appel[e].reponse # Rien}}
Tirable(j) == j \in Jetons \ EnUsage /\ \A k \in Jetons \ EnUsage : j <= k
CleTiree(k) == k \in 1..ClesMax /\ montrees = 1..(k - 1)

(***************************************************************************)
(* The server                                                              *)
(***************************************************************************)

Accord(c, j) == [code |-> "ok", compte |-> c, jeton |-> j]
Refus(c) == [code |-> c, compte |-> Rien, jeton |-> 0]

Repondre(q, r) ==
  IF q \in tardives
  THEN tardives' = tardives \ {q} /\ UNCHANGED appel
  ELSE /\ appel[q.de] # Rien /\ appel[q.de].requete = q /\ appel[q.de].reponse = Rien
       /\ appel' = [appel EXCEPT ![q.de].reponse = r]
       /\ UNCHANGED tardives

Authentifie(j) == j \in sessions \ expirees
NonAuthentifie(j) == IF j \in expirees THEN "sessionExpired" ELSE "sessionRevoked"

MutPreuveTenue(q) ==
  \/ q.preuve = "password"
  \/ q.preuve = "emailCode" /\ q.secret = codes.coffre
  \/ q.preuve = "recovery" /\ q.secret \in recuperations

PreuveTenue(q) ==
  \/ q.preuve = "password" /\ q.mdp = compte.mdp
  \/ q.preuve = "emailCode" /\ q.secret = codes.coffre
  \/ q.preuve = "recovery" /\ q.secret \in recuperations

Conflit(q) ==
  \/ q.base # compte.version
  \/ q.coffre.version <= compte.version
  \/ q.epoque # compte.version + 1
  \/ q.mode = "keep" /\ compte.cle = 0

CommitAccepte(q) ==
  /\ PreuveTenue(q) /\ ~Conflit(q) /\ q.revoquee \in sessions \cup {0}
  /\ compte' = [compte EXCEPT !.version = q.coffre.version, !.mdp = q.coffre.mdp,
                  !.cle = CASE q.mode = "keep" -> @
                            [] q.mode = "replace" -> q.coffre.cle
                            [] q.mode = "remove" -> 0,
                  !.scelle = q.coffre]
  /\ recuperations' = {}
  /\ codes' = [codes EXCEPT !.coffre = 0]
  /\ \E j \in Jetons : /\ Tirable(j)
                       /\ sessions' = {j}
                       /\ expirees' = {}
                       /\ Repondre(q, Accord(compte', j))
  /\ UNCHANGED echeance

VaultCommit(q) ==
  /\ q.genre = "commit"
  /\ IF q.preuve # "recovery" /\ ~Authentifie(q.jeton)
     THEN Repondre(q, Refus(NonAuthentifie(q.jeton))) /\ UNCHANGED serveur
     ELSE \/ CommitAccepte(q)
          \/ /\ ~(PreuveTenue(q) /\ ~Conflit(q) /\ q.revoquee \in sessions \cup {0})
             /\ Repondre(q, Refus("refus")) /\ UNCHANGED serveur

\* login: it drops the expired rows whose thirty days of grace are over.
Login(q) ==
  /\ q.genre = "login"
  /\ IF q.mdp # compte.mdp
     THEN Repondre(q, Refus("refus")) /\ UNCHANGED <<sessions, expirees>>
     ELSE \E j \in Jetons, p \in {{}, expirees} :
            /\ Tirable(j)
            /\ sessions' = (sessions \ p) \cup {j} /\ expirees' = expirees \ p
            /\ Repondre(q, Accord(compte, j))
  /\ UNCHANGED <<compte, recuperations, codes, echeance>>

Account(q) ==
  /\ q.genre = "account"
  /\ Repondre(q, IF Authentifie(q.jeton) THEN Accord(compte, 0)
                 ELSE Refus(NonAuthentifie(q.jeton)))
  /\ UNCHANGED serveur

RecoveryUnwrap(q) ==
  /\ q.genre = "unwrap"
  /\ IF q.cle # compte.cle
     THEN Repondre(q, Refus("refus")) /\ UNCHANGED recuperations
     ELSE \E j \in Jetons : /\ Tirable(j)
                            /\ recuperations' = recuperations \cup {j}
                            /\ Repondre(q, Accord(compte, j))
  /\ UNCHANGED <<compte, sessions, expirees, codes, echeance>>

\* reset/complete opens the next incarnation, whatever the envelopes it
\* receives are sealed for; too early, the code is not consumed.
ResetComplete(q) ==
  /\ q.genre = "resetComplete"
  /\ IF q.secret # codes.reinit \/ echeance # "echue"
     THEN Repondre(q, Refus("refus")) /\ UNCHANGED serveur
     ELSE /\ compte.incarnation < IncarnationMax
          /\ compte' = [incarnation |-> compte.incarnation + 1, version |-> 1,
                        mdp |-> q.coffre.mdp, cle |-> 0, scelle |-> q.coffre]
          /\ recuperations' = {}
          /\ codes' = [coffre |-> 0, reinit |-> 0]
          /\ echeance' = "aucune"
          /\ \E j \in Jetons : /\ Tirable(j)
                               /\ sessions' = {j} /\ expirees' = {}
                               /\ Repondre(q, Accord(compte', j))

Servir ==
  /\ \E q \in EnRoute : VaultCommit(q) \/ Login(q) \/ Account(q)
                          \/ RecoveryUnwrap(q) \/ ResetComplete(q)
  /\ UNCHANGED <<appareil, moteur, montrees, permis, gestes, pannes>>

\* Seven days pass: the reset is due; every code, temporary token, pending
\* key and request of before is dead.
EcheanceArrivee ==
  /\ echeance = "prevue" /\ echeance' = "echue"
  /\ moteur = Rien /\ \A d \in Appareils : appel[d] = Rien
  /\ codes' = [coffre |-> 0, reinit |-> 0]
  /\ recuperations' = {} /\ tardives' = {}
  /\ appareil' = [d \in Appareils |-> [appareil[d] EXCEPT !.attente = Rien]]
  /\ UNCHANGED <<compte, sessions, expirees, appel, moteur, montrees, permis, gestes, pannes>>

(***************************************************************************)
(* A device                                                                *)
(***************************************************************************)

AucunPlancher == [incarnation |-> 0, version |-> 0]
Inconnu == [planchers |-> AucunPlancher, locale |-> 0, enveloppe |-> Rien, jeton |-> 0,
            pose |-> Rien, serrure |-> Rien, attente |-> Rien]

JetonDe(a) == IF a.locale = 0 THEN 0 ELSE a.jeton
Ouvert(d) == appareil[d].serrure # Rien /\ appareil[d].pose = Rien

\* planchers_pour: the floors that judge a vault of incarnation i.
PlancherPour(p, i) == IF i = p.incarnation THEN p.version ELSE 0
Releves(p, c) ==
  [incarnation |-> c.incarnation,
   version |-> IF PlancherPour(p, c.incarnation) > c.version
               THEN PlancherPour(p, c.incarnation) ELSE c.version]

\* The envelope opens under (incarnation, version), which its seal binds.
Ouvre(c, i, v, plancher) == c.incarnation = i /\ c.version = v /\ v >= plancher

Trousseau(c) == [incarnation |-> c.incarnation, epoque |-> c.version, cle |-> c.cle]

MutInstalle(a, c, j, n) ==
  [planchers |-> IF n >= 1 THEN Releves(a.planchers, c) ELSE a.planchers,
   enveloppe |-> IF n >= 3 THEN c ELSE a.enveloppe,
   jeton     |-> IF n >= 2 THEN j ELSE a.jeton,
   locale    |-> IF n = 4 THEN c.incarnation ELSE a.locale,
   pose      |-> IF n = 4 THEN Rien ELSE a.pose,
   serrure   |-> IF n = 4 THEN Trousseau(c) ELSE Rien,
   attente   |-> IF n = 4 THEN a.attente ELSE Rien]

\* What the first n of the four writes of _installer leave, and the lock.
Installe(a, c, j, n) ==
  [planchers |-> IF n >= 1 THEN Releves(a.planchers, c) ELSE a.planchers,
   enveloppe |-> IF n >= 2 THEN c ELSE a.enveloppe,
   jeton     |-> IF n >= 3 THEN j ELSE a.jeton,
   locale    |-> IF n = 4 THEN c.incarnation ELSE a.locale,
   pose      |-> IF n = 4 THEN Rien ELSE a.pose,
   serrure   |-> IF n = 4 THEN Trousseau(c) ELSE Rien,
   attente   |-> IF n = 4 THEN a.attente ELSE Rien]

\* _session_perdue
SessionPerdue(a, code) ==
  IF code = "sessionExpired"
  THEN [a EXCEPT !.pose = "sessionExpired"]
  ELSE [a EXCEPT !.jeton = 0, !.enveloppe = Rien, !.pose = "sessionExpired",
                 !.serrure = Rien, !.attente = Rien]

(* The gestures.  One that reaches the server starts a call, which holds   *)
(* the lock _operation until its answer or its failure.                    *)

SansAppel(d) == appel[d] = Rien
Geste(d, g) ==
  SansAppel(d) /\ g \in permis.gestes /\ gestes < permis.combien /\ gestes' = gestes + 1

Requete(d, genre) ==
  [de |-> d, genre |-> genre, jeton |-> 0, secret |-> 0, mdp |-> Rien, cle |-> 0,
   preuve |-> Rien, base |-> 0, epoque |-> 0, coffre |-> Rien, mode |-> Rien,
   revoquee |-> 0]
Appel(geste, m, q) == [geste |-> geste, mdp |-> m, requete |-> q, reponse |-> Rien]

\* The body _tourner sends: the vault of the next version, sealed for what
\* the lock (or the unwrapped key) and the local envelope say.
Rotation(q, t, v, m, k, mode) ==
  [q EXCEPT !.base = v, !.epoque = t.epoque + 1, !.mode = mode,
            !.coffre = Scelle(t.incarnation, v + 1, m, k)]
Gardee(t) == IF t.cle = 0 THEN "remove" ELSE "keep"

\* _rotation_depuis_ici
RotationIci(d, q, m, k, mode) ==
  Rotation([q EXCEPT !.jeton = JetonDe(appareil[d])],
           appareil[d].serrure, appareil[d].enveloppe.version, m, k, mode)
ParMotDePasse(d, m) == [Requete(d, "commit") EXCEPT !.preuve = "password", !.mdp = m]

\* _juger_mot_de_passe, of the password the envelope was sealed for.
Jugeable(d) ==
  /\ Ouvert(d) /\ appareil[d].enveloppe # Rien
  /\ LET e == appareil[d].enveloppe
     IN e.incarnation = appareil[d].serrure.incarnation
          /\ e.version >= appareil[d].planchers.version

Panne(b) == IF b THEN pannes < PannesMax /\ pannes' = pannes + 1 ELSE UNCHANGED pannes

\* A logout whose answer changes nothing: done, or lost on the way.
Refermer(j) ==
  \E perdue \in BOOLEAN :
    /\ Panne(perdue)
    /\ sessions' = IF perdue THEN sessions ELSE sessions \ ({j} \ expirees)

Connectable(d) == appareil[d].serrure = Rien \/ appareil[d].pose # Rien
Fermee(d) == [appareil EXCEPT ![d].serrure = Rien]

Connecter(d, m) ==
  /\ Geste(d, "connecter") /\ Connectable(d)
  /\ appareil' = Fermee(d)
  /\ appel' = [appel EXCEPT ![d] =
                 Appel("connecter", m, [Requete(d, "login") EXCEPT !.mdp = m])]
  /\ UNCHANGED <<serveur, moteur, tardives, montrees, permis, pannes>>

Recuperer(d, k, m, geste) ==
  /\ Geste(d, geste) /\ Connectable(d) /\ k \in montrees
  /\ appareil' = Fermee(d)
  /\ appel' = [appel EXCEPT ![d] =
                 Appel(geste, m, [Requete(d, "unwrap") EXCEPT !.cle = k])]
  /\ UNCHANGED <<serveur, moteur, tardives, montrees, permis, pannes>>

Tourner(d, geste, m, q) ==
  /\ Geste(d, geste)
  /\ q.coffre.version <= VersionMax
  /\ appel' = [appel EXCEPT ![d] = Appel(geste, m, q)]
  /\ UNCHANGED <<serveur, appareil, moteur, tardives, montrees, permis, pannes>>

ChangerMotDePasse(d, m) ==
  /\ Jugeable(d)
  /\ LET t == appareil[d].serrure
     IN Tourner(d, "changer", m,
          RotationIci(d, ParMotDePasse(d, appareil[d].enveloppe.mdp), m, t.cle, Gardee(t)))

OubliIci(d, m) ==
  /\ Ouvert(d) /\ appareil[d].enveloppe # Rien /\ codes.coffre # 0
  /\ LET t == appareil[d].serrure
     IN Tourner(d, "changer", m,
          RotationIci(d, [Requete(d, "commit") EXCEPT !.preuve = "emailCode",
                                                      !.secret = codes.coffre],
                      m, t.cle, Gardee(t)))

RetirerCle(d) ==
  /\ Jugeable(d)
  /\ LET m == appareil[d].enveloppe.mdp
     IN Tourner(d, "retirer", m, RotationIci(d, ParMotDePasse(d, m), m, 0, "remove"))

DeconnecterAppareil(d, j) ==
  /\ Jugeable(d) /\ j \in sessions /\ j # appareil[d].jeton
  /\ LET m == appareil[d].enveloppe.mdp
         t == appareil[d].serrure
     IN Tourner(d, "deconnecterAppareil", m,
          [RotationIci(d, ParMotDePasse(d, m), m, t.cle, Gardee(t)) EXCEPT !.revoquee = j])

\* nouvelle_cle_confirmer: the key was retyped; the password is the one it
\* was prepared with.
ConfirmerCle(d) ==
  /\ Ouvert(d) /\ appareil[d].enveloppe # Rien /\ appareil[d].attente # Rien
  /\ LET x == appareil[d].attente
     IN Tourner(d, "confirmerCle", x.mdp,
          RotationIci(d, ParMotDePasse(d, x.mdp), x.mdp, x.cle, "replace"))

\* nouvelle_cle_preparer
PreparerCle(d) ==
  /\ SansAppel(d) /\ Jugeable(d) /\ "confirmerCle" \in permis.gestes
  /\ \E k \in 1..ClesMax :
       /\ CleTiree(k)
       /\ appareil' = [appareil EXCEPT ![d].attente =
                         [cle |-> k, mdp |-> appareil[d].enveloppe.mdp]]
       /\ montrees' = montrees \cup {k}
  /\ UNCHANGED <<serveur, appel, moteur, tardives, permis, gestes, pannes>>

CodeCoffre(d) ==
  /\ SansAppel(d) /\ "code" \in permis.gestes /\ Ouvert(d)
  /\ IF Authentifie(JetonDe(appareil[d]))
     THEN /\ \E j \in Jetons : Tirable(j) /\ codes' = [codes EXCEPT !.coffre = j]
          /\ UNCHANGED appareil
     ELSE /\ appareil' = [appareil EXCEPT ![d] =
                            SessionPerdue(@, NonAuthentifie(JetonDe(@)))]
          /\ UNCHANGED codes
  /\ UNCHANGED <<compte, sessions, expirees, recuperations, echeance, appel, moteur,
                 tardives, montrees, permis, gestes, pannes>>

\* _exiger_compte_a_reinitialiser
Connait(d) == appareil[d].locale # 0

\* reset/request: while the reset is awaited the code is recorded, in place
\* of the former, and sent to nobody.
ReinitDemander(d) ==
  /\ SansAppel(d) /\ "reinitDemander" \in permis.gestes /\ Connait(d)
  /\ IF echeance = "prevue" THEN codes' = [codes EXCEPT !.reinit = 0]
     ELSE \E j \in Jetons : Tirable(j) /\ codes' = [codes EXCEPT !.reinit = j]
  /\ UNCHANGED <<compte, sessions, expirees, recuperations, echeance, appareil, appel,
                 moteur, tardives, montrees, permis, gestes, pannes>>

\* Both gestures of a reset first have the incarnation confirmed.
Reinitialiser(d, geste, m) ==
  /\ Geste(d, geste) /\ Connait(d) /\ codes.reinit # 0 /\ JetonDe(appareil[d]) # 0
  /\ appel' = [appel EXCEPT ![d] =
                 Appel(geste, m, [Requete(d, "account") EXCEPT
                                    !.jeton = JetonDe(appareil[d]),
                                    !.secret = codes.reinit])]
  /\ UNCHANGED <<serveur, appareil, moteur, tardives, montrees, permis, pannes>>

ReinitAnnuler(d) ==
  /\ Geste(d, "reinitAnnuler") /\ Connait(d) /\ echeance # "aucune"
  /\ IF Authentifie(JetonDe(appareil[d]))
     THEN echeance' = "aucune" /\ UNCHANGED appareil
     ELSE /\ appareil' = [appareil EXCEPT ![d] =
                            SessionPerdue(@, NonAuthentifie(JetonDe(@)))]
          /\ UNCHANGED echeance
  /\ UNCHANGED <<compte, sessions, expirees, recuperations, codes, appel, moteur,
                 tardives, montrees, permis, pannes>>

Deverrouiller(d) ==
  /\ SansAppel(d) /\ Connait(d)
  /\ appareil[d].serrure = Rien /\ appareil[d].enveloppe # Rien
  /\ LET e == appareil[d].enveloppe
     IN /\ Ouvre(e, appareil[d].locale, e.version, appareil[d].planchers.version)
        /\ appareil' = [appareil EXCEPT ![d].serrure = Trousseau(e)]
  /\ UNCHANGED <<serveur, appel, moteur, tardives, montrees, permis, gestes, pannes>>

\* verrouiller, and the end of the process: the lock and what was pending go.
Verrouiller(d) ==
  /\ SansAppel(d) /\ appareil[d].serrure # Rien /\ "verrouiller" \in permis.gestes
  /\ appareil' = [appareil EXCEPT ![d].serrure = Rien, ![d].attente = Rien]
  /\ UNCHANGED <<serveur, appel, moteur, tardives, montrees, permis, gestes, pannes>>

\* deconnecter: whatever becomes of the request, everything here goes.
Deconnecter(d) ==
  /\ Geste(d, "deconnecter") /\ Connait(d)
  /\ Refermer(JetonDe(appareil[d]))
  /\ appareil' = [appareil EXCEPT ![d] = Inconnu]
  /\ UNCHANGED <<compte, expirees, recuperations, codes, echeance, appel, moteur,
                 tardives, montrees, permis>>

(* What a device does with an answer.                                      *)

Repondu(d, gestesAttendus, codesAttendus) ==
  /\ appel[d] # Rien /\ appel[d].reponse # Rien
  /\ appel[d].geste \in gestesAttendus /\ appel[d].reponse.code \in codesAttendus

Finir(d) == appel' = [appel EXCEPT ![d] = Rien]

\* Of the four writes of _installer all are done, or the process dies after
\* n of them; x is the key then left to confirm.
Installer(d, c, j, x) ==
  \E n \in 1..4 :
    /\ Panne(n < 4)
    /\ appareil' = [appareil EXCEPT ![d] =
                      [Installe(@, c, j, n) EXCEPT !.attente = IF n = 4 THEN x ELSE Rien]]

\* _proposer_cle: a key to retype, shown with the answer of the gesture.
Proposer(d, c, j) ==
  \E k \in 1..ClesMax :
    /\ CleTiree(k)
    /\ Installer(d, c, j, [cle |-> k, mdp |-> appel[d].mdp])
    /\ montrees' = IF appareil'[d].serrure # Rien THEN montrees \cup {k} ELSE montrees

RetourArriere(d) == appel[d].reponse.compte.incarnation < appareil[d].planchers.incarnation
CoffreLisible(d) ==
  LET k == appel[d].reponse.compte
  IN Ouvre(k.scelle, k.incarnation, k.version,
           PlancherPour(appareil[d].planchers, k.incarnation))

\* _ouvrir_connexion, and the session of before closed.
Connexion(d) ==
  LET r == appel[d].reponse
  IN /\ Repondu(d, {"connecter"}, {"ok"})
     /\ IF ~RetourArriere(d) /\ CoffreLisible(d) /\ r.compte.scelle.mdp = appel[d].mdp
        THEN \/ /\ Installer(d, r.compte.scelle, r.jeton, appareil[d].attente)
                /\ (appareil'[d].serrure = Rien \/ JetonDe(appareil[d]) = 0)
                /\ UNCHANGED sessions
             \/ /\ appareil' = [appareil EXCEPT ![d] = Installe(@, r.compte.scelle, r.jeton, 4)]
                /\ JetonDe(appareil[d]) # 0
                /\ Refermer(JetonDe(appareil[d]))
        ELSE /\ appareil' = [appareil EXCEPT ![d].pose =
                               IF RetourArriere(d) THEN "serverRolledBack" ELSE @]
             /\ Refermer(r.jeton)
     /\ Finir(d)
     /\ UNCHANGED <<compte, expirees, recuperations, codes, echeance, moteur, tardives,
                    montrees, permis, gestes>>

MutCleDuCommit(d, k) == Rotation(
  [Requete(d, "commit") EXCEPT !.preuve = "recovery", !.secret = appel[d].reponse.jeton],
  Trousseau(k.scelle), k.version, appel[d].mdp,
  IF appel[d].geste = "recuperer" THEN k.scelle.cle ELSE Cardinality(montrees) + 1,
  IF appel[d].geste = "recuperer" THEN "keep" ELSE "replace")

\* recuperer, once the vault is opened by the key: its one commit keeps the
\* key, even when another one is to be proposed.
CleDuCommit(d, k) == Rotation(
  [Requete(d, "commit") EXCEPT !.preuve = "recovery", !.secret = appel[d].reponse.jeton],
  Trousseau(k.scelle), k.version, appel[d].mdp, k.scelle.cle, "keep")

Deballage(d) ==
  LET k == appel[d].reponse.compte
  IN /\ Repondu(d, {"recuperer", "recupererRemplacer"}, {"ok"})
     /\ appel[d].requete.genre = "unwrap"
     /\ IF ~RetourArriere(d) /\ CoffreLisible(d) /\ k.scelle.cle = appel[d].requete.cle
        THEN /\ k.version < VersionMax
             /\ appel' = [appel EXCEPT ![d] = Appel(@.geste, @.mdp, CleDuCommit(d, k))]
             /\ UNCHANGED appareil
        ELSE /\ appareil' = [appareil EXCEPT ![d].pose =
                               IF RetourArriere(d) THEN "serverRolledBack" ELSE @]
             /\ Finir(d)
     /\ UNCHANGED <<serveur, moteur, tardives, montrees, permis, gestes, pannes>>

\* The end of _tourner.
RotationFaite(d) ==
  LET c == appel[d].requete.coffre
      j == appel[d].reponse.jeton
  IN /\ Repondu(d, {"changer", "retirer", "deconnecterAppareil", "confirmerCle",
                    "recuperer", "recupererRemplacer"}, {"ok"})
     /\ appel[d].requete.genre = "commit"
     /\ \/ /\ appel[d].geste # "recupererRemplacer"
           /\ Installer(d, c, j, IF appel[d].geste = "confirmerCle" THEN Rien
                                 ELSE appareil[d].attente)
           /\ UNCHANGED montrees
        \/ appel[d].geste = "recupererRemplacer" /\ Proposer(d, c, j)
     /\ Finir(d)
     /\ UNCHANGED <<serveur, moteur, tardives, permis, gestes>>

\* _incarnation_confirmee: the server says the incarnation this device
\* holds, or that the session expired, which a reset would have revoked.
Locale(d) ==
  IF appareil[d].locale > appareil[d].planchers.incarnation
  THEN appareil[d].locale ELSE appareil[d].planchers.incarnation
MutIncarnationConfirmee(d) == TRUE

IncarnationConfirmee(d) ==
  \/ appel[d].reponse.code = "ok" /\ appel[d].reponse.compte.incarnation = Locale(d)
  \/ appel[d].reponse.code = "sessionExpired"

ApresAccount(d) ==
  LET r == appel[d].reponse
  IN /\ Repondu(d, {"reinitConfirmer", "reinitTerminer"},
                {"ok", "sessionExpired", "sessionRevoked"})
     /\ appel[d].requete.genre = "account"
     /\ appareil' = IF r.code = "ok" THEN appareil
                    ELSE [appareil EXCEPT ![d] = SessionPerdue(@, r.code)]

\* reset/confirm: the code is consumed; a reset already awaited stays.
ReinitConfirmee(d) ==
  /\ ApresAccount(d) /\ appel[d].geste = "reinitConfirmer"
  /\ IF IncarnationConfirmee(d) /\ appel[d].requete.secret = codes.reinit
     THEN /\ codes' = [codes EXCEPT !.reinit = 0]
          /\ echeance' = IF echeance = "aucune" THEN "prevue" ELSE echeance
     ELSE UNCHANGED <<codes, echeance>>
  /\ Finir(d)
  /\ UNCHANGED <<compte, sessions, expirees, recuperations, moteur, tardives, montrees,
                 permis, gestes, pannes>>

ReinitPreparee(d) ==
  /\ ApresAccount(d) /\ appel[d].geste = "reinitTerminer"
  /\ IF IncarnationConfirmee(d)
     THEN appel' = [appel EXCEPT ![d] = Appel(@.geste, @.mdp,
            [Requete(d, "resetComplete") EXCEPT
               !.secret = appel[d].requete.secret,
               !.coffre = Scelle(Locale(d) + 1, 1, appel[d].mdp, 0)])]
     ELSE Finir(d)
  /\ UNCHANGED <<serveur, moteur, tardives, montrees, permis, gestes, pannes>>

ReinitFaite(d) ==
  LET c == appel[d].requete.coffre
      r == appel[d].reponse
  IN /\ Repondu(d, {"reinitTerminer"}, {"ok"})
     /\ appel[d].requete.genre = "resetComplete"
     /\ IF r.compte.incarnation = c.incarnation THEN Proposer(d, c, r.jeton)
        ELSE /\ appareil' = [appareil EXCEPT ![d].pose = "accountReset"]
             /\ UNCHANGED <<montrees, permis, pannes>>
     /\ Finir(d)
     /\ UNCHANGED <<serveur, moteur, tardives, permis, gestes>>

Echouer(d) ==
  /\ appel[d] # Rien /\ appel[d].requete.genre # "account"
  /\ appel[d].reponse # Rien /\ appel[d].reponse.code # "ok"
  /\ appareil' = IF appel[d].reponse.code = "refus" THEN appareil
                 ELSE [appareil EXCEPT ![d] = SessionPerdue(@, appel[d].reponse.code)]
  /\ Finir(d)
  /\ UNCHANGED <<serveur, moteur, tardives, montrees, permis, gestes, pannes>>

\* The request, or its answer, does not arrive in time.
Perdre(d) ==
  /\ appel[d] # Rien /\ Panne(TRUE) /\ Finir(d)
  /\ \/ UNCHANGED tardives
     \/ appel[d].reponse = Rien /\ tardives' = tardives \cup {appel[d].requete}
  /\ UNCHANGED <<serveur, appareil, moteur, montrees, permis, gestes>>

(* The engine of a device: an authenticated request, outside the lock of   *)
(* the gestures; a refusal is dealt with under it.                         *)

MoteurDemande(d) ==
  /\ Ouvert(d) /\ moteur = Rien /\ "synchroniser" \in permis.gestes
  /\ moteur' = [de |-> d, jeton |-> JetonDe(appareil[d])]
  /\ UNCHANGED <<serveur, appareil, appel, tardives, montrees, permis, gestes, pannes>>

MoteurServi ==
  /\ moteur # Rien /\ Authentifie(moteur.jeton)
  /\ moteur' = Rien
  /\ UNCHANGED <<serveur, appareil, appel, tardives, montrees, permis, gestes, pannes>>

\* session_refusee
SessionRefusee ==
  /\ moteur # Rien /\ ~Authentifie(moteur.jeton) /\ SansAppel(moteur.de)
  /\ appareil' = IF Connait(moteur.de)
                 THEN [appareil EXCEPT ![moteur.de] =
                         SessionPerdue(@, NonAuthentifie(moteur.jeton))]
                 ELSE appareil
  /\ moteur' = Rien
  /\ UNCHANGED <<serveur, appel, tardives, montrees, permis, gestes, pannes>>

\* Ninety days without contact from d.
Absence(d) ==
  /\ "absence" \in permis.gestes /\ Authentifie(JetonDe(appareil[d]))
  /\ moteur = Rien /\ \A e \in Appareils : appel[e] = Rien
  /\ expirees' = expirees \cup {appareil[d].jeton}
  /\ echeance' = IF echeance = "prevue" THEN "echue" ELSE echeance
  /\ codes' = [coffre |-> 0, reinit |-> 0] /\ recuperations' = {} /\ tardives' = {}
  /\ appareil' = [e \in Appareils |-> [appareil[e] EXCEPT !.attente = Rien]]
  /\ UNCHANGED <<compte, sessions, appel, moteur, montrees, permis, gestes, pannes>>

(***************************************************************************)

\* An account just created, its key shown; every device signed in, unlocked.
Init ==
  /\ \E m \in Mdps :
       compte = [incarnation |-> 1, version |-> 1, mdp |-> m, cle |-> 1,
                 scelle |-> Scelle(1, 1, m, 1)]
  /\ expirees = {} /\ recuperations = {} /\ codes = [coffre |-> 0, reinit |-> 0]
  /\ echeance = "aucune"
  /\ \E f \in [Appareils -> 1..Cardinality(Appareils)] :
       /\ \A d, e \in Appareils : f[d] = f[e] => d = e
       /\ sessions = {f[d] : d \in Appareils}
       /\ appareil = [d \in Appareils |-> Installe(Inconnu, compte.scelle, f[d], 4)]
  /\ appel = [d \in Appareils |-> Rien] /\ moteur = Rien
  /\ tardives = {} /\ montrees = {1} /\ permis \in Familles /\ gestes = 0 /\ pannes = 0

Gestes(d) ==
  \/ \E m \in Mdps : \/ Connecter(d, m) \/ ChangerMotDePasse(d, m) \/ OubliIci(d, m)
                     \/ Reinitialiser(d, "reinitTerminer", m)
                     \/ \E k \in montrees, g \in {"recuperer", "recupererRemplacer"} :
                          Recuperer(d, k, m, g)
  \/ RetirerCle(d) \/ PreparerCle(d) \/ ConfirmerCle(d)
  \/ \E j \in Jetons : DeconnecterAppareil(d, j)
  \/ CodeCoffre(d) \/ ReinitDemander(d) \/ ReinitAnnuler(d)
  \/ Reinitialiser(d, "reinitConfirmer", Rien)
  \/ Deverrouiller(d) \/ Verrouiller(d) \/ Deconnecter(d)

Suites(d) ==
  \/ Connexion(d) \/ Deballage(d) \/ RotationFaite(d) \/ ReinitConfirmee(d)
  \/ ReinitPreparee(d) \/ ReinitFaite(d) \/ Echouer(d) \/ Perdre(d)

Next ==
  \/ \E d \in Appareils : Gestes(d) \/ Suites(d) \/ MoteurDemande(d) \/ Absence(d)
  \/ Servir \/ EcheanceArrivee \/ MoteurServi \/ SessionRefusee

Spec == Init /\ [][Next]_vars

(***************************************************************************)
(* Properties                                                              *)
(***************************************************************************)

Comptes == [incarnation : Nat, version : Nat, mdp : Mdps, cle : 0..ClesMax, scelle : Coffres]
Secrets == 0..JetonsMax
Requetes ==
  [de : Appareils, genre : {"login", "commit", "unwrap", "account", "resetComplete"},
   jeton : Secrets, secret : Secrets, mdp : Mdps \cup {Rien}, cle : 0..ClesMax,
   preuve : {Rien, "password", "emailCode", "recovery"}, base : Nat, epoque : Nat,
   coffre : Coffres \cup {Rien}, mode : {Rien, "keep", "replace", "remove"},
   revoquee : Secrets]
Reponses ==
  [code : {"ok"}, compte : Comptes, jeton : Secrets]
    \cup [code : {"refus", "sessionRevoked", "sessionExpired"}, compte : {Rien}, jeton : {0}]
Appels ==
  [geste : {"connecter", "changer", "retirer", "deconnecterAppareil", "confirmerCle",
            "recuperer", "recupererRemplacer", "reinitConfirmer", "reinitTerminer"},
   mdp : Mdps \cup {Rien}, requete : Requetes, reponse : Reponses \cup {Rien}]
EtatsDAppareil ==
  [planchers : [incarnation : Nat, version : Nat], locale : Nat,
   enveloppe : Coffres \cup {Rien}, jeton : Secrets,
   pose : {Rien, "sessionExpired", "serverRolledBack", "accountReset"},
   serrure : [incarnation : Nat, epoque : Nat, cle : 0..ClesMax] \cup {Rien},
   attente : [cle : 1..ClesMax, mdp : Mdps] \cup {Rien}]

\* Types; an expired token is still a row, and no token is at once a session
\* and a proof of recovery.
TypeOK ==
  /\ compte \in Comptes
  /\ sessions \subseteq Jetons /\ expirees \subseteq sessions
  /\ recuperations \subseteq Jetons \ sessions
  /\ codes \in [coffre : Secrets, reinit : Secrets]
  /\ echeance \in {"aucune", "prevue", "echue"}
  /\ appareil \in [Appareils -> EtatsDAppareil]
  /\ appel \in [Appareils -> Appels \cup {Rien}]
  /\ moteur \in [de : Appareils, jeton : Secrets] \cup {Rien}
  /\ tardives \subseteq Requetes /\ montrees \subseteq 1..ClesMax
  /\ permis \in Familles /\ gestes \in Nat /\ pannes \in 0..PannesMax

\* The account is never walled in: what its envelopes are sealed for is what
\* the server holds beside them, so that its password, and its recovery key
\* when it says it has one, open it on any device.
JamaisMuree ==
  compte.scelle = Scelle(compte.incarnation, compte.version, compte.mdp, compte.cle)

\* The recovery key the account counts as a means of rescue has been shown
\* to the person, whatever answer was lost.
CleDetenue == compte.cle # 0 => compte.cle \in montrees

\* A request proved by the password it seals the vault for chooses none (a
\* key replaced or removed, a device signed out): it never changes the
\* password, and never brings a former one back, even when it arrives late.
Servies ==
  (tardives \ tardives')
    \cup {appel[d].requete : d \in {e \in Appareils : appel[e] # Rien /\ appel[e].reponse = Rien
                                      /\ appel'[e] # Rien /\ appel'[e].reponse # Rien}}
MotDePasseVoulu ==
  [][\A q \in Servies : q.genre = "commit" /\ q.preuve = "password" /\ q.mdp = q.coffre.mdp
                          => compte'.mdp = compte.mdp]_vars

\* A session the server still has a row for goes with the current vault: a
\* device that holds its token never works from an older envelope.
SessionAJour ==
  \A d \in Appareils :
    appareil[d].jeton \in sessions /\ appareil[d].enveloppe # Rien
      => appareil[d].enveloppe = compte.scelle

\* A device gives up a session the server accepts only when asked to sign
\* out.  (service.py: a refused session is a change made elsewhere.)
SessionVivanteGardee ==
  [][\A d \in Appareils :
       Authentifie(appareil[d].jeton) /\ appareil'[d].jeton = 0
         => appareil'[d] = Inconnu]_vars

===============================================================================
