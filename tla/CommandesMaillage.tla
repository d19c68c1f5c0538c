--------------------------- MODULE CommandesMaillage ---------------------------
(***************************************************************************)
(* Commands of the device mesh (diapason/mesh): one device sends, one      *)
(* receives.  The sender records a command, delivers it (dispatch_command) *)
(* or lets the target collect it (pull.py), delivers again what is left    *)
(* waiting (flush_pending) and expires the rest.  The receiver checks the  *)
(* envelope, spends its nonce, looks its intent up, records it, runs it    *)
(* and records what came out (receive_command).                            *)
(*                                                                         *)
(* Every route runs on a thread of its own: the direct delivery of a       *)
(* command, the flush of the heartbeat and the handling of each request    *)
(* interleave, between the transactions of mesh.db they open one by one.   *)
(* Signatures hold, and the target is a device both sides trust.           *)
(***************************************************************************)
EXTENDS Naturals, Integers, FiniteSets

CONSTANTS
  Commandes,  \* command ids, each sent once
  Intention,  \* Intention[c]: its idempotency key
  EnLigne,    \* commands of a REQUIRE_ONLINE tool; the others may wait
  Essais,     \* bound: deliveries of one command by the flush still handled
  Rien,
  DureeCourte, DureeLongue, \* DEFAULT_TTL_MS, QUEUED_TTL_MS
  Derive,     \* MAX_CLOCK_SKEW_MS
  Retention,  \* retention_ms of a nonce
  DateMax,    \* bound: last date of the clock
  PannesMax   \* bound: lost messages and dead processes

ASSUME MeshNumbers ==
  /\ {DureeCourte, DureeLongue, Derive, Retention} \subseteq Nat
  /\ {DateMax, PannesMax} \subseteq Nat
  /\ DureeCourte > 0 /\ DureeLongue > 0
  /\ EnLigne \subseteq Commandes /\ DOMAIN Intention = Commandes

VARIABLES
  maintenant, pannes,
  releve,      \* the target collects its commands (transport "pull")
  \* the sender
  expiration,  \* expires_at_ms of the signed command, 0 when not built yet
  file,        \* its mesh_commands: file[c] is a status, Rien without a row
  envoi,       \* where the call of dispatch_command for c is
  reprise,     \* the flush: rows left to deliver, and the one on the wire
  \* the wire and the threads that handle requests
  requetes,    \* requetes[c][v]: the delivery of c by v, or Rien
  \* a target that is dialled
  recues,      \* its mesh_commands
  nonces,      \* when the nonce of c was spent, -1: not or pruned
  effets,      \* how often c was carried out (history)
  \* a target that collects
  enMain,      \* the envelopes it holds
  compteRendu, \* what it has to say of c: a status, or Rien
  accuse       \* record_ack under way for c: it found the row unsettled

emetteur  == <<expiration, file, envoi, reprise>>
cible     == <<recues, nonces, effets>>
telephone == <<enMain, compteRendu, accuse>>
vars == <<maintenant, pannes, releve, emetteur, requetes, cible, telephone>>

Attente == {"PENDING", "QUEUED"}
Vivants == Attente \cup {"ACCEPTED", "RUNNING"}
Statuts == {"PENDING", "QUEUED", "RUNNING", "SUCCESS", "FAILED", "DENIED",
            "EXPIRED", "OFFLINE"}

Voies == {"directe"} \cup Essais

\* A delivery on its way or in the hands of its thread: who waits for it, what
\* will be answered, and (history) if its intention was done when it arrived.
Etapes == {"vol", "verifiee", "inconnue", "lancee", "faite", "repond"}
Requetes ==
  [etape : Etapes, attendue : BOOLEAN, dejaFaite : BOOLEAN,
   verdict : Statuts \cup {"ERREUR", Rien}]
ASSUME RienEstAPart == Rien \notin Statuts \cup {"ERREUR"} \cup Requetes

SansReprise == [etape |-> "repos", reste |-> {}, encours |-> Rien]

\* mark, without a row: the update changes nothing and get raises.
Marquer(table, c, statut) ==
  IF table[c] = Rien THEN table ELSE [table EXCEPT ![c] = statut]

\* expire_stale on one table.
MutPerimer(table) ==
  [c \in Commandes |->
     IF table[c] \in Attente /\ expiration[c] < maintenant
     THEN "EXPIRED" ELSE table[c]]
Perimer(table) ==
  [c \in Commandes |->
     IF table[c] \in Vivants /\ expiration[c] < maintenant
     THEN "EXPIRED" ELSE table[c]]

\* The row of the intention of c, whatever the command that made it.
MemeIntention(c) == {e \in Commandes : Intention[e] = Intention[c]}
Connues(table, c) == {e \in MemeIntention(c) : table[e] # Rien}

-----------------------------------------------------------------------------
(* dispatch_command                                                        *)

DureeDe(c) == IF c \in EnLigne THEN DureeCourte ELSE DureeLongue

\* The user asks; an intention already settled is answered from the queue.
\* The bound lets every command live to its end.
Demander(c) ==
  /\ envoi[c] = "neuve" /\ maintenant + DureeDe(c) + Derive < DateMax
  /\ IF \E e \in Connues(file, c) : file[e] \notin Attente
     THEN /\ envoi' = [envoi EXCEPT ![c] = "finie"]
          /\ UNCHANGED expiration
     ELSE /\ envoi' = [envoi EXCEPT ![c] = "signee"]
          /\ expiration' = [expiration EXCEPT ![c] =
               maintenant + DureeDe(c)]
  /\ UNCHANGED <<maintenant, pannes, releve, file, reprise, requetes, cible,
                 telephone>>

\* enqueue keeps the row an intention already has.
Inscrire(c) ==
  /\ envoi[c] = "signee"
  /\ file' = IF Connues(file, c) = {} THEN [file EXCEPT ![c] = "PENDING"]
             ELSE file
  /\ envoi' = [envoi EXCEPT ![c] = IF releve THEN "collecte" ELSE "inscrite"]
  /\ UNCHANGED <<maintenant, pannes, releve, expiration, reprise, requetes,
                 cible, telephone>>

\* _await_collection.
LaisserCollecter(c) ==
  /\ envoi[c] = "collecte"
  /\ file' = Marquer(file, c, "QUEUED")
  /\ envoi' = [envoi EXCEPT ![c] = "finie"]
  /\ UNCHANGED <<maintenant, pannes, releve, expiration, reprise, requetes,
                 cible, telephone>>

\* _apply_offline_policy.
Politique(c) == Marquer(file, c, IF c \in EnLigne THEN "OFFLINE" ELSE "QUEUED")

\* Presence is read from the last heartbeat: it may say anything of a device.
Absent(c) ==
  /\ envoi[c] = "inscrite"
  /\ file' = Politique(c)
  /\ envoi' = [envoi EXCEPT ![c] = "finie"]
  /\ UNCHANGED <<maintenant, pannes, releve, expiration, reprise, requetes,
                 cible, telephone>>

Envol == [etape |-> "vol", attendue |-> TRUE, verdict |-> Rien,
          dejaFaite |-> FALSE]

Livrer(c) ==
  /\ envoi[c] = "inscrite"
  /\ envoi' = [envoi EXCEPT ![c] = "attend"]
  /\ requetes' = [requetes EXCEPT ![c]["directe"] = Envol]
  /\ UNCHANGED <<maintenant, pannes, releve, expiration, file, reprise, cible,
                 telephone>>

\* The answer of the receiver: its verdict, or an error of the server (5xx),
\* which may be tried again.
Conclure(c) ==
  LET r == requetes[c]["directe"]
  IN  /\ envoi[c] = "attend" /\ r # Rien /\ r.etape = "repond"
      /\ file' = IF r.verdict = "ERREUR" THEN Politique(c)
                 ELSE Marquer(file, c, r.verdict)
      /\ envoi' = [envoi EXCEPT ![c] = "finie"]
      /\ requetes' = [requetes EXCEPT ![c]["directe"] = Rien]
      /\ UNCHANGED <<maintenant, pannes, releve, expiration, reprise, cible,
                     telephone>>

SansReponse(c, v) == requetes[c][v] # Rien => ~requetes[c][v].attendue

\* TransportError: the request, or its answer, was lost.
ConclureSansReponse(c) ==
  /\ envoi[c] = "attend"
  /\ SansReponse(c, "directe")
  /\ file' = Politique(c)
  /\ envoi' = [envoi EXCEPT ![c] = "finie"]
  /\ UNCHANGED <<maintenant, pannes, releve, expiration, reprise, requetes,
                 cible, telephone>>

-----------------------------------------------------------------------------
(* flush_pending, every heartbeat                                          *)

\* A flush that finds nobody to reach, or the history of commands: both only
\* expire what is late.
Expirer ==
  /\ file' = Perimer(file) /\ file' # file
  /\ UNCHANGED <<maintenant, pannes, releve, expiration, envoi, reprise,
                 requetes, cible, telephone>>

\* expire_stale, then pending_for; only a device that is dialled is drained.
Reprendre ==
  LET reste == {c \in Commandes : /\ file[c] \in Attente
                                  /\ expiration[c] >= maintenant}
  IN  /\ ~releve /\ reprise.etape = "repos" /\ reste # {}
      /\ file' = Perimer(file)
      /\ reprise' = [etape |-> "prend", reste |-> reste, encours |-> Rien]
      /\ UNCHANGED <<maintenant, pannes, releve, expiration, envoi, requetes,
                     cible, telephone>>

\* The rows left are those read at the start, whatever became of them since.
Relivrer(c) ==
  /\ reprise.etape = "prend" /\ c \in reprise.reste
  /\ \E v \in Essais :
       /\ requetes[c][v] = Rien
       /\ requetes' = [requetes EXCEPT ![c][v] = Envol]
       /\ reprise' = [etape |-> "attend", encours |-> <<c, v>>,
                      reste |-> reprise.reste \ {c}]
  /\ UNCHANGED <<maintenant, pannes, releve, expiration, file, envoi, cible,
                 telephone>>

Reposer(reste) ==
  IF reste = {} THEN SansReprise
  ELSE [etape |-> "prend", reste |-> reste, encours |-> Rien]

\* A verdict goes to the row and the next one follows; an error or no answer
\* ends this tick, and the row waits for the next.
RepriseConclue(c, v) ==
  LET r == requetes[c][v]
  IN  /\ reprise.etape = "attend" /\ reprise.encours = <<c, v>>
      /\ r # Rien /\ r.etape = "repond"
      /\ IF r.verdict = "ERREUR"
         THEN reprise' = SansReprise /\ UNCHANGED file
         ELSE /\ reprise' = Reposer(reprise.reste)
              /\ file' = Marquer(file, c, r.verdict)
      /\ requetes' = [requetes EXCEPT ![c][v] = Rien]
      /\ UNCHANGED <<maintenant, pannes, releve, expiration, envoi, cible,
                     telephone>>

RepriseSansReponse(c, v) ==
  /\ reprise.etape = "attend" /\ reprise.encours = <<c, v>>
  /\ SansReponse(c, v)
  /\ reprise' = SansReprise
  /\ UNCHANGED <<maintenant, pannes, releve, expiration, file, envoi, requetes,
                 cible, telephone>>

-----------------------------------------------------------------------------
(* receive_command, on a thread per request                                *)

Avancee(c, v, r) == requetes' = [requetes EXCEPT ![c][v] = r]

EnEtape(c, v, etapes) ==
  requetes[c][v] # Rien /\ requetes[c][v].etape \in etapes

\* Without anybody to read it, an answer is gone.
Reponse(r, verdict) ==
  IF r.attendue THEN [r EXCEPT !.etape = "repond", !.verdict = verdict]
  ELSE Rien

\* spend forgets the old nonces before it looks.
Gardees ==
  [c \in Commandes |->
     IF nonces[c] + Retention < maintenant THEN -1 ELSE nonces[c]]

DejaFaite(c) == \E e \in MemeIntention(c) : effets[e] > 0

\* The mutant looks the nonce up without recording it.
MutDepensee(c, gardees) == gardees
Depensee(c, gardees) == [gardees EXCEPT ![c] = maintenant]

\* verify_command: the deadline, then the nonce, spent by the insertion itself.
Verifier(c, v) ==
  LET r == [requetes[c][v] EXCEPT !.dejaFaite = DejaFaite(c)]
  IN  /\ EnEtape(c, v, {"vol"})
      /\ IF expiration[c] + Derive < maintenant
         THEN Avancee(c, v, Reponse(r, "EXPIRED")) /\ UNCHANGED nonces
         ELSE IF Gardees[c] # -1
         THEN Avancee(c, v, Reponse(r, "DENIED")) /\ nonces' = Gardees
         ELSE /\ Avancee(c, v, [r EXCEPT !.etape = "verifiee"])
              /\ nonces' = Depensee(c, Gardees)
      /\ UNCHANGED <<maintenant, pannes, releve, emetteur, recues, effets,
                     telephone>>

\* find_by_idempotency, in a transaction of its own.
MutReponduePar(c) == {e \in {c} : recues[e] \notin Attente \cup {Rien}}
ReponduePar(c) ==
  {e \in MemeIntention(c) : recues[e] \notin Attente \cup {Rien}}

Chercher(c, v) ==
  LET r == requetes[c][v]
  IN  /\ EnEtape(c, v, {"verifiee"})
      /\ \/ \E e \in ReponduePar(c) : Avancee(c, v, Reponse(r, recues[e]))
         \/ /\ ReponduePar(c) = {}
            /\ Avancee(c, v, [r EXCEPT !.etape = "inconnue"])
      /\ UNCHANGED <<maintenant, pannes, releve, emetteur, cible, telephone>>

\* What is received starts at once; the default of enqueue is to wait.
MutStatutRecu == "PENDING"
StatutRecu == "RUNNING"

\* enqueue: the caller does not learn whether the row is its own.
Enregistrer(c, v) ==
  LET r == requetes[c][v]
  IN  /\ EnEtape(c, v, {"inconnue"})
      /\ Avancee(c, v, [r EXCEPT !.etape = "lancee"])
      /\ recues' = IF Connues(recues, c) = {}
                   THEN [recues EXCEPT ![c] = StatutRecu] ELSE recues
      /\ UNCHANGED <<maintenant, pannes, releve, emetteur, nonces, effets,
                     telephone>>

\* What is written of an executor's answer: its "ok" decides, and is required.
MutVerdict(ok) == "SUCCESS"
Verdict(ok) == IF ok THEN "SUCCESS" ELSE "FAILED"

\* The executor, and what it says of it; a failure leaves no effect.
Executer(c, v) ==
  LET r == requetes[c][v]
  IN  /\ EnEtape(c, v, {"lancee"})
      /\ \E ok \in BOOLEAN :
           /\ effets' = IF ok THEN [effets EXCEPT ![c] = @ + 1] ELSE effets
           /\ Avancee(c, v, [r EXCEPT !.etape = "faite",
                                    !.verdict = Verdict(ok)])
      /\ UNCHANGED <<maintenant, pannes, releve, emetteur, recues, nonces,
                     telephone>>

\* Without a row of its own, mark raises: the sender gets a 500.
NoterVerdict(c, v) ==
  LET r == requetes[c][v]
  IN  /\ EnEtape(c, v, {"faite"})
      /\ recues' = Marquer(recues, c, r.verdict)
      /\ Avancee(c, v,
           Reponse(r, IF recues[c] = Rien THEN "ERREUR" ELSE r.verdict))
      /\ UNCHANGED <<maintenant, pannes, releve, emetteur, nonces, effets,
                     telephone>>

\* The target's own heartbeat expires its rows too.
ExpirerCible ==
  /\ recues' = Perimer(recues) /\ recues' # recues
  /\ UNCHANGED <<maintenant, pannes, releve, emetteur, requetes, nonces, effets,
                 telephone>>

-----------------------------------------------------------------------------
(* A target that collects: pull.py, and the device itself                  *)

\* collect_for_device hands over every waiting envelope; the answer may be
\* lost, in which case nothing has changed.
Relever ==
  LET remises == {c \in Commandes : /\ file[c] \in Attente
                                    /\ expiration[c] >= maintenant}
  IN  /\ releve /\ ~(remises \subseteq enMain)
      /\ enMain' = enMain \cup remises
      /\ UNCHANGED <<maintenant, pannes, releve, emetteur, requetes, cible,
                     compteRendu, accuse>>

\* The device is not part of this repository: it does what it holds, once.
Accomplir(c) ==
  /\ c \in enMain /\ compteRendu[c] = Rien
  /\ \/ /\ effets' = [effets EXCEPT ![c] = @ + 1]
        /\ compteRendu' = [compteRendu EXCEPT ![c] = "SUCCESS"]
     \/ /\ UNCHANGED effets
        /\ compteRendu' = [compteRendu EXCEPT ![c] = "FAILED"]
  /\ UNCHANGED <<maintenant, pannes, releve, emetteur, requetes, recues, nonces,
                 enMain, accuse>>

\* record_ack reads the row, then marks it: two transactions.  A settled row
\* is left alone; the device reports again until it is told.
Accuser(c) ==
  /\ compteRendu[c] # Rien /\ ~accuse[c]
  /\ file[c] \notin {Rien, "SUCCESS", "FAILED", "EXPIRED", "DENIED"}
  /\ accuse' = [accuse EXCEPT ![c] = TRUE]
  /\ UNCHANGED <<maintenant, pannes, releve, emetteur, requetes, cible, enMain,
                 compteRendu>>

NoterAccuse(c) ==
  /\ accuse[c]
  /\ file' = Marquer(file, c, compteRendu[c])
  /\ accuse' = [accuse EXCEPT ![c] = FALSE]
  /\ UNCHANGED <<maintenant, pannes, releve, expiration, envoi, reprise,
                 requetes, cible, enMain, compteRendu>>

-----------------------------------------------------------------------------
(* Time, losses and deaths                                                 *)

\* The handling of a request takes less than the retention of a nonce.
Tic ==
  /\ maintenant < DateMax
  /\ \A c \in Commandes, v \in Voies :
       EnEtape(c, v, {"verifiee", "inconnue"})
         => nonces[c] + Retention > maintenant
  /\ maintenant' = maintenant + 1
  /\ UNCHANGED <<pannes, releve, emetteur, requetes, cible, telephone>>

\* A request that never arrives, or nobody waits for any more.
Perdre(c, v) ==
  LET r == requetes[c][v]
  IN  /\ pannes < PannesMax /\ r # Rien /\ r.attendue
      /\ pannes' = pannes + 1
      /\ \/ r.etape \in {"vol", "repond"} /\ Avancee(c, v, Rien)
         \/ r.etape # "repond" /\ Avancee(c, v, [r EXCEPT !.attendue = FALSE])
      /\ UNCHANGED <<maintenant, releve, emetteur, cible, telephone>>

MourirEmetteur ==
  /\ pannes < PannesMax /\ pannes' = pannes + 1
  /\ envoi' = [c \in Commandes |->
                 IF envoi[c] = "neuve" THEN "neuve" ELSE "finie"]
  /\ reprise' = SansReprise
  /\ accuse' = [c \in Commandes |-> FALSE]
  /\ requetes' = [c \in Commandes |-> [v \in Voies |->
       LET r == requetes[c][v] IN
       IF r = Rien \/ r.etape = "repond" THEN Rien
       ELSE [r EXCEPT !.attendue = FALSE]]]
  /\ UNCHANGED <<maintenant, releve, expiration, file, cible, enMain,
                 compteRendu>>

MourirCible ==
  /\ pannes < PannesMax /\ pannes' = pannes + 1 /\ ~releve
  /\ requetes' = [c \in Commandes |-> [v \in Voies |->
       LET r == requetes[c][v] IN
       IF r # Rien /\ r.etape \in {"vol", "repond"} THEN r ELSE Rien]]
  /\ UNCHANGED <<maintenant, releve, emetteur, cible, telephone>>

-----------------------------------------------------------------------------
Init ==
  /\ maintenant = 0 /\ pannes = 0 /\ releve \in BOOLEAN
  /\ expiration = [c \in Commandes |-> 0]
  /\ file = [c \in Commandes |-> Rien]
  /\ envoi = [c \in Commandes |-> "neuve"]
  /\ reprise = SansReprise
  /\ requetes = [c \in Commandes |-> [v \in Voies |-> Rien]]
  /\ recues = [c \in Commandes |-> Rien]
  /\ nonces = [c \in Commandes |-> -1]
  /\ effets = [c \in Commandes |-> 0]
  /\ enMain = {}
  /\ compteRendu = [c \in Commandes |-> Rien]
  /\ accuse = [c \in Commandes |-> FALSE]

Envoyer(c) ==
  \/ Demander(c) \/ Inscrire(c) \/ LaisserCollecter(c) \/ Absent(c)
  \/ Livrer(c) \/ Conclure(c) \/ ConclureSansReponse(c)

Battre ==
  \/ Expirer \/ Reprendre
  \/ \E c \in Commandes :
       \/ Relivrer(c)
       \/ \E v \in Essais : RepriseConclue(c, v) \/ RepriseSansReponse(c, v)

Recevoir(c, v) ==
  \/ Verifier(c, v) \/ Chercher(c, v) \/ Enregistrer(c, v)
  \/ Executer(c, v) \/ NoterVerdict(c, v)

Collecter ==
  \/ Relever
  \/ \E c \in Commandes : Accomplir(c) \/ Accuser(c) \/ NoterAccuse(c)

Pannes ==
  \/ \E c \in Commandes, v \in Voies : Perdre(c, v)
  \/ MourirEmetteur \/ MourirCible

Next ==
  \/ \E c \in Commandes : Envoyer(c)
  \/ Battre \/ ExpirerCible \/ Collecter \/ Tic \/ Pannes
  \/ \E c \in Commandes, v \in Voies : Recevoir(c, v)

Spec == Init /\ [][Next]_vars

\* Time passes, the heartbeat of each machine comes round, and a request that
\* arrived is handled by its thread; nobody has to ask, nothing has to arrive.
FairSpec ==
  /\ Spec
  /\ WF_vars(Tic) /\ WF_vars(Expirer) /\ WF_vars(ExpirerCible)
  /\ \A c \in Commandes, v \in Voies : WF_vars(Recevoir(c, v))

-----------------------------------------------------------------------------
\* Types.  Nothing waits on the side that receives: its rows start running.
TypeOK ==
  /\ maintenant \in 0..DateMax /\ pannes \in 0..PannesMax /\ releve \in BOOLEAN
  /\ expiration \in [Commandes -> Nat]
  /\ file \in [Commandes -> Statuts \cup {Rien}]
  /\ envoi \in [Commandes -> {"neuve", "signee", "collecte", "inscrite",
                             "attend", "finie"}]
  /\ reprise \in [etape : {"repos", "prend", "attend"},
                  reste : SUBSET Commandes,
                  encours : (Commandes \X Essais) \cup {Rien}]
  /\ requetes \in [Commandes -> [Voies -> Requetes \cup {Rien}]]
  /\ recues \in [Commandes -> (Statuts \ Attente) \cup {Rien}]
  /\ nonces \in [Commandes -> 0..DateMax \cup {-1}]
  /\ effets \in [Commandes -> Nat]
  /\ enMain \subseteq Commandes
  /\ compteRendu \in [Commandes -> {"SUCCESS", "FAILED", Rien}]
  /\ accuse \in [Commandes -> BOOLEAN]

\* "An offline device is never reported as having executed anything": the
\* sender says SUCCESS only of an intention the target carried out, whatever
\* was lost, redelivered, or answered from the record of another command.
JamaisFaux ==
  \A c \in Commandes : file[c] = "SUCCESS" => DejaFaite(c)

\* "Replaying a delivery must never produce two effects": a dialled target
\* carries a command out once, and does not start one whose intention was
\* carried out when it arrived; direct delivery, flush, a nonce forgotten after
\* its retention and a crash between two transactions notwithstanding.
UneSeuleFois ==
  \A c \in Commandes :
    /\ ~releve => effets[c] <= 1
    /\ \A v \in Voies :
         EnEtape(c, v, {"inconnue", "lancee"}) => ~requetes[c][v].dejaFaite

\* "A redelivered command replays its recorded result": once the target has
\* noted what came of a command, no delivery changes it.
VerdictTenu ==
  [][\A c \in Commandes :
       recues[c] \in {"SUCCESS", "FAILED"} => recues'[c] = recues[c]]_vars

\* "Without this a queue accumulates commands the user believes are still
\* coming": on neither machine does a row stay waiting or running for ever, a
\* dead process, a lost answer or a row put back to waiting notwithstanding.
ToutSeRegle ==
  \A c \in Commandes :
    /\ (file[c] \in Vivants) ~> (file[c] \notin Vivants)
    /\ (recues[c] = "RUNNING") ~> (recues[c] # "RUNNING")

\* "Each terminal status carries a French sentence that is true": OFFLINE says
\* the action "n'a pas ete effectuee".
AbsenceVraie ==
  \A c \in Commandes : file[c] = "OFFLINE" => effets[c] = 0

\* "The same intent, already sent, returns what we know rather than doing it
\* twice."
UnSeulEffet ==
  \A c, e \in Commandes :
    c # e /\ Intention[c] = Intention[e] => effets[c] + effets[e] <= 1

\* "Entries are pruned past the maximum command lifetime": a nonce is known for
\* as long as its command would be accepted.
NonceGarde ==
  \A c \in Commandes :
    effets[c] > 0 /\ ~releve /\ expiration[c] + Derive >= maintenant
      => nonces[c] # -1
=============================================================================
