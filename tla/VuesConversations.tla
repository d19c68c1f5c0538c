-------------------------- MODULE VuesConversations --------------------------
(***************************************************************************)
(* The views of one machine and their phone (frontend/src/lib/convSync.ts  *)
(* and the mutations of store.ts) over the local store.  A view keeps its  *)
(* conversations in its localStorage, pulls the store's writes after its   *)
(* cursor, pushes what its map says the store does not know, and queues    *)
(* its deletions.                                                          *)
(*                                                                         *)
(* The engine of a view is single-threaded but for its awaits: one pull    *)
(* and one push may wait for their answers at the same time, while the     *)
(* user writes and deletes, an answer of the assistant flows in, or the    *)
(* page is reloaded.  Each await is a step boundary here.  A push asked    *)
(* for while one runs is repeated right after it, so the timers and events *)
(* that trigger pushes and pulls come down to the two being allowed at any *)
(* time.  An empty conversation stays local until its first message and is *)
(* created with it here.                                                   *)
(***************************************************************************)
EXTENDS ConversationsStore

CONSTANTS
  Vues,      \* the views
  Avance,    \* Avance[v]: how far the clock of v's machine is ahead
  Refusables,\* the conversations the store's route refuses for good (4xx)
  PannesMax  \* bound: lost requests and reloads

VARIABLES
  locale,     \* locale[v][i]: the copy v holds, or Rien
  supprimees, \* EtatSync.suppressions
  carte,      \* EtatSync.carte (-1: no entry); EtatSync.curseur is curseur
  quarantaine,\* the conversations refused in this session
  enFlux,     \* the conversation an answer flows into, or Rien
  tirage,     \* the answer to the pull in flight, or Rien
  poussee,    \* the push under way, or Rien
  errantes,   \* requests their view gave up, not yet handled by the store
  restantes,  \* bound: the messages nobody wrote yet
  condamnees, \* the conversations deleted in v so far (history)
  pannes      \* bound: lost requests and reloads so far

vue == <<locale, supprimees, carte, quarantaine, enFlux>>
horsMagasin == <<maintenant, compte, crochet, purge, curseur, su, reponse>>
varsVues == <<lignes, posees, compteur, maintenant, compte, crochet, purge,
              curseur, su, reponse, plusHaute, plusMorte, poseeLe, locale,
              supprimees, carte, quarantaine, enFlux, tirage, poussee,
              errantes, restantes, condamnees, pannes>>

ASSUME ViewsAreReaders ==
  Lecteurs = Vues /\ Avance \in [Vues -> Nat] /\ PannesMax \in Nat
ASSUME RienIsNoRow ==
  Rien \notin [copie : Conversations \cup {Rien}, dateCopie : Nat,
               deletedAt : Nat \cup {Rien}, seq : Nat]

-----------------------------------------------------------------------------
(* The user                                                                *)

Message(k) == [longueur |-> 1, champs |-> 1, texte |-> 0, reste |-> 0]

\* dateEcriture: a mutation is dated above the copy it changes.
DateEcriture(v, precedente) == MaxDe(maintenant + Avance[v], precedente + 1)

AvecMessage(v, c, k) ==
  [c EXCEPT !.messages[k] = Message(k),
            !.updatedAt = DateEcriture(v, c.updatedAt)]

Premiere(v, k) ==
  [title |-> 0, createdAt |-> 0, updatedAt |-> maintenant + Avance[v],
   model |-> 0, pinned |-> FALSE,
   messages |-> [x \in Cles |-> IF x = k THEN Message(k) ELSE Rien]]

\* The first message of a conversation nobody has: identifiers are drawn anew.
Creer(v, i, k) ==
  /\ lignes[i] = Rien
  /\ \A w \in Vues : locale[w][i] = Rien /\ i \notin supprimees[w]
                     /\ (poussee[w] # Rien => poussee[w].aEnvoyer[i] = Rien)
  /\ k \in restantes /\ restantes' = restantes \ {k}
  /\ locale' = [locale EXCEPT ![v][i] = Premiere(v, k)]
  /\ UNCHANGED <<magasin, horsMagasin, supprimees, carte, quarantaine, enFlux,
                 tirage, poussee, errantes, condamnees, pannes>>

\* addMessage, updateLastAssistant.
EcrireMessage(v, i, k) ==
  /\ locale[v][i] # Rien
  /\ k \in restantes /\ restantes' = restantes \ {k}
  /\ locale' = [locale EXCEPT ![v][i] = AvecMessage(v, @, k)]
  /\ UNCHANGED <<magasin, horsMagasin, supprimees, carte, quarantaine, enFlux,
                 tirage, poussee, errantes, condamnees, pannes>>

\* deleteConversation and its event, handled in one go: the copy goes, the
\* identifier is queued (avecSuppressions).
Supprimer(v, i) ==
  /\ locale[v][i] # Rien
  /\ locale'     = [locale EXCEPT ![v][i] = Rien]
  /\ supprimees' = [supprimees EXCEPT ![v] = @ \cup {i}]
  /\ carte'      = [carte EXCEPT ![v][i] = -1]
  /\ condamnees' = [condamnees EXCEPT ![v] = @ \cup {i}]
  /\ UNCHANGED <<magasin, horsMagasin, quarantaine, enFlux, tirage, poussee,
                 errantes, restantes, pannes>>

DebutFlux(v, i) ==
  /\ enFlux[v] = Rien /\ locale[v][i] # Rien
  /\ enFlux' = [enFlux EXCEPT ![v] = i]
  /\ UNCHANGED <<magasin, horsMagasin, locale, supprimees, carte, quarantaine,
                 tirage, poussee, errantes, restantes, condamnees, pannes>>

FinFlux(v) ==
  /\ enFlux[v] # Rien
  /\ enFlux' = [enFlux EXCEPT ![v] = Rien]
  /\ UNCHANGED <<magasin, horsMagasin, locale, supprimees, carte, quarantaine,
                 tirage, poussee, errantes, restantes, condamnees, pannes>>

-----------------------------------------------------------------------------
(* What a view makes of a row of the store (appliquerDistant, fusionner)   *)

Exclue(v, i) == enFlux[v] = i

\* A condemned conversation does not come back, the one that receives a flow
\* is left alone, the others are joined; a tombstone kills what is not newer.
MutAppliquee(v, i, l) ==
  IF l = Rien \/ Exclue(v, i) THEN locale[v][i]
  ELSE IF EstVivante(l) THEN Adopter(locale[v][i], l.copie)
  ELSE IF locale[v][i] # Rien /\ l.deletedAt >= locale[v][i].updatedAt
       THEN Rien ELSE locale[v][i]
Appliquee(v, i, l) ==
  IF l = Rien \/ Exclue(v, i) THEN locale[v][i]
  ELSE IF EstVivante(l)
       THEN IF i \in supprimees[v] THEN locale[v][i]
            ELSE Adopter(locale[v][i], l.copie)
  ELSE IF locale[v][i] # Rien /\ l.deletedAt >= locale[v][i].updatedAt
       THEN Rien ELSE locale[v][i]

\* The entry of the map after a row was taken in.
Connue(l) == IF EstVivante(l) THEN l.copie.updatedAt ELSE -1

-----------------------------------------------------------------------------
(* The pull                                                                *)

\* The request reaches the store: list(since).
Tirer(v) ==
  /\ tirage[v] = Rien
  /\ tirage' = [tirage EXCEPT ![v] =
       [lignes |-> [i \in Ids |->
          IF lignes[i] # Rien /\ lignes[i].seq > curseur[v] THEN lignes[i]
                                                            ELSE Rien],
        seq |-> compteur]]
  /\ UNCHANGED <<magasin, horsMagasin, vue, poussee, errantes, restantes, condamnees, pannes>>

\* appliquerDistant leaves out the row that receives a flow, unless it is a
\* live row already condemned.
ExcluesDuTirage(v, ls) ==
  {i \in Ids : /\ ls[i] # Rien /\ Exclue(v, i)
               /\ ~(EstVivante(ls[i]) /\ i \in supprimees[v])}

\* The cursor moves only when everything was applied.
MutCurseurApres(v, t) == MaxDe(curseur[v], t.seq)
CurseurApres(v, t) ==
  IF ExcluesDuTirage(v, t.lignes) = {} THEN MaxDe(curseur[v], t.seq)
                                       ELSE curseur[v]

RecevoirTirage(v) ==
  /\ tirage[v] # Rien
  /\ LET t == tirage[v] IN
       /\ locale' = [locale EXCEPT ![v] =
            [i \in Ids |-> Appliquee(v, i, t.lignes[i])]]
       /\ carte' = [carte EXCEPT ![v] =
            [i \in Ids |->
               IF t.lignes[i] = Rien \/ i \in ExcluesDuTirage(v, t.lignes)
               THEN @[i] ELSE Connue(t.lignes[i])]]
       /\ curseur' = [curseur EXCEPT ![v] = CurseurApres(v, t)]
  /\ tirage' = [tirage EXCEPT ![v] = Rien]
  /\ UNCHANGED <<magasin, maintenant, compte, crochet, purge, su, reponse,
                 supprimees, quarantaine, enFlux, poussee, errantes, restantes, condamnees, pannes>>

PerdreTirage(v) ==
  /\ tirage[v] # Rien /\ pannes < PannesMax
  /\ pannes' = pannes + 1
  /\ tirage' = [tirage EXCEPT ![v] = Rien]
  /\ UNCHANGED <<magasin, horsMagasin, vue, poussee, errantes, restantes, condamnees>>

-----------------------------------------------------------------------------
(* The push: the queued deletions, then the conversations the map is late  *)
(* on, one request at a time                                               *)

Aucune == [i \in Ids |-> Rien]

\* choisirAPousser.
EnRetard(v, i) ==
  /\ locale[v][i] # Rien /\ i \notin supprimees[v] /\ i \notin quarantaine[v]
  /\ locale[v][i].updatedAt > carte[v][i]

AFaire(v) ==
  supprimees[v] \ quarantaine[v] # {} \/ \E i \in Ids : EnRetard(v, i)

PousserDebut(v) ==
  /\ poussee[v] = Rien /\ AFaire(v)
  /\ poussee' = [poussee EXCEPT ![v] =
       [aSupprimer |-> supprimees[v] \ quarantaine[v], choisie |-> FALSE,
        aEnvoyer |-> Aucune, recues |-> Aucune, vol |-> Rien]]
  /\ UNCHANGED <<magasin, horsMagasin, vue, tirage, errantes, restantes, condamnees, pannes>>

Libre(v) == poussee[v] # Rien /\ poussee[v].vol = Rien

PartirDelete(v, i) ==
  /\ Libre(v) /\ i \in poussee[v].aSupprimer
  /\ poussee' = [poussee EXCEPT
       ![v].aSupprimer = @ \ {i},
       ![v].vol = [methode |-> "DELETE", id |-> i, copie |-> Rien,
                   reponse |-> Rien]]
  /\ UNCHANGED <<magasin, horsMagasin, vue, tirage, errantes, restantes, condamnees, pannes>>

\* The list of what to send is drawn once, with the copies as they are then.
Choisir(v) ==
  /\ Libre(v) /\ poussee[v].aSupprimer = {} /\ ~poussee[v].choisie
  /\ poussee' = [poussee EXCEPT
       ![v].choisie = TRUE,
       ![v].aEnvoyer = [i \in Ids |-> IF EnRetard(v, i) THEN locale[v][i]
                                                        ELSE Rien]]
  /\ UNCHANGED <<magasin, horsMagasin, vue, tirage, errantes, restantes, condamnees, pannes>>

\* Each turn checks again that the conversation was not condemned meanwhile.
PartirPut(v, i) ==
  /\ Libre(v) /\ poussee[v].aEnvoyer[i] # Rien /\ i \notin supprimees[v]
  /\ poussee' = [poussee EXCEPT
       ![v].aEnvoyer[i] = Rien,
       ![v].vol = [methode |-> "PUT", id |-> i,
                   copie |-> poussee[v].aEnvoyer[i], reponse |-> Rien]]
  /\ UNCHANGED <<magasin, horsMagasin, vue, tirage, errantes, restantes, condamnees, pannes>>

\* The store handles a request (put_conversation, delete_conversation).
Traiter(r) ==
  IF r.methode = "PUT" THEN Upsert(r.id, r.copie) ELSE Delete(r.id)

\* Its answer is the row the request left.
Servir(v) ==
  /\ poussee[v] # Rien /\ poussee[v].vol # Rien
  /\ poussee[v].vol.reponse = Rien /\ poussee[v].vol.id \notin Refusables
  /\ Traiter(poussee[v].vol)
  /\ poussee' = [poussee EXCEPT ![v].vol.reponse = lignes'[poussee[v].vol.id]]
  /\ UNCHANGED <<vue, tirage, errantes, restantes, condamnees, pannes>>

Repondue(v, methode) ==
  /\ poussee[v] # Rien /\ poussee[v].vol # Rien
  /\ poussee[v].vol.reponse # Rien /\ poussee[v].vol.methode = methode

RecevoirDelete(v) ==
  /\ Repondue(v, "DELETE")
  /\ supprimees' = [supprimees EXCEPT ![v] = @ \ {poussee[v].vol.id}]
  /\ poussee' = [poussee EXCEPT ![v].vol = Rien]
  /\ UNCHANGED <<magasin, horsMagasin, locale, carte, quarantaine, enFlux,
                 tirage, errantes, restantes, condamnees, pannes>>

\* The map learns at once what the store now has; the row waits for the end.
RecevoirPut(v) ==
  /\ Repondue(v, "PUT")
  /\ LET r == poussee[v].vol IN
       /\ carte' = [carte EXCEPT ![v][r.id] = Connue(r.reponse)]
       /\ poussee' = [poussee EXCEPT ![v].vol = Rien,
                                     ![v].recues[r.id] = r.reponse]
  /\ UNCHANGED <<magasin, horsMagasin, locale, supprimees, quarantaine, enFlux,
                 tirage, errantes, restantes, condamnees, pannes>>

\* A refusal that ends the push as an unreachable store does.
MutRefuser(v) ==
  /\ poussee[v] # Rien /\ poussee[v].vol # Rien
  /\ poussee[v].vol.id \in Refusables
  /\ poussee' = [poussee EXCEPT ![v] = Rien]
  /\ UNCHANGED <<magasin, horsMagasin, vue, tirage, errantes, restantes,
                 condamnees, pannes>>

\* A 4xx on what the store never had: set aside for the session, and a
\* deletion of it has nothing to kill.
Refuser(v) ==
  /\ poussee[v] # Rien /\ poussee[v].vol # Rien
  /\ poussee[v].vol.id \in Refusables
  /\ quarantaine' = [quarantaine EXCEPT ![v] = @ \cup {poussee[v].vol.id}]
  /\ supprimees' = [supprimees EXCEPT ![v] =
       IF poussee[v].vol.methode = "DELETE" THEN @ \ {poussee[v].vol.id} ELSE @]
  /\ poussee' = [poussee EXCEPT ![v].vol = Rien]
  /\ UNCHANGED <<magasin, horsMagasin, locale, carte, enFlux, tirage, errantes,
                 restantes, condamnees, pannes>>

\* A 403 of the gateway: set aside too, but the deletion stays in the queue.
MutInterdire(v) ==
  /\ poussee[v] # Rien /\ poussee[v].vol # Rien
  /\ poussee[v].vol.reponse = Rien /\ pannes < PannesMax
  /\ pannes' = pannes + 1
  /\ quarantaine' = [quarantaine EXCEPT ![v] = @ \cup {poussee[v].vol.id}]
  /\ supprimees' = [supprimees EXCEPT ![v] = @ \ {poussee[v].vol.id}]
  /\ poussee' = [poussee EXCEPT ![v].vol = Rien]
  /\ UNCHANGED <<magasin, horsMagasin, locale, carte, enFlux, tirage, errantes,
                 restantes, condamnees>>
Interdire(v) ==
  /\ poussee[v] # Rien /\ poussee[v].vol # Rien
  /\ poussee[v].vol.reponse = Rien /\ pannes < PannesMax
  /\ pannes' = pannes + 1
  /\ quarantaine' = [quarantaine EXCEPT ![v] = @ \cup {poussee[v].vol.id}]
  /\ poussee' = [poussee EXCEPT ![v].vol = Rien]
  /\ UNCHANGED <<magasin, horsMagasin, locale, supprimees, carte, enFlux, tirage,
                 errantes, restantes, condamnees>>

\* No answer comes: the push stops there, what it received is dropped, and the
\* request may still reach the store.
PerdreRequete(v, arrivera) ==
  /\ poussee[v] # Rien /\ poussee[v].vol # Rien /\ pannes < PannesMax
  /\ arrivera => poussee[v].vol.reponse = Rien
  /\ pannes' = pannes + 1
  /\ errantes' = IF arrivera THEN errantes \cup {poussee[v].vol} ELSE errantes
  /\ poussee' = [poussee EXCEPT ![v] = Rien]
  /\ UNCHANGED <<magasin, horsMagasin, vue, tirage, restantes, condamnees>>

ServirErrante(r) ==
  /\ r \in errantes
  /\ r.id \notin Refusables /\ Traiter(r)
  /\ errantes' = errantes \ {r}
  /\ UNCHANGED <<vue, tirage, poussee, restantes, condamnees, pannes>>

\* All sent: the rows received are taken in together.
PousserFin(v) ==
  /\ Libre(v) /\ poussee[v].choisie
  /\ \A i \in Ids : poussee[v].aEnvoyer[i] # Rien => i \in supprimees[v]
  /\ locale' = [locale EXCEPT ![v] =
       [i \in Ids |-> Appliquee(v, i, poussee[v].recues[i])]]
  /\ poussee' = [poussee EXCEPT ![v] = Rien]
  /\ UNCHANGED <<magasin, horsMagasin, supprimees, carte, quarantaine, enFlux,
                 tirage, errantes, restantes, condamnees, pannes>>

\* The page is loaded again: what localStorage holds remains.
Recharger(v) ==
  /\ pannes < PannesMax /\ pannes' = pannes + 1
  /\ tirage'      = [tirage EXCEPT ![v] = Rien]
  /\ poussee'     = [poussee EXCEPT ![v] = Rien]
  /\ quarantaine' = [quarantaine EXCEPT ![v] = {}]
  /\ enFlux'      = [enFlux EXCEPT ![v] = Rien]
  /\ errantes' = IF poussee[v] # Rien /\ poussee[v].vol # Rien
                    /\ poussee[v].vol.reponse = Rien
                 THEN errantes \cup {poussee[v].vol} ELSE errantes
  /\ UNCHANGED <<magasin, horsMagasin, locale, supprimees, carte, restantes, condamnees>>

Passer ==
  /\ Avancer
  /\ UNCHANGED <<vue, tirage, poussee, errantes, restantes, condamnees, pannes>>

-----------------------------------------------------------------------------
InitVues ==
  /\ Init
  /\ locale      = [v \in Vues |-> Aucune]
  /\ supprimees  = [v \in Vues |-> {}]
  /\ carte       = [v \in Vues |-> [i \in Ids |-> -1]]
  /\ quarantaine = [v \in Vues |-> {}]
  /\ enFlux      = [v \in Vues |-> Rien]
  /\ tirage      = [v \in Vues |-> Rien]
  /\ poussee     = [v \in Vues |-> Rien]
  /\ errantes = {} /\ restantes = Cles /\ pannes = 0
  /\ condamnees  = [v \in Vues |-> {}]

Utilisateur(v) ==
  \/ \E i \in Ids, k \in Cles : Creer(v, i, k) \/ EcrireMessage(v, i, k)
  \/ \E i \in Ids : Supprimer(v, i) \/ DebutFlux(v, i)

Pousser(v) ==
  \/ PousserDebut(v) \/ Choisir(v)
  \/ \E i \in Ids : PartirDelete(v, i) \/ PartirPut(v, i)
  \/ Servir(v) \/ RecevoirDelete(v) \/ RecevoirPut(v) \/ Refuser(v)
  \/ PousserFin(v)

Panne(v) ==
  \/ PerdreTirage(v) \/ Interdire(v) \/ Recharger(v)
  \/ \E arrivera \in BOOLEAN : PerdreRequete(v, arrivera)

NextVues ==
  \/ \E v \in Vues : Utilisateur(v) \/ FinFlux(v) \/ Tirer(v)
                    \/ RecevoirTirage(v) \/ Pousser(v) \/ Panne(v)
  \/ \E r \in errantes : ServirErrante(r)
  \/ Passer

SpecVues == InitVues /\ [][NextVues]_varsVues

\* The timers of a view fire every ten seconds, its requests are handled, an
\* answer that flows ends, and requests are lost at most PannesMax times.
FairSpecVues ==
  /\ SpecVues
  /\ \A v \in Vues : /\ WF_varsVues(Pousser(v))
                     /\ WF_varsVues(RecevoirTirage(v))
                     /\ WF_varsVues(FinFlux(v))

-----------------------------------------------------------------------------
\* A conversation its view condemned is not in that view, whatever pull or push
\* was in flight when the user deleted it, until the deletion reached the store.
CondamneeAbsente ==
  \A v \in Vues : \A i \in supprimees[v] : locale[v][i] = Rien

\* What the store has under a number the view's cursor passed is in the view,
\* message for message, if the view never condemned the conversation: no
\* interleaving of a pull, a push, a flow and a reload skips a row.
VivantesVues ==
  \A v \in Vues, i \in Ids :
    (/\ i \notin condamnees[v]
     /\ EstVivante(lignes[i]) /\ lignes[i].seq <= curseur[v])
    => /\ locale[v][i] # Rien
       /\ Presents(lignes[i].copie) \subseteq Presents(locale[v][i])

\* A deletion leaves the queue only once the store has it, whatever the gateway
\* answered and whenever the page was closed.
SuppressionTenue ==
  [][\A v \in Vues, i \in Ids \ Refusables :
       i \in supprimees[v] \ supprimees'[v] => plusMorte[i] >= 0]_varsVues

\* A queued deletion leaves the queue, unless it was set aside.
SuppressionAboutit ==
  \A v \in Vues, i \in Ids :
    i \in supprimees[v] \ quarantaine[v]
      ~> i \notin supprimees[v] \ quarantaine[v]

\* What a view holds reaches the store, unless the conversation is deleted or
\* refused: a refused conversation does not hold up the others, and a lost
\* answer or a reload does not make the view forget that it owes a message.
ToutPart ==
  \A v \in Vues, i \in Ids \ Refusables, k \in Cles :
    (locale[v][i] # Rien /\ locale[v][i].messages[k] # Rien)
      ~> \/ locale[v][i] = Rien \/ i \in quarantaine[v]
         \/ EstVivante(lignes[i]) /\ lignes[i].copie.messages[k] # Rien
         \/ EstTombale(lignes[i]) /\ lignes[i].deletedAt >= locale[v][i].updatedAt

\* The view v waits for nothing and has nothing to send.
AuRepos(v) ==
  /\ poussee[v] = Rien /\ tirage[v] = Rien /\ enFlux[v] = Rien
  /\ supprimees[v] = {} /\ ~AFaire(v) /\ quarantaine[v] = {}
  /\ curseur[v] = compteur

\* Whatever the order of the pushes, all views converge to the same result:
\* at rest, the store has every message of a view's copy.
RienNeSePerd ==
  \A v \in Vues, i \in Ids :
    AuRepos(v) /\ locale[v][i] # Rien /\ EstVivante(lignes[i]) =>
      Presents(locale[v][i]) \subseteq Presents(lignes[i].copie)

\* At rest, no view shows a conversation the store knows as deleted.
SansFantome ==
  \A v \in Vues, i \in Ids :
    AuRepos(v) /\ EstTombale(lignes[i]) => locale[v][i] = Rien

\* At rest, every view shows every live conversation of the store.
ToutesVisibles ==
  \A v \in Vues, i \in Ids :
    AuRepos(v) /\ EstVivante(lignes[i]) => locale[v][i] # Rien
=============================================================================
