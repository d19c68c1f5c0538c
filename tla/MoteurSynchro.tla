----------------------------- MODULE MoteurSynchro -----------------------------
(***************************************************************************)
(* The sync engine of each device (diapason/compte/synchro.py) between its *)
(* local store and the server of the account: export, pull, push, and what *)
(* a device makes of an object it receives.                                *)
(*                                                                         *)
(* A cycle runs alone on its device (_exclusif) and is sequential; pc says *)
(* where it is.  Meanwhile the views write to the local store, the other   *)
(* devices run their own cycles, requests are lost or handled late, the    *)
(* process dies, the server is restored from a copy.  A step ends where    *)
(* another actor may come in with effect: at a request, and between the    *)
(* store's database and the engine's, which do not commit together.        *)
(*                                                                         *)
(* What a conversation holds comes down to a date and a set of messages    *)
(* (the join itself is FusionConversations), and a hash of it is itself.   *)
(* The server answers honestly and every blob opens.                       *)
(***************************************************************************)
EXTENDS Naturals, Integers, FiniteSets

CONSTANTS
  Appareils,  \* the devices of the account
  Ids,        \* identifiers of conversations
  Messages,   \* the messages that will be written, each once
  Rien,       \* None
  Avance,     \* Avance[d]: how far the clock of d is ahead
  PageMax,    \* _PAGE_ELEMENTS
  RejeuxMax,  \* _REJEUX_MAX
  Retention,  \* _RETENTION_TOMBALES_JOURS
  Absence,    \* the longest a view waits before it pushes what it wrote
  DateMax,    \* bound: last date of the common clock
  PannesMax,  \* bound: lost requests and deaths of a process
  ActesMax,   \* bound: the failures and the messages written, together
  RestaurationsMax \* bound: restorations of the server

ASSUME EngineNumbers ==
  /\ Avance \in [Appareils -> Nat] /\ PageMax \in Nat \ {0}
  /\ {RejeuxMax, Retention, Absence, DateMax, PannesMax, ActesMax,
      RestaurationsMax} \subseteq Nat

VARIABLES
  \* each device's local store and its views
  locale,    \* locale[d][i]: the row of i, or Rien
  posee,     \* posee[d][i]: when its tombstone was put there, 0 without one
  aExporter, \* the rows numbered after the export cursor (curseurs_export)
  ancienne,  \* the last live copy a tombstone erased: a view may still show it
  apprise,   \* the latest deletion of i the store took in, -1: none (history)
  \* the engine's tables
  connu,     \* table connus: [rev, empreinte], empreinte Rien when NULL
  sortant,   \* table sortants: [supprime (-1: NULL), poussee (Rien: NULL)]
  plancher,  \* table planchers_suppression (-1: no row)
  curseur,   \* curseurDistant
  genVue,    \* generation (0: none yet)
  etat,      \* synchroEtat
  session,   \* the server still knows the device's session
  \* the cycle under way
  pc, page, examen, lot, bases, rejeux, laisses, complet, vus,
  \* the server
  objets,    \* objets[i]: [rev, seq, contenu], or Rien
  seq,       \* comptes.seq
  generation,
  copie,     \* the copy a restoration would bring back
  errantes,  \* pushes their device gave up, not yet handled
  \* surroundings
  maintenant, restants, neuves, pannes

magasin == <<locale, posee, aExporter, ancienne, apprise>>
tables  == <<connu, sortant, plancher, curseur, genVue, etat>>
cycle   == <<pc, page, examen, lot, bases, rejeux, laisses, complet, vus>>
serveur == <<objets, seq, generation, copie>>
autour  == <<maintenant, restants, neuves, pannes>>
vars    == <<magasin, tables, session, cycle, serveur, errantes, autour>>

-----------------------------------------------------------------------------
(* Conversations                                                           *)

Vivante(n, ms) == [date |-> n, messages |-> ms, morte |-> FALSE]
Tombale(n)     == [date |-> n, messages |-> {}, morte |-> TRUE]
EstVivante(c)  == c # Rien /\ ~c.morte
EstTombale(c)  == c # Rien /\ c.morte

Contenus == [date : Int, messages : SUBSET Messages, morte : BOOLEAN]

\* An account holds finitely many conversations, and None is no row.
ASSUME EngineValues ==
  /\ IsFiniteSet(Ids)
  /\ Rien \notin Contenus
  /\ Rien \notin [rev : Nat, empreinte : Contenus \cup {Rien}]
  /\ Rien \notin [supprime : Int, poussee : Contenus \cup {Rien}]
  /\ Rien \notin [rev : Nat, seq : Nat, contenu : Contenus]
  /\ Rien \notin [id : Ids, rev : Nat, contenu : Contenus,
                  etape : {"lire", "tombale", "noter", "renvoyer"}]

MaxDe(a, b) == IF a >= b THEN a ELSE b

\* upsert and appliquer_tombale of ConversationsStore: the row l after c.
Recue(l, c) ==
  IF c.morte
  THEN IF l # Rien /\ (IF l.morte THEN l.date >= c.date ELSE l.date > c.date)
       THEN l ELSE c
  ELSE IF EstTombale(l) /\ l.date >= c.date THEN l
  ELSE IF EstVivante(l)
       THEN Vivante(MaxDe(l.date, c.date), l.messages \cup c.messages)
  ELSE c

\* _sous_les_planchers: what this device would push for row l, under the floor
\* f and the date s of its line in sortants (-1: none).
SousLesPlanchers(l, f, s) ==
  LET suppression == MaxDe(f, s) IN
  IF suppression = -1 \/ EstTombale(l) THEN l
  ELSE IF l = Rien \/ suppression >= l.date THEN Tombale(suppression)
  ELSE l

-----------------------------------------------------------------------------
(* The local store: its views write, delete, and it purges                 *)

Horloge(d) == maintenant + Avance[d]

\* A row that changed, erased by a tombstone or not, is numbered anew.
Poser(d, i, c) ==
  /\ locale' = [locale EXCEPT ![d][i] = c]
  /\ posee' = [posee EXCEPT ![d][i] =
       IF c.morte THEN IF c = locale[d][i] THEN @ ELSE Horloge(d) ELSE 0]
  /\ ancienne' = [ancienne EXCEPT ![d][i] =
       IF c.morte /\ EstVivante(locale[d][i]) THEN locale[d][i] ELSE @]
  /\ apprise' = [apprise EXCEPT ![d][i] =
       IF c.morte THEN MaxDe(@, c.date) ELSE @]
  /\ aExporter' = [aExporter EXCEPT ![d] =
       IF c = locale[d][i] THEN @ ELSE @ \cup {i}]

EncoreUnActe == pannes + Cardinality(Messages \ restants) < ActesMax

\* The first message of a conversation; identifiers are drawn anew.
Creer(d, i, k) ==
  /\ i \in neuves /\ k \in restants /\ EncoreUnActe
  /\ neuves' = neuves \ {i} /\ restants' = restants \ {k}
  /\ Poser(d, i, Vivante(Horloge(d), {k}))
  /\ UNCHANGED <<tables, session, cycle, serveur, errantes, maintenant, pannes>>

\* A view adds a message to the copy it shows, possibly one deleted since, and
\* pushes it at once or later: the date is the one of its writing.
Ecrire(d, i, k) ==
  LET base == IF EstVivante(locale[d][i]) THEN locale[d][i] ELSE ancienne[d][i]
  IN  /\ base # Rien /\ k \in restants /\ EncoreUnActe
      /\ restants' = restants \ {k}
      /\ \E n \in {MaxDe(base.date + 1, Horloge(d) - a) : a \in 0..Absence} :
           Poser(d, i, Recue(locale[d][i],
                             Vivante(n, base.messages \cup {k})))
      /\ UNCHANGED <<tables, session, cycle, serveur, errantes, maintenant,
                     neuves, pannes>>

Supprimer(d, i) ==
  /\ EstVivante(locale[d][i])
  /\ Poser(d, i, Tombale(MaxDe(Horloge(d), locale[d][i].date + 1)))
  /\ UNCHANGED <<tables, session, cycle, serveur, errantes, autour>>

\* peut_purger: the server confirmed this very tombstone and its floor stays.
PeutPurger(d, i) ==
  /\ sortant[d][i] = Rien
  /\ connu[d][i] # Rien /\ connu[d][i].empreinte = locale[d][i]
  /\ plancher[d][i] >= locale[d][i].date

Purger(d, i) ==
  /\ EstTombale(locale[d][i])
  /\ MaxDe(locale[d][i].date, posee[d][i]) + Retention < Horloge(d)
  /\ PeutPurger(d, i)
  /\ locale' = [locale EXCEPT ![d][i] = Rien]
  /\ posee' = [posee EXCEPT ![d][i] = 0]
  /\ aExporter' = [aExporter EXCEPT ![d] = @ \ {i}]
  /\ UNCHANGED <<ancienne, apprise, tables, session, cycle, serveur,
                 errantes, autour>>

Avancer ==
  /\ maintenant < DateMax
  /\ maintenant' = maintenant + 1
  /\ UNCHANGED <<magasin, tables, session, cycle, serveur, errantes, restants,
                 neuves, pannes>>

-----------------------------------------------------------------------------
(* The engine's tables                                                     *)

Aucun == [i \in Ids |-> Rien]

\* noter_connu: rev_max never goes down.
MutNoterConnu(c, rev, contenu) ==
  [rev |-> IF c = Rien THEN rev ELSE MaxDe(c.rev, rev),
   empreinte |-> IF c = Rien THEN contenu ELSE c.empreinte]
NoterConnu(c, rev, contenu) ==
  [rev |-> IF c = Rien THEN rev ELSE MaxDe(c.rev, rev), empreinte |-> contenu]

\* oublier_empreinte.
Oublier(c) == IF c = Rien THEN Rien ELSE [c EXCEPT !.empreinte = Rien]

\* ajouter_sortant: the highest deletion date stays, the hash pushed is reset.
Ajouter(s, supprime) ==
  [supprime |-> IF s = Rien THEN supprime ELSE MaxDe(s.supprime, supprime),
   poussee  |-> Rien]

-----------------------------------------------------------------------------
(* The export, which opens and closes a cycle                              *)

PlancherExporte(d, i) ==
  IF i \in aExporter[d] /\ EstTombale(locale[d][i])
  THEN MaxDe(plancher[d][i], locale[d][i].date) ELSE plancher[d][i]

DejaLa(d, i, c) == connu[d][i] # Rien /\ connu[d][i].empreinte = c

\* The mutant compares with nothing: known is enough.
MutSortantExporte(d, i) ==
  IF i \notin aExporter[d] THEN sortant[d][i]
  ELSE IF connu[d][i] # Rien /\ connu[d][i].empreinte # Rien THEN Rien
  ELSE Ajouter(sortant[d][i], -1)

SortantExporte(d, i) ==
  LET l == locale[d][i] IN
  IF i \notin aExporter[d] THEN sortant[d][i]
  ELSE IF DejaLa(d, i, SousLesPlanchers(l, PlancherExporte(d, i), -1)) THEN Rien
  ELSE Ajouter(sortant[d][i], IF l.morte THEN l.date ELSE -1)

Exporter(d) ==
  /\ plancher'  = [plancher EXCEPT ![d] = [i \in Ids |-> PlancherExporte(d, i)]]
  /\ sortant'   = [sortant EXCEPT ![d] = [i \in Ids |-> SortantExporte(d, i)]]
  /\ aExporter' = [aExporter EXCEPT ![d] = {}]

Commencer(d) ==
  /\ pc[d] = "repos" /\ session[d]
  /\ Exporter(d)
  /\ pc' = [pc EXCEPT ![d] = "tire"]
  /\ complet' = [complet EXCEPT ![d] = curseur[d] = 0]
  /\ vus' = [vus EXCEPT ![d] = {}]
  /\ UNCHANGED <<locale, posee, ancienne, apprise, connu, curseur, genVue, etat,
                 session, page, examen, lot, bases, rejeux, laisses, serveur,
                 errantes, autour>>

\* "Synchronised" is said only when nothing is left to send.
Conclure(d) ==
  /\ pc[d] = "conclut"
  /\ Exporter(d)
  /\ etat' = [etat EXCEPT ![d] =
       IF \E i \in Ids : sortant'[d][i] # Rien THEN "pending" ELSE "upToDate"]
  /\ pc' = [pc EXCEPT ![d] = "repos"]
  /\ bases'   = [bases EXCEPT ![d] = [i \in Ids |-> -1]]
  /\ rejeux'  = [rejeux EXCEPT ![d] = [i \in Ids |-> 0]]
  /\ laisses' = [laisses EXCEPT ![d] = {}]
  /\ UNCHANGED <<locale, posee, ancienne, apprise, connu, curseur, genVue,
                 session, page, examen, lot, complet, vus, serveur, errantes,
                 autour>>

-----------------------------------------------------------------------------
(* The pull                                                                *)

Nouveaux(depuis) == {i \in Ids : objets[i] # Rien /\ objets[i].seq > depuis}

Jusqua(rendus, reste) ==
  IF reste = {} THEN seq
  ELSE CHOOSE n \in {objets[i].seq : i \in rendus} :
         \A i \in rendus : objets[i].seq <= n

\* The server answers /sync/changes: the oldest writes first.
Page(depuis) ==
  LET rendus == {i \in Nouveaux(depuis) :
        Cardinality({j \in Nouveaux(depuis) : objets[j].seq <= objets[i].seq})
          <= PageMax}
      reste  == Nouveaux(depuis) \ rendus
  IN [elements |-> [i \in Ids |-> IF i \in rendus THEN objets[i] ELSE Rien],
      until |-> Jusqua(rendus, reste),
      hasMore |-> reste # {}]

MutRecommence(d) == FALSE
Recommence(d) == genVue[d] \notin {0, generation} /\ curseur[d] # 0

\* _juger_meta: a new generation sets the cursor back to 0, and only it; the
\* page is asked again unless it started there.
JugerMeta(d, p) ==
  IF Recommence(d)
  THEN /\ complet' = [complet EXCEPT ![d] = TRUE]
       /\ vus'     = [vus EXCEPT ![d] = {}]
       /\ curseur' = [curseur EXCEPT ![d] = 0]
       /\ UNCHANGED <<pc, page>>
  ELSE /\ pc'   = [pc EXCEPT ![d] = "page"]
       /\ page' = [page EXCEPT ![d] = p]
       /\ vus'  = [vus EXCEPT ![d] = @ \cup {i \in Ids : p.elements[i] # Rien}]
       /\ UNCHANGED <<complet, curseur>>

\* Between the answer and its judgment nobody comes in with effect.
DemanderPage(d) ==
  /\ pc[d] = "tire" /\ session[d]
  /\ JugerMeta(d, Page(curseur[d]))
  /\ genVue' = [genVue EXCEPT ![d] = generation]
  /\ UNCHANGED <<magasin, connu, sortant, plancher, etat, session, examen, lot,
                 bases, rejeux, laisses, serveur, errantes, autour>>

\* The elements of a page are taken in one by one, by seq.
Examiner(d, i) ==
  /\ pc[d] = "page" /\ examen[d] = Rien
  /\ page[d].elements[i] # Rien
  /\ \A j \in Ids : page[d].elements[j] # Rien =>
                      page[d].elements[i].seq <= page[d].elements[j].seq
  /\ examen' = [examen EXCEPT ![d] =
       [id |-> i, rev |-> page[d].elements[i].rev,
        contenu |-> page[d].elements[i].contenu, etape |-> "lire"]]
  /\ page' = [page EXCEPT ![d].elements[i] = Rien]
  /\ UNCHANGED <<magasin, tables, session, pc, lot, bases, rejeux, laisses,
                 complet, vus, serveur, errantes, autour>>

\* complet and vus are variables of _tirer, which is over.
OublierTirage(d) ==
  complet' = [complet EXCEPT ![d] = FALSE] /\ vus' = [vus EXCEPT ![d] = {}]
TirageFini(d) == pc' = [pc EXCEPT ![d] = "pousse"] /\ OublierTirage(d)

\* The cursor is written before what is missing is looked for.
FinirPage(d) ==
  /\ pc[d] = "page" /\ examen[d] = Rien /\ page[d].elements = Aucun
  /\ curseur' = [curseur EXCEPT ![d] = page[d].until]
  /\ page' = [page EXCEPT ![d] = Rien]
  /\ IF page[d].hasMore \/ complet[d]
     THEN /\ pc' = [pc EXCEPT ![d] = IF page[d].hasMore THEN "tire" ELSE "absents"]
          /\ UNCHANGED <<complet, vus>>
     ELSE TirageFini(d)
  /\ UNCHANGED <<magasin, connu, sortant, plancher, genVue, etat, session,
                 examen, lot, bases, rejeux, laisses, serveur, errantes, autour>>

\* _absents: what this device confirmed and a complete pull did not show.
MutAbsents(d) == {}
Absents(d) == {i \in Ids : connu[d][i] # Rien /\ i \notin vus[d]}

RepousserAbsent(d, i) ==
  /\ pc[d] = "absents" /\ i \in Absents(d)
  /\ connu' = [connu EXCEPT ![d][i] = Oublier(@)]
  /\ sortant' = [sortant EXCEPT ![d][i] = Ajouter(@, plancher[d][i])]
  /\ vus' = [vus EXCEPT ![d] = @ \cup {i}]
  /\ UNCHANGED <<magasin, plancher, curseur, genVue, etat, session, pc, page,
                 examen, lot, bases, rejeux, laisses, complet, serveur, errantes,
                 autour>>

FinirTirage(d) ==
  /\ pc[d] = "absents" /\ Absents(d) = {}
  /\ TirageFini(d)
  /\ UNCHANGED <<magasin, tables, session, page, examen, lot, bases, rejeux,
                 laisses, serveur, errantes, autour>>

-----------------------------------------------------------------------------
(* _accueillir: an object from a page or from a conflict                   *)

Lue(d, etape) == examen[d] # Rien /\ examen[d].etape = etape

\* What this device knows the server holds: the echo of its own write.
Reconnaitre(d) ==
  /\ Lue(d, "lire")
  /\ LET e == examen[d] IN
       /\ DejaLa(d, e.id, e.contenu)
       /\ connu' = [connu EXCEPT ![d][e.id] = NoterConnu(@, e.rev, e.contenu)]
  /\ examen' = [examen EXCEPT ![d] = Rien]
  /\ UNCHANGED <<magasin, sortant, plancher, curseur, genVue, etat, session, pc,
                 page, lot, bases, rejeux, laisses, complet, vus, serveur,
                 errantes, autour>>

Depassee(d, e) == connu[d][e.id] # Rien /\ e.rev < connu[d][e.id].rev

\* _reaffirmer: an older revision is not taken in, the copy from here goes
\* over it.
Reaffirmer(d) ==
  /\ Lue(d, "lire")
  /\ LET e == examen[d] IN
       /\ ~DejaLa(d, e.id, e.contenu) /\ Depassee(d, e)
       /\ connu' = [connu EXCEPT ![d][e.id] = Oublier(@)]
       /\ sortant' = [sortant EXCEPT ![d][e.id] = Ajouter(@, plancher[d][e.id])]
       /\ bases' = [bases EXCEPT ![d][e.id] = e.rev]
  /\ examen' = [examen EXCEPT ![d] = Rien]
  /\ UNCHANGED <<magasin, plancher, curseur, genVue, etat, session, pc, page,
                 lot, rejeux, laisses, complet, vus, serveur, errantes, autour>>

MutSousPlancher(d, e) == FALSE
SousPlancher(d, e) == ~e.contenu.morte /\ plancher[d][e.id] >= e.contenu.date

Neuve(d, e) == ~DejaLa(d, e.id, e.contenu) /\ ~Depassee(d, e)

\* A live copy that did not see a deletion this device knows: noted, not taken
\* in; the tombstone goes out again.
TenirPlancher(d) ==
  /\ Lue(d, "lire")
  /\ LET e == examen[d] IN
       /\ Neuve(d, e) /\ SousPlancher(d, e)
       /\ connu' = [connu EXCEPT ![d][e.id] = NoterConnu(@, e.rev, e.contenu)]
  /\ examen' = [examen EXCEPT ![d].etape = "tombale"]
  /\ UNCHANGED <<magasin, sortant, plancher, curseur, genVue, etat, session, pc,
                 page, lot, bases, rejeux, laisses, complet, vus, serveur,
                 errantes, autour>>

\* _ingerer: the store joins it.
Ingerer(d) ==
  /\ Lue(d, "lire")
  /\ LET e == examen[d] IN
       /\ Neuve(d, e) /\ ~SousPlancher(d, e)
       /\ Poser(d, e.id, Recue(locale[d][e.id], e.contenu))
  /\ examen' = [examen EXCEPT ![d].etape = "noter"]
  /\ UNCHANGED <<tables, session, pc, page, lot, bases, rejeux, laisses, complet,
                 vus, serveur, errantes, autour>>

Noter(d) ==
  /\ Lue(d, "noter")
  /\ LET e == examen[d] IN
       /\ plancher' = [plancher EXCEPT ![d][e.id] =
            IF e.contenu.morte THEN MaxDe(@, e.contenu.date) ELSE @]
       /\ connu' = [connu EXCEPT ![d][e.id] = NoterConnu(@, e.rev, e.contenu)]
  /\ examen' = [examen EXCEPT ![d].etape = "renvoyer"]
  /\ UNCHANGED <<magasin, sortant, curseur, genVue, etat, session, pc, page, lot,
                 bases, rejeux, laisses, complet, vus, serveur, errantes, autour>>

\* A join that is more than what the server holds goes out again.
ARenvoyer(d, e) ==
  SousLesPlanchers(locale[d][e.id], plancher[d][e.id], -1) \notin {Rien, e.contenu}

Renvoyer(d) ==
  /\ Lue(d, "renvoyer") \/ Lue(d, "tombale")
  /\ LET e == examen[d] IN
       sortant' = [sortant EXCEPT ![d][e.id] =
         IF e.etape = "tombale" THEN Ajouter(@, plancher[d][e.id])
         ELSE IF ARenvoyer(d, e) THEN Ajouter(@, -1) ELSE @]
  /\ examen' = [examen EXCEPT ![d] = Rien]
  /\ UNCHANGED <<magasin, connu, plancher, curseur, genVue, etat, session, pc,
                 page, lot, bases, rejeux, laisses, complet, vus, serveur,
                 errantes, autour>>

-----------------------------------------------------------------------------
(* The push                                                                *)

\* What is sealed is read anew, not what was exported.
APousser(d, i) ==
  SousLesPlanchers(locale[d][i], plancher[d][i], sortant[d][i].supprime)

AEnvoyer(d) == {i \in Ids : sortant[d][i] # Rien /\ i \notin laisses[d]}

Partante(d, i) ==
  i \in AEnvoyer(d) /\ APousser(d, i) # Rien /\ ~DejaLa(d, i, APousser(d, i))

Base(d, i) == IF bases[d][i] # -1 THEN bases[d][i]
              ELSE IF connu[d][i] = Rien THEN 0 ELSE connu[d][i].rev

\* _preparer_lot, and the request leaves; without anything to send the push is
\* over.
PreparerLot(d) ==
  /\ pc[d] = "pousse"
  /\ LET parts == {i \in Ids : Partante(d, i)} IN
       /\ lot' = [lot EXCEPT ![d] = [i \in Ids |->
            IF i \in parts
            THEN [base |-> Base(d, i), contenu |-> APousser(d, i),
                  statut |-> "parti", courant |-> Rien]
            ELSE Rien]]
       /\ sortant' = [sortant EXCEPT ![d] = [i \in Ids |->
            IF i \in parts THEN [@[i] EXCEPT !.poussee = APousser(d, i)]
            ELSE IF i \in AEnvoyer(d) THEN Rien ELSE @[i]]]
       /\ pc' = [pc EXCEPT ![d] = IF parts = {} THEN "conclut" ELSE "vol"]
  /\ UNCHANGED <<magasin, connu, plancher, curseur, genVue, etat, session, page,
                 examen, bases, rejeux, laisses, complet, vus, serveur, errantes,
                 autour>>

RevServeur(i) == IF objets[i] = Rien THEN 0 ELSE objets[i].rev

\* /sync/push: compare and exchange on rev, in one transaction; stored gives
\* the objects a batch writes, each with a number of its own.
MutStockes(l) == {i \in Ids : l[i] # Rien}
Stockes(l) == {i \in Ids : l[i] # Rien /\ l[i].base = RevServeur(i)}

AppliquerLot(l, numero) ==
  /\ objets' = [i \in Ids |->
       IF i \in Stockes(l)
       THEN [rev |-> l[i].base + 1, seq |-> numero[i], contenu |-> l[i].contenu]
       ELSE objets[i]]
  /\ seq' = seq + Cardinality(Stockes(l))

Numeros(l) ==
  {f \in [Stockes(l) -> (seq + 1)..(seq + Cardinality(Stockes(l)))] :
     \A i, j \in Stockes(l) : i # j => f[i] # f[j]}

ServirLot(d) ==
  /\ pc[d] = "vol" /\ session[d]
  /\ \E numero \in Numeros(lot[d]) : AppliquerLot(lot[d], numero)
  /\ lot' = [lot EXCEPT ![d] = [i \in Ids |->
       IF @[i] = Rien THEN Rien
       ELSE IF i \in Stockes(lot[d]) THEN [@[i] EXCEPT !.statut = "stored"]
       ELSE [base |-> @[i].base, contenu |-> @[i].contenu,
             statut |-> "conflict", courant |-> objets[i]]]]
  /\ pc' = [pc EXCEPT ![d] = "issue"]
  /\ UNCHANGED <<magasin, tables, session, page, examen, bases, rejeux, laisses,
                 complet, vus, generation, copie, errantes, autour>>

Issue(d, i, statut) ==
  /\ pc[d] = "issue" /\ examen[d] = Rien
  /\ lot[d][i] # Rien /\ lot[d][i].statut = statut
  /\ lot' = [lot EXCEPT ![d][i] = Rien]

\* The line of sortants goes only if this version is the one that left.
IssueStockee(d, i) ==
  /\ Issue(d, i, "stored")
  /\ LET e == lot[d][i] IN
       /\ connu' = [connu EXCEPT ![d][i] = NoterConnu(@, e.base + 1, e.contenu)]
       /\ plancher' = [plancher EXCEPT ![d][i] =
            IF e.contenu.morte THEN MaxDe(@, e.contenu.date) ELSE @]
       /\ sortant' = [sortant EXCEPT ![d][i] =
            IF @ # Rien /\ @.poussee = e.contenu THEN Rien ELSE @]
  /\ bases' = [bases EXCEPT ![d][i] = -1]
  /\ UNCHANGED <<magasin, curseur, genVue, etat, session, pc, page, examen,
                 rejeux, laisses, complet, vus, serveur, errantes, autour>>

\* A conflict: three replays at most in a cycle; what the server holds is
\* taken in, and its revision is the base of the next try.
MutAccueillie(d, i) == Rien
Accueillie(d, i) ==
  LET c == lot[d][i].courant IN
  IF c = Rien \/ rejeux[d][i] = RejeuxMax THEN Rien
  ELSE [id |-> i, rev |-> c.rev, contenu |-> c.contenu, etape |-> "lire"]

IssueConflit(d, i) ==
  /\ Issue(d, i, "conflict")
  /\ LET epuise == rejeux[d][i] = RejeuxMax
         c == lot[d][i].courant
     IN  /\ laisses' = [laisses EXCEPT ![d] = IF epuise THEN @ \cup {i} ELSE @]
         /\ rejeux' = [rejeux EXCEPT ![d][i] = IF epuise THEN @ ELSE @ + 1]
         /\ bases' = [bases EXCEPT ![d][i] =
              IF epuise THEN @ ELSE IF c = Rien THEN 0 ELSE c.rev]
  /\ examen' = [examen EXCEPT ![d] = Accueillie(d, i)]
  /\ UNCHANGED <<magasin, tables, session, pc, page, complet, vus, serveur,
                 errantes, autour>>

FinirLot(d) ==
  /\ pc[d] = "issue" /\ examen[d] = Rien /\ lot[d] = Aucun
  /\ pc' = [pc EXCEPT ![d] = "pousse"]
  /\ UNCHANGED <<magasin, tables, session, page, examen, lot, bases, rejeux,
                 laisses, complet, vus, serveur, errantes, autour>>

-----------------------------------------------------------------------------
(* Failures                                                                *)

Abandonner(d) ==
  /\ pc'      = [pc EXCEPT ![d] = "repos"]
  /\ page'    = [page EXCEPT ![d] = Rien]
  /\ examen'  = [examen EXCEPT ![d] = Rien]
  /\ lot'     = [lot EXCEPT ![d] = Aucun]
  /\ bases'   = [bases EXCEPT ![d] = [i \in Ids |-> -1]]
  /\ rejeux'  = [rejeux EXCEPT ![d] = [i \in Ids |-> 0]]
  /\ laisses' = [laisses EXCEPT ![d] = {}]
  /\ OublierTirage(d)

\* A request without an answer, or the death of the process, anywhere in the
\* cycle: the tables stay as they are.  A push may still be handled later.
Interrompre(d, arrivera) ==
  /\ pc[d] # "repos" /\ pannes < PannesMax /\ EncoreUnActe
  /\ pannes' = pannes + 1
  /\ arrivera => pc[d] = "vol"
  /\ errantes' = IF arrivera THEN errantes \cup {lot[d]} ELSE errantes
  /\ etat' = [etat EXCEPT ![d] = "offline"]
  /\ Abandonner(d)
  /\ UNCHANGED <<magasin, connu, sortant, plancher, curseur, genVue, session,
                 serveur, maintenant, restants, neuves>>

ServirErrante(l) ==
  /\ l \in errantes
  /\ \E numero \in Numeros(l) : AppliquerLot(l, numero)
  /\ errantes' = errantes \ {l}
  /\ UNCHANGED <<magasin, tables, session, cycle, generation, copie, autour>>

CopieVide == [objets |-> Aucun, seq |-> 0]

\* A copy of the database is kept, and the server restored from it: the
\* generation is new and the sessions are gone (a 401 ends every cycle).
Sauvegarder ==
  /\ generation <= RestaurationsMax
  /\ copie' = [objets |-> objets, seq |-> seq]
  /\ copie' # copie
  /\ UNCHANGED <<magasin, tables, session, cycle, objets, seq, generation,
                 errantes, autour>>

Restaurer ==
  /\ generation <= RestaurationsMax
  /\ objets' = copie.objets /\ seq' = copie.seq
  /\ generation' = generation + 1
  /\ session' = [d \in Appareils |-> FALSE]
  /\ errantes' = {}
  /\ copie' = IF generation < RestaurationsMax THEN copie ELSE CopieVide
  /\ UNCHANGED <<magasin, tables, cycle, autour>>

\* A request without a session ends the cycle; the user connects again.
Refuser(d) ==
  /\ pc[d] \in {"tire", "vol"} /\ ~session[d]
  /\ etat' = [etat EXCEPT ![d] = "sessionExpired"]
  /\ Abandonner(d)
  /\ UNCHANGED <<magasin, connu, sortant, plancher, curseur, genVue, session,
                 serveur, errantes, autour>>

Connecter(d) ==
  /\ pc[d] = "repos" /\ ~session[d]
  /\ session' = [session EXCEPT ![d] = TRUE]
  /\ UNCHANGED <<magasin, tables, cycle, serveur, errantes, autour>>

-----------------------------------------------------------------------------
\* Everyone at rest; c[i] is already on every device and on the server (c has
\* at most one conversation), the messages aEcrire are not written yet.
Depart(c, aEcrire) ==
  LET partagees == {i \in Ids : c[i] # Rien}
      n == Cardinality(partagees)
  IN  /\ locale = [d \in Appareils |-> c]
      /\ connu = [d \in Appareils |-> [i \in Ids |->
           IF i \in partagees THEN [rev |-> 1, empreinte |-> c[i]] ELSE Rien]]
      /\ objets = [i \in Ids |->
           IF i \in partagees THEN [rev |-> 1, seq |-> n, contenu |-> c[i]]
           ELSE Rien]
      /\ seq = n /\ curseur = [d \in Appareils |-> n]
      /\ genVue = [d \in Appareils |-> n]
      /\ etat = [d \in Appareils |-> IF n = 0 THEN "pending" ELSE "upToDate"]
      /\ vus = [d \in Appareils |-> {}]
      /\ restants = aEcrire
      /\ neuves = Ids \ partagees
      /\ ancienne = [d \in Appareils |-> Aucun]
      /\ apprise = [d \in Appareils |-> [i \in Ids |-> -1]]
      /\ posee = [d \in Appareils |-> [i \in Ids |-> 0]]
      /\ aExporter = [d \in Appareils |-> {}]
      /\ sortant = [d \in Appareils |-> Aucun]
      /\ plancher = [d \in Appareils |-> [i \in Ids |-> -1]]
      /\ session = [d \in Appareils |-> TRUE]
      /\ pc = [d \in Appareils |-> "repos"]
      /\ page = [d \in Appareils |-> Rien]
      /\ examen = [d \in Appareils |-> Rien]
      /\ lot = [d \in Appareils |-> Aucun]
      /\ bases = [d \in Appareils |-> [i \in Ids |-> -1]]
      /\ rejeux = [d \in Appareils |-> [i \in Ids |-> 0]]
      /\ laisses = [d \in Appareils |-> {}]
      /\ complet = [d \in Appareils |-> FALSE]
      /\ generation = 1 /\ errantes = {}
      /\ copie = CopieVide
      /\ maintenant = 0 /\ pannes = 0

Init == Depart(Aucun, Messages)

Utilisateur ==
  \E d \in Appareils, i \in Ids :
    \/ \E k \in Messages : Creer(d, i, k) \/ Ecrire(d, i, k)
    \/ Supprimer(d, i) \/ Purger(d, i)

Accueillir(d) ==
  \/ Reconnaitre(d) \/ Reaffirmer(d) \/ TenirPlancher(d)
  \/ Ingerer(d) \/ Noter(d) \/ Renvoyer(d)

Etape(d) ==
  \/ Commencer(d) \/ DemanderPage(d) \/ FinirPage(d)
  \/ FinirTirage(d) \/ PreparerLot(d) \/ ServirLot(d) \/ FinirLot(d)
  \/ Conclure(d) \/ Refuser(d) \/ Connecter(d)
  \/ \E i \in Ids :
       \/ Examiner(d, i) \/ RepousserAbsent(d, i)
       \/ IssueStockee(d, i) \/ IssueConflit(d, i)
  \/ Accueillir(d)

Pannes ==
  \/ \E d \in Appareils, arrivera \in BOOLEAN : Interrompre(d, arrivera)
  \/ \E l \in errantes : ServirErrante(l)
  \/ Sauvegarder \/ Restaurer

Next == Utilisateur \/ Avancer \/ (\E d \in Appareils : Etape(d)) \/ Pannes

Spec == Init /\ [][Next]_vars

\* The task of the lifespan runs cycle after cycle (servir); nobody has to
\* write, to delete, or to fail.
FairSpec == Spec /\ \A d \in Appareils : WF_vars(Etape(d))

-----------------------------------------------------------------------------
EstContenu(c) ==
  /\ c.date \in Nat /\ c.messages \subseteq Messages
  /\ c.morte <=> c.messages = {}

\* Types; each object of the server has its own number, at most comptes.seq.
TypeOK ==
  /\ \A d \in Appareils, i \in Ids :
       /\ locale[d][i] # Rien => EstContenu(locale[d][i])
       /\ connu[d][i] # Rien =>
            /\ connu[d][i].rev \in Nat \ {0}
            /\ connu[d][i].empreinte # Rien => EstContenu(connu[d][i].empreinte)
       /\ sortant[d][i] # Rien =>
            /\ sortant[d][i].supprime \in Nat \cup {-1}
            /\ sortant[d][i].poussee # Rien => EstContenu(sortant[d][i].poussee)
       /\ plancher[d][i] \in Nat \cup {-1}
       /\ objets[i] # Rien =>
            /\ EstContenu(objets[i].contenu)
            /\ objets[i].rev \in Nat \ {0} /\ objets[i].seq \in 1..seq
  /\ \A d \in Appareils : aExporter[d] \subseteq Ids /\ curseur[d] \in Nat

Attendue(d, i) == i \in aExporter[d] \/ sortant[d][i] # Rien

\* Between two cycles, nothing of the local store is forgotten: every row is
\* on its way to the server, or is what the device knows the server held, a
\* crash between the two databases included.
RienOublie ==
  \A d \in Appareils, i \in Ids :
    pc[d] = "repos" /\ locale[d][i] # Rien =>
      Attendue(d, i) \/ DejaLa(d, i, locale[d][i])

\* What a device knows of the server is true: at the revision it noted last,
\* the server holds what it noted.
ConnuExact ==
  \A d \in Appareils, i \in Ids : connu[d][i] # Rien =>
    /\ objets[i] # Rien /\ connu[d][i].rev <= objets[i].rev
    /\ connu[d][i].rev = objets[i].rev =>
         connu[d][i].empreinte \in {Rien, objets[i].contenu}

\* Some device took in a deletion of i dated n or later.
Supprimee(i, n) == \E d \in Appareils : apprise[d][i] >= n

\* No write of the server overwrites one it has not seen: a live copy loses no
\* message by a push, but where somebody deleted it, a deletion covering it.
SansEcrasement ==
  [][\A i \in Ids :
       /\ generation' = generation
       /\ objets[i] # Rien /\ EstVivante(objets[i].contenu)
       /\ EstVivante(objets'[i].contenu)
       => \/ objets[i].contenu.messages \subseteq objets'[i].contenu.messages
          \/ Supprimee(i, objets[i].contenu.date)]_vars

\* A device whose store took in a deletion does not go on showing a copy dated
\* at most like it, be the tombstone purged since or the server restored to a
\* time before it, once the engine has looked at that copy.
SuppressionDefendue ==
  \A d \in Appareils, i \in Ids :
    EstVivante(locale[d][i]) /\ ~Attendue(d, i) =>
      locale[d][i].date > apprise[d][i]

\* What the server holds covers the row l.
Tient(o, l) == o # Rien /\ Recue(o.contenu, l) = o.contenu

\* The device says it is synchronised, and has nothing on its way for i.
Synchronisee(d, i) ==
  /\ pc[d] = "repos" /\ etat[d] = "upToDate" /\ genVue[d] = generation
  /\ locale[d][i] # Rien /\ ~Attendue(d, i)

\* "Synchronised" is true: a device that says so, and that has seen the present
\* generation of the server, holds no row the server lacks, but what it wrote
\* since, and what another device has deleted.
SynchroniseVrai ==
  \A d \in Appareils, i \in Ids : Synchronisee(d, i) =>
    \/ Tient(objets[i], locale[d][i])
    \/ EstVivante(locale[d][i]) /\ Supprimee(i, locale[d][i].date)

\* After a restoration "what differs or is missing on the server goes back into
\* sortants": a device that is synchronised again left nothing missing.
RienNeManque ==
  \A d \in Appareils, i \in Ids : Synchronisee(d, i) => objets[i] # Rien

Vue(l) == IF EstVivante(l) THEN l ELSE Rien

\* Once nobody writes any more and failures stop, all devices show the same.
Convergence ==
  <>[](\A d, e \in Appareils, i \in Ids : Vue(locale[d][i]) = Vue(locale[e][i]))
=============================================================================
