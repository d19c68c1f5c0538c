-------------------------- MODULE ImagesConversations --------------------------
(***************************************************************************)
(* The images of conversations between devices and server: detached from   *)
(* their conversation (compte/collections/conversations.py), deposited     *)
(* before it, claimed every day, marked orphan (compte/synchro.py), and    *)
(* what routes_pieces.py does of it.                                       *)
(*                                                                         *)
(* Here a step of a device ends with a request, and what it writes of the  *)
(* answer belongs to it.  The pull and the push are those of MoteurSynchro *)
(* with their detail left out: a page holds all that is new, and no table  *)
(* is written without its neighbours.                                      *)
(*                                                                         *)
(* A conversation holds one message per image; a message is absent, there  *)
(* without its image, there with it, or holds a reference to the image     *)
(* under an epoch, the only name the server knows: a piece is an image and *)
(* an epoch.                                                               *)
(***************************************************************************)
EXTENDS Integers, FiniteSets

CONSTANTS
  Appareils,    \* the devices of the account
  Ids,          \* its conversations, which all devices hold at the start
  Images,       \* images that may be sent, each with its message
  Rien,         \* None
  EpoqueMax,    \* bound: last epoch of the account's keys
  Retenue,      \* RETENTION_JOURS of orphans
  Cadence,      \* a device completes a claim at least every Cadence days
  JourMax,      \* bound: last day
  EvenementsMax \* bound: writes, deletions and rotations of the user, failures

ASSUME ImagesNumbers ==
  /\ {EpoqueMax, Cadence} \subseteq Nat \ {0}
  /\ {Retenue, JourMax, EvenementsMax} \subseteq Nat
  /\ Appareils # {} /\ Ids # {} /\ IsFiniteSet(Ids)

\* None is no number, no row of a table, no version of a conversation.
ASSUME RienIsNoValue ==
  LET Version == [date : Nat, images : [Images -> Int], morte : BOOLEAN] IN
  /\ Rien \notin Nat
  /\ Rien \notin Version
  /\ Rien \notin [reclame : Nat, orpheline : Nat \cup {Rien}]
  /\ Rien \notin [rev : Nat, seq : Nat, epoque : Nat, forme : Version]
  /\ Rien \notin [base : Nat, forme : Version]

VARIABLES
  locale,      \* locale[d][o]: the row of the store
  trous,       \* table pieces_manquantes: the reference a message lacks, or 0
  aExporter,   \* the rows numbered after the export cursor
  connu,       \* table connus: [rev, forme], forme Rien when forgotten
  sortant,     \* table sortants: the conversations to push
  plancher,    \* table planchers_suppression (-1: no row)
  refs,        \* table references_pieces
  connues,     \* table pieces_connues
  curseur,     \* curseurDistant
  reclamation, \* reclamationPiecesMs, the day of the last complete claim
  reprises,    \* table a_reprendre: images a failure kept from being read
  cycle,       \* the cycle under way
  session,     \* the devices the server still knows
  objets, pieces, seq, epoque,  \* the server
  errantes,    \* requests their device gave up, not yet handled
  jour, evenements,
  egarees      \* history: pieces of deposits and claims never answered, or
               \* claimed by a push that its device gave up

magasin == <<locale, trous, aExporter>>
tables  == <<connu, sortant, plancher, refs, connues, curseur, reclamation,
             reprises>>
serveur == <<objets, pieces, seq, epoque>>
autour  == <<jour, evenements, egarees>>
vars    == <<magasin, tables, cycle, session, serveur, errantes, autour>>

-----------------------------------------------------------------------------
(* Conversations and their images                                          *)

Absent == 0    \* no such message
Sans   == -1   \* a message without its image
Pleine == -2   \* a message with its image; n > 0: a reference, epoch n

Pieces == Images \X (1..EpoqueMax)
Aucune == [k \in Images |-> Absent]
MaxDe(a, b) == IF a >= b THEN a ELSE b

Vivante(n, im) == [date |-> n, images |-> im, morte |-> FALSE]
Tombale(n)     == [date |-> n, images |-> Aucune, morte |-> TRUE]

\* pieces(clair): what a form refers to.
References(c) ==
  {p \in Pieces : c.images[p[1]] = p[2]}

\* detacher, under epoch e.
Detachee(c, e) ==
  [c EXCEPT !.images = [k \in Images |-> IF @[k] = Pleine THEN e ELSE @[k]]]

\* rattacher, with the images of the pieces in S.
Rattachee(c, S) ==
  [c EXCEPT !.images =
     [k \in Images |-> IF <<k, @[k]>> \in S THEN Pleine ELSE @[k]]]

\* trous, combler, and what the store keeps of a message with a hole.
Trous(c) == [k \in Images |-> IF c.images[k] > 0 THEN c.images[k] ELSE 0]

MutComblee(c, t) == c
Comblee(c, t) ==
  [c EXCEPT !.images =
     [k \in Images |-> IF @[k] = Sans /\ t[k] > 0 THEN t[k] ELSE @[k]]]

SansTrou(c) ==
  [c EXCEPT !.images = [k \in Images |-> IF @[k] > 0 THEN Sans ELSE @[k]]]

\* upsert and appliquer_tombale: of a message, the version with its image wins.
Recue(l, c) ==
  IF c.morte
  THEN IF IF l.morte THEN l.date >= c.date ELSE l.date > c.date THEN l ELSE c
  ELSE IF l.morte THEN IF l.date >= c.date THEN l ELSE c
  ELSE Vivante(MaxDe(l.date, c.date),
               [k \in Images |-> IF l.images[k] <= c.images[k]
                                 THEN l.images[k] ELSE c.images[k]])

\* _clair_local: the row with its holes, under the floor f.
ClairSous(d, o, f) ==
  IF ~locale[d][o].morte /\ f >= locale[d][o].date THEN Tombale(f)
  ELSE Comblee(locale[d][o], trous[d][o])

ClairLocal(d, o) == ClairSous(d, o, plancher[d][o])

-----------------------------------------------------------------------------
(* The server                                                              *)

MutEchue(p) == /\ pieces[p] # Rien /\ pieces[p].orpheline # Rien
               /\ pieces[p].orpheline + Retenue <= jour
Echue(p) == /\ pieces[p] # Rien /\ pieces[p].orpheline # Rien
            /\ pieces[p].orpheline + Retenue < jour
Purgees == [p \in Pieces |-> IF Echue(p) THEN Rien ELSE pieces[p]]

Manquantes(S) ==
  {p \in S : pieces[p] = Rien \/ pieces[p].orpheline # Rien}

\* A claim takes a number of the account and lifts the marks.
ServirMissing(S) ==
  /\ pieces' = [p \in Pieces |->
       IF p \in S /\ pieces[p] # Rien
       THEN [reclame |-> seq + 1, orpheline |-> Rien] ELSE pieces[p]]
  /\ seq' = IF \E p \in S : pieces[p] # Rien THEN seq + 1 ELSE seq
  /\ UNCHANGED <<objets, epoque>>

\* The purge comes first, then the piece is created, or claimed.
ServirPut(p) ==
  IF p[2] # epoque THEN UNCHANGED serveur
  ELSE /\ pieces' = [Purgees EXCEPT
            ![p] = [reclame |-> seq + 1, orpheline |-> Rien]]
       /\ seq' = seq + 1
       /\ UNCHANGED <<objets, epoque>>

Reclamee(p, asOf) == pieces[p] # Rien /\ pieces[p].reclame > asOf

ServirDelete(p, asOf) ==
  /\ pieces' = [pieces EXCEPT ![p] =
       IF @ = Rien \/ Reclamee(p, asOf) THEN @
       ELSE IF @.orpheline # Rien THEN @ ELSE [@ EXCEPT !.orpheline = jour]]
  /\ UNCHANGED <<objets, seq, epoque>>

Stockes(l) == {o \in Ids : l[o] # Rien /\ l[o].base = objets[o].rev}

Numeros(l) ==
  {f \in [Stockes(l) -> (seq + 1)..(seq + Cardinality(Stockes(l)))] :
     \A a, b \in Stockes(l) : a # b => f[a] # f[b]}

ServirPush(l, e) ==
  IF e # epoque THEN UNCHANGED serveur
  ELSE /\ pieces' = Purgees
       /\ \E n \in Numeros(l) :
            objets' = [o \in Ids |->
              IF o \in Stockes(l)
              THEN [rev |-> l[o].base + 1, seq |-> n[o], epoque |-> e,
                    forme |-> l[o].forme]
              ELSE objets[o]]
       /\ seq' = seq + Cardinality(Stockes(l))
       /\ UNCHANGED epoque

\* A request whose session was revoked changes nothing.
Servir(r) ==
  IF r.de \notin session THEN UNCHANGED serveur
  ELSE \/ r.type = "missing" /\ ServirMissing(r.pieces)
       \/ r.type = "put"     /\ ServirPut(r.piece)
       \/ r.type = "delete"  /\ ServirDelete(r.piece, r.asOf)
       \/ r.type = "push"    /\ ServirPush(r.lot, r.epoque)

-----------------------------------------------------------------------------
(* The local store                                                         *)

Poser(d, o, c) ==
  /\ locale' = [locale EXCEPT ![d][o] = c]
  /\ aExporter' = [aExporter EXCEPT ![d] =
       IF c = locale[d][o] THEN @ ELSE @ \cup {o}]

\* A view adds a message, with an image or without, before or after what another
\* device does of the same version.
Ecrire(d, o, im) ==
  LET l == locale[d][o] IN
  /\ evenements > 0 /\ ~l.morte
  /\ im \in {l.images} \cup
       {[l.images EXCEPT ![k] = Pleine] : k \in {x \in Images : l.images[x] = Absent}}
  /\ \E n \in {1, 2} : Poser(d, o, Vivante(MaxDe(l.date + n, jour), im))
  /\ evenements' = evenements - 1
  /\ UNCHANGED <<trous, tables, cycle, session, serveur, errantes, jour, egarees>>

Supprimer(d, o) ==
  /\ evenements > 0 /\ ~locale[d][o].morte
  /\ Poser(d, o, Tombale(MaxDe(locale[d][o].date + 1, jour)))
  /\ evenements' = evenements - 1
  /\ UNCHANGED <<trous, tables, cycle, session, serveur, errantes, jour, egarees>>

-----------------------------------------------------------------------------
(* The cycle of a device                                                   *)

Vide == [o \in Ids |-> Rien]
Repos == [pc |-> "repos", ouverte |-> 0, asOf |-> 0, page |-> Vide,
          lot |-> Vide, file |-> {}, jour |-> 0]

\* After the claims, whether they succeeded or not, the push.
Poussant(c) == [Repos EXCEPT !.pc = "lot", !.ouverte = c.ouverte, !.asOf = c.asOf]

\* What is due, what it refers to under epoch e, and the pieces among these
\* whose image is here.
Dus(d) == {o \in sortant[d] : ClairLocal(d, o) # connu[d][o].forme}
ReferencesDe(d, S, e) == UNION {References(Detachee(ClairLocal(d, o), e)) : o \in S}
Tenues(d, S, e) ==
  {p \in Pieces : p[2] = e /\ \E o \in S : ClairLocal(d, o).images[p[1]] = Pleine}

\* toutes_references.
ToutesReferences(d) == UNION {refs[d][o] : o \in Ids}

Claim(d, S) == [de |-> d, type |-> "missing", pieces |-> S]
Depot(d, p) == [de |-> d, type |-> "put", piece |-> p]
Marque(d, p) == [de |-> d, type |-> "delete", piece |-> p, asOf |-> cycle[d].asOf]
Poussee(d) ==
  [de |-> d, type |-> "push", epoque |-> cycle[d].ouverte, jour |-> jour,
   lot |-> [o \in Ids |->
     IF cycle[d].lot[o] = Rien THEN Rien
     ELSE [base |-> connu[d][o].rev,
           forme |-> Detachee(cycle[d].lot[o], cycle[d].ouverte)]]]

\* The pieces of a lot that were claimed, their marks lifted, and not deposited
\* yet: no table holds them.
EnSuspens(d) == IF cycle[d].pc = "depose" THEN cycle[d].file ELSE {}

\* The pieces a request protects from their marks.
Protegees(r) ==
  CASE r.type = "put" -> {r.piece} [] r.type = "missing" -> r.pieces [] OTHER -> {}

\* The requests a device may be sending.
Requetes(d) ==
  LET c == cycle[d] IN
  CASE c.pc = "reclame" /\ jour > reclamation[d] -> {Claim(d, ToutesReferences(d))}
    [] c.pc \in {"ranime", "depose"} /\ c.file # {} ->
         {Depot(d, p) : p \in c.file}
    [] c.pc = "lot" -> {Claim(d, ReferencesDe(d, Dus(d), c.ouverte))}
    [] c.pc = "depose" /\ c.file = {} -> {Poussee(d)}
    [] c.pc = "marque" -> {Marque(d, p) : p \in c.file}
    [] OTHER -> {}

\* _exporter, with the rows of S still to push.
Exporter(d, S) ==
  LET f == [o \in Ids |-> IF o \in aExporter[d] /\ locale[d][o].morte
                          THEN MaxDe(plancher[d][o], locale[d][o].date)
                          ELSE plancher[d][o]]
      deja == {o \in aExporter[d] : connu[d][o].forme = ClairSous(d, o, f[o])}
  IN  /\ plancher'  = [plancher EXCEPT ![d] = f]
      /\ sortant'   = [sortant EXCEPT ![d] = (S \cup aExporter[d]) \ deja]
      /\ aExporter' = [aExporter EXCEPT ![d] = {}]
      /\ UNCHANGED <<locale, trous, connu, refs, connues, reclamation, reprises>>

\* The page goes on; the cursor moves when a pull is all taken in.
Suite(c) ==
  IF c.page # Vide THEN c
  ELSE [c EXCEPT !.pc = IF @ = "accueil" THEN "reclame" ELSE "lot"]

FinirPage(d, c) ==
  /\ cycle' = [cycle EXCEPT ![d] = Suite(c)]
  /\ curseur' = IF c.pc = "accueil" /\ c.page = Vide
                THEN [curseur EXCEPT ![d] = c.asOf] ELSE curseur

\* _cycle, up to the answer of its pull: a pull without an answer only leaves
\* its export, which the next one repeats.  A device whose session was revoked
\* connects again: its keys are current.
Tirer(d) ==
  /\ cycle[d].pc = "repos"
  /\ Exporter(d, sortant[d])
  /\ FinirPage(d, [Repos EXCEPT !.pc = "accueil", !.ouverte = epoque, !.asOf = seq,
       !.page = [o \in Ids |->
          IF objets[o].seq > curseur[d] THEN objets[o] ELSE Rien]])
  /\ session' = session \cup {d}
  /\ UNCHANGED <<serveur, errantes, autour>>

-----------------------------------------------------------------------------
(* _accueillir: an object from the page, or from a conflict                *)

Examinee(d, o) ==
  /\ cycle[d].pc \in {"accueil", "conflit"} /\ cycle[d].page[o] # Rien
  /\ \A x \in Ids : cycle[d].page[x] # Rien =>
                      cycle[d].page[o].seq <= cycle[d].page[x].seq
  /\ FinirPage(d, [cycle[d] EXCEPT !.page[o] = Rien])

\* The first pass attaches the images that are already here.
Ici(d, o) ==
  {p \in Pieces : locale[d][o].images[p[1]] = Pleine}
Premiere(d, o) == Rattachee(cycle[d].page[o].forme, Ici(d, o))

\* GET /pieces/{id}: those in ratees cannot be read now.
Lues(d, S, ratees) ==
  /\ ratees \subseteq S
  /\ S # {} => d \in session
  /\ evenements' = IF ratees = {} THEN evenements ELSE evenements - 1
  /\ evenements' >= 0
Recuperee(c, ratees) ==
  Rattachee(c, {p \in References(c) \ ratees : pieces[p] # Rien})

MutNoterReferences(d, o, c) ==
  refs' = [refs EXCEPT ![d][o] = {p \in References(c) : p \in connues[d]}]
NoterReferences(d, o, c) == refs' = [refs EXCEPT ![d][o] = References(c)]
ConnaitreReferences(d, c) ==
  connues' = [connues EXCEPT ![d] = @ \cup References(c)]

\* What this device knows the server holds.
Reconnaitre(d, o) ==
  LET e == cycle[d].page[o] IN
  /\ Examinee(d, o)
  /\ connu[d][o].forme = Premiere(d, o)
  /\ connu' = [connu EXCEPT ![d][o].rev = MaxDe(@, e.rev)]
  /\ NoterReferences(d, o, e.forme) /\ ConnaitreReferences(d, e.forme)
  /\ UNCHANGED <<magasin, sortant, plancher, reclamation, reprises, session,
                 serveur, errantes, autour>>

\* Another content under the same revision, sealed before the present epoch, is
\* taken for a forgery, and overwritten.
Perimee(d, o) ==
  /\ cycle[d].page[o].rev = connu[d][o].rev
  /\ connu[d][o].forme \notin {Rien, Premiere(d, o)}
  /\ cycle[d].page[o].epoque < IF d \in session THEN epoque ELSE cycle[d].ouverte

Douter(d, o) ==
  /\ Examinee(d, o) /\ Perimee(d, o)
  /\ connu' = [connu EXCEPT ![d][o].forme = Rien]
  /\ sortant' = [sortant EXCEPT ![d] = @ \cup {o}]
  /\ UNCHANGED <<magasin, plancher, refs, connues, reclamation, reprises, session,
                 serveur, errantes, autour>>

Nouvelle(d, o) == connu[d][o].forme # Premiere(d, o) /\ ~Perimee(d, o)

SousPlancher(d, o) ==
  LET c == cycle[d].page[o].forme IN ~c.morte /\ plancher[d][o] >= c.date

\* A live copy under a deletion: noted, not taken in; the tombstone goes out.
TenirPlancher(d, o, ratees) ==
  LET e == cycle[d].page[o]
      c == Recuperee(Premiere(d, o), ratees)
  IN  /\ Examinee(d, o) /\ Lues(d, References(Premiere(d, o)), ratees)
      /\ Nouvelle(d, o) /\ SousPlancher(d, o)
      /\ connu' = [connu EXCEPT ![d][o] = [rev |-> MaxDe(@.rev, e.rev), forme |-> c]]
      /\ NoterReferences(d, o, e.forme) /\ ConnaitreReferences(d, e.forme)
      /\ sortant' = [sortant EXCEPT ![d] = @ \cup {o}]
      /\ UNCHANGED <<magasin, plancher, reclamation, reprises, session, serveur,
                     errantes, jour, egarees>>

\* The store joins it without its holes, which are kept aside.
Ingerer(d, o, ratees) ==
  LET e == cycle[d].page[o]
      c == Recuperee(Premiere(d, o), ratees)
      f == IF c.morte THEN MaxDe(plancher[d][o], c.date) ELSE plancher[d][o]
  IN  /\ Examinee(d, o) /\ Lues(d, References(Premiere(d, o)), ratees)
      /\ Nouvelle(d, o) /\ ~SousPlancher(d, o)
      /\ Poser(d, o, Recue(locale[d][o], SansTrou(c)))
      /\ trous' = [trous EXCEPT ![d][o] = Trous(c)]
      /\ plancher' = [plancher EXCEPT ![d][o] = f]
      /\ connu' = [connu EXCEPT ![d][o] = [rev |-> MaxDe(@.rev, e.rev), forme |-> c]]
      /\ NoterReferences(d, o, e.forme) /\ ConnaitreReferences(d, e.forme)
      /\ reprises' = [reprises EXCEPT ![d] =
           IF ratees = {} THEN @ ELSE @ \cup {o}]
      /\ sortant' = [sortant EXCEPT ![d] =
           IF ClairLocal(d, o)' = c THEN @ ELSE @ \cup {o}]
      /\ UNCHANGED <<reclamation, session, serveur, errantes, jour, egarees>>

-----------------------------------------------------------------------------
(* Holes                                                                   *)

\* _reparer_trous: an image that came back goes to the store, and the version
\* noted is the same one, attached, lest its echo be pushed as it is.
Comblees(d, o) == Comblee(locale[d][o], trous[d][o])

FormeReparee(d, o, apres) ==
  IF connu[d][o].forme = Comblees(d, o) THEN apres ELSE connu[d][o].forme

\* GET of the holes of the conversations in S.
ReparerTrous(d, S, ratees, oubliees) ==
  LET apres == [o \in Ids |-> IF o \in S THEN Recuperee(Comblees(d, o), ratees)
                             ELSE Comblees(d, o)]
      recues == [o \in Ids |-> Recue(locale[d][o], SansTrou(apres[o]))]
  IN  /\ Lues(d, UNION {References(Comblees(d, o)) : o \in S}, ratees)
      /\ locale' = [locale EXCEPT ![d] = recues]
      /\ aExporter' = [aExporter EXCEPT
           ![d] = @ \cup {o \in Ids : recues[o] # locale[d][o]}]
      /\ trous' = [trous EXCEPT ![d] = [o \in Ids |-> Trous(apres[o])]]
      /\ connu' = [connu EXCEPT ![d] = [o \in Ids |->
           IF o \in oubliees THEN [@[o] EXCEPT !.forme = Rien]
           ELSE IF apres[o] = Comblees(d, o) THEN @[o]
           ELSE [@[o] EXCEPT !.forme = FormeReparee(d, o, apres[o])]]]

\* _reprendre_pieces, when its time has come.
Reprendre(d, o, ratees) ==
  /\ cycle[d].pc = "reclame" /\ o \in reprises[d]
  /\ ReparerTrous(d, {o}, ratees, {})
  /\ reprises' = [reprises EXCEPT ![d] = IF ratees = {} THEN @ \ {o} ELSE @]
  /\ UNCHANGED <<sortant, plancher, refs, connues, curseur, reclamation, cycle,
                 session, serveur, errantes, jour, egarees>>

-----------------------------------------------------------------------------
(* The daily claim                                                         *)

\* What is missing and held here under its present name is to be deposited
\* again.
Reclamer(d) ==
  LET S == ToutesReferences(d) IN
  /\ cycle[d].pc = "reclame" /\ jour > reclamation[d] /\ d \in session
  /\ Servir(Claim(d, S))
  /\ cycle' = [cycle EXCEPT ![d].pc = "ranime", ![d].jour = jour,
       ![d].file = Manquantes(S) \cap
          UNION {refs[d][o] \cap Tenues(d, {o}, cycle[d].ouverte) : o \in Ids},
       ![d].lot = [o \in Ids |->
          IF refs[d][o] \cap Manquantes(S) # {} THEN ClairLocal(d, o) ELSE Rien]]
  /\ UNCHANGED <<magasin, tables, session, errantes, autour>>

\* An object whose version of the server names its images otherwise than today
\* goes out again, under today's epoch.
Perimees(d) ==
  {o \in Ids : /\ cycle[d].lot[o] # Rien /\ ~cycle[d].lot[o].morte
               /\ References(Detachee(cycle[d].lot[o], cycle[d].ouverte)) # refs[d][o]}

\* The claim ends with the holes of all conversations, and its day is noted.
FinirReclamation(d, ratees) ==
  /\ cycle[d].pc = "ranime" /\ cycle[d].file = {}
  /\ ReparerTrous(d, Ids, ratees, Perimees(d))
  /\ sortant' = [sortant EXCEPT ![d] = @ \cup Perimees(d)]
  /\ reclamation' = [reclamation EXCEPT ![d] = cycle[d].jour]
  /\ cycle' = [cycle EXCEPT ![d] = Poussant(@)]
  /\ UNCHANGED <<plancher, refs, connues, curseur, reprises, session, serveur,
                 errantes, jour, egarees>>

-----------------------------------------------------------------------------
(* The push: images first                                                  *)

\* pieces_sans_reference: known, and referred to by nothing this device knows.
SansReference(d) == connues[d] \ ToutesReferences(d)

\* _preparer_lot and _deposer_pieces: all that the lot refers to is claimed.
PreparerLot(d) ==
  LET c == cycle[d]
      S == ReferencesDe(d, Dus(d), c.ouverte)
  IN  /\ c.pc = "lot" \/ (c.pc = "reclame" /\ jour - reclamation[d] <= 1)
      /\ Dus(d) # {}
      /\ S # {} => d \in session
      /\ Servir(Claim(d, S))
      /\ sortant' = [sortant EXCEPT ![d] = Dus(d)]
      /\ cycle' = [cycle EXCEPT ![d] = [Poussant(@) EXCEPT !.pc = "depose",
           !.lot = [o \in Ids |-> IF o \in Dus(d) THEN ClairLocal(d, o) ELSE Rien],
           !.file = Manquantes(S) \cap Tenues(d, Dus(d), c.ouverte)]]
      /\ UNCHANGED <<magasin, connu, plancher, refs, connues, curseur,
                     reclamation, reprises, session, errantes, autour>>

\* Nothing to push, or nothing any more: the orphans.
RienAPousser(d) ==
  /\ cycle[d].pc \in {"reclame", "lot"} /\ Dus(d) = {}
  /\ cycle[d].pc = "reclame" => jour - reclamation[d] <= 1

PreparerMarques(d) ==
  /\ RienAPousser(d) /\ SansReference(d) # {}
  /\ sortant' = [sortant EXCEPT ![d] = {}]
  /\ cycle' = [cycle EXCEPT ![d] =
       [Poussant(@) EXCEPT !.pc = "marque", !.file = SansReference(d)]]
  /\ UNCHANGED <<magasin, connu, plancher, refs, connues, curseur, reclamation,
                 reprises, session, serveur, errantes, autour>>

\* _deposer, for a lot or for a claim: the piece is known once it is deposited.
MutDeposees(d, p) == connues[d]
Deposees(d, p) == connues[d] \cup {p}

Deposer(d, p) ==
  /\ cycle[d].pc \in {"ranime", "depose"} /\ p \in cycle[d].file
  /\ d \in session /\ cycle[d].ouverte = epoque
  /\ Servir(Depot(d, p))
  /\ connues' = [connues EXCEPT ![d] = Deposees(d, p)]
  /\ cycle' = [cycle EXCEPT ![d].file = @ \ {p}]
  /\ UNCHANGED <<magasin, connu, sortant, plancher, refs, curseur, reclamation,
                 reprises, session, errantes, autour>>

\* keyEpochChanged: this device rotated the keys itself.  A push is prepared
\* again under the new ones, a claim gives up until the next cycle.
Perimer(d) ==
  /\ d \in session /\ cycle[d].ouverte # epoque
  /\ cycle[d].pc = "depose" \/ (cycle[d].pc = "ranime" /\ cycle[d].file # {})
  /\ cycle' = [cycle EXCEPT ![d] =
       IF @.pc = "depose" THEN [Poussant(@) EXCEPT !.ouverte = epoque]
       ELSE Poussant(@)]
  /\ UNCHANGED <<magasin, tables, session, serveur, errantes, autour>>

\* The push and its answers: what is stored is known, what lost is taken in.
Pousser(d) ==
  LET c == cycle[d]
      S == Stockes(Poussee(d).lot)
  IN  /\ c.pc = "depose" /\ c.file = {} /\ d \in session /\ c.ouverte = epoque
      /\ Servir(Poussee(d))
      /\ connu' = [connu EXCEPT ![d] = [o \in Ids |->
           IF o \in S THEN [rev |-> @[o].rev + 1, forme |-> c.lot[o]] ELSE @[o]]]
      /\ plancher' = [plancher EXCEPT ![d] = [o \in Ids |->
           IF o \in S /\ c.lot[o].morte THEN MaxDe(@[o], c.lot[o].date) ELSE @[o]]]
      /\ refs' = [refs EXCEPT ![d] = [o \in Ids |->
           IF o \in S THEN References(Detachee(c.lot[o], c.ouverte)) ELSE @[o]]]
      /\ connues' = [connues EXCEPT ![d] = @ \cup UNION {refs'[d][o] : o \in S}]
      /\ trous' = [trous EXCEPT ![d] = [o \in Ids |->
           IF o \in S /\ c.lot[o].morte THEN Aucune ELSE @[o]]]
      /\ sortant' = [sortant EXCEPT ![d] = @ \ S]
      /\ FinirPage(d, [Poussant(c) EXCEPT !.pc = "conflit",
           !.page = [o \in Ids |->
              IF c.lot[o] # Rien /\ o \notin S THEN objets[o] ELSE Rien]])
      /\ UNCHANGED <<locale, aExporter, reclamation, reprises, session,
                     errantes, autour>>

-----------------------------------------------------------------------------
(* Orphans                                                                 *)

\* A piece claimed since this device's pull stays a candidate.
MutMarquee(d, p) == connues[d] \ {p}
Marquee(d, p) ==
  IF Reclamee(p, cycle[d].asOf) THEN connues[d] ELSE connues[d] \ {p}

Marquer(d, p) ==
  /\ cycle[d].pc = "marque" /\ p \in cycle[d].file /\ d \in session
  /\ Servir(Marque(d, p))
  /\ connues' = [connues EXCEPT ![d] = Marquee(d, p)]
  /\ cycle' = [cycle EXCEPT ![d].file = @ \ {p}]
  /\ UNCHANGED <<magasin, connu, sortant, plancher, refs, curseur, reclamation,
                 reprises, session, errantes, autour>>

Conclure(d) ==
  /\ \/ RienAPousser(d) /\ SansReference(d) = {}
     \/ cycle[d].pc = "marque" /\ cycle[d].file = {}
  /\ Exporter(d, {})
  /\ cycle' = [cycle EXCEPT ![d] = Repos]
  /\ UNCHANGED <<curseur, session, serveur, errantes, autour>>

-----------------------------------------------------------------------------
(* Failures, rotation, days                                                *)

\* _entretien: a claim or a mark that fails does not end the cycle.
ApresEchec(c) ==
  IF c.pc \in {"reclame", "ranime"} THEN Poussant(c)
  ELSE IF c.pc = "marque" THEN [c EXCEPT !.file = {}]
  ELSE Repos

\* A request without an answer, which the server has handled, will handle, or
\* never will.
Perdre(d, r) ==
  /\ evenements > 0 /\ evenements' = evenements - 1
  /\ r \in Requetes(d)
  /\ \/ Servir(r) /\ UNCHANGED errantes
     \/ UNCHANGED <<serveur, errantes>>
     \/ errantes' = errantes \cup {r} /\ UNCHANGED serveur
  /\ egarees' = egarees \cup Protegees(r) \cup EnSuspens(d)
  /\ cycle' = [cycle EXCEPT ![d] = ApresEchec(@)]
  /\ UNCHANGED <<magasin, tables, session, jour>>

ServirErrante(r) ==
  /\ r \in errantes /\ Servir(r)
  /\ errantes' = errantes \ {r}
  /\ UNCHANGED <<magasin, tables, cycle, session, autour>>

Mourir(d) ==
  /\ cycle[d].pc # "repos" /\ evenements > 0 /\ evenements' = evenements - 1
  /\ cycle' = [cycle EXCEPT ![d] = Repos]
  /\ egarees' = egarees \cup EnSuspens(d)
  /\ UNCHANGED <<magasin, tables, session, serveur, errantes, jour>>

\* A rotation of the keys, by one device, revokes the sessions of the others,
\* whose next request ends their cycle.
Tourner(d) ==
  /\ epoque < EpoqueMax /\ d \in session
  /\ evenements > 0 /\ evenements' = evenements - 1
  /\ epoque' = epoque + 1
  /\ session' = {d}
  /\ UNCHANGED <<magasin, tables, cycle, objets, pieces, seq, errantes, jour,
                 egarees>>

Expulser(d) ==
  /\ d \notin session
  /\ Requetes(d) # {} \/ cycle[d].pc \in {"accueil", "conflit", "reclame", "ranime"}
  /\ cycle' = [cycle EXCEPT ![d] = Repos]
  /\ UNCHANGED <<magasin, tables, session, serveur, errantes, autour>>

\* No day ends before the claims that were due in it, and a push its device gave
\* up is handled within Cadence days, or never.
Avancer ==
  /\ jour < JourMax
  /\ \A d \in Appareils : jour - reclamation[d] < Cadence
  /\ \A r \in errantes : r.type = "push" => jour - r.jour < Cadence
  /\ jour' = jour + 1
  /\ UNCHANGED <<magasin, tables, cycle, session, serveur, errantes, evenements,
                 egarees>>

-----------------------------------------------------------------------------
\* All devices hold the same conversations, with the images already sent; the
\* one that pushed them has not pulled since.
Depart(envoyees, n) ==
  LET sue    == Vivante(0, [k \in Images |-> IF k \in envoyees THEN Pleine ELSE Absent])
      scelle == Detachee(sue, 1)
      nommes == References(scelle)
  IN  /\ locale = [d \in Appareils |-> [o \in Ids |-> sue]]
      /\ connu = [d \in Appareils |-> [o \in Ids |-> [rev |-> 1, forme |-> sue]]]
      /\ refs = [d \in Appareils |-> [o \in Ids |-> nommes]]
      /\ connues = [d \in Appareils |-> nommes]
      /\ pieces = [p \in Pieces |->
           IF p \in nommes THEN [reclame |-> 1, orpheline |-> Rien] ELSE Rien]
      /\ objets = [o \in Ids |->
           [rev |-> 1, seq |-> n[o], epoque |-> 1, forme |-> scelle]]

Init ==
  /\ \E envoyees \in SUBSET Images, n \in [Ids -> 1..Cardinality(Ids)] :
       /\ \A a, b \in Ids : a # b => n[a] # n[b]
       /\ Depart(envoyees, n)
  /\ trous = [d \in Appareils |-> [o \in Ids |-> Aucune]]
  /\ aExporter = [d \in Appareils |-> {}]
  /\ sortant = [d \in Appareils |-> {}]
  /\ plancher = [d \in Appareils |-> [o \in Ids |-> -1]]
  /\ seq = Cardinality(Ids)
  /\ \E auteur \in Appareils :
       curseur = [d \in Appareils |-> IF d = auteur THEN 0 ELSE seq]
  /\ reclamation = [d \in Appareils |-> 0]
  /\ reprises = [d \in Appareils |-> {}]
  /\ cycle = [d \in Appareils |-> Repos]
  /\ session = Appareils
  /\ epoque = 1 /\ errantes = {} /\ egarees = {}
  /\ jour = 0 /\ evenements = EvenementsMax

Accueillir(d, o) ==
  \/ Reconnaitre(d, o) \/ Douter(d, o)
  \/ \E ratees \in SUBSET Pieces : TenirPlancher(d, o, ratees) \/ Ingerer(d, o, ratees)

Etape(d) ==
  \/ Tirer(d) \/ Reclamer(d) \/ PreparerLot(d)
  \/ Perimer(d) \/ Pousser(d) \/ PreparerMarques(d) \/ Conclure(d) \/ Expulser(d)
  \/ \E p \in Pieces : Deposer(d, p) \/ Marquer(d, p)
  \/ \E o \in Ids : Accueillir(d, o)
  \/ \E ratees \in SUBSET Pieces :
       FinirReclamation(d, ratees) \/ \E o \in Ids : Reprendre(d, o, ratees)

Utilisateur ==
  \/ \E d \in Appareils, o \in Ids :
       Supprimer(d, o) \/ \E im \in [Images -> {Absent, Sans, Pleine}] : Ecrire(d, o, im)
  \/ \E d \in Appareils : Tourner(d)

Pannes ==
  \/ \E d \in Appareils : Mourir(d) \/ \E r \in Requetes(d) : Perdre(d, r)
  \/ \E r \in errantes : ServirErrante(r)

Next == Utilisateur \/ Avancer \/ (\E d \in Appareils : Etape(d)) \/ Pannes

Spec == Init /\ [][Next]_vars

-----------------------------------------------------------------------------
EstForme(c) ==
  /\ c.date \in Nat /\ c.morte \in BOOLEAN
  /\ c.images \in [Images -> -2..EpoqueMax]
  /\ c.morte => c.images = Aucune

\* Types; the store holds no reference, and the server no image in the clear.
TypeOK ==
  /\ \A d \in Appareils, o \in Ids :
       /\ EstForme(locale[d][o]) /\ References(locale[d][o]) = {}
       /\ trous[d][o] \in [Images -> 0..EpoqueMax]
       /\ connu[d][o].rev \in 1..objets[o].rev
       /\ connu[d][o].forme # Rien => EstForme(connu[d][o].forme)
       /\ refs[d][o] \subseteq Pieces
  /\ \A o \in Ids :
       /\ EstForme(objets[o].forme) /\ objets[o].seq \in 1..seq
       /\ objets[o].epoque \in 1..epoque
       /\ \A k \in Images : objets[o].forme.images[k] # Pleine
  /\ \A p \in Pieces : pieces[p] # Rien =>
       pieces[p].reclame \in 1..seq /\ (pieces[p].orpheline = Rien \/ pieces[p].orpheline \in 0..jour)
  /\ \A d \in Appareils : curseur[d] \in 0..seq /\ connues[d] \subseteq Pieces

\* What the server's version of a conversation refers to is on the server: images
\* are deposited and claimed before it, and the claims of devices that sync every
\* day come before the purge of what another marked on an older pull.
ImageReferencee ==
  \A o \in Ids : \A p \in References(objets[o].forme) : pieces[p] # Rien

\* A device that lacks an image does not erase it: a live version replaced by a
\* live version keeps the image of every message (trous and combler).
ImageGardee ==
  [][\A o \in Ids, k \in Images :
       objets[o].forme.images[k] > 0 /\ ~objets'[o].forme.morte
         => objets'[o].forme.images[k] > 0]_vars

\* A device that deposited an image, or was told of it, keeps it in view until
\* the server has marked it, whatever becomes of the conversation.  Only images
\* of the present epoch, deposited and claimed with an answer, are in its reach;
\* one whose mark a claim lifted is in nobody's if the device dies before it
\* deposits it (_deposer_pieces, connaitre_piece).
ImageSuivie ==
  \A p \in Pieces \ egarees :
    pieces[p] # Rien /\ pieces[p].orpheline = Rien /\ p[2] = epoque =>
      \E d \in Appareils : p \in connues[d] \cup EnSuspens(d)

\* What a device without an image would send back of it is among the references
\* its daily claim protects: a complete version or a deletion drops the hole.
TrouReference ==
  \A d \in Appareils, o \in Ids, k \in Images :
    trous[d][o][k] > 0 /\ ~locale[d][o].morte => <<k, trous[d][o][k]>> \in refs[d][o]
===============================================================================
