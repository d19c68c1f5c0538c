----------------------------- MODULE SyncServer -----------------------------
(***************************************************************************)
(* The blind synchronisation server of one account: the routes /sync/* of  *)
(* diapason_comptes/routes_synchro.py and /pieces/* of routes_pieces.py,   *)
(* with the two transactions of routes_coffre.py that change what they     *)
(* check (a key rotation, a completed reset).                              *)
(*                                                                         *)
(* Every route is one SQLite transaction under the connection's lock.  A   *)
(* push is the only one whose inside matters: it treats its elements one   *)
(* after the other against counters it carries along, and a failing COMMIT *)
(* must leave no trace.  It is therefore cut into PousserDebut, one step   *)
(* per element, and PousserValider or PousserAnnuler; the variables ending *)
(* in Tx are what the open push would commit now, and every other          *)
(* transaction waits for it.                                               *)
(*                                                                         *)
(* The devices of this module are observers: what a device knows is the    *)
(* cursor it resumes from and the revision it believes each object has.    *)
(* What a device decides to push is arbitrary here; what the engine really *)
(* pushes is in MoteurSynchro.                                             *)
(***************************************************************************)
EXTENDS Integers, FiniteSets, Functions

CONSTANTS
  Objets,        \* object identifiers of the account
  Pieces,        \* image identifiers of the account
  Appareils,     \* devices
  Clairs,        \* what an object's blob may hold
  Taille,        \* Taille[c]: bytes of the blob that holds c
  TaillePiece,   \* bytes of an image
  Rien,          \* no value (SQL NULL, None)
  ObjetMax,      \* OBJET_MAX_OCTETS
  ObjetsMax,     \* OBJETS_MAX
  PiecesMax,     \* PIECES_MAX
  PageMax,       \* PAGE_ELEMENTS_MAX
  LotMax,        \* POUSSEE_ELEMENTS_MAX
  ConflitsMax,   \* CONFLITS_OCTETS_MAX
  Quota,         \* comptes.quota_octets
  Retenue,       \* RETENUE_JOURS
  SeqMax,        \* bound: no write once the account's seq reaches it
  JourMax,       \* bound: last day
  EpoqueMax,     \* bound: last key epoch
  IncarnationMax \* bound: last incarnation of the account

\* identifiant_opaque (validation.py:416): identifiers are strings of one length.
ASSUME IdentifiersAreFinite == IsFiniteSet(Objets) /\ IsFiniteSet(Pieces)
ASSUME SizesAreNaturals ==
  /\ Taille \in [Clairs -> Nat]
  /\ TaillePiece \in Nat
ASSUME LimitsAreNaturals ==
  /\ {ObjetMax, ObjetsMax, PiecesMax, ConflitsMax, Quota, Retenue} \subseteq Nat
  /\ {PageMax, LotMax} \subseteq Nat \ {0}
  /\ {SeqMax, JourMax, EpoqueMax, IncarnationMax} \subseteq Nat

VARIABLES
  compte,   \* the row of table comptes: seq, epoque_cle, incarnation
  octets,   \* its column octets
  objets,   \* table objets (a revision 0: no row)
  pieces,   \* table pieces
  jour,     \* the server's clock, in days
  auteur,   \* the device whose push is open, or Rien
  traites,  \* how many elements of its batch are done with
  conflits, \* the bytes of current versions its answer already holds
  seqTx, octetsTx, objetsTx, piecesTx,  \* what it would commit now
  appris,   \* the revisions its answer will tell the device
  curseur,  \* curseur[a]: the cursor device a resumes its pull from
  vu,       \* vu[a][o]: the revision device a believes o has
  incVue,   \* incVue[a]: the incarnation device a works under
  page      \* page[a]: the answer to device a's pull, not yet handled, or Rien

serveur == <<compte, octets, objets, pieces>>
transaction == <<auteur, traites, conflits, seqTx, octetsTx, objetsTx, piecesTx,
                 appris>>
appareils == <<curseur, vu, incVue, page>>
vars == <<compte, octets, objets, pieces, jour, auteur, traites, conflits,
          seqTx, octetsTx, objetsTx, piecesTx, appris,
          curseur, vu, incVue, page>>

-----------------------------------------------------------------------------
(* Values                                                                  *)

Blobs == [epoque : Nat \ {0}, clair : Clairs]

TailleDe(b) == IF b = Rien THEN 0 ELSE Taille[b.clair]

Comptes == [seq : Nat, epoque : Nat \ {0}, incarnation : Nat \ {0}]

\* One row of objets: the current version and the replaced one.
Lignes == [rev : Nat, seq : Nat, blob : Blobs \cup {Rien},
           revPrec : Nat, blobPrec : Blobs \cup {Rien}, jourPrec : Nat]

Absent == [rev |-> 0, seq |-> 0, blob |-> Rien,
           revPrec |-> 0, blobPrec |-> Rien, jourPrec |-> 0]

\* One row of pieces.  jourReclame is a history variable: the day of the last
\* claim (no column holds it).
LignesPiece == [presente : BOOLEAN, reclame : Nat,
                orpheline : Nat \cup {Rien}, jourReclame : Nat]

SansPiece == [presente |-> FALSE, reclame |-> 0, orpheline |-> Rien,
              jourReclame |-> 0]

\* An answer to a pull: the objects it returns with their revisions, and the
\* cursor to resume from.
ReponsesPage == [revs : [Objets -> Nat], rendus : SUBSET Objets, jusqua : Nat]

ASSUME RienIsNoValue ==
  Rien \notin Nat \cup Appareils \cup Blobs \cup ReponsesPage

TypeOK ==
  /\ compte \in Comptes
  /\ objets \in [Objets -> Lignes]
  /\ pieces \in [Pieces -> LignesPiece]
  /\ jour \in Nat
  /\ auteur \in Appareils \cup {Rien}
  /\ traites \in Nat /\ conflits \in Nat /\ seqTx \in Nat
  /\ objetsTx \in [Objets -> Lignes]
  /\ piecesTx \in [Pieces -> LignesPiece]
  /\ appris \in [Objets -> Nat]
  /\ curseur \in [Appareils -> Nat]
  /\ vu \in [Appareils -> [Objets -> Nat]]
  /\ incVue \in [Appareils -> Nat \ {0}]
  /\ page \in [Appareils -> ReponsesPage \cup {Rien}]

Init ==
  /\ compte = [seq |-> 0, epoque |-> 1, incarnation |-> 1]
  /\ octets = 0
  /\ objets = [o \in Objets |-> Absent]
  /\ pieces = [p \in Pieces |-> SansPiece]
  /\ jour = 0
  /\ auteur = Rien
  /\ traites = 0 /\ conflits = 0 /\ seqTx = 0 /\ octetsTx = 0
  /\ objetsTx = [o \in Objets |-> Absent]
  /\ piecesTx = [p \in Pieces |-> SansPiece]
  /\ appris = [o \in Objets |-> 0]
  /\ curseur = [a \in Appareils |-> 0]
  /\ vu = [a \in Appareils |-> [o \in Objets |-> 0]]
  /\ incVue = [a \in Appareils |-> 1]
  /\ page = [a \in Appareils |-> Rien]

-----------------------------------------------------------------------------
(* Maintenance without a timer: purger_retenues runs inside a push or a    *)
(* PUT and forgets what has been retained for more than Retenue days.      *)

Echu(j) == j < jour - Retenue

PrecedenteEchue(l) == l.blobPrec # Rien /\ Echu(l.jourPrec)

OrphelineEchue(p) == p.presente /\ p.orpheline # Rien /\ Echu(p.orpheline)

ObjetsPurges ==
  [o \in Objets |->
     IF PrecedenteEchue(objets[o])
     THEN [objets[o] EXCEPT !.revPrec = 0, !.blobPrec = Rien, !.jourPrec = 0]
     ELSE objets[o]]

PiecesPurgees ==
  [p \in Pieces |-> IF OrphelineEchue(pieces[p]) THEN SansPiece ELSE pieces[p]]

\* Mutant: what the purge freed is not subtracted.
MutRienLibere == 0

OctetsPurges ==
  SumFunction([o \in Objets |-> IF PrecedenteEchue(objets[o])
                                THEN TailleDe(objets[o].blobPrec) ELSE 0])
  + TaillePiece * Cardinality({p \in Pieces : OrphelineEchue(pieces[p])})

-----------------------------------------------------------------------------
(* POST /sync/push                                                         *)

\* sync_push refuses the whole batch unless it was sealed under the account's
\* incarnation and key epoch; a refusal changes nothing.
PousserDebut(a) ==
  /\ auteur = Rien
  /\ compte.seq < SeqMax
  /\ incVue[a] = compte.incarnation
  /\ page[a] = Rien
  /\ auteur' = a
  /\ traites' = 0
  /\ conflits' = 0
  /\ seqTx' = compte.seq
  /\ octetsTx' = octets - OctetsPurges
  /\ objetsTx' = ObjetsPurges
  /\ piecesTx' = PiecesPurgees
  /\ appris' = vu[a]
  /\ UNCHANGED <<serveur, jour, appareils>>

\* Mutant: a blob of an older epoch is accepted.
MutExaminableSansEpoque(b) == TailleDe(b) <= ObjetMax

\* Before an element is compared with the stored row.
Examinable(b) ==
  /\ TailleDe(b) <= ObjetMax
  /\ b.epoque = compte.epoque

\* The answers "objectTooLarge" and "invalidEnvelope".
ElementEcarte(b) ==
  /\ ~Examinable(b)
  /\ traites' = traites + 1
  /\ UNCHANGED <<conflits, seqTx, octetsTx, objetsTx, appris>>

\* The current versions of one answer fit in ConflitsMax, the first excepted.
ConflitTient(l) ==
  conflits = 0 \/ conflits + TailleDe(l.blob) <= ConflitsMax

\* The answer "conflict" with the current version, null for a missing row.
ElementEnConflit(o, base, b) ==
  LET l == objetsTx[o] IN
  /\ Examinable(b)
  /\ base # l.rev
  /\ l.rev = 0 \/ ConflitTient(l)
  /\ traites' = traites + 1
  /\ conflits' = conflits + TailleDe(l.blob)
  /\ appris' = [appris EXCEPT ![o] = l.rev]
  /\ UNCHANGED <<seqTx, octetsTx, objetsTx>>

\* Too many bytes of current versions in this answer: this element and all
\* the ones after it are deferred, unexamined.
ElementDiffere(o, base, b) ==
  LET l == objetsTx[o] IN
  /\ Examinable(b)
  /\ base # l.rev
  /\ l.rev # 0
  /\ ~ConflitTient(l)
  /\ traites' = LotMax
  /\ UNCHANGED <<conflits, seqTx, octetsTx, objetsTx, appris>>

\* The replaced version becomes the previous one and the previous one goes.
Variation(l, b) == TailleDe(b) - TailleDe(l.blobPrec)

\* Mutant: only a new object is held to the quota.
MutGrossitSiNeuf(l, b) == l.rev = 0

Grossit(l, b) == l.rev = 0 \/ TailleDe(b) > TailleDe(l.blob)

Nombre == Cardinality({o \in Objets : objetsTx[o].rev # 0})

Tient(l, b) ==
  /\ l.rev = 0 => Nombre < ObjetsMax
  /\ Grossit(l, b) => octetsTx + Variation(l, b) <= Quota

\* The answer "quotaExceeded".
ElementHorsQuota(o, base, b) ==
  LET l == objetsTx[o] IN
  /\ Examinable(b)
  /\ base = l.rev
  /\ ~Tient(l, b)
  /\ traites' = traites + 1
  /\ UNCHANGED <<conflits, seqTx, octetsTx, objetsTx, appris>>

\* Mutants: the row keeps the seq read before the increment; the day of the
\* replacement is left NULL.
MutLigneSeqLu(l, b, seq) ==
  [rev |-> l.rev + 1, seq |-> seq - 1, blob |-> b,
   revPrec |-> l.rev, blobPrec |-> l.blob,
   jourPrec |-> IF l.rev = 0 THEN 0 ELSE jour]

MutLigneSansJour(l, b, seq) ==
  [rev |-> l.rev + 1, seq |-> seq, blob |-> b,
   revPrec |-> l.rev, blobPrec |-> l.blob, jourPrec |-> Rien]

\* What a stored element makes of its row.
LigneStockee(l, b, seq) ==
  [rev |-> l.rev + 1, seq |-> seq, blob |-> b,
   revPrec |-> l.rev, blobPrec |-> l.blob,
   jourPrec |-> IF l.rev = 0 THEN 0 ELSE jour]

ElementStocke(o, base, b) ==
  LET l == objetsTx[o] IN
  /\ Examinable(b)
  /\ base = l.rev
  /\ Tient(l, b)
  /\ seqTx < SeqMax
  /\ traites' = traites + 1
  /\ seqTx' = seqTx + 1
  /\ octetsTx' = octetsTx + Variation(l, b)
  /\ objetsTx' = [objetsTx EXCEPT ![o] = LigneStockee(l, b, seqTx + 1)]
  /\ appris' = [appris EXCEPT ![o] = l.rev + 1]
  /\ UNCHANGED conflits

\* One element of the batch, whatever it is: any base, any content, and an
\* envelope that claims the account's epoch or the one before it.
PousserElement ==
  /\ auteur # Rien
  /\ traites < LotMax
  /\ \E o \in Objets, base \in 0 .. SeqMax, c \in Clairs,
        e \in {compte.epoque, compte.epoque - 1} \ {0} :
       LET b == [epoque |-> e, clair |-> c] IN
       \/ ElementEcarte(b)
       \/ ElementEnConflit(o, base, b)
       \/ ElementDiffere(o, base, b)
       \/ ElementHorsQuota(o, base, b)
       \/ ElementStocke(o, base, b)
  /\ UNCHANGED <<serveur, jour, auteur, piecesTx, appareils>>

\* The connection is free again.
Fermer ==
  /\ auteur' = Rien
  /\ traites' = 0 /\ conflits' = 0 /\ seqTx' = 0 /\ octetsTx' = 0
  /\ objetsTx' = [o \in Objets |-> Absent]
  /\ piecesTx' = [p \in Pieces |-> SansPiece]
  /\ appris' = [o \in Objets |-> 0]

\* COMMIT.  The answer reaches the device, which notes the revisions it was
\* told, or it is lost.
PousserValider ==
  /\ auteur # Rien
  /\ compte' = [compte EXCEPT !.seq = seqTx]
  /\ octets' = octetsTx
  /\ objets' = objetsTx
  /\ pieces' = piecesTx
  /\ Fermer
  /\ \/ vu' = [vu EXCEPT ![auteur] = appris]
     \/ vu' = vu
  /\ UNCHANGED <<jour, curseur, incVue, page>>

\* An exception, a refused COMMIT or a killed process: ROLLBACK.
PousserAnnuler ==
  /\ auteur # Rien
  /\ Fermer
  /\ UNCHANGED <<serveur, jour, appareils>>

-----------------------------------------------------------------------------
(* GET /sync/changes                                                       *)

Candidats(depuis) ==
  {o \in Objets : objets[o].rev # 0 /\ objets[o].seq > depuis}

\* The object a page ends with; none for an empty page.
Derniers(depuis) ==
  IF Candidats(depuis) = {} THEN {Rien} ELSE Candidats(depuis)

\* The page that ends with d: the candidates whose seq is at most d's.
Rendus(depuis, d) == {o \in Candidats(depuis) : objets[o].seq <= objets[d].seq}

\* Mutants: the cursor jumps to the account's seq although objects remain; the
\* cursor stops at the last object although seqs without object follow.
MutJusquaDuCompte(depuis, d) == compte.seq

MutJusquaDernier(depuis, d) == IF d = Rien THEN depuis ELSE objets[d].seq

\* until: the seq of the last element if some remain, else the account's.
Jusqua(depuis, d) ==
  IF Rendus(depuis, d) # Candidats(depuis) THEN objets[d].seq ELSE compte.seq

Reponse(R, jusqua) ==
  [revs |-> [o \in Objets |-> IF o \in R THEN objets[o].rev ELSE 0],
   rendus |-> R, jusqua |-> jusqua]

\* The candidates of lowest seq, at most PageMax, at least one if there is any;
\* where the page stops within these limits depends on the bytes of its blobs.
SyncChanges(a) ==
  LET depuis == curseur[a] IN
  /\ auteur = Rien
  /\ page[a] = Rien
  /\ incVue[a] = compte.incarnation
  /\ \E d \in Derniers(depuis) :
       /\ Cardinality(Rendus(depuis, d)) <= PageMax
       /\ page' = [page EXCEPT ![a] =
                     Reponse(Rendus(depuis, d), Jusqua(depuis, d))]
  /\ UNCHANGED <<serveur, jour, transaction, curseur, vu, incVue>>

\* The device handles the page it was sent, or the answer is lost.
RecevoirPage(a) ==
  /\ page[a] # Rien
  /\ vu' = [vu EXCEPT ![a] =
              [o \in Objets |-> IF o \in page[a].rendus
                                THEN page[a].revs[o] ELSE vu[a][o]]]
  /\ curseur' = [curseur EXCEPT ![a] = page[a].jusqua]
  /\ page' = [page EXCEPT ![a] = Rien]
  /\ UNCHANGED <<serveur, jour, transaction, incVue>>

PerdrePage(a) ==
  /\ page[a] # Rien
  /\ page' = [page EXCEPT ![a] = Rien]
  /\ UNCHANGED <<serveur, jour, transaction, curseur, vu, incVue>>

\* After a reset a device starts again under the new incarnation, from zero.
Rejoindre(a) ==
  /\ auteur = Rien
  /\ page[a] = Rien
  /\ incVue[a] # compte.incarnation
  /\ incVue' = [incVue EXCEPT ![a] = compte.incarnation]
  /\ curseur' = [curseur EXCEPT ![a] = 0]
  /\ vu' = [vu EXCEPT ![a] = [o \in Objets |-> 0]]
  /\ UNCHANGED <<serveur, jour, transaction, page>>

-----------------------------------------------------------------------------
(* POST /pieces/missing, PUT and DELETE /pieces/{id}                       *)

Presentes(P) == {p \in P : pieces[p].presente}

\* Mutant: the claim leaves an orphan marked.
MutPiecesMissing(P) ==
  /\ auteur = Rien
  /\ Presentes(P) # {}
  /\ compte.seq < SeqMax
  /\ compte' = [compte EXCEPT !.seq = @ + 1]
  /\ pieces' = [p \in Pieces |->
                  IF p \in Presentes(P)
                  THEN [pieces[p] EXCEPT !.reclame = compte.seq + 1,
                                         !.jourReclame = jour]
                  ELSE pieces[p]]
  /\ UNCHANGED <<octets, objets, jour, transaction, appareils>>

\* Every listed image that exists is claimed, an orphan included; the seq
\* advances only if one exists.
PiecesMissing(P) ==
  /\ auteur = Rien
  /\ Presentes(P) # {}
  /\ compte.seq < SeqMax
  /\ compte' = [compte EXCEPT !.seq = @ + 1]
  /\ pieces' = [p \in Pieces |->
                  IF p \in Presentes(P)
                  THEN [presente |-> TRUE, reclame |-> compte.seq + 1,
                        orpheline |-> Rien, jourReclame |-> jour]
                  ELSE pieces[p]]
  /\ UNCHANGED <<octets, objets, jour, transaction, appareils>>

\* The purge comes first: an expired orphan is created anew.
PiecesPut(p) ==
  LET existe == PiecesPurgees[p].presente
      reste == octets - OctetsPurges
  IN
  /\ auteur = Rien
  /\ compte.seq < SeqMax
  /\ ~existe => /\ Cardinality({q \in Pieces : PiecesPurgees[q].presente}) < PiecesMax
                /\ reste + TaillePiece <= Quota
  /\ compte' = [compte EXCEPT !.seq = @ + 1]
  /\ octets' = IF existe THEN reste ELSE reste + TaillePiece
  /\ objets' = ObjetsPurges
  /\ pieces' = [PiecesPurgees EXCEPT ![p] =
                  [presente |-> TRUE, reclame |-> compte.seq + 1,
                   orpheline |-> Rien, jourReclame |-> jour]]
  /\ UNCHANGED <<jour, transaction, appareils>>

\* Marks, never erases; refused (409 reclaimed) when someone claimed the image
\* after the state the caller has pulled.
PiecesDelete(p, asOf) ==
  /\ auteur = Rien
  /\ asOf <= compte.seq
  /\ pieces[p].presente
  /\ pieces[p].reclame <= asOf
  /\ pieces[p].orpheline = Rien
  /\ pieces' = [pieces EXCEPT ![p].orpheline = jour]
  /\ UNCHANGED <<compte, octets, objets, jour, transaction, appareils>>

-----------------------------------------------------------------------------
(* The two vault transactions that change what /sync checks, and the clock *)

\* POST /vault/commit, accepted: the next key epoch.
VaultCommit ==
  /\ auteur = Rien
  /\ compte.epoque < EpoqueMax
  /\ compte' = [compte EXCEPT !.epoque = @ + 1]
  /\ UNCHANGED <<octets, objets, pieces, jour, transaction, appareils>>

\* POST /reset/complete: nothing is left but the seq, which never goes back.
ResetComplete ==
  /\ auteur = Rien
  /\ compte.incarnation < IncarnationMax
  /\ compte' = [seq |-> compte.seq, epoque |-> 1,
               incarnation |-> compte.incarnation + 1]
  /\ octets' = 0
  /\ objets' = [o \in Objets |-> Absent]
  /\ pieces' = [p \in Pieces |-> SansPiece]
  /\ UNCHANGED <<jour, transaction, appareils>>

\* A push holds the transaction for seconds: midnight may pass inside one, but
\* the route has read the clock once, at its start.
JourSuivant ==
  /\ auteur = Rien
  /\ jour < JourMax
  /\ jour' = jour + 1
  /\ UNCHANGED <<serveur, transaction, appareils>>

-----------------------------------------------------------------------------
Next ==
  \/ PousserElement \/ PousserValider \/ PousserAnnuler
  \/ \E a \in Appareils :
       \/ PousserDebut(a)
       \/ SyncChanges(a) \/ RecevoirPage(a) \/ PerdrePage(a)
       \/ Rejoindre(a)
  \/ \E P \in SUBSET Pieces : PiecesMissing(P)
  \/ \E p \in Pieces : PiecesPut(p)
  \/ \E p \in Pieces, asOf \in 0 .. SeqMax : PiecesDelete(p, asOf)
  \/ VaultCommit \/ ResetComplete \/ JourSuivant

Spec == Init /\ [][Next]_vars

\* The service ends every transaction it opened, its lock starves no request,
\* and a device that keeps asking is answered in the end.
Fairness ==
  /\ WF_vars(PousserValider \/ PousserAnnuler)
  /\ \A a \in Appareils :
       /\ SF_vars(SyncChanges(a))
       /\ SF_vars(RecevoirPage(a))
       /\ SF_vars(Rejoindre(a))

FairSpec == Spec /\ Fairness

-----------------------------------------------------------------------------
(* Properties                                                              *)

\* No two objects carry the same seq, and none a seq the account has not
\* reached: what makes "seq > since" a resumable order (sync_changes).
SeqUniques ==
  \A o \in Objets : objets[o].rev # 0 =>
    /\ objets[o].seq \in 1 .. compte.seq
    /\ \A p \in Objets : objets[p].seq = objets[o].seq => p = o

\* Paging while others write misses nothing: of every object written up to its
\* cursor, a device knows the current revision (until, hasMore).
CurseurComplet ==
  \A a \in Appareils : incVue[a] = compte.incarnation =>
    \A o \in Objets :
      objets[o].seq <= curseur[a] => vu[a][o] = objets[o].rev

\* Key epochs follow the order of seq, and none is ahead of the account's: what
\* lets a device refuse an old-epoch object that appears above the seq its
\* epoch ended at (synchro.py, _noter_borne).
EpoquesOrdonnees ==
  \A o \in Objets : objets[o].rev # 0 =>
    /\ objets[o].blob.epoque <= compte.epoque
    /\ \A p \in Objets : objets[o].seq < objets[p].seq =>
         objets[o].blob.epoque <= objets[p].blob.epoque

OctetsCourants == SumFunction([o \in Objets |-> TailleDe(objets[o].blob)])
OctetsRetenus == SumFunction([o \in Objets |-> TailleDe(objets[o].blobPrec)])
OctetsPieces == TaillePiece * Cardinality(Presentes(Pieces))

\* comptes.octets, which is only ever adjusted by differences, is what the
\* tables hold: across replaced versions, purges, refusals and rollbacks.
OctetsExacts == octets = OctetsCourants + OctetsRetenus + OctetsPieces

\* A write that does not grow its object is never refused, so the quota can be
\* exceeded; the comment of _appliquer bounds by how much.  The current
\* versions and the images alone always fit, and the total is at most twice
\* the quota.
QuotaTenu ==
  /\ OctetsCourants + OctetsPieces <= Quota
  /\ octets <= 2 * Quota

\* An image someone claimed in the last Retenue days is never erased, whoever
\* marked it orphan before that (pieces_missing, pieces_put, purger_retenues).
PieceReclameeGardee ==
  [][\A p \in Pieces :
       /\ pieces[p].presente /\ ~pieces'[p].presente
       /\ compte'.incarnation = compte.incarnation
       => jour - pieces[p].jourReclame > Retenue]_vars

\* A device that keeps pulling reaches every seq the account reaches, those no
\* object carries included (sync_changes on until).
Rattrapage ==
  \A a \in Appareils, s \in 1 .. SeqMax :
    compte.seq >= s ~> curseur[a] >= s

-----------------------------------------------------------------------------
(* What the service promises: RegistresSuivis, of which the devices still  *)
(* under a former incarnation are at the start.                            *)

AJour(a) == incVue[a] = compte.incarnation

Revs == [o \in Objets |-> objets[o].rev]
Dates == [o \in Objets |-> objets[o].seq]
Positions == [a \in Appareils |-> IF AJour(a) THEN curseur[a] ELSE 0]
Connus == [a \in Appareils |-> [o \in Objets |-> IF AJour(a) THEN vu[a][o] ELSE 0]]

Registres == INSTANCE RegistresSuivis WITH
  seq <- compte.seq, incarnation <- compte.incarnation,
  rev <- Revs, date <- Dates, position <- Positions, connu <- Connus

\* Whatever is interrupted, lost or late, the batches the tables take are
\* whole, their seqs are new and their own, and a page moves a device forward
\* to a point it knows everything up to: to its devices the service is the
\* registers of RegistresSuivis.
Implante == Registres!Spec

=============================================================================
