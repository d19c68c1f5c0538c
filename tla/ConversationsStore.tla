-------------------------- MODULE ConversationsStore --------------------------
(***************************************************************************)
(* The local store of the conversations, class ConversationsStore of       *)
(* server/conversations_store.py: live rows and tombstones, each under the *)
(* number of the write that made it, the lists its readers take after a    *)
(* cursor, and the purge of the old tombstones.                            *)
(*                                                                         *)
(* A write is one transaction under the store's lock and one step here; a  *)
(* write that raises is rolled back and changes nothing (_annuler_si_echec), *)
(* so it is no step.  The purge is not one step: it reads the clock, takes *)
(* its candidates under the lock, asks peut_purger outside of it, and      *)
(* takes the lock again to erase.                                          *)
(*                                                                         *)
(* Writers, readers and the hook are arbitrary here.                       *)
(***************************************************************************)
EXTENDS FusionConversations

CONSTANTS
  Ids,        \* identifiers of conversations
  Copies,     \* the copies writers push
  Lecteurs,   \* readers of list
  Retention,  \* _RETENTION_TOMBALES_JOURS
  DateMax,    \* _ENTIER_SQLITE_MAX
  DateLocaleMax, \* bound: last date of the local clock
  SeqMax      \* bound: no write once the counter reaches it

ASSUME CopiesAreConversations ==
  /\ Copies \subseteq Conversations
  /\ \A c \in Copies : c.updatedAt <= DateMax
ASSUME StoreNumbers ==
  /\ {Retention, DateMax, DateLocaleMax, SeqMax} \subseteq Nat
  /\ DateLocaleMax <= DateMax

VARIABLES
  lignes,     \* table conversations (Rien: no row)
  posees,     \* table tombales_posees (Rien: no row)
  compteur,   \* table compteur
  maintenant, \* the local clock
  compte,     \* compte/etat.key exists
  crochet,    \* peut_purger is set
  purge,      \* the purge that runs, or Rien
  curseur,    \* curseur[l]: what reader l passes as since
  su,         \* su[l][i]: the number of the last write of i that l took in
  reponse,    \* reponse[l]: an answer of list not yet taken in, or Rien
  plusHaute,  \* the highest updatedAt pushed for i while it has a row (history)
  plusMorte,  \* the highest date of its tombstones, -1 for none (history)
  poseeLe     \* when the tombstone of i was put here (history)

magasin == <<lignes, posees, compteur, plusHaute, plusMorte, poseeLe>>
lecteurs == <<curseur, su, reponse>>
vars == <<lignes, posees, compteur, maintenant, compte, crochet, purge,
          curseur, su, reponse, plusHaute, plusMorte, poseeLe>>

-----------------------------------------------------------------------------
(* Rows                                                                    *)

\* dateCopie is the column updated_at: a tombstone keeps the one of the copy
\* it erased.  A live row has no deletedAt, a tombstone no copie.
Lignes == [copie : Conversations \cup {Rien}, dateCopie : 0..DateMax,
           deletedAt : (0..DateMax) \cup {Rien}, seq : Nat]

ASSUME RienIsNoConversation == Rien \notin Nat \cup Conversations \cup Lignes

EstVivante(l) == l # Rien /\ l.deletedAt = Rien
EstTombale(l) == l # Rien /\ l.deletedAt # Rien

MaxDe(a, b) == IF a >= b THEN a ELSE b

\* The number of the next write comes from its own table.
MutProchainSeq ==
  LET numeros == {lignes[i].seq : i \in {j \in Ids : lignes[j] # Rien}} \cup {0}
  IN  1 + CHOOSE n \in numeros : \A k \in numeros : k <= n
ProchainSeq == compteur + 1

LigneVivante(c) == [copie |-> c, dateCopie |-> c.updatedAt,
                    deletedAt |-> Rien, seq |-> ProchainSeq]

\* What upsert stores: the copy itself over nothing or over a tombstone, the
\* join over a live row.
AStocker(l, c) == IF EstVivante(l) THEN Fusion(l.copie, c) ELSE c

Refusee(l, c) == EstTombale(l) /\ l.deletedAt >= c.updatedAt

SansEffet(l, c) == EstVivante(l) /\ Fusion(l.copie, c) = l.copie

\* The tombstone of a local deletion is dated above the copy it erases.
MutDateSuppression(l) ==
  IF EstTombale(l) THEN MaxDe(maintenant, l.deletedAt) ELSE maintenant

MutDateSansBorne(l) ==
  LET vue == IF l = Rien THEN 0 ELSE l.dateCopie + 1
      existante == IF EstTombale(l) THEN l.deletedAt ELSE 0
  IN  MaxDe(maintenant, MaxDe(existante, vue))

DateSuppression(l) ==
  LET vue == IF l = Rien THEN 0
             ELSE IF l.dateCopie < DateMax THEN l.dateCopie + 1
             ELSE l.dateCopie
      existante == IF EstTombale(l) THEN l.deletedAt ELSE 0
  IN  MaxDe(maintenant, MaxDe(existante, vue))

\* A remote tombstone loses against a live copy written after it, and against
\* a later tombstone.
TombalePerd(l, d) ==
  \/ EstVivante(l) /\ d < l.dateCopie
  \/ EstTombale(l) /\ l.deletedAt >= d

-----------------------------------------------------------------------------
(* Writes                                                                  *)

\* _ecrire.
Ecrire(i, c) ==
  /\ lignes'    = [lignes EXCEPT ![i] = LigneVivante(c)]
  /\ posees'    = [posees EXCEPT ![i] = Rien]
  /\ compteur'  = ProchainSeq
  /\ poseeLe'   = [poseeLe EXCEPT ![i] = 0]

\* A refused copy and a join without effect consume no number.
Upsert(i, c) ==
  /\ compteur < SeqMax
  /\ plusHaute' = [plusHaute EXCEPT ![i] = MaxDe(@, c.updatedAt)]
  /\ IF Refusee(lignes[i], c) \/ SansEffet(lignes[i], c)
       THEN UNCHANGED <<lignes, posees, compteur, poseeLe>>
       ELSE Ecrire(i, AStocker(lignes[i], c))
  /\ UNCHANGED <<plusMorte, maintenant, compte, crochet, purge, lecteurs>>

\* The hour of a tombstone older than its arrival is kept apart.
Posee(d) == IF d < maintenant THEN maintenant ELSE Rien

PoserTombale(i, d) ==
  /\ lignes' = [lignes EXCEPT ![i] =
       [copie |-> Rien, dateCopie |-> IF @ = Rien THEN 0 ELSE @.dateCopie,
        deletedAt |-> d, seq |-> ProchainSeq]]
  /\ posees'   = [posees EXCEPT ![i] = Posee(d)]
  /\ compteur' = ProchainSeq
  /\ poseeLe'  = [poseeLe EXCEPT ![i] = maintenant]

AppliquerTombale(i, d) ==
  /\ compteur < SeqMax
  /\ plusMorte' = [plusMorte EXCEPT ![i] = MaxDe(@, d)]
  /\ IF TombalePerd(lignes[i], d)
       THEN UNCHANGED <<lignes, posees, compteur, poseeLe>>
       ELSE PoserTombale(i, d)
  /\ UNCHANGED <<plusHaute, maintenant, compte, crochet, purge, lecteurs>>

Delete(i) ==
  /\ compteur < SeqMax
  /\ PoserTombale(i, DateSuppression(lignes[i]))
  /\ plusMorte' = [plusMorte EXCEPT ![i] = MaxDe(@, DateSuppression(lignes[i]))]
  /\ UNCHANGED <<plusHaute, maintenant, compte, crochet, purge, lecteurs>>

-----------------------------------------------------------------------------
(* The purge                                                               *)

PurgeCommencee ==
  [etape |-> "lire", seuil |-> maintenant - Retention, avecCrochet |-> crochet,
   candidates |-> {}, accords |-> {}]

\* Without the hook, an account forbids any purge.
PurgerDebut ==
  /\ purge = Rien
  /\ crochet \/ ~compte
  /\ purge' = PurgeCommencee
  /\ UNCHANGED <<magasin, maintenant, compte, crochet, lecteurs>>

\* The age runs from the later of the tombstone's date and its arrival here.
Age(i) == MaxDe(lignes[i].deletedAt, IF posees[i] = Rien THEN 0 ELSE posees[i])

Candidates ==
  {<<i, lignes[i].deletedAt>> :
     i \in {j \in Ids : EstTombale(lignes[j]) /\ Age(j) < purge.seuil}}

\* _effacer_tombales: the same tombstone only.
MutEffacable(i, tombales) == \E t \in tombales : t[1] = i
Effacable(i, tombales) ==
  EstTombale(lignes[i]) /\ <<i, lignes[i].deletedAt>> \in tombales

EffacerTombales(tombales) ==
  /\ lignes' = [i \in Ids |-> IF Effacable(i, tombales) THEN Rien ELSE lignes[i]]
  /\ posees' = [i \in Ids |->
       IF tombales # {} /\ ~EstTombale(lignes'[i]) THEN Rien ELSE posees[i]]
  /\ plusHaute' = [i \in Ids |-> IF lignes'[i] = Rien THEN 0 ELSE plusHaute[i]]
  /\ plusMorte' = [i \in Ids |-> IF lignes'[i] = Rien THEN -1 ELSE plusMorte[i]]
  /\ poseeLe'   = [i \in Ids |-> IF lignes'[i] = Rien THEN 0 ELSE poseeLe[i]]
  /\ UNCHANGED compteur

\* Under the lock: the candidates, erased at once when there is no hook.
PurgerLire ==
  /\ purge # Rien /\ purge.etape = "lire"
  /\ IF purge.avecCrochet
       THEN /\ purge' = [purge EXCEPT !.etape = "demander",
                                      !.candidates = Candidates]
            /\ UNCHANGED magasin
       ELSE purge' = Rien /\ EffacerTombales(Candidates)
  /\ UNCHANGED <<maintenant, compte, crochet, lecteurs>>

\* Outside the lock: the hook answers for one candidate.
PurgerDemander(t, accord) ==
  /\ purge # Rien /\ purge.etape = "demander" /\ t \in purge.candidates
  /\ purge' = [purge EXCEPT !.candidates = @ \ {t},
                            !.accords = IF accord THEN @ \cup {t} ELSE @]
  /\ UNCHANGED <<magasin, maintenant, compte, crochet, lecteurs>>

PurgerFin ==
  /\ purge # Rien /\ purge.etape = "demander" /\ purge.candidates = {}
  /\ EffacerTombales(purge.accords)
  /\ purge' = Rien
  /\ UNCHANGED <<maintenant, compte, crochet, lecteurs>>

-----------------------------------------------------------------------------
(* Readers and surroundings                                                *)

\* list(since).
Lire(l) ==
  /\ reponse[l] = Rien
  /\ reponse' = [reponse EXCEPT ![l] =
       [sus |-> [i \in Ids |->
          IF lignes[i] # Rien /\ lignes[i].seq > curseur[l]
          THEN lignes[i].seq ELSE 0],
        jusqua |-> compteur]]
  /\ UNCHANGED <<magasin, maintenant, compte, crochet, purge, curseur, su>>

Recevoir(l) ==
  /\ reponse[l] # Rien
  /\ su' = [su EXCEPT ![l] = [i \in Ids |-> MaxDe(@[i], reponse[l].sus[i])]]
  /\ curseur' = [curseur EXCEPT ![l] = MaxDe(@, reponse[l].jusqua)]
  /\ reponse' = [reponse EXCEPT ![l] = Rien]
  /\ UNCHANGED <<magasin, maintenant, compte, crochet, purge>>

Perdre(l) ==
  /\ reponse[l] # Rien
  /\ reponse' = [reponse EXCEPT ![l] = Rien]
  /\ UNCHANGED <<magasin, maintenant, compte, crochet, purge, curseur, su>>

Avancer ==
  /\ maintenant < DateLocaleMax
  /\ maintenant' = maintenant + 1
  /\ UNCHANGED <<magasin, compte, crochet, purge, lecteurs>>

CreerCompte ==
  /\ ~compte /\ compte' = TRUE
  /\ UNCHANGED <<magasin, maintenant, crochet, purge, lecteurs>>

\* The engine sets the hook after the store is open.
PoserCrochet ==
  /\ compte /\ ~crochet /\ crochet' = TRUE
  /\ UNCHANGED <<magasin, maintenant, compte, purge, lecteurs>>

\* The process stops; the constructor of the next one purges, without a hook.
Redemarrer ==
  /\ crochet' = FALSE
  /\ reponse' = [l \in Lecteurs |-> Rien]
  /\ purge' = IF compte THEN Rien
              ELSE [PurgeCommencee EXCEPT !.avecCrochet = FALSE]
  /\ UNCHANGED <<magasin, maintenant, compte, curseur, su>>

Init ==
  /\ lignes = [i \in Ids |-> Rien]
  /\ posees = [i \in Ids |-> Rien]
  /\ compteur = 0 /\ maintenant = 0
  /\ compte = FALSE /\ crochet = FALSE /\ purge = Rien
  /\ curseur = [l \in Lecteurs |-> 0]
  /\ su = [l \in Lecteurs |-> [i \in Ids |-> 0]]
  /\ reponse = [l \in Lecteurs |-> Rien]
  /\ plusHaute = [i \in Ids |-> 0]
  /\ plusMorte = [i \in Ids |-> -1]
  /\ poseeLe = [i \in Ids |-> 0]

Next ==
  \/ \E i \in Ids, c \in Copies : Upsert(i, c)
  \/ \E i \in Ids, d \in 0..DateLocaleMax : AppliquerTombale(i, d)
  \/ \E i \in Ids : Delete(i)
  \/ PurgerDebut \/ PurgerLire \/ PurgerFin
  \/ \E i \in Ids, d \in 0..DateMax, accord \in BOOLEAN :
       PurgerDemander(<<i, d>>, accord)
  \/ \E l \in Lecteurs : Lire(l) \/ Recevoir(l) \/ Perdre(l)
  \/ Avancer \/ CreerCompte \/ PoserCrochet \/ Redemarrer

Spec == Init /\ [][Next]_vars

-----------------------------------------------------------------------------
Reponses == [sus : [Ids -> Nat], jusqua : Nat]

Purges == [etape : {"lire", "demander"}, seuil : Int, avecCrochet : BOOLEAN,
           candidates : SUBSET (Ids \X Nat), accords : SUBSET (Ids \X Nat)]

ASSUME RienIsNoAnswer == Rien \notin Reponses \cup Purges

TypeOK ==
  /\ lignes \in [Ids -> Lignes \cup {Rien}]
  /\ posees \in [Ids -> Nat \cup {Rien}]
  /\ compteur \in Nat /\ maintenant \in Nat
  /\ compte \in BOOLEAN /\ crochet \in BOOLEAN
  /\ purge \in Purges \cup {Rien}
  /\ curseur \in [Lecteurs -> Nat]
  /\ su \in [Lecteurs -> [Ids -> Nat]]
  /\ reponse \in [Lecteurs -> Reponses \cup {Rien}]
  /\ plusHaute \in [Ids -> Nat]
  /\ plusMorte \in [Ids -> Int]
  /\ poseeLe \in [Ids -> Nat]

\* A reader has taken in every write its cursor says it has, whichever rows
\* were purged and whichever answers were lost or came late: no write takes a
\* number the cursor already passed.
LecteurComplet ==
  \A l \in Lecteurs, i \in Ids :
    lignes[i] # Rien /\ lignes[i].seq <= curseur[l] => su[l][i] = lignes[i].seq

\* Whether a conversation lives and under which date depends on the highest
\* dates that reached the store, never on the order they came in: a deletion
\* wins over every copy it saw and over a copy of its own date, a copy written
\* after it brings the conversation back.
SelonLesDates ==
  \A i \in Ids : lignes[i] # Rien =>
    IF plusHaute[i] > plusMorte[i]
    THEN EstVivante(lignes[i]) /\ lignes[i].dateCopie = plusHaute[i]
    ELSE EstTombale(lignes[i]) /\ lignes[i].deletedAt = plusMorte[i]

\* A row disappears only as a tombstone that is older than the retention, that
\* every view of this machine could read for as long, and, once the hook is
\* set, that the hook allowed for this very date.
PurgeSure ==
  [][\A i \in Ids : lignes[i] # Rien /\ lignes'[i] = Rien =>
       /\ EstTombale(lignes[i])
       /\ lignes[i].deletedAt + Retention < maintenant
       /\ poseeLe[i] + Retention < maintenant
       /\ purge.avecCrochet => <<i, lignes[i].deletedAt>> \in purge.accords]_vars
=============================================================================
