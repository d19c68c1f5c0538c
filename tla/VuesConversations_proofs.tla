----------------------- MODULE VuesConversations_proofs -----------------------
(***************************************************************************)
(* Theorems about VuesConversations, for any views, conversations,         *)
(* messages, clocks and losses: a condemned conversation stays out of its  *)
(* view (CondamneeAbsente), no row under the cursor of a view is missing   *)
(* from it (VivantesVues), and a deletion leaves the queue only once the   *)
(* store has it (SuppressionTenue).                                        *)
(*                                                                         *)
(* The difficulty of VivantesVues is an answer that comes late: a          *)
(* tombstone read before the conversation was brought back could still     *)
(* erase the copy the cursor has passed since.  It cannot, because every   *)
(* tombstone a view was told is not later than the latest one of the store *)
(* (DejaLue), a live row is later than all of its tombstones, and the copy *)
(* of the view is not earlier than the row (Montree).                      *)
(***************************************************************************)
EXTENDS VuesConversations, ConversationsStore_proofs

\* A row as the store writes it; the dates of the views have no bound here.
Rangs ==
  {l \in [copie : Conversations \cup {Rien}, dateCopie : Nat,
          deletedAt : Nat \cup {Rien}, seq : Nat] :
     l.deletedAt = Rien => l.copie \in Conversations
                           /\ l.copie.updatedAt = l.dateCopie}

\* A live row is later than every tombstone its conversation had, and the
\* tombstone of a dead one is the latest.
MagasinVues ==
  /\ maintenant \in Nat /\ compteur \in Nat
  /\ lignes \in [Ids -> Rangs \cup {Rien}]
  /\ plusMorte \in [Ids -> Int]
  /\ \A i \in Ids :
       /\ lignes[i] = Rien => plusMorte[i] = -1
       /\ lignes[i] # Rien => lignes[i].seq <= compteur
       /\ EstVivante(lignes[i]) => lignes[i].dateCopie > plusMorte[i]
       /\ EstTombale(lignes[i]) => lignes[i].deletedAt = plusMorte[i]

\* A row that was read when the latest tombstone was at most d.
DejaLue(l, d) ==
  /\ l \in Rangs \cup {Rien}
  /\ EstTombale(l) => l.deletedAt <= d

Requetes ==
  [methode : {"PUT", "DELETE"}, id : Ids, copie : Conversations \cup {Rien},
   reponse : Rangs \cup {Rien}]

\* A request carries a copy if it has one to carry, and an answered deletion
\* left a tombstone (m: the latest tombstones).
RequeteJuste(r, m) ==
  /\ r \in Requetes
  /\ r.methode = "PUT" => r.copie \in Conversations
  /\ DejaLue(r.reponse, m[r.id])
  /\ r.methode = "DELETE" /\ r.reponse # Rien => m[r.id] >= 0

Poussees ==
  [aSupprimer : SUBSET Ids, choisie : BOOLEAN,
   aEnvoyer : [Ids -> Conversations \cup {Rien}],
   recues : [Ids -> Rangs \cup {Rien}], vol : Requetes \cup {Rien}]

PousseeJuste(p, m) ==
  /\ p \in Poussees
  /\ \A i \in Ids : DejaLue(p.recues[i], m[i])
  /\ p.vol # Rien => RequeteJuste(p.vol, m)

Tirages == [lignes : [Ids -> Rangs \cup {Rien}], seq : Nat]

\* The answer to a pull still says what the store has under the numbers between
\* the cursor c and its own.
TirageJuste(t, c, k, ls, m) ==
  /\ t \in Tirages /\ t.seq <= k
  /\ \A i \in Ids :
       /\ DejaLue(t.lignes[i], m[i])
       /\ ls[i] # Rien /\ c < ls[i].seq /\ ls[i].seq <= t.seq
            => t.lignes[i] = ls[i]

\* A row under the cursor c is in the view, and not as an older copy.
Montree(l, c, mienne) ==
  EstVivante(l) /\ l.seq <= c =>
    /\ mienne # Rien
    /\ Presents(l.copie) \subseteq Presents(mienne)
    /\ mienne.updatedAt >= l.dateCopie

LocalVues ==
  /\ locale \in [Vues -> [Ids -> Conversations \cup {Rien}]]
  /\ supprimees \in [Vues -> SUBSET Ids]
  /\ condamnees \in [Vues -> SUBSET Ids]
  /\ curseur \in [Vues -> Nat]
  /\ \A v \in Vues :
       /\ curseur[v] <= compteur
       /\ supprimees[v] \subseteq condamnees[v]
       /\ \A i \in supprimees[v] : locale[v][i] = Rien
       /\ \A i \in Ids \ condamnees[v] :
            Montree(lignes[i], curseur[v], locale[v][i])

TiragesVues ==
  /\ tirage \in [Vues -> Tirages \cup {Rien}]
  /\ \A v \in Vues : tirage[v] # Rien =>
       TirageJuste(tirage[v], curseur[v], compteur, lignes, plusMorte)

PousseesVues ==
  /\ poussee \in [Vues -> Poussees \cup {Rien}]
  /\ \A v \in Vues : poussee[v] # Rien => PousseeJuste(poussee[v], plusMorte)
  /\ \A r \in errantes : RequeteJuste(r, plusMorte)

IVues == MagasinVues /\ LocalVues /\ TiragesVues /\ PousseesVues

-----------------------------------------------------------------------------
(* Copies and rows                                                         *)

LEMMA RienApart ==
  Rien \notin Nat /\ Rien \notin Conversations /\ Rien \notin Versions
BY RienIsNoConversation, RienIsNoVersion

\* A message the user writes is a version, and what he writes in is a copy with
\* what it had, dated later.
LEMMA AvecMessageEst ==
  ASSUME NEW v \in Vues, NEW c \in Conversations, NEW k \in Cles,
         maintenant \in Nat
  PROVE  /\ AvecMessage(v, c, k) \in Conversations
         /\ Presents(c) \subseteq Presents(AvecMessage(v, c, k))
         /\ AvecMessage(v, c, k).updatedAt >= c.updatedAt
<1>1. Avance[v] \in Nat /\ c.updatedAt \in Nat
  BY ViewsAreReaders DEF Conversations
<1>2. PICK d : d = DateEcriture(v, c.updatedAt)
  OBVIOUS
<1>3. d \in Nat /\ d >= c.updatedAt
  <2>1. maintenant + Avance[v] \in Nat /\ c.updatedAt + 1 \in Nat
    BY <1>1
  <2>2. PICK x, y : x = maintenant + Avance[v] /\ y = c.updatedAt + 1
    OBVIOUS
  <2>3. x \in Int /\ y \in Int /\ x \in Nat
    BY <2>1, <2>2
  <2>4. d = MaxDe(x, y)
    BY <1>2, <2>2 DEF DateEcriture
  <2>5. d \in Nat /\ d >= y
    BY <2>3, <2>4, MaxDeEst
  <2>6. QED
    BY <1>1, <2>2, <2>5
<1>4. PICK m : m = Message(k)
  OBVIOUS
<1>5. m \in Versions
  BY <1>4 DEF Message, Versions
<1>6. AvecMessage(v, c, k) = [c EXCEPT !.messages[k] = m, !.updatedAt = d]
  BY <1>2, <1>4 DEF AvecMessage
<1>7. PICK e : e = [c EXCEPT !.messages[k] = m, !.updatedAt = d]
  OBVIOUS
<1>8. e \in Conversations /\ e.updatedAt = d
  <2>1. PICK n : n = [c.messages EXCEPT ![k] = m]
    OBVIOUS
  <2>2. n \in [Cles -> Versions \cup {Rien}]
    BY <1>5, <2>1 DEF Conversations
  <2>3. e = [c EXCEPT !.messages = n, !.updatedAt = d]
    BY <1>7, <2>1
  <2>4. QED
    BY <1>3, <2>2, <2>3 DEF Conversations
<1>9. \A x \in Cles : e.messages[x] = IF x = k THEN m ELSE c.messages[x]
  BY <1>7 DEF Conversations
<1>10. Presents(c) \subseteq Presents(e)
  BY <1>5, <1>9, RienApart DEF Presents
<1>11. QED
  BY <1>3, <1>6, <1>7, <1>8, <1>10

\* The first message of a conversation makes a copy.
LEMMA PremiereEst ==
  ASSUME NEW v \in Vues, NEW k \in Cles, maintenant \in Nat
  PROVE  Premiere(v, k) \in Conversations
<1>1. maintenant + Avance[v] \in Nat
  BY ViewsAreReaders
<1>2. PICK d : d = maintenant + Avance[v]
  OBVIOUS
<1>3. \A x \in Cles : Message(x) \in Versions
  BY DEF Message, Versions
<1>4. [x \in Cles |-> IF x = k THEN Message(k) ELSE Rien]
        \in [Cles -> Versions \cup {Rien}]
  BY <1>3
<1>5. PICK m : m = [x \in Cles |-> IF x = k THEN Message(k) ELSE Rien]
  OBVIOUS
<1>6. [title |-> 0, createdAt |-> 0, updatedAt |-> d, model |-> 0,
       pinned |-> FALSE, messages |-> m] \in Conversations
  BY <1>1, <1>2, <1>4, <1>5 DEF Conversations
<1>7. QED
  BY <1>2, <1>5, <1>6 DEF Premiere

\* The join of two copies has the messages of both.
LEMMA FusionPresents ==
  ASSUME NEW a \in Conversations, NEW b \in Conversations
  PROVE  /\ Presents(a) \subseteq Presents(Fusion(a, b))
         /\ Presents(b) \subseteq Presents(Fusion(a, b))
<1>1. ASSUME NEW s \in [Cles -> Versions \cup {Rien}],
             NEW t \in [Cles -> Versions \cup {Rien}], NEW k \in Cles
      PROVE  (s[k] # Rien \/ t[k] # Rien) => FusionnerMessages(s, t)[k] # Rien
  BY <1>1 DEF FusionnerMessages, Meilleur
<1>2. /\ a.messages \in [Cles -> Versions \cup {Rien}]
      /\ b.messages \in [Cles -> Versions \cup {Rien}]
  BY DEF Conversations
<1>3. \/ Fusion(a, b).messages = FusionnerMessages(a.messages, b.messages)
      \/ Fusion(a, b).messages = FusionnerMessages(b.messages, a.messages)
  BY DEF Fusion
<1>4. \A k \in Cles : a.messages[k] # Rien \/ b.messages[k] # Rien
                        => Fusion(a, b).messages[k] # Rien
  BY <1>1, <1>2, <1>3
<1>5. QED
  BY <1>4 DEF Presents

\* What a view makes of a copy that reaches it: both, and not dated earlier.
LEMMA AdopterEst ==
  ASSUME NEW mienne \in Conversations \cup {Rien}, NEW c \in Conversations
  PROVE  LET r == Adopter(mienne, c) IN
         /\ r \in Conversations
         /\ Presents(c) \subseteq Presents(r) /\ r.updatedAt >= c.updatedAt
         /\ mienne # Rien => Presents(mienne) \subseteq Presents(r)
                             /\ r.updatedAt >= mienne.updatedAt
<1>1. CASE mienne = Rien
  <2>1. Adopter(mienne, c) = c
    BY <1>1 DEF Adopter
  <2>2. c.updatedAt \in Nat
    BY DEF Conversations
  <2>3. QED
    BY <1>1, <2>1, <2>2
<1>2. CASE mienne # Rien
  <2>1. Adopter(mienne, c) = Fusion(mienne, c) /\ mienne \in Conversations
    BY <1>2 DEF Adopter
  <2>2. c.updatedAt \in Nat /\ mienne.updatedAt \in Nat
    BY <2>1 DEF Conversations
  <2>3. /\ Fusion(mienne, c) \in Conversations
        /\ Fusion(mienne, c).updatedAt = MaxDe(mienne.updatedAt, c.updatedAt)
    BY <2>1, FusionEstConversation
  <2>4. /\ MaxDe(mienne.updatedAt, c.updatedAt) >= mienne.updatedAt
        /\ MaxDe(mienne.updatedAt, c.updatedAt) >= c.updatedAt
    <3>1. PICK x, y : x = mienne.updatedAt /\ y = c.updatedAt
      OBVIOUS
    <3>2. x \in Int /\ y \in Int
      BY <2>2, <3>1
    <3>3. MaxDe(x, y) >= x /\ MaxDe(x, y) >= y
      BY <3>2, MaxDeEst
    <3>4. QED
      BY <3>1, <3>3
  <2>5. PICK f : f = Fusion(mienne, c)
    OBVIOUS
  <2>6. /\ f \in Conversations
        /\ f.updatedAt >= mienne.updatedAt /\ f.updatedAt >= c.updatedAt
    <3>1. PICK h : h = MaxDe(mienne.updatedAt, c.updatedAt)
      OBVIOUS
    <3>2. f \in Conversations /\ f.updatedAt = h
      BY <2>3, <2>5, <3>1
    <3>3. QED
      BY <2>4, <3>1, <3>2
  <2>7. Presents(mienne) \subseteq Presents(f) /\ Presents(c) \subseteq Presents(f)
    BY <2>1, <2>5, FusionPresents
  <2>8. QED
    BY <2>1, <2>5, <2>6, <2>7
<1>3. QED
  BY <1>1, <1>2

\* A row that was read stays one that was read while tombstones get later.
LEMMA DejaLueGardee ==
  ASSUME NEW l, NEW d \in Int, NEW e \in Int, DejaLue(l, d), d <= e
  PROVE  DejaLue(l, e)
<1>1. EstTombale(l) => l.deletedAt \in Nat
  BY DEF DejaLue, Rangs, EstTombale
<1>2. QED
  BY <1>1 DEF DejaLue

LEMMA RequeteGardee ==
  ASSUME NEW r, NEW m \in [Ids -> Int], NEW n \in [Ids -> Int],
         \A i \in Ids : m[i] <= n[i], RequeteJuste(r, m)
  PROVE  RequeteJuste(r, n)
<1>1. r.id \in Ids
  BY DEF RequeteJuste, Requetes
<1>2. m[r.id] \in Int /\ n[r.id] \in Int /\ m[r.id] <= n[r.id]
  BY <1>1
<1>3. DejaLue(r.reponse, n[r.id])
  BY <1>2, DejaLueGardee DEF RequeteJuste
<1>4. QED
  BY <1>2, <1>3 DEF RequeteJuste

LEMMA PousseeGardee ==
  ASSUME NEW p, NEW m \in [Ids -> Int], NEW n \in [Ids -> Int],
         \A i \in Ids : m[i] <= n[i], PousseeJuste(p, m)
  PROVE  PousseeJuste(p, n)
<1>1. \A i \in Ids : DejaLue(p.recues[i], n[i])
  <2>1. TAKE i \in Ids
  <2>2. m[i] \in Int /\ n[i] \in Int /\ m[i] <= n[i] /\ DejaLue(p.recues[i], m[i])
    BY DEF PousseeJuste
  <2>3. QED
    BY <2>2, DejaLueGardee
<1>2. p.vol # Rien => RequeteJuste(p.vol, n)
  BY RequeteGardee DEF PousseeJuste
<1>3. QED
  BY <1>1, <1>2 DEF PousseeJuste

\* What a view makes of a row it read (Appliquee): a condemned conversation
\* stays out; a live row that is not left alone gets in; and a copy that shows a
\* live row x still does, because no tombstone the view read is as late as x.
LEMMA AppliqueeEst ==
  ASSUME LocalVues, NEW v \in Vues, NEW i \in Ids, NEW l \in Rangs \cup {Rien}
  PROVE  LET r == Appliquee(v, i, l) IN
         /\ r \in Conversations \cup {Rien}
         /\ i \in supprimees[v] => r = Rien
         /\ EstVivante(l) /\ ~Exclue(v, i) /\ i \notin supprimees[v] =>
              /\ r # Rien
              /\ Presents(l.copie) \subseteq Presents(r)
              /\ r.updatedAt >= l.dateCopie
         /\ \A x \in Rangs, c, d \in Int :
              Montree(x, c, locale[v][i]) /\ DejaLue(l, d)
              /\ (EstVivante(x) => d < x.dateCopie)
                => Montree(x, c, r)
<1> DEFINE r == Appliquee(v, i, l)
           m == locale[v][i]
<1>1. /\ m \in Conversations \cup {Rien}
      /\ i \in supprimees[v] => m = Rien
  BY DEF LocalVues
<1>2. m # Rien => m.updatedAt \in Nat
  BY <1>1 DEF Conversations
<1>3. EstVivante(l) => l.copie \in Conversations /\ l.copie.updatedAt = l.dateCopie
  BY DEF EstVivante, Rangs
<1>4. EstTombale(l) => l.deletedAt \in Nat
  BY DEF EstTombale, Rangs
<1>5. \/ /\ r = m
         /\ ~(EstVivante(l) /\ ~Exclue(v, i) /\ i \notin supprimees[v])
      \/ /\ EstVivante(l) /\ i \notin supprimees[v]
         /\ r = Adopter(m, l.copie)
      \/ EstTombale(l) /\ m # Rien /\ l.deletedAt >= m.updatedAt /\ r = Rien
  BY DEF Appliquee, EstVivante, EstTombale
<1> HIDE DEF r, m
<1>6. CASE /\ r = m
           /\ ~(EstVivante(l) /\ ~Exclue(v, i) /\ i \notin supprimees[v])
  BY <1>1, <1>6 DEF r, m
<1>7. CASE /\ EstVivante(l) /\ i \notin supprimees[v]
           /\ r = Adopter(m, l.copie)
  <2>1. /\ r \in Conversations
        /\ Presents(l.copie) \subseteq Presents(r)
        /\ r.updatedAt >= l.copie.updatedAt
        /\ m # Rien => Presents(m) \subseteq Presents(r)
                       /\ r.updatedAt >= m.updatedAt
    BY <1>1, <1>3, <1>7, AdopterEst
  <2>2. r # Rien /\ r.updatedAt \in Nat
    BY <2>1, RienApart DEF Conversations
  <2>3. ASSUME NEW x \in Rangs, NEW c, Montree(x, c, m)
        PROVE  Montree(x, c, r)
    <3>1. x.dateCopie \in Nat
      BY DEF Rangs
    <3>2. QED
      BY <1>2, <2>1, <2>2, <2>3, <3>1 DEF Montree
  <2>4. QED
    BY <1>3, <1>7, <2>1, <2>2, <2>3 DEF r, m
<1>8. CASE EstTombale(l) /\ m # Rien /\ l.deletedAt >= m.updatedAt /\ r = Rien
  <2>1. ~EstVivante(l)
    BY <1>8 DEF EstTombale, EstVivante
  <2>2. ASSUME NEW x \in Rangs, NEW c, NEW d \in Int, Montree(x, c, m),
               DejaLue(l, d), EstVivante(x) => d < x.dateCopie
        PROVE  Montree(x, c, r)
    <3>1. x.dateCopie \in Nat
      BY DEF Rangs
    <3>2. l.deletedAt <= d
      BY <1>8, <2>2 DEF DejaLue
    <3>3. ~(EstVivante(x) /\ x.seq <= c)
      BY <1>2, <1>4, <1>8, <2>2, <3>1, <3>2 DEF Montree
    <3>4. QED
      BY <3>3 DEF Montree
  <2>3. QED
    BY <1>8, <2>1, <2>2 DEF r, m
<1>9. QED
  BY <1>5, <1>6, <1>7, <1>8

-----------------------------------------------------------------------------
(* A request handled by the store                                          *)

\* What a write leaves of the rows, and of the tombstones, for its readers:
\* a row that changes takes a number above those given so far.
Progres ==
  /\ compteur <= compteur'
  /\ \A i \in Ids : plusMorte[i] <= plusMorte'[i]
  /\ \A i \in Ids : \/ lignes'[i] = lignes[i]
                    \/ lignes'[i] # Rien => lignes'[i].seq > compteur
  /\ UNCHANGED <<maintenant, curseur>>

\* put_conversation.
LEMMA UpsertProgres ==
  ASSUME MagasinVues, NEW i \in Ids, NEW c \in Conversations, Upsert(i, c)
  PROVE  MagasinVues' /\ Progres
<1>1. /\ compteur \in Nat /\ maintenant \in Nat
      /\ UNCHANGED <<plusMorte, maintenant, curseur>>
      /\ \A j \in Ids : plusMorte[j] \in Int
  BY DEF Upsert, lecteurs, MagasinVues
<1>2. CASE Refusee(lignes[i], c) \/ SansEffet(lignes[i], c)
  <2>1. UNCHANGED <<lignes, compteur>>
    BY <1>2 DEF Upsert
  <2>2. QED
    BY <1>1, <2>1 DEF MagasinVues, Progres
<1>3. CASE ~(Refusee(lignes[i], c) \/ SansEffet(lignes[i], c))
  <2>1. PICK e : e = AStocker(lignes[i], c)
    OBVIOUS
  <2>2. Ecrire(i, e)
    BY <1>3, <2>1 DEF Upsert
  <2>3. PICK l : l = LigneVivante(e)
    OBVIOUS
  <2>4. lignes' = [lignes EXCEPT ![i] = l] /\ compteur' = compteur + 1
    BY <2>2, <2>3 DEF Ecrire, ProchainSeq
  <2>5. /\ lignes[i] \in Rangs \cup {Rien}
        /\ c.updatedAt \in Nat
    BY DEF MagasinVues, Conversations
  <2>6. e \in Conversations /\ e.updatedAt > plusMorte[i]
    <3>1. CASE EstVivante(lignes[i])
      <4>1. PICK a : a = lignes[i].copie
        OBVIOUS
      <4>2. /\ a \in Conversations /\ a.updatedAt = lignes[i].dateCopie
            /\ a.updatedAt \in Nat /\ a.updatedAt > plusMorte[i]
        BY <2>5, <3>1, <4>1 DEF EstVivante, Rangs, MagasinVues
      <4>3. e = Fusion(a, c)
        BY <2>1, <3>1, <4>1 DEF AStocker
      <4>4. e \in Conversations /\ e.updatedAt = MaxDe(a.updatedAt, c.updatedAt)
        BY <4>2, <4>3, FusionEstConversation
      <4>5. PICK x, y : x = a.updatedAt /\ y = c.updatedAt
        OBVIOUS
      <4>6. MaxDe(x, y) \in {x, y} /\ MaxDe(x, y) >= x /\ x \in Nat /\ y \in Nat
        BY <2>5, <4>2, <4>5, MaxDeEst
      <4>7. PICK z : z = MaxDe(x, y)
        OBVIOUS
      <4>8. z \in Nat /\ z >= x /\ x > plusMorte[i]
        BY <4>2, <4>5, <4>6, <4>7
      <4>9. z > plusMorte[i]
        BY <1>1, <4>6, <4>8
      <4>10. QED
        BY <4>4, <4>5, <4>7, <4>9
    <3>2. CASE EstTombale(lignes[i])
      <4>1. e = c /\ lignes[i].deletedAt < c.updatedAt
        <5>1. lignes[i].deletedAt \in Nat
          BY <2>5, <3>2 DEF EstTombale, Rangs
        <5>2. QED
          BY <1>3, <2>1, <2>5, <3>2, <5>1
          DEF Refusee, AStocker, EstTombale, EstVivante
      <4>2. lignes[i].deletedAt = plusMorte[i]
        BY <3>2 DEF MagasinVues
      <4>3. QED
        BY <1>1, <2>5, <4>1, <4>2
    <3>3. CASE lignes[i] = Rien
      <4>1. e = c /\ plusMorte[i] = -1
        BY <2>1, <3>3 DEF AStocker, EstVivante, MagasinVues
      <4>2. QED
        BY <2>5, <4>1
    <3>4. QED
      BY <3>1, <3>2, <3>3 DEF EstVivante, EstTombale
  <2>7. /\ l \in Rangs /\ l.seq = compteur + 1 /\ l.deletedAt = Rien
        /\ l.dateCopie = e.updatedAt
    <3>1. l = [copie |-> e, dateCopie |-> e.updatedAt, deletedAt |-> Rien,
               seq |-> compteur + 1]
      BY <2>3 DEF LigneVivante, ProchainSeq
    <3>2. e.updatedAt \in Nat
      BY <2>6 DEF Conversations
    <3>3. QED
      BY <1>1, <2>6, <3>1, <3>2 DEF Rangs
  <2>8. \A j \in Ids : lignes'[j] = IF j = i THEN l ELSE lignes[j]
    BY <2>4 DEF MagasinVues
  <2>9. MagasinVues'
    <3>1. compteur' \in Nat /\ maintenant' \in Nat /\ plusMorte' \in [Ids -> Int]
      BY <1>1, <2>4 DEF MagasinVues
    <3>2. lignes' \in [Ids -> Rangs \cup {Rien}]
      BY <2>4, <2>7 DEF MagasinVues
    <3>3. ASSUME NEW j \in Ids
          PROVE  /\ lignes'[j] = Rien => plusMorte'[j] = -1
                 /\ lignes'[j] # Rien => lignes'[j].seq <= compteur'
                 /\ EstVivante(lignes'[j]) => lignes'[j].dateCopie > plusMorte'[j]
                 /\ EstTombale(lignes'[j]) => lignes'[j].deletedAt = plusMorte'[j]
      <4>1. l # Rien
        BY <2>7, RienIsNoRow DEF Rangs
      <4>2. CASE j = i
        <5>1. lignes'[j] = l /\ plusMorte'[j] = plusMorte[i]
          BY <1>1, <2>8, <4>2
        <5>2. QED
          BY <1>1, <2>4, <2>6, <2>7, <4>1, <5>1 DEF EstTombale, EstVivante
      <4>3. CASE j # i
        <5>1. lignes'[j] = lignes[j] /\ plusMorte'[j] = plusMorte[j]
          BY <1>1, <2>8, <4>3
        <5>2. lignes[j] # Rien => lignes[j].seq \in Nat /\ lignes[j].seq <= compteur
          BY DEF MagasinVues, Rangs
        <5>3. lignes[j] # Rien => lignes[j].seq <= compteur'
          BY <1>1, <2>4, <5>2
        <5>4. QED
          BY <5>1, <5>3 DEF MagasinVues
      <4>4. QED
        BY <4>2, <4>3
    <3>4. QED
      BY <3>1, <3>2, <3>3 DEF MagasinVues, EstVivante, EstTombale
  <2>10. Progres
    BY <1>1, <2>4, <2>7, <2>8 DEF Progres
  <2>11. QED
    BY <2>9, <2>10
<1>4. QED
  BY <1>2, <1>3

\* delete_conversation: the tombstone it leaves is the latest.
LEMMA DeleteProgres ==
  ASSUME MagasinVues, NEW i \in Ids, Delete(i)
  PROVE  MagasinVues' /\ Progres /\ plusMorte'[i] >= 0
<1>1. PICK d : d = DateSuppression(lignes[i])
  OBVIOUS
<1>2. PICK l : l = [copie |-> Rien,
                    dateCopie |-> IF lignes[i] = Rien THEN 0
                                  ELSE lignes[i].dateCopie,
                    deletedAt |-> d, seq |-> compteur + 1]
  OBVIOUS
<1>3. /\ compteur \in Nat /\ maintenant \in Nat
      /\ lignes[i] \in Rangs \cup {Rien} /\ plusMorte[i] \in Int
      /\ \A j \in Ids : plusMorte[j] \in Int
  BY DEF MagasinVues
<1>4. /\ d \in Nat
      /\ EstVivante(lignes[i]) => d >= lignes[i].dateCopie
      /\ EstTombale(lignes[i]) => d >= lignes[i].deletedAt
  <2>1. PICK vu : vu = IF lignes[i] = Rien THEN 0
                       ELSE IF lignes[i].dateCopie < DateMax
                            THEN lignes[i].dateCopie + 1
                       ELSE lignes[i].dateCopie
    OBVIOUS
  <2>2. PICK ex : ex = IF EstTombale(lignes[i]) THEN lignes[i].deletedAt ELSE 0
    OBVIOUS
  <2>3. /\ vu \in Nat
        /\ lignes[i] # Rien => lignes[i].dateCopie \in Nat
                               /\ vu >= lignes[i].dateCopie
    BY <1>3, <2>1 DEF Rangs
  <2>4. ex \in Nat
    BY <1>3, <2>2 DEF EstTombale, Rangs
  <2>5. d = MaxDe(maintenant, MaxDe(ex, vu))
    BY <1>1, <2>1, <2>2 DEF DateSuppression
  <2>6. MaxDe(ex, vu) \in Nat /\ MaxDe(ex, vu) >= ex /\ MaxDe(ex, vu) >= vu
    BY <2>3, <2>4, MaxDeEst
  <2>7. PICK z : z = MaxDe(ex, vu)
    OBVIOUS
  <2>8. d \in Nat /\ d >= z /\ z \in Nat /\ z >= ex /\ z >= vu
    BY <1>3, <2>5, <2>6, <2>7, MaxDeEst
  <2>9. d >= vu /\ d >= ex
    BY <2>3, <2>4, <2>8
  <2>10. QED
    BY <2>2, <2>3, <2>8, <2>9 DEF EstVivante
<1>5. /\ lignes' = [lignes EXCEPT ![i] = l] /\ compteur' = compteur + 1
      /\ plusMorte' = [plusMorte EXCEPT ![i] = MaxDe(plusMorte[i], d)]
      /\ UNCHANGED <<maintenant, curseur>>
  BY <1>1, <1>2 DEF Delete, PoserTombale, ProchainSeq, lecteurs
<1>6. /\ l \in Rangs /\ l # Rien /\ l.deletedAt = d /\ d # Rien
      /\ l.seq = compteur + 1
  <2>1. (IF lignes[i] = Rien THEN 0 ELSE lignes[i].dateCopie) \in Nat
    BY <1>3 DEF Rangs
  <2>2. d # Rien
    BY <1>4, RienApart
  <2>3. QED
    BY <1>2, <1>3, <1>4, <2>1, <2>2, RienIsNoRow DEF Rangs
<1>7. d >= plusMorte[i]
  <2>1. CASE lignes[i] = Rien
    BY <1>3, <1>4, <2>1 DEF MagasinVues
  <2>2. CASE EstVivante(lignes[i])
    <3>1. lignes[i].dateCopie \in Nat /\ lignes[i].dateCopie > plusMorte[i]
      BY <1>3, <2>2 DEF MagasinVues, Rangs, EstVivante
    <3>2. QED
      BY <1>3, <1>4, <2>2, <3>1
  <2>3. CASE EstTombale(lignes[i])
    BY <1>4, <2>3 DEF MagasinVues
  <2>4. QED
    BY <2>1, <2>2, <2>3 DEF EstVivante, EstTombale
<1>8. MaxDe(plusMorte[i], d) = d
  BY <1>3, <1>4, <1>7 DEF MaxDe
<1>9. /\ \A j \in Ids : lignes'[j] = IF j = i THEN l ELSE lignes[j]
      /\ \A j \in Ids : plusMorte'[j] = IF j = i THEN d ELSE plusMorte[j]
  BY <1>5, <1>8 DEF MagasinVues
<1>10. MagasinVues'
  <2>1. compteur' \in Nat /\ maintenant' \in Nat
    BY <1>3, <1>5
  <2>2. /\ lignes' \in [Ids -> Rangs \cup {Rien}]
        /\ plusMorte' \in [Ids -> Int]
    BY <1>4, <1>5, <1>6, <1>8 DEF MagasinVues
  <2>3. ASSUME NEW j \in Ids
        PROVE  /\ lignes'[j] = Rien => plusMorte'[j] = -1
               /\ lignes'[j] # Rien => lignes'[j].seq <= compteur'
               /\ EstVivante(lignes'[j]) => lignes'[j].dateCopie > plusMorte'[j]
               /\ EstTombale(lignes'[j]) => lignes'[j].deletedAt = plusMorte'[j]
    <3>1. CASE j = i
      <4>1. lignes'[j] = l /\ plusMorte'[j] = d
        BY <1>9, <3>1
      <4>2. QED
        BY <1>3, <1>5, <1>6, <4>1 DEF EstTombale, EstVivante
    <3>2. CASE j # i
      <4>1. lignes'[j] = lignes[j] /\ plusMorte'[j] = plusMorte[j]
        BY <1>9, <3>2
      <4>2. lignes[j] # Rien => lignes[j].seq \in Nat /\ lignes[j].seq <= compteur
        BY DEF MagasinVues, Rangs
      <4>3. lignes[j] # Rien => lignes[j].seq <= compteur'
        BY <1>3, <1>5, <4>2
      <4>4. QED
        BY <4>1, <4>3 DEF MagasinVues
    <3>3. QED
      BY <3>1, <3>2
  <2>4. QED
    BY <2>1, <2>2, <2>3 DEF MagasinVues, EstVivante, EstTombale
<1>11. Progres
  <2>1. \A j \in Ids : plusMorte[j] <= plusMorte'[j]
    BY <1>3, <1>7, <1>9
  <2>2. QED
    BY <1>3, <1>5, <1>6, <1>9, <2>1 DEF Progres
<1>12. QED
  BY <1>4, <1>9, <1>10, <1>11

\* A request handled by the store, whichever it is.
LEMMA TraiterProgres ==
  ASSUME MagasinVues, NEW r \in Requetes, RequeteJuste(r, plusMorte), Traiter(r)
  PROVE  /\ MagasinVues' /\ Progres
         /\ r.methode = "DELETE" => plusMorte'[r.id] >= 0
<1>1. PICK i \in Ids : i = r.id
  BY DEF Requetes
<1>2. CASE r.methode = "PUT"
  <2>1. PICK c \in Conversations : c = r.copie
    BY <1>2 DEF RequeteJuste
  <2>2. Upsert(i, c)
    BY <1>1, <1>2, <2>1 DEF Traiter
  <2>3. QED
    BY <1>2, <2>2, UpsertProgres
<1>3. CASE r.methode # "PUT"
  <2>1. Delete(i)
    BY <1>1, <1>3 DEF Traiter
  <2>2. QED
    BY <1>1, <2>1, DeleteProgres
<1>4. QED
  BY <1>2, <1>3

\* What the views hold stays true of a store that was written: a row that
\* changed is above every cursor and every answer.
LEMMA ProgresGarde ==
  ASSUME MagasinVues, MagasinVues', Progres
  PROVE  /\ \A l : \A i \in Ids : DejaLue(l, plusMorte[i]) => DejaLue(l, plusMorte'[i])
         /\ \A r : RequeteJuste(r, plusMorte) => RequeteJuste(r, plusMorte')
         /\ \A p : PousseeJuste(p, plusMorte) => PousseeJuste(p, plusMorte')
         /\ LocalVues /\ UNCHANGED <<locale, supprimees, condamnees>> => LocalVues'
         /\ TiragesVues /\ UNCHANGED tirage => TiragesVues'
<1>1. /\ plusMorte \in [Ids -> Int] /\ plusMorte' \in [Ids -> Int]
      /\ \A i \in Ids : plusMorte[i] <= plusMorte'[i]
      /\ compteur \in Nat /\ compteur' \in Nat /\ compteur <= compteur'
      /\ UNCHANGED curseur
  BY DEF MagasinVues, Progres
<1>2. \A l : \A i \in Ids : DejaLue(l, plusMorte[i]) => DejaLue(l, plusMorte'[i])
  BY <1>1, DejaLueGardee
<1>3. \A r : RequeteJuste(r, plusMorte) => RequeteJuste(r, plusMorte')
  BY <1>1, RequeteGardee
<1>4. \A p : PousseeJuste(p, plusMorte) => PousseeJuste(p, plusMorte')
  BY <1>1, PousseeGardee
<1>5. \A i \in Ids : /\ lignes'[i] # Rien => lignes'[i].seq \in Nat
                     /\ \/ lignes'[i] = lignes[i]
                        \/ lignes'[i] # Rien => lignes'[i].seq > compteur
  BY DEF MagasinVues, Progres, Rangs
<1>6. LocalVues /\ UNCHANGED <<locale, supprimees, condamnees>> => LocalVues'
  <2>1. SUFFICES ASSUME LocalVues, UNCHANGED <<locale, supprimees, condamnees>>
                 PROVE  LocalVues'
    OBVIOUS
  <2>2. ASSUME NEW v \in Vues
        PROVE  /\ curseur'[v] <= compteur'
               /\ \A i \in Ids \ condamnees[v] :
                    Montree(lignes'[i], curseur'[v], locale[v][i])
    <3>1. curseur'[v] = curseur[v] /\ curseur[v] \in Nat /\ curseur[v] <= compteur
      BY <1>1, <2>1 DEF LocalVues
    <3>2. ASSUME NEW i \in Ids \ condamnees[v]
          PROVE  Montree(lignes'[i], curseur'[v], locale[v][i])
      <4>1. Montree(lignes[i], curseur[v], locale[v][i])
        BY <2>1 DEF LocalVues
      <4>2. CASE lignes'[i] = lignes[i]
        BY <3>1, <4>1, <4>2
      <4>3. CASE lignes'[i] # Rien => lignes'[i].seq > compteur
        BY <1>1, <1>5, <3>1, <4>3 DEF Montree, EstVivante
      <4>4. QED
        BY <1>5, <4>2, <4>3
    <3>3. QED
      BY <1>1, <3>1, <3>2
  <2>3. QED
    BY <1>1, <2>1, <2>2 DEF LocalVues
<1>7. TiragesVues /\ UNCHANGED tirage => TiragesVues'
  <2>1. SUFFICES ASSUME TiragesVues, UNCHANGED tirage PROVE TiragesVues'
    OBVIOUS
  <2>2. ASSUME NEW v \in Vues, tirage[v] # Rien
        PROVE  TirageJuste(tirage[v], curseur[v], compteur', lignes', plusMorte')
    <3>1. PICK t, c : t = tirage[v] /\ c = curseur[v]
      OBVIOUS
    <3>2. TirageJuste(t, c, compteur, lignes, plusMorte)
      BY <2>1, <2>2, <3>1 DEF TiragesVues
    <3>3. t.seq \in Nat /\ t.seq <= compteur
      BY <3>2 DEF TirageJuste, Tirages
    <3>4. ASSUME NEW i \in Ids, lignes'[i] # Rien, c < lignes'[i].seq,
                 lignes'[i].seq <= t.seq
          PROVE  t.lignes[i] = lignes'[i]
      BY <1>1, <1>5, <3>2, <3>3, <3>4 DEF TirageJuste
    <3>5. TirageJuste(t, c, compteur', lignes', plusMorte')
      BY <1>1, <1>2, <3>2, <3>3, <3>4 DEF TirageJuste
    <3>6. QED
      BY <3>1, <3>5
  <2>3. QED
    BY <1>1, <2>1, <2>2 DEF TiragesVues
<1>8. QED
  BY <1>2, <1>3, <1>4, <1>6, <1>7

-----------------------------------------------------------------------------
(* What one view changes of its own                                        *)

LEMMA MagasinMeme ==
  ASSUME MagasinVues, UNCHANGED <<lignes, compteur, plusMorte, maintenant>>
  PROVE  MagasinVues'
BY DEF MagasinVues

LEMMA LocalMeme ==
  ASSUME LocalVues,
         UNCHANGED <<lignes, compteur, curseur, locale, supprimees, condamnees>>
  PROVE  LocalVues'
BY DEF LocalVues

LEMMA TiragesMemes ==
  ASSUME TiragesVues, UNCHANGED <<lignes, compteur, plusMorte, curseur, tirage>>
  PROVE  TiragesVues'
BY DEF TiragesVues

LEMMA PousseesMemes ==
  ASSUME PousseesVues, UNCHANGED <<plusMorte, poussee, errantes>>
  PROVE  PousseesVues'
BY DEF PousseesVues

\* One copy of one view is replaced by one that still shows the row.
LEMMA UneCopie ==
  ASSUME LocalVues, NEW v \in Vues, NEW i \in Ids, i \notin supprimees[v],
         NEW c \in Conversations,
         locale' = [locale EXCEPT ![v][i] = c],
         i \notin condamnees[v] => Montree(lignes[i], curseur[v], c),
         UNCHANGED <<lignes, compteur, curseur, supprimees, condamnees>>
  PROVE  LocalVues'
<1>1. locale' \in [Vues -> [Ids -> Conversations \cup {Rien}]]
  BY DEF LocalVues
<1>2. \A w \in Vues, j \in Ids :
        locale'[w][j] = IF w = v /\ j = i THEN c ELSE locale[w][j]
  BY DEF LocalVues
<1>3. ASSUME NEW w \in Vues
      PROVE  /\ \A j \in supprimees[w] : locale'[w][j] = Rien
             /\ \A j \in Ids \ condamnees[w] :
                  Montree(lignes[j], curseur[w], locale'[w][j])
  <2>1. \A j \in supprimees[w] : j \in Ids /\ ~(w = v /\ j = i)
    BY DEF LocalVues
  <2>2. \A j \in supprimees[w] : locale'[w][j] = Rien
    BY <1>2, <2>1 DEF LocalVues
  <2>3. ASSUME NEW j \in Ids \ condamnees[w]
        PROVE  Montree(lignes[j], curseur[w], locale'[w][j])
    <3>1. CASE w = v /\ j = i
      <4>1. locale'[w][j] = c
        BY <1>2, <3>1
      <4>2. QED
        BY <3>1, <4>1
    <3>2. CASE ~(w = v /\ j = i)
      <4>1. locale'[w][j] = locale[w][j]
        BY <1>2, <3>2
      <4>2. QED
        BY <4>1 DEF LocalVues
    <3>3. QED
      BY <3>1, <3>2
  <2>4. QED
    BY <2>2, <2>3
<1>4. QED
  BY <1>1, <1>3 DEF LocalVues

\* A view takes in rows it read, and its cursor moves to c over rows it takes in.
LEMMA LignesRecues ==
  ASSUME MagasinVues, LocalVues, NEW v \in Vues,
         NEW ls \in [Ids -> Rangs \cup {Rien}],
         \A i \in Ids : DejaLue(ls[i], plusMorte[i]),
         NEW c \in Nat, curseur[v] <= c, c <= compteur,
         \A i \in Ids \ condamnees[v] :
           EstVivante(lignes[i]) /\ curseur[v] < lignes[i].seq
             /\ lignes[i].seq <= c
             => ls[i] = lignes[i] /\ ~Exclue(v, i),
         locale' = [locale EXCEPT ![v] = [i \in Ids |-> Appliquee(v, i, ls[i])]],
         curseur' = [curseur EXCEPT ![v] = c],
         UNCHANGED <<lignes, compteur, supprimees, condamnees>>
  PROVE  LocalVues'
<1>1. PICK f : f = [i \in Ids |-> Appliquee(v, i, ls[i])]
  OBVIOUS
<1>2. \A i \in Ids : f[i] = Appliquee(v, i, ls[i])
  BY <1>1
<1>3. ASSUME NEW i \in Ids
      PROVE  /\ f[i] \in Conversations \cup {Rien}
             /\ i \in supprimees[v] => f[i] = Rien
             /\ i \notin condamnees[v] => Montree(lignes[i], c, f[i])
  <2>1. PICK l \in Rangs \cup {Rien} : l = ls[i]
    OBVIOUS
  <2>2. f[i] = Appliquee(v, i, l)
    BY <1>2, <2>1
  <2>3. f[i] \in Conversations \cup {Rien} /\ (i \in supprimees[v] => f[i] = Rien)
    BY <2>2, AppliqueeEst
  <2>4. ASSUME i \notin condamnees[v]
        PROVE  Montree(lignes[i], c, f[i])
    <3>1. SUFFICES ASSUME EstVivante(lignes[i]), lignes[i].seq <= c
                   PROVE  Montree(lignes[i], c, f[i])
      BY DEF Montree
    <3>2. PICK x : x = lignes[i]
      OBVIOUS
    <3>3. /\ x \in Rangs /\ EstVivante(x) /\ x.seq \in Nat
          /\ plusMorte[i] \in Int /\ plusMorte[i] < x.dateCopie
          /\ curseur[v] \in Nat /\ i \notin supprimees[v]
          /\ x.dateCopie \in Nat /\ DejaLue(l, plusMorte[i])
      BY <2>1, <2>4, <3>1, <3>2 DEF MagasinVues, LocalVues, EstVivante, Rangs
    <3>4. CASE x.seq <= curseur[v]
      <4>1. Montree(x, curseur[v], locale[v][i])
        BY <2>4, <3>2 DEF LocalVues
      <4>2. PICK d : d = plusMorte[i]
        OBVIOUS
      <4>3. PICK cu : cu = curseur[v]
        OBVIOUS
      <4>4. cu \in Int /\ d \in Int /\ DejaLue(l, d)
            /\ Montree(x, cu, locale[v][i]) /\ (EstVivante(x) => d < x.dateCopie)
        BY <3>3, <4>1, <4>2, <4>3
      <4>5. Montree(x, cu, Appliquee(v, i, l))
        BY <3>3, <4>4, AppliqueeEst
      <4>6. QED
        BY <2>2, <3>2, <3>3, <3>4, <4>3, <4>5 DEF Montree
    <3>5. CASE curseur[v] < x.seq
      <4>1. l = x /\ ~Exclue(v, i)
        BY <2>1, <2>4, <3>1, <3>2, <3>5
      <4>2. /\ f[i] # Rien /\ Presents(l.copie) \subseteq Presents(f[i])
            /\ f[i].updatedAt >= l.dateCopie
        BY <2>2, <3>3, <4>1, AppliqueeEst
      <4>3. QED
        BY <3>2, <4>1, <4>2 DEF Montree
    <3>6. QED
      BY <3>3, <3>4, <3>5
  <2>5. QED
    BY <2>3, <2>4
<1>4. /\ f \in [Ids -> Conversations \cup {Rien}]
      /\ locale' = [locale EXCEPT ![v] = f]
  BY <1>1, <1>3
<1>5. /\ \A w \in Vues : /\ locale'[w] = IF w = v THEN f ELSE locale[w]
                         /\ curseur'[w] = IF w = v THEN c ELSE curseur[w]
      /\ locale' \in [Vues -> [Ids -> Conversations \cup {Rien}]]
      /\ curseur' \in [Vues -> Nat]
  BY <1>4 DEF LocalVues
<1>6. ASSUME NEW w \in Vues
      PROVE  /\ curseur'[w] <= compteur
             /\ \A j \in supprimees[w] : locale'[w][j] = Rien
             /\ \A j \in Ids \ condamnees[w] :
                  Montree(lignes[j], curseur'[w], locale'[w][j])
  <2>1. CASE w = v
    <3>1. locale'[w] = f /\ curseur'[w] = c /\ supprimees[w] \subseteq Ids
      BY <1>5, <2>1 DEF LocalVues
    <3>2. QED
      BY <1>3, <2>1, <3>1
  <2>2. CASE w # v
    <3>1. locale'[w] = locale[w] /\ curseur'[w] = curseur[w]
      BY <1>5, <2>2
    <3>2. QED
      BY <3>1 DEF LocalVues
  <2>3. QED
    BY <2>1, <2>2
<1>7. QED
  BY <1>5, <1>6 DEF LocalVues

\* The push of one view is replaced; requests may be left on their way.
LEMMA UnePoussee ==
  ASSUME PousseesVues, NEW v \in Vues, NEW p,
         p = Rien \/ PousseeJuste(p, plusMorte),
         poussee' = [poussee EXCEPT ![v] = p],
         \A r \in errantes' : RequeteJuste(r, plusMorte),
         UNCHANGED plusMorte
  PROVE  PousseesVues'
<1>1. p \in Poussees \cup {Rien}
  BY DEF PousseeJuste
<1>2. /\ poussee' \in [Vues -> Poussees \cup {Rien}]
      /\ \A w \in Vues : poussee'[w] = IF w = v THEN p ELSE poussee[w]
  BY <1>1 DEF PousseesVues
<1>3. ASSUME NEW w \in Vues, poussee'[w] # Rien
      PROVE  PousseeJuste(poussee'[w], plusMorte)
  <2>1. CASE w = v
    BY <1>2, <1>3, <2>1
  <2>2. CASE w # v
    BY <1>2, <1>3, <2>2 DEF PousseesVues
  <2>3. QED
    BY <2>1, <2>2
<1>4. QED
  BY <1>2, <1>3 DEF PousseesVues

-----------------------------------------------------------------------------
(* The user                                                                *)

LEMMA CreerIVues ==
  ASSUME IVues, NEW v \in Vues, NEW i \in Ids, NEW k \in Cles, Creer(v, i, k)
  PROVE  IVues'
<1>1. /\ lignes[i] = Rien /\ i \notin supprimees[v]
      /\ UNCHANGED <<lignes, compteur, plusMorte, maintenant, curseur,
                     supprimees, condamnees, tirage, poussee, errantes>>
  BY DEF Creer, magasin, horsMagasin
<1>2. PICK c : c = Premiere(v, k)
  OBVIOUS
<1>3. locale' = [locale EXCEPT ![v][i] = c]
  BY <1>2 DEF Creer
<1>4. c \in Conversations
  BY <1>2, PremiereEst DEF IVues, MagasinVues
<1>5. Montree(lignes[i], curseur[v], c)
  BY <1>1 DEF Montree, EstVivante
<1>6. LocalVues'
  BY <1>1, <1>3, <1>4, <1>5, UneCopie DEF IVues
<1>7. QED
  BY <1>1, <1>6, MagasinMeme, TiragesMemes, PousseesMemes DEF IVues

LEMMA EcrireMessageIVues ==
  ASSUME IVues, NEW v \in Vues, NEW i \in Ids, NEW k \in Cles,
         EcrireMessage(v, i, k)
  PROVE  IVues'
<1>1. /\ locale[v][i] # Rien
      /\ UNCHANGED <<lignes, compteur, plusMorte, maintenant, curseur,
                     supprimees, condamnees, tirage, poussee, errantes>>
  BY DEF EcrireMessage, magasin, horsMagasin
<1>2. PICK m : m = locale[v][i]
  OBVIOUS
<1>3. PICK c : c = AvecMessage(v, m, k)
  OBVIOUS
<1>4. m \in Conversations
  BY <1>1, <1>2 DEF IVues, LocalVues
<1>5. /\ c \in Conversations /\ Presents(m) \subseteq Presents(c)
      /\ c.updatedAt >= m.updatedAt
  BY <1>3, <1>4, AvecMessageEst DEF IVues, MagasinVues
<1>6. c.updatedAt \in Nat /\ m.updatedAt \in Nat /\ c # Rien
  BY <1>4, <1>5, RienApart DEF Conversations
<1>7. i \notin condamnees[v] => Montree(lignes[i], curseur[v], c)
  <2>1. SUFFICES ASSUME i \notin condamnees[v], EstVivante(lignes[i]),
                        lignes[i].seq <= curseur[v]
                 PROVE  Montree(lignes[i], curseur[v], c)
    BY DEF Montree
  <2>2. Montree(lignes[i], curseur[v], m)
    BY <1>2, <2>1 DEF IVues, LocalVues
  <2>3. lignes[i].dateCopie \in Nat
    BY <2>1 DEF IVues, MagasinVues, Rangs, EstVivante
  <2>4. QED
    BY <1>5, <1>6, <2>1, <2>2, <2>3 DEF Montree
<1>8. locale' = [locale EXCEPT ![v][i] = c]
  BY <1>2, <1>3 DEF EcrireMessage, IVues, LocalVues
<1>9. i \notin supprimees[v]
  BY <1>1 DEF IVues, LocalVues
<1>10. LocalVues'
  BY <1>1, <1>5, <1>7, <1>8, <1>9, UneCopie DEF IVues
<1>11. QED
  BY <1>1, <1>10, MagasinMeme, TiragesMemes, PousseesMemes DEF IVues

LEMMA SupprimerIVues ==
  ASSUME IVues, NEW v \in Vues, NEW i \in Ids, Supprimer(v, i)
  PROVE  IVues'
<1>1. /\ locale'     = [locale EXCEPT ![v][i] = Rien]
      /\ supprimees' = [supprimees EXCEPT ![v] = @ \cup {i}]
      /\ condamnees' = [condamnees EXCEPT ![v] = @ \cup {i}]
      /\ UNCHANGED <<lignes, compteur, plusMorte, maintenant, curseur,
                     tirage, poussee, errantes>>
  BY DEF Supprimer, magasin, horsMagasin
<1>2. LocalVues
  BY DEF IVues
<1>3. /\ locale' \in [Vues -> [Ids -> Conversations \cup {Rien}]]
      /\ supprimees' \in [Vues -> SUBSET Ids]
      /\ condamnees' \in [Vues -> SUBSET Ids]
  BY <1>1, <1>2 DEF LocalVues
<1>4. /\ \A w \in Vues, j \in Ids :
           locale'[w][j] = IF w = v /\ j = i THEN Rien ELSE locale[w][j]
      /\ \A w \in Vues :
           /\ supprimees'[w] = IF w = v THEN supprimees[w] \cup {i}
                               ELSE supprimees[w]
           /\ condamnees'[w] = IF w = v THEN condamnees[w] \cup {i}
                               ELSE condamnees[w]
  BY <1>1, <1>2 DEF LocalVues
<1>5. ASSUME NEW w \in Vues
      PROVE  /\ supprimees'[w] \subseteq condamnees'[w]
             /\ \A j \in supprimees'[w] : locale'[w][j] = Rien
             /\ \A j \in Ids \ condamnees'[w] :
                  Montree(lignes[j], curseur[w], locale'[w][j])
  <2>1. supprimees'[w] \subseteq condamnees'[w]
    BY <1>2, <1>4 DEF LocalVues
  <2>2. \A j \in supprimees'[w] : locale'[w][j] = Rien
    BY <1>2, <1>3, <1>4 DEF LocalVues
  <2>3. ASSUME NEW j \in Ids \ condamnees'[w]
        PROVE  Montree(lignes[j], curseur[w], locale'[w][j])
    <3>1. j \notin condamnees[w] /\ ~(w = v /\ j = i)
      BY <1>4, <2>3
    <3>2. locale'[w][j] = locale[w][j]
      BY <1>4, <3>1
    <3>3. QED
      BY <1>2, <3>1, <3>2 DEF LocalVues
  <2>4. QED
    BY <2>1, <2>2, <2>3
<1>6. LocalVues'
  BY <1>1, <1>2, <1>3, <1>5 DEF LocalVues
<1>7. QED
  BY <1>1, <1>6, MagasinMeme, TiragesMemes, PousseesMemes DEF IVues

-----------------------------------------------------------------------------
(* The pull                                                                *)

LEMMA TirerIVues ==
  ASSUME IVues, NEW v \in Vues, Tirer(v)
  PROVE  IVues'
<1>1. UNCHANGED <<lignes, compteur, plusMorte, maintenant, curseur, locale,
                  supprimees, condamnees, poussee, errantes>>
  BY DEF Tirer, magasin, horsMagasin, vue
<1>2. PICK t : t = [lignes |-> [i \in Ids |->
                      IF lignes[i] # Rien /\ lignes[i].seq > curseur[v]
                      THEN lignes[i] ELSE Rien],
                    seq |-> compteur]
  OBVIOUS
<1>3. tirage' = [tirage EXCEPT ![v] = t]
  BY <1>2 DEF Tirer
<1>4. /\ t.seq = compteur
      /\ \A i \in Ids : t.lignes[i] = IF lignes[i] # Rien
                                         /\ lignes[i].seq > curseur[v]
                                      THEN lignes[i] ELSE Rien
  BY <1>2
<1>5. /\ MagasinVues /\ compteur \in Nat /\ curseur[v] \in Nat
      /\ \A i \in Ids : lignes[i] \in Rangs \cup {Rien}
      /\ \A i \in Ids : lignes[i] # Rien => lignes[i].seq \in Nat
  BY DEF IVues, MagasinVues, LocalVues, Rangs
<1>6. t \in Tirages
  <2>1. [i \in Ids |-> IF lignes[i] # Rien /\ lignes[i].seq > curseur[v]
                       THEN lignes[i] ELSE Rien] \in [Ids -> Rangs \cup {Rien}]
    BY <1>5
  <2>2. QED
    BY <1>2, <1>5, <2>1 DEF Tirages
<1>7. ASSUME NEW i \in Ids
      PROVE  DejaLue(t.lignes[i], plusMorte[i])
  <2>1. EstTombale(lignes[i]) => lignes[i].deletedAt = plusMorte[i]
    BY <1>5 DEF MagasinVues
  <2>2. plusMorte[i] \in Int
    BY <1>5 DEF MagasinVues
  <2>3. QED
    BY <1>4, <1>5, <2>1, <2>2 DEF DejaLue, EstTombale
<1>8. TirageJuste(t, curseur[v], compteur, lignes, plusMorte)
  BY <1>4, <1>5, <1>6, <1>7 DEF TirageJuste
<1>9. TiragesVues'
  <2>1. /\ tirage' \in [Vues -> Tirages \cup {Rien}]
        /\ \A w \in Vues : tirage'[w] = IF w = v THEN t ELSE tirage[w]
    BY <1>3, <1>6 DEF IVues, TiragesVues
  <2>2. ASSUME NEW w \in Vues, tirage'[w] # Rien
        PROVE  TirageJuste(tirage'[w], curseur[w], compteur, lignes, plusMorte)
    <3>1. CASE w = v
      BY <1>8, <2>1, <3>1
    <3>2. CASE w # v
      BY <2>1, <2>2, <3>2 DEF IVues, TiragesVues
    <3>3. QED
      BY <3>1, <3>2
  <2>3. QED
    BY <1>1, <2>1, <2>2 DEF TiragesVues
<1>10. QED
  BY <1>1, <1>9, MagasinMeme, LocalMeme, PousseesMemes DEF IVues

\* The answers under way without the one of view v, whose cursor may have moved.
LEMMA TirageOte ==
  ASSUME TiragesVues, NEW v \in Vues, tirage' = [tirage EXCEPT ![v] = Rien],
         \A w \in Vues \ {v} : curseur'[w] = curseur[w],
         UNCHANGED <<lignes, compteur, plusMorte>>
  PROVE  TiragesVues'
<1>1. /\ tirage' \in [Vues -> Tirages \cup {Rien}]
      /\ \A w \in Vues : tirage'[w] = IF w = v THEN Rien ELSE tirage[w]
  BY DEF TiragesVues
<1>2. QED
  BY <1>1 DEF TiragesVues

LEMMA RecevoirTirageIVues ==
  ASSUME IVues, NEW v \in Vues, RecevoirTirage(v)
  PROVE  IVues'
<1>1. /\ tirage[v] # Rien
      /\ tirage' = [tirage EXCEPT ![v] = Rien]
      /\ UNCHANGED <<lignes, compteur, plusMorte, maintenant,
                     supprimees, condamnees, poussee, errantes>>
  BY DEF RecevoirTirage, magasin
<1>2. PICK t : t = tirage[v]
  OBVIOUS
<1>3. PICK ls : ls = t.lignes
  OBVIOUS
<1>4. PICK c : c = CurseurApres(v, t)
  OBVIOUS
<1>5. /\ locale' = [locale EXCEPT ![v] = [i \in Ids |-> Appliquee(v, i, ls[i])]]
      /\ curseur' = [curseur EXCEPT ![v] = c]
  BY <1>2, <1>3, <1>4 DEF RecevoirTirage
<1>6. TirageJuste(t, curseur[v], compteur, lignes, plusMorte)
  BY <1>1, <1>2 DEF IVues, TiragesVues
<1>7. /\ ls \in [Ids -> Rangs \cup {Rien}] /\ t.seq \in Nat /\ t.seq <= compteur
      /\ \A i \in Ids : DejaLue(ls[i], plusMorte[i])
      /\ \A i \in Ids : lignes[i] # Rien /\ curseur[v] < lignes[i].seq
                          /\ lignes[i].seq <= t.seq => ls[i] = lignes[i]
  BY <1>3, <1>6 DEF TirageJuste, Tirages
<1>8. /\ curseur[v] \in Nat /\ curseur[v] <= compteur /\ compteur \in Nat
      /\ \A i \in Ids : lignes[i] # Rien => lignes[i].seq \in Nat
      /\ supprimees[v] \subseteq condamnees[v]
  BY DEF IVues, LocalVues, MagasinVues, Rangs
<1>9. \/ c = curseur[v]
      \/ c = t.seq /\ curseur[v] <= t.seq /\ ExcluesDuTirage(v, ls) = {}
  BY <1>3, <1>4, <1>7, <1>8 DEF CurseurApres, MaxDe
<1>10. c \in Nat /\ curseur[v] <= c /\ c <= compteur
  BY <1>7, <1>8, <1>9
<1>11. ASSUME NEW i \in Ids \ condamnees[v], EstVivante(lignes[i]),
              curseur[v] < lignes[i].seq, lignes[i].seq <= c
       PROVE  ls[i] = lignes[i] /\ ~Exclue(v, i)
  <2>1. lignes[i] # Rien /\ lignes[i].seq \in Nat
    BY <1>8, <1>11 DEF EstVivante
  <2>2. c = t.seq /\ ExcluesDuTirage(v, ls) = {}
    BY <1>8, <1>9, <1>11, <2>1
  <2>3. ls[i] = lignes[i]
    BY <1>7, <1>11, <2>1, <2>2
  <2>4. i \notin supprimees[v]
    BY <1>8
  <2>5. QED
    BY <2>1, <2>2, <2>3, <2>4 DEF ExcluesDuTirage
<1>12. LocalVues'
  BY <1>1, <1>5, <1>7, <1>10, <1>11, LignesRecues DEF IVues
<1>13. TiragesVues'
  <2>1. \A w \in Vues \ {v} : curseur'[w] = curseur[w]
    BY <1>5 DEF IVues, LocalVues
  <2>2. QED
    BY <1>1, <2>1, TirageOte DEF IVues
<1>14. QED
  BY <1>1, <1>12, <1>13, MagasinMeme, PousseesMemes DEF IVues

-----------------------------------------------------------------------------
(* The push                                                                *)

\* A push that starts, with nothing sent.
LEMMA PousserDebutIVues ==
  ASSUME IVues, NEW v \in Vues, PousserDebut(v)
  PROVE  IVues'
<1>1. UNCHANGED <<lignes, compteur, plusMorte, maintenant, curseur, locale,
                  supprimees, condamnees, tirage, errantes>>
  BY DEF PousserDebut, magasin, horsMagasin, vue
<1>2. PICK p : p = [aSupprimer |-> supprimees[v] \ quarantaine[v],
                    choisie |-> FALSE, aEnvoyer |-> Aucune, recues |-> Aucune,
                    vol |-> Rien]
  OBVIOUS
<1>3. poussee' = [poussee EXCEPT ![v] = p]
  BY <1>2 DEF PousserDebut
<1>4. /\ supprimees[v] \subseteq Ids
      /\ Aucune \in [Ids -> {Rien}] /\ \A i \in Ids : Aucune[i] = Rien
  BY DEF IVues, LocalVues, Aucune
<1>5. p \in Poussees
  BY <1>2, <1>4 DEF Poussees
<1>6. \A i \in Ids : DejaLue(p.recues[i], plusMorte[i])
  BY <1>2, <1>4 DEF DejaLue, EstTombale
<1>7. PousseeJuste(p, plusMorte)
  BY <1>2, <1>5, <1>6 DEF PousseeJuste
<1>8. PousseesVues'
  BY <1>1, <1>3, <1>7, UnePoussee DEF IVues, PousseesVues
<1>9. QED
  BY <1>1, <1>8, MagasinMeme, LocalMeme, TiragesMemes DEF IVues

\* A request leaves, with the copy it has to carry and no answer.
LEMMA RequetePart ==
  ASSUME NEW p, NEW m, PousseeJuste(p, m), NEW i \in Ids, NEW S \in SUBSET Ids,
         NEW e \in [Ids -> Conversations \cup {Rien}],
         NEW methode \in {"PUT", "DELETE"}, NEW c \in Conversations \cup {Rien},
         methode = "PUT" => c \in Conversations, NEW q,
         q = [p EXCEPT !.aSupprimer = S, !.aEnvoyer = e,
                       !.vol = [methode |-> methode, id |-> i, copie |-> c,
                                reponse |-> Rien]]
  PROVE  PousseeJuste(q, m)
<1>1. p \in Poussees /\ \A j \in Ids : DejaLue(p.recues[j], m[j])
  BY DEF PousseeJuste
<1>2. PICK r : r = [methode |-> methode, id |-> i, copie |-> c, reponse |-> Rien]
  OBVIOUS
<1>3. /\ r \in Requetes /\ r.methode = methode /\ r.id = i /\ r.copie = c
      /\ r.reponse = Rien
  BY <1>2 DEF Requetes
<1>4. RequeteJuste(r, m)
  BY <1>3 DEF RequeteJuste, DejaLue, EstTombale
<1>5. q = [p EXCEPT !.aSupprimer = S, !.aEnvoyer = e, !.vol = r]
  BY <1>2
<1>6. q \in Poussees /\ q.vol = r /\ q.recues = p.recues
  BY <1>1, <1>3, <1>5 DEF Poussees
<1>7. QED
  BY <1>1, <1>4, <1>6 DEF PousseeJuste

LEMMA PartirDeleteIVues ==
  ASSUME IVues, NEW v \in Vues, NEW i \in Ids, PartirDelete(v, i)
  PROVE  IVues'
<1>1. /\ poussee[v] # Rien
      /\ UNCHANGED <<lignes, compteur, plusMorte, maintenant, curseur, locale,
                     supprimees, condamnees, tirage, errantes>>
  BY DEF PartirDelete, Libre, magasin, horsMagasin, vue
<1>2. PICK p : p = poussee[v]
  OBVIOUS
<1>3. PICK S : S = p.aSupprimer \ {i}
  OBVIOUS
<1>4. PICK e : e = p.aEnvoyer
  OBVIOUS
<1>5. PousseeJuste(p, plusMorte) /\ p \in Poussees
  BY <1>1, <1>2 DEF IVues, PousseesVues, PousseeJuste
<1>6. S \in SUBSET Ids /\ e \in [Ids -> Conversations \cup {Rien}]
  BY <1>3, <1>4, <1>5 DEF Poussees
<1>7. PICK q : q = [p EXCEPT !.aSupprimer = S, !.aEnvoyer = e,
                             !.vol = [methode |-> "DELETE", id |-> i,
                                      copie |-> Rien, reponse |-> Rien]]
  OBVIOUS
<1>8. PICK o \in {"PUT", "DELETE"} : o = "DELETE"
  OBVIOUS
<1>9. q = [p EXCEPT !.aSupprimer = S, !.aEnvoyer = e,
                    !.vol = [methode |-> o, id |-> i, copie |-> Rien,
                             reponse |-> Rien]]
  BY <1>7, <1>8
<1>10. PousseeJuste(q, plusMorte)
  <2>1. Rien \in Conversations \cup {Rien} /\ (o = "PUT" => Rien \in Conversations)
    BY <1>8
  <2>2. QED
    BY <1>5, <1>6, <1>9, <2>1, RequetePart
<1>11. poussee' = [poussee EXCEPT ![v] = q]
  <2>1. [p EXCEPT !.aSupprimer = S,
                  !.vol = [methode |-> "DELETE", id |-> i, copie |-> Rien,
                           reponse |-> Rien]] = q
    BY <1>4, <1>5, <1>7 DEF Poussees
  <2>2. QED
    BY <1>2, <1>3, <2>1 DEF PartirDelete, IVues, PousseesVues
<1>12. PousseesVues'
  BY <1>1, <1>10, <1>11, UnePoussee DEF IVues, PousseesVues
<1>13. QED
  BY <1>1, <1>12, MagasinMeme, LocalMeme, TiragesMemes DEF IVues

LEMMA PartirPutIVues ==
  ASSUME IVues, NEW v \in Vues, NEW i \in Ids, PartirPut(v, i)
  PROVE  IVues'
<1>1. /\ poussee[v] # Rien /\ poussee[v].aEnvoyer[i] # Rien
      /\ UNCHANGED <<lignes, compteur, plusMorte, maintenant, curseur, locale,
                     supprimees, condamnees, tirage, errantes>>
  BY DEF PartirPut, Libre, magasin, horsMagasin, vue
<1>2. PICK p : p = poussee[v]
  OBVIOUS
<1>3. PICK S : S = p.aSupprimer
  OBVIOUS
<1>4. PICK e : e = [p.aEnvoyer EXCEPT ![i] = Rien]
  OBVIOUS
<1>5. PousseeJuste(p, plusMorte) /\ p \in Poussees
  BY <1>1, <1>2 DEF IVues, PousseesVues, PousseeJuste
<1>6. /\ p.aEnvoyer \in [Ids -> Conversations \cup {Rien}] /\ S \in SUBSET Ids
      /\ p.aEnvoyer[i] # Rien
  BY <1>1, <1>2, <1>3, <1>5 DEF Poussees
<1>7. PICK c \in Conversations : c = p.aEnvoyer[i]
  BY <1>6
<1>8. e \in [Ids -> Conversations \cup {Rien}]
  BY <1>4, <1>6
<1>9. PICK o \in {"PUT", "DELETE"} : o = "PUT"
  OBVIOUS
<1>10. PICK q : q = [p EXCEPT !.aSupprimer = S, !.aEnvoyer = e,
                              !.vol = [methode |-> o, id |-> i, copie |-> c,
                                       reponse |-> Rien]]
  OBVIOUS
<1>11. PousseeJuste(q, plusMorte)
  <2>1. c \in Conversations \cup {Rien} /\ (o = "PUT" => c \in Conversations)
    OBVIOUS
  <2>2. QED
    BY <1>5, <1>6, <1>8, <1>10, <2>1, RequetePart
<1>12. poussee' = [poussee EXCEPT ![v] = q]
  <2>1. [p EXCEPT !.aEnvoyer = e,
                  !.vol = [methode |-> "PUT", id |-> i, copie |-> c,
                           reponse |-> Rien]] = q
    BY <1>3, <1>5, <1>9, <1>10 DEF Poussees
  <2>2. poussee' = [poussee EXCEPT ![v] =
          [p EXCEPT !.aEnvoyer = e,
                    !.vol = [methode |-> "PUT", id |-> i, copie |-> c,
                             reponse |-> Rien]]]
    BY <1>2, <1>4, <1>7 DEF PartirPut, IVues, PousseesVues
  <2>3. QED
    BY <2>1, <2>2
<1>13. PousseesVues'
  BY <1>1, <1>11, <1>12, UnePoussee DEF IVues, PousseesVues
<1>14. QED
  BY <1>1, <1>13, MagasinMeme, LocalMeme, TiragesMemes DEF IVues

LEMMA ChoisirIVues ==
  ASSUME IVues, NEW v \in Vues, Choisir(v)
  PROVE  IVues'
<1>1. /\ poussee[v] # Rien /\ poussee[v].vol = Rien
      /\ UNCHANGED <<lignes, compteur, plusMorte, maintenant, curseur, locale,
                     supprimees, condamnees, tirage, errantes>>
  BY DEF Choisir, Libre, magasin, horsMagasin, vue
<1>2. PICK p : p = poussee[v]
  OBVIOUS
<1>3. PICK e : e = [i \in Ids |-> IF EnRetard(v, i) THEN locale[v][i] ELSE Rien]
  OBVIOUS
<1>4. PousseeJuste(p, plusMorte) /\ p \in Poussees /\ p.vol = Rien
  BY <1>1, <1>2 DEF IVues, PousseesVues, PousseeJuste
<1>5. e \in [Ids -> Conversations \cup {Rien}]
  BY <1>3 DEF IVues, LocalVues
<1>6. PICK q : q = [p EXCEPT !.choisie = TRUE, !.aEnvoyer = e]
  OBVIOUS
<1>7. q \in Poussees /\ q.vol = Rien /\ q.recues = p.recues
  BY <1>4, <1>5, <1>6 DEF Poussees
<1>8. PousseeJuste(q, plusMorte)
  BY <1>4, <1>7 DEF PousseeJuste
<1>9. poussee' = [poussee EXCEPT ![v] = q]
  BY <1>2, <1>3, <1>6 DEF Choisir, IVues, PousseesVues
<1>10. PousseesVues'
  BY <1>1, <1>8, <1>9, UnePoussee DEF IVues, PousseesVues
<1>11. QED
  BY <1>1, <1>10, MagasinMeme, LocalMeme, TiragesMemes DEF IVues

\* A request handled by the store.
LEMMA TraiterIVues ==
  ASSUME IVues, NEW r \in Requetes, RequeteJuste(r, plusMorte), Traiter(r),
         UNCHANGED <<vue, tirage, condamnees>>
  PROVE  /\ MagasinVues' /\ Progres /\ LocalVues' /\ TiragesVues'
         /\ r.methode = "DELETE" => plusMorte'[r.id] >= 0
         /\ \A s : RequeteJuste(s, plusMorte) => RequeteJuste(s, plusMorte')
         /\ \A p : PousseeJuste(p, plusMorte) => PousseeJuste(p, plusMorte')
BY TraiterProgres, ProgresGarde DEF IVues, vue

LEMMA ServirIVues ==
  ASSUME IVues, NEW v \in Vues, Servir(v)
  PROVE  IVues'
<1>1. /\ poussee[v] # Rien /\ poussee[v].vol # Rien
      /\ Traiter(poussee[v].vol)
      /\ UNCHANGED <<vue, tirage, errantes, condamnees>>
  BY DEF Servir
<1>2. PICK p : p = poussee[v]
  OBVIOUS
<1>3. PousseeJuste(p, plusMorte) /\ p \in Poussees
  BY <1>1, <1>2 DEF IVues, PousseesVues, PousseeJuste
<1>4. PICK r \in Requetes : r = p.vol
  BY <1>1, <1>2, <1>3 DEF Poussees
<1>5. RequeteJuste(r, plusMorte)
  BY <1>1, <1>2, <1>3, <1>4 DEF PousseeJuste
<1>6. /\ MagasinVues' /\ Progres /\ LocalVues' /\ TiragesVues'
      /\ r.methode = "DELETE" => plusMorte'[r.id] >= 0
      /\ \A s : RequeteJuste(s, plusMorte) => RequeteJuste(s, plusMorte')
      /\ \A q : PousseeJuste(q, plusMorte) => PousseeJuste(q, plusMorte')
  <2>1. Traiter(r)
    BY <1>1, <1>2, <1>4
  <2>2. QED
    BY <1>1, <1>5, <2>1, TraiterIVues
<1>7. PICK l, m : l = lignes'[r.id] /\ m = plusMorte'
  OBVIOUS
<1>8. /\ r.id \in Ids /\ l \in Rangs \cup {Rien}
      /\ EstTombale(l) => l.deletedAt = m[r.id]
      /\ m \in [Ids -> Int]
  BY <1>6, <1>7 DEF MagasinVues, Requetes, EstTombale
<1>9. PICK s : s = [r EXCEPT !.reponse = l]
  OBVIOUS
<1>10. /\ s \in Requetes /\ s.methode = r.methode /\ s.id = r.id
       /\ s.copie = r.copie /\ s.reponse = l
  BY <1>8, <1>9 DEF Requetes
<1>11. RequeteJuste(s, m)
  <2>1. DejaLue(l, m[r.id])
    <3>1. m[r.id] \in Int
      BY <1>8
    <3>2. QED
      BY <1>8, <3>1 DEF DejaLue
  <2>2. r.methode = "DELETE" => m[r.id] >= 0
    BY <1>6, <1>7
  <2>3. r.methode = "PUT" => r.copie \in Conversations
    BY <1>5 DEF RequeteJuste
  <2>4. QED
    BY <1>10, <2>1, <2>2, <2>3 DEF RequeteJuste
<1>12. PICK q : q = [p EXCEPT !.vol = s]
  OBVIOUS
<1>13. q \in Poussees /\ q.vol = s /\ q.recues = p.recues
  BY <1>3, <1>10, <1>12 DEF Poussees
<1>14. PousseeJuste(q, m)
  <2>1. PousseeJuste(p, m)
    BY <1>3, <1>6, <1>7
  <2>2. QED
    BY <1>11, <1>13, <2>1 DEF PousseeJuste
<1>15. poussee' = [poussee EXCEPT ![v] = q]
  <2>1. poussee' = [poussee EXCEPT ![v].vol.reponse = l]
    BY <1>2, <1>4, <1>7 DEF Servir
  <2>2. poussee' = [poussee EXCEPT ![v] = [p EXCEPT !.vol = [r EXCEPT !.reponse = l]]]
    BY <1>2, <1>4, <2>1
  <2>3. QED
    BY <1>9, <1>12, <2>2
<1>16. PousseesVues'
  <2>1. /\ poussee' \in [Vues -> Poussees \cup {Rien}]
        /\ \A w \in Vues : poussee'[w] = IF w = v THEN q ELSE poussee[w]
    BY <1>13, <1>15 DEF IVues, PousseesVues
  <2>2. ASSUME NEW w \in Vues, poussee'[w] # Rien
        PROVE  PousseeJuste(poussee'[w], plusMorte')
    <3>1. CASE w = v
      BY <1>7, <1>14, <2>1, <3>1
    <3>2. CASE w # v
      <4>1. PousseeJuste(poussee[w], plusMorte)
        BY <2>1, <2>2, <3>2 DEF IVues, PousseesVues
      <4>2. QED
        BY <1>6, <2>1, <3>2, <4>1
    <3>3. QED
      BY <3>1, <3>2
  <2>3. \A x \in errantes' : RequeteJuste(x, plusMorte')
    BY <1>1, <1>6 DEF IVues, PousseesVues
  <2>4. QED
    BY <2>1, <2>2, <2>3 DEF PousseesVues
<1>17. QED
  BY <1>6, <1>16 DEF IVues

LEMMA ServirErranteIVues ==
  ASSUME IVues, NEW r \in errantes, ServirErrante(r)
  PROVE  IVues'
<1>1. /\ Traiter(r) /\ errantes' \subseteq errantes
      /\ UNCHANGED <<vue, tirage, poussee, condamnees>>
  BY DEF ServirErrante
<1>2. RequeteJuste(r, plusMorte) /\ r \in Requetes
  BY DEF IVues, PousseesVues, RequeteJuste
<1>3. /\ MagasinVues' /\ LocalVues' /\ TiragesVues'
      /\ \A s : RequeteJuste(s, plusMorte) => RequeteJuste(s, plusMorte')
      /\ \A q : PousseeJuste(q, plusMorte) => PousseeJuste(q, plusMorte')
  BY <1>1, <1>2, TraiterIVues
<1>4. PousseesVues'
  BY <1>1, <1>3 DEF IVues, PousseesVues
<1>5. QED
  BY <1>3, <1>4 DEF IVues

\* A push that goes on after its request: nothing flies any more.
LEMMA RequeteFinie ==
  ASSUME NEW p, NEW m, PousseeJuste(p, m),
         NEW f \in [Ids -> Rangs \cup {Rien}],
         \A j \in Ids : DejaLue(f[j], m[j]), NEW q,
         q = [p EXCEPT !.vol = Rien, !.recues = f]
  PROVE  PousseeJuste(q, m)
<1>1. p \in Poussees
  BY DEF PousseeJuste
<1>2. q \in Poussees /\ q.vol = Rien /\ q.recues = f
  BY <1>1 DEF Poussees
<1>3. QED
  BY <1>2 DEF PousseeJuste

LEMMA RequeteOtee ==
  ASSUME NEW p, NEW m, PousseeJuste(p, m), NEW q, q = [p EXCEPT !.vol = Rien]
  PROVE  PousseeJuste(q, m)
<1>1. p \in Poussees
  BY DEF PousseeJuste
<1>2. q \in Poussees /\ q.vol = Rien /\ q.recues = p.recues
  BY <1>1 DEF Poussees
<1>3. QED
  BY <1>2 DEF PousseeJuste

LEMMA RecevoirPutIVues ==
  ASSUME IVues, NEW v \in Vues, RecevoirPut(v)
  PROVE  IVues'
<1>1. /\ poussee[v] # Rien /\ poussee[v].vol # Rien
      /\ UNCHANGED <<lignes, compteur, plusMorte, maintenant, curseur, locale,
                     supprimees, condamnees, tirage, errantes>>
  BY DEF RecevoirPut, Repondue, magasin, horsMagasin
<1>2. PICK p : p = poussee[v]
  OBVIOUS
<1>3. PousseeJuste(p, plusMorte) /\ p \in Poussees
  BY <1>1, <1>2 DEF IVues, PousseesVues, PousseeJuste
<1>4. PICK r \in Requetes : r = p.vol
  BY <1>1, <1>2, <1>3 DEF Poussees
<1>5. /\ DejaLue(r.reponse, plusMorte[r.id]) /\ r.id \in Ids
      /\ r.reponse \in Rangs \cup {Rien}
      /\ p.recues \in [Ids -> Rangs \cup {Rien}]
      /\ \A j \in Ids : DejaLue(p.recues[j], plusMorte[j])
  BY <1>1, <1>2, <1>3, <1>4 DEF PousseeJuste, RequeteJuste, Requetes, Poussees
<1>6. PICK f : f = [p.recues EXCEPT ![r.id] = r.reponse]
  OBVIOUS
<1>7. /\ f \in [Ids -> Rangs \cup {Rien}]
      /\ \A j \in Ids : DejaLue(f[j], plusMorte[j])
  BY <1>5, <1>6
<1>8. PICK q : q = [p EXCEPT !.vol = Rien, !.recues = f]
  OBVIOUS
<1>9. PousseeJuste(q, plusMorte)
  BY <1>3, <1>7, <1>8, RequeteFinie
<1>10. poussee' = [poussee EXCEPT ![v] = q]
  <2>1. poussee' = [poussee EXCEPT ![v].vol = Rien, ![v].recues[r.id] = r.reponse]
    BY <1>2, <1>4 DEF RecevoirPut
  <2>2. QED
    BY <1>2, <1>6, <1>8, <2>1 DEF IVues, PousseesVues
<1>11. PousseesVues'
  BY <1>1, <1>9, <1>10, UnePoussee DEF IVues, PousseesVues
<1>12. QED
  BY <1>1, <1>11, MagasinMeme, LocalMeme, TiragesMemes DEF IVues

\* A deletion leaves the queue of its view: the conversation stays out of it.
LEMMA SuppressionOtee ==
  ASSUME LocalVues, NEW v \in Vues, NEW S, S \subseteq supprimees[v],
         supprimees' = [supprimees EXCEPT ![v] = S],
         UNCHANGED <<lignes, compteur, curseur, locale, condamnees>>
  PROVE  LocalVues'
<1>1. /\ supprimees' \in [Vues -> SUBSET Ids]
      /\ \A w \in Vues : supprimees'[w] \subseteq supprimees[w]
  BY DEF LocalVues
<1>2. QED
  BY <1>1 DEF LocalVues

\* The steps that end a request without telling the view anything of a row.
LEMMA VolFiniIVues ==
  ASSUME IVues, NEW v \in Vues, RecevoirDelete(v) \/ Refuser(v) \/ Interdire(v)
  PROVE  IVues'
<1>1. /\ poussee[v] # Rien
      /\ poussee' = [poussee EXCEPT ![v].vol = Rien]
      /\ UNCHANGED <<lignes, compteur, plusMorte, maintenant, curseur, locale,
                     condamnees, tirage, errantes>>
  BY DEF RecevoirDelete, Refuser, Interdire, Repondue, magasin, horsMagasin
<1>2. PICK S : /\ S \subseteq supprimees[v]
               /\ supprimees' = [supprimees EXCEPT ![v] = S]
  <2>1. CASE RecevoirDelete(v)
    BY <2>1 DEF RecevoirDelete
  <2>2. CASE Refuser(v)
    BY <2>2 DEF Refuser
  <2>3. CASE Interdire(v)
    BY <2>3 DEF Interdire, IVues, LocalVues
  <2>4. QED
    BY <2>1, <2>2, <2>3
<1>3. PICK p, q : p = poussee[v] /\ q = [p EXCEPT !.vol = Rien]
  OBVIOUS
<1>4. PousseeJuste(q, plusMorte)
  <2>1. PousseeJuste(p, plusMorte)
    BY <1>1, <1>3 DEF IVues, PousseesVues
  <2>2. QED
    BY <1>3, <2>1, RequeteOtee
<1>5. poussee' = [poussee EXCEPT ![v] = q]
  BY <1>1, <1>3
<1>6. PousseesVues'
  BY <1>1, <1>4, <1>5, UnePoussee DEF IVues, PousseesVues
<1>7. LocalVues'
  BY <1>1, <1>2, SuppressionOtee DEF IVues
<1>8. QED
  BY <1>1, <1>6, <1>7, MagasinMeme, TiragesMemes DEF IVues

LEMMA PousserFinIVues ==
  ASSUME IVues, NEW v \in Vues, PousserFin(v)
  PROVE  IVues'
<1>1. /\ poussee[v] # Rien
      /\ poussee' = [poussee EXCEPT ![v] = Rien]
      /\ UNCHANGED <<lignes, compteur, plusMorte, maintenant, curseur,
                     supprimees, condamnees, tirage, errantes>>
  BY DEF PousserFin, Libre, magasin, horsMagasin
<1>2. PICK ls : ls = poussee[v].recues
  OBVIOUS
<1>3. /\ ls \in [Ids -> Rangs \cup {Rien}]
      /\ \A i \in Ids : DejaLue(ls[i], plusMorte[i])
  BY <1>1, <1>2 DEF IVues, PousseesVues, PousseeJuste, Poussees
<1>4. locale' = [locale EXCEPT ![v] = [i \in Ids |-> Appliquee(v, i, ls[i])]]
  BY <1>2 DEF PousserFin
<1>5. PICK c : c = curseur[v]
  OBVIOUS
<1>6. /\ c \in Nat /\ curseur[v] <= c /\ c <= compteur
      /\ \A i \in Ids : lignes[i] # Rien => lignes[i].seq \in Nat
      /\ curseur \in [Vues -> Nat]
  BY <1>5 DEF IVues, LocalVues, MagasinVues, Rangs
<1>7. curseur' = [curseur EXCEPT ![v] = c]
  BY <1>1, <1>5, <1>6
<1>8. \A i \in Ids \ condamnees[v] :
        ~(EstVivante(lignes[i]) /\ curseur[v] < lignes[i].seq
            /\ lignes[i].seq <= c)
  BY <1>5, <1>6 DEF EstVivante
<1>9. LocalVues'
  BY <1>1, <1>3, <1>4, <1>6, <1>7, <1>8, LignesRecues DEF IVues
<1>10. PousseesVues'
  BY <1>1, UnePoussee DEF IVues, PousseesVues
<1>11. QED
  BY <1>1, <1>9, <1>10, MagasinMeme, TiragesMemes DEF IVues

-----------------------------------------------------------------------------
(* Losses, flows and the clock                                             *)

LEMMA PerteIVues ==
  ASSUME IVues, NEW v \in Vues,
         PerdreTirage(v) \/ Recharger(v)
           \/ \E arrivera \in BOOLEAN : PerdreRequete(v, arrivera)
  PROVE  IVues'
<1>1. UNCHANGED <<lignes, compteur, plusMorte, maintenant, curseur, locale,
                  supprimees, condamnees>>
  BY DEF PerdreTirage, Recharger, PerdreRequete, magasin, horsMagasin, vue
<1>2. TiragesVues'
  <2>1. \/ UNCHANGED tirage
        \/ tirage' = [tirage EXCEPT ![v] = Rien]
    BY DEF PerdreTirage, Recharger, PerdreRequete
  <2>2. CASE UNCHANGED tirage
    BY <1>1, <2>2, TiragesMemes DEF IVues
  <2>3. CASE tirage' = [tirage EXCEPT ![v] = Rien]
    <3>1. \A w \in Vues \ {v} : curseur'[w] = curseur[w]
      BY <1>1
    <3>2. QED
      BY <1>1, <2>3, <3>1, TirageOte DEF IVues
  <2>4. QED
    BY <2>1, <2>2, <2>3
<1>3. PousseesVues'
  <2>1. \/ UNCHANGED <<poussee, errantes>>
        \/ /\ poussee' = [poussee EXCEPT ![v] = Rien]
           /\ \/ errantes' = errantes
              \/ /\ poussee[v] # Rien /\ poussee[v].vol # Rien
                 /\ errantes' = errantes \cup {poussee[v].vol}
    BY DEF PerdreTirage, Recharger, PerdreRequete
  <2>2. poussee[v] # Rien /\ poussee[v].vol # Rien =>
          RequeteJuste(poussee[v].vol, plusMorte)
    BY DEF IVues, PousseesVues, PousseeJuste
  <2>3. \A r \in errantes : RequeteJuste(r, plusMorte)
    BY DEF IVues, PousseesVues
  <2>4. CASE UNCHANGED <<poussee, errantes>>
    BY <1>1, <2>4, PousseesMemes DEF IVues
  <2>5. CASE ~UNCHANGED <<poussee, errantes>>
    <3>1. /\ poussee' = [poussee EXCEPT ![v] = Rien]
          /\ \A r \in errantes' : RequeteJuste(r, plusMorte)
      BY <2>1, <2>2, <2>3, <2>5
    <3>2. QED
      BY <1>1, <3>1, UnePoussee DEF IVues
  <2>6. QED
    BY <2>4, <2>5
<1>4. QED
  BY <1>1, <1>2, <1>3, MagasinMeme, LocalMeme DEF IVues

LEMMA FluxIVues ==
  ASSUME IVues, NEW v \in Vues, (\E i \in Ids : DebutFlux(v, i)) \/ FinFlux(v)
  PROVE  IVues'
<1>1. UNCHANGED <<lignes, compteur, plusMorte, maintenant, curseur, locale,
                  supprimees, condamnees, tirage, poussee, errantes>>
  BY DEF DebutFlux, FinFlux, magasin, horsMagasin
<1>2. QED
  BY <1>1, MagasinMeme, LocalMeme, TiragesMemes, PousseesMemes DEF IVues

LEMMA PasserIVues ==
  ASSUME IVues, Passer
  PROVE  IVues'
<1>1. /\ maintenant' = maintenant + 1
      /\ UNCHANGED <<lignes, compteur, plusMorte, curseur, locale,
                     supprimees, condamnees, tirage, poussee, errantes>>
  BY DEF Passer, Avancer, magasin, lecteurs, vue
<1>2. MagasinVues'
  BY <1>1 DEF IVues, MagasinVues
<1>3. QED
  BY <1>1, <1>2, LocalMeme, TiragesMemes, PousseesMemes DEF IVues

-----------------------------------------------------------------------------
(* The theorems                                                            *)

LEMMA InitIVues ==
  ASSUME InitVues
  PROVE  IVues
<1>1. /\ lignes = [i \in Ids |-> Rien] /\ compteur = 0 /\ maintenant = 0
      /\ curseur = [l \in Vues |-> 0] /\ plusMorte = [i \in Ids |-> -1]
  BY ViewsAreReaders DEF InitVues, Init
<1>2. MagasinVues
  BY <1>1 DEF MagasinVues, EstVivante, EstTombale
<1>3. LocalVues
  BY <1>1 DEF InitVues, Aucune, LocalVues, Montree, EstVivante
<1>4. TiragesVues /\ PousseesVues
  BY DEF InitVues, TiragesVues, PousseesVues
<1>5. QED
  BY <1>2, <1>3, <1>4 DEF IVues

LEMMA NextIVues ==
  ASSUME IVues, [NextVues]_varsVues
  PROVE  IVues'
<1>1. ASSUME NEW v \in Vues, Utilisateur(v)
      PROVE  IVues'
  BY <1>1, CreerIVues, EcrireMessageIVues, SupprimerIVues, FluxIVues
  DEF Utilisateur
<1>2. ASSUME NEW v \in Vues, Pousser(v)
      PROVE  IVues'
  BY <1>2, PousserDebutIVues, ChoisirIVues, PartirDeleteIVues, PartirPutIVues,
     ServirIVues, VolFiniIVues, RecevoirPutIVues, PousserFinIVues DEF Pousser
<1>3. ASSUME NEW v \in Vues, Panne(v)
      PROVE  IVues'
  BY <1>3, PerteIVues, VolFiniIVues DEF Panne
<1>4. ASSUME NEW v \in Vues, FinFlux(v) \/ Tirer(v) \/ RecevoirTirage(v)
      PROVE  IVues'
  BY <1>4, FluxIVues, TirerIVues, RecevoirTirageIVues
<1>5. ASSUME NEW r \in errantes, ServirErrante(r)
      PROVE  IVues'
  BY <1>5, ServirErranteIVues
<1>6. CASE UNCHANGED varsVues
  <2>1. UNCHANGED <<lignes, compteur, plusMorte, maintenant, curseur, locale,
                    supprimees, condamnees, tirage, poussee, errantes>>
    BY <1>6 DEF varsVues
  <2>2. QED
    BY <2>1, MagasinMeme, LocalMeme, TiragesMemes, PousseesMemes DEF IVues
<1>7. QED
  BY <1>1, <1>2, <1>3, <1>4, <1>5, <1>6, PasserIVues DEF NextVues

\* What the store, the views and their requests know of one another.
THEOREM ViewsInvariant == SpecVues => []IVues
<1>1. InitVues => IVues
  BY InitIVues
<1>2. IVues /\ [NextVues]_varsVues => IVues'
  BY NextIVues
<1>3. QED
  BY <1>1, <1>2, PTL DEF SpecVues

\* A condemned conversation is not in its view, whatever pull or push was in
\* flight when the user deleted it, until the deletion reached the store.
THEOREM CondemnedStaysOut == SpecVues => []CondamneeAbsente
<1>1. IVues => CondamneeAbsente
  BY DEF IVues, LocalVues, CondamneeAbsente
<1>2. QED
  BY <1>1, ViewsInvariant, PTL

\* No interleaving of a pull, a push, a flow and a reload skips a row: what the
\* store has under a number the cursor passed is in the view, message for
\* message, unless the view condemned the conversation.
THEOREM NoRowSkipped == SpecVues => []VivantesVues
<1>1. IVues => VivantesVues
  <2>1. SUFFICES ASSUME IVues, NEW v \in Vues, NEW i \in Ids,
                        i \notin condamnees[v], EstVivante(lignes[i]),
                        lignes[i].seq <= curseur[v]
                 PROVE  /\ locale[v][i] # Rien
                        /\ Presents(lignes[i].copie) \subseteq Presents(locale[v][i])
    BY DEF VivantesVues
  <2>2. Montree(lignes[i], curseur[v], locale[v][i])
    BY <2>1 DEF IVues, LocalVues
  <2>3. QED
    BY <2>1, <2>2 DEF Montree
<1>2. QED
  BY <1>1, ViewsInvariant, PTL

\* A deletion leaves the queue only once the store has it, whatever the gateway
\* answered and whenever the page was closed.
THEOREM DeletionHeld == SpecVues => SuppressionTenue
<1>1. IVues /\ [NextVues]_varsVues =>
        [\A v \in Vues, i \in Ids \ Refusables :
           i \in supprimees[v] \ supprimees'[v] => plusMorte[i] >= 0]_varsVues
  <2>1. SUFFICES ASSUME IVues, NextVues, NEW v \in Vues, NEW i \in Ids \ Refusables,
                        i \in supprimees[v] \ supprimees'[v]
                 PROVE  plusMorte[i] >= 0
    OBVIOUS
  <2>2. supprimees \in [Vues -> SUBSET Ids]
    BY <2>1 DEF IVues, LocalVues
  <2>3. ASSUME NEW w \in Vues, RecevoirDelete(w)
        PROVE  plusMorte[i] >= 0
    <3>1. /\ poussee[w] # Rien /\ poussee[w].vol # Rien
          /\ poussee[w].vol.reponse # Rien /\ poussee[w].vol.methode = "DELETE"
          /\ supprimees' = [supprimees EXCEPT ![w] = @ \ {poussee[w].vol.id}]
      BY <2>3 DEF RecevoirDelete, Repondue
    <3>2. i = poussee[w].vol.id
      BY <2>1, <2>2, <3>1
    <3>3. RequeteJuste(poussee[w].vol, plusMorte)
      BY <2>1, <3>1 DEF IVues, PousseesVues, PousseeJuste
    <3>4. QED
      BY <3>1, <3>2, <3>3 DEF RequeteJuste
  <2>4. ASSUME NEW w \in Vues, Refuser(w)
        PROVE  FALSE
    <3>1. /\ poussee[w].vol.id \in Refusables
          /\ \/ supprimees' = [supprimees EXCEPT ![w] = @ \ {poussee[w].vol.id}]
             \/ supprimees' = [supprimees EXCEPT ![w] = @]
      BY <2>4 DEF Refuser
    <3>2. QED
      BY <2>1, <2>2, <3>1
  <2>5. ASSUME NEW w \in Vues, NEW j \in Ids, Supprimer(w, j)
        PROVE  FALSE
    BY <2>1, <2>2, <2>5 DEF Supprimer
  <2>6. supprimees' # supprimees
    BY <2>1
  <2>7. \A w \in Vues : Utilisateur(w) =>
          (\E j \in Ids : Supprimer(w, j)) \/ supprimees' = supprimees
    BY DEF Utilisateur, Creer, EcrireMessage, DebutFlux
  <2>8. \A w \in Vues : Pousser(w) =>
          RecevoirDelete(w) \/ Refuser(w) \/ supprimees' = supprimees
    BY DEF Pousser, PousserDebut, Choisir, PartirDelete, PartirPut, Servir,
           RecevoirPut, PousserFin, vue
  <2>9. \A w \in Vues : Panne(w) => supprimees' = supprimees
    BY DEF Panne, PerdreTirage, Interdire, Recharger, PerdreRequete, vue
  <2>10. \A w \in Vues : FinFlux(w) \/ Tirer(w) \/ RecevoirTirage(w)
           => supprimees' = supprimees
    BY DEF FinFlux, Tirer, RecevoirTirage, vue
  <2>11. (\E r \in errantes : ServirErrante(r)) \/ Passer
           => supprimees' = supprimees
    BY DEF ServirErrante, Passer, vue
  <2>12. QED
    BY <2>1, <2>3, <2>4, <2>5, <2>6, <2>7, <2>8, <2>9, <2>10, <2>11 DEF NextVues
<1>2. QED
  BY <1>1, ViewsInvariant, PTL DEF SpecVues, SuppressionTenue

====
