------------------------ MODULE ConversationsStore_proofs ------------------------
(***************************************************************************)
(* Theorems about ConversationsStore, for any identifiers, copies, readers *)
(* and dates.  IStore adds to the properties what a row, an answer not yet *)
(* taken in and a purge under way owe to the past.                         *)
(***************************************************************************)
EXTENDS ConversationsStore, TLAPS

\* A row has a number of its own time; a live one carries the date of its
\* copy; the age of a tombstone is not less than the time it has been here.
Rangees ==
  /\ maintenant <= DateMax
  /\ \A i \in Ids :
       /\ lignes[i] = Rien => plusHaute[i] = 0 /\ plusMorte[i] = -1
       /\ lignes[i] # Rien => lignes[i].seq \in 1..compteur
       /\ EstVivante(lignes[i]) =>
            /\ lignes[i].copie \in Conversations
            /\ lignes[i].copie.updatedAt = lignes[i].dateCopie
       /\ EstTombale(lignes[i]) => poseeLe[i] <= Age(i)

\* What a reader knows, and what it will know once it takes its answer in.
LecteurAJour(l) ==
  /\ curseur[l] <= compteur
  /\ \A i \in Ids :
       /\ su[l][i] <= compteur
       /\ lignes[i] # Rien =>
            /\ su[l][i] <= lignes[i].seq
            /\ lignes[i].seq <= curseur[l] => su[l][i] = lignes[i].seq
ReponseAJour(l) ==
  /\ reponse[l].jusqua <= compteur
  /\ \A i \in Ids :
       /\ reponse[l].sus[i] <= compteur
       /\ lignes[i] # Rien =>
            /\ reponse[l].sus[i] <= lignes[i].seq
            /\ lignes[i].seq <= reponse[l].jusqua =>
                 MaxDe(su[l][i], reponse[l].sus[i]) = lignes[i].seq
Lectures ==
  \A l \in Lecteurs :
    LecteurAJour(l) /\ (reponse[l] # Rien => ReponseAJour(l))

\* The tombstones a purge asks about were old when it took them; a younger one
\* of the same row has another date.
Ancienne(t) ==
  /\ t[2] < purge.seuil
  /\ lignes[t[1]] # Rien /\ t[2] <= plusMorte[t[1]]
  /\ EstTombale(lignes[t[1]]) /\ lignes[t[1]].deletedAt = t[2] =>
       poseeLe[t[1]] < purge.seuil
PurgeJuste ==
  purge # Rien =>
    /\ purge.seuil + Retention <= maintenant
    /\ purge.etape = "lire" => purge.candidates = {} /\ purge.accords = {}
    /\ \A t \in purge.candidates \cup purge.accords : Ancienne(t)

IStore == TypeOK /\ Rangees /\ SelonLesDates /\ Lectures /\ PurgeJuste

-----------------------------------------------------------------------------
(* Lemmas about the operators                                              *)

LEMMA MaxDeEst ==
  ASSUME NEW a \in Int, NEW b \in Int
  PROVE  /\ MaxDe(a, b) \in {a, b} /\ MaxDe(a, b) >= a /\ MaxDe(a, b) >= b
         /\ a \in Nat => MaxDe(a, b) \in Nat
  BY DEF MaxDe

\* The join of two copies is a copy, dated as the later one.
LEMMA FusionEstConversation ==
  ASSUME NEW a \in Conversations, NEW b \in Conversations
  PROVE  /\ Fusion(a, b) \in Conversations
         /\ Fusion(a, b).updatedAt = MaxDe(a.updatedAt, b.updatedAt)
  <1> DEFINE g == IF Prime(a, b) THEN a ELSE b
             p == IF Prime(a, b) THEN b ELSE a
  <1>1. g \in Conversations /\ p \in Conversations
    OBVIOUS
  <1>2. ASSUME NEW s \in [Cles -> Versions \cup {Rien}],
               NEW t \in [Cles -> Versions \cup {Rien}]
        PROVE  FusionnerMessages(s, t) \in [Cles -> Versions \cup {Rien}]
    BY DEF FusionnerMessages, Meilleur
  <1>3. FusionnerMessages(g.messages, p.messages) \in [Cles -> Versions \cup {Rien}]
    BY <1>1, <1>2 DEF Conversations
  <1> HIDE DEF g, p
  <1>4. Fusion(a, b) =
          [title |-> g.title,
           createdAt |-> IF a.createdAt <= b.createdAt THEN a.createdAt ELSE b.createdAt,
           updatedAt |-> IF a.updatedAt >= b.updatedAt THEN a.updatedAt ELSE b.updatedAt,
           model |-> g.model, pinned |-> g.pinned,
           messages |-> FusionnerMessages(g.messages, p.messages)]
    BY DEF Fusion, g, p
  <1>5. QED
    BY <1>1, <1>3, <1>4 DEF Conversations, MaxDe

\* What upsert stores is a copy, and its date.
LEMMA AStockerEst ==
  ASSUME TypeOK, Rangees, NEW i \in Ids, NEW c \in Copies
  PROVE  /\ AStocker(lignes[i], c) \in Conversations
         /\ AStocker(lignes[i], c).updatedAt =
              IF EstVivante(lignes[i]) THEN MaxDe(lignes[i].dateCopie, c.updatedAt)
              ELSE c.updatedAt
         /\ AStocker(lignes[i], c).updatedAt \in 0..DateMax
         /\ c.updatedAt \in 0..DateMax
  <1>1. c \in Conversations /\ c.updatedAt \in 0..DateMax
    BY CopiesAreConversations, StoreNumbers DEF Conversations
  <1>2. CASE EstVivante(lignes[i])
    <2>1. /\ lignes[i].copie \in Conversations
          /\ lignes[i].copie.updatedAt = lignes[i].dateCopie
          /\ lignes[i].dateCopie \in 0..DateMax
      BY <1>2 DEF Rangees, TypeOK, Lignes, EstVivante
    <2>2. QED
      BY <1>1, <1>2, <2>1, FusionEstConversation DEF AStocker, MaxDe
  <1>3. CASE ~EstVivante(lignes[i])
    BY <1>1, <1>3 DEF AStocker
  <1>4. QED BY <1>2, <1>3

\* The date of a local deletion: never under the clock, the copy it erases or
\* the tombstone it replaces.
LEMMA DateSuppressionEst ==
  ASSUME TypeOK, Rangees, NEW i \in Ids
  PROVE  LET d == DateSuppression(lignes[i]) IN
         /\ d \in 0..DateMax /\ d >= maintenant
         /\ EstVivante(lignes[i]) => d >= lignes[i].dateCopie
         /\ EstTombale(lignes[i]) => d >= lignes[i].deletedAt
  <1>1. maintenant \in 0..DateMax /\ DateMax \in Nat
    BY StoreNumbers DEF TypeOK, Rangees
  <1>2. CASE lignes[i] = Rien
    BY <1>1, <1>2 DEF DateSuppression, MaxDe, EstVivante, EstTombale
  <1>3. CASE lignes[i] # Rien
    <2>1. /\ lignes[i].dateCopie \in 0..DateMax
          /\ EstTombale(lignes[i]) => lignes[i].deletedAt \in 0..DateMax
      BY <1>3 DEF TypeOK, Lignes, EstTombale
    <2>2. QED
      BY <1>1, <1>3, <2>1 DEF DateSuppression, MaxDe, EstVivante
  <1>4. QED BY <1>2, <1>3

-----------------------------------------------------------------------------
(* A write: one row takes the next number                                  *)

\* No reader has seen the new number, and none has passed it.
LEMMA EcrireGardeLesLectures ==
  ASSUME TypeOK, Rangees, Lectures, NEW i \in Ids, NEW n \in Lignes,
         n.seq = compteur + 1, compteur' = compteur + 1,
         lignes' = [lignes EXCEPT ![i] = n], UNCHANGED lecteurs
  PROVE  Lectures'
  <1>0. UNCHANGED <<curseur, su, reponse>>
    BY DEF lecteurs
  <1>1. /\ lignes'[i] = n /\ n # Rien
        /\ \A k \in Ids \ {i} : lignes'[k] = lignes[k]
    BY RienIsNoConversation DEF TypeOK
  <1>2. compteur \in Nat
    BY DEF TypeOK
  <1> SUFFICES ASSUME NEW l \in Lecteurs
               PROVE  LecteurAJour(l)' /\ (reponse[l] # Rien => ReponseAJour(l)')
    BY <1>0 DEF Lectures
  <1>3. /\ curseur[l] \in Nat /\ curseur[l] <= compteur
        /\ \A k \in Ids : su[l][k] \in Nat /\ su[l][k] <= compteur
    BY DEF TypeOK, Lectures, LecteurAJour
  <1>4. LecteurAJour(l)'
    <2> SUFFICES ASSUME NEW k \in Ids
                 PROVE  /\ su[l][k] <= compteur + 1
                        /\ lignes'[k] # Rien =>
                             /\ su[l][k] <= lignes'[k].seq
                             /\ lignes'[k].seq <= curseur[l] => su[l][k] = lignes'[k].seq
      BY <1>0, <1>2, <1>3 DEF LecteurAJour
    <2>1. CASE k = i
      BY <2>1, <1>1, <1>2, <1>3
    <2>2. CASE k # i
      BY <2>2, <1>1, <1>2, <1>3 DEF Lectures, LecteurAJour
    <2>3. QED BY <2>1, <2>2
  <1>5. ASSUME reponse[l] # Rien PROVE ReponseAJour(l)'
    <2>1. /\ reponse[l] \in Reponses /\ reponse[l].jusqua \in Nat
          /\ reponse[l].jusqua <= compteur
          /\ \A k \in Ids : reponse[l].sus[k] \in Nat /\ reponse[l].sus[k] <= compteur
      BY <1>5 DEF TypeOK, Reponses, Lectures, ReponseAJour
    <2> SUFFICES ASSUME NEW k \in Ids
                 PROVE  /\ reponse[l].sus[k] <= compteur + 1
                        /\ lignes'[k] # Rien =>
                             /\ reponse[l].sus[k] <= lignes'[k].seq
                             /\ lignes'[k].seq <= reponse[l].jusqua =>
                                  MaxDe(su[l][k], reponse[l].sus[k]) = lignes'[k].seq
      BY <1>0, <1>2, <2>1 DEF ReponseAJour
    <2>2. CASE k = i
      BY <2>2, <1>1, <1>2, <2>1
    <2>3. CASE k # i
      BY <2>3, <1>1, <1>2, <1>5, <2>1 DEF Lectures, ReponseAJour
    <2>4. QED BY <2>2, <2>3
  <1>6. QED BY <1>4, <1>5

\* _ecrire, with a copy later than every deletion.
LEMMA EcrireIStore ==
  ASSUME IStore, NEW i \in Ids, NEW c \in Conversations, NEW h \in Nat,
         Ecrire(i, c), c.updatedAt \in 0..DateMax,
         plusHaute' = [plusHaute EXCEPT ![i] = h],
         h = c.updatedAt, h > plusMorte[i],
         UNCHANGED <<plusMorte, maintenant, compte, crochet, purge, lecteurs>>
  PROVE  IStore'
  <1> DEFINE n == LigneVivante(c)
  <1>1. /\ lignes' = [lignes EXCEPT ![i] = n] /\ compteur' = compteur + 1
        /\ posees' = [posees EXCEPT ![i] = Rien] /\ poseeLe' = [poseeLe EXCEPT ![i] = 0]
    BY DEF Ecrire, ProchainSeq
  <1>2. /\ TypeOK /\ Rangees /\ SelonLesDates /\ Lectures /\ PurgeJuste
        /\ compteur \in Nat
    BY DEF IStore, TypeOK
  <1>3. /\ n \in Lignes /\ n.seq = compteur + 1 /\ n.deletedAt = Rien
        /\ n.copie = c /\ n.dateCopie = c.updatedAt
    BY <1>2 DEF LigneVivante, Lignes, ProchainSeq
  <1> HIDE DEF n
  <1>4. /\ lignes'[i] = n /\ plusHaute'[i] = h /\ n # Rien
        /\ EstVivante(n) /\ ~EstTombale(n)
        /\ \A k \in Ids \ {i} : /\ lignes'[k] = lignes[k] /\ posees'[k] = posees[k]
                                /\ plusHaute'[k] = plusHaute[k] /\ poseeLe'[k] = poseeLe[k]
    BY <1>1, <1>2, <1>3, RienIsNoConversation DEF TypeOK, EstVivante, EstTombale
  <1>5. TypeOK'
    BY <1>1, <1>2, <1>3 DEF TypeOK, lecteurs
  <1>6. Rangees'
    <2> SUFFICES ASSUME NEW k \in Ids
                 PROVE  /\ lignes'[k] = Rien => plusHaute'[k] = 0 /\ plusMorte[k] = -1
                        /\ lignes'[k] # Rien => lignes'[k].seq \in 1..(compteur + 1)
                        /\ EstVivante(lignes'[k]) =>
                             /\ lignes'[k].copie \in Conversations
                             /\ lignes'[k].copie.updatedAt = lignes'[k].dateCopie
                        /\ EstTombale(lignes'[k]) => poseeLe'[k] <= Age(k)'
      BY <1>1, <1>2 DEF Rangees
    <2>1. CASE k = i
      BY <2>1, <1>2, <1>3, <1>4
    <2>2. CASE k # i
      BY <2>2, <1>2, <1>4 DEF Rangees, Age
    <2>3. QED BY <2>1, <2>2
  <1>7. SelonLesDates'
    <2> SUFFICES ASSUME NEW k \in Ids, lignes'[k] # Rien
                 PROVE  IF plusHaute'[k] > plusMorte[k]
                        THEN EstVivante(lignes'[k]) /\ lignes'[k].dateCopie = plusHaute'[k]
                        ELSE EstTombale(lignes'[k]) /\ lignes'[k].deletedAt = plusMorte[k]
      BY DEF SelonLesDates
    <2>1. CASE k = i
      BY <2>1, <1>3, <1>4
    <2>2. CASE k # i
      BY <2>2, <1>2, <1>4 DEF SelonLesDates
    <2>3. QED BY <2>1, <2>2
  <1>8. Lectures'
    BY <1>1, <1>2, <1>3, EcrireGardeLesLectures
  <1>9. PurgeJuste'
    <2> SUFFICES ASSUME purge # Rien, NEW t \in purge.candidates \cup purge.accords
                 PROVE  Ancienne(t)'
      BY <1>2 DEF PurgeJuste
    <2>1. Ancienne(t) /\ t[1] \in Ids
      BY <1>2 DEF PurgeJuste, TypeOK, Purges
    <2>2. CASE t[1] = i
      BY <2>1, <2>2, <1>4 DEF Ancienne
    <2>3. CASE t[1] # i
      BY <2>1, <2>3, <1>4 DEF Ancienne
    <2>4. QED BY <2>2, <2>3
  <1>10. QED BY <1>5, <1>6, <1>7, <1>8, <1>9 DEF IStore

LEMMA UpsertIStore ==
  ASSUME IStore, NEW i \in Ids, NEW c \in Copies, Upsert(i, c)
  PROVE  IStore'
  <1> DEFINE h == MaxDe(plusHaute[i], c.updatedAt)
  <1>1. /\ TypeOK /\ Rangees /\ SelonLesDates
        /\ plusHaute' = [plusHaute EXCEPT ![i] = h]
        /\ UNCHANGED <<plusMorte, maintenant, compte, crochet, purge, lecteurs>>
    BY DEF IStore, Upsert
  <1>2. /\ c \in Conversations /\ c.updatedAt \in 0..DateMax
        /\ plusHaute[i] \in Nat /\ plusMorte[i] \in Int
        /\ h \in Nat /\ h >= plusHaute[i] /\ h >= c.updatedAt
        /\ h \in {plusHaute[i], c.updatedAt}
    <2>1. plusHaute[i] \in Nat /\ plusMorte[i] \in Int
      BY <1>1 DEF TypeOK
    <2>2. c \in Conversations /\ c.updatedAt \in 0..DateMax
      BY <1>1, AStockerEst, CopiesAreConversations
    <2>3. c.updatedAt \in Nat
      BY <2>2, StoreNumbers
    <2>4. h \in Nat /\ h >= plusHaute[i] /\ h >= c.updatedAt
          /\ h \in {plusHaute[i], c.updatedAt}
      BY <2>1, <2>3 DEF MaxDe
    <2>5. QED BY <2>1, <2>2, <2>4
  <1> HIDE DEF h
  <1>3. CASE Refusee(lignes[i], c) \/ SansEffet(lignes[i], c)
    <2>1. UNCHANGED <<lignes, posees, compteur, poseeLe>>
      BY <1>3 DEF Upsert
    <2>2. /\ lignes[i] # Rien
          /\ IF h > plusMorte[i]
             THEN EstVivante(lignes[i]) /\ lignes[i].dateCopie = h
             ELSE EstTombale(lignes[i]) /\ lignes[i].deletedAt = plusMorte[i]
      <3>1. CASE Refusee(lignes[i], c)
        <4>1. lignes[i] # Rien /\ EstTombale(lignes[i]) /\ ~EstVivante(lignes[i])
              /\ lignes[i].deletedAt >= c.updatedAt
          BY <3>1 DEF Refusee, EstTombale, EstVivante
        <4>2. QED BY <4>1, <1>1, <1>2 DEF SelonLesDates
      <3>2. CASE SansEffet(lignes[i], c)
        <4>1. /\ lignes[i] # Rien /\ EstVivante(lignes[i]) /\ ~EstTombale(lignes[i])
              /\ Fusion(lignes[i].copie, c) = lignes[i].copie
          BY <3>2 DEF SansEffet, EstTombale, EstVivante
        <4>2. /\ lignes[i].copie \in Conversations
              /\ lignes[i].copie.updatedAt = lignes[i].dateCopie
              /\ lignes[i].dateCopie = plusHaute[i] /\ plusHaute[i] > plusMorte[i]
          BY <4>1, <1>1 DEF Rangees, SelonLesDates
        <4>3. plusHaute[i] = MaxDe(plusHaute[i], c.updatedAt)
          BY <4>1, <4>2, <1>2, FusionEstConversation
        <4>4. h = plusHaute[i]
          BY <4>3 DEF h
        <4>5. QED BY <4>1, <4>2, <4>4, <1>2
      <3>3. QED BY <1>3, <3>1, <3>2
    <2>3. plusHaute'[i] = h /\ \A k \in Ids \ {i} : plusHaute'[k] = plusHaute[k]
      BY <1>1 DEF TypeOK
    <2>4. TypeOK'
      BY <1>1, <1>2, <2>1 DEF TypeOK, lecteurs
    <2>5. Rangees'
      BY <1>1, <2>1, <2>2, <2>3 DEF Rangees, Age
    <2>6. SelonLesDates'
      <3> SUFFICES ASSUME NEW k \in Ids, lignes[k] # Rien
                   PROVE  IF plusHaute'[k] > plusMorte[k]
                          THEN EstVivante(lignes[k]) /\ lignes[k].dateCopie = plusHaute'[k]
                          ELSE EstTombale(lignes[k]) /\ lignes[k].deletedAt = plusMorte[k]
        BY <1>1, <2>1 DEF SelonLesDates
      <3>1. CASE k = i
        BY <3>1, <2>2, <2>3
      <3>2. CASE k # i
        BY <3>2, <2>3, <1>1 DEF SelonLesDates
      <3>3. QED BY <3>1, <3>2
    <2>7. Lectures' /\ PurgeJuste'
      BY <1>1, <2>1
      DEF IStore, Lectures, LecteurAJour, ReponseAJour, PurgeJuste, Ancienne, lecteurs
    <2>8. QED BY <2>4, <2>5, <2>6, <2>7 DEF IStore
  <1>4. CASE ~(Refusee(lignes[i], c) \/ SansEffet(lignes[i], c))
    <2> DEFINE n == AStocker(lignes[i], c)
    <2>1. Ecrire(i, n)
      BY <1>4 DEF Upsert
    <2>2. /\ n \in Conversations /\ n.updatedAt \in 0..DateMax
          /\ n.updatedAt = IF EstVivante(lignes[i])
                           THEN MaxDe(lignes[i].dateCopie, c.updatedAt) ELSE c.updatedAt
      BY <1>1, AStockerEst
    <2> HIDE DEF n
    <2>3. h = n.updatedAt /\ h > plusMorte[i]
      <3>1. CASE lignes[i] = Rien
        BY <3>1, <2>2, <1>1, <1>2 DEF Rangees, EstVivante
      <3>2. CASE EstVivante(lignes[i])
        <4>1. lignes[i] # Rien /\ ~EstTombale(lignes[i])
          BY <3>2 DEF EstVivante, EstTombale
        <4>2. lignes[i].dateCopie = plusHaute[i] /\ plusHaute[i] > plusMorte[i]
          BY <4>1, <1>1 DEF SelonLesDates
        <4>3. QED BY <4>2, <3>2, <2>2, <1>2 DEF h
      <3>3. CASE lignes[i] # Rien /\ ~EstVivante(lignes[i])
        <4>1. EstTombale(lignes[i])
          BY <3>3 DEF EstVivante, EstTombale
        <4>2. /\ lignes[i].deletedAt = plusMorte[i] /\ plusHaute[i] <= plusMorte[i]
              /\ ~(lignes[i].deletedAt >= c.updatedAt)
          BY <4>1, <3>3, <1>1, <1>2, <1>4 DEF SelonLesDates, Refusee
        <4>3. QED BY <4>2, <3>3, <2>2, <1>2
      <3>4. QED BY <3>1, <3>2, <3>3
    <2>4. QED BY <1>1, <1>2, <2>1, <2>2, <2>3, EcrireIStore
  <1>5. QED BY <1>3, <1>4

\* A tombstone dated not before anything known of the conversation, and not on
\* the date of a tombstone a purge took.
LEMMA PoserIStore ==
  ASSUME IStore, NEW i \in Ids, NEW d \in 0..DateMax, PoserTombale(i, d),
         plusMorte' = [plusMorte EXCEPT ![i] = d],
         plusHaute[i] <= d,
         purge # Rien => \A t \in purge.candidates \cup purge.accords :
                           t[1] = i => t[2] < d,
         UNCHANGED <<plusHaute, maintenant, compte, crochet, purge, lecteurs>>
  PROVE  IStore'
  <1> DEFINE n == [copie |-> Rien,
                   dateCopie |-> IF lignes[i] = Rien THEN 0 ELSE lignes[i].dateCopie,
                   deletedAt |-> d, seq |-> compteur + 1]
  <1>1. /\ lignes' = [lignes EXCEPT ![i] = n] /\ compteur' = compteur + 1
        /\ posees' = [posees EXCEPT ![i] = Posee(d)]
        /\ poseeLe' = [poseeLe EXCEPT ![i] = maintenant]
    BY DEF PoserTombale, ProchainSeq
  <1>2. /\ TypeOK /\ Rangees /\ SelonLesDates /\ Lectures /\ PurgeJuste
        /\ compteur \in Nat /\ maintenant \in Nat /\ plusHaute[i] \in Nat
        /\ d \in Nat /\ DateMax \in Nat
    BY StoreNumbers DEF IStore, TypeOK
  <1>3. /\ n \in Lignes /\ n.seq = compteur + 1 /\ n.deletedAt = d
    BY <1>2 DEF Lignes, TypeOK
  <1> HIDE DEF n
  <1>4. /\ lignes'[i] = n /\ plusMorte'[i] = d /\ n # Rien
        /\ posees'[i] = Posee(d) /\ poseeLe'[i] = maintenant
        /\ ~EstVivante(n) /\ EstTombale(n)
        /\ \A k \in Ids \ {i} : /\ lignes'[k] = lignes[k] /\ posees'[k] = posees[k]
                                /\ plusMorte'[k] = plusMorte[k] /\ poseeLe'[k] = poseeLe[k]
    BY <1>1, <1>2, <1>3, RienIsNoConversation DEF TypeOK, EstVivante, EstTombale
  <1>5. Posee(d) \in Nat \cup {Rien} /\ (d < maintenant => Posee(d) = maintenant)
    BY <1>2 DEF Posee
  <1>6. TypeOK'
    BY <1>1, <1>2, <1>3, <1>5 DEF TypeOK, lecteurs
  <1>7. Rangees'
    <2> SUFFICES ASSUME NEW k \in Ids
                 PROVE  /\ lignes'[k] = Rien => plusHaute[k] = 0 /\ plusMorte'[k] = -1
                        /\ lignes'[k] # Rien => lignes'[k].seq \in 1..(compteur + 1)
                        /\ EstVivante(lignes'[k]) =>
                             /\ lignes'[k].copie \in Conversations
                             /\ lignes'[k].copie.updatedAt = lignes'[k].dateCopie
                        /\ EstTombale(lignes'[k]) => poseeLe'[k] <= Age(k)'
      BY <1>1, <1>2 DEF Rangees
    <2>1. CASE k = i
      <3>1. maintenant <= Age(i)'
        BY <1>2, <1>3, <1>4, <1>5, RienIsNoConversation DEF Age, MaxDe
      <3>2. QED BY <2>1, <3>1, <1>2, <1>3, <1>4
    <2>2. CASE k # i
      BY <2>2, <1>2, <1>4 DEF Rangees, Age
    <2>3. QED BY <2>1, <2>2
  <1>8. SelonLesDates'
    <2> SUFFICES ASSUME NEW k \in Ids, lignes'[k] # Rien
                 PROVE  IF plusHaute[k] > plusMorte'[k]
                        THEN EstVivante(lignes'[k]) /\ lignes'[k].dateCopie = plusHaute[k]
                        ELSE EstTombale(lignes'[k]) /\ lignes'[k].deletedAt = plusMorte'[k]
      BY DEF SelonLesDates
    <2>1. CASE k = i
      BY <2>1, <1>2, <1>3, <1>4
    <2>2. CASE k # i
      BY <2>2, <1>2, <1>4 DEF SelonLesDates
    <2>3. QED BY <2>1, <2>2
  <1>9. Lectures'
    BY <1>1, <1>2, <1>3, EcrireGardeLesLectures
  <1>10. PurgeJuste'
    <2> SUFFICES ASSUME purge # Rien, NEW t \in purge.candidates \cup purge.accords
                 PROVE  Ancienne(t)'
      BY <1>2 DEF PurgeJuste
    <2>1. Ancienne(t) /\ t[1] \in Ids /\ t[2] \in Nat
      BY <1>2 DEF PurgeJuste, TypeOK, Purges
    <2>2. CASE t[1] = i
      <3>1. t[2] < d
        BY <2>2
      <3>2. QED BY <2>1, <2>2, <3>1, <1>2, <1>3, <1>4 DEF Ancienne
    <2>3. CASE t[1] # i
      BY <2>1, <2>3, <1>4 DEF Ancienne
    <2>4. QED BY <2>2, <2>3
  <1>11. QED BY <1>6, <1>7, <1>8, <1>9, <1>10 DEF IStore

LEMMA AppliquerTombaleIStore ==
  ASSUME IStore, NEW i \in Ids, NEW d \in 0..DateLocaleMax, AppliquerTombale(i, d)
  PROVE  IStore'
  <1> DEFINE m == MaxDe(plusMorte[i], d)
  <1>1. /\ TypeOK /\ Rangees /\ SelonLesDates /\ PurgeJuste
        /\ plusMorte' = [plusMorte EXCEPT ![i] = m]
        /\ UNCHANGED <<plusHaute, maintenant, compte, crochet, purge, lecteurs>>
    BY DEF IStore, AppliquerTombale
  <1>2. /\ d \in 0..DateMax /\ d \in Nat /\ plusMorte[i] \in Int /\ plusHaute[i] \in Nat
        /\ m \in Int
        /\ d <= plusMorte[i] => m = plusMorte[i]
        /\ d >= plusMorte[i] => m = d
    <2>1. DateMax \in Nat /\ DateLocaleMax \in Nat /\ DateLocaleMax <= DateMax
      BY StoreNumbers
    <2>2. d \in Nat /\ d <= DateMax
      BY <2>1
    <2>3. plusMorte[i] \in Int /\ plusHaute[i] \in Nat
      BY <1>1 DEF TypeOK
    <2>4. QED BY <2>1, <2>2, <2>3 DEF MaxDe
  <1> HIDE DEF m
  <1>3. CASE EstVivante(lignes[i])
    <2>1. /\ lignes[i] # Rien /\ ~EstTombale(lignes[i])
          /\ lignes[i].dateCopie = plusHaute[i] /\ plusHaute[i] > plusMorte[i]
      BY <1>1, <1>3 DEF SelonLesDates, EstVivante, EstTombale
    <2>2. CASE d < plusHaute[i]
      <3>1. UNCHANGED <<lignes, posees, compteur, poseeLe>>
        BY <1>3, <2>1, <2>2 DEF AppliquerTombale, TombalePerd
      <3>2. m \in Int /\ m >= plusMorte[i] /\ m < plusHaute[i]
        BY <1>2, <2>1, <2>2
      <3>3. plusMorte'[i] = m /\ \A k \in Ids \ {i} : plusMorte'[k] = plusMorte[k]
        BY <1>1 DEF TypeOK
      <3>4. TypeOK'
        BY <1>1, <1>2, <3>1 DEF TypeOK, lecteurs
      <3>5. Rangees'
        BY <1>1, <2>1, <3>1, <3>3 DEF Rangees, Age
      <3>6. SelonLesDates'
        BY <1>1, <1>2, <1>3, <2>1, <3>1, <3>2, <3>3 DEF SelonLesDates
      <3>7. Lectures'
        BY <1>1, <3>1 DEF IStore, Lectures, LecteurAJour, ReponseAJour, lecteurs
      <3>8. PurgeJuste'
        <4> SUFFICES ASSUME purge # Rien, NEW t \in purge.candidates \cup purge.accords
                     PROVE  Ancienne(t)'
          BY <1>1 DEF PurgeJuste
        <4>1. Ancienne(t) /\ t[1] \in Ids /\ t[2] \in Nat
          BY <1>1 DEF PurgeJuste, TypeOK, Purges
        <4>2. plusMorte[t[1]] \in Int /\ plusMorte'[t[1]] >= plusMorte[t[1]]
          BY <1>1, <4>1, <3>2, <3>3 DEF TypeOK
        <4>3. t[2] <= plusMorte'[t[1]]
          BY <4>1, <4>2, <3>2, <3>3 DEF Ancienne
        <4>4. QED BY <4>1, <4>3, <1>1, <3>1 DEF Ancienne
      <3>9. QED BY <3>4, <3>5, <3>6, <3>7, <3>8 DEF IStore
    <2>3. CASE d >= plusHaute[i]
      <3>1. PoserTombale(i, d)
        BY <1>2, <1>3, <2>1, <2>3 DEF AppliquerTombale, TombalePerd
      <3>2. m = d /\ d > plusMorte[i]
        BY <1>2, <2>1, <2>3
      <3>3. ASSUME purge # Rien, NEW t \in purge.candidates \cup purge.accords, t[1] = i
            PROVE  t[2] < d
        <4>1. t[2] <= plusMorte[i] /\ t[2] \in Nat
          BY <3>3, <1>1 DEF PurgeJuste, Ancienne, TypeOK, Purges
        <4>2. QED BY <4>1, <3>2, <1>2
      <3>4. QED BY <1>1, <1>2, <2>3, <3>1, <3>2, <3>3, PoserIStore
    <2>4. QED BY <2>2, <2>3, <1>2
  <1>4. CASE EstTombale(lignes[i])
    <2>1. /\ lignes[i] # Rien /\ ~EstVivante(lignes[i])
          /\ lignes[i].deletedAt = plusMorte[i] /\ ~(plusHaute[i] > plusMorte[i])
      BY <1>1, <1>4 DEF SelonLesDates, EstVivante, EstTombale
    <2>2. CASE plusMorte[i] >= d
      <3>1. UNCHANGED <<lignes, posees, compteur, poseeLe>>
        BY <1>4, <2>1, <2>2 DEF AppliquerTombale, TombalePerd
      <3>2. plusMorte' = plusMorte
        BY <1>1, <1>2, <2>2 DEF TypeOK
      <3>3. QED
        BY <1>1, <3>1, <3>2
        DEF IStore, TypeOK, Rangees, Age, SelonLesDates, Lectures, LecteurAJour,
            ReponseAJour, PurgeJuste, Ancienne, lecteurs
    <2>3. CASE plusMorte[i] < d
      <3>1. PoserTombale(i, d)
        BY <1>2, <1>4, <2>1, <2>3 DEF AppliquerTombale, TombalePerd
      <3>2. m = d /\ plusHaute[i] <= d
        BY <1>2, <2>1, <2>3
      <3>3. ASSUME purge # Rien, NEW t \in purge.candidates \cup purge.accords, t[1] = i
            PROVE  t[2] < d
        <4>1. t[2] <= plusMorte[i] /\ t[2] \in Nat
          BY <3>3, <1>1 DEF PurgeJuste, Ancienne, TypeOK, Purges
        <4>2. QED BY <4>1, <2>3, <1>2
      <3>4. QED BY <1>1, <1>2, <3>1, <3>2, <3>3, PoserIStore
    <2>4. QED BY <2>2, <2>3, <1>2
  <1>5. CASE lignes[i] = Rien
    <2>1. plusHaute[i] = 0 /\ plusMorte[i] = -1
      BY <1>1, <1>5 DEF Rangees
    <2>2. PoserTombale(i, d)
      BY <1>5 DEF AppliquerTombale, TombalePerd, EstVivante, EstTombale
    <2>3. ASSUME purge # Rien, NEW t \in purge.candidates \cup purge.accords, t[1] = i
          PROVE  t[2] < d
      BY <2>3, <1>1, <1>5 DEF PurgeJuste, Ancienne
    <2>4. m = d /\ plusHaute[i] <= d
      BY <1>2, <2>1
    <2>5. QED BY <1>1, <1>2, <2>2, <2>3, <2>4, PoserIStore
  <1>6. QED BY <1>3, <1>4, <1>5 DEF EstVivante, EstTombale

LEMMA DeleteIStore ==
  ASSUME IStore, NEW i \in Ids, Delete(i)
  PROVE  IStore'
  <1> DEFINE d == DateSuppression(lignes[i])
  <1>1. /\ TypeOK /\ Rangees /\ SelonLesDates /\ PurgeJuste
        /\ PoserTombale(i, d)
        /\ plusMorte' = [plusMorte EXCEPT ![i] = MaxDe(plusMorte[i], d)]
        /\ UNCHANGED <<plusHaute, maintenant, compte, crochet, purge, lecteurs>>
    BY DEF IStore, Delete
  <1>2. /\ d \in 0..DateMax /\ d >= maintenant
        /\ EstVivante(lignes[i]) => d >= lignes[i].dateCopie
        /\ EstTombale(lignes[i]) => d >= lignes[i].deletedAt
    BY <1>1, DateSuppressionEst
  <1> HIDE DEF d
  <1>3. /\ d \in Nat /\ maintenant \in Nat /\ plusHaute[i] \in Nat
        /\ plusMorte[i] \in Int /\ Retention \in Nat
    BY <1>1, <1>2, StoreNumbers DEF TypeOK
  <1>4. plusHaute[i] <= d /\ plusMorte[i] <= d
    <2>1. CASE lignes[i] = Rien
      BY <2>1, <1>1, <1>3 DEF Rangees
    <2>2. CASE EstVivante(lignes[i])
      <3>1. lignes[i].dateCopie = plusHaute[i] /\ plusHaute[i] > plusMorte[i]
        BY <2>2, <1>1 DEF SelonLesDates, EstVivante, EstTombale
      <3>2. QED BY <2>2, <3>1, <1>2, <1>3
    <2>3. CASE EstTombale(lignes[i])
      <3>1. lignes[i].deletedAt = plusMorte[i] /\ ~(plusHaute[i] > plusMorte[i])
        BY <2>3, <1>1 DEF SelonLesDates, EstVivante, EstTombale
      <3>2. QED BY <2>3, <3>1, <1>2, <1>3
    <2>4. QED BY <2>1, <2>2, <2>3 DEF EstVivante, EstTombale
  <1>5. MaxDe(plusMorte[i], d) = d
    BY <1>3, <1>4 DEF MaxDe
  <1>6. ASSUME purge # Rien, NEW t \in purge.candidates \cup purge.accords, t[1] = i
        PROVE  t[2] < d
    <2>1. /\ t[2] < purge.seuil /\ t[2] \in Nat /\ purge.seuil \in Int
          /\ purge.seuil + Retention <= maintenant
      BY <1>6, <1>1 DEF PurgeJuste, Ancienne, TypeOK, Purges
    <2>2. QED BY <2>1, <1>2, <1>3
  <1>7. QED BY <1>1, <1>2, <1>4, <1>5, <1>6, PoserIStore

-----------------------------------------------------------------------------
(* The purge                                                               *)

\* What _effacer_tombales erases leaves nothing behind, and nothing else moves.
LEMMA EffacerIStore ==
  ASSUME IStore, NEW T \in SUBSET (Ids \X Nat), EffacerTombales(T), purge' = Rien,
         UNCHANGED <<maintenant, compte, crochet, lecteurs>>
  PROVE  IStore'
  <1>1. /\ TypeOK /\ Rangees /\ SelonLesDates /\ Lectures
        /\ UNCHANGED <<compteur, curseur, su, reponse>>
    BY DEF IStore, EffacerTombales, lecteurs
  <1>2. ASSUME NEW k \in Ids
        PROVE  /\ lignes'[k] = Rien => plusHaute'[k] = 0 /\ plusMorte'[k] = -1
               /\ lignes'[k] # Rien =>
                    /\ lignes'[k] = lignes[k] /\ plusHaute'[k] = plusHaute[k]
                    /\ plusMorte'[k] = plusMorte[k] /\ poseeLe'[k] = poseeLe[k]
               /\ EstTombale(lignes'[k]) => posees'[k] = posees[k]
    BY <1>1 DEF EffacerTombales, TypeOK
  <1>3. TypeOK'
    <2>1. /\ lignes' \in [Ids -> Lignes \cup {Rien}]
          /\ posees' \in [Ids -> Nat \cup {Rien}]
      BY <1>1 DEF EffacerTombales, TypeOK
    <2>2. /\ plusHaute' \in [Ids -> Nat] /\ plusMorte' \in [Ids -> Int]
          /\ poseeLe' \in [Ids -> Nat]
      BY <1>1 DEF EffacerTombales, TypeOK
    <2>3. QED BY <1>1, <2>1, <2>2 DEF TypeOK
  <1>4. Rangees'
    BY <1>1, <1>2 DEF Rangees, Age, EstVivante, EstTombale
  <1>5. SelonLesDates'
    BY <1>1, <1>2 DEF SelonLesDates
  <1>6. Lectures'
    BY <1>1, <1>2 DEF Lectures, LecteurAJour, ReponseAJour
  <1>7. PurgeJuste'
    BY DEF PurgeJuste
  <1>8. QED BY <1>3, <1>4, <1>5, <1>6, <1>7 DEF IStore

\* The candidates a purge reads are tombstones of that moment, old by both dates.
LEMMA CandidatesAnciennes ==
  ASSUME IStore, purge # Rien
  PROVE  /\ Candidates \in SUBSET (Ids \X Nat)
         /\ \A t \in Candidates : Ancienne(t)
         /\ \A i \in Ids : <<i, lignes[i].deletedAt>> \in Candidates =>
              Age(i) < purge.seuil /\ lignes[i].deletedAt <= Age(i)
  <1>1. TypeOK /\ Rangees /\ SelonLesDates /\ purge.seuil \in Int
    BY DEF IStore, TypeOK, Purges
  <1>2. ASSUME NEW i \in Ids, EstTombale(lignes[i])
        PROVE  /\ lignes[i] # Rien
               /\ lignes[i].deletedAt \in Nat /\ lignes[i].deletedAt = plusMorte[i]
               /\ poseeLe[i] \in Nat /\ Age(i) \in Int
               /\ lignes[i].deletedAt <= Age(i) /\ poseeLe[i] <= Age(i)
    <2>1. lignes[i] # Rien /\ ~EstVivante(lignes[i])
      BY <1>2 DEF EstTombale, EstVivante
    <2>2. lignes[i].deletedAt \in Nat /\ lignes[i].deletedAt = plusMorte[i]
      BY <2>1, <1>1, <1>2, StoreNumbers DEF TypeOK, Lignes, EstTombale, SelonLesDates
    <2>3. posees[i] \in Nat \cup {Rien} /\ poseeLe[i] \in Nat
      BY <1>1 DEF TypeOK
    <2>4. Age(i) \in Int /\ lignes[i].deletedAt <= Age(i)
      BY <2>2, <2>3 DEF Age, MaxDe
    <2>5. QED BY <2>1, <2>2, <2>3, <2>4, <1>1, <1>2 DEF Rangees
  <1>3. Candidates \in SUBSET (Ids \X Nat)
    BY <1>2 DEF Candidates
  <1>4. ASSUME NEW t \in Candidates PROVE Ancienne(t)
    <2>1. PICK i \in Ids : /\ t = <<i, lignes[i].deletedAt>>
                           /\ EstTombale(lignes[i]) /\ Age(i) < purge.seuil
      BY DEF Candidates
    <2>2. t[1] = i /\ t[2] = lignes[i].deletedAt
      BY <2>1
    <2>3. QED BY <1>1, <1>2, <2>1, <2>2 DEF Ancienne
  <1>5. ASSUME NEW i \in Ids, <<i, lignes[i].deletedAt>> \in Candidates
        PROVE  Age(i) < purge.seuil /\ lignes[i].deletedAt <= Age(i)
    <2>1. PICK j \in Ids : /\ <<i, lignes[i].deletedAt>> = <<j, lignes[j].deletedAt>>
                           /\ EstTombale(lignes[j]) /\ Age(j) < purge.seuil
      BY <1>5 DEF Candidates
    <2>2. i = j
      BY <2>1
    <2>3. QED BY <1>2, <2>1, <2>2
  <1>6. QED BY <1>3, <1>4, <1>5

LEMMA PurgerDebutIStore ==
  ASSUME IStore, PurgerDebut
  PROVE  IStore'
  <1>1. /\ TypeOK /\ Rangees /\ SelonLesDates /\ Lectures
        /\ purge' = PurgeCommencee
        /\ UNCHANGED <<lignes, posees, compteur, plusHaute, plusMorte, poseeLe,
                       maintenant, compte, crochet, curseur, su, reponse>>
    BY DEF IStore, PurgerDebut, magasin, lecteurs
  <1>2. maintenant \in Nat /\ Retention \in Nat
    BY <1>1, StoreNumbers DEF TypeOK
  <1>3. /\ PurgeCommencee \in Purges
        /\ PurgeCommencee.seuil + Retention <= maintenant
        /\ PurgeCommencee.candidates = {} /\ PurgeCommencee.accords = {}
    BY <1>1, <1>2 DEF PurgeCommencee, Purges, TypeOK
  <1>4. TypeOK'
    BY <1>1, <1>3 DEF TypeOK
  <1>5. PurgeJuste'
    BY <1>1, <1>3 DEF PurgeJuste
  <1>6. Rangees' /\ SelonLesDates' /\ Lectures'
    BY <1>1 DEF Rangees, Age, SelonLesDates, Lectures, LecteurAJour, ReponseAJour
  <1>7. QED BY <1>4, <1>5, <1>6 DEF IStore

LEMMA PurgerLireIStore ==
  ASSUME IStore, PurgerLire
  PROVE  IStore'
  <1>1. /\ TypeOK /\ Rangees /\ SelonLesDates /\ Lectures /\ PurgeJuste
        /\ purge # Rien /\ purge \in Purges /\ purge.etape = "lire"
        /\ UNCHANGED <<maintenant, compte, crochet, lecteurs>>
    BY DEF IStore, PurgerLire, TypeOK
  <1>2. /\ Candidates \in SUBSET (Ids \X Nat)
        /\ \A t \in Candidates : Ancienne(t)
    BY <1>1, CandidatesAnciennes
  <1>3. CASE purge.avecCrochet
    <2>1. /\ UNCHANGED <<lignes, posees, compteur, plusHaute, plusMorte, poseeLe,
                         curseur, su, reponse>>
          /\ purge' = [purge EXCEPT !.etape = "demander", !.candidates = Candidates]
      BY <1>1, <1>3 DEF PurgerLire, magasin, lecteurs
    <2>2. /\ purge' \in Purges /\ purge'.seuil = purge.seuil
          /\ purge'.etape = "demander"
          /\ purge'.candidates = Candidates /\ purge'.accords = {}
      BY <1>1, <1>2, <2>1 DEF Purges, PurgeJuste
    <2>3. TypeOK'
      BY <1>1, <2>1, <2>2 DEF TypeOK
    <2>4. PurgeJuste'
      BY <1>1, <1>2, <2>1, <2>2 DEF PurgeJuste, Ancienne
    <2>5. Rangees' /\ SelonLesDates' /\ Lectures'
      BY <1>1, <2>1 DEF Rangees, Age, SelonLesDates, Lectures, LecteurAJour, ReponseAJour
    <2>6. QED BY <2>3, <2>4, <2>5 DEF IStore
  <1>4. CASE ~purge.avecCrochet
    BY <1>1, <1>2, <1>4, EffacerIStore DEF PurgerLire
  <1>5. QED BY <1>3, <1>4

LEMMA PurgerDemanderIStore ==
  ASSUME IStore, NEW t \in Ids \X Nat, NEW accord \in BOOLEAN, PurgerDemander(t, accord)
  PROVE  IStore'
  <1>1. /\ TypeOK /\ Rangees /\ SelonLesDates /\ Lectures /\ PurgeJuste
        /\ purge # Rien /\ purge \in Purges /\ purge.etape = "demander"
        /\ t \in purge.candidates
        /\ UNCHANGED <<lignes, posees, compteur, plusHaute, plusMorte, poseeLe,
                       maintenant, compte, crochet, curseur, su, reponse>>
    BY DEF IStore, PurgerDemander, TypeOK, magasin, lecteurs
  <1>2. /\ purge' \in Purges /\ purge'.seuil = purge.seuil
        /\ purge'.etape = "demander"
        /\ purge'.candidates = purge.candidates \ {t}
        /\ purge'.accords = IF accord THEN purge.accords \cup {t} ELSE purge.accords
    BY <1>1 DEF PurgerDemander, Purges
  <1>3. TypeOK'
    BY <1>1, <1>2 DEF TypeOK
  <1>4. PurgeJuste'
    BY <1>1, <1>2 DEF PurgeJuste, Ancienne
  <1>5. Rangees' /\ SelonLesDates' /\ Lectures'
    BY <1>1 DEF Rangees, Age, SelonLesDates, Lectures, LecteurAJour, ReponseAJour
  <1>6. QED BY <1>3, <1>4, <1>5 DEF IStore

LEMMA PurgerFinIStore ==
  ASSUME IStore, PurgerFin
  PROVE  IStore'
  <1>1. purge.accords \in SUBSET (Ids \X Nat)
    BY DEF IStore, PurgerFin, TypeOK, Purges
  <1>2. QED BY <1>1, EffacerIStore DEF PurgerFin

-----------------------------------------------------------------------------
(* Readers and surroundings                                                *)

\* A step that leaves the store and its clock alone leaves what only they
\* decide.
LEMMA MagasinInchange ==
  ASSUME IStore, UNCHANGED <<magasin, maintenant, compte, crochet, purge>>
  PROVE  Rangees' /\ SelonLesDates' /\ PurgeJuste'
  BY DEF IStore, Rangees, Age, SelonLesDates, PurgeJuste, Ancienne, magasin

LEMMA LireIStore ==
  ASSUME IStore, NEW l \in Lecteurs, Lire(l)
  PROVE  IStore'
  <1> DEFINE a == [sus |-> [i \in Ids |->
                     IF lignes[i] # Rien /\ lignes[i].seq > curseur[l]
                     THEN lignes[i].seq ELSE 0],
                   jusqua |-> compteur]
  <1>1. /\ TypeOK /\ Rangees /\ Lectures
        /\ reponse' = [reponse EXCEPT ![l] = a]
        /\ UNCHANGED <<lignes, posees, compteur, plusHaute, plusMorte, poseeLe,
                       maintenant, compte, crochet, purge, curseur, su>>
    BY DEF IStore, Lire, magasin
  <1>2. ASSUME NEW i \in Ids
        PROVE  /\ lignes[i] # Rien => lignes[i].seq \in Nat /\ lignes[i].seq <= compteur
               /\ a.sus[i] \in Nat /\ a.sus[i] <= compteur
               /\ lignes[i] # Rien /\ lignes[i].seq > curseur[l] =>
                    a.sus[i] = lignes[i].seq
               /\ lignes[i] # Rien /\ ~(lignes[i].seq > curseur[l]) => a.sus[i] = 0
    BY <1>1 DEF Rangees, TypeOK
  <1>3. a \in Reponses /\ a.jusqua = compteur
    <2>1. /\ [i \in Ids |-> IF lignes[i] # Rien /\ lignes[i].seq > curseur[l]
                            THEN lignes[i].seq ELSE 0] \in [Ids -> Nat]
      BY <1>2
    <2>2. QED BY <1>1, <2>1 DEF Reponses, TypeOK
  <1> HIDE DEF a
  <1>4. TypeOK'
    BY <1>1, <1>3 DEF TypeOK
  <1>5. Lectures'
    <2> SUFFICES ASSUME NEW k \in Lecteurs
                 PROVE  LecteurAJour(k)' /\ (reponse'[k] # Rien => ReponseAJour(k)')
      BY DEF Lectures
    <2>1. LecteurAJour(k)'
      BY <1>1 DEF Lectures, LecteurAJour
    <2>2. CASE k # l
      <3>1. reponse'[k] = reponse[k]
        BY <2>2, <1>1 DEF TypeOK
      <3>2. QED BY <2>1, <3>1, <1>1 DEF Lectures, ReponseAJour
    <2>3. CASE k = l
      <3>1. reponse'[l] = a /\ compteur \in Nat /\ curseur[l] \in Nat
        BY <1>1 DEF TypeOK
      <3>2. ASSUME NEW i \in Ids, lignes[i] # Rien
            PROVE  MaxDe(su[l][i], a.sus[i]) = lignes[i].seq /\ a.sus[i] <= lignes[i].seq
        <4>1. /\ su[l][i] \in Nat /\ su[l][i] <= lignes[i].seq
              /\ lignes[i].seq <= curseur[l] => su[l][i] = lignes[i].seq
          BY <1>1, <3>2 DEF Lectures, LecteurAJour, TypeOK
        <4>2. QED BY <1>2, <3>1, <3>2, <4>1 DEF MaxDe
      <3>3. ReponseAJour(l)'
        BY <1>1, <1>2, <1>3, <3>1, <3>2 DEF ReponseAJour
      <3>4. QED BY <2>1, <2>3, <3>3
    <2>4. QED BY <2>2, <2>3
  <1>6. Rangees' /\ SelonLesDates' /\ PurgeJuste'
    BY <1>1, MagasinInchange DEF magasin
  <1>7. QED BY <1>4, <1>5, <1>6 DEF IStore

LEMMA RecevoirIStore ==
  ASSUME IStore, NEW l \in Lecteurs, Recevoir(l)
  PROVE  IStore'
  <1>1. /\ TypeOK /\ Rangees /\ Lectures /\ reponse[l] # Rien /\ reponse[l] \in Reponses
        /\ su' = [su EXCEPT ![l] = [i \in Ids |-> MaxDe(su[l][i], reponse[l].sus[i])]]
        /\ curseur' = [curseur EXCEPT ![l] = MaxDe(curseur[l], reponse[l].jusqua)]
        /\ reponse' = [reponse EXCEPT ![l] = Rien]
        /\ UNCHANGED <<lignes, posees, compteur, plusHaute, plusMorte, poseeLe,
                       maintenant, compte, crochet, purge>>
    BY DEF IStore, Recevoir, magasin, TypeOK
  <1>2. /\ curseur[l] \in Nat /\ reponse[l].jusqua \in Nat /\ compteur \in Nat
        /\ \A i \in Ids : su[l][i] \in Nat /\ reponse[l].sus[i] \in Nat
    BY <1>1 DEF TypeOK, Reponses
  <1>3. /\ MaxDe(curseur[l], reponse[l].jusqua) \in Nat
        /\ [i \in Ids |-> MaxDe(su[l][i], reponse[l].sus[i])] \in [Ids -> Nat]
    BY <1>2 DEF MaxDe
  <1>4. TypeOK'
    BY <1>1, <1>3 DEF TypeOK
  <1>5. Lectures'
    <2> SUFFICES ASSUME NEW k \in Lecteurs
                 PROVE  LecteurAJour(k)' /\ (reponse'[k] # Rien => ReponseAJour(k)')
      BY DEF Lectures
    <2>1. CASE k # l
      <3>1. reponse'[k] = reponse[k] /\ su'[k] = su[k] /\ curseur'[k] = curseur[k]
        BY <2>1, <1>1 DEF TypeOK
      <3>2. QED BY <3>1, <1>1 DEF Lectures, LecteurAJour, ReponseAJour
    <2>2. CASE k = l
      <3>1. /\ reponse'[l] = Rien
            /\ curseur'[l] = MaxDe(curseur[l], reponse[l].jusqua)
            /\ \A i \in Ids : su'[l][i] = MaxDe(su[l][i], reponse[l].sus[i])
        BY <1>1 DEF TypeOK
      <3>2. /\ curseur[l] <= compteur /\ reponse[l].jusqua <= compteur
            /\ \A i \in Ids : su[l][i] <= compteur /\ reponse[l].sus[i] <= compteur
        BY <1>1 DEF Lectures, LecteurAJour, ReponseAJour
      <3>3. ASSUME NEW i \in Ids, lignes[i] # Rien
            PROVE  /\ su'[l][i] <= lignes[i].seq
                   /\ lignes[i].seq <= curseur'[l] => su'[l][i] = lignes[i].seq
        <4>1. /\ su[l][i] <= lignes[i].seq /\ reponse[l].sus[i] <= lignes[i].seq
              /\ lignes[i].seq <= curseur[l] => su[l][i] = lignes[i].seq
              /\ lignes[i].seq <= reponse[l].jusqua =>
                   MaxDe(su[l][i], reponse[l].sus[i]) = lignes[i].seq
          BY <1>1, <3>3 DEF Lectures, LecteurAJour, ReponseAJour
        <4>2. lignes[i].seq \in Nat
          BY <1>1, <3>3 DEF TypeOK, Lignes
        <4>3. QED BY <1>2, <3>1, <4>1, <4>2 DEF MaxDe
      <3>4. curseur'[l] <= compteur /\ \A i \in Ids : su'[l][i] <= compteur
        BY <1>2, <3>1, <3>2 DEF MaxDe
      <3>5. LecteurAJour(l)'
        BY <1>1, <3>3, <3>4 DEF LecteurAJour
      <3>6. QED BY <2>2, <3>1, <3>5
    <2>3. QED BY <2>1, <2>2
  <1>6. Rangees' /\ SelonLesDates' /\ PurgeJuste'
    BY <1>1, MagasinInchange DEF magasin
  <1>7. QED BY <1>4, <1>5, <1>6 DEF IStore

LEMMA PerdreIStore ==
  ASSUME IStore, NEW l \in Lecteurs, Perdre(l)
  PROVE  IStore'
  <1>1. /\ TypeOK /\ Lectures
        /\ reponse' = [reponse EXCEPT ![l] = Rien]
        /\ UNCHANGED <<lignes, posees, compteur, plusHaute, plusMorte, poseeLe,
                       maintenant, compte, crochet, purge, curseur, su>>
    BY DEF IStore, Perdre, magasin
  <1>2. TypeOK'
    BY <1>1 DEF TypeOK
  <1>3. \A k \in Lecteurs : reponse'[k] # Rien => reponse'[k] = reponse[k]
    BY <1>1 DEF TypeOK
  <1>4. Lectures'
    BY <1>1, <1>3 DEF Lectures, LecteurAJour, ReponseAJour
  <1>5. Rangees' /\ SelonLesDates' /\ PurgeJuste'
    BY <1>1, MagasinInchange DEF magasin
  <1>6. QED BY <1>2, <1>4, <1>5 DEF IStore

LEMMA AvancerIStore ==
  ASSUME IStore, Avancer
  PROVE  IStore'
  <1>1. /\ TypeOK /\ Rangees /\ SelonLesDates /\ Lectures /\ PurgeJuste
        /\ maintenant' = maintenant + 1 /\ maintenant < DateLocaleMax
        /\ UNCHANGED <<lignes, posees, compteur, plusHaute, plusMorte, poseeLe,
                       compte, crochet, purge, curseur, su, reponse>>
    BY DEF IStore, Avancer, magasin, lecteurs
  <1>2. /\ maintenant \in Nat /\ Retention \in Nat /\ maintenant + 1 <= DateMax
        /\ purge # Rien => purge.seuil \in Int
    BY <1>1, StoreNumbers DEF TypeOK, Purges
  <1>3. TypeOK'
    BY <1>1, <1>2 DEF TypeOK
  <1>4. Rangees' /\ SelonLesDates'
    BY <1>1, <1>2 DEF Rangees, Age, SelonLesDates
  <1>5. Lectures'
    BY <1>1 DEF Lectures, LecteurAJour, ReponseAJour
  <1>6. PurgeJuste'
    BY <1>1, <1>2 DEF PurgeJuste, Ancienne
  <1>7. QED BY <1>3, <1>4, <1>5, <1>6 DEF IStore

\* The account and the hook change nothing the invariant speaks of.
LEMMA CrochetIStore ==
  ASSUME IStore, CreerCompte \/ PoserCrochet
  PROVE  IStore'
  <1>1. /\ compte' \in BOOLEAN /\ crochet' \in BOOLEAN
        /\ UNCHANGED <<lignes, posees, compteur, plusHaute, plusMorte, poseeLe,
                       maintenant, purge, curseur, su, reponse>>
    BY DEF IStore, TypeOK, CreerCompte, PoserCrochet, magasin, lecteurs
  <1>2. QED
    BY <1>1
    DEF IStore, TypeOK, Rangees, Age, SelonLesDates, Lectures, LecteurAJour,
        ReponseAJour, PurgeJuste, Ancienne

LEMMA RedemarrerIStore ==
  ASSUME IStore, Redemarrer
  PROVE  IStore'
  <1>1. /\ TypeOK /\ Rangees /\ SelonLesDates /\ Lectures
        /\ crochet' = FALSE /\ reponse' = [l \in Lecteurs |-> Rien]
        /\ purge' = IF compte THEN Rien
                    ELSE [PurgeCommencee EXCEPT !.avecCrochet = FALSE]
        /\ UNCHANGED <<lignes, posees, compteur, plusHaute, plusMorte, poseeLe,
                       maintenant, compte, curseur, su>>
    BY DEF IStore, Redemarrer, magasin
  <1>2. maintenant \in Nat /\ Retention \in Nat
    BY <1>1, StoreNumbers DEF TypeOK
  <1>3. /\ purge' \in Purges \cup {Rien}
        /\ purge' # Rien => /\ purge'.seuil + Retention <= maintenant
                            /\ purge'.candidates = {} /\ purge'.accords = {}
    <2> DEFINE q == PurgeCommencee
               r == [q EXCEPT !.avecCrochet = FALSE]
    <2>1. /\ q \in Purges /\ q.seuil + Retention <= maintenant
          /\ q.candidates = {} /\ q.accords = {}
      BY <1>1, <1>2 DEF PurgeCommencee, Purges, TypeOK
    <2>2. purge' = IF compte THEN Rien ELSE r
      BY <1>1
    <2> HIDE DEF q
    <2>3. /\ r \in Purges /\ r.seuil = q.seuil
          /\ r.candidates = q.candidates /\ r.accords = q.accords
      BY <2>1 DEF Purges
    <2> HIDE DEF r
    <2>4. QED BY <2>1, <2>2, <2>3
  <1>4. TypeOK'
    BY <1>1, <1>3 DEF TypeOK
  <1>5. PurgeJuste'
    BY <1>1, <1>3 DEF PurgeJuste
  <1>6. Rangees' /\ SelonLesDates'
    BY <1>1 DEF Rangees, Age, SelonLesDates
  <1>7. Lectures'
    BY <1>1 DEF Lectures, LecteurAJour
  <1>8. QED BY <1>4, <1>5, <1>6, <1>7 DEF IStore

-----------------------------------------------------------------------------
(* The theorems                                                            *)

LEMMA InitIStore == Init => IStore
  <1> SUFFICES ASSUME Init PROVE IStore
    OBVIOUS
  <1>1. TypeOK
    <2>1. /\ lignes \in [Ids -> Lignes \cup {Rien}] /\ posees \in [Ids -> Nat \cup {Rien}]
          /\ reponse \in [Lecteurs -> Reponses \cup {Rien}]
      BY DEF Init
    <2>2. [i \in Ids |-> 0] \in [Ids -> Nat]
      OBVIOUS
    <2>3. su \in [Lecteurs -> [Ids -> Nat]] /\ curseur \in [Lecteurs -> Nat]
      BY <2>2 DEF Init
    <2>4. /\ plusHaute \in [Ids -> Nat] /\ plusMorte \in [Ids -> Int]
          /\ poseeLe \in [Ids -> Nat]
      BY DEF Init
    <2>5. QED BY <2>1, <2>3, <2>4 DEF Init, TypeOK
  <1>2. DateMax \in Nat
    BY StoreNumbers
  <1>3. Rangees
    BY <1>2 DEF Init, Rangees, EstVivante, EstTombale
  <1>4. SelonLesDates
    BY DEF Init, SelonLesDates
  <1>5. Lectures /\ PurgeJuste
    BY DEF Init, Lectures, LecteurAJour, PurgeJuste
  <1>6. QED BY <1>1, <1>3, <1>4, <1>5 DEF IStore

LEMMA NextIStore == IStore /\ [Next]_vars => IStore'
  <1> SUFFICES ASSUME IStore, [Next]_vars PROVE IStore'
    OBVIOUS
  <1>1. CASE \E i \in Ids, c \in Copies : Upsert(i, c)
    BY <1>1, UpsertIStore
  <1>2. CASE \E i \in Ids, d \in 0..DateLocaleMax : AppliquerTombale(i, d)
    BY <1>2, AppliquerTombaleIStore
  <1>3. CASE \E i \in Ids : Delete(i)
    BY <1>3, DeleteIStore
  <1>4. CASE PurgerDebut \/ PurgerLire \/ PurgerFin
    BY <1>4, PurgerDebutIStore, PurgerLireIStore, PurgerFinIStore
  <1>5. CASE \E i \in Ids, d \in 0..DateMax, accord \in BOOLEAN :
               PurgerDemander(<<i, d>>, accord)
    <2>1. PICK i \in Ids, d \in 0..DateMax, accord \in BOOLEAN :
            PurgerDemander(<<i, d>>, accord)
      BY <1>5
    <2>2. <<i, d>> \in Ids \X Nat
      BY StoreNumbers
    <2>3. QED BY <2>1, <2>2, PurgerDemanderIStore
  <1>6. CASE \E l \in Lecteurs : Lire(l) \/ Recevoir(l) \/ Perdre(l)
    BY <1>6, LireIStore, RecevoirIStore, PerdreIStore
  <1>7. CASE Avancer \/ CreerCompte \/ PoserCrochet \/ Redemarrer
    BY <1>7, AvancerIStore, CrochetIStore, RedemarrerIStore
  <1>8. CASE UNCHANGED vars
    BY <1>8
    DEF vars, IStore, TypeOK, Rangees, Age, SelonLesDates, Lectures, LecteurAJour,
        ReponseAJour, PurgeJuste, Ancienne
  <1>9. QED
    BY <1>1, <1>2, <1>3, <1>4, <1>5, <1>6, <1>7, <1>8 DEF Next

\* The invariant holds in every state of the store, whatever writers, readers,
\* purges and restarts do.
THEOREM StoreInductive == Spec => []IStore
  BY InitIStore, NextIStore, PTL DEF Spec

\* Rows, tombstones, answers and purges keep their form.
THEOREM TypeCorrect == Spec => []TypeOK
  <1>1. IStore => TypeOK
    BY DEF IStore
  <1>2. QED BY <1>1, StoreInductive, PTL

\* A reader that moves its cursor over the numbers of list has taken in every
\* write up to it: a lost or late answer, a purge or a restart hides none.
THEOREM ReadersMissNothing == Spec => []LecteurComplet
  <1>1. IStore => LecteurComplet
    BY DEF IStore, Lectures, LecteurAJour, LecteurComplet
  <1>2. QED BY <1>1, StoreInductive, PTL

\* Copies and deletions give the same conversation, or the same tombstone, in
\* whichever order they reach the store.
THEOREM DatesDecide == Spec => []SelonLesDates
  <1>1. IStore => SelonLesDates
    BY DEF IStore
  <1>2. QED BY <1>1, StoreInductive, PTL

\* Only the two steps of the purge that erase remove a row.
LEMMA SeuleLaPurgeRetire ==
  ASSUME IStore, [Next]_vars, ~PurgerLire, ~PurgerFin, NEW i \in Ids, lignes[i] # Rien
  PROVE  lignes'[i] # Rien
  <1>1. /\ lignes \in [Ids -> Lignes \cup {Rien}] /\ Rien \notin Lignes
        /\ compteur \in Nat /\ DateMax \in Nat
    BY RienIsNoConversation, StoreNumbers DEF IStore, TypeOK
  <1>2. ASSUME NEW k \in Ids, NEW n \in Lignes, lignes' = [lignes EXCEPT ![k] = n]
        PROVE  lignes'[i] # Rien
    BY <1>1, <1>2
  <1>3. ASSUME NEW k \in Ids, NEW c \in Copies, Upsert(k, c) PROVE lignes'[i] # Rien
    <2> DEFINE n == AStocker(lignes[k], c)
    <2>1. n \in Conversations /\ n.updatedAt \in 0..DateMax
      BY AStockerEst DEF IStore
    <2>2. UNCHANGED lignes \/ lignes' = [lignes EXCEPT ![k] = LigneVivante(n)]
      BY <1>3 DEF Upsert, Ecrire
    <2> HIDE DEF n
    <2>3. LigneVivante(n) \in Lignes
      BY <1>1, <2>1 DEF LigneVivante, Lignes, ProchainSeq
    <2>4. QED BY <1>2, <2>2, <2>3
  <1>4. ASSUME NEW k \in Ids, NEW d \in 0..DateMax, PoserTombale(k, d)
        PROVE  lignes'[i] # Rien
    <2> DEFINE n == [copie |-> Rien,
                     dateCopie |-> IF lignes[k] = Rien THEN 0 ELSE lignes[k].dateCopie,
                     deletedAt |-> d, seq |-> compteur + 1]
    <2>1. lignes' = [lignes EXCEPT ![k] = n]
      BY <1>4 DEF PoserTombale, ProchainSeq
    <2>2. n \in Lignes
      BY <1>1 DEF Lignes
    <2> HIDE DEF n
    <2>3. QED BY <1>2, <2>1, <2>2
  <1>5. ASSUME NEW k \in Ids, NEW d \in 0..DateLocaleMax, AppliquerTombale(k, d)
        PROVE  lignes'[i] # Rien
    <2>1. d \in 0..DateMax
      BY StoreNumbers
    <2>2. QED BY <1>4, <1>5, <2>1 DEF AppliquerTombale
  <1>6. ASSUME NEW k \in Ids, Delete(k) PROVE lignes'[i] # Rien
    <2>1. DateSuppression(lignes[k]) \in 0..DateMax
      BY DateSuppressionEst DEF IStore
    <2>2. QED BY <1>4, <1>6, <2>1 DEF Delete
  <1>7. CASE UNCHANGED lignes
    BY <1>7
  <1>8. QED
    BY <1>3, <1>5, <1>6, <1>7
    DEF Next, PurgerDebut, PurgerDemander, Lire, Recevoir, Perdre, Avancer,
        CreerCompte, PoserCrochet, Redemarrer, magasin, vars

\* A row leaves the store only as a tombstone past the retention by both of its
\* dates, and, when the purge asks, with the agreement given for that date.
THEOREM PurgeIsSafe == Spec => PurgeSure
  <1> DEFINE Sure(i) ==
        /\ EstTombale(lignes[i])
        /\ lignes[i].deletedAt + Retention < maintenant
        /\ poseeLe[i] + Retention < maintenant
        /\ purge.avecCrochet => <<i, lignes[i].deletedAt>> \in purge.accords
  <1>1. ASSUME IStore, [Next]_vars
        PROVE  [\A i \in Ids : lignes[i] # Rien /\ lignes'[i] = Rien => Sure(i)]_vars
    <2> SUFFICES ASSUME NEW i \in Ids, lignes[i] # Rien, lignes'[i] = Rien
                 PROVE  Sure(i)
      OBVIOUS
    <2>1. PurgerLire \/ PurgerFin
      BY <1>1, SeuleLaPurgeRetire
    <2>2. /\ TypeOK /\ Rangees /\ SelonLesDates /\ PurgeJuste
          /\ purge # Rien /\ purge \in Purges
      BY <1>1, <2>1 DEF IStore, TypeOK, PurgerLire, PurgerFin
    <2>3. /\ maintenant \in Nat /\ Retention \in Nat /\ purge.seuil \in Int
          /\ purge.seuil + Retention <= maintenant /\ poseeLe[i] \in Nat
      BY <2>2, StoreNumbers DEF TypeOK, Purges, PurgeJuste
    <2>4. ASSUME EstTombale(lignes[i])
          PROVE  lignes[i].deletedAt \in Nat /\ lignes[i].deletedAt = plusMorte[i]
      <3>1. ~EstVivante(lignes[i]) /\ lignes[i] \in Lignes
        BY <2>2, <2>4 DEF TypeOK, EstTombale, EstVivante
      <3>2. QED
        BY <2>2, <2>4, <3>1, StoreNumbers DEF Lignes, EstTombale, SelonLesDates
    <2>5. CASE PurgerLire
      <3>1. /\ ~purge.avecCrochet /\ Effacable(i, Candidates)
        <4>1. ~UNCHANGED lignes
          OBVIOUS
        <4>2. ~purge.avecCrochet /\ EffacerTombales(Candidates)
          BY <2>5, <4>1 DEF PurgerLire, magasin
        <4>3. QED BY <4>2 DEF EffacerTombales
      <3>2. /\ EstTombale(lignes[i]) /\ <<i, lignes[i].deletedAt>> \in Candidates
        BY <3>1 DEF Effacable
      <3>3. Age(i) < purge.seuil /\ lignes[i].deletedAt <= Age(i) /\ Age(i) \in Int
        <4>1. posees[i] \in Nat \cup {Rien}
          BY <2>2 DEF TypeOK
        <4>2. Age(i) \in Int
          BY <2>4, <3>2, <4>1 DEF Age, MaxDe
        <4>3. QED BY <1>1, <2>2, <3>2, <4>2, CandidatesAnciennes
      <3>4. poseeLe[i] <= Age(i)
        BY <2>2, <3>2 DEF Rangees
      <3>5. QED BY <2>3, <2>4, <3>1, <3>2, <3>3, <3>4
    <2>6. CASE PurgerFin
      <3>1. Effacable(i, purge.accords)
        BY <2>6 DEF PurgerFin, EffacerTombales
      <3>2. /\ EstTombale(lignes[i]) /\ <<i, lignes[i].deletedAt>> \in purge.accords
        BY <3>1 DEF Effacable
      <3>3. Ancienne(<<i, lignes[i].deletedAt>>)
        BY <2>2, <3>2 DEF PurgeJuste
      <3>4. lignes[i].deletedAt < purge.seuil /\ poseeLe[i] < purge.seuil
        BY <3>2, <3>3 DEF Ancienne
      <3>5. QED BY <2>3, <2>4, <3>2, <3>4
    <2>7. QED BY <2>1, <2>5, <2>6
  <1>2. QED
    BY <1>1, StoreInductive, PTL DEF Spec, PurgeSure

================================================================================
