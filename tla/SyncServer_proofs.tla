-------------------------- MODULE SyncServer_proofs --------------------------
(***************************************************************************)
(* Theorems about SyncServer, for any set of objects, images and devices   *)
(* and any limits. IInv is the inductive invariant: what the properties    *)
(* say of the committed tables, said also of the working copy of an open   *)
(* push and of every page in flight.                                       *)
(*                                                                         *)
(* SyncServer implements RegistresSuivis: only a push that commits and a   *)
(* page that arrives are steps of the registers; the rest is a stutter or  *)
(* a number taken. Besides IInv this needs how far an open push has gone   *)
(* and what a device may believe.                                          *)
(*                                                                         *)
(* The byte counter needs facts about sums over a finite table, proved at  *)
(* the end by induction, and IOctets, which says of the open push what it  *)
(* says of the tables.                                                     *)
(***************************************************************************)
EXTENDS SyncServer, FiniteSetTheorems, WellFoundedInduction, TLAPS

-----------------------------------------------------------------------------
(* The inductive invariant                                                 *)

\* A table numbered up to s: a missing row carries no seq, two rows never the
\* same one.
Numerotes(objs, s) ==
  \A o \in Objets :
    /\ objs[o].rev = 0 => objs[o].seq = 0 /\ objs[o].blob = Rien
    /\ objs[o].rev # 0 =>
         /\ objs[o].seq \in 1 .. s
         /\ objs[o].blob \in Blobs
         /\ \A p \in Objets : objs[p].seq = objs[o].seq => p = o

\* Its epochs follow the order of seq and end with e.
Ordonnes(objs, e) ==
  \A o \in Objets : objs[o].rev # 0 =>
    /\ objs[o].blob.epoque <= e
    /\ \A p \in Objets : objs[o].seq < objs[p].seq =>
         objs[o].blob.epoque <= objs[p].blob.epoque

Tables ==
  /\ Numerotes(objets, compte.seq)
  /\ Ordonnes(objets, compte.epoque)

\* What an open push has written is above every committed seq, and its author
\* waits for the answer and for nothing else.
PousseeOuverte ==
  auteur # Rien =>
    /\ seqTx >= compte.seq
    /\ Numerotes(objetsTx, seqTx)
    /\ Ordonnes(objetsTx, compte.epoque)
    /\ incVue[auteur] = compte.incarnation
    /\ page[auteur] = Rien
    /\ \A o \in Objets :
         \/ objetsTx[o].seq > compte.seq
         \/ /\ objetsTx[o].seq = objets[o].seq
            /\ objetsTx[o].rev = objets[o].rev
    /\ \A o \in Objets :
         objetsTx[o].seq <= curseur[auteur] => appris[o] = objetsTx[o].rev

\* What each device knows, and what it will know once it handles its page.
Connaissances ==
  \A a \in Appareils :
    /\ curseur[a] <= compte.seq
    /\ incVue[a] <= compte.incarnation
    /\ page[a] # Rien => page[a].jusqua <= compte.seq
    /\ incVue[a] = compte.incarnation =>
         \A o \in Objets :
           /\ objets[o].seq <= curseur[a] => vu[a][o] = objets[o].rev
           /\ page[a] # Rien /\ objets[o].seq <= page[a].jusqua =>
                IF o \in page[a].rendus
                THEN page[a].revs[o] = objets[o].rev
                ELSE vu[a][o] = objets[o].rev

IInv == TypeOK /\ Tables /\ PousseeOuverte /\ Connaissances

-----------------------------------------------------------------------------
(* Lemmas about the operators                                              *)

\* purger_retenues touches the replaced versions only.
LEMMA PurgeGardeLesCourantes ==
  ASSUME TypeOK
  PROVE  /\ ObjetsPurges \in [Objets -> Lignes]
         /\ \A o \in Objets : /\ ObjetsPurges[o].rev = objets[o].rev
                              /\ ObjetsPurges[o].seq = objets[o].seq
                              /\ ObjetsPurges[o].blob = objets[o].blob
<1>1. ASSUME NEW o \in Objets
      PROVE  /\ ObjetsPurges[o] \in Lignes
             /\ ObjetsPurges[o].rev = objets[o].rev
             /\ ObjetsPurges[o].seq = objets[o].seq
             /\ ObjetsPurges[o].blob = objets[o].blob
  <2> DEFINE l == objets[o]
             apres == [l EXCEPT !.revPrec = 0, !.blobPrec = Rien, !.jourPrec = 0]
  <2>1. l \in Lignes
    BY DEF TypeOK
  <2>2. ObjetsPurges[o] = IF PrecedenteEchue(l) THEN apres ELSE l
    BY DEF ObjetsPurges
  <2> HIDE DEF l
  <2>3. /\ apres \in Lignes
        /\ apres.rev = l.rev /\ apres.seq = l.seq /\ apres.blob = l.blob
    BY <2>1 DEF Lignes
  <2> HIDE DEF apres
  <2>4. ObjetsPurges[o] \in {apres, l}
    BY <2>2
  <2>5. /\ ObjetsPurges[o] \in Lignes
        /\ ObjetsPurges[o].rev = l.rev
        /\ ObjetsPurges[o].seq = l.seq
        /\ ObjetsPurges[o].blob = l.blob
    BY <2>1, <2>3, <2>4
  <2> QED BY <2>5 DEF l
<1> QED BY <1>1 DEF ObjetsPurges

LEMMA PurgeDesPieces ==
  ASSUME TypeOK
  PROVE  PiecesPurgees \in [Pieces -> LignesPiece]
  BY RienIsNoValue DEF TypeOK, PiecesPurgees, LignesPiece, SansPiece

LEMMA TailleEstNaturelle ==
  ASSUME NEW b \in Blobs \cup {Rien}
  PROVE  TailleDe(b) \in Nat
  BY SizesAreNaturals DEF TailleDe, Blobs

\* A purge keeps a table numbered and ordered.
LEMMA PurgeGardeLesTables ==
  ASSUME TypeOK, Tables
  PROVE  /\ Numerotes(ObjetsPurges, compte.seq)
         /\ Ordonnes(ObjetsPurges, compte.epoque)
  <1> USE PurgeGardeLesCourantes
  <1>1. Numerotes(ObjetsPurges, compte.seq)
    BY DEF Tables, Numerotes
  <1>2. Ordonnes(ObjetsPurges, compte.epoque)
    BY DEF Tables, Ordonnes
  <1>3. QED BY <1>1, <1>2

\* An element stored with the next seq and the account's epoch keeps a table
\* numbered and ordered.
LEMMA StockerGardeLesTables ==
  ASSUME NEW objs \in [Objets -> Lignes], NEW s \in Nat, NEW e \in Nat,
         Numerotes(objs, s), Ordonnes(objs, e),
         NEW o \in Objets, NEW l \in Lignes,
         l.rev = objs[o].rev + 1, l.seq = s + 1,
         l.blob \in Blobs, l.blob.epoque = e
  PROVE  /\ Numerotes([objs EXCEPT ![o] = l], s + 1)
         /\ Ordonnes([objs EXCEPT ![o] = l], e)
  <1> DEFINE neufs == [objs EXCEPT ![o] = l]
  <1>0. /\ neufs[o] = l
        /\ \A p \in Objets \ {o} : neufs[p] = objs[p]
        /\ \A p \in Objets : /\ neufs[p] \in Lignes /\ objs[p] \in Lignes
    OBVIOUS
  <1>1. \A p \in Objets : objs[p].seq \in Nat /\ objs[p].seq <= s
    BY <1>0 DEF Numerotes, Lignes
  <1>2. l.rev # 0 /\ l.seq \in Nat
    BY <1>0 DEF Lignes
  <1> HIDE DEF neufs
  <1>3. Numerotes(neufs, s + 1)
    <2> SUFFICES ASSUME NEW p \in Objets
                 PROVE  /\ neufs[p].rev = 0 =>
                             neufs[p].seq = 0 /\ neufs[p].blob = Rien
                        /\ neufs[p].rev # 0 =>
                             /\ neufs[p].seq \in 1 .. (s + 1)
                             /\ neufs[p].blob \in Blobs
                             /\ \A q \in Objets :
                                  neufs[q].seq = neufs[p].seq => q = p
      BY DEF Numerotes
    <2>1. CASE p = o
      BY <2>1, <1>0, <1>1, <1>2
    <2>2. CASE p # o
      BY <2>2, <1>0, <1>1, <1>2 DEF Numerotes
    <2>3. QED BY <2>1, <2>2
  <1>4. Ordonnes(neufs, e)
    <2> SUFFICES ASSUME NEW p \in Objets, neufs[p].rev # 0
                 PROVE  /\ neufs[p].blob.epoque <= e
                        /\ \A q \in Objets : neufs[p].seq < neufs[q].seq =>
                             neufs[p].blob.epoque <= neufs[q].blob.epoque
      BY DEF Ordonnes
    <2>1. CASE p = o
      BY <2>1, <1>0, <1>1, <1>2
    <2>2. CASE p # o
      BY <2>2, <1>0, <1>1, <1>2 DEF Ordonnes
    <2>3. QED BY <2>1, <2>2
  <1>5. QED BY <1>3, <1>4 DEF neufs

-----------------------------------------------------------------------------
(* Type correctness                                                        *)

LEMMA InitTypeOK == Init => TypeOK
  BY RienIsNoValue
  DEF Init, TypeOK, Comptes, Lignes, Absent, LignesPiece, SansPiece

LEMMA NextTypeOK == TypeOK /\ [Next]_vars => TypeOK'
  <1> SUFFICES ASSUME TypeOK, [Next]_vars
               PROVE  TypeOK'
    OBVIOUS
  <1>1. ASSUME NEW a \in Appareils, PousserDebut(a)
        PROVE  TypeOK'
    BY <1>1, PurgeGardeLesCourantes, PurgeDesPieces
    DEF PousserDebut, TypeOK, Comptes, serveur, appareils
  <1>2. ASSUME PousserElement
        PROVE  TypeOK'
    <2>1. PICK o \in Objets, base \in 0 .. SeqMax, c \in Clairs,
               e \in {compte.epoque, compte.epoque - 1} \ {0} :
            LET b == [epoque |-> e, clair |-> c] IN
            \/ ElementEcarte(b)
            \/ ElementEnConflit(o, base, b)
            \/ ElementDiffere(o, base, b)
            \/ ElementHorsQuota(o, base, b)
            \/ ElementStocke(o, base, b)
      BY <1>2 DEF PousserElement
    <2> DEFINE b == [epoque |-> e, clair |-> c]
    <2>2. b \in Blobs
      <3>1. compte.epoque \in Nat \ {0}
        BY DEF TypeOK, Comptes
      <3>2. e \in Nat \ {0}
        BY <3>1
      <3>3. QED BY <3>2 DEF Blobs
    <2>3. /\ objetsTx[o] \in Lignes
          /\ objetsTx[o].rev \in Nat
          /\ TailleDe(objetsTx[o].blob) \in Nat
      BY TailleEstNaturelle DEF TypeOK, Lignes
    <2> DEFINE Bien == /\ traites' \in Nat /\ conflits' \in Nat
                       /\ seqTx' \in Nat
                       /\ objetsTx' \in [Objets -> Lignes]
                       /\ appris' \in [Objets -> Nat]
    <2> HIDE DEF b
    <2>4. ASSUME ElementEcarte(b)
          PROVE  Bien
      BY <2>4 DEF ElementEcarte, TypeOK
    <2>5. ASSUME ElementEnConflit(o, base, b)
          PROVE  Bien
      BY <2>5, <2>3 DEF ElementEnConflit, TypeOK
    <2>6. ASSUME ElementDiffere(o, base, b)
          PROVE  Bien
      BY <2>6, LimitsAreNaturals DEF ElementDiffere, TypeOK
    <2>7. ASSUME ElementHorsQuota(o, base, b)
          PROVE  Bien
      BY <2>7 DEF ElementHorsQuota, TypeOK
    <2>8. ASSUME ElementStocke(o, base, b)
          PROVE  Bien
      <3>1. LigneStockee(objetsTx[o], b, seqTx + 1) \in Lignes
        BY <2>2, <2>3 DEF LigneStockee, Lignes, TypeOK
      <3>2. QED
        BY <2>8, <2>3, <3>1 DEF ElementStocke, TypeOK
    <2>9. Bien
      BY <2>1, <2>4, <2>5, <2>6, <2>7, <2>8 DEF b
    <2>10. QED
      BY <1>2, <2>9 DEF PousserElement, TypeOK, serveur, appareils
  <1>3. ASSUME PousserValider
        PROVE  TypeOK'
    BY <1>3
    DEF PousserValider, Fermer, TypeOK, Comptes, Lignes, Absent, LignesPiece,
        SansPiece
  <1>4. ASSUME PousserAnnuler
        PROVE  TypeOK'
    BY <1>4
    DEF PousserAnnuler, Fermer, TypeOK, serveur, appareils, Lignes, Absent,
        LignesPiece, SansPiece
  <1>5. ASSUME NEW a \in Appareils, SyncChanges(a)
        PROVE  TypeOK'
    <2>1. PICK d \in Derniers(curseur[a]) :
            page' = [page EXCEPT ![a] =
                       Reponse(Rendus(curseur[a], d), Jusqua(curseur[a], d))]
      BY <1>5 DEF SyncChanges
    <2>2. Jusqua(curseur[a], d) \in Nat
      BY DEF Jusqua, Derniers, Rendus, Candidats, TypeOK, Lignes, Comptes
    <2>3. Reponse(Rendus(curseur[a], d), Jusqua(curseur[a], d)) \in ReponsesPage
      BY <2>2 DEF Reponse, ReponsesPage, Rendus, Candidats, TypeOK, Lignes
    <2>4. QED
      BY <1>5, <2>1, <2>3 DEF SyncChanges, transaction, TypeOK, serveur
  <1>6. ASSUME NEW a \in Appareils, RecevoirPage(a)
        PROVE  TypeOK'
    BY <1>6 DEF RecevoirPage, transaction, TypeOK, ReponsesPage, serveur
  <1>7. ASSUME NEW a \in Appareils, PerdrePage(a)
        PROVE  TypeOK'
    BY <1>7 DEF PerdrePage, transaction, TypeOK, serveur
  <1>8. ASSUME NEW a \in Appareils, Rejoindre(a)
        PROVE  TypeOK'
    BY <1>8 DEF Rejoindre, transaction, TypeOK, serveur, Comptes
  <1>9. ASSUME NEW P \in SUBSET Pieces, PiecesMissing(P)
        PROVE  TypeOK'
    <2>1. compte' \in Comptes
      BY <1>9 DEF PiecesMissing, TypeOK, Comptes
    <2>2. pieces' \in [Pieces -> LignesPiece]
      BY <1>9 DEF PiecesMissing, TypeOK, Comptes, LignesPiece
    <2>3. QED
      BY <1>9, <2>1, <2>2 DEF PiecesMissing, transaction, TypeOK, appareils
  <1>10. ASSUME NEW p \in Pieces, PiecesPut(p)
         PROVE  TypeOK'
    <2>1. compte' \in Comptes
      BY <1>10 DEF PiecesPut, transaction, TypeOK, Comptes
    <2>2. objets' \in [Objets -> Lignes]
      BY <1>10, PurgeGardeLesCourantes DEF PiecesPut
    <2>3. pieces' \in [Pieces -> LignesPiece]
      BY <1>10, PurgeDesPieces DEF PiecesPut, LignesPiece, TypeOK, Comptes
    <2>4. QED
      BY <1>10, <2>1, <2>2, <2>3 DEF PiecesPut, transaction, TypeOK, appareils
  <1>11. ASSUME NEW p \in Pieces, NEW asOf \in 0 .. SeqMax,
                PiecesDelete(p, asOf)
         PROVE  TypeOK'
    <2>1. [pieces[p] EXCEPT !.orpheline = jour] \in LignesPiece
      BY DEF TypeOK, LignesPiece
    <2>2. pieces' \in [Pieces -> LignesPiece]
      BY <1>11, <2>1 DEF PiecesDelete, TypeOK
    <2>3. QED
      BY <1>11, <2>2 DEF PiecesDelete, transaction, TypeOK, appareils
  <1>12. CASE VaultCommit
    BY <1>12 DEF VaultCommit, transaction, TypeOK, Comptes, appareils
  <1>13. CASE ResetComplete
    <2>1. compte' \in Comptes
      BY <1>13 DEF ResetComplete, transaction, TypeOK, Comptes
    <2>2. objets' \in [Objets -> Lignes]
      BY <1>13 DEF ResetComplete, Lignes, Absent
    <2>3. pieces' \in [Pieces -> LignesPiece]
      BY <1>13 DEF ResetComplete, LignesPiece, SansPiece
    <2>4. QED
      BY <1>13, <2>1, <2>2, <2>3 DEF ResetComplete, transaction, TypeOK, appareils
  <1>14. CASE JourSuivant
    BY <1>14 DEF JourSuivant, transaction, TypeOK, serveur, appareils, transaction
  <1>15. CASE UNCHANGED vars
    BY <1>15 DEF vars, TypeOK
  <1>16. QED
    BY <1>1, <1>2, <1>3, <1>4, <1>5, <1>6, <1>7, <1>8, <1>9, <1>10, <1>11,
       <1>12, <1>13, <1>14, <1>15
    DEF Next

\* Every reachable state is well typed, the bytes counted apart (OctetsExacts).
THEOREM TypeCorrect == Spec => []TypeOK
  BY InitTypeOK, NextTypeOK, PTL DEF Spec

-----------------------------------------------------------------------------
(* The inductive invariant holds                                           *)

LEMMA InitIInv == Init => IInv
  <1> SUFFICES ASSUME Init PROVE IInv
    OBVIOUS
  <1>1. TypeOK
    BY InitTypeOK
  <1>2. Tables
    BY DEF Init, Tables, Numerotes, Ordonnes, Absent
  <1>3. PousseeOuverte
    BY DEF Init, PousseeOuverte
  <1>4. Connaissances
    BY DEF Init, Connaissances, Absent
  <1>5. QED BY <1>1, <1>2, <1>3, <1>4 DEF IInv

\* A push that opens works on a copy of what is committed.
LEMMA DebutIInv ==
  ASSUME IInv, NEW a \in Appareils, PousserDebut(a)
  PROVE  Tables' /\ PousseeOuverte' /\ Connaissances'
  <1> USE DEF IInv
  <1>1. Tables'
    BY DEF Tables, Numerotes, Ordonnes, PousserDebut, serveur
  <1>2. PousseeOuverte'
    <2>1. /\ Numerotes(ObjetsPurges, compte.seq)
          /\ Ordonnes(ObjetsPurges, compte.epoque)
      BY PurgeGardeLesTables
    <2>2. /\ auteur' = a /\ seqTx' = compte.seq /\ objetsTx' = ObjetsPurges
          /\ appris' = vu[a] /\ compte' = compte /\ objets' = objets
          /\ incVue' = incVue /\ page' = page /\ curseur' = curseur
      BY DEF PousserDebut, serveur, appareils
    <2>3. /\ Numerotes(objetsTx, seqTx)'
          /\ Ordonnes(objetsTx, compte.epoque)'
      BY <2>1, <2>2 DEF Numerotes, Ordonnes
    <2>4. \A o \in Objets : /\ objetsTx'[o].seq = objets'[o].seq
                            /\ objetsTx'[o].rev = objets'[o].rev
      BY <2>2, PurgeGardeLesCourantes
    <2>5. compte.seq \in Nat
      BY DEF TypeOK, Comptes
    <2>6. incVue[a] = compte.incarnation /\ page[a] = Rien
      BY DEF PousserDebut
    <2>7. \A o \in Objets :
            objetsTx'[o].seq <= curseur'[a] => appris'[o] = objetsTx'[o].rev
      BY <2>2, <2>4, <2>6 DEF Connaissances
    <2>8. QED
      BY <2>2, <2>3, <2>4, <2>5, <2>6, <2>7 DEF PousseeOuverte
  <1>3. Connaissances'
    BY DEF Connaissances, PousserDebut, serveur, appareils
  <1>4. QED BY <1>1, <1>2, <1>3

\* Every outcome of an element keeps the working copy in order.
LEMMA ElementIInv ==
  ASSUME IInv, PousserElement
  PROVE  Tables' /\ PousseeOuverte' /\ Connaissances'
  <1> USE DEF IInv
  <1>1. /\ UNCHANGED <<compte, objets, auteur, curseur, vu, incVue, page>>
        /\ auteur # Rien
    BY DEF PousserElement, serveur, appareils
  <1>2. Tables'
    BY <1>1 DEF Tables, Numerotes, Ordonnes
  <1>3. Connaissances'
    BY <1>1 DEF Connaissances
  <1>4. PousseeOuverte'
    <2>1. PICK o \in Objets, base \in 0 .. SeqMax, c \in Clairs,
               e \in {compte.epoque, compte.epoque - 1} \ {0} :
            LET b == [epoque |-> e, clair |-> c] IN
            \/ ElementEcarte(b)
            \/ ElementEnConflit(o, base, b)
            \/ ElementDiffere(o, base, b)
            \/ ElementHorsQuota(o, base, b)
            \/ ElementStocke(o, base, b)
      BY DEF PousserElement
    <2> DEFINE b == [epoque |-> e, clair |-> c]
    <2>2. CASE UNCHANGED <<seqTx, objetsTx, appris>>
      BY <2>2, <1>1 DEF PousseeOuverte, Numerotes, Ordonnes
    <2>3. CASE ElementEnConflit(o, base, b)
      <3>1. /\ UNCHANGED <<seqTx, objetsTx>>
            /\ appris' = [appris EXCEPT ![o] = objetsTx[o].rev]
        BY <2>3 DEF ElementEnConflit
      <3>2. appris \in [Objets -> Nat]
        BY DEF TypeOK
      <3>3. QED
        BY <3>1, <3>2, <1>1 DEF PousseeOuverte, Numerotes, Ordonnes
    <2>4. CASE ElementStocke(o, base, b)
      <3> DEFINE l == LigneStockee(objetsTx[o], b, seqTx + 1)
      <3>1. /\ b.epoque = compte.epoque /\ b \in Blobs
            /\ seqTx' = seqTx + 1
            /\ objetsTx' = [objetsTx EXCEPT ![o] = l]
            /\ appris' = [appris EXCEPT ![o] = objetsTx[o].rev + 1]
        <4>1. compte.epoque \in Nat \ {0}
          BY DEF TypeOK, Comptes
        <4>2. b.epoque = compte.epoque
          BY <2>4 DEF ElementStocke, Examinable
        <4>3. b \in Blobs
          BY <4>1, <4>2 DEF Blobs
        <4>4. QED
          BY <2>4, <4>2, <4>3 DEF ElementStocke
      <3>2. /\ objetsTx \in [Objets -> Lignes] /\ seqTx \in Nat
            /\ appris \in [Objets -> Nat]
            /\ compte.epoque \in Nat /\ compte.seq \in Nat
            /\ curseur[auteur] \in Nat /\ curseur[auteur] <= compte.seq
            /\ seqTx >= compte.seq
        BY <1>1 DEF TypeOK, Comptes, Connaissances, PousseeOuverte
      <3>3. /\ l \in Lignes
            /\ l.rev = objetsTx[o].rev + 1 /\ l.seq = seqTx + 1
            /\ l.blob = b
        BY <3>1, <3>2 DEF LigneStockee, Lignes, TypeOK
      <3> HIDE DEF l, b
      <3>4. /\ Numerotes(objetsTx, seqTx)
            /\ Ordonnes(objetsTx, compte.epoque)
        BY <1>1 DEF PousseeOuverte
      <3>5. /\ Numerotes([objetsTx EXCEPT ![o] = l], seqTx + 1)
            /\ Ordonnes([objetsTx EXCEPT ![o] = l], compte.epoque)
        BY <3>1, <3>2, <3>3, <3>4, StockerGardeLesTables
      <3>6. /\ Numerotes(objetsTx, seqTx)'
            /\ Ordonnes(objetsTx, compte.epoque)'
        BY <3>1, <3>5, <1>1 DEF Numerotes, Ordonnes
      <3>7. objetsTx'[o].seq > compte.seq
        BY <3>1, <3>2, <3>3
      <3>8. \A p \in Objets \ {o} : /\ objetsTx'[p] = objetsTx[p]
                                    /\ appris'[p] = appris[p]
        BY <3>1, <3>2
      <3>9. seqTx' >= compte'.seq
        BY <3>1, <3>2, <1>1
      <3>10. \A p \in Objets :
               \/ objetsTx'[p].seq > compte.seq
               \/ /\ objetsTx'[p].seq = objets[p].seq
                  /\ objetsTx'[p].rev = objets[p].rev
        BY <3>7, <3>8, <1>1 DEF PousseeOuverte
      <3>11. \A p \in Objets : objetsTx'[p].seq <= curseur[auteur] =>
               appris'[p] = objetsTx'[p].rev
        <4>1. ~(objetsTx'[o].seq <= curseur[auteur])
          BY <3>1, <3>2, <3>3
        <4>2. QED BY <4>1, <3>8, <1>1 DEF PousseeOuverte
      <3>12. QED
        BY <3>6, <3>9, <3>10, <3>11, <1>1 DEF PousseeOuverte
    <2>5. QED
      BY <2>1, <2>2, <2>3, <2>4
      DEF ElementEcarte, ElementDiffere, ElementHorsQuota
  <1>5. QED BY <1>2, <1>3, <1>4

\* A commit only changes rows whose seq no cursor and no page has reached.
LEMMA ValiderIInv ==
  ASSUME IInv, PousserValider
  PROVE  Tables' /\ PousseeOuverte' /\ Connaissances'
  <1> USE DEF IInv
  <1>1. /\ auteur \in Appareils /\ auteur # Rien
        /\ compte' = [compte EXCEPT !.seq = seqTx]
        /\ objets' = objetsTx
        /\ auteur' = Rien
        /\ vu' = [vu EXCEPT ![auteur] = appris] \/ vu' = vu
        /\ UNCHANGED <<curseur, incVue, page>>
    BY DEF PousserValider, Fermer, TypeOK
  <1>2. /\ compte'.seq = seqTx /\ compte'.epoque = compte.epoque
        /\ compte'.incarnation = compte.incarnation
        /\ seqTx \in Nat /\ compte.seq \in Nat /\ seqTx >= compte.seq
    BY <1>1 DEF TypeOK, Comptes, PousseeOuverte
  <1>3. Tables'
    BY <1>1, <1>2 DEF Tables, PousseeOuverte, Numerotes, Ordonnes
  <1>4. PousseeOuverte'
    BY <1>1 DEF PousseeOuverte
  <1>5. Connaissances'
    <2> SUFFICES ASSUME NEW a \in Appareils
                 PROVE  /\ curseur[a] <= seqTx
                        /\ incVue[a] <= compte.incarnation
                        /\ page[a] # Rien => page[a].jusqua <= seqTx
                        /\ incVue[a] = compte.incarnation =>
                             \A o \in Objets :
                               /\ objetsTx[o].seq <= curseur[a] =>
                                    vu'[a][o] = objetsTx[o].rev
                               /\ page[a] # Rien
                                  /\ objetsTx[o].seq <= page[a].jusqua =>
                                    IF o \in page[a].rendus
                                    THEN page[a].revs[o] = objetsTx[o].rev
                                    ELSE vu'[a][o] = objetsTx[o].rev
      BY <1>1, <1>2 DEF Connaissances
    <2>1. /\ curseur[a] \in Nat /\ curseur[a] <= compte.seq
          /\ incVue[a] <= compte.incarnation
          /\ page[a] # Rien =>
               page[a].jusqua \in Nat /\ page[a].jusqua <= compte.seq
      BY DEF Connaissances, TypeOK, ReponsesPage
    <2>2. \A o \in Objets : objetsTx[o].seq \in Nat
      BY DEF TypeOK, Lignes
    <2>3. \A o \in Objets : objetsTx[o].seq <= compte.seq =>
            objetsTx[o].seq = objets[o].seq /\ objetsTx[o].rev = objets[o].rev
      BY <1>1, <1>2, <2>2 DEF PousseeOuverte
    <2>4. CASE a = auteur
      <3>1. page[a] = Rien
        BY <2>4, <1>1 DEF PousseeOuverte
      <3>2. \A o \in Objets :
              objetsTx[o].seq <= curseur[a] => appris[o] = objetsTx[o].rev
        BY <2>4, <1>1 DEF PousseeOuverte
      <3>3. vu'[a] = appris \/ vu'[a] = vu[a]
        BY <1>1, <2>4 DEF TypeOK
      <3>4. ASSUME incVue[a] = compte.incarnation, NEW o \in Objets,
                   objetsTx[o].seq <= curseur[a]
            PROVE  vu'[a][o] = objetsTx[o].rev
        <4>1. CASE vu'[a] = appris
          BY <4>1, <3>2, <3>4
        <4>2. CASE vu'[a] = vu[a]
          <5>1. objetsTx[o].seq <= compte.seq
            BY <2>1, <2>2, <3>4, <1>2
          <5>2. QED
            BY <4>2, <5>1, <2>3, <3>4 DEF Connaissances
        <4>3. QED BY <4>1, <4>2, <3>3
      <3>5. QED BY <3>1, <3>4, <2>1, <1>2
    <2>5. CASE a # auteur
      <3>1. vu'[a] = vu[a]
        BY <1>1, <2>5 DEF TypeOK
      <3>2. ASSUME incVue[a] = compte.incarnation, NEW o \in Objets,
                   objetsTx[o].seq <= curseur[a]
            PROVE  vu'[a][o] = objetsTx[o].rev
        <4>1. objetsTx[o].seq <= compte.seq
          BY <2>1, <2>2, <3>2, <1>2
        <4>2. QED BY <3>1, <4>1, <2>3, <3>2 DEF Connaissances
      <3>3. ASSUME incVue[a] = compte.incarnation, NEW o \in Objets,
                   page[a] # Rien, objetsTx[o].seq <= page[a].jusqua
            PROVE  IF o \in page[a].rendus
                   THEN page[a].revs[o] = objetsTx[o].rev
                   ELSE vu'[a][o] = objetsTx[o].rev
        <4>1. objetsTx[o].seq <= compte.seq
          BY <2>1, <2>2, <3>3, <1>2
        <4>2. QED BY <3>1, <4>1, <2>3, <3>3 DEF Connaissances
      <3>4. QED BY <3>2, <3>3, <2>1, <1>2
    <2>6. QED BY <2>4, <2>5
  <1>6. QED BY <1>3, <1>4, <1>5

\* A page holds every candidate up to the cursor it gives.
LEMMA ChangesIInv ==
  ASSUME IInv, NEW a \in Appareils, SyncChanges(a)
  PROVE  Tables' /\ PousseeOuverte' /\ Connaissances'
  <1> USE DEF IInv
  <1>1. /\ UNCHANGED <<compte, objets, auteur, curseur, vu, incVue>>
        /\ auteur = Rien /\ page[a] = Rien
    BY DEF SyncChanges, serveur, transaction
  <1>2. Tables' /\ PousseeOuverte'
    BY <1>1 DEF Tables, PousseeOuverte, Numerotes, Ordonnes
  <1>3. PICK d \in Derniers(curseur[a]) :
          page' = [page EXCEPT ![a] =
                     Reponse(Rendus(curseur[a], d), Jusqua(curseur[a], d))]
    BY DEF SyncChanges
  <1> DEFINE R == Rendus(curseur[a], d)
             J == Jusqua(curseur[a], d)
  <1>4. /\ compte.seq \in Nat /\ curseur[a] \in Nat
        /\ \A o \in Objets : objets[o].seq \in Nat /\ objets[o].seq <= compte.seq
    BY DEF TypeOK, Comptes, Lignes, Tables, Numerotes
  <1>5. J \in Nat /\ J <= compte.seq
    BY <1>4 DEF Jusqua, Derniers, Rendus, Candidats
  <1>6. \A o \in Objets :
          objets[o].seq <= J => o \in R \/ objets[o].seq <= curseur[a]
    <2> SUFFICES ASSUME NEW o \in Objets, objets[o].seq <= J,
                        ~(objets[o].seq <= curseur[a])
                 PROVE  o \in R
      OBVIOUS
    <2>1. objets[o].rev # 0
      BY <1>4 DEF Tables, Numerotes
    <2>2. o \in Candidats(curseur[a])
      BY <2>1, <1>4 DEF Candidats
    <2>3. CASE R = Candidats(curseur[a])
      BY <2>2, <2>3
    <2>4. CASE R # Candidats(curseur[a])
      <3>1. J = objets[d].seq
        BY <2>4 DEF Jusqua
      <3>2. QED BY <2>2, <3>1 DEF Rendus
    <2>5. QED BY <2>3, <2>4
  <1>7. /\ page'[a] = Reponse(R, J)
        /\ page'[a].jusqua = J /\ page'[a].rendus = R
        /\ \A o \in R : page'[a].revs[o] = objets[o].rev
        /\ \A x \in Appareils \ {a} : page'[x] = page[x]
    <2>1. page \in [Appareils -> ReponsesPage \cup {Rien}]
      BY DEF TypeOK
    <2>2. page'[a] = Reponse(R, J)
      BY <1>3, <2>1
    <2>3. R \subseteq Objets
      BY DEF Rendus, Candidats
    <2>4. QED
      BY <1>3, <2>1, <2>2, <2>3 DEF Reponse
  <1> HIDE DEF R, J
  <1>8. Connaissances'
    <2> SUFFICES ASSUME NEW x \in Appareils
                 PROVE  /\ curseur[x] <= compte.seq
                        /\ incVue[x] <= compte.incarnation
                        /\ page'[x] # Rien => page'[x].jusqua <= compte.seq
                        /\ incVue[x] = compte.incarnation =>
                             \A o \in Objets :
                               /\ objets[o].seq <= curseur[x] =>
                                    vu[x][o] = objets[o].rev
                               /\ page'[x] # Rien
                                  /\ objets[o].seq <= page'[x].jusqua =>
                                    IF o \in page'[x].rendus
                                    THEN page'[x].revs[o] = objets[o].rev
                                    ELSE vu[x][o] = objets[o].rev
      BY <1>1 DEF Connaissances
    <2>1. CASE x = a
      BY <2>1, <1>5, <1>6, <1>7 DEF Connaissances
    <2>2. CASE x # a
      BY <2>2, <1>7 DEF Connaissances
    <2>3. QED BY <2>1, <2>2
  <1>9. QED BY <1>2, <1>8

\* Handling a page: what it returned is noted, the rest was already known.
LEMMA RecevoirIInv ==
  ASSUME IInv, NEW a \in Appareils, RecevoirPage(a)
  PROVE  Tables' /\ PousseeOuverte' /\ Connaissances'
  <1> USE DEF IInv
  <1>1. /\ UNCHANGED <<compte, objets, auteur, seqTx, objetsTx, appris, incVue>>
        /\ page[a] # Rien
    BY DEF RecevoirPage, serveur, transaction
  <1>2. Tables'
    BY <1>1 DEF Tables, Numerotes, Ordonnes
  <1>3. /\ vu'[a] = [o \in Objets |-> IF o \in page[a].rendus
                                      THEN page[a].revs[o] ELSE vu[a][o]]
        /\ curseur'[a] = page[a].jusqua
        /\ page'[a] = Rien
        /\ \A x \in Appareils \ {a} :
             vu'[x] = vu[x] /\ curseur'[x] = curseur[x] /\ page'[x] = page[x]
    BY DEF RecevoirPage, TypeOK
  <1>4. PousseeOuverte'
    <2> SUFFICES ASSUME auteur # Rien PROVE PousseeOuverte'
      BY <1>1 DEF PousseeOuverte
    <2>1. auteur \in Appareils \ {a}
      BY <1>1 DEF TypeOK, PousseeOuverte
    <2>2. QED
      BY <1>1, <1>3, <2>1 DEF PousseeOuverte, Numerotes, Ordonnes
  <1>5. Connaissances'
    <2> SUFFICES ASSUME NEW x \in Appareils
                 PROVE  /\ curseur'[x] <= compte.seq
                        /\ incVue[x] <= compte.incarnation
                        /\ page'[x] # Rien => page'[x].jusqua <= compte.seq
                        /\ incVue[x] = compte.incarnation =>
                             \A o \in Objets :
                               /\ objets[o].seq <= curseur'[x] =>
                                    vu'[x][o] = objets[o].rev
                               /\ page'[x] # Rien
                                  /\ objets[o].seq <= page'[x].jusqua =>
                                    IF o \in page'[x].rendus
                                    THEN page'[x].revs[o] = objets[o].rev
                                    ELSE vu'[x][o] = objets[o].rev
      BY <1>1 DEF Connaissances
    <2>1. CASE x = a
      BY <2>1, <1>1, <1>3 DEF Connaissances
    <2>2. CASE x # a
      BY <2>2, <1>3 DEF Connaissances
    <2>3. QED BY <2>1, <2>2
  <1>6. QED BY <1>2, <1>4, <1>5

\* The device alone changes: it loses a page, or starts again from zero.
LEMMA PerdreIInv ==
  ASSUME IInv, NEW a \in Appareils, PerdrePage(a)
  PROVE  Tables' /\ PousseeOuverte' /\ Connaissances'
  <1> USE DEF IInv
  <1>1. /\ UNCHANGED <<compte, objets, auteur, seqTx, objetsTx, appris,
                       curseur, vu, incVue>>
        /\ page' = [page EXCEPT ![a] = Rien]
    BY DEF PerdrePage, serveur, transaction
  <1>2. \A x \in Appareils : page'[x] = page[x] \/ page'[x] = Rien
    BY <1>1 DEF TypeOK
  <1>3. Tables'
    BY <1>1 DEF Tables, Numerotes, Ordonnes
  <1>4. PousseeOuverte'
    BY <1>1, <1>2 DEF PousseeOuverte, Numerotes, Ordonnes, TypeOK
  <1>5. Connaissances'
    BY <1>1, <1>2 DEF Connaissances
  <1>6. QED BY <1>3, <1>4, <1>5

LEMMA RejoindreIInv ==
  ASSUME IInv, NEW a \in Appareils, Rejoindre(a)
  PROVE  Tables' /\ PousseeOuverte' /\ Connaissances'
  <1> USE DEF IInv
  <1>1. /\ UNCHANGED <<compte, objets, auteur, page>>
        /\ auteur = Rien /\ page[a] = Rien
    BY DEF Rejoindre, serveur, transaction
  <1>2. Tables' /\ PousseeOuverte'
    BY <1>1 DEF Tables, PousseeOuverte, Numerotes, Ordonnes
  <1>3. /\ curseur'[a] = 0 /\ vu'[a] = [o \in Objets |-> 0]
        /\ incVue'[a] = compte.incarnation
        /\ \A x \in Appareils \ {a} :
             vu'[x] = vu[x] /\ curseur'[x] = curseur[x] /\ incVue'[x] = incVue[x]
    BY DEF Rejoindre, TypeOK
  <1>4. /\ compte.seq \in Nat /\ compte.incarnation \in Nat
        /\ \A o \in Objets : objets[o].seq <= 0 => objets[o].rev = 0
    BY DEF TypeOK, Comptes, Lignes, Tables, Numerotes
  <1>5. Connaissances'
    <2> SUFFICES ASSUME NEW x \in Appareils
                 PROVE  /\ curseur'[x] <= compte.seq
                        /\ incVue'[x] <= compte.incarnation
                        /\ page[x] # Rien => page[x].jusqua <= compte.seq
                        /\ incVue'[x] = compte.incarnation =>
                             \A o \in Objets :
                               /\ objets[o].seq <= curseur'[x] =>
                                    vu'[x][o] = objets[o].rev
                               /\ page[x] # Rien
                                  /\ objets[o].seq <= page[x].jusqua =>
                                    IF o \in page[x].rendus
                                    THEN page[x].revs[o] = objets[o].rev
                                    ELSE vu'[x][o] = objets[o].rev
      BY <1>1 DEF Connaissances
    <2>1. CASE x = a
      BY <2>1, <1>1, <1>3, <1>4
    <2>2. CASE x # a
      BY <2>2, <1>3 DEF Connaissances
    <2>3. QED BY <2>1, <2>2
  <1>6. QED BY <1>2, <1>5

\* The short transactions that leave what devices know of objects: a larger
\* seq, a later epoch, a purge.
LEMMA CourteIInv ==
  ASSUME IInv, auteur = Rien, auteur' = Rien, TypeOK',
         compte'.seq >= compte.seq, compte'.epoque >= compte.epoque,
         compte'.incarnation = compte.incarnation,
         \A o \in Objets : /\ objets'[o].rev = objets[o].rev
                           /\ objets'[o].seq = objets[o].seq
                           /\ objets'[o].blob = objets[o].blob,
         UNCHANGED appareils
  PROVE  Tables' /\ PousseeOuverte' /\ Connaissances'
  <1> USE DEF IInv
  <1>1. /\ compte.seq \in Nat /\ compte'.seq \in Nat
        /\ compte.epoque \in Nat /\ compte'.epoque \in Nat
    BY DEF TypeOK, Comptes
  <1>2. Numerotes(objets, compte.seq)'
    BY <1>1 DEF Tables, Numerotes
  <1>3. Ordonnes(objets, compte.epoque)'
    <2> SUFFICES ASSUME NEW o \in Objets, objets[o].rev # 0
                 PROVE  /\ objets[o].blob.epoque <= compte'.epoque
                        /\ \A p \in Objets : objets[o].seq < objets[p].seq =>
                             objets[o].blob.epoque <= objets[p].blob.epoque
      BY DEF Ordonnes
    <2>1. objets[o].blob.epoque \in Nat
      BY DEF Tables, Numerotes, Blobs
    <2>2. QED
      BY <1>1, <2>1 DEF Tables, Ordonnes
  <1>4. PousseeOuverte'
    BY DEF PousseeOuverte
  <1>5. Connaissances'
    <2>1. \A a \in Appareils :
            /\ curseur[a] \in Nat
            /\ page[a] # Rien => page[a].jusqua \in Nat
      BY DEF TypeOK, ReponsesPage
    <2>2. UNCHANGED <<curseur, vu, incVue, page>>
      BY DEF appareils
    <2>3. QED
      BY <1>1, <2>1, <2>2 DEF Connaissances
  <1>6. QED BY <1>2, <1>3, <1>4, <1>5 DEF Tables

\* A reset puts every device under an older incarnation.
LEMMA ResetIInv ==
  ASSUME IInv, ResetComplete
  PROVE  Tables' /\ PousseeOuverte' /\ Connaissances'
  <1> USE DEF IInv
  <1>1. /\ objets' = [o \in Objets |-> Absent]
        /\ compte'.seq = compte.seq
        /\ compte'.incarnation = compte.incarnation + 1
        /\ auteur' = Rien
        /\ UNCHANGED <<curseur, vu, incVue, page>>
    BY DEF ResetComplete, transaction, appareils
  <1>2. Tables'
    BY <1>1 DEF Tables, Numerotes, Ordonnes, Absent
  <1>3. PousseeOuverte'
    BY <1>1 DEF PousseeOuverte
  <1>4. \A a \in Appareils :
          /\ incVue[a] \in Nat /\ incVue[a] <= compte.incarnation
          /\ compte.incarnation \in Nat
    BY DEF TypeOK, Comptes, Connaissances
  <1>5. Connaissances'
    BY <1>1, <1>4 DEF Connaissances
  <1>6. QED BY <1>2, <1>3, <1>5

LEMMA NextIInv == IInv /\ [Next]_vars => IInv'
  <1> SUFFICES ASSUME IInv, [Next]_vars
               PROVE  Tables' /\ PousseeOuverte' /\ Connaissances'
    BY NextTypeOK DEF IInv
  <1>0. TypeOK /\ TypeOK' /\ compte.seq \in Nat /\ compte.epoque \in Nat
    BY NextTypeOK DEF IInv, TypeOK, Comptes
  <1>1. CASE PousserElement
    BY <1>1, ElementIInv
  <1>2. CASE PousserValider
    BY <1>2, ValiderIInv
  <1>3. CASE PousserAnnuler
    BY <1>3
    DEF PousserAnnuler, Fermer, serveur, appareils, IInv, Tables, Numerotes,
        Ordonnes, PousseeOuverte, Connaissances
  <1>4. ASSUME NEW a \in Appareils,
               \/ PousserDebut(a) \/ SyncChanges(a) \/ RecevoirPage(a)
               \/ PerdrePage(a) \/ Rejoindre(a)
        PROVE  Tables' /\ PousseeOuverte' /\ Connaissances'
    BY <1>4, DebutIInv, ChangesIInv, RecevoirIInv, PerdreIInv, RejoindreIInv
  <1>5. ASSUME NEW P \in SUBSET Pieces, PiecesMissing(P)
        PROVE  Tables' /\ PousseeOuverte' /\ Connaissances'
    <2>1. /\ auteur = Rien /\ auteur' = Rien
          /\ compte'.seq = compte.seq + 1 /\ compte'.epoque = compte.epoque
          /\ compte'.incarnation = compte.incarnation
          /\ objets' = objets /\ UNCHANGED appareils
      BY <1>5, <1>0 DEF PiecesMissing, transaction, TypeOK, Comptes
    <2>2. QED BY <2>1, <1>0, CourteIInv
  <1>6. ASSUME NEW p \in Pieces, PiecesPut(p)
        PROVE  Tables' /\ PousseeOuverte' /\ Connaissances'
    <2>1. /\ auteur = Rien /\ auteur' = Rien
          /\ compte'.seq = compte.seq + 1 /\ compte'.epoque = compte.epoque
          /\ compte'.incarnation = compte.incarnation
          /\ objets' = ObjetsPurges /\ UNCHANGED appareils
      BY <1>6, <1>0 DEF PiecesPut, transaction, TypeOK, Comptes
    <2>2. QED BY <2>1, <1>0, PurgeGardeLesCourantes, CourteIInv
  <1>7. ASSUME NEW p \in Pieces, NEW asOf \in 0 .. SeqMax,
               PiecesDelete(p, asOf)
        PROVE  Tables' /\ PousseeOuverte' /\ Connaissances'
    <2>1. /\ auteur = Rien /\ auteur' = Rien
          /\ UNCHANGED <<compte, objets, appareils>>
      BY <1>7 DEF PiecesDelete, transaction
    <2>2. QED BY <2>1, <1>0, CourteIInv
  <1>8. CASE VaultCommit
    <2>1. /\ auteur = Rien /\ auteur' = Rien
          /\ compte'.seq = compte.seq /\ compte'.epoque = compte.epoque + 1
          /\ compte'.incarnation = compte.incarnation
          /\ objets' = objets /\ UNCHANGED appareils
      BY <1>8, <1>0 DEF VaultCommit, transaction, TypeOK, Comptes
    <2>2. QED BY <2>1, <1>0, CourteIInv
  <1>9. CASE ResetComplete
    BY <1>9, ResetIInv
  <1>10. CASE JourSuivant
    <2>1. /\ auteur = Rien /\ auteur' = Rien
          /\ UNCHANGED <<compte, objets, appareils>>
      BY <1>10 DEF JourSuivant, transaction, serveur
    <2>2. QED BY <2>1, <1>0, CourteIInv
  <1>11. CASE UNCHANGED vars
    BY <1>11
    DEF vars, IInv, Tables, Numerotes, Ordonnes, PousseeOuverte, Connaissances
  <1>12. QED
    BY <1>1, <1>2, <1>3, <1>4, <1>5, <1>6, <1>7, <1>8, <1>9, <1>10, <1>11
    DEF Next

THEOREM Inductive == Spec => []IInv
  BY InitIInv, NextIInv, PTL DEF Spec

-----------------------------------------------------------------------------
(* The properties                                                          *)

\* Every object has a seq of its own, at most the account's (sync_changes).
THEOREM SeqsAreUnique == Spec => []SeqUniques
  <1>1. IInv => SeqUniques
    BY DEF IInv, Tables, Numerotes, SeqUniques
  <1>2. QED BY <1>1, Inductive, PTL

\* Whatever is pushed, purged, rotated or reset between two pages, a device
\* knows the current revision of every object written up to its cursor.
THEOREM CursorIsComplete == Spec => []CurseurComplet
  <1>1. IInv => CurseurComplet
    BY DEF IInv, Connaissances, CurseurComplet
  <1>2. QED BY <1>1, Inductive, PTL

\* Objects written later are sealed under the same epoch or a later one.
THEOREM EpochsFollowSeq == Spec => []EpoquesOrdonnees
  <1>1. IInv => EpoquesOrdonnees
    BY DEF IInv, Tables, Ordonnes, EpoquesOrdonnees
  <1>2. QED BY <1>1, Inductive, PTL

-----------------------------------------------------------------------------
(* Images: an orphan was marked no earlier than its last claim, and an open *)
(* push will erase exactly the expired orphans.                             *)

IPieces ==
  /\ TypeOK
  /\ \A p \in Pieces : pieces[p].presente =>
       /\ pieces[p].jourReclame <= jour
       /\ pieces[p].orpheline # Rien =>
            pieces[p].jourReclame <= pieces[p].orpheline
  /\ auteur # Rien => piecesTx = PiecesPurgees

LEMMA InitIPieces == Init => IPieces
  BY InitTypeOK DEF Init, IPieces, SansPiece

LEMMA NextIPieces == IPieces /\ [Next]_vars => IPieces'
  <1> SUFFICES ASSUME IPieces, [Next]_vars
               PROVE  IPieces'
    OBVIOUS
  <1>0. TypeOK' /\ TypeOK
    BY NextTypeOK DEF IPieces
  <1> DEFINE Ordre(t, j) ==
               \A p \in Pieces : t[p].presente =>
                 /\ t[p].jourReclame <= j
                 /\ t[p].orpheline # Rien =>
                      t[p].jourReclame <= t[p].orpheline
  <1>1. jour \in Nat /\ Ordre(pieces, jour)
    BY DEF IPieces, TypeOK
  <1>2. Ordre(PiecesPurgees, jour)
    BY <1>1 DEF PiecesPurgees, SansPiece
  <1>3. ASSUME UNCHANGED <<pieces, jour>>,
               auteur' = Rien \/ UNCHANGED <<auteur, piecesTx>>
        PROVE  IPieces'
    BY <1>0, <1>1, <1>3 DEF IPieces, PiecesPurgees, OrphelineEchue, Echu
  <1>4. ASSUME NEW a \in Appareils, PousserDebut(a)
        PROVE  IPieces'
    <2>1. /\ UNCHANGED <<pieces, jour>>
          /\ piecesTx' = PiecesPurgees
      BY <1>4 DEF PousserDebut, serveur
    <2>2. PiecesPurgees' = PiecesPurgees
      BY <2>1 DEF PiecesPurgees, OrphelineEchue, Echu
    <2>3. QED BY <1>0, <1>1, <2>1, <2>2 DEF IPieces
  <1>5. CASE PousserElement
    BY <1>3, <1>5 DEF PousserElement, serveur
  <1>6. CASE PousserValider
    <2>1. auteur' = Rien /\ pieces' = PiecesPurgees /\ jour' = jour
      BY <1>6 DEF PousserValider, Fermer, IPieces
    <2>2. QED BY <1>0, <1>2, <2>1 DEF IPieces
  <1>7. CASE PousserAnnuler
    BY <1>3, <1>7 DEF PousserAnnuler, Fermer, serveur
  <1>8. ASSUME NEW a \in Appareils,
               \/ SyncChanges(a) \/ RecevoirPage(a)
               \/ PerdrePage(a) \/ Rejoindre(a)
        PROVE  IPieces'
    BY <1>3, <1>8
    DEF SyncChanges, RecevoirPage, PerdrePage, Rejoindre, serveur, transaction
  <1>9. ASSUME NEW P \in SUBSET Pieces, PiecesMissing(P)
        PROVE  IPieces'
    <2>1. Ordre(pieces', jour')
      BY <1>1, <1>9 DEF PiecesMissing
    <2>2. auteur' = Rien
      BY <1>9 DEF PiecesMissing, transaction
    <2>3. QED BY <1>0, <2>1, <2>2 DEF IPieces
  <1>10. ASSUME NEW p \in Pieces, PiecesPut(p)
         PROVE  IPieces'
    <2>1. pieces' = [PiecesPurgees EXCEPT ![p] =
                       [presente |-> TRUE, reclame |-> compte.seq + 1,
                        orpheline |-> Rien, jourReclame |-> jour]]
      BY <1>10 DEF PiecesPut
    <2>2. jour' = jour /\ auteur' = Rien
      BY <1>10 DEF PiecesPut, transaction
    <2>3. PiecesPurgees \in [Pieces -> LignesPiece]
      BY <1>0, PurgeDesPieces
    <2>4. Ordre(pieces', jour')
      BY <1>1, <1>2, <2>1, <2>2, <2>3
    <2>5. QED BY <1>0, <2>2, <2>4 DEF IPieces
  <1>11. ASSUME NEW p \in Pieces, NEW asOf \in 0 .. SeqMax,
                PiecesDelete(p, asOf)
         PROVE  IPieces'
    <2>1. /\ pieces' = [pieces EXCEPT ![p].orpheline = jour]
          /\ jour' = jour /\ auteur' = Rien
      BY <1>11 DEF PiecesDelete, transaction
    <2>2. pieces \in [Pieces -> LignesPiece]
      BY <1>0 DEF TypeOK
    <2>3. /\ pieces'[p].presente = pieces[p].presente
          /\ pieces'[p].jourReclame = pieces[p].jourReclame
          /\ pieces'[p].orpheline = jour
          /\ \A q \in Pieces \ {p} : pieces'[q] = pieces[q]
      BY <2>1, <2>2 DEF LignesPiece
    <2>4. Ordre(pieces', jour')
      BY <1>1, <2>1, <2>3
    <2>5. QED BY <1>0, <2>1, <2>4 DEF IPieces
  <1>12. CASE VaultCommit
    BY <1>3, <1>12 DEF VaultCommit, transaction
  <1>13. CASE ResetComplete
    <2>1. /\ pieces' = [p \in Pieces |-> SansPiece] /\ auteur' = Rien
      BY <1>13 DEF ResetComplete, transaction
    <2>2. QED BY <1>0, <2>1 DEF IPieces, SansPiece
  <1>14. CASE JourSuivant
    <2>1. pieces' = pieces /\ jour' = jour + 1 /\ auteur' = Rien
      BY <1>14 DEF JourSuivant, transaction, serveur
    <2>2. \A p \in Pieces : pieces[p].jourReclame \in Nat
      BY <1>0 DEF TypeOK, LignesPiece
    <2>3. QED BY <1>0, <1>1, <2>1, <2>2 DEF IPieces
  <1>15. CASE UNCHANGED vars
    BY <1>3, <1>15 DEF vars
  <1>16. QED
    BY <1>4, <1>5, <1>6, <1>7, <1>8, <1>9, <1>10, <1>11, <1>12, <1>13, <1>14,
       <1>15
    DEF Next

\* An image claimed in the last Retenue days is never erased (pieces_missing,
\* pieces_put, pieces_delete and purger_retenues together).
THEOREM ClaimedImagesStay == Spec => PieceReclameeGardee
  <1> DEFINE Gardee ==
        \A p \in Pieces :
          /\ pieces[p].presente /\ ~pieces'[p].presente
          /\ compte'.incarnation = compte.incarnation
          => jour - pieces[p].jourReclame > Retenue
  <1>1. IPieces /\ [Next]_vars => [Gardee]_vars
    <2> SUFFICES ASSUME IPieces, Next, NEW p \in Pieces,
                        pieces[p].presente, ~pieces'[p].presente,
                        compte'.incarnation = compte.incarnation
                 PROVE  jour - pieces[p].jourReclame > Retenue
      OBVIOUS
    <2>1. /\ pieces \in [Pieces -> LignesPiece] /\ jour \in Nat
          /\ Retenue \in Nat /\ compte \in Comptes
      BY LimitsAreNaturals DEF IPieces, TypeOK
    <2>2. ASSUME OrphelineEchue(pieces[p])
          PROVE  jour - pieces[p].jourReclame > Retenue
      <3>1. /\ pieces[p].orpheline \in Nat /\ pieces[p].jourReclame \in Nat
            /\ pieces[p].jourReclame <= pieces[p].orpheline
            /\ pieces[p].orpheline < jour - Retenue
        BY <2>1, <2>2 DEF OrphelineEchue, Echu, LignesPiece, IPieces
      <3>2. QED BY <2>1, <3>1
    <2>3. ASSUME pieces' = PiecesPurgees
          PROVE  jour - pieces[p].jourReclame > Retenue
      BY <2>2, <2>3 DEF PiecesPurgees
    <2>4. CASE PousserValider
      BY <2>3, <2>4 DEF PousserValider, IPieces
    <2>5. ASSUME NEW q \in Pieces, PiecesPut(q)
          PROVE  jour - pieces[p].jourReclame > Retenue
      <3>1. pieces' = [PiecesPurgees EXCEPT ![q] =
                         [presente |-> TRUE, reclame |-> compte.seq + 1,
                          orpheline |-> Rien, jourReclame |-> jour]]
        BY <2>5 DEF PiecesPut
      <3>2. PiecesPurgees \in [Pieces -> LignesPiece]
        BY PurgeDesPieces DEF IPieces
      <3>3. pieces'[p] = PiecesPurgees[p]
        BY <3>1, <3>2
      <3>4. QED BY <2>2, <3>3 DEF PiecesPurgees
    <2>6. ASSUME NEW P \in SUBSET Pieces, PiecesMissing(P)
          PROVE  FALSE
      BY <2>6 DEF PiecesMissing
    <2>7. ASSUME NEW q \in Pieces, NEW asOf \in 0 .. SeqMax,
                 PiecesDelete(q, asOf)
          PROVE  FALSE
      <3>1. pieces'[p].presente = pieces[p].presente
        BY <2>1, <2>7 DEF PiecesDelete, LignesPiece
      <3>2. QED BY <3>1
    <2>8. CASE ResetComplete
      <3>1. compte'.incarnation = compte.incarnation + 1
        BY <2>8 DEF ResetComplete
      <3>2. QED BY <2>1, <3>1 DEF Comptes
    <2>9. CASE UNCHANGED pieces
      BY <2>9
    <2>10. ASSUME NEW a \in Appareils,
                  \/ PousserDebut(a) \/ SyncChanges(a) \/ RecevoirPage(a)
                  \/ PerdrePage(a) \/ Rejoindre(a)
           PROVE  UNCHANGED pieces
      BY <2>10
      DEF PousserDebut, SyncChanges, RecevoirPage, PerdrePage, Rejoindre,
          serveur
    <2>11. PousserElement \/ PousserAnnuler \/ VaultCommit \/ JourSuivant
           => UNCHANGED pieces
      BY DEF PousserElement, PousserAnnuler, VaultCommit, JourSuivant, serveur
    <2>12. QED
      BY <2>4, <2>5, <2>6, <2>7, <2>8, <2>9, <2>10, <2>11 DEF Next
  <1>2. Spec => []IPieces
    BY InitIPieces, NextIPieces, PTL DEF Spec
  <1>3. QED
    BY <1>1, <1>2, PTL DEF Spec, PieceReclameeGardee

\* An open push has raised the revision of every row it wrote, and its answer
\* tells each of these; of another object it tells what is stored, or nothing.
Avancee ==
  auteur # Rien => \A o \in Objets :
    /\ objetsTx[o].seq > compte.seq => /\ objetsTx[o].rev > objets[o].rev
                                       /\ appris[o] = objetsTx[o].rev
    /\ appris[o] \in {vu[auteur][o], objetsTx[o].rev}

\* No device believes a revision its incarnation has not reached, and no page
\* moves one backwards.
Croyances ==
  \A a \in Appareils : AJour(a) =>
    /\ \A o \in Objets : vu[a][o] <= objets[o].rev
    /\ page[a] # Rien =>
         /\ curseur[a] <= page[a].jusqua
         /\ \A o \in page[a].rendus : page[a].revs[o] <= objets[o].rev

IRegistres == IInv /\ Avancee /\ Croyances

-----------------------------------------------------------------------------
(* IRegistres is inductive                                                 *)

LEMMA InitIRegistres == Init => IRegistres
  <1> SUFFICES ASSUME Init PROVE IRegistres
    OBVIOUS
  <1>1. IInv
    BY InitIInv
  <1>2. Avancee
    BY DEF Init, Avancee
  <1>3. Croyances
    BY DEF Init, Croyances, Absent
  <1>4. QED BY <1>1, <1>2, <1>3 DEF IRegistres

LEMMA DebutIRegistres ==
  ASSUME IRegistres, NEW a \in Appareils, PousserDebut(a)
  PROVE  Avancee' /\ Croyances'
  <1>1. /\ auteur' = a /\ objetsTx' = ObjetsPurges /\ appris' = vu[a]
        /\ UNCHANGED <<compte, objets, curseur, vu, incVue, page>>
    BY DEF PousserDebut, serveur, appareils
  <1>2. \A o \in Objets : /\ objetsTx'[o].seq = objets[o].seq
                          /\ objets[o].seq \in Nat /\ compte.seq \in Nat
                          /\ objets[o].seq <= compte.seq
    <2>1. TypeOK /\ Tables
      BY DEF IRegistres, IInv
    <2>2. QED
      BY <1>1, <2>1, PurgeGardeLesCourantes
      DEF TypeOK, Tables, Numerotes, Lignes, Comptes
  <1>3. Avancee'
    BY <1>1, <1>2 DEF Avancee
  <1>4. Croyances'
    BY <1>1 DEF IRegistres, Croyances, AJour
  <1>5. QED BY <1>3, <1>4

LEMMA ElementIRegistres ==
  ASSUME IRegistres, PousserElement
  PROVE  Avancee' /\ Croyances'
  <1>0. /\ auteur # Rien
        /\ UNCHANGED <<auteur, compte, objets, curseur, vu, incVue, page>>
        /\ TypeOK
    BY DEF PousserElement, serveur, appareils, IRegistres, IInv
  <1>1. Croyances'
    BY <1>0 DEF IRegistres, Croyances, AJour
  <1>2. \/ UNCHANGED <<objetsTx, appris>>
        \/ \E o \in Objets : /\ objetsTx' = objetsTx
                             /\ appris' = [appris EXCEPT ![o] = objetsTx[o].rev]
        \/ \E o \in Objets, l \in Lignes :
             /\ l.rev = objetsTx[o].rev + 1 /\ l.seq = seqTx + 1
             /\ objetsTx' = [objetsTx EXCEPT ![o] = l]
             /\ appris' = [appris EXCEPT ![o] = l.rev]
    <2>1. PICK o \in Objets, base \in 0 .. SeqMax, c \in Clairs,
               e \in {compte.epoque, compte.epoque - 1} \ {0} :
            LET b == [epoque |-> e, clair |-> c] IN
            \/ ElementEcarte(b) \/ ElementEnConflit(o, base, b)
            \/ ElementDiffere(o, base, b) \/ ElementHorsQuota(o, base, b)
            \/ ElementStocke(o, base, b)
      BY DEF PousserElement
    <2> DEFINE b == [epoque |-> e, clair |-> c]
    <2>2. CASE ElementEcarte(b) \/ ElementDiffere(o, base, b)
                 \/ ElementHorsQuota(o, base, b)
      BY <2>2 DEF ElementEcarte, ElementDiffere, ElementHorsQuota
    <2>3. CASE ElementEnConflit(o, base, b)
      BY <2>3 DEF ElementEnConflit
    <2>4. CASE ElementStocke(o, base, b)
      <3> DEFINE l == LigneStockee(objetsTx[o], b, seqTx + 1)
      <3>1. l.rev = objetsTx[o].rev + 1 /\ l.seq = seqTx + 1
        BY DEF LigneStockee
      <3>2. /\ objetsTx' = [objetsTx EXCEPT ![o] = l]
            /\ appris' = [appris EXCEPT ![o] = l.rev]
        BY <2>4, <3>1 DEF ElementStocke
      <3>3. l \in Lignes
        <4>1. b \in Blobs
          <5>1. compte.epoque \in Nat \ {0}
            BY <1>0 DEF TypeOK, Comptes
          <5>2. e \in Nat \ {0}
            BY <5>1
          <5>3. QED BY <5>2 DEF Blobs
        <4>2. objetsTx[o] \in Lignes /\ jour \in Nat /\ seqTx \in Nat
          BY <1>0 DEF TypeOK
        <4> HIDE DEF b
        <4>3. QED BY <4>1, <4>2 DEF LigneStockee, Lignes
      <3> HIDE DEF l
      <3>4. QED BY <3>1, <3>2, <3>3
    <2>5. QED BY <2>1, <2>2, <2>3, <2>4
  <1>3. /\ seqTx \in Nat /\ compte.seq \in Nat /\ seqTx >= compte.seq
        /\ \A p \in Objets :
             /\ objetsTx[p] \in Lignes /\ objets[p] \in Lignes
             /\ objetsTx[p].seq \in Nat /\ objetsTx[p].rev \in Nat
             /\ objets[p].rev \in Nat
             /\ objetsTx[p].rev >= objets[p].rev
        /\ appris \in [Objets -> Nat] /\ objetsTx \in [Objets -> Lignes]
    <2>1. PousseeOuverte /\ Avancee
      BY DEF IRegistres, IInv
    <2>2. \A p \in Objets : /\ objetsTx[p] \in Lignes /\ objets[p] \in Lignes
                            /\ objetsTx[p].seq \in Nat /\ objetsTx[p].rev \in Nat
                            /\ objets[p].rev \in Nat
      BY <1>0 DEF TypeOK, Lignes
    <2>3. seqTx \in Nat /\ compte.seq \in Nat
      BY <1>0 DEF TypeOK, Comptes
    <2>4. QED
      BY <1>0, <2>1, <2>2, <2>3 DEF PousseeOuverte, Avancee, TypeOK
  <1>4. Avancee
    BY DEF IRegistres
  <1>5. Avancee'
    <2>1. CASE UNCHANGED <<objetsTx, appris>>
      BY <2>1, <1>0, <1>4 DEF Avancee
    <2>2. ASSUME NEW o \in Objets, objetsTx' = objetsTx,
                 appris' = [appris EXCEPT ![o] = objetsTx[o].rev]
          PROVE  Avancee'
      BY <2>2, <1>0, <1>3, <1>4 DEF Avancee
    <2>3. ASSUME NEW o \in Objets, NEW l \in Lignes,
                 l.rev = objetsTx[o].rev + 1, l.seq = seqTx + 1,
                 objetsTx' = [objetsTx EXCEPT ![o] = l],
                 appris' = [appris EXCEPT ![o] = l.rev]
          PROVE  Avancee'
      <3>1. /\ objetsTx'[o] = l /\ appris'[o] = l.rev
            /\ \A p \in Objets \ {o} : /\ objetsTx'[p] = objetsTx[p]
                                       /\ appris'[p] = appris[p]
        BY <2>3, <1>3
      <3>2. l.rev > objets[o].rev
        BY <2>3, <1>3
      <3>3. QED BY <3>1, <3>2, <1>0, <1>4 DEF Avancee
    <2>4. QED BY <1>2, <2>1, <2>2, <2>3
  <1>6. QED BY <1>1, <1>5

\* The rows a push raised are above every position; the answer the author may
\* miss tells it nothing the tables do not hold.
LEMMA ValiderIRegistres ==
  ASSUME IRegistres, PousserValider
  PROVE  Avancee' /\ Croyances'
  <1>1. /\ auteur \in Appareils /\ auteur # Rien /\ auteur' = Rien
        /\ compte'.incarnation = compte.incarnation
        /\ objets' = objetsTx
        /\ vu' = [vu EXCEPT ![auteur] = appris] \/ vu' = vu
        /\ UNCHANGED <<curseur, incVue, page>>
        /\ TypeOK
    BY DEF PousserValider, Fermer, IRegistres, IInv, TypeOK, Comptes
  <1>2. Avancee'
    BY <1>1 DEF Avancee
  <1>3. \A o \in Objets : /\ objetsTx[o].rev \in Nat /\ objets[o].rev \in Nat
                          /\ objetsTx[o].rev >= objets[o].rev
                          /\ appris[o] \in {vu[auteur][o], objetsTx[o].rev}
    <2>1. PousseeOuverte /\ Avancee
      BY DEF IRegistres, IInv
    <2>2. \A o \in Objets : objetsTx[o].rev \in Nat /\ objets[o].rev \in Nat
      BY <1>1 DEF TypeOK, Lignes
    <2>3. QED BY <1>1, <2>1, <2>2 DEF PousseeOuverte, Avancee
  <1>4. ASSUME NEW a \in Appareils, AJour(a)'
        PROVE  /\ \A o \in Objets : vu'[a][o] <= objetsTx[o].rev
               /\ page[a] # Rien =>
                    /\ curseur[a] <= page[a].jusqua
                    /\ \A o \in page[a].rendus : page[a].revs[o] <= objetsTx[o].rev
    <2>1. AJour(a)
      BY <1>1, <1>4 DEF AJour
    <2>2. /\ \A o \in Objets : vu[a][o] <= objets[o].rev /\ vu[a][o] \in Nat
          /\ page[a] # Rien =>
               /\ curseur[a] <= page[a].jusqua
               /\ \A o \in page[a].rendus : /\ page[a].revs[o] <= objets[o].rev
                                            /\ o \in Objets /\ page[a].revs[o] \in Nat
      BY <1>1, <2>1 DEF IRegistres, Croyances, TypeOK, ReponsesPage
    <2>3. vu'[a] = vu[a] \/ (a = auteur /\ vu'[a] = appris)
      BY <1>1 DEF TypeOK
    <2>4. QED BY <1>3, <2>2, <2>3
  <1>5. Croyances'
    BY <1>1, <1>4 DEF Croyances
  <1>6. QED BY <1>2, <1>5

\* A page goes from the device's position forward.
LEMMA ChangesIRegistres ==
  ASSUME IRegistres, NEW a \in Appareils, SyncChanges(a)
  PROVE  Avancee' /\ Croyances'
  <1>1. /\ UNCHANGED <<compte, objets, auteur, curseur, vu, incVue>>
        /\ auteur = Rien
        /\ TypeOK /\ Connaissances /\ Croyances
    BY DEF SyncChanges, serveur, transaction, IRegistres, IInv
  <1>2. Avancee'
    BY <1>1 DEF Avancee
  <1>3. PICK d \in Derniers(curseur[a]) :
          page' = [page EXCEPT ![a] =
                     Reponse(Rendus(curseur[a], d), Jusqua(curseur[a], d))]
    BY DEF SyncChanges
  <1> DEFINE R == Rendus(curseur[a], d)
             j == Jusqua(curseur[a], d)
  <1>4. curseur[a] <= j
    <2>1. curseur[a] \in Nat /\ compte.seq \in Nat /\ curseur[a] <= compte.seq
          /\ \A o \in Objets : objets[o].seq \in Nat
      BY <1>1 DEF TypeOK, Comptes, Lignes, Connaissances
    <2>2. CASE R # Candidats(curseur[a])
      <3>1. d \in Candidats(curseur[a])
        BY <2>2, <1>3 DEF Derniers, Rendus
      <3>2. objets[d].seq > curseur[a] /\ d \in Objets
        BY <3>1 DEF Candidats
      <3>3. QED BY <2>1, <2>2, <3>2 DEF Jusqua
    <2>3. CASE R = Candidats(curseur[a])
      BY <2>1, <2>3 DEF Jusqua
    <2>4. QED BY <2>2, <2>3
  <1>5. R \subseteq Objets
    BY DEF Rendus, Candidats
  <1>6. \A o \in Objets : objets[o].rev \in Nat
    BY <1>1 DEF TypeOK, Lignes
  <1> HIDE DEF R, j
  <1>7. /\ page'[a] = Reponse(R, j)
        /\ \A b \in Appareils \ {a} : page'[b] = page[b]
    BY <1>1, <1>3 DEF R, j, TypeOK
  <1>8. Croyances'
    <2> SUFFICES ASSUME NEW b \in Appareils, AJour(b)
                 PROVE  /\ \A o \in Objets : vu[b][o] <= objets[o].rev
                        /\ page'[b] # Rien =>
                             /\ curseur[b] <= page'[b].jusqua
                             /\ \A o \in page'[b].rendus :
                                  page'[b].revs[o] <= objets[o].rev
      BY <1>1 DEF Croyances, AJour
    <2>1. CASE b = a
      <3>1. /\ page'[a].jusqua = j /\ page'[a].rendus = R
            /\ \A o \in R : page'[a].revs[o] = objets[o].rev
        BY <1>5, <1>7 DEF Reponse
      <3>2. QED BY <2>1, <3>1, <1>1, <1>4, <1>5, <1>6 DEF Croyances
    <2>2. CASE b # a
      BY <2>2, <1>1, <1>7 DEF Croyances
    <2>3. QED BY <2>1, <2>2
  <1>9. QED BY <1>2, <1>8

\* Taking a page, losing it or starting again leaves only true beliefs.
LEMMA AppareilIRegistres ==
  ASSUME IRegistres, NEW a \in Appareils,
         RecevoirPage(a) \/ PerdrePage(a) \/ Rejoindre(a)
  PROVE  Avancee' /\ Croyances'
  <1>0. /\ UNCHANGED <<compte, objets, auteur, objetsTx, appris>>
        /\ TypeOK /\ Avancee /\ Croyances /\ PousseeOuverte
    BY DEF RecevoirPage, PerdrePage, Rejoindre, serveur, transaction, IRegistres, IInv
  <1>1. ASSUME NEW b \in Appareils, b # a
        PROVE  UNCHANGED <<vu[b], curseur[b], page[b], incVue[b]>>
    BY <1>0, <1>1 DEF RecevoirPage, PerdrePage, Rejoindre, TypeOK
  <1>2. auteur # Rien => vu'[auteur] = vu[auteur]
    <2>1. CASE RecevoirPage(a)
      <3>1. auteur # Rien => auteur # a /\ auteur \in Appareils
        BY <2>1, <1>0 DEF RecevoirPage, PousseeOuverte, TypeOK
      <3>2. QED BY <3>1, <1>1
    <2>2. CASE PerdrePage(a) \/ Rejoindre(a)
      BY <2>2 DEF PerdrePage, Rejoindre
    <2>3. QED BY <2>1, <2>2
  <1>3. Avancee'
    BY <1>0, <1>2 DEF Avancee
  <1>4. ASSUME AJour(a)'
        PROVE  /\ page'[a] = Rien
               /\ \A o \in Objets : vu'[a][o] <= objets[o].rev
    <2>1. \A o \in Objets : objets[o].rev \in Nat
      BY <1>0 DEF TypeOK, Lignes
    <2>2. page'[a] = Rien
      BY <1>0 DEF RecevoirPage, PerdrePage, Rejoindre, TypeOK
    <2>3. CASE RecevoirPage(a)
      <3>1. AJour(a)
        BY <2>3, <1>0, <1>4 DEF RecevoirPage, AJour
      <3>2. \A o \in Objets :
              vu'[a][o] = IF o \in page[a].rendus THEN page[a].revs[o] ELSE vu[a][o]
        BY <2>3, <1>0 DEF RecevoirPage, TypeOK
      <3>3. page[a] # Rien
        BY <2>3 DEF RecevoirPage
      <3>4. QED BY <2>2, <3>1, <3>2, <3>3, <1>0 DEF Croyances
    <2>4. CASE PerdrePage(a)
      BY <2>2, <2>4, <1>0, <1>4 DEF PerdrePage, AJour, Croyances
    <2>5. CASE Rejoindre(a)
      BY <2>1, <2>2, <2>5, <1>0 DEF Rejoindre, TypeOK
    <2>6. QED BY <2>3, <2>4, <2>5
  <1>5. Croyances'
    <2> SUFFICES ASSUME NEW b \in Appareils, AJour(b)'
                 PROVE  /\ \A o \in Objets : vu'[b][o] <= objets[o].rev
                        /\ page'[b] # Rien =>
                             /\ curseur'[b] <= page'[b].jusqua
                             /\ \A o \in page'[b].rendus :
                                  page'[b].revs[o] <= objets[o].rev
      BY <1>0 DEF Croyances
    <2>1. CASE b = a
      BY <2>1, <1>4
    <2>2. CASE b # a
      BY <2>2, <1>0, <1>1 DEF Croyances, AJour
    <2>3. QED BY <2>1, <2>2
  <1>6. QED BY <1>3, <1>5

\* A transaction that touches no row and no device, whatever seq it takes.
LEMMA CourteIRegistres ==
  ASSUME IRegistres, auteur = Rien, auteur' = Rien,
         compte'.incarnation = compte.incarnation,
         \A o \in Objets : objets'[o].rev = objets[o].rev,
         UNCHANGED appareils
  PROVE  Avancee' /\ Croyances'
  <1>1. Avancee'
    BY DEF Avancee
  <1>2. UNCHANGED <<curseur, vu, incVue, page>>
    BY DEF appareils
  <1>3. \A a \in Appareils : page[a] # Rien => page[a].rendus \subseteq Objets
    BY DEF IRegistres, IInv, TypeOK, ReponsesPage
  <1>4. Croyances'
    BY <1>2, <1>3 DEF IRegistres, Croyances, AJour
  <1>5. QED BY <1>1, <1>4

LEMMA NextIRegistres == IRegistres /\ [Next]_vars => IRegistres'
  <1> SUFFICES ASSUME IRegistres, [Next]_vars PROVE Avancee' /\ Croyances'
    BY NextIInv DEF IRegistres
  <1>0. TypeOK /\ IInv
    BY DEF IRegistres, IInv
  <1>1. CASE PousserElement
    BY <1>1, ElementIRegistres
  <1>2. CASE PousserValider
    BY <1>2, ValiderIRegistres
  <1>3. CASE PousserAnnuler
    BY <1>3
    DEF PousserAnnuler, Fermer, serveur, appareils, IRegistres, Avancee, Croyances, AJour
  <1>4. ASSUME NEW a \in Appareils,
               \/ PousserDebut(a) \/ SyncChanges(a) \/ RecevoirPage(a)
               \/ PerdrePage(a) \/ Rejoindre(a)
        PROVE  Avancee' /\ Croyances'
    BY <1>4, DebutIRegistres, ChangesIRegistres, AppareilIRegistres
  <1>5. ASSUME \/ \E P \in SUBSET Pieces : PiecesMissing(P)
               \/ \E p \in Pieces : PiecesPut(p)
               \/ \E p \in Pieces, asOf \in 0 .. SeqMax : PiecesDelete(p, asOf)
               \/ VaultCommit \/ JourSuivant
        PROVE  Avancee' /\ Croyances'
    <2>1. /\ auteur = Rien /\ auteur' = Rien
          /\ compte'.incarnation = compte.incarnation
          /\ objets' = objets \/ objets' = ObjetsPurges
          /\ UNCHANGED appareils
      BY <1>5, <1>0
      DEF PiecesMissing, PiecesPut, PiecesDelete, VaultCommit, JourSuivant,
          serveur, transaction, TypeOK, Comptes
    <2>2. \A o \in Objets : objets'[o].rev = objets[o].rev
      BY <2>1, <1>0, PurgeGardeLesCourantes
    <2>3. QED BY <2>1, <2>2, CourteIRegistres
  <1>6. CASE ResetComplete
    <2>1. /\ auteur = Rien /\ auteur' = Rien /\ UNCHANGED <<incVue>>
          /\ compte'.incarnation = compte.incarnation + 1
          /\ compte.incarnation \in Nat
          /\ \A a \in Appareils : incVue[a] <= compte.incarnation /\ incVue[a] \in Nat
      BY <1>6, <1>0
      DEF ResetComplete, transaction, appareils, TypeOK, Comptes, IInv, Connaissances
    <2>2. \A a \in Appareils : ~AJour(a)'
      BY <2>1 DEF AJour
    <2>3. QED BY <2>1, <2>2 DEF Avancee, Croyances
  <1>7. CASE UNCHANGED vars
    BY <1>7 DEF vars, IRegistres, Avancee, Croyances, AJour
  <1>8. QED
    BY <1>1, <1>2, <1>3, <1>4, <1>5, <1>6, <1>7 DEF Next

-----------------------------------------------------------------------------
(* The steps of the registers                                              *)

\* A commit writes the rows whose seq is new, all together.
LEMMA ValiderEcrit ==
  ASSUME IRegistres, PousserValider
  PROVE  Registres!Ecrire(auteur)
  <1>1. /\ auteur \in Appareils /\ auteur # Rien
        /\ compte'.incarnation = compte.incarnation /\ compte'.seq = seqTx
        /\ objets' = objetsTx
        /\ vu' = [vu EXCEPT ![auteur] = appris] \/ vu' = vu
        /\ UNCHANGED <<curseur, incVue, page>>
        /\ TypeOK /\ PousseeOuverte /\ Avancee
    BY DEF PousserValider, Fermer, IRegistres, IInv, TypeOK, Comptes
  <1>2. /\ seqTx \in Nat /\ compte.seq \in Nat /\ seqTx >= compte.seq
        /\ \A o \in Objets : /\ objetsTx[o].seq \in Nat /\ objetsTx[o].rev \in Nat
                             /\ objets[o].seq \in Nat /\ objets[o].rev \in Nat
        /\ \A a \in Appareils : AJour(a)' <=> AJour(a)
        /\ AJour(auteur)
    BY <1>1 DEF TypeOK, Comptes, Lignes, PousseeOuverte, AJour
  <1> DEFINE W == {o \in Objets : objetsTx[o].seq > compte.seq}
             K == IF vu' = vu THEN {}
                  ELSE {o \in Objets : appris[o] = objetsTx[o].rev}
  <1>3. \A o \in W : /\ objetsTx[o].rev > objets[o].rev
                     /\ objetsTx[o].seq \in (compte.seq + 1) .. seqTx
                     /\ \A p \in W : objetsTx[p].seq = objetsTx[o].seq => p = o
    <2> SUFFICES ASSUME NEW o \in W
                 PROVE  /\ objetsTx[o].rev > objets[o].rev
                        /\ objetsTx[o].seq \in (compte.seq + 1) .. seqTx
                        /\ \A p \in W : objetsTx[p].seq = objetsTx[o].seq => p = o
      OBVIOUS
    <2>1. objetsTx[o].rev > objets[o].rev
      BY <1>1 DEF Avancee
    <2>2. objetsTx[o].rev # 0
      BY <2>1, <1>2
    <2>3. QED BY <2>1, <2>2, <1>1, <1>2 DEF PousseeOuverte, Numerotes
  <1>4. \A o \in Objets \ W : /\ objetsTx[o].rev = objets[o].rev
                              /\ objetsTx[o].seq = objets[o].seq
    BY <1>1 DEF PousseeOuverte
  <1>5. W \subseteq K \/ K = {}
    BY <1>1 DEF Avancee
  <1>6. Connus' = [Connus EXCEPT ![auteur] =
                     [o \in Objets |-> IF o \in K THEN Revs'[o] ELSE @[o]]]
    <2>1. ASSUME NEW a \in Appareils, a # auteur
          PROVE  Connus'[a] = Connus[a]
      BY <2>1, <1>1, <1>2 DEF TypeOK, Connus
    <2>2. Connus'[auteur] =
            [o \in Objets |-> IF o \in K THEN objetsTx[o].rev ELSE Connus[auteur][o]]
      <3>1. \A o \in Objets :
              vu'[auteur][o] = IF o \in K THEN objetsTx[o].rev ELSE vu[auteur][o]
        <4>1. CASE vu' = vu
          BY <4>1
        <4>2. CASE vu' # vu
          <5>1. vu'[auteur] = appris
            BY <4>2, <1>1 DEF TypeOK
          <5>2. \A o \in Objets : appris[o] \in {vu[auteur][o], objetsTx[o].rev}
            BY <1>1 DEF Avancee
          <5>3. QED BY <4>2, <5>1, <5>2
        <4>3. QED BY <4>1, <4>2
      <3> HIDE DEF K
      <3>2. QED BY <3>1, <1>1, <1>2 DEF Connus
    <2>3. \A o \in Objets : Revs'[o] = objetsTx[o].rev
      BY <1>1 DEF Revs
    <2>4. /\ DOMAIN Connus' = Appareils /\ DOMAIN Connus = Appareils
          /\ Connus = [a \in Appareils |-> Connus[a]]
          /\ Connus' = [a \in Appareils |-> Connus'[a]]
      BY DEF Connus
    <2> HIDE DEF K
    <2>5. QED BY <2>1, <2>2, <2>3, <2>4, <1>1
  <1>7. W \in SUBSET Objets /\ K \in SUBSET Objets
    OBVIOUS
  <1> HIDE DEF W, K
  <1>8. \A o \in Objets : /\ Revs'[o] = objetsTx[o].rev /\ Dates'[o] = objetsTx[o].seq
                          /\ Revs[o] = objets[o].rev /\ Dates[o] = objets[o].seq
    BY <1>1 DEF Revs, Dates
  <1>9. UNCHANGED <<compte.incarnation, Positions>>
    BY <1>1, <1>2 DEF Positions
  <1>10. \A o \in W : /\ Revs'[o] > Revs[o]
                      /\ Dates'[o] \in (compte.seq + 1) .. compte'.seq
                      /\ \A p \in W : Dates'[p] = Dates'[o] => p = o
    BY <1>1, <1>3, <1>7, <1>8
  <1>11. \A o \in Objets \ W : Revs'[o] = Revs[o] /\ Dates'[o] = Dates[o]
    BY <1>4, <1>8
  <1>12. compte'.seq \in Nat /\ compte'.seq >= compte.seq
    BY <1>1, <1>2
  <1>13. QED
    BY <1>5, <1>6, <1>7, <1>9, <1>10, <1>11, <1>12 DEF Registres!Ecrire

\* A page handled under the account's incarnation moves its device to the
\* page's cursor; under a former one it moves nothing the registers know of.
LEMMA RecevoirSuit ==
  ASSUME IRegistres, NEW a \in Appareils, RecevoirPage(a)
  PROVE  Registres!Suivre(a) \/ UNCHANGED Registres!vars
  <1>1. /\ UNCHANGED <<compte, objets, incVue>> /\ page[a] # Rien
        /\ vu' = [vu EXCEPT ![a] =
                    [o \in Objets |-> IF o \in page[a].rendus
                                      THEN page[a].revs[o] ELSE vu[a][o]]]
        /\ curseur' = [curseur EXCEPT ![a] = page[a].jusqua]
        /\ TypeOK /\ Connaissances /\ Croyances
    BY DEF RecevoirPage, serveur, IRegistres, IInv
  <1>2. /\ \A b \in Appareils : AJour(b)' <=> AJour(b)
        /\ Revs' = Revs /\ Dates' = Dates
        /\ compte'.seq = compte.seq /\ compte'.incarnation = compte.incarnation
    BY <1>1 DEF AJour, Revs, Dates
  <1>3. ASSUME NEW b \in Appareils, b # a
        PROVE  Positions'[b] = Positions[b] /\ Connus'[b] = Connus[b]
    BY <1>1, <1>2, <1>3 DEF Positions, Connus, TypeOK
  <1>4. /\ Positions = [b \in Appareils |-> Positions[b]]
        /\ Positions' = [b \in Appareils |-> Positions'[b]]
        /\ Connus = [b \in Appareils |-> Connus[b]]
        /\ Connus' = [b \in Appareils |-> Connus'[b]]
    BY DEF Positions, Connus
  <1>5. CASE ~AJour(a)
    <2>1. Positions'[a] = Positions[a] /\ Connus'[a] = Connus[a]
      BY <1>2, <1>5 DEF Positions, Connus
    <2>2. Positions' = Positions /\ Connus' = Connus
      BY <2>1, <1>3, <1>4
    <2>3. QED BY <1>2, <2>2 DEF Registres!vars
  <1>6. CASE AJour(a)
    <2> DEFINE j == page[a].jusqua
    <2>1. /\ curseur[a] \in Nat /\ j \in Nat /\ compte.seq \in Nat
          /\ curseur[a] <= j /\ j <= compte.seq
          /\ Positions[a] = curseur[a] /\ Positions'[a] = j
      BY <1>1, <1>2, <1>6
      DEF TypeOK, Comptes, ReponsesPage, Connaissances, Croyances, Positions
    <2>2. ASSUME NEW o \in Objets
          PROVE  /\ Dates[o] <= j => Connus'[a][o] = Revs[o]
                 /\ Connus'[a][o] <= Revs[o]
      <3>1. Connus'[a][o] = IF o \in page[a].rendus THEN page[a].revs[o] ELSE vu[a][o]
        BY <1>1, <1>2, <1>6 DEF Connus, TypeOK
      <3>2. Revs[o] = objets[o].rev /\ Dates[o] = objets[o].seq
        BY DEF Revs, Dates
      <3>3. objets[o].seq <= j =>
              IF o \in page[a].rendus THEN page[a].revs[o] = objets[o].rev
              ELSE vu[a][o] = objets[o].rev
        BY <1>1, <1>6 DEF Connaissances, AJour
      <3>4. /\ vu[a][o] <= objets[o].rev
            /\ o \in page[a].rendus => page[a].revs[o] <= objets[o].rev
        BY <1>1, <1>6 DEF Croyances
      <3>5. QED BY <3>1, <3>2, <3>3, <3>4
    <2> HIDE DEF j
    <2>3. Positions' = [Positions EXCEPT ![a] = j]
      BY <2>1, <1>3, <1>4
    <2>4. Connus' = [Connus EXCEPT ![a] = Connus'[a]]
      BY <1>3, <1>4
    <2>5. j \in Positions[a] .. compte.seq
      BY <2>1
    <2>6. Registres!Suivre(a)
      BY <1>2, <2>2, <2>3, <2>4, <2>5 DEF Registres!Suivre
    <2>7. QED BY <2>6
  <1>7. QED BY <1>5, <1>6

\* A device that joins the new incarnation is already at its start.
LEMMA RejoindreNeChangeRien ==
  ASSUME IRegistres, NEW a \in Appareils, Rejoindre(a)
  PROVE  UNCHANGED Registres!vars
  <1>1. /\ UNCHANGED <<compte, objets>> /\ ~AJour(a)
        /\ incVue' = [incVue EXCEPT ![a] = compte.incarnation]
        /\ curseur' = [curseur EXCEPT ![a] = 0]
        /\ vu' = [vu EXCEPT ![a] = [o \in Objets |-> 0]]
        /\ TypeOK
    BY DEF Rejoindre, serveur, AJour, IRegistres, IInv
  <1>2. \A b \in Appareils : Positions'[b] = Positions[b] /\ Connus'[b] = Connus[b]
    <2>1. /\ Positions'[a] = 0 /\ Positions[a] = 0
          /\ Connus'[a] = [o \in Objets |-> 0] /\ Connus[a] = [o \in Objets |-> 0]
      BY <1>1 DEF Positions, Connus, TypeOK
    <2>2. ASSUME NEW b \in Appareils, b # a
          PROVE  Positions'[b] = Positions[b] /\ Connus'[b] = Connus[b]
      BY <1>1, <2>2 DEF Positions, Connus, AJour, TypeOK
    <2>3. QED BY <2>1, <2>2
  <1>3. Positions' = Positions /\ Connus' = Connus
    BY <1>2 DEF Positions, Connus
  <1>4. QED BY <1>1, <1>3 DEF Registres!vars, Revs, Dates

\* A reset puts the registers and, in their eyes, every device at the start.
LEMMA ResetEfface ==
  ASSUME IRegistres, ResetComplete
  PROVE  Registres!Effacer
  <1>1. /\ compte'.incarnation = compte.incarnation + 1 /\ compte'.seq = compte.seq
        /\ objets' = [o \in Objets |-> Absent] /\ UNCHANGED incVue
        /\ compte.incarnation \in Nat
        /\ \A a \in Appareils : incVue[a] <= compte.incarnation /\ incVue[a] \in Nat
    BY DEF ResetComplete, appareils, IRegistres, IInv, TypeOK, Comptes, Connaissances
  <1>2. \A a \in Appareils : ~AJour(a)'
    BY <1>1 DEF AJour
  <1>3. /\ Positions' = [a \in Appareils |-> 0]
        /\ Connus' = [a \in Appareils |-> [o \in Objets |-> 0]]
    BY <1>2 DEF Positions, Connus
  <1>4. Revs' = [o \in Objets |-> 0] /\ Dates' = [o \in Objets |-> 0]
    BY <1>1 DEF Revs, Dates, Absent
  <1>5. QED BY <1>1, <1>3, <1>4 DEF Registres!Effacer, Registres!Nuls

\* What touches no row and no device takes a seq, or nothing.
LEMMA CourteSaute ==
  ASSUME IRegistres,
         compte'.incarnation = compte.incarnation,
         compte'.seq = compte.seq \/ compte'.seq = compte.seq + 1,
         \A o \in Objets : /\ objets'[o].rev = objets[o].rev
                           /\ objets'[o].seq = objets[o].seq,
         UNCHANGED <<curseur, vu, incVue>>
  PROVE  Registres!Sauter \/ UNCHANGED Registres!vars
  <1>1. Revs' = Revs /\ Dates' = Dates
    BY DEF Revs, Dates
  <1>2. Positions' = Positions /\ Connus' = Connus
    BY DEF Positions, Connus, AJour
  <1>3. QED BY <1>1, <1>2 DEF Registres!Sauter, Registres!vars

LEMMA InitRegistres == Init => Registres!Init
  <1> SUFFICES ASSUME Init PROVE Registres!Init
    OBVIOUS
  <1>1. compte.seq = 0 /\ compte.incarnation = 1
    BY DEF Init
  <1>2. Revs = [o \in Objets |-> 0] /\ Dates = [o \in Objets |-> 0]
    BY DEF Init, Revs, Dates, Absent
  <1>3. /\ Positions = [a \in Appareils |-> 0]
        /\ Connus = [a \in Appareils |-> [o \in Objets |-> 0]]
    BY DEF Init, Positions, Connus
  <1>4. QED BY <1>1, <1>2, <1>3 DEF Registres!Init, Registres!Nuls

LEMMA NextRegistres == IRegistres /\ [Next]_vars => [Registres!Next]_(Registres!vars)
  <1> SUFFICES ASSUME IRegistres, [Next]_vars
               PROVE  Registres!Next \/ UNCHANGED Registres!vars
    OBVIOUS
  <1>0. TypeOK /\ IInv
    BY DEF IRegistres, IInv
  <1>1. CASE PousserValider
    <2>1. auteur \in Appareils
      BY <1>0, <1>1 DEF PousserValider, TypeOK
    <2>2. QED BY <2>1, <1>1, ValiderEcrit DEF Registres!Next
  <1>2. ASSUME NEW a \in Appareils, RecevoirPage(a)
        PROVE  Registres!Next \/ UNCHANGED Registres!vars
    BY <1>2, RecevoirSuit DEF Registres!Next
  <1>3. ASSUME NEW a \in Appareils, Rejoindre(a)
        PROVE  UNCHANGED Registres!vars
    BY <1>3, RejoindreNeChangeRien
  <1>4. CASE ResetComplete
    BY <1>4, ResetEfface DEF Registres!Next
  <1>5. ASSUME \/ PousserElement \/ PousserAnnuler
               \/ \E a \in Appareils : PousserDebut(a) \/ SyncChanges(a) \/ PerdrePage(a)
               \/ \E P \in SUBSET Pieces : PiecesMissing(P)
               \/ \E p \in Pieces : PiecesPut(p)
               \/ \E p \in Pieces, asOf \in 0 .. SeqMax : PiecesDelete(p, asOf)
               \/ VaultCommit \/ JourSuivant \/ UNCHANGED vars
        PROVE  Registres!Next \/ UNCHANGED Registres!vars
    <2>1. /\ compte'.incarnation = compte.incarnation
          /\ compte'.seq = compte.seq \/ compte'.seq = compte.seq + 1
          /\ UNCHANGED <<curseur, vu, incVue>>
      BY <1>5, <1>0
      DEF PousserElement, PousserAnnuler, PousserDebut, SyncChanges, PerdrePage,
          PiecesMissing, PiecesPut, PiecesDelete, VaultCommit, JourSuivant, vars,
          serveur, appareils, TypeOK, Comptes
    <2>2. objets' = objets \/ objets' = ObjetsPurges
      BY <1>5
      DEF PousserElement, PousserAnnuler, PousserDebut, SyncChanges, PerdrePage,
          PiecesMissing, PiecesPut, PiecesDelete, VaultCommit, JourSuivant, vars,
          serveur
    <2>3. \A o \in Objets : /\ objets'[o].rev = objets[o].rev
                            /\ objets'[o].seq = objets[o].seq
      BY <2>2, <1>0, PurgeGardeLesCourantes
    <2>4. QED BY <2>1, <2>3, CourteSaute DEF Registres!Next
  <1>6. QED
    BY <1>1, <1>2, <1>3, <1>4, <1>5 DEF Next

THEOREM RegistersInductive == Spec => []IRegistres
  BY InitIRegistres, NextIRegistres, PTL DEF Spec

\* The synchronisation server implements the registers: its transactions, its
\* rollbacks, its lost answers and its pages are invisible to the devices,
\* resets apart (routes_synchro.py, routes_pieces.py).
THEOREM ServerImplementsRegisters == Spec => Implante
  <1>1. Init => Registres!Init
    BY InitRegistres
  <1>2. IRegistres /\ [Next]_vars => [Registres!Next]_(Registres!vars)
    BY NextRegistres
  <1>3. QED
    BY <1>1, <1>2, RegistersInductive, PTL DEF Spec, Implante, Registres!Spec

-----------------------------------------------------------------------------
(* Sums over a finite set.  The library's induction theorems take an        *)
(* operator; these proofs use the first-order fact under them: a non-empty  *)
(* collection of finite sets has a minimal one, so a property of the        *)
(* subsets of S that fails somewhere fails first where it holds of every    *)
(* smaller subset.                                                          *)

LEMMA PlusPetit ==
  ASSUME NEW S, IsFiniteSet(S), NEW T \in SUBSET SUBSET S, T # {}
  PROVE  \E s \in T : \A x \in s : s \ {x} \notin T
<1>1. T \subseteq FiniteSubsetsOf(S)
  BY FS_Subset DEF FiniteSubsetsOf
<1>2. PICK s \in T : \A t \in T : ~ (<<t, s>> \in StrictSubsetOrdering(S))
  BY <1>1, WFMin, FS_StrictSubsetOrderingWellFounded
<1>3. ASSUME NEW x \in s PROVE s \ {x} \notin T
  BY <1>2 DEF StrictSubsetOrdering
<1> QED BY <1>2, <1>3

\* The element a fold takes first, and what it makes of a subset s when g
\* holds its results on the smaller ones.
Tire(s) == CHOOSE x \in s : TRUE

Etape(F, g, s) == IF s = {} THEN 0 ELSE F[Tire(s)] + g[s \ {Tire(s)}]

LEMMA TireDedans ==
  ASSUME NEW s, s # {}
  PROVE  Tire(s) \in s
  BY DEF Tire

\* g[s] is the sum of F over s, for every subset s of S.
SommePartielle(g, F, S) == g = [s \in SUBSET S |-> Etape(F, g, s)]

\* The same as far as the subsets of at most n elements.
SommeJusqua(g, F, S, n) ==
  /\ g = [s \in SUBSET S |-> g[s]]
  /\ \A s \in SUBSET S : Cardinality(s) <= n => g[s] = Etape(F, g, s)

\* At every point H is F + G.
EstSomme(H, F, G, S) == \A x \in S : H[x] = F[x] + G[x]

\* The recursive definition of the library has a solution: by induction on
\* the size up to which a function already satisfies it.
LEMMA SommePartielleJusqua ==
  ASSUME NEW S, IsFiniteSet(S), NEW F, NEW n \in Nat
  PROVE  \E g : SommeJusqua(g, F, S, n)
<1> DEFINE Bon(g, k) == SommeJusqua(g, F, S, k)
           T == {k \in Nat : ~ \E g : Bon(g, k)}
<1>1. ASSUME T # {} PROVE FALSE
  <2>1. PICK k \in T : \A m \in T : ~ (<<m, k>> \in OpToRel(<, Nat))
    <3>1. T \in SUBSET Nat
      OBVIOUS
    <3> HIDE DEF T
    <3>2. QED BY <1>1, <3>1, WFMin, NatLessThanWellFounded
  <2>2. ASSUME NEW m \in Nat, m < k PROVE \E g : Bon(g, m)
    BY <2>1, <2>2 DEF OpToRel
  <2>3. \E g : Bon(g, k)
    <3>1. CASE k = 0
      <4> DEFINE g == [s \in SUBSET S |-> 0]
      <4>1. ASSUME NEW s \in SUBSET S, Cardinality(s) <= 0 PROVE s = {}
        <5>1. IsFiniteSet(s) BY FS_Subset
        <5>2. QED BY <5>1, <4>1, FS_CardinalityType, FS_EmptySet
      <4>2. Bon(g, k)
        BY <3>1, <4>1 DEF Etape, SommeJusqua
      <4>3. QED BY <4>2
    <3>2. CASE k # 0
      <4>1. PICK g : Bon(g, k - 1)
        <5>1. k - 1 \in Nat /\ k - 1 < k BY <3>2
        <5> HIDE DEF Bon, T
        <5>2. QED BY <5>1, <2>2
      <4> DEFINE h == [s \in SUBSET S |->
                         IF Cardinality(s) <= k - 1 THEN g[s] ELSE Etape(F, g, s)]
      <4>2. ASSUME NEW s \in SUBSET S, s # {}, Cardinality(s) <= k
            PROVE  /\ s \ {Tire(s)} \in SUBSET S
                   /\ Cardinality(s \ {Tire(s)}) <= k - 1
        <5>1. IsFiniteSet(s) BY FS_Subset
        <5>2. Tire(s) \in s BY <4>2, TireDedans
        <5>3. Cardinality(s \ {Tire(s)}) = Cardinality(s) - 1
          BY <5>1, <5>2, FS_RemoveElement
        <5>4. Cardinality(s) \in Nat BY <5>1, FS_CardinalityType
        <5>5. QED BY <4>2, <5>3, <5>4
      <4>3. ASSUME NEW s \in SUBSET S, Cardinality(s) <= k
            PROVE  h[s] = Etape(F, h, s)
        <5>1. Etape(F, h, s) = Etape(F, g, s)
          BY <4>2, <4>3 DEF Etape
        <5>2. h[s] = Etape(F, g, s)
          BY <4>1 DEF SommeJusqua
        <5>3. QED BY <5>1, <5>2
      <4>4. h = [s \in SUBSET S |-> h[s]]
        OBVIOUS
      <4> HIDE DEF h
      <4>5. QED BY <4>3, <4>4 DEF SommeJusqua
    <3>3. QED BY <3>1, <3>2
  <2>4. QED BY <2>1, <2>3
<1>2. QED BY <1>1

LEMMA SommeExiste ==
  ASSUME NEW S, IsFiniteSet(S), NEW F \in [S -> Int]
  PROVE  \E g : SommePartielle(g, F, S) /\ SumFunction(F) = g[S]
<1>1. PICK h : SommeJusqua(h, F, S, Cardinality(S))
  <2>1. Cardinality(S) \in Nat BY FS_CardinalityType
  <2>2. QED BY <2>1, SommePartielleJusqua
<1>2. SommePartielle(h, F, S)
  <2>1. ASSUME NEW s \in SUBSET S PROVE h[s] = Etape(F, h, s)
    BY <1>1, FS_Subset DEF SommeJusqua
  <2>2. QED BY <1>1, <2>1 DEF SommePartielle, SommeJusqua
<1> DEFINE iter == CHOOSE g : SommePartielle(g, F, S)
<1>3. SommePartielle(iter, F, S)
  BY <1>2
<1>4. SumFunction(F) = iter[S]
  <2>1. DOMAIN F = S OBVIOUS
  <2>2. QED BY <2>1 DEF SumFunction, SumFunctionOnSet, FoldFunctionOnSet, MapThenFoldSet,
             SommePartielle, Etape, Tire
<1>5. QED BY <1>3, <1>4

\* Three sums of one induction: H grows F + G at every point, or follows it.
LEMMA PartiellesEntieres ==
  ASSUME NEW S, IsFiniteSet(S), NEW F \in [S -> Int], NEW g,
         SommePartielle(g, F, S)
  PROVE  \A s \in SUBSET S : g[s] \in Int
<1> DEFINE T == {s \in SUBSET S : g[s] \notin Int}
<1>1. ASSUME NEW s \in T, \A x \in s : s \ {x} \notin T PROVE FALSE
  <2>1. CASE s = {}
    BY <2>1, <1>1 DEF SommePartielle, Etape
  <2>2. CASE s # {}
    <3>1. Tire(s) \in s BY <2>2, TireDedans
    <3>2. g[s \ {Tire(s)}] \in Int BY <3>1, <1>1
    <3>3. g[s] = F[Tire(s)] + g[s \ {Tire(s)}]
      BY <2>2 DEF SommePartielle, Etape
    <3>4. QED BY <3>1, <3>2, <3>3, <1>1
  <2>3. QED BY <2>1, <2>2
<1>2. T \in SUBSET SUBSET S OBVIOUS
<1> HIDE DEF T
<1>3. T = {} BY <1>1, <1>2, PlusPetit
<1> QED BY <1>3 DEF T

LEMMA SommeEntiere ==
  ASSUME NEW S, IsFiniteSet(S), NEW F \in [S -> Int]
  PROVE  SumFunction(F) \in Int
  BY SommeExiste, PartiellesEntieres

\* One step of a partial sum.
Avance(g, F, s) ==
  /\ Tire(s) \in s
  /\ g[s] = F[Tire(s)] + g[s \ {Tire(s)}]
  /\ g[s \ {Tire(s)}] \in Int

LEMMA EtapeDeSomme ==
  ASSUME NEW S, IsFiniteSet(S), NEW F \in [S -> Int], NEW g,
         SommePartielle(g, F, S), NEW s \in SUBSET S
  PROVE  /\ s = {} => g[s] = 0
         /\ s # {} => Avance(g, F, s)
<1>1. g[s] = Etape(F, g, s)
  BY DEF SommePartielle
<1>2. s # {} => Tire(s) \in s
  BY TireDedans
<1>3. \A t \in SUBSET S : g[t] \in Int
  BY PartiellesEntieres
<1> QED BY <1>1, <1>2, <1>3 DEF Etape, Avance

LEMMA SommeAdditive ==
  ASSUME NEW S, IsFiniteSet(S),
         NEW F \in [S -> Int], NEW G \in [S -> Int], NEW H \in [S -> Int],
         EstSomme(H, F, G, S)
  PROVE  SumFunction(H) = SumFunction(F) + SumFunction(G)
<1>1. PICK f : SommePartielle(f, F, S) /\ SumFunction(F) = f[S]
  BY SommeExiste
<1>2. PICK g : SommePartielle(g, G, S) /\ SumFunction(G) = g[S]
  BY SommeExiste
<1>3. PICK h : SommePartielle(h, H, S) /\ SumFunction(H) = h[S]
  BY SommeExiste
<1> DEFINE T == {s \in SUBSET S : h[s] # f[s] + g[s]}
<1>4. ASSUME NEW s \in T, \A x \in s : s \ {x} \notin T PROVE FALSE
  <2>0. s \in SUBSET S /\ h[s] # f[s] + g[s]
    OBVIOUS
  <2>1. CASE s = {}
    <3>1. f[s] = 0 BY <2>0, <2>1, <1>1, EtapeDeSomme
    <3>2. g[s] = 0 BY <2>0, <2>1, <1>2, EtapeDeSomme
    <3>3. h[s] = 0 BY <2>0, <2>1, <1>3, EtapeDeSomme
    <3>4. QED BY <2>0, <3>1, <3>2, <3>3
  <2>2. CASE s # {}
    <3> DEFINE t == s \ {Tire(s)}
    <3>1. Avance(f, F, s)
      BY <2>0, <2>2, <1>1, EtapeDeSomme
    <3>2. Avance(g, G, s)
      BY <2>0, <2>2, <1>2, EtapeDeSomme
    <3>3. Avance(h, H, s)
      BY <2>0, <2>2, <1>3, EtapeDeSomme
    <3>4. h[t] = f[t] + g[t] BY <3>1, <1>4 DEF Avance
    <3>5. Tire(s) \in S BY <2>0, <3>1 DEF Avance
    <3>6. H[Tire(s)] = F[Tire(s)] + G[Tire(s)] BY <3>5 DEF EstSomme
    <3>7. QED BY <3>1, <3>2, <3>3, <3>4, <3>5, <3>6, <2>0 DEF Avance
  <2>3. QED BY <2>1, <2>2
<1>5. T \in SUBSET SUBSET S OBVIOUS
<1> HIDE DEF T
<1>6. T = {} BY <1>4, <1>5, PlusPetit
<1> QED BY <1>1, <1>2, <1>3, <1>6 DEF T

LEMMA SommeCroissante ==
  ASSUME NEW S, IsFiniteSet(S),
         NEW F \in [S -> Int], NEW G \in [S -> Int],
         \A x \in S : F[x] <= G[x]
  PROVE  SumFunction(F) <= SumFunction(G)
<1>1. PICK f : SommePartielle(f, F, S) /\ SumFunction(F) = f[S]
  BY SommeExiste
<1>2. PICK g : SommePartielle(g, G, S) /\ SumFunction(G) = g[S]
  BY SommeExiste
<1> DEFINE T == {s \in SUBSET S : ~ (f[s] <= g[s])}
<1>4. ASSUME NEW s \in T, \A x \in s : s \ {x} \notin T PROVE FALSE
  <2>0. s \in SUBSET S /\ ~ (f[s] <= g[s])
    OBVIOUS
  <2>1. CASE s = {}
    <3>1. f[s] = 0 BY <2>0, <2>1, <1>1, EtapeDeSomme
    <3>2. g[s] = 0 BY <2>0, <2>1, <1>2, EtapeDeSomme
    <3>3. QED BY <2>0, <3>1, <3>2
  <2>2. CASE s # {}
    <3> DEFINE t == s \ {Tire(s)}
    <3>1. Avance(f, F, s)
      BY <2>0, <2>2, <1>1, EtapeDeSomme
    <3>2. Avance(g, G, s)
      BY <2>0, <2>2, <1>2, EtapeDeSomme
    <3>4. f[t] <= g[t] BY <3>1, <1>4 DEF Avance
    <3>5. Tire(s) \in S BY <2>0, <3>1 DEF Avance
    <3>6. QED BY <3>1, <3>2, <3>4, <3>5, <2>0 DEF Avance
  <2>3. QED BY <2>1, <2>2
<1>5. T \in SUBSET SUBSET S OBVIOUS
<1> HIDE DEF T
<1>6. T = {} BY <1>4, <1>5, PlusPetit
<1> QED BY <1>1, <1>2, <1>6 DEF T

LEMMA SommeUnPoint ==
  ASSUME NEW S, IsFiniteSet(S), NEW x \in S,
         NEW F \in [S -> Int], NEW G \in [S -> Int],
         \A y \in S : y # x => G[y] = F[y]
  PROVE  SumFunction(G) = SumFunction(F) + G[x] - F[x]
<1>1. PICK f : SommePartielle(f, F, S) /\ SumFunction(F) = f[S]
  BY SommeExiste
<1>2. PICK g : SommePartielle(g, G, S) /\ SumFunction(G) = g[S]
  BY SommeExiste
<1> DEFINE Ecart(s) == IF x \in s THEN G[x] - F[x] ELSE 0
           T == {s \in SUBSET S : g[s] # f[s] + Ecart(s)}
<1>4. ASSUME NEW s \in T, \A y \in s : s \ {y} \notin T PROVE FALSE
  <2>0. s \in SUBSET S /\ g[s] # f[s] + Ecart(s)
    OBVIOUS
  <2>1. CASE s = {}
    <3>1. f[s] = 0 BY <2>0, <2>1, <1>1, EtapeDeSomme
    <3>2. g[s] = 0 BY <2>0, <2>1, <1>2, EtapeDeSomme
    <3>3. Ecart(s) = 0 BY <2>1
    <3>4. QED BY <2>0, <3>1, <3>2, <3>3
  <2>2. CASE s # {}
    <3> DEFINE z == Tire(s)
               t == s \ {z}
    <3>1. Avance(f, F, s)
      BY <2>0, <2>2, <1>1, EtapeDeSomme
    <3>2. Avance(g, G, s)
      BY <2>0, <2>2, <1>2, EtapeDeSomme
    <3>3. g[t] = f[t] + Ecart(t) BY <3>1, <1>4 DEF Avance
    <3>4. g[s] # f[s] + Ecart(s) BY <2>0
    <3>5. z \in S BY <2>0, <3>1 DEF Avance
    <3>6. CASE z = x
      BY <3>1, <3>2, <3>3, <3>4, <3>6 DEF Avance
    <3>7. CASE z # x
      <4>1. x \in t <=> x \in s BY <3>7
      <4>2. G[z] = F[z] BY <3>5, <3>7
      <4>3. Ecart(t) = Ecart(s) BY <4>1
      <4>4. Ecart(s) \in Int OBVIOUS
      <4> HIDE DEF t, Ecart
      <4>5. QED BY <3>1, <3>2, <3>3, <3>4, <3>5, <4>2, <4>3, <4>4 DEF Avance, t, z
    <3>8. QED BY <3>6, <3>7
  <2>3. QED BY <2>1, <2>2
<1>5. T \in SUBSET SUBSET S OBVIOUS
<1>6. T = {}
  <2> HIDE DEF T
  <2> QED BY <1>4, <1>5, PlusPetit
<1>7. g[S] = f[S] + (G[x] - F[x])
  BY <1>6
<1>8. f[S] \in Int
  BY <1>1, PartiellesEntieres
<1> QED BY <1>1, <1>2, <1>7, <1>8

-----------------------------------------------------------------------------
(* The bytes of an account                                                 *)

\* The bytes of every object's current version, of its replaced one, and of
\* the larger of the two.
Courantes(objs) == [o \in Objets |-> TailleDe(objs[o].blob)]

Remplacees(objs) == [o \in Objets |-> TailleDe(objs[o].blobPrec)]

Grandes(objs) ==
  [o \in Objets |-> IF TailleDe(objs[o].blob) >= TailleDe(objs[o].blobPrec)
                    THEN TailleDe(objs[o].blob)
                    ELSE TailleDe(objs[o].blobPrec)]

Gardees(pcs) == {p \in Pieces : pcs[p].presente}

\* The counter n is what the tables hold.
Juste(n, objs, pcs) ==
  n = SumFunction(Courantes(objs)) + SumFunction(Remplacees(objs))
      + TaillePiece * Cardinality(Gardees(pcs))

\* Why the quota is exceeded by no more than itself: a version that does not
\* grow its object replaces one at least as large, so each object counts for
\* the larger of its two.
Contenu(objs, pcs) ==
  SumFunction(Grandes(objs)) + TaillePiece * Cardinality(Gardees(pcs)) <= Quota

IOctets ==
  /\ TypeOK
  /\ Juste(octets, objets, pieces)
  /\ Contenu(objets, pieces)
  /\ auteur # Rien => /\ Juste(octetsTx, objetsTx, piecesTx)
                      /\ Contenu(objetsTx, piecesTx)

LEMMA ProduitNaturel ==
  ASSUME NEW m \in Nat, NEW n \in Nat
  PROVE  m * n \in Nat
  OBVIOUS

LEMMA TablesEntieres ==
  ASSUME NEW objs \in [Objets -> Lignes]
  PROVE  /\ Courantes(objs) \in [Objets -> Int]
         /\ Remplacees(objs) \in [Objets -> Int]
         /\ Grandes(objs) \in [Objets -> Int]
         /\ SumFunction(Courantes(objs)) \in Int
         /\ SumFunction(Remplacees(objs)) \in Int
         /\ SumFunction(Grandes(objs)) \in Int
         /\ \A o \in Objets : /\ TailleDe(objs[o].blob) \in Nat
                              /\ TailleDe(objs[o].blobPrec) \in Nat
<1>1. ASSUME NEW o \in Objets
      PROVE  TailleDe(objs[o].blob) \in Nat /\ TailleDe(objs[o].blobPrec) \in Nat
  BY TailleEstNaturelle DEF Lignes
<1>2. /\ Courantes(objs) \in [Objets -> Int]
      /\ Remplacees(objs) \in [Objets -> Int]
      /\ Grandes(objs) \in [Objets -> Int]
  BY <1>1 DEF Courantes, Remplacees, Grandes
<1> QED BY <1>1, <1>2, SommeEntiere, IdentifiersAreFinite

LEMMA ImagesEntieres ==
  ASSUME NEW pcs
  PROVE  /\ IsFiniteSet(Gardees(pcs))
         /\ Cardinality(Gardees(pcs)) \in Nat
         /\ TaillePiece * Cardinality(Gardees(pcs)) \in Nat
<1>1. Gardees(pcs) \in SUBSET Pieces
  BY DEF Gardees
<1>2. IsFiniteSet(Gardees(pcs))
  BY <1>1, FS_Subset, IdentifiersAreFinite
<1>3. Cardinality(Gardees(pcs)) \in Nat
  BY <1>2, FS_CardinalityType
<1> QED BY <1>2, <1>3, ProduitNaturel, SizesAreNaturals

\* Each object's two versions count for at most the larger twice, and the
\* larger for at most both.
LEMMA GrandesEntreLesDeux ==
  ASSUME NEW objs \in [Objets -> Lignes]
  PROVE  /\ SumFunction(Courantes(objs)) <= SumFunction(Grandes(objs))
         /\ SumFunction(Remplacees(objs)) <= SumFunction(Grandes(objs))
         /\ SumFunction(Grandes(objs)) <=
              SumFunction(Courantes(objs)) + SumFunction(Remplacees(objs))
<1> DEFINE Deux == [o \in Objets |-> Courantes(objs)[o] + Remplacees(objs)[o]]
<1>1. \A o \in Objets : /\ TailleDe(objs[o].blob) \in Nat
                        /\ TailleDe(objs[o].blobPrec) \in Nat
  BY TablesEntieres
<1>2. \A o \in Objets : /\ Courantes(objs)[o] <= Grandes(objs)[o]
                        /\ Remplacees(objs)[o] <= Grandes(objs)[o]
                        /\ Grandes(objs)[o] <= Deux[o]
  BY <1>1 DEF Courantes, Remplacees, Grandes
<1>3. Deux \in [Objets -> Int]
  BY <1>1 DEF Courantes, Remplacees
<1>4. SumFunction(Deux) =
        SumFunction(Courantes(objs)) + SumFunction(Remplacees(objs))
  <2>1. EstSomme(Deux, Courantes(objs), Remplacees(objs), Objets)
    BY DEF EstSomme
  <2> HIDE DEF Deux
  <2>2. QED BY <1>3, <2>1, TablesEntieres, SommeAdditive, IdentifiersAreFinite
<1> HIDE DEF Deux
<1>5. SumFunction(Courantes(objs)) <= SumFunction(Grandes(objs))
  BY <1>2, TablesEntieres, SommeCroissante, IdentifiersAreFinite
<1>6. SumFunction(Remplacees(objs)) <= SumFunction(Grandes(objs))
  BY <1>2, TablesEntieres, SommeCroissante, IdentifiersAreFinite
<1>7. SumFunction(Grandes(objs)) <= SumFunction(Deux)
  BY <1>2, <1>3, TablesEntieres, SommeCroissante, IdentifiersAreFinite
<1> QED BY <1>4, <1>5, <1>6, <1>7

\* The invariant gives both properties.
LEMMA OctetsSuivent == IOctets => OctetsExacts /\ QuotaTenu
<1> SUFFICES ASSUME IOctets PROVE OctetsExacts /\ QuotaTenu
  OBVIOUS
<1> DEFINE i == TaillePiece * Cardinality(Gardees(pieces))
<1>1. /\ OctetsCourants = SumFunction(Courantes(objets))
      /\ OctetsRetenus = SumFunction(Remplacees(objets))
      /\ OctetsPieces = i
  BY DEF OctetsCourants, OctetsRetenus, OctetsPieces, Courantes, Remplacees,
         Gardees, Presentes
<1>2. objets \in [Objets -> Lignes]
  BY DEF IOctets, TypeOK
<1>3. i \in Nat
  BY ImagesEntieres
<1>4. /\ octets = SumFunction(Courantes(objets)) + SumFunction(Remplacees(objets)) + i
      /\ SumFunction(Grandes(objets)) + i <= Quota
  BY DEF IOctets, Juste, Contenu
<1> HIDE DEF i
<1>5. /\ SumFunction(Courantes(objets)) \in Int
      /\ SumFunction(Remplacees(objets)) \in Int
      /\ SumFunction(Grandes(objets)) \in Int
      /\ Quota \in Nat
  BY <1>2, TablesEntieres, LimitsAreNaturals
<1>6. /\ SumFunction(Courantes(objets)) <= SumFunction(Grandes(objets))
      /\ SumFunction(Remplacees(objets)) <= SumFunction(Grandes(objets))
  BY <1>2, GrandesEntreLesDeux
<1>7. OctetsExacts
  BY <1>1, <1>4 DEF OctetsExacts
<1>8. QuotaTenu
  BY <1>1, <1>3, <1>4, <1>5, <1>6 DEF QuotaTenu
<1> QED BY <1>7, <1>8

\* purger_retenues subtracts exactly what it erases.
LEMMA PurgeJuste ==
  ASSUME TypeOK, Juste(octets, objets, pieces), Contenu(objets, pieces)
  PROVE  /\ Juste(octets - OctetsPurges, ObjetsPurges, PiecesPurgees)
         /\ Contenu(ObjetsPurges, PiecesPurgees)
<1> DEFINE Parties == [o \in Objets |-> IF PrecedenteEchue(objets[o])
                                        THEN TailleDe(objets[o].blobPrec) ELSE 0]
           E == {p \in Pieces : OrphelineEchue(pieces[p])}
           G == Gardees(PiecesPurgees)
<1>1. /\ objets \in [Objets -> Lignes]
      /\ ObjetsPurges \in [Objets -> Lignes]
      /\ \A o \in Objets : ObjetsPurges[o].blob = objets[o].blob
  BY PurgeGardeLesCourantes DEF TypeOK
<1>2. \A o \in Objets :
        /\ PrecedenteEchue(objets[o]) => ObjetsPurges[o].blobPrec = Rien
        /\ ~PrecedenteEchue(objets[o]) => ObjetsPurges[o] = objets[o]
  BY <1>1 DEF ObjetsPurges, Lignes
<1>3. \A o \in Objets : /\ TailleDe(objets[o].blob) \in Nat
                        /\ TailleDe(objets[o].blobPrec) \in Nat
  BY <1>1, TablesEntieres
<1>4. Courantes(ObjetsPurges) = Courantes(objets)
  BY <1>1 DEF Courantes
<1>5. Parties \in [Objets -> Int] /\ SumFunction(Parties) \in Int
  <2>1. Parties \in [Objets -> Int] BY <1>3
  <2> HIDE DEF Parties
  <2>2. QED BY <2>1, SommeEntiere, IdentifiersAreFinite
<1>6. SumFunction(Remplacees(objets)) =
        SumFunction(Remplacees(ObjetsPurges)) + SumFunction(Parties)
  <2>1. EstSomme(Remplacees(objets), Remplacees(ObjetsPurges), Parties, Objets)
    <3>1. ASSUME NEW o \in Objets
          PROVE  Remplacees(objets)[o] = Remplacees(ObjetsPurges)[o] + Parties[o]
      <4>1. TailleDe(Rien) = 0
        BY DEF TailleDe
      <4>2. Parties[o] = IF PrecedenteEchue(objets[o])
                         THEN TailleDe(objets[o].blobPrec) ELSE 0
        OBVIOUS
      <4>3. /\ Remplacees(objets)[o] = TailleDe(objets[o].blobPrec)
            /\ Remplacees(ObjetsPurges)[o] = TailleDe(ObjetsPurges[o].blobPrec)
        BY DEF Remplacees
      <4> HIDE DEF Parties
      <4>4. QED BY <1>2, <1>3, <4>1, <4>2, <4>3
    <3>2. QED BY <3>1 DEF EstSomme
  <2> HIDE DEF Parties
  <2>2. QED BY <1>1, <1>5, <2>1, TablesEntieres, SommeAdditive, IdentifiersAreFinite
<1>7. SumFunction(Grandes(ObjetsPurges)) <= SumFunction(Grandes(objets))
  <2>1. ASSUME NEW o \in Objets
        PROVE  Grandes(ObjetsPurges)[o] <= Grandes(objets)[o]
    <3>1. TailleDe(Rien) = 0
      BY DEF TailleDe
    <3>2. QED BY <1>1, <1>2, <1>3, <3>1 DEF Grandes
  <2>2. QED BY <1>1, <2>1, TablesEntieres, SommeCroissante, IdentifiersAreFinite
<1>8. /\ IsFiniteSet(E) /\ Cardinality(E) \in Nat
      /\ Cardinality(Gardees(pieces)) = Cardinality(G) + Cardinality(E)
  <2>1. E \in SUBSET Pieces /\ G \in SUBSET Pieces
    BY DEF Gardees
  <2>2. IsFiniteSet(E) /\ IsFiniteSet(G)
    BY <2>1, FS_Subset, IdentifiersAreFinite
  <2>3. G \cap E = {} /\ Gardees(pieces) = G \cup E
    BY DEF Gardees, PiecesPurgees, OrphelineEchue, SansPiece
  <2> HIDE DEF E, G
  <2>4. Cardinality(G \cup E) = Cardinality(G) + Cardinality(E) - Cardinality(G \cap E)
    BY <2>2, FS_Union
  <2>5. Cardinality(G \cap E) = 0 /\ Cardinality(G) \in Nat /\ Cardinality(E) \in Nat
    BY <2>2, <2>3, FS_EmptySet, FS_CardinalityType
  <2>6. QED BY <2>2, <2>3, <2>4, <2>5
<1>9. OctetsPurges = SumFunction(Parties) + TaillePiece * Cardinality(E)
  BY DEF OctetsPurges
<1> HIDE DEF Parties, E, G
<1> DEFINE g == TaillePiece * Cardinality(G)
           e == TaillePiece * Cardinality(E)
<1>10. /\ g \in Nat /\ e \in Nat
       /\ TaillePiece * Cardinality(Gardees(pieces)) = g + e
  <2>1. Cardinality(G) \in Nat /\ TaillePiece \in Nat
    BY ImagesEntieres, SizesAreNaturals DEF G
  <2>2. g \in Nat /\ e \in Nat
    BY <1>8, <2>1, ProduitNaturel
  <2>3. TaillePiece * (Cardinality(G) + Cardinality(E)) = g + e
    BY <1>8, <2>1
  <2>4. QED BY <1>8, <2>2, <2>3
<1>11. /\ SumFunction(Courantes(objets)) \in Int
       /\ SumFunction(Remplacees(objets)) \in Int
       /\ SumFunction(Remplacees(ObjetsPurges)) \in Int
       /\ SumFunction(Grandes(objets)) \in Int
       /\ SumFunction(Grandes(ObjetsPurges)) \in Int
       /\ Quota \in Nat
  BY <1>1, TablesEntieres, LimitsAreNaturals
<1>12. /\ octets = SumFunction(Courantes(objets)) + SumFunction(Remplacees(objets)) + (g + e)
       /\ SumFunction(Grandes(objets)) + (g + e) <= Quota
  BY <1>10 DEF Juste, Contenu
<1>13. OctetsPurges = SumFunction(Parties) + e
  BY <1>9
<1>14. /\ Juste(octets - OctetsPurges, ObjetsPurges, PiecesPurgees) <=>
            octets - OctetsPurges =
              SumFunction(Courantes(objets)) + SumFunction(Remplacees(ObjetsPurges)) + g
       /\ Contenu(ObjetsPurges, PiecesPurgees) <=>
            SumFunction(Grandes(ObjetsPurges)) + g <= Quota
  BY <1>4 DEF Juste, Contenu, G
<1> HIDE DEF g, e
<1> QED BY <1>5, <1>6, <1>7, <1>10, <1>11, <1>12, <1>13, <1>14

\* An element that is stored keeps the counter right and the objects within the
\* quota: if it grows its object the whole table fits, otherwise the version it
\* replaces counted for as much.
LEMMA StockerJuste ==
  ASSUME NEW n, NEW objs \in [Objets -> Lignes], NEW pcs,
         Juste(n, objs, pcs), Contenu(objs, pcs),
         NEW o \in Objets, NEW b \in Blobs, NEW seq,
         LigneStockee(objs[o], b, seq) \in Lignes,
         Grossit(objs[o], b) => n + Variation(objs[o], b) <= Quota
  PROVE  /\ Juste(n + Variation(objs[o], b),
                  [objs EXCEPT ![o] = LigneStockee(objs[o], b, seq)], pcs)
         /\ Contenu([objs EXCEPT ![o] = LigneStockee(objs[o], b, seq)], pcs)
<1> DEFINE neufs == [objs EXCEPT ![o] = LigneStockee(objs[o], b, seq)]
           cur == TailleDe(objs[o].blob)
           prec == TailleDe(objs[o].blobPrec)
           neuf == TailleDe(b)
           i == TaillePiece * Cardinality(Gardees(pcs))
<1>1. /\ neufs \in [Objets -> Lignes]
      /\ neufs[o].blob = b /\ neufs[o].blobPrec = objs[o].blob
      /\ \A p \in Objets : p # o => neufs[p] = objs[p]
  BY DEF LigneStockee
<1> HIDE DEF neufs
<1>2. /\ cur \in Nat /\ prec \in Nat /\ neuf \in Nat /\ i \in Nat /\ Quota \in Nat
  BY TablesEntieres, ImagesEntieres, TailleEstNaturelle, LimitsAreNaturals
<1>3. SumFunction(Courantes(neufs)) = SumFunction(Courantes(objs)) + neuf - cur
  <2>1. /\ \A p \in Objets : p # o => Courantes(neufs)[p] = Courantes(objs)[p]
        /\ Courantes(neufs)[o] = neuf /\ Courantes(objs)[o] = cur
    BY <1>1 DEF Courantes
  <2>2. /\ Courantes(objs) \in [Objets -> Int]
        /\ Courantes(neufs) \in [Objets -> Int]
    BY <1>1, TablesEntieres
  <2>3. SumFunction(Courantes(neufs)) =
          SumFunction(Courantes(objs)) + Courantes(neufs)[o] - Courantes(objs)[o]
    BY <2>1, <2>2, SommeUnPoint, IdentifiersAreFinite
  <2> HIDE DEF cur, neuf
  <2>4. QED BY <2>1, <2>3
<1>4. SumFunction(Remplacees(neufs)) = SumFunction(Remplacees(objs)) + cur - prec
  <2>1. /\ \A p \in Objets : p # o => Remplacees(neufs)[p] = Remplacees(objs)[p]
        /\ Remplacees(neufs)[o] = cur /\ Remplacees(objs)[o] = prec
    BY <1>1 DEF Remplacees
  <2>2. /\ Remplacees(objs) \in [Objets -> Int]
        /\ Remplacees(neufs) \in [Objets -> Int]
    BY <1>1, TablesEntieres
  <2>3. SumFunction(Remplacees(neufs)) =
          SumFunction(Remplacees(objs)) + Remplacees(neufs)[o] - Remplacees(objs)[o]
    BY <2>1, <2>2, SommeUnPoint, IdentifiersAreFinite
  <2> HIDE DEF cur, prec
  <2>4. QED BY <2>1, <2>3
<1>5. /\ SumFunction(Courantes(objs)) \in Int
      /\ SumFunction(Remplacees(objs)) \in Int
      /\ SumFunction(Grandes(objs)) \in Int
      /\ SumFunction(Grandes(neufs)) \in Int
  BY <1>1, TablesEntieres
<1>6. Variation(objs[o], b) = neuf - prec
  BY DEF Variation
<1>7. /\ n = SumFunction(Courantes(objs)) + SumFunction(Remplacees(objs)) + i
      /\ SumFunction(Grandes(objs)) + i <= Quota
  BY DEF Juste, Contenu
<1>8. /\ Juste(n + Variation(objs[o], b), neufs, pcs) <=>
           n + Variation(objs[o], b) =
             SumFunction(Courantes(neufs)) + SumFunction(Remplacees(neufs)) + i
      /\ Contenu(neufs, pcs) <=> SumFunction(Grandes(neufs)) + i <= Quota
  BY DEF Juste, Contenu
<1>9. Juste(n + Variation(objs[o], b), neufs, pcs)
  <2> HIDE DEF cur, prec, neuf, i
  <2> QED BY <1>2, <1>3, <1>4, <1>5, <1>6, <1>7, <1>8
<1>10. Contenu(neufs, pcs)
  <2>1. CASE Grossit(objs[o], b)
    <3>1. SumFunction(Grandes(neufs)) <=
            SumFunction(Courantes(neufs)) + SumFunction(Remplacees(neufs))
      BY <1>1, GrandesEntreLesDeux
    <3>2. n + Variation(objs[o], b) <= Quota
      BY <2>1
    <3> HIDE DEF cur, prec, neuf, i
    <3>3. QED BY <1>2, <1>3, <1>4, <1>5, <1>6, <1>7, <1>8, <3>1, <3>2
  <2>2. CASE ~Grossit(objs[o], b)
    <3>1. neuf <= cur
      BY <2>2, <1>2 DEF Grossit
    <3>2. \A p \in Objets : p # o => Grandes(neufs)[p] = Grandes(objs)[p]
      BY <1>1 DEF Grandes
    <3>3. Grandes(neufs)[o] <= Grandes(objs)[o]
      BY <1>1, <1>2, <3>1 DEF Grandes
    <3>4. \A p \in Objets : Grandes(neufs)[p] <= Grandes(objs)[p]
      BY <1>1, <3>2, <3>3, TablesEntieres
    <3>5. SumFunction(Grandes(neufs)) <= SumFunction(Grandes(objs))
      BY <1>1, <3>4, TablesEntieres, SommeCroissante, IdentifiersAreFinite
    <3> HIDE DEF i
    <3>6. QED BY <1>2, <1>5, <1>7, <1>8, <3>5
  <2>3. QED BY <2>1, <2>2
<1> QED BY <1>9, <1>10 DEF neufs

\* An image more: one more to count, and the whole table has been compared with
\* the quota.
LEMMA PoserJuste ==
  ASSUME NEW n, NEW objs \in [Objets -> Lignes],
         NEW pcs \in [Pieces -> LignesPiece],
         Juste(n, objs, pcs), Contenu(objs, pcs),
         NEW p \in Pieces, NEW ligne \in LignesPiece, ligne.presente,
         ~pcs[p].presente => n + TaillePiece <= Quota
  PROVE  /\ Juste(IF pcs[p].presente THEN n ELSE n + TaillePiece, objs,
                  [pcs EXCEPT ![p] = ligne])
         /\ Contenu(objs, [pcs EXCEPT ![p] = ligne])
<1> DEFINE neuves == [pcs EXCEPT ![p] = ligne]
<1>1. Gardees(neuves) = Gardees(pcs) \cup {p}
  BY DEF Gardees
<1>2. CASE pcs[p].presente
  <2>1. Gardees(neuves) = Gardees(pcs)
    BY <1>1, <1>2 DEF Gardees
  <2> HIDE DEF neuves
  <2>2. Juste(n, objs, neuves) /\ Contenu(objs, neuves)
    BY <2>1 DEF Juste, Contenu
  <2>3. QED BY <1>2, <2>2 DEF neuves
<1>3. CASE ~pcs[p].presente
  <2> HIDE DEF neuves
  <2>1. Cardinality(Gardees(neuves)) = Cardinality(Gardees(pcs)) + 1
    <3>1. p \notin Gardees(pcs)
      BY <1>3 DEF Gardees
    <3>2. IsFiniteSet(Gardees(pcs))
      BY ImagesEntieres
    <3>3. QED BY <1>1, <3>1, <3>2, FS_AddElement
  <2> DEFINE k == Cardinality(Gardees(pcs))
             i == TaillePiece * k
  <2>2. k \in Nat /\ i \in Nat /\ TaillePiece \in Nat /\ Quota \in Nat
    BY ImagesEntieres, SizesAreNaturals, LimitsAreNaturals
  <2>3. TaillePiece * Cardinality(Gardees(neuves)) = i + TaillePiece
    <3>1. TaillePiece * (k + 1) = i + TaillePiece
      BY <2>2
    <3>2. QED BY <2>1, <3>1
  <2>4. /\ n = SumFunction(Courantes(objs)) + SumFunction(Remplacees(objs)) + i
        /\ SumFunction(Grandes(objs)) + i <= Quota
        /\ n + TaillePiece <= Quota
    BY <1>3 DEF Juste, Contenu
  <2>5. /\ Juste(n + TaillePiece, objs, neuves) <=>
             n + TaillePiece =
               SumFunction(Courantes(objs)) + SumFunction(Remplacees(objs))
               + (i + TaillePiece)
        /\ Contenu(objs, neuves) <=>
             SumFunction(Grandes(objs)) + (i + TaillePiece) <= Quota
    BY <2>3 DEF Juste, Contenu
  <2>6. /\ SumFunction(Courantes(objs)) \in Int
        /\ SumFunction(Remplacees(objs)) \in Int
        /\ SumFunction(Grandes(objs)) \in Int
    BY TablesEntieres
  <2>7. SumFunction(Grandes(objs)) <=
          SumFunction(Courantes(objs)) + SumFunction(Remplacees(objs))
    BY GrandesEntreLesDeux
  <2> HIDE DEF k, i
  <2>8. Juste(n + TaillePiece, objs, neuves) /\ Contenu(objs, neuves)
    BY <2>2, <2>4, <2>5, <2>6, <2>7
  <2>9. QED BY <1>3, <2>8 DEF neuves
<1> QED BY <1>2, <1>3

\* An empty account holds nothing.
LEMMA VideJuste ==
  /\ Juste(0, [o \in Objets |-> Absent], [p \in Pieces |-> SansPiece])
  /\ Contenu([o \in Objets |-> Absent], [p \in Pieces |-> SansPiece])
<1> DEFINE objs == [o \in Objets |-> Absent]
           pcs == [p \in Pieces |-> SansPiece]
           Zero == [o \in Objets |-> 0]
<1>1. /\ Courantes(objs) = Zero /\ Remplacees(objs) = Zero /\ Grandes(objs) = Zero
  <2>1. TailleDe(Rien) = 0
    BY DEF TailleDe
  <2>2. QED BY <2>1 DEF Courantes, Remplacees, Grandes, Absent
<1>2. SumFunction(Zero) = 0
  <2>1. Zero \in [Objets -> Int] /\ EstSomme(Zero, Zero, Zero, Objets)
    BY DEF EstSomme
  <2> HIDE DEF Zero
  <2>2. SumFunction(Zero) = SumFunction(Zero) + SumFunction(Zero)
    BY <2>1, SommeAdditive, IdentifiersAreFinite
  <2>3. SumFunction(Zero) \in Int
    BY <2>1, SommeEntiere, IdentifiersAreFinite
  <2> DEFINE n == SumFunction(Zero)
  <2>4. n = n + n /\ n \in Int
    BY <2>2, <2>3
  <2> HIDE DEF n
  <2>5. n = 0
    BY <2>4
  <2>6. QED BY <2>5 DEF n
<1>3. Gardees(pcs) = {}
  BY DEF Gardees, SansPiece
<1>4. TaillePiece * Cardinality(Gardees(pcs)) = 0
  BY <1>3, FS_EmptySet, SizesAreNaturals
<1> HIDE DEF objs, pcs, Zero
<1>5. Juste(0, objs, pcs) /\ Contenu(objs, pcs)
  BY <1>1, <1>2, <1>4, LimitsAreNaturals DEF Juste, Contenu
<1> QED BY <1>5 DEF objs, pcs

LEMMA InitIOctets == Init => IOctets
  BY VideJuste, InitTypeOK DEF Init, IOctets

\* Marks and claims add and remove no image.
LEMMA MemesImages ==
  ASSUME NEW pcs, NEW neuves,
         \A p \in Pieces : neuves[p].presente <=> pcs[p].presente,
         NEW n, NEW objs, Juste(n, objs, pcs), Contenu(objs, pcs)
  PROVE  Juste(n, objs, neuves) /\ Contenu(objs, neuves)
<1>1. Gardees(neuves) = Gardees(pcs)
  BY DEF Gardees
<1> QED BY <1>1 DEF Juste, Contenu

LEMMA NextIOctets == IOctets /\ [Next]_vars => IOctets'
<1> SUFFICES ASSUME IOctets, [Next]_vars PROVE IOctets'
  OBVIOUS
<1> DEFINE Serveur == Juste(octets, objets, pieces) /\ Contenu(objets, pieces)
           Poussee == auteur # Rien => /\ Juste(octetsTx, objetsTx, piecesTx)
                                       /\ Contenu(objetsTx, piecesTx)
<1>0. /\ TypeOK /\ TypeOK'
      /\ Serveur /\ Poussee
      /\ IOctets' <=> TypeOK' /\ Serveur' /\ Poussee'
  BY NextTypeOK DEF IOctets
<1>1. ASSUME NEW a \in Appareils, PousserDebut(a)
      PROVE  Serveur' /\ Poussee'
  BY <1>0, <1>1, PurgeJuste DEF PousserDebut, serveur
<1>2. ASSUME PousserElement
      PROVE  Serveur' /\ Poussee'
  <2>1. PICK o \in Objets, base \in 0 .. SeqMax, c \in Clairs,
             e \in {compte.epoque, compte.epoque - 1} \ {0} :
          LET b == [epoque |-> e, clair |-> c] IN
          \/ ElementEcarte(b)
          \/ ElementEnConflit(o, base, b)
          \/ ElementDiffere(o, base, b)
          \/ ElementHorsQuota(o, base, b)
          \/ ElementStocke(o, base, b)
    BY <1>2 DEF PousserElement
  <2> DEFINE b == [epoque |-> e, clair |-> c]
  <2>2. b \in Blobs
    <3>1. compte.epoque \in Nat \ {0}
      BY <1>0 DEF TypeOK, Comptes
    <3>2. e \in Nat \ {0}
      BY <3>1
    <3>3. QED BY <3>2 DEF Blobs
  <2> HIDE DEF b
  <2>3. /\ UNCHANGED <<octets, objets, pieces, auteur, piecesTx>>
        /\ auteur # Rien
    BY <1>2 DEF PousserElement, serveur
  <2>4. CASE UNCHANGED <<octetsTx, objetsTx>>
    BY <1>0, <2>3, <2>4
  <2>5. CASE ElementStocke(o, base, b)
    <3>1. /\ octetsTx' = octetsTx + Variation(objetsTx[o], b)
          /\ objetsTx' = [objetsTx EXCEPT ![o] =
                            LigneStockee(objetsTx[o], b, seqTx + 1)]
          /\ Grossit(objetsTx[o], b) =>
               octetsTx + Variation(objetsTx[o], b) <= Quota
      BY <2>5 DEF ElementStocke, Tient
    <3>2. objetsTx \in [Objets -> Lignes] /\ objetsTx'[o] \in Lignes
      BY <1>0 DEF TypeOK
    <3>3. LigneStockee(objetsTx[o], b, seqTx + 1) \in Lignes
      BY <3>1, <3>2
    <3>4. Juste(octetsTx', objetsTx', piecesTx) /\ Contenu(objetsTx', piecesTx)
      BY <1>0, <2>2, <2>3, <3>1, <3>2, <3>3, StockerJuste
    <3>5. QED BY <1>0, <2>3, <3>4
  <2>6. QED
    BY <2>1, <2>4, <2>5
    DEF b, ElementEcarte, ElementEnConflit, ElementDiffere, ElementHorsQuota
<1>3. ASSUME PousserValider
      PROVE  Serveur' /\ Poussee'
  BY <1>0, <1>3 DEF PousserValider, Fermer
<1>4. ASSUME PousserAnnuler
      PROVE  Serveur' /\ Poussee'
  BY <1>0, <1>4 DEF PousserAnnuler, Fermer, serveur
<1>5. ASSUME UNCHANGED <<octets, objets, pieces, auteur, octetsTx, objetsTx, piecesTx>>
      PROVE  Serveur' /\ Poussee'
  BY <1>0, <1>5
<1>6. ASSUME NEW P \in SUBSET Pieces, PiecesMissing(P)
      PROVE  Serveur' /\ Poussee'
  <2>1. \A p \in Pieces : pieces'[p].presente <=> pieces[p].presente
    BY <1>6 DEF PiecesMissing, Presentes
  <2>2. UNCHANGED <<octets, objets, auteur, octetsTx, objetsTx, piecesTx>>
    BY <1>6 DEF PiecesMissing, transaction
  <2>3. QED BY <1>0, <2>1, <2>2, MemesImages
<1>7. ASSUME NEW p \in Pieces, PiecesPut(p)
      PROVE  Serveur' /\ Poussee'
  <2> DEFINE ligne == [presente |-> TRUE, reclame |-> compte.seq + 1,
                       orpheline |-> Rien, jourReclame |-> jour]
             reste == octets - OctetsPurges
  <2>1. /\ pieces' = [PiecesPurgees EXCEPT ![p] = ligne]
        /\ objets' = ObjetsPurges
        /\ octets' = IF PiecesPurgees[p].presente THEN reste ELSE reste + TaillePiece
        /\ ~PiecesPurgees[p].presente => reste + TaillePiece <= Quota
        /\ auteur = Rien /\ auteur' = Rien
    BY <1>7 DEF PiecesPut, transaction
  <2>2. ligne \in LignesPiece /\ ligne.presente
    BY <1>0 DEF TypeOK, LignesPiece, Comptes
  <2>3. ObjetsPurges \in [Objets -> Lignes] /\ PiecesPurgees \in [Pieces -> LignesPiece]
    BY <1>0, PurgeGardeLesCourantes, PurgeDesPieces
  <2>4. Juste(reste, ObjetsPurges, PiecesPurgees) /\ Contenu(ObjetsPurges, PiecesPurgees)
    BY <1>0, PurgeJuste
  <2> HIDE DEF ligne, reste
  <2>5. /\ Juste(IF PiecesPurgees[p].presente THEN reste ELSE reste + TaillePiece,
                 ObjetsPurges, [PiecesPurgees EXCEPT ![p] = ligne])
        /\ Contenu(ObjetsPurges, [PiecesPurgees EXCEPT ![p] = ligne])
    BY <2>1, <2>2, <2>3, <2>4, PoserJuste
  <2>6. Serveur'
    BY <2>1, <2>5
  <2>7. QED BY <2>1, <2>6
<1>8. ASSUME NEW p \in Pieces, NEW asOf \in 0 .. SeqMax, PiecesDelete(p, asOf)
      PROVE  Serveur' /\ Poussee'
  <2>1. \A q \in Pieces : pieces'[q].presente <=> pieces[q].presente
    BY <1>0, <1>8 DEF PiecesDelete, TypeOK, LignesPiece
  <2>2. UNCHANGED <<octets, objets, auteur, octetsTx, objetsTx, piecesTx>>
    BY <1>8 DEF PiecesDelete, transaction
  <2>3. QED BY <1>0, <2>1, <2>2, MemesImages
<1>9. ASSUME ResetComplete
      PROVE  Serveur' /\ Poussee'
  BY <1>0, <1>9, VideJuste DEF ResetComplete, transaction
<1> HIDE DEF Serveur, Poussee
<1>10. QED
  BY <1>0, <1>1, <1>2, <1>3, <1>4, <1>5, <1>6, <1>7, <1>8, <1>9
  DEF Next, vars, SyncChanges, RecevoirPage, PerdrePage, Rejoindre, VaultCommit,
      JourSuivant, serveur, transaction

\* The bytes the account is charged for are those its tables hold, whatever is
\* replaced, purged, refused or rolled back.
THEOREM BytesAreExact == Spec => []OctetsExacts
<1>1. Spec => []IOctets
  BY InitIOctets, NextIOctets, PTL DEF Spec
<1>2. IOctets => OctetsExacts
  BY OctetsSuivent
<1> QED BY <1>1, <1>2, PTL

\* What is never refused for the quota exceeds it by no more than itself, and
\* only by replaced versions.
THEOREM QuotaHolds == Spec => []QuotaTenu
<1>1. Spec => []IOctets
  BY InitIOctets, NextIOctets, PTL DEF Spec
<1>2. IOctets => QuotaTenu
  BY OctetsSuivent
<1> QED BY <1>1, <1>2, PTL

=============================================================================
