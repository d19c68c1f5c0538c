------------------------ MODULE ImagesConversations_proofs ------------------------
(***************************************************************************)
(* Theorems about ImagesConversations, for any devices, conversations and  *)
(* images.  The invariant has three parts: what a row of a device owes to  *)
(* the server's version of its conversation (Lignes), who has an image of  *)
(* the present epoch in view (Suivi), and until when a mark waits (Temps). *)
(***************************************************************************)
EXTENDS ImagesConversations, FiniteSetTheorems, TLAPS

-----------------------------------------------------------------------------
(* The values                                                              *)

Versions == [date : Nat, images : [Images -> -2..EpoqueMax], morte : BOOLEAN]

\* A conversation: a tombstone has no images, the store holds no reference, and
\* the server no image in the clear.
Formes == {c \in Versions : c.morte => c.images = Aucune}
FormesLocales  == {c \in Formes : \A k \in Images : c.images[k] <= 0}
FormesScellees == {c \in Formes : \A k \in Images : c.images[k] # Pleine}

ListesTrous == [Images -> 0..EpoqueMax]
Connus == [rev : Nat \ {0}, forme : Formes \cup {Rien}]
Objets == [rev : Nat \ {0}, seq : Nat \ {0}, epoque : 1..EpoqueMax, forme : FormesScellees]
Rangees == [reclame : Nat, orpheline : Nat \cup {Rien}]

\* Version n may replace c.
Suit(n, c) == n.date > c.date \/ (n.date = c.date /\ (c.morte => n.morte))

\* Version c is not under the floor f.
Tient(c, f) == c.date > f \/ (c.date = f /\ c.morte)

\* The image is in version c, whole or by reference; n has all that c has.
Tenue(c, k) == c.images[k] > 0 \/ c.images[k] = Pleine
Couvre(n, c) == ~n.morte => \A k \in Images : Tenue(c, k) => Tenue(n, k)

\* The row l with its holes t has all that c has.
Couverte(l, t, c) ==
  \A k \in Images : Tenue(c, k) => l.images[k] = Pleine \/ (l.images[k] = Sans /\ t[k] > 0)

-----------------------------------------------------------------------------
(* The row of a conversation on a device: store l, holes t, version known  *)
(* n, floor f, references r, object O of the server                        *)

PlancherTenu(l, f) == IF l.morte THEN f <= l.date ELSE f < l.date

TrouJuste(l, t, n, r) ==
  \A k \in Images : t[k] > 0 =>
    /\ l.images[k] = Sans
    /\ <<k, t[k]>> \in r
    /\ (n.forme # Rien => n.forme.images[k] = t[k])

LigneVive(l, t, n, f, r, O) ==
  /\ TrouJuste(l, t, n, r)
  /\ Tient(O.forme, f)
  /\ (n.rev = O.rev => Couverte(l, t, O.forme))
  /\ (n.forme # Rien => Couverte(l, t, n.forme))

Ligne(l, t, n, f, r, O) ==
  /\ PlancherTenu(l, f)
  /\ (~l.morte => LigneVive(l, t, n, f, r, O))
  /\ n.rev <= O.rev
  /\ (n.rev = O.rev => Suit(l, O.forme) /\ r = References(O.forme))
  /\ (n.forme # Rien => Suit(l, n.forme))

\* An object e of a page not yet taken in.
EnPage(e, l, n, f, O) ==
  /\ e.rev <= O.rev
  /\ (e.rev = O.rev => e = O)
  /\ Suit(O.forme, e.forme)
  /\ n.rev <= e.rev
  /\ (~l.morte => Tient(e.forme, f))

\* A version v about to be pushed.
EnLot(v, l, t, n, O) ==
  /\ Suit(l, v) /\ (v.morte => l.morte)
  /\ (~v.morte /\ ~l.morte => \A k \in Images :
        /\ (v.images[k] = Pleine => l.images[k] = Pleine)
        /\ (t[k] > 0 => v.images[k] = t[k])
        /\ (v.images[k] > 0 => v.images[k] = t[k]))
  /\ (n.rev = O.rev => Suit(v, O.forme) /\ Couvre(v, O.forme))

\* A version c in a push, on the revision b.
EnRoute(b, c, O) ==
  /\ b <= O.rev
  /\ (b = O.rev => Suit(c, O.forme) /\ Couvre(c, O.forme))

\* What a step may do of an object, the number s being the last one given.
Avance(O, P, s) ==
  P = O \/ (/\ P.rev = O.rev + 1 /\ P.seq > s
            /\ Suit(P.forme, O.forme) /\ Couvre(P.forme, O.forme))

-----------------------------------------------------------------------------
(* The operators on versions                                               *)

LEMMA RienHors ==
  /\ Rien \notin Nat /\ Rien \notin Formes /\ Rien \notin Rangees
  /\ Rien \notin Objets
  /\ \A b \in Nat, c \in Formes : [base |-> b, forme |-> c] # Rien
<1> DEFINE V == [date : Nat, images : [Images -> Int], morte : BOOLEAN]
<1>1. EpoqueMax \in Nat
  BY ImagesNumbers
<1>2. Formes \subseteq V
  <2>1. -2..EpoqueMax \subseteq Int
    BY <1>1
  <2> QED
    BY <2>1 DEF Formes, Versions
<1>3. Objets \subseteq [rev : Nat, seq : Nat, epoque : Nat, forme : V]
  BY <1>1, <1>2 DEF Objets, FormesScellees
<1>4. \A b \in Nat, c \in Formes : [base |-> b, forme |-> c] \in [base : Nat, forme : V]
  BY <1>2
<1> QED
  BY <1>2, <1>3, <1>4, RienIsNoValue DEF Rangees

LEMMA FormeDe ==
  ASSUME NEW c \in Formes
  PROVE  /\ c \in Versions /\ c.date \in Nat /\ c.morte \in BOOLEAN
         /\ c.images \in [Images -> -2..EpoqueMax]
         /\ \A k \in Images : c.images[k] \in -2..EpoqueMax /\ c.images[k] \in Int
         /\ (c.morte => \A k \in Images : c.images[k] = 0)
<1>1. EpoqueMax \in Nat
  BY ImagesNumbers
<1> QED
  BY <1>1 DEF Formes, Versions, Aucune, Absent

\* A version rebuilt from its images.
LEMMA FormeFaite ==
  ASSUME NEW c \in Formes, NEW im \in [Images -> -2..EpoqueMax],
         c.morte => \A k \in Images : im[k] = 0
  PROVE  /\ [c EXCEPT !.images = im] \in Formes
         /\ [c EXCEPT !.images = im].date = c.date
         /\ [c EXCEPT !.images = im].morte = c.morte
         /\ [c EXCEPT !.images = im].images = im
<1> DEFINE n == [c EXCEPT !.images = im]
<1>1. /\ c \in Versions /\ (c.morte => \A k \in Images : im[k] = 0)
  BY FormeDe
<1>2. /\ n \in Versions /\ n.date = c.date /\ n.morte = c.morte /\ n.images = im
  BY <1>1 DEF Versions
<1>3. c.morte => im = Aucune
  BY <1>1 DEF Aucune, Absent
<1> QED
  BY <1>2, <1>3 DEF Formes

LEMMA DetacheeForme ==
  ASSUME NEW c \in Formes, NEW e \in 1..EpoqueMax
  PROVE  /\ Detachee(c, e) \in FormesScellees
         /\ Detachee(c, e).date = c.date /\ Detachee(c, e).morte = c.morte
         /\ \A k \in Images : Detachee(c, e).images[k] =
              (IF c.images[k] = Pleine THEN e ELSE c.images[k])
<1> DEFINE im == [k \in Images |-> IF c.images[k] = Pleine THEN e ELSE c.images[k]]
<1>1. EpoqueMax \in Nat
  BY ImagesNumbers
<1>2. /\ \A k \in Images : c.images[k] \in -2..EpoqueMax
      /\ (c.morte => \A k \in Images : c.images[k] = 0)
  BY FormeDe
<1>3. im \in [Images -> -2..EpoqueMax]
  BY <1>1, <1>2
<1>4. c.morte => \A k \in Images : im[k] = 0
  BY <1>2 DEF Pleine
<1>5. \A k \in Images : im[k] # Pleine
  BY <1>1 DEF Pleine
<1>6. \A k \in Images : im[k] = IF c.images[k] = Pleine THEN e ELSE c.images[k]
  OBVIOUS
<1>7. Detachee(c, e) = [c EXCEPT !.images = im]
  BY FormeDe DEF Detachee, Versions
<1> HIDE DEF im
<1>8. /\ Detachee(c, e) \in Formes /\ Detachee(c, e).images = im
      /\ Detachee(c, e).date = c.date /\ Detachee(c, e).morte = c.morte
  BY <1>3, <1>4, <1>7, FormeFaite
<1> QED
  BY <1>5, <1>6, <1>8 DEF FormesScellees

LEMMA RattacheeForme ==
  ASSUME NEW c \in Formes, NEW S \in SUBSET Pieces
  PROVE  /\ Rattachee(c, S) \in Formes
         /\ Rattachee(c, S).date = c.date /\ Rattachee(c, S).morte = c.morte
         /\ \A k \in Images : Rattachee(c, S).images[k] =
              (IF <<k, c.images[k]>> \in S THEN Pleine ELSE c.images[k])
<1> DEFINE im == [k \in Images |-> IF <<k, c.images[k]>> \in S THEN Pleine ELSE c.images[k]]
<1>1. EpoqueMax \in Nat
  BY ImagesNumbers
<1>2. /\ \A k \in Images : c.images[k] \in -2..EpoqueMax
      /\ (c.morte => \A k \in Images : c.images[k] = 0)
  BY FormeDe
<1>3. im \in [Images -> -2..EpoqueMax]
  BY <1>1, <1>2 DEF Pleine
<1>4. c.morte => \A k \in Images : im[k] = 0
  BY <1>2 DEF Pieces
<1>6. \A k \in Images : im[k] = IF <<k, c.images[k]>> \in S THEN Pleine ELSE c.images[k]
  OBVIOUS
<1>7. Rattachee(c, S) = [c EXCEPT !.images = im]
  BY FormeDe DEF Rattachee, Versions
<1> HIDE DEF im
<1> QED
  BY <1>3, <1>4, <1>6, <1>7, FormeFaite

LEMMA CombleeForme ==
  ASSUME NEW l \in FormesLocales, NEW t \in ListesTrous
  PROVE  /\ Comblee(l, t) \in Formes
         /\ Comblee(l, t).date = l.date /\ Comblee(l, t).morte = l.morte
         /\ \A k \in Images : Comblee(l, t).images[k] =
              (IF l.images[k] = Sans /\ t[k] > 0 THEN t[k] ELSE l.images[k])
<1> DEFINE im == [k \in Images |-> IF l.images[k] = Sans /\ t[k] > 0 THEN t[k] ELSE l.images[k]]
<1>1. EpoqueMax \in Nat
  BY ImagesNumbers
<1>2. /\ l \in Formes
      /\ \A k \in Images : l.images[k] \in -2..EpoqueMax
      /\ (l.morte => \A k \in Images : l.images[k] = 0)
  BY FormeDe DEF FormesLocales
<1>3. im \in [Images -> -2..EpoqueMax]
  BY <1>1, <1>2 DEF ListesTrous
<1>4. l.morte => \A k \in Images : im[k] = 0
  BY <1>2 DEF Sans
<1>6. \A k \in Images : im[k] = IF l.images[k] = Sans /\ t[k] > 0 THEN t[k] ELSE l.images[k]
  OBVIOUS
<1>7. Comblee(l, t) = [l EXCEPT !.images = im]
  BY <1>2, FormeDe DEF Comblee, Versions
<1> HIDE DEF im
<1> QED
  BY <1>2, <1>3, <1>4, <1>6, <1>7, FormeFaite

LEMMA SansTrouForme ==
  ASSUME NEW c \in Formes
  PROVE  /\ SansTrou(c) \in FormesLocales
         /\ SansTrou(c).date = c.date /\ SansTrou(c).morte = c.morte
         /\ \A k \in Images : SansTrou(c).images[k] =
              (IF c.images[k] > 0 THEN Sans ELSE c.images[k])
<1> DEFINE im == [k \in Images |-> IF c.images[k] > 0 THEN Sans ELSE c.images[k]]
<1>1. EpoqueMax \in Nat
  BY ImagesNumbers
<1>2. /\ \A k \in Images : c.images[k] \in -2..EpoqueMax
      /\ (c.morte => \A k \in Images : c.images[k] = 0)
  BY FormeDe
<1>3. im \in [Images -> -2..EpoqueMax]
  BY <1>1, <1>2 DEF Sans
<1>4. c.morte => \A k \in Images : im[k] = 0
  BY <1>2
<1>5. \A k \in Images : im[k] <= 0
  BY <1>1, <1>2 DEF Sans
<1>6. \A k \in Images : im[k] = IF c.images[k] > 0 THEN Sans ELSE c.images[k]
  OBVIOUS
<1>7. SansTrou(c) = [c EXCEPT !.images = im]
  BY FormeDe DEF SansTrou, Versions
<1> HIDE DEF im
<1>8. /\ SansTrou(c) \in Formes /\ SansTrou(c).images = im
      /\ SansTrou(c).date = c.date /\ SansTrou(c).morte = c.morte
  BY <1>3, <1>4, <1>7, FormeFaite
<1> QED
  BY <1>5, <1>6, <1>8 DEF FormesLocales

LEMMA TrousDe ==
  ASSUME NEW c \in Formes
  PROVE  /\ Trous(c) \in ListesTrous
         /\ \A k \in Images : Trous(c)[k] = (IF c.images[k] > 0 THEN c.images[k] ELSE 0)
<1>1. EpoqueMax \in Nat
  BY ImagesNumbers
<1> QED
  BY <1>1, FormeDe DEF Trous, ListesTrous

LEMMA VivanteForme ==
  ASSUME NEW n \in Nat, NEW im \in [Images -> {Absent, Sans, Pleine}]
  PROVE  /\ Vivante(n, im) \in FormesLocales
         /\ Vivante(n, im).date = n /\ ~Vivante(n, im).morte
         /\ Vivante(n, im).images = im
<1>1. EpoqueMax \in Nat
  BY ImagesNumbers
<1>2. im \in [Images -> -2..EpoqueMax] /\ \A k \in Images : im[k] <= 0
  BY <1>1 DEF Absent, Sans, Pleine
<1>3. Vivante(n, im) \in Versions
  BY <1>2 DEF Vivante, Versions
<1> QED
  BY <1>2, <1>3 DEF Vivante, Formes, FormesLocales

LEMMA TombaleForme ==
  ASSUME NEW n \in Nat
  PROVE  /\ Tombale(n) \in FormesLocales
         /\ Tombale(n).date = n /\ Tombale(n).morte
<1>1. EpoqueMax \in Nat
  BY ImagesNumbers
<1>2. Aucune \in [Images -> -2..EpoqueMax] /\ \A k \in Images : Aucune[k] <= 0
  BY <1>1 DEF Aucune, Absent
<1>3. Tombale(n) \in Versions
  BY <1>2 DEF Tombale, Versions
<1> QED
  BY <1>2, <1>3 DEF Tombale, Formes, FormesLocales

LEMMA LocaleDe ==
  ASSUME NEW l \in FormesLocales
  PROVE  /\ l \in Formes /\ l.date \in Nat /\ l.morte \in BOOLEAN
         /\ \A k \in Images : l.images[k] \in {Absent, Sans, Pleine}
         /\ l.images \in [Images -> {Absent, Sans, Pleine}]
         /\ (l.morte => \A k \in Images : l.images[k] = 0)
<1>1. EpoqueMax \in Nat
  BY ImagesNumbers
<1>2. \A k \in Images : l.images[k] \in {Absent, Sans, Pleine}
  BY <1>1, FormeDe DEF FormesLocales, Absent, Sans, Pleine
<1> QED
  BY <1>2, FormeDe DEF FormesLocales

LEMMA RecueForme ==
  ASSUME NEW l \in FormesLocales, NEW c \in FormesLocales
  PROVE  /\ Recue(l, c) \in FormesLocales
         /\ Recue(l, c) \in {l, c} \/
              /\ ~l.morte /\ ~c.morte /\ ~Recue(l, c).morte
              /\ Recue(l, c).date = MaxDe(l.date, c.date)
              /\ \A k \in Images : Recue(l, c).images[k] =
                   (IF l.images[k] <= c.images[k] THEN l.images[k] ELSE c.images[k])
<1> DEFINE im == [k \in Images |-> IF l.images[k] <= c.images[k]
                                   THEN l.images[k] ELSE c.images[k]]
<1>1. /\ l.date \in Nat /\ c.date \in Nat
      /\ \A k \in Images : {l.images[k], c.images[k]} \subseteq {Absent, Sans, Pleine}
  BY LocaleDe
<1>2. im \in [Images -> {Absent, Sans, Pleine}] /\ MaxDe(l.date, c.date) \in Nat
  BY <1>1 DEF MaxDe
<1>3. \/ Recue(l, c) \in {l, c}
      \/ ~l.morte /\ ~c.morte /\ Recue(l, c) = Vivante(MaxDe(l.date, c.date), im)
  BY DEF Recue
<1>4. \A k \in Images : im[k] = (IF l.images[k] <= c.images[k] THEN l.images[k] ELSE c.images[k])
  OBVIOUS
<1> HIDE DEF im
<1>5. CASE Recue(l, c) \in {l, c}
  BY <1>5
<1>6. CASE ~l.morte /\ ~c.morte /\ Recue(l, c) = Vivante(MaxDe(l.date, c.date), im)
  BY <1>2, <1>4, <1>6, VivanteForme
<1> QED
  BY <1>3, <1>5, <1>6

\* What a version refers to.
LEMMA ReferencesDeForme ==
  ASSUME NEW c \in Formes
  PROVE  /\ References(c) \in SUBSET Pieces
         /\ \A k \in Images, n \in 1..EpoqueMax : <<k, n>> \in References(c) <=> c.images[k] = n
         /\ \A k \in Images : c.images[k] > 0 => <<k, c.images[k]>> \in References(c)
<1>1. EpoqueMax \in Nat
  BY ImagesNumbers
<1>2. \A k \in Images : c.images[k] \in -2..EpoqueMax
  BY FormeDe
<1>3. \A k \in Images : c.images[k] > 0 => c.images[k] \in 1..EpoqueMax
  BY <1>1, <1>2
<1> QED
  BY <1>3 DEF References, Pieces

-----------------------------------------------------------------------------
(* A row of a device, step by step                                         *)

LEMMA SuitTransitif ==
  ASSUME NEW a \in Formes, NEW b \in Formes, NEW c \in Formes, Suit(a, b), Suit(b, c)
  PROVE  Suit(a, c)
BY FormeDe DEF Suit

LEMMA TientSuit ==
  ASSUME NEW a \in Formes, NEW b \in Formes, NEW f \in Int, Suit(a, b), Tient(b, f)
  PROVE  Tient(a, f)
BY FormeDe DEF Suit, Tient

LEMMA ScelleeForme ==
  ASSUME NEW O \in Objets
  PROVE  /\ O.forme \in Formes /\ O.forme \in FormesScellees
         /\ O.rev \in Nat /\ O.seq \in Nat /\ O.rev > 0 /\ O.seq > 0
BY DEF Objets, FormesScellees

LEMMA ConnuDe ==
  ASSUME NEW n \in Connus
  PROVE  /\ n.rev \in Nat /\ n.rev > 0
         /\ (n.forme # Rien => n.forme \in Formes)
BY DEF Connus

\* The server gives the object a new version.
LEMMA LigneAvance ==
  ASSUME NEW l \in FormesLocales, NEW t \in ListesTrous, NEW n \in Connus,
         NEW f \in Int, NEW r, NEW O \in Objets, NEW P \in Objets, NEW s \in Nat,
         Ligne(l, t, n, f, r, O), Avance(O, P, s)
  PROVE  Ligne(l, t, n, f, r, P)
<1>1. CASE P = O
  BY <1>1
<1>2. CASE P # O
  <2>1. P.rev = O.rev + 1 /\ Suit(P.forme, O.forme)
    BY <1>2 DEF Avance
  <2>2. n.rev <= P.rev /\ n.rev # P.rev
    BY <2>1, ScelleeForme, ConnuDe DEF Ligne
  <2>3. Tient(O.forme, f) => Tient(P.forme, f)
    BY <2>1, TientSuit, ScelleeForme
  <2>4. ~l.morte => LigneVive(l, t, n, f, r, P)
    BY <2>2, <2>3 DEF Ligne, LigneVive
  <2> QED
    BY <2>2, <2>4 DEF Ligne
<1> QED
  BY <1>1, <1>2

LEMMA EnPageAvance ==
  ASSUME NEW l \in FormesLocales, NEW n \in Connus, NEW f \in Int, NEW e \in Objets,
         NEW O \in Objets, NEW P \in Objets, NEW s \in Nat,
         EnPage(e, l, n, f, O), Avance(O, P, s)
  PROVE  EnPage(e, l, n, f, P)
<1>1. CASE P = O
  BY <1>1
<1>2. CASE P # O
  <2>1. P.rev = O.rev + 1 /\ Suit(P.forme, O.forme)
    BY <1>2 DEF Avance
  <2>2. Suit(P.forme, e.forme)
    BY <2>1, SuitTransitif, ScelleeForme DEF EnPage
  <2> QED
    BY <2>1, <2>2, ScelleeForme DEF EnPage
<1> QED
  BY <1>1, <1>2

LEMMA EnLotAvance ==
  ASSUME NEW v, NEW l, NEW t, NEW n \in Connus,
         NEW O \in Objets, NEW P \in Objets, NEW s \in Nat,
         n.rev <= O.rev, EnLot(v, l, t, n, O), Avance(O, P, s)
  PROVE  EnLot(v, l, t, n, P)
BY ScelleeForme, ConnuDe DEF Avance, EnLot

LEMMA EnRouteAvance ==
  ASSUME NEW b \in Nat, NEW c,
         NEW O \in Objets, NEW P \in Objets, NEW s \in Nat,
         EnRoute(b, c, O), Avance(O, P, s)
  PROVE  EnRoute(b, c, P)
BY ScelleeForme DEF Avance, EnRoute

\* A view writes or deletes the conversation.
Ecrite(l, m) ==
  /\ m.date > l.date
  /\ (~m.morte => /\ ~l.morte
                  /\ \A k \in Images : m.images[k] = l.images[k] \/
                       (l.images[k] = Absent /\ m.images[k] = Pleine))

LEMMA LigneEcrite ==
  ASSUME NEW l \in FormesLocales, NEW m \in FormesLocales, NEW t \in ListesTrous,
         NEW n \in Connus, NEW f \in Int, NEW r, NEW O \in Objets,
         Ligne(l, t, n, f, r, O), Ecrite(l, m)
  PROVE  Ligne(m, t, n, f, r, O)
<1>1. /\ l.date \in Nat /\ m.date \in Nat /\ O.forme.date \in Nat
      /\ (n.forme # Rien => n.forme.date \in Nat)
  BY LocaleDe, ScelleeForme, FormeDe, ConnuDe
<1>2. PlancherTenu(m, f)
  BY <1>1 DEF Ligne, PlancherTenu, Ecrite
<1>3. \A c : c.date \in Nat /\ Suit(l, c) => Suit(m, c)
  BY <1>1 DEF Suit, Ecrite
<1>4. ASSUME ~m.morte PROVE LigneVive(m, t, n, f, r, O)
  <2>1. LigneVive(l, t, n, f, r, O)
    BY <1>4 DEF Ecrite, Ligne
  <2>2. TrouJuste(m, t, n, r)
    BY <1>4, <2>1 DEF LigneVive, TrouJuste, Ecrite, Sans, Absent
  <2>3. \A c : Couverte(l, t, c) => Couverte(m, t, c)
    BY <1>4 DEF Couverte, Ecrite, Sans, Absent, Pleine
  <2> QED
    BY <2>1, <2>2, <2>3 DEF LigneVive
<1> QED
  BY <1>1, <1>2, <1>3, <1>4 DEF Ligne

LEMMA EnLotEcrite ==
  ASSUME NEW v \in Formes, NEW l \in FormesLocales, NEW m \in FormesLocales,
         NEW t \in ListesTrous, NEW n, NEW O, l.morte => m.morte,
         EnLot(v, l, t, n, O), Ecrite(l, m)
  PROVE  EnLot(v, m, t, n, O)
<1>1. /\ l.date \in Nat /\ m.date \in Nat /\ v.date \in Nat
      /\ l.morte \in BOOLEAN /\ m.morte \in BOOLEAN /\ v.morte \in BOOLEAN
  BY LocaleDe, FormeDe
<1>2. Suit(m, v) /\ (v.morte => m.morte)
  BY <1>1 DEF Ecrite, EnLot, Suit
<1>3. ASSUME ~v.morte, ~m.morte, NEW k \in Images
      PROVE  /\ (v.images[k] = Pleine => m.images[k] = Pleine)
             /\ (t[k] > 0 => v.images[k] = t[k])
             /\ (v.images[k] > 0 => v.images[k] = t[k])
  BY <1>3 DEF EnLot, Ecrite, Absent, Pleine
<1> QED
  BY <1>2, <1>3 DEF EnLot

LEMMA EnPageEcrite ==
  ASSUME NEW l, NEW m, NEW n, NEW f, NEW e, NEW O,
         l.morte => m.morte, EnPage(e, l, n, f, O)
  PROVE  EnPage(e, m, n, f, O)
BY DEF EnPage

\* An export lifts the floor to the tombstone it meets.
LEMMA LigneExportee ==
  ASSUME NEW l \in FormesLocales, NEW t, NEW n, NEW f \in Int, NEW g \in Int, NEW r,
         NEW O, Ligne(l, t, n, f, r, O), g = f \/ (l.morte /\ g = MaxDe(f, l.date))
  PROVE  Ligne(l, t, n, g, r, O)
<1>1. PlancherTenu(l, g)
  BY LocaleDe DEF Ligne, PlancherTenu, MaxDe
<1> QED
  BY <1>1 DEF Ligne

LEMMA PageExportee ==
  ASSUME NEW l \in FormesLocales, NEW t, NEW n, NEW f, NEW r,
         NEW O, Ligne(l, t, n, f, r, O), O \in Objets
  PROVE  EnPage(O, l, n, f, O)
BY ScelleeForme, FormeDe DEF Ligne, LigneVive, EnPage, Suit

-----------------------------------------------------------------------------
(* A row of a device that takes in an object e of a page.  p is what the   *)
(* first pass makes of it, c what is known of it in the end.               *)

\* c is e with images attached.
Attache(c, e) ==
  /\ c.date = e.date /\ c.morte = e.morte
  /\ \A k \in Images : c.images[k] = e.images[k] \/ (e.images[k] > 0 /\ c.images[k] = Pleine)

LEMMA RattacheeAttache ==
  ASSUME NEW e \in Formes, NEW S \in SUBSET Pieces
  PROVE  Attache(Rattachee(e, S), e)
<1>1. \A k \in Images : <<k, e.images[k]>> \in S => e.images[k] > 0
  BY ImagesNumbers DEF Pieces
<1>2. /\ Rattachee(e, S).date = e.date /\ Rattachee(e, S).morte = e.morte
      /\ \A k \in Images : Rattachee(e, S).images[k] =
              (IF <<k, e.images[k]>> \in S THEN Pleine ELSE e.images[k])
  BY RattacheeForme
<1> QED
  BY <1>1, <1>2 DEF Attache

LEMMA AttacheTransitif ==
  ASSUME NEW a, NEW b, NEW c, Attache(a, b), Attache(b, c)
  PROVE  Attache(a, c)
BY DEF Attache, Pleine

LEMMA AttacheTient ==
  ASSUME NEW c \in Formes, NEW e \in Formes, Attache(c, e)
  PROVE  /\ \A k \in Images : Tenue(e, k) => Tenue(c, k)
         /\ \A l : Suit(l, c) <=> Suit(l, e)
         /\ \A l, t : Couverte(l, t, c) => Couverte(l, t, e)
         /\ \A k \in Images : c.images[k] > 0 => <<k, c.images[k]>> \in References(e)
<1>1. \A k \in Images : Tenue(e, k) => Tenue(c, k)
  BY DEF Attache, Tenue, Pleine
<1>2. \A l : Suit(l, c) <=> Suit(l, e)
  BY DEF Attache, Suit
<1>3. \A l, t : Couverte(l, t, c) => Couverte(l, t, e)
  BY <1>1 DEF Couverte
<1>4. \A k \in Images : c.images[k] > 0 => c.images[k] = e.images[k]
  BY DEF Attache, Pleine
<1>5. \A k \in Images : c.images[k] > 0 => <<k, c.images[k]>> \in References(e)
  BY <1>4, ReferencesDeForme
<1> QED
  BY <1>1, <1>2, <1>3, <1>5

\* The revision and the references noted with an object of the page.
LEMMA RevNotee ==
  ASSUME NEW n \in Connus, NEW e \in Objets, NEW l, NEW f, NEW O \in Objets,
         EnPage(e, l, n, f, O)
  PROVE  /\ MaxDe(n.rev, e.rev) = e.rev /\ e.rev <= O.rev
         /\ (e.rev = O.rev => e = O)
BY ConnuDe, ScelleeForme DEF EnPage, MaxDe

LEMMA LigneReconnue ==
  ASSUME NEW l \in FormesLocales, NEW t \in ListesTrous, NEW n \in Connus,
         NEW f \in Int, NEW r, NEW O \in Objets, NEW e \in Objets,
         Ligne(l, t, n, f, r, O), EnPage(e, l, n, f, O),
         n.forme \in Formes, Attache(n.forme, e.forme),
         NEW m \in Connus, m.rev = e.rev, m.forme = n.forme
  PROVE  Ligne(l, t, m, f, References(e.forme), O)
<1>1. /\ e.rev <= O.rev /\ (e.rev = O.rev => e = O) /\ e.forme \in Formes
  BY RevNotee, ScelleeForme
<1>2. n.forme # Rien
  BY RienHors
<1>3. Suit(l, n.forme) /\ Suit(l, e.forme)
  BY <1>1, <1>2, AttacheTient DEF Ligne
<1>4. ASSUME ~l.morte PROVE LigneVive(l, t, m, f, References(e.forme), O)
  <2>1. LigneVive(l, t, n, f, r, O)
    BY <1>4 DEF Ligne
  <2>2. Couverte(l, t, n.forme) /\ Couverte(l, t, e.forme)
    BY <1>1, <1>2, <2>1, AttacheTient DEF LigneVive
  <2>3. TrouJuste(l, t, m, References(e.forme))
    BY <1>1, <1>2, <2>1, AttacheTient DEF LigneVive, TrouJuste
  <2> QED
    BY <1>1, <2>1, <2>2, <2>3 DEF LigneVive
<1> QED
  BY <1>1, <1>3, <1>4 DEF Ligne

LEMMA LigneDoutee ==
  ASSUME NEW l, NEW t, NEW n, NEW f, NEW r, NEW O, NEW m,
         Ligne(l, t, n, f, r, O), m.rev = n.rev, m.forme = Rien
  PROVE  Ligne(l, t, m, f, r, O)
BY DEF Ligne, LigneVive, TrouJuste

LEMMA LigneSousPlancher ==
  ASSUME NEW l \in FormesLocales, NEW t, NEW n \in Connus,
         NEW f \in Int, NEW r, NEW O \in Objets, NEW e \in Objets,
         Ligne(l, t, n, f, r, O), EnPage(e, l, n, f, O),
         ~e.forme.morte, f >= e.forme.date,
         NEW m \in Connus, m.rev = e.rev, m.forme \in Formes, Attache(m.forme, e.forme)
  PROVE  Ligne(l, t, m, f, References(e.forme), O)
<1>1. /\ e.rev <= O.rev /\ (e.rev = O.rev => e = O) /\ e.forme \in Formes
      /\ e.forme.date \in Nat /\ l.date \in Nat
  BY RevNotee, ScelleeForme, FormeDe, LocaleDe
<1>2. l.morte /\ f <= l.date
  BY <1>1 DEF EnPage, Tient, Ligne, PlancherTenu
<1>3. Suit(l, e.forme)
  BY <1>1, <1>2 DEF Suit
<1>4. Suit(l, m.forme)
  BY <1>1, <1>3, AttacheTient
<1> QED
  BY <1>1, <1>2, <1>3, <1>4 DEF Ligne

\* What the store makes of an object: no hole where the image is.
LEMMA RecueTrous ==
  ASSUME NEW l \in FormesLocales, NEW c \in Formes, NEW m, m = Recue(l, SansTrou(c)),
         \A k \in Images : l.images[k] = Pleine => c.images[k] <= 0
  PROVE  /\ m \in FormesLocales
         /\ Suit(m, c)
         /\ (~m.morte => Couverte(m, Trous(c), c))
         /\ (~m.morte => \A k \in Images : Trous(c)[k] > 0 =>
               c.images[k] = Trous(c)[k] /\ m.images[k] = Sans)
<1> DEFINE s == SansTrou(c)
<1>1. /\ s \in FormesLocales /\ s.date = c.date /\ s.morte = c.morte
      /\ \A k \in Images : s.images[k] = (IF c.images[k] > 0 THEN Sans ELSE c.images[k])
  BY SansTrouForme
<1>2. /\ l.date \in Nat /\ l.morte \in BOOLEAN /\ c.date \in Nat /\ c.morte \in BOOLEAN
      /\ \A k \in Images : l.images[k] \in {Absent, Sans, Pleine}
      /\ \A k \in Images : c.images[k] \in Int
      /\ (c.morte => \A k \in Images : c.images[k] = 0)
  BY LocaleDe, FormeDe
<1>3. \A k \in Images : Trous(c)[k] = (IF c.images[k] > 0 THEN c.images[k] ELSE 0)
  BY TrousDe
<1>4. m \in FormesLocales
  BY <1>1, RecueForme
<1> HIDE DEF s
<1>5. m = Recue(l, s)
  BY DEF s
<1>6. Suit(m, c)
  <2>1. m \in {l, s} \/ (~c.morte /\ ~l.morte /\ m.date = MaxDe(l.date, s.date))
    BY <1>1, <1>5, RecueForme
  <2>2. m = l => (IF c.morte THEN (l.date > c.date \/ (l.morte /\ l.date >= c.date))
                   ELSE l.date >= c.date) \/ l = s \/ (~c.morte /\ l.date = MaxDe(l.date, s.date))
    BY <1>1, <1>2, <1>5 DEF Recue, Vivante
  <2> QED
    BY <1>1, <1>2, <2>1, <2>2 DEF Suit, MaxDe
<1>7. ASSUME ~m.morte, NEW k \in Images, c.images[k] # 0
      PROVE  m.images[k] = (IF c.images[k] > 0 THEN Sans
                            ELSE IF l.images[k] <= c.images[k] /\ ~l.morte THEN l.images[k]
                            ELSE c.images[k])
  <2>1. ~c.morte
    BY <1>2, <1>7
  <2>2. CASE l.morte
    <3>1. m = l \/ m = s
      BY <1>1, <1>5, <2>1, <2>2 DEF Recue
    <3> QED
      BY <1>1, <1>7, <2>2, <3>1
  <2>3. CASE ~l.morte
    <3>1. m = Vivante(MaxDe(l.date, s.date),
               [x \in Images |-> IF l.images[x] <= s.images[x]
                                 THEN l.images[x] ELSE s.images[x]])
      BY <1>1, <1>5, <2>1, <2>3 DEF Recue
    <3>2. m.images[k] = IF l.images[k] <= s.images[k] THEN l.images[k] ELSE s.images[k]
      BY <3>1 DEF Vivante
    <3>3. c.images[k] > 0 => l.images[k] # Pleine
      BY <1>2
    <3> QED
      BY <1>1, <1>2, <2>3, <3>2, <3>3 DEF Absent, Sans, Pleine
  <2> QED
    BY <2>2, <2>3
<1>8. ASSUME ~m.morte, NEW k \in Images, Trous(c)[k] > 0
      PROVE  c.images[k] = Trous(c)[k] /\ m.images[k] = Sans
  BY <1>2, <1>3, <1>7, <1>8
<1>9. ASSUME ~m.morte, NEW k \in Images, Tenue(c, k)
      PROVE  m.images[k] = Pleine \/ (m.images[k] = Sans /\ Trous(c)[k] > 0)
  BY <1>2, <1>3, <1>7, <1>9 DEF Tenue, Absent, Sans, Pleine
<1> QED
  BY <1>4, <1>6, <1>8, <1>9 DEF Couverte

LEMMA LigneIngeree ==
  ASSUME NEW l \in FormesLocales, NEW t, NEW n \in Connus,
         NEW f \in Int, NEW r, NEW O \in Objets, NEW e \in Objets,
         Ligne(l, t, n, f, r, O), EnPage(e, l, n, f, O),
         e.forme.morte \/ f < e.forme.date,
         NEW c \in Formes, Attache(c, e.forme),
         \A k \in Images : l.images[k] = Pleine => c.images[k] <= 0,
         NEW g, g = IF c.morte THEN MaxDe(f, c.date) ELSE f,
         NEW m \in Connus, m.rev = e.rev, m.forme = c
  PROVE  Ligne(Recue(l, SansTrou(c)), Trous(c), m, g, References(e.forme), O)
<1> DEFINE w == Recue(l, SansTrou(c))
<1>1. /\ w \in FormesLocales /\ Suit(w, c)
      /\ (~w.morte => Couverte(w, Trous(c), c))
      /\ (~w.morte => \A k \in Images : Trous(c)[k] > 0 =>
               c.images[k] = Trous(c)[k] /\ w.images[k] = Sans)
  BY RecueTrous
<1>2. /\ e.rev <= O.rev /\ (e.rev = O.rev => e = O) /\ e.forme \in Formes
      /\ O.forme \in Formes
  BY RevNotee, ScelleeForme
<1>3. /\ l.date \in Nat /\ l.morte \in BOOLEAN /\ c.date \in Nat /\ c.morte \in BOOLEAN
      /\ O.forme.date \in Nat /\ e.forme.date = c.date /\ e.forme.morte = c.morte
      /\ w.date \in Nat
  BY <1>1, <1>2, LocaleDe, FormeDe DEF Attache
<1>4. /\ w.date >= c.date /\ (w.date = c.date /\ c.morte => w.morte)
  BY <1>1, <1>3 DEF Suit
<1>5. w.date >= l.date /\ (w.date = l.date /\ l.morte /\ ~w.morte => ~c.morte /\ l.date < c.date)
      /\ (~w.morte => ~l.morte \/ (~c.morte /\ w.date = c.date))
  <2>1. SansTrou(c).date = c.date /\ SansTrou(c).morte = c.morte
    BY SansTrouForme
  <2> QED
    BY <1>3, <2>1 DEF Recue, MaxDe, Vivante
<1> HIDE DEF w
<1>6. PlancherTenu(w, g)
  BY <1>3, <1>4, <1>5 DEF Ligne, PlancherTenu, MaxDe
<1>7. Suit(w, e.forme)
  BY <1>1, <1>2, AttacheTient
<1>8. ASSUME ~w.morte PROVE LigneVive(w, Trous(c), m, g, References(e.forme), O)
  <2>1. Couverte(w, Trous(c), c) /\ Couverte(w, Trous(c), e.forme)
    BY <1>1, <1>2, <1>8, AttacheTient
  <2>2. TrouJuste(w, Trous(c), m, References(e.forme))
    <3>1. \A k \in Images : Trous(c)[k] > 0 => <<k, Trous(c)[k]>> \in References(e.forme)
      BY <1>1, <1>2, <1>8, AttacheTient
    <3> QED
      BY <1>1, <1>8, <3>1 DEF TrouJuste
  <2>3. Tient(O.forme, g)
    <3>1. ~l.morte => Tient(O.forme, f)
      BY DEF Ligne, LigneVive
    <3>2. Suit(O.forme, e.forme)
      BY DEF EnPage
    <3>3. CASE c.morte
      BY <1>3, <1>5, <1>8, <3>1, <3>2, <3>3 DEF Tient, Suit, MaxDe
    <3>4. CASE ~c.morte
      BY <1>3, <3>2, <3>4 DEF Tient, Suit
    <3> QED
      BY <1>3, <3>3, <3>4
  <2> QED
    BY <1>2, <2>1, <2>2, <2>3 DEF LigneVive
<1> QED
  BY <1>1, <1>2, <1>6, <1>7, <1>8 DEF Ligne, w

-----------------------------------------------------------------------------
(* A row whose holes are read, one that is pushed                          *)

\* a is the row with its holes, some of them filled.
LEMMA LigneReparee ==
  ASSUME NEW l \in FormesLocales, NEW t \in ListesTrous, NEW n \in Connus,
         NEW f \in Int, NEW r, NEW O \in Objets,
         Ligne(l, t, n, f, r, O),
         NEW a \in Formes, Attache(a, Comblee(l, t)),
         NEW m \in Connus, m.rev = n.rev, m.forme \in {Rien, n.forme, a}
  PROVE  Ligne(Recue(l, SansTrou(a)), Trous(a), m, f, r, O)
<1> DEFINE w == Recue(l, SansTrou(a))
<1>1. /\ Comblee(l, t) \in Formes
      /\ Comblee(l, t).date = l.date /\ Comblee(l, t).morte = l.morte
      /\ \A k \in Images : Comblee(l, t).images[k] =
              (IF l.images[k] = Sans /\ t[k] > 0 THEN t[k] ELSE l.images[k])
  BY CombleeForme
<1>2. /\ l.date \in Nat /\ l.morte \in BOOLEAN
      /\ \A k \in Images : l.images[k] \in {Absent, Sans, Pleine}
      /\ (l.morte => \A k \in Images : l.images[k] = 0)
      /\ \A k \in Images : t[k] \in 0..EpoqueMax /\ a.images[k] \in Int
      /\ EpoqueMax \in Nat
  BY LocaleDe, FormeDe, ImagesNumbers DEF ListesTrous
<1>3. \A k \in Images : l.images[k] = Pleine => a.images[k] <= 0
  BY <1>1, <1>2 DEF Attache, Pleine, Sans
<1>4. /\ w \in FormesLocales /\ Suit(w, a)
      /\ (~w.morte => Couverte(w, Trous(a), a))
      /\ (~w.morte => \A k \in Images : Trous(a)[k] > 0 =>
               a.images[k] = Trous(a)[k] /\ w.images[k] = Sans)
  BY <1>3, RecueTrous
<1>5. a.date = l.date /\ a.morte = l.morte
  BY <1>1 DEF Attache
<1>6. w.date = l.date /\ w.morte = l.morte
  <2>1. SansTrou(a).date = l.date /\ SansTrou(a).morte = l.morte
    BY <1>5, SansTrouForme
  <2> QED
    BY <1>2, <2>1 DEF Recue, Vivante, MaxDe
<1> HIDE DEF w
<1>7. \A c : Suit(l, c) => Suit(w, c)
  BY <1>6 DEF Suit
<1>8. ASSUME ~w.morte PROVE LigneVive(w, Trous(a), m, f, r, O)
  <2>1. LigneVive(l, t, n, f, r, O)
    BY <1>6, <1>8 DEF Ligne
  <2>2. \A k \in Images : t[k] > 0 => l.images[k] = Sans
    BY <2>1 DEF LigneVive, TrouJuste
  <2>3. ASSUME NEW k \in Images, Trous(a)[k] > 0
        PROVE  Trous(a)[k] = t[k] /\ l.images[k] = Sans /\ a.images[k] = t[k]
    <3>1. a.images[k] = Trous(a)[k]
      BY <1>4, <1>8, <2>3
    <3>2. a.images[k] = Comblee(l, t).images[k]
      BY <2>3, <3>1 DEF Attache, Pleine
    <3> QED
      BY <1>1, <1>2, <2>3, <3>1, <3>2 DEF Absent, Sans, Pleine
  <2>4. TrouJuste(w, Trous(a), m, r)
    BY <1>4, <1>8, <2>1, <2>3 DEF LigneVive, TrouJuste
  <2>5. ASSUME NEW c, Couverte(l, t, c) PROVE Couverte(w, Trous(a), c)
    <3>1. ASSUME NEW k \in Images, Tenue(c, k) PROVE Tenue(a, k)
      <4>1. l.images[k] = Pleine \/ (l.images[k] = Sans /\ t[k] > 0)
        BY <2>5, <3>1 DEF Couverte
      <4>2. Tenue(Comblee(l, t), k)
        BY <1>1, <4>1 DEF Tenue, Sans, Pleine
      <4> QED
        BY <4>2 DEF Attache, Tenue, Pleine
    <3> QED
      BY <1>4, <1>8, <3>1 DEF Couverte
  <2>6. Couverte(w, Trous(a), a)
    BY <1>4, <1>8
  <2> QED
    BY <2>1, <2>4, <2>5, <2>6 DEF LigneVive
<1>9. m.forme # Rien => Suit(w, m.forme)
  BY <1>4, <1>7 DEF Ligne
<1> QED
  BY <1>6, <1>7, <1>8, <1>9 DEF Ligne, PlancherTenu, w

\* What a lot takes of a row.
LEMMA EnLotPrepare ==
  ASSUME NEW l \in FormesLocales, NEW t \in ListesTrous, NEW n \in Connus,
         NEW f \in Int, NEW r, NEW O \in Objets,
         Ligne(l, t, n, f, r, O)
  PROVE  EnLot(Comblee(l, t), l, t, n, O)
<1> DEFINE v == Comblee(l, t)
<1>1. /\ v \in Formes /\ v.date = l.date /\ v.morte = l.morte
      /\ \A k \in Images : v.images[k] =
              (IF l.images[k] = Sans /\ t[k] > 0 THEN t[k] ELSE l.images[k])
  BY CombleeForme
<1>2. /\ l.date \in Nat /\ l.morte \in BOOLEAN
      /\ \A k \in Images : l.images[k] \in {Absent, Sans, Pleine}
      /\ \A k \in Images : t[k] \in 0..EpoqueMax
      /\ EpoqueMax \in Nat
  BY LocaleDe, ImagesNumbers DEF ListesTrous
<1> HIDE DEF v
<1>3. Suit(l, v) /\ (v.morte => l.morte)
  BY <1>1 DEF Suit
<1>4. ASSUME ~l.morte, NEW k \in Images
      PROVE  /\ (v.images[k] = Pleine => l.images[k] = Pleine)
             /\ (t[k] > 0 => v.images[k] = t[k])
             /\ (v.images[k] > 0 => v.images[k] = t[k])
  <2>1. t[k] > 0 => l.images[k] = Sans
    BY <1>4 DEF Ligne, LigneVive, TrouJuste
  <2> QED
    BY <1>1, <1>2, <2>1 DEF Absent, Sans, Pleine
<1>5. ASSUME n.rev = O.rev PROVE Suit(v, O.forme) /\ Couvre(v, O.forme)
  <2>1. Suit(v, O.forme)
    BY <1>1, <1>5 DEF Ligne, Suit
  <2>2. ASSUME ~v.morte, NEW k \in Images, Tenue(O.forme, k) PROVE Tenue(v, k)
    <3>1. Couverte(l, t, O.forme)
      BY <1>1, <1>5, <2>2 DEF Ligne, LigneVive
    <3>2. l.images[k] = Pleine \/ (l.images[k] = Sans /\ t[k] > 0)
      BY <2>2, <3>1 DEF Couverte
    <3> QED
      BY <1>1, <3>2 DEF Tenue, Sans, Pleine
  <2> QED
    BY <2>1, <2>2 DEF Couvre
<1> QED
  BY <1>1, <1>3, <1>4, <1>5 DEF EnLot, v

\* What a push says of it.
LEMMA EnRouteDetachee ==
  ASSUME NEW v \in Formes, NEW l, NEW t, NEW n \in Connus, NEW O \in Objets,
         NEW e \in 1..EpoqueMax, n.rev <= O.rev, EnLot(v, l, t, n, O)
  PROVE  EnRoute(n.rev, Detachee(v, e), O)
<1>1. /\ Detachee(v, e).date = v.date /\ Detachee(v, e).morte = v.morte
      /\ \A k \in Images : Detachee(v, e).images[k] =
              (IF v.images[k] = Pleine THEN e ELSE v.images[k])
  BY DetacheeForme
<1>2. EpoqueMax \in Nat
  BY ImagesNumbers
<1>3. \A c : Suit(v, c) => Suit(Detachee(v, e), c)
  BY <1>1 DEF Suit
<1>4. \A k \in Images : Tenue(v, k) => Tenue(Detachee(v, e), k)
  BY <1>1, <1>2 DEF Tenue, Pleine
<1>5. \A c : Couvre(v, c) => Couvre(Detachee(v, e), c)
  BY <1>1, <1>4 DEF Couvre
<1> QED
  BY <1>3, <1>5 DEF EnLot, EnRoute

LEMMA LignePoussee ==
  ASSUME NEW l \in FormesLocales, NEW t \in ListesTrous, NEW n \in Connus,
         NEW f \in Int, NEW r, NEW O \in Objets, NEW P \in Objets,
         NEW v \in Formes, NEW e \in 1..EpoqueMax,
         Ligne(l, t, n, f, r, O), EnLot(v, l, t, n, O),
         n.rev = O.rev, P.rev = n.rev + 1, P.forme = Detachee(v, e),
         NEW m \in Connus, m.rev = n.rev + 1, m.forme = v,
         NEW g, g = IF v.morte THEN MaxDe(f, v.date) ELSE f,
         NEW u, u = IF v.morte THEN Aucune ELSE t
  PROVE  Ligne(l, u, m, g, References(Detachee(v, e)), P)
<1>1. /\ Detachee(v, e) \in Formes
      /\ Detachee(v, e).date = v.date /\ Detachee(v, e).morte = v.morte
      /\ \A k \in Images : Detachee(v, e).images[k] =
              (IF v.images[k] = Pleine THEN e ELSE v.images[k])
  BY DetacheeForme DEF FormesScellees
<1>2. /\ l.date \in Nat /\ l.morte \in BOOLEAN /\ v.date \in Nat /\ v.morte \in BOOLEAN
      /\ \A k \in Images : l.images[k] \in {Absent, Sans, Pleine}
      /\ \A k \in Images : t[k] \in 0..EpoqueMax /\ v.images[k] \in Int
      /\ EpoqueMax \in Nat /\ v # Rien
  BY LocaleDe, FormeDe, ImagesNumbers, RienHors DEF ListesTrous
<1>3. Suit(l, v) /\ Suit(l, P.forme) /\ (v.morte => l.morte)
  BY <1>1 DEF EnLot, Suit
<1>4. PlancherTenu(l, g)
  BY <1>2, <1>3 DEF Ligne, PlancherTenu, Suit, MaxDe
<1>5. ASSUME ~l.morte PROVE LigneVive(l, u, m, g, References(Detachee(v, e)), P)
  <2>1. ~v.morte /\ u = t /\ g = f
    BY <1>3, <1>5
  <2>2. LigneVive(l, t, n, f, r, O)
    BY <1>5 DEF Ligne
  <2>3. \A k \in Images : t[k] > 0 => l.images[k] = Sans
    BY <2>2 DEF LigneVive, TrouJuste
  <2>4. \A k \in Images :
          /\ (v.images[k] = Pleine => l.images[k] = Pleine)
          /\ (t[k] > 0 => v.images[k] = t[k])
          /\ (v.images[k] > 0 => v.images[k] = t[k])
    BY <1>5, <2>1 DEF EnLot
  <2>5. TrouJuste(l, t, m, References(Detachee(v, e)))
    <3>1. ASSUME NEW k \in Images, t[k] > 0
          PROVE  Detachee(v, e).images[k] = t[k]
      BY <1>1, <1>2, <2>4, <3>1 DEF Pleine
    <3>2. ASSUME NEW k \in Images, t[k] > 0
          PROVE  <<k, t[k]>> \in References(Detachee(v, e))
      BY <1>1, <3>1, <3>2, ReferencesDeForme
    <3> QED
      BY <2>3, <2>4, <3>2 DEF TrouJuste
  <2>6. Tient(P.forme, f)
    <3>1. Suit(v, O.forme) /\ Tient(O.forme, f)
      BY <2>2 DEF EnLot, LigneVive
    <3>2. Tient(v, f)
      BY <3>1, TientSuit, ScelleeForme
    <3> QED
      BY <1>1, <3>2 DEF Tient
  <2>7. ASSUME NEW k \in Images, Tenue(v, k) \/ Tenue(P.forme, k)
        PROVE  l.images[k] = Pleine \/ (l.images[k] = Sans /\ t[k] > 0)
    <3>1. Tenue(v, k)
      BY <1>1, <2>7 DEF Tenue, Pleine
    <3> QED
      BY <2>3, <2>4, <3>1 DEF Tenue
  <2> QED
    BY <2>1, <2>5, <2>6, <2>7 DEF LigneVive, Couverte
<1>6. m.rev = P.rev /\ m.rev \in Nat /\ P.rev \in Nat
  BY ConnuDe, ScelleeForme
<1>7. Suit(l, m.forme) /\ References(Detachee(v, e)) = References(P.forme)
  BY <1>3
<1> QED
  BY <1>3, <1>4, <1>5, <1>6, <1>7 DEF Ligne

-----------------------------------------------------------------------------
(* The invariant                                                           *)

Etats == {"repos", "accueil", "conflit", "reclame", "ranime", "lot", "depose", "marque"}
Cycles == [pc : Etats, ouverte : 0..EpoqueMax, asOf : Nat,
           page : [Ids -> Objets \cup {Rien}], lot : [Ids -> Formes \cup {Rien}],
           file : SUBSET Pieces, jour : Nat]

LignesDeLot == [base : Nat \ {0}, forme : FormesScellees]
Demandes ==
  [de : Appareils, type : {"missing"}, pieces : SUBSET Pieces] \cup
  [de : Appareils, type : {"put"}, piece : Pieces] \cup
  [de : Appareils, type : {"delete"}, piece : Pieces, asOf : Nat] \cup
  [de : Appareils, type : {"push"}, epoque : 0..EpoqueMax, jour : Nat,
   lot : [Ids -> LignesDeLot \cup {Rien}]]

TypesAppareils ==
  /\ locale \in [Appareils -> [Ids -> FormesLocales]]
  /\ trous \in [Appareils -> [Ids -> ListesTrous]]
  /\ connu \in [Appareils -> [Ids -> Connus]]
  /\ plancher \in [Appareils -> [Ids -> Int]]
  /\ refs \in [Appareils -> [Ids -> SUBSET Pieces]]
  /\ connues \in [Appareils -> SUBSET Pieces]
  /\ curseur \in [Appareils -> Nat]
  /\ reclamation \in [Appareils -> Nat]
  /\ cycle \in [Appareils -> Cycles]

TypesServeur ==
  /\ objets \in [Ids -> Objets]
  /\ pieces \in [Pieces -> Rangees \cup {Rien}]
  /\ seq \in Nat /\ epoque \in 1..EpoqueMax /\ jour \in Nat
  /\ \A o \in Ids : objets[o].seq <= seq /\ objets[o].epoque <= epoque
  /\ \A p \in Pieces : pieces[p] # Rien =>
       /\ 0 < pieces[p].reclame /\ pieces[p].reclame <= seq
       /\ (pieces[p].orpheline # Rien => pieces[p].orpheline <= jour)

Types == TypesAppareils /\ TypesServeur /\ errantes \subseteq Demandes

Cellule(d, o) ==
  Ligne(locale[d][o], trous[d][o], connu[d][o], plancher[d][o], refs[d][o], objets[o])
AJour(d, o) == connu[d][o].rev = objets[o].rev

PageJuste(d, o) ==
  /\ cycle[d].page[o] # Rien =>
       /\ cycle[d].pc \in {"accueil", "conflit"}
       /\ EnPage(cycle[d].page[o], locale[d][o], connu[d][o], plancher[d][o], objets[o])
  /\ cycle[d].pc = "accueil" /\ objets[o].seq <= cycle[d].asOf =>
       AJour(d, o) \/ cycle[d].page[o] = objets[o]

LotJuste(d, o) ==
  cycle[d].pc = "depose" /\ cycle[d].lot[o] # Rien =>
    EnLot(cycle[d].lot[o], locale[d][o], trous[d][o], connu[d][o], objets[o])

VuesJustes(d, o) ==
  /\ refs[d][o] \subseteq connues[d]
  /\ (objets[o].seq <= curseur[d] => AJour(d, o))

\* What a device owes to the server's version of its conversations.
AppareilJuste(d) ==
  /\ curseur[d] <= seq /\ cycle[d].asOf <= seq
  /\ (cycle[d].pc # "repos" => cycle[d].ouverte > 0)
  /\ \A o \in Ids : Cellule(d, o) /\ PageJuste(d, o) /\ LotJuste(d, o) /\ VuesJustes(d, o)

PousseeJuste(r) ==
  r.type = "push" =>
    \A o \in Ids : r.lot[o] # Rien => EnRoute(r.lot[o].base, r.lot[o].forme, objets[o])

Lignes ==
  /\ \A d \in Appareils : AppareilJuste(d)
  /\ \A r \in errantes : PousseeJuste(r)

-----------------------------------------------------------------------------
(* The server                                                              *)

\* What every step makes of the objects.
Progres == \A o \in Ids : Avance(objets[o], objets'[o], seq)

LEMMA PurgeesType ==
  ASSUME TypesServeur
  PROVE  /\ Purgees \in [Pieces -> Rangees \cup {Rien}]
         /\ \A p \in Pieces : Purgees[p] # Rien => Purgees[p] = pieces[p]
BY DEF TypesServeur, Purgees

\* A server whose pieces are rewritten: reclaimed at the next number, marked
\* today, purged or left.
LEMMA PiecesType ==
  ASSUME TypesServeur, NEW s \in Nat, seq <= s,
         NEW q \in [Pieces -> Rangees \cup {Rien}],
         \A p \in Pieces : q[p] # Rien =>
           \/ q[p] = pieces[p]
           \/ q[p] = [reclame |-> s, orpheline |-> Rien] /\ s > 0
           \/ pieces[p] # Rien /\ q[p] = [pieces[p] EXCEPT !.orpheline = jour]
  PROVE  \A p \in Pieces : q[p] # Rien =>
           /\ 0 < q[p].reclame /\ q[p].reclame <= s
           /\ (q[p].orpheline # Rien => q[p].orpheline <= jour)
<1> SUFFICES ASSUME NEW p \in Pieces, q[p] # Rien
             PROVE  /\ 0 < q[p].reclame /\ q[p].reclame <= s
                    /\ (q[p].orpheline # Rien => q[p].orpheline <= jour)
  OBVIOUS
<1>1. pieces[p] # Rien => pieces[p] \in Rangees
  BY DEF TypesServeur
<1>2. CASE q[p] = pieces[p]
  BY <1>1, <1>2 DEF TypesServeur, Rangees
<1>3. CASE q[p] = [reclame |-> s, orpheline |-> Rien] /\ s > 0
  BY <1>3
<1>4. CASE pieces[p] # Rien /\ q[p] = [pieces[p] EXCEPT !.orpheline = jour]
  BY <1>1, <1>4 DEF TypesServeur, Rangees
<1> QED
  BY <1>2, <1>3, <1>4

LEMMA MissingType ==
  ASSUME TypesServeur, NEW S \in SUBSET Pieces, ServirMissing(S), jour' = jour
  PROVE  TypesServeur' /\ UNCHANGED <<objets, epoque>>
<1>1. UNCHANGED <<objets, epoque>>
  BY DEF ServirMissing
<1>2. seq' \in Nat /\ seq <= seq'
  BY DEF ServirMissing, TypesServeur
<1>3. pieces' \in [Pieces -> Rangees \cup {Rien}]
  BY DEF ServirMissing, TypesServeur, Rangees
<1>4. \A p \in Pieces : pieces'[p] # Rien =>
           \/ pieces'[p] = pieces[p]
           \/ pieces'[p] = [reclame |-> seq', orpheline |-> Rien] /\ seq' > 0
  BY DEF ServirMissing, TypesServeur
<1>5. \A p \in Pieces : pieces'[p] # Rien =>
           /\ 0 < pieces'[p].reclame /\ pieces'[p].reclame <= seq'
           /\ (pieces'[p].orpheline # Rien => pieces'[p].orpheline <= jour)
  BY <1>2, <1>3, <1>4, PiecesType
<1>6. \A o \in Ids : objets[o].seq <= seq'
  BY <1>2, ScelleeForme DEF TypesServeur
<1> QED
  BY <1>1, <1>2, <1>3, <1>5, <1>6 DEF TypesServeur

LEMMA PutType ==
  ASSUME TypesServeur, NEW p \in Pieces, ServirPut(p), jour' = jour
  PROVE  TypesServeur' /\ UNCHANGED <<objets, epoque>>
<1>1. CASE p[2] # epoque
  BY <1>1 DEF ServirPut, serveur, TypesServeur
<1>2. CASE p[2] = epoque
  <2>1. UNCHANGED <<objets, epoque>> /\ seq' = seq + 1
        /\ pieces' = [Purgees EXCEPT ![p] = [reclame |-> seq + 1, orpheline |-> Rien]]
    BY <1>2 DEF ServirPut
  <2>2. seq' \in Nat /\ seq <= seq' /\ seq' > 0
    BY <2>1 DEF TypesServeur
  <2>3. pieces' \in [Pieces -> Rangees \cup {Rien}]
    BY <2>1, <2>2, PurgeesType DEF Rangees
  <2>4. \A x \in Pieces : pieces'[x] # Rien =>
           \/ pieces'[x] = pieces[x]
           \/ pieces'[x] = [reclame |-> seq', orpheline |-> Rien] /\ seq' > 0
    BY <2>1, <2>2, PurgeesType
  <2>5. \A x \in Pieces : pieces'[x] # Rien =>
           /\ 0 < pieces'[x].reclame /\ pieces'[x].reclame <= seq'
           /\ (pieces'[x].orpheline # Rien => pieces'[x].orpheline <= jour)
    BY <2>2, <2>3, <2>4, PiecesType
  <2>6. \A o \in Ids : objets[o].seq <= seq'
    BY <2>2, ScelleeForme DEF TypesServeur
  <2> QED
    BY <2>1, <2>2, <2>3, <2>5, <2>6 DEF TypesServeur
<1> QED
  BY <1>1, <1>2

LEMMA DeleteType ==
  ASSUME TypesServeur, NEW p \in Pieces, NEW n, ServirDelete(p, n), jour' = jour
  PROVE  TypesServeur' /\ UNCHANGED <<objets, epoque>>
<1>1. UNCHANGED <<objets, seq, epoque>>
  BY DEF ServirDelete
<1>2. pieces[p] # Rien => pieces[p] \in Rangees
  BY DEF TypesServeur
<1>3. pieces' \in [Pieces -> Rangees \cup {Rien}]
  BY <1>2 DEF ServirDelete, TypesServeur, Rangees
<1>4. \A x \in Pieces : pieces'[x] # Rien =>
           \/ pieces'[x] = pieces[x]
           \/ pieces[x] # Rien /\ pieces'[x] = [pieces[x] EXCEPT !.orpheline = jour]
  BY DEF ServirDelete, TypesServeur
<1>5. \A x \in Pieces : pieces'[x] # Rien =>
           /\ 0 < pieces'[x].reclame /\ pieces'[x].reclame <= seq
           /\ (pieces'[x].orpheline # Rien => pieces'[x].orpheline <= jour)
  <2>1. seq \in Nat /\ seq <= seq
    BY DEF TypesServeur
  <2> QED
    BY <2>1, <1>3, <1>4, PiecesType
<1> QED
  BY <1>1, <1>3, <1>5 DEF TypesServeur

LEMMA PushType ==
  ASSUME TypesServeur, NEW l \in [Ids -> LignesDeLot \cup {Rien}], NEW e \in 0..EpoqueMax,
         \A o \in Ids : l[o] # Rien => EnRoute(l[o].base, l[o].forme, objets[o]),
         ServirPush(l, e), jour' = jour
  PROVE  /\ TypesServeur' /\ epoque' = epoque /\ seq <= seq' /\ Progres
         /\ \A o \in Ids : objets'[o] = objets[o] \/
              (o \in Stockes(l) /\ objets'[o].rev = l[o].base + 1
                 /\ objets'[o].forme = l[o].forme)
<1>1. CASE e # epoque
  BY <1>1 DEF ServirPush, serveur, TypesServeur, Progres, Avance
<1>2. CASE e = epoque
  <2>1. PICK n \in Numeros(l) :
          objets' = [o \in Ids |->
              IF o \in Stockes(l)
              THEN [rev |-> l[o].base + 1, seq |-> n[o], epoque |-> e,
                    forme |-> l[o].forme]
              ELSE objets[o]]
    BY <1>2 DEF ServirPush
  <2>2. /\ pieces' = Purgees /\ epoque' = epoque
        /\ seq' = seq + Cardinality(Stockes(l))
    BY <1>2 DEF ServirPush
  <2>3. Stockes(l) \subseteq Ids /\ IsFiniteSet(Stockes(l))
    BY ImagesNumbers, FS_Subset DEF Stockes
  <2>4. Cardinality(Stockes(l)) \in Nat
    BY <2>3, FS_CardinalityType
  <2>5. seq \in Nat /\ seq' \in Nat /\ seq <= seq'
    BY <2>2, <2>4 DEF TypesServeur
  <2>6. \A o \in Stockes(l) : n[o] \in Nat /\ n[o] > seq /\ n[o] <= seq'
    BY <2>1, <2>2, <2>4, <2>5 DEF Numeros
  <2>7. \A o \in Stockes(l) :
          /\ l[o] \in LignesDeLot /\ l[o] # Rien /\ l[o].base = objets[o].rev
          /\ EnRoute(l[o].base, l[o].forme, objets[o])
    BY DEF Stockes
  <2>8. ASSUME NEW o \in Ids
        PROVE  /\ objets'[o] \in Objets /\ Avance(objets[o], objets'[o], seq)
               /\ objets'[o].seq <= seq' /\ objets'[o].epoque <= epoque'
               /\ objets'[o] = objets[o] \/
                    (o \in Stockes(l) /\ objets'[o].rev = l[o].base + 1
                       /\ objets'[o].forme = l[o].forme)
    <3>1. CASE o \in Stockes(l)
      <4>1. objets'[o] = [rev |-> l[o].base + 1, seq |-> n[o], epoque |-> e,
                          forme |-> l[o].forme]
        BY <2>1, <3>1
      <4>2. l[o].base \in Nat /\ l[o].forme \in FormesScellees
        BY <2>7, <3>1 DEF LignesDeLot
      <4>3. objets'[o] \in Objets
        BY <1>2, <2>6, <3>1, <4>1, <4>2 DEF Objets, TypesServeur
      <4>4. Avance(objets[o], objets'[o], seq)
        BY <2>6, <2>7, <3>1, <4>1 DEF Avance, EnRoute
      <4> QED
        BY <1>2, <2>2, <2>6, <3>1, <4>1, <4>3, <4>4 DEF TypesServeur
    <3>2. CASE o \notin Stockes(l)
      <4>1. objets'[o] = objets[o]
        BY <2>1, <3>2
      <4>2. objets[o] \in Objets /\ objets[o].seq \in Nat
        BY ScelleeForme DEF TypesServeur
      <4> QED
        BY <2>2, <2>5, <4>1, <4>2 DEF TypesServeur, Avance
    <3> QED
      BY <3>1, <3>2
  <2>9. objets' \in [Ids -> Objets]
    BY <2>1, <2>8
  <2>10. \A p \in Pieces : pieces'[p] # Rien =>
           /\ 0 < pieces'[p].reclame /\ pieces'[p].reclame <= seq'
           /\ (pieces'[p].orpheline # Rien => pieces'[p].orpheline <= jour)
    BY <2>2, <2>5, PurgeesType, PiecesType
  <2> QED
    BY <2>2, <2>5, <2>8, <2>9, <2>10, PurgeesType DEF TypesServeur, Progres
<1> QED
  BY <1>1, <1>2

LEMMA DemandeDe ==
  ASSUME NEW r \in Demandes
  PROVE  /\ (r.type = "missing" => r.pieces \in SUBSET Pieces)
         /\ (r.type = "put" => r.piece \in Pieces)
         /\ (r.type = "delete" => r.piece \in Pieces)
         /\ (r.type = "push" => /\ r.lot \in [Ids -> LignesDeLot \cup {Rien}]
                                /\ r.epoque \in 0..EpoqueMax /\ r.jour \in Nat)
BY DEF Demandes

LEMMA ServirProgres ==
  ASSUME TypesServeur, NEW r \in Demandes, PousseeJuste(r), Servir(r), jour' = jour
  PROVE  /\ TypesServeur' /\ epoque' = epoque /\ seq <= seq' /\ Progres
         /\ \A o \in Ids : objets'[o] = objets[o] \/
              (r.type = "push" /\ o \in Stockes(r.lot) /\ objets'[o].rev = r.lot[o].base + 1
                 /\ objets'[o].forme = r.lot[o].forme)
<1>0. seq <= seq'
  <2>1. seq \in Nat
    BY DEF TypesServeur
  <2>2. CASE UNCHANGED serveur
    BY <2>1, <2>2 DEF serveur
  <2>3. CASE r.type = "missing" /\ ServirMissing(r.pieces)
    BY <2>1, <2>3 DEF ServirMissing
  <2>4. CASE r.type = "put" /\ ServirPut(r.piece)
    BY <2>1, <2>4 DEF ServirPut, serveur
  <2>5. CASE r.type = "delete" /\ ServirDelete(r.piece, r.asOf)
    BY <2>1, <2>5 DEF ServirDelete
  <2>6. CASE r.type = "push" /\ ServirPush(r.lot, r.epoque)
    BY <2>6, DemandeDe, PushType DEF PousseeJuste
  <2> QED
    BY <2>2, <2>3, <2>4, <2>5, <2>6 DEF Servir
<1>1. CASE UNCHANGED serveur
  BY <1>0, <1>1 DEF serveur, TypesServeur, Progres, Avance
<1>2. CASE r.type = "missing" /\ ServirMissing(r.pieces)
  BY <1>0, <1>2, DemandeDe, MissingType DEF Progres, Avance
<1>3. CASE r.type = "put" /\ ServirPut(r.piece)
  BY <1>0, <1>3, DemandeDe, PutType DEF Progres, Avance
<1>4. CASE r.type = "delete" /\ ServirDelete(r.piece, r.asOf)
  BY <1>0, <1>4, DemandeDe, DeleteType DEF Progres, Avance
<1>5. CASE r.type = "push" /\ ServirPush(r.lot, r.epoque)
  BY <1>0, <1>5, DemandeDe, PushType DEF PousseeJuste
<1> QED
  BY <1>1, <1>2, <1>3, <1>4, <1>5 DEF Servir

-----------------------------------------------------------------------------
(* Types, action by action                                                 *)

LEMMA RangDe ==
  ASSUME TypesAppareils, NEW d \in Appareils
  PROVE  /\ cycle[d] \in Cycles /\ connues[d] \in SUBSET Pieces
         /\ curseur[d] \in Nat /\ reclamation[d] \in Nat
         /\ \A o \in Ids : /\ locale[d][o] \in FormesLocales /\ trous[d][o] \in ListesTrous
                           /\ connu[d][o] \in Connus /\ plancher[d][o] \in Int
                           /\ refs[d][o] \in SUBSET Pieces
BY DEF TypesAppareils

LEMMA CycleDe ==
  ASSUME NEW c \in Cycles
  PROVE  /\ c.pc \in Etats /\ c.ouverte \in 0..EpoqueMax /\ c.asOf \in Nat
         /\ c.file \in SUBSET Pieces /\ c.jour \in Nat
         /\ c.page \in [Ids -> Objets \cup {Rien}] /\ c.lot \in [Ids -> Formes \cup {Rien}]
         /\ \A o \in Ids : /\ (c.page[o] # Rien => c.page[o] \in Objets)
                           /\ (c.lot[o] # Rien => c.lot[o] \in Formes)
BY DEF Cycles

LEMMA ReposType ==
  /\ Repos \in Cycles /\ Repos.pc = "repos" /\ Repos.file = {} /\ Repos.asOf = 0
  /\ Repos.ouverte = 0
  /\ \A o \in Ids : Repos.page[o] = Rien /\ Repos.lot[o] = Rien
BY ImagesNumbers DEF Repos, Vide, Cycles, Etats

LEMMA PoussantType ==
  ASSUME NEW c \in Cycles
  PROVE  /\ Poussant(c) \in Cycles /\ Poussant(c).pc = "lot" /\ Poussant(c).file = {}
         /\ Poussant(c).asOf = c.asOf /\ Poussant(c).ouverte = c.ouverte
         /\ \A o \in Ids : Poussant(c).page[o] = Rien /\ Poussant(c).lot[o] = Rien
BY CycleDe DEF Poussant, Repos, Vide, Cycles, Etats

LEMMA SuiteType ==
  ASSUME NEW c \in Cycles
  PROVE  /\ Suite(c) \in Cycles /\ Suite(c).page = c.page /\ Suite(c).lot = c.lot
         /\ Suite(c).file = c.file /\ Suite(c).asOf = c.asOf /\ Suite(c).ouverte = c.ouverte
         /\ (c.page # Vide => Suite(c) = c)
         /\ (c.page = Vide => Suite(c).pc = IF c.pc = "accueil" THEN "reclame" ELSE "lot")
BY CycleDe DEF Suite, Cycles, Etats

LEMMA ApresEchecType ==
  ASSUME NEW c \in Cycles
  PROVE  /\ ApresEchec(c) \in Cycles /\ ApresEchec(c).file = {}
         /\ ApresEchec(c).asOf \in {0, c.asOf} /\ ApresEchec(c).ouverte \in {0, c.ouverte}
         /\ ApresEchec(c).pc \in {"lot", "marque", "repos"}
         /\ (ApresEchec(c).pc # "repos" => c.pc # "repos" /\ ApresEchec(c).ouverte = c.ouverte)
         /\ (c.pc \notin {"accueil", "conflit"} /\ (\A o \in Ids : c.page[o] = Rien) =>
               \A o \in Ids : ApresEchec(c).page[o] = Rien)
<1>1. CASE c.pc \in {"reclame", "ranime"}
  BY <1>1, PoussantType DEF ApresEchec
<1>2. CASE c.pc = "marque"
  BY <1>2, CycleDe DEF ApresEchec, Cycles
<1>3. CASE c.pc \notin {"reclame", "ranime", "marque"}
  BY <1>3, ReposType DEF ApresEchec
<1> QED
  BY <1>1, <1>2, <1>3

LEMMA ClairForme ==
  ASSUME TypesAppareils, NEW d \in Appareils, NEW o \in Ids, NEW f \in Int
  PROVE  /\ ClairSous(d, o, f) \in Formes
         /\ (PlancherTenu(locale[d][o], f) =>
               ClairSous(d, o, f) = Comblee(locale[d][o], trous[d][o]))
<1>1. /\ locale[d][o] \in FormesLocales /\ trous[d][o] \in ListesTrous
      /\ locale[d][o].date \in Nat /\ locale[d][o].morte \in BOOLEAN
  BY RangDe, LocaleDe
<1>2. CASE ~locale[d][o].morte /\ f >= locale[d][o].date
  <2>1. f \in Nat
    BY <1>1, <1>2
  <2>2. Tombale(f) \in Formes
    BY <2>1, TombaleForme DEF FormesLocales
  <2> QED
    BY <1>1, <1>2, <2>2 DEF ClairSous, PlancherTenu
<1>3. CASE ~(~locale[d][o].morte /\ f >= locale[d][o].date)
  BY <1>1, <1>3, CombleeForme DEF ClairSous
<1> QED
  BY <1>2, <1>3

LEMMA ClairLocalForme ==
  ASSUME TypesAppareils, NEW d \in Appareils, NEW o \in Ids
  PROVE  ClairLocal(d, o) \in Formes
BY RangDe, ClairForme DEF ClairLocal

LEMMA EcrireTypes ==
  ASSUME Types, NEW d \in Appareils, NEW o \in Ids,
         NEW im \in [Images -> {Absent, Sans, Pleine}], Ecrire(d, o, im)
  PROVE  /\ locale' \in [Appareils -> [Ids -> FormesLocales]]
         /\ Ecrite(locale[d][o], locale'[d][o]) /\ ~locale[d][o].morte
         /\ \A x \in Appareils, y \in Ids : <<x, y>> # <<d, o>> => locale'[x][y] = locale[x][y]
<1> DEFINE l == locale[d][o]
<1>1. l \in FormesLocales /\ l.date \in Nat /\ jour \in Nat /\ ~l.morte
      /\ locale \in [Appareils -> [Ids -> FormesLocales]]
  BY RangDe, LocaleDe DEF Types, TypesServeur, TypesAppareils, Ecrire
<1>2. PICK n \in {1, 2} : locale' = [locale EXCEPT ![d][o] = Vivante(MaxDe(l.date + n, jour), im)]
  BY DEF Ecrire, Poser
<1>3. MaxDe(l.date + n, jour) \in Nat /\ MaxDe(l.date + n, jour) > l.date
  BY <1>1 DEF MaxDe
<1> DEFINE m == Vivante(MaxDe(l.date + n, jour), im)
<1>4. m \in FormesLocales /\ m.date > l.date /\ ~m.morte /\ m.images = im
  BY <1>3, VivanteForme
<1>5. \A k \in Images : im[k] = l.images[k] \/ (l.images[k] = Absent /\ im[k] = Pleine)
  <2>1. im = l.images \/ \E k \in Images : l.images[k] = Absent /\ im = [l.images EXCEPT ![k] = Pleine]
    BY DEF Ecrire
  <2>2. l.images \in [Images -> {Absent, Sans, Pleine}]
    BY <1>1, LocaleDe
  <2> QED
    BY <2>1, <2>2
<1>6. Ecrite(l, m)
  BY <1>1, <1>4, <1>5 DEF Ecrite
<1>7. locale' = [locale EXCEPT ![d][o] = m]
  BY <1>2
<1> HIDE DEF m
<1>8. locale'[d][o] = m /\ locale' \in [Appareils -> [Ids -> FormesLocales]]
  BY <1>1, <1>4, <1>7
<1> QED
  BY <1>1, <1>6, <1>7, <1>8

LEMMA SupprimerTypes ==
  ASSUME Types, NEW d \in Appareils, NEW o \in Ids, Supprimer(d, o)
  PROVE  /\ locale' \in [Appareils -> [Ids -> FormesLocales]]
         /\ Ecrite(locale[d][o], locale'[d][o]) /\ ~locale[d][o].morte
         /\ \A x \in Appareils, y \in Ids : <<x, y>> # <<d, o>> => locale'[x][y] = locale[x][y]
<1> DEFINE l == locale[d][o]
<1> DEFINE m == Tombale(MaxDe(l.date + 1, jour))
<1>1. l \in FormesLocales /\ l.date \in Nat /\ jour \in Nat /\ ~l.morte
      /\ locale \in [Appareils -> [Ids -> FormesLocales]]
  BY RangDe, LocaleDe DEF Types, TypesServeur, TypesAppareils, Supprimer
<1>2. locale' = [locale EXCEPT ![d][o] = m]
  BY DEF Supprimer, Poser
<1>3. MaxDe(l.date + 1, jour) \in Nat /\ MaxDe(l.date + 1, jour) > l.date
  BY <1>1 DEF MaxDe
<1>4. m \in FormesLocales /\ m.date > l.date /\ m.morte
  BY <1>3, TombaleForme
<1>6. Ecrite(l, m)
  BY <1>1, <1>4 DEF Ecrite
<1> HIDE DEF m
<1>8. locale'[d][o] = m /\ locale' \in [Appareils -> [Ids -> FormesLocales]]
  BY <1>1, <1>2, <1>4
<1> QED
  BY <1>1, <1>2, <1>6, <1>8

LEMMA ExporterTypes ==
  ASSUME Types, NEW d \in Appareils, NEW S, Exporter(d, S)
  PROVE  /\ plancher' \in [Appareils -> [Ids -> Int]]
         /\ \A x \in Appareils \ {d} : plancher'[x] = plancher[x]
         /\ \A o \in Ids : plancher'[d][o] = plancher[d][o] \/
              (locale[d][o].morte /\ plancher'[d][o] = MaxDe(plancher[d][o], locale[d][o].date))
<1> DEFINE f == [o \in Ids |-> IF o \in aExporter[d] /\ locale[d][o].morte
                          THEN MaxDe(plancher[d][o], locale[d][o].date)
                          ELSE plancher[d][o]]
<1>1. plancher' = [plancher EXCEPT ![d] = f]
  BY DEF Exporter
<1>2. \A o \in Ids : plancher[d][o] \in Int /\ locale[d][o].date \in Int
  BY RangDe, LocaleDe DEF Types
<1>3. f \in [Ids -> Int]
  BY <1>2 DEF MaxDe
<1>4. plancher \in [Appareils -> [Ids -> Int]]
  BY DEF Types, TypesAppareils
<1>5. \A o \in Ids : f[o] = plancher[d][o] \/
              (locale[d][o].morte /\ f[o] = MaxDe(plancher[d][o], locale[d][o].date))
  OBVIOUS
<1> HIDE DEF f
<1> QED
  BY <1>1, <1>3, <1>4, <1>5

-----------------------------------------------------------------------------
(* What a step leaves to the devices it does not concern                   *)

MemeAppareil(x) ==
  /\ locale'[x] = locale[x] /\ trous'[x] = trous[x] /\ connu'[x] = connu[x]
  /\ plancher'[x] = plancher[x] /\ refs'[x] = refs[x] /\ connues'[x] = connues[x]
  /\ curseur'[x] = curseur[x] /\ reclamation'[x] = reclamation[x] /\ cycle'[x] = cycle[x]

\* What an object that moved on is to a device that did not.
LEMMA PasVu ==
  ASSUME TypesServeur, TypesServeur', Progres, NEW o \in Ids, NEW s \in Nat, s <= seq,
         objets'[o].seq <= s
  PROVE  objets'[o] = objets[o]
<1>1. seq \in Nat /\ Avance(objets[o], objets'[o], seq) /\ objets'[o].seq \in Nat
  BY ScelleeForme DEF TypesServeur, Progres
<1> QED
  BY <1>1 DEF Avance

LEMMA AutreAppareil ==
  ASSUME Types, TypesServeur', Progres, seq <= seq',
         NEW x \in Appareils, AppareilJuste(x), MemeAppareil(x)
  PROVE  AppareilJuste(x)'
<1>1. /\ seq \in Nat /\ seq' \in Nat
      /\ \A o \in Ids : objets[o] \in Objets /\ objets'[o] \in Objets
      /\ \A o \in Ids : Avance(objets[o], objets'[o], seq)
  BY DEF Types, TypesServeur, Progres
<1>2. /\ cycle[x] \in Cycles /\ cycle[x].asOf \in Nat /\ curseur[x] \in Nat
      /\ cycle[x].asOf <= seq /\ curseur[x] <= seq
  BY RangDe, CycleDe DEF Types, AppareilJuste
<1>3. ASSUME NEW o \in Ids
      PROVE  Cellule(x, o)' /\ PageJuste(x, o)' /\ LotJuste(x, o)' /\ VuesJustes(x, o)'
  <2>1. Cellule(x, o) /\ PageJuste(x, o) /\ LotJuste(x, o) /\ VuesJustes(x, o)
    BY DEF AppareilJuste
  <2>2. /\ locale[x][o] \in FormesLocales /\ trous[x][o] \in ListesTrous
        /\ connu[x][o] \in Connus /\ plancher[x][o] \in Int
    BY RangDe DEF Types
  <2>3. Cellule(x, o)'
    BY <1>1, <2>1, <2>2, LigneAvance DEF Cellule, MemeAppareil
  <2>4. objets'[o].seq <= curseur[x] \/ objets'[o].seq <= cycle[x].asOf
          => objets'[o] = objets[o]
    BY <1>2, PasVu DEF Types
  <2>5. PageJuste(x, o)'
    <3>1. cycle[x].page[o] # Rien => cycle[x].page[o] \in Objets
      BY <1>2, CycleDe
    <3>2. cycle[x].page[o] # Rien =>
            EnPage(cycle[x].page[o], locale[x][o], connu[x][o], plancher[x][o], objets'[o])
      BY <1>1, <2>1, <2>2, <3>1, EnPageAvance DEF PageJuste
    <3> QED
      BY <2>1, <2>4, <3>2 DEF PageJuste, MemeAppareil, AJour
  <2>6. LotJuste(x, o)'
    <3>1. connu[x][o].rev <= objets[o].rev
      BY <2>1 DEF Cellule, Ligne
    <3>2. LotJuste(x, o) => (cycle[x].pc = "depose" /\ cycle[x].lot[o] # Rien =>
            EnLot(cycle[x].lot[o], locale[x][o], trous[x][o], connu[x][o], objets'[o]))
      BY <1>1, <2>2, <3>1, EnLotAvance DEF LotJuste
    <3> QED
      BY <2>1, <3>2 DEF LotJuste, MemeAppareil
  <2>7. VuesJustes(x, o)'
    BY <2>1, <2>4 DEF VuesJustes, MemeAppareil, AJour
  <2> QED
    BY <2>3, <2>5, <2>6, <2>7
<1>4. /\ (curseur[x] <= seq)' /\ (cycle[x].asOf <= seq)'
      /\ (cycle[x].pc # "repos" => cycle[x].ouverte > 0)'
  BY <1>1, <1>2 DEF AppareilJuste, MemeAppareil
<1> QED
  BY <1>3, <1>4 DEF AppareilJuste

LEMMA RienNeBouge ==
  ASSUME TypesServeur, UNCHANGED <<serveur, jour>>
  PROVE  TypesServeur' /\ Progres /\ seq <= seq'
BY DEF TypesServeur, serveur, Progres, Avance

\* A request given up is right until it is handled.
LEMMA ErrantesJustes ==
  ASSUME Types, TypesServeur', Progres, NEW r \in Demandes, PousseeJuste(r)
  PROVE  PousseeJuste(r)'
<1> SUFFICES ASSUME r.type = "push", NEW o \in Ids, r.lot[o] # Rien
             PROVE  EnRoute(r.lot[o].base, r.lot[o].forme, objets'[o])
  BY DEF PousseeJuste
<1>1. r.lot[o] \in LignesDeLot
  BY DemandeDe
<1>2. r.lot[o].base \in Nat
  BY <1>1 DEF LignesDeLot
<1>3. /\ objets[o] \in Objets /\ objets'[o] \in Objets /\ seq \in Nat
      /\ Avance(objets[o], objets'[o], seq)
  BY DEF Types, TypesServeur, Progres
<1>4. EnRoute(r.lot[o].base, r.lot[o].forme, objets[o])
  BY DEF PousseeJuste
<1> QED
  BY <1>2, <1>3, <1>4, EnRouteAvance

-----------------------------------------------------------------------------
(* Writes, exports                                                         *)

LEMMA EcritureJuste ==
  ASSUME Types, Lignes, NEW d \in Appareils, NEW o \in Ids,
         locale' \in [Appareils -> [Ids -> FormesLocales]],
         Ecrite(locale[d][o], locale'[d][o]), ~locale[d][o].morte,
         \A x \in Appareils, y \in Ids : <<x, y>> # <<d, o>> => locale'[x][y] = locale[x][y],
         UNCHANGED <<trous, tables, cycle, serveur>>,
         NEW x \in Appareils
  PROVE  AppareilJuste(x)'
<1>1. UNCHANGED <<trous, connu, plancher, refs, connues, curseur, cycle, objets, seq>>
  BY DEF tables, serveur
<1>2. AppareilJuste(x)
  BY DEF Lignes
<1>3. ASSUME NEW y \in Ids
      PROVE  Cellule(x, y)' /\ PageJuste(x, y)' /\ LotJuste(x, y)' /\ VuesJustes(x, y)'
  <2>1. Cellule(x, y) /\ PageJuste(x, y) /\ LotJuste(x, y) /\ VuesJustes(x, y)
    BY <1>2 DEF AppareilJuste
  <2>2. VuesJustes(x, y)'
    BY <1>1, <2>1 DEF VuesJustes, AJour
  <2>3. CASE <<x, y>> # <<d, o>>
    <3>1. locale'[x][y] = locale[x][y]
      BY <2>3
    <3> QED
      BY <1>1, <2>1, <2>2, <3>1 DEF Cellule, PageJuste, LotJuste, AJour
  <2>4. CASE x = d /\ y = o
    <3>1. /\ locale[d][o] \in FormesLocales /\ trous[d][o] \in ListesTrous
          /\ connu[d][o] \in Connus /\ plancher[d][o] \in Int
          /\ objets[o] \in Objets /\ locale'[d][o] \in FormesLocales
          /\ cycle[d] \in Cycles
      BY RangDe DEF Types, TypesServeur
    <3>2. Cellule(x, y)'
      BY <1>1, <2>1, <2>4, <3>1, LigneEcrite DEF Cellule
    <3>3. PageJuste(x, y)'
      BY <1>1, <2>1, <2>4, EnPageEcrite DEF PageJuste, AJour
    <3>4. LotJuste(x, y)'
      BY <1>1, <2>1, <2>4, <3>1, CycleDe, EnLotEcrite DEF LotJuste
    <3> QED
      BY <2>2, <3>2, <3>3, <3>4
  <2> QED
    BY <2>3, <2>4
<1> QED
  BY <1>1, <1>2, <1>3 DEF AppareilJuste

LEMMA TirerJuste ==
  ASSUME Types, NEW d \in Appareils, AppareilJuste(d), Tirer(d)
  PROVE  /\ TypesAppareils' /\ AppareilJuste(d)'
         /\ \A x \in Appareils \ {d} : MemeAppareil(x)
<1> DEFINE page == [o \in Ids |-> IF objets[o].seq > curseur[d] THEN objets[o] ELSE Rien]
           c == [Repos EXCEPT !.pc = "accueil", !.ouverte = epoque, !.asOf = seq,
                              !.page = page]
<1>1. /\ Exporter(d, sortant[d]) /\ FinirPage(d, c)
      /\ UNCHANGED <<serveur, errantes, autour>>
  BY DEF Tirer
<1>2. /\ plancher' \in [Appareils -> [Ids -> Int]]
      /\ \A x \in Appareils \ {d} : plancher'[x] = plancher[x]
      /\ \A o \in Ids : plancher'[d][o] = plancher[d][o] \/
              (locale[d][o].morte /\ plancher'[d][o] = MaxDe(plancher[d][o], locale[d][o].date))
  BY <1>1, ExporterTypes
<1>3. UNCHANGED <<locale, trous, connu, refs, connues, reclamation, objets, seq>>
  BY <1>1 DEF Exporter, serveur
<1>4. /\ seq \in Nat /\ epoque \in 1..EpoqueMax
      /\ \A o \in Ids : objets[o] \in Objets /\ objets[o].seq \in Nat /\ objets[o].seq <= seq
  BY ScelleeForme DEF Types, TypesServeur
<1>5. page \in [Ids -> Objets \cup {Rien}]
  BY <1>4
<1>6. \A o \in Ids : page[o] = IF objets[o].seq > curseur[d] THEN objets[o] ELSE Rien
  OBVIOUS
<1> HIDE DEF page
<1>7. c \in Cycles /\ c.pc = "accueil" /\ c.asOf = seq /\ c.page = page /\ c.ouverte = epoque
  <2>1. seq \in Nat /\ epoque \in 0..EpoqueMax
    BY <1>4, ImagesNumbers
  <2> QED
    BY <1>5, <2>1 DEF Repos, Vide, Cycles, Etats
<1> HIDE DEF c
<1>8. /\ cycle' = [cycle EXCEPT ![d] = Suite(c)]
      /\ curseur' = IF page = Vide THEN [curseur EXCEPT ![d] = seq] ELSE curseur
  BY <1>1, <1>7 DEF FinirPage
<1>9. /\ Suite(c) \in Cycles /\ Suite(c).page = page /\ Suite(c).asOf = seq
      /\ Suite(c).ouverte = epoque
      /\ (page # Vide => Suite(c).pc = "accueil")
      /\ (page = Vide => Suite(c).pc = "reclame")
  BY <1>7, SuiteType
<1>10. TypesAppareils'
  BY <1>2, <1>3, <1>4, <1>8, <1>9 DEF Types, TypesAppareils
<1>11. \A x \in Appareils \ {d} : MemeAppareil(x)
  BY <1>2, <1>3, <1>8 DEF MemeAppareil, Types, TypesAppareils
<1>12. cycle'[d] = Suite(c) /\ curseur'[d] = IF page = Vide THEN seq ELSE curseur[d]
  BY <1>8 DEF Types, TypesAppareils
<1>13. page = Vide => \A o \in Ids : page[o] = Rien
  BY DEF Vide
<1>14. ASSUME NEW o \in Ids
       PROVE  Cellule(d, o)' /\ PageJuste(d, o)' /\ LotJuste(d, o)' /\ VuesJustes(d, o)'
  <2>1. Cellule(d, o) /\ VuesJustes(d, o)
    BY DEF AppareilJuste
  <2>2. /\ locale[d][o] \in FormesLocales /\ plancher[d][o] \in Int /\ plancher'[d][o] \in Int
        /\ objets[o] \in Objets /\ objets[o] # Rien /\ curseur[d] \in Nat
    BY <1>2, <1>4, RangDe, RienHors DEF Types
  <2>3. Cellule(d, o)'
    BY <1>2, <1>3, <2>1, <2>2, LigneExportee DEF Cellule
  <2>4. EnPage(objets[o], locale[d][o], connu[d][o], plancher'[d][o], objets[o])
    BY <1>3, <2>2, <2>3, PageExportee DEF Cellule
  <2>5. AJour(d, o) \/ page[o] = objets[o]
    BY <1>4, <1>6, <2>1, <2>2 DEF VuesJustes
  <2>6. PageJuste(d, o)'
    BY <1>3, <1>6, <1>9, <1>12, <1>13, <2>4, <2>5 DEF PageJuste, AJour
  <2>7. VuesJustes(d, o)'
    BY <1>3, <1>12, <1>13, <2>1, <2>2, <2>5 DEF VuesJustes, AJour
  <2>8. LotJuste(d, o)'
    BY <1>9, <1>12 DEF LotJuste
  <2> QED
    BY <2>3, <2>6, <2>7, <2>8
<1>15. (curseur[d] <= seq)' /\ (cycle[d].asOf <= seq)' /\ cycle'[d].ouverte > 0
  BY <1>3, <1>4, <1>9, <1>12 DEF AppareilJuste
<1> QED
  BY <1>10, <1>11, <1>14, <1>15 DEF AppareilJuste

LEMMA ConclureJuste ==
  ASSUME Types, NEW d \in Appareils, AppareilJuste(d), Conclure(d)
  PROVE  /\ TypesAppareils' /\ AppareilJuste(d)'
         /\ \A x \in Appareils \ {d} : MemeAppareil(x)
<1>1. /\ Exporter(d, {}) /\ cycle' = [cycle EXCEPT ![d] = Repos]
      /\ UNCHANGED <<curseur, objets, seq>>
  BY DEF Conclure, serveur
<1>2. /\ plancher' \in [Appareils -> [Ids -> Int]]
      /\ \A x \in Appareils \ {d} : plancher'[x] = plancher[x]
      /\ \A o \in Ids : plancher'[d][o] = plancher[d][o] \/
              (locale[d][o].morte /\ plancher'[d][o] = MaxDe(plancher[d][o], locale[d][o].date))
  BY <1>1, ExporterTypes
<1>3. UNCHANGED <<locale, trous, connu, refs, connues, reclamation>>
  BY <1>1 DEF Exporter
<1>4. TypesAppareils' /\ cycle'[d] = Repos
  BY <1>1, <1>2, <1>3, ReposType DEF Types, TypesAppareils
<1>5. \A x \in Appareils \ {d} : MemeAppareil(x)
  BY <1>1, <1>2, <1>3 DEF MemeAppareil, Types, TypesAppareils
<1>6. ASSUME NEW o \in Ids
      PROVE  Cellule(d, o)' /\ PageJuste(d, o)' /\ LotJuste(d, o)' /\ VuesJustes(d, o)'
  <2>1. Cellule(d, o) /\ VuesJustes(d, o)
    BY DEF AppareilJuste
  <2>2. /\ locale[d][o] \in FormesLocales /\ plancher[d][o] \in Int /\ plancher'[d][o] \in Int
    BY <1>2, RangDe DEF Types
  <2>3. Cellule(d, o)'
    BY <1>1, <1>2, <1>3, <2>1, <2>2, LigneExportee DEF Cellule
  <2>4. PageJuste(d, o)' /\ LotJuste(d, o)' /\ VuesJustes(d, o)'
    BY <1>1, <1>3, <1>4, <2>1, ReposType DEF PageJuste, LotJuste, VuesJustes, AJour
  <2> QED
    BY <2>3, <2>4
<1>7. (curseur[d] <= seq)' /\ (cycle[d].asOf <= seq)' /\ cycle'[d].pc = "repos"
  BY <1>1, <1>4, ReposType DEF AppareilJuste, Types, TypesServeur
<1> QED
  BY <1>4, <1>5, <1>6, <1>7 DEF AppareilJuste

-----------------------------------------------------------------------------
(* A page is taken in                                                      *)

LEMMA ExamineeTypes ==
  ASSUME Types, NEW d \in Appareils, NEW o \in Ids, Examinee(d, o)
  PROVE  /\ cycle' \in [Appareils -> Cycles] /\ curseur' \in [Appareils -> Nat]
         /\ \A x \in Appareils \ {d} : cycle'[x] = cycle[x] /\ curseur'[x] = curseur[x]
         /\ cycle[d].pc \in {"accueil", "conflit"}
         /\ cycle[d].page[o] # Rien /\ cycle[d].page[o] \in Objets
         /\ cycle'[d].asOf = cycle[d].asOf /\ cycle'[d].ouverte = cycle[d].ouverte
         /\ cycle'[d].file = cycle[d].file /\ cycle'[d].lot = cycle[d].lot
         /\ \A y \in Ids : cycle'[d].page[y] = IF y = o THEN Rien ELSE cycle[d].page[y]
         /\ cycle'[d].pc \in {cycle[d].pc, "reclame", "lot"}
         /\ (\E y \in Ids : cycle'[d].page[y] # Rien) => cycle'[d].pc = cycle[d].pc
         /\ curseur'[d] = curseur[d] \/
              (/\ cycle[d].pc = "accueil" /\ curseur'[d] = cycle[d].asOf
               /\ \A y \in Ids : cycle'[d].page[y] = Rien)
<1> DEFINE page == [cycle[d].page EXCEPT ![o] = Rien]
           c == [cycle[d] EXCEPT !.page[o] = Rien]
<1>1. /\ cycle[d].pc \in {"accueil", "conflit"} /\ cycle[d].page[o] # Rien
      /\ FinirPage(d, c)
  BY DEF Examinee
<1>2. /\ cycle[d] \in Cycles /\ cycle[d].page \in [Ids -> Objets \cup {Rien}]
      /\ cycle[d].page[o] \in Objets /\ cycle[d].asOf \in Nat
  BY <1>1, RangDe, CycleDe DEF Types
<1>3. page \in [Ids -> Objets \cup {Rien}]
      /\ \A y \in Ids : page[y] = IF y = o THEN Rien ELSE cycle[d].page[y]
  BY <1>2
<1> HIDE DEF page
<1>4. /\ c \in Cycles /\ c.page = page /\ c.pc = cycle[d].pc /\ c.asOf = cycle[d].asOf
      /\ c.ouverte = cycle[d].ouverte /\ c.file = cycle[d].file /\ c.lot = cycle[d].lot
  <2>1. c = [cycle[d] EXCEPT !.page = page]
    BY <1>2 DEF page, Cycles
  <2> HIDE DEF c
  <2> QED
    BY <1>2, <1>3, <2>1 DEF Cycles
<1> HIDE DEF c
<1>5. /\ cycle' = [cycle EXCEPT ![d] = Suite(c)]
      /\ curseur' = IF cycle[d].pc = "accueil" /\ page = Vide
                    THEN [curseur EXCEPT ![d] = cycle[d].asOf] ELSE curseur
  BY <1>1, <1>4 DEF FinirPage
<1>6. /\ Suite(c) \in Cycles /\ Suite(c).page = page /\ Suite(c).asOf = cycle[d].asOf
      /\ Suite(c).ouverte = cycle[d].ouverte
      /\ Suite(c).file = cycle[d].file /\ Suite(c).lot = cycle[d].lot
      /\ (page # Vide => Suite(c).pc = cycle[d].pc)
      /\ Suite(c).pc \in {cycle[d].pc, "reclame", "lot"}
  BY <1>4, SuiteType
<1>7. /\ cycle \in [Appareils -> Cycles] /\ curseur \in [Appareils -> Nat]
  BY DEF Types, TypesAppareils
<1>8. /\ cycle'[d] = Suite(c)
      /\ curseur'[d] = IF cycle[d].pc = "accueil" /\ page = Vide
                       THEN cycle[d].asOf ELSE curseur[d]
  BY <1>5, <1>7
<1>9. page = Vide => \A y \in Ids : page[y] = Rien
  BY DEF Vide
<1>10. cycle' \in [Appareils -> Cycles] /\ curseur' \in [Appareils -> Nat]
       /\ \A x \in Appareils \ {d} : cycle'[x] = cycle[x] /\ curseur'[x] = curseur[x]
  BY <1>2, <1>5, <1>6, <1>7
<1>11. (\E y \in Ids : cycle'[d].page[y] # Rien) => cycle'[d].pc = cycle[d].pc
  BY <1>6, <1>8, <1>9
<1> QED
  BY <1>1, <1>2, <1>3, <1>6, <1>8, <1>9, <1>10, <1>11

\* Once its row is right, the device is.
LEMMA ExamineeJuste ==
  ASSUME Types, NEW d \in Appareils, NEW o \in Ids, AppareilJuste(d), Examinee(d, o),
         UNCHANGED <<objets, seq>>,
         \A y \in Ids \ {o} :
           /\ locale'[d][y] = locale[d][y] /\ trous'[d][y] = trous[d][y]
           /\ connu'[d][y] = connu[d][y] /\ plancher'[d][y] = plancher[d][y]
           /\ refs'[d][y] = refs[d][y],
         connues[d] \subseteq connues'[d], refs'[d][o] \subseteq connues'[d],
         Cellule(d, o)',
         AJour(d, o) \/ cycle[d].page[o] = objets[o] => AJour(d, o)'
  PROVE  AppareilJuste(d)'
<1>1. /\ cycle[d].pc \in {"accueil", "conflit"}
      /\ cycle'[d].asOf = cycle[d].asOf /\ cycle'[d].ouverte = cycle[d].ouverte
      /\ \A y \in Ids : cycle'[d].page[y] = IF y = o THEN Rien ELSE cycle[d].page[y]
      /\ cycle'[d].pc \in {cycle[d].pc, "reclame", "lot"}
      /\ (\E y \in Ids : cycle'[d].page[y] # Rien) => cycle'[d].pc = cycle[d].pc
      /\ curseur'[d] = curseur[d] \/
           (/\ cycle[d].pc = "accueil" /\ curseur'[d] = cycle[d].asOf
            /\ \A y \in Ids : cycle'[d].page[y] = Rien)
  BY ExamineeTypes
<1>2. ASSUME NEW y \in Ids
      PROVE  Cellule(d, y)' /\ PageJuste(d, y)' /\ LotJuste(d, y)' /\ VuesJustes(d, y)'
  <2>1. Cellule(d, y) /\ PageJuste(d, y) /\ VuesJustes(d, y)
    BY DEF AppareilJuste
  <2>2. LotJuste(d, y)'
    BY <1>1 DEF LotJuste
  <2>3. objets[y] # Rien
    BY RienHors DEF Types, TypesServeur
  <2>4. CASE y = o
    <3>1. PageJuste(d, y)'
      BY <1>1, <2>1, <2>4 DEF PageJuste
    <3>2. VuesJustes(d, y)'
      BY <1>1, <2>1, <2>4 DEF VuesJustes, PageJuste, AJour
    <3> QED
      BY <2>2, <2>4, <3>1, <3>2
  <2>5. CASE y # o
    <3>1. Cellule(d, y)'
      BY <2>1, <2>5 DEF Cellule
    <3>2. AJour(d, y)' <=> AJour(d, y)
      BY <2>5 DEF AJour
    <3>3. PageJuste(d, y)'
      BY <1>1, <2>1, <2>5, <3>2 DEF PageJuste
    <3>4. VuesJustes(d, y)'
      BY <1>1, <2>1, <2>3, <2>5, <3>2 DEF VuesJustes, PageJuste
    <3> QED
      BY <2>2, <3>1, <3>3, <3>4
  <2> QED
    BY <2>4, <2>5
<1>3. (curseur[d] <= seq)' /\ (cycle[d].asOf <= seq)' /\ cycle'[d].ouverte > 0
  BY <1>1 DEF AppareilJuste
<1> QED
  BY <1>2, <1>3 DEF AppareilJuste

\* What a device reads of the object it examines.
LEMMA ExamineeVoit ==
  ASSUME Types, NEW d \in Appareils, NEW o \in Ids, AppareilJuste(d), Examinee(d, o),
         NEW e, e = cycle[d].page[o]
  PROVE  /\ e \in Objets /\ e.forme \in Formes /\ objets[o] \in Objets
         /\ locale[d][o] \in FormesLocales /\ trous[d][o] \in ListesTrous
         /\ connu[d][o] \in Connus /\ plancher[d][o] \in Int
         /\ EnPage(e, locale[d][o], connu[d][o], plancher[d][o], objets[o])
         /\ Cellule(d, o)
         /\ Premiere(d, o) \in Formes /\ Attache(Premiere(d, o), e.forme)
         /\ \A k \in Images : locale[d][o].images[k] = Pleine => Premiere(d, o).images[k] <= 0
<1>1. /\ e \in Objets /\ e # Rien
  BY ExamineeTypes
<1>2. /\ locale[d][o] \in FormesLocales /\ trous[d][o] \in ListesTrous
      /\ connu[d][o] \in Connus /\ plancher[d][o] \in Int /\ objets[o] \in Objets
  BY RangDe DEF Types, TypesServeur
<1>3. /\ EnPage(e, locale[d][o], connu[d][o], plancher[d][o], objets[o]) /\ Cellule(d, o)
  BY <1>1 DEF AppareilJuste, PageJuste
<1>4. e.forme \in Formes /\ Ici(d, o) \in SUBSET Pieces
  BY <1>1, ScelleeForme DEF Ici
<1>5. /\ Premiere(d, o) \in Formes /\ Attache(Premiere(d, o), e.forme)
      /\ \A k \in Images : Premiere(d, o).images[k] =
              (IF <<k, e.forme.images[k]>> \in Ici(d, o) THEN Pleine ELSE e.forme.images[k])
  BY <1>4, RattacheeForme, RattacheeAttache DEF Premiere
<1>6. ASSUME NEW k \in Images, locale[d][o].images[k] = Pleine
      PROVE  Premiere(d, o).images[k] <= 0
  <2>1. EpoqueMax \in Nat /\ e.forme.images[k] \in -2..EpoqueMax
    BY <1>4, FormeDe, ImagesNumbers
  <2>2. CASE e.forme.images[k] > 0
    <3>1. <<k, e.forme.images[k]>> \in Pieces
      BY <2>1, <2>2 DEF Pieces
    <3>2. <<k, e.forme.images[k]>> \in Ici(d, o)
      BY <1>6, <3>1 DEF Ici
    <3> QED
      BY <1>5, <3>2 DEF Pleine
  <2>3. CASE e.forme.images[k] <= 0
    <3>1. Premiere(d, o).images[k] \in {Pleine, e.forme.images[k]}
      BY <1>5
    <3> QED
      BY <2>3, <3>1 DEF Pleine
  <2> QED
    BY <2>1, <2>2, <2>3
<1> QED
  BY <1>1, <1>2, <1>3, <1>4, <1>5, <1>6

LEMMA RecupereeForme ==
  ASSUME NEW c \in Formes, NEW ratees
  PROVE  Recuperee(c, ratees) \in Formes /\ Attache(Recuperee(c, ratees), c)
<1>1. {p \in References(c) \ ratees : pieces[p] # Rien} \in SUBSET Pieces
  BY ReferencesDeForme
<1> QED
  BY <1>1, RattacheeForme, RattacheeAttache DEF Recuperee

\* What all these steps write of the references.
LEMMA NoterType ==
  ASSUME Types, NEW d \in Appareils, NEW o \in Ids, NEW c \in Formes,
         NoterReferences(d, o, c), ConnaitreReferences(d, c)
  PROVE  /\ refs' \in [Appareils -> [Ids -> SUBSET Pieces]]
         /\ connues' \in [Appareils -> SUBSET Pieces]
         /\ refs'[d][o] = References(c) /\ refs'[d][o] \subseteq connues'[d]
         /\ connues'[d] = connues[d] \cup References(c)
         /\ \A y \in Ids \ {o} : refs'[d][y] = refs[d][y]
         /\ \A x \in Appareils \ {d} : refs'[x] = refs[x] /\ connues'[x] = connues[x]
<1>1. References(c) \in SUBSET Pieces
  BY ReferencesDeForme
<1>2. refs \in [Appareils -> [Ids -> SUBSET Pieces]] /\ connues \in [Appareils -> SUBSET Pieces]
  BY DEF Types, TypesAppareils
<1>3. connues' \in [Appareils -> SUBSET Pieces] /\ connues'[d] = connues[d] \cup References(c)
      /\ \A x \in Appareils \ {d} : connues'[x] = connues[x]
  BY <1>1, <1>2 DEF ConnaitreReferences
<1>4. /\ refs' \in [Appareils -> [Ids -> SUBSET Pieces]] /\ refs'[d][o] = References(c)
      /\ \A y \in Ids \ {o} : refs'[d][y] = refs[d][y]
      /\ \A x \in Appareils \ {d} : refs'[x] = refs[x]
  BY <1>1, <1>2 DEF NoterReferences
<1>5. refs'[d][o] \subseteq connues'[d]
  BY <1>3, <1>4
<1>6. \A x \in Appareils \ {d} : refs'[x] = refs[x] /\ connues'[x] = connues[x]
  BY <1>3, <1>4
<1> QED
  BY <1>3, <1>4, <1>5, <1>6

LEMMA ReconnaitreJuste ==
  ASSUME Types, NEW d \in Appareils, NEW o \in Ids, AppareilJuste(d), Reconnaitre(d, o)
  PROVE  /\ TypesAppareils' /\ AppareilJuste(d)'
         /\ \A x \in Appareils \ {d} : MemeAppareil(x)
<1> DEFINE e == cycle[d].page[o]
<1>1. /\ Examinee(d, o) /\ connu[d][o].forme = Premiere(d, o)
      /\ connu' = [connu EXCEPT ![d][o].rev = MaxDe(@, e.rev)]
      /\ NoterReferences(d, o, e.forme) /\ ConnaitreReferences(d, e.forme)
      /\ UNCHANGED <<locale, trous, plancher, reclamation, objets, seq>>
  BY DEF Reconnaitre, magasin, serveur
<1>2. /\ e \in Objets /\ e.forme \in Formes /\ objets[o] \in Objets
      /\ locale[d][o] \in FormesLocales /\ trous[d][o] \in ListesTrous
      /\ connu[d][o] \in Connus /\ plancher[d][o] \in Int
      /\ EnPage(e, locale[d][o], connu[d][o], plancher[d][o], objets[o])
      /\ Cellule(d, o)
      /\ Premiere(d, o) \in Formes /\ Attache(Premiere(d, o), e.forme)
  BY <1>1, ExamineeVoit
<1>3. MaxDe(connu[d][o].rev, e.rev) = e.rev /\ e.rev \in Nat \ {0}
      /\ (e.rev = objets[o].rev => e = objets[o]) /\ e.rev <= objets[o].rev
      /\ connu[d][o].rev <= e.rev
  BY <1>2, RevNotee DEF Objets, EnPage
<1>4. connu \in [Appareils -> [Ids -> Connus]]
  BY DEF Types, TypesAppareils
<1>5. /\ connu' \in [Appareils -> [Ids -> Connus]]
      /\ connu'[d][o].rev = e.rev /\ connu'[d][o].forme = connu[d][o].forme
      /\ connu'[d][o] \in Connus
      /\ \A y \in Ids \ {o} : connu'[d][y] = connu[d][y]
      /\ \A x \in Appareils \ {d} : connu'[x] = connu[x]
  <2>1. [connu[d][o] EXCEPT !.rev = e.rev] \in Connus
    BY <1>2, <1>3 DEF Connus
  <2>2. connu' = [connu EXCEPT ![d][o] = [connu[d][o] EXCEPT !.rev = e.rev]]
    BY <1>1, <1>3, <1>4
  <2>3. /\ [connu[d][o] EXCEPT !.rev = e.rev].rev = e.rev
        /\ [connu[d][o] EXCEPT !.rev = e.rev].forme = connu[d][o].forme
    BY <1>2 DEF Connus
  <2> QED
    BY <1>4, <2>1, <2>2, <2>3
<1>6. /\ refs' \in [Appareils -> [Ids -> SUBSET Pieces]]
      /\ connues' \in [Appareils -> SUBSET Pieces]
      /\ refs'[d][o] = References(e.forme) /\ refs'[d][o] \subseteq connues'[d]
      /\ connues'[d] = connues[d] \cup References(e.forme)
      /\ \A y \in Ids \ {o} : refs'[d][y] = refs[d][y]
      /\ \A x \in Appareils \ {d} : refs'[x] = refs[x] /\ connues'[x] = connues[x]
  BY <1>1, <1>2, NoterType
<1>7. /\ cycle' \in [Appareils -> Cycles] /\ curseur' \in [Appareils -> Nat]
      /\ \A x \in Appareils \ {d} : cycle'[x] = cycle[x] /\ curseur'[x] = curseur[x]
  BY <1>1, ExamineeTypes
<1>8. TypesAppareils'
  BY <1>1, <1>5, <1>6, <1>7 DEF Types, TypesAppareils
<1>9. \A x \in Appareils \ {d} : MemeAppareil(x)
  BY <1>1, <1>5, <1>6, <1>7 DEF MemeAppareil
<1>10. Cellule(d, o)'
  <2>1. Ligne(locale[d][o], trous[d][o], connu'[d][o], plancher[d][o],
              References(e.forme), objets[o])
    <3>1. connu[d][o].forme \in Formes /\ Attache(connu[d][o].forme, e.forme)
      BY <1>1, <1>2
    <3> HIDE DEF e
    <3> QED
      BY <1>2, <1>5, <3>1, LigneReconnue DEF Cellule
  <2> QED
    BY <1>1, <1>6, <2>1 DEF Cellule
<1>11. AJour(d, o) \/ e = objets[o] => AJour(d, o)'
  <2>1. connu[d][o].rev \in Nat /\ objets[o].rev \in Nat
    BY <1>2, ConnuDe, ScelleeForme
  <2> HIDE DEF e
  <2> QED
    BY <1>1, <1>3, <1>5, <2>1 DEF AJour
<1>12. AppareilJuste(d)'
  <2> HIDE DEF e
  <2>1. \A y \in Ids \ {o} :
           /\ locale'[d][y] = locale[d][y] /\ trous'[d][y] = trous[d][y]
           /\ connu'[d][y] = connu[d][y] /\ plancher'[d][y] = plancher[d][y]
           /\ refs'[d][y] = refs[d][y]
    BY <1>1, <1>5, <1>6
  <2>2. connues[d] \subseteq connues'[d] /\ refs'[d][o] \subseteq connues'[d]
    BY <1>6
  <2>3. UNCHANGED <<objets, seq>> /\ Examinee(d, o)
    BY <1>1
  <2>4. AJour(d, o) \/ cycle[d].page[o] = objets[o] => AJour(d, o)'
    BY <1>11 DEF e
  <2> QED
    BY <1>10, <2>1, <2>2, <2>3, <2>4, ExamineeJuste
<1> QED
  BY <1>8, <1>9, <1>12

LEMMA DouterJuste ==
  ASSUME Types, NEW d \in Appareils, NEW o \in Ids, AppareilJuste(d), Douter(d, o)
  PROVE  /\ TypesAppareils' /\ AppareilJuste(d)'
         /\ \A x \in Appareils \ {d} : MemeAppareil(x)
<1> DEFINE e == cycle[d].page[o]
<1>1. /\ Examinee(d, o) /\ e.rev = connu[d][o].rev
      /\ connu' = [connu EXCEPT ![d][o].forme = Rien]
      /\ UNCHANGED <<locale, trous, plancher, refs, connues, reclamation, objets, seq>>
  BY DEF Douter, Perimee, magasin, serveur
<1>2. /\ connu[d][o] \in Connus /\ Cellule(d, o)
      /\ connu \in [Appareils -> [Ids -> Connus]]
  BY <1>1, ExamineeVoit DEF Types, TypesAppareils
<1>3. /\ connu' \in [Appareils -> [Ids -> Connus]]
      /\ connu'[d][o].rev = connu[d][o].rev /\ connu'[d][o].forme = Rien
      /\ \A y \in Ids \ {o} : connu'[d][y] = connu[d][y]
      /\ \A x \in Appareils \ {d} : connu'[x] = connu[x]
  <2>1. [connu[d][o] EXCEPT !.forme = Rien] \in Connus
    BY <1>2 DEF Connus
  <2>2. connu' = [connu EXCEPT ![d][o] = [connu[d][o] EXCEPT !.forme = Rien]]
    BY <1>1, <1>2
  <2>3. /\ [connu[d][o] EXCEPT !.forme = Rien].rev = connu[d][o].rev
        /\ [connu[d][o] EXCEPT !.forme = Rien].forme = Rien
    BY <1>2 DEF Connus
  <2> QED
    BY <1>2, <2>1, <2>2, <2>3
<1>4. /\ cycle' \in [Appareils -> Cycles] /\ curseur' \in [Appareils -> Nat]
      /\ \A x \in Appareils \ {d} : cycle'[x] = cycle[x] /\ curseur'[x] = curseur[x]
  BY <1>1, ExamineeTypes
<1>5. TypesAppareils'
  BY <1>1, <1>3, <1>4 DEF Types, TypesAppareils
<1>6. \A x \in Appareils \ {d} : MemeAppareil(x)
  BY <1>1, <1>3, <1>4 DEF MemeAppareil
<1>7. Cellule(d, o)'
  BY <1>1, <1>2, <1>3, LigneDoutee DEF Cellule
<1>8. AJour(d, o) \/ e = objets[o] => AJour(d, o)'
  BY <1>1, <1>3 DEF AJour
<1>9. AppareilJuste(d)'
  <2>1. connues[d] \subseteq connues'[d] /\ refs'[d][o] \subseteq connues'[d]
    BY <1>1 DEF AppareilJuste, VuesJustes
  <2>2. \A y \in Ids \ {o} :
           /\ locale'[d][y] = locale[d][y] /\ trous'[d][y] = trous[d][y]
           /\ connu'[d][y] = connu[d][y] /\ plancher'[d][y] = plancher[d][y]
           /\ refs'[d][y] = refs[d][y]
    BY <1>1, <1>3
  <2>3. UNCHANGED <<objets, seq>> /\ Examinee(d, o)
    BY <1>1
  <2> QED
    BY <1>7, <1>8, <2>1, <2>2, <2>3, ExamineeJuste
<1> QED
  BY <1>5, <1>6, <1>9

LEMMA TenirPlancherJuste ==
  ASSUME Types, NEW d \in Appareils, NEW o \in Ids, NEW ratees, AppareilJuste(d),
         TenirPlancher(d, o, ratees)
  PROVE  /\ TypesAppareils' /\ AppareilJuste(d)'
         /\ \A x \in Appareils \ {d} : MemeAppareil(x)
<1> DEFINE e == cycle[d].page[o]
           c == Recuperee(Premiere(d, o), ratees)
<1>1. /\ Examinee(d, o) /\ SousPlancher(d, o)
      /\ connu' = [connu EXCEPT ![d][o] = [rev |-> MaxDe(connu[d][o].rev, e.rev), forme |-> c]]
      /\ NoterReferences(d, o, e.forme) /\ ConnaitreReferences(d, e.forme)
      /\ UNCHANGED <<locale, trous, plancher, reclamation, objets, seq>>
  BY DEF TenirPlancher, magasin, serveur, Types, TypesAppareils
<1>2. /\ e \in Objets /\ e.forme \in Formes /\ objets[o] \in Objets
      /\ locale[d][o] \in FormesLocales /\ trous[d][o] \in ListesTrous
      /\ connu[d][o] \in Connus /\ plancher[d][o] \in Int
      /\ EnPage(e, locale[d][o], connu[d][o], plancher[d][o], objets[o])
      /\ Cellule(d, o)
      /\ Premiere(d, o) \in Formes /\ Attache(Premiere(d, o), e.forme)
  BY <1>1, ExamineeVoit
<1>3. MaxDe(connu[d][o].rev, e.rev) = e.rev /\ e.rev \in Nat \ {0}
      /\ (e.rev = objets[o].rev => e = objets[o]) /\ e.rev <= objets[o].rev
      /\ connu[d][o].rev <= e.rev
  BY <1>2, RevNotee DEF Objets, EnPage
<1>4. c \in Formes /\ Attache(c, e.forme)
  BY <1>2, RecupereeForme, AttacheTransitif
<1> HIDE DEF c
<1>5. /\ connu' \in [Appareils -> [Ids -> Connus]]
      /\ connu'[d][o].rev = e.rev /\ connu'[d][o].forme = c
      /\ connu'[d][o] \in Connus
      /\ \A y \in Ids \ {o} : connu'[d][y] = connu[d][y]
      /\ \A x \in Appareils \ {d} : connu'[x] = connu[x]
  <2>1. [rev |-> e.rev, forme |-> c] \in Connus
    BY <1>3, <1>4 DEF Connus
  <2>2. connu' = [connu EXCEPT ![d][o] = [rev |-> e.rev, forme |-> c]]
    BY <1>1, <1>3
  <2> QED
    BY <2>1, <2>2 DEF Types, TypesAppareils
<1>6. /\ refs' \in [Appareils -> [Ids -> SUBSET Pieces]]
      /\ connues' \in [Appareils -> SUBSET Pieces]
      /\ refs'[d][o] = References(e.forme) /\ refs'[d][o] \subseteq connues'[d]
      /\ connues'[d] = connues[d] \cup References(e.forme)
      /\ \A y \in Ids \ {o} : refs'[d][y] = refs[d][y]
      /\ \A x \in Appareils \ {d} : refs'[x] = refs[x] /\ connues'[x] = connues[x]
  BY <1>1, <1>2, NoterType
<1>7. /\ cycle' \in [Appareils -> Cycles] /\ curseur' \in [Appareils -> Nat]
      /\ \A x \in Appareils \ {d} : cycle'[x] = cycle[x] /\ curseur'[x] = curseur[x]
  BY <1>1, ExamineeTypes
<1>8. TypesAppareils'
  BY <1>1, <1>5, <1>6, <1>7 DEF Types, TypesAppareils
<1>9. \A x \in Appareils \ {d} : MemeAppareil(x)
  BY <1>1, <1>5, <1>6, <1>7 DEF MemeAppareil
<1>10. Cellule(d, o)'
  <2>1. ~e.forme.morte /\ plancher[d][o] >= e.forme.date
    BY <1>1 DEF SousPlancher
  <2>2. Ligne(locale[d][o], trous[d][o], connu'[d][o], plancher[d][o],
              References(e.forme), objets[o])
    BY <1>2, <1>4, <1>5, <2>1, LigneSousPlancher DEF Cellule
  <2> QED
    BY <1>1, <1>6, <2>2 DEF Cellule
<1>11. AJour(d, o) \/ e = objets[o] => AJour(d, o)'
  <2>1. connu[d][o].rev \in Nat /\ objets[o].rev \in Nat
    BY <1>2, ConnuDe, ScelleeForme
  <2> HIDE DEF e
  <2> QED
    BY <1>1, <1>3, <1>5, <2>1 DEF AJour
<1>12. AppareilJuste(d)'
  <2> HIDE DEF e
  <2>1. \A y \in Ids \ {o} :
           /\ locale'[d][y] = locale[d][y] /\ trous'[d][y] = trous[d][y]
           /\ connu'[d][y] = connu[d][y] /\ plancher'[d][y] = plancher[d][y]
           /\ refs'[d][y] = refs[d][y]
    BY <1>1, <1>5, <1>6
  <2>2. connues[d] \subseteq connues'[d] /\ refs'[d][o] \subseteq connues'[d]
    BY <1>6
  <2>3. UNCHANGED <<objets, seq>> /\ Examinee(d, o)
    BY <1>1
  <2>4. AJour(d, o) \/ cycle[d].page[o] = objets[o] => AJour(d, o)'
    BY <1>11 DEF e
  <2> QED
    BY <1>10, <2>1, <2>2, <2>3, <2>4, ExamineeJuste
<1> QED
  BY <1>8, <1>9, <1>12

LEMMA IngererJuste ==
  ASSUME Types, NEW d \in Appareils, NEW o \in Ids, NEW ratees, AppareilJuste(d),
         Ingerer(d, o, ratees)
  PROVE  /\ TypesAppareils' /\ AppareilJuste(d)'
         /\ \A x \in Appareils \ {d} : MemeAppareil(x)
<1> DEFINE e == cycle[d].page[o]
           c == Recuperee(Premiere(d, o), ratees)
           g == IF c.morte THEN MaxDe(plancher[d][o], c.date) ELSE plancher[d][o]
           w == Recue(locale[d][o], SansTrou(c))
<1>0. TypesAppareils /\ locale \in [Appareils -> [Ids -> FormesLocales]]
      /\ trous \in [Appareils -> [Ids -> ListesTrous]]
      /\ plancher \in [Appareils -> [Ids -> Int]] /\ connu \in [Appareils -> [Ids -> Connus]]
  BY DEF Types, TypesAppareils
<1>1. /\ Examinee(d, o) /\ ~SousPlancher(d, o)
      /\ locale' = [locale EXCEPT ![d][o] = w]
      /\ trous' = [trous EXCEPT ![d][o] = Trous(c)]
      /\ plancher' = [plancher EXCEPT ![d][o] = g]
      /\ connu' = [connu EXCEPT ![d][o] = [rev |-> MaxDe(connu[d][o].rev, e.rev), forme |-> c]]
      /\ NoterReferences(d, o, e.forme) /\ ConnaitreReferences(d, e.forme)
      /\ UNCHANGED <<reclamation, objets, seq>>
  BY <1>0 DEF Ingerer, Poser, serveur
<1>2. /\ e \in Objets /\ e.forme \in Formes /\ objets[o] \in Objets
      /\ locale[d][o] \in FormesLocales /\ trous[d][o] \in ListesTrous
      /\ connu[d][o] \in Connus /\ plancher[d][o] \in Int
      /\ EnPage(e, locale[d][o], connu[d][o], plancher[d][o], objets[o])
      /\ Cellule(d, o)
      /\ Premiere(d, o) \in Formes /\ Attache(Premiere(d, o), e.forme)
      /\ \A k \in Images : locale[d][o].images[k] = Pleine => Premiere(d, o).images[k] <= 0
  BY <1>1, ExamineeVoit
<1>3. MaxDe(connu[d][o].rev, e.rev) = e.rev /\ e.rev \in Nat \ {0}
      /\ (e.rev = objets[o].rev => e = objets[o]) /\ e.rev <= objets[o].rev
      /\ connu[d][o].rev <= e.rev
  BY <1>2, RevNotee DEF Objets, EnPage
<1>4. /\ c \in Formes /\ Attache(c, e.forme)
      /\ \A k \in Images : locale[d][o].images[k] = Pleine => c.images[k] <= 0
  <2>1. c \in Formes /\ Attache(c, Premiere(d, o))
    BY <1>2, RecupereeForme
  <2> HIDE DEF c, e
  <2>2. ASSUME NEW k \in Images, locale[d][o].images[k] = Pleine PROVE c.images[k] <= 0
    <3>1. Premiere(d, o).images[k] <= 0 /\ c.images[k] \in {Pleine, Premiere(d, o).images[k]}
      BY <1>2, <2>1, <2>2 DEF Attache
    <3> QED
      BY <3>1 DEF Pleine
  <2> QED
    BY <1>2, <2>1, <2>2, AttacheTransitif
<1>5. w \in FormesLocales /\ Trous(c) \in ListesTrous /\ g \in Int
  BY <1>2, <1>4, SansTrouForme, RecueForme, TrousDe, FormeDe DEF MaxDe
<1> HIDE DEF c
<1>6. Ligne(w, Trous(c), [rev |-> e.rev, forme |-> c], g, References(e.forme), objets[o])
  <2>1. e.forme.morte \/ plancher[d][o] < e.forme.date
    BY <1>1, <1>2, FormeDe DEF SousPlancher
  <2>2. [rev |-> e.rev, forme |-> c] \in Connus
    BY <1>3, <1>4 DEF Connus
  <2>3. /\ [rev |-> e.rev, forme |-> c].rev = e.rev
        /\ [rev |-> e.rev, forme |-> c].forme = c
    OBVIOUS
  <2>4. Ligne(locale[d][o], trous[d][o], connu[d][o], plancher[d][o], refs[d][o], objets[o])
    BY <1>2 DEF Cellule
  <2> DEFINE m == [rev |-> e.rev, forme |-> c]
  <2>5. m \in Connus /\ m.rev = e.rev /\ m.forme = c
    BY <2>2
  <2> HIDE DEF m, e
  <2>6. Ligne(w, Trous(c), m, g, References(e.forme), objets[o])
    BY <1>2, <1>4, <2>1, <2>4, <2>5, LigneIngeree
  <2> QED
    BY <2>6 DEF m
<1> HIDE DEF w, g
<1>7. /\ connu' \in [Appareils -> [Ids -> Connus]]
      /\ connu'[d][o] = [rev |-> e.rev, forme |-> c]
      /\ connu'[d][o] \in Connus
      /\ \A y \in Ids \ {o} : connu'[d][y] = connu[d][y]
      /\ \A x \in Appareils \ {d} : connu'[x] = connu[x]
  <2>1. [rev |-> e.rev, forme |-> c] \in Connus
    BY <1>3, <1>4 DEF Connus
  <2>2. connu' = [connu EXCEPT ![d][o] = [rev |-> e.rev, forme |-> c]]
    BY <1>1, <1>3
  <2> QED
    BY <1>0, <2>1, <2>2
<1>8. /\ locale' \in [Appareils -> [Ids -> FormesLocales]] /\ locale'[d][o] = w
      /\ trous' \in [Appareils -> [Ids -> ListesTrous]] /\ trous'[d][o] = Trous(c)
      /\ plancher' \in [Appareils -> [Ids -> Int]] /\ plancher'[d][o] = g
      /\ \A y \in Ids \ {o} : /\ locale'[d][y] = locale[d][y] /\ trous'[d][y] = trous[d][y]
                              /\ plancher'[d][y] = plancher[d][y]
      /\ \A x \in Appareils \ {d} : /\ locale'[x] = locale[x] /\ trous'[x] = trous[x]
                                    /\ plancher'[x] = plancher[x]
  BY <1>0, <1>1, <1>5
<1>9. /\ refs' \in [Appareils -> [Ids -> SUBSET Pieces]]
      /\ connues' \in [Appareils -> SUBSET Pieces]
      /\ refs'[d][o] = References(e.forme) /\ refs'[d][o] \subseteq connues'[d]
      /\ connues'[d] = connues[d] \cup References(e.forme)
      /\ \A y \in Ids \ {o} : refs'[d][y] = refs[d][y]
      /\ \A x \in Appareils \ {d} : refs'[x] = refs[x] /\ connues'[x] = connues[x]
  BY <1>1, <1>2, NoterType
<1>10. /\ cycle' \in [Appareils -> Cycles] /\ curseur' \in [Appareils -> Nat]
       /\ \A x \in Appareils \ {d} : cycle'[x] = cycle[x] /\ curseur'[x] = curseur[x]
  BY <1>1, ExamineeTypes
<1>11. TypesAppareils'
  BY <1>0, <1>1, <1>7, <1>8, <1>9, <1>10 DEF TypesAppareils
<1>12. \A x \in Appareils \ {d} : MemeAppareil(x)
  BY <1>1, <1>7, <1>8, <1>9, <1>10 DEF MemeAppareil
<1>13. Cellule(d, o)'
  BY <1>1, <1>6, <1>7, <1>8, <1>9 DEF Cellule
<1>14. AJour(d, o) \/ e = objets[o] => AJour(d, o)'
  <2>1. connu[d][o].rev \in Nat /\ objets[o].rev \in Nat
    BY <1>2, ConnuDe, ScelleeForme
  <2> HIDE DEF e
  <2> QED
    BY <1>1, <1>3, <1>7, <2>1 DEF AJour
<1>15. AppareilJuste(d)'
  <2> HIDE DEF e
  <2>1. \A y \in Ids \ {o} :
           /\ locale'[d][y] = locale[d][y] /\ trous'[d][y] = trous[d][y]
           /\ connu'[d][y] = connu[d][y] /\ plancher'[d][y] = plancher[d][y]
           /\ refs'[d][y] = refs[d][y]
    BY <1>7, <1>8, <1>9
  <2>2. connues[d] \subseteq connues'[d] /\ refs'[d][o] \subseteq connues'[d]
    BY <1>9
  <2>3. UNCHANGED <<objets, seq>> /\ Examinee(d, o)
    BY <1>1
  <2>4. AJour(d, o) \/ cycle[d].page[o] = objets[o] => AJour(d, o)'
    BY <1>14 DEF e
  <2> QED
    BY <1>13, <2>1, <2>2, <2>3, <2>4, ExamineeJuste
<1> QED
  BY <1>11, <1>12, <1>15

-----------------------------------------------------------------------------
(* The holes                                                               *)

\* ReparerTrous, and a cycle that neither takes in a page nor pushes a lot.
LEMMA ReparerJuste ==
  ASSUME Types, NEW d \in Appareils, NEW S, NEW ratees, NEW oubliees, AppareilJuste(d),
         ReparerTrous(d, S, ratees, oubliees),
         UNCHANGED <<plancher, refs, connues, curseur, objets, seq>>,
         cycle' \in [Appareils -> Cycles], cycle'[d].asOf <= seq,
         \A x \in Appareils \ {d} : cycle'[x] = cycle[x],
         cycle'[d].pc \notin {"accueil", "conflit", "depose"},
         cycle'[d].pc # "repos" => cycle'[d].ouverte > 0,
         \A o \in Ids : cycle'[d].page[o] = Rien
  PROVE  /\ AppareilJuste(d)'
         /\ locale' \in [Appareils -> [Ids -> FormesLocales]]
         /\ trous' \in [Appareils -> [Ids -> ListesTrous]]
         /\ connu' \in [Appareils -> [Ids -> Connus]]
         /\ \A x \in Appareils \ {d} : /\ locale'[x] = locale[x] /\ trous'[x] = trous[x]
                                       /\ connu'[x] = connu[x]
         /\ \A o \in Ids : connu'[d][o].rev = connu[d][o].rev
<1> DEFINE apres == [o \in Ids |-> IF o \in S THEN Recuperee(Comblees(d, o), ratees)
                                   ELSE Comblees(d, o)]
           recues == [o \in Ids |-> Recue(locale[d][o], SansTrou(apres[o]))]
           creux == [o \in Ids |-> Trous(apres[o])]
           sus == [o \in Ids |->
             IF o \in oubliees THEN [connu[d][o] EXCEPT !.forme = Rien]
             ELSE IF apres[o] = Comblees(d, o) THEN connu[d][o]
             ELSE [connu[d][o] EXCEPT !.forme = FormeReparee(d, o, apres[o])]]
<1>0. /\ locale \in [Appareils -> [Ids -> FormesLocales]]
      /\ trous \in [Appareils -> [Ids -> ListesTrous]]
      /\ connu \in [Appareils -> [Ids -> Connus]]
  BY DEF Types, TypesAppareils
<1>1. /\ locale' = [locale EXCEPT ![d] = recues] /\ trous' = [trous EXCEPT ![d] = creux]
      /\ connu' = [connu EXCEPT ![d] = sus]
  BY <1>0 DEF ReparerTrous
<1>2. ASSUME NEW o \in Ids
      PROVE  /\ Comblees(d, o) \in Formes /\ apres[o] \in Formes
             /\ Attache(apres[o], Comblees(d, o))
             /\ recues[o] \in FormesLocales /\ creux[o] \in ListesTrous /\ sus[o] \in Connus
             /\ sus[o].rev = connu[d][o].rev /\ sus[o].forme \in {Rien, connu[d][o].forme, apres[o]}
             /\ recues[o] = Recue(locale[d][o], SansTrou(apres[o])) /\ creux[o] = Trous(apres[o])
  <2>1. Comblees(d, o) \in Formes
    BY <1>0, CombleeForme DEF Comblees
  <2>2. /\ Recuperee(Comblees(d, o), ratees) \in Formes
        /\ Attache(Recuperee(Comblees(d, o), ratees), Comblees(d, o))
    BY <2>1, RecupereeForme
  <2>3. Attache(Comblees(d, o), Comblees(d, o))
    BY DEF Attache
  <2>4. apres[o] \in Formes /\ Attache(apres[o], Comblees(d, o))
    BY <2>1, <2>2, <2>3
  <2>5. sus[o] = IF o \in oubliees THEN [connu[d][o] EXCEPT !.forme = Rien]
             ELSE IF apres[o] = Comblees(d, o) THEN connu[d][o]
             ELSE [connu[d][o] EXCEPT !.forme = FormeReparee(d, o, apres[o])]
    OBVIOUS
  <2>6. recues[o] = Recue(locale[d][o], SansTrou(apres[o])) /\ creux[o] = Trous(apres[o])
    OBVIOUS
  <2> HIDE DEF apres, recues, creux, sus
  <2>7. recues[o] \in FormesLocales /\ creux[o] \in ListesTrous
    BY <1>0, <2>4, <2>6, SansTrouForme, RecueForme, TrousDe
  <2>8. /\ sus[o] \in Connus /\ sus[o].rev = connu[d][o].rev
        /\ sus[o].forme \in {Rien, connu[d][o].forme, apres[o]}
    <3>1. connu[d][o] \in Connus /\ connu[d][o].forme \in Formes \cup {Rien}
      BY <1>0 DEF Connus
    <3>2. FormeReparee(d, o, apres[o]) \in {connu[d][o].forme, apres[o]}
      BY DEF FormeReparee
    <3>3. \A v \in Formes \cup {Rien} :
            /\ [connu[d][o] EXCEPT !.forme = v] \in Connus
            /\ [connu[d][o] EXCEPT !.forme = v].rev = connu[d][o].rev
            /\ [connu[d][o] EXCEPT !.forme = v].forme = v
      BY <3>1 DEF Connus
    <3>4. FormeReparee(d, o, apres[o]) \in Formes \cup {Rien}
      BY <2>4, <3>1, <3>2
    <3>5. CASE o \in oubliees
      BY <2>5, <3>3, <3>5
    <3>6. CASE o \notin oubliees /\ apres[o] = Comblees(d, o)
      BY <2>5, <3>1, <3>6
    <3>7. CASE o \notin oubliees /\ apres[o] # Comblees(d, o)
      BY <2>5, <3>2, <3>3, <3>4, <3>7
    <3> QED
      BY <3>5, <3>6, <3>7
  <2> QED
    BY <2>1, <2>4, <2>6, <2>7, <2>8
<1>3. /\ recues \in [Ids -> FormesLocales] /\ creux \in [Ids -> ListesTrous]
      /\ sus \in [Ids -> Connus]
  BY <1>2
<1> HIDE DEF apres, recues, creux, sus
<1>4. /\ locale' \in [Appareils -> [Ids -> FormesLocales]]
      /\ trous' \in [Appareils -> [Ids -> ListesTrous]]
      /\ connu' \in [Appareils -> [Ids -> Connus]]
      /\ \A x \in Appareils \ {d} : /\ locale'[x] = locale[x] /\ trous'[x] = trous[x]
                                    /\ connu'[x] = connu[x]
      /\ locale'[d] = recues /\ trous'[d] = creux /\ connu'[d] = sus
  BY <1>0, <1>1, <1>3
<1>5. ASSUME NEW o \in Ids
      PROVE  Cellule(d, o)' /\ PageJuste(d, o)' /\ LotJuste(d, o)' /\ VuesJustes(d, o)'
  <2>1. Cellule(d, o) /\ VuesJustes(d, o)
    BY DEF AppareilJuste
  <2>2. /\ locale[d][o] \in FormesLocales /\ trous[d][o] \in ListesTrous
        /\ connu[d][o] \in Connus /\ plancher[d][o] \in Int /\ objets[o] \in Objets
    BY RangDe DEF Types, TypesServeur
  <2>3. Ligne(recues[o], creux[o], sus[o], plancher[d][o], refs[d][o], objets[o])
    <3>1. Ligne(locale[d][o], trous[d][o], connu[d][o], plancher[d][o], refs[d][o], objets[o])
      BY <2>1 DEF Cellule
    <3>2. apres[o] \in Formes /\ Attache(apres[o], Comblee(locale[d][o], trous[d][o]))
      BY <1>2 DEF Comblees
    <3>3. Ligne(Recue(locale[d][o], SansTrou(apres[o])), Trous(apres[o]), sus[o],
                plancher[d][o], refs[d][o], objets[o])
      BY <1>2, <2>2, <3>1, <3>2, LigneReparee
    <3> QED
      BY <1>2, <3>3
  <2>4. Cellule(d, o)'
    BY <1>4, <2>3 DEF Cellule
  <2>5. PageJuste(d, o)' /\ LotJuste(d, o)'
    BY DEF PageJuste, LotJuste
  <2>6. VuesJustes(d, o)'
    BY <1>2, <1>4, <2>1 DEF VuesJustes, AJour
  <2> QED
    BY <2>4, <2>5, <2>6
<1>6. (curseur[d] <= seq)' /\ (cycle[d].asOf <= seq)'
  BY DEF AppareilJuste
<1>7. \A o \in Ids : connu'[d][o].rev = connu[d][o].rev
  BY <1>2, <1>4
<1> QED
  BY <1>4, <1>5, <1>6, <1>7 DEF AppareilJuste

LEMMA ReprendreJuste ==
  ASSUME Types, NEW d \in Appareils, NEW o, NEW ratees, AppareilJuste(d),
         Reprendre(d, o, ratees)
  PROVE  /\ TypesAppareils' /\ AppareilJuste(d)'
         /\ \A x \in Appareils \ {d} : MemeAppareil(x)
<1>1. /\ ReparerTrous(d, {o}, ratees, {}) /\ cycle[d].pc = "reclame"
      /\ UNCHANGED <<plancher, refs, connues, curseur, reclamation, cycle, objets, seq>>
  BY DEF Reprendre, serveur
<1>2. /\ cycle \in [Appareils -> Cycles] /\ cycle[d].asOf <= seq /\ cycle[d].ouverte > 0
      /\ \A y \in Ids : cycle[d].page[y] = Rien
  BY <1>1 DEF Types, TypesAppareils, AppareilJuste, PageJuste
<1>3. /\ AppareilJuste(d)'
      /\ locale' \in [Appareils -> [Ids -> FormesLocales]]
      /\ trous' \in [Appareils -> [Ids -> ListesTrous]]
      /\ connu' \in [Appareils -> [Ids -> Connus]]
      /\ \A x \in Appareils \ {d} : /\ locale'[x] = locale[x] /\ trous'[x] = trous[x]
                                    /\ connu'[x] = connu[x]
  BY <1>1, <1>2, ReparerJuste
<1> QED
  BY <1>1, <1>3 DEF Types, TypesAppareils, MemeAppareil

LEMMA FinirReclamationJuste ==
  ASSUME Types, NEW d \in Appareils, NEW ratees, AppareilJuste(d),
         FinirReclamation(d, ratees)
  PROVE  /\ TypesAppareils' /\ AppareilJuste(d)'
         /\ \A x \in Appareils \ {d} : MemeAppareil(x)
<1>1. /\ ReparerTrous(d, Ids, ratees, Perimees(d)) /\ cycle[d].pc = "ranime"
      /\ reclamation' = [reclamation EXCEPT ![d] = cycle[d].jour]
      /\ cycle' = [cycle EXCEPT ![d] = Poussant(cycle[d])]
      /\ UNCHANGED <<plancher, refs, connues, curseur, objets, seq>>
  BY DEF FinirReclamation, serveur, Types, TypesAppareils
<1>2. /\ cycle \in [Appareils -> Cycles] /\ reclamation \in [Appareils -> Nat]
      /\ cycle[d] \in Cycles /\ cycle[d].jour \in Nat /\ cycle[d].asOf <= seq
      /\ cycle[d].ouverte > 0
  BY <1>1, CycleDe DEF Types, TypesAppareils, AppareilJuste
<1>3. /\ cycle' \in [Appareils -> Cycles] /\ reclamation' \in [Appareils -> Nat]
      /\ cycle'[d] = Poussant(cycle[d])
      /\ \A x \in Appareils \ {d} : cycle'[x] = cycle[x] /\ reclamation'[x] = reclamation[x]
  BY <1>1, <1>2, PoussantType
<1>4. /\ cycle'[d].pc = "lot" /\ cycle'[d].asOf <= seq /\ cycle'[d].ouverte > 0
      /\ \A y \in Ids : cycle'[d].page[y] = Rien
  BY <1>2, <1>3, PoussantType
<1>5. /\ AppareilJuste(d)'
      /\ locale' \in [Appareils -> [Ids -> FormesLocales]]
      /\ trous' \in [Appareils -> [Ids -> ListesTrous]]
      /\ connu' \in [Appareils -> [Ids -> Connus]]
      /\ \A x \in Appareils \ {d} : /\ locale'[x] = locale[x] /\ trous'[x] = trous[x]
                                    /\ connu'[x] = connu[x]
  BY <1>1, <1>3, <1>4, ReparerJuste
<1> QED
  BY <1>1, <1>3, <1>5 DEF Types, TypesAppareils, MemeAppareil

-----------------------------------------------------------------------------
(* The requests of a device                                                *)

LEMMA PageVide ==
  ASSUME NEW d \in Appareils, AppareilJuste(d), cycle[d].pc \notin {"accueil", "conflit"}
  PROVE  \A o \in Ids : cycle[d].page[o] = Rien
BY DEF AppareilJuste, PageJuste

\* Its tables unchanged, but for what it knows the server holds.
LEMMA CycleJuste ==
  ASSUME Types, TypesServeur', Progres, seq <= seq',
         NEW d \in Appareils, AppareilJuste(d),
         UNCHANGED <<locale, trous, connu, plancher, refs, curseur>>,
         \A o \in Ids : refs[d][o] \subseteq connues'[d],
         cycle'[d].pc # "accueil", cycle'[d].asOf \in Nat, cycle'[d].asOf <= seq,
         cycle'[d].pc # "repos" => cycle'[d].ouverte > 0,
         \A o \in Ids : cycle'[d].page[o] = Rien,
         \A o \in Ids : LotJuste(d, o)'
  PROVE  AppareilJuste(d)'
<1>1. /\ seq \in Nat /\ seq' \in Nat /\ curseur[d] \in Nat /\ curseur[d] <= seq
      /\ \A o \in Ids : objets[o] \in Objets /\ objets'[o] \in Objets
      /\ \A o \in Ids : Avance(objets[o], objets'[o], seq)
  BY RangDe DEF Types, TypesServeur, Progres, AppareilJuste
<1>2. ASSUME NEW o \in Ids
      PROVE  Cellule(d, o)' /\ PageJuste(d, o)' /\ VuesJustes(d, o)'
  <2>1. Cellule(d, o) /\ VuesJustes(d, o)
    BY DEF AppareilJuste
  <2>2. /\ locale[d][o] \in FormesLocales /\ trous[d][o] \in ListesTrous
        /\ connu[d][o] \in Connus /\ plancher[d][o] \in Int
    BY RangDe DEF Types
  <2>3. Cellule(d, o)'
    BY <1>1, <2>1, <2>2, LigneAvance DEF Cellule
  <2>4. objets'[o].seq <= curseur[d] => objets'[o] = objets[o]
    BY <1>1, PasVu DEF Types
  <2> QED
    BY <2>1, <2>3, <2>4 DEF PageJuste, VuesJustes, AJour
<1>3. (curseur[d] <= seq)' /\ (cycle[d].asOf <= seq)'
  BY <1>1
<1> QED
  BY <1>2, <1>3 DEF AppareilJuste

LEMMA LotGarde ==
  ASSUME Types, TypesServeur', Progres, NEW d \in Appareils, AppareilJuste(d),
         UNCHANGED <<locale, trous, connu>>,
         cycle'[d].pc = "depose" => cycle[d].pc = "depose" /\ cycle'[d].lot = cycle[d].lot
  PROVE  \A o \in Ids : LotJuste(d, o)'
<1> SUFFICES ASSUME NEW o \in Ids, cycle'[d].pc = "depose", cycle'[d].lot[o] # Rien
             PROVE  EnLot(cycle[d].lot[o], locale[d][o], trous[d][o], connu[d][o], objets'[o])
  BY DEF LotJuste
<1>1. /\ objets[o] \in Objets /\ objets'[o] \in Objets /\ seq \in Nat
      /\ Avance(objets[o], objets'[o], seq) /\ connu[d][o] \in Connus
  BY RangDe DEF Types, TypesServeur, Progres
<1>2. /\ EnLot(cycle[d].lot[o], locale[d][o], trous[d][o], connu[d][o], objets[o])
      /\ connu[d][o].rev <= objets[o].rev
  BY DEF AppareilJuste, LotJuste, Cellule, Ligne
<1> QED
  BY <1>1, <1>2, EnLotAvance

LEMMA ClaimDe ==
  ASSUME NEW d \in Appareils, NEW S \in SUBSET Pieces
  PROVE  Claim(d, S) \in Demandes /\ PousseeJuste(Claim(d, S)) /\ Claim(d, S).type = "missing"
         /\ Claim(d, S).pieces = S /\ Claim(d, S).de = d
BY DEF Claim, Demandes, PousseeJuste

LEMMA DepotDe ==
  ASSUME NEW d \in Appareils, NEW p \in Pieces
  PROVE  Depot(d, p) \in Demandes /\ PousseeJuste(Depot(d, p)) /\ Depot(d, p).type = "put"
         /\ Depot(d, p).piece = p /\ Depot(d, p).de = d
BY DEF Depot, Demandes, PousseeJuste

LEMMA MarqueDe ==
  ASSUME TypesAppareils, NEW d \in Appareils, NEW p \in Pieces
  PROVE  Marque(d, p) \in Demandes /\ PousseeJuste(Marque(d, p)) /\ Marque(d, p).type = "delete"
         /\ Marque(d, p).piece = p /\ Marque(d, p).asOf = cycle[d].asOf /\ Marque(d, p).de = d
<1>1. cycle[d].asOf \in Nat
  BY RangDe, CycleDe
<1> QED
  BY <1>1 DEF Marque, Demandes, PousseeJuste

LEMMA PousseeDe ==
  ASSUME Types, NEW d \in Appareils, AppareilJuste(d), cycle[d].pc = "depose"
  PROVE  /\ Poussee(d) \in Demandes /\ PousseeJuste(Poussee(d)) /\ Poussee(d).type = "push"
         /\ Poussee(d).de = d /\ Poussee(d).epoque = cycle[d].ouverte /\ Poussee(d).jour = jour
         /\ cycle[d].ouverte \in 1..EpoqueMax
         /\ \A o \in Ids :
              /\ cycle[d].lot[o] = Rien => Poussee(d).lot[o] = Rien
              /\ cycle[d].lot[o] # Rien =>
                   /\ cycle[d].lot[o] \in Formes /\ Poussee(d).lot[o] # Rien
                   /\ Poussee(d).lot[o].base = connu[d][o].rev
                   /\ Poussee(d).lot[o].forme = Detachee(cycle[d].lot[o], cycle[d].ouverte)
<1> DEFINE e == cycle[d].ouverte
           lot == [o \in Ids |-> IF cycle[d].lot[o] = Rien THEN Rien
                     ELSE [base |-> connu[d][o].rev, forme |-> Detachee(cycle[d].lot[o], e)]]
<1>1. /\ e \in 1..EpoqueMax /\ e \in 0..EpoqueMax /\ cycle[d] \in Cycles /\ jour \in Nat
  BY RangDe, CycleDe, ImagesNumbers DEF AppareilJuste, Types, TypesServeur
<1>2. ASSUME NEW o \in Ids, cycle[d].lot[o] # Rien
      PROVE  /\ cycle[d].lot[o] \in Formes /\ connu[d][o].rev \in Nat \ {0}
             /\ Detachee(cycle[d].lot[o], e) \in FormesScellees
             /\ lot[o] = [base |-> connu[d][o].rev, forme |-> Detachee(cycle[d].lot[o], e)]
             /\ lot[o] # Rien
             /\ EnRoute(connu[d][o].rev, Detachee(cycle[d].lot[o], e), objets[o])
  <2>1. cycle[d].lot[o] \in Formes /\ connu[d][o] \in Connus /\ objets[o] \in Objets
    BY <1>1, <1>2, RangDe, CycleDe DEF Types, TypesServeur
  <2>2. Detachee(cycle[d].lot[o], e) \in FormesScellees
    BY <1>1, <2>1, DetacheeForme
  <2>3. connu[d][o].rev \in Nat \ {0} /\ connu[d][o].rev \in Nat
    BY <2>1 DEF Connus
  <2>4. [base |-> connu[d][o].rev, forme |-> Detachee(cycle[d].lot[o], e)] # Rien
    BY <2>2, <2>3, RienHors DEF FormesScellees
  <2>5. EnLot(cycle[d].lot[o], locale[d][o], trous[d][o], connu[d][o], objets[o])
        /\ connu[d][o].rev <= objets[o].rev
    BY <1>2 DEF AppareilJuste, LotJuste, Cellule, Ligne
  <2>6. EnRoute(connu[d][o].rev, Detachee(cycle[d].lot[o], e), objets[o])
    BY <1>1, <2>1, <2>5, EnRouteDetachee
  <2>7. lot[o] = [base |-> connu[d][o].rev, forme |-> Detachee(cycle[d].lot[o], e)]
    BY <1>2
  <2> QED
    BY <2>1, <2>2, <2>3, <2>4, <2>6, <2>7
<1>3. \A o \in Ids : cycle[d].lot[o] = Rien => lot[o] = Rien
  OBVIOUS
<1>4. lot \in [Ids -> LignesDeLot \cup {Rien}]
  <2>1. ASSUME NEW o \in Ids PROVE lot[o] \in LignesDeLot \cup {Rien}
    BY <1>2, <1>3 DEF LignesDeLot
  <2> QED
    BY <2>1
<1>5. Poussee(d) = [de |-> d, type |-> "push", epoque |-> e, jour |-> jour, lot |-> lot]
  BY DEF Poussee
<1> HIDE DEF lot, e
<1>6. /\ Poussee(d).type = "push" /\ Poussee(d).de = d /\ Poussee(d).epoque = e
      /\ Poussee(d).jour = jour /\ Poussee(d).lot = lot
  BY <1>5
<1>7. Poussee(d) \in Demandes
  BY <1>1, <1>4, <1>5 DEF Demandes
<1>8. ASSUME NEW o \in Ids, cycle[d].lot[o] # Rien
      PROVE  lot[o].base = connu[d][o].rev /\ lot[o].forme = Detachee(cycle[d].lot[o], e)
  <2>1. lot[o] = [base |-> connu[d][o].rev, forme |-> Detachee(cycle[d].lot[o], e)]
    BY <1>2, <1>8
  <2> QED
    BY <2>1
<1>9. PousseeJuste(Poussee(d))
  BY <1>2, <1>3, <1>6, <1>8 DEF PousseeJuste
<1> QED
  BY <1>1, <1>2, <1>3, <1>6, <1>7, <1>8, <1>9 DEF e

LEMMA RequeteDe ==
  ASSUME Types, NEW d \in Appareils, AppareilJuste(d), NEW r \in Requetes(d)
  PROVE  /\ r \in Demandes /\ PousseeJuste(r) /\ r.de = d
         /\ cycle[d].pc \in {"reclame", "ranime", "depose", "lot", "marque"}
         /\ (r.type = "push" => r = Poussee(d) /\ cycle[d].pc = "depose" /\ cycle[d].file = {})
<1> DEFINE c == cycle[d]
<1>1. c \in Cycles /\ c.file \in SUBSET Pieces /\ TypesAppareils
  BY RangDe, CycleDe DEF Types
<1>2. ToutesReferences(d) \in SUBSET Pieces
  BY RangDe DEF ToutesReferences, Types
<1>3. ReferencesDe(d, Dus(d), c.ouverte) \in SUBSET Pieces
  BY DEF ReferencesDe, References
<1>4. CASE c.pc = "reclame"
  <2>1. r = Claim(d, ToutesReferences(d))
    BY <1>4 DEF Requetes
  <2> QED
    BY <1>2, <1>4, <2>1, ClaimDe
<1>5. CASE c.pc = "ranime"
  <2>1. \E p \in c.file : r = Depot(d, p)
    BY <1>5 DEF Requetes
  <2> QED
    BY <1>1, <1>5, <2>1, DepotDe
<1>6. CASE c.pc = "depose" /\ c.file # {}
  <2>1. \E p \in c.file : r = Depot(d, p)
    BY <1>6 DEF Requetes
  <2> QED
    BY <1>1, <1>6, <2>1, DepotDe
<1>7. CASE c.pc = "depose" /\ c.file = {}
  <2>1. r = Poussee(d)
    BY <1>7 DEF Requetes
  <2> QED
    BY <1>7, <2>1, PousseeDe
<1>8. CASE c.pc = "lot"
  <2>1. r = Claim(d, ReferencesDe(d, Dus(d), c.ouverte))
    BY <1>8 DEF Requetes
  <2> QED
    BY <1>3, <1>8, <2>1, ClaimDe
<1>9. CASE c.pc = "marque"
  <2>1. \E p \in c.file : r = Marque(d, p)
    BY <1>9 DEF Requetes
  <2> QED
    BY <1>1, <1>9, <2>1, MarqueDe
<1>10. CASE c.pc \in {"repos", "accueil", "conflit"}
  BY <1>10 DEF Requetes
<1> QED
  BY <1>1, <1>4, <1>5, <1>6, <1>7, <1>8, <1>9, <1>10, CycleDe DEF Etats

-----------------------------------------------------------------------------
(* Requests and answers                                                    *)

LEMMA ReclamerJuste ==
  ASSUME Types, NEW d \in Appareils, AppareilJuste(d), Reclamer(d), jour' = jour
  PROVE  /\ TypesAppareils' /\ TypesServeur' /\ Progres /\ seq <= seq' /\ epoque' = epoque
         /\ AppareilJuste(d)' /\ \A x \in Appareils \ {d} : MemeAppareil(x)
         /\ cycle'[d].pc = "ranime" /\ cycle'[d].ouverte = cycle[d].ouverte
         /\ cycle'[d].jour = jour /\ objets' = objets
<1> DEFINE S == ToutesReferences(d)
           f == Manquantes(S) \cap
                  UNION {refs[d][o] \cap Tenues(d, {o}, cycle[d].ouverte) : o \in Ids}
           l == [o \in Ids |-> IF refs[d][o] \cap Manquantes(S) # {}
                               THEN ClairLocal(d, o) ELSE Rien]
<1>1. /\ cycle[d].pc = "reclame" /\ Servir(Claim(d, S))
      /\ cycle' = [cycle EXCEPT ![d].pc = "ranime", ![d].jour = jour,
                                ![d].file = f, ![d].lot = l]
      /\ UNCHANGED <<locale, trous, connu, plancher, refs, connues, curseur, reclamation>>
  BY DEF Reclamer, magasin, tables
<1>2. S \in SUBSET Pieces /\ f \in SUBSET Pieces
  BY RangDe DEF ToutesReferences, Types, Manquantes
<1>3. l \in [Ids -> Formes \cup {Rien}]
  BY ClairLocalForme DEF Types
<1>4. /\ TypesServeur' /\ Progres /\ seq <= seq' /\ epoque' = epoque
      /\ objets' = objets
  <2>1. /\ Claim(d, S) \in Demandes /\ PousseeJuste(Claim(d, S))
        /\ Claim(d, S).type = "missing"
    BY <1>2, ClaimDe
  <2>2. /\ TypesServeur' /\ epoque' = epoque /\ seq <= seq' /\ Progres
        /\ \A o \in Ids : objets'[o] = objets[o]
    BY <1>1, <2>1, ServirProgres DEF Types
  <2>3. objets' = objets
    BY <2>2 DEF Types, TypesServeur
  <2> QED
    BY <2>2, <2>3
<1> HIDE DEF S, f, l
<1>5. /\ cycle \in [Appareils -> Cycles] /\ cycle[d] \in Cycles /\ jour \in Nat
      /\ cycle[d].asOf \in Nat
  BY CycleDe DEF Types, TypesAppareils, TypesServeur
<1>6. /\ cycle' \in [Appareils -> Cycles]
      /\ cycle'[d].pc = "ranime" /\ cycle'[d].asOf = cycle[d].asOf
      /\ cycle'[d].ouverte = cycle[d].ouverte /\ cycle'[d].jour = jour
      /\ cycle'[d].page = cycle[d].page
      /\ \A x \in Appareils \ {d} : cycle'[x] = cycle[x]
  <2> DEFINE n == [cycle[d] EXCEPT !.pc = "ranime", !.jour = jour, !.file = f, !.lot = l]
  <2>1. /\ n \in Cycles /\ n.pc = "ranime" /\ n.asOf = cycle[d].asOf
        /\ n.ouverte = cycle[d].ouverte /\ n.jour = jour /\ n.page = cycle[d].page
    BY <1>2, <1>3, <1>5 DEF Cycles, Etats
  <2>2. cycle' = [cycle EXCEPT ![d] = n]
    BY <1>1, <1>5
  <2> HIDE DEF n
  <2> QED
    BY <1>5, <2>1, <2>2
<1>7. TypesAppareils'
  BY <1>1, <1>6 DEF Types, TypesAppareils
<1>8. \A x \in Appareils \ {d} : MemeAppareil(x)
  BY <1>1, <1>6 DEF MemeAppareil
<1>9. AppareilJuste(d)'
  <2>1. \A o \in Ids : cycle'[d].page[o] = Rien
    BY <1>1, <1>6, PageVide
  <2>2. \A o \in Ids : LotJuste(d, o)'
    BY <1>6 DEF LotJuste
  <2>3. /\ cycle'[d].asOf <= seq /\ cycle'[d].asOf \in Nat
        /\ \A o \in Ids : refs[d][o] \subseteq connues'[d]
    BY <1>1, <1>5, <1>6 DEF AppareilJuste, VuesJustes
  <2>4. cycle'[d].ouverte > 0
    BY <1>1, <1>6 DEF AppareilJuste
  <2> QED
    BY <1>1, <1>4, <1>6, <2>1, <2>2, <2>3, <2>4, CycleJuste
<1> QED
  BY <1>4, <1>6, <1>7, <1>8, <1>9

LEMMA PreparerLotJuste ==
  ASSUME Types, NEW d \in Appareils, AppareilJuste(d), PreparerLot(d), jour' = jour
  PROVE  /\ TypesAppareils' /\ TypesServeur' /\ Progres /\ seq <= seq' /\ epoque' = epoque
         /\ AppareilJuste(d)' /\ \A x \in Appareils \ {d} : MemeAppareil(x)
         /\ objets' = objets
         /\ cycle'[d].pc = "depose" /\ cycle'[d].ouverte = cycle[d].ouverte
         /\ cycle'[d].file = Manquantes(ReferencesDe(d, Dus(d), cycle[d].ouverte))
                               \cap Tenues(d, Dus(d), cycle[d].ouverte)
         /\ \A o \in Ids : cycle'[d].lot[o] = IF o \in Dus(d) THEN ClairLocal(d, o) ELSE Rien
<1> DEFINE e == cycle[d].ouverte
           S == ReferencesDe(d, Dus(d), e)
           f == Manquantes(S) \cap Tenues(d, Dus(d), e)
           l == [o \in Ids |-> IF o \in Dus(d) THEN ClairLocal(d, o) ELSE Rien]
<1>1. /\ cycle[d].pc \in {"lot", "reclame"} /\ Servir(Claim(d, S))
      /\ cycle' = [cycle EXCEPT ![d] = [Poussant(cycle[d]) EXCEPT !.pc = "depose",
                                          !.lot = l, !.file = f]]
      /\ UNCHANGED <<locale, trous, connu, plancher, refs, connues, curseur, reclamation>>
  BY DEF PreparerLot, magasin, Types, TypesAppareils
<1>2. S \in SUBSET Pieces /\ f \in SUBSET Pieces
  BY DEF ReferencesDe, References, Tenues
<1>3. /\ l \in [Ids -> Formes \cup {Rien}]
      /\ \A o \in Ids : l[o] = IF o \in Dus(d) THEN ClairLocal(d, o) ELSE Rien
  BY ClairLocalForme DEF Types
<1>4. /\ TypesServeur' /\ Progres /\ seq <= seq' /\ epoque' = epoque
      /\ objets' = objets
  <2>1. /\ Claim(d, S) \in Demandes /\ PousseeJuste(Claim(d, S))
        /\ Claim(d, S).type = "missing"
    BY <1>2, ClaimDe
  <2>2. /\ TypesServeur' /\ epoque' = epoque /\ seq <= seq' /\ Progres
        /\ \A o \in Ids : objets'[o] = objets[o]
    BY <1>1, <2>1, ServirProgres DEF Types
  <2>3. objets' = objets
    BY <2>2 DEF Types, TypesServeur
  <2> QED
    BY <2>2, <2>3
<1> HIDE DEF S, f, l
<1>5. /\ cycle \in [Appareils -> Cycles] /\ cycle[d] \in Cycles
      /\ cycle[d].asOf \in Nat
  BY CycleDe DEF Types, TypesAppareils
<1>6. /\ cycle' \in [Appareils -> Cycles]
      /\ cycle'[d].pc = "depose" /\ cycle'[d].asOf = cycle[d].asOf
      /\ cycle'[d].ouverte = e /\ cycle'[d].lot = l /\ cycle'[d].file = f
      /\ \A y \in Ids : cycle'[d].page[y] = Rien
      /\ \A x \in Appareils \ {d} : cycle'[x] = cycle[x]
  <2> DEFINE n == [Poussant(cycle[d]) EXCEPT !.pc = "depose", !.lot = l, !.file = f]
  <2>0. /\ Poussant(cycle[d]) \in Cycles /\ Poussant(cycle[d]).asOf = cycle[d].asOf
        /\ Poussant(cycle[d]).ouverte = e
        /\ \A y \in Ids : Poussant(cycle[d]).page[y] = Rien
    BY <1>5, PoussantType
  <2>1. /\ n \in Cycles /\ n.pc = "depose" /\ n.asOf = cycle[d].asOf
        /\ n.ouverte = e /\ n.lot = l /\ n.file = f
        /\ n.page = Poussant(cycle[d]).page
    BY <1>2, <1>3, <2>0 DEF Cycles, Etats
  <2>2. cycle' = [cycle EXCEPT ![d] = n]
    BY <1>1
  <2> HIDE DEF n
  <2>3. cycle'[d] = n
    BY <1>5, <2>2
  <2>4. \A y \in Ids : n.page[y] = Rien
    BY <2>0, <2>1
  <2>5. cycle' \in [Appareils -> Cycles] /\ \A x \in Appareils \ {d} : cycle'[x] = cycle[x]
    BY <1>5, <2>1, <2>2
  <2> QED
    BY <2>1, <2>3, <2>4, <2>5
<1>7. TypesAppareils'
  BY <1>1, <1>6 DEF Types, TypesAppareils
<1>8. \A x \in Appareils \ {d} : MemeAppareil(x)
  BY <1>1, <1>6 DEF MemeAppareil
<1>9. AppareilJuste(d)'
  <2>1. ASSUME NEW o \in Ids PROVE LotJuste(d, o)'
    <3> SUFFICES ASSUME l[o] # Rien
                 PROVE  EnLot(l[o], locale[d][o], trous[d][o], connu[d][o], objets[o])
      BY <1>1, <1>4, <1>6 DEF LotJuste
    <3>1. /\ locale[d][o] \in FormesLocales /\ trous[d][o] \in ListesTrous
          /\ connu[d][o] \in Connus /\ plancher[d][o] \in Int /\ objets[o] \in Objets
      BY RangDe DEF Types, TypesServeur
    <3>2. Ligne(locale[d][o], trous[d][o], connu[d][o], plancher[d][o], refs[d][o], objets[o])
      BY DEF AppareilJuste, Cellule
    <3>3. l[o] = Comblee(locale[d][o], trous[d][o])
      <4>1. PlancherTenu(locale[d][o], plancher[d][o])
        BY <3>2 DEF Ligne
      <4> QED
        BY <1>3, <3>1, <4>1, ClairForme DEF ClairLocal, Types
    <3> QED
      BY <3>1, <3>2, <3>3, EnLotPrepare
  <2>2. /\ cycle'[d].asOf <= seq /\ cycle'[d].asOf \in Nat
        /\ \A o \in Ids : refs[d][o] \subseteq connues'[d]
    BY <1>1, <1>5, <1>6 DEF AppareilJuste, VuesJustes
  <2>3. cycle'[d].ouverte > 0
    BY <1>1, <1>6 DEF AppareilJuste
  <2> QED
    BY <1>1, <1>4, <1>6, <2>1, <2>2, <2>3, CycleJuste
<1> QED
  BY <1>3, <1>4, <1>6, <1>7, <1>8, <1>9 DEF f, S

LEMMA UneDeMoins ==
  ASSUME TypesAppareils, NEW d \in Appareils, NEW p,
         cycle' = [cycle EXCEPT ![d].file = @ \ {p}]
  PROVE  /\ cycle' \in [Appareils -> Cycles]
         /\ cycle'[d].pc = cycle[d].pc /\ cycle'[d].asOf = cycle[d].asOf
         /\ cycle'[d].ouverte = cycle[d].ouverte /\ cycle'[d].lot = cycle[d].lot
         /\ cycle'[d].page = cycle[d].page /\ cycle'[d].jour = cycle[d].jour
         /\ cycle'[d].file = cycle[d].file \ {p}
         /\ \A x \in Appareils \ {d} : cycle'[x] = cycle[x]
<1> DEFINE n == [cycle[d] EXCEPT !.file = cycle[d].file \ {p}]
<1>1. cycle \in [Appareils -> Cycles] /\ cycle[d] \in Cycles
  BY DEF TypesAppareils
<1>2. cycle[d].file \ {p} \in SUBSET Pieces
  BY <1>1, CycleDe
<1>3. /\ n \in Cycles /\ n.pc = cycle[d].pc /\ n.asOf = cycle[d].asOf
      /\ n.ouverte = cycle[d].ouverte /\ n.lot = cycle[d].lot
      /\ n.page = cycle[d].page /\ n.jour = cycle[d].jour
      /\ n.file = cycle[d].file \ {p}
  BY <1>1, <1>2 DEF Cycles
<1>4. cycle' = [cycle EXCEPT ![d] = n]
  BY <1>1
<1> HIDE DEF n
<1> QED
  BY <1>1, <1>3, <1>4

LEMMA DeposerJuste ==
  ASSUME Types, NEW d \in Appareils, NEW p \in Pieces, AppareilJuste(d), Deposer(d, p),
         jour' = jour
  PROVE  /\ TypesAppareils' /\ TypesServeur' /\ Progres /\ seq <= seq' /\ epoque' = epoque
         /\ AppareilJuste(d)' /\ \A x \in Appareils \ {d} : MemeAppareil(x)
         /\ objets' = objets
<1>1. /\ cycle[d].pc \in {"ranime", "depose"} /\ Servir(Depot(d, p))
      /\ connues' = [connues EXCEPT ![d] = connues[d] \cup {p}]
      /\ cycle' = [cycle EXCEPT ![d].file = @ \ {p}]
      /\ UNCHANGED <<locale, trous, connu, plancher, refs, curseur, reclamation>>
  BY DEF Deposer, Deposees, magasin
<1>2. /\ TypesServeur' /\ Progres /\ seq <= seq' /\ epoque' = epoque
      /\ objets' = objets
  <2>1. /\ Depot(d, p) \in Demandes /\ PousseeJuste(Depot(d, p)) /\ Depot(d, p).type = "put"
    BY DepotDe
  <2>2. /\ TypesServeur' /\ epoque' = epoque /\ seq <= seq' /\ Progres
        /\ \A o \in Ids : objets'[o] = objets[o]
    BY <1>1, <2>1, ServirProgres DEF Types
  <2>3. objets' = objets
    BY <2>2 DEF Types, TypesServeur
  <2> QED
    BY <2>2, <2>3
<1>3. /\ cycle' \in [Appareils -> Cycles]
      /\ cycle'[d].pc = cycle[d].pc /\ cycle'[d].asOf = cycle[d].asOf
      /\ cycle'[d].ouverte = cycle[d].ouverte /\ cycle'[d].lot = cycle[d].lot
      /\ cycle'[d].page = cycle[d].page
      /\ \A x \in Appareils \ {d} : cycle'[x] = cycle[x]
  BY <1>1, UneDeMoins DEF Types
<1>4. /\ connues' \in [Appareils -> SUBSET Pieces] /\ connues[d] \subseteq connues'[d]
      /\ \A x \in Appareils \ {d} : connues'[x] = connues[x]
  BY <1>1 DEF Types, TypesAppareils
<1>5. TypesAppareils'
  BY <1>1, <1>3, <1>4 DEF Types, TypesAppareils
<1>6. \A x \in Appareils \ {d} : MemeAppareil(x)
  BY <1>1, <1>3, <1>4 DEF MemeAppareil
<1>7. AppareilJuste(d)'
  <2>1. \A o \in Ids : cycle'[d].page[o] = Rien
    BY <1>1, <1>3, PageVide
  <2>2. \A o \in Ids : LotJuste(d, o)'
    BY <1>1, <1>2, <1>3, LotGarde
  <2>3. /\ cycle'[d].asOf <= seq /\ cycle'[d].asOf \in Nat /\ cycle'[d].ouverte > 0
        /\ \A o \in Ids : refs[d][o] \subseteq connues'[d]
    BY <1>1, <1>3, <1>4, RangDe, CycleDe DEF AppareilJuste, VuesJustes, Types
  <2> QED
    BY <1>1, <1>2, <1>3, <2>1, <2>2, <2>3, CycleJuste
<1> QED
  BY <1>2, <1>5, <1>6, <1>7

\* What a device marks is in none of its references.
MarquesLibres(d) ==
  cycle[d].pc = "marque" => cycle[d].file \cap ToutesReferences(d) = {}

LEMMA MarquerJuste ==
  ASSUME Types, NEW d \in Appareils, NEW p \in Pieces, AppareilJuste(d), MarquesLibres(d),
         Marquer(d, p), jour' = jour
  PROVE  /\ TypesAppareils' /\ TypesServeur' /\ Progres /\ seq <= seq' /\ epoque' = epoque
         /\ AppareilJuste(d)' /\ \A x \in Appareils \ {d} : MemeAppareil(x)
         /\ objets' = objets
<1>1. /\ cycle[d].pc = "marque" /\ p \in cycle[d].file /\ Servir(Marque(d, p))
      /\ connues' = [connues EXCEPT ![d] = Marquee(d, p)]
      /\ cycle' = [cycle EXCEPT ![d].file = @ \ {p}]
      /\ UNCHANGED <<locale, trous, connu, plancher, refs, curseur, reclamation>>
  BY DEF Marquer, magasin
<1>2. /\ TypesServeur' /\ Progres /\ seq <= seq' /\ epoque' = epoque
      /\ objets' = objets
  <2>1. /\ Marque(d, p) \in Demandes /\ PousseeJuste(Marque(d, p)) /\ Marque(d, p).type = "delete"
    BY MarqueDe DEF Types
  <2>2. /\ TypesServeur' /\ epoque' = epoque /\ seq <= seq' /\ Progres
        /\ \A o \in Ids : objets'[o] = objets[o]
    BY <1>1, <2>1, ServirProgres DEF Types
  <2>3. objets' = objets
    BY <2>2 DEF Types, TypesServeur
  <2> QED
    BY <2>2, <2>3
<1>3. /\ cycle' \in [Appareils -> Cycles]
      /\ cycle'[d].pc = cycle[d].pc /\ cycle'[d].asOf = cycle[d].asOf
      /\ cycle'[d].ouverte = cycle[d].ouverte /\ cycle'[d].lot = cycle[d].lot
      /\ cycle'[d].page = cycle[d].page
      /\ \A x \in Appareils \ {d} : cycle'[x] = cycle[x]
  BY <1>1, UneDeMoins DEF Types
<1>4. /\ connues' \in [Appareils -> SUBSET Pieces] /\ connues[d] \ {p} \subseteq connues'[d]
      /\ \A x \in Appareils \ {d} : connues'[x] = connues[x]
  <2>1. Marquee(d, p) \in SUBSET Pieces /\ connues[d] \ {p} \subseteq Marquee(d, p)
    BY RangDe DEF Marquee, Types
  <2> QED
    BY <1>1, <2>1 DEF Types, TypesAppareils
<1>5. TypesAppareils'
  BY <1>1, <1>3, <1>4 DEF Types, TypesAppareils
<1>6. \A x \in Appareils \ {d} : MemeAppareil(x)
  BY <1>1, <1>3, <1>4 DEF MemeAppareil
<1>7. AppareilJuste(d)'
  <2>1. \A o \in Ids : cycle'[d].page[o] = Rien
    BY <1>1, <1>3, PageVide
  <2>2. \A o \in Ids : LotJuste(d, o)'
    BY <1>1, <1>3 DEF LotJuste
  <2>3. ASSUME NEW o \in Ids PROVE refs[d][o] \subseteq connues'[d]
    <3>1. p \notin refs[d][o]
      BY <1>1 DEF MarquesLibres, ToutesReferences
    <3>2. refs[d][o] \subseteq connues[d]
      BY DEF AppareilJuste, VuesJustes
    <3> QED
      BY <1>4, <3>1, <3>2
  <2>4. /\ cycle'[d].asOf <= seq /\ cycle'[d].asOf \in Nat /\ cycle'[d].ouverte > 0
    BY <1>1, <1>3, RangDe, CycleDe DEF AppareilJuste, Types
  <2> QED
    BY <1>1, <1>2, <1>3, <2>1, <2>2, <2>3, <2>4, CycleJuste
<1> QED
  BY <1>2, <1>5, <1>6, <1>7

\* A cycle that changes alone, and pushes nothing now.
LEMMA CycleSeul ==
  ASSUME Types, TypesServeur', Progres, seq <= seq', NEW d \in Appareils, AppareilJuste(d),
         UNCHANGED <<locale, trous, connu, plancher, refs, connues, curseur, reclamation>>,
         NEW c \in Cycles, cycle' = [cycle EXCEPT ![d] = c],
         c.pc \notin {"accueil", "depose"}, c.asOf <= seq,
         c.pc # "repos" => c.ouverte > 0, \A o \in Ids : c.page[o] = Rien
  PROVE  /\ TypesAppareils' /\ AppareilJuste(d)' /\ cycle'[d] = c
         /\ \A x \in Appareils \ {d} : MemeAppareil(x)
<1>1. /\ cycle' \in [Appareils -> Cycles] /\ cycle'[d] = c
      /\ \A x \in Appareils \ {d} : cycle'[x] = cycle[x]
  BY DEF Types, TypesAppareils
<1>2. TypesAppareils'
  BY <1>1 DEF Types, TypesAppareils
<1>3. \A x \in Appareils \ {d} : MemeAppareil(x)
  BY <1>1 DEF MemeAppareil
<1>4. \A o \in Ids : LotJuste(d, o)'
  BY <1>1 DEF LotJuste
<1>5. c.asOf \in Nat /\ \A o \in Ids : refs[d][o] \subseteq connues'[d]
  BY CycleDe DEF AppareilJuste, VuesJustes
<1>6. AppareilJuste(d)'
  BY <1>1, <1>4, <1>5, CycleJuste
<1> QED
  BY <1>1, <1>2, <1>3, <1>6

LEMMA PerimerJuste ==
  ASSUME Types, NEW d \in Appareils, AppareilJuste(d), Perimer(d)
  PROVE  /\ TypesAppareils' /\ AppareilJuste(d)'
         /\ \A x \in Appareils \ {d} : MemeAppareil(x)
         /\ cycle'[d].pc = "lot" /\ cycle'[d].ouverte \in {cycle[d].ouverte, epoque}
<1> DEFINE c == IF cycle[d].pc = "depose" THEN [Poussant(cycle[d]) EXCEPT !.ouverte = epoque]
                ELSE Poussant(cycle[d])
<1>1. /\ cycle[d].pc \in {"depose", "ranime"}
      /\ cycle' = [cycle EXCEPT ![d] = c]
      /\ UNCHANGED <<locale, trous, connu, plancher, refs, connues, curseur, reclamation>>
      /\ UNCHANGED <<serveur, jour>>
  BY DEF Perimer, magasin, tables, autour, Types, TypesAppareils
<1>2. /\ cycle[d] \in Cycles /\ epoque \in 1..EpoqueMax /\ EpoqueMax \in Nat
      /\ cycle[d].asOf <= seq /\ cycle[d].ouverte > 0
  BY <1>1, RangDe, ImagesNumbers DEF Types, TypesServeur, AppareilJuste
<1>3. /\ Poussant(cycle[d]) \in Cycles /\ Poussant(cycle[d]).pc = "lot"
      /\ Poussant(cycle[d]).asOf = cycle[d].asOf
      /\ Poussant(cycle[d]).ouverte = cycle[d].ouverte
      /\ \A o \in Ids : Poussant(cycle[d]).page[o] = Rien
  BY <1>2, PoussantType
<1>4. /\ c \in Cycles /\ c.pc = "lot" /\ c.asOf <= seq /\ c.ouverte > 0
      /\ c.ouverte \in {cycle[d].ouverte, epoque} /\ c.page = Poussant(cycle[d]).page
  BY <1>2, <1>3 DEF Cycles
<1> HIDE DEF c
<1>5. \A o \in Ids : c.page[o] = Rien
  BY <1>3, <1>4
<1>6. TypesServeur' /\ Progres /\ seq <= seq'
  BY <1>1, RienNeBouge DEF Types
<1>7. /\ TypesAppareils' /\ AppareilJuste(d)' /\ cycle'[d] = c
      /\ \A x \in Appareils \ {d} : MemeAppareil(x)
  BY <1>1, <1>4, <1>5, <1>6, CycleSeul
<1> QED
  BY <1>4, <1>7

LEMMA PreparerMarquesJuste ==
  ASSUME Types, NEW d \in Appareils, AppareilJuste(d), PreparerMarques(d)
  PROVE  /\ TypesAppareils' /\ AppareilJuste(d)'
         /\ \A x \in Appareils \ {d} : MemeAppareil(x)
         /\ cycle'[d].pc = "marque" /\ cycle'[d].ouverte = cycle[d].ouverte
         /\ cycle'[d].file = SansReference(d)
<1> DEFINE c == [Poussant(cycle[d]) EXCEPT !.pc = "marque", !.file = SansReference(d)]
<1>1. /\ cycle[d].pc \in {"reclame", "lot"}
      /\ cycle' = [cycle EXCEPT ![d] = c]
      /\ UNCHANGED <<locale, trous, connu, plancher, refs, connues, curseur, reclamation>>
      /\ UNCHANGED <<serveur, jour>>
  BY DEF PreparerMarques, RienAPousser, magasin, autour, Types, TypesAppareils
<1>2. /\ cycle[d] \in Cycles /\ cycle[d].asOf <= seq /\ cycle[d].ouverte > 0
      /\ SansReference(d) \in SUBSET Pieces
  BY <1>1, RangDe DEF Types, AppareilJuste, SansReference
<1>3. /\ Poussant(cycle[d]) \in Cycles
      /\ Poussant(cycle[d]).asOf = cycle[d].asOf
      /\ Poussant(cycle[d]).ouverte = cycle[d].ouverte
      /\ \A o \in Ids : Poussant(cycle[d]).page[o] = Rien
  BY <1>2, PoussantType
<1>4. /\ c \in Cycles /\ c.pc = "marque" /\ c.asOf <= seq /\ c.ouverte > 0
      /\ c.ouverte = cycle[d].ouverte /\ c.page = Poussant(cycle[d]).page
      /\ c.file = SansReference(d)
  BY <1>2, <1>3 DEF Cycles, Etats
<1> HIDE DEF c
<1>5. \A o \in Ids : c.page[o] = Rien
  BY <1>3, <1>4
<1>6. TypesServeur' /\ Progres /\ seq <= seq'
  BY <1>1, RienNeBouge DEF Types
<1>7. /\ TypesAppareils' /\ AppareilJuste(d)' /\ cycle'[d] = c
      /\ \A x \in Appareils \ {d} : MemeAppareil(x)
  BY <1>1, <1>4, <1>5, <1>6, CycleSeul
<1> QED
  BY <1>4, <1>7

\* A device that dies, or whose session ended.
LEMMA ReposJuste ==
  ASSUME Types, NEW d \in Appareils, AppareilJuste(d), cycle' = [cycle EXCEPT ![d] = Repos],
         UNCHANGED <<locale, trous, connu, plancher, refs, connues, curseur, reclamation>>,
         UNCHANGED <<serveur, jour>>
  PROVE  /\ TypesAppareils' /\ AppareilJuste(d)' /\ cycle'[d] = Repos
         /\ \A x \in Appareils \ {d} : MemeAppareil(x)
<1>1. TypesServeur' /\ Progres /\ seq <= seq' /\ 0 <= seq
  BY RienNeBouge DEF Types, TypesServeur
<1> QED
  BY <1>1, ReposType, CycleSeul

LEMMA PerdreJuste ==
  ASSUME Types, NEW d \in Appareils, NEW r \in Requetes(d), AppareilJuste(d), Perdre(d, r)
  PROVE  /\ TypesAppareils' /\ TypesServeur' /\ Progres /\ seq <= seq' /\ epoque' = epoque
         /\ AppareilJuste(d)' /\ \A x \in Appareils \ {d} : MemeAppareil(x)
         /\ cycle'[d] = ApresEchec(cycle[d])
<1>1. /\ Servir(r) \/ UNCHANGED serveur
      /\ cycle' = [cycle EXCEPT ![d] = ApresEchec(cycle[d])] /\ jour' = jour
      /\ UNCHANGED <<locale, trous, connu, plancher, refs, connues, curseur, reclamation>>
  BY DEF Perdre, magasin, tables, Types, TypesAppareils
<1>2. r \in Demandes /\ PousseeJuste(r)
      /\ cycle[d].pc \in {"reclame", "ranime", "depose", "lot", "marque"}
  BY RequeteDe
<1>3. TypesServeur' /\ Progres /\ seq <= seq' /\ epoque' = epoque
  <2>1. CASE Servir(r)
    BY <1>1, <1>2, <2>1, ServirProgres DEF Types
  <2>2. CASE UNCHANGED serveur
    BY <1>1, <2>2, RienNeBouge DEF Types, serveur
  <2> QED
    BY <1>1, <2>1, <2>2
<1>4. /\ cycle[d] \in Cycles /\ cycle[d].asOf <= seq /\ cycle[d].ouverte > 0 /\ 0 <= seq
  BY <1>2, RangDe DEF Types, AppareilJuste, TypesServeur
<1> DEFINE c == ApresEchec(cycle[d])
<1>5. /\ c \in Cycles /\ c.asOf <= seq /\ c.pc \notin {"accueil", "depose"}
      /\ (c.pc # "repos" => c.ouverte > 0)
      /\ \A o \in Ids : c.page[o] = Rien
  BY <1>2, <1>4, ApresEchecType, PageVide
<1>6. /\ TypesAppareils' /\ AppareilJuste(d)' /\ cycle'[d] = c
      /\ \A x \in Appareils \ {d} : MemeAppareil(x)
  BY <1>1, <1>3, <1>5, CycleSeul
<1> QED
  BY <1>3, <1>6

-----------------------------------------------------------------------------
(* The push                                                                *)

LEMMA PushStocke ==
  ASSUME NEW l, ServirPush(l, epoque)
  PROVE  \A o \in Ids :
           IF o \in Stockes(l)
           THEN objets'[o].rev = l[o].base + 1 /\ objets'[o].forme = l[o].forme
           ELSE objets'[o] = objets[o]
<1>1. PICK n \in Numeros(l) :
          objets' = [o \in Ids |->
              IF o \in Stockes(l)
              THEN [rev |-> l[o].base + 1, seq |-> n[o], epoque |-> epoque,
                    forme |-> l[o].forme]
              ELSE objets[o]]
  BY DEF ServirPush
<1> QED
  BY <1>1

LEMMA PousserType ==
  ASSUME Types, NEW d \in Appareils, AppareilJuste(d), Pousser(d), jour' = jour,
         NEW S, S = Stockes(Poussee(d).lot)
  PROVE  /\ TypesServeur' /\ Progres /\ seq <= seq' /\ epoque' = epoque
         /\ TypesAppareils' /\ \A x \in Appareils \ {d} : MemeAppareil(x)
         /\ cycle'[d].pc \in {"lot", "conflit"} /\ cycle'[d].asOf = cycle[d].asOf
         /\ cycle'[d].ouverte = cycle[d].ouverte
         /\ cycle[d].pc = "depose" /\ cycle[d].file = {}
         /\ locale' = locale /\ curseur' = curseur /\ connues[d] \subseteq connues'[d]
         /\ \A o \in Ids :
              IF o \in S
              THEN /\ cycle[d].lot[o] \in Formes /\ connu[d][o].rev = objets[o].rev
                   /\ cycle[d].lot[o] # Rien /\ cycle'[d].page[o] = Rien
                   /\ connu'[d][o].rev = connu[d][o].rev + 1
                   /\ connu'[d][o].forme = cycle[d].lot[o]
                   /\ plancher'[d][o] = (IF cycle[d].lot[o].morte
                         THEN MaxDe(plancher[d][o], cycle[d].lot[o].date) ELSE plancher[d][o])
                   /\ trous'[d][o] = (IF cycle[d].lot[o].morte THEN Aucune ELSE trous[d][o])
                   /\ refs'[d][o] = References(Detachee(cycle[d].lot[o], cycle[d].ouverte))
                   /\ refs'[d][o] \subseteq connues'[d]
                   /\ objets'[o].rev = connu[d][o].rev + 1
                   /\ objets'[o].forme = Detachee(cycle[d].lot[o], cycle[d].ouverte)
              ELSE /\ connu'[d][o] = connu[d][o] /\ plancher'[d][o] = plancher[d][o]
                   /\ trous'[d][o] = trous[d][o] /\ refs'[d][o] = refs[d][o]
                   /\ objets'[o] = objets[o]
                   /\ cycle'[d].page[o] \in {Rien, objets[o]}
                   /\ (cycle'[d].page[o] # Rien => cycle'[d].pc = "conflit")
<1> DEFINE c == cycle[d]
           e == cycle[d].ouverte
           page == [o \in Ids |-> IF c.lot[o] # Rien /\ o \notin S THEN objets[o] ELSE Rien]
           n == [Poussant(c) EXCEPT !.pc = "conflit", !.page = page]
           sus == [o \in Ids |-> IF o \in S THEN [rev |-> connu[d][o].rev + 1, forme |-> c.lot[o]]
                                 ELSE connu[d][o]]
           haut == [o \in Ids |-> IF o \in S /\ c.lot[o].morte
                                  THEN MaxDe(plancher[d][o], c.lot[o].date) ELSE plancher[d][o]]
           dites == [o \in Ids |-> IF o \in S THEN References(Detachee(c.lot[o], e))
                                   ELSE refs[d][o]]
           creux == [o \in Ids |-> IF o \in S /\ c.lot[o].morte THEN Aucune ELSE trous[d][o]]
<1>0. /\ locale \in [Appareils -> [Ids -> FormesLocales]]
      /\ trous \in [Appareils -> [Ids -> ListesTrous]]
      /\ connu \in [Appareils -> [Ids -> Connus]]
      /\ plancher \in [Appareils -> [Ids -> Int]]
      /\ refs \in [Appareils -> [Ids -> SUBSET Pieces]]
      /\ connues \in [Appareils -> SUBSET Pieces]
      /\ cycle \in [Appareils -> Cycles] /\ c \in Cycles
  BY DEF Types, TypesAppareils
<1>1. /\ c.pc = "depose" /\ c.file = {} /\ d \in session /\ c.ouverte = epoque
      /\ Servir(Poussee(d))
      /\ connu' = [connu EXCEPT ![d] = sus] /\ plancher' = [plancher EXCEPT ![d] = haut]
      /\ refs' = [refs EXCEPT ![d] = dites]
      /\ connues' = [connues EXCEPT ![d] = connues[d] \cup UNION {refs'[d][o] : o \in S}]
      /\ trous' = [trous EXCEPT ![d] = creux]
      /\ FinirPage(d, n)
      /\ UNCHANGED <<locale, reclamation>>
  BY <1>0 DEF Pousser
<1>2. /\ Poussee(d) \in Demandes /\ PousseeJuste(Poussee(d)) /\ Poussee(d).type = "push"
      /\ Poussee(d).de = d /\ Poussee(d).epoque = e /\ e \in 1..EpoqueMax
      /\ \A o \in Ids :
           /\ c.lot[o] = Rien => Poussee(d).lot[o] = Rien
           /\ c.lot[o] # Rien =>
                /\ c.lot[o] \in Formes
                /\ Poussee(d).lot[o].base = connu[d][o].rev
                /\ Poussee(d).lot[o].forme = Detachee(c.lot[o], e)
  BY <1>1, PousseeDe
<1>3. TypesServeur' /\ Progres /\ seq <= seq' /\ epoque' = epoque
  BY <1>1, <1>2, ServirProgres DEF Types
<1>4. S \subseteq Ids /\ \A o \in S : c.lot[o] # Rien /\ c.lot[o] \in Formes
                                      /\ connu[d][o].rev = objets[o].rev
                                      /\ Detachee(c.lot[o], e) \in Formes
  <2>1. \A o \in S : o \in Ids /\ Poussee(d).lot[o] # Rien
                     /\ Poussee(d).lot[o].base = objets[o].rev
    BY DEF Stockes
  <2>2. \A o \in S : c.lot[o] # Rien
    BY <1>2, <2>1
  <2>3. \A o \in S : c.lot[o] \in Formes /\ connu[d][o].rev = objets[o].rev
    BY <1>2, <2>1, <2>2
  <2>4. \A o \in S : Detachee(c.lot[o], e) \in Formes
    BY <1>2, <2>3, DetacheeForme DEF FormesScellees
  <2> QED
    BY <2>1, <2>2, <2>3, <2>4
<1>5. \A o \in Ids :
        IF o \in S
        THEN objets'[o].rev = connu[d][o].rev + 1 /\ objets'[o].forme = Detachee(c.lot[o], e)
        ELSE objets'[o] = objets[o]
  <2>1. ServirPush(Poussee(d).lot, epoque)
    BY <1>1, <1>2 DEF Servir
  <2> QED
    BY <1>2, <1>4, <2>1, PushStocke
<1>6. \A o \in Ids :
        /\ objets[o] \in Objets /\ connu[d][o] \in Connus /\ connu[d][o].rev \in Nat
        /\ plancher[d][o] \in Int /\ trous[d][o] \in ListesTrous /\ refs[d][o] \in SUBSET Pieces
  BY RangDe, ConnuDe DEF Types, TypesServeur
<1>7. /\ page \in [Ids -> Objets \cup {Rien}] /\ sus \in [Ids -> Connus]
      /\ haut \in [Ids -> Int] /\ dites \in [Ids -> SUBSET Pieces]
      /\ creux \in [Ids -> ListesTrous]
  <2>1. page \in [Ids -> Objets \cup {Rien}]
    BY <1>6
  <2>2. ASSUME NEW o \in Ids
        PROVE  sus[o] \in Connus /\ haut[o] \in Int /\ dites[o] \in SUBSET Pieces
               /\ creux[o] \in ListesTrous
    <3>1. sus[o] \in Connus
      BY <1>4, <1>6 DEF Connus
    <3>2. haut[o] \in Int
      BY <1>4, <1>6, FormeDe DEF MaxDe
    <3>3. dites[o] \in SUBSET Pieces
      BY <1>4, <1>6, ReferencesDeForme
    <3>4. creux[o] \in ListesTrous
      BY <1>6, ImagesNumbers DEF Aucune, Absent, ListesTrous
    <3> QED
      BY <3>1, <3>2, <3>3, <3>4
  <2> QED
    BY <2>1, <2>2
<1>8. \A o \in Ids :
        /\ page[o] = IF c.lot[o] # Rien /\ o \notin S THEN objets[o] ELSE Rien
        /\ o \in S => /\ sus[o].rev = connu[d][o].rev + 1 /\ sus[o].forme = c.lot[o]
                      /\ haut[o] = (IF c.lot[o].morte
                           THEN MaxDe(plancher[d][o], c.lot[o].date) ELSE plancher[d][o])
                      /\ dites[o] = References(Detachee(c.lot[o], e))
                      /\ creux[o] = (IF c.lot[o].morte THEN Aucune ELSE trous[d][o])
        /\ o \notin S => /\ sus[o] = connu[d][o] /\ haut[o] = plancher[d][o]
                         /\ dites[o] = refs[d][o] /\ creux[o] = trous[d][o]
  OBVIOUS
<1> HIDE DEF page, sus, haut, dites, creux
<1>9. /\ n \in Cycles /\ n.pc = "conflit" /\ n.asOf = c.asOf /\ n.ouverte = e /\ n.page = page
  <2>1. Poussant(c) \in Cycles /\ Poussant(c).asOf = c.asOf /\ Poussant(c).ouverte = e
    BY <1>0, PoussantType
  <2> QED
    BY <1>7, <2>1 DEF Cycles, Etats
<1> HIDE DEF n
<1>10. cycle' = [cycle EXCEPT ![d] = Suite(n)] /\ curseur' = curseur
  BY <1>1, <1>9 DEF FinirPage
<1>11. /\ Suite(n) \in Cycles /\ Suite(n).page = page /\ Suite(n).asOf = c.asOf
       /\ Suite(n).ouverte = e /\ Suite(n).pc \in {"lot", "conflit"}
       /\ (page # Vide => Suite(n).pc = "conflit")
  BY <1>9, SuiteType
<1>12. /\ cycle' \in [Appareils -> Cycles] /\ cycle'[d] = Suite(n)
       /\ \A x \in Appareils \ {d} : cycle'[x] = cycle[x]
  BY <1>0, <1>10, <1>11
<1>13. /\ connu' \in [Appareils -> [Ids -> Connus]] /\ connu'[d] = sus
       /\ plancher' \in [Appareils -> [Ids -> Int]] /\ plancher'[d] = haut
       /\ refs' \in [Appareils -> [Ids -> SUBSET Pieces]] /\ refs'[d] = dites
       /\ trous' \in [Appareils -> [Ids -> ListesTrous]] /\ trous'[d] = creux
       /\ \A x \in Appareils \ {d} : /\ connu'[x] = connu[x] /\ plancher'[x] = plancher[x]
                                     /\ refs'[x] = refs[x] /\ trous'[x] = trous[x]
  BY <1>0, <1>1, <1>7
<1>14. /\ connues' \in [Appareils -> SUBSET Pieces]
       /\ connues'[d] = connues[d] \cup UNION {refs'[d][o] : o \in S}
       /\ \A x \in Appareils \ {d} : connues'[x] = connues[x]
  <2>1. UNION {refs'[d][o] : o \in S} \in SUBSET Pieces
    BY <1>4, <1>7, <1>13
  <2>2. connues[d] \cup UNION {refs'[d][o] : o \in S} \in SUBSET Pieces
    BY <1>0, <2>1
  <2> QED
    BY <1>0, <1>1, <2>2
<1>15. TypesAppareils'
  BY <1>1, <1>10, <1>12, <1>13, <1>14 DEF Types, TypesAppareils
<1>16. \A x \in Appareils \ {d} : MemeAppareil(x)
  BY <1>1, <1>10, <1>12, <1>13, <1>14 DEF MemeAppareil
<1>17. \A o \in Ids : o \in S => refs'[d][o] \subseteq connues'[d]
  BY <1>14
<1>18. \A o \in Ids : page[o] # Rien => page # Vide
  BY DEF Vide
<1> QED
  BY <1>1, <1>3, <1>4, <1>5, <1>8, <1>10, <1>11, <1>12, <1>13, <1>14, <1>15, <1>16, <1>17, <1>18

LEMMA PousserJuste ==
  ASSUME Types, NEW d \in Appareils, AppareilJuste(d), Pousser(d), jour' = jour
  PROVE  /\ TypesAppareils' /\ TypesServeur' /\ Progres /\ seq <= seq' /\ epoque' = epoque
         /\ AppareilJuste(d)' /\ \A x \in Appareils \ {d} : MemeAppareil(x)
<1> DEFINE S == Stockes(Poussee(d).lot)
           e == cycle[d].ouverte
<1> HIDE DEF S
<1>1. /\ TypesServeur' /\ Progres /\ seq <= seq' /\ epoque' = epoque
      /\ TypesAppareils' /\ \A x \in Appareils \ {d} : MemeAppareil(x)
      /\ cycle'[d].pc \in {"lot", "conflit"} /\ cycle'[d].asOf = cycle[d].asOf
      /\ cycle'[d].ouverte = e /\ cycle[d].pc = "depose"
      /\ locale' = locale /\ curseur' = curseur /\ connues[d] \subseteq connues'[d]
  BY PousserType DEF S
<1>2. ASSUME NEW o \in Ids, o \in S
      PROVE  Cellule(d, o)' /\ PageJuste(d, o)' /\ LotJuste(d, o)' /\ VuesJustes(d, o)'
  <2>1. /\ cycle[d].lot[o] \in Formes /\ connu[d][o].rev = objets[o].rev
        /\ cycle[d].lot[o] # Rien /\ cycle'[d].page[o] = Rien
        /\ connu'[d][o].rev = connu[d][o].rev + 1
        /\ connu'[d][o].forme = cycle[d].lot[o]
        /\ plancher'[d][o] = (IF cycle[d].lot[o].morte
              THEN MaxDe(plancher[d][o], cycle[d].lot[o].date) ELSE plancher[d][o])
        /\ trous'[d][o] = (IF cycle[d].lot[o].morte THEN Aucune ELSE trous[d][o])
        /\ refs'[d][o] = References(Detachee(cycle[d].lot[o], e))
        /\ refs'[d][o] \subseteq connues'[d]
        /\ objets'[o].rev = connu[d][o].rev + 1
        /\ objets'[o].forme = Detachee(cycle[d].lot[o], e)
    BY <1>2, PousserType DEF S
  <2>2. /\ locale[d][o] \in FormesLocales /\ trous[d][o] \in ListesTrous
        /\ connu[d][o] \in Connus /\ plancher[d][o] \in Int /\ objets[o] \in Objets
        /\ objets'[o] \in Objets /\ connu'[d][o] \in Connus
    BY <1>1, RangDe DEF Types, TypesServeur, TypesAppareils
  <2>3. e \in 1..EpoqueMax
    BY <1>1, PousseeDe
  <2>4. /\ Ligne(locale[d][o], trous[d][o], connu[d][o], plancher[d][o], refs[d][o], objets[o])
        /\ EnLot(cycle[d].lot[o], locale[d][o], trous[d][o], connu[d][o], objets[o])
    BY <1>1, <2>1 DEF AppareilJuste, Cellule, LotJuste
  <2>5. Cellule(d, o)'
    <3>1. Ligne(locale[d][o], trous'[d][o], connu'[d][o], plancher'[d][o],
                References(Detachee(cycle[d].lot[o], e)), objets'[o])
      BY <2>1, <2>2, <2>3, <2>4, LignePoussee
    <3> QED
      BY <1>1, <2>1, <3>1 DEF Cellule
  <2> QED
    BY <1>1, <2>1, <2>5 DEF PageJuste, LotJuste, VuesJustes, AJour
<1>3. ASSUME NEW o \in Ids, o \notin S
      PROVE  Cellule(d, o)' /\ PageJuste(d, o)' /\ LotJuste(d, o)' /\ VuesJustes(d, o)'
  <2>1. /\ connu'[d][o] = connu[d][o] /\ plancher'[d][o] = plancher[d][o]
        /\ trous'[d][o] = trous[d][o] /\ refs'[d][o] = refs[d][o]
        /\ objets'[o] = objets[o]
        /\ cycle'[d].page[o] \in {Rien, objets[o]}
        /\ (cycle'[d].page[o] # Rien => cycle'[d].pc = "conflit")
    BY <1>3, PousserType DEF S
  <2>2. locale[d][o] \in FormesLocales /\ objets[o] \in Objets
    BY RangDe DEF Types, TypesServeur
  <2>3. Cellule(d, o) /\ VuesJustes(d, o)
    BY DEF AppareilJuste
  <2>4. Cellule(d, o)'
    BY <1>1, <2>1, <2>3 DEF Cellule
  <2>5. EnPage(objets[o], locale[d][o], connu[d][o], plancher[d][o], objets[o])
    BY <2>2, <2>3, PageExportee DEF Cellule
  <2>6. PageJuste(d, o)'
    BY <1>1, <2>1, <2>5 DEF PageJuste
  <2> QED
    BY <1>1, <2>1, <2>3, <2>4, <2>6 DEF LotJuste, VuesJustes, AJour
<1>4. (curseur[d] <= seq)' /\ (cycle[d].asOf <= seq)' /\ cycle'[d].ouverte > 0
  BY <1>1, RangDe, CycleDe DEF AppareilJuste, Types, TypesServeur
<1> QED
  BY <1>1, <1>2, <1>3, <1>4 DEF AppareilJuste

-----------------------------------------------------------------------------
(* The steps of a device                                                   *)

Poursuit(d) ==
  /\ TypesAppareils' /\ TypesServeur' /\ Progres /\ seq <= seq'
  /\ AppareilJuste(d)' /\ MarquesLibres(d)'
  /\ \A x \in Appareils \ {d} : MemeAppareil(x)

\* A step that leaves the server as it is.
LEMMA SansServeur ==
  ASSUME Types, UNCHANGED <<serveur, jour>>, NEW d \in Appareils,
         TypesAppareils', AppareilJuste(d)', \A x \in Appareils \ {d} : MemeAppareil(x),
         MarquesLibres(d)'
  PROVE  Poursuit(d)
BY RienNeBouge DEF Poursuit, Types

LEMMA ExamineeLibre ==
  ASSUME Types, NEW d \in Appareils, NEW o \in Ids, Examinee(d, o)
  PROVE  MarquesLibres(d)'
<1>1. cycle'[d].pc \in {"accueil", "conflit", "reclame", "lot"}
  BY ExamineeTypes
<1> QED
  BY <1>1 DEF MarquesLibres

LEMMA AccueillirJuste ==
  ASSUME Types, NEW d \in Appareils, NEW o \in Ids, AppareilJuste(d), Accueillir(d, o)
  PROVE  Poursuit(d)
<1>1. CASE Reconnaitre(d, o)
  <2>1. UNCHANGED <<serveur, jour>> /\ Examinee(d, o)
    BY <1>1 DEF Reconnaitre, autour
  <2> QED
    BY <1>1, <2>1, ReconnaitreJuste, ExamineeLibre, SansServeur
<1>2. CASE Douter(d, o)
  <2>1. UNCHANGED <<serveur, jour>> /\ Examinee(d, o)
    BY <1>2 DEF Douter, autour
  <2> QED
    BY <1>2, <2>1, DouterJuste, ExamineeLibre, SansServeur
<1>3. ASSUME NEW ratees \in SUBSET Pieces, TenirPlancher(d, o, ratees)
      PROVE  Poursuit(d)
  <2>1. UNCHANGED <<serveur, jour>> /\ Examinee(d, o)
    BY <1>3 DEF TenirPlancher
  <2> QED
    BY <1>3, <2>1, TenirPlancherJuste, ExamineeLibre, SansServeur
<1>4. ASSUME NEW ratees \in SUBSET Pieces, Ingerer(d, o, ratees)
      PROVE  Poursuit(d)
  <2>1. UNCHANGED <<serveur, jour>> /\ Examinee(d, o)
    BY <1>4 DEF Ingerer
  <2> QED
    BY <1>4, <2>1, IngererJuste, ExamineeLibre, SansServeur
<1> QED
  BY <1>1, <1>2, <1>3, <1>4 DEF Accueillir

LEMMA EtapeJuste ==
  ASSUME Types, NEW d \in Appareils, AppareilJuste(d), MarquesLibres(d), Etape(d)
  PROVE  Poursuit(d)
<1>0. /\ cycle \in [Appareils -> Cycles] /\ cycle[d] \in Cycles
  BY DEF Types, TypesAppareils
<1>1. CASE Tirer(d)
  <2>1. UNCHANGED <<serveur, jour>>
    BY <1>1 DEF Tirer, autour
  <2>2. cycle'[d].pc # "marque"
    <3> DEFINE n == [Repos EXCEPT !.pc = "accueil", !.ouverte = epoque, !.asOf = seq,
                       !.page = [o \in Ids |->
                          IF objets[o].seq > curseur[d] THEN objets[o] ELSE Rien]]
    <3>1. n.pc = "accueil"
      BY DEF Repos
    <3>2. cycle' = [cycle EXCEPT ![d] = Suite(n)]
      BY <1>1 DEF Tirer, FinirPage
    <3> HIDE DEF n
    <3>3. Suite(n).pc # "marque"
      BY <3>1 DEF Suite
    <3> QED
      BY <1>0, <3>2, <3>3
  <2> QED
    BY <1>1, <2>1, <2>2, TirerJuste, SansServeur DEF MarquesLibres
<1>2. CASE Reclamer(d)
  <2>1. jour' = jour
    BY <1>2 DEF Reclamer, autour
  <2> QED
    BY <1>2, <2>1, ReclamerJuste DEF MarquesLibres, Poursuit
<1>3. CASE PreparerLot(d)
  <2>1. jour' = jour
    BY <1>3 DEF PreparerLot, autour
  <2> QED
    BY <1>3, <2>1, PreparerLotJuste DEF MarquesLibres, Poursuit
<1>4. CASE Perimer(d)
  <2>1. UNCHANGED <<serveur, jour>>
    BY <1>4 DEF Perimer, autour
  <2> QED
    BY <1>4, <2>1, PerimerJuste, SansServeur DEF MarquesLibres
<1>5. CASE Pousser(d)
  <2>1. jour' = jour
    BY <1>5 DEF Pousser, autour
  <2>2. cycle'[d].pc \in {"lot", "conflit"}
    BY <1>5, <2>1, PousserType
  <2> QED
    BY <1>5, <2>1, <2>2, PousserJuste DEF MarquesLibres, Poursuit
<1>6. CASE PreparerMarques(d)
  <2>1. UNCHANGED <<serveur, jour, refs>>
    BY <1>6 DEF PreparerMarques, autour
  <2>2. MarquesLibres(d)'
    BY <1>6, <2>1, PreparerMarquesJuste DEF MarquesLibres, SansReference, ToutesReferences
  <2> QED
    BY <1>6, <2>1, <2>2, PreparerMarquesJuste, SansServeur
<1>7. CASE Conclure(d)
  <2>1. UNCHANGED <<serveur, jour>> /\ cycle'[d] = Repos
    BY <1>0, <1>7 DEF Conclure, autour
  <2> QED
    BY <1>7, <2>1, ConclureJuste, SansServeur, ReposType DEF MarquesLibres
<1>8. CASE Expulser(d)
  <2>1. /\ UNCHANGED <<serveur, jour>> /\ cycle' = [cycle EXCEPT ![d] = Repos]
        /\ UNCHANGED <<locale, trous, connu, plancher, refs, connues, curseur, reclamation>>
    BY <1>8 DEF Expulser, autour, magasin, tables
  <2> QED
    BY <2>1, ReposJuste, SansServeur, ReposType DEF MarquesLibres
<1>9. ASSUME NEW p \in Pieces, Deposer(d, p)
      PROVE  Poursuit(d)
  <2>1. jour' = jour /\ cycle[d].pc # "marque" /\ cycle' = [cycle EXCEPT ![d].file = @ \ {p}]
    BY <1>9 DEF Deposer, autour
  <2>2. cycle'[d].pc # "marque"
    BY <2>1, UneDeMoins DEF Types
  <2> QED
    BY <1>9, <2>1, <2>2, DeposerJuste DEF MarquesLibres, Poursuit
<1>10. ASSUME NEW p \in Pieces, Marquer(d, p)
       PROVE  Poursuit(d)
  <2>1. jour' = jour /\ refs' = refs /\ cycle' = [cycle EXCEPT ![d].file = @ \ {p}]
    BY <1>10 DEF Marquer, autour
  <2>2. cycle'[d].pc = cycle[d].pc /\ cycle'[d].file = cycle[d].file \ {p}
    BY <2>1, UneDeMoins DEF Types
  <2>3. MarquesLibres(d)'
    BY <2>1, <2>2 DEF MarquesLibres, ToutesReferences
  <2> QED
    BY <1>10, <2>1, <2>3, MarquerJuste DEF Poursuit
<1>11. ASSUME NEW ratees, FinirReclamation(d, ratees)
       PROVE  Poursuit(d)
  <2>1. UNCHANGED <<serveur, jour>> /\ cycle'[d] = Poussant(cycle[d])
    BY <1>0, <1>11 DEF FinirReclamation
  <2>2. cycle'[d].pc = "lot"
    BY <1>0, <2>1, PoussantType
  <2> QED
    BY <1>11, <2>1, <2>2, FinirReclamationJuste, SansServeur DEF MarquesLibres
<1>12. ASSUME NEW ratees, NEW o, Reprendre(d, o, ratees)
       PROVE  Poursuit(d)
  <2>1. UNCHANGED <<serveur, jour, cycle>> /\ cycle[d].pc = "reclame"
    BY <1>12 DEF Reprendre
  <2> QED
    BY <1>12, <2>1, ReprendreJuste, SansServeur DEF MarquesLibres
<1> QED
  BY <1>1, <1>2, <1>3, <1>4, <1>5, <1>6, <1>7, <1>8, <1>9, <1>10, <1>11, <1>12,
     AccueillirJuste DEF Etape

-----------------------------------------------------------------------------
(* The invariant of the rows                                               *)

Rangs == Types /\ Lignes /\ \A d \in Appareils : MarquesLibres(d)

LEMMA PoursuitRangs ==
  ASSUME Rangs, NEW d \in Appareils, Poursuit(d),
         NEW R \in SUBSET Demandes, errantes' \subseteq errantes \cup R,
         \A r \in R : PousseeJuste(r)
  PROVE  Rangs'
<1>1. /\ Types /\ TypesServeur' /\ Progres /\ seq <= seq'
      /\ \A x \in Appareils : AppareilJuste(x) /\ MarquesLibres(x)
      /\ \A r \in errantes : r \in Demandes /\ PousseeJuste(r)
  BY DEF Rangs, Lignes, Poursuit, Types
<1>2. ASSUME NEW x \in Appareils
      PROVE  AppareilJuste(x)' /\ MarquesLibres(x)'
  <2>1. CASE x = d
    BY <2>1 DEF Poursuit
  <2>2. CASE x # d
    <3>1. MemeAppareil(x)
      BY <2>2 DEF Poursuit
    <3>2. AppareilJuste(x)'
      BY <1>1, <3>1, AutreAppareil
    <3> QED
      BY <1>1, <3>1, <3>2 DEF MemeAppareil, MarquesLibres, ToutesReferences
  <2> QED
    BY <2>1, <2>2
<1>3. \A r \in errantes' : r \in Demandes /\ PousseeJuste(r)'
  <2>1. \A r \in errantes' : r \in Demandes /\ PousseeJuste(r)
    BY <1>1
  <2> QED
    BY <1>1, <2>1, ErrantesJustes
<1>4. Types'
  BY <1>1, <1>3 DEF Types, Poursuit
<1> QED
  BY <1>2, <1>3, <1>4 DEF Rangs, Lignes

LEMMA SansAppareil ==
  ASSUME Rangs, TypesServeur', Progres, seq <= seq', UNCHANGED <<magasin, tables, cycle>>,
         errantes' \subseteq errantes
  PROVE  Rangs'
<1>1. /\ Types /\ \A x \in Appareils : AppareilJuste(x) /\ MarquesLibres(x)
      /\ \A r \in errantes : r \in Demandes /\ PousseeJuste(r)
  BY DEF Rangs, Lignes, Types
<1>2. UNCHANGED <<locale, trous, connu, plancher, refs, connues, curseur, reclamation, cycle>>
  BY DEF magasin, tables
<1>3. ASSUME NEW x \in Appareils
      PROVE  AppareilJuste(x)' /\ MarquesLibres(x)'
  <2>1. MemeAppareil(x)
    BY <1>2 DEF MemeAppareil
  <2>2. AppareilJuste(x)'
    BY <1>1, <2>1, AutreAppareil
  <2> QED
    BY <1>1, <1>2, <2>2 DEF MarquesLibres, ToutesReferences
<1>4. \A r \in errantes' : r \in Demandes /\ PousseeJuste(r)'
  <2>1. \A r \in errantes' : r \in Demandes /\ PousseeJuste(r)
    BY <1>1
  <2> QED
    BY <1>1, <2>1, ErrantesJustes
<1>5. Types'
  BY <1>1, <1>2, <1>4 DEF Types, TypesAppareils
<1> QED
  BY <1>3, <1>4, <1>5 DEF Rangs, Lignes

LEMMA EcritureRangs ==
  ASSUME Rangs, NEW d \in Appareils, NEW o \in Ids,
         Supprimer(d, o) \/ \E im \in [Images -> {Absent, Sans, Pleine}] : Ecrire(d, o, im)
  PROVE  Rangs' /\ Progres
<1>1. /\ Types /\ Lignes /\ \A x \in Appareils : MarquesLibres(x)
  BY DEF Rangs
<1>2. /\ locale' \in [Appareils -> [Ids -> FormesLocales]]
      /\ Ecrite(locale[d][o], locale'[d][o]) /\ ~locale[d][o].morte
      /\ \A x \in Appareils, y \in Ids : <<x, y>> # <<d, o>> => locale'[x][y] = locale[x][y]
      /\ UNCHANGED <<trous, tables, cycle, serveur, errantes, jour>>
  <2>1. CASE Supprimer(d, o)
    <3>1. UNCHANGED <<trous, tables, cycle, serveur, errantes, jour>>
      BY <2>1 DEF Supprimer
    <3> QED
      BY <1>1, <2>1, <3>1, SupprimerTypes
  <2>2. ASSUME NEW im \in [Images -> {Absent, Sans, Pleine}], Ecrire(d, o, im)
        PROVE  /\ locale' \in [Appareils -> [Ids -> FormesLocales]]
               /\ Ecrite(locale[d][o], locale'[d][o]) /\ ~locale[d][o].morte
               /\ \A x \in Appareils, y \in Ids :
                    <<x, y>> # <<d, o>> => locale'[x][y] = locale[x][y]
               /\ UNCHANGED <<trous, tables, cycle, serveur, errantes, jour>>
    <3>1. UNCHANGED <<trous, tables, cycle, serveur, errantes, jour>>
      BY <2>2 DEF Ecrire
    <3> QED
      BY <1>1, <2>2, <3>1, EcrireTypes
  <2> QED
    BY <2>1, <2>2
<1>3. \A x \in Appareils : AppareilJuste(x)'
  BY <1>1, <1>2, EcritureJuste
<1>4. TypesServeur' /\ Progres
  BY <1>1, <1>2, RienNeBouge DEF Types
<1>5. \A x \in Appareils : MarquesLibres(x)'
  BY <1>1, <1>2 DEF MarquesLibres, ToutesReferences, tables
<1>6. Types'
  BY <1>1, <1>2, <1>4 DEF Types, TypesAppareils, tables
<1>7. \A r \in errantes' : PousseeJuste(r)'
  BY <1>1, <1>2 DEF Lignes, PousseeJuste, serveur
<1> QED
  BY <1>3, <1>4, <1>5, <1>6, <1>7 DEF Rangs, Lignes

\* One step per action of Next.
LEMMA RangsTiennent ==
  ASSUME Rangs, [Next]_vars
  PROVE  Rangs' /\ Progres
<1>0. /\ Types /\ TypesServeur
      /\ \A d \in Appareils : AppareilJuste(d) /\ MarquesLibres(d)
      /\ \A r \in errantes : r \in Demandes /\ PousseeJuste(r)
  BY DEF Rangs, Lignes, Types
<1>1. ASSUME NEW d \in Appareils, Etape(d)
      PROVE  Rangs' /\ Progres
  <2>1. Poursuit(d)
    BY <1>0, <1>1, EtapeJuste
  <2>2. errantes' = errantes
    BY <1>1 DEF Etape, Accueillir, Tirer, Reclamer, PreparerLot, Perimer, Pousser,
                PreparerMarques, Conclure, Expulser, Deposer, Marquer, Reconnaitre, Douter,
                TenirPlancher, Ingerer, FinirReclamation, Reprendre
  <2>3. {} \in SUBSET Demandes /\ errantes' \subseteq errantes \cup {}
        /\ \A r \in {} : PousseeJuste(r)
    BY <2>2
  <2> QED
    BY <2>1, <2>3, PoursuitRangs DEF Poursuit
<1>2. ASSUME NEW d \in Appareils, NEW r \in Requetes(d), Perdre(d, r)
      PROVE  Rangs' /\ Progres
  <2>1. /\ TypesAppareils' /\ TypesServeur' /\ Progres /\ seq <= seq'
        /\ AppareilJuste(d)' /\ \A x \in Appareils \ {d} : MemeAppareil(x)
        /\ cycle'[d] = ApresEchec(cycle[d])
    BY <1>0, <1>2, PerdreJuste
  <2>2. MarquesLibres(d)'
    BY <1>0, <2>1, RangDe, ApresEchecType DEF MarquesLibres, Types
  <2>3. errantes' \subseteq errantes \cup {r}
    BY <1>2 DEF Perdre
  <2>4. {r} \in SUBSET Demandes /\ \A q \in {r} : PousseeJuste(q)
    BY <1>0, RequeteDe
  <2> QED
    BY <2>1, <2>2, <2>3, <2>4, PoursuitRangs DEF Poursuit
<1>3. ASSUME NEW d \in Appareils, Mourir(d)
      PROVE  Rangs' /\ Progres
  <2>1. /\ UNCHANGED <<serveur, jour, errantes>> /\ cycle' = [cycle EXCEPT ![d] = Repos]
        /\ UNCHANGED <<locale, trous, connu, plancher, refs, connues, curseur, reclamation>>
    BY <1>3 DEF Mourir, magasin, tables
  <2>2. /\ TypesAppareils' /\ AppareilJuste(d)' /\ cycle'[d] = Repos
        /\ \A x \in Appareils \ {d} : MemeAppareil(x)
    BY <1>0, <2>1, ReposJuste
  <2>3. Poursuit(d)
    BY <1>0, <2>1, <2>2, SansServeur, ReposType DEF MarquesLibres
  <2>4. {} \in SUBSET Demandes /\ errantes' \subseteq errantes \cup {}
        /\ \A r \in {} : PousseeJuste(r)
    BY <2>1
  <2> QED
    BY <2>3, <2>4, PoursuitRangs DEF Poursuit
<1>4. ASSUME NEW r \in errantes, ServirErrante(r)
      PROVE  Rangs' /\ Progres
  <2>1. /\ Servir(r) /\ jour' = jour /\ UNCHANGED <<magasin, tables, cycle>>
        /\ errantes' \subseteq errantes
    BY <1>4 DEF ServirErrante, autour
  <2>2. TypesServeur' /\ Progres /\ seq <= seq'
    BY <1>0, <2>1, ServirProgres
  <2> QED
    BY <2>1, <2>2, SansAppareil
<1>5. ASSUME NEW d \in Appareils, Tourner(d)
      PROVE  Rangs' /\ Progres
  <2>1. /\ epoque < EpoqueMax /\ epoque' = epoque + 1 /\ UNCHANGED <<objets, pieces, seq, jour>>
        /\ UNCHANGED <<magasin, tables, cycle>> /\ errantes' \subseteq errantes
    BY <1>5 DEF Tourner
  <2>2. epoque' \in 1..EpoqueMax /\ epoque < epoque' /\ seq <= seq'
        /\ \A o \in Ids : objets[o].epoque \in Nat
    BY <1>0, <2>1, ImagesNumbers DEF TypesServeur, Objets
  <2>3. \A o \in Ids : objets[o].epoque <= epoque'
    BY <1>0, <2>1, <2>2 DEF TypesServeur
  <2>4. TypesServeur' /\ Progres
    BY <1>0, <2>1, <2>2, <2>3 DEF TypesServeur, Progres, Avance
  <2> QED
    BY <2>1, <2>2, <2>4, SansAppareil
<1>6. ASSUME Avancer
      PROVE  Rangs' /\ Progres
  <2>1. /\ jour' = jour + 1 /\ UNCHANGED <<objets, pieces, seq, epoque>>
        /\ UNCHANGED <<magasin, tables, cycle>> /\ errantes' \subseteq errantes
    BY <1>6 DEF Avancer, serveur
  <2>2. /\ jour \in Nat /\ jour' \in Nat /\ seq <= seq'
        /\ \A p \in Pieces : pieces[p] # Rien /\ pieces[p].orpheline # Rien
                               => pieces[p].orpheline \in Nat
    BY <1>0, <2>1 DEF TypesServeur, Rangees
  <2>3. \A p \in Pieces : pieces[p] # Rien /\ pieces[p].orpheline # Rien
                            => pieces[p].orpheline <= jour'
    BY <1>0, <2>1, <2>2 DEF TypesServeur
  <2>4. TypesServeur' /\ Progres
    BY <1>0, <2>1, <2>2, <2>3 DEF TypesServeur, Progres, Avance
  <2> QED
    BY <2>1, <2>2, <2>4, SansAppareil
<1>7. ASSUME UNCHANGED vars
      PROVE  Rangs' /\ Progres
  <2>1. UNCHANGED <<serveur, jour>> /\ UNCHANGED <<magasin, tables, cycle>>
        /\ errantes' \subseteq errantes
    BY <1>7 DEF vars, autour
  <2>2. TypesServeur' /\ Progres /\ seq <= seq'
    BY <1>0, <2>1, RienNeBouge
  <2> QED
    BY <2>1, <2>2, SansAppareil
<1> QED
  BY <1>1, <1>2, <1>3, <1>4, <1>5, <1>6, <1>7, EcritureRangs DEF Next, Utilisateur, Pannes

-----------------------------------------------------------------------------
(* The initial states                                                      *)

LEMMA DepartForme ==
  ASSUME NEW envoyees \in SUBSET Images,
         NEW sue, sue = Vivante(0, [k \in Images |-> IF k \in envoyees THEN Pleine ELSE Absent])
  PROVE  /\ sue \in FormesLocales /\ sue.date = 0 /\ ~sue.morte
         /\ \A k \in Images : sue.images[k] = IF k \in envoyees THEN Pleine ELSE Absent
         /\ Detachee(sue, 1) \in FormesScellees
         /\ Detachee(sue, 1).date = 0 /\ ~Detachee(sue, 1).morte
         /\ \A k \in Images : Detachee(sue, 1).images[k] = IF k \in envoyees THEN 1 ELSE 0
<1> DEFINE im == [k \in Images |-> IF k \in envoyees THEN Pleine ELSE Absent]
<1>1. im \in [Images -> {Absent, Sans, Pleine}]
  OBVIOUS
<1>2. \A k \in Images : im[k] = IF k \in envoyees THEN Pleine ELSE Absent
  OBVIOUS
<1>3. sue = Vivante(0, im)
  OBVIOUS
<1> HIDE DEF im
<1>4. sue \in FormesLocales /\ sue.date = 0 /\ ~sue.morte /\ sue.images = im
  BY <1>1, <1>3, VivanteForme
<1>5. sue \in Formes /\ 1 \in 1..EpoqueMax
  BY <1>4, ImagesNumbers DEF FormesLocales
<1> QED
  BY <1>2, <1>4, <1>5, DetacheeForme DEF Pleine, Absent

LEMMA LigneDepart ==
  ASSUME NEW envoyees \in SUBSET Images,
         NEW sue, sue = Vivante(0, [k \in Images |-> IF k \in envoyees THEN Pleine ELSE Absent]),
         NEW O, O.rev = 1, O.forme = Detachee(sue, 1)
  PROVE  Ligne(sue, Aucune, [rev |-> 1, forme |-> sue], -1, References(Detachee(sue, 1)), O)
<1>1. /\ sue.date = 0 /\ ~sue.morte
      /\ \A k \in Images : sue.images[k] = IF k \in envoyees THEN Pleine ELSE Absent
      /\ O.forme.date = 0 /\ ~O.forme.morte
      /\ \A k \in Images : O.forme.images[k] = IF k \in envoyees THEN 1 ELSE 0
  BY DepartForme
<1>2. TrouJuste(sue, Aucune, [rev |-> 1, forme |-> sue], References(Detachee(sue, 1)))
  BY DEF TrouJuste, Aucune, Absent
<1>3. Couverte(sue, Aucune, O.forme) /\ Couverte(sue, Aucune, sue)
  BY <1>1 DEF Couverte, Tenue, Pleine, Absent
<1>4. Tient(O.forme, -1) /\ PlancherTenu(sue, -1) /\ Suit(sue, O.forme) /\ Suit(sue, sue)
  BY <1>1 DEF Tient, PlancherTenu, Suit
<1> QED
  BY <1>2, <1>3, <1>4 DEF Ligne, LigneVive

LEMMA InitRangs == Init => Rangs
<1> SUFFICES ASSUME Init PROVE Rangs
  OBVIOUS
<1>1. PICK envoyees \in SUBSET Images, n \in [Ids -> 1..Cardinality(Ids)] : Depart(envoyees, n)
  BY DEF Init
<1> DEFINE sue == Vivante(0, [k \in Images |-> IF k \in envoyees THEN Pleine ELSE Absent])
           scelle == Detachee(sue, 1)
<1>2. /\ sue \in FormesLocales /\ sue \in Formes /\ sue # Rien
      /\ scelle \in FormesScellees /\ scelle \in Formes
      /\ \A k \in Images : scelle.images[k] = IF k \in envoyees THEN 1 ELSE 0
  <2>1. /\ sue \in FormesLocales /\ scelle \in FormesScellees
        /\ \A k \in Images : scelle.images[k] = IF k \in envoyees THEN 1 ELSE 0
    BY DepartForme
  <2> HIDE DEF sue, scelle
  <2> QED
    BY <2>1, RienHors DEF FormesLocales, FormesScellees
<1>3. /\ locale = [d \in Appareils |-> [o \in Ids |-> sue]]
      /\ connu = [d \in Appareils |-> [o \in Ids |-> [rev |-> 1, forme |-> sue]]]
      /\ refs = [d \in Appareils |-> [o \in Ids |-> References(scelle)]]
      /\ connues = [d \in Appareils |-> References(scelle)]
      /\ pieces = [p \in Pieces |->
           IF p \in References(scelle) THEN [reclame |-> 1, orpheline |-> Rien] ELSE Rien]
      /\ objets = [o \in Ids |-> [rev |-> 1, seq |-> n[o], epoque |-> 1, forme |-> scelle]]
  BY <1>1 DEF Depart
<1>4. \A O : O.rev = 1 /\ O.forme = scelle =>
        Ligne(sue, Aucune, [rev |-> 1, forme |-> sue], -1, References(scelle), O)
  BY LigneDepart
<1> HIDE DEF sue, scelle
<1>5. /\ trous = [d \in Appareils |-> [o \in Ids |-> Aucune]]
      /\ plancher = [d \in Appareils |-> [o \in Ids |-> -1]]
      /\ seq = Cardinality(Ids) /\ reclamation = [d \in Appareils |-> 0]
      /\ cycle = [d \in Appareils |-> Repos] /\ session = Appareils
      /\ epoque = 1 /\ errantes = {} /\ jour = 0
      /\ \E auteur \in Appareils : curseur = [d \in Appareils |-> IF d = auteur THEN 0 ELSE seq]
  BY DEF Init
<1>6. seq \in Nat /\ seq > 0 /\ EpoqueMax \in Nat /\ EpoqueMax > 0
  <2>1. IsFiniteSet(Ids) /\ Ids # {}
    BY ImagesNumbers
  <2>2. Cardinality(Ids) \in Nat /\ Cardinality(Ids) # 0
    BY <2>1, FS_CardinalityType, FS_EmptySet
  <2>3. EpoqueMax \in Nat /\ EpoqueMax > 0
    BY ImagesNumbers
  <2> QED
    BY <1>5, <2>2, <2>3
<1>7. \A o \in Ids : n[o] \in Nat \ {0} /\ n[o] <= seq
  BY <1>1, <1>5, <1>6
<1>8. References(scelle) \in SUBSET Pieces
  BY <1>2, ReferencesDeForme
<1>9. TypesAppareils
  <2>1. Aucune \in ListesTrous
    BY <1>6 DEF Aucune, Absent, ListesTrous
  <2>2. [rev |-> 1, forme |-> sue] \in Connus
    BY <1>2 DEF Connus
  <2>3. curseur \in [Appareils -> Nat]
    BY <1>5, <1>6
  <2> QED
    BY <1>2, <1>3, <1>5, <1>8, <2>1, <2>2, <2>3, ReposType DEF TypesAppareils
<1>10. TypesServeur
  <2>1. \A o \in Ids : /\ objets[o] = [rev |-> 1, seq |-> n[o], epoque |-> 1, forme |-> scelle]
                       /\ objets[o] \in Objets /\ objets[o].seq <= seq /\ objets[o].epoque <= epoque
    BY <1>2, <1>3, <1>5, <1>6, <1>7 DEF Objets
  <2>2. [reclame |-> 1, orpheline |-> Rien] \in Rangees
    BY DEF Rangees
  <2>3. \A p \in Pieces : pieces[p] \in {Rien, [reclame |-> 1, orpheline |-> Rien]}
    BY <1>3
  <2>4. \A p \in Pieces : pieces[p] # Rien =>
       /\ 0 < pieces[p].reclame /\ pieces[p].reclame <= seq
       /\ (pieces[p].orpheline # Rien => pieces[p].orpheline <= jour)
    BY <1>6, <2>3
  <2>5. objets \in [Ids -> Objets] /\ pieces \in [Pieces -> Rangees \cup {Rien}]
    BY <1>3, <2>1, <2>2, <2>3
  <2> QED
    BY <1>5, <1>6, <2>1, <2>4, <2>5 DEF TypesServeur
<1>11. ASSUME NEW d \in Appareils
       PROVE  AppareilJuste(d) /\ MarquesLibres(d)
  <2>1. /\ cycle[d] = Repos /\ curseur[d] \in {0, seq}
    BY <1>5
  <2>2. ASSUME NEW o \in Ids
        PROVE  Cellule(d, o) /\ PageJuste(d, o) /\ LotJuste(d, o) /\ VuesJustes(d, o)
    <3>1. objets[o].rev = 1 /\ objets[o].forme = scelle /\ connu[d][o].rev = 1
      BY <1>3
    <3>2. Cellule(d, o)
      BY <1>3, <1>4, <1>5, <3>1 DEF Cellule
    <3>3. VuesJustes(d, o)
      BY <1>3, <3>1 DEF VuesJustes, AJour
    <3> QED
      BY <2>1, <3>2, <3>3, ReposType DEF PageJuste, LotJuste
  <2> QED
    BY <1>6, <2>1, <2>2, ReposType DEF AppareilJuste, MarquesLibres
<1> QED
  BY <1>5, <1>9, <1>10, <1>11 DEF Rangs, Types, Lignes

LEMMA RangsToujours == Spec => []Rangs
BY InitRangs, RangsTiennent, PTL DEF Spec

-----------------------------------------------------------------------------
(* The theorems of the rows                                                *)

LEMMA FormeEstForme ==
  ASSUME NEW c \in Formes
  PROVE  EstForme(c)
BY FormeDe DEF EstForme, Formes

\* The types; the store of a device holds no reference to an image, and the server
\* no image in the clear (trous and detacher).
THEOREM TypeCorrect == Spec => []TypeOK
<1>1. Rangs => TypeOK
  <2> SUFFICES ASSUME Rangs PROVE TypeOK
    OBVIOUS
  <2>0. EpoqueMax \in Nat
    BY ImagesNumbers
  <2>1. /\ TypesAppareils /\ TypesServeur /\ \A d \in Appareils : AppareilJuste(d)
    BY DEF Rangs, Types, Lignes
  <2>2. ASSUME NEW o \in Ids
        PROVE  /\ EstForme(objets[o].forme) /\ objets[o].seq \in 1..seq
               /\ objets[o].epoque \in 1..epoque /\ objets[o].rev \in Nat
               /\ \A k \in Images : objets[o].forme.images[k] # Pleine
    <3>1. objets[o] \in Objets /\ objets[o].seq <= seq /\ objets[o].epoque <= epoque
          /\ seq \in Nat /\ epoque \in Nat
      BY <2>0, <2>1 DEF TypesServeur
    <3> QED
      BY <2>0, <3>1, FormeEstForme DEF Objets, FormesScellees
  <2>3. ASSUME NEW d \in Appareils, NEW o \in Ids
        PROVE  /\ EstForme(locale[d][o]) /\ References(locale[d][o]) = {}
               /\ trous[d][o] \in [Images -> 0..EpoqueMax]
               /\ connu[d][o].rev \in 1..objets[o].rev
               /\ (connu[d][o].forme # Rien => EstForme(connu[d][o].forme))
               /\ refs[d][o] \subseteq Pieces
    <3>1. /\ locale[d][o] \in FormesLocales /\ trous[d][o] \in ListesTrous
          /\ connu[d][o] \in Connus /\ refs[d][o] \in SUBSET Pieces
      BY <2>1, RangDe
    <3>2. connu[d][o].rev <= objets[o].rev
      BY <2>1 DEF AppareilJuste, Cellule, Ligne
    <3>3. References(locale[d][o]) = {}
      BY <2>0, <3>1, LocaleDe DEF References, Pieces, Absent, Sans, Pleine
    <3>4. EstForme(locale[d][o]) /\ (connu[d][o].forme # Rien => EstForme(connu[d][o].forme))
      BY <3>1, FormeEstForme DEF FormesLocales, Connus
    <3> QED
      BY <2>2, <3>1, <3>2, <3>3, <3>4 DEF ListesTrous, Connus
  <2>4. ASSUME NEW p \in Pieces, pieces[p] # Rien
        PROVE  /\ pieces[p].reclame \in 1..seq
               /\ (pieces[p].orpheline = Rien \/ pieces[p].orpheline \in 0..jour)
    BY <2>1, <2>4 DEF TypesServeur, Rangees
  <2>5. \A d \in Appareils : curseur[d] \in 0..seq /\ connues[d] \subseteq Pieces
    BY <2>1, RangDe DEF AppareilJuste, TypesServeur
  <2> QED
    BY <2>2, <2>3, <2>4, <2>5 DEF TypeOK
<1> QED
  BY <1>1, RangsToujours, PTL

\* What a device without an image would send back of it is among the references it
\* claims every day (trous, pieces.toutes_references).
THEOREM HolesClaimed == Spec => []TrouReference
<1>1. Rangs => TrouReference
  BY DEF Rangs, Lignes, AppareilJuste, Cellule, Ligne, LigneVive, TrouJuste, TrouReference
<1> QED
  BY <1>1, RangsToujours, PTL

\* A live version replaced by a live version keeps the image of every message,
\* whoever pushes it and whatever images it lacks (combler, detacher).
THEOREM ImagesKept == Spec => ImageGardee
<1> DEFINE Gardee == \A o \in Ids, k \in Images :
       objets[o].forme.images[k] > 0 /\ ~objets'[o].forme.morte
         => objets'[o].forme.images[k] > 0
<1>1. ASSUME Rangs, [Next]_vars PROVE Gardee
  <2> SUFFICES ASSUME NEW o \in Ids, NEW k \in Images,
                      objets[o].forme.images[k] > 0, ~objets'[o].forme.morte
               PROVE  objets'[o].forme.images[k] > 0
    OBVIOUS
  <2>1. Progres /\ TypesServeur'
    BY <1>1, RangsTiennent DEF Rangs, Types
  <2>2. objets'[o].forme \in FormesScellees
    BY <2>1 DEF TypesServeur, Objets
  <2>3. objets'[o] = objets[o] \/ Couvre(objets'[o].forme, objets[o].forme)
    BY <2>1 DEF Progres, Avance
  <2>4. objets'[o] # objets[o] => Tenue(objets'[o].forme, k)
    BY <2>3 DEF Couvre, Tenue
  <2> QED
    BY <2>2, <2>4 DEF Tenue, FormesScellees
<1>2. ASSUME Rangs, [Next]_vars PROVE [Gardee]_vars
  BY <1>1, <1>2
<1> QED
  BY <1>2, RangsToujours, PTL DEF Spec, ImageGardee

-----------------------------------------------------------------------------
(* The rows to export and to push                                          *)

Listes ==
  /\ sortant \in [Appareils -> SUBSET Ids]
  /\ aExporter \in [Appareils -> SUBSET Ids]

LEMMA InitListes == Init => Listes
BY DEF Init, Listes

LEMMA ExporterListes ==
  ASSUME Listes, NEW d \in Appareils, NEW S \in SUBSET Ids, Exporter(d, S)
  PROVE  Listes'
BY DEF Exporter, Listes

LEMMA AccueillirListes ==
  ASSUME Listes, NEW d \in Appareils, NEW o \in Ids, Accueillir(d, o)
  PROVE  Listes'
<1>1. CASE Reconnaitre(d, o)
  BY <1>1 DEF Reconnaitre, magasin, Listes
<1>2. CASE Douter(d, o)
  BY <1>2 DEF Douter, magasin, Listes
<1>3. ASSUME NEW ratees \in SUBSET Pieces, TenirPlancher(d, o, ratees)
      PROVE  Listes'
  BY <1>3 DEF TenirPlancher, magasin, Listes
<1>4. ASSUME NEW ratees \in SUBSET Pieces, Ingerer(d, o, ratees)
      PROVE  Listes'
  <2>1. \E c : Poser(d, o, c)
    BY <1>4 DEF Ingerer
  <2>2. aExporter' \in [Appareils -> SUBSET Ids]
    BY <2>1 DEF Poser, Listes
  <2>3. sortant' = sortant \/ sortant' = [sortant EXCEPT ![d] = @ \cup {o}]
    <3>1. sortant' = [sortant EXCEPT ![d] = IF ClairLocal(d, o)' =
                         Recuperee(Premiere(d, o), ratees) THEN @ ELSE @ \cup {o}]
      BY <1>4 DEF Ingerer
    <3> QED
      BY <3>1 DEF Listes
  <2> QED
    BY <2>2, <2>3 DEF Listes
<1> QED
  BY <1>1, <1>2, <1>3, <1>4 DEF Accueillir

LEMMA ReparerListes ==
  ASSUME Listes, NEW d \in Appareils, NEW S, NEW ratees, NEW oubliees,
         ReparerTrous(d, S, ratees, oubliees)
  PROVE  aExporter' \in [Appareils -> SUBSET Ids]
<1>1. PICK X \in SUBSET Ids : aExporter' = [aExporter EXCEPT ![d] = @ \cup X]
  BY DEF ReparerTrous
<1> QED
  BY <1>1 DEF Listes

LEMMA ListesTiennent ==
  ASSUME Listes, [Next]_vars
  PROVE  Listes'
<1>1. CASE UNCHANGED <<sortant, aExporter>>
  BY <1>1 DEF Listes
<1>2. ASSUME NEW d \in Appareils, NEW o \in Ids,
             Supprimer(d, o) \/ \E im \in [Images -> {Absent, Sans, Pleine}] : Ecrire(d, o, im)
      PROVE  Listes'
  <2>1. (\E c : Poser(d, o, c)) /\ UNCHANGED sortant
    BY <1>2 DEF Supprimer, Ecrire, tables
  <2> QED
    BY <2>1 DEF Poser, Listes
<1>3. ASSUME NEW d \in Appareils, Tirer(d) \/ Conclure(d)
      PROVE  Listes'
  <2>1. Exporter(d, sortant[d]) \/ Exporter(d, {})
    BY <1>3 DEF Tirer, Conclure
  <2>2. sortant[d] \in SUBSET Ids /\ {} \in SUBSET Ids
    BY DEF Listes
  <2> QED
    BY <2>1, <2>2, ExporterListes
<1>4. ASSUME NEW d \in Appareils, PreparerLot(d) \/ PreparerMarques(d) \/ Pousser(d)
      PROVE  Listes'
  <2>1. UNCHANGED aExporter /\ \E X \in SUBSET sortant[d] : sortant' = [sortant EXCEPT ![d] = X]
    <3>1. CASE PreparerLot(d)
      BY <3>1 DEF PreparerLot, magasin, Dus
    <3>2. CASE PreparerMarques(d)
      BY <3>2 DEF PreparerMarques, magasin
    <3>3. CASE Pousser(d)
      BY <3>3 DEF Pousser, Listes
    <3> QED
      BY <1>4, <3>1, <3>2, <3>3
  <2> QED
    BY <2>1 DEF Listes
<1>5. ASSUME NEW d \in Appareils, NEW o, NEW ratees,
             FinirReclamation(d, ratees) \/ Reprendre(d, o, ratees)
      PROVE  Listes'
  <2>1. \E S, oubliees : ReparerTrous(d, S, ratees, oubliees)
    BY <1>5 DEF FinirReclamation, Reprendre
  <2>2. sortant' = sortant \/ sortant' = [sortant EXCEPT ![d] = @ \cup Perimees(d)]
    BY <1>5 DEF FinirReclamation, Reprendre
  <2>3. Perimees(d) \in SUBSET Ids
    BY DEF Perimees
  <2>4. aExporter' \in [Appareils -> SUBSET Ids]
    BY <2>1, ReparerListes
  <2> QED
    BY <2>2, <2>3, <2>4 DEF Listes
<1>6. ASSUME NEW d \in Appareils, Reclamer(d) \/ Perimer(d) \/ Expulser(d) \/ Mourir(d)
                                    \/ Tourner(d)
      PROVE  UNCHANGED <<sortant, aExporter>>
  BY <1>6 DEF Reclamer, Perimer, Expulser, Mourir, Tourner, magasin, tables
<1>7. ASSUME NEW d, NEW p, Deposer(d, p) \/ Marquer(d, p) \/ Perdre(d, p)
      PROVE  UNCHANGED <<sortant, aExporter>>
  BY <1>7 DEF Deposer, Marquer, Perdre, magasin, tables
<1>8. ASSUME NEW r, Avancer \/ ServirErrante(r)
      PROVE  UNCHANGED <<sortant, aExporter>>
  BY <1>8 DEF Avancer, ServirErrante, magasin, tables
<1>9. UNCHANGED vars => UNCHANGED <<sortant, aExporter>>
  BY DEF vars, magasin, tables
<1> QED
  BY <1>1, <1>2, <1>3, <1>4, <1>5, <1>6, <1>7, <1>8, <1>9, AccueillirListes
  DEF Next, Utilisateur, Pannes, Etape

-----------------------------------------------------------------------------
(* Who has the images of the present epoch in view                         *)

Vue(d)  == connues[d] \cup EnSuspens(d)
Vive(p) == pieces[p] # Rien /\ pieces[p].orpheline = Rien /\ p[2] = epoque

CycleSuivi(d) ==
  /\ cycle[d].ouverte <= epoque
  /\ (cycle[d].pc # "repos" /\ d \notin session => cycle[d].ouverte < epoque)
  /\ (cycle[d].pc = "depose" => \A p \in cycle[d].file : p[2] = cycle[d].ouverte)

PiecesNommees == \A p \in Pieces : pieces[p] # Rien => p[2] <= epoque

Suivi ==
  /\ ImageSuivie
  /\ PiecesNommees
  /\ \A d \in Appareils : CycleSuivi(d)
  /\ \A r \in errantes : Protegees(r) \subseteq egarees

\* What a step of d leaves of the images in view.
VueGardee(d) ==
  \A p \in Pieces \ egarees' : Vive(p)' =>
    p \in Vue(d)' \/ (Vive(p) /\ p \notin Vue(d))

PiecesNees == \A p \in Pieces : pieces'[p] # Rien => pieces[p] # Rien \/ p[2] = epoque

LEMMA ServirPieces ==
  ASSUME TypesServeur, NEW r \in Demandes, Servir(r)
  PROVE  \A p \in Pieces : pieces'[p] # Rien =>
           /\ pieces[p] # Rien \/ p[2] = epoque
           /\ p \in Protegees(r) \/
                (pieces[p] # Rien /\ (pieces'[p].orpheline = Rien => pieces[p].orpheline = Rien))
<1>1. CASE UNCHANGED serveur
  BY <1>1 DEF serveur
<1>2. CASE r.type = "missing" /\ ServirMissing(r.pieces)
  BY <1>2 DEF ServirMissing, Protegees, TypesServeur
<1>3. CASE r.type = "put" /\ ServirPut(r.piece)
  <2>1. CASE r.piece[2] # epoque
    BY <1>3, <2>1 DEF ServirPut, serveur
  <2>2. CASE r.piece[2] = epoque
    <3>1. pieces' = [Purgees EXCEPT ![r.piece] = [reclame |-> seq + 1, orpheline |-> Rien]]
      BY <1>3, <2>2 DEF ServirPut
    <3>2. \A p \in Pieces : p # r.piece => pieces'[p] = Purgees[p]
      BY <3>1 DEF Purgees
    <3>3. r.piece \in Protegees(r)
      BY <1>3 DEF Protegees
    <3> QED
      BY <2>2, <3>2, <3>3, PurgeesType
  <2> QED
    BY <2>1, <2>2
<1>4. CASE r.type = "delete" /\ ServirDelete(r.piece, r.asOf)
  <2>1. jour # Rien
    BY RienHors DEF TypesServeur
  <2>2. \A p \in Pieces : pieces[p] # Rien => pieces[p] \in Rangees
    BY DEF TypesServeur
  <2>3. pieces' = [pieces EXCEPT ![r.piece] =
          IF @ = Rien \/ Reclamee(r.piece, r.asOf) THEN @
          ELSE IF @.orpheline # Rien THEN @ ELSE [@ EXCEPT !.orpheline = jour]]
    BY <1>4 DEF ServirDelete
  <2> QED
    BY <2>1, <2>2, <2>3 DEF TypesServeur, Rangees
<1>5. CASE r.type = "push" /\ ServirPush(r.lot, r.epoque)
  <2>1. pieces' = pieces \/ pieces' = Purgees
    BY <1>5 DEF ServirPush, serveur
  <2> QED
    BY <2>1, PurgeesType
<1> QED
  BY <1>1, <1>2, <1>3, <1>4, <1>5 DEF Servir

\* A step of the device d, and the rest of the world as it was.
LEMMA SuiviTient ==
  ASSUME Suivi, NEW d \in Appareils, \A x \in Appareils \ {d} : MemeAppareil(x),
         epoque' = epoque, epoque \in Nat, session \subseteq session', egarees \subseteq egarees',
         CycleSuivi(d)', VueGardee(d), PiecesNees,
         \A r \in errantes' : r \in errantes \/ Protegees(r) \subseteq egarees'
  PROVE  Suivi'
<1>1. ImageSuivie'
  <2> SUFFICES ASSUME NEW p \in Pieces \ egarees', Vive(p)'
               PROVE  \E x \in Appareils : p \in Vue(x)'
    BY DEF ImageSuivie, Vive, Vue
  <2>1. CASE p \in Vue(d)'
    BY <2>1
  <2>2. CASE Vive(p) /\ p \notin Vue(d)
    <3>1. PICK x \in Appareils : p \in Vue(x)
      BY <2>2 DEF Suivi, ImageSuivie, Vive, Vue
    <3>2. MemeAppareil(x)
      BY <2>2, <3>1
    <3> QED
      BY <3>1, <3>2 DEF Vue, EnSuspens, MemeAppareil
  <2> QED
    BY <2>1, <2>2 DEF VueGardee
<1>2. PiecesNommees'
  BY DEF Suivi, PiecesNommees, PiecesNees, Pieces
<1>3. ASSUME NEW x \in Appareils PROVE CycleSuivi(x)'
  <2>1. CASE x = d
    BY <2>1
  <2>2. CASE x # d
    BY <2>2 DEF MemeAppareil, CycleSuivi, Suivi
  <2> QED
    BY <2>1, <2>2
<1>4. \A r \in errantes' : Protegees(r) \subseteq egarees'
  BY DEF Suivi
<1> QED
  BY <1>1, <1>2, <1>3, <1>4 DEF Suivi

LEMMA VueGrandit ==
  ASSUME NEW d \in Appareils, UNCHANGED <<pieces, epoque>>,
         \A p \in Pieces \ egarees' : p[2] = epoque /\ p \in Vue(d) => p \in Vue(d)'
  PROVE  VueGardee(d) /\ PiecesNees
BY DEF VueGardee, PiecesNees, Vive

\* A step that begins with no lot under way, and forgets no image.
LEMMA VueSansLot ==
  ASSUME NEW d \in Appareils, UNCHANGED <<pieces, epoque>>, cycle[d].pc # "depose",
         connues[d] \subseteq connues'[d]
  PROVE  VueGardee(d) /\ PiecesNees
<1>1. Vue(d) \subseteq Vue(d)'
  BY DEF Vue, EnSuspens
<1> QED
  BY <1>1, VueGrandit

\* A step that serves the request r.
LEMMA VueServie ==
  ASSUME TypesServeur, NEW d \in Appareils, NEW r \in Demandes, Servir(r), epoque' = epoque,
         \A p \in Protegees(r) : Vive(p)' => p \in Vue(d)' \/ (Vive(p) /\ p \notin Vue(d)),
         \A p \in Vue(d) : Vive(p)' => p \in Vue(d)'
  PROVE  VueGardee(d) /\ PiecesNees
<1>1. PiecesNees
  BY ServirPieces DEF PiecesNees
<1>2. \A p \in Pieces : Vive(p)' => p \in Protegees(r) \/ Vive(p)
  BY ServirPieces DEF Vive
<1> QED
  BY <1>1, <1>2 DEF VueGardee

LEMMA ExamineeSuivie ==
  ASSUME Types, NEW d \in Appareils, NEW o \in Ids, CycleSuivi(d), Examinee(d, o),
         UNCHANGED <<serveur, session>>, connues[d] \subseteq connues'[d]
  PROVE  CycleSuivi(d)' /\ VueGardee(d) /\ PiecesNees
<1>1. /\ cycle[d].pc \in {"accueil", "conflit"} /\ cycle'[d].ouverte = cycle[d].ouverte
      /\ cycle'[d].pc \in {"accueil", "conflit", "reclame", "lot"}
      /\ UNCHANGED <<pieces, epoque>>
  BY ExamineeTypes DEF serveur
<1> QED
  BY <1>1, VueSansLot DEF CycleSuivi

LEMMA AccueillirSuivi ==
  ASSUME Types, NEW d \in Appareils, NEW o \in Ids, AppareilJuste(d), CycleSuivi(d),
         Accueillir(d, o)
  PROVE  /\ CycleSuivi(d)' /\ VueGardee(d) /\ PiecesNees
         /\ UNCHANGED <<serveur, session, errantes, egarees>>
<1>0. connues \in [Appareils -> SUBSET Pieces]
  BY DEF Types, TypesAppareils
<1>1. Examinee(d, o) /\ UNCHANGED <<serveur, session, errantes, egarees>>
  BY DEF Accueillir, Reconnaitre, Douter, TenirPlancher, Ingerer, autour
<1>2. connues[d] \subseteq connues'[d]
  <2>1. CASE Douter(d, o)
    BY <2>1 DEF Douter
  <2>2. CASE ~Douter(d, o)
    <3>1. \E c : ConnaitreReferences(d, c)
      BY <2>2 DEF Accueillir, Reconnaitre, TenirPlancher, Ingerer
    <3> QED
      BY <1>0, <3>1 DEF ConnaitreReferences
  <2> QED
    BY <2>1, <2>2
<1> QED
  BY <1>1, <1>2, ExamineeSuivie

LEMMA TirerSuivi ==
  ASSUME Types, NEW d \in Appareils, Tirer(d)
  PROVE  CycleSuivi(d)' /\ VueGardee(d) /\ PiecesNees
<1> DEFINE page == [o \in Ids |-> IF objets[o].seq > curseur[d] THEN objets[o] ELSE Rien]
           n == [Repos EXCEPT !.pc = "accueil", !.ouverte = epoque, !.asOf = seq, !.page = page]
<1>1. page \in [Ids -> Objets \cup {Rien}] /\ seq \in Nat /\ epoque \in 0..EpoqueMax
  BY ImagesNumbers DEF Types, TypesServeur
<1>2. /\ cycle[d].pc = "repos" /\ cycle' = [cycle EXCEPT ![d] = Suite(n)]
      /\ UNCHANGED <<pieces, epoque, connues>> /\ session' = session \cup {d}
  BY DEF Tirer, FinirPage, Exporter, serveur
<1> HIDE DEF page
<1>3. n \in Cycles /\ n.pc = "accueil" /\ n.ouverte = epoque
  BY <1>1 DEF Repos, Vide, Cycles, Etats
<1> HIDE DEF n
<1>4. Suite(n).pc \in {"accueil", "reclame"} /\ Suite(n).ouverte = epoque
  BY <1>3, SuiteType
<1>5. cycle'[d] = Suite(n) /\ epoque \in Nat
  BY <1>2 DEF Types, TypesAppareils, TypesServeur
<1> QED
  BY <1>2, <1>4, <1>5, VueSansLot DEF CycleSuivi

LEMMA ReclamerSuivi ==
  ASSUME Types, NEW d \in Appareils, AppareilJuste(d), CycleSuivi(d), Reclamer(d)
  PROVE  CycleSuivi(d)' /\ VueGardee(d) /\ PiecesNees
<1>1. /\ cycle[d].pc = "reclame" /\ d \in session /\ Servir(Claim(d, ToutesReferences(d)))
      /\ UNCHANGED <<connues, session, jour>>
  BY DEF Reclamer, tables, autour
<1>2. epoque' = epoque /\ cycle'[d].pc = "ranime" /\ cycle'[d].ouverte = cycle[d].ouverte
  BY <1>1, ReclamerJuste
<1>3. /\ ToutesReferences(d) \in SUBSET Pieces /\ ToutesReferences(d) \subseteq connues[d]
  BY RangDe DEF ToutesReferences, Types, AppareilJuste, VuesJustes
<1>4. /\ Claim(d, ToutesReferences(d)) \in Demandes
      /\ Protegees(Claim(d, ToutesReferences(d))) = ToutesReferences(d)
  BY <1>3, ClaimDe DEF Protegees
<1>5. Vue(d) = connues[d] /\ connues[d] \subseteq Vue(d)'
  BY <1>1 DEF Vue, EnSuspens
<1>6. VueGardee(d) /\ PiecesNees
  BY <1>1, <1>2, <1>3, <1>4, <1>5, VueServie DEF Types
<1> QED
  BY <1>1, <1>2, <1>6 DEF CycleSuivi

\* What a lot refers to is an image of its own, or fills a hole.
LEMMA LotRefere ==
  ASSUME Types, NEW d \in Appareils, AppareilJuste(d), cycle[d].pc # "repos",
         NEW o \in Ids, NEW p \in References(Detachee(ClairLocal(d, o), cycle[d].ouverte))
  PROVE  \/ p[2] = cycle[d].ouverte /\ ClairLocal(d, o).images[p[1]] = Pleine
         \/ p \in refs[d][o] /\ ~locale[d][o].morte /\ trous[d][o][p[1]] = p[2]
<1> DEFINE e == cycle[d].ouverte
           l == locale[d][o]
           t == trous[d][o]
<1>1. /\ l \in FormesLocales /\ t \in ListesTrous /\ connu[d][o] \in Connus
      /\ plancher[d][o] \in Int /\ e \in 1..EpoqueMax /\ EpoqueMax \in Nat
  BY RangDe, CycleDe, ImagesNumbers DEF Types, AppareilJuste
<1>2. Ligne(l, t, connu[d][o], plancher[d][o], refs[d][o], objets[o])
  BY DEF AppareilJuste, Cellule
<1>3. ClairLocal(d, o) = Comblee(l, t)
  <2>1. PlancherTenu(l, plancher[d][o])
    BY <1>2 DEF Ligne
  <2> QED
    BY <2>1, ClairForme, RangDe DEF ClairLocal, Types
<1>4. /\ Comblee(l, t) \in Formes
      /\ \A k \in Images : Comblee(l, t).images[k] =
              (IF l.images[k] = Sans /\ t[k] > 0 THEN t[k] ELSE l.images[k])
  BY <1>1, CombleeForme
<1>5. \A k \in Images : Detachee(Comblee(l, t), e).images[k] =
              (IF Comblee(l, t).images[k] = Pleine THEN e ELSE Comblee(l, t).images[k])
  BY <1>1, <1>4, DetacheeForme
<1>6. p \in Pieces /\ p[1] \in Images /\ p[2] \in 1..EpoqueMax /\ p = <<p[1], p[2]>>
      /\ Detachee(Comblee(l, t), e).images[p[1]] = p[2]
  BY <1>3 DEF References, Pieces
<1>7. CASE Comblee(l, t).images[p[1]] = Pleine
  BY <1>3, <1>5, <1>6, <1>7
<1>8. CASE Comblee(l, t).images[p[1]] # Pleine
  <2>1. Comblee(l, t).images[p[1]] = p[2] /\ p[2] > 0
    BY <1>5, <1>6, <1>8
  <2>2. l.images[p[1]] = Sans /\ t[p[1]] = p[2]
    BY <1>1, <1>4, <1>6, <2>1, LocaleDe DEF Absent, Sans, Pleine
  <2>3. ~l.morte
    BY <1>1, <1>6, <2>2, LocaleDe DEF Sans
  <2>4. <<p[1], t[p[1]]>> \in refs[d][o]
    BY <1>2, <1>6, <2>1, <2>2, <2>3 DEF Ligne, LigneVive, TrouJuste
  <2> QED
    BY <1>6, <2>2, <2>3, <2>4
<1> QED
  BY <1>7, <1>8

LEMMA PreparerLotSuivi ==
  ASSUME Types, Listes, NEW d \in Appareils, AppareilJuste(d), CycleSuivi(d), PreparerLot(d)
  PROVE  CycleSuivi(d)' /\ VueGardee(d) /\ PiecesNees
<1> DEFINE e == cycle[d].ouverte
           S == ReferencesDe(d, Dus(d), e)
<1>1. /\ cycle[d].pc \in {"lot", "reclame"} /\ Servir(Claim(d, S))
      /\ UNCHANGED <<connues, session, jour>>
  BY DEF PreparerLot, autour
<1>2. /\ epoque' = epoque /\ cycle'[d].pc = "depose" /\ cycle'[d].ouverte = e
      /\ cycle'[d].file = Manquantes(S) \cap Tenues(d, Dus(d), e)
  BY <1>1, PreparerLotJuste
<1>3. S \in SUBSET Pieces
  BY DEF ReferencesDe, References
<1>4. Claim(d, S) \in Demandes /\ Protegees(Claim(d, S)) = S
  BY <1>3, ClaimDe DEF Protegees
<1>5. Vue(d) = connues[d] /\ Vue(d)' = connues[d] \cup cycle'[d].file
  BY <1>1, <1>2 DEF Vue, EnSuspens
<1>6. ASSUME NEW p \in S, Vive(p)'
      PROVE  p \in Vue(d)' \/ (Vive(p) /\ p \notin Vue(d))
  <2>1. PICK o \in Dus(d) : p \in References(Detachee(ClairLocal(d, o), e))
    BY DEF ReferencesDe
  <2>2. o \in Ids
    BY <2>1 DEF Dus, Listes
  <2>3. CASE p \in refs[d][o]
    BY <1>5, <2>2, <2>3 DEF AppareilJuste, VuesJustes
  <2>4. CASE p[2] = e /\ ClairLocal(d, o).images[p[1]] = Pleine
    <3>1. p \in Tenues(d, Dus(d), e)
      BY <1>3, <2>1, <2>4 DEF Tenues
    <3>2. CASE p \in Manquantes(S)
      BY <1>2, <1>5, <3>1, <3>2
    <3>3. CASE p \notin Manquantes(S)
      <4>1. Vive(p)
        BY <1>2, <1>6, <3>3 DEF Manquantes, Vive
      <4> QED
        BY <1>5, <4>1
    <3> QED
      BY <3>2, <3>3
  <2> QED
    BY <1>1, <2>1, <2>2, <2>3, <2>4, LotRefere
<1>7. VueGardee(d) /\ PiecesNees
  BY <1>1, <1>2, <1>4, <1>5, <1>6, VueServie DEF Types
<1>8. \A p \in cycle'[d].file : p[2] = e
  BY <1>2 DEF Tenues
<1> QED
  BY <1>1, <1>2, <1>7, <1>8 DEF CycleSuivi

LEMMA DeposerSuivi ==
  ASSUME Types, NEW d \in Appareils, NEW p \in Pieces, CycleSuivi(d), Deposer(d, p)
  PROVE  CycleSuivi(d)' /\ VueGardee(d) /\ PiecesNees
<1>1. /\ cycle[d].pc \in {"ranime", "depose"} /\ d \in session /\ Servir(Depot(d, p))
      /\ connues' = [connues EXCEPT ![d] = connues[d] \cup {p}]
      /\ cycle' = [cycle EXCEPT ![d].file = @ \ {p}] /\ UNCHANGED <<session, jour>>
  BY DEF Deposer, Deposees, autour
<1>2. /\ cycle'[d].pc = cycle[d].pc /\ cycle'[d].ouverte = cycle[d].ouverte
      /\ cycle'[d].file = cycle[d].file \ {p}
  BY <1>1, UneDeMoins DEF Types
<1>3. /\ Depot(d, p) \in Demandes /\ PousseeJuste(Depot(d, p))
      /\ Protegees(Depot(d, p)) = {p}
  BY DepotDe DEF Protegees
<1>4. epoque' = epoque
  BY <1>1, <1>3, ServirProgres DEF Types
<1>5. connues'[d] = connues[d] \cup {p}
  BY <1>1 DEF Types, TypesAppareils
<1>6. Vue(d) \subseteq Vue(d)' /\ p \in Vue(d)'
  BY <1>2, <1>5 DEF Vue, EnSuspens
<1>7. VueGardee(d) /\ PiecesNees
  BY <1>1, <1>3, <1>4, <1>6, VueServie DEF Types
<1> QED
  BY <1>1, <1>2, <1>4, <1>7 DEF CycleSuivi

LEMMA PousserSuivi ==
  ASSUME Types, NEW d \in Appareils, AppareilJuste(d), CycleSuivi(d), Pousser(d)
  PROVE  CycleSuivi(d)' /\ VueGardee(d) /\ PiecesNees
<1>1. /\ cycle[d].pc = "depose" /\ cycle[d].file = {} /\ d \in session
      /\ Servir(Poussee(d)) /\ UNCHANGED <<session, jour>>
  BY DEF Pousser, autour
<1>2. /\ epoque' = epoque /\ cycle'[d].pc \in {"lot", "conflit"}
      /\ cycle'[d].ouverte = cycle[d].ouverte /\ connues[d] \subseteq connues'[d]
  BY <1>1, PousserType
<1>3. Poussee(d) \in Demandes /\ Protegees(Poussee(d)) = {}
  BY <1>1, PousseeDe DEF Protegees
<1>4. Vue(d) \subseteq Vue(d)'
  BY <1>1, <1>2 DEF Vue, EnSuspens
<1>5. VueGardee(d) /\ PiecesNees
  BY <1>1, <1>2, <1>3, <1>4, VueServie DEF Types
<1> QED
  BY <1>1, <1>2, <1>5 DEF CycleSuivi

LEMMA MarquerSuivi ==
  ASSUME Types, NEW d \in Appareils, NEW p \in Pieces, CycleSuivi(d), Marquer(d, p)
  PROVE  CycleSuivi(d)' /\ VueGardee(d) /\ PiecesNees
<1>1. /\ cycle[d].pc = "marque" /\ d \in session /\ Servir(Marque(d, p))
      /\ connues' = [connues EXCEPT ![d] = Marquee(d, p)]
      /\ cycle' = [cycle EXCEPT ![d].file = @ \ {p}] /\ UNCHANGED <<session, jour>>
  BY DEF Marquer, autour
<1>2. cycle'[d].pc = cycle[d].pc /\ cycle'[d].ouverte = cycle[d].ouverte
  BY <1>1, UneDeMoins DEF Types
<1>3. /\ Marque(d, p) \in Demandes /\ PousseeJuste(Marque(d, p))
      /\ Protegees(Marque(d, p)) = {} /\ Marque(d, p).type = "delete" /\ Marque(d, p).de = d
      /\ Marque(d, p).piece = p /\ Marque(d, p).asOf = cycle[d].asOf
  BY MarqueDe DEF Protegees, Types
<1>4. epoque' = epoque
  BY <1>1, <1>3, ServirProgres DEF Types
<1>5. connues'[d] = Marquee(d, p)
  BY <1>1 DEF Types, TypesAppareils
<1>6. Vue(d) = connues[d] /\ Vue(d)' = Marquee(d, p)
  BY <1>1, <1>2, <1>5 DEF Vue, EnSuspens
<1>7. Vive(p)' => Reclamee(p, cycle[d].asOf)
  <2>1. ServirDelete(p, cycle[d].asOf)
    BY <1>1, <1>3 DEF Servir
  <2>2. jour # Rien /\ (pieces[p] # Rien => pieces[p] \in Rangees)
    BY RienHors DEF Types, TypesServeur
  <2>3. pieces'[p] = IF pieces[p] = Rien \/ Reclamee(p, cycle[d].asOf) THEN pieces[p]
                     ELSE IF pieces[p].orpheline # Rien THEN pieces[p]
                     ELSE [pieces[p] EXCEPT !.orpheline = jour]
    BY <2>1 DEF ServirDelete, Types, TypesServeur
  <2> QED
    BY <2>2, <2>3 DEF Vive, Rangees
<1>8. \A x \in Vue(d) : Vive(x)' => x \in Vue(d)'
  BY <1>6, <1>7 DEF Marquee
<1>9. VueGardee(d) /\ PiecesNees
  BY <1>1, <1>3, <1>4, <1>8, VueServie DEF Types
<1> QED
  BY <1>1, <1>2, <1>4, <1>9 DEF CycleSuivi

\* The other steps of a device leave the server as it is.
LEMMA EtapeSeuleSuivie ==
  ASSUME Types, NEW d \in Appareils, AppareilJuste(d), CycleSuivi(d),
         \/ Perimer(d) \/ PreparerMarques(d) \/ Conclure(d) \/ Expulser(d)
         \/ \E ratees : FinirReclamation(d, ratees) \/ \E o : Reprendre(d, o, ratees)
  PROVE  CycleSuivi(d)' /\ VueGardee(d) /\ PiecesNees
<1>0. /\ cycle \in [Appareils -> Cycles] /\ cycle[d] \in Cycles /\ epoque \in Nat
      /\ cycle[d].ouverte \in Nat /\ EpoqueMax \in Nat
  BY CycleDe, ImagesNumbers DEF Types, TypesAppareils, TypesServeur
<1>1. UNCHANGED <<pieces, epoque, session>>
  BY DEF Perimer, PreparerMarques, Conclure, Expulser, FinirReclamation, Reprendre, serveur
<1>2. connues' = connues
  BY DEF Perimer, PreparerMarques, Conclure, Exporter, Expulser, FinirReclamation, Reprendre,
         tables
<1>3. CASE Perimer(d)
  <2>1. /\ cycle'[d].pc = "lot" /\ cycle'[d].ouverte \in {cycle[d].ouverte, epoque}
        /\ d \in session /\ cycle[d].ouverte # epoque
    BY <1>3, PerimerJuste DEF Perimer
  <2>2. \A p \in Vue(d) : p[2] = epoque => p \in connues[d]
    BY <2>1 DEF CycleSuivi, Vue, EnSuspens
  <2>3. VueGardee(d) /\ PiecesNees
    BY <1>1, <1>2, <2>2, VueGrandit DEF Vue
  <2> QED
    BY <1>0, <1>1, <2>1, <2>3 DEF CycleSuivi
<1>4. CASE PreparerMarques(d)
  <2>1. /\ cycle'[d].pc = "marque" /\ cycle'[d].ouverte = cycle[d].ouverte
        /\ cycle[d].pc \in {"reclame", "lot"}
    BY <1>4, PreparerMarquesJuste DEF PreparerMarques, RienAPousser
  <2> QED
    BY <1>1, <1>2, <2>1, VueSansLot DEF CycleSuivi
<1>5. CASE Conclure(d)
  <2>1. cycle'[d] = Repos /\ cycle[d].pc \in {"reclame", "lot", "marque"}
    BY <1>0, <1>5 DEF Conclure, RienAPousser
  <2> QED
    BY <1>0, <1>1, <1>2, <2>1, VueSansLot, ReposType DEF CycleSuivi
<1>6. CASE Expulser(d)
  <2>1. cycle'[d] = Repos /\ d \notin session
    BY <1>0, <1>6 DEF Expulser
  <2>2. \A p \in Vue(d) : p[2] = epoque => p \in connues[d]
    BY <1>0, <2>1 DEF CycleSuivi, Vue, EnSuspens
  <2>3. VueGardee(d) /\ PiecesNees
    BY <1>1, <1>2, <2>2, VueGrandit DEF Vue
  <2> QED
    BY <1>0, <1>1, <2>1, <2>3, ReposType DEF CycleSuivi
<1>7. ASSUME NEW ratees, FinirReclamation(d, ratees)
      PROVE  CycleSuivi(d)' /\ VueGardee(d) /\ PiecesNees
  <2>1. cycle'[d] = Poussant(cycle[d]) /\ cycle[d].pc = "ranime"
    BY <1>0, <1>7 DEF FinirReclamation
  <2>2. cycle'[d].pc = "lot" /\ cycle'[d].ouverte = cycle[d].ouverte
    BY <1>0, <2>1, PoussantType
  <2> QED
    BY <1>1, <1>2, <2>1, <2>2, VueSansLot DEF CycleSuivi
<1>8. ASSUME NEW ratees, NEW o, Reprendre(d, o, ratees)
      PROVE  CycleSuivi(d)' /\ VueGardee(d) /\ PiecesNees
  <2>1. cycle' = cycle /\ cycle[d].pc = "reclame"
    BY <1>8 DEF Reprendre
  <2> QED
    BY <1>1, <1>2, <2>1, VueSansLot DEF CycleSuivi
<1> QED
  BY <1>3, <1>4, <1>5, <1>6, <1>7, <1>8

LEMMA EtapeSuivie ==
  ASSUME Types, Listes, NEW d \in Appareils, AppareilJuste(d), CycleSuivi(d), Etape(d)
  PROVE  /\ CycleSuivi(d)' /\ VueGardee(d) /\ PiecesNees
         /\ UNCHANGED <<epoque, errantes, egarees>> /\ session \subseteq session'
<1>1. CASE Tirer(d)
  <2>1. UNCHANGED <<epoque, errantes, egarees>> /\ session \subseteq session'
    BY <1>1 DEF Tirer, serveur, autour
  <2> QED
    BY <1>1, <2>1, TirerSuivi
<1>2. CASE Reclamer(d)
  <2>1. UNCHANGED <<errantes, egarees, session, jour>>
    BY <1>2 DEF Reclamer, autour
  <2> QED
    BY <1>2, <2>1, ReclamerSuivi, ReclamerJuste
<1>3. CASE PreparerLot(d)
  <2>1. UNCHANGED <<errantes, egarees, session, jour>>
    BY <1>3 DEF PreparerLot, autour
  <2> QED
    BY <1>3, <2>1, PreparerLotSuivi, PreparerLotJuste
<1>4. CASE Pousser(d)
  <2>1. UNCHANGED <<errantes, egarees, session, jour>>
    BY <1>4 DEF Pousser, autour
  <2> QED
    BY <1>4, <2>1, PousserSuivi, PousserJuste
<1>5. ASSUME NEW p \in Pieces, Deposer(d, p)
      PROVE  /\ CycleSuivi(d)' /\ VueGardee(d) /\ PiecesNees
             /\ UNCHANGED <<epoque, errantes, egarees>> /\ session \subseteq session'
  <2>1. UNCHANGED <<errantes, egarees, session, jour>>
    BY <1>5 DEF Deposer, autour
  <2> QED
    BY <1>5, <2>1, DeposerSuivi, DeposerJuste
<1>6. ASSUME NEW p \in Pieces, Marquer(d, p)
      PROVE  /\ CycleSuivi(d)' /\ VueGardee(d) /\ PiecesNees
             /\ UNCHANGED <<epoque, errantes, egarees>> /\ session \subseteq session'
  <2>1. UNCHANGED <<errantes, egarees, session, jour>> /\ Servir(Marque(d, p))
    BY <1>6 DEF Marquer, autour
  <2>2. Marque(d, p) \in Demandes /\ PousseeJuste(Marque(d, p))
    BY MarqueDe DEF Types
  <2>3. epoque' = epoque
    BY <2>1, <2>2, ServirProgres DEF Types
  <2> QED
    BY <1>6, <2>1, <2>3, MarquerSuivi
<1>7. ASSUME NEW o \in Ids, Accueillir(d, o)
      PROVE  /\ CycleSuivi(d)' /\ VueGardee(d) /\ PiecesNees
             /\ UNCHANGED <<epoque, errantes, egarees>> /\ session \subseteq session'
  BY <1>7, AccueillirSuivi DEF serveur
<1>8. CASE \/ Perimer(d) \/ PreparerMarques(d) \/ Conclure(d) \/ Expulser(d)
           \/ \E ratees : FinirReclamation(d, ratees) \/ \E o : Reprendre(d, o, ratees)
  <2>1. UNCHANGED <<epoque, errantes, egarees, session>>
    BY <1>8 DEF Perimer, PreparerMarques, Conclure, Expulser, FinirReclamation, Reprendre,
                serveur, autour
  <2> QED
    BY <1>8, <2>1, EtapeSeuleSuivie
<1> QED
  BY <1>1, <1>2, <1>3, <1>4, <1>5, <1>6, <1>7, <1>8 DEF Etape

\* A step that concerns no table and no cycle.
LEMMA SuiviAilleurs ==
  ASSUME Suivi, UNCHANGED <<connues, cycle, session, epoque>>, egarees \subseteq egarees',
         PiecesNees, epoque \in Nat, errantes' \subseteq errantes,
         \A p \in Pieces \ egarees' : Vive(p)' => Vive(p)
  PROVE  Suivi'
<1>1. ImageSuivie'
  <2> SUFFICES ASSUME NEW p \in Pieces \ egarees', Vive(p)'
               PROVE  \E x \in Appareils : p \in Vue(x)'
    BY DEF ImageSuivie, Vive, Vue
  <2>1. PICK x \in Appareils : p \in Vue(x)
    BY DEF Suivi, ImageSuivie, Vive, Vue
  <2> QED
    BY <2>1 DEF Vue, EnSuspens
<1>2. PiecesNommees'
  BY DEF Suivi, PiecesNommees, PiecesNees, Pieces
<1>3. \A x \in Appareils : CycleSuivi(x)'
  BY DEF CycleSuivi, Suivi
<1>4. \A r \in errantes' : Protegees(r) \subseteq egarees'
  BY DEF Suivi
<1> QED
  BY <1>1, <1>2, <1>3, <1>4 DEF Suivi

LEMMA PerdreSuivi ==
  ASSUME Types, NEW d \in Appareils, AppareilJuste(d), CycleSuivi(d),
         NEW r \in Requetes(d), Perdre(d, r)
  PROVE  /\ CycleSuivi(d)' /\ VueGardee(d) /\ PiecesNees
         /\ UNCHANGED <<epoque, session>>
         /\ egarees' = egarees \cup Protegees(r) \cup EnSuspens(d)
         /\ errantes' \subseteq errantes \cup {r}
<1>1. /\ Servir(r) \/ UNCHANGED serveur
      /\ egarees' = egarees \cup Protegees(r) \cup EnSuspens(d)
      /\ UNCHANGED <<connues, session, jour>> /\ errantes' \subseteq errantes \cup {r}
  BY DEF Perdre, tables
<1>2. cycle'[d] = ApresEchec(cycle[d]) /\ epoque' = epoque
  BY PerdreJuste
<1>3. r \in Demandes /\ PousseeJuste(r)
  BY RequeteDe
<1>4. /\ cycle[d] \in Cycles /\ epoque \in Nat /\ EpoqueMax \in Nat
  BY RangDe, ImagesNumbers DEF Types, TypesServeur
<1>5. CycleSuivi(d)'
  BY <1>1, <1>2, <1>4, ApresEchecType DEF CycleSuivi
<1>6. \A p \in Pieces \ egarees' : p \in Vue(d) => p \in Vue(d)'
  BY <1>1 DEF Vue
<1>7. VueGardee(d) /\ PiecesNees
  <2>1. CASE Servir(r)
    <3>1. PiecesNees
      BY <1>3, <2>1, ServirPieces DEF PiecesNees, Types
    <3>2. \A p \in Pieces : Vive(p)' => p \in Protegees(r) \/ Vive(p)
      BY <1>2, <1>3, <2>1, ServirPieces DEF Vive, Types
    <3> QED
      BY <1>1, <1>6, <3>1, <3>2 DEF VueGardee
  <2>2. CASE UNCHANGED serveur
    BY <1>6, <2>2, VueGrandit DEF serveur
  <2> QED
    BY <1>1, <2>1, <2>2
<1> QED
  BY <1>1, <1>2, <1>5, <1>7

LEMMA SuiviReste ==
  ASSUME Rangs, Listes, Suivi, [Next]_vars
  PROVE  Suivi'
<1>0. /\ Types /\ TypesServeur /\ epoque \in Nat
      /\ \A d \in Appareils : AppareilJuste(d) /\ CycleSuivi(d)
      /\ \A r \in errantes : r \in Demandes /\ Protegees(r) \subseteq egarees
  BY DEF Rangs, Lignes, Types, TypesServeur, Suivi
<1>1. ASSUME NEW d \in Appareils, Etape(d)
      PROVE  Suivi'
  <2>1. \A x \in Appareils \ {d} : MemeAppareil(x)
    BY <1>0, <1>1, EtapeJuste DEF Poursuit, Rangs
  <2>2. /\ CycleSuivi(d)' /\ VueGardee(d) /\ PiecesNees
        /\ UNCHANGED <<epoque, errantes, egarees>> /\ session \subseteq session'
    BY <1>0, <1>1, EtapeSuivie
  <2>3. \A r \in errantes' : r \in errantes \/ Protegees(r) \subseteq egarees'
    BY <2>2
  <2> QED
    BY <1>0, <2>1, <2>2, <2>3, SuiviTient
<1>2. ASSUME NEW d \in Appareils, NEW r \in Requetes(d), Perdre(d, r)
      PROVE  Suivi'
  <2>1. \A x \in Appareils \ {d} : MemeAppareil(x)
    BY <1>0, <1>2, PerdreJuste
  <2>2. /\ CycleSuivi(d)' /\ VueGardee(d) /\ PiecesNees
        /\ UNCHANGED <<epoque, session>>
        /\ egarees' = egarees \cup Protegees(r) \cup EnSuspens(d)
        /\ errantes' \subseteq errantes \cup {r}
    BY <1>0, <1>2, PerdreSuivi
  <2>3. \A q \in errantes' : q \in errantes \/ Protegees(q) \subseteq egarees'
    BY <2>2
  <2> QED
    BY <1>0, <2>1, <2>2, <2>3, SuiviTient
<1>3. ASSUME NEW d \in Appareils, Mourir(d)
      PROVE  Suivi'
  <2>1. /\ UNCHANGED <<serveur, jour, errantes, session>> /\ cycle' = [cycle EXCEPT ![d] = Repos]
        /\ UNCHANGED <<locale, trous, connu, plancher, refs, connues, curseur, reclamation>>
        /\ egarees' = egarees \cup EnSuspens(d) /\ UNCHANGED <<pieces, epoque>>
    BY <1>3 DEF Mourir, magasin, tables, serveur
  <2>2. cycle'[d] = Repos /\ \A x \in Appareils \ {d} : MemeAppareil(x)
    BY <1>0, <2>1, ReposJuste
  <2>3. VueGardee(d) /\ PiecesNees
    BY <2>1, VueGrandit DEF Vue
  <2>4. CycleSuivi(d)'
    BY <1>0, <2>1, <2>2, ReposType DEF CycleSuivi
  <2>5. \A r \in errantes' : r \in errantes \/ Protegees(r) \subseteq egarees'
    BY <2>1
  <2>6. egarees \subseteq egarees' /\ session \subseteq session' /\ epoque' = epoque
    BY <2>1
  <2> QED
    BY <1>0, <2>2, <2>3, <2>4, <2>5, <2>6, SuiviTient
<1>4. ASSUME NEW r \in errantes, ServirErrante(r)
      PROVE  Suivi'
  <2>1. /\ Servir(r) /\ jour' = jour /\ UNCHANGED <<connues, cycle, session, egarees>>
        /\ errantes' \subseteq errantes
    BY <1>4 DEF ServirErrante, autour, tables
  <2>2. r \in Demandes /\ PousseeJuste(r) /\ Protegees(r) \subseteq egarees
    BY <1>0 DEF Rangs, Lignes
  <2>3. epoque' = epoque
    BY <1>0, <2>1, <2>2, ServirProgres
  <2>4. PiecesNees
    BY <1>0, <2>1, <2>2, ServirPieces DEF PiecesNees
  <2>5. \A p \in Pieces \ egarees' : Vive(p)' => Vive(p)
    BY <1>0, <2>1, <2>2, <2>3, ServirPieces DEF Vive
  <2> QED
    BY <1>0, <2>1, <2>3, <2>4, <2>5, SuiviAilleurs
<1>5. ASSUME NEW d \in Appareils, Tourner(d)
      PROVE  Suivi'
  <2>1. /\ epoque' = epoque + 1 /\ d \in session /\ session' = {d}
        /\ UNCHANGED <<connues, cycle, pieces, errantes, egarees>>
    BY <1>5 DEF Tourner, tables
  <2>2. \A x \in Appareils : cycle[x].ouverte \in Nat
    BY <1>0, RangDe, CycleDe, ImagesNumbers DEF Types
  <2>3. \A p \in Pieces : pieces[p] # Rien => p[2] <= epoque /\ p[2] \in Int
    BY ImagesNumbers DEF Suivi, PiecesNommees, Pieces
  <2>4. ImageSuivie' /\ PiecesNommees'
    BY <1>0, <2>1, <2>3 DEF ImageSuivie, PiecesNommees
  <2>5. \A x \in Appareils : CycleSuivi(x)'
    BY <1>0, <2>1, <2>2 DEF CycleSuivi
  <2> QED
    BY <2>1, <2>4, <2>5 DEF Suivi
<1>6. CASE UNCHANGED <<connues, cycle, session, epoque, pieces, egarees, errantes>>
  BY <1>0, <1>6, SuiviAilleurs DEF PiecesNees, Vive
<1>7. Avancer \/ UNCHANGED vars =>
        UNCHANGED <<connues, cycle, session, epoque, pieces, egarees, errantes>>
  BY DEF Avancer, vars, tables, serveur, autour
<1>8. ASSUME NEW d \in Appareils, NEW o \in Ids,
             Supprimer(d, o) \/ \E im \in [Images -> {Absent, Sans, Pleine}] : Ecrire(d, o, im)
      PROVE  UNCHANGED <<connues, cycle, session, epoque, pieces, egarees, errantes>>
  BY <1>8 DEF Supprimer, Ecrire, tables, serveur
<1> QED
  BY <1>1, <1>2, <1>3, <1>4, <1>5, <1>6, <1>7, <1>8 DEF Next, Utilisateur, Pannes

LEMMA InitSuivi == Init => Suivi
<1> SUFFICES ASSUME Init PROVE Suivi
  OBVIOUS
<1>1. /\ cycle = [d \in Appareils |-> Repos] /\ session = Appareils /\ epoque = 1
      /\ errantes = {}
  BY DEF Init
<1>2. \E S : connues = [d \in Appareils |-> S]
             /\ \A p \in Pieces : pieces[p] # Rien => p \in S
  BY DEF Init, Depart
<1>3. PICK S : connues = [d \in Appareils |-> S]
               /\ \A p \in Pieces : pieces[p] # Rien => p \in S
  BY <1>2
<1>4. ImageSuivie
  BY <1>3, ImagesNumbers DEF ImageSuivie
<1>5. \A p \in Pieces : pieces[p] # Rien => p[2] <= epoque
  <2>1. PICK envoyees \in SUBSET Images, n \in [Ids -> 1..Cardinality(Ids)] : Depart(envoyees, n)
    BY DEF Init
  <2> DEFINE sue == Vivante(0, [k \in Images |-> IF k \in envoyees THEN Pleine ELSE Absent])
  <2>2. \A p \in Pieces : pieces[p] # Rien => p \in References(Detachee(sue, 1))
    BY <2>1 DEF Depart
  <2>3. \A k \in Images : Detachee(sue, 1).images[k] = IF k \in envoyees THEN 1 ELSE 0
    BY DepartForme
  <2> HIDE DEF sue
  <2> QED
    BY <1>1, <2>2, <2>3, ImagesNumbers DEF References, Pieces
<1>6. \A d \in Appareils : CycleSuivi(d)
  BY <1>1, ReposType DEF CycleSuivi
<1> QED
  BY <1>1, <1>4, <1>5, <1>6 DEF Suivi, PiecesNommees

\* An image of the present epoch that the server holds unmarked is among those some
\* device knows of, or about to be deposited, but for what an answer or a device
\* lost: someone is left to mark it (connaitre_piece, pieces_sans_reference).
THEOREM ImagesFollowed == Spec => []ImageSuivie
<1> DEFINE I == Rangs /\ Listes /\ Suivi
<1>1. Init => I
  BY InitRangs, InitListes, InitSuivi
<1>2. I /\ [Next]_vars => I'
  BY RangsTiennent, ListesTiennent, SuiviReste
<1>3. I => ImageSuivie
  BY DEF Suivi
<1> QED
  BY <1>1, <1>2, <1>3, PTL DEF Spec

-----------------------------------------------------------------------------
(* Until when the marks wait                                               *)

\* A piece that is there, marked on day b at the earliest if it is marked.
Protege(row, b) == row # Rien /\ (row.orpheline # Rien => b <= row.orpheline)

\* The device has seen the object as it is, or is about to take it in.
Sue(d, o) == AJour(d, o) \/ cycle[d].page[o] = objets[o]

\* The day before which the device's next claim ends, that protects the images of the
\* object: the claim after it if the device does not know the object yet.
Echeance(d, o) ==
  IF cycle[d].pc = "ranime" THEN cycle[d].jour + Cadence
  ELSE IF cycle[d].pc \in {"accueil", "reclame"} /\ ~Sue(d, o)
       THEN reclamation[d] + 2 * Cadence
  ELSE reclamation[d] + Cadence

DelaiTenu(d) ==
  /\ reclamation[d] <= jour /\ jour <= reclamation[d] + Cadence
  /\ (cycle[d].pc = "ranime" => reclamation[d] < cycle[d].jour /\ cycle[d].jour <= jour)

\* What a lot refers to and has not to deposit waits.
LotTenu(d) ==
  cycle[d].pc = "depose" =>
    \A o \in Ids : cycle[d].lot[o] # Rien /\ AJour(d, o) =>
      \A p \in References(Detachee(cycle[d].lot[o], cycle[d].ouverte)) \ cycle[d].file :
        Protege(pieces[p], reclamation[d])

PousseeTenue(r) ==
  r.type = "push" =>
    /\ r.jour <= jour /\ jour <= r.jour + Cadence
    /\ \A o \in Ids : r.lot[o] # Rien /\ r.lot[o].base = objets[o].rev =>
         \A p \in References(r.lot[o].forme) : Protege(pieces[p], r.jour - Cadence)

ObjetTenu(d, o) ==
  \A p \in References(objets[o].forme) : Protege(pieces[p], Echeance(d, o) - Retenue)

Temps ==
  /\ \A d \in Appareils : DelaiTenu(d) /\ LotTenu(d)
  /\ \A d \in Appareils, o \in Ids : ObjetTenu(d, o)
  /\ \A r \in errantes : PousseeTenue(r)

\* What the server does of a piece that still waits.
PiecesTenues ==
  \A p \in Pieces, b \in Int :
    b <= jour /\ jour <= b + Retenue /\ Protege(pieces[p], b) => Protege(pieces'[p], b)

Nombres == /\ Cadence \in Nat \ {0} /\ Retenue \in Nat /\ 4 * Cadence <= Retenue

LEMMA RangeeDe ==
  ASSUME TypesServeur, NEW p \in Pieces
  PROVE  /\ (pieces[p] # Rien => pieces[p] \in Rangees)
         /\ (pieces[p] # Rien /\ pieces[p].orpheline # Rien =>
               pieces[p].orpheline \in Nat /\ pieces[p].orpheline <= jour)
BY DEF TypesServeur, Rangees

LEMMA PurgeTenue ==
  ASSUME TypesServeur, NEW p \in Pieces, NEW b \in Int, jour <= b + Retenue,
         Protege(pieces[p], b)
  PROVE  Purgees[p] = pieces[p]
<1>1. jour \in Nat /\ Retenue \in Nat
  BY ImagesNumbers DEF TypesServeur
<1>2. ~Echue(p)
  BY <1>1, RangeeDe DEF Echue, Protege
<1> QED
  BY <1>2 DEF Purgees

LEMMA ServirTenu ==
  ASSUME TypesServeur, NEW r \in Demandes, Servir(r)
  PROVE  PiecesTenues
<1> SUFFICES ASSUME NEW p \in Pieces, NEW b \in Int, b <= jour, jour <= b + Retenue,
                    Protege(pieces[p], b)
             PROVE  Protege(pieces'[p], b)
  BY DEF PiecesTenues
<1>0. /\ pieces[p] # Rien /\ pieces[p] \in Rangees /\ jour \in Nat
      /\ (pieces[p].orpheline # Rien => b <= pieces[p].orpheline)
  BY RangeeDe DEF Protege, TypesServeur
<1>1. CASE UNCHANGED serveur
  BY <1>1 DEF serveur
<1>2. CASE r.type = "missing" /\ ServirMissing(r.pieces)
  <2>1. pieces'[p] = [reclame |-> seq + 1, orpheline |-> Rien] \/ pieces'[p] = pieces[p]
    BY <1>2 DEF ServirMissing
  <2>2. [reclame |-> seq + 1, orpheline |-> Rien] # Rien
    BY RienHors DEF Rangees, TypesServeur
  <2> QED
    BY <2>1, <2>2 DEF Protege
<1>3. CASE r.type = "put" /\ ServirPut(r.piece)
  <2>1. \/ pieces' = pieces
        \/ pieces' = [Purgees EXCEPT ![r.piece] = [reclame |-> seq + 1, orpheline |-> Rien]]
    BY <1>3 DEF ServirPut, serveur
  <2>2. [reclame |-> seq + 1, orpheline |-> Rien] # Rien
    BY RienHors DEF Rangees, TypesServeur
  <2>3. pieces'[p] \in {pieces[p], Purgees[p], [reclame |-> seq + 1, orpheline |-> Rien]}
    BY <2>1 DEF Purgees
  <2> QED
    BY <2>2, <2>3, PurgeTenue DEF Protege
<1>4. CASE r.type = "delete" /\ ServirDelete(r.piece, r.asOf)
  <2>1. pieces'[p] = pieces[p] \/ pieces'[p] = [pieces[p] EXCEPT !.orpheline = jour]
    BY <1>4 DEF ServirDelete, TypesServeur
  <2>2. [pieces[p] EXCEPT !.orpheline = jour] \in Rangees
        /\ [pieces[p] EXCEPT !.orpheline = jour].orpheline = jour
    BY <1>0 DEF Rangees
  <2> QED
    BY <1>0, <2>1, <2>2, RienHors DEF Protege
<1>5. CASE r.type = "push" /\ ServirPush(r.lot, r.epoque)
  <2>1. pieces' = pieces \/ pieces' = Purgees
    BY <1>5 DEF ServirPush, serveur
  <2> QED
    BY <2>1, PurgeTenue
<1> QED
  BY <1>1, <1>2, <1>3, <1>4, <1>5 DEF Servir

\* A piece of which a claim lifted the mark, or that was deposited, waits for ever.
LEMMA ReclameeTenue ==
  ASSUME TypesServeur, NEW d, NEW S \in SUBSET Pieces, Servir(Claim(d, S)), d \in session,
         NEW p \in S, pieces[p] # Rien, NEW b
  PROVE  Protege(pieces'[p], b)
<1>1. ServirMissing(S)
  BY DEF Servir, Claim
<1>2. pieces'[p] = [reclame |-> seq + 1, orpheline |-> Rien]
  BY <1>1 DEF ServirMissing
<1>3. pieces'[p] \in Rangees
  BY <1>2 DEF Rangees, TypesServeur
<1> QED
  BY <1>2, <1>3, RienHors DEF Protege

LEMMA DeposeeTenue ==
  ASSUME TypesServeur, NEW d, NEW p \in Pieces, Servir(Depot(d, p)), d \in session,
         p[2] = epoque, NEW b
  PROVE  Protege(pieces'[p], b)
<1>1. ServirPut(p)
  BY DEF Servir, Depot
<1>2. pieces'[p] = [reclame |-> seq + 1, orpheline |-> Rien]
  BY <1>1 DEF ServirPut, Purgees
<1>3. pieces'[p] \in Rangees
  BY <1>2 DEF Rangees, TypesServeur
<1> QED
  BY <1>2, <1>3, RienHors DEF Protege

LEMMA ProtegeMoins ==
  ASSUME TypesServeur, NEW p \in Pieces, NEW a \in Int, NEW b \in Int, a <= b,
         Protege(pieces[p], b)
  PROVE  Protege(pieces[p], a)
BY RangeeDe DEF Protege

\* The deadlines, and their bounds.
LEMMA EcheanceDe ==
  ASSUME Types, Nombres, NEW d \in Appareils, NEW o, DelaiTenu(d)
  PROVE  /\ Echeance(d, o) \in Nat /\ reclamation[d] + Cadence <= Echeance(d, o)
         /\ jour <= Echeance(d, o) /\ Echeance(d, o) <= jour + 2 * Cadence
<1>1. reclamation[d] \in Nat /\ cycle[d].jour \in Nat /\ jour \in Nat /\ Cadence \in Nat
  BY RangDe, CycleDe DEF Types, TypesServeur, Nombres
<1> QED
  BY <1>1 DEF Echeance, DelaiTenu

LEMMA EcheanceApres ==
  ASSUME Types', Nombres, NEW d \in Appareils, NEW o, DelaiTenu(d)'
  PROVE  Echeance(d, o)' \in Nat /\ Echeance(d, o)' <= jour' + 2 * Cadence
<1>1. reclamation'[d] \in Nat /\ cycle'[d] \in Cycles /\ jour' \in Nat /\ Cadence \in Nat
  BY DEF Types, TypesAppareils, TypesServeur, Nombres
<1>2. cycle'[d].jour \in Nat
  BY <1>1 DEF Cycles
<1> QED
  BY <1>1, <1>2 DEF Echeance, DelaiTenu

\* What a step leaves of the deadlines of device d, for the objects it leaves alone.
EcheancesTenues(d) ==
  \A o \in Ids : objets'[o] = objets[o] => ObjetTenu(d, o)'

EcheancesBaissent(d) ==
  \A o \in Ids : objets'[o] = objets[o] => Echeance(d, o)' <= Echeance(d, o)

\* What a push gives to the objects it changes.
ObjetsPrevus ==
  \A o \in Ids : objets'[o] # objets[o] =>
    \A p \in References(objets'[o].forme) :
      Protege(pieces'[p], jour + 2 * Cadence - Retenue)

LEMMA EcheanceBaissee ==
  ASSUME Types, Types', Nombres, PiecesTenues, NEW d \in Appareils, DelaiTenu(d), DelaiTenu(d)',
         NEW o \in Ids, ObjetTenu(d, o), objets'[o] = objets[o],
         Echeance(d, o)' <= Echeance(d, o)
  PROVE  ObjetTenu(d, o)'
<1> SUFFICES ASSUME NEW p \in References(objets[o].forme)
             PROVE  Protege(pieces'[p], Echeance(d, o)' - Retenue)
  BY DEF ObjetTenu
<1>1. /\ Echeance(d, o) \in Nat /\ jour <= Echeance(d, o) /\ Echeance(d, o) <= jour + 2 * Cadence
      /\ Cadence \in Nat /\ Retenue \in Nat /\ 4 * Cadence <= Retenue /\ jour \in Nat
  BY EcheanceDe DEF Nombres, Types, TypesServeur
<1>2. p \in Pieces /\ Protege(pieces[p], Echeance(d, o) - Retenue)
  BY DEF ObjetTenu, References
<1> DEFINE b == Echeance(d, o) - Retenue
<1>3. b \in Int /\ b <= jour /\ jour <= b + Retenue
  BY <1>1
<1>4. Protege(pieces'[p], b)
  BY <1>2, <1>3 DEF PiecesTenues
<1>5. Echeance(d, o)' \in Nat
  BY EcheanceApres
<1>6. Echeance(d, o)' - Retenue \in Int /\ Echeance(d, o)' - Retenue <= b
  BY <1>1, <1>5
<1> HIDE DEF b
<1>7. TypesServeur'
  BY DEF Types
<1>8. pieces'[p].orpheline # Rien /\ pieces'[p] # Rien => pieces'[p].orpheline \in Nat
  BY <1>2, <1>7 DEF TypesServeur, Rangees
<1> QED
  BY <1>3, <1>4, <1>6, <1>8 DEF Protege

LEMMA EcheancesBaissees ==
  ASSUME Types, Types', Nombres, PiecesTenues, NEW d \in Appareils, DelaiTenu(d), DelaiTenu(d)',
         EcheancesBaissent(d), \A o \in Ids : ObjetTenu(d, o)
  PROVE  EcheancesTenues(d)
BY EcheanceBaissee DEF EcheancesTenues, EcheancesBaissent

\* The lot of a device that goes on with it.
LEMMA LotToujoursTenu ==
  ASSUME Types, Progres, Nombres, PiecesTenues, NEW d \in Appareils, AppareilJuste(d),
         DelaiTenu(d), LotTenu(d), UNCHANGED <<connu, reclamation>>,
         cycle'[d].pc = "depose" => cycle[d].pc = "depose",
         cycle'[d].lot = cycle[d].lot, cycle'[d].ouverte = cycle[d].ouverte,
         \A p \in cycle[d].file \ cycle'[d].file : Protege(pieces'[p], reclamation[d])
  PROVE  LotTenu(d)'
<1> SUFFICES ASSUME cycle[d].pc = "depose", NEW o \in Ids, cycle[d].lot[o] # Rien,
                    connu[d][o].rev = objets'[o].rev,
                    NEW p \in References(Detachee(cycle[d].lot[o], cycle[d].ouverte))
                                \ cycle'[d].file
             PROVE  Protege(pieces'[p], reclamation[d])
  BY DEF LotTenu, AJour
<1>1. AJour(d, o)
  <2>1. /\ connu[d][o].rev <= objets[o].rev /\ Avance(objets[o], objets'[o], seq)
        /\ connu[d][o].rev \in Nat /\ objets[o].rev \in Nat
    BY RangDe, ConnuDe, ScelleeForme
    DEF AppareilJuste, Cellule, Ligne, Progres, Types, TypesServeur
  <2> QED
    BY <2>1 DEF Avance, AJour
<1>2. CASE p \in cycle[d].file
  BY <1>2
<1>3. CASE p \notin cycle[d].file
  <2>1. Protege(pieces[p], reclamation[d]) /\ p \in Pieces
    BY <1>1, <1>3 DEF LotTenu, References
  <2>2. reclamation[d] \in Int /\ reclamation[d] <= jour /\ jour <= reclamation[d] + Retenue
    BY RangDe DEF DelaiTenu, Nombres, Types, TypesServeur
  <2> QED
    BY <2>1, <2>2 DEF PiecesTenues
<1> QED
  BY <1>2, <1>3

\* A device the step does not concern.
LEMMA AutreTenu ==
  ASSUME Types, Types', Progres, Nombres, PiecesTenues, jour' = jour,
         NEW x \in Appareils, AppareilJuste(x), DelaiTenu(x), LotTenu(x),
         connu'[x] = connu[x], reclamation'[x] = reclamation[x], cycle'[x] = cycle[x],
         \A o \in Ids : ObjetTenu(x, o)
  PROVE  DelaiTenu(x)' /\ LotTenu(x)' /\ EcheancesTenues(x)
<1>1. DelaiTenu(x)'
  BY DEF DelaiTenu
<1>2. EcheancesBaissent(x)
  <2> SUFFICES ASSUME NEW o \in Ids, objets'[o] = objets[o]
               PROVE  Echeance(x, o)' <= Echeance(x, o)
    BY DEF EcheancesBaissent
  <2>1. Echeance(x, o)' = Echeance(x, o)
    BY DEF Echeance, Sue, AJour
  <2>2. Echeance(x, o) \in Nat
    BY EcheanceDe
  <2> QED
    BY <2>1, <2>2
<1>3. LotTenu(x)'
  <2> SUFFICES ASSUME cycle[x].pc = "depose", NEW o \in Ids, cycle[x].lot[o] # Rien,
                      connu[x][o].rev = objets'[o].rev,
                      NEW p \in References(Detachee(cycle[x].lot[o], cycle[x].ouverte))
                                  \ cycle[x].file
               PROVE  Protege(pieces'[p], reclamation[x])
    BY DEF LotTenu, AJour
  <2>1. /\ connu[x][o].rev <= objets[o].rev /\ Avance(objets[o], objets'[o], seq)
        /\ connu[x][o].rev \in Nat /\ objets[o].rev \in Nat
    BY RangDe, ConnuDe, ScelleeForme
    DEF AppareilJuste, Cellule, Ligne, Progres, Types, TypesServeur
  <2>2. AJour(x, o)
    BY <2>1 DEF Avance, AJour
  <2>3. Protege(pieces[p], reclamation[x]) /\ p \in Pieces
    BY <2>2 DEF LotTenu, References
  <2>4. reclamation[x] \in Int /\ reclamation[x] <= jour /\ jour <= reclamation[x] + Retenue
    BY RangDe DEF DelaiTenu, Nombres, Types, TypesServeur
  <2> QED
    BY <2>3, <2>4 DEF PiecesTenues
<1> QED
  BY <1>1, <1>2, <1>3, EcheancesBaissees

\* A push given up waits too.
LEMMA ErranteTenue ==
  ASSUME Types, Progres, Nombres, PiecesTenues, jour' = jour,
         NEW r \in Demandes, PousseeJuste(r), PousseeTenue(r)
  PROVE  PousseeTenue(r)'
<1> SUFFICES ASSUME r.type = "push", NEW o \in Ids, r.lot[o] # Rien,
                    r.lot[o].base = objets'[o].rev, NEW p \in References(r.lot[o].forme)
             PROVE  Protege(pieces'[p], r.jour - Cadence)
  BY DEF PousseeTenue
<1>1. /\ r.lot[o] \in LignesDeLot /\ r.jour \in Nat
  BY DemandeDe
<1>2. /\ r.lot[o].base \in Nat /\ r.lot[o].base <= objets[o].rev /\ objets[o].rev \in Nat
      /\ Avance(objets[o], objets'[o], seq)
  BY <1>1, ScelleeForme DEF LignesDeLot, PousseeJuste, EnRoute, Types, TypesServeur, Progres
<1>3. r.lot[o].base = objets[o].rev
  BY <1>2 DEF Avance
<1>4. Protege(pieces[p], r.jour - Cadence) /\ p \in Pieces
  BY <1>3 DEF PousseeTenue, References
<1>5. /\ r.jour - Cadence \in Int /\ r.jour - Cadence <= jour
      /\ jour <= r.jour - Cadence + Retenue
  BY <1>1 DEF PousseeTenue, Nombres, Types, TypesServeur
<1> QED
  BY <1>4, <1>5 DEF PiecesTenues

LEMMA TempsTient ==
  ASSUME Rangs, Rangs', Progres, Nombres, Temps, PiecesTenues, jour' = jour, ObjetsPrevus,
         \A x \in Appareils : DelaiTenu(x)' /\ LotTenu(x)' /\ EcheancesTenues(x),
         \A r \in errantes' : r \in errantes \/ PousseeTenue(r)'
  PROVE  Temps'
<1>1. Types /\ Types' /\ \A r \in errantes : r \in Demandes /\ PousseeJuste(r)
  BY DEF Rangs, Types, Lignes
<1>2. ASSUME NEW x \in Appareils, NEW o \in Ids PROVE ObjetTenu(x, o)'
  <2>1. CASE objets'[o] = objets[o]
    BY <2>1 DEF EcheancesTenues
  <2>2. CASE objets'[o] # objets[o]
    <3> SUFFICES ASSUME NEW p \in References(objets'[o].forme)
                 PROVE  Protege(pieces'[p], Echeance(x, o)' - Retenue)
      BY DEF ObjetTenu
    <3>1. Protege(pieces'[p], jour + 2 * Cadence - Retenue) /\ p \in Pieces
      BY <2>2 DEF ObjetsPrevus, References
    <3>2. Echeance(x, o)' \in Nat /\ Echeance(x, o)' <= jour + 2 * Cadence
      BY <1>1, EcheanceApres
    <3>3. jour \in Nat /\ Cadence \in Nat /\ Retenue \in Nat
      BY <1>1 DEF Nombres, Types, TypesServeur
    <3>4. pieces'[p].orpheline # Rien /\ pieces'[p] # Rien => pieces'[p].orpheline \in Nat
      BY <1>1, <3>1 DEF Types, TypesServeur, Rangees
    <3> QED
      BY <3>1, <3>2, <3>3, <3>4 DEF Protege
  <2> QED
    BY <2>1, <2>2
<1>3. \A r \in errantes' : PousseeTenue(r)'
  <2>1. \A r \in errantes : PousseeTenue(r)'
    BY <1>1, ErranteTenue DEF Temps
  <2> QED
    BY <2>1
<1> QED
  BY <1>2, <1>3 DEF Temps

-----------------------------------------------------------------------------
(* The steps of a device, and their deadlines                              *)

\* What a step of device d owes to the deadlines.
TempsApres(d) ==
  /\ PiecesTenues /\ ObjetsPrevus
  /\ DelaiTenu(d)' /\ LotTenu(d)' /\ EcheancesTenues(d)

LEMMA ServeurImmobile ==
  ASSUME UNCHANGED <<objets, pieces>>
  PROVE  PiecesTenues /\ ObjetsPrevus
BY DEF PiecesTenues, ObjetsPrevus

\* A step after which no claim is under way, or due.
LEMMA SansReclamation ==
  ASSUME Types, Types', Nombres, PiecesTenues, jour' = jour, NEW d \in Appareils,
         DelaiTenu(d), \A o \in Ids : ObjetTenu(d, o), reclamation'[d] = reclamation[d],
         cycle'[d].pc \notin {"accueil", "reclame", "ranime"}
  PROVE  DelaiTenu(d)' /\ EcheancesTenues(d)
<1>1. DelaiTenu(d)'
  BY DEF DelaiTenu
<1>2. EcheancesBaissent(d)
  BY EcheanceDe DEF EcheancesBaissent, Echeance
<1> QED
  BY <1>1, <1>2, EcheancesBaissees

\* A step that leaves the claim where it was.
LEMMA MemeReclamation ==
  ASSUME Types, Types', Nombres, PiecesTenues, jour' = jour, NEW d \in Appareils,
         DelaiTenu(d), \A o \in Ids : ObjetTenu(d, o), reclamation'[d] = reclamation[d],
         cycle'[d].pc = cycle[d].pc, cycle'[d].jour = cycle[d].jour,
         \A o \in Ids : objets'[o] = objets[o] /\ Sue(d, o) => Sue(d, o)'
  PROVE  DelaiTenu(d)' /\ EcheancesTenues(d)
<1>1. DelaiTenu(d)'
  BY DEF DelaiTenu
<1>2. ASSUME NEW o \in Ids, objets'[o] = objets[o]
      PROVE  Echeance(d, o)' <= Echeance(d, o)
  <2>1. /\ Echeance(d, o) \in Nat /\ reclamation[d] + Cadence <= Echeance(d, o)
    BY EcheanceDe
  <2>2. Sue(d, o) => Sue(d, o)'
    BY <1>2
  <2>3. reclamation[d] \in Nat /\ Cadence \in Nat /\ cycle[d].jour \in Nat
    BY RangDe, CycleDe DEF Types, Nombres
  <2> QED
    BY <2>1, <2>2, <2>3 DEF Echeance
<1>3. EcheancesBaissent(d)
  BY <1>2 DEF EcheancesBaissent
<1> QED
  BY <1>1, <1>3, EcheancesBaissees

\* The push, sent now or given up before.
LEMMA PousseePrevue ==
  ASSUME Types, Nombres, NEW r \in Demandes, PousseeJuste(r), PousseeTenue(r), Servir(r),
         jour' = jour
  PROVE  PiecesTenues /\ ObjetsPrevus
<1>0. TypesServeur
  BY DEF Types
<1>1. PiecesTenues
  BY <1>0, ServirTenu
<1>2. ASSUME NEW o \in Ids, objets'[o] # objets[o], NEW p \in References(objets'[o].forme)
      PROVE  Protege(pieces'[p], jour + 2 * Cadence - Retenue)
  <2>1. /\ r.type = "push" /\ o \in Stockes(r.lot) /\ objets'[o].forme = r.lot[o].forme
    BY <1>0, <1>2, ServirProgres
  <2>2. r.lot[o] # Rien /\ r.lot[o].base = objets[o].rev
    BY <2>1 DEF Stockes
  <2>3. Protege(pieces[p], r.jour - Cadence) /\ p \in Pieces
    BY <1>2, <2>1, <2>2 DEF PousseeTenue, References
  <2>4. /\ r.jour \in Nat /\ r.jour <= jour /\ jour <= r.jour + Cadence
        /\ jour \in Nat /\ Cadence \in Nat /\ Retenue \in Nat /\ 4 * Cadence <= Retenue
    BY <1>0, <2>1, DemandeDe DEF PousseeTenue, Nombres, TypesServeur
  <2> DEFINE b == jour + 2 * Cadence - Retenue
  <2>5. b \in Int /\ b <= r.jour - Cadence /\ b <= jour /\ jour <= b + Retenue
        /\ r.jour - Cadence \in Int
    BY <2>4
  <2> HIDE DEF b
  <2>6. Protege(pieces[p], b)
    BY <1>0, <2>3, <2>5, ProtegeMoins
  <2>7. Protege(pieces'[p], b)
    BY <1>1, <2>3, <2>5, <2>6 DEF PiecesTenues
  <2> QED
    BY <2>7 DEF b
<1> QED
  BY <1>1, <1>2 DEF ObjetsPrevus

LEMMA PousseePrete ==
  ASSUME Types, Nombres, NEW d \in Appareils, AppareilJuste(d), DelaiTenu(d), LotTenu(d),
         cycle[d].pc = "depose", cycle[d].file = {}
  PROVE  PousseeTenue(Poussee(d))
<1>1. /\ reclamation[d] \in Nat /\ jour \in Nat /\ Cadence \in Nat
      /\ reclamation[d] <= jour /\ jour <= reclamation[d] + Cadence
  BY RangDe DEF Types, TypesServeur, Nombres, DelaiTenu
<1>2. ASSUME NEW o \in Ids, Poussee(d).lot[o] # Rien, Poussee(d).lot[o].base = objets[o].rev,
             NEW p \in References(Poussee(d).lot[o].forme)
      PROVE  Protege(pieces[p], jour - Cadence)
  <2>1. /\ cycle[d].lot[o] # Rien /\ connu[d][o].rev = objets[o].rev
        /\ p \in References(Detachee(cycle[d].lot[o], cycle[d].ouverte))
    BY <1>2, PousseeDe
  <2>2. Protege(pieces[p], reclamation[d]) /\ p \in Pieces
    BY <2>1 DEF LotTenu, AJour, References
  <2>3. jour - Cadence \in Int /\ reclamation[d] \in Int /\ jour - Cadence <= reclamation[d]
    BY <1>1
  <2> QED
    BY <2>2, <2>3, ProtegeMoins DEF Types
<1>3. Poussee(d).jour = jour
  BY PousseeDe
<1> QED
  BY <1>1, <1>2, <1>3 DEF PousseeTenue

LEMMA AccueilliNote ==
  ASSUME Types, NEW d \in Appareils, NEW o \in Ids, AppareilJuste(d), Accueillir(d, o)
  PROVE  /\ Examinee(d, o) /\ UNCHANGED <<serveur, jour, reclamation>>
         /\ connu'[d][o].rev = cycle[d].page[o].rev
         /\ \A y \in Ids \ {o} : connu'[d][y].rev = connu[d][y].rev
<1> DEFINE e == cycle[d].page[o]
<1>0. connu \in [Appareils -> [Ids -> Connus]]
  BY DEF Types, TypesAppareils
<1>1. Examinee(d, o) /\ UNCHANGED <<serveur, jour, reclamation>>
  BY DEF Accueillir, Reconnaitre, Douter, TenirPlancher, Ingerer, autour
<1>2. /\ e \in Objets /\ connu[d][o] \in Connus /\ objets[o] \in Objets
      /\ EnPage(e, locale[d][o], connu[d][o], plancher[d][o], objets[o])
  BY <1>1, ExamineeVoit
<1>3. MaxDe(connu[d][o].rev, e.rev) = e.rev
  BY <1>2, RevNotee
<1>4. \/ connu' = [connu EXCEPT ![d][o].rev = MaxDe(@, e.rev)]
      \/ connu' = [connu EXCEPT ![d][o].forme = Rien] /\ e.rev = connu[d][o].rev
      \/ \E c : connu' = [connu EXCEPT ![d][o] = [rev |-> MaxDe(@.rev, e.rev), forme |-> c]]
  BY DEF Accueillir, Reconnaitre, Douter, Perimee, TenirPlancher, Ingerer
<1> HIDE DEF e
<1>5. \E n : connu' = [connu EXCEPT ![d][o] = n] /\ n.rev = e.rev
  <2>1. CASE connu' = [connu EXCEPT ![d][o].rev = MaxDe(@, e.rev)]
    <3>1. [connu[d][o] EXCEPT !.rev = e.rev].rev = e.rev
      BY <1>2 DEF Connus
    <3>2. connu' = [connu EXCEPT ![d][o] = [connu[d][o] EXCEPT !.rev = e.rev]]
      BY <1>0, <1>3, <2>1
    <3> QED
      BY <3>1, <3>2
  <2>2. CASE connu' = [connu EXCEPT ![d][o].forme = Rien] /\ e.rev = connu[d][o].rev
    <3>1. [connu[d][o] EXCEPT !.forme = Rien].rev = e.rev
      BY <1>2, <2>2 DEF Connus
    <3>2. connu' = [connu EXCEPT ![d][o] = [connu[d][o] EXCEPT !.forme = Rien]]
      BY <1>0, <2>2
    <3> QED
      BY <3>1, <3>2
  <2>3. ASSUME NEW c,
               connu' = [connu EXCEPT ![d][o] = [rev |-> MaxDe(@.rev, e.rev), forme |-> c]]
        PROVE  \E n : connu' = [connu EXCEPT ![d][o] = n] /\ n.rev = e.rev
    <3>1. connu' = [connu EXCEPT ![d][o] = [rev |-> e.rev, forme |-> c]]
      BY <1>0, <1>3, <2>3
    <3> WITNESS [rev |-> e.rev, forme |-> c]
    <3> QED
      BY <3>1
  <2> QED
    BY <1>4, <2>1, <2>2, <2>3
<1>6. connu'[d][o].rev = e.rev /\ \A y \in Ids \ {o} : connu'[d][y] = connu[d][y]
  BY <1>0, <1>5
<1> QED
  BY <1>1, <1>6 DEF e

LEMMA AccueillirTemps ==
  ASSUME Types, Types', Nombres, NEW d \in Appareils, NEW o \in Ids, AppareilJuste(d),
         DelaiTenu(d), \A y \in Ids : ObjetTenu(d, y), Accueillir(d, o)
  PROVE  TempsApres(d)
<1>1. /\ Examinee(d, o) /\ UNCHANGED <<serveur, jour, reclamation>>
      /\ connu'[d][o].rev = cycle[d].page[o].rev
      /\ \A y \in Ids \ {o} : connu'[d][y].rev = connu[d][y].rev
  BY AccueilliNote
<1>2. /\ cycle[d] \in Cycles /\ cycle'[d] \in Cycles /\ cycle[d].pc \in {"accueil", "conflit"}
      /\ \A y \in Ids : cycle'[d].page[y] = IF y = o THEN Rien ELSE cycle[d].page[y]
  BY <1>1, ExamineeTypes DEF Types, TypesAppareils
<1>3. cycle'[d].pc \in (IF cycle[d].pc = "accueil" THEN {"accueil", "reclame"}
                        ELSE {"conflit", "lot"})
  <2> DEFINE n == [cycle[d] EXCEPT !.page[o] = Rien]
  <2>1. n.pc = cycle[d].pc
    BY <1>2 DEF Cycles
  <2>2. cycle' = [cycle EXCEPT ![d] = Suite(n)] /\ cycle \in [Appareils -> Cycles]
    BY <1>1 DEF Examinee, FinirPage, Types, TypesAppareils
  <2>3. n \in [pc : Etats, ouverte : 0..EpoqueMax, asOf : Nat,
               page : [Ids -> Objets \cup {Rien}], lot : [Ids -> Formes \cup {Rien}],
               file : SUBSET Pieces, jour : Nat]
    BY <1>2 DEF Cycles
  <2> HIDE DEF n
  <2>4. Suite(n).pc \in {n.pc, IF n.pc = "accueil" THEN "reclame" ELSE "lot"}
    BY <2>3, SuiteType DEF Cycles
  <2>5. cycle'[d].pc \in {n.pc, IF n.pc = "accueil" THEN "reclame" ELSE "lot"}
    BY <2>2, <2>4
  <2> QED
    BY <1>2, <2>1, <2>5
<1>4. PiecesTenues /\ ObjetsPrevus
  BY <1>1, ServeurImmobile DEF serveur
<1>5. DelaiTenu(d)' /\ LotTenu(d)'
  BY <1>1, <1>3 DEF DelaiTenu, LotTenu
<1>6. ASSUME NEW y \in Ids, Sue(d, y) PROVE Sue(d, y)'
  <2>1. CASE y # o
    BY <1>1, <1>2, <1>6, <2>1 DEF Sue, AJour, serveur
  <2>2. CASE y = o
    <3>1. /\ cycle[d].page[o] \in Objets /\ objets[o] \in Objets /\ connu[d][o] \in Connus
          /\ EnPage(cycle[d].page[o], locale[d][o], connu[d][o], plancher[d][o], objets[o])
      BY <1>1, ExamineeVoit
    <3>2. /\ cycle[d].page[o].rev \in Nat /\ objets[o].rev \in Nat /\ connu[d][o].rev \in Nat
          /\ connu[d][o].rev <= cycle[d].page[o].rev /\ cycle[d].page[o].rev <= objets[o].rev
      BY <3>1 DEF EnPage, Objets, Connus
    <3>3. cycle[d].page[o].rev = objets[o].rev
      BY <1>6, <2>2, <3>2 DEF Sue, AJour
    <3> QED
      BY <1>1, <2>2, <3>3 DEF Sue, AJour, serveur
  <2> QED
    BY <2>1, <2>2
<1>7. EcheancesBaissent(d)
  <2> SUFFICES ASSUME NEW y \in Ids
               PROVE  Echeance(d, y)' <= Echeance(d, y)
    BY DEF EcheancesBaissent
  <2>1. /\ Echeance(d, y) \in Nat /\ reclamation[d] + Cadence <= Echeance(d, y)
        /\ reclamation[d] \in Nat /\ Cadence \in Nat
    BY EcheanceDe, RangDe DEF Types, Nombres
  <2> QED
    BY <1>1, <1>2, <1>3, <1>6, <2>1 DEF Echeance
<1> QED
  BY <1>4, <1>5, <1>7, EcheancesBaissees DEF TempsApres

LEMMA TirerTemps ==
  ASSUME Types, Types', Nombres, NEW d \in Appareils, AppareilJuste(d), DelaiTenu(d),
         \A o \in Ids : ObjetTenu(d, o), Tirer(d)
  PROVE  TempsApres(d)
<1> DEFINE page == [o \in Ids |-> IF objets[o].seq > curseur[d] THEN objets[o] ELSE Rien]
           c == [Repos EXCEPT !.pc = "accueil", !.ouverte = epoque, !.asOf = seq,
                              !.page = page]
<1>1. /\ Exporter(d, sortant[d]) /\ FinirPage(d, c) /\ cycle[d].pc = "repos"
      /\ UNCHANGED <<serveur, errantes, autour>>
  BY DEF Tirer
<1>2. UNCHANGED <<objets, pieces, seq, jour, reclamation>>
  BY <1>1 DEF Exporter, serveur, autour
<1>3. AppareilJuste(d)'
  BY TirerJuste
<1>4. /\ seq \in Nat /\ epoque \in 0..EpoqueMax
      /\ \A o \in Ids : objets[o] \in Objets /\ objets[o].seq <= seq
  BY ScelleeForme, ImagesNumbers DEF Types, TypesServeur
<1>5. page \in [Ids -> Objets \cup {Rien}]
  BY <1>4
<1> HIDE DEF page
<1>6. c \in Cycles /\ c.pc = "accueil" /\ c.asOf = seq /\ c.page = page
  BY <1>4, <1>5 DEF Repos, Vide, Cycles, Etats
<1> HIDE DEF c
<1>7. /\ cycle' = [cycle EXCEPT ![d] = Suite(c)]
      /\ curseur' = IF page = Vide THEN [curseur EXCEPT ![d] = seq] ELSE curseur
      /\ cycle \in [Appareils -> Cycles] /\ curseur \in [Appareils -> Nat]
  BY <1>1, <1>6 DEF FinirPage, Types, TypesAppareils
<1>8. /\ cycle'[d].asOf = seq /\ cycle'[d].pc \in {"accueil", "reclame"}
      /\ (cycle'[d].pc = "reclame" => curseur'[d] = seq)
  BY <1>6, <1>7, SuiteType
<1>9. ASSUME NEW o \in Ids PROVE Sue(d, o)'
  <2>1. objets'[o].seq <= seq /\ PageJuste(d, o)' /\ VuesJustes(d, o)'
    BY <1>2, <1>3, <1>4 DEF AppareilJuste
  <2> QED
    BY <1>8, <2>1 DEF Sue, PageJuste, VuesJustes
<1>10. DelaiTenu(d)' /\ LotTenu(d)'
  BY <1>2, <1>8 DEF DelaiTenu, LotTenu
<1>11. PiecesTenues /\ ObjetsPrevus
  BY <1>2, ServeurImmobile
<1>12. EcheancesBaissent(d)
  <2> SUFFICES ASSUME NEW o \in Ids
               PROVE  Echeance(d, o)' <= Echeance(d, o)
    BY DEF EcheancesBaissent
  <2>1. Echeance(d, o) \in Nat /\ reclamation[d] + Cadence <= Echeance(d, o)
    BY EcheanceDe
  <2>2. Echeance(d, o)' = reclamation[d] + Cadence
    BY <1>2, <1>8, <1>9 DEF Echeance
  <2> QED
    BY <2>1, <2>2
<1> QED
  BY <1>10, <1>11, <1>12, EcheancesBaissees DEF TempsApres

LEMMA ReclamerTemps ==
  ASSUME Types, Types', Nombres, NEW d \in Appareils, AppareilJuste(d), DelaiTenu(d),
         \A o \in Ids : ObjetTenu(d, o), Reclamer(d)
  PROVE  TempsApres(d)
<1>1. /\ cycle[d].pc = "reclame" /\ jour > reclamation[d] /\ d \in session
      /\ Servir(Claim(d, ToutesReferences(d))) /\ jour' = jour
      /\ UNCHANGED <<connu, reclamation>>
  BY DEF Reclamer, autour, tables
<1>2. objets' = objets /\ cycle'[d].pc = "ranime" /\ cycle'[d].jour = jour
  BY <1>1, ReclamerJuste
<1>3. /\ ToutesReferences(d) \in SUBSET Pieces
      /\ \A o \in Ids : refs[d][o] \subseteq ToutesReferences(d)
  BY RangDe DEF ToutesReferences, Types
<1>4. PiecesTenues /\ ObjetsPrevus
  BY <1>1, <1>2, <1>3, ClaimDe, ServirTenu DEF ObjetsPrevus, Types
<1>5. /\ reclamation[d] \in Nat /\ jour \in Nat /\ Cadence \in Nat
      /\ reclamation[d] <= jour /\ jour <= reclamation[d] + Cadence
  BY RangDe DEF Types, TypesServeur, Nombres, DelaiTenu
<1>6. DelaiTenu(d)' /\ LotTenu(d)'
  BY <1>1, <1>2, <1>5 DEF DelaiTenu, LotTenu
<1>7. ASSUME NEW o \in Ids PROVE ObjetTenu(d, o)'
  <2>1. CASE Sue(d, o)
    <3>1. cycle[d].page[o] = Rien /\ objets[o] \in Objets
      BY <1>1, PageVide DEF Types, TypesServeur
    <3>2. AJour(d, o)
      BY <2>1, <3>1, RienHors DEF Sue
    <3>3. refs[d][o] = References(objets[o].forme)
      BY <3>2 DEF AppareilJuste, Cellule, Ligne, AJour
    <3> SUFFICES ASSUME NEW p \in References(objets[o].forme)
                 PROVE  Protege(pieces'[p], Echeance(d, o)' - Retenue)
      BY <1>2 DEF ObjetTenu
    <3>4. p \in ToutesReferences(d) /\ p \in Pieces /\ pieces[p] # Rien
      BY <1>3, <3>3 DEF ObjetTenu, Protege
    <3> QED
      BY <1>1, <1>3, <3>4, ReclameeTenue DEF Types
  <2>2. CASE ~Sue(d, o)
    <3>1. Echeance(d, o) = reclamation[d] + 2 * Cadence
      BY <1>1, <2>2 DEF Echeance
    <3>2. Echeance(d, o)' = jour + Cadence
      BY <1>2 DEF Echeance
    <3>3. Echeance(d, o)' <= Echeance(d, o)
      BY <1>5, <3>1, <3>2
    <3> QED
      BY <1>2, <1>4, <1>6, <3>3, EcheanceBaissee
  <2> QED
    BY <2>1, <2>2
<1> QED
  BY <1>4, <1>6, <1>7 DEF TempsApres, EcheancesTenues

LEMMA FinirTemps ==
  ASSUME Types, Types', Nombres, NEW d \in Appareils, NEW ratees, AppareilJuste(d),
         DelaiTenu(d), \A o \in Ids : ObjetTenu(d, o), FinirReclamation(d, ratees)
  PROVE  TempsApres(d)
<1>1. /\ cycle[d].pc = "ranime" /\ UNCHANGED <<serveur, jour>>
      /\ reclamation' = [reclamation EXCEPT ![d] = cycle[d].jour]
      /\ cycle' = [cycle EXCEPT ![d] = Poussant(@)]
  BY DEF FinirReclamation
<1>2. reclamation'[d] = cycle[d].jour /\ cycle'[d] = Poussant(cycle[d]) /\ cycle[d] \in Cycles
  BY <1>1 DEF Types, TypesAppareils
<1>3. cycle'[d].pc = "lot"
  BY <1>2, PoussantType
<1>4. /\ reclamation[d] \in Nat /\ jour \in Nat /\ Cadence \in Nat /\ cycle[d].jour \in Nat
  BY <1>2, RangDe, CycleDe DEF Types, TypesServeur, Nombres
<1>5. DelaiTenu(d)' /\ LotTenu(d)'
  BY <1>1, <1>2, <1>3, <1>4 DEF DelaiTenu, LotTenu
<1>6. PiecesTenues /\ ObjetsPrevus
  BY <1>1, ServeurImmobile DEF serveur
<1>7. EcheancesBaissent(d)
  BY <1>1, <1>2, <1>3, <1>4 DEF EcheancesBaissent, Echeance
<1> QED
  BY <1>5, <1>6, <1>7, EcheancesBaissees DEF TempsApres

LEMMA ReprendreTemps ==
  ASSUME Types, Types', Nombres, NEW d \in Appareils, NEW o, NEW ratees, AppareilJuste(d),
         DelaiTenu(d), \A y \in Ids : ObjetTenu(d, y), Reprendre(d, o, ratees)
  PROVE  TempsApres(d)
<1>1. /\ cycle[d].pc = "reclame" /\ UNCHANGED <<serveur, jour, cycle, reclamation>>
      /\ ReparerTrous(d, {o}, ratees, {}) /\ UNCHANGED <<plancher, refs, connues, curseur>>
  BY DEF Reprendre
<1>2. \A y \in Ids : connu'[d][y].rev = connu[d][y].rev
  <2>1. /\ cycle' \in [Appareils -> Cycles] /\ cycle'[d].asOf <= seq
        /\ cycle'[d].ouverte > 0 /\ \A y \in Ids : cycle'[d].page[y] = Rien
    BY <1>1, PageVide DEF Types, TypesAppareils, AppareilJuste
  <2> QED
    BY <1>1, <2>1, ReparerJuste DEF serveur
<1>3. PiecesTenues /\ ObjetsPrevus
  BY <1>1, ServeurImmobile DEF serveur
<1>4. \A y \in Ids : Sue(d, y) => Sue(d, y)'
  BY <1>1, <1>2 DEF Sue, AJour, serveur
<1>5. LotTenu(d)'
  BY <1>1 DEF LotTenu
<1> QED
  BY <1>1, <1>3, <1>4, <1>5, MemeReclamation DEF TempsApres

LEMMA PreparerLotTemps ==
  ASSUME Types, Types', Nombres, NEW d \in Appareils, AppareilJuste(d), DelaiTenu(d),
         \A o \in Ids : ObjetTenu(d, o), PreparerLot(d)
  PROVE  TempsApres(d)
<1> DEFINE e == cycle[d].ouverte
           S == ReferencesDe(d, Dus(d), e)
<1>1. /\ cycle[d].pc \in {"lot", "reclame"} /\ (S # {} => d \in session)
      /\ Servir(Claim(d, S)) /\ jour' = jour /\ UNCHANGED <<connu, reclamation>>
  BY DEF PreparerLot, autour
<1>2. /\ objets' = objets /\ cycle'[d].pc = "depose" /\ cycle'[d].ouverte = e
      /\ cycle'[d].file = Manquantes(S) \cap Tenues(d, Dus(d), e)
      /\ \A o \in Ids : cycle'[d].lot[o] = IF o \in Dus(d) THEN ClairLocal(d, o) ELSE Rien
  BY <1>1, PreparerLotJuste
<1>3. /\ S \in SUBSET Pieces
      /\ \A o \in Dus(d) : References(Detachee(ClairLocal(d, o), e)) \subseteq S
  BY DEF ReferencesDe, References
<1> HIDE DEF S, e
<1>4. PiecesTenues /\ ObjetsPrevus
  BY <1>1, <1>2, <1>3, ClaimDe, ServirTenu DEF ObjetsPrevus, Types
<1>5. DelaiTenu(d)' /\ EcheancesTenues(d)
  BY <1>1, <1>2, <1>4, SansReclamation
<1>6. LotTenu(d)'
  <2> SUFFICES ASSUME NEW o \in Ids, o \in Dus(d), AJour(d, o),
                      NEW p \in References(Detachee(ClairLocal(d, o), e)),
                      p \notin cycle'[d].file
               PROVE  Protege(pieces'[p], reclamation[d])
    BY <1>1, <1>2 DEF LotTenu, AJour
  <2>1. p \in S /\ p \in Pieces /\ d \in session
    BY <1>1, <1>3
  <2>2. pieces[p] # Rien
    <3>1. CASE p[2] = e /\ ClairLocal(d, o).images[p[1]] = Pleine
      BY <1>2, <2>1, <3>1 DEF Tenues, Manquantes
    <3>2. CASE p \in refs[d][o]
      <4>1. p \in References(objets[o].forme)
        BY <3>2 DEF AppareilJuste, Cellule, Ligne, AJour
      <4> QED
        BY <4>1 DEF ObjetTenu, Protege
    <3> QED
      BY <1>1, <3>1, <3>2, LotRefere DEF e
  <2> QED
    BY <1>1, <1>3, <2>1, <2>2, ReclameeTenue DEF Types
<1> QED
  BY <1>4, <1>5, <1>6 DEF TempsApres

LEMMA DeposerTemps ==
  ASSUME Types, Types', Progres, Nombres, NEW d \in Appareils, NEW p \in Pieces,
         AppareilJuste(d), CycleSuivi(d), DelaiTenu(d), LotTenu(d),
         \A o \in Ids : ObjetTenu(d, o), Deposer(d, p)
  PROVE  TempsApres(d)
<1>1. /\ cycle[d].pc \in {"ranime", "depose"} /\ p \in cycle[d].file
      /\ d \in session /\ cycle[d].ouverte = epoque /\ Servir(Depot(d, p)) /\ jour' = jour
      /\ cycle' = [cycle EXCEPT ![d].file = @ \ {p}]
      /\ UNCHANGED <<connu, reclamation>>
  BY DEF Deposer, autour
<1>2. /\ cycle'[d].pc = cycle[d].pc /\ cycle'[d].ouverte = cycle[d].ouverte
      /\ cycle'[d].lot = cycle[d].lot /\ cycle'[d].page = cycle[d].page
      /\ cycle'[d].jour = cycle[d].jour /\ cycle'[d].file = cycle[d].file \ {p}
  BY <1>1, UneDeMoins DEF Types
<1>3. objets' = objets
  BY <1>1, DeposerJuste
<1>4. PiecesTenues /\ ObjetsPrevus
  BY <1>1, <1>3, DepotDe, ServirTenu DEF ObjetsPrevus, Types
<1>5. \A o \in Ids : Sue(d, o) => Sue(d, o)'
  BY <1>1, <1>2, <1>3 DEF Sue, AJour
<1>6. DelaiTenu(d)' /\ EcheancesTenues(d)
  BY <1>1, <1>2, <1>4, <1>5, MemeReclamation
<1>7. LotTenu(d)'
  <2>1. CASE cycle[d].pc = "ranime"
    BY <1>2, <2>1 DEF LotTenu
  <2>2. CASE cycle[d].pc = "depose"
    <3>1. p[2] = epoque
      BY <1>1, <2>2 DEF CycleSuivi
    <3>2. \A q \in cycle[d].file \ cycle'[d].file : Protege(pieces'[q], reclamation[d])
      BY <1>1, <1>2, <3>1, DeposeeTenue DEF Types
    <3> QED
      BY <1>1, <1>2, <1>4, <3>2, LotToujoursTenu
  <2> QED
    BY <1>1, <2>1, <2>2
<1> QED
  BY <1>4, <1>6, <1>7 DEF TempsApres

LEMMA PousserTemps ==
  ASSUME Types, Types', Nombres, NEW d \in Appareils, AppareilJuste(d), DelaiTenu(d),
         LotTenu(d), \A o \in Ids : ObjetTenu(d, o), Pousser(d)
  PROVE  TempsApres(d)
<1>1. /\ cycle[d].pc = "depose" /\ cycle[d].file = {} /\ Servir(Poussee(d)) /\ jour' = jour
      /\ reclamation' = reclamation
  BY DEF Pousser, autour
<1>2. cycle'[d].pc \in {"lot", "conflit"}
  BY <1>1, PousserType
<1>3. PiecesTenues /\ ObjetsPrevus
  BY <1>1, PousseeDe, PousseePrete, PousseePrevue
<1> QED
  BY <1>1, <1>2, <1>3, SansReclamation DEF TempsApres, LotTenu

LEMMA MarquerTemps ==
  ASSUME Types, Types', Nombres, NEW d \in Appareils, NEW p \in Pieces, AppareilJuste(d),
         MarquesLibres(d), DelaiTenu(d), \A o \in Ids : ObjetTenu(d, o), Marquer(d, p)
  PROVE  TempsApres(d)
<1>1. /\ cycle[d].pc = "marque" /\ Servir(Marque(d, p)) /\ jour' = jour
      /\ cycle' = [cycle EXCEPT ![d].file = @ \ {p}] /\ reclamation' = reclamation
  BY DEF Marquer, autour
<1>2. cycle'[d].pc = "marque"
  BY <1>1, UneDeMoins DEF Types
<1>3. objets' = objets
  BY <1>1, MarquerJuste
<1>4. PiecesTenues /\ ObjetsPrevus
  BY <1>1, <1>3, MarqueDe, ServirTenu DEF ObjetsPrevus, Types
<1> QED
  BY <1>1, <1>2, <1>4, SansReclamation DEF TempsApres, LotTenu

\* Steps without a request.
LEMMA EtapeSeuleTemps ==
  ASSUME Types, Types', Nombres, NEW d \in Appareils, DelaiTenu(d),
         \A o \in Ids : ObjetTenu(d, o),
         Perimer(d) \/ PreparerMarques(d) \/ Conclure(d) \/ Expulser(d) \/ Mourir(d)
  PROVE  TempsApres(d)
<1>1. UNCHANGED <<objets, pieces, jour, reclamation>>
  BY DEF Perimer, PreparerMarques, Conclure, Expulser, Mourir, Exporter, serveur, autour, tables
<1>2. cycle[d] \in Cycles /\ cycle \in [Appareils -> Cycles] /\ epoque \in 0..EpoqueMax
  BY ImagesNumbers DEF Types, TypesAppareils, TypesServeur
<1>3. cycle'[d].pc \in {"lot", "marque", "repos"}
  <2>1. CASE Perimer(d)
    <3>1. /\ Poussant(cycle[d]).pc = "lot"
          /\ [Poussant(cycle[d]) EXCEPT !.ouverte = epoque].pc = "lot"
      BY <1>2, PoussantType DEF Cycles
    <3>2. cycle'[d] \in {Poussant(cycle[d]), [Poussant(cycle[d]) EXCEPT !.ouverte = epoque]}
      BY <1>2, <2>1 DEF Perimer
    <3> QED
      BY <3>1, <3>2
  <2>2. CASE PreparerMarques(d)
    <3>1. [Poussant(cycle[d]) EXCEPT !.pc = "marque", !.file = SansReference(d)].pc = "marque"
      BY DEF Poussant, Repos
    <3> QED
      BY <1>2, <2>2, <3>1 DEF PreparerMarques
  <2>3. CASE Conclure(d) \/ Expulser(d) \/ Mourir(d)
    BY <1>2, <2>3, ReposType DEF Conclure, Expulser, Mourir
  <2> QED
    BY <2>1, <2>2, <2>3
<1>4. PiecesTenues /\ ObjetsPrevus
  BY <1>1, ServeurImmobile
<1> QED
  BY <1>1, <1>3, <1>4, SansReclamation DEF TempsApres, LotTenu

LEMMA PerdreTemps ==
  ASSUME Types, Types', Progres, Nombres, NEW d \in Appareils, NEW r \in Requetes(d),
         AppareilJuste(d), DelaiTenu(d), LotTenu(d), \A o \in Ids : ObjetTenu(d, o),
         Perdre(d, r)
  PROVE  /\ TempsApres(d)
         /\ \A q \in errantes' : q \in errantes \/ PousseeTenue(q)'
<1>1. /\ Servir(r) \/ UNCHANGED serveur
      /\ jour' = jour /\ reclamation' = reclamation /\ errantes' \subseteq errantes \cup {r}
  BY DEF Perdre, tables
<1>2. cycle'[d] = ApresEchec(cycle[d]) /\ cycle[d] \in Cycles
  BY PerdreJuste, RangDe DEF Types
<1>3. cycle'[d].pc \in {"lot", "marque", "repos"}
  BY <1>2, ApresEchecType
<1>4. r \in Demandes /\ PousseeJuste(r)
  BY RequeteDe
<1>5. PousseeTenue(r)
  <2>1. CASE r.type = "push"
    BY <2>1, RequeteDe, PousseePrete
  <2>2. CASE r.type # "push"
    BY <2>2 DEF PousseeTenue
  <2> QED
    BY <2>1, <2>2
<1>6. PiecesTenues /\ ObjetsPrevus
  BY <1>1, <1>4, <1>5, PousseePrevue, ServeurImmobile DEF serveur
<1>7. PousseeTenue(r)'
  BY <1>1, <1>4, <1>5, <1>6, ErranteTenue
<1> QED
  BY <1>1, <1>3, <1>6, <1>7, SansReclamation DEF TempsApres, LotTenu

LEMMA EtapeTemps ==
  ASSUME Rangs, Rangs', Progres, Nombres, Suivi, Temps, NEW d \in Appareils, Etape(d)
  PROVE  TempsApres(d) /\ UNCHANGED <<jour, errantes>>
<1>0. /\ Types /\ Types' /\ AppareilJuste(d) /\ MarquesLibres(d) /\ CycleSuivi(d)
      /\ DelaiTenu(d) /\ LotTenu(d) /\ \A o \in Ids : ObjetTenu(d, o)
  BY DEF Rangs, Lignes, Suivi, Temps
<1>1. UNCHANGED <<jour, errantes>>
  BY DEF Etape, Accueillir, Tirer, Reclamer, PreparerLot, Perimer, Pousser, autour,
         PreparerMarques, Conclure, Expulser, Deposer, Marquer, Reconnaitre, Douter,
         TenirPlancher, Ingerer, FinirReclamation, Reprendre
<1>2. CASE Tirer(d)
  BY <1>0, <1>1, <1>2, TirerTemps
<1>3. CASE Reclamer(d)
  BY <1>0, <1>1, <1>3, ReclamerTemps
<1>4. CASE PreparerLot(d)
  BY <1>0, <1>1, <1>4, PreparerLotTemps
<1>5. CASE Pousser(d)
  BY <1>0, <1>1, <1>5, PousserTemps
<1>6. CASE Perimer(d) \/ PreparerMarques(d) \/ Conclure(d) \/ Expulser(d)
  BY <1>0, <1>1, <1>6, EtapeSeuleTemps
<1>7. ASSUME NEW p \in Pieces, Deposer(d, p) \/ Marquer(d, p)
      PROVE  TempsApres(d)
  BY <1>0, <1>7, DeposerTemps, MarquerTemps
<1>8. ASSUME NEW o \in Ids, Accueillir(d, o)
      PROVE  TempsApres(d)
  BY <1>0, <1>8, AccueillirTemps
<1>9. ASSUME NEW ratees, FinirReclamation(d, ratees) \/ \E o \in Ids : Reprendre(d, o, ratees)
      PROVE  TempsApres(d)
  BY <1>0, <1>9, FinirTemps, ReprendreTemps
<1> QED
  BY <1>1, <1>2, <1>3, <1>4, <1>5, <1>6, <1>7, <1>8, <1>9 DEF Etape

\* The other devices follow.
LEMMA UnAppareil ==
  ASSUME Rangs, Rangs', Progres, Nombres, Temps, jour' = jour, NEW d \in Appareils,
         TempsApres(d), \A x \in Appareils \ {d} : MemeAppareil(x),
         \A r \in errantes' : r \in errantes \/ PousseeTenue(r)'
  PROVE  Temps'
<1>1. /\ Types /\ Types' /\ \A x \in Appareils : AppareilJuste(x)
  BY DEF Rangs, Lignes
<1>2. PiecesTenues /\ ObjetsPrevus
  BY DEF TempsApres
<1>3. ASSUME NEW x \in Appareils
      PROVE  DelaiTenu(x)' /\ LotTenu(x)' /\ EcheancesTenues(x)
  <2>1. CASE x = d
    BY <2>1 DEF TempsApres
  <2>2. CASE x # d
    BY <1>1, <1>2, <2>2, AutreTenu DEF Temps, MemeAppareil
  <2> QED
    BY <2>1, <2>2
<1> QED
  BY <1>2, <1>3, TempsTient

\* A step that no device makes.
LEMMA AucunAppareil ==
  ASSUME Rangs, Rangs', Progres, Nombres, Temps, jour' = jour,
         PiecesTenues, ObjetsPrevus,
         \A x \in Appareils : connu'[x] = connu[x] /\ reclamation'[x] = reclamation[x]
                              /\ cycle'[x] = cycle[x],
         errantes' \subseteq errantes
  PROVE  Temps'
<1>1. /\ Types /\ Types' /\ \A x \in Appareils : AppareilJuste(x)
  BY DEF Rangs, Lignes
<1>2. ASSUME NEW x \in Appareils
      PROVE  DelaiTenu(x)' /\ LotTenu(x)' /\ EcheancesTenues(x)
  BY <1>1, <1>2, AutreTenu DEF Temps
<1> QED
  BY <1>2, TempsTient

LEMMA AvancerTemps ==
  ASSUME Rangs, Nombres, Temps, Avancer
  PROVE  Temps'
<1>1. /\ jour' = jour + 1 /\ UNCHANGED <<objets, pieces, connu, reclamation, cycle, errantes>>
      /\ \A d \in Appareils : jour - reclamation[d] < Cadence
      /\ \A r \in errantes : r.type = "push" => jour - r.jour < Cadence
  BY DEF Avancer, serveur, tables
<1>2. /\ Types /\ jour \in Nat /\ Cadence \in Nat
      /\ \A d \in Appareils : reclamation[d] \in Nat /\ cycle[d].jour \in Nat
      /\ \A r \in errantes : r.type = "push" => r.jour \in Nat
  BY RangDe, CycleDe, DemandeDe DEF Rangs, Types, TypesServeur, Nombres
<1>3. \A d \in Appareils : DelaiTenu(d)'
  BY <1>1, <1>2 DEF Temps, DelaiTenu
<1>4. \A d \in Appareils : LotTenu(d)'
  BY <1>1 DEF Temps, LotTenu, AJour
<1>5. \A d \in Appareils, o \in Ids : ObjetTenu(d, o)'
  BY <1>1 DEF Temps, ObjetTenu, Echeance, Sue, AJour
<1>6. \A r \in errantes : PousseeTenue(r)'
  BY <1>1, <1>2 DEF Temps, PousseeTenue
<1> QED
  BY <1>1, <1>3, <1>4, <1>5, <1>6 DEF Temps

LEMMA TempsReste ==
  ASSUME Rangs, Rangs', Progres, Nombres, Suivi, Temps, [Next]_vars
  PROVE  Temps'
<1>0. /\ Types /\ \A d \in Appareils : AppareilJuste(d) /\ MarquesLibres(d)
      /\ \A r \in errantes : r \in Demandes /\ PousseeJuste(r) /\ PousseeTenue(r)
      /\ \A d \in Appareils : DelaiTenu(d) /\ LotTenu(d) /\ \A o \in Ids : ObjetTenu(d, o)
  BY DEF Rangs, Lignes, Types, Temps
<1>1. ASSUME NEW d \in Appareils, Etape(d)
      PROVE  Temps'
  <2>1. TempsApres(d) /\ UNCHANGED <<jour, errantes>>
    BY <1>1, EtapeTemps
  <2>2. \A x \in Appareils \ {d} : MemeAppareil(x)
    BY <1>0, <1>1, EtapeJuste DEF Poursuit
  <2> QED
    BY <2>1, <2>2, UnAppareil
<1>2. ASSUME NEW d \in Appareils, NEW r \in Requetes(d), Perdre(d, r)
      PROVE  Temps'
  <2>1. TempsApres(d) /\ \A q \in errantes' : q \in errantes \/ PousseeTenue(q)'
    BY <1>0, <1>2, PerdreTemps DEF Rangs
  <2>2. /\ \A x \in Appareils \ {d} : MemeAppareil(x)
        /\ jour' = jour
    BY <1>0, <1>2, PerdreJuste DEF Perdre
  <2> QED
    BY <2>1, <2>2, UnAppareil
<1>3. ASSUME NEW d \in Appareils, Mourir(d)
      PROVE  Temps'
  <2>1. TempsApres(d)
    BY <1>0, <1>3, EtapeSeuleTemps DEF Rangs
  <2>2. /\ UNCHANGED <<serveur, jour, errantes>> /\ cycle' = [cycle EXCEPT ![d] = Repos]
        /\ UNCHANGED <<locale, trous, connu, plancher, refs, connues, curseur, reclamation>>
    BY <1>3 DEF Mourir, magasin, tables
  <2>3. \A x \in Appareils \ {d} : MemeAppareil(x)
    BY <1>0, <2>2, ReposJuste
  <2> QED
    BY <2>1, <2>2, <2>3, UnAppareil
<1>4. ASSUME NEW r \in errantes, ServirErrante(r)
      PROVE  Temps'
  <2>1. /\ Servir(r) /\ jour' = jour /\ UNCHANGED <<connu, reclamation, cycle>>
        /\ errantes' \subseteq errantes
    BY <1>4 DEF ServirErrante, autour, tables
  <2>2. PiecesTenues /\ ObjetsPrevus
    BY <1>0, <2>1, PousseePrevue
  <2> QED
    BY <2>1, <2>2, AucunAppareil
<1>5. ASSUME UNCHANGED <<connu, reclamation, cycle, objets, pieces, jour, errantes>>
      PROVE  Temps'
  BY <1>5, ServeurImmobile, AucunAppareil
<1>6. ASSUME NEW d \in Appareils, Tourner(d)
      PROVE  UNCHANGED <<connu, reclamation, cycle, objets, pieces, jour, errantes>>
  BY <1>6 DEF Tourner, tables
<1>7. ASSUME NEW d \in Appareils, NEW o \in Ids,
             Supprimer(d, o) \/ \E im \in [Images -> {Absent, Sans, Pleine}] : Ecrire(d, o, im)
      PROVE  UNCHANGED <<connu, reclamation, cycle, objets, pieces, jour, errantes>>
  BY <1>7 DEF Supprimer, Ecrire, tables, serveur
<1>8. UNCHANGED vars => UNCHANGED <<connu, reclamation, cycle, objets, pieces, jour, errantes>>
  BY DEF vars, tables, serveur, autour
<1> QED
  BY <1>1, <1>2, <1>3, <1>4, <1>5, <1>6, <1>7, <1>8, AvancerTemps
  DEF Next, Utilisateur, Pannes

LEMMA InitTemps ==
  ASSUME Nombres, Init
  PROVE  Temps
<1>1. PICK envoyees \in SUBSET Images, n \in [Ids -> 1..Cardinality(Ids)] : Depart(envoyees, n)
  BY DEF Init
<1> DEFINE sue == Vivante(0, [k \in Images |-> IF k \in envoyees THEN Pleine ELSE Absent])
           scelle == Detachee(sue, 1)
<1>2. /\ connu = [d \in Appareils |-> [o \in Ids |-> [rev |-> 1, forme |-> sue]]]
      /\ pieces = [p \in Pieces |->
           IF p \in References(scelle) THEN [reclame |-> 1, orpheline |-> Rien] ELSE Rien]
      /\ objets = [o \in Ids |-> [rev |-> 1, seq |-> n[o], epoque |-> 1, forme |-> scelle]]
  BY <1>1 DEF Depart
<1> HIDE DEF sue, scelle
<1>3. /\ cycle = [d \in Appareils |-> Repos] /\ reclamation = [d \in Appareils |-> 0]
      /\ jour = 0 /\ errantes = {}
  BY DEF Init
<1>4. \A d \in Appareils : DelaiTenu(d) /\ LotTenu(d)
  BY <1>3, ReposType DEF Nombres, DelaiTenu, LotTenu
<1>5. \A d \in Appareils, o \in Ids : ObjetTenu(d, o)
  <2>1. [reclame |-> 1, orpheline |-> Rien] # Rien
    BY RienHors DEF Rangees
  <2>2. \A o \in Ids : References(objets[o].forme) \subseteq Pieces
                       /\ objets[o].forme = scelle
    BY <1>2 DEF References
  <2> QED
    BY <1>2, <2>1, <2>2 DEF ObjetTenu, Protege
<1> QED
  BY <1>3, <1>4, <1>5 DEF Temps

\* Every image that a conversation of the server refers to is on the server, if the
\* purge waits at least four times as long as a device may go without a complete claim:
\* what a device marks, another that refers to it claims in time (routes_pieces.py,
\* _reclamer_pieces).
THEOREM ImagesReferenced ==
  ASSUME 4 * Cadence <= Retenue
  PROVE  Spec => []ImageReferencee
<1> DEFINE I == Rangs /\ Listes /\ Suivi /\ Temps
<1>0. Nombres
  BY ImagesNumbers DEF Nombres
<1>1. Init => I
  BY <1>0, InitRangs, InitListes, InitSuivi, InitTemps
<1>2. I /\ [Next]_vars => I'
  BY <1>0, RangsTiennent, ListesTiennent, SuiviReste, TempsReste
<1>3. I => ImageReferencee
  BY ImagesNumbers DEF Temps, ObjetTenu, Protege, ImageReferencee
<1> QED
  BY <1>1, <1>2, <1>3, PTL DEF Spec
===============================================================================
