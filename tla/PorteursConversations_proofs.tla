--------------------- MODULE PorteursConversations_proofs ---------------------
(***************************************************************************)
(* What the holders of copies keep, for any set of holders, of messages    *)
(* and of copies: no join truncates a message (RienDeTronque), a copy that *)
(* comes again changes nothing (RedonnerSansEffet), and two holders of the *)
(* same copies have the same messages (MemesMessages).                     *)
(*                                                                         *)
(* The copy of a holder is an upper bound of what reached it, in the order *)
(* of the join, and each of its parts was in one of those copies           *)
(* (Absorbe).  Everything rests on the join of two upper bounds being one  *)
(* (FusionAbsorbe), which holds because the lexicographic comparison is a  *)
(* total preorder and because the rank of a join is not below the rank of  *)
(* either copy.                                                            *)
(***************************************************************************)
EXTENDS PorteursConversations, FiniteSetTheorems, TLAPS

-----------------------------------------------------------------------------
(* The lexicographic comparison of the two tuples the join compares.       *)

\* The comparison of three numbers, spelt out.
LEMMA LexicoTrois ==
  ASSUME NEW a \in Int, NEW b \in Int, NEW c \in Int,
         NEW d \in Int, NEW e \in Int, NEW f \in Int
  PROVE  AuMoins(<<a, b, c>>, <<d, e, f>>) <=>
           /\ a >= d
           /\ b >= e \/ a > d
           /\ c >= f \/ a > d \/ b > e
<1> DEFINE s == <<a, b, c>>
           t == <<d, e, f>>
<1>1. /\ DOMAIN s = 1..3
      /\ s[1] = a /\ s[2] = b /\ s[3] = c /\ t[1] = d /\ t[2] = e /\ t[3] = f
  OBVIOUS
<1>2. \A n \in 1..3 : n = 1 \/ n = 2 \/ n = 3
  OBVIOUS
<1>3. 1..(1 - 1) = {} /\ 1..(2 - 1) = {1} /\ 1..(3 - 1) = {1, 2}
  OBVIOUS
<1> HIDE DEF s, t
<1>4. AuMoins(s, t) <=>
        /\ s[1] < t[1] => \E j \in 1..(1 - 1) : s[j] > t[j]
        /\ s[2] < t[2] => \E j \in 1..(2 - 1) : s[j] > t[j]
        /\ s[3] < t[3] => \E j \in 1..(3 - 1) : s[j] > t[j]
  BY <1>1, <1>2 DEF AuMoins
<1>5. AuMoins(s, t) <=>
        /\ ~ (s[1] < t[1])
        /\ s[2] < t[2] => s[1] > t[1]
        /\ s[3] < t[3] => s[1] > t[1] \/ s[2] > t[2]
  BY <1>3, <1>4
<1>6. QED
  BY <1>1, <1>5 DEF s, t

\* The comparison of five numbers, spelt out.
LEMMA LexicoCinq ==
  ASSUME NEW s, NEW t, DOMAIN s = 1..5,
         \A i \in 1..5 : s[i] \in Int /\ t[i] \in Int
  PROVE  AuMoins(s, t) <=>
           /\ s[1] >= t[1]
           /\ s[2] >= t[2] \/ s[1] > t[1]
           /\ s[3] >= t[3] \/ s[1] > t[1] \/ s[2] > t[2]
           /\ s[4] >= t[4] \/ s[1] > t[1] \/ s[2] > t[2] \/ s[3] > t[3]
           /\ s[5] >= t[5] \/ s[1] > t[1] \/ s[2] > t[2] \/ s[3] > t[3]
                           \/ s[4] > t[4]
<1>1. \A n \in 1..5 : n = 1 \/ n = 2 \/ n = 3 \/ n = 4 \/ n = 5
  OBVIOUS
<1>2. /\ 1..(1 - 1) = {} /\ 1..(2 - 1) = {1} /\ 1..(3 - 1) = {1, 2}
      /\ 1..(4 - 1) = {1, 2, 3} /\ 1..(5 - 1) = {1, 2, 3, 4}
  OBVIOUS
<1>3. AuMoins(s, t) <=>
        /\ s[1] < t[1] => \E j \in 1..(1 - 1) : s[j] > t[j]
        /\ s[2] < t[2] => \E j \in 1..(2 - 1) : s[j] > t[j]
        /\ s[3] < t[3] => \E j \in 1..(3 - 1) : s[j] > t[j]
        /\ s[4] < t[4] => \E j \in 1..(4 - 1) : s[j] > t[j]
        /\ s[5] < t[5] => \E j \in 1..(5 - 1) : s[j] > t[j]
  BY <1>1 DEF AuMoins
<1>4. AuMoins(s, t) <=>
        /\ ~ (s[1] < t[1])
        /\ s[2] < t[2] => s[1] > t[1]
        /\ s[3] < t[3] => s[1] > t[1] \/ s[2] > t[2]
        /\ s[4] < t[4] => s[1] > t[1] \/ s[2] > t[2] \/ s[3] > t[3]
        /\ s[5] < t[5] => s[1] > t[1] \/ s[2] > t[2] \/ s[3] > t[3]
                                      \/ s[4] > t[4]
  BY <1>2, <1>3
<1>5. /\ s[1] \in Int /\ s[2] \in Int /\ s[3] \in Int /\ s[4] \in Int
      /\ s[5] \in Int /\ t[1] \in Int /\ t[2] \in Int /\ t[3] \in Int
      /\ t[4] \in Int /\ t[5] \in Int
  OBVIOUS
<1>6. QED
  BY <1>4, <1>5

\* m is at least as complete as n.
AussiComplet(m, n) == AuMoins(Completude(m), Completude(n))

\* Completeness is a total preorder of the versions, and two versions that are
\* each as complete as the other compare equal in all that is compared.
LEMMA CompletPreordre ==
  ASSUME NEW m \in Versions, NEW n \in Versions
  PROVE  /\ AussiComplet(m, m)
         /\ AussiComplet(m, n) \/ AussiComplet(n, m)
         /\ AussiComplet(m, n) /\ AussiComplet(n, m)
              => Completude(m) = Completude(n)
         /\ \A o \in Versions :
              AussiComplet(m, n) /\ AussiComplet(n, o) => AussiComplet(m, o)
<1>1. \A u, v \in Versions :
        AussiComplet(u, v) <=>
          /\ u.longueur >= v.longueur
          /\ u.champs >= v.champs \/ u.longueur > v.longueur
          /\ u.texte >= v.texte \/ u.longueur > v.longueur
                                \/ u.champs > v.champs
  <2>1. TAKE u, v \in Versions
  <2>2. /\ u.longueur \in Int /\ u.champs \in Int /\ u.texte \in Int
        /\ v.longueur \in Int /\ v.champs \in Int /\ v.texte \in Int
    BY DEF Versions
  <2>3. QED
    BY <2>2, LexicoTrois DEF AussiComplet, Completude
<1>2. \A u \in Versions : u.longueur \in Nat /\ u.champs \in Nat /\ u.texte \in Nat
  BY DEF Versions
<1>3. AussiComplet(m, m)
  BY <1>1, <1>2
<1>4. AussiComplet(m, n) \/ AussiComplet(n, m)
  BY <1>1, <1>2
<1>5. AussiComplet(m, n) /\ AussiComplet(n, m)
        => Completude(m) = Completude(n)
  <2>1. AussiComplet(m, n) /\ AussiComplet(n, m)
          => m.longueur = n.longueur /\ m.champs = n.champs /\ m.texte = n.texte
    BY <1>1, <1>2
  <2>2. QED
    BY <2>1 DEF Completude
<1>6. \A o \in Versions :
        AussiComplet(m, n) /\ AussiComplet(n, o) => AussiComplet(m, o)
  BY <1>1, <1>2
<1>7. QED
  BY <1>3, <1>4, <1>5, <1>6

-----------------------------------------------------------------------------
(* The join of two copies.                                                 *)

\* The conversations a list of messages can hold.
Finies == {c \in Conversations : IsFiniteSet(Presents(c))}

\* The fields of a conversation have their types.
LEMMA ConversationEst ==
  ASSUME NEW c \in Conversations
  PROVE  /\ c.title \in Nat /\ c.createdAt \in Nat /\ c.updatedAt \in Nat
         /\ c.model \in Nat /\ c.pinned \in BOOLEAN
         /\ c.messages \in [Cles -> Versions \cup {Rien}]
         /\ \A k \in Cles : c.messages[k] \in Versions \cup {Rien}
BY DEF Conversations

\* The rank of a finite conversation is five integers.
LEMMA RangEst ==
  ASSUME NEW c \in Finies
  PROVE  /\ Cardinality(Presents(c)) \in Nat
         /\ (IF c.pinned THEN 1 ELSE 0) \in Int
BY FS_CardinalityType DEF Finies

\* The comparison of two ranks, spelt out.
LEMMA PrimeEst ==
  ASSUME NEW a \in Finies, NEW b \in Finies
  PROVE  LET x == Cardinality(Presents(a))
             y == Cardinality(Presents(b))
             u == IF a.pinned THEN 1 ELSE 0
             v == IF b.pinned THEN 1 ELSE 0
             avant == a.updatedAt > b.updatedAt \/ x > y
         IN  Prime(a, b) <=>
               /\ a.updatedAt >= b.updatedAt
               /\ x >= y \/ a.updatedAt > b.updatedAt
               /\ a.title >= b.title \/ avant
               /\ u >= v \/ avant \/ a.title > b.title
               /\ a.model >= b.model \/ avant \/ a.title > b.title \/ u > v
<1>1. a \in Conversations /\ b \in Conversations
  BY DEF Finies
<1>2. /\ a.updatedAt \in Int /\ a.title \in Int /\ a.model \in Int
      /\ b.updatedAt \in Int /\ b.title \in Int /\ b.model \in Int
  BY <1>1, ConversationEst
<1>3. /\ Cardinality(Presents(a)) \in Int /\ Cardinality(Presents(b)) \in Int
      /\ (IF a.pinned THEN 1 ELSE 0) \in Int
      /\ (IF b.pinned THEN 1 ELSE 0) \in Int
  BY RangEst
<1> DEFINE x == Cardinality(Presents(a))
           y == Cardinality(Presents(b))
           u == IF a.pinned THEN 1 ELSE 0
           v == IF b.pinned THEN 1 ELSE 0
<1>4. Prime(a, b) <=> AuMoins(<<a.updatedAt, x, a.title, u, a.model>>,
                              <<b.updatedAt, y, b.title, v, b.model>>)
  BY DEF Prime, Rang
<1>5. x \in Int /\ y \in Int /\ u \in Int /\ v \in Int
  BY <1>3
<1> HIDE DEF x, y, u, v
<1>6. AuMoins(<<a.updatedAt, x, a.title, u, a.model>>,
              <<b.updatedAt, y, b.title, v, b.model>>) <=>
        /\ a.updatedAt >= b.updatedAt
        /\ x >= y \/ a.updatedAt > b.updatedAt
        /\ a.title >= b.title \/ a.updatedAt > b.updatedAt \/ x > y
        /\ u >= v \/ a.updatedAt > b.updatedAt \/ x > y \/ a.title > b.title
        /\ a.model >= b.model \/ a.updatedAt > b.updatedAt \/ x > y
             \/ a.title > b.title \/ u > v
  <2> DEFINE s == <<a.updatedAt, x, a.title, u, a.model>>
             t == <<b.updatedAt, y, b.title, v, b.model>>
  <2>1. /\ DOMAIN s = 1..5
        /\ s[1] = a.updatedAt /\ s[2] = x /\ s[3] = a.title /\ s[4] = u
        /\ s[5] = a.model
        /\ t[1] = b.updatedAt /\ t[2] = y /\ t[3] = b.title /\ t[4] = v
        /\ t[5] = b.model
    OBVIOUS
  <2> HIDE DEF s, t
  <2>2. \A i \in 1..5 : s[i] \in Int /\ t[i] \in Int
    <3>1. \A i \in 1..5 : i = 1 \/ i = 2 \/ i = 3 \/ i = 4 \/ i = 5
      OBVIOUS
    <3>2. QED
      BY <1>2, <1>5, <2>1, <3>1
  <2>3. AuMoins(s, t) <=>
          /\ s[1] >= t[1]
          /\ s[2] >= t[2] \/ s[1] > t[1]
          /\ s[3] >= t[3] \/ s[1] > t[1] \/ s[2] > t[2]
          /\ s[4] >= t[4] \/ s[1] > t[1] \/ s[2] > t[2] \/ s[3] > t[3]
          /\ s[5] >= t[5] \/ s[1] > t[1] \/ s[2] > t[2] \/ s[3] > t[3]
                          \/ s[4] > t[4]
    BY <2>1, <2>2, LexicoCinq
  <2>4. AuMoins(s, t) <=>
        /\ a.updatedAt >= b.updatedAt
        /\ x >= y \/ a.updatedAt > b.updatedAt
        /\ a.title >= b.title \/ a.updatedAt > b.updatedAt \/ x > y
        /\ u >= v \/ a.updatedAt > b.updatedAt \/ x > y \/ a.title > b.title
        /\ a.model >= b.model \/ a.updatedAt > b.updatedAt \/ x > y
             \/ a.title > b.title \/ u > v
    BY <2>1, <2>3
  <2>5. QED
    BY <2>4 DEF s, t
<1>7. Prime(a, b) <=>
        /\ a.updatedAt >= b.updatedAt
        /\ x >= y \/ a.updatedAt > b.updatedAt
        /\ a.title >= b.title \/ (a.updatedAt > b.updatedAt \/ x > y)
        /\ u >= v \/ (a.updatedAt > b.updatedAt \/ x > y) \/ a.title > b.title
        /\ a.model >= b.model \/ (a.updatedAt > b.updatedAt \/ x > y)
             \/ a.title > b.title \/ u > v
  BY <1>4, <1>6
<1>8. QED
  BY <1>7 DEF x, y, u, v

\* The order of the ranks is a total preorder.
LEMMA PrimePreordre ==
  ASSUME NEW a \in Finies, NEW b \in Finies, NEW c \in Finies
  PROVE  /\ Prime(a, a)
         /\ Prime(a, b) \/ Prime(b, a)
         /\ Prime(a, b) /\ Prime(b, c) => Prime(a, c)
<1>1. a \in Conversations /\ b \in Conversations /\ c \in Conversations
  BY DEF Finies
<1> DEFINE x(d) == Cardinality(Presents(d))
           u(d) == IF d.pinned THEN 1 ELSE 0
           Avant(d, e) ==
             /\ d.updatedAt >= e.updatedAt
             /\ x(d) >= x(e) \/ d.updatedAt > e.updatedAt
             /\ \/ d.title >= e.title
                \/ d.updatedAt > e.updatedAt \/ x(d) > x(e)
             /\ \/ u(d) >= u(e)
                \/ d.updatedAt > e.updatedAt \/ x(d) > x(e)
                \/ d.title > e.title
             /\ \/ d.model >= e.model
                \/ d.updatedAt > e.updatedAt \/ x(d) > x(e)
                \/ d.title > e.title \/ u(d) > u(e)
<1>2. \A d, e \in Finies : Prime(d, e) <=> Avant(d, e)
  <2>1. TAKE d, e \in Finies
  <2>2. QED
    BY PrimeEst
<1>3. \A d \in {a, b, c} : /\ x(d) \in Int /\ u(d) \in Int
                           /\ d.updatedAt \in Int /\ d.title \in Int
                           /\ d.model \in Int
  BY <1>1, RangEst, ConversationEst
<1> HIDE DEF x, u
<1>4. Avant(a, a)
  BY <1>3
<1>5. Avant(a, b) \/ Avant(b, a)
  BY <1>3
<1>6. Avant(a, b) /\ Avant(b, c) => Avant(a, c)
  BY <1>3
<1>7. QED
  BY <1>2, <1>4, <1>5, <1>6

\* The better of two versions is one of them, and at least as complete as both.
LEMMA MeilleurEst ==
  ASSUME NEW m \in Versions, NEW n \in Versions
  PROVE  /\ Meilleur(m, n) \in {m, n}
         /\ AussiComplet(Meilleur(m, n), m)
         /\ AussiComplet(Meilleur(m, n), n)
         /\ AussiComplet(m, n) => Meilleur(m, n) = m
<1>1. /\ AussiComplet(m, m) /\ AussiComplet(n, n)
      /\ AussiComplet(m, n) \/ AussiComplet(n, m)
  BY CompletPreordre
<1>2. Meilleur(m, n) = IF AussiComplet(m, n) THEN m ELSE n
  BY DEF Meilleur, AussiComplet
<1>3. QED
  BY <1>1, <1>2

\* f holds every message of c, at least as completely.
Couvre(f, c) ==
  \A k \in Cles : c.messages[k] # Rien =>
    f.messages[k] # Rien /\ AussiComplet(f.messages[k], c.messages[k])

\* Joining two lists of messages: every message of either is there, at least as
\* complete, in a version one of them had.
LEMMA FusionnerMessagesEst ==
  ASSUME NEW a \in [Cles -> Versions \cup {Rien}],
         NEW b \in [Cles -> Versions \cup {Rien}]
  PROVE  LET f == FusionnerMessages(a, b) IN
         /\ f \in [Cles -> Versions \cup {Rien}]
         /\ \A k \in Cles :
              /\ a[k] # Rien => f[k] # Rien /\ AussiComplet(f[k], a[k])
              /\ b[k] # Rien => f[k] # Rien /\ AussiComplet(f[k], b[k])
              /\ f[k] \in {a[k], b[k]}
<1> DEFINE f == FusionnerMessages(a, b)
<1>1. \A k \in Cles : f[k] = IF a[k] = Rien THEN b[k]
                             ELSE IF b[k] = Rien THEN a[k]
                             ELSE Meilleur(a[k], b[k])
  BY DEF FusionnerMessages
<1>2. \A k \in Cles :
        /\ a[k] # Rien => f[k] # Rien /\ AussiComplet(f[k], a[k])
        /\ b[k] # Rien => f[k] # Rien /\ AussiComplet(f[k], b[k])
        /\ f[k] \in {a[k], b[k]}
  <2>1. TAKE k \in Cles
  <2>2. a[k] \in Versions \cup {Rien} /\ b[k] \in Versions \cup {Rien}
    OBVIOUS
  <2>3. CASE a[k] = Rien /\ b[k] = Rien
    BY <1>1, <2>3
  <2>4. CASE a[k] = Rien /\ b[k] \in Versions
    BY <1>1, <2>4, RienIsNoVersion, CompletPreordre
  <2>5. CASE a[k] \in Versions /\ b[k] = Rien
    BY <1>1, <2>5, RienIsNoVersion, CompletPreordre
  <2>6. CASE a[k] \in Versions /\ b[k] \in Versions
    <3>1. f[k] = Meilleur(a[k], b[k])
      BY <1>1, <2>6, RienIsNoVersion
    <3>2. QED
      BY <2>6, <3>1, RienIsNoVersion, MeilleurEst
  <2>7. QED
    BY <2>2, <2>3, <2>4, <2>5, <2>6
<1>3. f = [k \in Cles |-> f[k]]
  BY <1>1 DEF FusionnerMessages
<1>4. f \in [Cles -> Versions \cup {Rien}]
  <2>1. \A k \in Cles : f[k] \in Versions \cup {Rien}
    BY <1>2
  <2> HIDE DEF f
  <2>2. QED
    BY <1>3, <2>1
<1>5. QED
  BY <1>2, <1>4

\* The messages of the loser add nothing to messages that cover them.
LEMMA FusionnerRien ==
  ASSUME NEW a \in [Cles -> Versions \cup {Rien}],
         NEW b \in [Cles -> Versions \cup {Rien}],
         \A k \in Cles : b[k] # Rien => a[k] # Rien /\ AussiComplet(a[k], b[k])
  PROVE  FusionnerMessages(a, b) = a
<1>1. \A k \in Cles : FusionnerMessages(a, b)[k] = a[k]
  <2>1. TAKE k \in Cles
  <2>2. FusionnerMessages(a, b)[k] = IF a[k] = Rien THEN b[k]
                                     ELSE IF b[k] = Rien THEN a[k]
                                     ELSE Meilleur(a[k], b[k])
    BY DEF FusionnerMessages
  <2>3. CASE a[k] = Rien \/ b[k] = Rien
    BY <2>2, <2>3
  <2>4. CASE a[k] # Rien /\ b[k] # Rien
    <3>1. a[k] \in Versions /\ b[k] \in Versions
      BY <2>4
    <3>2. Meilleur(a[k], b[k]) = a[k]
      BY <2>4, <3>1, MeilleurEst
    <3>3. QED
      BY <2>2, <2>4, <3>2
  <2>5. QED
    BY <2>3, <2>4
<1>2. QED
  BY <1>1 DEF FusionnerMessages

\* A copy with the metadata of the winner and no message fewer is not ranked
\* below it.
LEMMA PrimeVainqueur ==
  ASSUME NEW f \in Finies, NEW g \in Finies,
         f.title = g.title, f.pinned = g.pinned, f.model = g.model,
         f.updatedAt = g.updatedAt, Presents(g) \subseteq Presents(f)
  PROVE  Prime(f, g)
<1>1. /\ f.updatedAt \in Nat /\ f.title \in Nat /\ f.model \in Nat
      /\ g.updatedAt \in Nat /\ g.title \in Nat /\ g.model \in Nat
  BY ConversationEst DEF Finies
<1>2. Cardinality(Presents(g)) <= Cardinality(Presents(f))
  BY FS_Subset DEF Finies
<1>3. /\ Cardinality(Presents(f)) \in Nat /\ Cardinality(Presents(g)) \in Nat
      /\ (IF f.pinned THEN 1 ELSE 0) \in Int
      /\ (IF g.pinned THEN 1 ELSE 0) = (IF f.pinned THEN 1 ELSE 0)
  BY RangEst
<1> DEFINE x == Cardinality(Presents(f))
           y == Cardinality(Presents(g))
           u == IF f.pinned THEN 1 ELSE 0
           v == IF g.pinned THEN 1 ELSE 0
<1>4. Prime(f, g) <=>
        /\ f.updatedAt >= g.updatedAt
        /\ x >= y \/ f.updatedAt > g.updatedAt
        /\ f.title >= g.title \/ (f.updatedAt > g.updatedAt \/ x > y)
        /\ u >= v \/ (f.updatedAt > g.updatedAt \/ x > y) \/ f.title > g.title
        /\ f.model >= g.model \/ (f.updatedAt > g.updatedAt \/ x > y)
             \/ f.title > g.title \/ u > v
  BY PrimeEst
<1>5. x \in Nat /\ y \in Nat /\ y <= x /\ u \in Int /\ v = u
  BY <1>2, <1>3
<1> HIDE DEF x, y, u, v
<1>6. QED
  BY <1>1, <1>4, <1>5

\* f takes from a and b nothing but their values, and is an upper bound of both.
Joint(f, a, b) ==
  /\ f \in Finies
  /\ Prime(f, a) /\ Prime(f, b)
  /\ Couvre(f, a) /\ Couvre(f, b)
  /\ f.createdAt <= a.createdAt /\ f.createdAt <= b.createdAt
  /\ f.createdAt \in {a.createdAt, b.createdAt}
  /\ f.updatedAt >= a.updatedAt /\ f.updatedAt >= b.updatedAt
  /\ f.updatedAt \in {a.updatedAt, b.updatedAt}
  /\ \A k \in Cles : f.messages[k] \in {a.messages[k], b.messages[k]}

\* The join of a winner and a loser is an upper bound of both.
LEMMA JointVainqueur ==
  ASSUME NEW g \in Finies, NEW p \in Finies, Prime(g, p), NEW f,
         f = [title     |-> g.title,
              createdAt |-> IF g.createdAt <= p.createdAt THEN g.createdAt
                                                          ELSE p.createdAt,
              updatedAt |-> IF g.updatedAt >= p.updatedAt THEN g.updatedAt
                                                          ELSE p.updatedAt,
              model     |-> g.model,
              pinned    |-> g.pinned,
              messages  |-> FusionnerMessages(g.messages, p.messages)]
  PROVE  Joint(f, g, p)
<1>1. /\ g \in Conversations /\ p \in Conversations
      /\ IsFiniteSet(Presents(g)) /\ IsFiniteSet(Presents(p))
  BY DEF Finies
<1>2. /\ g.messages \in [Cles -> Versions \cup {Rien}]
      /\ p.messages \in [Cles -> Versions \cup {Rien}]
      /\ g.updatedAt \in Nat /\ p.updatedAt \in Nat
      /\ g.createdAt \in Nat /\ p.createdAt \in Nat
      /\ g.title \in Nat /\ g.model \in Nat /\ g.pinned \in BOOLEAN
  BY <1>1, ConversationEst
<1>3. /\ f.messages \in [Cles -> Versions \cup {Rien}]
      /\ \A k \in Cles :
           /\ g.messages[k] # Rien =>
                f.messages[k] # Rien /\ AussiComplet(f.messages[k], g.messages[k])
           /\ p.messages[k] # Rien =>
                f.messages[k] # Rien /\ AussiComplet(f.messages[k], p.messages[k])
           /\ f.messages[k] \in {g.messages[k], p.messages[k]}
  <2>1. f.messages = FusionnerMessages(g.messages, p.messages)
    OBVIOUS
  <2>2. QED
    BY <1>2, <2>1, FusionnerMessagesEst
<1>4. /\ f.title = g.title /\ f.pinned = g.pinned /\ f.model = g.model
      /\ f.createdAt <= g.createdAt /\ f.createdAt <= p.createdAt
      /\ f.createdAt \in {g.createdAt, p.createdAt}
      /\ f.updatedAt >= g.updatedAt /\ f.updatedAt >= p.updatedAt
      /\ f.updatedAt \in {g.updatedAt, p.updatedAt}
  BY <1>2
<1>5. f \in Conversations
  BY <1>2, <1>3 DEF Conversations
<1>6. Presents(f) = Presents(g) \cup Presents(p)
  BY <1>3 DEF Presents
<1>7. f \in Finies
  BY <1>1, <1>5, <1>6, FS_Union DEF Finies
<1>8. Prime(f, g)
  <2>1. g.updatedAt >= p.updatedAt
    BY PrimeEst
  <2>2. f.updatedAt = g.updatedAt
    BY <1>2, <2>1
  <2>3. Presents(g) \subseteq Presents(f)
    BY <1>6
  <2>4. QED
    BY <1>4, <1>7, <2>2, <2>3, PrimeVainqueur
<1>9. Prime(f, p)
  BY <1>7, <1>8, PrimePreordre
<1>10. Couvre(f, g) /\ Couvre(f, p)
  BY <1>3 DEF Couvre
<1>11. \A k \in Cles : f.messages[k] \in {g.messages[k], p.messages[k]}
  BY <1>3
<1>12. QED
  BY <1>4, <1>7, <1>8, <1>9, <1>10, <1>11 DEF Joint

\* The join of two copies is an upper bound of both, whichever wins.
LEMMA FusionJoint ==
  ASSUME NEW a \in Finies, NEW b \in Finies
  PROVE  Joint(Fusion(a, b), a, b)
<1>1. a \in Conversations /\ b \in Conversations
  BY DEF Finies
<1>2. /\ a.createdAt \in Nat /\ b.createdAt \in Nat
      /\ a.updatedAt \in Nat /\ b.updatedAt \in Nat
  BY <1>1, ConversationEst
<1>3. CASE Prime(a, b)
  <2>1. Fusion(a, b) =
          [title     |-> a.title,
           createdAt |-> IF a.createdAt <= b.createdAt THEN a.createdAt
                                                       ELSE b.createdAt,
           updatedAt |-> IF a.updatedAt >= b.updatedAt THEN a.updatedAt
                                                       ELSE b.updatedAt,
           model     |-> a.model,
           pinned    |-> a.pinned,
           messages  |-> FusionnerMessages(a.messages, b.messages)]
    BY <1>3 DEF Fusion
  <2>2. QED
    BY <1>3, <2>1, JointVainqueur
<1>4. CASE ~ Prime(a, b)
  <2>1. Fusion(a, b) =
          [title     |-> b.title,
           createdAt |-> IF a.createdAt <= b.createdAt THEN a.createdAt
                                                       ELSE b.createdAt,
           updatedAt |-> IF a.updatedAt >= b.updatedAt THEN a.updatedAt
                                                       ELSE b.updatedAt,
           model     |-> b.model,
           pinned    |-> b.pinned,
           messages  |-> FusionnerMessages(b.messages, a.messages)]
    BY <1>4 DEF Fusion
  <2>2. /\ (IF a.createdAt <= b.createdAt THEN a.createdAt ELSE b.createdAt)
             = IF b.createdAt <= a.createdAt THEN b.createdAt ELSE a.createdAt
        /\ (IF a.updatedAt >= b.updatedAt THEN a.updatedAt ELSE b.updatedAt)
             = IF b.updatedAt >= a.updatedAt THEN b.updatedAt ELSE a.updatedAt
    BY <1>2
  <2>3. Fusion(a, b) =
          [title     |-> b.title,
           createdAt |-> IF b.createdAt <= a.createdAt THEN b.createdAt
                                                       ELSE a.createdAt,
           updatedAt |-> IF b.updatedAt >= a.updatedAt THEN b.updatedAt
                                                       ELSE a.updatedAt,
           model     |-> b.model,
           pinned    |-> b.pinned,
           messages  |-> FusionnerMessages(b.messages, a.messages)]
    BY <2>1, <2>2
  <2>4. Prime(b, a)
    BY <1>4, PrimePreordre
  <2>5. Joint(Fusion(a, b), b, a)
    BY <2>3, <2>4, JointVainqueur
  <2>6. QED
    BY <2>5 DEF Joint
<1>5. QED
  BY <1>3, <1>4

-----------------------------------------------------------------------------
(* What a holder's copy owes to the copies that reached it.                *)

\* a is an upper bound of c.
AuDessus(a, c) ==
  /\ Prime(a, c)
  /\ Couvre(a, c)
  /\ a.createdAt <= c.createdAt
  /\ a.updatedAt >= c.updatedAt

\* a is an upper bound of the copies of S, and made of their values.
Absorbe(a, S) ==
  /\ a \in Finies
  /\ S \subseteq Finies
  /\ \A c \in S : AuDessus(a, c)
  /\ \E c \in S : a.createdAt = c.createdAt
  /\ \E c \in S : a.updatedAt = c.updatedAt
  /\ \A k \in Cles : a.messages[k] # Rien =>
       \E c \in S : a.messages[k] = c.messages[k]

\* Upper bounds compose.
LEMMA AuDessusTransitif ==
  ASSUME NEW a \in Finies, NEW b \in Finies, NEW c \in Finies,
         AuDessus(a, b), AuDessus(b, c)
  PROVE  AuDessus(a, c)
<1>1. a \in Conversations /\ b \in Conversations /\ c \in Conversations
  BY DEF Finies
<1>2. /\ a.createdAt \in Nat /\ b.createdAt \in Nat /\ c.createdAt \in Nat
      /\ a.updatedAt \in Nat /\ b.updatedAt \in Nat /\ c.updatedAt \in Nat
  BY <1>1, ConversationEst
<1>3. Prime(a, c)
  BY PrimePreordre DEF AuDessus
<1>4. Couvre(a, c)
  <2>1. SUFFICES ASSUME NEW k \in Cles, c.messages[k] # Rien
                 PROVE  a.messages[k] # Rien
                        /\ AussiComplet(a.messages[k], c.messages[k])
    BY DEF Couvre
  <2>2. b.messages[k] # Rien /\ AussiComplet(b.messages[k], c.messages[k])
    BY <2>1 DEF AuDessus, Couvre
  <2>3. a.messages[k] # Rien /\ AussiComplet(a.messages[k], b.messages[k])
    BY <2>2 DEF AuDessus, Couvre
  <2>4. /\ a.messages[k] \in Versions /\ b.messages[k] \in Versions
        /\ c.messages[k] \in Versions
    BY <1>1, <2>1, <2>2, <2>3, ConversationEst
  <2>5. QED
    BY <2>2, <2>3, <2>4, CompletPreordre
<1>5. a.createdAt <= c.createdAt /\ a.updatedAt >= c.updatedAt
  BY <1>2 DEF AuDessus
<1>6. QED
  BY <1>3, <1>4, <1>5 DEF AuDessus

\* A copy absorbs itself.
LEMMA AbsorbeSeule ==
  ASSUME NEW c \in Finies
  PROVE  Absorbe(c, {c})
<1>1. c \in Conversations
  BY DEF Finies
<1>2. c.createdAt \in Nat /\ c.updatedAt \in Nat
  BY <1>1, ConversationEst
<1>3. Prime(c, c)
  BY PrimePreordre
<1>4. Couvre(c, c)
  <2>1. SUFFICES ASSUME NEW k \in Cles, c.messages[k] # Rien
                 PROVE  AussiComplet(c.messages[k], c.messages[k])
    BY DEF Couvre
  <2>2. c.messages[k] \in Versions
    BY <1>1, <2>1, ConversationEst
  <2>3. QED
    BY <2>2, CompletPreordre
<1>5. AuDessus(c, c)
  BY <1>2, <1>3, <1>4 DEF AuDessus
<1>6. QED
  BY <1>5 DEF Absorbe

\* The join of two copies absorbs what each absorbed.
LEMMA FusionAbsorbe ==
  ASSUME NEW a, NEW b, NEW S, NEW T, Absorbe(a, S), Absorbe(b, T)
  PROVE  Absorbe(Fusion(a, b), S \cup T)
<1> DEFINE f == Fusion(a, b)
<1>1. /\ a \in Finies /\ b \in Finies /\ S \subseteq Finies /\ T \subseteq Finies
      /\ \A c \in S : AuDessus(a, c)
      /\ \A c \in T : AuDessus(b, c)
  BY DEF Absorbe
<1>2. Joint(f, a, b)
  BY <1>1, FusionJoint
<1> HIDE DEF f
<1>3. f \in Finies /\ AuDessus(f, a) /\ AuDessus(f, b)
  BY <1>2 DEF Joint, AuDessus
<1>4. \A c \in S \cup T : AuDessus(f, c)
  <2>1. TAKE c \in S \cup T
  <2>2. CASE c \in S
    BY <1>1, <1>3, <2>2, AuDessusTransitif
  <2>3. CASE c \in T
    BY <1>1, <1>3, <2>3, AuDessusTransitif
  <2>4. QED
    BY <2>2, <2>3
<1>5. \E c \in S \cup T : f.createdAt = c.createdAt
  BY <1>2 DEF Joint, Absorbe
<1>6. \E c \in S \cup T : f.updatedAt = c.updatedAt
  BY <1>2 DEF Joint, Absorbe
<1>7. \A k \in Cles : f.messages[k] # Rien =>
        \E c \in S \cup T : f.messages[k] = c.messages[k]
  <2>1. SUFFICES ASSUME NEW k \in Cles, f.messages[k] # Rien
                 PROVE  \E c \in S \cup T : f.messages[k] = c.messages[k]
    OBVIOUS
  <2>2. f.messages[k] = a.messages[k] \/ f.messages[k] = b.messages[k]
    BY <1>2 DEF Joint
  <2>3. CASE f.messages[k] = a.messages[k]
    BY <2>1, <2>3 DEF Absorbe
  <2>4. CASE f.messages[k] = b.messages[k]
    BY <2>1, <2>4 DEF Absorbe
  <2>5. QED
    BY <2>2, <2>3, <2>4
<1>8. S \cup T \subseteq Finies
  BY <1>1
<1>9. Absorbe(f, S \cup T)
  BY <1>3, <1>4, <1>5, <1>6, <1>7, <1>8 DEF Absorbe
<1>10. QED
  BY <1>9 DEF f

\* Joined with a copy it is above, a copy does not change.
LEMMA FusionSansEffet ==
  ASSUME NEW a \in Finies, NEW c \in Finies, AuDessus(a, c)
  PROVE  Fusion(a, c) = a
<1>1. a \in Conversations /\ c \in Conversations
  BY DEF Finies
<1>2. /\ a.messages \in [Cles -> Versions \cup {Rien}]
      /\ c.messages \in [Cles -> Versions \cup {Rien}]
      /\ a.createdAt \in Nat /\ c.createdAt \in Nat
      /\ a.updatedAt \in Nat /\ c.updatedAt \in Nat
  BY <1>1, ConversationEst
<1>3. FusionnerMessages(a.messages, c.messages) = a.messages
  BY <1>2, FusionnerRien DEF AuDessus, Couvre
<1>4. Fusion(a, c) = [title     |-> a.title,
                      createdAt |-> a.createdAt,
                      updatedAt |-> a.updatedAt,
                      model     |-> a.model,
                      pinned    |-> a.pinned,
                      messages  |-> a.messages]
  <2>1. /\ (IF a.createdAt <= c.createdAt THEN a.createdAt ELSE c.createdAt)
             = a.createdAt
        /\ (IF a.updatedAt >= c.updatedAt THEN a.updatedAt ELSE c.updatedAt)
             = a.updatedAt
    BY <1>2 DEF AuDessus
  <2>2. Prime(a, c)
    BY DEF AuDessus
  <2>3. QED
    BY <1>3, <2>1, <2>2 DEF Fusion
<1>5. a = [title     |-> a.title,
           createdAt |-> a.createdAt,
           updatedAt |-> a.updatedAt,
           model     |-> a.model,
           pinned    |-> a.pinned,
           messages  |-> a.messages]
  BY <1>1 DEF Conversations
<1>6. QED
  BY <1>4, <1>5

-----------------------------------------------------------------------------
(* The invariant.                                                          *)

\* A holder has no copy, and none reached it, or its copy absorbs all of those
\* that did.
CopiesAbsorbees ==
  /\ copie  \in [Porteurs -> Finies \cup {Rien}]
  /\ recues \in [Porteurs -> SUBSET Finies]
  /\ \A p \in Porteurs : IF copie[p] = Rien THEN recues[p] = {}
                                            ELSE Absorbe(copie[p], recues[p])

\* Adopting a copy that absorbs T keeps the invariant of the holder that does.
LEMMA AdopterAbsorbe ==
  ASSUME CopiesAbsorbees, NEW p \in Porteurs, NEW c, NEW T, Absorbe(c, T),
         copie'  = [copie  EXCEPT ![p] = Adopter(@, c)],
         recues' = [recues EXCEPT ![p] = @ \cup T]
  PROVE  CopiesAbsorbees'
<1>1. PICK a : a = Adopter(copie[p], c)
  OBVIOUS
<1>2. PICK S : S = recues[p] \cup T
  OBVIOUS
<1>3. Absorbe(a, S)
  <2>1. CASE copie[p] = Rien
    BY <1>1, <1>2, <2>1 DEF Adopter, CopiesAbsorbees
  <2>2. CASE copie[p] # Rien
    <3>1. Absorbe(copie[p], recues[p])
      BY <2>2 DEF CopiesAbsorbees
    <3>2. Absorbe(Fusion(copie[p], c), recues[p] \cup T)
      BY <3>1, FusionAbsorbe
    <3>3. QED
      BY <1>1, <1>2, <2>2, <3>2 DEF Adopter
  <2>3. QED
    BY <2>1, <2>2
<1>4. a \in Finies /\ a # Rien /\ S \in SUBSET Finies
  BY <1>3, RienIsNoConversation DEF Absorbe, Finies
<1>5. copie' = [copie EXCEPT ![p] = a] /\ recues' = [recues EXCEPT ![p] = S]
  BY <1>1, <1>2
<1>6. /\ copie'  \in [Porteurs -> Finies \cup {Rien}]
      /\ recues' \in [Porteurs -> SUBSET Finies]
  BY <1>4, <1>5 DEF CopiesAbsorbees
<1>7. \A q \in Porteurs : IF copie'[q] = Rien THEN recues'[q] = {}
                          ELSE Absorbe(copie'[q], recues'[q])
  <2>1. TAKE q \in Porteurs
  <2>2. CASE q = p
    <3>1. copie'[q] = a /\ recues'[q] = S
      BY <1>5, <2>2 DEF CopiesAbsorbees
    <3>2. QED
      BY <1>3, <1>4, <3>1
  <2>3. CASE q # p
    <3>1. copie'[q] = copie[q] /\ recues'[q] = recues[q]
      BY <1>5, <2>3 DEF CopiesAbsorbees
    <3>2. QED
      BY <3>1 DEF CopiesAbsorbees
  <2>4. QED
    BY <2>2, <2>3
<1>8. QED
  BY <1>6, <1>7 DEF CopiesAbsorbees

\* The copy of a holder absorbs the copies that reached it: it is an upper
\* bound of them in the order of the join, made of their values.
THEOREM CopiesAreJoins == Spec => []CopiesAbsorbees
<1>1. Init => CopiesAbsorbees
  BY DEF Init, CopiesAbsorbees
<1>2. CopiesAbsorbees /\ [Next]_vars => CopiesAbsorbees'
  <2>1. SUFFICES ASSUME CopiesAbsorbees, [Next]_vars PROVE CopiesAbsorbees'
    OBVIOUS
  <2>2. ASSUME NEW p \in Porteurs, NEW c \in Copies, Pousser(p, c)
        PROVE  CopiesAbsorbees'
    <3>1. Absorbe(c, {c})
      BY CopiesAreFinite, AbsorbeSeule DEF Finies
    <3>2. QED
      BY <2>1, <2>2, <3>1, AdopterAbsorbe DEF Pousser
  <2>3. ASSUME NEW p \in Porteurs, NEW q \in Porteurs \ {p}, Tirer(p, q)
        PROVE  CopiesAbsorbees'
    <3>1. PICK c, T : c = copie[q] /\ T = recues[q]
      OBVIOUS
    <3>2. Absorbe(c, T)
      BY <2>1, <2>3, <3>1 DEF CopiesAbsorbees, Tirer
    <3>3. /\ copie'  = [copie  EXCEPT ![p] = Adopter(@, c)]
          /\ recues' = [recues EXCEPT ![p] = @ \cup T]
      BY <2>3, <3>1 DEF Tirer
    <3>4. QED
      BY <2>1, <3>2, <3>3, AdopterAbsorbe
  <2>4. CASE UNCHANGED vars
    BY <2>1, <2>4 DEF vars, CopiesAbsorbees
  <2>5. QED
    BY <2>1, <2>2, <2>3, <2>4 DEF Next
<1>3. QED
  BY <1>1, <1>2, PTL DEF Spec

\* No join ever truncates a message: a holder has each message in the most
\* complete of the versions that reached it.
THEOREM NoMessageTruncated == Spec => []RienDeTronque
<1>1. CopiesAbsorbees => RienDeTronque
  <2>1. SUFFICES ASSUME CopiesAbsorbees, NEW p \in Portant, NEW k \in Cles
                 PROVE  LET v == copie[p].messages[k]
                            versions == {c.messages[k] : c \in recues[p]} \ {Rien}
                        IN  IF versions = {} THEN v = Rien
                            ELSE v \in versions /\
                                 \A w \in versions :
                                   AuMoins(Completude(v), Completude(w))
    BY DEF RienDeTronque
  <2> DEFINE v == copie[p].messages[k]
             versions == {c.messages[k] : c \in recues[p]} \ {Rien}
  <2>2. Absorbe(copie[p], recues[p])
    BY <2>1 DEF CopiesAbsorbees, Portant
  <2>3. v # Rien => v \in versions
    BY <2>2 DEF Absorbe
  <2>4. \A w \in versions : v # Rien /\ AuMoins(Completude(v), Completude(w))
    BY <2>2 DEF Absorbe, AuDessus, Couvre, AussiComplet
  <2>5. QED
    BY <2>3, <2>4
<1>2. QED
  BY <1>1, CopiesAreJoins, PTL

\* A copy that already reached a holder changes nothing when it comes again,
\* however many were joined since: the join is idempotent over a history.
THEOREM RepeatedCopyIsIdle == Spec => []RedonnerSansEffet
<1>1. CopiesAbsorbees => RedonnerSansEffet
  <2>1. SUFFICES ASSUME CopiesAbsorbees, NEW p \in Portant, NEW c \in recues[p]
                 PROVE  Fusion(copie[p], c) = copie[p]
    BY DEF RedonnerSansEffet
  <2>2. Absorbe(copie[p], recues[p])
    BY <2>1 DEF CopiesAbsorbees, Portant
  <2>3. copie[p] \in Finies /\ c \in Finies /\ AuDessus(copie[p], c)
    BY <2>2 DEF Absorbe
  <2>4. QED
    BY <2>3, FusionSansEffet
<1>2. QED
  BY <1>1, CopiesAreJoins, PTL

\* Two copies that absorb the same copies have the same dates and messages, and
\* messages that compare equal.
LEMMA AbsorbeUnique ==
  ASSUME NEW a, NEW b, NEW S, Absorbe(a, S), Absorbe(b, S)
  PROVE  /\ a.updatedAt = b.updatedAt /\ a.createdAt = b.createdAt
         /\ Presents(a) = Presents(b)
         /\ \A k \in Presents(a) :
              Completude(a.messages[k]) = Completude(b.messages[k])
<1>1. /\ a \in Conversations /\ b \in Conversations
      /\ \A c \in S : c \in Conversations
  BY DEF Absorbe, Finies
<1>2. /\ a.createdAt \in Nat /\ a.updatedAt \in Nat
      /\ b.createdAt \in Nat /\ b.updatedAt \in Nat
  BY <1>1, ConversationEst
<1>3. a.updatedAt <= b.updatedAt /\ b.updatedAt <= a.updatedAt
  <2>1. PICK c \in S : a.updatedAt = c.updatedAt
    BY DEF Absorbe
  <2>2. PICK d \in S : b.updatedAt = d.updatedAt
    BY DEF Absorbe
  <2>3. b.updatedAt >= c.updatedAt /\ a.updatedAt >= d.updatedAt
    BY DEF Absorbe, AuDessus
  <2>4. QED
    BY <1>2, <2>1, <2>2, <2>3
<1>4. a.createdAt <= b.createdAt /\ b.createdAt <= a.createdAt
  <2>1. PICK c \in S : a.createdAt = c.createdAt
    BY DEF Absorbe
  <2>2. PICK d \in S : b.createdAt = d.createdAt
    BY DEF Absorbe
  <2>3. b.createdAt <= c.createdAt /\ a.createdAt <= d.createdAt
    BY DEF Absorbe, AuDessus
  <2>4. QED
    BY <1>2, <2>1, <2>2, <2>3
<1>5. ASSUME NEW x, NEW y, Absorbe(x, S), Absorbe(y, S), NEW k \in Cles,
             x.messages[k] # Rien
      PROVE  y.messages[k] # Rien /\ AussiComplet(y.messages[k], x.messages[k])
  <2>1. PICK c \in S : x.messages[k] = c.messages[k]
    BY <1>5 DEF Absorbe
  <2>2. Couvre(y, c)
    BY <1>5 DEF Absorbe, AuDessus
  <2>3. QED
    BY <1>5, <2>1, <2>2 DEF Couvre
<1>6. Presents(a) = Presents(b)
  BY <1>5 DEF Presents
<1>7. \A k \in Presents(a) :
        Completude(a.messages[k]) = Completude(b.messages[k])
  <2>1. SUFFICES ASSUME NEW k \in Cles, a.messages[k] # Rien
                 PROVE  Completude(a.messages[k]) = Completude(b.messages[k])
    BY DEF Presents
  <2>2. b.messages[k] # Rien /\ AussiComplet(b.messages[k], a.messages[k])
    BY <1>5, <2>1
  <2>3. AussiComplet(a.messages[k], b.messages[k])
    BY <1>5, <2>2
  <2>4. a.messages[k] \in Versions /\ b.messages[k] \in Versions
    BY <1>1, <2>1, <2>2, ConversationEst
  <2>5. QED
    BY <2>2, <2>3, <2>4, CompletPreordre
<1>8. QED
  BY <1>2, <1>3, <1>4, <1>6, <1>7

\* Two holders that received the same copies show the same messages, dates and
\* texts, in whatever order the copies came in.
THEOREM SameCopiesSameMessages == Spec => []MemesMessages
<1>1. CopiesAbsorbees => MemesMessages
  <2>1. SUFFICES ASSUME CopiesAbsorbees, NEW p \in Portant, NEW q \in Portant,
                        recues[p] = recues[q]
                 PROVE  LET a == copie[p]
                            b == copie[q]
                        IN  /\ a.updatedAt = b.updatedAt
                            /\ a.createdAt = b.createdAt
                            /\ Presents(a) = Presents(b)
                            /\ \A k \in Presents(a) :
                                 Completude(a.messages[k])
                                   = Completude(b.messages[k])
    BY DEF MemesMessages
  <2>2. Absorbe(copie[p], recues[p]) /\ Absorbe(copie[q], recues[p])
    BY <2>1 DEF CopiesAbsorbees, Portant
  <2>3. QED
    BY <2>2, AbsorbeUnique
<1>2. QED
  BY <1>1, CopiesAreJoins, PTL


====
