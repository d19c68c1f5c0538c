------------------------ MODULE MoteurSynchro_proofs ------------------------
(***************************************************************************)
(* Theorems about MoteurSynchro, for any devices, conversations, clocks,   *)
(* losses and deaths of processes.                                         *)
(*                                                                         *)
(* Whatever the server gives back, restorations included, a deletion a     *)
(* device took in is defended there (SuppressionDefendue) as long as no    *)
(* view waits longer than the retention before it pushes (Absence): every  *)
(* date of a deletion is passed, by the row or by the clock (IDates).      *)
(* While it gives nothing back, one chain of contents says the rest        *)
(* (Chaine).  And what it lacks after a restoration goes out again         *)
(* (Recherches), unless a complete pull is cut in its last steps.          *)
(***************************************************************************)
EXTENDS MoteurSynchro, FiniteSetTheorems, TLAPS

Contenu ==
  {c \in [date : Nat, messages : SUBSET Messages, morte : BOOLEAN] :
     c.morte <=> c.messages = {}}
Objet   == [rev : Nat \ {0}, seq : Nat, contenu : Contenu]
Connu   == [rev : Nat \ {0}, empreinte : Contenu \cup {Rien}]
Sortant == [supprime : Nat \cup {-1}, poussee : Contenu \cup {Rien}]
Parti   == [base : Nat, contenu : Contenu,
            statut : {"parti", "stored", "conflict"},
            courant : Objet \cup {Rien}]
Examen  == [id : Ids, rev : Nat \ {0}, contenu : Contenu,
            etape : {"lire", "tombale", "noter", "renvoyer"}]
Apprises == [Appareils -> [Ids -> Nat \cup {-1}]]

-----------------------------------------------------------------------------
(* The order of contents, over the deletions taken in, a                   *)

Supp(a, i, n) == \E d \in Appareils : a[d][i] >= n

Avant(b, c) ==
  \/ b.date < c.date
  \/ b.date = c.date /\ (c.morte \/ (~b.morte /\ b.messages \subseteq c.messages))

Suit(a, i, b, c) ==
  Avant(b, c) /\ (b.messages \subseteq c.messages \/ Supp(a, i, b.date))

\* A row, or the floor that stands for it once it is purged.
Tenue(l, f) == IF l = Rien THEN Tombale(f) ELSE l

\* A content of conversation i that left its device.
Vraie(a, n, i, c) == i \notin n /\ (c.morte => Supp(a, i, c.date))

LEMMA MaxDeEst ==
  ASSUME NEW a \in Int, NEW b \in Int
  PROVE  /\ MaxDe(a, b) \in Int /\ MaxDe(a, b) >= a /\ MaxDe(a, b) >= b
         /\ MaxDe(a, b) \in {a, b}
BY DEF MaxDe

LEMMA RienHors ==
  /\ Rien \notin Contenu /\ Rien \notin Contenus /\ Contenu \subseteq Contenus
  /\ Rien \notin Objet /\ Rien \notin Connu /\ Rien \notin Sortant
  /\ Rien \notin Examen
<1>1. Contenu \subseteq Contenus
  BY DEF Contenu, Contenus
<1>2. /\ Objet \subseteq [rev : Nat, seq : Nat, contenu : Contenus]
      /\ Connu \subseteq [rev : Nat, empreinte : Contenus \cup {Rien}]
      /\ Sortant \subseteq [supprime : Int, poussee : Contenus \cup {Rien}]
  BY <1>1 DEF Objet, Connu, Sortant
<1>3. Examen \subseteq [id : Ids, rev : Nat, contenu : Contenus,
                       etape : {"lire", "tombale", "noter", "renvoyer"}]
  BY <1>1 DEF Examen
<1>4. Rien \notin Examen
  BY <1>3, EngineValues
<1>5. QED
  BY <1>1, <1>2, <1>4, EngineValues

LEMMA TombaleEst ==
  ASSUME NEW n \in Int
  PROVE  /\ Tombale(n) \in Contenus /\ Tombale(n) # Rien
         /\ Tombale(n).date = n /\ Tombale(n).morte /\ Tombale(n).messages = {}
         /\ n >= 0 => Tombale(n) \in Contenu
<1>1. /\ Tombale(n) \in Contenus /\ Tombale(n).date = n
      /\ Tombale(n).morte /\ Tombale(n).messages = {}
      /\ n >= 0 => Tombale(n) \in Contenu
  BY DEF Tombale, Contenus, Contenu
<1>2. QED
  BY <1>1, RienHors

LEMMA VivanteEst ==
  ASSUME NEW n \in Nat, NEW ms \in SUBSET Messages, ms # {}
  PROVE  /\ Vivante(n, ms) \in Contenu /\ Vivante(n, ms) # Rien
         /\ Vivante(n, ms).date = n /\ Vivante(n, ms).messages = ms
         /\ ~Vivante(n, ms).morte
<1>1. /\ Vivante(n, ms) \in Contenu /\ Vivante(n, ms).date = n
      /\ Vivante(n, ms).messages = ms /\ ~Vivante(n, ms).morte
  BY DEF Vivante, Contenu
<1>2. QED
  BY <1>1, RienHors

LEMMA ContenuEst ==
  ASSUME NEW c \in Contenu
  PROVE  /\ c # Rien /\ c \in Contenus /\ c.date \in Nat
         /\ c.messages \subseteq Messages /\ c.morte \in BOOLEAN
         /\ c.morte <=> c.messages = {}
         /\ EstVivante(c) <=> ~c.morte
         /\ EstTombale(c) <=> c.morte
BY RienHors DEF Contenu, EstVivante, EstTombale

LEMMA ContenusEst ==
  ASSUME NEW c \in Contenus
  PROVE  c.date \in Int /\ c.messages \subseteq Messages /\ c.morte \in BOOLEAN
BY DEF Contenus

LEMMA SuppPlus ==
  ASSUME NEW a \in Apprises, NEW i \in Ids, NEW n \in Int, NEW m \in Int,
         m <= n, Supp(a, i, n)
  PROVE  Supp(a, i, m)
BY DEF Supp, Apprises

LEMMA SuppCroit ==
  ASSUME NEW a \in Apprises, NEW b \in Apprises, NEW i \in Ids, NEW n \in Int,
         \A d \in Appareils : b[d][i] >= a[d][i], Supp(a, i, n)
  PROVE  Supp(b, i, n)
BY DEF Supp, Apprises

LEMMA SuitMeme ==
  ASSUME NEW a, NEW i, NEW c \in Contenus
  PROVE  Suit(a, i, c, c)
BY ContenusEst DEF Suit, Avant

LEMMA SuitTrans ==
  ASSUME NEW a \in Apprises, NEW i \in Ids, NEW b \in Contenus,
         NEW c \in Contenus, NEW e \in Contenus,
         Suit(a, i, b, c), Suit(a, i, c, e)
  PROVE  Suit(a, i, b, e)
<1>1. b.date <= c.date /\ Avant(b, e)
  BY ContenusEst DEF Suit, Avant
<1>2. CASE b.messages \subseteq c.messages /\ c.messages \subseteq e.messages
  BY <1>1, <1>2 DEF Suit
<1>3. CASE Supp(a, i, b.date)
  BY <1>1, <1>3 DEF Suit
<1>4. CASE Supp(a, i, c.date)
  BY <1>1, <1>4, SuppPlus, ContenusEst DEF Suit
<1>5. QED
  BY <1>2, <1>3, <1>4 DEF Suit

LEMMA SuitCroit ==
  ASSUME NEW a \in Apprises, NEW z \in Apprises, NEW i \in Ids,
         \A d \in Appareils : z[d][i] >= a[d][i],
         NEW b \in Contenus, NEW c, Suit(a, i, b, c)
  PROVE  Suit(z, i, b, c)
BY SuppCroit, ContenusEst DEF Suit

\* What follows a content both ways is that content.
LEMMA SuitEgal ==
  ASSUME NEW a, NEW i, NEW b \in Contenu, NEW c \in Contenu,
         Avant(b, c), Avant(c, b)
  PROVE  b = c
<1>1. b.date = c.date /\ (b.morte <=> c.morte) /\ b.messages = c.messages
  <2>1. b.date = c.date
    BY ContenuEst DEF Avant
  <2>2. /\ b.morte => c.morte
        /\ c.morte => b.morte
    BY <2>1, ContenuEst DEF Avant
  <2>3. CASE b.morte
    BY <2>1, <2>2, <2>3, ContenuEst
  <2>4. CASE ~b.morte
    BY <2>1, <2>2, <2>4, ContenuEst DEF Avant
  <2>5. QED
    BY <2>3, <2>4
<1>4. b.morte = c.morte
  BY <1>1, ContenuEst
<1>2. /\ b = [date |-> b.date, messages |-> b.messages, morte |-> b.morte]
      /\ c = [date |-> c.date, messages |-> c.messages, morte |-> c.morte]
  BY DEF Contenu
<1>3. QED
  BY <1>1, <1>2, <1>4

\* Suit of a purged row, whose floor stands for it.
LEMMA SuitTombale ==
  ASSUME NEW a, NEW i, NEW n \in Int, NEW c \in Contenus
  PROVE  Suit(a, i, Tombale(n), c) <=> n < c.date \/ (n = c.date /\ c.morte)
BY TombaleEst, ContenusEst DEF Suit, Avant

LEMMA TenueEst ==
  ASSUME NEW l \in Contenu \cup {Rien}, NEW f \in Int
  PROVE  /\ Tenue(l, f) \in Contenus
         /\ l # Rien => Tenue(l, f) = l
         /\ l = Rien => Tenue(l, f) = Tombale(f)
BY RienHors, TombaleEst DEF Tenue

\* The join of the store goes forward from what it joins.
LEMMA RecueEst ==
  ASSUME NEW l \in Contenu \cup {Rien}, NEW c \in Contenu
  PROVE  /\ Recue(l, c) \in Contenu
         /\ Avant(c, Recue(l, c))
         /\ l # Rien => Avant(l, Recue(l, c))
         /\ \/ c.messages \subseteq Recue(l, c).messages
            \/ Recue(l, c).morte /\ Recue(l, c).date >= c.date
         /\ l # Rien => \/ l.messages \subseteq Recue(l, c).messages
                        \/ Recue(l, c).morte /\ Recue(l, c).date >= l.date
         /\ l = Rien => Recue(l, c) = c
         /\ EstVivante(l) /\ ~Recue(l, c).morte => Recue(l, c).date >= l.date
         /\ EstVivante(l) /\ ~c.morte => ~Recue(l, c).morte
<1>1. CASE c.morte /\ l = Rien
  BY <1>1, ContenuEst DEF Recue, Avant, EstVivante, EstTombale
<1>2. CASE c.morte /\ l # Rien
  BY <1>2, ContenuEst DEF Recue, Avant, EstVivante, EstTombale
<1>3. CASE ~c.morte /\ l = Rien
  BY <1>3, ContenuEst DEF Recue, Avant, EstVivante, EstTombale
<1>4. CASE ~c.morte /\ EstTombale(l)
  BY <1>4, ContenuEst DEF Recue, Avant, EstVivante, EstTombale
<1>5. CASE ~c.morte /\ EstVivante(l)
  <2>1. l \in Contenu /\ ~l.morte /\ ~c.morte
    BY <1>5 DEF EstVivante
  <2>2. PICK n : n = MaxDe(l.date, c.date)
    OBVIOUS
  <2>3. n \in Nat /\ n >= l.date /\ n >= c.date
    <3>1. l.date \in Nat /\ c.date \in Nat
      BY <2>1, ContenuEst
    <3>2. QED
      BY <2>2, <3>1 DEF MaxDe
  <2>4. PICK ms : ms = l.messages \cup c.messages
    OBVIOUS
  <2>5. ms \in SUBSET Messages /\ ms # {}
    BY <2>1, <2>4, ContenuEst
  <2>6. Recue(l, c) = Vivante(n, ms)
    BY <1>5, <2>1, <2>2, <2>4, ContenuEst DEF Recue, EstTombale
  <2>7. /\ Vivante(n, ms) \in Contenu /\ Vivante(n, ms).date = n
        /\ Vivante(n, ms).messages = ms /\ ~Vivante(n, ms).morte
    BY <2>3, <2>5, VivanteEst
  <2>8. /\ l # Rien /\ l.date \in Nat /\ c.date \in Nat
        /\ l.messages \subseteq ms /\ c.messages \subseteq ms
    BY <2>1, <2>4, ContenuEst
  <2>9. PICK r : r = Recue(l, c)
    OBVIOUS
  <2>10. /\ r \in Contenu /\ r.date = n /\ r.messages = ms /\ ~r.morte
    BY <2>6, <2>7, <2>9
  <2>11. Avant(c, r) /\ Avant(l, r)
    BY <2>1, <2>3, <2>8, <2>10 DEF Avant
  <2>12. QED
    BY <2>3, <2>8, <2>9, <2>10, <2>11
<1>6. QED
  BY <1>1, <1>2, <1>3, <1>4, <1>5 DEF EstVivante, EstTombale

\* What a device would push follows its row, or its floor.
LEMMA SousEst ==
  ASSUME NEW l \in Contenu \cup {Rien}, NEW f \in Nat \cup {-1},
         NEW s \in Nat \cup {-1}
  PROVE  /\ SousLesPlanchers(l, f, s) \in Contenu \cup {Rien}
         /\ SousLesPlanchers(l, f, s) = Rien => l = Rien
         /\ EstTombale(l) => SousLesPlanchers(l, f, s) = l
         /\ s <= f /\ EstVivante(l) /\ l.date > f => SousLesPlanchers(l, f, s) = l
         /\ s <= f /\ l = Rien /\ SousLesPlanchers(l, f, s) # Rien =>
              f # -1 /\ SousLesPlanchers(l, f, s) = Tombale(f)
         /\ \/ SousLesPlanchers(l, f, s) = l
            \/ /\ MaxDe(f, s) # -1 /\ ~EstTombale(l)
               /\ l # Rien => l.date <= MaxDe(f, s)
               /\ SousLesPlanchers(l, f, s) = Tombale(MaxDe(f, s))
<1>1. PICK x : x = MaxDe(f, s)
  OBVIOUS
<1>2. /\ x \in Nat \cup {-1} /\ x >= f /\ x >= s
      /\ s <= f => x = f
  BY <1>1 DEF MaxDe
<1>3. /\ Tombale(x) # Rien
      /\ x # -1 => Tombale(x) \in Contenu
  BY <1>2, TombaleEst
<1>4. SousLesPlanchers(l, f, s) =
        IF x = -1 \/ EstTombale(l) THEN l
        ELSE IF l = Rien \/ x >= l.date THEN Tombale(x) ELSE l
  BY <1>1 DEF SousLesPlanchers
<1>5. l # Rien => l.date \in Nat
  BY ContenuEst
<1>6. QED
  BY <1>1, <1>2, <1>3, <1>4, <1>5, RienHors DEF EstVivante, EstTombale

-----------------------------------------------------------------------------
(* Types, and what the shape of a cycle says                               *)

TMagasin ==
  /\ maintenant \in Nat
  /\ locale \in [Appareils -> [Ids -> Contenu \cup {Rien}]]
  /\ ancienne \in [Appareils -> [Ids -> Contenu \cup {Rien}]]
  /\ posee \in [Appareils -> [Ids -> Nat]]
  /\ apprise \in Apprises
  /\ aExporter \in [Appareils -> SUBSET Ids]
  /\ \A d \in Appareils, i \in Ids :
       /\ locale[d][i] # Rien => i \notin neuves
       /\ EstTombale(locale[d][i]) => apprise[d][i] >= locale[d][i].date
       /\ ancienne[d][i] # Rien => i \notin neuves /\ ~ancienne[d][i].morte
       /\ i \in aExporter[d] => locale[d][i] # Rien

\* A floor is the date of a deletion, and no line of sortants is above it.
TTables ==
  /\ connu \in [Appareils -> [Ids -> Connu \cup {Rien}]]
  /\ sortant \in [Appareils -> [Ids -> Sortant \cup {Rien}]]
  /\ plancher \in [Appareils -> [Ids -> Nat \cup {-1}]]
  /\ \A d \in Appareils, i \in Ids :
       /\ connu[d][i] # Rien => i \notin neuves
       /\ sortant[d][i] # Rien =>
            i \notin neuves /\ sortant[d][i].supprime <= plancher[d][i]
       /\ plancher[d][i] # -1 => Supp(apprise, i, plancher[d][i])

EstPage(p, a, n) ==
  /\ p = [elements |-> p.elements, until |-> p.until, hasMore |-> p.hasMore]
  /\ p.elements \in [Ids -> Objet \cup {Rien}]
  /\ \A i \in Ids : p.elements[i] # Rien => Vraie(a, n, i, p.elements[i].contenu)

EstLot(l, a, n) ==
  /\ l \in [Ids -> Parti \cup {Rien}]
  /\ \A i \in Ids : l[i] # Rien =>
       /\ Vraie(a, n, i, l[i].contenu)
       /\ l[i].courant # Rien => Vraie(a, n, i, l[i].courant.contenu)

Phases ==
  {"repos", "tire", "page", "absents", "pousse", "vol", "issue", "conclut"}

\* The batch and the object examined belong to their phase of the cycle.
EstCycle(d) ==
  /\ pc[d] = "page" => EstPage(page[d], apprise, neuves)
  /\ EstLot(lot[d], apprise, neuves)
  /\ pc[d] \notin {"vol", "issue"} => lot[d] = Aucun
  /\ \A i \in Ids : lot[d][i] # Rien =>
       /\ pc[d] = "vol" => lot[d][i].statut = "parti"
       /\ pc[d] = "issue" => lot[d][i].statut # "parti"
  /\ examen[d] # Rien =>
       /\ pc[d] \in {"page", "issue"} /\ lot[d][examen[d].id] = Rien
       /\ pc[d] = "page" => page[d].elements[examen[d].id] = Rien
       /\ Vraie(apprise, neuves, examen[d].id, examen[d].contenu)

TCycle ==
  /\ pc \in [Appareils -> Phases]
  /\ DOMAIN page = Appareils
  /\ examen \in [Appareils -> Examen \cup {Rien}]
  /\ lot \in [Appareils -> [Ids -> Parti \cup {Rien}]]
  /\ bases \in [Appareils -> [Ids -> Nat \cup {-1}]]
  /\ \A d \in Appareils : EstCycle(d)

EstServeur(o, n, a, v) ==
  /\ o \in [Ids -> Objet \cup {Rien}] /\ n \in Nat
  /\ \A i \in Ids : o[i] # Rien => Vraie(a, v, i, o[i].contenu)

TServeur ==
  /\ EstServeur(objets, seq, apprise, neuves)
  /\ copie = [objets |-> copie.objets, seq |-> copie.seq]
  /\ EstServeur(copie.objets, copie.seq, apprise, neuves)
  /\ generation \in Nat \ {0}
  /\ \A l \in errantes : EstLot(l, apprise, neuves)

Types == TMagasin /\ TTables /\ TCycle /\ TServeur

\* Identifiers are only used up, and what was taken in stays so.
Grandit ==
  /\ neuves' \subseteq neuves /\ apprise' \in Apprises
  /\ \A d \in Appareils, i \in Ids : apprise'[d][i] >= apprise[d][i]

LEMMA SupprimeeEst ==
  ASSUME NEW i, NEW n
  PROVE  Supprimee(i, n) <=> Supp(apprise, i, n)
BY DEF Supprimee, Supp

LEMMA HorlogeEst ==
  ASSUME NEW d \in Appareils, maintenant \in Nat
  PROVE  Horloge(d) \in Nat
BY EngineNumbers DEF Horloge

LEMMA NoterConnuEst ==
  ASSUME NEW k \in Connu \cup {Rien}, NEW rev \in Nat \ {0}, NEW c \in Contenu
  PROVE  /\ NoterConnu(k, rev, c) \in Connu /\ NoterConnu(k, rev, c) # Rien
         /\ NoterConnu(k, rev, c).empreinte = c
         /\ NoterConnu(k, rev, c).rev >= rev
         /\ k # Rien => NoterConnu(k, rev, c).rev >= k.rev
         /\ NoterConnu(k, rev, c).rev = IF k = Rien THEN rev ELSE MaxDe(k.rev, rev)
         /\ k = Rien \/ k.rev <= rev => NoterConnu(k, rev, c).rev = rev
<1>1. PICK x : x = IF k = Rien THEN rev ELSE MaxDe(k.rev, rev)
  OBVIOUS
<1>2. /\ x \in Nat \ {0} /\ x >= rev
      /\ k # Rien => x >= k.rev
      /\ k = Rien \/ k.rev <= rev => x = rev
  BY <1>1 DEF MaxDe, Connu
<1>3. NoterConnu(k, rev, c) = [rev |-> x, empreinte |-> c]
  BY <1>1 DEF NoterConnu
<1>4. QED
  BY <1>1, <1>2, <1>3, RienHors DEF Connu

LEMMA OublierEst ==
  ASSUME NEW k \in Connu
  PROVE  /\ Oublier(k) \in Connu /\ Oublier(k) # Rien
         /\ Oublier(k).rev = k.rev /\ Oublier(k).empreinte = Rien
<1>1. k # Rien
  BY RienHors
<1>2. Oublier(k) = [k EXCEPT !.empreinte = Rien]
  BY <1>1 DEF Oublier
<1>3. QED
  BY <1>2, RienHors DEF Connu

LEMMA AjouterEst ==
  ASSUME NEW s \in Sortant \cup {Rien}, NEW n \in Nat \cup {-1},
         NEW f \in Nat \cup {-1}, n <= f, s # Rien => s.supprime <= f
  PROVE  /\ Ajouter(s, n) \in Sortant /\ Ajouter(s, n) # Rien
         /\ Ajouter(s, n).supprime <= f
<1>1. PICK x : x = IF s = Rien THEN n ELSE MaxDe(s.supprime, n)
  OBVIOUS
<1>2. x \in Nat \cup {-1} /\ x <= f
  BY <1>1 DEF MaxDe, Sortant
<1>3. Ajouter(s, n) = [supprime |-> x, poussee |-> Rien]
  BY <1>1 DEF Ajouter
<1>4. QED
  BY <1>2, <1>3, RienHors DEF Sortant

LEMMA VraieCroit ==
  ASSUME NEW a \in Apprises, NEW b \in Apprises, NEW n, NEW m,
         NEW i \in Ids, NEW c \in Contenu,
         \A d \in Appareils, j \in Ids : b[d][j] >= a[d][j], m \subseteq n,
         Vraie(a, n, i, c)
  PROVE  Vraie(b, m, i, c)
BY SuppCroit, ContenuEst DEF Vraie

LEMMA EstPageCroit ==
  ASSUME NEW a \in Apprises, NEW b \in Apprises, NEW n, NEW m, NEW p,
         \A d \in Appareils, j \in Ids : b[d][j] >= a[d][j], m \subseteq n,
         EstPage(p, a, n)
  PROVE  EstPage(p, b, m)
<1>1. SUFFICES ASSUME NEW i \in Ids, p.elements[i] # Rien
               PROVE  Vraie(b, m, i, p.elements[i].contenu)
  BY DEF EstPage
<1>2. p.elements[i].contenu \in Contenu /\ Vraie(a, n, i, p.elements[i].contenu)
  BY <1>1 DEF EstPage, Objet
<1>3. QED
  BY <1>2, VraieCroit

LEMMA EstLotCroit ==
  ASSUME NEW a \in Apprises, NEW b \in Apprises, NEW n, NEW m, NEW l,
         \A d \in Appareils, j \in Ids : b[d][j] >= a[d][j], m \subseteq n,
         EstLot(l, a, n)
  PROVE  EstLot(l, b, m)
<1>1. SUFFICES ASSUME NEW i \in Ids, l[i] # Rien
               PROVE  /\ Vraie(b, m, i, l[i].contenu)
                      /\ l[i].courant # Rien =>
                           Vraie(b, m, i, l[i].courant.contenu)
  BY DEF EstLot
<1>2. /\ l[i].contenu \in Contenu /\ Vraie(a, n, i, l[i].contenu)
      /\ l[i].courant # Rien =>
           /\ l[i].courant.contenu \in Contenu
           /\ Vraie(a, n, i, l[i].courant.contenu)
  BY <1>1 DEF EstLot, Parti, Objet
<1>3. QED
  BY <1>2, VraieCroit

LEMMA EstServeurCroit ==
  ASSUME NEW a \in Apprises, NEW b \in Apprises, NEW n, NEW m, NEW o, NEW s,
         \A d \in Appareils, j \in Ids : b[d][j] >= a[d][j], m \subseteq n,
         EstServeur(o, s, a, n)
  PROVE  EstServeur(o, s, b, m)
<1>1. SUFFICES ASSUME NEW i \in Ids, o[i] # Rien
               PROVE  Vraie(b, m, i, o[i].contenu)
  BY DEF EstServeur
<1>2. o[i].contenu \in Contenu /\ Vraie(a, n, i, o[i].contenu)
  BY <1>1 DEF EstServeur, Objet
<1>3. QED
  BY <1>2, VraieCroit

LEMMA GranditMeme ==
  ASSUME TMagasin, UNCHANGED <<apprise, neuves>>
  PROVE  Grandit
BY DEF TMagasin, Grandit, Apprises

LEMMA TMagasinMeme ==
  ASSUME TMagasin, UNCHANGED <<magasin, maintenant, neuves>>
  PROVE  TMagasin'
BY DEF TMagasin, magasin

LEMMA TTablesMeme ==
  ASSUME TMagasin, TTables, Grandit, UNCHANGED <<connu, sortant, plancher>>
  PROVE  TTables'
<1>1. ASSUME NEW d \in Appareils, NEW i \in Ids, plancher[d][i] # -1
      PROVE  Supp(apprise', i, plancher[d][i])
  BY <1>1, SuppCroit DEF TTables, TMagasin, Grandit
<1>2. QED
  BY <1>1 DEF TTables, Grandit

LEMMA CycleMeme ==
  ASSUME TMagasin, TCycle, Grandit, NEW d \in Appareils, pc'[d] = pc[d],
         page'[d] = page[d], examen'[d] = examen[d], lot'[d] = lot[d]
  PROVE  EstCycle(d)'
<1>1. EstCycle(d)
  BY DEF TCycle
<1>2. ASSUME pc[d] = "page"
      PROVE  EstPage(page[d], apprise', neuves')
  BY <1>1, <1>2, EstPageCroit DEF EstCycle, TMagasin, Grandit
<1>3. EstLot(lot[d], apprise', neuves')
  BY <1>1, EstLotCroit DEF EstCycle, TMagasin, Grandit
<1>4. ASSUME examen[d] # Rien
      PROVE  Vraie(apprise', neuves', examen[d].id, examen[d].contenu)
  <2>1. examen[d].id \in Ids /\ examen[d].contenu \in Contenu
    BY <1>4 DEF TCycle, Examen
  <2>2. Vraie(apprise, neuves, examen[d].id, examen[d].contenu)
    BY <1>1, <1>4 DEF EstCycle
  <2>3. QED
    BY <2>1, <2>2, VraieCroit DEF TMagasin, Grandit
<1>5. /\ pc'[d] = "page" => EstPage(page'[d], apprise', neuves')
      /\ EstLot(lot'[d], apprise', neuves')
      /\ examen'[d] # Rien =>
           Vraie(apprise', neuves', examen'[d].id, examen'[d].contenu)
  BY <1>2, <1>3, <1>4
<1>6. QED
  BY <1>1, <1>5 DEF EstCycle

LEMMA TCycleMeme ==
  ASSUME TMagasin, TCycle, Grandit, UNCHANGED <<pc, page, examen, lot, bases>>
  PROVE  TCycle'
<1>1. \A d \in Appareils : EstCycle(d)'
  BY CycleMeme
<1>2. QED
  BY <1>1 DEF TCycle

\* Only the cell of d and i changes.
Case(f, g, d, i) ==
  \A e \in Appareils, j \in Ids : e # d \/ j # i => g[e][j] = f[e][j]

LEMMA CaseEcrite ==
  ASSUME NEW S, NEW f \in [Appareils -> [Ids -> S]], NEW g, NEW v \in S,
         NEW d \in Appareils, NEW i \in Ids, g = [f EXCEPT ![d][i] = v]
  PROVE  /\ g \in [Appareils -> [Ids -> S]] /\ g[d][i] = v
         /\ Case(f, g, d, i)
BY DEF Case

LEMMA CaseMeme ==
  ASSUME NEW f, NEW d, NEW i
  PROVE  Case(f, f, d, i)
BY DEF Case

LEMMA TServeurMeme ==
  ASSUME TMagasin, TServeur, Grandit, UNCHANGED <<serveur, errantes>>
  PROVE  TServeur'
<1>1. /\ EstServeur(objets, seq, apprise', neuves')
      /\ EstServeur(copie.objets, copie.seq, apprise', neuves')
  BY EstServeurCroit DEF TServeur, TMagasin, Grandit
<1>2. ASSUME NEW l \in errantes
      PROVE  EstLot(l, apprise', neuves')
  BY EstLotCroit DEF TServeur, TMagasin, Grandit
<1>3. QED
  BY <1>1, <1>2 DEF TServeur, serveur

-----------------------------------------------------------------------------
(* Every step keeps the types                                              *)

\* The store joins a content to its row.
Recoit(d, i, c) == Poser(d, i, Recue(locale[d][i], c))

\* What a view does is a content the store joins: one dated now or up to Absence
\* ago, or the deletion of a live row.
Ecrit(d, i, c) ==
  /\ Recoit(d, i, c)
  /\ IF c.morte THEN EstVivante(locale[d][i]) ELSE c.date + Absence >= Horloge(d)
  /\ i \notin neuves' /\ neuves' \subseteq neuves
  /\ UNCHANGED <<tables, session, cycle, serveur, errantes, maintenant>>

LEMMA EcritCreer ==
  ASSUME TMagasin, NEW d \in Appareils, NEW i \in Ids, NEW k \in Messages,
         Creer(d, i, k)
  PROVE  \E c \in Contenu : Ecrit(d, i, c)
<1>1. PICK c : c = Vivante(Horloge(d), {k})
  OBVIOUS
<1>2. Horloge(d) \in Nat
  BY HorlogeEst DEF TMagasin
<1>3. c \in Contenu /\ c.date = Horloge(d) /\ ~c.morte
  BY <1>1, <1>2, VivanteEst
<1>4. locale[d][i] = Rien
  BY DEF Creer, TMagasin
<1>5. Recue(locale[d][i], c) = c
  BY <1>3, <1>4, RecueEst
<1>6. c.date + Absence >= Horloge(d)
  BY <1>2, <1>3, EngineNumbers
<1>7. Recoit(d, i, c)
  BY <1>1, <1>5 DEF Recoit, Creer
<1>8. QED
  BY <1>3, <1>6, <1>7 DEF Ecrit, Creer

LEMMA EcritEcrire ==
  ASSUME TMagasin, NEW d \in Appareils, NEW i \in Ids, NEW k \in Messages,
         Ecrire(d, i, k)
  PROVE  \E c \in Contenu : Ecrit(d, i, c)
<1>1. PICK base : base = IF EstVivante(locale[d][i]) THEN locale[d][i]
                         ELSE ancienne[d][i]
  OBVIOUS
<1>2. /\ base # Rien
      /\ \E n \in {MaxDe(base.date + 1, Horloge(d) - a) : a \in 0..Absence} :
           Poser(d, i, Recue(locale[d][i], Vivante(n, base.messages \cup {k})))
      /\ neuves' = neuves
      /\ UNCHANGED <<tables, session, cycle, serveur, errantes, maintenant>>
  BY <1>1 DEF Ecrire
<1>3. PICK a \in 0..Absence :
        Poser(d, i, Recue(locale[d][i],
          Vivante(MaxDe(base.date + 1, Horloge(d) - a), base.messages \cup {k})))
  BY <1>2
<1>4. base \in Contenu /\ i \notin neuves
  BY <1>1, <1>2 DEF TMagasin, EstVivante
<1>5. PICK n : n = MaxDe(base.date + 1, Horloge(d) - a)
  OBVIOUS
<1>6. Horloge(d) \in Nat /\ Absence \in Nat /\ base.date \in Nat
  BY <1>4, HorlogeEst, EngineNumbers, ContenuEst DEF TMagasin
<1>7. n \in Nat /\ n + Absence >= Horloge(d)
  BY <1>5, <1>6 DEF MaxDe
<1>8. PICK c : c = Vivante(n, base.messages \cup {k})
  OBVIOUS
<1>9. c \in Contenu /\ c.date = n /\ ~c.morte
  BY <1>4, <1>7, <1>8, VivanteEst, ContenuEst
<1>10. Recoit(d, i, c)
  BY <1>3, <1>5, <1>8 DEF Recoit
<1>11. QED
  BY <1>2, <1>4, <1>7, <1>9, <1>10 DEF Ecrit

LEMMA EcritSupprimer ==
  ASSUME TMagasin, NEW d \in Appareils, NEW i \in Ids, Supprimer(d, i)
  PROVE  \E c \in Contenu : Ecrit(d, i, c)
<1>1. PICK n : n = MaxDe(Horloge(d), locale[d][i].date + 1)
  OBVIOUS
<1>2. /\ EstVivante(locale[d][i]) /\ Poser(d, i, Tombale(n))
      /\ UNCHANGED <<tables, session, cycle, serveur, errantes, autour>>
  BY <1>1 DEF Supprimer
<1>3. locale[d][i] \in Contenu /\ ~locale[d][i].morte /\ i \notin neuves
  BY <1>2 DEF TMagasin, EstVivante
<1>4. locale[d][i].date \in Nat /\ Horloge(d) \in Nat
  BY <1>3, HorlogeEst, ContenuEst DEF TMagasin
<1>5. n \in Nat /\ n > locale[d][i].date
  BY <1>1, <1>4 DEF MaxDe
<1>6. PICK c : c = Tombale(n)
  OBVIOUS
<1>7. c \in Contenu /\ c.morte /\ c.date = n
  BY <1>5, <1>6, TombaleEst
<1>8. Recue(locale[d][i], c) = c
  BY <1>3, <1>4, <1>5, <1>7 DEF Recue
<1>9. Recoit(d, i, c)
  BY <1>2, <1>6, <1>8 DEF Recoit
<1>10. QED
  BY <1>2, <1>3, <1>7, <1>9 DEF Ecrit, autour

LEMMA PoserTypes ==
  ASSUME TMagasin, NEW d \in Appareils, NEW i \in Ids, NEW c \in Contenu,
         Poser(d, i, c), i \notin neuves', neuves' \subseteq neuves,
         maintenant' = maintenant
  PROVE  TMagasin' /\ Grandit
<1>1. Horloge(d) \in Nat /\ c.date \in Nat /\ c # Rien
  BY HorlogeEst, ContenuEst DEF TMagasin
<1>2. locale' = [locale EXCEPT ![d][i] = c]
  BY DEF Poser
<1>3. locale' \in [Appareils -> [Ids -> Contenu \cup {Rien}]]
  BY <1>2 DEF TMagasin
<1>4. PICK n \in Nat : posee' = [posee EXCEPT ![d][i] = n]
  <2>1. PICK n : n = IF c.morte
                     THEN IF c = locale[d][i] THEN posee[d][i] ELSE Horloge(d)
                     ELSE 0
    OBVIOUS
  <2>2. n \in Nat /\ posee' = [posee EXCEPT ![d][i] = n]
    BY <1>1, <2>1 DEF Poser, TMagasin
  <2>3. QED
    BY <2>2
<1>5. PICK z \in Contenu \cup {Rien} :
        /\ ancienne' = [ancienne EXCEPT ![d][i] = z]
        /\ z # Rien => ~z.morte
  <2>1. PICK z : z = IF c.morte /\ EstVivante(locale[d][i]) THEN locale[d][i]
                     ELSE ancienne[d][i]
    OBVIOUS
  <2>2. /\ z \in Contenu \cup {Rien}
        /\ z # Rien => ~z.morte
        /\ ancienne' = [ancienne EXCEPT ![d][i] = z]
    BY <2>1 DEF Poser, TMagasin, EstVivante
  <2>3. QED
    BY <2>2
<1>6. PICK m \in Nat \cup {-1} :
        /\ apprise' = [apprise EXCEPT ![d][i] = m]
        /\ m >= apprise[d][i]
        /\ c.morte => m >= c.date
  <2>1. PICK m : m = IF c.morte THEN MaxDe(apprise[d][i], c.date)
                     ELSE apprise[d][i]
    OBVIOUS
  <2>2. apprise[d][i] \in Nat \cup {-1}
    BY DEF TMagasin, Apprises
  <2>3. /\ m \in Nat \cup {-1} /\ m >= apprise[d][i]
        /\ c.morte => m >= c.date
    BY <1>1, <2>1, <2>2 DEF MaxDe
  <2>4. apprise' = [apprise EXCEPT ![d][i] = m]
    BY <2>1 DEF Poser
  <2>5. QED
    BY <2>3, <2>4
<1>7. /\ aExporter' \in [Appareils -> SUBSET Ids]
      /\ \A e \in Appareils, j \in Ids :
           j \in aExporter'[e] => j \in aExporter[e] \/ (e = d /\ j = i)
  BY DEF Poser, TMagasin
<1>8. apprise \in [Appareils -> [Ids -> Nat \cup {-1}]]
  BY DEF TMagasin, Apprises
<1>9. Grandit
  BY <1>6, <1>8 DEF Grandit, Apprises
<1>10. ASSUME NEW e \in Appareils, NEW j \in Ids
       PROVE  /\ locale'[e][j] # Rien => j \notin neuves'
              /\ EstTombale(locale'[e][j]) => apprise'[e][j] >= locale'[e][j].date
              /\ ancienne'[e][j] # Rien => j \notin neuves' /\ ~ancienne'[e][j].morte
              /\ j \in aExporter'[e] => locale'[e][j] # Rien
  <2>1. CASE e = d /\ j = i
    <3>1. locale'[e][j] = c /\ apprise'[e][j] = m /\ ancienne'[e][j] = z
      BY <1>2, <1>5, <1>6, <1>8, <2>1 DEF TMagasin
    <3>2. QED
      BY <1>1, <1>5, <1>6, <2>1, <3>1, ContenuEst
  <2>2. CASE ~(e = d /\ j = i)
    <3>1. /\ locale'[e][j] = locale[e][j] /\ apprise'[e][j] = apprise[e][j]
          /\ ancienne'[e][j] = ancienne[e][j]
          /\ j \in aExporter'[e] => j \in aExporter[e]
      BY <1>2, <1>5, <1>6, <1>7, <1>8, <2>2 DEF TMagasin
    <3>2. QED
      BY <3>1 DEF TMagasin
  <2>3. QED
    BY <2>1, <2>2
<1>11. /\ posee' \in [Appareils -> [Ids -> Nat]]
       /\ ancienne' \in [Appareils -> [Ids -> Contenu \cup {Rien}]]
       /\ apprise' \in Apprises
  BY <1>4, <1>5, <1>9 DEF TMagasin, Grandit
<1>12. QED
  BY <1>3, <1>7, <1>9, <1>10, <1>11 DEF TMagasin

LEMMA PurgerTypes ==
  ASSUME TMagasin, NEW d \in Appareils, NEW i \in Ids, Purger(d, i)
  PROVE  TMagasin' /\ Grandit
<1>1. /\ locale' = [locale EXCEPT ![d][i] = Rien]
      /\ posee' = [posee EXCEPT ![d][i] = 0]
      /\ aExporter' = [aExporter EXCEPT ![d] = @ \ {i}]
      /\ UNCHANGED <<ancienne, apprise, autour>>
  BY DEF Purger
<1>2. apprise' = apprise /\ ancienne' = ancienne /\ neuves' = neuves
      /\ maintenant' = maintenant
  BY <1>1 DEF autour
<1>3. Grandit
  BY <1>2, GranditMeme
<1>4. /\ locale' \in [Appareils -> [Ids -> Contenu \cup {Rien}]]
      /\ posee' \in [Appareils -> [Ids -> Nat]]
      /\ aExporter' \in [Appareils -> SUBSET Ids]
  BY <1>1 DEF TMagasin
<1>5. ASSUME NEW e \in Appareils, NEW j \in Ids
      PROVE  /\ locale'[e][j] # Rien => locale'[e][j] = locale[e][j]
             /\ j \in aExporter'[e] =>
                  j \in aExporter[e] /\ locale'[e][j] = locale[e][j]
  BY <1>1 DEF TMagasin
<1>6. ASSUME NEW e \in Appareils, NEW j \in Ids
      PROVE  /\ locale'[e][j] # Rien => j \notin neuves'
             /\ EstTombale(locale'[e][j]) => apprise'[e][j] >= locale'[e][j].date
             /\ ancienne'[e][j] # Rien => j \notin neuves' /\ ~ancienne'[e][j].morte
             /\ j \in aExporter'[e] => locale'[e][j] # Rien
  BY <1>2, <1>5 DEF TMagasin, EstTombale
<1>7. QED
  BY <1>2, <1>3, <1>4, <1>6 DEF TMagasin

LEMMA TTablesCase ==
  ASSUME TMagasin, TTables, UNCHANGED <<apprise, neuves>>,
         NEW d \in Appareils, NEW i \in Ids, i \notin neuves,
         connu' \in [Appareils -> [Ids -> Connu \cup {Rien}]],
         sortant' \in [Appareils -> [Ids -> Sortant \cup {Rien}]],
         plancher' \in [Appareils -> [Ids -> Nat \cup {-1}]],
         Case(connu, connu', d, i), Case(sortant, sortant', d, i),
         Case(plancher, plancher', d, i),
         sortant'[d][i] # Rien => sortant'[d][i].supprime <= plancher'[d][i],
         plancher'[d][i] # -1 => Supp(apprise, i, plancher'[d][i])
  PROVE  TTables'
<1>1. ASSUME NEW e \in Appareils, NEW j \in Ids
      PROVE  /\ connu'[e][j] # Rien => j \notin neuves
             /\ sortant'[e][j] # Rien =>
                  j \notin neuves /\ sortant'[e][j].supprime <= plancher'[e][j]
             /\ plancher'[e][j] # -1 => Supp(apprise, j, plancher'[e][j])
  BY DEF TTables, Case
<1>2. QED
  BY <1>1 DEF TTables

LEMMA ExporterTypes ==
  ASSUME TMagasin, TTables, NEW d \in Appareils, Exporter(d),
         UNCHANGED <<locale, posee, ancienne, apprise, neuves, maintenant, connu>>
  PROVE  /\ TMagasin' /\ TTables'
         /\ \A i \in Ids : /\ plancher'[d][i] = PlancherExporte(d, i)
                           /\ sortant'[d][i] = SortantExporte(d, i)
         /\ \A e \in Appareils, i \in Ids : e # d =>
              plancher'[e][i] = plancher[e][i] /\ sortant'[e][i] = sortant[e][i]
         /\ \A e \in Appareils :
              aExporter'[e] = IF e = d THEN {} ELSE aExporter[e]
<1>1. /\ plancher' = [plancher EXCEPT ![d] = [i \in Ids |-> PlancherExporte(d, i)]]
      /\ sortant' = [sortant EXCEPT ![d] = [i \in Ids |-> SortantExporte(d, i)]]
      /\ aExporter' = [aExporter EXCEPT ![d] = {}]
  BY DEF Exporter
<1>2. ASSUME NEW i \in Ids
      PROVE  /\ PlancherExporte(d, i) \in Nat \cup {-1}
             /\ PlancherExporte(d, i) >= plancher[d][i]
             /\ PlancherExporte(d, i) # -1 => Supp(apprise, i, PlancherExporte(d, i))
  <2>1. /\ plancher[d][i] \in Nat \cup {-1}
        /\ plancher[d][i] # -1 => Supp(apprise, i, plancher[d][i])
    BY DEF TTables
  <2>2. CASE i \in aExporter[d] /\ EstTombale(locale[d][i])
    <3>1. locale[d][i] \in Contenu /\ apprise[d][i] >= locale[d][i].date
      BY <2>2 DEF TMagasin, EstTombale
    <3>2. locale[d][i].date \in Nat /\ Supp(apprise, i, locale[d][i].date)
      BY <3>1, ContenuEst DEF Supp
    <3>3. PlancherExporte(d, i) = MaxDe(plancher[d][i], locale[d][i].date)
      BY <2>2 DEF PlancherExporte
    <3>4. QED
      BY <2>1, <3>2, <3>3 DEF MaxDe
  <2>3. CASE ~(i \in aExporter[d] /\ EstTombale(locale[d][i]))
    BY <2>1, <2>3 DEF PlancherExporte
  <2>4. QED
    BY <2>2, <2>3
<1>3. ASSUME NEW i \in Ids
      PROVE  /\ SortantExporte(d, i) \in Sortant \cup {Rien}
             /\ SortantExporte(d, i) # Rien =>
                  /\ i \notin neuves
                  /\ SortantExporte(d, i).supprime <= PlancherExporte(d, i)
  <2>1. /\ sortant[d][i] \in Sortant \cup {Rien} /\ plancher[d][i] \in Nat \cup {-1}
        /\ sortant[d][i] # Rien =>
             /\ i \notin neuves /\ sortant[d][i].supprime <= plancher[d][i]
             /\ sortant[d][i].supprime \in Nat \cup {-1}
    BY DEF TTables, Sortant
  <2>2. CASE i \notin aExporter[d]
    BY <1>2, <2>1, <2>2 DEF SortantExporte
  <2>3. CASE i \in aExporter[d]
    <3>1. locale[d][i] \in Contenu /\ i \notin neuves
      BY <2>3 DEF TMagasin
    <3>2. PICK n : n = IF locale[d][i].morte THEN locale[d][i].date ELSE -1
      OBVIOUS
    <3>3. n \in Nat \cup {-1} /\ n <= PlancherExporte(d, i)
      <4>1. CASE locale[d][i].morte
        <5>1. PlancherExporte(d, i) = MaxDe(plancher[d][i], locale[d][i].date)
          BY <2>3, <3>1, <4>1, ContenuEst DEF PlancherExporte
        <5>2. QED
          BY <2>1, <3>1, <3>2, <4>1, <5>1, ContenuEst DEF MaxDe
      <4>2. CASE ~locale[d][i].morte
        BY <1>2, <3>2, <4>2
      <4>3. QED
        BY <4>1, <4>2
    <3>4. SortantExporte(d, i) \in {Rien, Ajouter(sortant[d][i], n)}
      BY <2>3, <3>2 DEF SortantExporte
    <3>5. sortant[d][i] # Rien => sortant[d][i].supprime <= PlancherExporte(d, i)
      BY <1>2, <2>1
    <3>6. /\ Ajouter(sortant[d][i], n) \in Sortant
          /\ Ajouter(sortant[d][i], n).supprime <= PlancherExporte(d, i)
      BY <1>2, <2>1, <3>3, <3>5, AjouterEst
    <3>7. QED
      BY <3>1, <3>4, <3>6
  <2>4. QED
    BY <2>2, <2>3
<1>4. /\ plancher' \in [Appareils -> [Ids -> Nat \cup {-1}]]
      /\ \A i \in Ids : plancher'[d][i] = PlancherExporte(d, i)
      /\ \A e \in Appareils, i \in Ids : e # d => plancher'[e][i] = plancher[e][i]
  BY <1>1, <1>2 DEF TTables
<1>5. /\ sortant' \in [Appareils -> [Ids -> Sortant \cup {Rien}]]
      /\ \A i \in Ids : sortant'[d][i] = SortantExporte(d, i)
      /\ \A e \in Appareils, i \in Ids : e # d => sortant'[e][i] = sortant[e][i]
  BY <1>1, <1>3 DEF TTables
<1>6. /\ aExporter' \in [Appareils -> SUBSET Ids]
      /\ \A e \in Appareils : aExporter'[e] = IF e = d THEN {} ELSE aExporter[e]
  BY <1>1 DEF TMagasin
<1>7. TMagasin'
  BY <1>6 DEF TMagasin
<1>8. ASSUME NEW e \in Appareils, NEW j \in Ids
      PROVE  /\ sortant'[e][j] # Rien =>
                  j \notin neuves /\ sortant'[e][j].supprime <= plancher'[e][j]
             /\ plancher'[e][j] # -1 => Supp(apprise, j, plancher'[e][j])
  <2>1. CASE e = d
    BY <1>2, <1>3, <1>4, <1>5, <2>1
  <2>2. CASE e # d
    BY <1>4, <1>5, <2>2 DEF TTables
  <2>3. QED
    BY <2>1, <2>2
<1>9. TTables'
  BY <1>4, <1>5, <1>8 DEF TTables
<1>10. QED
  BY <1>4, <1>5, <1>6, <1>7, <1>9

LEMMA AppliquerLotTypes ==
  ASSUME TServeur, NEW l, EstLot(l, apprise, neuves),
         NEW numero \in Numeros(l), AppliquerLot(l, numero)
  PROVE  /\ EstServeur(objets', seq', apprise, neuves)
         /\ \A i \in Ids \ Stockes(l) : objets'[i] = objets[i]
         /\ \A i \in Stockes(l) :
              /\ objets'[i] # Rien /\ objets'[i].contenu = l[i].contenu
              /\ objets'[i].rev = l[i].base + 1
<1>1. IsFiniteSet(Stockes(l)) /\ Cardinality(Stockes(l)) \in Nat
  <2>1. Stockes(l) \subseteq Ids
    BY DEF Stockes
  <2>2. QED
    BY <2>1, EngineValues, FS_Subset, FS_CardinalityType
<1>2. seq \in Nat /\ seq' \in Nat
  BY <1>1 DEF TServeur, EstServeur, AppliquerLot
<1>3. ASSUME NEW i \in Stockes(l)
      PROVE  numero[i] \in Nat
  <2>1. numero[i] \in (seq + 1)..(seq + Cardinality(Stockes(l)))
    BY DEF Numeros
  <2>2. QED
    BY <1>1, <1>2, <2>1
<1>4. ASSUME NEW i \in Stockes(l)
      PROVE  /\ i \in Ids /\ objets'[i] \in Objet /\ objets'[i] # Rien
             /\ objets'[i].contenu = l[i].contenu
             /\ objets'[i].rev = l[i].base + 1
             /\ Vraie(apprise, neuves, i, objets'[i].contenu)
  <2>1. i \in Ids /\ l[i] # Rien
    BY DEF Stockes
  <2>2. l[i].contenu \in Contenu /\ l[i].base \in Nat
    BY <2>1 DEF EstLot, Parti
  <2>3. objets'[i] = [rev |-> l[i].base + 1, seq |-> numero[i],
                      contenu |-> l[i].contenu]
    BY <2>1 DEF AppliquerLot
  <2>4. objets'[i] \in Objet
    BY <1>3, <2>2, <2>3 DEF Objet
  <2>5. Vraie(apprise, neuves, i, l[i].contenu)
    BY <2>1 DEF EstLot
  <2>6. QED
    BY <2>1, <2>3, <2>4, <2>5, RienHors
<1>5. ASSUME NEW i \in Ids, i \notin Stockes(l)
      PROVE  objets'[i] = objets[i]
  BY <1>5 DEF AppliquerLot
<1>6. objets' \in [Ids -> Objet \cup {Rien}]
  <2>1. objets' = [i \in Ids |-> objets'[i]]
    BY DEF AppliquerLot
  <2>2. \A i \in Ids : objets'[i] \in Objet \cup {Rien}
    BY <1>4, <1>5 DEF TServeur, EstServeur
  <2>3. QED
    BY <2>1, <2>2
<1>7. \A i \in Ids : objets'[i] # Rien => Vraie(apprise, neuves, i, objets'[i].contenu)
  BY <1>4, <1>5 DEF TServeur, EstServeur
<1>8. QED
  BY <1>2, <1>4, <1>5, <1>6, <1>7 DEF EstServeur

\* The cycles of the other devices stay where they are.
Autres(d) ==
  \A e \in Appareils : e # d =>
    /\ pc'[e] = pc[e] /\ page'[e] = page[e] /\ examen'[e] = examen[e]
    /\ lot'[e] = lot[e] /\ bases'[e] = bases[e]

LEMMA TCycleDe ==
  ASSUME TMagasin, TCycle, Grandit, NEW d \in Appareils, Autres(d),
         pc' \in [Appareils -> Phases], DOMAIN page' = Appareils,
         examen' \in [Appareils -> Examen \cup {Rien}],
         lot' \in [Appareils -> [Ids -> Parti \cup {Rien}]],
         bases' \in [Appareils -> [Ids -> Nat \cup {-1}]],
         EstCycle(d)'
  PROVE  TCycle'
<1>1. ASSUME NEW e \in Appareils, e # d
      PROVE  EstCycle(e)'
  BY <1>1, CycleMeme DEF Autres
<1>2. QED
  BY <1>1 DEF TCycle

\* What a step of a cycle that leaves the store alone owes.
LEMMA TypesMeme ==
  ASSUME Types, UNCHANGED <<magasin, maintenant, neuves>>
  PROVE  TMagasin' /\ Grandit
BY TMagasinMeme, GranditMeme DEF Types, magasin

LEMMA CommencerTypes ==
  ASSUME Types, NEW d \in Appareils, Commencer(d)
  PROVE  Types'
<1>1. TMagasin' /\ TTables' /\ Grandit
  BY ExporterTypes, GranditMeme DEF Types, Commencer, autour
<1>2. TServeur'
  BY <1>1, TServeurMeme DEF Types, Commencer
<1>3. /\ pc' = [pc EXCEPT ![d] = "tire"] /\ pc[d] = "repos"
      /\ UNCHANGED <<page, examen, lot, bases, apprise, neuves>>
  BY DEF Commencer, autour
<1>4. pc' \in [Appareils -> Phases] /\ pc'[d] = "tire" /\ Autres(d)
  BY <1>3 DEF Types, TCycle, Phases, Autres
<1>5. EstCycle(d)'
  BY <1>3, <1>4 DEF Types, TCycle, EstCycle
<1>6. TCycle'
  BY <1>1, <1>3, <1>4, <1>5, TCycleDe DEF Types, TCycle
<1>7. QED
  BY <1>1, <1>2, <1>6 DEF Types

LEMMA ConclureTypes ==
  ASSUME Types, NEW d \in Appareils, Conclure(d)
  PROVE  Types'
<1>1. TMagasin' /\ TTables' /\ Grandit
  BY ExporterTypes, GranditMeme DEF Types, Conclure, autour
<1>2. TServeur'
  BY <1>1, TServeurMeme DEF Types, Conclure
<1>3. /\ pc' = [pc EXCEPT ![d] = "repos"] /\ pc[d] = "conclut"
      /\ bases' = [bases EXCEPT ![d] = [i \in Ids |-> -1]]
      /\ UNCHANGED <<page, examen, lot, apprise, neuves>>
  BY DEF Conclure, autour
<1>4. /\ pc' \in [Appareils -> Phases] /\ pc'[d] = "repos" /\ Autres(d)
      /\ bases' \in [Appareils -> [Ids -> Nat \cup {-1}]]
  BY <1>3 DEF Types, TCycle, Phases, Autres
<1>5. EstCycle(d)'
  BY <1>3, <1>4 DEF Types, TCycle, EstCycle
<1>6. TCycle'
  BY <1>1, <1>3, <1>4, <1>5, TCycleDe DEF Types, TCycle
<1>7. QED
  BY <1>1, <1>2, <1>6 DEF Types

LEMMA PageEst ==
  ASSUME TServeur, NEW n
  PROVE  /\ EstPage(Page(n), apprise, neuves)
         /\ \A i \in Ids : Page(n).elements[i] \in {objets[i], Rien}
<1>1. PICK rendus : rendus = {i \in Nouveaux(n) :
        Cardinality({j \in Nouveaux(n) : objets[j].seq <= objets[i].seq})
          <= PageMax}
  OBVIOUS
<1>2. PICK u, h : Page(n) =
        [elements |-> [i \in Ids |-> IF i \in rendus THEN objets[i] ELSE Rien],
         until |-> u, hasMore |-> h]
  BY <1>1 DEF Page
<1>3. QED
  BY <1>2 DEF EstPage, TServeur, EstServeur

LEMMA DemanderPageTypes ==
  ASSUME Types, NEW d \in Appareils, DemanderPage(d)
  PROVE  /\ Types' /\ Autres(d)
         /\ pc[d] = "tire" /\ UNCHANGED <<examen, lot, bases>>
         /\ pc'[d] = "page" =>
              \A i \in Ids : page'[d].elements[i] \in {objets[i], Rien}
         /\ pc'[d] \in {"tire", "page"}
<1>1. TMagasin' /\ Grandit
  BY TypesMeme DEF DemanderPage, autour
<1>2. TTables' /\ TServeur'
  BY <1>1, TTablesMeme, TServeurMeme DEF Types, DemanderPage
<1>3. /\ pc[d] = "tire" /\ UNCHANGED <<examen, lot, bases, apprise, neuves>>
      /\ \/ UNCHANGED <<pc, page>>
         \/ /\ pc' = [pc EXCEPT ![d] = "page"]
            /\ page' = [page EXCEPT ![d] = Page(curseur[d])]
  BY DEF DemanderPage, JugerMeta, magasin, autour
<1>4. lot[d] = Aucun /\ examen[d] = Rien
  BY <1>3 DEF Types, TCycle, EstCycle
<1>5. CASE UNCHANGED <<pc, page>>
  <2>1. TCycle' /\ Autres(d)
    BY <1>1, <1>3, <1>5, TCycleMeme DEF Types, Autres
  <2>2. QED
    BY <1>1, <1>2, <1>3, <1>5, <2>1 DEF Types
<1>6. CASE /\ pc' = [pc EXCEPT ![d] = "page"]
           /\ page' = [page EXCEPT ![d] = Page(curseur[d])]
  <2>1. /\ pc' \in [Appareils -> Phases] /\ pc'[d] = "page"
        /\ DOMAIN page' = Appareils /\ page'[d] = Page(curseur[d]) /\ Autres(d)
    BY <1>3, <1>6 DEF Types, TCycle, Phases, Autres
  <2>2. /\ EstPage(page'[d], apprise, neuves)
        /\ \A i \in Ids : page'[d].elements[i] \in {objets[i], Rien}
    BY <2>1, PageEst DEF Types
  <2>3. EstCycle(d)'
    BY <1>3, <1>4, <2>1, <2>2 DEF Types, TCycle, EstCycle, Aucun
  <2>4. TCycle'
    BY <1>1, <1>3, <2>1, <2>3, TCycleDe DEF Types, TCycle
  <2>5. QED
    BY <1>1, <1>2, <1>3, <2>1, <2>2, <2>4 DEF Types
<1>7. QED
  BY <1>3, <1>5, <1>6

LEMMA ExaminerTypes ==
  ASSUME Types, NEW d \in Appareils, NEW i \in Ids, Examiner(d, i)
  PROVE  /\ Types' /\ Autres(d) /\ UNCHANGED <<pc, lot, bases>>
         /\ pc[d] = "page" /\ examen[d] = Rien /\ page[d].elements[i] # Rien
         /\ examen'[d] = [id |-> i, rev |-> page[d].elements[i].rev,
                          contenu |-> page[d].elements[i].contenu,
                          etape |-> "lire"]
         /\ examen'[d] # Rien => examen'[d] \in Examen
         /\ page'[d].elements[i] = Rien
         /\ \A j \in Ids : j # i => page'[d].elements[j] = page[d].elements[j]
<1>1. TMagasin' /\ Grandit
  BY TypesMeme DEF Examiner, autour
<1>2. TTables' /\ TServeur'
  BY <1>1, TTablesMeme, TServeurMeme DEF Types, Examiner, tables
<1>3. PICK x : x = [id |-> i, rev |-> page[d].elements[i].rev,
                    contenu |-> page[d].elements[i].contenu, etape |-> "lire"]
  OBVIOUS
<1>4. /\ pc[d] = "page" /\ examen[d] = Rien /\ page[d].elements[i] # Rien
      /\ examen' = [examen EXCEPT ![d] = x]
      /\ page' = [page EXCEPT ![d].elements[i] = Rien]
      /\ UNCHANGED <<pc, lot, bases, apprise, neuves>>
  BY <1>3 DEF Examiner, magasin, autour
<1>5. EstPage(page[d], apprise, neuves) /\ lot[d] = Aucun
  BY <1>4 DEF Types, TCycle, EstCycle
<1>6. page[d].elements[i] \in Objet /\ Vraie(apprise, neuves, i, page[d].elements[i].contenu)
  BY <1>4, <1>5 DEF EstPage
<1>7. x \in Examen
  BY <1>3, <1>6 DEF Examen, Objet
<1>8. /\ examen' \in [Appareils -> Examen \cup {Rien}] /\ examen'[d] = x
      /\ DOMAIN page' = Appareils
      /\ page'[d] = [page[d] EXCEPT !.elements = [page[d].elements EXCEPT ![i] = Rien]]
      /\ Autres(d)
  BY <1>4, <1>7 DEF Types, TCycle, Autres
<1>9. /\ page'[d] = [elements |-> [page[d].elements EXCEPT ![i] = Rien],
                     until |-> page[d].until, hasMore |-> page[d].hasMore]
      /\ page'[d].elements = [page[d].elements EXCEPT ![i] = Rien]
  BY <1>5, <1>8 DEF EstPage
<1>10. /\ page'[d].elements \in [Ids -> Objet \cup {Rien}]
       /\ page'[d].elements[i] = Rien
       /\ \A j \in Ids : j # i => page'[d].elements[j] = page[d].elements[j]
  BY <1>5, <1>9 DEF EstPage
<1>11. EstPage(page'[d], apprise, neuves)
  BY <1>5, <1>9, <1>10 DEF EstPage
<1>12. EstCycle(d)'
  BY <1>3, <1>4, <1>5, <1>6, <1>8, <1>10, <1>11 DEF Types, TCycle, EstCycle, Aucun
<1>13. TCycle'
  BY <1>1, <1>4, <1>8, <1>12, TCycleDe DEF Types, TCycle
<1>14. QED
  BY <1>1, <1>2, <1>3, <1>4, <1>7, <1>8, <1>10, <1>13 DEF Types

\* A step that moves pc, drops the page and what is examined, and leaves an
\* empty batch.
LEMMA PhaseTypes ==
  ASSUME TMagasin, TCycle, Grandit, NEW d \in Appareils,
         NEW p \in Phases \ {"page", "vol", "issue"},
         pc' = [pc EXCEPT ![d] = p], lot'[d] = Aucun, examen'[d] = Rien,
         Autres(d), DOMAIN page' = Appareils,
         examen' \in [Appareils -> Examen \cup {Rien}],
         lot' \in [Appareils -> [Ids -> Parti \cup {Rien}]],
         bases' \in [Appareils -> [Ids -> Nat \cup {-1}]]
  PROVE  TCycle'
<1>1. pc' \in [Appareils -> Phases] /\ pc'[d] = p
  BY DEF TCycle
<1>2. EstCycle(d)'
  BY <1>1 DEF EstCycle, EstLot, Aucun
<1>3. QED
  BY <1>1, <1>2, TCycleDe

LEMMA FinirPageTypes ==
  ASSUME Types, NEW d \in Appareils, FinirPage(d)
  PROVE  /\ Types' /\ Autres(d) /\ UNCHANGED <<examen, lot, bases>>
         /\ pc'[d] # "page" /\ examen[d] = Rien
<1>1. TMagasin' /\ Grandit
  BY TypesMeme DEF FinirPage, autour
<1>2. TTables' /\ TServeur'
  BY <1>1, TTablesMeme, TServeurMeme DEF Types, FinirPage
<1>3. /\ pc[d] = "page" /\ examen[d] = Rien
      /\ page' = [page EXCEPT ![d] = Rien]
      /\ UNCHANGED <<examen, lot, bases>>
      /\ \E p \in {"tire", "absents", "pousse"} : pc' = [pc EXCEPT ![d] = p]
  BY DEF FinirPage, TirageFini
<1>4. PICK p \in Phases \ {"page", "vol", "issue"} : pc' = [pc EXCEPT ![d] = p]
  BY <1>3 DEF Phases
<1>5. lot[d] = Aucun /\ DOMAIN page' = Appareils /\ Autres(d) /\ pc'[d] = p
  BY <1>3, <1>4 DEF Types, TCycle, EstCycle, Autres
<1>6. TCycle'
  BY <1>1, <1>3, <1>4, <1>5, PhaseTypes DEF Types, TCycle
<1>7. QED
  BY <1>1, <1>2, <1>3, <1>5, <1>6 DEF Types

LEMMA FinirTirageTypes ==
  ASSUME Types, NEW d \in Appareils, FinirTirage(d)
  PROVE  /\ Types' /\ Autres(d) /\ UNCHANGED <<examen, lot, bases, page>>
         /\ pc'[d] # "page"
<1>1. TMagasin' /\ Grandit
  BY TypesMeme DEF FinirTirage, autour
<1>2. TTables' /\ TServeur'
  BY <1>1, TTablesMeme, TServeurMeme DEF Types, FinirTirage, tables
<1>3. /\ pc[d] = "absents" /\ UNCHANGED <<examen, lot, bases, page>>
      /\ pc' = [pc EXCEPT ![d] = "pousse"]
  BY DEF FinirTirage, TirageFini
<1>4. /\ lot[d] = Aucun /\ examen[d] = Rien /\ Autres(d) /\ pc'[d] = "pousse"
  BY <1>3 DEF Types, TCycle, EstCycle, Autres
<1>5. "pousse" \in Phases \ {"page", "vol", "issue"}
  BY DEF Phases
<1>6. TCycle'
  BY <1>1, <1>3, <1>4, <1>5, PhaseTypes DEF Types, TCycle
<1>7. QED
  BY <1>1, <1>2, <1>3, <1>4, <1>6 DEF Types

LEMMA FinirLotTypes ==
  ASSUME Types, NEW d \in Appareils, FinirLot(d)
  PROVE  /\ Types' /\ Autres(d) /\ UNCHANGED <<examen, lot, bases, page>>
         /\ pc'[d] # "page"
<1>1. TMagasin' /\ Grandit
  BY TypesMeme DEF FinirLot, autour
<1>2. TTables' /\ TServeur'
  BY <1>1, TTablesMeme, TServeurMeme DEF Types, FinirLot, tables
<1>3. /\ examen[d] = Rien /\ lot[d] = Aucun
      /\ UNCHANGED <<examen, lot, bases, page>>
      /\ pc' = [pc EXCEPT ![d] = "pousse"]
  BY DEF FinirLot
<1>4. Autres(d) /\ pc'[d] = "pousse"
  BY <1>3 DEF Types, TCycle, Autres
<1>5. "pousse" \in Phases \ {"page", "vol", "issue"}
  BY DEF Phases
<1>6. TCycle'
  BY <1>1, <1>3, <1>4, <1>5, PhaseTypes DEF Types, TCycle
<1>7. QED
  BY <1>1, <1>2, <1>3, <1>4, <1>6 DEF Types

\* The cycle of d is over: nothing of it is left.
Fini(d) ==
  /\ pc'[d] = "repos" /\ examen'[d] = Rien /\ lot'[d] = Aucun
  /\ bases'[d] = [i \in Ids |-> -1]

LEMMA AbandonnerTypes ==
  ASSUME TMagasin, TCycle, Grandit, NEW d \in Appareils, Abandonner(d)
  PROVE  TCycle' /\ Autres(d) /\ Fini(d)
<1>1. /\ pc' = [pc EXCEPT ![d] = "repos"]
      /\ page' = [page EXCEPT ![d] = Rien]
      /\ examen' = [examen EXCEPT ![d] = Rien]
      /\ lot' = [lot EXCEPT ![d] = Aucun]
      /\ bases' = [bases EXCEPT ![d] = [i \in Ids |-> -1]]
  BY DEF Abandonner
<1>2. Aucun \in [Ids -> Parti \cup {Rien}]
  BY DEF Aucun
<1>3. /\ DOMAIN page' = Appareils
      /\ examen' \in [Appareils -> Examen \cup {Rien}]
      /\ lot' \in [Appareils -> [Ids -> Parti \cup {Rien}]]
      /\ bases' \in [Appareils -> [Ids -> Nat \cup {-1}]]
      /\ Autres(d) /\ Fini(d)
  BY <1>1, <1>2 DEF TCycle, Autres, Fini
<1>4. "repos" \in Phases \ {"page", "vol", "issue"}
  BY DEF Phases
<1>5. QED
  BY <1>1, <1>3, <1>4, PhaseTypes DEF Fini

LEMMA InterrompreTypes ==
  ASSUME Types, NEW d \in Appareils, NEW arrivera \in BOOLEAN,
         Interrompre(d, arrivera)
  PROVE  /\ Types' /\ Autres(d) /\ Fini(d)
         /\ errantes' \subseteq errantes \cup {lot[d]}
         /\ errantes' # errantes => pc[d] = "vol"
<1>1. TMagasin' /\ Grandit
  BY TypesMeme DEF Interrompre
<1>2. TTables'
  BY <1>1, TTablesMeme DEF Types, Interrompre
<1>3. TCycle' /\ Autres(d) /\ Fini(d)
  BY <1>1, AbandonnerTypes DEF Types, Interrompre
<1>4. /\ errantes' \subseteq errantes \cup {lot[d]}
      /\ errantes' # errantes => pc[d] = "vol"
      /\ UNCHANGED <<serveur, apprise, neuves>>
  BY DEF Interrompre, magasin
<1>5. EstLot(lot[d], apprise, neuves)
  BY DEF Types, TCycle, EstCycle
<1>6. TServeur'
  BY <1>4, <1>5 DEF Types, TServeur, serveur
<1>7. QED
  BY <1>1, <1>2, <1>3, <1>4, <1>6 DEF Types

LEMMA RefuserTypes ==
  ASSUME Types, NEW d \in Appareils, Refuser(d)
  PROVE  Types' /\ Autres(d) /\ Fini(d)
<1>1. TMagasin' /\ Grandit
  BY TypesMeme DEF Refuser, autour
<1>2. TTables' /\ TServeur'
  BY <1>1, TTablesMeme, TServeurMeme DEF Types, Refuser
<1>3. TCycle' /\ Autres(d) /\ Fini(d)
  BY <1>1, AbandonnerTypes DEF Types, Refuser
<1>4. QED
  BY <1>1, <1>2, <1>3 DEF Types

EcritConnu(d, i, v) == connu' = [connu EXCEPT ![d][i] = v]

LEMMA CaseConnu ==
  ASSUME connu \in [Appareils -> [Ids -> Connu \cup {Rien}]], NEW v \in Connu \cup {Rien},
         NEW d \in Appareils, NEW i \in Ids, EcritConnu(d, i, v)
  PROVE  /\ connu' \in [Appareils -> [Ids -> Connu \cup {Rien}]]
         /\ connu'[d][i] = v /\ Case(connu, connu', d, i)
BY DEF Case, EcritConnu

EcritSortant(d, i, v) == sortant' = [sortant EXCEPT ![d][i] = v]

LEMMA CaseSortant ==
  ASSUME sortant \in [Appareils -> [Ids -> Sortant \cup {Rien}]], NEW v \in Sortant \cup {Rien},
         NEW d \in Appareils, NEW i \in Ids, EcritSortant(d, i, v)
  PROVE  /\ sortant' \in [Appareils -> [Ids -> Sortant \cup {Rien}]]
         /\ sortant'[d][i] = v /\ Case(sortant, sortant', d, i)
BY DEF Case, EcritSortant

EcritPlancher(d, i, v) == plancher' = [plancher EXCEPT ![d][i] = v]

LEMMA CasePlancher ==
  ASSUME plancher \in [Appareils -> [Ids -> Nat \cup {-1}]], NEW v \in Nat \cup {-1},
         NEW d \in Appareils, NEW i \in Ids, EcritPlancher(d, i, v)
  PROVE  /\ plancher' \in [Appareils -> [Ids -> Nat \cup {-1}]]
         /\ plancher'[d][i] = v /\ Case(plancher, plancher', d, i)
BY DEF Case, EcritPlancher

LEMMA CaseInchangee ==
  ASSUME NEW S, NEW f \in [Appareils -> [Ids -> S]], NEW d \in Appareils,
         NEW i \in Ids
  PROVE  f = [f EXCEPT ![d][i] = f[d][i]]
OBVIOUS

LEMMA RepousserTypes ==
  ASSUME Types, NEW d \in Appareils, NEW i \in Ids, RepousserAbsent(d, i)
  PROVE  /\ Types' /\ UNCHANGED <<pc, page, examen, lot, bases, plancher>>
         /\ connu[d][i] # Rien /\ connu'[d][i] = Oublier(connu[d][i])
         /\ sortant'[d][i] # Rien
         /\ Case(connu, connu', d, i) /\ Case(sortant, sortant', d, i)
<1>1. TMagasin' /\ Grandit
  BY TypesMeme DEF RepousserAbsent, autour
<1>2. TServeur' /\ TCycle'
  BY <1>1, TServeurMeme, TCycleMeme DEF Types, RepousserAbsent
<1>3. /\ connu[d][i] # Rien
      /\ connu' = [connu EXCEPT ![d][i] = Oublier(connu[d][i])]
      /\ sortant' = [sortant EXCEPT ![d][i] = Ajouter(sortant[d][i], plancher[d][i])]
      /\ UNCHANGED <<pc, page, examen, lot, bases, plancher, apprise, neuves>>
  BY DEF RepousserAbsent, Absents, magasin, autour
<1>4. /\ connu[d][i] \in Connu /\ plancher[d][i] \in Nat \cup {-1}
      /\ i \notin neuves /\ sortant[d][i] \in Sortant \cup {Rien}
      /\ sortant[d][i] # Rien => sortant[d][i].supprime <= plancher[d][i]
      /\ plancher[d][i] # -1 => Supp(apprise, i, plancher[d][i])
  BY <1>3 DEF Types, TTables
<1>5. Oublier(connu[d][i]) \in Connu \cup {Rien}
  BY <1>4, OublierEst
<1>6. PICK s : s = Ajouter(sortant[d][i], plancher[d][i])
  OBVIOUS
<1>7. s \in Sortant /\ s # Rien /\ s.supprime <= plancher[d][i]
  BY <1>4, <1>6, AjouterEst
<1>8. /\ connu' \in [Appareils -> [Ids -> Connu \cup {Rien}]]
      /\ connu'[d][i] = Oublier(connu[d][i]) /\ Case(connu, connu', d, i)
  <2>1. connu \in [Appareils -> [Ids -> Connu \cup {Rien}]]
    BY DEF Types, TTables
  <2>2. EcritConnu(d, i, Oublier(connu[d][i]))
    BY <1>3 DEF EcritConnu
  <2>3. QED
    BY <1>5, <2>1, <2>2, CaseConnu
<1>9. /\ sortant' \in [Appareils -> [Ids -> Sortant \cup {Rien}]]
      /\ sortant'[d][i] = s /\ Case(sortant, sortant', d, i)
  <2>1. /\ sortant \in [Appareils -> [Ids -> Sortant \cup {Rien}]]
        /\ s \in Sortant \cup {Rien}
    BY <1>7 DEF Types, TTables
  <2>2. EcritSortant(d, i, s)
    BY <1>3, <1>6 DEF EcritSortant
  <2>3. QED
    BY <2>1, <2>2, CaseSortant
<1>10. plancher' = plancher /\ Case(plancher, plancher', d, i)
  BY <1>3, CaseMeme
<1>11. TTables'
  BY <1>1, <1>3, <1>4, <1>7, <1>8, <1>9, <1>10, TTablesCase DEF Types, TTables
<1>12. QED
  BY <1>1, <1>2, <1>3, <1>7, <1>8, <1>9, <1>11 DEF Types

\* A step that takes in the object examined.
LEMMA ExamenTypes ==
  ASSUME TMagasin, TCycle, Grandit, NEW d \in Appareils, examen[d] # Rien,
         NEW x \in Examen \cup {Rien},
         x # Rien => x.id = examen[d].id /\ x.contenu = examen[d].contenu,
         examen' = [examen EXCEPT ![d] = x], UNCHANGED <<pc, page, lot>>,
         bases' \in [Appareils -> [Ids -> Nat \cup {-1}]],
         \A e \in Appareils : e # d => bases'[e] = bases[e]
  PROVE  TCycle' /\ Autres(d) /\ examen'[d] = x
<1>1. /\ examen' \in [Appareils -> Examen \cup {Rien}] /\ examen'[d] = x
      /\ Autres(d)
  BY DEF TCycle, Autres
<1>2. EstCycle(d)
  BY DEF TCycle
<1>3. /\ pc[d] = "page" => EstPage(page[d], apprise', neuves')
      /\ EstLot(lot[d], apprise', neuves')
  BY <1>2, EstPageCroit, EstLotCroit DEF EstCycle, TMagasin, Grandit
<1>4. /\ examen[d].id \in Ids /\ examen[d].contenu \in Contenu
      /\ Vraie(apprise, neuves, examen[d].id, examen[d].contenu)
  BY <1>2 DEF TCycle, Examen, EstCycle
<1>5. Vraie(apprise', neuves', examen[d].id, examen[d].contenu)
  BY <1>4, VraieCroit DEF TMagasin, Grandit
<1>6. EstCycle(d)'
  BY <1>1, <1>2, <1>3, <1>5 DEF EstCycle
<1>7. QED
  BY <1>1, <1>6, TCycleDe DEF TCycle

LEMMA ExamenEst ==
  ASSUME Types, NEW d \in Appareils, examen[d] # Rien
  PROVE  /\ examen[d] \in Examen /\ examen[d].id \in Ids
         /\ examen[d].rev \in Nat \ {0} /\ examen[d].contenu \in Contenu
         /\ Vraie(apprise, neuves, examen[d].id, examen[d].contenu)
         /\ examen[d].id \notin neuves
         /\ pc[d] \in {"page", "issue"} /\ lot[d][examen[d].id] = Rien
         /\ pc[d] = "page" => page[d].elements[examen[d].id] = Rien
<1>1. examen[d] \in Examen
  BY DEF Types, TCycle
<1>2. QED
  BY <1>1 DEF Types, TCycle, EstCycle, Examen, Vraie

LEMMA EtapeEst ==
  ASSUME NEW e \in Examen, NEW s \in {"lire", "tombale", "noter", "renvoyer"},
         NEW x, x = [e EXCEPT !.etape = s]
  PROVE  /\ x \in Examen /\ x.id = e.id /\ x.rev = e.rev
         /\ x.contenu = e.contenu /\ x.etape = s
BY DEF Examen

\* What the cell of the conversation examined becomes: the rest stays.
Note(d) ==
  /\ Case(connu, connu', d, examen[d].id) /\ Case(sortant, sortant', d, examen[d].id)
  /\ Case(plancher, plancher', d, examen[d].id) /\ Case(bases, bases', d, examen[d].id)
  /\ Autres(d) /\ UNCHANGED <<pc, page, lot>>

\* What is noted of the server: connu, the floor of a deletion, and possibly
\* the line of sortants that goes.
LEMMA NoterTypes ==
  ASSUME Types, NEW d \in Appareils, NEW i \in Ids, NEW c \in Contenu,
         NEW rev \in Nat \ {0}, Vraie(apprise, neuves, i, c),
         NEW k, k = NoterConnu(connu[d][i], rev, c),
         EcritConnu(d, i, k),
         NEW n, n = plancher[d][i] \/ (c.morte /\ n = MaxDe(plancher[d][i], c.date)),
         EcritPlancher(d, i, n),
         NEW s, s \in {Rien, sortant[d][i]},
         EcritSortant(d, i, s),
         UNCHANGED <<apprise, neuves>>
  PROVE  /\ TTables' /\ Case(connu, connu', d, i)
         /\ Case(plancher, plancher', d, i) /\ Case(sortant, sortant', d, i)
         /\ connu'[d][i] = k /\ k \in Connu /\ k # Rien
         /\ plancher'[d][i] = n /\ n \in Nat \cup {-1} /\ n >= plancher[d][i]
         /\ n = plancher[d][i] \/ (c.morte /\ n = c.date)
         /\ c.morte /\ n # plancher[d][i] => n = c.date
         /\ sortant'[d][i] = s
<1>1. /\ connu[d][i] \in Connu \cup {Rien}
      /\ plancher[d][i] \in Nat \cup {-1}
      /\ plancher[d][i] # -1 => Supp(apprise, i, plancher[d][i])
      /\ sortant[d][i] \in Sortant \cup {Rien}
      /\ sortant[d][i] # Rien => sortant[d][i].supprime <= plancher[d][i]
      /\ i \notin neuves
  BY DEF Types, TTables, Vraie
<1>2. k \in Connu /\ k # Rien
  BY <1>1, NoterConnuEst
<1>3. /\ connu \in [Appareils -> [Ids -> Connu \cup {Rien}]]
      /\ plancher \in [Appareils -> [Ids -> Nat \cup {-1}]]
      /\ sortant \in [Appareils -> [Ids -> Sortant \cup {Rien}]]
  BY DEF Types, TTables
<1>4. /\ n \in Nat \cup {-1} /\ n >= plancher[d][i]
      /\ n = plancher[d][i] \/ (c.morte /\ n = c.date)
      /\ n # -1 => Supp(apprise, i, n)
  <2>1. c.date \in Nat /\ (c.morte => Supp(apprise, i, c.date))
    BY ContenuEst DEF Vraie
  <2>2. QED
    BY <1>1, <2>1 DEF MaxDe
<1>5. /\ connu' \in [Appareils -> [Ids -> Connu \cup {Rien}]]
      /\ connu'[d][i] = k /\ Case(connu, connu', d, i)
  BY <1>2, <1>3, CaseConnu
<1>6. /\ plancher' \in [Appareils -> [Ids -> Nat \cup {-1}]]
      /\ plancher'[d][i] = n /\ Case(plancher, plancher', d, i)
  BY <1>4, <1>3, CasePlancher
<1>7. /\ sortant' \in [Appareils -> [Ids -> Sortant \cup {Rien}]]
      /\ sortant'[d][i] = s /\ Case(sortant, sortant', d, i)
  <2>1. s \in Sortant \cup {Rien} /\ EcritSortant(d, i, s)
    BY <1>1
  <2>2. QED
    BY <1>3, <2>1, CaseSortant
<1>8. s # Rien => s.supprime <= n
  <2>1. s # Rien => s.supprime \in Nat \cup {-1} /\ s.supprime <= plancher[d][i]
    BY <1>1 DEF Sortant
  <2>2. QED
    BY <1>1, <1>4, <2>1
<1>9. TTables'
  BY <1>1, <1>4, <1>5, <1>6, <1>7, <1>8, TTablesCase DEF Types
<1>10. QED
  BY <1>2, <1>4, <1>5, <1>6, <1>7, <1>9

\* Only connu changes, noted from what is examined.
LEMMA NoterConnuTypes ==
  ASSUME Types, NEW d \in Appareils, examen[d] # Rien,
         connu' = [connu EXCEPT ![d][examen[d].id] =
           NoterConnu(connu[d][examen[d].id], examen[d].rev, examen[d].contenu)],
         UNCHANGED <<sortant, plancher, apprise, neuves>>
  PROVE  /\ TTables' /\ Case(connu, connu', d, examen[d].id)
         /\ connu'[d][examen[d].id] =
              NoterConnu(connu[d][examen[d].id], examen[d].rev, examen[d].contenu)
<1>1. PICK i : i = examen[d].id
  OBVIOUS
<1>2. PICK c : c = examen[d].contenu
  OBVIOUS
<1>0. PICK rev : rev = examen[d].rev
  OBVIOUS
<1>3. PICK k : k = NoterConnu(connu[d][i], rev, c)
  OBVIOUS
<1>4. /\ i \in Ids /\ c \in Contenu /\ rev \in Nat \ {0}
      /\ Vraie(apprise, neuves, i, c)
  BY <1>0, <1>1, <1>2, ExamenEst
<1>5. /\ plancher \in [Appareils -> [Ids -> Nat \cup {-1}]]
      /\ sortant \in [Appareils -> [Ids -> Sortant \cup {Rien}]]
  BY DEF Types, TTables
<1>6. PICK n : n = plancher[d][i]
  OBVIOUS
<1>7. PICK s : s = sortant[d][i]
  OBVIOUS
<1>8. EcritPlancher(d, i, n) /\ EcritSortant(d, i, s)
  BY <1>4, <1>5, <1>6, <1>7, CaseInchangee DEF EcritPlancher, EcritSortant
<1>9. EcritConnu(d, i, k)
  BY <1>0, <1>1, <1>2, <1>3 DEF EcritConnu
<1>10. /\ UNCHANGED <<apprise, neuves>> /\ s \in {Rien, sortant[d][i]}
       /\ n = plancher[d][i] \/ (c.morte /\ n = MaxDe(plancher[d][i], c.date))
  BY <1>6, <1>7
<1>11. /\ TTables' /\ Case(connu, connu', d, i) /\ connu'[d][i] = k
  <2>1. TTables'
    BY <1>3, <1>4, <1>8, <1>9, <1>10, NoterTypes
  <2>2. Case(connu, connu', d, i)
    BY <1>3, <1>4, <1>8, <1>9, <1>10, NoterTypes
  <2>3. connu'[d][i] = k
    BY <1>3, <1>4, <1>8, <1>9, <1>10, NoterTypes
  <2>4. QED
    BY <2>1, <2>2, <2>3
<1>12. QED
  BY <1>0, <1>1, <1>2, <1>3, <1>11

LEMMA ReconnaitreTypes ==
  ASSUME Types, NEW d \in Appareils, Reconnaitre(d)
  PROVE  /\ Types' /\ Note(d) /\ UNCHANGED <<bases, plancher, sortant>>
         /\ examen[d] # Rien /\ examen'[d] = Rien
         /\ connu'[d][examen[d].id] =
              NoterConnu(connu[d][examen[d].id], examen[d].rev, examen[d].contenu)
         /\ examen[d].etape = "lire" /\ DejaLa(d, examen[d].id, examen[d].contenu)
<1>1. TMagasin' /\ Grandit
  BY TypesMeme DEF Reconnaitre, autour
<1>2. TServeur'
  BY <1>1, TServeurMeme DEF Types, Reconnaitre
<1>3. /\ examen[d] # Rien /\ examen[d].etape = "lire"
      /\ DejaLa(d, examen[d].id, examen[d].contenu)
      /\ connu' = [connu EXCEPT ![d][examen[d].id] =
           NoterConnu(connu[d][examen[d].id], examen[d].rev, examen[d].contenu)]
      /\ examen' = [examen EXCEPT ![d] = Rien]
      /\ UNCHANGED <<pc, page, lot, bases, plancher, sortant, apprise, neuves>>
  BY DEF Reconnaitre, Lue, magasin, autour
<1>4. TCycle' /\ Autres(d) /\ examen'[d] = Rien
  BY <1>1, <1>3, ExamenTypes DEF Types, TCycle
<1>5. /\ TTables' /\ Case(connu, connu', d, examen[d].id)
      /\ connu'[d][examen[d].id] =
           NoterConnu(connu[d][examen[d].id], examen[d].rev, examen[d].contenu)
  BY <1>3, NoterConnuTypes
<1>6. QED
  BY <1>1, <1>2, <1>3, <1>4, <1>5, CaseMeme DEF Types, Note

LEMMA TenirTypes ==
  ASSUME Types, NEW d \in Appareils, TenirPlancher(d)
  PROVE  /\ Types' /\ Note(d) /\ UNCHANGED <<bases, plancher, sortant>>
         /\ examen[d] # Rien
         /\ examen'[d] = [examen[d] EXCEPT !.etape = "tombale"]
         /\ examen'[d] # Rien /\ examen'[d].id = examen[d].id
         /\ examen'[d].rev = examen[d].rev
         /\ examen'[d].contenu = examen[d].contenu
         /\ examen'[d].etape = "tombale"
         /\ connu'[d][examen[d].id] =
              NoterConnu(connu[d][examen[d].id], examen[d].rev, examen[d].contenu)
         /\ examen[d].etape = "lire" /\ ~examen[d].contenu.morte
         /\ plancher[d][examen[d].id] >= examen[d].contenu.date
<1>1. TMagasin' /\ Grandit
  BY TypesMeme DEF TenirPlancher, autour
<1>2. TServeur'
  BY <1>1, TServeurMeme DEF Types, TenirPlancher
<1>3. PICK x : x = [examen[d] EXCEPT !.etape = "tombale"]
  OBVIOUS
<1>4. /\ examen[d] # Rien /\ examen[d].etape = "lire"
      /\ ~examen[d].contenu.morte
      /\ plancher[d][examen[d].id] >= examen[d].contenu.date
      /\ connu' = [connu EXCEPT ![d][examen[d].id] =
           NoterConnu(connu[d][examen[d].id], examen[d].rev, examen[d].contenu)]
      /\ examen' = [examen EXCEPT ![d] = x]
      /\ UNCHANGED <<pc, page, lot, bases, plancher, sortant, apprise, neuves>>
  BY <1>3 DEF TenirPlancher, Lue, SousPlancher, magasin, autour
<1>5. /\ x \in Examen /\ x # Rien /\ x.id = examen[d].id
      /\ x.contenu = examen[d].contenu /\ x.rev = examen[d].rev
      /\ x.etape = "tombale"
  <2>1. examen[d] \in Examen
    BY <1>4, ExamenEst
  <2>2. QED
    BY <1>3, <2>1, EtapeEst, RienHors
<1>6. TCycle' /\ Autres(d) /\ examen'[d] = x
  BY <1>1, <1>4, <1>5, ExamenTypes DEF Types, TCycle
<1>7. /\ TTables' /\ Case(connu, connu', d, examen[d].id)
      /\ connu'[d][examen[d].id] =
           NoterConnu(connu[d][examen[d].id], examen[d].rev, examen[d].contenu)
  BY <1>4, NoterConnuTypes
<1>8. QED
  BY <1>1, <1>2, <1>3, <1>4, <1>5, <1>6, <1>7, CaseMeme DEF Types, Note
LEMMA IngererTypes ==
  ASSUME Types, NEW d \in Appareils, Ingerer(d)
  PROVE  /\ Types' /\ Grandit /\ Autres(d)
         /\ UNCHANGED <<tables, pc, page, lot, bases, serveur, errantes, maintenant>>
         /\ examen[d] # Rien /\ examen'[d] # Rien
         /\ examen'[d].id = examen[d].id /\ examen'[d].rev = examen[d].rev
         /\ examen'[d].contenu = examen[d].contenu /\ examen'[d].etape = "noter"
         /\ examen[d].etape = "lire"
         /\ Recoit(d, examen[d].id, examen[d].contenu)
         /\ ~SousPlancher(d, examen[d])
<1>1. PICK x : x = [examen[d] EXCEPT !.etape = "noter"]
  OBVIOUS
<1>2. /\ examen[d] # Rien /\ examen[d].etape = "lire"
      /\ ~SousPlancher(d, examen[d])
      /\ Poser(d, examen[d].id, Recue(locale[d][examen[d].id], examen[d].contenu))
      /\ examen' = [examen EXCEPT ![d] = x]
      /\ UNCHANGED <<tables, pc, page, lot, bases, serveur, errantes, maintenant>>
      /\ neuves' = neuves
  BY <1>1 DEF Ingerer, Lue, autour
<1>3. /\ examen[d] \in Examen /\ examen[d].id \in Ids
      /\ examen[d].contenu \in Contenu /\ examen[d].id \notin neuves
  BY <1>2, ExamenEst
<1>4. /\ x \in Examen /\ x # Rien /\ x.id = examen[d].id
      /\ x.contenu = examen[d].contenu /\ x.rev = examen[d].rev
      /\ x.etape = "noter"
  BY <1>1, <1>3, EtapeEst, RienHors
<1>5. Recue(locale[d][examen[d].id], examen[d].contenu) \in Contenu
  <2>1. locale[d][examen[d].id] \in Contenu \cup {Rien}
    BY <1>3 DEF Types, TMagasin
  <2>2. QED
    BY <1>3, <2>1, RecueEst
<1>6. TMagasin' /\ Grandit
  <2>1. PICK i : i = examen[d].id
    OBVIOUS
  <2>2. PICK r : r = Recue(locale[d][i], examen[d].contenu)
    OBVIOUS
  <2>3. /\ TMagasin /\ i \in Ids /\ r \in Contenu /\ Poser(d, i, r)
        /\ i \notin neuves' /\ neuves' \subseteq neuves /\ maintenant' = maintenant
    BY <1>2, <1>3, <1>5, <2>1, <2>2 DEF Types
  <2>4. QED
    BY <2>3, PoserTypes
<1>7. TTables' /\ TServeur'
  BY <1>2, <1>6, TTablesMeme, TServeurMeme DEF Types, tables
<1>8. TCycle'
  BY <1>2, <1>4, <1>6, ExamenTypes DEF Types, TCycle
<1>9. Autres(d) /\ examen'[d] = x
  BY <1>2, <1>4, <1>6, ExamenTypes DEF Types, TCycle
<1>10. QED
  BY <1>2, <1>4, <1>6, <1>7, <1>8, <1>9 DEF Types, Recoit

LEMMA NoterEtapeTypes ==
  ASSUME Types, NEW d \in Appareils, Noter(d)
  PROVE  /\ Types' /\ Note(d) /\ UNCHANGED <<bases, sortant>>
         /\ examen[d] # Rien /\ examen'[d] # Rien
         /\ examen'[d].id = examen[d].id /\ examen'[d].rev = examen[d].rev
         /\ examen'[d].contenu = examen[d].contenu /\ examen'[d].etape = "renvoyer"
         /\ examen[d].etape = "noter"
         /\ connu'[d][examen[d].id] =
              NoterConnu(connu[d][examen[d].id], examen[d].rev, examen[d].contenu)
         /\ plancher'[d][examen[d].id] >= plancher[d][examen[d].id]
         /\ \/ plancher'[d][examen[d].id] = plancher[d][examen[d].id]
            \/ /\ plancher'[d][examen[d].id] = examen[d].contenu.date
               /\ examen[d].contenu.morte
<1>1. PICK x : x = [examen[d] EXCEPT !.etape = "renvoyer"]
  OBVIOUS
<1>2. PICK i : i = examen[d].id
  OBVIOUS
<1>3. PICK c : c = examen[d].contenu
  OBVIOUS
<1>4. PICK rev : rev = examen[d].rev
  OBVIOUS
<1>5. PICK k : k = NoterConnu(connu[d][i], rev, c)
  OBVIOUS
<1>6. PICK n : n = IF c.morte THEN MaxDe(plancher[d][i], c.date) ELSE plancher[d][i]
  OBVIOUS
<1>7. PICK s : s = sortant[d][i]
  OBVIOUS
<1>8. /\ examen[d] # Rien /\ examen[d].etape = "noter"
      /\ EcritPlancher(d, i, n) /\ EcritConnu(d, i, k)
      /\ examen' = [examen EXCEPT ![d] = x]
      /\ UNCHANGED <<sortant, pc, page, lot, bases, serveur, errantes>>
      /\ UNCHANGED <<magasin, maintenant, apprise, neuves>>
  BY <1>1, <1>2, <1>3, <1>4, <1>5, <1>6
     DEF Noter, Lue, autour, magasin, EcritPlancher, EcritConnu
<1>9. /\ examen[d] \in Examen /\ i \in Ids /\ c \in Contenu
      /\ rev \in Nat \ {0} /\ Vraie(apprise, neuves, i, c)
  BY <1>2, <1>3, <1>4, <1>8, ExamenEst
<1>10. /\ x \in Examen /\ x # Rien /\ x.id = examen[d].id
       /\ x.contenu = examen[d].contenu /\ x.rev = examen[d].rev
       /\ x.etape = "renvoyer"
  BY <1>1, <1>9, EtapeEst, RienHors
<1>11. TMagasin' /\ Grandit
  BY <1>8, TypesMeme
<1>12. TServeur'
  BY <1>8, <1>11, TServeurMeme DEF Types
<1>13. TCycle'
  BY <1>8, <1>10, <1>11, ExamenTypes DEF Types, TCycle
<1>14. Autres(d) /\ examen'[d] = x
  BY <1>8, <1>10, <1>11, ExamenTypes DEF Types, TCycle
<1>15. EcritSortant(d, i, s)
  <2>1. sortant \in [Appareils -> [Ids -> Sortant \cup {Rien}]]
    BY DEF Types, TTables
  <2>2. QED
    BY <1>7, <1>8, <1>9, <2>1, CaseInchangee DEF EcritSortant
<1>16. /\ n = plancher[d][i] \/ (c.morte /\ n = MaxDe(plancher[d][i], c.date))
       /\ s \in {Rien, sortant[d][i]} /\ UNCHANGED <<apprise, neuves>>
  BY <1>6, <1>7, <1>8
<1>17. TTables'
  BY <1>5, <1>8, <1>9, <1>15, <1>16, NoterTypes
<1>18. Case(connu, connu', d, i) /\ connu'[d][i] = k
  BY <1>5, <1>8, <1>9, <1>15, <1>16, NoterTypes
<1>19. Case(plancher, plancher', d, i)
  BY <1>5, <1>8, <1>9, <1>15, <1>16, NoterTypes
<1>20. plancher'[d][i] = n /\ n >= plancher[d][i]
  BY <1>5, <1>8, <1>9, <1>15, <1>16, NoterTypes
<1>21. n = plancher[d][i] \/ (c.morte /\ n = c.date)
  BY <1>5, <1>8, <1>9, <1>15, <1>16, NoterTypes
<1>22. Note(d)
  BY <1>2, <1>8, <1>14, <1>18, <1>19, CaseMeme DEF Note
<1>23. QED
  BY <1>2, <1>3, <1>4, <1>5, <1>8, <1>10, <1>11, <1>12, <1>13, <1>14, <1>17,
     <1>18, <1>20, <1>21, <1>22 DEF Types

LEMMA RenvoyerTypes ==
  ASSUME Types, NEW d \in Appareils, Renvoyer(d)
  PROVE  /\ Types' /\ Note(d) /\ UNCHANGED <<bases, connu, plancher>>
         /\ examen[d] # Rien /\ examen'[d] = Rien
         /\ examen[d].etape \in {"tombale", "renvoyer"}
         /\ sortant'[d][examen[d].id] = Rien => sortant[d][examen[d].id] = Rien
         /\ examen[d].etape = "tombale" => sortant'[d][examen[d].id] # Rien
         /\ ARenvoyer(d, examen[d]) => sortant'[d][examen[d].id] # Rien
<1>1. PICK i : i = examen[d].id
  OBVIOUS
<1>2. PICK s : s = IF examen[d].etape = "tombale"
                   THEN Ajouter(sortant[d][i], plancher[d][i])
                   ELSE IF ARenvoyer(d, examen[d]) THEN Ajouter(sortant[d][i], -1)
                   ELSE sortant[d][i]
  OBVIOUS
<1>3. /\ examen[d] # Rien /\ examen[d].etape \in {"tombale", "renvoyer"}
      /\ EcritSortant(d, i, s)
      /\ examen' = [examen EXCEPT ![d] = Rien]
      /\ UNCHANGED <<connu, plancher, pc, page, lot, bases, serveur, errantes>>
      /\ UNCHANGED <<magasin, maintenant, apprise, neuves>>
  BY <1>1, <1>2 DEF Renvoyer, Lue, autour, magasin, EcritSortant
<1>4. i \in Ids /\ i \notin neuves
  BY <1>1, <1>3, ExamenEst
<1>5. /\ sortant \in [Appareils -> [Ids -> Sortant \cup {Rien}]]
      /\ sortant[d][i] \in Sortant \cup {Rien}
      /\ plancher[d][i] \in Nat \cup {-1}
      /\ sortant[d][i] # Rien => sortant[d][i].supprime <= plancher[d][i]
      /\ plancher[d][i] # -1 => Supp(apprise, i, plancher[d][i])
  BY <1>4 DEF Types, TTables
<1>6. /\ s \in Sortant \cup {Rien}
      /\ s # Rien => s.supprime <= plancher[d][i]
      /\ s = Rien => sortant[d][i] = Rien
      /\ examen[d].etape = "tombale" => s # Rien
      /\ ARenvoyer(d, examen[d]) => s # Rien
  <2>1. PICK u : u = Ajouter(sortant[d][i], plancher[d][i])
    OBVIOUS
  <2>2. PICK v : v = Ajouter(sortant[d][i], -1)
    OBVIOUS
  <2>3. /\ u \in Sortant /\ u # Rien /\ u.supprime <= plancher[d][i]
        /\ -1 <= plancher[d][i] /\ -1 \in Nat \cup {-1}
    BY <1>5, <2>1, AjouterEst
  <2>4. v \in Sortant /\ v # Rien /\ v.supprime <= plancher[d][i]
    BY <1>5, <2>2, <2>3, AjouterEst
  <2>5. s \in {u, v, sortant[d][i]}
    BY <1>2, <2>1, <2>2
  <2>6. /\ s = Rien => sortant[d][i] = Rien
        /\ examen[d].etape = "tombale" => s # Rien
        /\ ARenvoyer(d, examen[d]) => s # Rien
    BY <1>2, <2>1, <2>2, <2>3, <2>4
  <2>7. QED
    BY <1>5, <2>3, <2>4, <2>5, <2>6
<1>7. /\ sortant' \in [Appareils -> [Ids -> Sortant \cup {Rien}]]
      /\ sortant'[d][i] = s /\ Case(sortant, sortant', d, i)
  BY <1>3, <1>4, <1>5, <1>6, CaseSortant
<1>8. TMagasin' /\ Grandit
  BY <1>3, TypesMeme
<1>9. TServeur'
  BY <1>3, <1>8, TServeurMeme DEF Types
<1>10. TCycle'
  BY <1>3, <1>8, ExamenTypes DEF Types, TCycle
<1>11. Autres(d) /\ examen'[d] = Rien
  BY <1>3, <1>8, ExamenTypes DEF Types, TCycle
<1>12. /\ Case(connu, connu', d, i) /\ Case(plancher, plancher', d, i)
       /\ connu' \in [Appareils -> [Ids -> Connu \cup {Rien}]]
       /\ plancher' \in [Appareils -> [Ids -> Nat \cup {-1}]]
  BY <1>3, CaseMeme DEF Types, TTables
<1>13. TTables'
  BY <1>3, <1>4, <1>5, <1>6, <1>7, <1>12, TTablesCase DEF Types
<1>14. QED
  BY <1>1, <1>3, <1>6, <1>7, <1>8, <1>9, <1>10, <1>11, <1>12, <1>13, CaseMeme
     DEF Types, Note
LEMMA ReaffirmerTypes ==
  ASSUME Types, NEW d \in Appareils, Reaffirmer(d)
  PROVE  /\ Types' /\ examen[d] # Rien /\ examen[d].etape = "lire"
         /\ connu[d][examen[d].id] # Rien
         /\ examen[d].rev < connu[d][examen[d].id].rev
         /\ UNCHANGED <<magasin, maintenant, plancher, lot, neuves>>
         /\ examen'[d] = Rien /\ Autres(d)
<1>1. PICK i : i = examen[d].id
  OBVIOUS
<1>2. PICK s : s = Ajouter(sortant[d][i], plancher[d][i])
  OBVIOUS
<1>3. PICK k : k = Oublier(connu[d][i])
  OBVIOUS
<1>4. /\ examen[d] # Rien /\ examen[d].etape = "lire"
      /\ connu[d][i] # Rien /\ examen[d].rev < connu[d][i].rev
      /\ EcritSortant(d, i, s) /\ EcritConnu(d, i, k)
      /\ bases' = [bases EXCEPT ![d][i] = examen[d].rev]
      /\ examen' = [examen EXCEPT ![d] = Rien]
      /\ UNCHANGED <<plancher, pc, page, lot, serveur, errantes>>
      /\ UNCHANGED <<magasin, maintenant, apprise, neuves>>
  BY <1>1, <1>2, <1>3
     DEF Reaffirmer, Lue, Depassee, autour, magasin, EcritSortant, EcritConnu
<1>5. i \in Ids /\ i \notin neuves /\ examen[d].rev \in Nat
  BY <1>1, <1>4, ExamenEst
<1>6. /\ sortant \in [Appareils -> [Ids -> Sortant \cup {Rien}]]
      /\ connu \in [Appareils -> [Ids -> Connu \cup {Rien}]]
      /\ sortant[d][i] \in Sortant \cup {Rien} /\ connu[d][i] \in Connu
      /\ plancher[d][i] \in Nat \cup {-1}
      /\ sortant[d][i] # Rien => sortant[d][i].supprime <= plancher[d][i]
      /\ plancher[d][i] # -1 => Supp(apprise, i, plancher[d][i])
  BY <1>4, <1>5 DEF Types, TTables
<1>7. s \in Sortant /\ s # Rien /\ s.supprime <= plancher[d][i]
  <2>1. PICK f : f = plancher[d][i]
    OBVIOUS
  <2>2. /\ f \in Nat \cup {-1} /\ f <= f /\ s = Ajouter(sortant[d][i], f)
        /\ sortant[d][i] # Rien => sortant[d][i].supprime <= f
    BY <1>2, <1>6, <2>1
  <2>3. s \in Sortant /\ s # Rien
    BY <1>6, <2>2, AjouterEst
  <2>4. s.supprime <= f
    BY <1>6, <2>2, AjouterEst
  <2>5. QED
    BY <2>1, <2>3, <2>4
<1>8. k \in Connu \cup {Rien}
  BY <1>3, <1>6, OublierEst
<1>9. /\ sortant' \in [Appareils -> [Ids -> Sortant \cup {Rien}]]
      /\ sortant'[d][i] = s /\ Case(sortant, sortant', d, i)
  BY <1>4, <1>5, <1>6, <1>7, CaseSortant
<1>10. /\ connu' \in [Appareils -> [Ids -> Connu \cup {Rien}]]
       /\ Case(connu, connu', d, i)
  BY <1>4, <1>5, <1>6, <1>8, CaseConnu
<1>11. TMagasin' /\ Grandit
  BY <1>4, TypesMeme
<1>12. TServeur'
  BY <1>4, <1>11, TServeurMeme DEF Types
<1>13. /\ bases' \in [Appareils -> [Ids -> Nat \cup {-1}]]
       /\ \A e \in Appareils : e # d => bases'[e] = bases[e]
  BY <1>4, <1>5 DEF Types, TCycle
<1>14. TCycle'
  BY <1>4, <1>11, <1>13, ExamenTypes DEF Types, TCycle
<1>15. Autres(d) /\ examen'[d] = Rien
  BY <1>4, <1>11, <1>13, ExamenTypes DEF Types, TCycle
<1>16. /\ Case(plancher, plancher', d, i)
       /\ plancher' \in [Appareils -> [Ids -> Nat \cup {-1}]]
  BY <1>4, CaseMeme DEF Types, TTables
<1>17. TTables'
  BY <1>4, <1>5, <1>6, <1>7, <1>9, <1>10, <1>16, TTablesCase DEF Types
<1>18. QED
  BY <1>1, <1>4, <1>11, <1>12, <1>14, <1>15, <1>17 DEF Types

LEMMA APousserEst ==
  ASSUME Types, NEW d \in Appareils, NEW i \in Ids, sortant[d][i] # Rien
  PROVE  /\ APousser(d, i) \in Contenu \cup {Rien}
         /\ APousser(d, i) # Rien => Vraie(apprise, neuves, i, APousser(d, i))
         /\ EstTombale(locale[d][i]) => APousser(d, i) = locale[d][i]
         /\ EstVivante(locale[d][i]) /\ locale[d][i].date > plancher[d][i] =>
              APousser(d, i) = locale[d][i]
         /\ APousser(d, i) = Rien => locale[d][i] = Rien
         /\ \/ APousser(d, i) = locale[d][i]
            \/ plancher[d][i] # -1 /\ APousser(d, i) = Tombale(plancher[d][i])
         /\ locale[d][i] = Rien /\ APousser(d, i) # Rien =>
              /\ plancher[d][i] # -1
              /\ APousser(d, i) = Tombale(plancher[d][i])
<1>1. PICK l : l = locale[d][i]
  OBVIOUS
<1>2. PICK f : f = plancher[d][i]
  OBVIOUS
<1>3. PICK s : s = sortant[d][i].supprime
  OBVIOUS
<1>4. PICK p : p = SousLesPlanchers(l, f, s)
  OBVIOUS
<1>5. /\ l \in Contenu \cup {Rien} /\ f \in Nat \cup {-1} /\ s \in Nat \cup {-1}
      /\ s <= f /\ i \notin neuves
      /\ f # -1 => Supp(apprise, i, f)
      /\ EstTombale(l) => apprise[d][i] >= l.date
  BY <1>1, <1>2, <1>3 DEF Types, TMagasin, TTables, Sortant
<1>6. MaxDe(f, s) = f
  BY <1>5 DEF MaxDe
<1>7. /\ p \in Contenu \cup {Rien}
      /\ p = Rien => l = Rien
      /\ EstTombale(l) => p = l
      /\ EstVivante(l) /\ l.date > f => p = l
  BY <1>4, <1>5, SousEst
<1>8. /\ l = Rien /\ p # Rien => f # -1 /\ p = Tombale(f)
      /\ p = l \/ (f # -1 /\ p = Tombale(f))
  BY <1>4, <1>5, <1>6, SousEst
<1>9. p # Rien => Vraie(apprise, neuves, i, p)
  <2>1. CASE p = l
    BY <1>5, <2>1 DEF Vraie, EstTombale, Supp
  <2>2. CASE f # -1 /\ p = Tombale(f)
    BY <1>5, <2>2, TombaleEst DEF Vraie
  <2>3. QED
    BY <1>8, <2>1, <2>2
<1>10. APousser(d, i) = p
  BY <1>1, <1>2, <1>3, <1>4 DEF APousser
<1>11. QED
  BY <1>1, <1>2, <1>7, <1>8, <1>9, <1>10

LEMMA PreparerTypes ==
  ASSUME Types, NEW d \in Appareils, PreparerLot(d)
  PROVE  /\ Types' /\ Autres(d)
         /\ UNCHANGED <<magasin, connu, plancher, examen, page, bases, serveur,
                        errantes, maintenant, neuves>>
         /\ pc[d] = "pousse" /\ examen[d] = Rien /\ pc'[d] \in {"conclut", "vol"}
         /\ \A e \in Appareils : e # d => sortant'[e] = sortant[e]
         /\ \A i \in Ids :
              /\ ~Partante(d, i) => lot'[d][i] = Rien
              /\ Partante(d, i) /\ lot'[d][i] # Rien =>
                   /\ lot'[d][i].base = Base(d, i)
                   /\ lot'[d][i].contenu = APousser(d, i)
                   /\ lot'[d][i].statut = "parti"
              /\ Partante(d, i) => sortant'[d][i] # Rien
              /\ sortant'[d][i] = Rien /\ sortant[d][i] # Rien =>
                   APousser(d, i) = Rien \/ DejaLa(d, i, APousser(d, i))
<1>1. PICK parts : parts = {i \in Ids : Partante(d, i)}
  OBVIOUS
<1>2. PICK m : m = [i \in Ids |->
        IF i \in parts
        THEN [base |-> Base(d, i), contenu |-> APousser(d, i),
              statut |-> "parti", courant |-> Rien]
        ELSE Rien]
  OBVIOUS
<1>3. PICK z : z = [i \in Ids |->
        IF i \in parts THEN [sortant[d][i] EXCEPT !.poussee = APousser(d, i)]
        ELSE IF i \in AEnvoyer(d) THEN Rien ELSE sortant[d][i]]
  OBVIOUS
<1>4. PICK p : p = IF parts = {} THEN "conclut" ELSE "vol"
  OBVIOUS
<1>5. /\ pc[d] = "pousse" /\ lot' = [lot EXCEPT ![d] = m]
      /\ sortant' = [sortant EXCEPT ![d] = z] /\ pc' = [pc EXCEPT ![d] = p]
      /\ UNCHANGED <<magasin, connu, plancher, examen, page, bases, serveur,
                     errantes, maintenant, neuves>>
  BY <1>1, <1>2, <1>3, <1>4 DEF PreparerLot, autour
<1>6. TMagasin' /\ Grandit
  BY <1>5, TypesMeme
<1>7. TServeur'
  BY <1>5, <1>6, TServeurMeme DEF Types
<1>8. ASSUME NEW i \in parts
      PROVE  /\ i \in Ids /\ sortant[d][i] # Rien
             /\ APousser(d, i) \in Contenu
             /\ Vraie(apprise, neuves, i, APousser(d, i))
             /\ m[i] \in Parti /\ m[i].base = Base(d, i)
             /\ m[i].contenu = APousser(d, i)
             /\ m[i].statut = "parti" /\ m[i].courant = Rien
  <2>1. i \in Ids /\ sortant[d][i] # Rien /\ APousser(d, i) # Rien
    BY <1>1 DEF Partante, AEnvoyer
  <2>2. APousser(d, i) \in Contenu /\ Vraie(apprise, neuves, i, APousser(d, i))
    BY <2>1, APousserEst
  <2>3. Base(d, i) \in Nat
    BY <2>1 DEF Base, Types, TCycle, TTables, Connu
  <2>4. m[i] = [base |-> Base(d, i), contenu |-> APousser(d, i),
                statut |-> "parti", courant |-> Rien]
    BY <1>2, <2>1
  <2>5. QED
    BY <2>1, <2>2, <2>3, <2>4 DEF Parti
<1>9. ASSUME NEW i \in Ids, i \notin parts
      PROVE  m[i] = Rien
  BY <1>2, <1>9
<1>10. EstLot(m, apprise, neuves)
  <2>1. m \in [Ids -> Parti \cup {Rien}]
    <3>1. \A i \in Ids : m[i] \in Parti \cup {Rien}
      BY <1>8, <1>9
    <3>2. QED
      BY <1>2, <3>1
  <2>2. QED
    BY <1>8, <1>9, <2>1 DEF EstLot
<1>11. ASSUME NEW i \in Ids
       PROVE  /\ z[i] \in Sortant \cup {Rien}
              /\ z[i] # Rien => sortant[d][i] # Rien /\ z[i].supprime = sortant[d][i].supprime
              /\ i \in parts => z[i] # Rien
              /\ z[i] = Rien /\ sortant[d][i] # Rien =>
                   APousser(d, i) = Rien \/ DejaLa(d, i, APousser(d, i))
  <2>1. CASE i \in parts
    <3>1. sortant[d][i] \in Sortant /\ APousser(d, i) \in Contenu
      BY <1>8, <2>1 DEF Types, TTables
    <3>2. z[i] = [sortant[d][i] EXCEPT !.poussee = APousser(d, i)]
      BY <1>3, <2>1
    <3>3. z[i] \in Sortant /\ z[i].supprime = sortant[d][i].supprime
      BY <3>1, <3>2 DEF Sortant
    <3>4. QED
      BY <1>8, <2>1, <3>3, RienHors
  <2>2. CASE i \notin parts /\ i \in AEnvoyer(d)
    <3>1. z[i] = Rien /\ ~Partante(d, i)
      BY <1>1, <1>3, <2>2
    <3>2. QED
      BY <2>2, <3>1 DEF Partante
  <2>3. CASE i \notin parts /\ i \notin AEnvoyer(d)
    BY <1>3, <2>3 DEF Types, TTables
  <2>4. QED
    BY <2>1, <2>2, <2>3
<1>12. z \in [Ids -> Sortant \cup {Rien}]
  BY <1>3, <1>11
<1>13. /\ sortant' \in [Appareils -> [Ids -> Sortant \cup {Rien}]]
       /\ sortant'[d] = z
       /\ \A e \in Appareils : e # d => sortant'[e] = sortant[e]
  BY <1>5, <1>12 DEF Types, TTables
<1>14. TTables'
  <2>1. ASSUME NEW e \in Appareils, NEW j \in Ids, sortant'[e][j] # Rien
        PROVE  j \notin neuves /\ sortant'[e][j].supprime <= plancher[e][j]
    <3>1. /\ sortant[e][j] # Rien
          /\ sortant'[e][j].supprime = sortant[e][j].supprime
      BY <1>11, <1>13, <2>1
    <3>2. QED
      BY <3>1 DEF Types, TTables
  <2>2. UNCHANGED <<connu, plancher, apprise, neuves>>
    BY <1>5 DEF magasin
  <2>3. QED
    BY <1>13, <2>1, <2>2 DEF Types, TTables
<1>15. /\ lot' \in [Appareils -> [Ids -> Parti \cup {Rien}]] /\ lot'[d] = m
       /\ pc' \in [Appareils -> Phases] /\ pc'[d] = p /\ Autres(d)
  BY <1>4, <1>5, <1>10 DEF Types, TCycle, Phases, Autres, EstLot
<1>16. examen[d] = Rien
  BY <1>5 DEF Types, TCycle, EstCycle
<1>17. EstCycle(d)'
  <2>1. UNCHANGED <<apprise, neuves>>
    BY <1>5 DEF magasin
  <2>2. p # "vol" => m = Aucun
    BY <1>2, <1>4 DEF Aucun
  <2>3. p \in {"conclut", "vol"}
    BY <1>4
  <2>4. \A i \in Ids : m[i] # Rien => m[i].statut = "parti"
    BY <1>8, <1>9
  <2>5. examen'[d] = Rien
    BY <1>5, <1>16
  <2>6. QED
    BY <1>10, <1>15, <2>1, <2>2, <2>3, <2>4, <2>5 DEF EstCycle
<1>18. TCycle'
  BY <1>5, <1>6, <1>15, <1>17, TCycleDe DEF Types, TCycle
<1>19. pc'[d] \in {"conclut", "vol"}
  BY <1>4, <1>15
<1>20. ASSUME NEW i \in Ids
       PROVE  /\ ~Partante(d, i) => lot'[d][i] = Rien
              /\ Partante(d, i) /\ lot'[d][i] # Rien =>
                   /\ lot'[d][i].base = Base(d, i)
                   /\ lot'[d][i].contenu = APousser(d, i)
                   /\ lot'[d][i].statut = "parti"
              /\ Partante(d, i) => sortant'[d][i] # Rien
              /\ sortant'[d][i] = Rien /\ sortant[d][i] # Rien =>
                   APousser(d, i) = Rien \/ DejaLa(d, i, APousser(d, i))
  BY <1>1, <1>8, <1>9, <1>11, <1>13, <1>15
<1>21. QED
  BY <1>5, <1>6, <1>7, <1>13, <1>14, <1>15, <1>16, <1>18, <1>19, <1>20 DEF Types
\* The server handled the batch l: what it stored, and what stayed.
Servi(l) ==
  /\ \A i \in Ids \ Stockes(l) : objets'[i] = objets[i]
  /\ \A i \in Stockes(l) :
       /\ objets'[i] # Rien /\ objets'[i].contenu = l[i].contenu
       /\ objets'[i].rev = l[i].base + 1

LEMMA ServirTypes ==
  ASSUME Types, NEW d \in Appareils, ServirLot(d)
  PROVE  /\ Types' /\ Autres(d) /\ Servi(lot[d])
         /\ UNCHANGED <<magasin, tables, examen, page, bases, generation, errantes,
                        maintenant, neuves>>
         /\ pc[d] = "vol" /\ pc'[d] = "issue" /\ examen[d] = Rien
         /\ \A i \in Ids :
              /\ lot[d][i] = Rien => lot'[d][i] = Rien
              /\ lot'[d][i] # Rien =>
                   /\ lot'[d][i].base = lot[d][i].base
                   /\ lot'[d][i].contenu = lot[d][i].contenu
                   /\ i \in Stockes(lot[d]) => lot'[d][i].statut = "stored"
                   /\ i \notin Stockes(lot[d]) =>
                        /\ lot'[d][i].statut = "conflict"
                        /\ lot'[d][i].courant = objets[i]
<1>1. PICK l : l = lot[d]
  OBVIOUS
<1>2. PICK m : m = [i \in Ids |->
        IF l[i] = Rien THEN Rien
        ELSE IF i \in Stockes(l) THEN [l[i] EXCEPT !.statut = "stored"]
        ELSE [base |-> l[i].base, contenu |-> l[i].contenu,
              statut |-> "conflict", courant |-> objets[i]]]
  OBVIOUS
<1>3. /\ pc[d] = "vol" /\ lot' = [lot EXCEPT ![d] = m]
      /\ \E numero \in Numeros(l) : AppliquerLot(l, numero)
      /\ pc' = [pc EXCEPT ![d] = "issue"]
      /\ UNCHANGED <<magasin, tables, examen, page, bases, generation, copie,
                     errantes, maintenant, neuves>>
  BY <1>1, <1>2 DEF ServirLot, autour
<1>4. TMagasin' /\ Grandit
  BY <1>3, TypesMeme
<1>5. TTables'
  BY <1>3, <1>4, TTablesMeme DEF Types, tables
<1>6. EstLot(l, apprise, neuves) /\ examen[d] = Rien
  BY <1>1, <1>3 DEF Types, TCycle, EstCycle
<1>7. EstServeur(objets', seq', apprise, neuves) /\ Servi(l)
  <2>1. PICK numero \in Numeros(l) : AppliquerLot(l, numero)
    BY <1>3
  <2>2. QED
    BY <1>6, <2>1, AppliquerLotTypes DEF Types, Servi
<1>8. TServeur'
  <2>1. UNCHANGED <<apprise, neuves, generation, copie, errantes>>
    BY <1>3 DEF magasin
  <2>2. QED
    BY <1>7, <2>1 DEF Types, TServeur
<1>9. ASSUME NEW i \in Ids, l[i] # Rien
      PROVE  /\ m[i] \in Parti /\ m[i].base = l[i].base
             /\ m[i].contenu = l[i].contenu /\ m[i].statut # "parti"
             /\ i \in Stockes(l) =>
                  m[i].statut = "stored" /\ m[i].courant = l[i].courant
             /\ i \notin Stockes(l) =>
                  m[i].statut = "conflict" /\ m[i].courant = objets[i]
  <2>1. l[i] \in Parti /\ objets[i] \in Objet \cup {Rien}
    BY <1>6, <1>9 DEF EstLot, Types, TServeur, EstServeur
  <2>2. CASE i \in Stockes(l)
    <3>1. m[i] = [l[i] EXCEPT !.statut = "stored"]
      BY <1>2, <1>9, <2>2
    <3>2. QED
      BY <2>1, <2>2, <3>1 DEF Parti
  <2>3. CASE i \notin Stockes(l)
    <3>1. m[i] = [base |-> l[i].base, contenu |-> l[i].contenu,
                  statut |-> "conflict", courant |-> objets[i]]
      BY <1>2, <1>9, <2>3
    <3>2. QED
      BY <2>1, <2>3, <3>1 DEF Parti
  <2>4. QED
    BY <2>2, <2>3
<1>10. ASSUME NEW i \in Ids, l[i] = Rien
       PROVE  m[i] = Rien
  BY <1>2, <1>10
<1>11. EstLot(m, apprise, neuves)
  <2>1. m \in [Ids -> Parti \cup {Rien}]
    <3>1. \A i \in Ids : m[i] \in Parti \cup {Rien}
      BY <1>9, <1>10
    <3>2. QED
      BY <1>2, <3>1
  <2>2. ASSUME NEW i \in Ids, m[i] # Rien
        PROVE  /\ Vraie(apprise, neuves, i, m[i].contenu)
               /\ m[i].courant # Rien => Vraie(apprise, neuves, i, m[i].courant.contenu)
    <3>1. l[i] # Rien
      BY <1>10, <2>2
    <3>2. /\ Vraie(apprise, neuves, i, l[i].contenu)
          /\ l[i].courant # Rien => Vraie(apprise, neuves, i, l[i].courant.contenu)
          /\ objets[i] # Rien => Vraie(apprise, neuves, i, objets[i].contenu)
      BY <1>6, <3>1 DEF EstLot, Types, TServeur, EstServeur
    <3>3. m[i].contenu = l[i].contenu /\ m[i].courant \in {l[i].courant, objets[i]}
      BY <1>9, <3>1
    <3>4. QED
      BY <3>2, <3>3
  <2>3. QED
    BY <2>1, <2>2 DEF EstLot
<1>12. /\ lot' \in [Appareils -> [Ids -> Parti \cup {Rien}]] /\ lot'[d] = m
       /\ pc' \in [Appareils -> Phases] /\ pc'[d] = "issue" /\ Autres(d)
  BY <1>3, <1>11 DEF Types, TCycle, Phases, Autres, EstLot
<1>13. EstCycle(d)'
  <2>1. UNCHANGED <<apprise, neuves, examen>>
    BY <1>3 DEF magasin
  <2>2. \A i \in Ids : m[i] # Rien => m[i].statut # "parti"
    BY <1>9, <1>10
  <2>3. QED
    BY <1>6, <1>11, <1>12, <2>1, <2>2 DEF EstCycle
<1>14. TCycle'
  BY <1>3, <1>4, <1>12, <1>13, TCycleDe DEF Types, TCycle
<1>15. ASSUME NEW i \in Ids
       PROVE  /\ lot[d][i] = Rien => lot'[d][i] = Rien
              /\ lot'[d][i] # Rien =>
                   /\ lot'[d][i].base = lot[d][i].base
                   /\ lot'[d][i].contenu = lot[d][i].contenu
                   /\ i \in Stockes(lot[d]) => lot'[d][i].statut = "stored"
                   /\ i \notin Stockes(lot[d]) =>
                        /\ lot'[d][i].statut = "conflict"
                        /\ lot'[d][i].courant = objets[i]
  BY <1>1, <1>9, <1>10, <1>12
<1>16. QED
  BY <1>1, <1>3, <1>4, <1>5, <1>6, <1>7, <1>8, <1>12, <1>14, <1>15 DEF Types

LEMMA ErranteTypes ==
  ASSUME Types, NEW l \in errantes, ServirErrante(l)
  PROVE  /\ Types' /\ Servi(l) /\ errantes' \subseteq errantes
         /\ UNCHANGED <<magasin, tables, cycle, generation, maintenant, neuves>>
<1>1. /\ \E numero \in Numeros(l) : AppliquerLot(l, numero)
      /\ errantes' \subseteq errantes
      /\ UNCHANGED <<magasin, tables, cycle, generation, copie, maintenant, neuves>>
  BY DEF ServirErrante, autour
<1>2. TMagasin' /\ Grandit
  BY <1>1, TypesMeme
<1>3. TTables' /\ TCycle'
  BY <1>1, <1>2, TTablesMeme, TCycleMeme DEF Types, tables, cycle
<1>4. EstLot(l, apprise, neuves)
  BY DEF Types, TServeur
<1>5. EstServeur(objets', seq', apprise, neuves) /\ Servi(l)
  <2>1. PICK numero \in Numeros(l) : AppliquerLot(l, numero)
    BY <1>1
  <2>2. QED
    BY <1>4, <2>1, AppliquerLotTypes DEF Types, Servi
<1>6. TServeur'
  <2>1. UNCHANGED <<apprise, neuves, generation, copie>>
    BY <1>1 DEF magasin
  <2>2. QED
    BY <1>1, <1>5, <2>1 DEF Types, TServeur
<1>7. QED
  BY <1>1, <1>2, <1>3, <1>5, <1>6 DEF Types

\* One line of the batch is settled; what it brings is examined.
LEMMA IssueTypes ==
  ASSUME TMagasin, TCycle, Grandit, NEW d \in Appareils, NEW i \in Ids,
         pc[d] = "issue", examen[d] = Rien, UNCHANGED <<pc, page>>,
         lot' = [lot EXCEPT ![d][i] = Rien],
         NEW x \in Examen \cup {Rien}, examen' = [examen EXCEPT ![d] = x],
         x # Rien => x.id = i /\ Vraie(apprise', neuves', i, x.contenu),
         bases' \in [Appareils -> [Ids -> Nat \cup {-1}]],
         \A e \in Appareils : e # d => bases'[e] = bases[e]
  PROVE  /\ TCycle' /\ Autres(d) /\ lot'[d][i] = Rien /\ examen'[d] = x
         /\ \A j \in Ids : j # i => lot'[d][j] = lot[d][j]
<1>1. /\ lot' \in [Appareils -> [Ids -> Parti \cup {Rien}]]
      /\ lot'[d][i] = Rien
      /\ \A j \in Ids : j # i => lot'[d][j] = lot[d][j]
      /\ \A e \in Appareils : e # d => lot'[e] = lot[e]
  BY DEF TCycle
<1>2. /\ examen' \in [Appareils -> Examen \cup {Rien}] /\ examen'[d] = x
      /\ Autres(d)
  BY <1>1 DEF TCycle, Autres
<1>3. EstCycle(d)
  BY DEF TCycle
<1>4. EstLot(lot[d], apprise', neuves')
  BY <1>3, EstLotCroit DEF EstCycle, TMagasin, Grandit
<1>5. EstLot(lot'[d], apprise', neuves')
  BY <1>1, <1>4 DEF EstLot
<1>6. \A j \in Ids : lot'[d][j] # Rien => lot'[d][j].statut # "parti"
  BY <1>1, <1>3 DEF EstCycle
<1>7. EstCycle(d)'
  BY <1>1, <1>2, <1>5, <1>6 DEF EstCycle
<1>8. TCycle'
  BY <1>1, <1>2, <1>7, TCycleDe DEF TCycle
<1>9. QED
  BY <1>1, <1>2, <1>8
LEMMA StockeeTypes ==
  ASSUME Types, NEW d \in Appareils, NEW i \in Ids, IssueStockee(d, i)
  PROVE  /\ Types' /\ Autres(d) /\ UNCHANGED <<examen, pc, page, objets, neuves>>
         /\ UNCHANGED <<magasin, serveur, errantes, maintenant>>
         /\ pc[d] = "issue" /\ examen[d] = Rien
         /\ lot[d][i] # Rien /\ lot[d][i].statut = "stored"
         /\ lot'[d][i] = Rien
         /\ \A j \in Ids : j # i => lot'[d][j] = lot[d][j]
         /\ Case(connu, connu', d, i) /\ Case(plancher, plancher', d, i)
         /\ Case(sortant, sortant', d, i) /\ Case(bases, bases', d, i)
         /\ connu'[d][i] = NoterConnu(connu[d][i], lot[d][i].base + 1, lot[d][i].contenu)
         /\ bases'[d][i] = -1
         /\ plancher'[d][i] >= plancher[d][i]
         /\ \/ plancher'[d][i] = plancher[d][i]
            \/ plancher'[d][i] = lot[d][i].contenu.date /\ lot[d][i].contenu.morte
<1>1. PICK e : e = lot[d][i]
  OBVIOUS
<1>2. PICK c : c = e.contenu
  OBVIOUS
<1>3. PICK rev : rev = e.base + 1
  OBVIOUS
<1>4. PICK k : k = NoterConnu(connu[d][i], rev, c)
  OBVIOUS
<1>5. PICK n : n = IF c.morte THEN MaxDe(plancher[d][i], c.date) ELSE plancher[d][i]
  OBVIOUS
<1>6. PICK s : s = IF sortant[d][i] # Rien /\ sortant[d][i].poussee = c THEN Rien
                   ELSE sortant[d][i]
  OBVIOUS
<1>7. /\ pc[d] = "issue" /\ examen[d] = Rien /\ e # Rien /\ e.statut = "stored"
      /\ lot' = [lot EXCEPT ![d][i] = Rien]
      /\ EcritConnu(d, i, k) /\ EcritPlancher(d, i, n) /\ EcritSortant(d, i, s)
      /\ bases' = [bases EXCEPT ![d][i] = -1]
      /\ UNCHANGED <<magasin, examen, pc, page, serveur, errantes, maintenant>>
      /\ UNCHANGED <<apprise, neuves, objets>>
  BY <1>1, <1>2, <1>3, <1>4, <1>5, <1>6
     DEF IssueStockee, Issue, autour, serveur, magasin, EcritConnu, EcritPlancher,
         EcritSortant
<1>8. TMagasin' /\ Grandit
  BY <1>7, TypesMeme
<1>9. TServeur'
  BY <1>7, <1>8, TServeurMeme DEF Types
<1>10. /\ c \in Contenu /\ rev \in Nat \ {0} /\ Vraie(apprise, neuves, i, c)
  <2>1. EstLot(lot[d], apprise, neuves)
    BY DEF Types, TCycle, EstCycle
  <2>2. e \in Parti /\ Vraie(apprise, neuves, i, c)
    BY <1>1, <1>2, <1>7, <2>1 DEF EstLot
  <2>3. QED
    BY <1>2, <1>3, <2>2 DEF Parti
<1>11. /\ n = plancher[d][i] \/ (c.morte /\ n = MaxDe(plancher[d][i], c.date))
       /\ s \in {Rien, sortant[d][i]} /\ UNCHANGED <<apprise, neuves>>
  BY <1>5, <1>6, <1>7
<1>12. TTables'
  BY <1>4, <1>7, <1>10, <1>11, NoterTypes
<1>13. Case(connu, connu', d, i) /\ connu'[d][i] = k
  BY <1>4, <1>7, <1>10, <1>11, NoterTypes
<1>14. Case(plancher, plancher', d, i) /\ Case(sortant, sortant', d, i)
  BY <1>4, <1>7, <1>10, <1>11, NoterTypes
<1>15. plancher'[d][i] = n /\ n >= plancher[d][i]
  BY <1>4, <1>7, <1>10, <1>11, NoterTypes
<1>16. n = plancher[d][i] \/ (c.morte /\ n = c.date)
  BY <1>4, <1>7, <1>10, <1>11, NoterTypes
<1>17. /\ bases' \in [Appareils -> [Ids -> Nat \cup {-1}]]
       /\ \A a \in Appareils : a # d => bases'[a] = bases[a]
       /\ bases'[d][i] = -1 /\ Case(bases, bases', d, i)
  BY <1>7 DEF Types, TCycle, Case
<1>18. examen' = [examen EXCEPT ![d] = Rien]
  BY <1>7 DEF Types, TCycle
<1>19. TCycle' /\ Autres(d)
  BY <1>7, <1>8, <1>17, <1>18, IssueTypes DEF Types
<1>20. lot'[d][i] = Rien /\ \A j \in Ids : j # i => lot'[d][j] = lot[d][j]
  BY <1>7 DEF Types, TCycle
<1>21. QED
  BY <1>1, <1>2, <1>3, <1>4, <1>7, <1>8, <1>9, <1>12, <1>13, <1>14, <1>15, <1>16,
     <1>17, <1>19, <1>20 DEF Types

LEMMA ConflitTypes ==
  ASSUME Types, NEW d \in Appareils, NEW i \in Ids, IssueConflit(d, i)
  PROVE  /\ Types' /\ Autres(d)
         /\ UNCHANGED <<magasin, tables, pc, page, serveur, errantes, maintenant,
                        neuves>>
         /\ pc[d] = "issue" /\ examen[d] = Rien
         /\ lot[d][i] # Rien /\ lot[d][i].statut = "conflict"
         /\ lot'[d][i] = Rien
         /\ \A j \in Ids : j # i => lot'[d][j] = lot[d][j]
         /\ Case(bases, bases', d, i)
         /\ examen'[d] # Rien =>
              /\ lot[d][i].courant # Rien
              /\ examen'[d] = [id |-> i, rev |-> lot[d][i].courant.rev,
                               contenu |-> lot[d][i].courant.contenu,
                               etape |-> "lire"]
         /\ \/ bases'[d][i] = bases[d][i] /\ examen'[d] = Rien
            \/ lot[d][i].courant = Rien
            \/ examen'[d] # Rien /\ bases'[d][i] = lot[d][i].courant.rev
<1>1. PICK c : c = lot[d][i].courant
  OBVIOUS
<1>2. PICK x : x = Accueillie(d, i)
  OBVIOUS
<1>3. PICK b : b = IF rejeux[d][i] = RejeuxMax THEN bases[d][i]
                   ELSE IF c = Rien THEN 0 ELSE c.rev
  OBVIOUS
<1>4. /\ pc[d] = "issue" /\ examen[d] = Rien
      /\ lot[d][i] # Rien /\ lot[d][i].statut = "conflict"
      /\ lot' = [lot EXCEPT ![d][i] = Rien]
      /\ bases' = [bases EXCEPT ![d][i] = b]
      /\ examen' = [examen EXCEPT ![d] = x]
      /\ UNCHANGED <<magasin, tables, pc, page, serveur, errantes, maintenant,
                     neuves>>
  BY <1>1, <1>2, <1>3 DEF IssueConflit, Issue, autour
<1>5. TMagasin' /\ Grandit
  BY <1>4, TypesMeme
<1>6. TServeur' /\ TTables'
  BY <1>4, <1>5, TServeurMeme, TTablesMeme DEF Types, tables
<1>7. /\ c \in Objet \cup {Rien}
      /\ c # Rien => c.rev \in Nat \ {0} /\ c.contenu \in Contenu
                       /\ Vraie(apprise, neuves, i, c.contenu)
  <2>1. EstLot(lot[d], apprise, neuves)
    BY DEF Types, TCycle, EstCycle
  <2>2. lot[d][i] \in Parti /\ (c # Rien => Vraie(apprise, neuves, i, c.contenu))
    BY <1>1, <1>4, <2>1 DEF EstLot
  <2>3. QED
    BY <1>1, <2>2 DEF Parti, Objet
<1>8. /\ c = Rien \/ rejeux[d][i] = RejeuxMax => x = Rien
      /\ ~(c = Rien \/ rejeux[d][i] = RejeuxMax) =>
           x = [id |-> i, rev |-> c.rev, contenu |-> c.contenu, etape |-> "lire"]
  BY <1>1, <1>2 DEF Accueillie
<1>9. /\ x \in Examen \cup {Rien}
      /\ x # Rien => c # Rien /\ x.id = i /\ x.contenu = c.contenu
      /\ c # Rien /\ rejeux[d][i] # RejeuxMax => x # Rien
  <2>1. CASE c = Rien \/ rejeux[d][i] = RejeuxMax
    BY <1>8, <2>1
  <2>2. CASE ~(c = Rien \/ rejeux[d][i] = RejeuxMax)
    <3>1. x = [id |-> i, rev |-> c.rev, contenu |-> c.contenu, etape |-> "lire"]
      BY <1>8, <2>2
    <3>2. x \in Examen /\ x.id = i /\ x.contenu = c.contenu
      BY <1>7, <2>2, <3>1 DEF Examen
    <3>3. QED
      BY <2>2, <3>2, RienHors
  <2>3. QED
    BY <2>1, <2>2
<1>10. x # Rien => x.id = i /\ Vraie(apprise', neuves', i, x.contenu)
  BY <1>4, <1>7, <1>9 DEF magasin
<1>11. b \in Nat \cup {-1}
  BY <1>3, <1>7 DEF Types, TCycle
<1>12. /\ bases' \in [Appareils -> [Ids -> Nat \cup {-1}]]
       /\ \A a \in Appareils : a # d => bases'[a] = bases[a]
       /\ bases'[d][i] = b /\ Case(bases, bases', d, i)
  BY <1>4, <1>11 DEF Types, TCycle, Case
<1>13. UNCHANGED <<pc, page>>
  BY <1>4
<1>14. TCycle' /\ Autres(d)
  BY <1>4, <1>5, <1>9, <1>10, <1>12, <1>13, IssueTypes DEF Types
<1>15. lot'[d][i] = Rien /\ \A j \in Ids : j # i => lot'[d][j] = lot[d][j]
  BY <1>4, <1>5, <1>9, <1>10, <1>12, <1>13, IssueTypes DEF Types
<1>16. examen'[d] = x
  BY <1>4 DEF Types, TCycle
<1>17. (b = bases[d][i] /\ x = Rien) \/ c = Rien \/ (x # Rien /\ b = c.rev)
  BY <1>3, <1>8, <1>9
<1>18. x # Rien => /\ c # Rien
                   /\ x = [id |-> i, rev |-> c.rev, contenu |-> c.contenu,
                           etape |-> "lire"]
  BY <1>8, <1>9
<1>19. QED
  BY <1>1, <1>4, <1>5, <1>6, <1>12, <1>14, <1>15, <1>16, <1>17, <1>18 DEF Types

LEMMA SauvegarderTypes ==
  ASSUME Types, Sauvegarder
  PROVE  /\ Types' /\ generation <= RestaurationsMax
         /\ UNCHANGED <<magasin, tables, cycle, objets, generation, errantes, autour>>
<1>1. /\ generation <= RestaurationsMax
      /\ copie' = [objets |-> objets, seq |-> seq]
      /\ UNCHANGED <<magasin, tables, cycle, objets, seq, generation, errantes, autour>>
      /\ UNCHANGED <<apprise, neuves, maintenant>>
  BY DEF Sauvegarder, magasin, autour
<1>2. TMagasin' /\ Grandit
  BY <1>1, TypesMeme
<1>3. TTables' /\ TCycle'
  BY <1>1, <1>2, TTablesMeme, TCycleMeme DEF Types, tables, cycle
<1>4. /\ copie'.objets = objets /\ copie'.seq = seq
      /\ copie' = [objets |-> copie'.objets, seq |-> copie'.seq]
  BY <1>1
<1>5. TServeur'
  BY <1>1, <1>4 DEF Types, TServeur
<1>6. QED
  BY <1>1, <1>2, <1>3, <1>5 DEF Types

LEMMA RestaurerTypes ==
  ASSUME Types, Restaurer
  PROVE  /\ Types' /\ generation <= RestaurationsMax
         /\ UNCHANGED <<magasin, tables, cycle, autour>>
<1>1. /\ generation <= RestaurationsMax
      /\ objets' = copie.objets /\ seq' = copie.seq
      /\ generation' = generation + 1 /\ errantes' = {}
      /\ copie' = copie \/ copie' = CopieVide
      /\ UNCHANGED <<magasin, tables, cycle, autour>>
      /\ UNCHANGED <<apprise, neuves, maintenant>>
  BY DEF Restaurer, magasin, autour
<1>2. TMagasin' /\ Grandit
  BY <1>1, TypesMeme
<1>3. TTables' /\ TCycle'
  BY <1>1, <1>2, TTablesMeme, TCycleMeme DEF Types, tables, cycle
<1>4. /\ copie' = [objets |-> copie'.objets, seq |-> copie'.seq]
      /\ EstServeur(copie'.objets, copie'.seq, apprise, neuves)
  <2>1. CASE copie' = copie
    BY <2>1 DEF Types, TServeur
  <2>2. CASE copie' = CopieVide
    BY <2>2 DEF CopieVide, EstServeur, Aucun
  <2>3. QED
    BY <1>1, <2>1, <2>2
<1>5. TServeur'
  BY <1>1, <1>4 DEF Types, TServeur
<1>6. QED
  BY <1>1, <1>2, <1>3, <1>5 DEF Types

LEMMA ConnecterTypes ==
  ASSUME Types, NEW d \in Appareils, Connecter(d)
  PROVE  /\ Types'
         /\ UNCHANGED <<magasin, tables, cycle, serveur, errantes, autour>>
<1>1. /\ UNCHANGED <<magasin, tables, cycle, serveur, errantes, autour>>
      /\ UNCHANGED <<maintenant, neuves>>
  BY DEF Connecter, autour
<1>2. TMagasin' /\ Grandit
  BY <1>1, TypesMeme
<1>3. TTables' /\ TCycle' /\ TServeur'
  BY <1>1, <1>2, TTablesMeme, TCycleMeme, TServeurMeme DEF Types, tables, cycle
<1>4. QED
  BY <1>1, <1>2, <1>3 DEF Types

LEMMA AvancerTypes ==
  ASSUME Types, Avancer
  PROVE  /\ Types' /\ maintenant' = maintenant + 1
         /\ UNCHANGED <<magasin, tables, cycle, serveur, errantes, neuves>>
<1>1. /\ UNCHANGED <<magasin, tables, cycle, serveur, errantes, neuves>>
      /\ maintenant' = maintenant + 1
      /\ UNCHANGED <<apprise, neuves, locale, posee, aExporter, ancienne>>
  BY DEF Avancer, magasin
<1>2. TMagasin' /\ Grandit
  BY <1>1, GranditMeme DEF Types, TMagasin
<1>3. TTables' /\ TCycle' /\ TServeur'
  BY <1>1, <1>2, TTablesMeme, TCycleMeme, TServeurMeme DEF Types, tables, cycle
<1>4. QED
  BY <1>1, <1>2, <1>3 DEF Types

LEMMA EcritTypes ==
  ASSUME Types, NEW d \in Appareils, NEW i \in Ids, NEW c \in Contenu,
         Ecrit(d, i, c)
  PROVE  Types' /\ Grandit
<1>1. /\ Poser(d, i, Recue(locale[d][i], c))
      /\ i \notin neuves' /\ neuves' \subseteq neuves /\ maintenant' = maintenant
      /\ UNCHANGED <<tables, cycle, serveur, errantes>>
  BY DEF Ecrit, Recoit
<1>2. PICK r : r = Recue(locale[d][i], c)
  OBVIOUS
<1>3. r \in Contenu
  <2>1. locale[d][i] \in Contenu \cup {Rien}
    BY DEF Types, TMagasin
  <2>2. QED
    BY <1>2, <2>1, RecueEst
<1>4. TMagasin' /\ Grandit
  <2>1. Poser(d, i, r)
    BY <1>1, <1>2
  <2>2. QED
    BY <1>1, <1>3, <2>1, PoserTypes DEF Types
<1>5. TTables' /\ TCycle' /\ TServeur'
  BY <1>1, <1>4, TTablesMeme, TCycleMeme, TServeurMeme DEF Types, tables, cycle
<1>6. QED
  BY <1>4, <1>5 DEF Types

LEMMA PurgerTout ==
  ASSUME Types, NEW d \in Appareils, NEW i \in Ids, Purger(d, i)
  PROVE  /\ Types' /\ Grandit
         /\ UNCHANGED <<apprise, tables, cycle, serveur, errantes, autour>>
<1>1. /\ UNCHANGED <<apprise, tables, cycle, serveur, errantes, autour>>
  BY DEF Purger
<1>2. TMagasin' /\ Grandit
  BY PurgerTypes DEF Types
<1>3. TTables' /\ TCycle' /\ TServeur'
  BY <1>1, <1>2, TTablesMeme, TCycleMeme, TServeurMeme DEF Types, tables, cycle
<1>4. QED
  BY <1>1, <1>2, <1>3 DEF Types

LEMMA TypesInit == Init => Types
<1>1. SUFFICES ASSUME Init
               PROVE  Types
  OBVIOUS
<1>2. /\ locale = [d \in Appareils |-> Aucun]
      /\ connu = [d \in Appareils |-> [i \in Ids |-> Rien]]
      /\ objets = [i \in Ids |-> Rien] /\ seq \in Nat
      /\ ancienne = [d \in Appareils |-> Aucun]
      /\ apprise = [d \in Appareils |-> [i \in Ids |-> -1]]
      /\ posee = [d \in Appareils |-> [i \in Ids |-> 0]]
      /\ aExporter = [d \in Appareils |-> {}]
      /\ sortant = [d \in Appareils |-> Aucun]
      /\ plancher = [d \in Appareils |-> [i \in Ids |-> -1]]
      /\ pc = [d \in Appareils |-> "repos"]
      /\ page = [d \in Appareils |-> Rien]
      /\ examen = [d \in Appareils |-> Rien]
      /\ lot = [d \in Appareils |-> Aucun]
      /\ bases = [d \in Appareils |-> [i \in Ids |-> -1]]
      /\ generation = 1 /\ errantes = {} /\ copie = CopieVide /\ maintenant = 0
  <2>1. {i \in Ids : Aucun[i] # Rien} = {}
    BY DEF Aucun
  <2>2. Cardinality({i \in Ids : Aucun[i] # Rien}) \in Nat
    BY <2>1, FS_EmptySet
  <2>3. QED
    BY <1>1, <2>1, <2>2 DEF Init, Depart
<1>3. TMagasin
  BY <1>2 DEF TMagasin, Aucun, Apprises, EstTombale
<1>4. TTables
  BY <1>2 DEF TTables, Aucun
<1>5. TCycle
  BY <1>2 DEF TCycle, EstCycle, EstLot, Phases, Aucun
<1>6. TServeur
  BY <1>2 DEF TServeur, EstServeur, CopieVide, Aucun
<1>7. QED
  BY <1>3, <1>4, <1>5, <1>6 DEF Types

LEMMA TypesNext ==
  ASSUME Types, Next
  PROVE  Types'
<1>1. CASE Utilisateur
  <2>1. PICK d \in Appareils, i \in Ids :
          \/ \E k \in Messages : Creer(d, i, k) \/ Ecrire(d, i, k)
          \/ Supprimer(d, i) \/ Purger(d, i)
    BY <1>1 DEF Utilisateur
  <2>2. CASE Purger(d, i)
    BY <2>2, PurgerTout
  <2>3. CASE ~Purger(d, i)
    <3>1. \E c \in Contenu : Ecrit(d, i, c)
      BY <2>1, <2>3, EcritCreer, EcritEcrire, EcritSupprimer DEF Types
    <3>2. QED
      BY <3>1, EcritTypes
  <2>4. QED
    BY <2>2, <2>3
<1>2. CASE Avancer
  BY <1>2, AvancerTypes
<1>3. ASSUME NEW d \in Appareils, Etape(d)
      PROVE  Types'
  BY <1>3, CommencerTypes, DemanderPageTypes, FinirPageTypes, FinirTirageTypes,
     PreparerTypes, ServirTypes, FinirLotTypes, ConclureTypes, RefuserTypes,
     ConnecterTypes, ExaminerTypes, RepousserTypes, StockeeTypes, ConflitTypes,
     ReconnaitreTypes, ReaffirmerTypes, TenirTypes, IngererTypes,
     NoterEtapeTypes, RenvoyerTypes
     DEF Etape, Accueillir
<1>4. CASE Pannes
  BY <1>4, InterrompreTypes, ErranteTypes, SauvegarderTypes, RestaurerTypes
     DEF Pannes
<1>5. QED
  BY <1>1, <1>2, <1>3, <1>4 DEF Next
-----------------------------------------------------------------------------
(* Deletions: every date a device took in is passed                        *)

\* The date n of a deletion is passed by the row l, under the clock h and the
\* floor f: a live row is later, and without one a tombstone or the clock says
\* so.
Passe(l, h, f, n) ==
  IF EstVivante(l) THEN l.date > n
  ELSE \/ EstTombale(l) /\ l.date >= n
       \/ n + Retention < h /\ n <= f
       \/ n = -1

\* The dates of deletions d knows of i, what the cycle under way will note
\* included.
Due(d, i, n) ==
  \/ n = apprise[d][i]
  \/ n = plancher[d][i]
  \/ /\ examen[d] # Rien /\ examen[d].id = i /\ examen[d].etape = "noter"
     /\ examen[d].contenu.morte /\ n = examen[d].contenu.date
  \/ lot[d][i] # Rien /\ lot[d][i].contenu.morte /\ n = lot[d][i].contenu.date

Passee(d, i, n) == Passe(locale[d][i], Horloge(d), plancher[d][i], n)

IDates ==
  \A d \in Appareils, i \in Ids : \A n \in Nat \cup {-1} :
    Due(d, i, n) => Passee(d, i, n)

\* Time and floors only make a date more passed.
LEMMA PasseCroit ==
  ASSUME NEW l \in Contenu \cup {Rien}, NEW h \in Nat, NEW k \in Nat, h <= k,
         NEW f \in Nat \cup {-1}, NEW g \in Nat \cup {-1}, f <= g,
         NEW n \in Nat \cup {-1}, Passe(l, h, f, n)
  PROVE  Passe(l, k, g, n)
BY EngineNumbers DEF Passe

\* The join keeps passed what was, when a live copy that comes without a live
\* row is later than the floor, or recent.
LEMMA PasseRecue ==
  ASSUME NEW l \in Contenu \cup {Rien}, NEW c \in Contenu, NEW h \in Nat,
         NEW f \in Nat \cup {-1}, NEW n \in Nat \cup {-1},
         ~EstVivante(l) /\ ~c.morte => c.date > f \/ c.date + Retention >= h
  PROVE  /\ Passe(l, h, f, n) => Passe(Recue(l, c), h, f, n)
         /\ c.morte => Passe(Recue(l, c), h, f, c.date)
<1>1. /\ Retention \in Nat /\ c.date \in Nat
      /\ l # Rien => l.date \in Nat
  BY EngineNumbers, ContenuEst
<1>2. CASE c.morte /\ l = Rien
  <2>1. Recue(l, c) = c
    BY <1>2 DEF Recue
  <2>2. QED
    BY <1>1, <1>2, <2>1, ContenuEst DEF Passe, EstVivante, EstTombale
<1>3. CASE c.morte /\ l # Rien
  <2>1. Recue(l, c) =
          IF (IF l.morte THEN l.date >= c.date ELSE l.date > c.date) THEN l ELSE c
    BY <1>3 DEF Recue
  <2>2. QED
    BY <1>1, <1>3, <2>1, ContenuEst DEF Passe, EstVivante, EstTombale
<1>4. CASE ~c.morte /\ EstTombale(l)
  <2>1. Recue(l, c) = IF l.date >= c.date THEN l ELSE c
    BY <1>4 DEF Recue, EstVivante, EstTombale
  <2>2. QED
    BY <1>1, <1>4, <2>1, ContenuEst DEF Passe, EstVivante, EstTombale
<1>5. CASE ~c.morte /\ EstVivante(l)
  <2>1. l \in Contenu /\ l # Rien
    BY <1>5 DEF EstVivante
  <2>2. Recue(l, c) \in Contenu
    BY <2>1, RecueEst
  <2>3. ~Recue(l, c).morte
    BY <1>5, <2>1, RecueEst
  <2>4. Recue(l, c).date >= l.date
    BY <1>5, <2>1, <2>3, RecueEst
  <2>5. EstVivante(Recue(l, c)) /\ Recue(l, c).date \in Nat
    BY <2>2, <2>3, ContenuEst
  <2>6. QED
    BY <1>1, <1>5, <2>1, <2>4, <2>5 DEF Passe
<1>6. CASE ~c.morte /\ l = Rien
  <2>1. Recue(l, c) = c
    BY <1>6 DEF Recue, EstVivante, EstTombale
  <2>2. QED
    BY <1>1, <1>6, <2>1, ContenuEst DEF Passe, EstVivante, EstTombale
<1>7. QED
  BY <1>2, <1>3, <1>4, <1>5, <1>6 DEF EstVivante, EstTombale

\* A step that leaves the rows alone: floors rise, and what it brings is passed.
LEMMA DatesTables ==
  ASSUME Types, IDates, UNCHANGED <<locale, apprise>>, Types',
         maintenant' >= maintenant,
         \A d \in Appareils, i \in Ids : plancher'[d][i] >= plancher[d][i],
         \A d \in Appareils, i \in Ids : \A n \in Nat \cup {-1} :
           Due(d, i, n)' => Due(d, i, n) \/ Passee(d, i, n)
  PROVE  IDates'
<1>1. SUFFICES ASSUME NEW d \in Appareils, NEW i \in Ids, NEW n \in Nat \cup {-1},
                      Due(d, i, n)'
               PROVE  Passee(d, i, n)'
  BY DEF IDates
<1>2. Passee(d, i, n)
  BY <1>1 DEF IDates
<1>3. PICK k : k = maintenant' + Avance[d]
  OBVIOUS
<1>4. k \in Nat /\ Horloge(d) \in Nat /\ Horloge(d) <= k
  BY <1>3, EngineNumbers DEF Horloge, Types, TMagasin
<1>5. PICK l : l = locale[d][i]
  OBVIOUS
<1>6. PICK f : f = plancher[d][i]
  OBVIOUS
<1>7. PICK g : g = plancher'[d][i]
  OBVIOUS
<1>8. l \in Contenu \cup {Rien} /\ f \in Nat \cup {-1} /\ g \in Nat \cup {-1} /\ f <= g
  BY <1>5, <1>6, <1>7 DEF Types, TMagasin, TTables
<1>9. Passe(l, k, g, n)
  BY <1>2, <1>4, <1>5, <1>6, <1>8, PasseCroit DEF Passee
<1>10. locale'[d][i] = l /\ Horloge(d)' = k /\ plancher'[d][i] = g
  BY <1>3, <1>5, <1>7 DEF Horloge
<1>11. QED
  BY <1>9, <1>10 DEF Passee

\* A step that brings no date.
LEMMA DatesMoins ==
  ASSUME Types, IDates, Types', UNCHANGED <<locale, apprise, plancher>>,
         maintenant' >= maintenant,
         \A d \in Appareils, i \in Ids :
           /\ lot'[d][i] # Rien =>
                lot[d][i] # Rien /\ lot'[d][i].contenu = lot[d][i].contenu
           /\ examen'[d] = examen[d] \/ examen'[d] = Rien \/ examen'[d].etape # "noter"
  PROVE  IDates'
<1>1. ASSUME NEW d \in Appareils, NEW i \in Ids
      PROVE  plancher'[d][i] >= plancher[d][i]
  <2>1. plancher[d][i] \in Nat \cup {-1}
    BY DEF Types, TTables
  <2>2. QED
    BY <2>1
<1>2. ASSUME NEW d \in Appareils, NEW i \in Ids, NEW n \in Nat \cup {-1}, Due(d, i, n)'
      PROVE  Due(d, i, n)
  <2>1. n = apprise'[d][i] \/ n = plancher'[d][i] => Due(d, i, n)
    BY DEF Due
  <2>2. CASE /\ examen'[d] # Rien /\ examen'[d].id = i
             /\ examen'[d].etape = "noter" /\ examen'[d].contenu.morte
             /\ n = examen'[d].contenu.date
    <3>1. examen'[d] = examen[d]
      BY <2>2
    <3>2. QED
      BY <2>2, <3>1 DEF Due
  <2>3. CASE /\ lot'[d][i] # Rien /\ lot'[d][i].contenu.morte
             /\ n = lot'[d][i].contenu.date
    <3>1. lot[d][i] # Rien /\ lot'[d][i].contenu = lot[d][i].contenu
      BY <2>3
    <3>2. QED
      BY <2>3, <3>1 DEF Due
  <2>4. QED
    BY <1>2, <2>1, <2>2, <2>3 DEF Due
<1>3. QED
  BY <1>1, <1>2, DatesTables

\* A step of the store.
LEMMA DatesRecoit ==
  ASSUME Types, IDates, NEW d \in Appareils, NEW i \in Ids, NEW c \in Contenu,
         Recoit(d, i, c), UNCHANGED <<plancher, lot, maintenant>>,
         ~EstVivante(locale[d][i]) /\ ~c.morte =>
           c.date > plancher[d][i] \/ c.date + Retention >= Horloge(d),
         \/ examen'[d] = examen[d]
         \/ examen'[d].id = i /\ examen'[d].contenu = c,
         \A e \in Appareils : e # d => examen'[e] = examen[e]
  PROVE  IDates'
<1>1. SUFFICES ASSUME NEW e \in Appareils, NEW j \in Ids, NEW n \in Nat \cup {-1},
                      Due(e, j, n)'
               PROVE  Passee(e, j, n)'
  BY DEF IDates
<1>2. PICK r : r = Recue(locale[d][i], c)
  OBVIOUS
<1>3. locale[d][i] \in Contenu \cup {Rien} /\ plancher[d][i] \in Nat \cup {-1}
      /\ apprise[d][i] \in Nat \cup {-1} /\ Horloge(d) \in Nat
  BY HorlogeEst DEF Types, TMagasin, TTables, Apprises
<1>4. r \in Contenu /\ r.date \in Nat
  BY <1>2, <1>3, RecueEst, ContenuEst
<1>5. PICK m : m = IF r.morte THEN MaxDe(apprise[d][i], r.date) ELSE apprise[d][i]
  OBVIOUS
<1>6. /\ locale' = [locale EXCEPT ![d][i] = r]
      /\ apprise' = [apprise EXCEPT ![d][i] = m]
  BY <1>2, <1>5 DEF Recoit, Poser
<1>7. Horloge(e)' = Horloge(e)
  BY DEF Horloge
<1>8. CASE ~(e = d /\ j = i)
  <2>1. locale'[e][j] = locale[e][j] /\ apprise'[e][j] = apprise[e][j]
    BY <1>6, <1>8 DEF Types, TMagasin, Apprises
  <2>2. Due(e, j, n)
    BY <1>1, <1>8, <2>1 DEF Due
  <2>3. Passee(e, j, n)
    BY <2>2 DEF IDates
  <2>4. QED
    BY <1>7, <2>1, <2>3 DEF Passee
<1>9. CASE e = d /\ j = i
  <2>1. locale'[d][i] = r /\ apprise'[d][i] = m
    BY <1>6 DEF Types, TMagasin, Apprises
  <2>2. m = apprise[d][i] \/ (r.morte /\ m = r.date)
    BY <1>3, <1>4, <1>5 DEF MaxDe
  <2>3. Due(d, i, n) \/ (r.morte /\ n = r.date) \/ (c.morte /\ n = c.date)
    BY <1>1, <1>9, <2>1, <2>2 DEF Due
  <2>4. Passe(r, Horloge(d), plancher[d][i], n)
    <3>1. CASE Due(d, i, n)
      <4>1. Passe(locale[d][i], Horloge(d), plancher[d][i], n)
        BY <3>1 DEF IDates, Passee
      <4>2. QED
        BY <1>2, <1>3, <4>1, PasseRecue
    <3>2. CASE r.morte /\ n = r.date
      BY <1>4, <3>2, ContenuEst DEF Passe
    <3>3. CASE c.morte /\ n = c.date
      BY <1>2, <1>3, <3>3, PasseRecue
    <3>4. QED
      BY <2>3, <3>1, <3>2, <3>3
  <2>5. QED
    BY <1>7, <1>9, <2>1, <2>4 DEF Passee
<1>10. QED
  BY <1>8, <1>9

LEMMA MonteMeme ==
  ASSUME Types
  PROVE  \A d \in Appareils, i \in Ids : plancher[d][i] >= plancher[d][i]
<1>1. \A d \in Appareils, i \in Ids : plancher[d][i] \in Nat \cup {-1}
  BY DEF Types, TTables
<1>2. \A n \in Nat \cup {-1} : n >= n
  OBVIOUS
<1>3. QED
  BY <1>1, <1>2

\* The export makes of the tombstones it sees the floors they are.
LEMMA DatesExporter ==
  ASSUME Types, IDates, Types', NEW d \in Appareils, Exporter(d),
         UNCHANGED <<locale, posee, ancienne, apprise, neuves, maintenant, connu,
                     examen, lot>>
  PROVE  IDates'
<1>1. /\ \A i \in Ids : plancher'[d][i] = PlancherExporte(d, i)
      /\ \A e \in Appareils, i \in Ids : e # d => plancher'[e][i] = plancher[e][i]
  BY ExporterTypes DEF Types
<1>2. ASSUME NEW e \in Appareils, NEW i \in Ids
      PROVE  /\ plancher'[e][i] >= plancher[e][i]
             /\ \/ plancher'[e][i] = plancher[e][i]
                \/ /\ EstTombale(locale[e][i])
                   /\ plancher'[e][i] = locale[e][i].date
  <2>1. /\ plancher[e][i] \in Nat \cup {-1}
        /\ locale[e][i] # Rien => locale[e][i].date \in Nat
    BY ContenuEst DEF Types, TMagasin, TTables
  <2>2. plancher'[e][i] \in {plancher[e][i], PlancherExporte(e, i)}
    BY <1>1
  <2>3. QED
    BY <2>1, <2>2 DEF PlancherExporte, MaxDe, EstTombale
<1>3. ASSUME NEW e \in Appareils, NEW i \in Ids, NEW n \in Nat \cup {-1},
             Due(e, i, n)'
      PROVE  Due(e, i, n) \/ Passee(e, i, n)
  <2>1. CASE n = plancher'[e][i] /\ n # plancher[e][i]
    <3>1. /\ EstTombale(locale[e][i]) /\ n = locale[e][i].date
          /\ ~EstVivante(locale[e][i])
      BY <1>2, <2>1 DEF EstTombale, EstVivante
    <3>2. QED
      BY <3>1 DEF Passee, Passe
  <2>2. CASE n # plancher'[e][i] \/ n = plancher[e][i]
    BY <1>3, <2>2 DEF Due
  <2>3. QED
    BY <2>1, <2>2
<1>4. maintenant' >= maintenant
  BY DEF Types, TMagasin
<1>5. UNCHANGED <<locale, apprise>>
  OBVIOUS
<1>6. QED
  BY <1>2, <1>3, <1>4, <1>5, DatesTables

LEMMA DatesPreparer ==
  ASSUME Types, IDates, NEW d \in Appareils, PreparerLot(d)
  PROVE  IDates'
<1>1. Types' /\ Autres(d)
  BY PreparerTypes
<1>2. UNCHANGED <<locale, apprise, plancher, maintenant, examen>>
  BY DEF PreparerLot, magasin, autour
<1>3. ASSUME NEW i \in Ids, lot'[d][i] # Rien
      PROVE  /\ Partante(d, i) /\ lot'[d][i].contenu = APousser(d, i)
             /\ sortant[d][i] # Rien /\ APousser(d, i) # Rien
  BY <1>3, PreparerTypes DEF Partante, AEnvoyer
<1>4. ASSUME NEW e \in Appareils, NEW i \in Ids, NEW n \in Nat \cup {-1},
             Due(e, i, n)'
      PROVE  Due(e, i, n) \/ Passee(e, i, n)
  <2>1. CASE e = d /\ lot'[d][i] # Rien /\ lot'[d][i].contenu.morte
             /\ n = lot'[d][i].contenu.date
    <3>1. /\ APousser(d, i).morte /\ n = APousser(d, i).date
          /\ sortant[d][i] # Rien
      BY <1>3, <2>1
    <3>2. \/ APousser(d, i) = locale[d][i]
          \/ plancher[d][i] # -1 /\ APousser(d, i) = Tombale(plancher[d][i])
      BY <3>1, APousserEst
    <3>3. CASE APousser(d, i) = locale[d][i]
      <4>1. locale[d][i] # Rien
        BY <1>3, <2>1, <3>3
      <4>2. locale[d][i] \in Contenu
        BY <4>1 DEF Types, TMagasin
      <4>3. EstTombale(locale[d][i]) /\ ~EstVivante(locale[d][i])
        BY <3>1, <3>3, <4>2, ContenuEst
      <4>4. locale[d][i].date >= n
        BY <3>1, <3>3, <4>2, ContenuEst
      <4>5. QED
        BY <2>1, <4>3, <4>4 DEF Passee, Passe
    <3>4. CASE plancher[d][i] # -1 /\ APousser(d, i) = Tombale(plancher[d][i])
      <4>1. n = plancher[d][i]
        BY <3>1, <3>4, TombaleEst DEF Types, TTables
      <4>2. QED
        BY <2>1, <4>1 DEF Due
    <3>5. QED
      BY <3>2, <3>3, <3>4
  <2>2. CASE ~(e = d /\ lot'[d][i] # Rien /\ lot'[d][i].contenu.morte
               /\ n = lot'[d][i].contenu.date)
    BY <1>1, <1>2, <1>4, <2>2 DEF Due, Autres
  <2>3. QED
    BY <2>1, <2>2
<1>5. /\ maintenant' >= maintenant
      /\ \A e \in Appareils, i \in Ids : plancher'[e][i] >= plancher[e][i]
  BY <1>2, MonteMeme DEF Types, TMagasin
<1>6. QED
  BY <1>1, <1>2, <1>4, <1>5, DatesTables

LEMMA DatesStockee ==
  ASSUME Types, IDates, NEW d \in Appareils, NEW i \in Ids, IssueStockee(d, i)
  PROVE  IDates'
<1>1. /\ Types' /\ Autres(d) /\ UNCHANGED <<magasin, examen, maintenant>>
      /\ lot[d][i] # Rien /\ lot'[d][i] = Rien
      /\ \A j \in Ids : j # i => lot'[d][j] = lot[d][j]
      /\ Case(plancher, plancher', d, i)
      /\ plancher'[d][i] >= plancher[d][i]
      /\ \/ plancher'[d][i] = plancher[d][i]
         \/ plancher'[d][i] = lot[d][i].contenu.date /\ lot[d][i].contenu.morte
  BY StockeeTypes
<1>2. UNCHANGED <<locale, apprise, examen>> /\ maintenant' >= maintenant
  BY <1>1 DEF magasin, Types, TMagasin
<1>3. \A e \in Appareils, j \in Ids : plancher'[e][j] >= plancher[e][j]
  BY <1>1, MonteMeme DEF Case
<1>4. ASSUME NEW e \in Appareils, NEW j \in Ids, NEW n \in Nat \cup {-1},
             Due(e, j, n)'
      PROVE  Due(e, j, n)
  <2>1. lot'[e][j] # Rien => lot'[e][j] = lot[e][j]
    BY <1>1 DEF Autres
  <2>2. CASE e = d /\ j = i
    BY <1>1, <1>2, <1>4, <2>2 DEF Due
  <2>3. CASE ~(e = d /\ j = i)
    BY <1>1, <1>2, <1>4, <2>1, <2>3 DEF Due, Case
  <2>4. QED
    BY <2>2, <2>3
<1>5. QED
  BY <1>1, <1>2, <1>3, <1>4, DatesTables

LEMMA DatesNoter ==
  ASSUME Types, IDates, NEW d \in Appareils, Noter(d)
  PROVE  IDates'
<1>1. /\ Types' /\ Note(d) /\ examen[d] # Rien /\ examen'[d].etape = "renvoyer"
      /\ examen[d].etape = "noter"
      /\ plancher'[d][examen[d].id] >= plancher[d][examen[d].id]
      /\ \/ plancher'[d][examen[d].id] = plancher[d][examen[d].id]
         \/ /\ plancher'[d][examen[d].id] = examen[d].contenu.date
            /\ examen[d].contenu.morte
  BY NoterEtapeTypes
<1>2. UNCHANGED <<locale, apprise>> /\ maintenant' >= maintenant
  BY DEF Noter, magasin, autour, Types, TMagasin
<1>3. \A e \in Appareils, j \in Ids : plancher'[e][j] >= plancher[e][j]
  BY <1>1, MonteMeme DEF Note, Case
<1>4. ASSUME NEW e \in Appareils, NEW j \in Ids, NEW n \in Nat \cup {-1},
             Due(e, j, n)'
      PROVE  Due(e, j, n)
  <2>1. lot' = lot /\ \A a \in Appareils : a # d => examen'[a] = examen[a]
    BY <1>1 DEF Note, Autres
  <2>2. CASE e = d /\ j = examen[d].id
    BY <1>1, <1>2, <1>4, <2>1, <2>2 DEF Due
  <2>3. CASE ~(e = d /\ j = examen[d].id)
    <3>1. plancher'[e][j] = plancher[e][j]
      BY <1>1, <2>3 DEF Note, Case
    <3>2. QED
      BY <1>1, <1>2, <1>4, <2>1, <3>1 DEF Due
  <2>4. QED
    BY <2>2, <2>3
<1>5. QED
  BY <1>1, <1>2, <1>3, <1>4, DatesTables

LEMMA DatesIngerer ==
  ASSUME Types, IDates, NEW d \in Appareils, Ingerer(d)
  PROVE  IDates'
<1>1. /\ examen[d] # Rien /\ Recoit(d, examen[d].id, examen[d].contenu)
      /\ UNCHANGED <<tables, lot, maintenant>> /\ Autres(d)
      /\ ~SousPlancher(d, examen[d])
      /\ examen'[d].id = examen[d].id /\ examen'[d].contenu = examen[d].contenu
  BY IngererTypes
<1>2. PICK i : i = examen[d].id
  OBVIOUS
<1>3. PICK c : c = examen[d].contenu
  OBVIOUS
<1>4. i \in Ids /\ c \in Contenu
  BY <1>1, <1>2, <1>3, ExamenEst
<1>5. ~c.morte => c.date > plancher[d][i]
  BY <1>1, <1>2, <1>3, <1>4, ContenuEst DEF SousPlancher, Types, TTables
<1>6. /\ Recoit(d, i, c) /\ UNCHANGED <<plancher, lot, maintenant>>
      /\ examen'[d].id = i /\ examen'[d].contenu = c
      /\ \A e \in Appareils : e # d => examen'[e] = examen[e]
  BY <1>1, <1>2, <1>3 DEF tables, Autres
<1>7. QED
  BY <1>4, <1>5, <1>6, DatesRecoit

LEMMA DatesPurger ==
  ASSUME Types, IDates, NEW d \in Appareils, NEW i \in Ids, Purger(d, i)
  PROVE  IDates'
<1>1. /\ EstTombale(locale[d][i])
      /\ MaxDe(locale[d][i].date, posee[d][i]) + Retention < Horloge(d)
      /\ plancher[d][i] >= locale[d][i].date
      /\ locale' = [locale EXCEPT ![d][i] = Rien]
      /\ UNCHANGED <<apprise, plancher, examen, lot, maintenant>>
  BY DEF Purger, PeutPurger, tables, cycle, autour
<1>2. /\ locale[d][i] \in Contenu /\ locale[d][i].date \in Nat
      /\ posee[d][i] \in Nat /\ Retention \in Nat /\ Horloge(d) \in Nat
      /\ plancher[d][i] \in Nat \cup {-1}
  BY <1>1, ContenuEst, HorlogeEst, EngineNumbers
     DEF Types, TMagasin, TTables, EstTombale
<1>3. locale[d][i].date + Retention < Horloge(d) /\ ~EstVivante(locale[d][i])
  BY <1>1, <1>2 DEF MaxDe, EstVivante, EstTombale
<1>4. SUFFICES ASSUME NEW e \in Appareils, NEW j \in Ids, NEW n \in Nat \cup {-1},
                      Due(e, j, n)'
               PROVE  Passee(e, j, n)'
  BY DEF IDates
<1>5. Passee(e, j, n) /\ Horloge(e)' = Horloge(e)
  BY <1>1, <1>4 DEF IDates, Due, Horloge
<1>6. CASE e = d /\ j = i
  <2>1. locale'[d][i] = Rien
    BY <1>1 DEF Types, TMagasin
  <2>2. Passe(Rien, Horloge(d), plancher[d][i], n)
    BY <1>1, <1>2, <1>3, <1>5, <1>6 DEF Passee, Passe, EstVivante
  <2>3. QED
    BY <1>1, <1>5, <1>6, <2>1, <2>2 DEF Passee
<1>7. CASE ~(e = d /\ j = i)
  <2>1. locale'[e][j] = locale[e][j]
    BY <1>1, <1>7 DEF Types, TMagasin
  <2>2. QED
    BY <1>1, <1>5, <2>1 DEF Passee
<1>8. QED
  BY <1>6, <1>7

LEMMA DatesInit == Init => IDates
<1>1. SUFFICES ASSUME Init
               PROVE  IDates
  OBVIOUS
<1>2. /\ locale = [d \in Appareils |-> Aucun]
      /\ apprise = [d \in Appareils |-> [i \in Ids |-> -1]]
      /\ plancher = [d \in Appareils |-> [i \in Ids |-> -1]]
      /\ examen = [d \in Appareils |-> Rien]
      /\ lot = [d \in Appareils |-> Aucun]
  BY <1>1 DEF Init, Depart
<1>3. ASSUME NEW d \in Appareils, NEW i \in Ids, NEW n \in Nat \cup {-1}, Due(d, i, n)
      PROVE  Passee(d, i, n)
  <2>1. n = -1
    BY <1>2, <1>3 DEF Due, Aucun
  <2>2. locale[d][i] = Rien
    BY <1>2 DEF Aucun
  <2>3. QED
    BY <2>1, <2>2 DEF Passee, Passe, EstVivante
<1>4. QED
  BY <1>3 DEF IDates

\* The steps of a cycle that leave the dates as they are.
LEMMA DatesEtape ==
  ASSUME Types, IDates, NEW d \in Appareils, Etape(d)
  PROVE  IDates'
<1>1. Types'
  <2>1. Next
    BY DEF Next
  <2>2. QED
    BY <2>1, TypesNext
<1>2. CASE Commencer(d) \/ Conclure(d)
  <2>1. Exporter(d) /\ UNCHANGED <<locale, posee, ancienne, apprise, neuves,
                                   maintenant, connu, examen, lot>>
    BY <1>2 DEF Commencer, Conclure, autour
  <2>2. QED
    BY <1>1, <2>1, DatesExporter
<1>3. CASE PreparerLot(d)
  BY <1>3, DatesPreparer
<1>4. CASE Ingerer(d)
  BY <1>4, DatesIngerer
<1>5. CASE Noter(d)
  BY <1>5, DatesNoter
<1>6. CASE \E i \in Ids : IssueStockee(d, i)
  BY <1>6, DatesStockee
<1>7. maintenant' >= maintenant
  <2>1. maintenant \in Nat
    BY DEF Types, TMagasin
  <2>2. Accueillir(d) => maintenant' = maintenant
    BY DEF Accueillir, Reconnaitre, Reaffirmer, TenirPlancher, Ingerer, Noter,
       Renvoyer, autour
  <2>3. Commencer(d) \/ Conclure(d) => maintenant' = maintenant
    BY DEF Commencer, Conclure, autour
  <2>4. DemanderPage(d) \/ FinirPage(d) \/ FinirTirage(d)
          => maintenant' = maintenant
    BY DEF DemanderPage, FinirPage, FinirTirage, autour
  <2>5. PreparerLot(d) \/ ServirLot(d) \/ FinirLot(d) \/ Refuser(d)
          \/ Connecter(d) => maintenant' = maintenant
    BY DEF PreparerLot, ServirLot, FinirLot, Refuser, Connecter, autour
  <2>6. ASSUME NEW i \in Ids,
               Examiner(d, i) \/ RepousserAbsent(d, i) \/ IssueStockee(d, i)
                 \/ IssueConflit(d, i)
        PROVE  maintenant' = maintenant
    BY <2>6 DEF Examiner, RepousserAbsent, IssueStockee, IssueConflit, autour
  <2>7. QED
    BY <2>1, <2>2, <2>3, <2>4, <2>5, <2>6 DEF Etape
<1>8. CASE DemanderPage(d) \/ FinirPage(d) \/ FinirTirage(d) \/ FinirLot(d)
           \/ \E i \in Ids : RepousserAbsent(d, i)
  <2>1. UNCHANGED <<locale, apprise, plancher, examen, lot>>
    BY <1>8 DEF DemanderPage, FinirPage, FinirTirage, FinirLot, RepousserAbsent,
       magasin, tables
  <2>2. QED
    BY <1>1, <1>7, <2>1, DatesMoins
<1>9. CASE Connecter(d)
  <2>1. UNCHANGED <<locale, apprise, plancher, examen, lot>>
    BY <1>9 DEF Connecter, magasin, tables, cycle
  <2>2. QED
    BY <1>1, <1>7, <2>1, DatesMoins
<1>10. CASE \E i \in Ids : Examiner(d, i)
  <2>1. PICK i \in Ids : Examiner(d, i)
    BY <1>10
  <2>2. /\ Autres(d) /\ lot' = lot
        /\ examen'[d] = [id |-> i, rev |-> page[d].elements[i].rev,
                          contenu |-> page[d].elements[i].contenu, etape |-> "lire"]
    BY <2>1, ExaminerTypes
  <2>3. examen'[d].etape # "noter"
    BY <2>2
  <2>4. UNCHANGED <<locale, apprise, plancher>>
    BY <2>1 DEF Examiner, magasin, tables
  <2>5. QED
    BY <1>1, <1>7, <2>2, <2>3, <2>4, DatesMoins DEF Autres
<1>11. CASE ServirLot(d)
  <2>1. /\ UNCHANGED <<magasin, tables, examen>> /\ Autres(d)
        /\ \A i \in Ids : /\ lot[d][i] = Rien => lot'[d][i] = Rien
                          /\ lot'[d][i] # Rien => lot'[d][i].contenu = lot[d][i].contenu
    BY <1>11, ServirTypes
  <2>2. UNCHANGED <<locale, apprise, plancher, examen>>
    BY <2>1 DEF magasin, tables
  <2>3. QED
    BY <1>1, <1>7, <2>1, <2>2, DatesMoins DEF Autres
<1>12. CASE Refuser(d)
  <2>1. Autres(d) /\ Fini(d)
    BY <1>12, RefuserTypes
  <2>2. UNCHANGED <<locale, apprise, plancher>>
    BY <1>12 DEF Refuser, magasin
  <2>3. \A i \in Ids : lot'[d][i] = Rien
    BY <2>1 DEF Fini, Aucun
  <2>4. QED
    BY <1>1, <1>7, <2>1, <2>2, <2>3, DatesMoins DEF Autres, Fini
<1>13. CASE \E i \in Ids : IssueConflit(d, i)
  <2>1. PICK i \in Ids : IssueConflit(d, i)
    BY <1>13
  <2>2. /\ Autres(d) /\ UNCHANGED <<magasin, tables>> /\ lot'[d][i] = Rien
        /\ \A j \in Ids : j # i => lot'[d][j] = lot[d][j]
        /\ examen'[d] # Rien =>
             examen'[d] = [id |-> i, rev |-> lot[d][i].courant.rev,
                           contenu |-> lot[d][i].courant.contenu, etape |-> "lire"]
    BY <2>1, ConflitTypes
  <2>3. examen'[d] = Rien \/ examen'[d].etape # "noter"
    BY <2>2
  <2>4. UNCHANGED <<locale, apprise, plancher>>
    BY <2>2 DEF magasin, tables
  <2>5. QED
    BY <1>1, <1>7, <2>2, <2>3, <2>4, DatesMoins DEF Autres
<1>14. CASE Reconnaitre(d) \/ Renvoyer(d) \/ TenirPlancher(d)
  <2>1. /\ Note(d) /\ plancher' = plancher
        /\ examen'[d] = Rien \/ examen'[d].etape # "noter"
    BY <1>14, ReconnaitreTypes, RenvoyerTypes, TenirTypes
  <2>2. UNCHANGED <<locale, apprise, plancher>>
    BY <1>14 DEF Reconnaitre, Renvoyer, TenirPlancher, magasin
  <2>3. QED
    BY <1>1, <1>7, <2>1, <2>2, DatesMoins DEF Autres, Note
<1>15. CASE Reaffirmer(d)
  <2>1. examen'[d] = Rien /\ Autres(d) /\ UNCHANGED <<magasin, plancher, lot>>
    BY <1>15, ReaffirmerTypes
  <2>2. UNCHANGED <<locale, apprise, plancher>>
    BY <2>1 DEF magasin
  <2>3. QED
    BY <1>1, <1>7, <2>1, <2>2, DatesMoins DEF Autres
<1>16. QED
  BY <1>2, <1>3, <1>4, <1>5, <1>6, <1>8, <1>9, <1>10, <1>11, <1>12, <1>13, <1>14,
     <1>15 DEF Etape, Accueillir

LEMMA DatesNext ==
  ASSUME Types, IDates, Next, Absence <= Retention
  PROVE  IDates'
<1>1. Types'
  BY TypesNext
<1>2. CASE Utilisateur
  <2>1. PICK d \in Appareils, i \in Ids :
          \/ \E k \in Messages : Creer(d, i, k) \/ Ecrire(d, i, k)
          \/ Supprimer(d, i) \/ Purger(d, i)
    BY <1>2 DEF Utilisateur
  <2>2. CASE Purger(d, i)
    BY <2>2, DatesPurger
  <2>3. CASE ~Purger(d, i)
    <3>1. PICK c \in Contenu : Ecrit(d, i, c)
      BY <2>1, <2>3, EcritCreer, EcritEcrire, EcritSupprimer DEF Types
    <3>2. /\ Recoit(d, i, c) /\ UNCHANGED <<plancher, lot, maintenant, examen>>
          /\ c.morte \/ c.date + Absence >= Horloge(d)
      BY <3>1 DEF Ecrit, tables, cycle
    <3>3. c.date \in Nat /\ Absence \in Nat /\ Retention \in Nat /\ Horloge(d) \in Nat
      BY ContenuEst, EngineNumbers, HorlogeEst DEF Types, TMagasin
    <3>4. ~c.morte => c.date + Retention >= Horloge(d)
      BY <3>2, <3>3
    <3>5. QED
      BY <3>2, <3>4, DatesRecoit
  <2>4. QED
    BY <2>2, <2>3
<1>3. CASE Avancer
  <2>1. /\ maintenant' >= maintenant
        /\ UNCHANGED <<locale, apprise, plancher, examen, lot>>
    BY <1>3, AvancerTypes DEF magasin, tables, cycle, Types, TMagasin
  <2>2. QED
    BY <1>1, <2>1, DatesMoins
<1>4. CASE \E d \in Appareils : Etape(d)
  BY <1>4, DatesEtape
<1>5. CASE \E d \in Appareils, arrivera \in BOOLEAN : Interrompre(d, arrivera)
  <2>1. PICK d \in Appareils, arrivera \in BOOLEAN : Interrompre(d, arrivera)
    BY <1>5
  <2>2. Autres(d) /\ Fini(d)
    BY <2>1, InterrompreTypes
  <2>3. UNCHANGED <<locale, apprise, plancher>> /\ maintenant' >= maintenant
    BY <2>1 DEF Interrompre, magasin, Types, TMagasin
  <2>4. \A i \in Ids : lot'[d][i] = Rien
    BY <2>2 DEF Fini, Aucun
  <2>5. QED
    BY <1>1, <2>2, <2>3, <2>4, DatesMoins DEF Autres, Fini
<1>6. CASE (\E l \in errantes : ServirErrante(l)) \/ Sauvegarder \/ Restaurer
  <2>1. UNCHANGED <<magasin, tables, cycle, maintenant>>
    BY <1>6 DEF ServirErrante, Sauvegarder, Restaurer, autour
  <2>2. UNCHANGED <<locale, apprise, plancher, examen, lot>> /\ maintenant' >= maintenant
    BY <2>1 DEF magasin, tables, cycle, Types, TMagasin
  <2>3. QED
    BY <1>1, <2>2, DatesMoins
<1>7. QED
  BY <1>2, <1>3, <1>4, <1>5, <1>6 DEF Next, Pannes

LEMMA DatesMeme ==
  ASSUME Types, IDates, UNCHANGED vars
  PROVE  Types' /\ IDates'
<1>1. UNCHANGED <<magasin, tables, cycle, serveur, errantes, autour, maintenant,
                  neuves>>
  BY DEF vars, autour
<1>2. TMagasin' /\ Grandit
  BY <1>1, TypesMeme
<1>3. TTables' /\ TCycle' /\ TServeur'
  BY <1>1, <1>2, TTablesMeme, TCycleMeme, TServeurMeme DEF Types, tables, cycle
<1>4. UNCHANGED <<locale, apprise, plancher, examen, lot>> /\ maintenant' >= maintenant
  BY <1>1 DEF magasin, tables, cycle, Types, TMagasin
<1>5. Types'
  BY <1>2, <1>3 DEF Types
<1>6. QED
  BY <1>4, <1>5, DatesMoins

\* SuppressionDefendue for every account, restorations of the server included:
\* a device whose store took in a deletion shows no copy dated at most like
\* it, the tombstone purged or not, provided no view waits longer than the
\* retention before it pushes what it wrote.
THEOREM DeletionsDefended ==
  ASSUME Absence <= Retention
  PROVE  Spec => []SuppressionDefendue
<1>1. Init => Types /\ IDates
  BY TypesInit, DatesInit
<1>2. Types /\ IDates /\ [Next]_vars => (Types /\ IDates)'
  BY TypesNext, DatesNext, DatesMeme
<1>3. Types /\ IDates => SuppressionDefendue
  <2>1. SUFFICES ASSUME Types, IDates, NEW d \in Appareils, NEW i \in Ids,
                        EstVivante(locale[d][i])
                 PROVE  locale[d][i].date > apprise[d][i]
    BY DEF SuppressionDefendue
  <2>2. apprise[d][i] \in Nat \cup {-1}
    BY <2>1 DEF Types, TMagasin, Apprises
  <2>3. Passee(d, i, apprise[d][i])
    BY <2>1, <2>2 DEF IDates, Due
  <2>4. QED
    BY <2>1, <2>3 DEF Passee, Passe
<1>4. QED
  BY <1>1, <1>2, <1>3, PTL DEF Spec

-----------------------------------------------------------------------------
(***************************************************************************)
(* While the server is not restored: no push overwrites what it has not    *)
(* seen, what is noted of the server is true, nothing is forgotten, and    *)
(* "synchronised" is true.                                                 *)
(*                                                                         *)
(* All four come from one chain, in the order Suit: what follows a content *)
(* has a later date, is its deletion, or holds its messages, and loses     *)
(* none but to a deletion.  The row of a device only moves forward in it,  *)
(* a purged row counting as its floor (Tenu), and so does the object of    *)
(* the server, because what a device pushes follows what it took in of it, *)
(* and the server compares revisions.  Every invariant speaks of one cell, *)
(* a device and a conversation; a step that leaves the cell alone only     *)
(* meets the progress of the others (Progres).                             *)
(***************************************************************************)

Suivi(i, b, c) == Suit(apprise, i, b, c)

\* What d holds of i, and that it covers c.
Tenu(d, i)     == Tenue(locale[d][i], plancher[d][i])
Prise(d, i, c) == Suivi(i, c, Tenu(d, i))

\* The server held c at revision rev.
Temoin(i, rev, c) ==
  /\ objets[i] # Rien /\ rev <= objets[i].rev
  /\ rev = objets[i].rev => c = objets[i].contenu
  /\ Suivi(i, c, objets[i].contenu)

\* c at rev is no older than what d noted.
Fraiche(d, i, rev, c) ==
  connu[d][i] # Rien =>
    /\ connu[d][i].rev <= rev
    /\ connu[d][i].empreinte # Rien => Suivi(i, connu[d][i].empreinte, c)

\* c at rev may be taken in: it follows the floor of a purged row.
APrendre(d, i, rev, c) ==
  /\ Temoin(i, rev, c) /\ Fraiche(d, i, rev, c)
  /\ locale[d][i] = Rien => Suivi(i, Tombale(plancher[d][i]), c)

\* A push of c over base, not handled yet, overwrites only what it follows.
Portee(i, base, c) ==
  /\ base <= RevServeur(i)
  /\ base = RevServeur(i) /\ objets[i] # Rien => Suivi(i, objets[i].contenu, c)

LConnu(d, i) == connu[d][i] # Rien =>
  /\ objets[i] # Rien /\ connu[d][i].rev <= objets[i].rev
  /\ connu[d][i].rev = objets[i].rev =>
       /\ connu[d][i].empreinte \in {Rien, objets[i].contenu}
       /\ Prise(d, i, objets[i].contenu)
  /\ connu[d][i].empreinte # Rien =>
       /\ Suivi(i, connu[d][i].empreinte, objets[i].contenu)
       /\ Prise(d, i, connu[d][i].empreinte)

Poussee == {"pousse", "vol", "issue", "conclut"}

ALire(d, i) == examen[d] # Rien /\ examen[d].id = i /\ examen[d].etape = "lire"

\* The base of the next push, after a conflict.
LBases(d, i) == bases[d][i] # -1 =>
  /\ pc[d] \in Poussee
  /\ objets[i] # Rien /\ bases[d][i] <= objets[i].rev
  /\ bases[d][i] = objets[i].rev => Prise(d, i, objets[i].contenu) \/ ALire(d, i)
  /\ connu[d][i] # Rien => connu[d][i].rev <= bases[d][i]

LPage(d, i) == pc[d] = "page" /\ page[d].elements[i] # Rien =>
  APrendre(d, i, page[d].elements[i].rev, page[d].elements[i].contenu)

LExamen(d, i) == examen[d] # Rien /\ examen[d].id = i =>
  /\ Temoin(i, examen[d].rev, examen[d].contenu)
  /\ bases[d][i] # -1 => bases[d][i] = examen[d].rev
  /\ examen[d].etape = "lire" =>
       APrendre(d, i, examen[d].rev, examen[d].contenu)
  /\ examen[d].etape = "noter" =>
       /\ Fraiche(d, i, examen[d].rev, examen[d].contenu)
       /\ Prise(d, i, examen[d].contenu)

LLot(d, i) == lot[d][i] # Rien =>
  /\ Prise(d, i, lot[d][i].contenu)
  /\ connu[d][i] # Rien => connu[d][i].rev <= lot[d][i].base
  /\ bases[d][i] # -1 => bases[d][i] <= lot[d][i].base
  /\ lot[d][i].statut = "parti" => Portee(i, lot[d][i].base, lot[d][i].contenu)
  /\ lot[d][i].statut = "stored" =>
       Temoin(i, lot[d][i].base + 1, lot[d][i].contenu)
  /\ lot[d][i].statut = "conflict" =>
       /\ lot[d][i].courant # Rien /\ lot[d][i].base < lot[d][i].courant.rev
       /\ APrendre(d, i, lot[d][i].courant.rev, lot[d][i].courant.contenu)
  /\ i \notin aExporter[d] /\ locale[d][i] # Rien =>
       locale[d][i] = lot[d][i].contenu

LPlancher(d, i) ==
  /\ EstTombale(locale[d][i]) => plancher[d][i] <= locale[d][i].date
  /\ locale[d][i] = Rien /\ plancher[d][i] # -1 =>
       /\ objets[i] # Rien
       /\ Suivi(i, Tombale(plancher[d][i]), objets[i].contenu)

LOubli(d, i) == locale[d][i] # Rien =>
  Attendue(d, i) \/ DejaLa(d, i, locale[d][i])

Lien(d, i) ==
  /\ LConnu(d, i) /\ LBases(d, i) /\ LPage(d, i) /\ LExamen(d, i)
  /\ LLot(d, i) /\ LPlancher(d, i) /\ LOubli(d, i)

LErrantes == \A l \in errantes, i \in Ids :
  l[i] # Rien => Portee(i, l[i].base, l[i].contenu)

Liens == (\A d \in Appareils, i \in Ids : Lien(d, i)) /\ LErrantes

-----------------------------------------------------------------------------
(* Progress, and what a cell keeps of it                                   *)

\* The types of one cell.
Sains(d, i) ==
  /\ apprise \in Apprises
  /\ locale[d][i] \in Contenu \cup {Rien}
  /\ plancher[d][i] \in Nat \cup {-1}
  /\ Tenu(d, i) \in Contenus
  /\ connu[d][i] # Rien =>
       /\ connu[d][i] \in Connu
       /\ connu[d][i].rev \in Nat \ {0}
       /\ connu[d][i].empreinte \in Contenu \cup {Rien}
  /\ bases[d][i] \in Nat \cup {-1}
  /\ objets[i] # Rien =>
       objets[i].rev \in Nat \ {0} /\ objets[i].contenu \in Contenu
  /\ examen[d] # Rien =>
       examen[d].rev \in Nat \ {0} /\ examen[d].contenu \in Contenu
  /\ lot[d][i] # Rien =>
       /\ lot[d][i].base \in Nat /\ lot[d][i].contenu \in Contenu
       /\ lot[d][i].courant # Rien =>
            /\ lot[d][i].courant.rev \in Nat \ {0}
            /\ lot[d][i].courant.contenu \in Contenu
  /\ pc[d] = "page" /\ page[d].elements[i] # Rien =>
       /\ page[d].elements[i].rev \in Nat \ {0}
       /\ page[d].elements[i].contenu \in Contenu

LEMMA SainsTypes ==
  ASSUME Types, NEW d \in Appareils, NEW i \in Ids
  PROVE  Sains(d, i)
<1>1. apprise \in Apprises /\ locale[d][i] \in Contenu \cup {Rien}
  BY DEF Types, TMagasin
<1>2. /\ plancher[d][i] \in Nat \cup {-1} /\ connu[d][i] \in Connu \cup {Rien}
  BY DEF Types, TTables
<1>3. Tenu(d, i) \in Contenus
  BY <1>1, <1>2, TenueEst DEF Tenu
<1>4. /\ bases[d][i] \in Nat \cup {-1} /\ examen[d] \in Examen \cup {Rien}
      /\ lot[d][i] \in Parti \cup {Rien}
      /\ pc[d] = "page" => page[d].elements[i] \in Objet \cup {Rien}
  BY DEF Types, TCycle, EstCycle, EstPage
<1>5. objets[i] \in Objet \cup {Rien}
  BY DEF Types, TServeur, EstServeur
<1>6. /\ connu[d][i] # Rien =>
           /\ connu[d][i].rev \in Nat \ {0}
           /\ connu[d][i].empreinte \in Contenu \cup {Rien}
      /\ objets[i] # Rien =>
           objets[i].rev \in Nat \ {0} /\ objets[i].contenu \in Contenu
      /\ examen[d] # Rien =>
           examen[d].rev \in Nat \ {0} /\ examen[d].contenu \in Contenu
  BY <1>2, <1>4, <1>5 DEF Connu, Objet, Examen
<1>7. /\ lot[d][i] # Rien =>
           /\ lot[d][i].base \in Nat /\ lot[d][i].contenu \in Contenu
           /\ lot[d][i].courant # Rien =>
                /\ lot[d][i].courant.rev \in Nat \ {0}
                /\ lot[d][i].courant.contenu \in Contenu
      /\ pc[d] = "page" /\ page[d].elements[i] # Rien =>
           /\ page[d].elements[i].rev \in Nat \ {0}
           /\ page[d].elements[i].contenu \in Contenu
  BY <1>4 DEF Parti, Objet
<1>8. QED
  BY <1>1, <1>2, <1>3, <1>4, <1>6, <1>7 DEF Sains

\* The same, after a step.
LEMMA SainsApres ==
  ASSUME Types', NEW d \in Appareils, NEW i \in Ids
  PROVE  Sains(d, i)'
<1>1. apprise' \in Apprises /\ locale'[d][i] \in Contenu \cup {Rien}
  BY DEF Types, TMagasin
<1>2. /\ plancher'[d][i] \in Nat \cup {-1} /\ connu'[d][i] \in Connu \cup {Rien}
  BY DEF Types, TTables
<1>3. Tenue(locale'[d][i], plancher'[d][i]) \in Contenus
  BY <1>1, <1>2, TenueEst
<1>4. /\ bases'[d][i] \in Nat \cup {-1} /\ examen'[d] \in Examen \cup {Rien}
      /\ lot'[d][i] \in Parti \cup {Rien}
      /\ pc'[d] = "page" => page'[d].elements[i] \in Objet \cup {Rien}
  BY DEF Types, TCycle, EstCycle, EstPage
<1>5. objets'[i] \in Objet \cup {Rien}
  BY DEF Types, TServeur, EstServeur
<1>6. /\ connu'[d][i] # Rien =>
           /\ connu'[d][i].rev \in Nat \ {0}
           /\ connu'[d][i].empreinte \in Contenu \cup {Rien}
      /\ objets'[i] # Rien =>
           objets'[i].rev \in Nat \ {0} /\ objets'[i].contenu \in Contenu
      /\ examen'[d] # Rien =>
           examen'[d].rev \in Nat \ {0} /\ examen'[d].contenu \in Contenu
  BY <1>2, <1>4, <1>5 DEF Connu, Objet, Examen
<1>7. /\ lot'[d][i] # Rien =>
           /\ lot'[d][i].base \in Nat /\ lot'[d][i].contenu \in Contenu
           /\ lot'[d][i].courant # Rien =>
                /\ lot'[d][i].courant.rev \in Nat \ {0}
                /\ lot'[d][i].courant.contenu \in Contenu
      /\ pc'[d] = "page" /\ page'[d].elements[i] # Rien =>
           /\ page'[d].elements[i].rev \in Nat \ {0}
           /\ page'[d].elements[i].contenu \in Contenu
  BY <1>4 DEF Parti, Objet
<1>8. QED
  BY <1>1, <1>2, <1>3, <1>4, <1>6, <1>7 DEF Sains, Tenu

\* The object of the server goes forward, one revision at least at a time.
ServeurAvance(i) == objets[i] # Rien =>
  /\ objets'[i] # Rien
  /\ \/ objets'[i].rev > objets[i].rev
     \/ objets'[i].rev = objets[i].rev /\ objets'[i].contenu = objets[i].contenu
  /\ Suivi(i, objets[i].contenu, objets'[i].contenu)

\* A step, seen from the cell of d and i.
Progres(d, i) ==
  /\ \A e \in Appareils : apprise'[e][i] >= apprise[e][i]
  /\ ServeurAvance(i)
  /\ Suit(apprise', i, Tenu(d, i), Tenu(d, i)')

LEMMA PriseAvance ==
  ASSUME NEW d \in Appareils, NEW i \in Ids, Sains(d, i), Sains(d, i)',
         Progres(d, i), NEW c \in Contenus, Prise(d, i, c)
  PROVE  Prise(d, i, c)'
<1>1. /\ apprise \in Apprises /\ apprise' \in Apprises
      /\ Tenu(d, i) \in Contenus /\ Tenu(d, i)' \in Contenus
      /\ Suit(apprise, i, c, Tenu(d, i))
      /\ \A e \in Appareils : apprise'[e][i] >= apprise[e][i]
      /\ Suit(apprise', i, Tenu(d, i), Tenu(d, i)')
  BY DEF Sains, Prise, Suivi, Progres
<1>2. Suit(apprise', i, c, Tenu(d, i))
  BY <1>1, SuitCroit
<1>3. Suit(apprise', i, c, Tenu(d, i)')
  BY <1>1, <1>2, SuitTrans
<1>4. QED
  BY <1>3 DEF Prise, Suivi

\* What the object of the server follows, it goes on following.
LEMMA SuiviServeur ==
  ASSUME NEW d \in Appareils, NEW i \in Ids, Sains(d, i), Sains(d, i)',
         Progres(d, i), objets[i] # Rien, NEW c \in Contenus,
         Suivi(i, c, objets[i].contenu)
  PROVE  objets'[i] # Rien /\ Suivi(i, c, objets[i].contenu)'
<1>1. PICK o : o = objets[i].contenu
  OBVIOUS
<1>2. PICK z : z = objets'[i].contenu
  OBVIOUS
<1>3. /\ apprise \in Apprises /\ apprise' \in Apprises
      /\ objets'[i] # Rien /\ o \in Contenu /\ z \in Contenu
      /\ Suit(apprise, i, c, o) /\ Suit(apprise, i, o, z)
      /\ \A e \in Appareils : apprise'[e][i] >= apprise[e][i]
  BY <1>1, <1>2 DEF Sains, Suivi, Progres, ServeurAvance
<1>4. o \in Contenus /\ z \in Contenus
  BY <1>3, ContenuEst
<1>5. Suit(apprise, i, c, z)
  BY <1>3, <1>4, SuitTrans
<1>6. Suit(apprise', i, c, z)
  BY <1>3, <1>4, <1>5, SuitCroit
<1>7. QED
  BY <1>2, <1>3, <1>6 DEF Suivi

LEMMA TemoinAvance ==
  ASSUME NEW d \in Appareils, NEW i \in Ids, Sains(d, i), Sains(d, i)',
         Progres(d, i), NEW rev \in Nat, NEW c \in Contenus, Temoin(i, rev, c)
  PROVE  Temoin(i, rev, c)'
<1>1. objets'[i] # Rien /\ Suivi(i, c, objets[i].contenu)'
  BY SuiviServeur DEF Temoin
<1>2. rev <= objets'[i].rev /\ (rev = objets'[i].rev => c = objets'[i].contenu)
  BY <1>1 DEF Temoin, Sains, Progres, ServeurAvance
<1>3. QED
  BY <1>1, <1>2 DEF Temoin

LEMMA FraicheMeme ==
  ASSUME NEW d \in Appareils, NEW i \in Ids, Sains(d, i), Sains(d, i)',
         Progres(d, i), connu'[d][i] = connu[d][i],
         NEW rev \in Nat, NEW c \in Contenus, Fraiche(d, i, rev, c)
  PROVE  Fraiche(d, i, rev, c)'
<1>1. SUFFICES ASSUME connu[d][i] # Rien, connu[d][i].empreinte # Rien
               PROVE  Suit(apprise', i, connu[d][i].empreinte, c)
  BY DEF Fraiche, Suivi
<1>2. PICK b : b = connu[d][i].empreinte
  OBVIOUS
<1>3. b \in Contenus /\ Suit(apprise, i, b, c)
  BY <1>1, <1>2, ContenuEst DEF Sains, Fraiche, Suivi
<1>4. Suit(apprise', i, b, c)
  BY <1>3, SuitCroit DEF Sains, Progres
<1>5. QED
  BY <1>2, <1>4

\* A row that is purged was the deletion its floor stands for, confirmed.
Purgee(d, i) == locale'[d][i] = Rien =>
  /\ plancher'[d][i] = plancher[d][i]
  /\ \/ locale[d][i] = Rien
     \/ connu[d][i] # Rien /\ connu[d][i].empreinte = Tombale(plancher[d][i])

LEMMA APrendreMeme ==
  ASSUME NEW d \in Appareils, NEW i \in Ids, Sains(d, i), Sains(d, i)',
         Progres(d, i), connu'[d][i] = connu[d][i], Purgee(d, i),
         NEW rev \in Nat, NEW c \in Contenus, APrendre(d, i, rev, c)
  PROVE  APrendre(d, i, rev, c)'
<1>1. Temoin(i, rev, c)' /\ Fraiche(d, i, rev, c)'
  BY TemoinAvance, FraicheMeme DEF APrendre
<1>2. ASSUME locale'[d][i] = Rien
      PROVE  Suivi(i, Tombale(plancher[d][i]), c)'
  <2>1. PICK f : f = Tombale(plancher[d][i])
    OBVIOUS
  <2>2. f \in Contenus /\ f # Rien
    BY <2>1, TombaleEst DEF Sains
  <2>3. Suit(apprise, i, f, c)
    BY <1>2, <2>1, <2>2 DEF Purgee, APrendre, Fraiche, Suivi
  <2>4. Suit(apprise', i, f, c)
    BY <2>2, <2>3, SuitCroit DEF Sains, Progres
  <2>5. plancher'[d][i] = plancher[d][i]
    BY <1>2 DEF Purgee
  <2>6. QED
    BY <2>1, <2>4, <2>5 DEF Suivi
<1>3. QED
  BY <1>1, <1>2 DEF APrendre

\* The part of it that is of the server alone.
SainServeur(i) ==
  /\ apprise \in Apprises
  /\ objets[i] # Rien =>
       objets[i].rev \in Nat \ {0} /\ objets[i].contenu \in Contenu

LEMMA PorteeAvance ==
  ASSUME NEW i \in Ids, SainServeur(i), SainServeur(i)', ServeurAvance(i),
         \A e \in Appareils : apprise'[e][i] >= apprise[e][i],
         NEW n \in Nat, NEW c \in Contenus, Portee(i, n, c)
  PROVE  Portee(i, n, c)'
<1>1. CASE objets[i] = Rien
  <2>1. n = 0 /\ RevServeur(i)' = (IF objets'[i] = Rien THEN 0 ELSE objets'[i].rev)
    BY <1>1 DEF Portee, RevServeur
  <2>2. QED
    BY <2>1 DEF SainServeur, Portee
<1>2. CASE objets[i] # Rien
  <2>1. /\ objets'[i] # Rien
        /\ RevServeur(i) = objets[i].rev /\ RevServeur(i)' = objets'[i].rev
    BY <1>2 DEF ServeurAvance, RevServeur
  <2>2. ASSUME n = objets'[i].rev
        PROVE  Suit(apprise', i, objets'[i].contenu, c)
    <3>1. n = objets[i].rev /\ objets'[i].contenu = objets[i].contenu
      BY <1>2, <2>1, <2>2 DEF Portee, SainServeur, ServeurAvance
    <3>2. PICK o : o = objets[i].contenu
      OBVIOUS
    <3>3. Suit(apprise, i, o, c) /\ o \in Contenus
      BY <1>2, <2>1, <3>1, <3>2, ContenuEst DEF Portee, Suivi, SainServeur
    <3>4. Suit(apprise', i, o, c)
      BY <3>3, SuitCroit DEF SainServeur
    <3>5. QED
      BY <3>1, <3>2, <3>4
  <2>3. n <= objets'[i].rev
    BY <1>2, <2>1 DEF Portee, SainServeur, ServeurAvance
  <2>4. QED
    BY <2>1, <2>2, <2>3 DEF Portee, Suivi
<1>3. QED
  BY <1>1, <1>2

-----------------------------------------------------------------------------
(* Each link, over a step that leaves its part of the cell                 *)

LEMMA ConnuMeme ==
  ASSUME NEW d \in Appareils, NEW i \in Ids, Sains(d, i), Sains(d, i)',
         Progres(d, i), connu'[d][i] = connu[d][i], LConnu(d, i)
  PROVE  LConnu(d, i)'
<1>1. SUFFICES ASSUME connu[d][i] # Rien
               PROVE  /\ objets'[i] # Rien /\ connu[d][i].rev <= objets'[i].rev
                      /\ connu[d][i].rev = objets'[i].rev =>
                           /\ connu[d][i].empreinte \in {Rien, objets'[i].contenu}
                           /\ Prise(d, i, objets[i].contenu)'
                      /\ connu[d][i].empreinte # Rien =>
                           /\ Suivi(i, connu[d][i].empreinte, objets[i].contenu)'
                           /\ Prise(d, i, connu[d][i].empreinte)'
  BY DEF LConnu
<1>2. PICK k : k = connu[d][i]
  OBVIOUS
<1>3. PICK o : o = objets[i].contenu
  OBVIOUS
<1>4. /\ k.rev \in Nat /\ objets[i] # Rien /\ k.rev <= objets[i].rev
      /\ o \in Contenus /\ k.empreinte \in Contenu \cup {Rien}
  BY <1>1, <1>2, <1>3, ContenuEst DEF Sains, LConnu
<1>5. objets'[i] # Rien /\ k.rev <= objets'[i].rev
  BY <1>4 DEF Progres, ServeurAvance, Sains
<1>6. ASSUME k.rev = objets'[i].rev
      PROVE  k.empreinte \in {Rien, objets'[i].contenu} /\ Prise(d, i, objets[i].contenu)'
  <2>1. objets'[i].contenu = o /\ k.rev = objets[i].rev
    BY <1>3, <1>4, <1>6 DEF Progres, ServeurAvance, Sains
  <2>2. k.empreinte \in {Rien, o} /\ Prise(d, i, o)
    BY <1>1, <1>2, <1>3, <2>1 DEF LConnu
  <2>3. o' = o /\ Prise(d, i, o)'
    BY <1>4, <2>2, PriseAvance
  <2>4. QED
    BY <1>3, <2>1, <2>2, <2>3 DEF Prise
<1>7. ASSUME k.empreinte # Rien
      PROVE  Suivi(i, k.empreinte, objets[i].contenu)' /\ Prise(d, i, k.empreinte)'
  <2>1. PICK b : b = k.empreinte
    OBVIOUS
  <2>2. b \in Contenus /\ Suivi(i, b, objets[i].contenu) /\ Prise(d, i, b)
    BY <1>1, <1>2, <1>4, <1>7, <2>1, ContenuEst DEF LConnu
  <2>3. Suivi(i, b, objets[i].contenu)'
    BY <1>4, <2>2, SuiviServeur
  <2>4. Prise(d, i, b)'
    BY <2>2, PriseAvance
  <2>5. QED
    BY <2>1, <2>3, <2>4
<1>8. connu'[d][i] = k
  BY <1>2
<1>9. QED
  BY <1>2, <1>5, <1>6, <1>7, <1>8 DEF Suivi, Prise

LEMMA BasesMeme ==
  ASSUME NEW d \in Appareils, NEW i \in Ids, Sains(d, i), Sains(d, i)',
         Progres(d, i), connu'[d][i] = connu[d][i],
         bases'[d][i] \in {bases[d][i], -1},
         bases'[d][i] # -1 => pc'[d] \in Poussee,
         bases'[d][i] # -1 /\ ALire(d, i) => ALire(d, i)', LBases(d, i)
  PROVE  LBases(d, i)'
<1>1. SUFFICES ASSUME bases[d][i] # -1, bases'[d][i] = bases[d][i]
               PROVE  LBases(d, i)'
  BY DEF LBases
<1>2. PICK b : b = bases[d][i]
  OBVIOUS
<1>3. PICK o : o = objets[i].contenu
  OBVIOUS
<1>4. /\ b \in Nat /\ objets[i] # Rien /\ b <= objets[i].rev /\ o \in Contenus
      /\ b = objets[i].rev => Prise(d, i, o) \/ ALire(d, i)
      /\ connu[d][i] # Rien => connu[d][i].rev <= b
  BY <1>1, <1>2, <1>3, ContenuEst DEF Sains, LBases
<1>5. objets'[i] # Rien /\ b <= objets'[i].rev
  BY <1>4 DEF Progres, ServeurAvance, Sains
<1>6. ASSUME b = objets'[i].rev, ~ALire(d, i)'
      PROVE  Prise(d, i, objets[i].contenu)'
  <2>1. objets'[i].contenu = o /\ b = objets[i].rev
    BY <1>3, <1>4, <1>6 DEF Progres, ServeurAvance, Sains
  <2>2. ~ALire(d, i)
    BY <1>1, <1>6
  <2>3. Prise(d, i, o)
    BY <1>4, <2>1, <2>2
  <2>4. Prise(d, i, o)'
    BY <1>4, <2>3, PriseAvance
  <2>5. QED
    BY <2>1, <2>4 DEF Prise
<1>7. connu'[d][i] # Rien => connu'[d][i].rev <= b
  BY <1>4
<1>8. bases'[d][i] = b /\ pc'[d] \in Poussee
  BY <1>1, <1>2
<1>9. QED
  BY <1>5, <1>6, <1>7, <1>8 DEF LBases

LEMMA PageMeme ==
  ASSUME NEW d \in Appareils, NEW i \in Ids, Sains(d, i), Sains(d, i)',
         Progres(d, i), connu'[d][i] = connu[d][i], Purgee(d, i),
         pc'[d] = "page" /\ page'[d].elements[i] # Rien =>
           pc[d] = "page" /\ page'[d].elements[i] = page[d].elements[i],
         LPage(d, i)
  PROVE  LPage(d, i)'
<1>1. SUFFICES ASSUME pc'[d] = "page", page'[d].elements[i] # Rien
               PROVE  APrendre(d, i, page[d].elements[i].rev,
                                     page[d].elements[i].contenu)'
  BY DEF LPage
<1>2. PICK e : e = page[d].elements[i]
  OBVIOUS
<1>3. PICK rev : rev = e.rev
  OBVIOUS
<1>4. PICK c : c = e.contenu
  OBVIOUS
<1>5. pc[d] = "page" /\ e # Rien /\ page'[d].elements[i] = e
  BY <1>1, <1>2
<1>6. rev \in Nat /\ c \in Contenus /\ APrendre(d, i, rev, c)
  BY <1>2, <1>3, <1>4, <1>5, ContenuEst DEF Sains, LPage
<1>7. APrendre(d, i, rev, c)'
  BY <1>6, APrendreMeme
<1>8. QED
  BY <1>3, <1>4, <1>5, <1>7 DEF APrendre, Temoin, Fraiche

LEMMA ExamenMeme ==
  ASSUME NEW d \in Appareils, NEW i \in Ids, Sains(d, i), Sains(d, i)',
         Progres(d, i), connu'[d][i] = connu[d][i], Purgee(d, i),
         bases'[d][i] \in {bases[d][i], -1},
         examen'[d] # Rien /\ examen'[d].id = i => examen'[d] = examen[d],
         LExamen(d, i)
  PROVE  LExamen(d, i)'
<1>1. SUFFICES ASSUME examen[d] # Rien, examen[d].id = i, examen'[d] = examen[d]
               PROVE  LExamen(d, i)'
  BY DEF LExamen
<1>2. PICK e : e = examen[d]
  OBVIOUS
<1>3. PICK rev : rev = e.rev
  OBVIOUS
<1>4. PICK c : c = e.contenu
  OBVIOUS
<1>5. /\ rev \in Nat /\ c \in Contenus /\ Temoin(i, rev, c)
      /\ bases[d][i] # -1 => bases[d][i] = rev
      /\ e.etape = "lire" => APrendre(d, i, rev, c)
      /\ e.etape = "noter" => Fraiche(d, i, rev, c) /\ Prise(d, i, c)
  BY <1>1, <1>2, <1>3, <1>4, ContenuEst DEF Sains, LExamen
<1>6. Temoin(i, rev, c)'
  BY <1>5, TemoinAvance
<1>7. e.etape = "lire" => APrendre(d, i, rev, c)'
  BY <1>5, APrendreMeme
<1>8. e.etape = "noter" => Fraiche(d, i, rev, c)' /\ Prise(d, i, c)'
  BY <1>5, FraicheMeme, PriseAvance
<1>9. bases'[d][i] # -1 => bases'[d][i] = rev
  BY <1>5
<1>10. examen'[d] = e
  BY <1>1, <1>2
<1>11. QED
  BY <1>3, <1>4, <1>6, <1>7, <1>8, <1>9, <1>10
     DEF LExamen, APrendre, Temoin, Fraiche, Prise

LEMMA LotMeme ==
  ASSUME NEW d \in Appareils, NEW i \in Ids, Sains(d, i), Sains(d, i)',
         Progres(d, i), connu'[d][i] = connu[d][i], Purgee(d, i),
         bases'[d][i] \in {bases[d][i], -1},
         lot'[d][i] # Rien => lot'[d][i] = lot[d][i],
         lot'[d][i] # Rien /\ i \notin aExporter'[d] /\ locale'[d][i] # Rien =>
           locale'[d][i] = lot[d][i].contenu,
         LLot(d, i)
  PROVE  LLot(d, i)'
<1>1. SUFFICES ASSUME lot[d][i] # Rien, lot'[d][i] = lot[d][i]
               PROVE  LLot(d, i)'
  BY DEF LLot
<1>2. PICK l : l = lot[d][i]
  OBVIOUS
<1>3. PICK n : n = l.base
  OBVIOUS
<1>4. PICK c : c = l.contenu
  OBVIOUS
<1>5. /\ n \in Nat /\ c \in Contenus /\ Prise(d, i, c)
      /\ connu[d][i] # Rien => connu[d][i].rev <= n
      /\ bases[d][i] # -1 => bases[d][i] <= n
      /\ l.statut = "parti" => Portee(i, n, c)
      /\ l.statut = "stored" => Temoin(i, n + 1, c)
  BY <1>1, <1>2, <1>3, <1>4, ContenuEst DEF Sains, LLot
<1>6. Prise(d, i, c)'
  BY <1>5, PriseAvance
<1>7. l.statut = "parti" => Portee(i, n, c)'
  <2>1. /\ SainServeur(i) /\ SainServeur(i)' /\ ServeurAvance(i)
        /\ \A e \in Appareils : apprise'[e][i] >= apprise[e][i]
    BY DEF Sains, SainServeur, Progres
  <2>2. QED
    BY <1>5, <2>1, PorteeAvance
<1>8. l.statut = "stored" => Temoin(i, n + 1, c)'
  <2>1. PICK m : m = n + 1
    OBVIOUS
  <2>2. m \in Nat
    BY <1>5, <2>1
  <2>3. ASSUME l.statut = "stored"
        PROVE  Temoin(i, m, c)'
    BY <1>5, <2>1, <2>2, <2>3, TemoinAvance
  <2>4. QED
    BY <2>1, <2>3
<1>9. ASSUME l.statut = "conflict"
      PROVE  /\ l.courant # Rien /\ n < l.courant.rev
             /\ APrendre(d, i, l.courant.rev, l.courant.contenu)'
  <2>1. PICK rev : rev = l.courant.rev
    OBVIOUS
  <2>2. PICK b : b = l.courant.contenu
    OBVIOUS
  <2>3. /\ l.courant # Rien /\ n < l.courant.rev
        /\ APrendre(d, i, l.courant.rev, l.courant.contenu)
    BY <1>1, <1>2, <1>3, <1>9 DEF LLot
  <2>4. rev \in Nat /\ b \in Contenus
    BY <1>1, <1>2, <2>1, <2>2, <2>3, ContenuEst DEF Sains
  <2>5. APrendre(d, i, rev, b)'
    BY <2>1, <2>2, <2>3, <2>4, APrendreMeme
  <2>6. QED
    BY <2>1, <2>2, <2>3, <2>5
<1>10. /\ connu'[d][i] # Rien => connu'[d][i].rev <= n
       /\ bases'[d][i] # -1 => bases'[d][i] <= n
       /\ lot'[d][i] = l
       /\ i \notin aExporter'[d] /\ locale'[d][i] # Rien => locale'[d][i] = c
  BY <1>1, <1>2, <1>4, <1>5
<1>11. QED
  BY <1>3, <1>4, <1>6, <1>7, <1>8, <1>9, <1>10
     DEF LLot, APrendre, Temoin, Fraiche, Prise, Portee

\* The part of LPlancher on a row that is not there.
LEMMA PlancherMeme ==
  ASSUME NEW d \in Appareils, NEW i \in Ids, Sains(d, i), Sains(d, i)',
         Progres(d, i), Purgee(d, i), LPlancher(d, i), LConnu(d, i),
         locale'[d][i] = Rien, plancher'[d][i] # -1
  PROVE  objets'[i] # Rien /\ Suivi(i, Tombale(plancher[d][i]), objets[i].contenu)'
<1>1. PICK f : f = Tombale(plancher[d][i])
  OBVIOUS
<1>2. f \in Contenus /\ f # Rien /\ plancher'[d][i] = plancher[d][i]
  BY <1>1, TombaleEst DEF Sains, Purgee
<1>3. objets[i] # Rien /\ Suivi(i, f, objets[i].contenu)
  BY <1>1, <1>2 DEF Purgee, LPlancher, LConnu
<1>4. objets'[i] # Rien /\ Suivi(i, f, objets[i].contenu)'
  BY <1>2, <1>3, SuiviServeur
<1>5. QED
  BY <1>1, <1>2, <1>4 DEF Suivi

-----------------------------------------------------------------------------
(* A cell a step leaves alone, or nearly                                   *)

\* The cycle of d drops what it had of i, or keeps it.
Poursuit(d, i) ==
  /\ bases'[d][i] \in {bases[d][i], -1}
  /\ bases'[d][i] # -1 => pc'[d] \in Poussee /\ (ALire(d, i) => ALire(d, i)')
  /\ pc'[d] = "page" /\ page'[d].elements[i] # Rien =>
       pc[d] = "page" /\ page'[d].elements[i] = page[d].elements[i]
  /\ examen'[d] # Rien /\ examen'[d].id = i => examen'[d] = examen[d]
  /\ lot'[d][i] # Rien => lot'[d][i] = lot[d][i]

LEMMA LienPoursuit ==
  ASSUME NEW d \in Appareils, NEW i \in Ids, Sains(d, i), Sains(d, i)',
         Progres(d, i), Poursuit(d, i), Purgee(d, i),
         connu'[d][i] = connu[d][i], Lien(d, i),
         lot'[d][i] # Rien /\ i \notin aExporter'[d] /\ locale'[d][i] # Rien =>
           locale'[d][i] = lot[d][i].contenu,
         EstTombale(locale'[d][i]) => plancher'[d][i] <= locale'[d][i].date,
         LOubli(d, i)'
  PROVE  Lien(d, i)'
<1>1. /\ LConnu(d, i) /\ LBases(d, i) /\ LPage(d, i) /\ LExamen(d, i)
      /\ LLot(d, i) /\ LPlancher(d, i)
  BY DEF Lien
<1>2. LConnu(d, i)'
  BY <1>1, ConnuMeme
<1>3. LBases(d, i)'
  BY <1>1, BasesMeme DEF Poursuit
<1>4. LPage(d, i)'
  BY <1>1, PageMeme DEF Poursuit
<1>5. LExamen(d, i)'
  BY <1>1, ExamenMeme DEF Poursuit
<1>6. LLot(d, i)'
  BY <1>1, LotMeme DEF Poursuit
<1>7. LPlancher(d, i)'
  <2>1. ASSUME locale'[d][i] = Rien, plancher'[d][i] # -1
        PROVE  objets'[i] # Rien /\ Suivi(i, Tombale(plancher[d][i]), objets[i].contenu)'
    BY <1>1, <2>1, PlancherMeme
  <2>2. QED
    BY <2>1 DEF LPlancher, Suivi
<1>8. QED
  BY <1>2, <1>3, <1>4, <1>5, <1>6, <1>7 DEF Lien

\* Store and tables keep the cell, a line of sortants aside.
Immobile(d, i) ==
  /\ locale'[d][i] = locale[d][i] /\ plancher'[d][i] = plancher[d][i]
  /\ connu'[d][i] = connu[d][i]
  /\ i \in aExporter[d] <=> i \in aExporter'[d]

LEMMA ProgresImmobile ==
  ASSUME NEW d \in Appareils, NEW i \in Ids, Sains(d, i), ServeurAvance(i),
         \A e \in Appareils : apprise'[e][i] >= apprise[e][i],
         locale'[d][i] = locale[d][i], plancher'[d][i] = plancher[d][i]
  PROVE  Progres(d, i)
<1>1. Tenu(d, i)' = Tenu(d, i)
  BY DEF Tenu
<1>2. PICK x : x = Tenu(d, i)
  OBVIOUS
<1>3. Suit(apprise', i, x, x)
  BY <1>2, SuitMeme DEF Sains
<1>4. QED
  BY <1>1, <1>2, <1>3 DEF Progres

LEMMA LienImmobile ==
  ASSUME NEW d \in Appareils, NEW i \in Ids, Sains(d, i), Sains(d, i)',
         ServeurAvance(i), \A e \in Appareils : apprise'[e][i] >= apprise[e][i],
         Immobile(d, i), Poursuit(d, i), Lien(d, i),
         sortant'[d][i] = Rien /\ sortant[d][i] # Rien /\ locale[d][i] # Rien =>
           DejaLa(d, i, locale[d][i])
  PROVE  Lien(d, i)'
<1>1. Progres(d, i)
  BY ProgresImmobile DEF Immobile
<1>2. /\ Purgee(d, i) /\ connu'[d][i] = connu[d][i]
      /\ lot'[d][i] # Rien /\ i \notin aExporter'[d] /\ locale'[d][i] # Rien =>
           locale'[d][i] = lot[d][i].contenu
      /\ EstTombale(locale'[d][i]) => plancher'[d][i] <= locale'[d][i].date
  BY DEF Immobile, Purgee, Lien, LLot, LPlancher, Poursuit
<1>3. LOubli(d, i)'
  BY DEF Immobile, Lien, LOubli, Attendue, DejaLa
<1>4. QED
  BY <1>1, <1>2, <1>3, LienPoursuit

LEMMA ErrantesMeme ==
  ASSUME Types, Types', Grandit, \A i \in Ids : ServeurAvance(i), LErrantes,
         errantes' \subseteq errantes
  PROVE  LErrantes'
<1>1. SUFFICES ASSUME NEW l \in errantes, NEW i \in Ids, l[i] # Rien
               PROVE  Portee(i, l[i].base, l[i].contenu)'
  BY DEF LErrantes
<1>2. PICK n : n = l[i].base
  OBVIOUS
<1>3. PICK c : c = l[i].contenu
  OBVIOUS
<1>4. n \in Nat /\ c \in Contenus /\ Portee(i, n, c)
  BY <1>1, <1>2, <1>3, ContenuEst DEF Types, TServeur, EstLot, Parti, LErrantes
<1>5. SainServeur(i)
  BY DEF SainServeur, Types, TMagasin, TServeur, EstServeur, Objet
<1>6. SainServeur(i)'
  BY DEF SainServeur, Types, TMagasin, TServeur, EstServeur, Objet
<1>7. Portee(i, n, c)'
  BY <1>4, <1>5, <1>6, PorteeAvance DEF Grandit
<1>8. QED
  BY <1>2, <1>3, <1>7 DEF Portee

\* The server stays.
LEMMA ServeurReste ==
  ASSUME Types, objets' = objets
  PROVE  \A i \in Ids : ServeurAvance(i)
<1>1. SUFFICES ASSUME NEW i \in Ids, objets[i] # Rien
               PROVE  Suivi(i, objets[i].contenu, objets[i].contenu)
  BY DEF ServeurAvance
<1>2. PICK c : c = objets[i].contenu
  OBVIOUS
<1>3. c \in Contenus
  BY <1>1, <1>2, ContenuEst DEF Types, TServeur, EstServeur, Objet
<1>4. QED
  BY <1>2, <1>3, SuitMeme DEF Suivi

\* Every cell at once.
LEMMA LiensDe ==
  ASSUME Types, Types', Grandit, \A i \in Ids : ServeurAvance(i), Liens,
         errantes' \subseteq errantes,
         \A d \in Appareils, i \in Ids : Lien(d, i)'
  PROVE  Liens'
BY ErrantesMeme DEF Liens

\* A cell of another device, or that the step does not touch.
Laissee(d, i) ==
  /\ Immobile(d, i) /\ sortant'[d][i] = sortant[d][i] /\ Poursuit(d, i)

LEMMA LienLaisse ==
  ASSUME Types, Types', Grandit, NEW d \in Appareils, NEW i \in Ids,
         ServeurAvance(i), Lien(d, i), Laissee(d, i)
  PROVE  Lien(d, i)'
<1>1. Sains(d, i) /\ Sains(d, i)'
  BY SainsTypes, SainsApres
<1>2. QED
  BY <1>1, LienImmobile DEF Laissee, Grandit

-----------------------------------------------------------------------------
(* The steps that leave the store and the tables, or export                *)

LEMMA PoursuitAutre ==
  ASSUME NEW d \in Appareils, NEW e \in Appareils, e # d, NEW i \in Ids,
         Autres(d), Lien(e, i)
  PROVE  Poursuit(e, i)
BY DEF Autres, Poursuit, Lien, LBases, ALire

\* What a cell keeps when only the cycle of d moves.
LEMMA LiensPassifs ==
  ASSUME Types, Types', Grandit, Liens, errantes' \subseteq errantes,
         \A i \in Ids : ServeurAvance(i),
         UNCHANGED <<locale, plancher, connu, sortant, aExporter>>,
         \A d \in Appareils, i \in Ids : Poursuit(d, i)
  PROVE  Liens'
<1>1. ASSUME NEW d \in Appareils, NEW i \in Ids
      PROVE  Lien(d, i)'
  BY LienLaisse DEF Liens, Laissee, Immobile
<1>2. QED
  BY <1>1, LiensDe

LEMMA LiensCycle ==
  ASSUME Types, Types', Liens, NEW d \in Appareils, Autres(d),
         UNCHANGED <<magasin, connu, sortant, plancher, objets, neuves>>,
         errantes' \subseteq errantes, \A i \in Ids : Poursuit(d, i)
  PROVE  Liens'
<1>1. UNCHANGED <<locale, plancher, connu, sortant, aExporter, apprise>>
  BY DEF magasin
<1>2. Grandit
  BY <1>1, GranditMeme DEF Types
<1>3. \A i \in Ids : ServeurAvance(i)
  BY ServeurReste
<1>4. \A e \in Appareils, i \in Ids : Poursuit(e, i)
  BY PoursuitAutre DEF Liens
<1>5. QED
  BY <1>1, <1>2, <1>3, <1>4, LiensPassifs

LEMMA LiensFinirs ==
  ASSUME Types, Liens, NEW d \in Appareils,
         FinirPage(d) \/ FinirTirage(d) \/ FinirLot(d)
  PROVE  Liens'
<1>1. /\ Types' /\ Autres(d) /\ pc'[d] # "page" /\ UNCHANGED <<examen, lot, bases>>
  BY FinirPageTypes, FinirTirageTypes, FinirLotTypes
<1>2. UNCHANGED <<magasin, connu, sortant, plancher, objets, errantes, neuves>>
  BY DEF FinirPage, FinirTirage, FinirLot, tables, serveur, autour
<1>3. pc[d] \notin Poussee \/ pc'[d] \in Poussee
  <2>1. CASE FinirPage(d)
    BY <2>1 DEF FinirPage, Poussee
  <2>2. CASE FinirTirage(d)
    BY <2>2 DEF FinirTirage, Poussee
  <2>3. CASE FinirLot(d)
    BY <2>3 DEF FinirLot, Poussee, Types, TCycle
  <2>4. QED
    BY <2>1, <2>2, <2>3
<1>4. ASSUME NEW i \in Ids
      PROVE  Poursuit(d, i)
  <2>1. LBases(d, i)
    BY DEF Liens, Lien
  <2>2. QED
    BY <1>1, <1>3, <2>1 DEF Poursuit, LBases, ALire
<1>5. QED
  BY <1>1, <1>2, <1>4, LiensCycle

LEMMA PoursuitFini ==
  ASSUME NEW d \in Appareils, Fini(d), NEW i \in Ids
  PROVE  Poursuit(d, i)
BY DEF Fini, Poursuit, Aucun

LEMMA LiensRefuser ==
  ASSUME Types, Liens, NEW d \in Appareils, Refuser(d)
  PROVE  Liens'
<1>1. Types' /\ Autres(d) /\ Fini(d)
  BY RefuserTypes
<1>2. UNCHANGED <<magasin, connu, sortant, plancher, objets, errantes, neuves>>
  BY DEF Refuser, serveur, autour
<1>3. QED
  BY <1>1, <1>2, PoursuitFini, LiensCycle

\* A push given up goes on as it left.
LEMMA LiensInterrompre ==
  ASSUME Types, Liens, NEW d \in Appareils, NEW arrivera \in BOOLEAN,
         Interrompre(d, arrivera)
  PROVE  Liens'
<1>1. /\ Types' /\ Autres(d) /\ Fini(d)
      /\ errantes' \subseteq errantes \cup {lot[d]}
      /\ errantes' # errantes => pc[d] = "vol"
  BY InterrompreTypes
<1>2. /\ UNCHANGED <<magasin, connu, sortant, plancher, objets, neuves, apprise>>
      /\ UNCHANGED <<locale, aExporter>>
  BY DEF Interrompre, serveur, magasin
<1>3. \A i \in Ids : ServeurAvance(i)
  BY <1>2, ServeurReste
<1>4. Grandit
  BY <1>2, GranditMeme DEF Types
<1>5. \A e \in Appareils, i \in Ids : Poursuit(e, i)
  BY <1>1, PoursuitFini, PoursuitAutre DEF Liens
<1>6. ASSUME NEW e \in Appareils, NEW i \in Ids
      PROVE  Lien(e, i)'
  BY <1>1, <1>2, <1>3, <1>4, <1>5, LienLaisse DEF Liens, Laissee, Immobile
<1>7. ASSUME NEW l \in errantes', NEW i \in Ids, l[i] # Rien
      PROVE  Portee(i, l[i].base, l[i].contenu)
  <2>1. CASE l \in errantes
    BY <1>7, <2>1 DEF Liens, LErrantes
  <2>2. CASE l \notin errantes
    <3>1. l = lot[d] /\ pc[d] = "vol"
      BY <1>1, <2>2
    <3>2. lot[d][i].statut = "parti"
      BY <1>7, <3>1 DEF Types, TCycle, EstCycle
    <3>3. QED
      BY <1>7, <3>1, <3>2 DEF Liens, Lien, LLot
  <2>3. QED
    BY <2>1, <2>2
<1>8. LErrantes'
  BY <1>2, <1>7 DEF LErrantes, Portee, RevServeur, Suivi
<1>9. QED
  BY <1>6, <1>8 DEF Liens

\* A live row is later than the floor.
LEMMA VivantePlancher ==
  ASSUME Types, IDates, NEW d \in Appareils, NEW i \in Ids,
         EstVivante(locale[d][i])
  PROVE  locale[d][i].date > plancher[d][i]
<1>1. plancher[d][i] \in Nat \cup {-1}
  BY DEF Types, TTables
<1>2. Passee(d, i, plancher[d][i])
  BY <1>1 DEF IDates, Due
<1>3. QED
  BY <1>2 DEF Passee, Passe

\* No floor is above what the device holds.
LEMMA PlancherTenu ==
  ASSUME Types, IDates, NEW d \in Appareils, NEW i \in Ids, LPlancher(d, i)
  PROVE  plancher[d][i] <= Tenu(d, i).date
<1>1. /\ locale[d][i] \in Contenu \cup {Rien} /\ plancher[d][i] \in Int
  BY DEF Types, TMagasin, TTables
<1>2. CASE locale[d][i] = Rien
  BY <1>1, <1>2, TombaleEst DEF Tenu, Tenue
<1>3. CASE EstTombale(locale[d][i])
  BY <1>3 DEF LPlancher, Tenu, Tenue, EstTombale
<1>4. CASE EstVivante(locale[d][i])
  <2>1. locale[d][i].date > plancher[d][i] /\ locale[d][i] # Rien
    BY <1>4, VivantePlancher DEF EstVivante
  <2>2. QED
    BY <1>1, <2>1, ContenuEst DEF Tenu, Tenue
<1>5. QED
  BY <1>1, <1>2, <1>3, <1>4, ContenuEst

LEMMA LiensExporter ==
  ASSUME Types, Types', IDates, Liens, NEW d \in Appareils, Exporter(d),
         UNCHANGED <<locale, posee, ancienne, apprise, neuves, maintenant, connu,
                     examen, lot, page, objets, errantes>>,
         Autres(d), pc[d] \notin {"page", "vol", "issue"}, pc'[d] # "page",
         \A i \in Ids : bases'[d][i] = -1
  PROVE  Liens'
<1>1. /\ \A i \in Ids : /\ plancher'[d][i] = PlancherExporte(d, i)
                        /\ sortant'[d][i] = SortantExporte(d, i)
      /\ \A e \in Appareils, i \in Ids : e # d =>
           plancher'[e][i] = plancher[e][i] /\ sortant'[e][i] = sortant[e][i]
      /\ \A e \in Appareils :
           aExporter'[e] = IF e = d THEN {} ELSE aExporter[e]
  BY ExporterTypes DEF Types
<1>2. Grandit
  BY GranditMeme DEF Types
<1>3. \A i \in Ids : ServeurAvance(i)
  BY ServeurReste
<1>4. ASSUME NEW e \in Appareils, NEW i \in Ids, e # d
      PROVE  Lien(e, i)'
  <2>1. Poursuit(e, i)
    BY <1>4, PoursuitAutre DEF Liens
  <2>2. Laissee(e, i)
    BY <1>1, <1>4, <2>1 DEF Laissee, Immobile
  <2>3. QED
    BY <1>2, <1>3, <2>2, LienLaisse DEF Liens
<1>5. ASSUME NEW i \in Ids
      PROVE  Lien(d, i)'
  <2>1. Sains(d, i) /\ Sains(d, i)' /\ Lien(d, i)
    BY SainsTypes, SainsApres DEF Liens
  <2>2. lot[d] = Aucun /\ examen[d] = Rien
    BY DEF Types, TCycle, EstCycle
  <2>3. /\ plancher'[d][i] \in {plancher[d][i], locale[d][i].date}
        /\ plancher'[d][i] # plancher[d][i] => EstTombale(locale[d][i])
    BY <1>1 DEF PlancherExporte, MaxDe
  <2>4. EstTombale(locale[d][i]) => plancher'[d][i] <= locale[d][i].date
    BY <2>1, <2>3, ContenuEst DEF Lien, LPlancher, Sains, EstTombale
  <2>5. Tenu(d, i)' = Tenu(d, i)
    BY <2>3 DEF Tenu, Tenue, EstTombale
  <2>6. Progres(d, i)
    <3>1. PICK x : x = Tenu(d, i)
      OBVIOUS
    <3>2. Suit(apprise', i, x, x)
      BY <2>1, <3>1, SuitMeme DEF Sains
    <3>3. QED
      BY <1>2, <1>3, <2>5, <3>1, <3>2 DEF Progres, Grandit
  <2>7. Purgee(d, i)
    BY <2>3 DEF Purgee, EstTombale
  <2>8. Poursuit(d, i)
    BY <2>2 DEF Poursuit, Aucun
  <2>9. LOubli(d, i)'
    <3>1. SUFFICES ASSUME locale[d][i] # Rien, sortant'[d][i] = Rien
                   PROVE  DejaLa(d, i, locale[d][i])
      BY DEF LOubli, Attendue, DejaLa
    <3>2. CASE i \notin aExporter[d]
      BY <1>1, <2>1, <3>1, <3>2 DEF SortantExporte, Lien, LOubli, Attendue
    <3>3. CASE i \in aExporter[d]
      <4>1. PICK p : p = SousLesPlanchers(locale[d][i], PlancherExporte(d, i), -1)
        OBVIOUS
      <4>2. PICK n : n = IF locale[d][i].morte THEN locale[d][i].date ELSE -1
        OBVIOUS
      <4>3. Ajouter(sortant[d][i], n) # Rien
        <5>1. PICK x : x = IF sortant[d][i] = Rien THEN n ELSE MaxDe(sortant[d][i].supprime, n)
          OBVIOUS
        <5>2. /\ n \in Int
              /\ sortant[d][i] # Rien => sortant[d][i].supprime \in Int
          BY <3>1, <4>2, ContenuEst DEF Types, TMagasin, TTables, Sortant
        <5>3. x \in Int
          BY <5>1, <5>2 DEF MaxDe
        <5>4. Ajouter(sortant[d][i], n) = [supprime |-> x, poussee |-> Rien]
          BY <5>1 DEF Ajouter
        <5>5. QED
          BY <5>3, <5>4, EngineValues
      <4>4. DejaLa(d, i, p)
        BY <1>1, <3>1, <3>3, <4>1, <4>2, <4>3 DEF SortantExporte
      <4>5. p = locale[d][i]
        <5>1. /\ locale[d][i] \in Contenu /\ plancher'[d][i] \in Nat \cup {-1}
              /\ plancher'[d][i] = PlancherExporte(d, i)
          BY <1>1, <2>1, <3>1 DEF Sains
        <5>2. CASE EstTombale(locale[d][i])
          BY <4>1, <5>1, <5>2, SousEst
        <5>3. CASE EstVivante(locale[d][i])
          <6>1. plancher'[d][i] = plancher[d][i]
            BY <2>3, <5>3 DEF EstVivante, EstTombale
          <6>2. PICK f : f = PlancherExporte(d, i)
            OBVIOUS
          <6>3. f \in Nat \cup {-1} /\ locale[d][i].date > f /\ -1 <= f
            <7>1. f = plancher[d][i] /\ f \in Nat \cup {-1}
              BY <5>1, <6>1, <6>2
            <7>2. locale[d][i].date > plancher[d][i]
              BY <5>3, VivantePlancher
            <7>3. QED
              BY <7>1, <7>2
          <6>4. QED
            BY <4>1, <5>1, <5>3, <6>2, <6>3, SousEst
        <5>4. QED
          BY <5>1, <5>2, <5>3, ContenuEst
      <4>6. QED
        BY <4>4, <4>5
    <3>4. QED
      BY <3>2, <3>3
  <2>10. /\ connu'[d][i] = connu[d][i] /\ lot'[d][i] = Rien
         /\ EstTombale(locale'[d][i]) => plancher'[d][i] <= locale'[d][i].date
    BY <2>2, <2>4 DEF Aucun
  <2>11. QED
    BY <2>1, <2>6, <2>7, <2>8, <2>9, <2>10, LienPoursuit
<1>6. QED
  BY <1>2, <1>3, <1>4, <1>5, LiensDe

LEMMA LiensBouts ==
  ASSUME Types, IDates, Liens, NEW d \in Appareils, Commencer(d) \/ Conclure(d)
  PROVE  Liens'
<1>1. Types'
  BY CommencerTypes, ConclureTypes
<1>2. CASE Commencer(d)
  <2>1. /\ Exporter(d) /\ pc[d] = "repos" /\ pc' = [pc EXCEPT ![d] = "tire"]
        /\ UNCHANGED <<locale, posee, ancienne, apprise, neuves, maintenant, connu,
                       examen, lot, page, objets, errantes, bases>>
    BY <1>2 DEF Commencer, serveur, autour
  <2>2. pc'[d] = "tire" /\ Autres(d)
    BY <2>1 DEF Autres, Types, TCycle
  <2>3. \A i \in Ids : bases'[d][i] = -1
    BY <2>1 DEF Liens, Lien, LBases, Poussee
  <2>4. QED
    BY <1>1, <2>1, <2>2, <2>3, LiensExporter
<1>3. CASE Conclure(d)
  <2>1. /\ Exporter(d) /\ pc[d] = "conclut" /\ pc' = [pc EXCEPT ![d] = "repos"]
        /\ bases' = [bases EXCEPT ![d] = [i \in Ids |-> -1]]
        /\ UNCHANGED <<locale, posee, ancienne, apprise, neuves, maintenant, connu,
                       examen, lot, page, objets, errantes>>
    BY <1>3 DEF Conclure, serveur, autour
  <2>2. pc'[d] = "repos" /\ Autres(d) /\ \A i \in Ids : bases'[d][i] = -1
    BY <2>1 DEF Autres, Types, TCycle
  <2>3. QED
    BY <1>1, <2>1, <2>2, LiensExporter
<1>4. QED
  BY <1>2, <1>3

-----------------------------------------------------------------------------
(* The pull and the push                                                   *)

LEMMA LienTables ==
  ASSUME NEW d \in Appareils, NEW i \in Ids, Sains(d, i), Sains(d, i)',
         ServeurAvance(i), \A e \in Appareils : apprise'[e][i] >= apprise[e][i],
         Immobile(d, i), Lien(d, i),
         sortant'[d][i] = Rien /\ sortant[d][i] # Rien /\ locale[d][i] # Rien =>
           DejaLa(d, i, locale[d][i]),
         LBases(d, i)', LPage(d, i)', LExamen(d, i)', LLot(d, i)'
  PROVE  Lien(d, i)'
<1>1. Progres(d, i) /\ Purgee(d, i)
  BY ProgresImmobile DEF Immobile, Purgee
<1>2. LConnu(d, i)'
  BY <1>1, ConnuMeme DEF Lien, Immobile
<1>3. LPlancher(d, i)'
  <2>1. ASSUME locale'[d][i] = Rien, plancher'[d][i] # -1
        PROVE  objets'[i] # Rien /\ Suivi(i, Tombale(plancher[d][i]), objets[i].contenu)'
    BY <1>1, <2>1, PlancherMeme DEF Lien
  <2>2. EstTombale(locale'[d][i]) => plancher'[d][i] <= locale'[d][i].date
    BY DEF Immobile, Lien, LPlancher
  <2>3. QED
    BY <2>1, <2>2 DEF LPlancher, Suivi
<1>4. LOubli(d, i)'
  BY DEF Immobile, Lien, LOubli, Attendue, DejaLa
<1>5. QED
  BY <1>2, <1>3, <1>4 DEF Lien

\* What the server holds now may be taken in.
LEMMA APrendreServeur ==
  ASSUME Types, NEW d \in Appareils, NEW i \in Ids, Lien(d, i), objets[i] # Rien
  PROVE  APrendre(d, i, objets[i].rev, objets[i].contenu)
<1>1. Sains(d, i)
  BY SainsTypes
<1>2. PICK c : c = objets[i].contenu
  OBVIOUS
<1>3. c \in Contenu /\ c \in Contenus /\ objets[i].rev \in Nat
  BY <1>1, <1>2, ContenuEst DEF Sains
<1>4. Temoin(i, objets[i].rev, c)
  BY <1>2, <1>3, SuitMeme DEF Temoin, Suivi
<1>5. Fraiche(d, i, objets[i].rev, c)
  BY <1>2 DEF Fraiche, Lien, LConnu
<1>6. ASSUME locale[d][i] = Rien
      PROVE  Suivi(i, Tombale(plancher[d][i]), c)
  <2>1. CASE plancher[d][i] # -1
    BY <1>2, <1>6, <2>1 DEF Lien, LPlancher
  <2>2. CASE plancher[d][i] = -1
    <3>1. -1 \in Int /\ -1 < c.date
      BY <1>3, ContenuEst
    <3>2. QED
      BY <1>3, <2>2, <3>1, SuitTombale DEF Suivi
  <2>3. QED
    BY <2>1, <2>2
<1>7. QED
  BY <1>2, <1>4, <1>5, <1>6 DEF APrendre

\* Only the pull of d moves: store, tables but genVue and curseur, server stay.
LEMMA LiensDemanderPage ==
  ASSUME Types, Liens, NEW d \in Appareils, DemanderPage(d)
  PROVE  Liens'
<1>1. /\ Types' /\ Autres(d) /\ pc[d] = "tire" /\ UNCHANGED <<examen, lot, bases>>
      /\ pc'[d] = "page" => \A i \in Ids : page'[d].elements[i] \in {objets[i], Rien}
      /\ pc'[d] \in {"tire", "page"}
  BY DemanderPageTypes
<1>2. /\ UNCHANGED <<locale, aExporter, apprise, connu, sortant, plancher, objets>>
      /\ UNCHANGED <<errantes, neuves>>
  BY DEF DemanderPage, magasin, serveur, autour
<1>3. Grandit /\ \A i \in Ids : ServeurAvance(i)
  BY <1>2, GranditMeme, ServeurReste DEF Types
<1>4. ASSUME NEW e \in Appareils, NEW i \in Ids, e # d
      PROVE  Lien(e, i)'
  BY <1>1, <1>2, <1>3, <1>4, PoursuitAutre, LienLaisse
     DEF Liens, Laissee, Immobile
<1>5. ASSUME NEW i \in Ids
      PROVE  Lien(d, i)'
  <2>1. Sains(d, i) /\ Sains(d, i)' /\ Lien(d, i)
    BY <1>1, SainsTypes, SainsApres DEF Liens
  <2>2. examen[d] = Rien /\ lot[d] = Aucun /\ bases[d][i] = -1
    BY <1>1, <2>1 DEF Types, TCycle, EstCycle, Lien, LBases, Poussee
  <2>3. Immobile(d, i) /\ Progres(d, i) /\ Purgee(d, i)
    BY <1>2, <1>3, <2>1, ProgresImmobile DEF Immobile, Purgee, Grandit
  <2>4. LBases(d, i)' /\ LExamen(d, i)' /\ LLot(d, i)'
    BY <1>1, <2>2 DEF LBases, LExamen, LLot, Aucun
  <2>5. LPage(d, i)'
    <3>1. SUFFICES ASSUME pc'[d] = "page", page'[d].elements[i] # Rien
                   PROVE  APrendre(d, i, page[d].elements[i].rev,
                                         page[d].elements[i].contenu)'
      BY DEF LPage
    <3>2. page'[d].elements[i] = objets[i] /\ objets[i] # Rien
      BY <1>1, <3>1
    <3>3. PICK rev : rev = objets[i].rev
      OBVIOUS
    <3>4. PICK c : c = objets[i].contenu
      OBVIOUS
    <3>5. rev \in Nat /\ c \in Contenus /\ APrendre(d, i, rev, c)
      BY <2>1, <3>2, <3>3, <3>4, ContenuEst, APrendreServeur DEF Sains
    <3>6. connu'[d][i] = connu[d][i]
      BY <1>2
    <3>7. APrendre(d, i, rev, c)'
      BY <2>1, <2>3, <3>5, <3>6, APrendreMeme
    <3>8. QED
      BY <3>2, <3>3, <3>4, <3>7 DEF APrendre, Temoin, Fraiche
  <2>6. QED
    BY <1>2, <1>3, <2>1, <2>3, <2>4, <2>5, LienTables DEF Grandit
<1>6. QED
  BY <1>1, <1>2, <1>3, <1>4, <1>5, LiensDe

LEMMA LiensExaminer ==
  ASSUME Types, Liens, NEW d \in Appareils, NEW i \in Ids, Examiner(d, i)
  PROVE  Liens'
<1>1. /\ Types' /\ Autres(d) /\ UNCHANGED <<pc, lot, bases>>
      /\ pc[d] = "page" /\ examen[d] = Rien /\ page[d].elements[i] # Rien
      /\ examen'[d] = [id |-> i, rev |-> page[d].elements[i].rev,
                       contenu |-> page[d].elements[i].contenu, etape |-> "lire"]
      /\ page'[d].elements[i] = Rien
      /\ \A j \in Ids : j # i => page'[d].elements[j] = page[d].elements[j]
  BY ExaminerTypes
<1>2. /\ UNCHANGED <<locale, aExporter, apprise, connu, sortant, plancher, objets>>
      /\ UNCHANGED <<errantes, neuves>>
  BY DEF Examiner, magasin, tables, serveur, autour
<1>3. Grandit /\ \A j \in Ids : ServeurAvance(j)
  BY <1>2, GranditMeme, ServeurReste DEF Types
<1>4. ASSUME NEW j \in Ids
      PROVE  bases[d][j] = -1 /\ lot[d][j] = Rien
  <2>1. bases[d][j] # -1 => pc[d] \in Poussee
    BY DEF Liens, Lien, LBases
  <2>2. lot[d] = Aucun
    BY <1>1 DEF Types, TCycle, EstCycle
  <2>3. pc[d] \notin Poussee
    BY <1>1 DEF Poussee
  <2>4. QED
    BY <2>1, <2>2, <2>3 DEF Aucun
<1>5. ASSUME NEW e \in Appareils, NEW j \in Ids, e # d \/ j # i
      PROVE  Lien(e, j)'
  <2>1. Poursuit(e, j)
    <3>1. CASE e # d
      BY <1>1, <3>1, PoursuitAutre DEF Liens
    <3>2. CASE e = d /\ j # i
      BY <1>1, <1>4, <3>2 DEF Poursuit
    <3>3. QED
      BY <1>5, <3>1, <3>2
  <2>2. QED
    BY <1>1, <1>2, <1>3, <2>1, LienLaisse DEF Liens, Laissee, Immobile
<1>6. Lien(d, i)'
  <2>1. Sains(d, i) /\ Sains(d, i)' /\ Lien(d, i)
    BY <1>1, SainsTypes, SainsApres DEF Liens
  <2>2. Immobile(d, i) /\ Progres(d, i) /\ Purgee(d, i)
    BY <1>2, <1>3, <2>1, ProgresImmobile DEF Immobile, Purgee, Grandit
  <2>3. LBases(d, i)' /\ LPage(d, i)' /\ LLot(d, i)'
    BY <1>1, <1>4 DEF LBases, LPage, LLot
  <2>4. PICK rev : rev = page[d].elements[i].rev
    OBVIOUS
  <2>5. PICK c : c = page[d].elements[i].contenu
    OBVIOUS
  <2>6. rev \in Nat /\ c \in Contenus /\ APrendre(d, i, rev, c)
    BY <1>1, <2>1, <2>4, <2>5, ContenuEst DEF Sains, Lien, LPage
  <2>7. connu'[d][i] = connu[d][i]
    BY <1>2
  <2>8. APrendre(d, i, rev, c)'
    BY <2>1, <2>2, <2>6, <2>7, APrendreMeme
  <2>9. /\ examen'[d].rev = rev /\ examen'[d].contenu = c
        /\ examen'[d].etape = "lire" /\ bases'[d][i] = -1
    BY <1>1, <1>4, <2>4, <2>5
  <2>10. LExamen(d, i)'
    BY <2>8, <2>9 DEF LExamen, APrendre, Temoin, Fraiche
  <2>11. QED
    BY <1>2, <1>3, <2>1, <2>2, <2>3, <2>10, LienTables DEF Grandit
<1>7. QED
  BY <1>1, <1>2, <1>3, <1>5, <1>6, LiensDe

LEMMA LiensRepousser ==
  ASSUME Types, Liens, NEW d \in Appareils, NEW i \in Ids, RepousserAbsent(d, i)
  PROVE  Liens'
<1>1. /\ Types' /\ UNCHANGED <<pc, page, examen, lot, bases, plancher>>
      /\ connu[d][i] # Rien /\ connu'[d][i] = Oublier(connu[d][i])
      /\ sortant'[d][i] # Rien
      /\ Case(connu, connu', d, i) /\ Case(sortant, sortant', d, i)
  BY RepousserTypes
<1>2. /\ UNCHANGED <<locale, aExporter, apprise, objets, errantes, neuves>>
      /\ pc[d] = "absents"
  BY DEF RepousserAbsent, magasin, serveur, autour
<1>3. Grandit /\ \A j \in Ids : ServeurAvance(j)
  BY <1>2, GranditMeme, ServeurReste DEF Types
<1>4. ASSUME NEW e \in Appareils, NEW j \in Ids, e # d \/ j # i
      PROVE  Lien(e, j)'
  <2>1. Poursuit(e, j)
    BY <1>1 DEF Poursuit, ALire, Liens, Lien, LBases
  <2>2. Laissee(e, j)
    BY <1>1, <1>2, <1>4, <2>1 DEF Laissee, Immobile, Case
  <2>3. QED
    BY <1>1, <1>3, <2>2, LienLaisse DEF Liens
<1>5. Lien(d, i)'
  <2>1. Lien(d, i) /\ Sains(d, i)
    BY SainsTypes DEF Liens
  <2>2. examen[d] = Rien /\ lot[d] = Aucun /\ bases[d][i] = -1
    BY <1>2, <2>1 DEF Types, TCycle, EstCycle, Lien, LBases, Poussee
  <2>3. connu'[d][i].rev = connu[d][i].rev /\ connu'[d][i].empreinte = Rien
    BY <1>1, <2>1, OublierEst DEF Sains
  <2>4. LConnu(d, i)'
    BY <1>1, <1>2, <2>1, <2>3 DEF Lien, LConnu, Suivi, Prise, Tenu
  <2>5. LBases(d, i)' /\ LPage(d, i)' /\ LExamen(d, i)' /\ LLot(d, i)'
    BY <1>1, <1>2, <2>2 DEF LBases, LPage, LExamen, LLot, Aucun
  <2>6. LPlancher(d, i)'
    BY <1>1, <1>2, <2>1 DEF Lien, LPlancher, Suivi
  <2>7. LOubli(d, i)'
    BY <1>1 DEF LOubli, Attendue
  <2>8. QED
    BY <2>4, <2>5, <2>6, <2>7 DEF Lien
<1>6. QED
  BY <1>1, <1>2, <1>3, <1>4, <1>5, LiensDe

\* What is pushed is what is held.
LEMMA APousserTenu ==
  ASSUME Types, IDates, NEW d \in Appareils, NEW i \in Ids,
         sortant[d][i] # Rien, APousser(d, i) # Rien
  PROVE  /\ APousser(d, i) = Tenu(d, i)
         /\ locale[d][i] # Rien => APousser(d, i) = locale[d][i]
<1>1. locale[d][i] \in Contenu \cup {Rien}
  BY DEF Types, TMagasin
<1>2. CASE locale[d][i] = Rien
  <2>1. APousser(d, i) = Tombale(plancher[d][i])
    BY <1>2, APousserEst
  <2>2. QED
    BY <1>2, <2>1 DEF Tenu, Tenue
<1>3. CASE EstTombale(locale[d][i])
  <2>1. APousser(d, i) = locale[d][i]
    BY <1>3, APousserEst
  <2>2. QED
    BY <1>3, <2>1 DEF Tenu, Tenue, EstTombale
<1>4. CASE EstVivante(locale[d][i])
  <2>1. locale[d][i].date > plancher[d][i]
    BY <1>4, VivantePlancher
  <2>2. APousser(d, i) = locale[d][i]
    BY <1>4, <2>1, APousserEst
  <2>3. QED
    BY <1>4, <2>2 DEF Tenu, Tenue, EstVivante
<1>5. QED
  BY <1>1, <1>2, <1>3, <1>4, ContenuEst

\* Over its base, it overwrites only what it follows.
LEMMA BaseEst ==
  ASSUME Types, NEW d \in Appareils, NEW i \in Ids, Lien(d, i), examen[d] = Rien
  PROVE  /\ Base(d, i) \in Nat /\ Portee(i, Base(d, i), Tenu(d, i))
         /\ connu[d][i] # Rien => connu[d][i].rev <= Base(d, i)
         /\ bases[d][i] # -1 => bases[d][i] <= Base(d, i)
<1>1. Sains(d, i) /\ ~ALire(d, i)
  BY SainsTypes DEF ALire
<1>2. CASE bases[d][i] # -1
  <2>1. Base(d, i) = bases[d][i] /\ objets[i] # Rien
    BY <1>2 DEF Base, Lien, LBases
  <2>2. RevServeur(i) = objets[i].rev
    BY <2>1 DEF RevServeur
  <2>3. QED
    BY <1>1, <1>2, <2>1, <2>2 DEF Sains, Lien, LBases, Portee, Prise
<1>3. CASE bases[d][i] = -1 /\ connu[d][i] # Rien
  <2>1. Base(d, i) = connu[d][i].rev /\ objets[i] # Rien
    BY <1>3 DEF Base, Lien, LConnu
  <2>2. RevServeur(i) = objets[i].rev
    BY <2>1 DEF RevServeur
  <2>3. QED
    BY <1>1, <1>3, <2>1, <2>2 DEF Sains, Lien, LConnu, Portee, Prise
<1>4. CASE bases[d][i] = -1 /\ connu[d][i] = Rien
  <2>1. Base(d, i) = 0
    BY <1>4 DEF Base
  <2>2. /\ RevServeur(i) \in Nat
        /\ objets[i] # Rien => RevServeur(i) # 0
    BY <1>1 DEF Sains, RevServeur
  <2>3. QED
    BY <1>4, <2>1, <2>2 DEF Portee
<1>5. QED
  BY <1>2, <1>3, <1>4

LEMMA LiensPreparer ==
  ASSUME Types, IDates, Liens, NEW d \in Appareils, PreparerLot(d)
  PROVE  Liens'
<1>1. /\ Types' /\ Autres(d) /\ pc[d] = "pousse" /\ examen[d] = Rien
      /\ pc'[d] \in {"conclut", "vol"}
      /\ UNCHANGED <<magasin, connu, plancher, examen, page, bases, serveur,
                     errantes, maintenant, neuves>>
      /\ \A e \in Appareils : e # d => sortant'[e] = sortant[e]
  BY PreparerTypes
<1>2. \A i \in Ids :
        /\ ~Partante(d, i) => lot'[d][i] = Rien
        /\ Partante(d, i) /\ lot'[d][i] # Rien =>
             /\ lot'[d][i].base = Base(d, i)
             /\ lot'[d][i].contenu = APousser(d, i)
             /\ lot'[d][i].statut = "parti"
        /\ sortant'[d][i] = Rien /\ sortant[d][i] # Rien =>
             APousser(d, i) = Rien \/ DejaLa(d, i, APousser(d, i))
  BY PreparerTypes
<1>3. UNCHANGED <<locale, aExporter, apprise, objets>>
  BY <1>1 DEF magasin, serveur
<1>4. Grandit /\ \A i \in Ids : ServeurAvance(i)
  BY <1>1, <1>3, GranditMeme, ServeurReste DEF Types
<1>5. ASSUME NEW e \in Appareils, NEW i \in Ids, e # d
      PROVE  Lien(e, i)'
  BY <1>1, <1>3, <1>4, <1>5, PoursuitAutre, LienLaisse
     DEF Liens, Laissee, Immobile
<1>6. ASSUME NEW i \in Ids
      PROVE  Lien(d, i)'
  <2>1. Sains(d, i) /\ Sains(d, i)' /\ Lien(d, i)
    BY <1>1, SainsTypes, SainsApres DEF Liens
  <2>2. Immobile(d, i) /\ Progres(d, i)
    BY <1>1, <1>3, <1>4, <2>1, ProgresImmobile DEF Immobile, Grandit
  <2>3. LBases(d, i)'
    BY <1>1, <2>1, <2>2, BasesMeme DEF Lien, Poussee, ALire
  <2>4. LPage(d, i)' /\ LExamen(d, i)'
    BY <1>1 DEF LPage, LExamen
  <2>5. LLot(d, i)'
    <3>1. SUFFICES ASSUME lot'[d][i] # Rien
                   PROVE  LLot(d, i)'
      BY DEF LLot
    <3>2. PICK n : n = Base(d, i)
      OBVIOUS
    <3>3. PICK c : c = Tenu(d, i)
      OBVIOUS
    <3>4. /\ n \in Nat /\ Portee(i, n, c) /\ c \in Contenus
          /\ connu[d][i] # Rien => connu[d][i].rev <= n
          /\ bases[d][i] # -1 => bases[d][i] <= n
      BY <1>1, <2>1, <3>2, <3>3, BaseEst DEF Sains
    <3>5. /\ APousser(d, i) = c
          /\ locale[d][i] # Rien => locale[d][i] = c
      BY <1>2, <3>1, <3>3, APousserTenu DEF Partante, AEnvoyer
    <3>6. lot'[d][i].base = n /\ lot'[d][i].contenu = c /\ lot'[d][i].statut = "parti"
      BY <1>2, <3>1, <3>2, <3>5
    <3>7. Prise(d, i, c)'
      BY <1>1, <1>3, <3>3, <3>4, SuitMeme DEF Prise, Suivi, Tenu
    <3>8. Portee(i, n, c)'
      BY <1>3, <3>4 DEF Portee, RevServeur, Suivi
    <3>9. UNCHANGED <<connu, bases, locale>>
      BY <1>1, <1>3
    <3>10. QED
      BY <3>4, <3>5, <3>6, <3>7, <3>8, <3>9 DEF LLot, Prise, Portee
  <2>6. ASSUME sortant'[d][i] = Rien, sortant[d][i] # Rien, locale[d][i] # Rien
        PROVE  DejaLa(d, i, locale[d][i])
    <3>1. APousser(d, i) # Rien
      BY <2>6, APousserEst
    <3>2. APousser(d, i) = locale[d][i]
      BY <2>6, <3>1, APousserTenu
    <3>3. QED
      BY <1>2, <2>6, <3>1, <3>2
  <2>7. QED
    BY <1>4, <2>1, <2>2, <2>3, <2>4, <2>5, <2>6, LienTables DEF Grandit
<1>7. QED
  BY <1>1, <1>4, <1>5, <1>6, LiensDe

\* The server compares revisions: it goes forward.
LEMMA ServiAvance ==
  ASSUME Types, NEW l, EstLot(l, apprise, neuves), Servi(l), NEW i \in Ids,
         l[i] # Rien => Portee(i, l[i].base, l[i].contenu)
  PROVE  ServeurAvance(i)
<1>1. CASE i \notin Stockes(l)
  <2>1. objets'[i] = objets[i]
    BY <1>1 DEF Servi
  <2>2. SUFFICES ASSUME objets[i] # Rien
                 PROVE  Suivi(i, objets[i].contenu, objets[i].contenu)
    BY <2>1 DEF ServeurAvance
  <2>3. PICK c : c = objets[i].contenu
    OBVIOUS
  <2>4. c \in Contenus
    BY <2>2, <2>3, ContenuEst DEF Types, TServeur, EstServeur, Objet
  <2>5. QED
    BY <2>3, <2>4, SuitMeme DEF Suivi
<1>2. CASE i \in Stockes(l)
  <2>1. /\ l[i] # Rien /\ l[i].base = RevServeur(i) /\ objets'[i] # Rien
        /\ objets'[i].contenu = l[i].contenu /\ objets'[i].rev = l[i].base + 1
    BY <1>2 DEF Servi, Stockes
  <2>2. objets[i] \in Objet \cup {Rien} /\ l[i] \in Parti
    BY <2>1 DEF Types, TServeur, EstServeur, EstLot
  <2>3. QED
    BY <2>1, <2>2 DEF ServeurAvance, Portee, RevServeur, Objet, Parti
<1>3. QED
  BY <1>1, <1>2

LEMMA LiensErrante ==
  ASSUME Types, Liens, NEW l \in errantes, ServirErrante(l)
  PROVE  Liens'
<1>1. /\ Types' /\ Servi(l) /\ errantes' \subseteq errantes
      /\ UNCHANGED <<magasin, tables, cycle, generation, maintenant, neuves>>
  BY ErranteTypes
<1>2. /\ UNCHANGED <<locale, aExporter, apprise, connu, sortant, plancher>>
      /\ UNCHANGED <<pc, page, examen, lot, bases>>
  BY <1>1 DEF magasin, tables, cycle
<1>3. Grandit
  BY <1>1, <1>2, GranditMeme DEF Types
<1>4. \A i \in Ids : ServeurAvance(i)
  BY <1>1, ServiAvance DEF Liens, LErrantes, Types, TServeur
<1>5. ASSUME NEW d \in Appareils, NEW i \in Ids
      PROVE  Poursuit(d, i)
  BY <1>2 DEF Poursuit, ALire, Liens, Lien, LBases
<1>6. QED
  BY <1>1, <1>2, <1>3, <1>4, <1>5, LiensPassifs

LEMMA LiensServir ==
  ASSUME Types, Liens, NEW d \in Appareils, ServirLot(d)
  PROVE  Liens'
<1>1. /\ Types' /\ Autres(d) /\ Servi(lot[d])
      /\ UNCHANGED <<magasin, tables, examen, page, bases, generation, errantes,
                     maintenant, neuves>>
      /\ pc[d] = "vol" /\ pc'[d] = "issue" /\ examen[d] = Rien
  BY ServirTypes
<1>2. \A i \in Ids :
        /\ lot[d][i] = Rien => lot'[d][i] = Rien
        /\ lot'[d][i] # Rien =>
             /\ lot'[d][i].base = lot[d][i].base
             /\ lot'[d][i].contenu = lot[d][i].contenu
             /\ i \in Stockes(lot[d]) => lot'[d][i].statut = "stored"
             /\ i \notin Stockes(lot[d]) =>
                  /\ lot'[d][i].statut = "conflict"
                  /\ lot'[d][i].courant = objets[i]
  BY ServirTypes
<1>3. UNCHANGED <<locale, aExporter, apprise, connu, sortant, plancher>>
  BY <1>1 DEF magasin, tables
<1>4. Grandit
  BY <1>1, <1>3, GranditMeme DEF Types
<1>5. \A i \in Ids : lot[d][i] # Rien => Portee(i, lot[d][i].base, lot[d][i].contenu)
  BY <1>1 DEF Liens, Lien, LLot, Types, TCycle, EstCycle
<1>6. \A i \in Ids : ServeurAvance(i)
  BY <1>1, <1>5, ServiAvance DEF Types, TCycle, EstCycle
<1>7. ASSUME NEW e \in Appareils, NEW i \in Ids, e # d
      PROVE  Lien(e, i)'
  BY <1>1, <1>3, <1>4, <1>6, <1>7, PoursuitAutre, LienLaisse
     DEF Liens, Laissee, Immobile
<1>8. ASSUME NEW i \in Ids
      PROVE  Lien(d, i)'
  <2>1. Sains(d, i) /\ Sains(d, i)' /\ Lien(d, i)
    BY <1>1, SainsTypes, SainsApres DEF Liens
  <2>2. Immobile(d, i) /\ Progres(d, i) /\ Purgee(d, i)
    BY <1>3, <1>4, <1>6, <2>1, ProgresImmobile DEF Immobile, Purgee, Grandit
  <2>3. connu'[d][i] = connu[d][i] /\ bases'[d][i] = bases[d][i]
    BY <1>1, <1>3
  <2>4. LBases(d, i)'
    BY <1>1, <2>1, <2>2, <2>3, BasesMeme DEF Lien, Poussee, ALire
  <2>5. LPage(d, i)' /\ LExamen(d, i)'
    BY <1>1 DEF LPage, LExamen
  <2>6. LLot(d, i)'
    <3>1. SUFFICES ASSUME lot'[d][i] # Rien
                   PROVE  LLot(d, i)'
      BY DEF LLot
    <3>2. PICK n : n = lot[d][i].base
      OBVIOUS
    <3>3. PICK c : c = lot[d][i].contenu
      OBVIOUS
    <3>4. /\ lot[d][i] # Rien /\ n \in Nat /\ c \in Contenus
          /\ Portee(i, n, c) /\ Prise(d, i, c)
          /\ connu[d][i] # Rien => connu[d][i].rev <= n
          /\ bases[d][i] # -1 => bases[d][i] <= n
          /\ i \notin aExporter[d] /\ locale[d][i] # Rien => locale[d][i] = c
      BY <1>2, <1>5, <2>1, <3>1, <3>2, <3>3, ContenuEst DEF Sains, Lien, LLot
    <3>5. Prise(d, i, c)'
      BY <2>1, <2>2, <3>4, PriseAvance
    <3>6. lot'[d][i].base = n /\ lot'[d][i].contenu = c
      BY <1>2, <3>1, <3>2, <3>3
    <3>7. ASSUME lot'[d][i].statut = "stored"
          PROVE  Temoin(i, n + 1, c)'
      <4>1. i \in Stockes(lot[d])
        BY <1>2, <3>1, <3>7
      <4>2. objets'[i] # Rien /\ objets'[i].contenu = c /\ objets'[i].rev = n + 1
        BY <1>1, <3>2, <3>3, <4>1 DEF Servi
      <4>3. Suit(apprise', i, c, c)
        BY <3>4, SuitMeme
      <4>4. QED
        BY <3>4, <4>2, <4>3 DEF Temoin, Suivi
    <3>8. ASSUME lot'[d][i].statut = "conflict"
          PROVE  /\ lot'[d][i].courant = objets[i] /\ objets[i] # Rien
                 /\ n < objets[i].rev
                 /\ APrendre(d, i, objets[i].rev, objets[i].contenu)
      <4>1. i \notin Stockes(lot[d]) /\ lot'[d][i].courant = objets[i]
        BY <1>2, <3>1, <3>8
      <4>2. n # RevServeur(i) /\ n <= RevServeur(i)
        BY <3>2, <3>4, <4>1 DEF Stockes, Portee
      <4>3. objets[i] # Rien /\ n < objets[i].rev
        BY <2>1, <3>4, <4>2 DEF RevServeur, Sains
      <4>4. QED
        BY <2>1, <4>1, <4>3, APrendreServeur
    <3>9. ASSUME lot'[d][i].statut = "conflict"
          PROVE  APrendre(d, i, lot[d][i].courant.rev, lot[d][i].courant.contenu)'
      <4>1. PICK rev : rev = objets[i].rev
        OBVIOUS
      <4>2. PICK b : b = objets[i].contenu
        OBVIOUS
      <4>3. rev \in Nat /\ b \in Contenus /\ APrendre(d, i, rev, b)
        BY <2>1, <3>8, <3>9, <4>1, <4>2, ContenuEst DEF Sains
      <4>4. APrendre(d, i, rev, b)'
        BY <2>1, <2>2, <2>3, <4>3, APrendreMeme
      <4>5. lot'[d][i].courant.rev = rev /\ lot'[d][i].courant.contenu = b
        BY <3>8, <3>9, <4>1, <4>2
      <4>6. QED
        BY <4>4, <4>5
    <3>10. lot'[d][i].statut # "parti"
      BY <1>2, <3>1
    <3>11. /\ connu'[d][i] = connu[d][i] /\ bases'[d][i] = bases[d][i]
           /\ locale'[d][i] = locale[d][i] /\ aExporter'[d] = aExporter[d]
      BY <1>1, <1>3
    <3>12. /\ lot'[d][i].statut = "conflict" =>
                 lot'[d][i].courant # Rien /\ n < lot'[d][i].courant.rev
           /\ lot'[d][i].statut = "stored" => Temoin(i, lot[d][i].base + 1, lot[d][i].contenu)'
           /\ Prise(d, i, lot[d][i].contenu)'
      BY <3>5, <3>6, <3>7, <3>8 DEF Temoin, Prise
    <3>13. QED
      BY <3>4, <3>6, <3>9, <3>10, <3>11, <3>12 DEF LLot
  <2>7. sortant'[d][i] = Rien => sortant[d][i] = Rien
    BY <1>3
  <2>8. QED
    BY <1>4, <1>6, <2>1, <2>2, <2>4, <2>5, <2>6, <2>7, LienTables DEF Grandit
<1>9. QED
  BY <1>1, <1>4, <1>6, <1>7, <1>8, LiensDe

\* What a conflict gives back is looked at, and is the base of the next try.
LEMMA LiensConflit ==
  ASSUME Types, Liens, NEW d \in Appareils, NEW i \in Ids, IssueConflit(d, i)
  PROVE  Liens'
<1>1. /\ Types' /\ Autres(d)
      /\ UNCHANGED <<magasin, tables, pc, page, serveur, errantes, neuves>>
      /\ pc[d] = "issue" /\ examen[d] = Rien
      /\ lot[d][i] # Rien /\ lot[d][i].statut = "conflict" /\ lot'[d][i] = Rien
      /\ \A j \in Ids : j # i => lot'[d][j] = lot[d][j]
      /\ Case(bases, bases', d, i)
  <2>1. /\ Types' /\ Autres(d)
        /\ UNCHANGED <<magasin, tables, pc, page, serveur, errantes, maintenant,
                       neuves>>
    BY ConflitTypes
  <2>2. /\ pc[d] = "issue" /\ examen[d] = Rien
        /\ lot[d][i] # Rien /\ lot[d][i].statut = "conflict"
        /\ lot'[d][i] = Rien
        /\ \A j \in Ids : j # i => lot'[d][j] = lot[d][j]
        /\ Case(bases, bases', d, i)
    BY ConflitTypes
  <2>3. QED
    BY <2>1, <2>2
<1>2. /\ examen'[d] # Rien =>
           examen'[d] = [id |-> i, rev |-> lot[d][i].courant.rev,
                         contenu |-> lot[d][i].courant.contenu, etape |-> "lire"]
      /\ \/ bases'[d][i] = bases[d][i] /\ examen'[d] = Rien
         \/ lot[d][i].courant = Rien
         \/ examen'[d] # Rien /\ bases'[d][i] = lot[d][i].courant.rev
  BY ConflitTypes
<1>3. UNCHANGED <<locale, aExporter, apprise, connu, sortant, plancher, objets>>
  BY <1>1 DEF magasin, tables, serveur
<1>4. Grandit /\ \A j \in Ids : ServeurAvance(j)
  BY <1>1, <1>3, GranditMeme, ServeurReste DEF Types
<1>5. ASSUME NEW e \in Appareils, NEW j \in Ids, e # d \/ j # i
      PROVE  Lien(e, j)'
  <2>1. Poursuit(e, j)
    <3>1. CASE e # d
      BY <1>1, <3>1, PoursuitAutre DEF Liens
    <3>2. CASE e = d /\ j # i
      <4>1. bases'[d][j] = bases[d][j] /\ ~ALire(d, j) /\ pc'[d] = "issue"
        BY <1>1, <3>2 DEF Case, ALire
      <4>2. examen'[d] # Rien => examen'[d].id # j
        BY <1>2, <3>2
      <4>3. QED
        BY <1>1, <3>2, <4>1, <4>2 DEF Poursuit, Poussee
    <3>3. QED
      BY <1>5, <3>1, <3>2
  <2>2. QED
    BY <1>1, <1>3, <1>4, <2>1, LienLaisse DEF Liens, Laissee, Immobile
<1>6. Lien(d, i)'
  <2>1. Sains(d, i) /\ Sains(d, i)' /\ Lien(d, i)
    BY <1>1, SainsTypes, SainsApres DEF Liens
  <2>2. Immobile(d, i) /\ Progres(d, i) /\ Purgee(d, i)
    BY <1>3, <1>4, <2>1, ProgresImmobile DEF Immobile, Purgee, Grandit
  <2>3. PICK rev : rev = lot[d][i].courant.rev
    OBVIOUS
  <2>4. PICK c : c = lot[d][i].courant.contenu
    OBVIOUS
  <2>5. /\ lot[d][i].courant # Rien /\ rev \in Nat /\ c \in Contenus
        /\ APrendre(d, i, rev, c)
    BY <1>1, <2>1, <2>3, <2>4, ContenuEst DEF Sains, Lien, LLot
  <2>6. connu'[d][i] = connu[d][i] /\ pc'[d] = "issue"
    BY <1>1, <1>3
  <2>7. APrendre(d, i, rev, c)'
    BY <2>1, <2>2, <2>5, <2>6, APrendreMeme
  <2>8. CASE examen'[d] = Rien
    <3>1. bases'[d][i] = bases[d][i]
      BY <1>2, <2>5, <2>8
    <3>2. LBases(d, i)'
      BY <1>1, <2>1, <2>2, <2>6, <3>1, BasesMeme DEF Lien, Poussee, ALire
    <3>3. LPage(d, i)' /\ LExamen(d, i)' /\ LLot(d, i)'
      BY <1>1, <2>6, <2>8 DEF LPage, LExamen, LLot
    <3>4. QED
      BY <1>3, <1>4, <2>1, <2>2, <3>2, <3>3, LienTables DEF Grandit
  <2>9. CASE examen'[d] # Rien
    <3>1. /\ bases'[d][i] = rev /\ examen'[d].id = i /\ examen'[d].rev = rev
          /\ examen'[d].contenu = c /\ examen'[d].etape = "lire"
      BY <1>2, <2>3, <2>4, <2>5, <2>9
    <3>2. LBases(d, i)'
      BY <2>6, <2>7, <2>9, <3>1
         DEF LBases, Poussee, ALire, APrendre, Temoin, Fraiche
    <3>3. LExamen(d, i)'
      BY <2>7, <3>1 DEF LExamen, APrendre, Temoin, Fraiche
    <3>4. LPage(d, i)' /\ LLot(d, i)'
      BY <1>1, <2>6 DEF LPage, LLot
    <3>5. QED
      BY <1>3, <1>4, <2>1, <2>2, <3>2, <3>3, <3>4, LienTables DEF Grandit
  <2>10. QED
    BY <2>8, <2>9
<1>7. QED
  BY <1>1, <1>4, <1>5, <1>6, LiensDe

-----------------------------------------------------------------------------
(* What is noted of the server                                             *)

\* A step that touches one cell, of d and i.
Cellule(d, i) ==
  /\ Case(locale, locale', d, i) /\ Case(plancher, plancher', d, i)
  /\ Case(connu, connu', d, i) /\ Case(sortant, sortant', d, i)
  /\ \A e \in Appareils, j \in Ids : e # d \/ j # i =>
       (j \in aExporter'[e] <=> j \in aExporter[e])
  /\ Autres(d) /\ pc' = pc /\ page' = page
  /\ \A j \in Ids : j # i =>
       bases'[d][j] = bases[d][j] /\ lot'[d][j] = lot[d][j]
  /\ \/ examen'[d] = examen[d]
     \/ /\ examen[d] # Rien => examen[d].id = i
        /\ examen'[d] # Rien => examen'[d].id = i
  /\ objets' = objets /\ errantes' = errantes

LEMMA LiensCellule ==
  ASSUME Types, Types', Grandit, Liens, NEW d \in Appareils, NEW i \in Ids,
         Cellule(d, i), Lien(d, i)'
  PROVE  Liens'
<1>1. \A j \in Ids : ServeurAvance(j)
  BY ServeurReste DEF Cellule
<1>2. ASSUME NEW e \in Appareils, NEW j \in Ids, e # d \/ j # i
      PROVE  Lien(e, j)'
  <2>1. Lien(e, j) /\ LBases(e, j)
    BY DEF Liens, Lien
  <2>2. Poursuit(e, j)
    <3>1. CASE e # d
      BY <2>1, <3>1, PoursuitAutre DEF Cellule
    <3>2. CASE e = d /\ j # i
      BY <2>1, <3>2 DEF Cellule, Poursuit, LBases, ALire
    <3>3. QED
      BY <1>2, <3>1, <3>2
  <2>3. Laissee(e, j)
    BY <1>2, <2>2 DEF Laissee, Immobile, Cellule, Case
  <2>4. QED
    BY <1>1, <2>1, <2>3, LienLaisse
<1>3. \A e \in Appareils, j \in Ids : Lien(e, j)'
  BY <1>2
<1>4. errantes' \subseteq errantes
  BY DEF Cellule
<1>5. QED
  BY <1>1, <1>3, <1>4, LiensDe

\* c at rev is noted: the server held it, and d holds what follows it.
Notee(d, i, rev, c) ==
  /\ Temoin(i, rev, c) /\ Prise(d, i, c)
  /\ connu[d][i] # Rien => connu[d][i].rev <= rev
  /\ connu'[d][i] = NoterConnu(connu[d][i], rev, c)
  /\ plancher'[d][i] >= plancher[d][i]
  /\ plancher'[d][i] = plancher[d][i] \/ (plancher'[d][i] = c.date /\ c.morte)
  /\ UNCHANGED <<apprise, objets, locale, aExporter>>
  /\ lot'[d][i] = Rien
  /\ pc'[d] = "page" => page'[d].elements[i] = Rien
  /\ bases'[d][i] # -1 => bases'[d][i] = rev /\ pc'[d] \in Poussee
  /\ examen'[d] # Rien /\ examen'[d].id = i =>
       /\ examen'[d].rev = rev /\ examen'[d].contenu = c
       /\ examen'[d].etape \notin {"lire", "noter"}
  /\ locale[d][i] # Rien /\ i \notin aExporter[d] /\ sortant'[d][i] = Rien =>
       locale[d][i] = c

LEMMA LienNotee ==
  ASSUME NEW d \in Appareils, NEW i \in Ids, Sains(d, i), Sains(d, i)', Lien(d, i),
         connu[d][i] \in Connu \cup {Rien},
         NEW rev \in Nat \ {0}, NEW c \in Contenu, Notee(d, i, rev, c)
  PROVE  Lien(d, i)'
<1>1. PICK k : k = NoterConnu(connu[d][i], rev, c)
  OBVIOUS
<1>2. connu'[d][i] = k
  BY <1>1 DEF Notee
<1>3. connu[d][i] = Rien \/ connu[d][i].rev <= rev
  BY DEF Notee
<1>4. k # Rien /\ k.empreinte = c
  BY <1>1, NoterConnuEst
<1>5. k.rev = rev
  <2>1. PICK z : z = connu[d][i]
    OBVIOUS
  <2>2. z \in Connu \cup {Rien} /\ k = NoterConnu(z, rev, c) /\ (z = Rien \/ z.rev <= rev)
    BY <1>1, <1>3, <2>1
  <2>3. NoterConnu(z, rev, c).rev = rev
    BY <2>2, NoterConnuEst
  <2>4. QED
    BY <2>2, <2>3
<1>6. c # Rien /\ c \in Contenus /\ c.date \in Nat
  BY ContenuEst
<1>7. /\ Temoin(i, rev, c) /\ Suit(apprise, i, c, Tenu(d, i))
      /\ UNCHANGED <<apprise, objets, locale, aExporter>>
  BY DEF Notee, Prise, Suivi
<1>8. locale[d][i] = Rien => plancher'[d][i] = plancher[d][i]
  <2>1. SUFFICES ASSUME locale[d][i] = Rien, plancher'[d][i] = c.date
                 PROVE  plancher'[d][i] = plancher[d][i]
    BY DEF Notee
  <2>2. Tenu(d, i).date = plancher[d][i] /\ plancher[d][i] \in Int
    BY <2>1, TombaleEst DEF Tenu, Tenue, Sains
  <2>3. c.date <= plancher[d][i]
    BY <1>6, <1>7, <2>2 DEF Suit, Avant
  <2>4. plancher'[d][i] >= plancher[d][i]
    BY DEF Notee
  <2>5. QED
    BY <1>6, <2>1, <2>2, <2>3, <2>4
<1>9. Tenu(d, i)' = Tenu(d, i)
  BY <1>7, <1>8 DEF Tenu, Tenue
<1>10. Prise(d, i, c)'
  BY <1>7, <1>9 DEF Prise, Suivi
<1>11. Temoin(i, rev, c)'
  BY <1>7 DEF Temoin, Suivi
<1>12. rev = objets'[i].rev => c = objets'[i].contenu /\ Prise(d, i, objets[i].contenu)'
  BY <1>10, <1>11 DEF Temoin, Prise
<1>13. LConnu(d, i)'
  BY <1>2, <1>4, <1>5, <1>10, <1>11, <1>12 DEF LConnu, Temoin, Suivi, Prise
<1>14. LBases(d, i)'
  <2>1. SUFFICES ASSUME bases'[d][i] # -1
                 PROVE  LBases(d, i)'
    BY DEF LBases
  <2>2. bases'[d][i] = rev /\ pc'[d] \in Poussee
    BY <2>1 DEF Notee
  <2>3. QED
    BY <1>2, <1>5, <1>11, <1>12, <2>2 DEF LBases, Temoin
<1>15. LPage(d, i)' /\ LLot(d, i)'
  BY DEF LPage, LLot, Notee
<1>16. LExamen(d, i)'
  <2>1. SUFFICES ASSUME examen'[d] # Rien, examen'[d].id = i
                 PROVE  LExamen(d, i)'
    BY DEF LExamen
  <2>2. /\ examen'[d].rev = rev /\ examen'[d].contenu = c
        /\ examen'[d].etape \notin {"lire", "noter"}
        /\ bases'[d][i] # -1 => bases'[d][i] = rev
    BY <2>1 DEF Notee
  <2>3. QED
    BY <1>11, <2>2 DEF LExamen, Temoin
<1>17. LPlancher(d, i)'
  <2>1. ASSUME EstTombale(locale'[d][i])
        PROVE  plancher'[d][i] <= locale'[d][i].date
    <3>1. /\ locale'[d][i] = locale[d][i] /\ locale[d][i] # Rien
          /\ EstTombale(locale[d][i])
      BY <1>7, <2>1 DEF EstTombale
    <3>2. plancher[d][i] <= locale[d][i].date
      BY <3>1 DEF Lien, LPlancher
    <3>3. Tenu(d, i) = locale[d][i] /\ locale[d][i].date \in Nat
      BY <3>1, ContenuEst DEF Tenu, Tenue, Sains
    <3>4. c.date <= locale[d][i].date
      BY <1>6, <1>7, <3>3 DEF Suit, Avant
    <3>5. plancher'[d][i] = plancher[d][i] \/ plancher'[d][i] = c.date
      BY DEF Notee
    <3>6. QED
      BY <3>1, <3>2, <3>4, <3>5
  <2>2. ASSUME locale'[d][i] = Rien, plancher'[d][i] # -1
        PROVE  objets'[i] # Rien /\ Suivi(i, Tombale(plancher[d][i]), objets[i].contenu)'
    BY <1>7, <1>8, <2>2 DEF Lien, LPlancher, Suivi
  <2>3. QED
    BY <2>1, <2>2 DEF LPlancher, Suivi
<1>18. LOubli(d, i)'
  <2>1. SUFFICES ASSUME locale'[d][i] # Rien, i \notin aExporter'[d],
                        sortant'[d][i] = Rien
                 PROVE  connu'[d][i] # Rien /\ connu'[d][i].empreinte = locale'[d][i]
    BY DEF LOubli, Attendue, DejaLa
  <2>2. locale'[d][i] = c
    BY <1>7, <2>1 DEF Notee
  <2>3. QED
    BY <1>2, <1>4, <2>2
<1>19. QED
  BY <1>13, <1>14, <1>15, <1>16, <1>17, <1>18 DEF Lien

\* A row that is what d noted, and follows what follows it, is the latter.
LEMMA DejaLaNotee ==
  ASSUME NEW d \in Appareils, NEW i \in Ids, Sains(d, i), Lien(d, i),
         NEW rev \in Nat \ {0}, NEW c \in Contenu, Fraiche(d, i, rev, c),
         Prise(d, i, c), locale[d][i] # Rien, i \notin aExporter[d],
         sortant[d][i] = Rien
  PROVE  locale[d][i] = c
<1>1. connu[d][i] # Rien /\ connu[d][i].empreinte = locale[d][i]
  BY DEF Lien, LOubli, Attendue, DejaLa
<1>2. Tenu(d, i) = locale[d][i] /\ locale[d][i] \in Contenu
  BY DEF Tenu, Tenue, Sains
<1>3. Avant(locale[d][i], c) /\ Avant(c, locale[d][i])
  BY <1>1, <1>2 DEF Fraiche, Prise, Suivi, Suit
<1>4. QED
  BY <1>2, <1>3, SuitEgal

\* The object examined is noted, and d covers it.
LEMMA LiensNote ==
  ASSUME Types, Types', Liens, NEW d \in Appareils, Note(d), examen[d] # Rien,
         NEW i \in Ids, i = examen[d].id,
         NEW rev, rev = examen[d].rev, NEW c, c = examen[d].contenu,
         Fraiche(d, i, rev, c), Prise(d, i, c),
         connu'[d][i] = NoterConnu(connu[d][i], rev, c),
         plancher'[d][i] >= plancher[d][i],
         plancher'[d][i] = plancher[d][i] \/ (plancher'[d][i] = c.date /\ c.morte),
         UNCHANGED <<magasin, objets, errantes, neuves, bases, sortant>>,
         examen'[d] # Rien =>
           /\ examen'[d].id = i /\ examen'[d].rev = rev /\ examen'[d].contenu = c
           /\ examen'[d].etape \notin {"lire", "noter"}
  PROVE  Liens'
<1>1. Sains(d, i) /\ Sains(d, i)' /\ Lien(d, i) /\ connu[d][i] \in Connu \cup {Rien}
  BY SainsTypes, SainsApres DEF Liens, Types, TTables
<1>2. /\ rev \in Nat \ {0} /\ c \in Contenu
      /\ lot[d][i] = Rien /\ (pc[d] = "page" => page[d].elements[i] = Rien)
  BY ExamenEst
<1>3. UNCHANGED <<apprise, objets, locale, aExporter, sortant, bases, pc, page, lot>>
  BY DEF magasin, Note
<1>4. Temoin(i, rev, c) /\ (bases[d][i] # -1 => bases[d][i] = rev /\ pc[d] \in Poussee)
  BY <1>1 DEF Lien, LExamen, LBases
<1>5. locale[d][i] # Rien /\ i \notin aExporter[d] /\ sortant[d][i] = Rien =>
        locale[d][i] = c
  BY <1>1, <1>2, DejaLaNotee
<1>6. connu[d][i] # Rien => connu[d][i].rev <= rev
  BY DEF Fraiche
<1>7. Notee(d, i, rev, c)
  BY <1>2, <1>3, <1>4, <1>5, <1>6 DEF Notee
<1>8. Lien(d, i)'
  BY <1>1, <1>2, <1>7, LienNotee
<1>9. Grandit
  BY <1>3, GranditMeme DEF Types
<1>10. Cellule(d, i)
  BY <1>3 DEF Cellule, Note, Case
<1>11. QED
  BY <1>8, <1>9, <1>10, LiensCellule

LEMMA LiensReconnaitre ==
  ASSUME Types, Liens, NEW d \in Appareils, Reconnaitre(d)
  PROVE  Liens'
<1>1. /\ Types' /\ Note(d) /\ UNCHANGED <<bases, plancher, sortant>>
      /\ examen[d] # Rien /\ examen'[d] = Rien /\ examen[d].etape = "lire"
      /\ connu'[d][examen[d].id] =
           NoterConnu(connu[d][examen[d].id], examen[d].rev, examen[d].contenu)
      /\ DejaLa(d, examen[d].id, examen[d].contenu)
  BY ReconnaitreTypes
<1>2. PICK i : i = examen[d].id
  OBVIOUS
<1>3. PICK rev : rev = examen[d].rev
  OBVIOUS
<1>4. PICK c : c = examen[d].contenu
  OBVIOUS
<1>5. i \in Ids /\ c # Rien
  BY <1>1, <1>2, <1>4, ExamenEst, ContenuEst
<1>6. Lien(d, i) /\ connu[d][i] # Rien /\ connu[d][i].empreinte = c
  BY <1>1, <1>2, <1>4, <1>5 DEF Liens, DejaLa
<1>7. Fraiche(d, i, rev, c)
  BY <1>1, <1>2, <1>3, <1>4, <1>6 DEF Lien, LExamen, APrendre
<1>8. Prise(d, i, c)
  BY <1>5, <1>6 DEF Lien, LConnu
<1>9. UNCHANGED <<magasin, objets, errantes, neuves>>
  BY DEF Reconnaitre, serveur, autour
<1>10. plancher'[d][i] = plancher[d][i] /\ plancher'[d][i] >= plancher[d][i]
  <2>1. plancher[d][i] \in Nat \cup {-1}
    BY <1>5 DEF Types, TTables
  <2>2. QED
    BY <1>1, <2>1
<1>11. connu'[d][i] = NoterConnu(connu[d][i], rev, c)
  BY <1>1, <1>2, <1>3, <1>4
<1>12. QED
  BY <1>1, <1>2, <1>3, <1>4, <1>5, <1>7, <1>8, <1>9, <1>10, <1>11, LiensNote

\* A live copy under the floor is covered: the row, or its deletion, is later.
LEMMA PriseSousPlancher ==
  ASSUME Types, IDates, NEW d \in Appareils, NEW i \in Ids, Lien(d, i),
         NEW c \in Contenu, ~c.morte, plancher[d][i] >= c.date,
         locale[d][i] = Rien => Suivi(i, Tombale(plancher[d][i]), c)
  PROVE  Prise(d, i, c)
<1>1. /\ plancher[d][i] \in Nat \cup {-1} /\ c.date \in Nat /\ c \in Contenus
      /\ locale[d][i] \in Contenu \cup {Rien}
      /\ apprise \in Apprises
  BY ContenuEst DEF Types, TTables, TMagasin
<1>2. locale[d][i] # Rien
  <2>1. SUFFICES ASSUME locale[d][i] = Rien
                 PROVE  FALSE
    OBVIOUS
  <2>2. Suit(apprise, i, Tombale(plancher[d][i]), c)
    BY <2>1 DEF Suivi
  <2>3. plancher[d][i] < c.date
    BY <1>1, <2>2, SuitTombale
  <2>4. QED
    BY <1>1, <2>3
<1>3. Supp(apprise, i, c.date)
  <2>1. plancher[d][i] # -1
    BY <1>1
  <2>2. Supp(apprise, i, plancher[d][i])
    BY <2>1 DEF Types, TTables
  <2>3. QED
    BY <1>1, <2>2, SuppPlus
<1>4. Avant(c, locale[d][i])
  <2>1. CASE EstTombale(locale[d][i])
    <3>1. plancher[d][i] <= locale[d][i].date /\ locale[d][i].morte
      BY <2>1 DEF Lien, LPlancher, EstTombale
    <3>2. locale[d][i].date \in Nat
      BY <1>1, <1>2, ContenuEst
    <3>3. QED
      BY <1>1, <3>1, <3>2 DEF Avant
  <2>2. CASE EstVivante(locale[d][i])
    <3>1. locale[d][i].date > plancher[d][i]
      BY <2>2, VivantePlancher
    <3>2. locale[d][i].date \in Nat
      BY <1>1, <1>2, ContenuEst
    <3>3. QED
      BY <1>1, <3>1, <3>2 DEF Avant
  <2>3. QED
    BY <1>1, <1>2, <2>1, <2>2, ContenuEst
<1>5. QED
  BY <1>2, <1>3, <1>4 DEF Prise, Suivi, Suit, Tenu, Tenue

LEMMA LiensTenir ==
  ASSUME Types, IDates, Liens, NEW d \in Appareils, TenirPlancher(d)
  PROVE  Liens'
<1>1. /\ Types' /\ Note(d) /\ UNCHANGED <<bases, plancher, sortant>>
      /\ examen[d] # Rien /\ examen'[d].id = examen[d].id
      /\ examen'[d].rev = examen[d].rev
      /\ examen'[d].contenu = examen[d].contenu /\ examen'[d].etape = "tombale"
      /\ connu'[d][examen[d].id] =
           NoterConnu(connu[d][examen[d].id], examen[d].rev, examen[d].contenu)
      /\ examen[d].etape = "lire" /\ ~examen[d].contenu.morte
      /\ plancher[d][examen[d].id] >= examen[d].contenu.date
  BY TenirTypes
<1>2. PICK i : i = examen[d].id
  OBVIOUS
<1>3. PICK rev : rev = examen[d].rev
  OBVIOUS
<1>4. PICK c : c = examen[d].contenu
  OBVIOUS
<1>5. i \in Ids /\ c \in Contenu
  BY <1>1, <1>2, <1>4, ExamenEst
<1>6. Lien(d, i) /\ APrendre(d, i, rev, c)
  BY <1>1, <1>2, <1>3, <1>4, <1>5 DEF Liens, Lien, LExamen
<1>7. Fraiche(d, i, rev, c)
  BY <1>6 DEF APrendre
<1>8. Prise(d, i, c)
  BY <1>1, <1>2, <1>4, <1>5, <1>6, PriseSousPlancher DEF APrendre
<1>9. UNCHANGED <<magasin, objets, errantes, neuves>>
  BY DEF TenirPlancher, serveur, autour
<1>10. plancher'[d][i] = plancher[d][i] /\ plancher'[d][i] >= plancher[d][i]
  <2>1. plancher[d][i] \in Nat \cup {-1}
    BY <1>5 DEF Types, TTables
  <2>2. QED
    BY <1>1, <2>1
<1>11. connu'[d][i] = NoterConnu(connu[d][i], rev, c)
  BY <1>1, <1>2, <1>3, <1>4
<1>12. QED
  BY <1>1, <1>2, <1>3, <1>4, <1>5, <1>7, <1>8, <1>9, <1>10, <1>11, LiensNote

LEMMA LiensNoter ==
  ASSUME Types, Liens, NEW d \in Appareils, Noter(d)
  PROVE  Liens'
<1>1. /\ Types' /\ Note(d) /\ UNCHANGED <<bases, sortant>>
      /\ examen[d] # Rien /\ examen'[d].id = examen[d].id
      /\ examen'[d].rev = examen[d].rev
      /\ examen'[d].contenu = examen[d].contenu /\ examen'[d].etape = "renvoyer"
      /\ examen[d].etape = "noter"
      /\ connu'[d][examen[d].id] =
           NoterConnu(connu[d][examen[d].id], examen[d].rev, examen[d].contenu)
      /\ plancher'[d][examen[d].id] >= plancher[d][examen[d].id]
      /\ \/ plancher'[d][examen[d].id] = plancher[d][examen[d].id]
         \/ /\ plancher'[d][examen[d].id] = examen[d].contenu.date
            /\ examen[d].contenu.morte
  BY NoterEtapeTypes
<1>2. PICK i : i = examen[d].id
  OBVIOUS
<1>3. PICK rev : rev = examen[d].rev
  OBVIOUS
<1>4. PICK c : c = examen[d].contenu
  OBVIOUS
<1>5. i \in Ids
  BY <1>1, <1>2, ExamenEst
<1>6. Fraiche(d, i, rev, c) /\ Prise(d, i, c)
  BY <1>1, <1>2, <1>3, <1>4, <1>5 DEF Liens, Lien, LExamen
<1>7. UNCHANGED <<magasin, objets, errantes, neuves>>
  BY DEF Noter, serveur, autour
<1>8. /\ connu'[d][i] = NoterConnu(connu[d][i], rev, c)
      /\ plancher'[d][i] >= plancher[d][i]
      /\ plancher'[d][i] = plancher[d][i] \/ (plancher'[d][i] = c.date /\ c.morte)
  BY <1>1, <1>2, <1>3, <1>4
<1>9. QED
  BY <1>1, <1>2, <1>3, <1>4, <1>5, <1>6, <1>7, <1>8, LiensNote

LEMMA LiensRenvoyer ==
  ASSUME Types, Liens, NEW d \in Appareils, Renvoyer(d)
  PROVE  Liens'
<1>1. /\ Types' /\ Note(d) /\ UNCHANGED <<bases, connu, plancher>>
      /\ examen[d] # Rien /\ examen'[d] = Rien
      /\ examen[d].etape \in {"tombale", "renvoyer"}
      /\ sortant'[d][examen[d].id] = Rien => sortant[d][examen[d].id] = Rien
  BY RenvoyerTypes
<1>2. PICK i : i = examen[d].id
  OBVIOUS
<1>3. i \in Ids /\ examen[d].etape # "lire"
  BY <1>1, <1>2, ExamenEst
<1>4. UNCHANGED <<magasin, objets, errantes, neuves>>
  BY DEF Renvoyer, serveur, autour
<1>5. UNCHANGED <<apprise, objets, locale, aExporter, pc, page, lot>>
  BY <1>1, <1>4 DEF magasin, Note
<1>6. Grandit /\ ServeurAvance(i)
  BY <1>3, <1>4, <1>5, GranditMeme, ServeurReste DEF Types
<1>7. Lien(d, i) /\ Sains(d, i) /\ Sains(d, i)'
  BY <1>1, <1>3, SainsTypes, SainsApres DEF Liens
<1>8. Poursuit(d, i) /\ Immobile(d, i)
  BY <1>1, <1>3, <1>5, <1>7 DEF Poursuit, Immobile, ALire, Lien, LBases
<1>9. Lien(d, i)'
  BY <1>1, <1>2, <1>3, <1>6, <1>7, <1>8, LienImmobile DEF Grandit
<1>10. Cellule(d, i)
  BY <1>1, <1>2, <1>4, <1>5 DEF Cellule, Note, Case
<1>11. QED
  BY <1>1, <1>3, <1>6, <1>9, <1>10, LiensCellule

\* Without restoration nothing is ever older than what is noted.
LEMMA LiensReaffirmer ==
  ASSUME Types, Liens, NEW d \in Appareils, Reaffirmer(d)
  PROVE  FALSE
<1>1. /\ examen[d] # Rien /\ examen[d].etape = "lire"
      /\ connu[d][examen[d].id] # Rien
      /\ examen[d].rev < connu[d][examen[d].id].rev
  BY ReaffirmerTypes
<1>2. PICK i : i = examen[d].id
  OBVIOUS
<1>3. i \in Ids
  BY <1>1, <1>2, ExamenEst
<1>4. Lien(d, i) /\ Sains(d, i)
  BY <1>3, SainsTypes DEF Liens
<1>5. connu[d][i].rev <= examen[d].rev
  BY <1>1, <1>2, <1>4 DEF Lien, LExamen, APrendre, Fraiche
<1>6. connu[d][i].rev \in Nat /\ examen[d].rev \in Nat
  BY <1>1, <1>2, <1>4 DEF Sains
<1>7. QED
  BY <1>1, <1>2, <1>5, <1>6

LEMMA LiensStockee ==
  ASSUME Types, Liens, NEW d \in Appareils, NEW i \in Ids, IssueStockee(d, i)
  PROVE  Liens'
<1>1. /\ Types' /\ Autres(d) /\ UNCHANGED <<examen, pc, page, objets, neuves>>
      /\ UNCHANGED <<magasin, errantes>>
      /\ pc[d] = "issue" /\ examen[d] = Rien
      /\ lot[d][i] # Rien /\ lot[d][i].statut = "stored" /\ lot'[d][i] = Rien
      /\ \A j \in Ids : j # i => lot'[d][j] = lot[d][j]
      /\ Case(connu, connu', d, i) /\ Case(plancher, plancher', d, i)
      /\ Case(sortant, sortant', d, i) /\ Case(bases, bases', d, i)
      /\ bases'[d][i] = -1
  BY StockeeTypes
<1>2. /\ connu'[d][i] =
           NoterConnu(connu[d][i], lot[d][i].base + 1, lot[d][i].contenu)
      /\ plancher'[d][i] >= plancher[d][i]
      /\ \/ plancher'[d][i] = plancher[d][i]
         \/ plancher'[d][i] = lot[d][i].contenu.date /\ lot[d][i].contenu.morte
  BY StockeeTypes
<1>3. UNCHANGED <<apprise, objets, locale, aExporter>>
  BY <1>1 DEF magasin
<1>4. Sains(d, i) /\ Sains(d, i)' /\ Lien(d, i) /\ connu[d][i] \in Connu \cup {Rien}
  BY <1>1, SainsTypes, SainsApres DEF Liens, Types, TTables
<1>5. PICK rev : rev = lot[d][i].base + 1
  OBVIOUS
<1>6. PICK c : c = lot[d][i].contenu
  OBVIOUS
<1>7. /\ rev \in Nat \ {0} /\ c \in Contenu
      /\ Temoin(i, rev, c) /\ Prise(d, i, c)
      /\ connu[d][i] # Rien => connu[d][i].rev <= rev
      /\ i \notin aExporter[d] /\ locale[d][i] # Rien => locale[d][i] = c
  BY <1>1, <1>4, <1>5, <1>6 DEF Sains, Lien, LLot
<1>8. Notee(d, i, rev, c)
  BY <1>1, <1>2, <1>3, <1>5, <1>6, <1>7 DEF Notee
<1>9. Lien(d, i)'
  BY <1>4, <1>7, <1>8, LienNotee
<1>10. Grandit
  BY <1>1, <1>3, GranditMeme DEF Types
<1>11. Cellule(d, i)
  BY <1>1, <1>3 DEF Cellule, Case
<1>12. QED
  BY <1>1, <1>9, <1>10, <1>11, LiensCellule

-----------------------------------------------------------------------------
(* What the store takes in, and purges                                     *)

LEMMA PoserCellule ==
  ASSUME Types, NEW d \in Appareils, NEW i \in Ids, NEW c \in Contenu,
         Recoit(d, i, c)
  PROVE  /\ locale'[d][i] = Recue(locale[d][i], c) /\ Case(locale, locale', d, i)
         /\ \A e \in Appareils, j \in Ids : e # d \/ j # i =>
              (j \in aExporter'[e] <=> j \in aExporter[e])
         /\ i \in aExporter[d] => i \in aExporter'[d]
         /\ i \in aExporter'[d] \/ locale'[d][i] = locale[d][i]
<1>1. PICK r : r = Recue(locale[d][i], c)
  OBVIOUS
<1>2. /\ locale' = [locale EXCEPT ![d][i] = r]
      /\ aExporter' = [aExporter EXCEPT ![d] =
           IF r = locale[d][i] THEN aExporter[d] ELSE aExporter[d] \cup {i}]
  BY <1>1 DEF Recoit, Poser
<1>3. locale'[d][i] = r /\ Case(locale, locale', d, i)
  BY <1>2 DEF Types, TMagasin, Case
<1>4. /\ aExporter'[d] = IF r = locale[d][i] THEN aExporter[d]
                         ELSE aExporter[d] \cup {i}
      /\ \A e \in Appareils : e # d => aExporter'[e] = aExporter[e]
  BY <1>2 DEF Types, TMagasin
<1>5. QED
  BY <1>1, <1>3, <1>4

\* The row goes forward, and covers what it took in.
LEMMA RecoitAvance ==
  ASSUME Types, Types', NEW d \in Appareils, NEW i \in Ids, NEW c \in Contenu,
         Recoit(d, i, c),
         locale[d][i] = Rien => Suivi(i, Tombale(plancher[d][i]), c)
  PROVE  /\ Suit(apprise', i, Tenu(d, i), Tenu(d, i)') /\ Prise(d, i, c)'
         /\ locale'[d][i] # Rien /\ Tenu(d, i)' = locale'[d][i]
<1>1. PICK l : l = locale[d][i]
  OBVIOUS
<1>2. PICK r : r = Recue(l, c)
  OBVIOUS
<1>3. l \in Contenu \cup {Rien} /\ locale'[d][i] = r
  BY <1>1, <1>2, PoserCellule DEF Types, TMagasin
<1>4. /\ r \in Contenu /\ Avant(c, r)
      /\ c.messages \subseteq r.messages \/ (r.morte /\ r.date >= c.date)
      /\ l = Rien => r = c
      /\ l # Rien => Avant(l, r)
      /\ l # Rien => l.messages \subseteq r.messages \/ (r.morte /\ r.date >= l.date)
  BY <1>2, <1>3, RecueEst
<1>5. r # Rien /\ r.date \in Nat /\ (EstTombale(r) <=> r.morte) /\ c.date \in Nat
  BY <1>4, ContenuEst
<1>6. apprise' \in Apprises /\ (r.morte => Supp(apprise', i, r.date))
  <2>1. apprise' \in Apprises /\ (EstTombale(r) => apprise'[d][i] >= r.date)
    BY <1>3 DEF Types, TMagasin
  <2>2. QED
    BY <1>5, <2>1 DEF Supp
<1>7. Suit(apprise', i, c, r)
  BY <1>4, <1>5, <1>6, SuppPlus DEF Suit
<1>8. Tenu(d, i)' = r
  BY <1>3, <1>5 DEF Tenu, Tenue
<1>9. CASE l = Rien
  <2>1. Tenu(d, i) = Tombale(plancher[d][i]) /\ plancher[d][i] \in Int
    BY <1>1, <1>9 DEF Tenu, Tenue, Types, TTables
  <2>2. Suit(apprise, i, Tombale(plancher[d][i]), c) /\ c \in Contenus
    BY <1>1, <1>9, ContenuEst DEF Suivi
  <2>3. Suit(apprise', i, Tombale(plancher[d][i]), c)
    BY <2>1, <2>2, SuitTombale
  <2>4. QED
    BY <1>3, <1>4, <1>5, <1>7, <1>8, <1>9, <2>1, <2>3 DEF Prise, Suivi
<1>10. CASE l # Rien
  <2>1. Tenu(d, i) = l /\ l.date \in Nat
    BY <1>1, <1>3, <1>10, ContenuEst DEF Tenu, Tenue
  <2>2. Suit(apprise', i, l, r)
    BY <1>4, <1>5, <1>6, <1>10, <2>1, SuppPlus DEF Suit
  <2>3. QED
    BY <1>3, <1>5, <1>7, <1>8, <2>1, <2>2 DEF Prise, Suivi
<1>11. QED
  BY <1>9, <1>10

\* What the cell keeps of it, the cycle aside.
LEMMA RecoitLien ==
  ASSUME Types, Types', IDates, Grandit, NEW d \in Appareils, NEW i \in Ids,
         NEW c \in Contenu, Recoit(d, i, c), Lien(d, i),
         locale[d][i] = Rien => Suivi(i, Tombale(plancher[d][i]), c),
         UNCHANGED <<connu, sortant, plancher, objets, lot>>
  PROVE  /\ Progres(d, i) /\ Purgee(d, i)
         /\ EstTombale(locale'[d][i]) => plancher'[d][i] <= locale'[d][i].date
         /\ lot'[d][i] # Rien /\ i \notin aExporter'[d] /\ locale'[d][i] # Rien =>
              locale'[d][i] = lot[d][i].contenu
         /\ LOubli(d, i)'
<1>1. /\ Suit(apprise', i, Tenu(d, i), Tenu(d, i)') /\ locale'[d][i] # Rien
      /\ Tenu(d, i)' = locale'[d][i]
  BY RecoitAvance
<1>2. /\ i \in aExporter[d] => i \in aExporter'[d]
      /\ i \in aExporter'[d] \/ locale'[d][i] = locale[d][i]
  BY PoserCellule
<1>3. Sains(d, i) /\ Sains(d, i)'
  BY SainsTypes, SainsApres
<1>4. Progres(d, i)
  BY <1>1, ServeurReste DEF Progres, Grandit
<1>5. Purgee(d, i)
  BY <1>1 DEF Purgee
<1>6. EstTombale(locale'[d][i]) => plancher'[d][i] <= locale'[d][i].date
  <2>1. plancher[d][i] <= Tenu(d, i).date
    BY PlancherTenu DEF Lien
  <2>2. Tenu(d, i).date <= locale'[d][i].date
    <3>1. Tenu(d, i).date \in Int /\ locale'[d][i].date \in Int
      BY <1>1, <1>3, ContenusEst, ContenuEst DEF Sains
    <3>2. QED
      BY <1>1, <3>1 DEF Suit, Avant
  <2>3. plancher[d][i] \in Int /\ Tenu(d, i).date \in Int /\ locale'[d][i].date \in Int
    BY <1>1, <1>3, ContenusEst, ContenuEst DEF Sains
  <2>4. QED
    BY <2>1, <2>2, <2>3
<1>7. lot'[d][i] # Rien /\ i \notin aExporter'[d] /\ locale'[d][i] # Rien =>
        locale'[d][i] = lot[d][i].contenu
  BY <1>1, <1>2 DEF Lien, LLot
<1>8. LOubli(d, i)'
  <2>1. SUFFICES ASSUME i \notin aExporter'[d], sortant'[d][i] = Rien
                 PROVE  connu'[d][i] # Rien /\ connu'[d][i].empreinte = locale'[d][i]
    BY DEF LOubli, Attendue, DejaLa
  <2>2. locale'[d][i] = locale[d][i] /\ i \notin aExporter[d]
    BY <1>2, <2>1
  <2>3. QED
    BY <1>1, <2>1, <2>2 DEF Lien, LOubli, Attendue, DejaLa
<1>9. QED
  BY <1>4, <1>5, <1>6, <1>7, <1>8

\* What a device takes in: an object it examined.
LEMMA LiensIngerer ==
  ASSUME Types, IDates, Liens, NEW d \in Appareils, Ingerer(d)
  PROVE  Liens'
<1>1. /\ Types' /\ Grandit /\ Autres(d)
      /\ UNCHANGED <<tables, pc, page, lot, bases, serveur, errantes>>
      /\ examen[d] # Rien /\ examen'[d] # Rien
      /\ examen'[d].id = examen[d].id /\ examen'[d].rev = examen[d].rev
      /\ examen'[d].contenu = examen[d].contenu /\ examen'[d].etape = "noter"
      /\ examen[d].etape = "lire"
      /\ Recoit(d, examen[d].id, examen[d].contenu)
  BY IngererTypes
<1>2. PICK i : i = examen[d].id
  OBVIOUS
<1>3. PICK rev : rev = examen[d].rev
  OBVIOUS
<1>4. PICK c : c = examen[d].contenu
  OBVIOUS
<1>5. /\ i \in Ids /\ c \in Contenu /\ rev \in Nat \ {0} /\ lot[d][i] = Rien
      /\ pc[d] = "page" => page[d].elements[i] = Rien
  BY <1>1, <1>2, <1>3, <1>4, ExamenEst
<1>6. Lien(d, i) /\ APrendre(d, i, rev, c) /\ (bases[d][i] # -1 => bases[d][i] = rev)
  BY <1>1, <1>2, <1>3, <1>4, <1>5 DEF Liens, Lien, LExamen
<1>7. Recoit(d, i, c) /\ UNCHANGED <<connu, sortant, plancher, objets, lot>>
  BY <1>1, <1>2, <1>4 DEF tables, serveur
<1>8. Progres(d, i) /\ Purgee(d, i) /\ LOubli(d, i)'
  BY <1>1, <1>5, <1>6, <1>7, RecoitLien DEF APrendre
<1>9. EstTombale(locale'[d][i]) => plancher'[d][i] <= locale'[d][i].date
  BY <1>1, <1>5, <1>6, <1>7, RecoitLien DEF APrendre
<1>10. Prise(d, i, c)' /\ locale'[d][i] # Rien
  BY <1>1, <1>5, <1>6, <1>7, RecoitAvance DEF APrendre
<1>11. Sains(d, i) /\ Sains(d, i)' /\ connu'[d][i] = connu[d][i] /\ c \in Contenus
  BY <1>1, <1>5, <1>7, SainsTypes, SainsApres, ContenuEst
<1>12. Temoin(i, rev, c)'
  BY <1>5, <1>6, <1>8, <1>11, TemoinAvance DEF APrendre
<1>13. Fraiche(d, i, rev, c)'
  BY <1>5, <1>6, <1>8, <1>11, FraicheMeme DEF APrendre
<1>14. LConnu(d, i)'
  BY <1>5, <1>6, <1>8, <1>11, ConnuMeme DEF Lien
<1>15. LBases(d, i)'
  <2>1. bases'[d][i] = bases[d][i]
    BY <1>1
  <2>2. SUFFICES ASSUME bases[d][i] # -1, bases'[d][i] = rev
                 PROVE  LBases(d, i)'
    BY <1>6, <2>1 DEF LBases
  <2>3. pc'[d] \in Poussee /\ (connu'[d][i] # Rien => connu'[d][i].rev <= rev)
    BY <1>1, <1>6, <1>11, <2>2 DEF Lien, LBases, APrendre, Fraiche
  <2>4. rev = objets'[i].rev => Prise(d, i, objets[i].contenu)'
    BY <1>10, <1>12 DEF Temoin, Prise
  <2>5. QED
    BY <1>12, <2>2, <2>3, <2>4 DEF LBases, Temoin
<1>16. LPage(d, i)' /\ LLot(d, i)'
  BY <1>1, <1>5 DEF LPage, LLot
<1>17. LExamen(d, i)'
  <2>1. /\ examen'[d].rev = rev /\ examen'[d].contenu = c /\ examen'[d].etape = "noter"
        /\ bases'[d][i] # -1 => bases'[d][i] = rev
    BY <1>1, <1>3, <1>4, <1>6
  <2>2. QED
    BY <1>10, <1>12, <1>13, <2>1 DEF LExamen, Temoin, Fraiche, Prise
<1>18. LPlancher(d, i)'
  BY <1>9, <1>10 DEF LPlancher
<1>19. Lien(d, i)'
  BY <1>8, <1>14, <1>15, <1>16, <1>17, <1>18 DEF Lien
<1>20. Cellule(d, i)
  <2>1. /\ Case(locale, locale', d, i)
        /\ \A e \in Appareils, j \in Ids : e # d \/ j # i =>
             (j \in aExporter'[e] <=> j \in aExporter[e])
    BY <1>5, <1>7, PoserCellule
  <2>2. QED
    BY <1>1, <1>2, <1>7, <2>1 DEF Cellule, Case
<1>21. QED
  BY <1>1, <1>5, <1>19, <1>20, LiensCellule

\* What a view writes where the row is gone is later than the floor: it waited
\* less than the retention, which the purge waited for.
LEMMA EcritPlusTard ==
  ASSUME Types, IDates, Absence <= Retention, NEW d \in Appareils, NEW i \in Ids,
         NEW c \in Contenu, Ecrit(d, i, c), locale[d][i] = Rien
  PROVE  Suivi(i, Tombale(plancher[d][i]), c)
<1>1. /\ plancher[d][i] \in Nat \cup {-1} /\ c \in Contenus /\ c.date \in Nat
      /\ Horloge(d) \in Nat /\ {Absence, Retention} \subseteq Nat
  BY HorlogeEst, ContenuEst, EngineNumbers DEF Types, TTables, TMagasin
<1>2. c.date + Absence >= Horloge(d)
  BY DEF Ecrit, EstVivante
<1>3. plancher[d][i] + Retention < Horloge(d) \/ plancher[d][i] = -1
  <2>1. Passee(d, i, plancher[d][i])
    BY <1>1 DEF IDates, Due
  <2>2. QED
    BY <2>1 DEF Passee, Passe, EstVivante, EstTombale
<1>4. plancher[d][i] < c.date
  BY <1>1, <1>2, <1>3
<1>5. Suit(apprise, i, Tombale(plancher[d][i]), c)
  BY <1>1, <1>4, SuitTombale
<1>6. QED
  BY <1>5 DEF Suivi

LEMMA LiensEcrit ==
  ASSUME Types, IDates, Liens, Absence <= Retention, NEW d \in Appareils,
         NEW i \in Ids, NEW c \in Contenu, Ecrit(d, i, c)
  PROVE  Liens'
<1>1. Types' /\ Grandit
  BY EcritTypes
<1>2. /\ Recoit(d, i, c)
      /\ UNCHANGED <<connu, sortant, plancher, objets, errantes>>
      /\ UNCHANGED <<pc, page, examen, lot, bases>>
  BY DEF Ecrit, tables, cycle, serveur
<1>3. Lien(d, i) /\ Sains(d, i) /\ Sains(d, i)' /\ connu'[d][i] = connu[d][i]
  BY <1>1, <1>2, SainsTypes, SainsApres DEF Liens
<1>4. locale[d][i] = Rien => Suivi(i, Tombale(plancher[d][i]), c)
  BY EcritPlusTard
<1>5. Progres(d, i) /\ Purgee(d, i) /\ LOubli(d, i)'
  BY <1>1, <1>2, <1>3, <1>4, RecoitLien
<1>6. /\ EstTombale(locale'[d][i]) => plancher'[d][i] <= locale'[d][i].date
      /\ lot'[d][i] # Rien /\ i \notin aExporter'[d] /\ locale'[d][i] # Rien =>
           locale'[d][i] = lot[d][i].contenu
  BY <1>1, <1>2, <1>3, <1>4, RecoitLien
<1>7. Poursuit(d, i)
  BY <1>2, <1>3 DEF Poursuit, ALire, Lien, LBases
<1>8. Lien(d, i)'
  BY <1>3, <1>5, <1>6, <1>7, LienPoursuit
<1>9. Cellule(d, i)
  <2>1. /\ Case(locale, locale', d, i)
        /\ \A e \in Appareils, j \in Ids : e # d \/ j # i =>
             (j \in aExporter'[e] <=> j \in aExporter[e])
    BY <1>2, PoserCellule
  <2>2. QED
    BY <1>2, <2>1 DEF Cellule, Case, Autres
<1>10. QED
  BY <1>1, <1>8, <1>9, LiensCellule

\* A purged row was the deletion its floor stands for.
LEMMA LiensPurger ==
  ASSUME Types, Liens, NEW d \in Appareils, NEW i \in Ids, Purger(d, i)
  PROVE  Liens'
<1>1. Types' /\ Grandit /\ UNCHANGED <<apprise, tables, cycle, serveur, errantes>>
  BY PurgerTout
<1>2. /\ UNCHANGED <<connu, sortant, plancher, objets, errantes>>
      /\ UNCHANGED <<pc, page, examen, lot, bases>>
  BY <1>1 DEF tables, cycle, serveur
<1>3. Lien(d, i) /\ Sains(d, i) /\ Sains(d, i)' /\ connu'[d][i] = connu[d][i]
  BY <1>1, <1>2, SainsTypes, SainsApres DEF Liens
<1>4. /\ EstTombale(locale[d][i]) /\ connu[d][i] # Rien
      /\ connu[d][i].empreinte = locale[d][i]
      /\ plancher[d][i] >= locale[d][i].date
      /\ locale' = [locale EXCEPT ![d][i] = Rien]
      /\ aExporter' = [aExporter EXCEPT ![d] = @ \ {i}]
  BY DEF Purger, PeutPurger
<1>5. /\ locale'[d][i] = Rien /\ Case(locale, locale', d, i)
      /\ \A e \in Appareils, j \in Ids : e # d \/ j # i =>
           (j \in aExporter'[e] <=> j \in aExporter[e])
  BY <1>4 DEF Types, TMagasin, Case
<1>6. locale[d][i] = Tombale(plancher[d][i])
  <2>1. /\ locale[d][i] \in Contenu /\ locale[d][i].morte
        /\ locale[d][i].date \in Nat /\ plancher[d][i] \in Int
    BY <1>3, <1>4, ContenuEst DEF Sains, EstTombale
  <2>2. plancher[d][i] = locale[d][i].date
    BY <1>3, <1>4, <2>1 DEF Lien, LPlancher
  <2>3. PICK f : f = Tombale(plancher[d][i])
    OBVIOUS
  <2>4. f \in Contenu /\ f.date = locale[d][i].date /\ f.morte
    BY <2>1, <2>2, <2>3, TombaleEst
  <2>5. Avant(f, locale[d][i]) /\ Avant(locale[d][i], f)
    BY <2>1, <2>4 DEF Avant
  <2>6. QED
    BY <2>1, <2>3, <2>4, <2>5, SuitEgal
<1>7. Tenu(d, i)' = Tenu(d, i)
  BY <1>2, <1>4, <1>5, <1>6 DEF Tenu, Tenue, EstTombale
<1>8. Progres(d, i)
  <2>1. PICK x : x = Tenu(d, i)
    OBVIOUS
  <2>2. Suit(apprise', i, x, x)
    BY <1>3, <2>1, SuitMeme DEF Sains
  <2>3. QED
    BY <1>1, <1>2, <1>7, <2>1, <2>2, ServeurReste DEF Progres, Grandit
<1>9. Purgee(d, i) /\ LOubli(d, i)'
  BY <1>2, <1>4, <1>5, <1>6 DEF Purgee, LOubli
<1>10. Poursuit(d, i)
  BY <1>2, <1>3 DEF Poursuit, ALire, Lien, LBases
<1>11. ~EstTombale(locale'[d][i])
  BY <1>5 DEF EstTombale
<1>12. Lien(d, i)'
  BY <1>3, <1>5, <1>8, <1>9, <1>10, <1>11, LienPoursuit
<1>13. Cellule(d, i)
  BY <1>2, <1>5 DEF Cellule, Case, Autres
<1>14. QED
  BY <1>1, <1>12, <1>13, LiensCellule

-----------------------------------------------------------------------------
(* The invariant, and the theorems                                         *)

\* The step of nobody, or of the clock, or of a session.
LEMMA LiensMeme ==
  ASSUME Types, Types', Liens, UNCHANGED neuves,
         UNCHANGED <<magasin, tables, cycle, serveur, errantes>>
  PROVE  Liens'
<1>1. /\ UNCHANGED <<locale, plancher, connu, sortant, aExporter, apprise, objets>>
      /\ UNCHANGED <<pc, page, examen, lot, bases>> /\ errantes' \subseteq errantes
  BY DEF magasin, tables, cycle, serveur
<1>2. Grandit /\ \A i \in Ids : ServeurAvance(i)
  BY <1>1, GranditMeme, ServeurReste DEF Types
<1>3. ASSUME NEW d \in Appareils, NEW i \in Ids
      PROVE  Poursuit(d, i)
  BY <1>1 DEF Poursuit, ALire, Liens, Lien, LBases
<1>4. QED
  BY <1>1, <1>2, <1>3, LiensPassifs

LEMMA LiensInit == Init => Liens
<1>1. SUFFICES ASSUME Init
               PROVE  Liens
  OBVIOUS
<1>2. /\ locale = [d \in Appareils |-> Aucun]
      /\ connu = [d \in Appareils |-> [i \in Ids |-> Rien]]
      /\ plancher = [d \in Appareils |-> [i \in Ids |-> -1]]
      /\ pc = [d \in Appareils |-> "repos"]
      /\ examen = [d \in Appareils |-> Rien]
      /\ lot = [d \in Appareils |-> Aucun]
      /\ bases = [d \in Appareils |-> [i \in Ids |-> -1]]
      /\ errantes = {}
  <2>1. {i \in Ids : Aucun[i] # Rien} = {}
    BY DEF Aucun
  <2>2. QED
    BY <1>1, <2>1 DEF Init, Depart
<1>3. ASSUME NEW d \in Appareils, NEW i \in Ids
      PROVE  Lien(d, i)
  <2>1. /\ locale[d][i] = Rien /\ connu[d][i] = Rien /\ plancher[d][i] = -1
        /\ pc[d] = "repos" /\ examen[d] = Rien /\ lot[d][i] = Rien
        /\ bases[d][i] = -1
    BY <1>2 DEF Aucun
  <2>2. QED
    BY <2>1 DEF Lien, LConnu, LBases, LPage, LExamen, LLot, LPlancher, LOubli,
                EstTombale
<1>4. QED
  BY <1>2, <1>3 DEF Liens, LErrantes

LEMMA LiensEtape ==
  ASSUME Types, Types', IDates, Liens, NEW d \in Appareils, Etape(d)
  PROVE  Liens'
<1>1. CASE Connecter(d)
  BY <1>1, LiensMeme DEF Connecter, autour
<1>2. CASE Commencer(d) \/ Conclure(d)
  BY <1>2, LiensBouts
<1>3. CASE FinirPage(d) \/ FinirTirage(d) \/ FinirLot(d)
  BY <1>3, LiensFinirs
<1>4. CASE \E i \in Ids : \/ Examiner(d, i) \/ RepousserAbsent(d, i)
                          \/ IssueStockee(d, i) \/ IssueConflit(d, i)
  BY <1>4, LiensExaminer, LiensRepousser, LiensStockee, LiensConflit
<1>5. CASE Accueillir(d)
  BY <1>5, LiensReconnaitre, LiensReaffirmer, LiensTenir, LiensIngerer, LiensNoter,
     LiensRenvoyer DEF Accueillir
<1>6. CASE DemanderPage(d) \/ PreparerLot(d) \/ ServirLot(d) \/ Refuser(d)
  BY <1>6, LiensDemanderPage, LiensPreparer, LiensServir, LiensRefuser
<1>7. QED
  BY <1>1, <1>2, <1>3, <1>4, <1>5, <1>6 DEF Etape

LEMMA LiensNext ==
  ASSUME Types, IDates, Liens, Next, Absence <= Retention, RestaurationsMax = 0
  PROVE  Liens'
<1>1. Types'
  BY TypesNext
<1>2. CASE Utilisateur
  <2>1. PICK d \in Appareils, i \in Ids :
          \/ \E k \in Messages : Creer(d, i, k) \/ Ecrire(d, i, k)
          \/ Supprimer(d, i) \/ Purger(d, i)
    BY <1>2 DEF Utilisateur
  <2>2. CASE Purger(d, i)
    BY <2>2, LiensPurger
  <2>3. CASE ~Purger(d, i)
    <3>1. \E c \in Contenu : Ecrit(d, i, c)
      BY <2>1, <2>3, EcritCreer, EcritEcrire, EcritSupprimer DEF Types
    <3>2. QED
      BY <3>1, LiensEcrit
  <2>4. QED
    BY <2>2, <2>3
<1>3. CASE Avancer
  BY <1>1, <1>3, LiensMeme DEF Avancer
<1>4. CASE \E d \in Appareils : Etape(d)
  BY <1>1, <1>4, LiensEtape
<1>5. CASE Pannes
  <2>1. ~Sauvegarder /\ ~Restaurer
    BY DEF Sauvegarder, Restaurer, Types, TServeur
  <2>2. QED
    BY <1>5, <2>1, LiensInterrompre, LiensErrante DEF Pannes
<1>6. QED
  BY <1>2, <1>3, <1>4, <1>5 DEF Next

Chaine == Types /\ IDates /\ Liens

LEMMA ChaineNext ==
  ASSUME Chaine, [Next]_vars, Absence <= Retention, RestaurationsMax = 0
  PROVE  Chaine'
<1>1. CASE Next
  BY <1>1, TypesNext, DatesNext, LiensNext DEF Chaine
<1>2. CASE UNCHANGED vars
  <2>1. Types' /\ IDates'
    BY <1>2, DatesMeme DEF Chaine
  <2>2. UNCHANGED <<magasin, tables, cycle, serveur, errantes>> /\ UNCHANGED neuves
    BY <1>2 DEF vars, autour
  <2>3. Liens'
    BY <2>1, <2>2, LiensMeme DEF Chaine
  <2>4. QED
    BY <2>1, <2>3 DEF Chaine
<1>3. QED
  BY <1>1, <1>2

LEMMA ChaineTenue ==
  ASSUME Absence <= Retention, RestaurationsMax = 0
  PROVE  Spec => []Chaine
<1>1. Init => Chaine
  BY TypesInit, DatesInit, LiensInit DEF Chaine
<1>2. Chaine /\ [Next]_vars => Chaine'
  BY ChaineNext
<1>3. QED
  BY <1>1, <1>2, PTL DEF Spec

\* ConnuExact for every account, any losses and deaths, as long as the server
\* is not restored: what a device noted of an object is what the server held at
\* that revision.
THEOREM KnownIsExact ==
  ASSUME Absence <= Retention, RestaurationsMax = 0
  PROVE  Spec => []ConnuExact
<1>1. Chaine => ConnuExact
  BY DEF Chaine, Liens, Lien, LConnu, ConnuExact
<1>2. QED
  BY <1>1, ChaineTenue, PTL

\* RienOublie: between two cycles every row is on its way to the server, or is
\* what the device knows the server held, a crash between the engine's
\* database and the store's included.
THEOREM NothingForgotten ==
  ASSUME Absence <= Retention, RestaurationsMax = 0
  PROVE  Spec => []RienOublie
<1>1. Chaine => RienOublie
  BY DEF Chaine, Liens, Lien, LOubli, RienOublie
<1>2. QED
  BY <1>1, ChaineTenue, PTL

\* What follows a row covers it, but where a deletion came between.
LEMMA SuiviTient ==
  ASSUME NEW i \in Ids, objets[i] # Rien, objets[i].contenu \in Contenu,
         NEW l \in Contenu, Suivi(i, l, objets[i].contenu)
  PROVE  Tient(objets[i], l) \/ (EstVivante(l) /\ Supprimee(i, l.date))
<1>1. PICK o : o = objets[i].contenu
  OBVIOUS
<1>2. /\ o \in Contenu /\ Avant(l, o)
      /\ l.messages \subseteq o.messages \/ Supp(apprise, i, l.date)
  BY <1>1 DEF Suivi, Suit
<1>3. /\ o # Rien /\ o.date \in Nat /\ (o.morte <=> o.messages = {})
      /\ EstTombale(o) <=> o.morte
      /\ EstVivante(o) <=> ~o.morte
      /\ l # Rien /\ l.date \in Nat /\ (l.morte <=> l.messages = {})
      /\ EstVivante(l) <=> ~l.morte
  BY <1>2, ContenuEst
<1>4. CASE l.morte
  <2>1. Recue(o, l) = o
    BY <1>2, <1>3, <1>4 DEF Recue, Avant
  <2>2. QED
    BY <1>1, <2>1 DEF Tient
<1>5. CASE ~l.morte /\ Supp(apprise, i, l.date)
  BY <1>3, <1>5, SupprimeeEst
<1>6. CASE ~l.morte /\ l.messages \subseteq o.messages
  <2>1. ~o.morte /\ l.date <= o.date
    BY <1>2, <1>3, <1>6 DEF Avant
  <2>2. MaxDe(o.date, l.date) = o.date /\ o.messages \cup l.messages = o.messages
    BY <1>3, <1>6, <2>1 DEF MaxDe
  <2>3. Recue(o, l) = Vivante(o.date, o.messages)
    BY <1>3, <1>6, <2>1, <2>2 DEF Recue
  <2>4. o = [date |-> o.date, messages |-> o.messages, morte |-> FALSE]
    <3>1. o = [date |-> o.date, messages |-> o.messages, morte |-> o.morte]
      BY <1>2 DEF Contenu
    <3>2. o.morte = FALSE
      BY <1>2, <2>1, ContenuEst
    <3>3. QED
      BY <3>1, <3>2
  <2>5. Recue(o, l) = o
    BY <2>3, <2>4 DEF Vivante
  <2>6. QED
    BY <1>1, <2>5 DEF Tient
<1>7. QED
  BY <1>2, <1>4, <1>5, <1>6

\* SynchroniseVrai: a device that says it is synchronised holds no row the
\* server does not cover, but what a deletion taken in covers.
THEOREM SynchronisedIsTrue ==
  ASSUME Absence <= Retention, RestaurationsMax = 0
  PROVE  Spec => []SynchroniseVrai
<1>1. Chaine => SynchroniseVrai
  <2>1. SUFFICES ASSUME Chaine, NEW d \in Appareils, NEW i \in Ids,
                        Synchronisee(d, i)
                 PROVE  \/ Tient(objets[i], locale[d][i])
                        \/ EstVivante(locale[d][i]) /\ Supprimee(i, locale[d][i].date)
    BY DEF SynchroniseVrai
  <2>2. Lien(d, i) /\ Sains(d, i) /\ locale[d][i] # Rien /\ ~Attendue(d, i)
    BY <2>1, SainsTypes DEF Chaine, Liens, Synchronisee
  <2>3. connu[d][i] # Rien /\ connu[d][i].empreinte = locale[d][i]
    BY <2>2 DEF Lien, LOubli, DejaLa
  <2>4. /\ objets[i] # Rien /\ Suivi(i, locale[d][i], objets[i].contenu)
        /\ locale[d][i] \in Contenu /\ objets[i].contenu \in Contenu
    BY <2>2, <2>3 DEF Lien, LConnu, Sains
  <2>5. QED
    BY <2>4, SuiviTient
<1>2. QED
  BY <1>1, ChaineTenue, PTL

\* The object of the server goes forward.
LEMMA AvanceNext ==
  ASSUME Chaine, Next, RestaurationsMax = 0
  PROVE  \A i \in Ids : ServeurAvance(i)
<1>1. CASE \E d \in Appareils : ServirLot(d)
  <2>1. PICK d \in Appareils : ServirLot(d)
    BY <1>1
  <2>2. Servi(lot[d]) /\ pc[d] = "vol" /\ EstLot(lot[d], apprise, neuves)
    BY <2>1, ServirTypes DEF Chaine, Types, TCycle, EstCycle
  <2>3. \A i \in Ids : lot[d][i] # Rien =>
          Portee(i, lot[d][i].base, lot[d][i].contenu)
    BY <2>2 DEF Chaine, Liens, Lien, LLot, Types, TCycle, EstCycle
  <2>4. QED
    BY <2>2, <2>3, ServiAvance DEF Chaine
<1>2. CASE \E l \in errantes : ServirErrante(l)
  <2>1. PICK l \in errantes : ServirErrante(l)
    BY <1>2
  <2>2. Servi(l) /\ EstLot(l, apprise, neuves)
    BY <2>1, ErranteTypes DEF Chaine, Types, TServeur
  <2>3. \A i \in Ids : l[i] # Rien => Portee(i, l[i].base, l[i].contenu)
    BY DEF Chaine, Liens, LErrantes
  <2>4. QED
    BY <2>2, <2>3, ServiAvance DEF Chaine
<1>3. CASE ~(\E d \in Appareils : ServirLot(d)) /\ ~(\E l \in errantes : ServirErrante(l))
  <2>1. ~Restaurer
    BY DEF Restaurer, Chaine, Types, TServeur
  <2>2. Utilisateur => objets' = objets
    <3>1. ASSUME NEW d \in Appareils, NEW i \in Ids, NEW k \in Messages,
                 Creer(d, i, k) \/ Ecrire(d, i, k)
          PROVE  objets' = objets
      BY <3>1 DEF Creer, Ecrire, serveur
    <3>2. ASSUME NEW d \in Appareils, NEW i \in Ids,
                 Supprimer(d, i) \/ Purger(d, i)
          PROVE  objets' = objets
      BY <3>2 DEF Supprimer, Purger, serveur
    <3>3. QED
      BY <3>1, <3>2 DEF Utilisateur
  <2>3. Avancer => objets' = objets
    BY DEF Avancer, serveur
  <2>4. ASSUME NEW d \in Appareils, Etape(d)
        PROVE  objets' = objets
    <3>1. Accueillir(d) => objets' = objets
      BY DEF Accueillir, Reconnaitre, Reaffirmer, TenirPlancher, Ingerer, Noter,
             Renvoyer, serveur
    <3>2. ASSUME NEW i \in Ids,
                 \/ Examiner(d, i) \/ RepousserAbsent(d, i)
                 \/ IssueStockee(d, i) \/ IssueConflit(d, i)
          PROVE  objets' = objets
      BY <3>2 DEF Examiner, RepousserAbsent, IssueStockee, IssueConflit, serveur
    <3>3. ~ServirLot(d)
      BY <1>3
    <3>4. QED
      BY <2>4, <3>1, <3>2, <3>3
         DEF Etape, Commencer, DemanderPage, FinirPage, FinirTirage, PreparerLot,
             FinirLot, Conclure, Refuser, Connecter, serveur
  <2>5. Pannes => objets' = objets
    BY <1>3, <2>1 DEF Pannes, Interrompre, Sauvegarder, serveur
  <2>6. objets' = objets
    BY <2>2, <2>3, <2>4, <2>5 DEF Next
  <2>7. QED
    BY <2>6, ServeurReste DEF Chaine
<1>4. QED
  BY <1>1, <1>2, <1>3

\* SansEcrasement: no push, handled late or not, takes a message off a live
\* object of the server but where a deletion taken in covers that object.
THEOREM NoBlindOverwrite ==
  ASSUME Absence <= Retention, RestaurationsMax = 0
  PROVE  Spec => SansEcrasement
<1>1. Chaine /\ [Next]_vars =>
        [\A i \in Ids :
           /\ generation' = generation
           /\ objets[i] # Rien /\ EstVivante(objets[i].contenu)
           /\ EstVivante(objets'[i].contenu)
           => \/ objets[i].contenu.messages \subseteq objets'[i].contenu.messages
              \/ Supprimee(i, objets[i].contenu.date)]_vars
  <2>1. SUFFICES ASSUME Chaine, Next, NEW i \in Ids, objets[i] # Rien
                 PROVE  \/ objets[i].contenu.messages \subseteq objets'[i].contenu.messages
                        \/ Supprimee(i, objets[i].contenu.date)
    OBVIOUS
  <2>2. Suit(apprise, i, objets[i].contenu, objets'[i].contenu)
    BY <2>1, AvanceNext DEF ServeurAvance, Suivi
  <2>3. QED
    BY <2>2, SupprimeeEst DEF Suit
<1>2. QED
  BY <1>1, ChaineTenue, PTL DEF Spec, SansEcrasement

-----------------------------------------------------------------------------
(***************************************************************************)
(* Restorations included: what the server lacks goes out again.            *)
(*                                                                         *)
(* A row that nothing will send is one the device says the server          *)
(* confirmed (Suivies).  Of those, one the server of now lacks is still to *)
(* be looked for, by the complete pull under way or by the next one        *)
(* (Cherchee), because a device that has not seen the present generation   *)
(* starts over (Vues).  It takes a device that is not interrupted between  *)
(* the first cursor of a complete pull and the end of its search.          *)
(***************************************************************************)

\* What the device believes the server holds of i.
Confirmee(d, i) == connu[d][i] # Rien /\ connu[d][i].empreinte # Rien

Suivie(d, i) == locale[d][i] # Rien => Attendue(d, i) \/ Confirmee(d, i)

Suivies == \A d \in Appareils, i \in Ids : Suivie(d, i)

LEMMA SuiviesMemes ==
  ASSUME Suivies, UNCHANGED <<locale, aExporter, sortant, connu>>
  PROVE  Suivies'
BY DEF Suivies, Suivie, Attendue, Confirmee

\* A step that writes the lines of one conversation in the engine's tables.
LEMMA SuiviesTables ==
  ASSUME Suivies, NEW d \in Appareils, NEW i \in Ids,
         UNCHANGED <<locale, aExporter>>,
         Case(connu, connu', d, i), Case(sortant, sortant', d, i),
         \/ Confirmee(d, i)' \/ sortant'[d][i] # Rien
         \/ connu'[d][i] = connu[d][i] /\ (sortant'[d][i] = Rien => sortant[d][i] = Rien)
  PROVE  Suivies'
<1>1. SUFFICES ASSUME NEW e \in Appareils, NEW j \in Ids
               PROVE  Suivie(e, j)'
  BY DEF Suivies
<1>2. Suivie(e, j)
  BY DEF Suivies
<1>3. CASE e = d /\ j = i
  BY <1>2, <1>3 DEF Suivie, Attendue, Confirmee
<1>4. CASE e # d \/ j # i
  BY <1>2, <1>4 DEF Suivie, Attendue, Confirmee, Case
<1>5. QED
  BY <1>3, <1>4

\* A content the store joins is to be exported, unless nothing changed.
LEMMA SuiviesRecoit ==
  ASSUME Types, Suivies, NEW d \in Appareils, NEW i \in Ids, NEW c \in Contenu,
         Recoit(d, i, c), UNCHANGED tables
  PROVE  Suivies'
<1>1. SUFFICES ASSUME NEW e \in Appareils, NEW j \in Ids
               PROVE  Suivie(e, j)'
  BY DEF Suivies
<1>2. Suivie(e, j) /\ UNCHANGED <<sortant, connu>>
  BY DEF Suivies, tables
<1>3. /\ Case(locale, locale', d, i)
      /\ e # d \/ j # i => (j \in aExporter'[e] <=> j \in aExporter[e])
      /\ i \in aExporter[d] => i \in aExporter'[d]
      /\ i \in aExporter'[d] \/ locale'[d][i] = locale[d][i]
  BY PoserCellule
<1>4. CASE e = d /\ j = i
  BY <1>2, <1>3, <1>4 DEF Suivie, Attendue, Confirmee
<1>5. CASE e # d \/ j # i
  BY <1>2, <1>3, <1>5 DEF Suivie, Attendue, Confirmee, Case
<1>6. QED
  BY <1>4, <1>5

LEMMA SuiviesPurger ==
  ASSUME Types, Suivies, NEW d \in Appareils, NEW i \in Ids, Purger(d, i)
  PROVE  Suivies'
<1>1. SUFFICES ASSUME NEW e \in Appareils, NEW j \in Ids
               PROVE  Suivie(e, j)'
  BY DEF Suivies
<1>2. Suivie(e, j)
  BY DEF Suivies
<1>3. /\ locale' = [locale EXCEPT ![d][i] = Rien]
      /\ aExporter' = [aExporter EXCEPT ![d] = aExporter[d] \ {i}]
      /\ UNCHANGED <<sortant, connu>>
  BY DEF Purger, tables
<1>4. CASE e = d /\ j = i
  BY <1>3, <1>4 DEF Suivie, Types, TMagasin
<1>5. CASE e # d \/ j # i
  <2>1. locale'[e][j] = locale[e][j] /\ (j \in aExporter[e] => j \in aExporter'[e])
    BY <1>3, <1>5 DEF Types, TMagasin
  <2>2. QED
    BY <1>2, <1>3, <2>1 DEF Suivie, Attendue, Confirmee
<1>6. QED
  BY <1>4, <1>5

\* An export drops only what the server confirmed.
LEMMA SuiviesExporter ==
  ASSUME Types, Suivies, NEW d \in Appareils, Exporter(d),
         UNCHANGED <<locale, posee, ancienne, apprise, neuves, maintenant, connu>>
  PROVE  Suivies'
<1>1. /\ \A i \in Ids : /\ plancher'[d][i] = PlancherExporte(d, i)
                        /\ sortant'[d][i] = SortantExporte(d, i)
      /\ \A e \in Appareils, i \in Ids : e # d => sortant'[e][i] = sortant[e][i]
      /\ \A e \in Appareils : aExporter'[e] = IF e = d THEN {} ELSE aExporter[e]
      /\ TTables'
  BY ExporterTypes DEF Types
<1>2. SUFFICES ASSUME NEW e \in Appareils, NEW j \in Ids
               PROVE  Suivie(e, j)'
  BY DEF Suivies
<1>3. Suivie(e, j) /\ UNCHANGED <<locale, connu>>
  BY DEF Suivies
<1>4. CASE e # d
  BY <1>1, <1>3, <1>4 DEF Suivie, Attendue, Confirmee
<1>5. CASE e = d /\ j \notin aExporter[d]
  <2>1. sortant'[d][j] = sortant[d][j]
    BY <1>1, <1>5 DEF SortantExporte
  <2>2. QED
    BY <1>3, <1>5, <2>1 DEF Suivie, Attendue, Confirmee
<1>6. CASE e = d /\ j \in aExporter[d]
  <2>1. PICK p : p = PlancherExporte(d, j)
    OBVIOUS
  <2>2. locale[d][j] \in Contenu /\ p \in Nat \cup {-1}
    BY <1>1, <1>6, <2>1 DEF Types, TMagasin, TTables
  <2>3. SousLesPlanchers(locale[d][j], p, -1) # Rien
    BY <2>2, SousEst, RienHors
  <2>4. CASE DejaLa(d, j, SousLesPlanchers(locale[d][j], p, -1))
    BY <1>3, <1>6, <2>3, <2>4 DEF Suivie, Confirmee, DejaLa
  <2>5. CASE ~DejaLa(d, j, SousLesPlanchers(locale[d][j], p, -1))
    <3>1. PICK n : n = IF locale[d][j].morte THEN locale[d][j].date ELSE -1
      OBVIOUS
    <3>2. sortant'[d][j] = Ajouter(sortant[d][j], n)
      BY <1>1, <1>6, <2>1, <2>5, <3>1 DEF SortantExporte
    <3>3. n \in Nat \cup {-1} /\ sortant[d][j] \in Sortant \cup {Rien}
      BY <2>2, <3>1, ContenuEst DEF Types, TTables
    <3>4. Ajouter(sortant[d][j], n) # Rien
      <4>1. PICK f \in Nat : n <= f /\ (sortant[d][j] # Rien => sortant[d][j].supprime <= f)
        <5>1. CASE sortant[d][j] = Rien
          BY <3>3, <5>1
        <5>2. CASE sortant[d][j] # Rien
          <6>1. PICK s : s = sortant[d][j].supprime
            OBVIOUS
          <6>2. s \in Nat \cup {-1}
            BY <3>3, <5>2, <6>1 DEF Sortant
          <6>3. CASE s >= n /\ s >= 0
            BY <3>3, <6>1, <6>2, <6>3
          <6>4. CASE n >= s /\ n >= 0
            BY <3>3, <6>1, <6>2, <6>4
          <6>5. CASE n < 0 /\ s < 0
            BY <3>3, <6>1, <6>2, <6>5
          <6>6. QED
            BY <3>3, <6>2, <6>3, <6>4, <6>5
        <5>3. QED
          BY <5>1, <5>2
      <4>2. QED
        BY <3>3, <4>1, AjouterEst
    <3>5. QED
      BY <1>6, <3>2, <3>4 DEF Suivie, Attendue
  <2>6. QED
    BY <2>4, <2>5
<1>7. QED
  BY <1>4, <1>5, <1>6

\* The lines a push drops without sending are confirmed, or have no row.
LEMMA SuiviesPreparer ==
  ASSUME Types, Suivies, NEW d \in Appareils, PreparerLot(d)
  PROVE  Suivies'
<1>1. SUFFICES ASSUME NEW e \in Appareils, NEW j \in Ids
               PROVE  Suivie(e, j)'
  BY DEF Suivies
<1>2. /\ UNCHANGED <<magasin, connu>>
      /\ e # d => sortant'[e] = sortant[e]
      /\ sortant'[d][j] = Rien /\ sortant[d][j] # Rien =>
           APousser(d, j) = Rien \/ DejaLa(d, j, APousser(d, j))
  BY PreparerTypes
<1>3. Suivie(e, j) /\ UNCHANGED <<locale, aExporter, connu>>
  BY <1>2 DEF Suivies, magasin
<1>4. CASE e # d \/ sortant'[d][j] # Rien \/ sortant[d][j] = Rien
  BY <1>2, <1>3, <1>4 DEF Suivie, Attendue, Confirmee
<1>5. CASE e = d /\ sortant'[d][j] = Rien /\ sortant[d][j] # Rien
  <2>1. APousser(d, j) = Rien => locale[d][j] = Rien
    BY <1>5, APousserEst
  <2>2. QED
    BY <1>2, <1>3, <1>5, <2>1 DEF Suivie, Confirmee, DejaLa
<1>6. QED
  BY <1>4, <1>5

LEMMA SuiviesReaffirmer ==
  ASSUME Types, Suivies, NEW d \in Appareils, Reaffirmer(d)
  PROVE  Suivies'
<1>1. PICK i : i = examen[d].id
  OBVIOUS
<1>2. /\ examen[d] # Rien /\ connu[d][i] # Rien
      /\ connu' = [connu EXCEPT ![d][i] = Oublier(connu[d][i])]
      /\ sortant' = [sortant EXCEPT ![d][i] = Ajouter(sortant[d][i], plancher[d][i])]
      /\ UNCHANGED <<locale, aExporter>>
  BY <1>1 DEF Reaffirmer, Lue, Depassee, magasin
<1>3. /\ i \in Ids /\ plancher[d][i] \in Nat \cup {-1}
      /\ sortant[d][i] \in Sortant \cup {Rien}
      /\ sortant[d][i] # Rien => sortant[d][i].supprime <= plancher[d][i]
  BY <1>1, <1>2, ExamenEst DEF Types, TTables
<1>4. Ajouter(sortant[d][i], plancher[d][i]) # Rien
  BY <1>3, AjouterEst
<1>5. /\ sortant'[d][i] # Rien
      /\ Case(connu, connu', d, i) /\ Case(sortant, sortant', d, i)
  BY <1>2, <1>3, <1>4 DEF Types, TTables, Case
<1>6. QED
  BY <1>2, <1>3, <1>5, SuiviesTables

\* What is noted of a content is a confirmation.
LEMMA ConfirmeeNotee ==
  ASSUME Types, NEW d \in Appareils, NEW i \in Ids, NEW rev \in Nat \ {0},
         NEW c \in Contenu, connu'[d][i] = NoterConnu(connu[d][i], rev, c)
  PROVE  Confirmee(d, i)'
<1>1. connu[d][i] \in Connu \cup {Rien}
  BY DEF Types, TTables
<1>2. NoterConnu(connu[d][i], rev, c) # Rien /\ NoterConnu(connu[d][i], rev, c).empreinte = c
  BY <1>1, NoterConnuEst
<1>3. c # Rien
  BY RienHors
<1>4. QED
  BY <1>2, <1>3 DEF Confirmee

LEMMA SuiviesExamen ==
  ASSUME Types, Suivies, NEW d \in Appareils,
         Reconnaitre(d) \/ TenirPlancher(d) \/ Noter(d) \/ Renvoyer(d)
  PROVE  Suivies'
<1>1. examen[d] # Rien
  BY DEF Reconnaitre, TenirPlancher, Noter, Renvoyer, Lue
<1>2. PICK i : i = examen[d].id
  OBVIOUS
<1>3. i \in Ids /\ examen[d].rev \in Nat \ {0} /\ examen[d].contenu \in Contenu
  BY <1>1, <1>2, ExamenEst
<1>4. UNCHANGED <<locale, aExporter>>
  BY DEF Reconnaitre, TenirPlancher, Noter, Renvoyer, magasin
<1>5. Case(connu, connu', d, i) /\ Case(sortant, sortant', d, i)
  BY <1>2, ReconnaitreTypes, TenirTypes, NoterEtapeTypes, RenvoyerTypes DEF Note
<1>6. CASE Renvoyer(d)
  <2>1. connu' = connu /\ (sortant'[d][i] = Rien => sortant[d][i] = Rien)
    BY <1>2, <1>6, RenvoyerTypes
  <2>2. QED
    BY <1>3, <1>4, <1>5, <2>1, SuiviesTables
<1>7. CASE Reconnaitre(d) \/ TenirPlancher(d) \/ Noter(d)
  <2>1. connu'[d][i] = NoterConnu(connu[d][i], examen[d].rev, examen[d].contenu)
    BY <1>2, <1>7, ReconnaitreTypes, TenirTypes, NoterEtapeTypes
  <2>2. Confirmee(d, i)'
    BY <1>3, <2>1, ConfirmeeNotee
  <2>3. QED
    BY <1>3, <1>4, <1>5, <2>2, SuiviesTables
<1>8. QED
  BY <1>6, <1>7

LEMMA SuiviesStockee ==
  ASSUME Types, Suivies, NEW d \in Appareils, NEW i \in Ids, IssueStockee(d, i)
  PROVE  Suivies'
<1>1. /\ UNCHANGED magasin /\ lot[d][i] # Rien
      /\ Case(connu, connu', d, i) /\ Case(sortant, sortant', d, i)
      /\ connu'[d][i] = NoterConnu(connu[d][i], lot[d][i].base + 1, lot[d][i].contenu)
  BY StockeeTypes
<1>2. lot[d][i] \in Parti
  BY <1>1 DEF Types, TCycle
<1>3. lot[d][i].base + 1 \in Nat \ {0} /\ lot[d][i].contenu \in Contenu
  BY <1>2 DEF Parti
<1>4. Confirmee(d, i)'
  BY <1>1, <1>3, ConfirmeeNotee
<1>5. UNCHANGED <<locale, aExporter>>
  BY <1>1 DEF magasin
<1>6. QED
  BY <1>1, <1>4, <1>5, SuiviesTables

LEMMA SuiviesRepousser ==
  ASSUME Types, Suivies, NEW d \in Appareils, NEW i \in Ids, RepousserAbsent(d, i)
  PROVE  Suivies'
<1>1. /\ sortant'[d][i] # Rien
      /\ Case(connu, connu', d, i) /\ Case(sortant, sortant', d, i)
  BY RepousserTypes
<1>2. UNCHANGED <<locale, aExporter>>
  BY DEF RepousserAbsent, magasin
<1>3. QED
  BY <1>1, <1>2, SuiviesTables

LEMMA SuiviesIngerer ==
  ASSUME Types, Suivies, NEW d \in Appareils, Ingerer(d)
  PROVE  Suivies'
<1>1. /\ examen[d] # Rien /\ UNCHANGED tables
      /\ Recoit(d, examen[d].id, examen[d].contenu)
  BY IngererTypes
<1>2. PICK i, c : i = examen[d].id /\ c = examen[d].contenu
  OBVIOUS
<1>3. i \in Ids /\ c \in Contenu /\ Recoit(d, i, c)
  BY <1>1, <1>2, ExamenEst
<1>4. QED
  BY <1>1, <1>3, SuiviesRecoit

LEMMA SuiviesNext ==
  ASSUME Types, Suivies, Next
  PROVE  Suivies'
<1>1. CASE Utilisateur
  <2>1. PICK d \in Appareils, i \in Ids :
          \/ \E k \in Messages : Creer(d, i, k) \/ Ecrire(d, i, k)
          \/ Supprimer(d, i) \/ Purger(d, i)
    BY <1>1 DEF Utilisateur
  <2>2. CASE Purger(d, i)
    BY <2>2, SuiviesPurger
  <2>3. CASE ~Purger(d, i)
    <3>1. PICK c \in Contenu : Ecrit(d, i, c)
      BY <2>1, <2>3, EcritCreer, EcritEcrire, EcritSupprimer DEF Types
    <3>2. Recoit(d, i, c) /\ UNCHANGED tables
      BY <3>1 DEF Ecrit
    <3>3. QED
      BY <3>2, SuiviesRecoit
  <2>4. QED
    BY <2>2, <2>3
<1>2. ASSUME NEW d \in Appareils, Etape(d)
      PROVE  Suivies'
  <2>1. CASE Commencer(d) \/ Conclure(d)
    <3>1. Exporter(d) /\ UNCHANGED <<locale, posee, ancienne, apprise, connu>>
      BY <2>1 DEF Commencer, Conclure
    <3>2. UNCHANGED <<neuves, maintenant>>
      BY <2>1 DEF Commencer, Conclure, autour
    <3>3. QED
      BY <3>1, <3>2, SuiviesExporter
  <2>2. CASE \/ DemanderPage(d) \/ FinirPage(d) \/ FinirTirage(d) \/ ServirLot(d)
             \/ FinirLot(d) \/ Refuser(d) \/ Connecter(d)
             \/ \E i \in Ids : Examiner(d, i) \/ IssueConflit(d, i)
    <3>1. UNCHANGED <<locale, aExporter, sortant, connu>>
      BY <2>2 DEF DemanderPage, FinirPage, FinirTirage, ServirLot, FinirLot,
         Refuser, Connecter, Examiner, IssueConflit, magasin, tables
    <3>2. QED
      BY <3>1, SuiviesMemes
  <2>3. QED
    BY <1>2, <2>1, <2>2, SuiviesPreparer, SuiviesReaffirmer, SuiviesExamen,
       SuiviesStockee, SuiviesRepousser, SuiviesIngerer DEF Etape, Accueillir
<1>3. CASE Avancer \/ Pannes
  <2>1. UNCHANGED <<locale, aExporter, sortant, connu>>
    BY <1>3 DEF Avancer, Pannes, Interrompre, ServirErrante, Sauvegarder,
       Restaurer, magasin, tables
  <2>2. QED
    BY <2>1, SuiviesMemes
<1>4. QED
  BY <1>1, <1>2, <1>3 DEF Next

\* The device has seen the present generation of the server.
AuFait(d) == genVue[d] = generation

TVues ==
  /\ genVue \in [Appareils -> Nat] /\ session \in [Appareils -> BOOLEAN]
  /\ complet \in [Appareils -> BOOLEAN] /\ vus \in [Appareils -> SUBSET Ids]
  /\ DOMAIN curseur = Appareils /\ DOMAIN etat = Appareils

\* A restoration ends the sessions, so who has one and received an answer in this
\* cycle is up to date; who has not yet asked begins at its cursor.
VueJuste(d) ==
  /\ genVue[d] <= generation
  /\ ~session[d] => ~AuFait(d)
  /\ pc[d] \notin {"repos", "tire"} => genVue[d] # 0 /\ (session[d] => AuFait(d))
  /\ pc[d] = "tire" /\ session[d] /\ ~AuFait(d) =>
       vus[d] = {} /\ (curseur[d] = 0 => complet[d])
  /\ genVue[d] = 0 => \A i \in Ids : connu[d][i] = Rien

\* What the server said in this generation, it still holds.
Presente(d, i) == AuFait(d) =>
  /\ pc[d] = "page" /\ page[d].elements[i] # Rien => objets[i] # Rien
  /\ examen[d] # Rien /\ examen[d].id = i => objets[i] # Rien
  /\ (/\ lot[d][i] # Rien
      /\ \/ lot[d][i].statut = "stored"
         \/ lot[d][i].statut = "conflict" /\ lot[d][i].courant # Rien)
     => objets[i] # Rien

\* What the device believes there and is not there is looked for: by the complete
\* pull under way, or by the next one, and the device says it is not synchronised.
Cherchee(d, i) == AuFait(d) /\ objets[i] = Rien /\ Confirmee(d, i) =>
  \/ complet[d] /\ pc[d] \in {"tire", "page", "absents"} /\ i \notin vus[d]
  \/ pc[d] = "repos" /\ curseur[d] = 0 /\ etat[d] # "upToDate"

Recherche(d) == VueJuste(d) /\ \A i \in Ids : Presente(d, i) /\ Cherchee(d, i)

Recherches == TVues /\ \A d \in Appareils : Recherche(d)

\* The server stays the same one and loses nothing.
Gagne ==
  /\ generation' = generation
  /\ \A i \in Ids : objets[i] # Rien => objets'[i] # Rien

VueMeme(e) ==
  /\ genVue'[e] = genVue[e] /\ session'[e] = session[e]
  /\ curseur'[e] = curseur[e] /\ etat'[e] = etat[e]
  /\ complet'[e] = complet[e] /\ vus'[e] = vus[e]
  /\ \A i \in Ids : connu'[e][i] = connu[e][i]

LEMMA RechercheMeme ==
  ASSUME Recherches, Gagne, NEW e \in Appareils, VueMeme(e), pc'[e] = pc[e],
         page'[e] = page[e], examen'[e] = examen[e], lot'[e] = lot[e]
  PROVE  Recherche(e)'
<1>1. Recherche(e) /\ (AuFait(e)' <=> AuFait(e))
  BY DEF Recherches, AuFait, Gagne, VueMeme
<1>2. VueJuste(e)'
  BY <1>1 DEF Recherche, VueJuste, Gagne, VueMeme
<1>3. ASSUME NEW i \in Ids
      PROVE  Presente(e, i)' /\ Cherchee(e, i)'
  <2>1. /\ Presente(e, i) /\ Cherchee(e, i)
        /\ objets[i] # Rien => objets'[i] # Rien
        /\ Confirmee(e, i)' <=> Confirmee(e, i)
    BY <1>1 DEF Recherche, Gagne, VueMeme, Confirmee
  <2>2. Presente(e, i)'
    BY <1>1, <2>1 DEF Presente
  <2>3. Cherchee(e, i)'
    BY <1>1, <2>1 DEF Cherchee, VueMeme
  <2>4. QED
    BY <2>2, <2>3
<1>4. QED
  BY <1>2, <1>3 DEF Recherche

\* What a step of device d owes.
LEMMA RecherchesDe ==
  ASSUME Recherches, Gagne, NEW d \in Appareils, Autres(d), TVues',
         \A e \in Appareils : e # d => VueMeme(e), Recherche(d)'
  PROVE  Recherches'
<1>1. ASSUME NEW e \in Appareils, e # d
      PROVE  Recherche(e)'
  BY <1>1, RechercheMeme DEF Autres
<1>2. QED
  BY <1>1 DEF Recherches

\* A step of nobody's cycle.
LEMMA RecherchesPassives ==
  ASSUME Recherches, Gagne,
         UNCHANGED <<connu, genVue, session, curseur, etat, complet, vus, pc, page,
                     examen, lot>>
  PROVE  Recherches'
<1>1. ASSUME NEW e \in Appareils
      PROVE  Recherche(e)'
  BY RechercheMeme DEF VueMeme
<1>2. TVues'
  BY DEF Recherches, TVues
<1>3. QED
  BY <1>1, <1>2 DEF Recherches

\* A step of a cycle past its first answer that leaves the pull alone: it notes
\* only what the server holds.
LEMMA RecherchesCycle ==
  ASSUME Recherches, Gagne, NEW d \in Appareils, Autres(d),
         UNCHANGED <<genVue, session, curseur, etat, complet, vus>>,
         pc[d] \notin {"repos", "tire"},
         pc'[d] = pc[d] \/ {pc[d], pc'[d]} \subseteq {"pousse", "vol", "issue", "conclut"},
         \A e \in Appareils, i \in Ids : e # d => connu'[e][i] = connu[e][i],
         \A i \in Ids : AuFait(d) /\ Confirmee(d, i)' => Confirmee(d, i) \/ objets[i] # Rien,
         \A i \in Ids : Presente(d, i)'
  PROVE  Recherches'
<1>1. /\ Recherche(d) /\ (AuFait(d)' <=> AuFait(d)) /\ TVues'
      /\ \A e \in Appareils : e # d => VueMeme(e)
  BY DEF Recherches, AuFait, Gagne, VueMeme, TVues
<1>2. VueJuste(d)'
  BY <1>1 DEF Recherche, VueJuste, AuFait, Gagne
<1>3. ASSUME NEW i \in Ids
      PROVE  Cherchee(d, i)'
  <2>1. Cherchee(d, i) /\ (objets[i] # Rien => objets'[i] # Rien)
    BY <1>1 DEF Recherche, Gagne
  <2>2. QED
    BY <1>1, <2>1 DEF Cherchee
<1>4. QED
  BY <1>1, <1>2, <1>3, RecherchesDe DEF Recherche

LEMMA PresenteMeme ==
  ASSUME Recherches, Gagne, NEW d \in Appareils, NEW i \in Ids,
         genVue'[d] = genVue[d],
         pc'[d] = "page" => pc[d] = "page" /\ page'[d] = page[d],
         examen'[d] # Rien => examen[d] # Rien /\ examen'[d].id = examen[d].id,
         lot'[d][i] \in {Rien, lot[d][i]}
  PROVE  Presente(d, i)'
<1>1. Presente(d, i) /\ (objets[i] # Rien => objets'[i] # Rien)
  BY DEF Recherches, Recherche, Gagne
<1>2. QED
  BY <1>1 DEF Presente, AuFait, Gagne

LEMMA GagneMeme ==
  ASSUME UNCHANGED <<objets, generation>>
  PROVE  Gagne
BY DEF Gagne

\* The examination of an object of a page or of a conflict.
LEMMA RecherchesExamen ==
  ASSUME Types, Recherches, NEW d \in Appareils,
         \/ Reconnaitre(d) \/ Reaffirmer(d) \/ TenirPlancher(d) \/ Ingerer(d)
         \/ Noter(d) \/ Renvoyer(d)
  PROVE  Recherches'
<1>1. examen[d] # Rien
  BY DEF Reconnaitre, Reaffirmer, TenirPlancher, Ingerer, Noter, Renvoyer, Lue
<1>2. PICK i : i = examen[d].id
  OBVIOUS
<1>3. i \in Ids /\ pc[d] \in {"page", "issue"} /\ examen[d] \in Examen
  BY <1>1, <1>2, ExamenEst
<1>4. /\ UNCHANGED <<genVue, session, curseur, etat, complet, vus, pc, page, lot>>
      /\ Gagne
  BY GagneMeme DEF Reconnaitre, Reaffirmer, TenirPlancher, Ingerer, Noter, Renvoyer,
     serveur, tables
<1>5. Autres(d)
  BY ReconnaitreTypes, ReaffirmerTypes, TenirTypes, IngererTypes, NoterEtapeTypes,
     RenvoyerTypes DEF Note
<1>6. examen'[d] # Rien => examen'[d].id = i
  BY <1>2, ReconnaitreTypes, ReaffirmerTypes, TenirTypes, IngererTypes,
     NoterEtapeTypes, RenvoyerTypes
<1>7. Case(connu, connu', d, i)
  <2>1. CASE Ingerer(d)
    BY <2>1, CaseMeme DEF Ingerer, tables
  <2>2. CASE Reaffirmer(d)
    <3>1. connu' = [connu EXCEPT ![d][i] = Oublier(connu[d][i])]
      BY <1>2, <2>2 DEF Reaffirmer
    <3>2. QED
      BY <3>1, <1>3 DEF Case, Types, TTables
  <2>3. QED
    BY <1>2, <2>1, <2>2, ReconnaitreTypes, TenirTypes, NoterEtapeTypes, RenvoyerTypes
       DEF Note
<1>8. AuFait(d) => objets[i] # Rien
  BY <1>1, <1>2, <1>3 DEF Recherches, Recherche, Presente
<1>9. ASSUME NEW j \in Ids, AuFait(d), Confirmee(d, j)'
      PROVE  Confirmee(d, j) \/ objets[j] # Rien
  BY <1>7, <1>8, <1>9 DEF Case, Confirmee
<1>10. ASSUME NEW j \in Ids
       PROVE  Presente(d, j)'
  BY <1>1, <1>2, <1>4, <1>6, PresenteMeme
<1>11. \A e \in Appareils, j \in Ids : e # d => connu'[e][j] = connu[e][j]
  BY <1>7 DEF Case
<1>12. QED
  BY <1>3, <1>4, <1>5, <1>9, <1>10, <1>11, RecherchesCycle

LEMMA RecherchesExaminer ==
  ASSUME Types, Recherches, NEW d \in Appareils, NEW i \in Ids, Examiner(d, i)
  PROVE  Recherches'
<1>1. /\ Autres(d) /\ UNCHANGED <<pc, lot>> /\ pc[d] = "page"
      /\ page[d].elements[i] # Rien
      /\ page'[d].elements[i] = Rien
      /\ \A j \in Ids : j # i => page'[d].elements[j] = page[d].elements[j]
  BY ExaminerTypes
<1>5. examen'[d] # Rien => examen'[d].id = i
  <2>1. examen'[d] = [id |-> i, rev |-> page[d].elements[i].rev,
                      contenu |-> page[d].elements[i].contenu, etape |-> "lire"]
    BY ExaminerTypes
  <2>2. QED
    BY <2>1
<1>2. UNCHANGED <<genVue, session, curseur, etat, complet, vus, connu>> /\ Gagne
  BY GagneMeme DEF Examiner, serveur, tables
<1>3. ASSUME NEW j \in Ids
      PROVE  Presente(d, j)'
  <2>1. /\ Presente(d, j) /\ Presente(d, i)
        /\ objets[j] # Rien => objets'[j] # Rien
    BY <1>2 DEF Recherches, Recherche, Gagne
  <2>2. QED
    BY <1>1, <1>2, <1>5, <2>1 DEF Presente, AuFait, Gagne
<1>4. QED
  BY <1>1, <1>2, <1>3, RecherchesCycle DEF Confirmee

LEMMA RecherchesPreparer ==
  ASSUME Types, Recherches, NEW d \in Appareils, PreparerLot(d)
  PROVE  Recherches'
<1>1. /\ Autres(d) /\ UNCHANGED <<connu, examen, page>>
      /\ pc[d] = "pousse" /\ examen[d] = Rien /\ pc'[d] \in {"conclut", "vol"}
      /\ \A i \in Ids : lot'[d][i] # Rien => lot'[d][i].statut = "parti"
  BY PreparerTypes
<1>2. UNCHANGED <<genVue, session, curseur, etat, complet, vus>> /\ Gagne
  BY GagneMeme DEF PreparerLot, serveur
<1>3. \A i \in Ids : Presente(d, i)'
  BY <1>1 DEF Presente
<1>4. QED
  BY <1>1, <1>2, <1>3, RecherchesCycle DEF Confirmee

LEMMA ServiGagne ==
  ASSUME NEW l, Servi(l), generation' = generation
  PROVE  Gagne
BY DEF Servi, Gagne

LEMMA RecherchesServir ==
  ASSUME Types, Recherches, NEW d \in Appareils, ServirLot(d)
  PROVE  Recherches'
<1>1. /\ Autres(d) /\ UNCHANGED <<tables, examen, page>> /\ Servi(lot[d])
      /\ pc[d] = "vol" /\ pc'[d] = "issue" /\ examen[d] = Rien
      /\ \A i \in Ids : lot'[d][i] # Rien /\ i \notin Stockes(lot[d]) =>
           lot'[d][i].statut = "conflict" /\ lot'[d][i].courant = objets[i]
  BY ServirTypes
<1>2. Gagne
  BY ServirTypes, ServiGagne
<1>3. UNCHANGED <<genVue, session, curseur, etat, complet, vus, connu>>
  BY <1>1 DEF ServirLot, tables
<1>4. ASSUME NEW i \in Ids
      PROVE  Presente(d, i)'
  <2>1. CASE i \in Stockes(lot[d])
    BY <1>1, <2>1 DEF Presente, Servi
  <2>2. CASE i \notin Stockes(lot[d])
    BY <1>1, <2>2 DEF Presente, Servi
  <2>3. QED
    BY <2>1, <2>2
<1>5. QED
  BY <1>1, <1>2, <1>3, <1>4, RecherchesCycle DEF Confirmee

LEMMA RecherchesStockee ==
  ASSUME Types, Recherches, NEW d \in Appareils, NEW i \in Ids, IssueStockee(d, i)
  PROVE  Recherches'
<1>1. /\ Autres(d) /\ UNCHANGED <<examen, pc, page, objets>> /\ UNCHANGED serveur
      /\ pc[d] = "issue" /\ lot[d][i] # Rien /\ lot[d][i].statut = "stored"
      /\ lot'[d][i] = Rien
      /\ \A j \in Ids : j # i => lot'[d][j] = lot[d][j]
      /\ Case(connu, connu', d, i)
  BY StockeeTypes
<1>2. UNCHANGED <<genVue, session, curseur, etat, complet, vus>> /\ Gagne
  BY <1>1, GagneMeme DEF IssueStockee, serveur
<1>3. AuFait(d) => objets[i] # Rien
  BY <1>1 DEF Recherches, Recherche, Presente
<1>4. ASSUME NEW j \in Ids, AuFait(d), Confirmee(d, j)'
      PROVE  Confirmee(d, j) \/ objets[j] # Rien
  BY <1>1, <1>3, <1>4 DEF Case, Confirmee
<1>5. ASSUME NEW j \in Ids
      PROVE  Presente(d, j)'
  BY <1>1, <1>2, PresenteMeme
<1>6. \A e \in Appareils, j \in Ids : e # d => connu'[e][j] = connu[e][j]
  BY <1>1 DEF Case
<1>7. QED
  BY <1>1, <1>2, <1>4, <1>5, <1>6, RecherchesCycle

LEMMA RecherchesConflit ==
  ASSUME Types, Recherches, NEW d \in Appareils, NEW i \in Ids, IssueConflit(d, i)
  PROVE  Recherches'
<1>1. /\ Autres(d) /\ UNCHANGED <<tables, pc, page, serveur>>
      /\ pc[d] = "issue" /\ lot[d][i] # Rien /\ lot[d][i].statut = "conflict"
      /\ lot'[d][i] = Rien
      /\ \A j \in Ids : j # i => lot'[d][j] = lot[d][j]
      /\ examen'[d] # Rien => lot[d][i].courant # Rien
  <2>1. Autres(d) /\ UNCHANGED <<tables, pc, page, serveur>>
    BY ConflitTypes
  <2>2. pc[d] = "issue" /\ lot[d][i] # Rien /\ lot[d][i].statut = "conflict"
    BY ConflitTypes
  <2>3. lot'[d][i] = Rien /\ \A j \in Ids : j # i => lot'[d][j] = lot[d][j]
    BY ConflitTypes
  <2>4. examen'[d] # Rien => lot[d][i].courant # Rien
    BY ConflitTypes
  <2>5. QED
    BY <2>1, <2>2, <2>3, <2>4
<1>5. examen'[d] # Rien => examen'[d].id = i
  <2>1. examen'[d] # Rien =>
          examen'[d] = [id |-> i, rev |-> lot[d][i].courant.rev,
                        contenu |-> lot[d][i].courant.contenu, etape |-> "lire"]
    BY ConflitTypes
  <2>2. QED
    BY <2>1
<1>2. UNCHANGED <<genVue, session, curseur, etat, complet, vus, connu>> /\ Gagne
  BY <1>1, GagneMeme DEF IssueConflit, serveur, tables
<1>3. ASSUME NEW j \in Ids
      PROVE  Presente(d, j)'
  <2>1. /\ Presente(d, j) /\ Presente(d, i)
        /\ objets[j] # Rien => objets'[j] # Rien
    BY <1>2 DEF Recherches, Recherche, Gagne
  <2>2. QED
    BY <1>1, <1>2, <1>5, <2>1 DEF Presente, AuFait, Gagne
<1>4. QED
  BY <1>1, <1>2, <1>3, RecherchesCycle DEF Confirmee

LEMMA RecherchesFinirLot ==
  ASSUME Types, Recherches, NEW d \in Appareils, FinirLot(d)
  PROVE  Recherches'
<1>1. /\ Autres(d) /\ UNCHANGED <<examen, lot, page>>
      /\ pc[d] = "issue" /\ pc'[d] = "pousse"
  BY FinirLotTypes DEF FinirLot, Types, TCycle
<1>2. UNCHANGED <<genVue, session, curseur, etat, complet, vus, connu>> /\ Gagne
  BY GagneMeme DEF FinirLot, serveur, tables
<1>3. ASSUME NEW j \in Ids
      PROVE  Presente(d, j)'
  BY <1>1, <1>2, PresenteMeme
<1>4. QED
  BY <1>1, <1>2, <1>3, RecherchesCycle DEF Confirmee

\* A step that writes what the device d keeps of the pull.
AutresVues(d) == \A e \in Appareils : e # d => VueMeme(e)

LEMMA RecherchesCommencer ==
  ASSUME Types, Recherches, NEW d \in Appareils, Commencer(d)
  PROVE  Recherches'
<1>1. /\ pc[d] = "repos" /\ session[d]
      /\ pc' = [pc EXCEPT ![d] = "tire"]
      /\ complet' = [complet EXCEPT ![d] = curseur[d] = 0]
      /\ vus' = [vus EXCEPT ![d] = {}]
      /\ UNCHANGED <<connu, curseur, genVue, etat, session, page, examen, lot,
                     bases, serveur>>
  BY DEF Commencer
<1>2. /\ pc'[d] = "tire" /\ vus'[d] = {} /\ complet'[d] = (curseur[d] = 0)
      /\ TVues' /\ AutresVues(d) /\ Autres(d) /\ Gagne
  BY <1>1, GagneMeme DEF Types, TCycle, Recherches, TVues, AutresVues, VueMeme, Autres,
     serveur
<1>3. Recherche(d) /\ (AuFait(d)' <=> AuFait(d)) /\ lot[d] = Aucun /\ examen[d] = Rien
  BY <1>1, <1>2 DEF Recherches, AuFait, Gagne, Types, TCycle, EstCycle
<1>4. VueJuste(d)'
  BY <1>1, <1>2, <1>3 DEF Recherche, VueJuste, AuFait, serveur
<1>5. ASSUME NEW i \in Ids
      PROVE  Presente(d, i)' /\ Cherchee(d, i)'
  <2>1. Presente(d, i)'
    BY <1>1, <1>2, <1>3 DEF Presente, Aucun
  <2>2. Cherchee(d, i) /\ objets'[i] = objets[i]
    BY <1>1, <1>3 DEF Recherche, serveur
  <2>3. Cherchee(d, i)'
    BY <1>1, <1>2, <1>3, <2>2 DEF Cherchee, Confirmee
  <2>4. QED
    BY <2>1, <2>3
<1>6. QED
  BY <1>2, <1>4, <1>5, RecherchesDe DEF Recherche, AutresVues

LEMMA RecherchesConclure ==
  ASSUME Types, Recherches, NEW d \in Appareils, Conclure(d)
  PROVE  Recherches'
<1>1. PICK s : etat' = [etat EXCEPT ![d] = s]
  BY DEF Conclure
<1>2. /\ pc[d] = "conclut"
      /\ pc' = [pc EXCEPT ![d] = "repos"]
      /\ bases' = [bases EXCEPT ![d] = [i \in Ids |-> -1]]
      /\ UNCHANGED <<connu, curseur, genVue, session, page, examen, lot, complet,
                     vus, serveur>>
  BY DEF Conclure
<1>3. /\ pc'[d] = "repos" /\ TVues' /\ AutresVues(d) /\ Autres(d) /\ Gagne
  BY <1>1, <1>2, GagneMeme DEF Types, TCycle, Recherches, TVues, AutresVues, VueMeme,
     Autres, serveur
<1>4. Recherche(d) /\ (AuFait(d)' <=> AuFait(d)) /\ lot[d] = Aucun /\ examen[d] = Rien
  BY <1>2, <1>3 DEF Recherches, AuFait, Gagne, Types, TCycle, EstCycle
<1>5. VueJuste(d)'
  BY <1>2, <1>3, <1>4 DEF Recherche, VueJuste, AuFait, serveur
<1>6. ASSUME NEW i \in Ids
      PROVE  Presente(d, i)' /\ Cherchee(d, i)'
  <2>1. Presente(d, i)'
    BY <1>2, <1>3, <1>4 DEF Presente, Aucun
  <2>2. Cherchee(d, i) /\ objets'[i] = objets[i]
    BY <1>2, <1>4 DEF Recherche, serveur
  <2>3. Cherchee(d, i)'
    BY <1>2, <1>3, <1>4, <2>2 DEF Cherchee, Confirmee
  <2>4. QED
    BY <2>1, <2>3
<1>7. QED
  BY <1>3, <1>5, <1>6, RecherchesDe DEF Recherche, AutresVues

\* A new generation starts a complete pull; within one, what a page shows is there.
LEMMA RecherchesDemander ==
  ASSUME Types, Recherches, NEW d \in Appareils, DemanderPage(d)
  PROVE  Recherches'
<1>1. /\ Autres(d) /\ pc[d] = "tire" /\ UNCHANGED <<examen, lot>>
      /\ pc'[d] = "page" =>
           \A i \in Ids : page'[d].elements[i] \in {objets[i], Rien}
  BY DemanderPageTypes
<1>2. /\ session[d] /\ genVue' = [genVue EXCEPT ![d] = generation]
      /\ UNCHANGED <<connu, etat, session, serveur>>
  BY DEF DemanderPage
<1>3. Recherche(d) /\ lot[d] = Aucun /\ examen[d] = Rien /\ generation \in Nat \ {0}
  BY <1>1 DEF Recherches, Types, TCycle, EstCycle, TServeur
<1>4. Gagne
  BY <1>2, GagneMeme DEF serveur
<1>5. CASE Recommence(d)
  <2>1. /\ complet' = [complet EXCEPT ![d] = TRUE] /\ vus' = [vus EXCEPT ![d] = {}]
        /\ curseur' = [curseur EXCEPT ![d] = 0] /\ UNCHANGED <<pc, page>>
    BY <1>5 DEF DemanderPage, JugerMeta
  <2>2. /\ complet'[d] /\ vus'[d] = {} /\ pc'[d] = "tire" /\ genVue'[d] = generation
        /\ TVues' /\ AutresVues(d)
    BY <1>1, <1>2, <1>3, <2>1 DEF Recherches, TVues, AutresVues, VueMeme
  <2>3. VueJuste(d)'
    BY <1>2, <1>3, <2>2 DEF VueJuste, AuFait, serveur
  <2>4. \A i \in Ids : Presente(d, i)' /\ Cherchee(d, i)'
    BY <1>1, <1>3, <2>2 DEF Presente, Cherchee, Aucun
  <2>5. QED
    BY <1>1, <1>4, <2>2, <2>3, <2>4, RecherchesDe DEF Recherche, AutresVues
<1>6. CASE ~Recommence(d)
  <2>1. PICK m : m = vus[d] \cup {i \in Ids : Page(curseur[d]).elements[i] # Rien}
    OBVIOUS
  <2>2. /\ pc' = [pc EXCEPT ![d] = "page"]
        /\ page' = [page EXCEPT ![d] = Page(curseur[d])]
        /\ vus' = [vus EXCEPT ![d] = m]
        /\ UNCHANGED <<complet, curseur>>
    BY <1>6, <2>1 DEF DemanderPage, JugerMeta
  <2>3. /\ pc'[d] = "page" /\ page'[d] = Page(curseur[d]) /\ vus'[d] = m
        /\ genVue'[d] = generation /\ TVues' /\ AutresVues(d)
    BY <1>1, <1>2, <1>3, <2>1, <2>2
       DEF Recherches, TVues, AutresVues, VueMeme, Types, TCycle
  <2>4. VueJuste(d)'
    BY <1>2, <1>3, <2>3 DEF VueJuste, AuFait, serveur
  <2>5. ASSUME NEW i \in Ids
        PROVE  Presente(d, i)' /\ Cherchee(d, i)'
    <3>1. Page(curseur[d]).elements[i] \in {objets[i], Rien} /\ objets'[i] = objets[i]
      BY <1>1, <1>2, <2>3 DEF serveur
    <3>2. Presente(d, i)'
      BY <1>1, <1>3, <2>3, <3>1 DEF Presente, Aucun
    <3>3. ASSUME objets[i] = Rien, Confirmee(d, i)
          PROVE  complet[d] /\ i \notin vus[d]
      <4>1. CASE AuFait(d)
        BY <1>1, <1>3, <3>3, <4>1 DEF Recherche, Cherchee
      <4>2. CASE ~AuFait(d)
        <5>1. genVue[d] # 0
          BY <1>3, <3>3 DEF Recherche, VueJuste, Confirmee
        <5>2. curseur[d] = 0
          BY <1>6, <4>2, <5>1 DEF Recommence, AuFait
        <5>3. QED
          BY <1>1, <1>2, <1>3, <4>2, <5>2 DEF Recherche, VueJuste
      <4>3. QED
        BY <4>1, <4>2
    <3>4. Confirmee(d, i)' <=> Confirmee(d, i)
      BY <1>2 DEF Confirmee
    <3>5. objets[i] = Rien /\ i \notin vus[d] => i \notin m
      BY <2>1, <3>1
    <3>6. Cherchee(d, i)'
      BY <2>2, <2>3, <3>1, <3>3, <3>4, <3>5 DEF Cherchee
    <3>7. QED
      BY <3>2, <3>6
  <2>6. QED
    BY <1>1, <1>4, <2>3, <2>4, <2>5, RecherchesDe DEF Recherche, AutresVues
<1>7. QED
  BY <1>5, <1>6

\* The end of a page does not end a complete pull.
LEMMA RecherchesFinirPage ==
  ASSUME Types, Recherches, NEW d \in Appareils, FinirPage(d)
  PROVE  Recherches'
<1>1. /\ Autres(d) /\ UNCHANGED <<examen, lot>> /\ examen[d] = Rien /\ pc'[d] # "page"
  BY FinirPageTypes
<1>2. /\ pc[d] = "page"
      /\ curseur' = [curseur EXCEPT ![d] = page[d].until]
      /\ UNCHANGED <<connu, genVue, etat, session, serveur>>
  BY DEF FinirPage
<1>3. \/ /\ UNCHANGED <<complet, vus>>
         /\ pc' = [pc EXCEPT ![d] = IF page[d].hasMore THEN "tire" ELSE "absents"]
      \/ /\ ~complet[d] /\ complet' = [complet EXCEPT ![d] = FALSE]
         /\ vus' = [vus EXCEPT ![d] = {}] /\ pc' = [pc EXCEPT ![d] = "pousse"]
  BY DEF FinirPage, TirageFini, OublierTirage
<1>4. Recherche(d) /\ lot[d] = Aucun
  BY <1>2 DEF Recherches, Types, TCycle, EstCycle
<1>5. TVues' /\ AutresVues(d) /\ Gagne
  BY <1>2, <1>3, GagneMeme DEF Recherches, TVues, AutresVues, VueMeme, serveur
<1>6. \/ complet'[d] = complet[d] /\ vus'[d] = vus[d] /\ pc'[d] \in {"tire", "absents"}
      \/ ~complet[d] /\ pc'[d] = "pousse"
  BY <1>3 DEF Types, TCycle
<1>7. /\ genVue[d] # 0 /\ (session[d] => AuFait(d))
      /\ (AuFait(d)' <=> AuFait(d))
  BY <1>2, <1>4 DEF Recherche, VueJuste, AuFait, serveur
<1>8. VueJuste(d)'
  BY <1>2, <1>4, <1>6, <1>7 DEF Recherche, VueJuste, serveur
<1>9. ASSUME NEW i \in Ids
      PROVE  Presente(d, i)' /\ Cherchee(d, i)'
  <2>1. Presente(d, i)'
    BY <1>1, <1>4 DEF Presente, Aucun
  <2>2. Cherchee(d, i) /\ objets'[i] = objets[i] /\ (Confirmee(d, i)' <=> Confirmee(d, i))
    BY <1>2, <1>4 DEF Recherche, serveur, Confirmee
  <2>3. Cherchee(d, i)'
    BY <1>2, <1>6, <1>7, <2>2 DEF Cherchee
  <2>4. QED
    BY <2>1, <2>3
<1>10. QED
  BY <1>1, <1>5, <1>8, <1>9, RecherchesDe DEF Recherche, AutresVues

\* What a complete pull did not show is no longer believed there.
LEMMA RecherchesRepousser ==
  ASSUME Types, Recherches, NEW d \in Appareils, NEW i \in Ids, RepousserAbsent(d, i)
  PROVE  Recherches'
<1>1. /\ UNCHANGED <<pc, page, examen, lot, bases>>
      /\ connu[d][i] # Rien /\ connu'[d][i] = Oublier(connu[d][i])
      /\ Case(connu, connu', d, i)
  BY RepousserTypes
<1>2. /\ pc[d] = "absents" /\ vus' = [vus EXCEPT ![d] = vus[d] \cup {i}]
      /\ UNCHANGED <<curseur, genVue, etat, session, complet, serveur>>
  BY DEF RepousserAbsent
<1>3. vus'[d] = vus[d] \cup {i} /\ TVues' /\ AutresVues(d) /\ Autres(d) /\ Gagne
  BY <1>1, <1>2, GagneMeme
     DEF Recherches, TVues, AutresVues, VueMeme, Autres, Case, serveur
<1>4. Recherche(d) /\ (AuFait(d)' <=> AuFait(d)) /\ genVue[d] # 0
  BY <1>2 DEF Recherches, Recherche, VueJuste, AuFait, serveur
<1>5. VueJuste(d)'
  BY <1>1, <1>2, <1>4 DEF Recherche, VueJuste, AuFait, serveur
<1>6. ~Confirmee(d, i)'
  <2>1. connu[d][i] \in Connu
    BY <1>1 DEF Types, TTables
  <2>2. QED
    BY <1>1, <2>1, OublierEst DEF Confirmee
<1>7. ASSUME NEW j \in Ids
      PROVE  Presente(d, j)' /\ Cherchee(d, j)'
  <2>1. Presente(d, j) /\ Cherchee(d, j) /\ objets'[j] = objets[j]
    BY <1>2, <1>4 DEF Recherche, serveur
  <2>2. Presente(d, j)'
    BY <1>1, <1>4, <2>1 DEF Presente
  <2>3. CASE j = i
    BY <1>6, <2>2, <2>3 DEF Cherchee
  <2>4. CASE j # i
    <3>1. (Confirmee(d, j)' <=> Confirmee(d, j)) /\ (j \in vus'[d] <=> j \in vus[d])
      BY <1>1, <1>3, <2>4 DEF Confirmee, Case
    <3>2. Cherchee(d, j)'
      BY <1>1, <1>2, <1>4, <2>1, <3>1 DEF Cherchee
    <3>3. QED
      BY <2>2, <3>2
  <2>5. QED
    BY <2>3, <2>4
<1>8. QED
  BY <1>3, <1>5, <1>7, RecherchesDe DEF Recherche, AutresVues

LEMMA RecherchesFinirTirage ==
  ASSUME Types, Recherches, NEW d \in Appareils, FinirTirage(d)
  PROVE  Recherches'
<1>1. Autres(d) /\ UNCHANGED <<examen, lot, page>> /\ pc'[d] # "page"
  BY FinirTirageTypes
<1>2. /\ pc[d] = "absents" /\ Absents(d) = {}
      /\ pc' = [pc EXCEPT ![d] = "pousse"]
      /\ complet' = [complet EXCEPT ![d] = FALSE] /\ vus' = [vus EXCEPT ![d] = {}]
      /\ UNCHANGED <<connu, curseur, genVue, etat, session, serveur>>
  BY DEF FinirTirage, TirageFini, OublierTirage, tables
<1>3. pc'[d] = "pousse" /\ TVues' /\ AutresVues(d) /\ Gagne
  BY <1>2, GagneMeme DEF Recherches, TVues, AutresVues, VueMeme, Types, TCycle, serveur
<1>4. /\ Recherche(d) /\ (AuFait(d)' <=> AuFait(d)) /\ lot[d] = Aucun /\ examen[d] = Rien
  BY <1>2 DEF Recherches, AuFait, Types, TCycle, EstCycle, serveur
<1>5. VueJuste(d)'
  BY <1>2, <1>3, <1>4 DEF Recherche, VueJuste, AuFait, serveur
<1>6. ASSUME NEW i \in Ids
      PROVE  Presente(d, i)' /\ Cherchee(d, i)'
  <2>1. Presente(d, i)'
    BY <1>1, <1>4 DEF Presente, Aucun
  <2>2. Cherchee(d, i) /\ objets'[i] = objets[i] /\ (Confirmee(d, i)' <=> Confirmee(d, i))
    BY <1>2, <1>4 DEF Recherche, serveur, Confirmee
  <2>3. Confirmee(d, i) => i \in vus[d]
    BY <1>2 DEF Absents, Confirmee
  <2>4. Cherchee(d, i)'
    BY <1>2, <1>4, <2>2, <2>3 DEF Cherchee
  <2>5. QED
    BY <2>1, <2>4
<1>7. QED
  BY <1>1, <1>3, <1>5, <1>6, RecherchesDe DEF Recherche, AutresVues

LEMMA RecherchesRefuser ==
  ASSUME Types, Recherches, NEW d \in Appareils, Refuser(d)
  PROVE  Recherches'
<1>1. Autres(d) /\ Fini(d)
  BY RefuserTypes
<1>2. /\ ~session[d] /\ pc[d] \in {"tire", "vol"}
      /\ etat' = [etat EXCEPT ![d] = "sessionExpired"]
      /\ complet' = [complet EXCEPT ![d] = FALSE] /\ vus' = [vus EXCEPT ![d] = {}]
      /\ UNCHANGED <<connu, curseur, genVue, session, serveur>>
  BY DEF Refuser, Abandonner, OublierTirage
<1>3. TVues' /\ AutresVues(d) /\ Gagne /\ pc'[d] = "repos"
  BY <1>1, <1>2, GagneMeme DEF Recherches, TVues, AutresVues, VueMeme, Fini, serveur
<1>4. Recherche(d) /\ ~AuFait(d)' /\ ~AuFait(d)
  BY <1>2 DEF Recherches, Recherche, VueJuste, AuFait, serveur
<1>5. VueJuste(d)'
  BY <1>2, <1>3, <1>4 DEF Recherche, VueJuste, serveur
<1>6. \A i \in Ids : Presente(d, i)' /\ Cherchee(d, i)'
  BY <1>4 DEF Presente, Cherchee
<1>7. QED
  BY <1>1, <1>3, <1>5, <1>6, RecherchesDe DEF Recherche, AutresVues

LEMMA RecherchesConnecter ==
  ASSUME Types, Recherches, NEW d \in Appareils, Connecter(d)
  PROVE  Recherches'
<1>1. /\ pc[d] = "repos" /\ session' = [session EXCEPT ![d] = TRUE]
      /\ UNCHANGED <<connu, curseur, genVue, etat, pc, page, examen, lot, bases,
                     complet, vus, serveur>>
  BY DEF Connecter, tables, cycle
<1>2. TVues' /\ AutresVues(d) /\ Autres(d) /\ Gagne /\ session'[d]
  BY <1>1, GagneMeme DEF Recherches, TVues, AutresVues, VueMeme, Autres, serveur
<1>3. Recherche(d)
  BY DEF Recherches
<1>4. VueJuste(d)'
  BY <1>1, <1>2, <1>3 DEF Recherche, VueJuste, AuFait, serveur
<1>5. \A i \in Ids : Presente(d, i)' /\ Cherchee(d, i)'
  BY <1>1, <1>3 DEF Recherche, Presente, Cherchee, AuFait, Confirmee, serveur
<1>6. QED
  BY <1>2, <1>4, <1>5, RecherchesDe DEF Recherche, AutresVues

\* An interruption of a complete pull once it has written a cursor, before it has
\* looked for what it did not show.
Coupure ==
  \E d \in Appareils, arrivera \in BOOLEAN :
    Interrompre(d, arrivera) /\ complet[d] /\ curseur[d] # 0

LEMMA RecherchesInterrompre ==
  ASSUME Types, Recherches, NEW d \in Appareils, NEW arrivera \in BOOLEAN,
         Interrompre(d, arrivera), ~Coupure
  PROVE  Recherches'
<1>1. Autres(d) /\ Fini(d)
  BY InterrompreTypes
<1>2. /\ pc[d] # "repos"
      /\ etat' = [etat EXCEPT ![d] = "offline"]
      /\ complet' = [complet EXCEPT ![d] = FALSE] /\ vus' = [vus EXCEPT ![d] = {}]
      /\ UNCHANGED <<connu, curseur, genVue, session, serveur>>
  BY DEF Interrompre, Abandonner, OublierTirage
<1>3. /\ TVues' /\ AutresVues(d) /\ Gagne
      /\ etat'[d] = "offline" /\ pc'[d] = "repos" /\ examen'[d] = Rien /\ lot'[d] = Aucun
  BY <1>1, <1>2, GagneMeme DEF Recherches, TVues, AutresVues, VueMeme, Fini, serveur
<1>4. Recherche(d) /\ (AuFait(d)' <=> AuFait(d))
  BY <1>2 DEF Recherches, AuFait, serveur
<1>5. VueJuste(d)'
  BY <1>2, <1>3, <1>4 DEF Recherche, VueJuste, AuFait, serveur
<1>6. complet[d] => curseur[d] = 0
  BY DEF Coupure
<1>7. ASSUME NEW i \in Ids
      PROVE  Presente(d, i)' /\ Cherchee(d, i)'
  <2>1. Presente(d, i)'
    BY <1>3 DEF Presente, Aucun
  <2>2. Cherchee(d, i) /\ objets'[i] = objets[i] /\ (Confirmee(d, i)' <=> Confirmee(d, i))
    BY <1>2, <1>4 DEF Recherche, serveur, Confirmee
  <2>3. Cherchee(d, i)'
    BY <1>2, <1>3, <1>4, <1>6, <2>2 DEF Cherchee
  <2>4. QED
    BY <2>1, <2>3
<1>8. QED
  BY <1>1, <1>3, <1>5, <1>7, RecherchesDe DEF Recherche, AutresVues

\* A restoration leaves every device behind the generation, and without a session.
LEMMA RecherchesRestaurer ==
  ASSUME Types, Recherches, Restaurer
  PROVE  Recherches'
<1>1. /\ generation' = generation + 1 /\ session' = [d \in Appareils |-> FALSE]
      /\ UNCHANGED <<connu, curseur, genVue, etat, pc, complet, vus>>
  BY DEF Restaurer, tables, cycle
<1>2. TVues' /\ generation \in Nat \ {0}
  BY <1>1 DEF Recherches, TVues, Types, TServeur
<1>3. ASSUME NEW d \in Appareils
      PROVE  Recherche(d)'
  <2>1. Recherche(d) /\ genVue[d] \in Nat
    BY DEF Recherches, TVues
  <2>2. ~AuFait(d)' /\ ~session'[d]
    BY <1>1, <1>2, <2>1 DEF Recherche, VueJuste, AuFait
  <2>3. VueJuste(d)'
    BY <1>1, <1>2, <2>1, <2>2 DEF Recherche, VueJuste
  <2>4. QED
    BY <2>2, <2>3 DEF Recherche, Presente, Cherchee
<1>4. QED
  BY <1>2, <1>3 DEF Recherches

LEMMA RecherchesAilleurs ==
  ASSUME Types, Recherches,
         \/ Utilisateur \/ Avancer \/ Sauvegarder \/ UNCHANGED vars
         \/ \E l \in errantes : ServirErrante(l)
  PROVE  Recherches'
<1>1. CASE Utilisateur \/ Avancer \/ Sauvegarder \/ UNCHANGED vars
  <2>1. UNCHANGED <<tables, session, cycle, objets, generation>>
    <3>1. ASSUME NEW d \in Appareils, NEW i \in Ids, NEW k \in Messages,
                 Creer(d, i, k) \/ Ecrire(d, i, k)
          PROVE  UNCHANGED <<tables, session, cycle, serveur>>
      <4>1. CASE Creer(d, i, k)
        BY <4>1 DEF Creer
      <4>2. CASE Ecrire(d, i, k)
        BY <4>2 DEF Ecrire
      <4>3. QED
        BY <3>1, <4>1, <4>2
    <3>2. ASSUME NEW d \in Appareils, NEW i \in Ids, Supprimer(d, i) \/ Purger(d, i)
          PROVE  UNCHANGED <<tables, session, cycle, serveur>>
      BY <3>2 DEF Supprimer, Purger
    <3>3. CASE Utilisateur
      BY <3>1, <3>2, <3>3 DEF Utilisateur, serveur
    <3>4. CASE Avancer
      BY <3>4 DEF Avancer, serveur
    <3>5. CASE Sauvegarder
      BY <3>5 DEF Sauvegarder
    <3>6. CASE UNCHANGED vars
      BY <3>6 DEF vars, serveur
    <3>7. QED
      BY <1>1, <3>3, <3>4, <3>5, <3>6
  <2>2. UNCHANGED <<connu, genVue, session, curseur, etat, complet, vus, pc, page,
                    examen, lot>> /\ Gagne
    BY <2>1, GagneMeme DEF tables, cycle
  <2>3. QED
    BY <2>2, RecherchesPassives
<1>2. ASSUME NEW l \in errantes, ServirErrante(l)
      PROVE  Recherches'
  <2>1. Servi(l) /\ UNCHANGED <<tables, session, cycle, generation>>
    BY <1>2, ErranteTypes DEF ServirErrante
  <2>2. Gagne
    BY <2>1, ServiGagne
  <2>3. UNCHANGED <<connu, genVue, session, curseur, etat, complet, vus, pc, page,
                    examen, lot>>
    BY <2>1 DEF tables, cycle
  <2>4. QED
    BY <2>2, <2>3, RecherchesPassives
<1>3. QED
  BY <1>1, <1>2

LEMMA RecherchesNext ==
  ASSUME Types, Recherches, [Next]_vars, ~Coupure
  PROVE  Recherches'
<1>1. ASSUME NEW d \in Appareils, Etape(d)
      PROVE  Recherches'
  BY <1>1, RecherchesCommencer, RecherchesDemander, RecherchesFinirPage,
     RecherchesFinirTirage, RecherchesPreparer, RecherchesServir, RecherchesFinirLot,
     RecherchesConclure, RecherchesRefuser, RecherchesConnecter, RecherchesExaminer,
     RecherchesRepousser, RecherchesStockee, RecherchesConflit, RecherchesExamen
     DEF Etape, Accueillir
<1>2. CASE Pannes
  BY <1>2, RecherchesInterrompre, RecherchesRestaurer, RecherchesAilleurs DEF Pannes
<1>3. CASE Utilisateur \/ Avancer \/ UNCHANGED vars
  BY <1>3, RecherchesAilleurs
<1>4. QED
  BY <1>1, <1>2, <1>3 DEF Next

LEMMA RecherchesInit == Init => Suivies /\ Recherches
<1>1. SUFFICES ASSUME Init
               PROVE  Suivies /\ Recherches
  OBVIOUS
<1>2. {i \in Ids : Aucun[i] # Rien} = {}
  BY DEF Aucun
<1>3. Cardinality({i \in Ids : Aucun[i] # Rien}) = 0
  BY <1>2, FS_EmptySet
<1>4. /\ locale = [d \in Appareils |-> Aucun]
      /\ connu = [d \in Appareils |-> [i \in Ids |-> Rien]]
      /\ curseur = [d \in Appareils |-> 0] /\ genVue = [d \in Appareils |-> 0]
      /\ etat = [d \in Appareils |-> "pending"] /\ vus = [d \in Appareils |-> {}]
      /\ session = [d \in Appareils |-> TRUE] /\ pc = [d \in Appareils |-> "repos"]
      /\ complet = [d \in Appareils |-> FALSE] /\ generation = 1
  BY <1>1, <1>2, <1>3 DEF Init, Depart
<1>5. Suivies
  BY <1>4 DEF Suivies, Suivie, Aucun
<1>6. TVues
  BY <1>4 DEF TVues
<1>7. ASSUME NEW d \in Appareils
      PROVE  Recherche(d)
  <2>1. VueJuste(d) /\ ~AuFait(d)
    BY <1>4 DEF VueJuste, AuFait
  <2>2. QED
    BY <2>1 DEF Recherche, Presente, Cherchee
<1>8. QED
  BY <1>5, <1>6, <1>7 DEF Recherches

\* RienNeManque for every account, whatever clocks, losses, deaths and restorations:
\* a device that is synchronised with the server as it was restored holds no row the
\* server lacks, provided no interruption falls between the first cursor a complete
\* pull writes and the end of its search for what it did not show (synchro.py, _tirer
\* and _absents).
THEOREM NothingMissing == Spec /\ [][~Coupure]_vars => []RienNeManque
<1>1. Init => Types /\ Suivies /\ Recherches
  BY TypesInit, RecherchesInit
<1>2. /\ Types /\ Suivies /\ Recherches /\ [Next]_vars /\ [~Coupure]_vars
      => (Types /\ Suivies /\ Recherches)'
  <2>1. SUFFICES ASSUME Types, Suivies, Recherches, [Next]_vars, [~Coupure]_vars
                 PROVE  (Types /\ Suivies /\ Recherches)'
    OBVIOUS
  <2>2. CASE UNCHANGED vars
    <3>1. UNCHANGED <<magasin, tables, cycle, serveur, errantes, maintenant, neuves>>
      BY <2>2 DEF vars, autour
    <3>2. TMagasin' /\ Grandit
      BY <2>1, <3>1, TypesMeme
    <3>3. Types'
      BY <2>1, <3>1, <3>2, TTablesMeme, TCycleMeme, TServeurMeme
         DEF Types, tables, cycle
    <3>4. Suivies'
      BY <2>1, <3>1, SuiviesMemes DEF magasin, tables
    <3>5. Recherches'
      BY <2>1, <2>2, RecherchesAilleurs
    <3>6. QED
      BY <3>3, <3>4, <3>5
  <2>3. CASE Next /\ ~UNCHANGED vars
    BY <2>1, <2>3, TypesNext, SuiviesNext, RecherchesNext
  <2>4. QED
    BY <2>1, <2>2, <2>3
<1>3. Types /\ Suivies /\ Recherches => RienNeManque
  BY DEF Suivies, Suivie, Recherches, Recherche, Cherchee, AuFait, RienNeManque,
     Synchronisee
<1>4. QED
  BY <1>1, <1>2, <1>3, PTL DEF Spec
====
