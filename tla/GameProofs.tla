----------------------------- MODULE GameProofs -----------------------------
(***************************************************************************)
(* Proofs about the game schedule and the page it is reviewed on.  For any *)
(* leagues: the circle method lets every two teams meet once; the maps     *)
(* that scheduleGames decides by say what the games placed so far say, so  *)
(* the schedule is sound, no matchup is left out that would still fit, and *)
(* shared slots are spread.  For any number of tabs, calls and teams       *)
(* deleted: the run on show is whole, a rollback restores, and what a tab  *)
(* generates can be played.  Both parts cite LeagueAssumption, the second  *)
(* also ReviewAssumption.                                                  *)
(***************************************************************************)
EXTENDS GameReview, FiniteSetTheorems, WellFoundedInduction, SequenceTheorems, TLAPS

-----------------------------------------------------------------------------
(* Least elements of finite sets.                                           *)

HasMinimal(F) == \E x \in F : \A y \in F : y \subseteq x => y = x

\* A set of subsets of a finite set has one that contains no other.
LEMMA MinimalMember ==
    ASSUME NEW S, IsFiniteSet(S), NEW F \in SUBSET SUBSET S, F # {}
    PROVE  HasMinimal(F)
<1>1. F \subseteq FiniteSubsetsOf(S)
  BY FS_FiniteSubsetsOfFinite
<1>2. \E x \in F : \A y \in F : ~(<<y, x>> \in StrictSubsetOrdering(S))
  BY <1>1, FS_StrictSubsetOrderingWellFounded, WFMin
<1>. QED  BY <1>2 DEF StrictSubsetOrdering, HasMinimal

Ordered(S, R) ==
    /\ \A x \in S : <<x, x>> \notin R
    /\ \A x, y, z \in S : <<x, y>> \in R /\ <<y, z>> \in R => <<x, z>> \in R
    /\ \A x, y \in S : x = y \/ <<x, y>> \in R \/ <<y, x>> \in R

HasLeast(S, R) == \E x \in S : \A y \in S \ {x} : <<x, y>> \in R

\* In a finite set that is ordered by the pairs of R some element is below
\* all others: the one with fewest elements below it.
LEMMA LeastOfOrder ==
    ASSUME NEW S, IsFiniteSet(S), S # {}, NEW R, Ordered(S, R)
    PROVE  HasLeast(S, R)
<1> DEFINE below(x) == {y \in S : <<y, x>> \in R}
           F == {below(x) : x \in S}
<1>1. F \in SUBSET SUBSET S /\ F # {}
  <2>1. \A x \in S : below(x) \in SUBSET S
    OBVIOUS
  <2>2. PICK x \in S : TRUE
    OBVIOUS
  <2>. HIDE DEF below
  <2>. QED  BY <2>1, <2>2
<1>2. HasMinimal(F)
  <2>. HIDE DEF F
  <2>. QED  BY <1>1, MinimalMember
<1>3. PICK x \in S : \A y \in S : below(y) \subseteq below(x) => below(y) = below(x)
  <2>. HIDE DEF below
  <2>. QED  BY <1>2 DEF HasMinimal
<1>4. ASSUME NEW y \in below(x) PROVE FALSE
  <2>1. y \in S /\ below(y) \subseteq below(x) /\ y \notin below(y)
    BY <1>3, <1>4 DEF Ordered
  <2>2. below(y) # below(x)
    BY <1>4, <2>1
  <2>. QED  BY <1>3, <2>1, <2>2
<1>. QED  BY <1>3, <1>4 DEF Ordered, HasLeast

\* A set of numbers has a least one: that whose initial segment is minimal.
LEMMA LeastNumber ==
    ASSUME NEW T, T \subseteq Nat, T # {}
    PROVE  \E x \in T : \A y \in T : x <= y
<1>1. PICK n \in T : n \in Nat
  OBVIOUS
<1> DEFINE F == {0 .. k : k \in T \cap (0 .. n)}
<1>2. IsFiniteSet(0 .. n)
  BY <1>1, FS_Interval
<1>3. F \subseteq SUBSET (0 .. n)
  BY <1>1
<1>4. F # {}
  <2>1. 0 .. n \in F
    BY <1>1
  <2>. QED  BY <2>1
<1>5. HasMinimal(F)
  <2>. HIDE DEF F
  <2>. QED  BY <1>2, <1>3, <1>4, MinimalMember
<1>6. PICK k \in T \cap (0 .. n) : \A y \in F : y \subseteq 0 .. k => y = 0 .. k
  BY <1>5 DEF HasMinimal
<1>7. ASSUME NEW y \in T, y < k PROVE FALSE
  <2>1. y \in 0 .. n /\ k \in Nat /\ y \in Nat
    BY <1>1, <1>6, <1>7
  <2>2. 0 .. y \in F
    BY <2>1
  <2>3. 0 .. y \subseteq 0 .. k
    BY <1>7, <2>1
  <2>4. 0 .. y = 0 .. k
    BY <1>6, <2>2, <2>3
  <2>5. k \in 0 .. y
    BY <2>1, <2>4
  <2>. QED  BY <1>7, <2>1, <2>5
<1>. QED  BY <1>1, <1>6, <1>7

LEMMA GreatestNumber ==
    ASSUME NEW n \in Nat, NEW T \in SUBSET (1 .. n), T # {}
    PROVE  \E x \in T : \A y \in T : y <= x
<1> DEFINE R == {p \in (1 .. n) \X (1 .. n) : p[1] > p[2]}
<1>1. IsFiniteSet(T)
  <2>1. IsFiniteSet(1 .. n)
    BY FS_Interval
  <2>. QED  BY <2>1, FS_Subset
<1>2. \A x, y \in T : <<x, y>> \in R <=> x > y
  OBVIOUS
<1>. HIDE DEF R
<1>3. \A x \in T : <<x, x>> \notin R
  BY <1>2
<1>4. \A x, y, z \in T : <<x, y>> \in R /\ <<y, z>> \in R => <<x, z>> \in R
  BY <1>2
<1>5. \A x, y \in T : x = y \/ <<x, y>> \in R \/ <<y, x>> \in R
  <2>1. SUFFICES ASSUME NEW x \in T, NEW y \in T, x # y
                 PROVE  <<x, y>> \in R \/ <<y, x>> \in R
    OBVIOUS
  <2>2. x \in Int /\ y \in Int
    OBVIOUS
  <2>3. x > y \/ y > x
    BY <2>1, <2>2
  <2>. QED  BY <1>2, <2>3
<1>6. HasLeast(T, R)
  <2>1. Ordered(T, R)
    BY <1>3, <1>4, <1>5 DEF Ordered
  <2>. QED  BY <1>1, <2>1, LeastOfOrder
<1>7. PICK x \in T : \A y \in T \ {x} : <<x, y>> \in R
  BY <1>6 DEF HasLeast
<1>8. ASSUME NEW y \in T PROVE y <= x
  <2>1. x \in Int /\ y \in Int
    OBVIOUS
  <2>2. x = y \/ <<x, y>> \in R
    BY <1>7
  <2>. QED  BY <1>2, <2>1, <2>2
<1>. QED  BY <1>8

\* Lists of numbers of one length are ordered by Lexically.
LEMMA LexicallyOrders ==
    ASSUME NEW n \in Nat, NEW a \in [1 .. n -> Int], NEW b \in [1 .. n -> Int]
    PROVE  /\ ~Lexically(a, a)
           /\ a = b \/ Lexically(a, b) \/ Lexically(b, a)
<1>1. ~Lexically(a, a)
  BY DEF Lexically
<1>2. ASSUME a # b PROVE Lexically(a, b) \/ Lexically(b, a)
  <2> DEFINE T == {i \in 1 .. n : a[i] # b[i]}
  <2>1. T # {} /\ T \subseteq Nat
    BY <1>2
  <2>2. PICK i \in T : \A h \in T : i <= h
    <3>. HIDE DEF T
    <3>. QED  BY <2>1, LeastNumber
  <2>3. \A h \in 1 .. i - 1 : h \in 1 .. n /\ h \notin T
    BY <2>2
  <2>. QED  BY <2>2, <2>3 DEF Lexically
<1>. QED  BY <1>1, <1>2

LEMMA LexicallyTransitive ==
    ASSUME NEW n \in Nat, NEW a \in [1 .. n -> Int], NEW b \in [1 .. n -> Int],
           NEW c \in [1 .. n -> Int], Lexically(a, b), Lexically(b, c)
    PROVE  Lexically(a, c)
<1>1. PICK i \in 1 .. n : a[i] < b[i] /\ \A h \in 1 .. i - 1 : a[h] = b[h]
  BY DEF Lexically
<1>2. PICK j \in 1 .. n : b[j] < c[j] /\ \A h \in 1 .. j - 1 : b[h] = c[h]
  BY DEF Lexically
<1>3. CASE i <= j
  <2>1. a[i] < c[i]
    <3>1. CASE i = j  BY <1>1, <1>2, <3>1
    <3>2. CASE i < j  BY <1>1, <1>2, <3>2
    <3>. QED  BY <1>3, <3>1, <3>2
  <2>2. \A h \in 1 .. i - 1 : h \in 1 .. j - 1 /\ a[h] = c[h]
    BY <1>1, <1>2, <1>3
  <2>. QED  BY <2>1, <2>2 DEF Lexically
<1>4. CASE j < i
  <2>1. a[j] < c[j]
    BY <1>1, <1>2, <1>4
  <2>2. \A h \in 1 .. j - 1 : h \in 1 .. i - 1 /\ a[h] = c[h]
    BY <1>1, <1>2, <1>4
  <2>. QED  BY <2>1, <2>2 DEF Lexically
<1>. QED  BY <1>3, <1>4

LEMMA LexicallyLeast ==
    ASSUME NEW S, IsFiniteSet(S), S # {}, NEW n \in Nat, NEW f \in [S -> [1 .. n -> Int]],
           \A x, y \in S : f[x] = f[y] => x = y
    PROVE  \E x \in S : \A y \in S \ {x} : Lexically(f[x], f[y])
<1> DEFINE R == {p \in S \X S : Lexically(f[p[1]], f[p[2]])}
<1>1. \A x, y \in S : <<x, y>> \in R <=> Lexically(f[x], f[y])
  OBVIOUS
<1>. HIDE DEF R
<1>2. \A x \in S : <<x, x>> \notin R
  BY <1>1, LexicallyOrders
<1>3. \A x, y, z \in S : <<x, y>> \in R /\ <<y, z>> \in R => <<x, z>> \in R
  BY <1>1, LexicallyTransitive
<1>4. \A x, y \in S : x = y \/ <<x, y>> \in R \/ <<y, x>> \in R
  BY <1>1, LexicallyOrders
<1>5. HasLeast(S, R)
  <2>1. Ordered(S, R)
    BY <1>2, <1>3, <1>4 DEF Ordered
  <2>. QED  BY <2>1, LeastOfOrder
<1>. QED  BY <1>1, <1>5 DEF HasLeast

-----------------------------------------------------------------------------
(* What scheduleGames keeps between matchups, for a league l, its matchups  *)
(* ms and tables b.                                                         *)

Reasons ==
    {"none", "unknown-team", "division-mismatch", "duplicate-matchup",
     "coach-coaches-both-teams", "coach-scheduling-conflict", "no-slot-available"}

Fates(l) == [slot : {0} \cup DOMAIN l.slot, reason : Reasons]

Fields(l) == {l.slot[s].field : s \in DOMAIN l.slot}

Likings(l) == [counts : [Minutes(l) -> Nat], preferred : Minutes(l) \cup {NoLiking}]

Tables(l) ==
    [fate    : Seq(Fates(l)),
     room    : [DOMAIN l.slot -> Nat],
     playing : SUBSET ((DOMAIN l.team) \X Nat),
     book    : [Coaches(l) -> SUBSET DOMAIN l.slot],
     used    : [DOMAIN l.slot -> [Divisions(l) -> Nat]],
     onField : [Fields(l) -> [Divisions(l) -> Nat]],
     liking  : [DOMAIN l.team -> Likings(l)]]

LEMMA LeagueFacts ==
    ASSUME NEW l, IsLeague(l)
    PROVE  /\ DOMAIN l.team \subseteq Nat \ {0}
           /\ DOMAIN l.slot \subseteq Nat \ {0}
           /\ IsFiniteSet(DOMAIN l.slot)
           /\ \A s \in DOMAIN l.slot :
                  /\ l.slot[s].start \in Int /\ l.slot[s].end \in Int
                  /\ l.slot[s].field \in Int /\ l.slot[s].priority \in Int
                  /\ l.slot[s].start < l.slot[s].end
                  /\ l.slot[s].capacity \in Nat
                  /\ l.slot[s].week \in Nat \ {0}
                  /\ l.slot[s].start % Day \in Minutes(l)
           /\ \A k \in Minutes(l) : k \in Nat /\ k # NoLiking
<1>1. \A s \in DOMAIN l.slot :
          /\ l.slot[s].start \in Int /\ l.slot[s].end \in Int /\ l.slot[s].field \in Int
          /\ l.slot[s].priority \in Int
          /\ l.slot[s].start < l.slot[s].end
          /\ l.slot[s].capacity \in Nat
          /\ l.slot[s].week \in Nat \ {0}
  BY DEF IsLeague
<1>2. \A a \in Int : a % Day \in Nat
  <2>1. Day \in Nat \ {0}
    BY LeagueAssumption
  <2>. QED  BY <2>1
<1>3. \A k \in Minutes(l) : k \in Nat /\ k # NoLiking
  <2>1. \A k \in Minutes(l) : k \in Nat
    BY <1>1, <1>2 DEF Minutes
  <2>. QED  BY <2>1 DEF NoLiking
<1>4. \A s \in DOMAIN l.slot : l.slot[s].start % Day \in Minutes(l)
  BY DEF Minutes
<1>. QED  BY <1>1, <1>3, <1>4 DEF IsLeague

Listed(p, x, a, b, c, d) == <<p>> \o x \o <<a, b, c, d>>

LEMMA ListedParts ==
    ASSUME NEW p \in Int, NEW x \in Seq(Int), NEW a \in Int, NEW b \in Int, NEW c \in Int,
           NEW d \in Int
    PROVE  /\ Listed(p, x, a, b, c, d) \in [1 .. Len(x) + 5 -> Int]
           /\ Listed(p, x, a, b, c, d)[1] = p
           /\ \A i \in 1 .. Len(x) : Listed(p, x, a, b, c, d)[i + 1] = x[i]
           /\ Listed(p, x, a, b, c, d)[Len(x) + 5] = d
<1> DEFINE y == <<a, b, c, d>>
           z == <<p>> \o x
           r == z \o y
<1>1. <<p>> \in Seq(Int) /\ Len(<<p>>) = 1 /\ <<p>>[1] = p
  OBVIOUS
<1>2. y \in Seq(Int) /\ Len(y) = 4 /\ y[4] = d
  OBVIOUS
<1>3. z \in Seq(Int) /\ Len(z) = Len(x) + 1 /\ z[1] = p /\ \A i \in 1 .. Len(x) : z[i + 1] = x[i]
  BY <1>1, ConcatProperties
<1>4. Len(x) \in Nat
  OBVIOUS
<1>5. Listed(p, x, a, b, c, d) = r
  BY DEF Listed
<1>. HIDE DEF y, z
<1>6. /\ r \in Seq(Int) /\ Len(r) = Len(z) + Len(y)
      /\ \A i \in 1 .. Len(z) + Len(y) : r[i] = IF i <= Len(z) THEN z[i] ELSE y[i - Len(z)]
  BY <1>2, <1>3, ConcatProperties
<1>. HIDE DEF r
<1>7. r \in [1 .. Len(x) + 5 -> Int]
  <2>1. r \in [1 .. Len(r) -> Int]
    BY <1>6, LenProperties
  <2>. QED  BY <1>2, <1>3, <1>4, <1>6, <2>1
<1>8. r[1] = p /\ \A i \in 1 .. Len(x) : r[i + 1] = x[i]
  <2>1. \A i \in 1 .. Len(z) : r[i] = z[i]
    BY <1>2, <1>3, <1>4, <1>6
  <2>2. 1 \in 1 .. Len(z) /\ \A i \in 1 .. Len(x) : i + 1 \in 1 .. Len(z)
    BY <1>3, <1>4
  <2>. QED  BY <1>3, <2>1, <2>2
<1>9. r[Len(x) + 5] = d
  <2>1. Len(x) + 5 \in 1 .. Len(z) + Len(y) /\ ~(Len(x) + 5 <= Len(z)) /\ Len(x) + 5 - Len(z) = 4
    BY <1>2, <1>3, <1>4
  <2>. QED  BY <1>2, <1>6, <2>1
<1>. QED  BY <1>5, <1>7, <1>8, <1>9

\* Slots are ranked by priority, and shared ones then by their use.
LEMMA RankFacts ==
    ASSUME NEW l, IsLeague(l), NEW b \in Tables(l), NEW m, m.division \in Divisions(l),
           NEW s \in DOMAIN l.slot
    PROVE  LET n == IF l.slot[s].division = Shared THEN 7 ELSE 5
           IN  /\ Rank(l, b, m, s) \in [1 .. n -> Int]
               /\ Rank(l, b, m, s)[1] = -l.slot[s].priority
               /\ l.slot[s].division = Shared => Rank(l, b, m, s)[2] = b.used[s][m.division]
               /\ Rank(l, b, m, s)[n] = s
<1> DEFINE x == IF l.slot[s].division = Shared
                THEN <<b.used[s][m.division], b.onField[l.slot[s].field][m.division]>> ELSE <<>>
<1>1. Score(l, b, m, s) \in Nat
  <2>1. IsFiniteSet({m.home, m.away})
    <3>1. IsFiniteSet({m.home}) /\ IsFiniteSet({m.away})
      BY FS_Singleton
    <3>2. {m.home, m.away} = {m.home} \cup {m.away}
      OBVIOUS
    <3>. QED  BY <3>1, <3>2, FS_Union
  <2>2. {t \in Pair(m) : b.liking[t].preferred = l.slot[s].start % Day} \in SUBSET {m.home, m.away}
    BY DEF Pair
  <2>. QED  BY <2>1, <2>2, FS_Subset, FS_CardinalityType DEF Score
<1>2. b.used[s][m.division] \in Int /\ b.onField[l.slot[s].field][m.division] \in Int
  <2>1. l.slot[s].field \in Fields(l)
    BY DEF Fields
  <2>. QED  BY <2>1 DEF Tables
<1>3. /\ x \in Seq(Int)
      /\ Len(x) = IF l.slot[s].division = Shared THEN 2 ELSE 0
      /\ l.slot[s].division = Shared => x[1] = b.used[s][m.division]
  BY <1>2
<1>4. /\ -l.slot[s].priority \in Int /\ -Score(l, b, m, s) \in Int /\ l.slot[s].start \in Int
      /\ l.slot[s].field \in Int /\ s \in Int
  BY <1>1, LeagueFacts
<1>5. Rank(l, b, m, s)
        = <<-l.slot[s].priority>> \o x
              \o <<-Score(l, b, m, s), l.slot[s].start, l.slot[s].field, s>>
  BY DEF Rank
<1>. HIDE DEF x
<1> DEFINE r == Rank(l, b, m, s)
<1>6. /\ r \in [1 .. Len(x) + 5 -> Int]
      /\ r[1] = -l.slot[s].priority
      /\ \A i \in 1 .. Len(x) : r[i + 1] = x[i]
      /\ r[Len(x) + 5] = s
  <2> DEFINE p == -l.slot[s].priority
             a == -Score(l, b, m, s)
             c == l.slot[s].start
             e == l.slot[s].field
  <2>1. p \in Int /\ a \in Int /\ c \in Int /\ e \in Int /\ s \in Int
    BY <1>4
  <2>2. r = Listed(p, x, a, c, e, s)
    BY <1>5 DEF Listed
  <2>. HIDE DEF p, a, c, e, r
  <2>3. x \in Seq(Int)
    BY <1>3
  <2>4. /\ Listed(p, x, a, c, e, s) \in [1 .. Len(x) + 5 -> Int]
        /\ Listed(p, x, a, c, e, s)[1] = p
        /\ \A i \in 1 .. Len(x) : Listed(p, x, a, c, e, s)[i + 1] = x[i]
        /\ Listed(p, x, a, c, e, s)[Len(x) + 5] = s
    BY ONLY <2>1, <2>3, ListedParts
  <2>. QED  BY <2>2, <2>4 DEF p
<1>. HIDE DEF r
<1>7. CASE l.slot[s].division = Shared
  <2>1. Len(x) + 5 = 7 /\ 1 \in 1 .. Len(x) /\ 1 + 1 = 2
    BY <1>3, <1>7
  <2>2. r[2] = b.used[s][m.division]
    BY <1>3, <1>6, <1>7, <2>1
  <2>. QED  BY <1>6, <1>7, <2>1, <2>2 DEF r
<1>8. CASE l.slot[s].division # Shared
  <2>1. Len(x) + 5 = 5
    BY <1>3, <1>8
  <2>. QED  BY <1>6, <1>8, <2>1 DEF r
<1>. QED  BY <1>7, <1>8

\* The best of some slots of one division is one of them, of the highest
\* priority there is among them, and of those the least used if shared.
LEMMA BestFacts ==
    ASSUME NEW l, IsLeague(l), NEW b \in Tables(l), NEW m, m.division \in Divisions(l),
           NEW d, NEW slots \in SUBSET OfWeek(l, m, d), slots # {}
    PROVE  LET s == Best(l, b, m, slots)
           IN  /\ s \in slots
               /\ \A r \in slots : l.slot[r].priority <= l.slot[s].priority
               /\ \A r \in slots : d = Shared /\ l.slot[r].priority = l.slot[s].priority
                                      => b.used[s][m.division] <= b.used[r][m.division]
<1> DEFINE n == IF d = Shared THEN 7 ELSE 5
           f == [s \in slots |-> Rank(l, b, m, s)]
           s == Best(l, b, m, slots)
<1>1. slots \subseteq DOMAIN l.slot /\ \A r \in slots : l.slot[r].division = d
  BY DEF OfWeek
<1>2. IsFiniteSet(slots) /\ n \in Nat /\ 1 \in 1 .. n
  BY <1>1, LeagueFacts, FS_Subset
<1>3. \A r \in slots : /\ Rank(l, b, m, r) \in [1 .. n -> Int]
                       /\ Rank(l, b, m, r)[1] = -l.slot[r].priority
                       /\ d = Shared => Rank(l, b, m, r)[2] = b.used[r][m.division]
                       /\ Rank(l, b, m, r)[n] = r
  BY <1>1, RankFacts
<1>. HIDE DEF n
<1>4. f \in [slots -> [1 .. n -> Int]] /\ \A x, y \in slots : f[x] = f[y] => x = y
  BY <1>3
<1>5. \E x \in slots : \A y \in slots \ {x} : Lexically(f[x], f[y])
  <2>. HIDE DEF f
  <2>. QED  BY <1>2, <1>4, LexicallyLeast
<1>6. \E x \in slots : \A y \in slots \ {x} : Lexically(Rank(l, b, m, x), Rank(l, b, m, y))
  BY <1>5
<1>7. s \in slots /\ \A r \in slots \ {s} : Lexically(Rank(l, b, m, s), Rank(l, b, m, r))
  BY <1>6 DEF Best
<1>. HIDE DEF s
<1>8. ASSUME NEW r \in slots
      PROVE  /\ l.slot[r].priority <= l.slot[s].priority
             /\ d = Shared /\ l.slot[r].priority = l.slot[s].priority
                   => b.used[s][m.division] <= b.used[r][m.division]
  <2>1. l.slot[r].priority \in Int /\ l.slot[s].priority \in Int
    BY <1>1, <1>7, LeagueFacts
  <2>2. b.used[s][m.division] \in Nat /\ b.used[r][m.division] \in Nat
    BY <1>1, <1>7 DEF Tables
  <2>3. CASE r = s
    BY <2>1, <2>2, <2>3
  <2>4. CASE r # s
    <3>1. PICK i \in 1 .. n : /\ Rank(l, b, m, s)[i] < Rank(l, b, m, r)[i]
                              /\ \A h \in 1 .. i - 1 : Rank(l, b, m, s)[h] = Rank(l, b, m, r)[h]
      BY <1>3, <1>7, <2>4 DEF Lexically
    <3>2. CASE i = 1
      <4>1. -l.slot[s].priority < -l.slot[r].priority
        BY <1>3, <1>7, <3>1, <3>2
      <4>. QED  BY <2>1, <4>1
    <3>3. CASE i # 1
      <4>1. -l.slot[s].priority = -l.slot[r].priority
        <5>1. 1 \in 1 .. i - 1
          BY <1>2, <3>3
        <5>. QED  BY <1>3, <1>7, <3>1, <5>1
      <4>2. ASSUME d = Shared PROVE b.used[s][m.division] <= b.used[r][m.division]
        <5>1. i = 2 \/ 2 \in 1 .. i - 1
          BY <1>2, <3>3
        <5>2. Rank(l, b, m, s)[2] <= Rank(l, b, m, r)[2]
          <6>1. Rank(l, b, m, s)[2] \in Nat /\ Rank(l, b, m, r)[2] \in Nat
            BY <1>3, <1>7, <2>2, <4>2
          <6>. QED  BY <3>1, <5>1, <6>1
        <5>. QED  BY <1>3, <1>7, <4>2, <5>2
      <4>. QED  BY <2>1, <4>1, <4>2
    <3>. QED  BY <3>2, <3>3
  <2>. QED  BY <2>3, <2>4
<1>. QED  BY <1>7, <1>8 DEF s

-----------------------------------------------------------------------------
(* What the fates say, and what the other tables must say then.             *)

GamesOf(b)   == {i \in DOMAIN b.fate : b.fate[i].slot # 0}
InSlot(b, s) == {i \in GamesOf(b) : b.fate[i].slot = s}

InSlotOf(ms, b, s, d) == {i \in InSlot(b, s) : ms[i].division = d}
TimesAt(l, ms, b, t, k) ==
    {i \in GamesOf(b) : t \in Pair(ms[i]) /\ l.slot[b.fate[i].slot].start % Day = k}

Meet(l, m, o) ==
    \E t \in Pair(m), u \in Pair(o) : l.team[t].coaches \cap l.team[u].coaches # {}
Busy(l, ms, b, i, s) ==
    \E j \in GamesOf(b) \ {i} : Meet(l, ms[i], ms[j]) /\ Overlapping(l, s, b.fate[j].slot)
Filled(l, b, s) == Cardinality(InSlot(b, s)) >= l.slot[s].capacity

RoomCounted(l, b) ==
    \A s \in DOMAIN l.slot : b.room[s] + Cardinality(InSlot(b, s)) = l.slot[s].capacity

\* Every game is in the books of its teams and coaches, no other in the latter.
Booked(l, ms, b) ==
    /\ \A i \in GamesOf(b) : \A t \in Pair(ms[i]) : <<t, ms[i].week>> \in b.playing
    /\ \A i \in GamesOf(b) : \A c \in CoachesOf(l, ms[i]) : b.fate[i].slot \in b.book[c]
    /\ \A c \in Coaches(l) : \A s \in b.book[c] :
           \E i \in InSlot(b, s) : c \in CoachesOf(l, ms[i])

UseCounted(l, ms, b) ==
    \A s \in DOMAIN l.slot, d \in Divisions(l) :
        l.slot[s].division = Shared => b.used[s][d] = Cardinality(InSlotOf(ms, b, s, d))

\* What a team is liked at is when most of its games are.
Favours(l, x) ==
    \A k \in Minutes(l) :
        IF x.preferred = NoLiking THEN x.counts[k] = 0
        ELSE x.counts[k] <= x.counts[x.preferred]

TimesCounted(l, ms, b) ==
    \A t \in DOMAIN l.team :
        /\ \A k \in Minutes(l) : b.liking[t].counts[k] = Cardinality(TimesAt(l, ms, b, t, k))
        /\ Favours(l, b.liking[t])

\* No rule is broken by the games placed so far.
RulesKept(l, ms, b) ==
    \A i \in GamesOf(b) :
        /\ l.slot[b.fate[i].slot].week = ms[i].week
        /\ l.slot[b.fate[i].slot].division \in {ms[i].division, Shared}
        /\ Pair(ms[i]) \subseteq TeamsOf(l, ms[i].division)
        /\ ~Busy(l, ms, b, i, b.fate[i].slot)
        /\ \A j \in GamesOf(b) \ {i} :
               ms[j].week = ms[i].week => Pair(ms[j]) \cap Pair(ms[i]) = {}

\* Slot s would suit matchup i better than what became of it.
Better(l, f, s) ==
    \/ f.slot = 0
    \/ l.slot[s].division # Shared /\ l.slot[f.slot].division = Shared
    \/ /\ l.slot[s].division = l.slot[f.slot].division
       /\ l.slot[s].priority > l.slot[f.slot].priority

Candidates(l, m) == OfWeek(l, m, m.division) \cup OfWeek(l, m, Shared)

NoneBetter(l, ms, b) ==
    \A i \in DOMAIN b.fate : \A s \in Candidates(l, ms[i]) :
        /\ b.fate[i].reason \in {"none", "no-slot-available", "coach-scheduling-conflict"}
        /\ Better(l, b.fate[i], s)
        => /\ Filled(l, b, s) \/ Busy(l, ms, b, i, s)
           /\ b.fate[i].reason = "no-slot-available" => Filled(l, b, s)

Alike(l, s, r) ==
    /\ l.slot[s].division = Shared /\ l.slot[r].division = Shared
    /\ l.slot[s].week = l.slot[r].week
    /\ l.slot[s].priority = l.slot[r].priority

Evenly(l, ms, b) ==
    \A d \in Divisions(l), s, r \in DOMAIN l.slot :
        /\ Alike(l, s, r)
        /\ Cardinality(InSlotOf(ms, b, s, d)) > Cardinality(InSlotOf(ms, b, r, d)) + 1
        => Filled(l, b, r) \/ \E i \in InSlotOf(ms, b, s, d) : Busy(l, ms, b, i, r)

TablesRight(l, ms, b) ==
    /\ b \in Tables(l)
    /\ RoomCounted(l, b) /\ Booked(l, ms, b) /\ UseCounted(l, ms, b) /\ TimesCounted(l, ms, b)
    /\ RulesKept(l, ms, b) /\ NoneBetter(l, ms, b) /\ Evenly(l, ms, b)

-----------------------------------------------------------------------------
(* One fate more.                                                           *)

LEMMA SetsFinite ==
    ASSUME NEW l, NEW ms, NEW b, b.fate \in Seq(Fates(l)), NEW T \in SUBSET GamesOf(b)
    PROVE  IsFiniteSet(T) /\ Cardinality(T) \in Nat
<1>1. DOMAIN b.fate = 1 .. Len(b.fate) /\ Len(b.fate) \in Nat
  BY LenProperties
<1>2. IsFiniteSet(1 .. Len(b.fate))
  BY <1>1, FS_Interval
<1>3. T \in SUBSET (1 .. Len(b.fate))
  BY <1>1 DEF GamesOf
<1>. QED  BY <1>2, <1>3, FS_Subset, FS_CardinalityType

\* The sets above after f was appended to the fates.
LEMMA OneMore ==
    ASSUME NEW l, IsLeague(l), NEW b, b.fate \in Seq(Fates(l)), NEW f \in Fates(l), NEW c,
           c.fate = Append(b.fate, f), NEW n, n = Len(b.fate) + 1
    PROVE  /\ c.fate \in Seq(Fates(l))
           /\ n \notin DOMAIN b.fate /\ DOMAIN c.fate = DOMAIN b.fate \cup {n}
           /\ c.fate[n] = f /\ \A i \in DOMAIN b.fate : c.fate[i] = b.fate[i]
           /\ n \notin GamesOf(b)
           /\ GamesOf(c) = IF f.slot # 0 THEN GamesOf(b) \cup {n} ELSE GamesOf(b)
           /\ \A s : InSlot(c, s) = IF f.slot # 0 /\ s = f.slot THEN InSlot(b, s) \cup {n}
                                    ELSE InSlot(b, s)
<1>1. DOMAIN b.fate = 1 .. Len(b.fate) /\ Len(b.fate) \in Nat
  BY LenProperties
<1>2. /\ Append(b.fate, f) \in Seq(Fates(l))
      /\ Len(Append(b.fate, f)) = Len(b.fate) + 1
      /\ \A i \in 1 .. Len(b.fate) : Append(b.fate, f)[i] = b.fate[i]
      /\ Append(b.fate, f)[Len(b.fate) + 1] = f
  BY AppendProperties
<1>3. c.fate \in Seq(Fates(l)) /\ c.fate[n] = f /\ \A i \in DOMAIN b.fate : c.fate[i] = b.fate[i]
  BY <1>1, <1>2
<1>4. n \notin DOMAIN b.fate /\ DOMAIN c.fate = DOMAIN b.fate \cup {n}
  <2>1. DOMAIN c.fate = 1 .. n
    BY <1>2, LenProperties
  <2>. QED  BY <1>1, <2>1
<1>5. n \notin GamesOf(b) /\ GamesOf(c) = IF f.slot # 0 THEN GamesOf(b) \cup {n} ELSE GamesOf(b)
  BY <1>3, <1>4 DEF GamesOf
<1>6. \A s : InSlot(c, s) = IF f.slot # 0 /\ s = f.slot THEN InSlot(b, s) \cup {n}
                                    ELSE InSlot(b, s)
  <2>1. \A i \in GamesOf(b) : c.fate[i] = b.fate[i]
    BY <1>3 DEF GamesOf
  <2>. QED  BY <1>3, <1>5, <2>1 DEF InSlot
<1>. QED  BY <1>3, <1>4, <1>5, <1>6

LEMMA CountsOneMore ==
    ASSUME NEW T, IsFiniteSet(T), NEW n, n \notin T
    PROVE  Cardinality(T) \in Nat /\ Cardinality(T \cup {n}) = Cardinality(T) + 1
  BY FS_AddElement, FS_CardinalityType

\* Slots only fill up, and coaches only get busier.
LEMMA OnlyMore ==
    ASSUME NEW l, IsLeague(l), NEW ms, NEW b, b.fate \in Seq(Fates(l)), NEW f \in Fates(l), NEW c,
           c.fate = Append(b.fate, f)
    PROVE  /\ \A s \in DOMAIN l.slot : Filled(l, b, s) => Filled(l, c, s)
           /\ \A i, s : Busy(l, ms, b, i, s) => Busy(l, ms, c, i, s)
<1> DEFINE n == Len(b.fate) + 1
<1>1. /\ n \notin GamesOf(b) /\ c.fate \in Seq(Fates(l))
      /\ \A i \in DOMAIN b.fate : c.fate[i] = b.fate[i]
      /\ GamesOf(c) = IF f.slot # 0 THEN GamesOf(b) \cup {n} ELSE GamesOf(b)
      /\ \A s : InSlot(c, s) = IF f.slot # 0 /\ s = f.slot THEN InSlot(b, s) \cup {n}
                                    ELSE InSlot(b, s)
  BY OneMore
<1>. HIDE DEF n
<1>2. ASSUME NEW s \in DOMAIN l.slot, Filled(l, b, s) PROVE Filled(l, c, s)
  <2>1. IsFiniteSet(InSlot(b, s)) /\ Cardinality(InSlot(b, s)) \in Nat
    <3>1. InSlot(b, s) \in SUBSET GamesOf(b)
      BY DEF InSlot
    <3>. QED  BY <3>1, SetsFinite
  <2>2. n \notin InSlot(b, s)
    BY <1>1 DEF InSlot
  <2>3. Cardinality(InSlot(c, s))
          = IF f.slot # 0 /\ s = f.slot THEN Cardinality(InSlot(b, s)) + 1
            ELSE Cardinality(InSlot(b, s))
    BY <1>1, <2>1, <2>2, CountsOneMore
  <2>4. l.slot[s].capacity \in Nat
    BY LeagueFacts
  <2>. QED  BY <1>2, <2>1, <2>3, <2>4 DEF Filled
<1>3. ASSUME NEW i, NEW s, Busy(l, ms, b, i, s) PROVE Busy(l, ms, c, i, s)
  <2>1. PICK j \in GamesOf(b) \ {i} : Meet(l, ms[i], ms[j]) /\ Overlapping(l, s, b.fate[j].slot)
    BY <1>3 DEF Busy
  <2>2. j \in GamesOf(c) \ {i} /\ c.fate[j] = b.fate[j]
    BY <1>1 DEF GamesOf
  <2>. QED  BY <2>1, <2>2 DEF Busy
<1>. QED  BY <1>2, <1>3

-----------------------------------------------------------------------------
(* A matchup is left out.                                                   *)

\* The matchup that is taken next may be left out for this reason.
Justified(l, ms, b, reason) ==
    LET n == Len(b.fate) + 1
    IN  reason \in {"no-slot-available", "coach-scheduling-conflict"} =>
            \A s \in Candidates(l, ms[n]) :
                /\ Filled(l, b, s) \/ Busy(l, ms, b, n, s)
                /\ reason = "no-slot-available" => Filled(l, b, s)

LEMMA LeaveOutRight ==
    ASSUME NEW l, IsLeague(l), NEW ms, NEW b, TablesRight(l, ms, b),
           NEW reason \in Reasons \ {"none"}, Justified(l, ms, b, reason)
    PROVE  TablesRight(l, ms, LeaveOut(b, reason))
<1> DEFINE c == LeaveOut(b, reason)
           n == Len(b.fate) + 1
           f == [slot |-> 0, reason |-> reason]
<1>1. b \in Tables(l) /\ b.fate \in Seq(Fates(l)) /\ f \in Fates(l)
  BY DEF TablesRight, Tables, Fates
<1>2. /\ c.fate = Append(b.fate, f) /\ c.room = b.room /\ c.playing = b.playing
      /\ c.book = b.book /\ c.used = b.used /\ c.liking = b.liking
  BY <1>1 DEF LeaveOut, Tables
<1>3. /\ c.fate \in Seq(Fates(l))
      /\ DOMAIN c.fate = DOMAIN b.fate \cup {n}
      /\ c.fate[n] = f /\ \A i \in DOMAIN b.fate : c.fate[i] = b.fate[i]
      /\ GamesOf(c) = GamesOf(b)
      /\ \A s : InSlot(c, s) = InSlot(b, s)
  BY <1>1, <1>2, OneMore
<1>4. c \in Tables(l)
  BY <1>1, <1>2, <1>3 DEF LeaveOut, Tables
<1>5. /\ \A s \in DOMAIN l.slot : Filled(l, b, s) => Filled(l, c, s)
      /\ \A i, s : Busy(l, ms, b, i, s) => Busy(l, ms, c, i, s)
  BY <1>1, <1>2, OnlyMore
<1>. HIDE DEF c, n
<1>6. \A i \in GamesOf(b) : i \in DOMAIN b.fate /\ c.fate[i] = b.fate[i]
  BY <1>3 DEF GamesOf
<1>7. /\ \A s, d : InSlotOf(ms, c, s, d) = InSlotOf(ms, b, s, d)
      /\ \A t, k : TimesAt(l, ms, c, t, k) = TimesAt(l, ms, b, t, k)
      /\ \A i, s : Busy(l, ms, c, i, s) <=> Busy(l, ms, b, i, s)
  BY <1>3, <1>6 DEF InSlotOf, TimesAt, Busy
<1>8. RoomCounted(l, c)
  BY <1>2, <1>3 DEF TablesRight, RoomCounted
<1>9. Booked(l, ms, c)
  BY <1>2, <1>3, <1>6 DEF TablesRight, Booked
<1>10. UseCounted(l, ms, c)
  BY <1>2, <1>7 DEF TablesRight, UseCounted
<1>11. TimesCounted(l, ms, c)
  BY <1>2, <1>7 DEF TablesRight, TimesCounted
<1>12. RulesKept(l, ms, c)
  BY <1>3, <1>6, <1>7 DEF TablesRight, RulesKept
<1>13. NoneBetter(l, ms, c)
  <2>1. SUFFICES ASSUME NEW i \in DOMAIN c.fate, NEW s \in Candidates(l, ms[i]),
                        c.fate[i].reason
                            \in {"none", "no-slot-available", "coach-scheduling-conflict"},
                        Better(l, c.fate[i], s)
                 PROVE  /\ Filled(l, c, s) \/ Busy(l, ms, c, i, s)
                        /\ c.fate[i].reason = "no-slot-available" => Filled(l, c, s)
    BY DEF NoneBetter
  <2>2. s \in DOMAIN l.slot
    BY DEF Candidates, OfWeek
  <2>3. CASE i \in DOMAIN b.fate
    <3>1. /\ Filled(l, b, s) \/ Busy(l, ms, b, i, s)
          /\ b.fate[i].reason = "no-slot-available" => Filled(l, b, s)
      BY <1>3, <2>1, <2>3 DEF TablesRight, NoneBetter
    <3>. QED  BY <1>3, <1>5, <2>2, <2>3, <3>1
  <2>4. CASE i = n
    <3>1. reason \in {"no-slot-available", "coach-scheduling-conflict"}
      BY <1>3, <2>1, <2>4
    <3>2. /\ Filled(l, b, s) \/ Busy(l, ms, b, n, s)
          /\ reason = "no-slot-available" => Filled(l, b, s)
      BY <2>1, <2>4, <3>1 DEF Justified, n
    <3>. QED  BY <1>3, <1>5, <2>2, <2>4, <3>2
  <2>. QED  BY <1>3, <2>3, <2>4
<1>14. Evenly(l, ms, c)
  BY <1>5, <1>7 DEF TablesRight, Evenly
<1>. QED  BY <1>4, <1>8, <1>9, <1>10, <1>11, <1>12, <1>13, <1>14 DEF TablesRight, c

-----------------------------------------------------------------------------
(* A matchup is placed.                                                     *)

\* The matchup that is taken next may be placed in slot s.
Fitting(l, ms, b, m, s) ==
    /\ m = ms[Len(b.fate) + 1]
    /\ Refusal(l, b, m) = "none"
    /\ s \in Candidates(l, m) /\ b.room[s] > 0 /\ ~Clashes(l, b, m, s)

LEMMA NotRefused ==
    ASSUME NEW l, NEW b, NEW m, Refusal(l, b, m) = "none"
    PROVE  /\ Pair(m) \subseteq DOMAIN l.team
           /\ Pair(m) \subseteq TeamsOf(l, m.division)
           /\ m.division \in Divisions(l)
           /\ \A t \in Pair(m) : <<t, m.week>> \notin b.playing
<1>1. Pair(m) \subseteq DOMAIN l.team
  BY DEF Refusal
<1>2. Pair(m) \subseteq TeamsOf(l, m.division)
  BY DEF Refusal
<1>3. \A t \in Pair(m) : <<t, m.week>> \notin b.playing
  BY DEF Refusal
<1>4. m.division \in Divisions(l)
  <2>1. m.home \in DOMAIN l.team /\ l.team[m.home].division = m.division
    BY <1>2 DEF Pair, TeamsOf
  <2>. QED  BY <2>1 DEF Divisions
<1>. QED  BY <1>1, <1>2, <1>3, <1>4

LEMMA LikingFacts ==
    ASSUME NEW l, IsLeague(l), NEW x \in Likings(l), Favours(l, x), NEW k \in Minutes(l)
    PROVE  /\ Liking(x, k) \in Likings(l)
           /\ Favours(l, Liking(x, k))
           /\ \A j \in Minutes(l) : Liking(x, k).counts[j] = IF j = k THEN x.counts[j] + 1
                                                             ELSE x.counts[j]
<1> DEFINE counts == [x.counts EXCEPT ![k] = @ + 1]
<1>1. counts \in [Minutes(l) -> Nat]
  BY DEF Likings
<1>2. \A j \in Minutes(l) : counts[j] = IF j = k THEN x.counts[j] + 1 ELSE x.counts[j]
  BY DEF Likings
<1>3. /\ Liking(x, k).counts = counts
      /\ Liking(x, k).preferred
            = IF x.preferred = NoLiking \/ counts[k] > counts[x.preferred] THEN k ELSE x.preferred
      /\ Liking(x, k) = [counts |-> Liking(x, k).counts, preferred |-> Liking(x, k).preferred]
  BY DEF Liking
<1>4. x.preferred \in Minutes(l) \cup {NoLiking} /\ x.counts \in [Minutes(l) -> Nat]
  BY DEF Likings
<1>. HIDE DEF counts
<1>5. Liking(x, k).preferred \in Minutes(l) /\ Liking(x, k).preferred # NoLiking
  BY <1>3, <1>4, LeagueFacts
<1>6. Liking(x, k) \in Likings(l)
  BY <1>1, <1>3, <1>5 DEF Likings
<1>7. ASSUME NEW j \in Minutes(l) PROVE counts[j] <= counts[Liking(x, k).preferred]
  <2>1. x.counts[j] \in Nat /\ x.counts[k] \in Nat
    BY <1>4
  <2>2. CASE x.preferred = NoLiking
    BY <1>2, <1>3, <2>1, <2>2 DEF Favours
  <2>3. CASE x.preferred # NoLiking
    <3>1. x.preferred \in Minutes(l) /\ x.counts[j] <= x.counts[x.preferred]
          /\ x.counts[k] <= x.counts[x.preferred] /\ x.counts[x.preferred] \in Nat
      BY <1>4, <2>3 DEF Favours
    <3>. QED  BY <1>2, <1>3, <2>1, <2>3, <3>1
  <2>. QED  BY <2>2, <2>3
<1>8. Favours(l, Liking(x, k))
  BY <1>3, <1>5, <1>7 DEF Favours
<1>. QED  BY <1>2, <1>3, <1>6, <1>8

\* What becomes of the tables b when m is placed in slot s.
BookedInto(l, b, m, s, c) ==
    /\ c \in Tables(l)
    /\ c.fate = Append(b.fate, [slot |-> s, reason |-> "none"])
    /\ \A x \in DOMAIN l.slot : c.room[x] = IF x = s THEN b.room[x] - 1 ELSE b.room[x]
    /\ c.playing = b.playing \cup {<<t, m.week>> : t \in Pair(m)}
    /\ \A k \in Coaches(l) : c.book[k] = IF k \in CoachesOf(l, m) THEN b.book[k] \cup {s}
                                         ELSE b.book[k]
    /\ \A x \in DOMAIN l.slot, d \in Divisions(l) :
           l.slot[x].division = Shared =>
               c.used[x][d] = IF x = s /\ d = m.division THEN b.used[x][d] + 1 ELSE b.used[x][d]
    /\ \A t \in DOMAIN l.team :
           c.liking[t] = IF t \in Pair(m) THEN Liking(b.liking[t], l.slot[s].start % Day)
                         ELSE b.liking[t]

LEMMA BookParts ==
    ASSUME NEW l, IsLeague(l), NEW ms, NEW b, TablesRight(l, ms, b), NEW m, NEW s,
           Fitting(l, ms, b, m, s), NEW c, c = Book(l, b, m, s)
    PROVE  BookedInto(l, b, m, s, c)
<1> DEFINE f == [slot |-> s, reason |-> "none"]
           shared(n) == IF l.slot[s].division = Shared THEN n + 1 ELSE n
           minute == l.slot[s].start % Day
<1>1. b \in Tables(l) /\ TimesCounted(l, ms, b)
  BY DEF TablesRight
<1>2. /\ s \in DOMAIN l.slot /\ l.slot[s].week = m.week /\ m.week \in Nat /\ b.room[s] > 0
      /\ minute \in Minutes(l)
  BY LeagueFacts DEF Fitting, Candidates, OfWeek
<1>3. /\ Pair(m) \subseteq DOMAIN l.team /\ m.division \in Divisions(l)
  BY NotRefused DEF Fitting
<1>4. /\ b.fate \in Seq(Fates(l))
      /\ b.room \in [DOMAIN l.slot -> Nat]
      /\ b.playing \in SUBSET ((DOMAIN l.team) \X Nat)
      /\ b.book \in [Coaches(l) -> SUBSET DOMAIN l.slot]
      /\ b.used \in [DOMAIN l.slot -> [Divisions(l) -> Nat]]
      /\ b.onField \in [Fields(l) -> [Divisions(l) -> Nat]]
      /\ b.liking \in [DOMAIN l.team -> Likings(l)]
  BY <1>1 DEF Tables
<1>5. /\ c.fate = Append(b.fate, f)
      /\ c.room = [b.room EXCEPT ![s] = @ - 1]
      /\ c.playing = b.playing \cup {<<t, m.week>> : t \in Pair(m)}
      /\ c.book = [k \in DOMAIN b.book |-> IF k \in CoachesOf(l, m) THEN b.book[k] \cup {s}
                                           ELSE b.book[k]]
      /\ c.used = [b.used EXCEPT ![s][m.division] = shared(@)]
      /\ c.onField = [b.onField EXCEPT ![l.slot[s].field][m.division] = shared(@)]
      /\ c.liking = [t \in DOMAIN b.liking |-> IF t \in Pair(m) THEN Liking(b.liking[t], minute)
                                               ELSE b.liking[t]]
      /\ c = [fate |-> c.fate, room |-> c.room, playing |-> c.playing, book |-> c.book,
              used |-> c.used, onField |-> c.onField, liking |-> c.liking]
  BY DEF Book
<1>6. c.fate \in Seq(Fates(l))
  <2>1. f \in Fates(l)
    BY <1>2 DEF Fates, Reasons
  <2>. QED  BY <1>4, <1>5, <2>1, AppendProperties
<1>7. /\ c.room \in [DOMAIN l.slot -> Nat]
      /\ \A x \in DOMAIN l.slot : c.room[x] = IF x = s THEN b.room[x] - 1 ELSE b.room[x]
  <2>1. b.room[s] - 1 \in Nat
    BY <1>2, <1>4
  <2>. QED  BY <1>2, <1>4, <1>5, <2>1
<1>8. c.playing \in SUBSET ((DOMAIN l.team) \X Nat)
  <2>1. \A t \in Pair(m) : <<t, m.week>> \in (DOMAIN l.team) \X Nat
    BY <1>2, <1>3
  <2>. QED  BY <1>4, <1>5, <2>1
<1>9. /\ c.book \in [Coaches(l) -> SUBSET DOMAIN l.slot]
      /\ \A k \in Coaches(l) : c.book[k] = IF k \in CoachesOf(l, m) THEN b.book[k] \cup {s}
                                           ELSE b.book[k]
  BY <1>2, <1>4, <1>5
<1>10. /\ c.used \in [DOMAIN l.slot -> [Divisions(l) -> Nat]]
       /\ \A x \in DOMAIN l.slot, d \in Divisions(l) :
              c.used[x][d] = IF x = s /\ d = m.division THEN shared(b.used[x][d]) ELSE b.used[x][d]
  <2>1. shared(b.used[s][m.division]) \in Nat
    BY <1>2, <1>3, <1>4
  <2>. HIDE DEF shared
  <2>. QED  BY <1>2, <1>3, <1>4, <1>5, <2>1
<1>11. c.onField \in [Fields(l) -> [Divisions(l) -> Nat]]
  <2>1. l.slot[s].field \in Fields(l)
    BY <1>2 DEF Fields
  <2>2. shared(b.onField[l.slot[s].field][m.division]) \in Nat
    BY <1>3, <1>4, <2>1
  <2>. HIDE DEF shared
  <2>. QED  BY <1>3, <1>4, <1>5, <2>1, <2>2
<1>12. /\ c.liking \in [DOMAIN l.team -> Likings(l)]
       /\ \A t \in DOMAIN l.team :
              c.liking[t] = IF t \in Pair(m) THEN Liking(b.liking[t], minute) ELSE b.liking[t]
  <2>1. \A t \in DOMAIN l.team : b.liking[t] \in Likings(l) /\ Favours(l, b.liking[t])
    BY <1>1, <1>4 DEF TimesCounted
  <2>2. \A t \in DOMAIN l.team : Liking(b.liking[t], minute) \in Likings(l)
    BY <1>2, <2>1, LikingFacts
  <2>. HIDE DEF minute
  <2>. QED  BY <1>4, <1>5, <2>1, <2>2
<1>13. c \in Tables(l)
  BY <1>5, <1>6, <1>7, <1>8, <1>9, <1>10, <1>11, <1>12 DEF Tables
<1>14. \A x \in DOMAIN l.slot, d \in Divisions(l) :
           l.slot[x].division = Shared =>
               c.used[x][d] = IF x = s /\ d = m.division THEN b.used[x][d] + 1 ELSE b.used[x][d]
  BY <1>10
<1>. QED  BY <1>5, <1>7, <1>9, <1>12, <1>13, <1>14 DEF BookedInto

\* The slot is the best of the open slots of its division, and if it is a
\* shared one the division has no other open.
Preferred(l, b, m, s) ==
    \E d \in {m.division, Shared} :
        /\ s \in Open(l, b, m, d)
        /\ d = m.division \/ Open(l, b, m, m.division) = {}
        /\ \A r \in Open(l, b, m, d) : l.slot[r].priority <= l.slot[s].priority
        /\ \A r \in Open(l, b, m, d) : d = Shared /\ l.slot[r].priority = l.slot[s].priority
                                          => b.used[s][m.division] <= b.used[r][m.division]

\* A slot that is not open to a matchup is full or its coaches are busy then.
LEMMA NotOpen ==
    ASSUME NEW l, IsLeague(l), NEW ms, NEW b, TablesRight(l, ms, b), NEW n, n = Len(b.fate) + 1,
           NEW d, NEW s \in OfWeek(l, ms[n], d), s \notin Open(l, b, ms[n], d),
           Pair(ms[n]) \subseteq DOMAIN l.team
    PROVE  /\ Filled(l, b, s) \/ Busy(l, ms, b, n, s)
           /\ s \notin WithRoom(b, OfWeek(l, ms[n], d)) => Filled(l, b, s)
<1>1. /\ s \in DOMAIN l.slot /\ b.room[s] \in Nat /\ l.slot[s].capacity \in Nat
      /\ b.fate \in Seq(Fates(l))
  BY LeagueFacts DEF OfWeek, TablesRight, Tables
<1>2. ASSUME ~(b.room[s] > 0) PROVE Filled(l, b, s)
  <2>1. b.room[s] = 0
    BY <1>1, <1>2
  <2>2. b.room[s] + Cardinality(InSlot(b, s)) = l.slot[s].capacity
    BY <1>1 DEF TablesRight, RoomCounted
  <2>3. Cardinality(InSlot(b, s)) \in Nat
    <3>1. InSlot(b, s) \in SUBSET GamesOf(b)
      BY DEF InSlot
    <3>. QED  BY <1>1, <3>1, SetsFinite
  <2>. QED  BY <1>1, <2>1, <2>2, <2>3 DEF Filled
<1>3. ASSUME Clashes(l, b, ms[n], s) PROVE Busy(l, ms, b, n, s)
  <2>1. PICK k \in CoachesOf(l, ms[n]) : \E r \in b.book[k] : Overlapping(l, s, r)
    BY <1>3 DEF Clashes
  <2>2. PICK r \in b.book[k] : Overlapping(l, s, r)
    BY <2>1
  <2>3. PICK t \in Pair(ms[n]) : k \in l.team[t].coaches
    BY DEF CoachesOf
  <2>4. k \in Coaches(l)
    BY <2>3 DEF Coaches
  <2>5. PICK j \in InSlot(b, r) : k \in CoachesOf(l, ms[j])
    BY <2>2, <2>4 DEF TablesRight, Booked
  <2>6. PICK u \in Pair(ms[j]) : k \in l.team[u].coaches
    BY <2>5 DEF CoachesOf
  <2>7. Meet(l, ms[n], ms[j])
    BY <2>3, <2>6 DEF Meet
  <2>8. j \in GamesOf(b) \ {n} /\ b.fate[j].slot = r
    <3>1. n \notin GamesOf(b)
      <4>1. DOMAIN b.fate = 1 .. Len(b.fate) /\ Len(b.fate) \in Nat
        BY <1>1, LenProperties
      <4>. QED  BY <4>1 DEF GamesOf
    <3>. QED  BY <2>5, <3>1 DEF InSlot
  <2>. QED  BY <2>2, <2>7, <2>8 DEF Busy
<1>. QED  BY <1>2, <1>3 DEF Open, WithRoom

LEMMA BookRight ==
    ASSUME NEW l, IsLeague(l), NEW ms, NEW b, TablesRight(l, ms, b), NEW m, NEW s,
           Fitting(l, ms, b, m, s), Preferred(l, b, m, s), NEW c, c = Book(l, b, m, s)
    PROVE  TablesRight(l, ms, c)
<1> DEFINE n == Len(b.fate) + 1
           f == [slot |-> s, reason |-> "none"]
           minute == l.slot[s].start % Day
<1>1. /\ c \in Tables(l)
      /\ c.fate = Append(b.fate, f)
      /\ \A x \in DOMAIN l.slot : c.room[x] = IF x = s THEN b.room[x] - 1 ELSE b.room[x]
      /\ c.playing = b.playing \cup {<<t, m.week>> : t \in Pair(m)}
      /\ \A k \in Coaches(l) : c.book[k] = IF k \in CoachesOf(l, m) THEN b.book[k] \cup {s}
                                           ELSE b.book[k]
      /\ \A x \in DOMAIN l.slot, d \in Divisions(l) :
             l.slot[x].division = Shared =>
                 c.used[x][d] = IF x = s /\ d = m.division THEN b.used[x][d] + 1
                                ELSE b.used[x][d]
      /\ \A t \in DOMAIN l.team :
             c.liking[t] = IF t \in Pair(m) THEN Liking(b.liking[t], minute) ELSE b.liking[t]
  <2>1. BookedInto(l, b, m, s, c)
    BY BookParts
  <2>. QED  BY <2>1 DEF BookedInto
<1>2. /\ ms[n] = m
      /\ s \in DOMAIN l.slot /\ s # 0 /\ s \in Candidates(l, m) /\ ~Clashes(l, b, m, s)
      /\ l.slot[s].week = m.week /\ l.slot[s].division \in {m.division, Shared}
      /\ minute \in Minutes(l)
  BY LeagueFacts DEF Fitting, Candidates, OfWeek
<1>3. /\ Pair(m) \subseteq DOMAIN l.team /\ Pair(m) \subseteq TeamsOf(l, m.division)
      /\ m.division \in Divisions(l)
      /\ \A t \in Pair(m) : <<t, m.week>> \notin b.playing
  BY NotRefused DEF Fitting
<1>4. b \in Tables(l) /\ b.fate \in Seq(Fates(l)) /\ f \in Fates(l)
  BY <1>2 DEF TablesRight, Tables, Fates, Reasons
<1>5. f.slot = s /\ f.slot # 0 /\ f.reason = "none"
  BY <1>2
<1>. HIDE DEF n, f, minute
<1>6. /\ n \notin DOMAIN b.fate /\ DOMAIN c.fate = DOMAIN b.fate \cup {n}
      /\ c.fate[n] = f /\ \A i \in DOMAIN b.fate : c.fate[i] = b.fate[i]
      /\ n \notin GamesOf(b) /\ GamesOf(c) = GamesOf(b) \cup {n}
      /\ \A x : InSlot(c, x) = IF x = s THEN InSlot(b, x) \cup {n} ELSE InSlot(b, x)
  <2>1. n = Len(b.fate) + 1
    BY DEF n
  <2>. QED  BY <1>1, <1>4, <1>5, <2>1, OneMore
<1>7. /\ \A x \in DOMAIN l.slot : Filled(l, b, x) => Filled(l, c, x)
      /\ \A i, x : Busy(l, ms, b, i, x) => Busy(l, ms, c, i, x)
  BY <1>1, <1>4, OnlyMore
<1>8. \A i \in GamesOf(b) : i \in DOMAIN b.fate /\ i # n /\ c.fate[i] = b.fate[i]
  BY <1>6 DEF GamesOf
<1>9. \A T \in SUBSET GamesOf(b) :
          Cardinality(T) \in Nat /\ Cardinality(T \cup {n}) = Cardinality(T) + 1
  <2>1. SUFFICES ASSUME NEW T \in SUBSET GamesOf(b)
                 PROVE  Cardinality(T) \in Nat /\ Cardinality(T \cup {n}) = Cardinality(T) + 1
    OBVIOUS
  <2>2. IsFiniteSet(T)
    BY <1>4, SetsFinite
  <2>. QED  BY <1>6, <2>2, CountsOneMore
<1>10. /\ \A x : InSlot(b, x) \in SUBSET GamesOf(b)
       /\ \A x, d : InSlotOf(ms, b, x, d) \in SUBSET GamesOf(b)
       /\ \A t, k : TimesAt(l, ms, b, t, k) \in SUBSET GamesOf(b)
  BY DEF InSlot, InSlotOf, TimesAt
<1>11. RoomCounted(l, c)
  <2>1. SUFFICES ASSUME NEW x \in DOMAIN l.slot
                 PROVE  c.room[x] + Cardinality(InSlot(c, x)) = l.slot[x].capacity
    BY DEF RoomCounted
  <2>2. b.room[x] + Cardinality(InSlot(b, x)) = l.slot[x].capacity
    BY DEF TablesRight, RoomCounted
  <2>3. b.room[x] \in Nat
    BY <1>4 DEF Tables
  <2>4. Cardinality(InSlot(b, x)) \in Nat
        /\ Cardinality(InSlot(b, x) \cup {n}) = Cardinality(InSlot(b, x)) + 1
    BY <1>9, <1>10
  <2>5. l.slot[x].capacity \in Nat /\ b.room[s] > 0
    BY LeagueFacts DEF Fitting
  <2>6. CASE x = s
    <3>1. c.room[x] = b.room[x] - 1 /\ InSlot(c, x) = InSlot(b, x) \cup {n} /\ b.room[x] > 0
      BY <1>1, <1>6, <2>5, <2>6
    <3>. QED  BY <2>2, <2>3, <2>4, <2>5, <3>1
  <2>7. CASE x # s
    <3>1. c.room[x] = b.room[x] /\ InSlot(c, x) = InSlot(b, x)
      BY <1>1, <1>6, <2>7
    <3>. QED  BY <2>2, <3>1
  <2>. QED  BY <2>6, <2>7
<1>12. Booked(l, ms, c)
  <2>1. ASSUME NEW i \in GamesOf(c), NEW t \in Pair(ms[i])
        PROVE  <<t, ms[i].week>> \in c.playing
    <3>1. CASE i = n
      BY <1>1, <1>2, <2>1, <3>1
    <3>2. CASE i \in GamesOf(b)
      <4>1. <<t, ms[i].week>> \in b.playing
        BY <2>1, <3>2 DEF TablesRight, Booked
      <4>. QED  BY <1>1, <4>1
    <3>. QED  BY <1>6, <3>1, <3>2
  <2>2. ASSUME NEW i \in GamesOf(c), NEW k \in CoachesOf(l, ms[i])
        PROVE  c.fate[i].slot \in c.book[k]
    <3>1. CASE i = n
      <4>1. k \in Coaches(l)
        BY <1>2, <1>3, <2>2, <3>1 DEF CoachesOf, Coaches
      <4>. QED  BY <1>1, <1>2, <1>5, <1>6, <2>2, <3>1, <4>1
    <3>2. CASE i \in GamesOf(b)
      <4>1. b.fate[i].slot \in b.book[k]
        BY <2>2, <3>2 DEF TablesRight, Booked
      <4>2. k \in Coaches(l)
        <5>1. Pair(ms[i]) \subseteq DOMAIN l.team
          BY <3>2 DEF TablesRight, RulesKept, TeamsOf
        <5>. QED  BY <2>2, <5>1 DEF CoachesOf, Coaches
      <4>. QED  BY <1>1, <1>8, <3>2, <4>1, <4>2
    <3>. QED  BY <1>6, <3>1, <3>2
  <2>3. ASSUME NEW k \in Coaches(l), NEW x \in c.book[k]
        PROVE  \E i \in InSlot(c, x) : k \in CoachesOf(l, ms[i])
    <3>1. CASE x \in b.book[k]
      <4>1. PICK i \in InSlot(b, x) : k \in CoachesOf(l, ms[i])
        BY <3>1 DEF TablesRight, Booked
      <4>2. i \in InSlot(c, x)
        BY <1>6
      <4>. QED  BY <4>1, <4>2
    <3>2. CASE x \notin b.book[k]
      <4>1. x = s /\ k \in CoachesOf(l, m)
        BY <1>1, <2>3, <3>2
      <4>2. n \in InSlot(c, x)
        BY <1>6, <4>1
      <4>. QED  BY <1>2, <4>1, <4>2
    <3>. QED  BY <3>1, <3>2
  <2>. QED  BY <2>1, <2>2, <2>3 DEF Booked
<1>13. \A x, d : InSlotOf(ms, c, x, d) = IF x = s /\ d = m.division
                                         THEN InSlotOf(ms, b, x, d) \cup {n}
                                         ELSE InSlotOf(ms, b, x, d)
  BY <1>2, <1>6 DEF InSlotOf
<1>14. UseCounted(l, ms, c)
  <2>1. SUFFICES ASSUME NEW x \in DOMAIN l.slot, NEW d \in Divisions(l),
                        l.slot[x].division = Shared
                 PROVE  c.used[x][d] = Cardinality(InSlotOf(ms, c, x, d))
    BY DEF UseCounted
  <2>2. b.used[x][d] = Cardinality(InSlotOf(ms, b, x, d))
    BY <2>1 DEF TablesRight, UseCounted
  <2>3. Cardinality(InSlotOf(ms, b, x, d) \cup {n}) = Cardinality(InSlotOf(ms, b, x, d)) + 1
    BY <1>9, <1>10
  <2>4. CASE x = s /\ d = m.division
    <3>1. /\ c.used[x][d] = b.used[x][d] + 1
          /\ InSlotOf(ms, c, x, d) = InSlotOf(ms, b, x, d) \cup {n}
      BY <1>1, <1>13, <2>1, <2>4
    <3>. QED  BY <2>2, <2>3, <3>1
  <2>5. CASE ~(x = s /\ d = m.division)
    <3>1. c.used[x][d] = b.used[x][d] /\ InSlotOf(ms, c, x, d) = InSlotOf(ms, b, x, d)
      BY <1>1, <1>13, <2>1, <2>5
    <3>. QED  BY <2>2, <3>1
  <2>. QED  BY <2>4, <2>5
<1>15. TimesCounted(l, ms, c)
  <2>1. SUFFICES ASSUME NEW t \in DOMAIN l.team
                 PROVE  /\ \A k \in Minutes(l) :
                               c.liking[t].counts[k] = Cardinality(TimesAt(l, ms, c, t, k))
                        /\ Favours(l, c.liking[t])
    BY DEF TimesCounted
  <2>2. /\ \A k \in Minutes(l) : b.liking[t].counts[k] = Cardinality(TimesAt(l, ms, b, t, k))
        /\ Favours(l, b.liking[t])
    BY DEF TablesRight, TimesCounted
  <2>3. b.liking[t] \in Likings(l)
    BY <1>4 DEF Tables
  <2>4. \A k : TimesAt(l, ms, c, t, k) = IF t \in Pair(m) /\ k = minute
                                         THEN TimesAt(l, ms, b, t, k) \cup {n}
                                         ELSE TimesAt(l, ms, b, t, k)
    BY <1>2, <1>5, <1>6, <1>8 DEF TimesAt, minute
  <2>5. \A k : Cardinality(TimesAt(l, ms, b, t, k) \cup {n})
                  = Cardinality(TimesAt(l, ms, b, t, k)) + 1
    BY <1>9, <1>10
  <2>6. CASE t \in Pair(m)
    <3>1. /\ Favours(l, Liking(b.liking[t], minute))
          /\ \A k \in Minutes(l) :
                 Liking(b.liking[t], minute).counts[k]
                    = IF k = minute THEN b.liking[t].counts[k] + 1 ELSE b.liking[t].counts[k]
      BY <1>2, <2>2, <2>3, LikingFacts
    <3>2. c.liking[t] = Liking(b.liking[t], minute)
      BY <1>1, <2>6
    <3>. QED  BY <2>2, <2>4, <2>5, <2>6, <3>1, <3>2
  <2>7. CASE t \notin Pair(m)
    <3>1. c.liking[t] = b.liking[t]
      BY <1>1, <2>7
    <3>. QED  BY <2>2, <2>4, <2>7, <3>1
  <2>. QED  BY <2>6, <2>7
<1>16. ASSUME NEW i \in GamesOf(b), Meet(l, ms[i], m) \/ Meet(l, m, ms[i])
       PROVE  ~Overlapping(l, s, b.fate[i].slot) /\ ~Overlapping(l, b.fate[i].slot, s)
  <2>1. \E t \in Pair(m), u \in Pair(ms[i]) : l.team[t].coaches \cap l.team[u].coaches # {}
    BY <1>16 DEF Meet
  <2>2. PICK t \in Pair(m), u \in Pair(ms[i]) : l.team[t].coaches \cap l.team[u].coaches # {}
    BY <2>1
  <2>3. PICK k : k \in l.team[t].coaches /\ k \in l.team[u].coaches
    BY <2>2
  <2>4. k \in CoachesOf(l, m) /\ k \in CoachesOf(l, ms[i])
    BY <2>3 DEF CoachesOf
  <2>5. b.fate[i].slot \in b.book[k]
    BY <2>4 DEF TablesRight, Booked
  <2>6. ~Overlapping(l, s, b.fate[i].slot)
    BY <1>2, <2>4, <2>5 DEF Clashes
  <2>7. b.fate[i].slot \in DOMAIN l.slot
    <3>1. b.fate[i] \in Fates(l) /\ b.fate[i].slot # 0
      BY <1>4, <1>8, <1>16, ElementOfSeq, LenProperties DEF GamesOf
    <3>. QED  BY <3>1 DEF Fates
  <2>. QED  BY <1>2, <2>6, <2>7, LeagueFacts DEF Overlapping
<1>17. \A i \in GamesOf(c) : Busy(l, ms, c, i, c.fate[i].slot) =>
           i \in GamesOf(b) /\ Busy(l, ms, b, i, b.fate[i].slot)
  <2>1. SUFFICES ASSUME NEW i \in GamesOf(c), Busy(l, ms, c, i, c.fate[i].slot)
                 PROVE  i \in GamesOf(b) /\ Busy(l, ms, b, i, b.fate[i].slot)
    OBVIOUS
  <2>2. PICK j \in GamesOf(c) \ {i} : /\ Meet(l, ms[i], ms[j])
                                      /\ Overlapping(l, c.fate[i].slot, c.fate[j].slot)
    BY <2>1 DEF Busy
  <2>3. i # n
    <3>1. SUFFICES ASSUME i = n PROVE FALSE
      OBVIOUS
    <3>2. j \in GamesOf(b) /\ c.fate[j].slot = b.fate[j].slot /\ c.fate[i].slot = s
      BY <1>5, <1>6, <1>8, <3>1
    <3>. QED  BY <1>2, <1>16, <2>2, <3>1, <3>2
  <2>4. i \in GamesOf(b) /\ c.fate[i].slot = b.fate[i].slot
    BY <1>6, <1>8, <2>3
  <2>5. j # n
    <3>1. SUFFICES ASSUME j = n PROVE FALSE
      OBVIOUS
    <3>. QED  BY <1>2, <1>5, <1>6, <1>16, <2>2, <2>4, <3>1
  <2>6. j \in GamesOf(b) \ {i} /\ c.fate[j].slot = b.fate[j].slot
    BY <1>6, <1>8, <2>5
  <2>. QED  BY <2>2, <2>4, <2>6 DEF Busy
<1>18. RulesKept(l, ms, c)
  <2>1. SUFFICES ASSUME NEW i \in GamesOf(c)
                 PROVE  /\ l.slot[c.fate[i].slot].week = ms[i].week
                        /\ l.slot[c.fate[i].slot].division \in {ms[i].division, Shared}
                        /\ Pair(ms[i]) \subseteq TeamsOf(l, ms[i].division)
                        /\ ~Busy(l, ms, c, i, c.fate[i].slot)
                        /\ \A j \in GamesOf(c) \ {i} :
                               ms[j].week = ms[i].week => Pair(ms[j]) \cap Pair(ms[i]) = {}
    BY DEF RulesKept
  <2>2. ~Busy(l, ms, c, i, c.fate[i].slot)
    BY <1>17 DEF TablesRight, RulesKept
  <2>3. ASSUME NEW j \in GamesOf(b), ms[j].week = m.week PROVE Pair(ms[j]) \cap Pair(m) = {}
    <3>1. \A t \in Pair(ms[j]) : <<t, ms[j].week>> \in b.playing
      BY DEF TablesRight, Booked
    <3>. QED  BY <1>3, <2>3, <3>1
  <2>4. CASE i = n
    <3>1. c.fate[i].slot = s /\ ms[i] = m
      BY <1>2, <1>5, <1>6, <2>4
    <3>2. \A j \in GamesOf(c) \ {i} : j \in GamesOf(b)
      BY <1>6, <2>4
    <3>. QED  BY <1>2, <1>3, <2>2, <2>3, <3>1, <3>2
  <2>5. CASE i \in GamesOf(b)
    <3>1. c.fate[i].slot = b.fate[i].slot
      BY <1>8, <2>5
    <3>2. /\ l.slot[b.fate[i].slot].week = ms[i].week
          /\ l.slot[b.fate[i].slot].division \in {ms[i].division, Shared}
          /\ Pair(ms[i]) \subseteq TeamsOf(l, ms[i].division)
          /\ \A j \in GamesOf(b) \ {i} :
                 ms[j].week = ms[i].week => Pair(ms[j]) \cap Pair(ms[i]) = {}
      BY <2>5 DEF TablesRight, RulesKept
    <3>3. \A j \in GamesOf(c) \ {i} :
              ms[j].week = ms[i].week => Pair(ms[j]) \cap Pair(ms[i]) = {}
      <4>1. SUFFICES ASSUME NEW j \in GamesOf(c) \ {i}, ms[j].week = ms[i].week
                     PROVE  Pair(ms[j]) \cap Pair(ms[i]) = {}
        OBVIOUS
      <4>2. CASE j = n
        BY <1>2, <2>3, <2>5, <4>1, <4>2
      <4>3. CASE j # n
        BY <1>6, <3>2, <4>1, <4>3
      <4>. QED  BY <4>2, <4>3
    <3>. QED  BY <2>2, <3>1, <3>2, <3>3
  <2>. QED  BY <1>6, <2>4, <2>5
<1>19. PICK d \in {m.division, Shared} :
           /\ s \in Open(l, b, m, d)
           /\ d = m.division \/ Open(l, b, m, m.division) = {}
           /\ \A r \in Open(l, b, m, d) : l.slot[r].priority <= l.slot[s].priority
           /\ \A r \in Open(l, b, m, d) : d = Shared /\ l.slot[r].priority = l.slot[s].priority
                                             => b.used[s][m.division] <= b.used[r][m.division]
  BY DEF Preferred
<1>20. l.slot[s].division = d
  BY <1>19 DEF Open, WithRoom, OfWeek
<1>21. \A e, r : r \in OfWeek(l, m, e) /\ r \notin Open(l, b, m, e)
                     => Filled(l, b, r) \/ Busy(l, ms, b, n, r)
  <2>1. SUFFICES ASSUME NEW e, NEW r \in OfWeek(l, m, e), r \notin Open(l, b, m, e)
                 PROVE  Filled(l, b, r) \/ Busy(l, ms, b, n, r)
    OBVIOUS
  <2>2. r \in OfWeek(l, ms[n], e) /\ r \notin Open(l, b, ms[n], e)
        /\ Pair(ms[n]) \subseteq DOMAIN l.team
    BY <1>2, <1>3, <2>1
  <2>3. n = Len(b.fate) + 1
    BY DEF n
  <2>. QED  BY <2>2, <2>3, NotOpen
<1>22. NoneBetter(l, ms, c)
  <2>1. SUFFICES ASSUME NEW i \in DOMAIN c.fate, NEW r \in Candidates(l, ms[i]),
                        c.fate[i].reason
                            \in {"none", "no-slot-available", "coach-scheduling-conflict"},
                        Better(l, c.fate[i], r)
                 PROVE  /\ Filled(l, c, r) \/ Busy(l, ms, c, i, r)
                        /\ c.fate[i].reason = "no-slot-available" => Filled(l, c, r)
    BY DEF NoneBetter
  <2>2. r \in DOMAIN l.slot
    BY DEF Candidates, OfWeek
  <2>3. CASE i \in DOMAIN b.fate
    <3>1. /\ Filled(l, b, r) \/ Busy(l, ms, b, i, r)
          /\ b.fate[i].reason = "no-slot-available" => Filled(l, b, r)
      BY <1>6, <2>1, <2>3 DEF TablesRight, NoneBetter
    <3>. QED  BY <1>6, <1>7, <2>2, <2>3, <3>1
  <2>4. CASE i = n
    <3>1. /\ r \in OfWeek(l, m, m.division) \/ r \in OfWeek(l, m, Shared)
          /\ c.fate[i].slot = s /\ c.fate[i].reason = "none"
      BY <1>2, <1>5, <1>6, <2>4 DEF Candidates
    <3>2. /\ \A e : r \in OfWeek(l, m, e) => l.slot[r].division = e
          /\ l.slot[r].priority \in Int /\ l.slot[s].priority \in Int
      BY <1>2, <2>2, LeagueFacts DEF OfWeek
    <3>3. CASE l.slot[r].division # Shared /\ l.slot[s].division = Shared
      <4>1. r \in OfWeek(l, m, m.division) /\ m.division # Shared /\ d = Shared
        BY <1>20, <3>1, <3>2, <3>3
      <4>2. r \notin Open(l, b, m, m.division)
        BY <1>19, <4>1
      <4>. QED  BY <1>7, <1>21, <2>2, <2>4, <3>1, <4>1, <4>2
    <3>4. CASE l.slot[r].division = l.slot[s].division /\ l.slot[r].priority > l.slot[s].priority
      <4>1. r \in OfWeek(l, m, d)
        BY <1>20, <3>1, <3>2, <3>4
      <4>2. r \notin Open(l, b, m, d)
        BY <1>19, <3>2, <3>4
      <4>. QED  BY <1>7, <1>21, <2>2, <2>4, <3>1, <4>1, <4>2
    <3>. QED  BY <1>2, <2>1, <3>1, <3>3, <3>4 DEF Better
  <2>. QED  BY <1>6, <2>3, <2>4
<1>23. Evenly(l, ms, c)
  <2>1. SUFFICES ASSUME NEW e \in Divisions(l), NEW x \in DOMAIN l.slot, NEW r \in DOMAIN l.slot,
                        Alike(l, x, r),
                        Cardinality(InSlotOf(ms, c, x, e)) > Cardinality(InSlotOf(ms, c, r, e)) + 1
                 PROVE  Filled(l, c, r) \/ \E i \in InSlotOf(ms, c, x, e) : Busy(l, ms, c, i, r)
    BY DEF Evenly
  <2> DEFINE X == InSlotOf(ms, b, x, e)
             R == InSlotOf(ms, b, r, e)
  <2>2. /\ Cardinality(X) \in Nat /\ Cardinality(X \cup {n}) = Cardinality(X) + 1
        /\ Cardinality(R) \in Nat /\ Cardinality(R \cup {n}) = Cardinality(R) + 1
    BY <1>9, <1>10
  <2>3. /\ InSlotOf(ms, c, x, e) = IF x = s /\ e = m.division THEN X \cup {n} ELSE X
        /\ InSlotOf(ms, c, r, e) = IF r = s /\ e = m.division THEN R \cup {n} ELSE R
    BY <1>13
  <2>4. Filled(l, b, r) => Filled(l, c, r)
    BY <1>7
  <2>5. X \subseteq InSlotOf(ms, c, x, e)
    BY <2>3
  <2>. HIDE DEF X, R
  <2>6. CASE Cardinality(X) > Cardinality(R) + 1
    <3>1. Filled(l, b, r) \/ \E i \in X : Busy(l, ms, b, i, r)
      BY <2>1, <2>6 DEF TablesRight, Evenly, X, R
    <3>. QED  BY <1>7, <2>4, <2>5, <3>1
  <2>7. CASE ~(Cardinality(X) > Cardinality(R) + 1)
    <3>1. x = s /\ e = m.division /\ r # s /\ Cardinality(X) > Cardinality(R)
      BY <2>1, <2>2, <2>3, <2>7
    <3>2. n \in InSlotOf(ms, c, x, e)
      BY <2>3, <3>1
    <3>3. d = Shared /\ l.slot[r].priority = l.slot[s].priority /\ r \in OfWeek(l, m, d)
      BY <1>2, <1>20, <2>1, <3>1 DEF Alike, OfWeek
    <3>4. b.used[s][e] = Cardinality(X) /\ b.used[r][e] = Cardinality(R)
      BY <1>2, <2>1, <3>1 DEF TablesRight, UseCounted, Alike, X, R
    <3>5. r \notin Open(l, b, m, d)
      <4>1. ~(b.used[s][e] <= b.used[r][e])
        BY <2>2, <3>1, <3>4
      <4>. QED  BY <1>19, <3>1, <3>3, <4>1
    <3>. QED  BY <1>7, <1>21, <2>4, <3>2, <3>3, <3>5
  <2>. QED  BY <2>6, <2>7
<1>. QED  BY <1>1, <1>11, <1>12, <1>14, <1>15, <1>18, <1>22, <1>23 DEF TablesRight


LEMMA NothingRight ==
    ASSUME NEW l, IsLeague(l), NEW ms
    PROVE  TablesRight(l, ms, Nothing(l))
<1> DEFINE b == Nothing(l)
<1>1. /\ b.fate = <<>> /\ b.playing = {}
      /\ b.room = [s \in DOMAIN l.slot |-> l.slot[s].capacity]
      /\ b.book = [c \in Coaches(l) |-> {}]
      /\ b.used = [s \in DOMAIN l.slot |-> [d \in Divisions(l) |-> 0]]
      /\ b.onField = [f \in Fields(l) |-> [d \in Divisions(l) |-> 0]]
      /\ b.liking = [t \in DOMAIN l.team |->
                        [counts |-> [k \in Minutes(l) |-> 0], preferred |-> NoLiking]]
      /\ b = [fate |-> b.fate, room |-> b.room, playing |-> b.playing, book |-> b.book,
              used |-> b.used, onField |-> b.onField, liking |-> b.liking]
  BY DEF Nothing, Fields
<1>. HIDE DEF b
<1>2. b \in Tables(l)
  <2>1. b.fate \in Seq(Fates(l))
    BY <1>1
  <2>2. b.room \in [DOMAIN l.slot -> Nat]
    BY <1>1, LeagueFacts
  <2>3. b.liking \in [DOMAIN l.team -> Likings(l)]
    BY <1>1 DEF Likings
  <2>4. /\ b.book \in [Coaches(l) -> SUBSET DOMAIN l.slot]
        /\ b.used \in [DOMAIN l.slot -> [Divisions(l) -> Nat]]
        /\ b.onField \in [Fields(l) -> [Divisions(l) -> Nat]]
        /\ b.playing \in SUBSET ((DOMAIN l.team) \X Nat)
    BY <1>1
  <2>. QED  BY <1>1, <2>1, <2>2, <2>3, <2>4 DEF Tables
<1>3. DOMAIN b.fate = {} /\ GamesOf(b) = {}
  BY <1>1 DEF GamesOf
<1>4. /\ \A s : InSlot(b, s) = {}
      /\ \A s, d : InSlotOf(ms, b, s, d) = {}
      /\ \A t, k : TimesAt(l, ms, b, t, k) = {}
  BY <1>3 DEF InSlot, InSlotOf, TimesAt
<1>5. Cardinality({}) = 0
  BY FS_EmptySet
<1>6. RoomCounted(l, b)
  <2>1. SUFFICES ASSUME NEW s \in DOMAIN l.slot
                 PROVE  b.room[s] + Cardinality(InSlot(b, s)) = l.slot[s].capacity
    BY DEF RoomCounted
  <2>2. b.room[s] = l.slot[s].capacity /\ l.slot[s].capacity \in Nat
    BY <1>1, LeagueFacts
  <2>3. Cardinality(InSlot(b, s)) = 0
    BY <1>4, <1>5
  <2>. QED  BY <2>2, <2>3
<1>7. Booked(l, ms, b)
  BY <1>1, <1>3 DEF Booked
<1>8. UseCounted(l, ms, b)
  <2>1. \A s, d : Cardinality(InSlotOf(ms, b, s, d)) = 0
    BY <1>4, <1>5
  <2>2. \A s \in DOMAIN l.slot, d \in Divisions(l) : b.used[s][d] = 0
    BY <1>1
  <2>. QED  BY <2>1, <2>2 DEF UseCounted
<1>9. TimesCounted(l, ms, b)
  <2>1. \A t, k : Cardinality(TimesAt(l, ms, b, t, k)) = 0
    BY <1>4, <1>5
  <2>2. \A t \in DOMAIN l.team : /\ \A k \in Minutes(l) : b.liking[t].counts[k] = 0
                                 /\ b.liking[t].preferred = NoLiking
    BY <1>1
  <2>. QED  BY <2>1, <2>2 DEF TimesCounted, Favours
<1>10. RulesKept(l, ms, b) /\ NoneBetter(l, ms, b)
  BY <1>3 DEF RulesKept, NoneBetter
<1>11. Evenly(l, ms, b)
  BY <1>4, <1>5 DEF Evenly
<1>. QED  BY <1>2, <1>6, <1>7, <1>8, <1>9, <1>10, <1>11 DEF TablesRight, b

\* scheduleMatchup, whatever becomes of the matchup.
LEMMA PlacedRight ==
    ASSUME NEW l, IsLeague(l), NEW ms, NEW b, TablesRight(l, ms, b), NEW m,
           m = ms[Len(b.fate) + 1]
    PROVE  TablesRight(l, ms, Placed(l, b, m))
<1> DEFINE own    == Open(l, b, m, m.division)
           shared == Open(l, b, m, Shared)
           roomy  == WithRoom(b, OfWeek(l, m, m.division) \cup OfWeek(l, m, Shared))
<1>1. b \in Tables(l)
  BY DEF TablesRight
<1>2. CASE Refusal(l, b, m) # "none"
  <2>1. Placed(l, b, m) = LeaveOut(b, Refusal(l, b, m))
    BY <1>2 DEF Placed
  <2>2. /\ Refusal(l, b, m) \in Reasons \ {"none"}
        /\ Refusal(l, b, m) \notin {"no-slot-available", "coach-scheduling-conflict"}
    BY <1>2 DEF Refusal, Reasons
  <2>3. Justified(l, ms, b, Refusal(l, b, m))
    BY <2>2 DEF Justified
  <2>. QED  BY <2>1, <2>2, <2>3, LeaveOutRight
<1>3. CASE Refusal(l, b, m) = "none"
  <2>1. Pair(m) \subseteq DOMAIN l.team /\ m.division \in Divisions(l)
    BY <1>3, NotRefused
  <2>2. ASSUME NEW d \in {m.division, Shared}, Open(l, b, m, d) # {},
               d = m.division \/ own = {}
        PROVE  TablesRight(l, ms, Book(l, b, m, Best(l, b, m, Open(l, b, m, d))))
    <3> DEFINE open == Open(l, b, m, d)
               s    == Best(l, b, m, open)
    <3>1. open \in SUBSET OfWeek(l, m, d) /\ open # {}
      BY <2>2 DEF Open, WithRoom
    <3>. HIDE DEF open
    <3>2. /\ s \in open
          /\ \A r \in open : l.slot[r].priority <= l.slot[s].priority
          /\ \A r \in open : d = Shared /\ l.slot[r].priority = l.slot[s].priority
                                => b.used[s][m.division] <= b.used[r][m.division]
      BY <1>1, <2>1, <3>1, BestFacts
    <3>. HIDE DEF s
    <3>3. Fitting(l, ms, b, m, s)
      BY <1>3, <3>2 DEF Fitting, Candidates, Open, WithRoom, open
    <3>4. Preferred(l, b, m, s)
      BY <2>2, <3>2 DEF Preferred, open
    <3>5. TablesRight(l, ms, Book(l, b, m, s))
      BY <3>3, <3>4, BookRight
    <3>. QED  BY <3>5 DEF s, open
  <2>3. CASE own # {}
    <3>1. Placed(l, b, m) = Book(l, b, m, Best(l, b, m, own))
      BY <1>3, <2>3 DEF Placed
    <3>. QED  BY <2>2, <2>3, <3>1
  <2>4. CASE own = {} /\ shared # {}
    <3>1. Placed(l, b, m) = Book(l, b, m, Best(l, b, m, shared))
      BY <1>3, <2>4 DEF Placed
    <3>. QED  BY <2>2, <2>4, <3>1
  <2>5. CASE own = {} /\ shared = {}
    <3> DEFINE reason == IF roomy # {} THEN "coach-scheduling-conflict" ELSE "no-slot-available"
    <3>1. Placed(l, b, m) = LeaveOut(b, reason) /\ reason \in Reasons \ {"none"}
      BY <1>3, <2>5 DEF Placed, Reasons
    <3>2. ASSUME NEW d, NEW s \in OfWeek(l, m, d), d \in {m.division, Shared}
          PROVE  /\ Filled(l, b, s) \/ Busy(l, ms, b, Len(b.fate) + 1, s)
                 /\ reason = "no-slot-available" => Filled(l, b, s)
      <4>1. s \notin Open(l, b, m, d)
        BY <2>5, <3>2
      <4>2. reason = "no-slot-available" => s \notin WithRoom(b, OfWeek(l, m, d))
        BY <3>2 DEF WithRoom
      <4>. HIDE DEF reason
      <4>3. /\ Filled(l, b, s) \/ Busy(l, ms, b, Len(b.fate) + 1, s)
            /\ s \notin WithRoom(b, OfWeek(l, m, d)) => Filled(l, b, s)
        BY <2>1, <3>2, <4>1, NotOpen
      <4>. QED  BY <4>2, <4>3
    <3>. HIDE DEF reason
    <3>3. Justified(l, ms, b, reason)
      BY <3>2 DEF Justified, Candidates
    <3>. QED  BY <3>1, <3>3, LeaveOutRight
  <2>. QED  BY <2>3, <2>4, <2>5
<1>. QED  BY <1>2, <1>3

-----------------------------------------------------------------------------
(* generateRoundRobinWeeks: lists and their rotation.                       *)

\* The list q names each element of S once.
Enumerates(q, S) ==
    /\ q \in [1 .. Cardinality(S) -> S]
    /\ \A i, j \in 1 .. Cardinality(S) : q[i] = q[j] => i = j
    /\ \A x \in S : \E i \in 1 .. Cardinality(S) : q[i] = x

LEMMA UpToSize ==
    ASSUME NEW n \in Nat
    PROVE  IsFiniteSet(1 .. n) /\ Cardinality(1 .. n) = n
<1>1. IsFiniteSet(1 .. n) /\ Cardinality(1 .. n) = IF 1 > n THEN 0 ELSE n - 1 + 1
  BY FS_Interval
<1>. QED  BY <1>1

CountBefore(S, R) == [x \in S |-> Cardinality({y \in S : <<y, x>> \in R})]

\* How many come before an element tells it from the others.
LEMMA RanksDiffer ==
    ASSUME NEW S, IsFiniteSet(S), NEW R, Ordered(S, R), NEW c, c = CountBefore(S, R)
    PROVE  /\ c \in [S -> 0 .. Cardinality(S) - 1]
           /\ \A x, y \in S : c[x] = c[y] => x = y
<1> DEFINE n == Cardinality(S)
           below(x) == {y \in S : <<y, x>> \in R}
<1>1. n \in Nat
  BY FS_CardinalityType
<1>2. ASSUME NEW x \in S PROVE IsFiniteSet(below(x)) /\ Cardinality(below(x)) \in 0 .. n - 1
  <2>1. below(x) \in SUBSET S /\ below(x) # S
    BY DEF Ordered
  <2>2. IsFiniteSet(below(x)) /\ Cardinality(below(x)) <= n /\ Cardinality(below(x)) # n
    <3>. HIDE DEF below
    <3>. QED  BY <2>1, FS_Subset
  <2>3. Cardinality(below(x)) \in Nat
    BY <2>2, FS_CardinalityType
  <2>. HIDE DEF below
  <2>. QED  BY <1>1, <2>2, <2>3
<1>3. ASSUME NEW x \in S, NEW y \in S, <<x, y>> \in R
      PROVE  Cardinality(below(x)) # Cardinality(below(y))
  <2>1. below(x) \in SUBSET below(y) /\ x \in below(y) /\ x \notin below(x)
    BY <1>3 DEF Ordered
  <2>2. below(x) # below(y)
    BY <2>1
  <2>3. IsFiniteSet(below(y))
    BY <1>2
  <2>. HIDE DEF below
  <2>. QED  BY <2>1, <2>2, <2>3, FS_Subset
<1>4. \A x \in S : c[x] = Cardinality(below(x))
  BY DEF CountBefore
<1>5. DOMAIN c = S /\ c = [x \in S |-> c[x]]
  BY DEF CountBefore
<1>6. \A x \in S : c[x] \in 0 .. n - 1
  BY <1>2, <1>4
<1>7. \A x, y \in S : c[x] = c[y] => x = y
  <2>. HIDE DEF below
  <2>. QED  BY <1>3, <1>4 DEF Ordered
<1>. QED  BY <1>5, <1>6, <1>7

\* What is listed by a number of its own is listed once each.
LEMMA RankLists ==
    ASSUME NEW S, IsFiniteSet(S), NEW c \in [S -> 0 .. Cardinality(S) - 1],
           \A x, y \in S : c[x] = c[y] => x = y,
           NEW q, q = [i \in 1 .. Cardinality(S) |-> q[i]],
           \A i \in 1 .. Cardinality(S) :
               (\E x \in S : c[x] = i - 1) => q[i] \in S /\ c[q[i]] = i - 1
    PROVE  Enumerates(q, S)
<1> DEFINE n == Cardinality(S)
           rank == [x \in S |-> c[x] + 1]
<1>1. n \in Nat
  BY FS_CardinalityType
<1>2. rank \in [S -> 1 .. n] /\ \A x, y \in S : rank[x] = rank[y] => x = y
  BY <1>1
<1>3. \A i \in 1 .. n : \E x \in S : rank[x] = i
  <2>. HIDE DEF rank
  <2>1. rank \in Injection(S, 1 .. n)
    BY <1>2 DEF Injection, IsInjective
  <2>2. IsFiniteSet(1 .. n) /\ Cardinality(1 .. n) = n
    BY <1>1, UpToSize
  <2>3. rank \in Surjection(S, 1 .. n)
    BY <2>1, <2>2, FS_Injection
  <2>. QED  BY <2>3 DEF Surjection
<1>4. \A i \in 1 .. n : q[i] \in S /\ c[q[i]] = i - 1
  <2>1. SUFFICES ASSUME NEW i \in 1 .. n PROVE \E x \in S : c[x] = i - 1
    OBVIOUS
  <2>2. PICK x \in S : rank[x] = i
    BY <1>3
  <2>. QED  BY <1>1, <2>2
<1>5. q \in [1 .. n -> S] /\ \A i, j \in 1 .. n : q[i] = q[j] => i = j
  BY <1>1, <1>4
<1>6. ASSUME NEW x \in S PROVE \E i \in 1 .. n : q[i] = x
  <2>1. c[x] + 1 \in 1 .. n /\ (c[x] + 1) - 1 = c[x]
    BY <1>1
  <2>2. q[c[x] + 1] \in S /\ c[q[c[x] + 1]] = c[x]
    BY <1>4, <2>1
  <2>. QED  BY <2>1, <2>2
<1>. QED  BY <1>5, <1>6 DEF Enumerates

LEMMA NumbersListed ==
    ASSUME NEW S, IsFiniteSet(S), S \subseteq Nat
    PROVE  Enumerates(InOrder(S, <), S)
<1> DEFINE R == {p \in S \X S : p[1] < p[2]}
           count(x) == Cardinality({y \in S : y < x})
           c == CountBefore(S, R)
           q == InOrder(S, <)
<1>1. \A x, y \in S : <<x, y>> \in R <=> x < y
  OBVIOUS
<1>2. q = [i \in 1 .. Cardinality(S) |-> CHOOSE x \in S : count(x) = i - 1]
  BY DEF InOrder
<1>3. \A x \in S : count(x) = c[x]
  <2>. HIDE DEF R
  <2>1. \A x \in S : {y \in S : y < x} = {y \in S : <<y, x>> \in R}
    BY <1>1
  <2>. QED  BY <2>1 DEF CountBefore
<1>4. Ordered(S, R)
  <2>1. /\ \A x \in S : ~(x < x)
        /\ \A x, y, z \in S : x < y /\ y < z => x < z
        /\ \A x, y \in S : x = y \/ x < y \/ y < x
    OBVIOUS
  <2>. HIDE DEF R
  <2>. QED  BY <1>1, <2>1 DEF Ordered
<1>5. c \in [S -> 0 .. Cardinality(S) - 1] /\ \A x, y \in S : c[x] = c[y] => x = y
  <2>. HIDE DEF R
  <2>. QED  BY <1>4, RanksDiffer
<1>. HIDE DEF R, count, c, q
<1>6. q = [i \in 1 .. Cardinality(S) |-> q[i]]
  BY <1>2
<1>7. ASSUME NEW i \in 1 .. Cardinality(S), \E x \in S : c[x] = i - 1
      PROVE  q[i] \in S /\ c[q[i]] = i - 1
  <2>1. q[i] = CHOOSE x \in S : count(x) = i - 1
    BY <1>2
  <2>2. \E x \in S : count(x) = i - 1
    BY <1>3, <1>7
  <2>3. q[i] \in S /\ count(q[i]) = i - 1
    BY <2>1, <2>2
  <2>. QED  BY <1>3, <2>3
<1>8. Enumerates(q, S)
  BY <1>5, <1>6, <1>7, RankLists
<1>. QED  BY <1>8 DEF q

LEMMA PairsListed ==
    ASSUME NEW S, IsFiniteSet(S), \A x \in S : x \in [1 .. 2 -> Int]
    PROVE  Enumerates(InOrder(S, Lexically), S)
<1> DEFINE R == {p \in S \X S : Lexically(p[1], p[2])}
           count(x) == Cardinality({y \in S : Lexically(y, x)})
           c == CountBefore(S, R)
           q == InOrder(S, Lexically)
<1>1. \A x, y \in S : <<x, y>> \in R <=> Lexically(x, y)
  OBVIOUS
<1>2. q = [i \in 1 .. Cardinality(S) |-> CHOOSE x \in S : count(x) = i - 1]
  BY DEF InOrder
<1>3. \A x \in S : count(x) = c[x]
  <2>. HIDE DEF R
  <2>1. \A x \in S : {y \in S : Lexically(y, x)} = {y \in S : <<y, x>> \in R}
    BY <1>1
  <2>. QED  BY <2>1 DEF CountBefore
<1>4. Ordered(S, R)
  <2>. HIDE DEF R
  <2>1. \A x \in S : <<x, x>> \notin R
    BY <1>1, LexicallyOrders
  <2>2. \A x, y, z \in S : <<x, y>> \in R /\ <<y, z>> \in R => <<x, z>> \in R
    BY <1>1, LexicallyTransitive
  <2>3. \A x, y \in S : x = y \/ <<x, y>> \in R \/ <<y, x>> \in R
    BY <1>1, LexicallyOrders
  <2>. QED  BY <2>1, <2>2, <2>3 DEF Ordered
<1>5. c \in [S -> 0 .. Cardinality(S) - 1] /\ \A x, y \in S : c[x] = c[y] => x = y
  <2>. HIDE DEF R
  <2>. QED  BY <1>4, RanksDiffer
<1>. HIDE DEF R, count, c, q
<1>6. q = [i \in 1 .. Cardinality(S) |-> q[i]]
  BY <1>2
<1>7. ASSUME NEW i \in 1 .. Cardinality(S), \E x \in S : c[x] = i - 1
      PROVE  q[i] \in S /\ c[q[i]] = i - 1
  <2>1. q[i] = CHOOSE x \in S : count(x) = i - 1
    BY <1>2
  <2>2. \E x \in S : count(x) = i - 1
    BY <1>3, <1>7
  <2>3. q[i] \in S /\ count(q[i]) = i - 1
    BY <2>1, <2>2
  <2>. QED  BY <1>3, <2>3
<1>8. Enumerates(q, S)
  BY <1>5, <1>6, <1>7, RankLists
<1>. QED  BY <1>8 DEF q

\* Where the element stood at first that is in place p in week w of n - 1.
Source(n, w, p) == IF p = 1 THEN 1 ELSE IF p > w THEN p - w + 1 ELSE p - w + n

\* Where the element is in week w that stood in place q at first.
Place(n, w, q) == IF q = 1 THEN 1 ELSE IF q + w <= n + 1 THEN q + w - 1 ELSE q + w - n

LEMMA PlaceAndSource ==
    ASSUME NEW n \in Nat, NEW w \in 1 .. n - 1, NEW p \in 1 .. n
    PROVE  /\ Source(n, w, p) \in 1 .. n /\ Place(n, w, Source(n, w, p)) = p
           /\ Place(n, w, p) \in 1 .. n /\ Source(n, w, Place(n, w, p)) = p
  BY DEF Source, Place

LEMMA TurnIs ==
    ASSUME NEW n \in Nat, n >= 2, NEW S, NEW r \in [1 .. n -> S]
    PROVE  Turn(r) = [p \in 1 .. n |-> IF p = 1 THEN r[1]
                                       ELSE IF p = 2 THEN r[n] ELSE r[p - 1]]
<1>1. r \in Seq(S) /\ Len(r) = n
  OBVIOUS
<1>2. r[1] \in S /\ r[n] \in S
  OBVIOUS
<1> DEFINE a == <<r[1], r[n]>>
           b == SubSeq(r, 2, n - 1)
           t == [p \in 1 .. n |-> IF p = 1 THEN r[1] ELSE IF p = 2 THEN r[n] ELSE r[p - 1]]
<1>3. a \in Seq(S) /\ Len(a) = 2 /\ a[1] = r[1] /\ a[2] = r[n]
  BY <1>2
<1>4. b \in Seq(S) /\ Len(b) = n - 2 /\ \A i \in 1 .. n - 2 : b[i] = r[i + 1]
  <2>1. \A i \in 2 .. n - 1 : r[i] \in S
    OBVIOUS
  <2>2. /\ SubSeq(r, 2, n - 1) \in Seq(S)
        /\ Len(SubSeq(r, 2, n - 1)) = IF 2 <= n - 1 THEN n - 1 - 2 + 1 ELSE 0
        /\ \A i \in 1 .. n - 1 - 2 + 1 : SubSeq(r, 2, n - 1)[i] = r[2 + i - 1]
    BY <2>1, SubSeqProperties
  <2>. QED  BY <2>2
<1>5. t \in Seq(S) /\ Len(t) = n
  <2>1. t \in [1 .. n -> S]
    OBVIOUS
  <2>. HIDE DEF t
  <2>. QED  BY <2>1
<1>. HIDE DEF a, b
<1>6. /\ a \o b \in Seq(S) /\ Len(a \o b) = n
      /\ \A i \in 1 .. n : (a \o b)[i] = IF i <= 2 THEN a[i] ELSE b[i - 2]
  <2>1. /\ a \o b \in Seq(S) /\ Len(a \o b) = Len(a) + Len(b)
        /\ \A i \in 1 .. Len(a) + Len(b) :
               (a \o b)[i] = IF i <= Len(a) THEN a[i] ELSE b[i - Len(a)]
    BY <1>3, <1>4, ConcatProperties
  <2>. QED  BY <1>3, <1>4, <2>1
<1>7. \A i \in 1 .. n : (a \o b)[i] = t[i]
  BY <1>3, <1>4, <1>6
<1>8. a \o b = t
  <2>. HIDE DEF t
  <2>. QED  BY <1>5, <1>6, <1>7, SeqEqual
<1>. QED  BY <1>1, <1>8 DEF Turn, a, b

\* After w - 1 turns of the list.
Turned(full, n, w) == [p \in 1 .. n |-> full[Source(n, w, p)]]

LEMMA TurnedOnce ==
    ASSUME NEW n \in Nat, NEW w \in 1 .. n - 2, NEW S, NEW full \in [1 .. n -> S]
    PROVE  Turn(Turned(full, n, w)) = Turned(full, n, w + 1)
<1>1. n >= 2 /\ Turned(full, n, w) \in [1 .. n -> S]
  BY PlaceAndSource DEF Turned
<1>2. ASSUME NEW p \in 1 .. n
      PROVE  Source(n, w + 1, p) = IF p = 1 THEN Source(n, w, 1)
                                   ELSE IF p = 2 THEN Source(n, w, n) ELSE Source(n, w, p - 1)
  BY DEF Source
<1> DEFINE r == Turned(full, n, w)
<1>3. Turn(r) = [p \in 1 .. n |-> IF p = 1 THEN r[1] ELSE IF p = 2 THEN r[n] ELSE r[p - 1]]
  <2>. HIDE DEF r
  <2>1. r \in [1 .. n -> S]
    BY <1>1 DEF r
  <2>. QED  BY <1>1, <2>1, TurnIs
<1>4. ASSUME NEW p \in 1 .. n
      PROVE  (IF p = 1 THEN r[1] ELSE IF p = 2 THEN r[n] ELSE r[p - 1]) = full[Source(n, w + 1, p)]
  <2>1. \A i \in 1 .. n : r[i] = full[Source(n, w, i)]
    BY DEF Turned
  <2>2. 1 \in 1 .. n /\ n \in 1 .. n /\ (p # 1 => p - 1 \in 1 .. n)
    BY <1>1
  <2>. HIDE DEF r
  <2>. QED  BY <1>2, <2>1, <2>2
<1>. HIDE DEF r
<1>5. Turn(r) = Turned(full, n, w + 1)
  BY <1>3, <1>4 DEF Turned
<1>. QED  BY <1>5 DEF r

\* What the rotations are defined by, and what they are.
IsRotation(f, full, n) ==
    f = [w \in 1 .. n - 1 |-> IF w = 1 THEN full ELSE Turn(f[w - 1])]
Rotation(full, n) == CHOOSE f : IsRotation(f, full, n)

LEMMA RotationIs ==
    ASSUME NEW n \in Nat, n >= 2, NEW full \in [1 .. n -> Nat],
           NEW f, f = Rotation(full, n)
    PROVE  \A w \in 1 .. n - 1 : f[w] = Turned(full, n, w)
<1> DEFINE g == [w \in 1 .. n - 1 |-> Turned(full, n, w)]
<1>1. Turned(full, n, 1) = full
  <2>1. \A p \in 1 .. n : Source(n, 1, p) = p
    BY DEF Source
  <2>. QED  BY <2>1 DEF Turned
<1>2. \A w \in 1 .. n - 1 : w # 1 => Turn(Turned(full, n, w - 1)) = Turned(full, n, w)
  <2>1. SUFFICES ASSUME NEW w \in 1 .. n - 1, w # 1
                 PROVE  Turn(Turned(full, n, w - 1)) = Turned(full, n, w)
    OBVIOUS
  <2>2. w - 1 \in 1 .. n - 2 /\ (w - 1) + 1 = w
    BY <2>1
  <2>3. Turn(Turned(full, n, w - 1)) = Turned(full, n, (w - 1) + 1)
    BY <2>2, TurnedOnce
  <2>. QED  BY <2>2, <2>3
<1>3. \A w \in 1 .. n - 1 : w # 1 => w - 1 \in 1 .. n - 1
  OBVIOUS
<1>4. IsRotation(g, full, n)
  BY <1>1, <1>2, <1>3 DEF IsRotation
<1>5. IsRotation(f, full, n)
  BY <1>4 DEF Rotation
<1>. HIDE DEF g
<1> DEFINE T == {w \in 1 .. n - 1 : f[w] # Turned(full, n, w)}
<1>6. SUFFICES ASSUME T # {} PROVE FALSE
  OBVIOUS
<1>7. PICK w \in T : \A v \in T : w <= v
  <2>1. T \subseteq Nat
    OBVIOUS
  <2>. HIDE DEF T
  <2>. QED  BY <1>6, <2>1, LeastNumber
<1>8. f[w] = IF w = 1 THEN full ELSE Turn(f[w - 1])
  BY <1>5 DEF IsRotation
<1>9. w # 1
  BY <1>1, <1>7, <1>8
<1>10. w - 1 \in 1 .. n - 1 /\ ~(w <= w - 1)
  BY <1>3, <1>9
<1>11. f[w - 1] = Turned(full, n, w - 1)
  BY <1>7, <1>10
<1>. QED  BY <1>2, <1>7, <1>8, <1>9, <1>11

\* Places facing each other in week w: those of a and b at first.
Facing(n, w, a, b) == Place(n, w, a) + Place(n, w, b) = n + 1

\* The circle method: with an even number of places any two face each other in
\* one week and in no other.
LEMMA FacingOnce ==
    ASSUME NEW h \in Nat, NEW n \in Nat, n = 2 * h,
           NEW a \in 1 .. n, NEW b \in 1 .. n, a < b
    PROVE  \E w \in 1 .. n - 1 : \A v \in 1 .. n - 1 : Facing(n, v, a, b) <=> v = w
<1>1. CASE a = 1
  <2>1. n + 1 - b \in 1 .. n - 1
    BY <1>1
  <2>2. \A v \in 1 .. n - 1 : Facing(n, v, a, b) <=> v = n + 1 - b
    BY <1>1 DEF Facing, Place
  <2>. QED  BY <2>1, <2>2
<1>2. CASE a # 1
  <2>1. PICK c \in Nat : a + b = 2 * c \/ a + b = 2 * c + 1
    <3>1. (a + b) \div 2 \in Nat
      OBVIOUS
    <3>2. a + b = 2 * ((a + b) \div 2) \/ a + b = 2 * ((a + b) \div 2) + 1
      OBVIOUS
    <3>. QED  BY <3>1, <3>2
  <2>2. CASE a + b = 2 * c
    <3>1. n + 1 - c \in 1 .. n - 1
      BY <1>2, <2>2
    <3>2. ASSUME NEW v \in 1 .. n - 1
          PROVE  Facing(n, v, a, b) <=> v = n + 1 - c
      BY <1>2, <2>2 DEF Facing, Place
    <3>. QED  BY <3>1, <3>2
  <2>3. CASE a + b = 2 * c + 1 /\ c <= h
    <3>1. h + 1 - c \in 1 .. n - 1
      BY <1>2, <2>3
    <3>2. ASSUME NEW v \in 1 .. n - 1
          PROVE  Facing(n, v, a, b) <=> v = h + 1 - c
      BY <1>2, <2>3 DEF Facing, Place
    <3>. QED  BY <3>1, <3>2
  <2>4. CASE a + b = 2 * c + 1 /\ c > h
    <3>1. n + h - c \in 1 .. n - 1
      BY <1>2, <2>4
    <3>2. ASSUME NEW v \in 1 .. n - 1
          PROVE  Facing(n, v, a, b) <=> v = n + h - c
      BY <1>2, <2>4 DEF Facing, Place
    <3>. QED  BY <3>1, <3>2
  <2>. QED  BY <2>1, <2>2, <2>3, <2>4
<1>. QED  BY <1>1, <1>2

\* A week of WeekOf: who is next to whom, and the matchups without their order.
Opposite(r, i) == {r[i], r[Len(r) + 1 - i]}
OrderedPair(p) == CHOOSE m \in p \X p : m[1] < m[2]
MeetingsOf(r)  == {i \in 1 .. Len(r) \div 2 : Bye \notin Opposite(r, i)}
MatchupsOf(r)  == {OrderedPair(Opposite(r, i)) : i \in MeetingsOf(r)}
HeldIn(week)   == {{m[1], m[2]} : m \in {week.matchups[i] : i \in DOMAIN week.matchups}}
WeekReads(r, h) ==
    /\ WeekOf(r).matchups \in Seq(Nat \X Nat)
    /\ HeldIn(WeekOf(r)) = {Opposite(r, i) : i \in MeetingsOf(r)}
    /\ WeekOf(r).byes =
           UNION {Opposite(r, i) \ {Bye} : i \in {k \in 1 .. h : Bye \in Opposite(r, k)}}

LEMMA OrderedPairIs ==
    ASSUME NEW x \in Nat, NEW y \in Nat, x # y, NEW m, m = OrderedPair({x, y})
    PROVE  m \in Nat \X Nat /\ m \in [1 .. 2 -> Int] /\ {m[1], m[2]} = {x, y}
<1>1. \E k \in {x, y} \X {x, y} : k[1] < k[2]
  <2>1. x < y \/ y < x
    OBVIOUS
  <2>2. <<x, y>> \in {x, y} \X {x, y} /\ <<y, x>> \in {x, y} \X {x, y}
    OBVIOUS
  <2>. QED  BY <2>1, <2>2
<1>2. m \in {x, y} \X {x, y} /\ m[1] < m[2]
  BY <1>1 DEF OrderedPair
<1>3. m = <<m[1], m[2]>> /\ m[1] \in {x, y} /\ m[2] \in {x, y}
  BY <1>2
<1>4. m \in [1 .. 2 -> Int]
  BY <1>3
<1>5. m \in Nat \X Nat
  BY <1>3
<1>. QED  BY <1>2, <1>3, <1>4, <1>5

LEMMA WeekIs ==
    ASSUME NEW h \in Nat, NEW n \in Nat, n = 2 * h, NEW r \in [1 .. n -> Nat],
           \A i, j \in 1 .. n : r[i] = r[j] => i = j
    PROVE  WeekReads(r, h)
<1>1. Len(r) = n /\ Len(r) \div 2 = h
  OBVIOUS
<1>2. \A i \in MeetingsOf(r) :
          /\ OrderedPair(Opposite(r, i)) \in Nat \X Nat
          /\ OrderedPair(Opposite(r, i)) \in [1 .. 2 -> Int]
          /\ {OrderedPair(Opposite(r, i))[1], OrderedPair(Opposite(r, i))[2]} = Opposite(r, i)
  <2>1. SUFFICES ASSUME NEW i \in MeetingsOf(r), NEW m, m = OrderedPair(Opposite(r, i))
                 PROVE  /\ m \in Nat \X Nat /\ m \in [1 .. 2 -> Int]
                        /\ {m[1], m[2]} = Opposite(r, i)
    OBVIOUS
  <2>2. i \in 1 .. n /\ n + 1 - i \in 1 .. n /\ i # n + 1 - i
    BY <1>1 DEF MeetingsOf
  <2>3. Opposite(r, i) = {r[i], r[n + 1 - i]}
    BY <1>1 DEF Opposite
  <2>4. r[i] \in Nat /\ r[n + 1 - i] \in Nat /\ r[i] # r[n + 1 - i]
    BY <2>2
  <2>. QED  BY <2>1, <2>3, <2>4, OrderedPairIs
<1>3. IsFiniteSet(MatchupsOf(r))
  <2> DEFINE pair == [i \in MeetingsOf(r) |-> OrderedPair(Opposite(r, i))]
  <2>1. IsFiniteSet(MeetingsOf(r))
    <3>1. IsFiniteSet(1 .. h) /\ MeetingsOf(r) \in SUBSET (1 .. h)
      BY <1>1, UpToSize DEF MeetingsOf
    <3>. QED  BY <3>1, FS_Subset
  <2>2. pair \in Surjection(MeetingsOf(r), MatchupsOf(r))
    BY DEF Surjection, MatchupsOf
  <2>. HIDE DEF pair
  <2>. QED  BY <2>1, <2>2, FS_Surjection
<1>4. WeekOf(r).matchups = InOrder(MatchupsOf(r), Lexically)
  BY DEF WeekOf, MatchupsOf, MeetingsOf, Opposite, OrderedPair
<1>5. WeekOf(r).byes =
          UNION {Opposite(r, i) \ {Bye} : i \in {k \in 1 .. h : Bye \in Opposite(r, k)}}
  BY <1>1 DEF WeekOf, Opposite
<1>6. \A m \in MatchupsOf(r) : m \in [1 .. 2 -> Int]
  BY <1>2 DEF MatchupsOf
<1> DEFINE q == InOrder(MatchupsOf(r), Lexically)
<1>7. Enumerates(q, MatchupsOf(r))
  BY <1>3, <1>6, PairsListed
<1>. HIDE DEF q
<1>8. {q[i] : i \in DOMAIN q} = MatchupsOf(r)
  BY <1>7 DEF Enumerates
<1>9. HeldIn(WeekOf(r)) = {{m[1], m[2]} : m \in MatchupsOf(r)}
  <2>1. WeekOf(r).matchups = q
    BY <1>4 DEF q
  <2>2. HeldIn(WeekOf(r)) = {{m[1], m[2]} : m \in {q[i] : i \in DOMAIN q}}
    BY <2>1 DEF HeldIn
  <2>. QED  BY <1>8, <2>2
<1>10. {{m[1], m[2]} : m \in MatchupsOf(r)} = {Opposite(r, i) : i \in MeetingsOf(r)}
  <2>1. ASSUME NEW m \in MatchupsOf(r)
        PROVE  {m[1], m[2]} \in {Opposite(r, i) : i \in MeetingsOf(r)}
    BY <1>2 DEF MatchupsOf
  <2>2. ASSUME NEW i \in MeetingsOf(r)
        PROVE  \E m \in MatchupsOf(r) : Opposite(r, i) = {m[1], m[2]}
    BY <1>2 DEF MatchupsOf
  <2> DEFINE M == MatchupsOf(r)
             I == MeetingsOf(r)
  <2>. HIDE DEF M, I
  <2>3. {{m[1], m[2]} : m \in M} \subseteq {Opposite(r, i) : i \in I}
    BY <2>1 DEF M, I
  <2>4. {Opposite(r, i) : i \in I} \subseteq {{m[1], m[2]} : m \in M}
    BY <2>2 DEF M, I
  <2>. QED  BY <2>3, <2>4 DEF M, I
<1>11. q \in Seq(Nat \X Nat)
  <2>1. MatchupsOf(r) \subseteq Nat \X Nat
    BY <1>2 DEF MatchupsOf
  <2>2. q \in [1 .. Cardinality(MatchupsOf(r)) -> Nat \X Nat]
    BY <1>7, <2>1 DEF Enumerates
  <2>3. Cardinality(MatchupsOf(r)) \in Nat
    BY <1>3, FS_CardinalityType
  <2>. QED  BY <2>2, <2>3, IsASeq
<1>12. WeekOf(r).matchups \in Seq(Nat \X Nat)
  BY <1>4, <1>11 DEF q
<1>. QED  BY <1>5, <1>9, <1>10, <1>12 DEF WeekReads

\* One to one, on an even number of places.
Circle(full, n) ==
    /\ n \in Nat /\ \E h \in Nat : n = 2 * h
    /\ full \in [1 .. n -> Nat]
    /\ \A a, b \in 1 .. n : full[a] = full[b] => a = b

LEMMA FacingOne ==
    ASSUME NEW h \in Nat, NEW n \in Nat, n = 2 * h, NEW w \in 1 .. n - 1, NEW a \in 1 .. n
    PROVE  \E b \in 1 .. n : b # a /\ \A c \in 1 .. n : Facing(n, w, a, c) <=> c = b
<1> DEFINE b == Source(n, w, n + 1 - Place(n, w, a))
<1>1. Place(n, w, a) \in 1 .. n /\ n + 1 - Place(n, w, a) \in 1 .. n
  <2>1. Place(n, w, a) \in 1 .. n
    BY PlaceAndSource
  <2>. QED  BY <2>1
<1>2. b \in 1 .. n /\ Place(n, w, b) = n + 1 - Place(n, w, a)
  BY <1>1, PlaceAndSource
<1>3. \A c \in 1 .. n : Place(n, w, c) \in 1 .. n /\ Source(n, w, Place(n, w, c)) = c
  BY PlaceAndSource
<1>. HIDE DEF b
<1>4. b # a
  BY <1>1, <1>2
<1>5. ASSUME NEW c \in 1 .. n, Facing(n, w, a, c) PROVE c = b
  <2>1. Place(n, w, c) = Place(n, w, b)
    BY <1>1, <1>2, <1>3, <1>5 DEF Facing
  <2>. QED  BY <1>2, <1>3, <2>1
<1>6. Facing(n, w, a, b)
  BY <1>1, <1>2 DEF Facing
<1>7. \A c \in 1 .. n : Facing(n, w, a, c) <=> c = b
  BY <1>5, <1>6
<1>8. b \in 1 .. n
  BY <1>2
<1>. QED  BY <1>4, <1>7, <1>8

\* Every week is one of WeekIs.
LEMMA TurnedReads ==
    ASSUME NEW n, NEW full, Circle(full, n), NEW h \in Nat, n = 2 * h, NEW w \in 1 .. n - 1
    PROVE  WeekReads(Turned(full, n, w), h)
<1> DEFINE r == Turned(full, n, w)
<1>1. n \in Nat /\ \A a \in 1 .. n : full[a] \in Nat
  BY DEF Circle
<1>2. \A p \in 1 .. n : Source(n, w, p) \in 1 .. n /\ Place(n, w, Source(n, w, p)) = p
  BY <1>1, PlaceAndSource
<1>3. r \in [1 .. n -> Nat] /\ \A p \in 1 .. n : r[p] = full[Source(n, w, p)]
  BY <1>1, <1>2 DEF Turned
<1>. HIDE DEF r
<1>4. \A i, j \in 1 .. n : r[i] = r[j] => i = j
  BY <1>2, <1>3 DEF Circle
<1>5. n \in Nat /\ r \in [1 .. n -> Nat]
  BY <1>1, <1>3
<1>6. WeekReads(r, h)
  BY <1>4, <1>5, WeekIs
<1>. QED  BY <1>6 DEF r

\* Who meets in a week, and who has a bye.
LEMMA CircleWeek ==
    ASSUME NEW n, NEW full, Circle(full, n), NEW w \in 1 .. n - 1,
           NEW week, week = WeekOf(Turned(full, n, w))
    PROVE  /\ \A a, b \in 1 .. n :
                  a # b /\ full[a] # Bye /\ full[b] # Bye =>
                      ({full[a], full[b]} \in HeldIn(week) <=> Facing(n, w, a, b))
           /\ \A p \in HeldIn(week) : \E a, b \in 1 .. n :
                  /\ p = {full[a], full[b]} /\ Facing(n, w, a, b)
                  /\ a # b /\ full[a] # Bye /\ full[b] # Bye
           /\ \A a \in 1 .. n :
                  full[a] # Bye =>
                      (full[a] \in week.byes
                           <=> \E b \in 1 .. n : full[b] = Bye /\ Facing(n, w, a, b))
<1> DEFINE r == Turned(full, n, w)
<1>1. PICK h \in Nat : n = 2 * h
  BY DEF Circle
<1>2. n \in Nat /\ \A a \in 1 .. n : full[a] \in Nat
  BY DEF Circle
<1>3. /\ \A p \in 1 .. n : Source(n, w, p) \in 1 .. n /\ Place(n, w, Source(n, w, p)) = p
      /\ \A a \in 1 .. n : Place(n, w, a) \in 1 .. n /\ Source(n, w, Place(n, w, a)) = a
  BY <1>2, PlaceAndSource
<1>4. r \in [1 .. n -> Nat] /\ \A p \in 1 .. n : r[p] = full[Source(n, w, p)]
  BY <1>2, <1>3 DEF Turned
<1>. HIDE DEF r
<1>5. \A a \in 1 .. n : r[Place(n, w, a)] = full[a]
  BY <1>3, <1>4
<1>6. /\ HeldIn(week) = {Opposite(r, i) : i \in MeetingsOf(r)}
      /\ week.byes = UNION {Opposite(r, i) \ {Bye} : i \in {k \in 1 .. h : Bye \in Opposite(r, k)}}
  <2>1. WeekReads(Turned(full, n, w), h)
    BY <1>1, TurnedReads
  <2>. QED  BY <2>1 DEF WeekReads, r
<1>7. Len(r) = n /\ Len(r) \div 2 = h /\ \A i \in 1 .. h : i \in 1 .. n /\ n + 1 - i \in 1 .. n
  BY <1>1, <1>4
<1>8. \A i \in 1 .. h : \E a, b \in 1 .. n :
          /\ Opposite(r, i) = {full[a], full[b]} /\ Facing(n, w, a, b) /\ a # b
  <2>1. SUFFICES ASSUME NEW i \in 1 .. h
                 PROVE  \E a, b \in 1 .. n :
                            /\ Opposite(r, i) = {full[a], full[b]} /\ Facing(n, w, a, b) /\ a # b
    OBVIOUS
  <2> DEFINE a == Source(n, w, i)
             b == Source(n, w, n + 1 - i)
  <2>2. a \in 1 .. n /\ b \in 1 .. n /\ Place(n, w, a) = i /\ Place(n, w, b) = n + 1 - i
    BY <1>3, <1>7
  <2>3. Opposite(r, i) = {full[a], full[b]}
    BY <1>4, <1>7 DEF Opposite
  <2>. HIDE DEF a, b
  <2>4. i + (n + 1 - i) = n + 1 /\ i # n + 1 - i
    BY <1>1
  <2>5. Facing(n, w, a, b) /\ a # b
    BY <2>2, <2>4 DEF Facing
  <2>. QED  BY <2>2, <2>3, <2>5
<1>9. ASSUME NEW a \in 1 .. n, NEW b \in 1 .. n, Facing(n, w, a, b)
       PROVE  \E i \in 1 .. h : Opposite(r, i) = {full[a], full[b]}
  <2>1. /\ Place(n, w, a) \in 1 .. n /\ Place(n, w, b) \in 1 .. n
        /\ Place(n, w, a) + Place(n, w, b) = n + 1
    BY <1>3, <1>9 DEF Facing
  <2>2. CASE Place(n, w, a) \in 1 .. h
    <3>1. Place(n, w, b) = n + 1 - Place(n, w, a)
      BY <2>1, <1>2
    <3>. QED  BY <1>5, <1>7, <2>2, <3>1 DEF Opposite
  <2>3. CASE Place(n, w, b) \in 1 .. h
    <3>1. Place(n, w, a) = n + 1 - Place(n, w, b)
      BY <2>1, <1>2
    <3>2. Opposite(r, Place(n, w, b)) = {full[b], full[a]}
      BY <1>5, <1>7, <3>1 DEF Opposite
    <3>. QED  BY <2>3, <3>2
  <2>. QED  BY <1>1, <2>1, <2>2, <2>3
<1>10. ASSUME NEW a \in 1 .. n, NEW b \in 1 .. n, NEW c \in 1 .. n, NEW d \in 1 .. n,
              {full[a], full[b]} = {full[c], full[d]}, Facing(n, w, c, d), a # b
       PROVE  Facing(n, w, a, b)
  <2>1. (a = c /\ b = d) \/ (a = d /\ b = c)
    BY <1>10 DEF Circle
  <2>2. Facing(n, w, d, c)
    BY <1>2, <1>3, <1>10 DEF Facing
  <2>. QED  BY <1>10, <2>1, <2>2
<1>11. ASSUME NEW a \in 1 .. n, NEW b \in 1 .. n, a # b, full[a] # Bye, full[b] # Bye
       PROVE  {full[a], full[b]} \in HeldIn(week) <=> Facing(n, w, a, b)
  <2>1. ASSUME Facing(n, w, a, b) PROVE {full[a], full[b]} \in HeldIn(week)
    <3>1. PICK i \in 1 .. h : Opposite(r, i) = {full[a], full[b]}
      BY <1>9, <2>1
    <3>2. i \in MeetingsOf(r)
      BY <1>7, <1>11, <3>1 DEF MeetingsOf
    <3>. QED  BY <1>6, <3>1, <3>2
  <2>2. ASSUME {full[a], full[b]} \in HeldIn(week) PROVE Facing(n, w, a, b)
    <3>1. PICK i \in MeetingsOf(r) : {full[a], full[b]} = Opposite(r, i)
      BY <1>6, <2>2
    <3>2. i \in 1 .. h
      BY <1>7 DEF MeetingsOf
    <3>3. PICK c \in 1 .. n, d \in 1 .. n :
                Opposite(r, i) = {full[c], full[d]} /\ Facing(n, w, c, d) /\ c # d
      BY <1>8, <3>2
    <3>. QED  BY <1>10, <1>11, <3>1, <3>3
  <2>. QED  BY <2>1, <2>2
<1>12. ASSUME NEW p \in HeldIn(week)
       PROVE  \E a, b \in 1 .. n :
                  /\ p = {full[a], full[b]} /\ Facing(n, w, a, b)
                  /\ a # b /\ full[a] # Bye /\ full[b] # Bye
  <2>1. PICK i \in MeetingsOf(r) : p = Opposite(r, i)
    BY <1>6
  <2>2. i \in 1 .. h /\ Bye \notin Opposite(r, i)
    BY <1>7 DEF MeetingsOf
  <2>3. PICK a \in 1 .. n, b \in 1 .. n :
              Opposite(r, i) = {full[a], full[b]} /\ Facing(n, w, a, b) /\ a # b
    BY <1>8, <2>2
  <2>. QED  BY <2>1, <2>2, <2>3
<1>13. ASSUME NEW a \in 1 .. n, full[a] # Bye
       PROVE  full[a] \in week.byes <=> \E b \in 1 .. n : full[b] = Bye /\ Facing(n, w, a, b)
  <2>1. ASSUME NEW b \in 1 .. n, full[b] = Bye, Facing(n, w, a, b) PROVE full[a] \in week.byes
    <3>1. PICK i \in 1 .. h : Opposite(r, i) = {full[a], full[b]}
      BY <1>9, <2>1
    <3>. QED  BY <1>6, <1>13, <2>1, <3>1
  <2>2. ASSUME full[a] \in week.byes
        PROVE  \E b \in 1 .. n : full[b] = Bye /\ Facing(n, w, a, b)
    <3>1. PICK i \in 1 .. h : full[a] \in Opposite(r, i) /\ Bye \in Opposite(r, i)
      BY <1>6, <2>2
    <3>2. PICK c \in 1 .. n, d \in 1 .. n :
                Opposite(r, i) = {full[c], full[d]} /\ Facing(n, w, c, d) /\ c # d
      BY <1>8
    <3>3. (full[a] = full[c] /\ full[d] = Bye) \/ (full[a] = full[d] /\ full[c] = Bye)
      BY <1>13, <3>1, <3>2
    <3>4. Facing(n, w, d, c)
      BY <1>2, <1>3, <3>2 DEF Facing
    <3>. QED  BY <3>2, <3>3, <3>4 DEF Circle
  <2>. QED  BY <2>1, <2>2
<1>. QED  BY <1>11, <1>12, <1>13

\* The list that turns: the teams and, when they are odd, the bye.
Seats(ids) ==
    IF Cardinality(ids) % 2 = 1 THEN Append(InOrder(ids, <), Bye) ELSE InOrder(ids, <)

Seated(full, n, ids) ==
    /\ Circle(full, n) /\ Len(full) = n /\ n >= 2
    /\ \A x \in ids : \E a \in 1 .. n : full[a] = x
    /\ \A a \in 1 .. n : full[a] \in ids \cup {Bye}
    /\ Cardinality(ids) % 2 = 1 <=> \E a \in 1 .. n : full[a] = Bye

LEMMA SeatsFacts ==
    ASSUME NEW ids, IsFiniteSet(ids), ids \subseteq Nat \ {0}, Cardinality(ids) >= 2,
           NEW full, full = Seats(ids)
    PROVE  Seated(full, Len(full), ids)
<1> DEFINE c == Cardinality(ids)
           q == InOrder(ids, <)
<1>1. Enumerates(q, ids)
  <2>1. ids \subseteq Nat
    OBVIOUS
  <2>. QED  BY <2>1, NumbersListed
<1>2. full = IF c % 2 = 1 THEN Append(q, Bye) ELSE q
  BY DEF Seats
<1>3. c \in Nat /\ c >= 2
  BY FS_CardinalityType
<1>4. /\ q \in [1 .. c -> ids]
      /\ \A i, j \in 1 .. c : q[i] = q[j] => i = j
      /\ \A x \in ids : \E i \in 1 .. c : q[i] = x
  <2>. HIDE DEF q
  <2>. QED  BY <1>1 DEF Enumerates
<1>. HIDE DEF q, c
<1>5. \A i \in 1 .. c : q[i] \in ids /\ q[i] \in Nat /\ q[i] # Bye
  BY <1>4 DEF Bye
<1>6. CASE c % 2 = 1
  <2>1. q \in Seq(Nat) /\ Len(q) = c
    BY <1>3, <1>4, <1>5
  <2>2. Bye \in Nat
    BY DEF Bye
  <2>3. /\ full \in [1 .. c + 1 -> Nat] /\ Len(full) = c + 1
        /\ \A i \in 1 .. c : full[i] = q[i]
        /\ full[c + 1] = Bye
    <3>1. /\ Append(q, Bye) \in Seq(Nat) /\ Len(Append(q, Bye)) = c + 1
          /\ \A i \in 1 .. c : Append(q, Bye)[i] = q[i]
          /\ Append(q, Bye)[c + 1] = Bye
      BY <2>1, <2>2, AppendProperties
    <3>2. full = Append(q, Bye)
      BY <1>2, <1>6
    <3>3. full \in Seq(Nat) /\ Len(full) = c + 1
      BY <3>1, <3>2
    <3>4. full \in [1 .. c + 1 -> Nat]
      BY <3>3, LenProperties
    <3>. QED  BY <3>1, <3>2, <3>3, <3>4
  <2>4. \E h \in Nat : c + 1 = 2 * h
    <3>1. PICK k \in Nat : c = 2 * k + 1
      <4>1. c = 2 * (c \div 2) + 1 /\ c \div 2 \in Nat
        BY <1>3, <1>6
      <4>. QED  BY <4>1
    <3>2. k + 1 \in Nat /\ c + 1 = 2 * (k + 1)
      BY <3>1
    <3>. QED  BY <3>2
  <2>5. \A i \in 1 .. c + 1 : i \in 1 .. c \/ i = c + 1
    BY <1>3
  <2>6. \A i, j \in 1 .. c + 1 : full[i] = full[j] => i = j
    BY <1>4, <1>5, <2>3, <2>5
  <2>7. Circle(full, c + 1)
    BY <1>3, <2>3, <2>4, <2>6 DEF Circle
  <2>8. c + 1 \in 1 .. c + 1 /\ \A i \in 1 .. c : i \in 1 .. c + 1
    BY <1>3
  <2>9. /\ \A x \in ids : \E a \in 1 .. c + 1 : full[a] = x
        /\ \A a \in 1 .. c + 1 : full[a] \in ids \cup {Bye}
    BY <1>4, <1>5, <2>3, <2>5, <2>8
  <2>10. c + 1 >= 2
    BY <1>3
  <2>. QED  BY <1>6, <2>3, <2>7, <2>8, <2>9, <2>10 DEF Seated, c
<1>7. CASE c % 2 # 1
  <2>1. full = q /\ Len(full) = c
    BY <1>2, <1>3, <1>4, <1>7
  <2>2. \E h \in Nat : c = 2 * h
    <3>1. c = 2 * (c \div 2) /\ c \div 2 \in Nat
      BY <1>3, <1>7
    <3>. QED  BY <3>1
  <2>3. full \in [1 .. c -> Nat]
    BY <1>4, <1>5, <2>1
  <2>4. Circle(full, c)
    BY <1>3, <1>4, <2>1, <2>2, <2>3 DEF Circle
  <2>. QED  BY <1>3, <1>4, <1>5, <1>7, <2>1, <2>4 DEF Seated, c
<1>. QED  BY <1>6, <1>7

LEMMA WeeksAre ==
    ASSUME NEW ids, NEW full, full = Seats(ids), NEW n, Seated(full, n, ids)
    PROVE  RoundRobinWeeks(ids) = [w \in 1 .. n - 1 |-> WeekOf(Turned(full, n, w))]
<1>1. n \in Nat /\ n >= 2 /\ full \in [1 .. n -> Nat] /\ Len(full) = n
  BY DEF Seated, Circle
<1>2. ASSUME NEW f, f = Rotation(full, n)
      PROVE  \A w \in 1 .. n - 1 : f[w] = Turned(full, n, w)
  BY <1>1, <1>2, RotationIs
<1>3. RoundRobinWeeks(ids) =
          [w \in 1 .. Len(Seats(ids)) - 1 |->
              WeekOf(Rotation(Seats(ids), Len(Seats(ids)))[w])]
  BY DEF RoundRobinWeeks, IsRotation, Seats, Rotation
<1>4. RoundRobinWeeks(ids) = [w \in 1 .. n - 1 |-> WeekOf(Rotation(full, n)[w])]
  BY <1>1, <1>3
<1>5. \A w \in 1 .. n - 1 : Rotation(full, n)[w] = Turned(full, n, w)
  BY <1>2
<1>. QED  BY <1>4, <1>5

\* Every two of ids once, nobody twice in a week or not at all, one bye each
\* when they are odd.
Complete(weeks, ids) ==
    /\ \A t, u \in ids :
           t # u => Cardinality({w \in DOMAIN weeks : {t, u} \in HeldIn(weeks[w])}) = 1
    /\ \A w \in DOMAIN weeks, t \in ids :
           Cardinality({p \in HeldIn(weeks[w]) : t \in p})
               = IF t \in weeks[w].byes THEN 0 ELSE 1
    /\ \A t \in ids :
           Cardinality({w \in DOMAIN weeks : t \in weeks[w].byes}) = Cardinality(ids) % 2

\* generateRoundRobinWeeks is complete, whatever teams it is given.
LEMMA WeeksComplete ==
    ASSUME NEW ids, IsFiniteSet(ids), ids \subseteq Nat \ {0}, Cardinality(ids) >= 2,
           NEW weeks, weeks = RoundRobinWeeks(ids)
    PROVE  Complete(weeks, ids)
<1> DEFINE full == Seats(ids)
           n == Len(full)
<1>1. Seated(full, n, ids)
  <2>. HIDE DEF full
  <2>1. full = Seats(ids)
    BY DEF full
  <2>. QED  BY <2>1, SeatsFacts
<1>2. weeks = [w \in 1 .. n - 1 |-> WeekOf(Turned(full, n, w))]
  <2>1. full = Seats(ids)
    OBVIOUS
  <2>. HIDE DEF full, n
  <2>. QED  BY <1>1, <2>1, WeeksAre
<1>. HIDE DEF full, n
<1>3. DOMAIN weeks = 1 .. n - 1 /\ \A w \in 1 .. n - 1 : weeks[w] = WeekOf(Turned(full, n, w))
  BY <1>2
<1>4. Circle(full, n) /\ n \in Nat /\ \E h \in Nat : n = 2 * h
  BY <1>1 DEF Seated, Circle
<1>5. \A t \in ids : t # Bye
  BY DEF Bye
<1>6. ASSUME NEW a \in 1 .. n, NEW b \in 1 .. n, a # b
      PROVE  \E w \in 1 .. n - 1 : \A v \in 1 .. n - 1 : Facing(n, v, a, b) <=> v = w
  <2>1. CASE a < b
    BY <1>4, <2>1, FacingOnce
  <2>2. CASE b < a
    <3>1. PICK w \in 1 .. n - 1 : \A v \in 1 .. n - 1 : Facing(n, v, b, a) <=> v = w
      BY <1>4, <2>2, FacingOnce
    <3>2. \A v \in 1 .. n - 1 : Facing(n, v, a, b) <=> Facing(n, v, b, a)
      <4>1. \A v \in 1 .. n - 1 : Place(n, v, a) \in 1 .. n /\ Place(n, v, b) \in 1 .. n
        BY <1>4, PlaceAndSource
      <4>. QED  BY <1>4, <4>1 DEF Facing
    <3>. QED  BY <3>1, <3>2
  <2>. QED  BY <1>4, <1>6, <2>1, <2>2
<1>7. ASSUME NEW t \in ids, NEW u \in ids, t # u
      PROVE  Cardinality({w \in DOMAIN weeks : {t, u} \in HeldIn(weeks[w])}) = 1
  <2>1. PICK a \in 1 .. n : full[a] = t
    BY <1>1 DEF Seated
  <2>2. PICK b \in 1 .. n : full[b] = u
    BY <1>1 DEF Seated
  <2>3. a # b /\ full[a] # Bye /\ full[b] # Bye
    BY <1>5, <1>7, <2>1, <2>2
  <2>4. PICK w \in 1 .. n - 1 : \A v \in 1 .. n - 1 : Facing(n, v, a, b) <=> v = w
    BY <1>6, <2>3
  <2>5. ASSUME NEW v \in 1 .. n - 1
        PROVE  {t, u} \in HeldIn(weeks[v]) <=> Facing(n, v, a, b)
    <3>1. {full[a], full[b]} \in HeldIn(weeks[v]) <=> Facing(n, v, a, b)
      BY <1>3, <1>4, <2>3, CircleWeek
    <3>. QED  BY <2>1, <2>2, <3>1
  <2>6. {v \in DOMAIN weeks : {t, u} \in HeldIn(weeks[v])} = {w}
    <3>1. \A v \in 1 .. n - 1 : {t, u} \in HeldIn(weeks[v]) <=> v = w
      BY <2>4, <2>5
    <3>. QED  BY <1>3, <3>1
  <2>. QED  BY <2>6, FS_Singleton
<1>8. ASSUME NEW w \in DOMAIN weeks, NEW t \in ids
      PROVE  Cardinality({p \in HeldIn(weeks[w]) : t \in p})
                 = IF t \in weeks[w].byes THEN 0 ELSE 1
  <2> DEFINE with == {p \in HeldIn(weeks[w]) : t \in p}
  <2>1. w \in 1 .. n - 1 /\ weeks[w] = WeekOf(Turned(full, n, w))
    BY <1>3
  <2>2. PICK a \in 1 .. n : full[a] = t
    BY <1>1 DEF Seated
  <2>3. PICK b \in 1 .. n : b # a /\ \A c \in 1 .. n : Facing(n, w, a, c) <=> c = b
    BY <1>4, <2>1, FacingOne
  <2>4. \A p \in HeldIn(weeks[w]) : \E c, d \in 1 .. n :
            /\ p = {full[c], full[d]} /\ Facing(n, w, c, d)
            /\ c # d /\ full[c] # Bye /\ full[d] # Bye
    BY <1>4, <2>1, CircleWeek
  <2>5. t \in weeks[w].byes <=> full[b] = Bye
    <3>1. full[a] # Bye
      BY <1>5, <2>2
    <3>2. full[a] \in weeks[w].byes <=> \E c \in 1 .. n : full[c] = Bye /\ Facing(n, w, a, c)
      BY <1>4, <2>1, <3>1, CircleWeek
    <3>. QED  BY <2>2, <2>3, <3>2
  <2>6. \A p \in with : p = {t, full[b]} /\ full[b] # Bye
    <3>1. SUFFICES ASSUME NEW p \in with PROVE p = {t, full[b]} /\ full[b] # Bye
      OBVIOUS
    <3>2. PICK c \in 1 .. n, d \in 1 .. n :
                /\ p = {full[c], full[d]} /\ Facing(n, w, c, d)
                /\ c # d /\ full[c] # Bye /\ full[d] # Bye
      BY <2>4
    <3>3. Facing(n, w, d, c)
      <4>1. Place(n, w, c) \in 1 .. n /\ Place(n, w, d) \in 1 .. n
        BY <1>4, <2>1, PlaceAndSource
      <4>. QED  BY <1>4, <3>2, <4>1 DEF Facing
    <3>4. a = c \/ a = d
      <4>1. full[a] = full[c] \/ full[a] = full[d]
        BY <2>2, <3>2
      <4>. QED  BY <1>4, <4>1 DEF Circle
    <3>5. CASE a = c
      BY <2>2, <2>3, <3>2, <3>5
    <3>6. CASE a = d
      BY <2>2, <2>3, <3>2, <3>3, <3>6
    <3>. QED  BY <3>4, <3>5, <3>6
  <2>7. full[b] # Bye => {t, full[b]} \in with
    <3>1. full[a] # Bye /\ a # b /\ Facing(n, w, a, b)
      BY <1>5, <2>2, <2>3
    <3>2. full[b] # Bye => {full[a], full[b]} \in HeldIn(weeks[w])
      BY <1>4, <2>1, <3>1, CircleWeek
    <3>. QED  BY <2>2, <3>2
  <2>. HIDE DEF with
  <2>8. CASE full[b] = Bye
    <3>1. with = {}
      BY <2>6, <2>8
    <3>. QED  BY <2>5, <2>8, <3>1, FS_EmptySet DEF with
  <2>9. CASE full[b] # Bye
    <3>1. with = {{t, full[b]}}
      BY <2>6, <2>7, <2>9
    <3>2. Cardinality(with) = 1
      BY <3>1, FS_Singleton
    <3>. QED  BY <2>5, <2>9, <3>2 DEF with
  <2>. QED  BY <2>8, <2>9
<1>9. ASSUME NEW t \in ids
      PROVE  Cardinality({w \in DOMAIN weeks : t \in weeks[w].byes}) = Cardinality(ids) % 2
  <2>1. PICK a \in 1 .. n : full[a] = t
    BY <1>1 DEF Seated
  <2>2. full[a] # Bye
    BY <1>5, <2>1
  <2>3. ASSUME NEW w \in 1 .. n - 1
        PROVE  t \in weeks[w].byes <=> \E c \in 1 .. n : full[c] = Bye /\ Facing(n, w, a, c)
    <3>1. full[a] \in weeks[w].byes <=> \E c \in 1 .. n : full[c] = Bye /\ Facing(n, w, a, c)
      BY <1>3, <1>4, <2>2, CircleWeek
    <3>. QED  BY <2>1, <3>1
  <2>4. Cardinality(ids) % 2 = 1 \/ Cardinality(ids) % 2 = 0
    BY FS_CardinalityType
  <2> DEFINE idle == {w \in DOMAIN weeks : t \in weeks[w].byes}
  <2>5. CASE Cardinality(ids) % 2 = 1
    <3>1. PICK z \in 1 .. n : full[z] = Bye
      BY <1>1, <2>5 DEF Seated
    <3>2. \A c \in 1 .. n : full[c] = Bye => c = z
      BY <1>4, <3>1 DEF Circle
    <3>3. PICK w \in 1 .. n - 1 : \A v \in 1 .. n - 1 : Facing(n, v, a, z) <=> v = w
      BY <1>6, <2>2, <3>1
    <3>4. \A v \in 1 .. n - 1 : t \in weeks[v].byes <=> v = w
      BY <2>3, <3>1, <3>2, <3>3
    <3>5. idle = {w}
      BY <1>3, <3>4
    <3>. HIDE DEF idle
    <3>6. Cardinality(idle) = 1
      BY <3>5, FS_Singleton
    <3>. QED  BY <2>5, <3>6 DEF idle
  <2>6. CASE Cardinality(ids) % 2 = 0
    <3>1. \A c \in 1 .. n : full[c] # Bye
      BY <1>1, <2>6 DEF Seated
    <3>2. idle = {}
      BY <1>3, <2>3, <3>1
    <3>. HIDE DEF idle
    <3>3. Cardinality(idle) = 0
      BY <3>2, FS_EmptySet
    <3>. QED  BY <2>6, <3>3 DEF idle
  <2>. QED  BY <2>4, <2>5, <2>6
<1>. QED  BY <1>7, <1>8, <1>9 DEF Complete

\* A division has finitely many teams, their numbers above the bye.
LEMMA LeagueTeams ==
    ASSUME NEW l, IsLeague(l), NEW d
    PROVE  IsFiniteSet(TeamsOf(l, d)) /\ TeamsOf(l, d) \subseteq Nat \ {0}
<1>1. IsFiniteSet(DOMAIN l.team) /\ DOMAIN l.team \subseteq Nat \ {0}
  BY DEF IsLeague
<1>2. TeamsOf(l, d) \in SUBSET DOMAIN l.team
  BY DEF TeamsOf
<1>3. IsFiniteSet(TeamsOf(l, d))
  BY <1>1, <1>2, FS_Subset
<1>. QED  BY <1>1, <1>2, <1>3

LEMMA LeagueComplete ==
    ASSUME IsLeague(league)
    PROVE  RoundRobinComplete
<1>1. SUFFICES ASSUME NEW d \in Drawn(league)
               PROVE  Complete(RoundRobin(league, d), TeamsOf(league, d))
  BY DEF RoundRobinComplete, Complete, HeldIn
<1>2. Cardinality(TeamsOf(league, d)) >= 2
  BY DEF Drawn
<1>3. RoundRobin(league, d) = RoundRobinWeeks(TeamsOf(league, d))
  BY DEF RoundRobin
<1>. QED  BY <1>2, <1>3, LeagueTeams, WeeksComplete

-----------------------------------------------------------------------------
(* The matchups are a list.                                                 *)

Flattens(f, s, n) == f = [i \in 1 .. n |-> IF i = 1 THEN s[i] ELSE f[i - 1] \o s[i]]

LEMMA FlattenExists ==
    ASSUME NEW s, NEW n \in Nat
    PROVE  \E f : Flattens(f, s, n)
<1> DEFINE T == {k \in Nat : ~\E f : Flattens(f, s, k)}
<1>1. SUFFICES ASSUME T # {} PROVE FALSE
  OBVIOUS
<1>2. PICK k \in T : \A y \in T : k <= y
  <2>1. T \subseteq Nat
    OBVIOUS
  <2>. HIDE DEF T
  <2>. QED  BY <1>1, <2>1, LeastNumber
<1>3. CASE k = 0
  <2> DEFINE f == [i \in 1 .. 0 |-> s]
  <2>1. Flattens(f, s, 0)
    BY DEF Flattens
  <2>. QED  BY <1>2, <1>3, <2>1
<1>4. CASE k # 0
  <2>1. k \in Nat /\ k - 1 \in Nat /\ k - 1 \notin T
    BY <1>2, <1>4
  <2>2. PICK f : Flattens(f, s, k - 1)
    BY <2>1
  <2> DEFINE g == [i \in 1 .. k |-> IF i = 1 THEN s[i] ELSE f[i - 1] \o s[i]]
  <2>3. \A i \in 1 .. k - 1 : g[i] = f[i]
    <3>1. \A i \in 1 .. k - 1 : f[i] = IF i = 1 THEN s[i] ELSE f[i - 1] \o s[i]
      BY <2>2 DEF Flattens
    <3>2. 1 .. k - 1 \subseteq 1 .. k
      BY <2>1
    <3>. QED  BY <3>1, <3>2
  <2>4. g = [i \in 1 .. k |-> IF i = 1 THEN s[i] ELSE g[i - 1] \o s[i]]
    <3>1. \A i \in 1 .. k : i # 1 => i - 1 \in 1 .. k - 1
      BY <2>1
    <3>2. \A i \in 1 .. k : i # 1 => g[i - 1] = f[i - 1]
      BY <2>3, <3>1
    <3>. QED  BY <3>2
  <2>5. Flattens(g, s, k)
    BY <2>4 DEF Flattens
  <2>. QED  BY <1>2, <2>5
<1>. QED  BY <1>3, <1>4

LEMMA FlattenIsSeq ==
    ASSUME NEW S, NEW s \in Seq(Seq(S))
    PROVE  FlattenSeq(s) \in Seq(S)
<1> DEFINE n == Len(s)
           f == CHOOSE g : Flattens(g, s, n)
<1>1. n \in Nat /\ \A i \in 1 .. n : s[i] \in Seq(S)
  BY LenProperties, ElementOfSeq
<1>2. Flattens(f, s, n)
  <2>. HIDE DEF n
  <2>. QED  BY <1>1, FlattenExists
<1>3. FlattenSeq(s) = IF n = 0 THEN s ELSE f[n]
  BY DEF FlattenSeq, Flattens
<1>. HIDE DEF f
<1> DEFINE T == {i \in 1 .. n : f[i] \notin Seq(S)}
<1>4. T = {}
  <2>1. SUFFICES ASSUME T # {} PROVE FALSE
    OBVIOUS
  <2>2. PICK k \in T : \A y \in T : k <= y
    <3>1. T \subseteq Nat
      BY <1>1
    <3>. HIDE DEF T
    <3>. QED  BY <2>1, <3>1, LeastNumber
  <2>3. f[k] = IF k = 1 THEN s[k] ELSE f[k - 1] \o s[k]
    BY <1>2, <2>2 DEF Flattens
  <2>4. k # 1 /\ k - 1 \in 1 .. n /\ ~(k <= k - 1)
    BY <1>1, <2>2, <2>3
  <2>5. f[k - 1] \in Seq(S) /\ s[k] \in Seq(S)
    BY <1>1, <2>2, <2>4
  <2>6. f[k - 1] \o s[k] \in Seq(S)
    BY <2>5, ConcatProperties
  <2>. QED  BY <2>2, <2>3, <2>4, <2>6
<1>5. CASE n = 0
  <2>1. s = <<>>
    BY <1>5, EmptySeq
  <2>. QED  BY <1>3, <1>5, <2>1
<1>6. CASE n # 0
  <2>1. n \in 1 .. n
    BY <1>1, <1>6
  <2>. QED  BY <1>3, <1>4, <1>6, <2>1
<1>. QED  BY <1>5, <1>6

Numbered(S, s) == \E n \in Nat : s \in [1 .. n -> S]

LEMMA NumberedIsSeq ==
    ASSUME NEW S, NEW s, Numbered(S, s)
    PROVE  s \in Seq(S)
<1>1. PICK n \in Nat : s \in [1 .. n -> S]
  BY DEF Numbered
<1>. QED  BY <1>1

\* The weeks of a division are a list of lists of pairs of ids.
WeeksListed(weeks) ==
    \E n \in Nat : /\ DOMAIN weeks = 1 .. n
                   /\ \A w \in 1 .. n : weeks[w].matchups \in Seq(Nat \X Nat)

LEMMA DrawnListed ==
    ASSUME NEW ids, IsFiniteSet(ids), ids \subseteq Nat \ {0}, Cardinality(ids) >= 2
    PROVE  WeeksListed(RoundRobinWeeks(ids))
<1> DEFINE full == Seats(ids)
           n == Len(full)
<1>1. Seated(full, n, ids)
  <2>. HIDE DEF full
  <2>1. full = Seats(ids)
    BY DEF full
  <2>. QED  BY <2>1, SeatsFacts
<1>2. RoundRobinWeeks(ids) = [w \in 1 .. n - 1 |-> WeekOf(Turned(full, n, w))]
  <2>1. full = Seats(ids)
    OBVIOUS
  <2>. HIDE DEF full, n
  <2>. QED  BY <1>1, <2>1, WeeksAre
<1>. HIDE DEF full, n
<1>3. Circle(full, n) /\ n \in Nat /\ n >= 2
  BY <1>1 DEF Seated, Circle
<1>4. PICK h \in Nat : n = 2 * h
  BY <1>3 DEF Circle
<1>5. \A w \in 1 .. n - 1 : WeekOf(Turned(full, n, w)).matchups \in Seq(Nat \X Nat)
  <2>1. \A w \in 1 .. n - 1 : WeekReads(Turned(full, n, w), h)
    BY <1>3, <1>4, TurnedReads
  <2>. QED  BY <2>1 DEF WeekReads
<1>6. n - 1 \in Nat
  BY <1>3
<1>. QED  BY <1>2, <1>5, <1>6 DEF WeeksListed

LEMMA LeagueListed ==
    ASSUME NEW l, IsLeague(l), NEW d \in Drawn(l) \cup DOMAIN l.weeks
    PROVE  WeeksListed(RoundRobin(l, d))
<1>1. CASE d \in Drawn(l)
  <2>1. Cardinality(TeamsOf(l, d)) >= 2
    BY <1>1 DEF Drawn
  <2>2. RoundRobin(l, d) = RoundRobinWeeks(TeamsOf(l, d))
    BY <1>1 DEF RoundRobin
  <2>3. IsFiniteSet(TeamsOf(l, d)) /\ TeamsOf(l, d) \subseteq Nat \ {0}
    BY LeagueTeams
  <2>. QED  BY <2>1, <2>2, <2>3, DrawnListed
<1>2. CASE d \notin Drawn(l)
  <2>1. RoundRobin(l, d) = l.weeks[d]
    BY <1>2 DEF RoundRobin
  <2>2. l.weeks[d] \in Seq(ToSet(l.weeks[d]))
    BY <1>2 DEF IsLeague, IsList
  <2>3. Len(l.weeks[d]) \in Nat /\ DOMAIN l.weeks[d] = 1 .. Len(l.weeks[d])
    BY <2>2, LenProperties
  <2>4. \A w \in DOMAIN l.weeks[d] : l.weeks[d][w].matchups \in Seq(Nat \X Nat)
    BY <1>2 DEF IsLeague
  <2>. QED  BY <2>1, <2>3, <2>4 DEF WeeksListed
<1>. QED  BY <1>1, <1>2

Matchups(l) == [division : ToSet(l.order), week : Nat, home : Nat, away : Nat]

\* The parts of Matches.
InWeek(d, w, week) ==
    [i \in DOMAIN week.matchups |->
        [division |-> d, week |-> w,
         home |-> week.matchups[i][1], away |-> week.matchups[i][2]]]
InDivision(l, d) ==
    LET weeks == RoundRobin(l, d)
    IN  FlattenSeq([w \in DOMAIN weeks |-> InWeek(d, w, weeks[w])])
Played(l, d) == IF d \in Drawn(l) \cup DOMAIN l.weeks THEN InDivision(l, d) ELSE <<>>

LEMMA MatchesListed ==
    ASSUME NEW l, IsLeague(l)
    PROVE  Matches(l) \in Seq(Matchups(l))
<1>1. Matches(l) = FlattenSeq([k \in DOMAIN l.order |-> Played(l, l.order[k])])
  BY DEF Matches, Played, InDivision, InWeek
<1>2. ASSUME NEW d \in ToSet(l.order), d \in Drawn(l) \cup DOMAIN l.weeks
      PROVE  InDivision(l, d) \in Seq(Matchups(l))
  <2> DEFINE weeks == RoundRobin(l, d)
             s == [w \in DOMAIN weeks |-> InWeek(d, w, weeks[w])]
  <2>1. PICK n \in Nat : /\ DOMAIN weeks = 1 .. n
                         /\ \A w \in 1 .. n : weeks[w].matchups \in Seq(Nat \X Nat)
    BY <1>2, LeagueListed DEF WeeksListed
  <2>2. InDivision(l, d) = FlattenSeq(s)
    BY DEF InDivision
  <2>. HIDE DEF weeks
  <2>3. ASSUME NEW w \in 1 .. n PROVE InWeek(d, w, weeks[w]) \in Seq(Matchups(l))
    <3> DEFINE q == weeks[w].matchups
               m == InWeek(d, w, weeks[w])
    <3>1. q \in Seq(Nat \X Nat)
      BY <2>1
    <3>2. m = [i \in DOMAIN q |-> [division |-> d, week |-> w, home |-> q[i][1], away |-> q[i][2]]]
      BY DEF InWeek
    <3>. HIDE DEF q, m
    <3>3. Len(q) \in Nat /\ DOMAIN q = 1 .. Len(q) /\ \A i \in 1 .. Len(q) : q[i] \in Nat \X Nat
      BY <3>1, LenProperties, ElementOfSeq
    <3>4. \A i \in 1 .. Len(q) : q[i][1] \in Nat /\ q[i][2] \in Nat
      BY <3>3
    <3>5. w \in Nat
      BY <2>1
    <3>6. \A i \in 1 .. Len(q) :
              [division |-> d, week |-> w, home |-> q[i][1], away |-> q[i][2]] \in Matchups(l)
      BY <1>2, <3>4, <3>5 DEF Matchups
    <3>7. m \in [1 .. Len(q) -> Matchups(l)]
      BY <3>2, <3>3, <3>6
    <3>8. m \in Seq(Matchups(l))
      BY <3>3, <3>7, NumberedIsSeq DEF Numbered
    <3>. QED  BY <3>8 DEF m
  <2>4. s \in [1 .. n -> Seq(Matchups(l))]
    BY <2>1, <2>3
  <2>. HIDE DEF s
  <2>5. s \in Seq(Seq(Matchups(l)))
    BY <2>4, NumberedIsSeq DEF Numbered
  <2>. QED  BY <2>2, <2>5, FlattenIsSeq
<1>3. ASSUME NEW d \in ToSet(l.order) PROVE Played(l, d) \in Seq(Matchups(l))
  <2>1. <<>> \in Seq(Matchups(l))
    BY EmptySeq
  <2>. QED  BY <1>2, <2>1 DEF Played
<1> DEFINE n == Len(l.order)
           s == [k \in DOMAIN l.order |-> Played(l, l.order[k])]
<1>4. n \in Nat /\ DOMAIN l.order = 1 .. n /\ \A k \in 1 .. n : l.order[k] \in ToSet(l.order)
  <2>1. l.order \in Seq(ToSet(l.order))
    BY DEF IsLeague, IsList
  <2>. QED  BY <2>1, LenProperties, ElementOfSeq
<1>. HIDE DEF n
<1>5. s \in [1 .. n -> Seq(Matchups(l))]
  BY <1>3, <1>4
<1>. HIDE DEF s
<1>6. s \in Seq(Seq(Matchups(l)))
  BY <1>4, <1>5, NumberedIsSeq DEF Numbered
<1>7. FlattenSeq(s) \in Seq(Matchups(l))
  BY <1>6, FlattenIsSeq
<1>. QED  BY <1>1, <1>7 DEF s

-----------------------------------------------------------------------------
(* scheduleGames.                                                           *)

ScheduleRight ==
    league \in Leagues /\ IsLeague(league) /\ TablesRight(league, matches, built)

\* The invariant behind the schedule: the tables that the next choice is
\* made by say what the games placed so far say.
LEMMA ScheduleInvariance == ReviewSpec => []ScheduleRight
<1>1. ReviewInit => ScheduleRight
  <2>1. ASSUME ReviewInit PROVE league \in Leagues /\ IsLeague(league)
    BY <2>1, LeagueAssumption DEF ReviewInit, GameInit
  <2>2. ASSUME ReviewInit PROVE TablesRight(league, matches, built)
    BY <2>1, <2>2, NothingRight DEF ReviewInit, GameInit
  <2>. QED  BY <2>1, <2>2 DEF ScheduleRight
<1>2. ScheduleRight /\ [ReviewNext]_<<gameVars, reviewVars>> => ScheduleRight'
  <2>1. ASSUME ScheduleRight, PlaceNext PROVE ScheduleRight'
    <3>1. TablesRight(league, matches, Placed(league, built, matches[Len(built.fate) + 1]))
      BY <2>1, PlacedRight DEF ScheduleRight
    <3>2. /\ built' = Placed(league, built, matches[Len(built.fate) + 1])
          /\ league' = league /\ matches' = matches
      BY <2>1 DEF PlaceNext
    <3>3. TablesRight(league', matches', built')
      BY <3>1, <3>2
    <3>. QED  BY <2>1, <3>2, <3>3 DEF ScheduleRight
  <2>2. ASSUME ScheduleRight, UNCHANGED gameVars PROVE ScheduleRight'
    <3>1. league' = league /\ matches' = matches /\ built' = built
      BY <2>2 DEF gameVars
    <3>2. TablesRight(league', matches', built')
      BY <2>2, <3>1 DEF ScheduleRight
    <3>. QED  BY <2>2, <3>1, <3>2 DEF ScheduleRight
  <2>. QED  BY <2>1, <2>2 DEF ReviewNext
<1>. QED  BY <1>1, <1>2, PTL DEF ReviewSpec

\* The words of the properties for what the tables say.
LEMMA TheSame ==
    /\ Games = GamesOf(built)
    /\ \A s : In(s) = InSlot(built, s)
    /\ \A s : Full(s) <=> Filled(league, built, s)
    /\ \A i, s : Taught(i, s) <=> Busy(league, matches, built, i, s)
<1>1. Games = GamesOf(built)
  BY DEF Games, Taken, SlotOf, GamesOf
<1>2. \A s : In(s) = InSlot(built, s)
  BY <1>1 DEF In, SlotOf, InSlot
<1>3. \A s : Full(s) <=> Filled(league, built, s)
  BY <1>2 DEF Full, Filled
<1>4. \A i, s : Taught(i, s) <=> Busy(league, matches, built, i, s)
  BY <1>1 DEF Taught, Share, Busy, Meet, SlotOf
<1>. QED  BY <1>1, <1>2, <1>3, <1>4

\* generateRoundRobinWeeks, for any league: in a division that it draws every
\* two teams meet in one week and no other, each team has one game or a bye
\* in every week, and over the weeks one bye or none as they are odd or even.
THEOREM TheRoundRobinIsComplete == ReviewSpec => []RoundRobinComplete
<1>1. ASSUME ScheduleRight PROVE RoundRobinComplete
  BY <1>1, LeagueComplete DEF ScheduleRight
<1>. QED  BY <1>1, ScheduleInvariance, PTL

\* scheduleGames, for any league: no slot is filled beyond its room, no team
\* plays twice in a week, no coach is at two games at a time, and the counts
\* of the slots and the times that teams are used to are those of the games.
THEOREM ScheduleIsSound == ReviewSpec => []GamesSound
<1>1. ASSUME ScheduleRight PROVE GamesSound
  <2>1. ASSUME NEW i \in Games
        PROVE  /\ league.slot[SlotOf(i)].week = matches[i].week
               /\ league.slot[SlotOf(i)].division \in {matches[i].division, Shared}
               /\ Pair(matches[i]) \subseteq TeamsOf(league, matches[i].division)
               /\ ~Taught(i, SlotOf(i))
               /\ \A j \in Games \ {i} : matches[j].week = matches[i].week
                                            => Pair(matches[j]) \cap Pair(matches[i]) = {}
    BY <1>1, TheSame DEF ScheduleRight, TablesRight, RulesKept, SlotOf
  <2>2. ASSUME NEW s \in DOMAIN league.slot
        PROVE  built.room[s] >= 0 /\ built.room[s] + Cardinality(In(s)) = league.slot[s].capacity
    <3>1. built.room[s] \in Nat
      BY <1>1 DEF ScheduleRight, TablesRight, Tables
    <3>2. built.room[s] + Cardinality(InSlot(built, s)) = league.slot[s].capacity
      BY <1>1 DEF ScheduleRight, TablesRight, RoomCounted
    <3>. QED  BY <3>1, <3>2, TheSame
  <2> DEFINE times(t, k) == {i \in Games : /\ t \in Pair(matches[i])
                                           /\ league.slot[SlotOf(i)].start % Day = k}
             liked(t) == built.liking[t].preferred
  <2>3. ASSUME NEW t \in DOMAIN league.team, liked(t) # NoLiking, NEW k \in Minutes(league)
        PROVE  Cardinality(times(t, k)) <= Cardinality(times(t, liked(t)))
    <3>1. \A j : times(t, j) = TimesAt(league, matches, built, t, j)
      BY TheSame DEF TimesAt, SlotOf
    <3>2. /\ \A j \in Minutes(league) :
                 built.liking[t].counts[j] = Cardinality(TimesAt(league, matches, built, t, j))
          /\ Favours(league, built.liking[t])
      BY <1>1 DEF ScheduleRight, TablesRight, TimesCounted
    <3>3. built.liking[t] \in Likings(league)
      BY <1>1 DEF ScheduleRight, TablesRight, Tables
    <3>4. liked(t) \in Minutes(league)
          /\ built.liking[t].counts[k] <= built.liking[t].counts[liked(t)]
      BY <2>3, <3>2, <3>3 DEF Likings, Favours
    <3>. QED  BY <3>1, <3>2, <3>4
  <2>. QED  BY <2>1, <2>2, <2>3 DEF GamesSound
<1>. QED  BY <1>1, ScheduleInvariance, PTL

\* selectSlotForMatchup never looks back and need not: in the finished
\* schedule of any league what was left out still fits nowhere, and a game is
\* in a shared slot, or one of lower priority, only for want of a better one.
THEOREM NothingBetterIsLeft == ReviewSpec => []NothingBetterLeft
<1>1. ASSUME ScheduleRight PROVE NothingBetterLeft
  <2>1. ASSUME NEW i \in Taken,
               NEW s \in OfWeek(league, matches[i], matches[i].division)
                             \cup OfWeek(league, matches[i], Shared),
               built.fate[i].reason
                   \in {"none", "no-slot-available", "coach-scheduling-conflict"},
               Better(league, built.fate[i], s)
        PROVE  /\ Full(s) \/ Taught(i, s)
               /\ built.fate[i].reason = "no-slot-available" => Full(s)
    <3>1. i \in DOMAIN built.fate /\ s \in Candidates(league, matches[i])
      BY <2>1 DEF Taken, Candidates
    <3>2. /\ Filled(league, built, s) \/ Busy(league, matches, built, i, s)
          /\ built.fate[i].reason = "no-slot-available" => Filled(league, built, s)
      BY <1>1, <2>1, <3>1 DEF ScheduleRight, TablesRight, NoneBetter
    <3>. QED  BY <3>2, TheSame
  <2>. QED  BY <2>1 DEF NothingBetterLeft, Better
<1>. QED  BY <1>1, ScheduleInvariance, PTL

\* sharedSlotUsage, for any league: no division uses one of two shared slots
\* that are alike two times more than the other without need.
THEOREM SharedIsSpread == ReviewSpec => []SharedSpread
<1>1. ASSUME ScheduleRight PROVE SharedSpread
  <2> DEFINE of(d, x) == {i \in In(x) : matches[i].division = d}
  <2>1. \A d, x : of(d, x) = InSlotOf(matches, built, x, d)
    BY TheSame DEF InSlotOf
  <2>2. ASSUME NEW d \in Divisions(league), NEW s \in DOMAIN league.slot,
               NEW r \in DOMAIN league.slot, Alike(league, s, r),
               Cardinality(of(d, s)) > Cardinality(of(d, r)) + 1
        PROVE  Full(r) \/ \E i \in of(d, s) : Taught(i, r)
    <3>1. Filled(league, built, r)
              \/ \E i \in InSlotOf(matches, built, s, d) : Busy(league, matches, built, i, r)
      BY <1>1, <2>1, <2>2 DEF ScheduleRight, TablesRight, Evenly
    <3>. QED  BY <2>1, <3>1, TheSame
  <2>. QED  BY <2>2 DEF SharedSpread, Alike
<1>. QED  BY <1>1, ScheduleInvariance, PTL

-----------------------------------------------------------------------------
(* scheduleGames at one go.                                                 *)

Schedules(f, l, n) ==
    f = [k \in 0 .. n |-> IF k = 0 THEN Nothing(l) ELSE Placed(l, f[k - 1], Matches(l)[k])]

LEMMA ScheduleExists ==
    ASSUME NEW l, NEW n \in Nat
    PROVE  \E f : Schedules(f, l, n)
<1> DEFINE T == {k \in Nat : ~\E f : Schedules(f, l, k)}
<1>1. SUFFICES ASSUME T # {} PROVE FALSE
  OBVIOUS
<1>2. PICK k \in T : \A y \in T : k <= y
  <2>1. T \subseteq Nat
    OBVIOUS
  <2>. HIDE DEF T
  <2>. QED  BY <1>1, <2>1, LeastNumber
<1>3. CASE k = 0
  <2> DEFINE f == [i \in 0 .. 0 |-> Nothing(l)]
  <2>1. Schedules(f, l, 0)
    BY DEF Schedules
  <2>. QED  BY <1>2, <1>3, <2>1
<1>4. CASE k # 0
  <2>1. k \in Nat /\ k - 1 \in Nat /\ k - 1 \notin T
    BY <1>2, <1>4
  <2>2. PICK f : Schedules(f, l, k - 1)
    BY <2>1
  <2> DEFINE g == [i \in 0 .. k |-> IF i = 0 THEN Nothing(l)
                                    ELSE Placed(l, f[i - 1], Matches(l)[i])]
  <2>3. \A i \in 0 .. k - 1 : g[i] = f[i]
    <3>1. \A i \in 0 .. k - 1 :
              f[i] = IF i = 0 THEN Nothing(l) ELSE Placed(l, f[i - 1], Matches(l)[i])
      BY <2>2 DEF Schedules
    <3>2. 0 .. k - 1 \subseteq 0 .. k
      BY <2>1
    <3>. QED  BY <3>1, <3>2
  <2>4. g = [i \in 0 .. k |-> IF i = 0 THEN Nothing(l)
                              ELSE Placed(l, g[i - 1], Matches(l)[i])]
    <3>1. \A i \in 0 .. k : i # 0 => i - 1 \in 0 .. k - 1
      BY <2>1
    <3>2. \A i \in 0 .. k : i # 0 => g[i - 1] = f[i - 1]
      BY <2>3, <3>1
    <3>. QED  BY <3>2
  <2>5. Schedules(g, l, k)
    BY <2>4 DEF Schedules
  <2>. QED  BY <1>2, <2>5
<1>. QED  BY <1>3, <1>4

LEMMA ScheduledUnfolds ==
    ASSUME NEW l, Len(Matches(l)) \in Nat
    PROVE  \E f : Schedules(f, l, Len(Matches(l))) /\ Scheduled(l) = f[Len(Matches(l))]
<1> DEFINE f == CHOOSE g : Schedules(g, l, Len(Matches(l)))
<1>1. Schedules(f, l, Len(Matches(l)))
  BY ScheduleExists
<1>2. Scheduled(l) = f[Len(Matches(l))]
  BY DEF Scheduled, Schedules
<1>. QED  BY <1>1, <1>2

LEMMA OneFateMore ==
    ASSUME NEW l, NEW b \in Tables(l), NEW m
    PROVE  Len(Placed(l, b, m).fate) = Len(b.fate) + 1
<1>1. b.fate \in Seq(Fates(l))
  BY DEF Tables
<1>2. \A f : Len(Append(b.fate, f)) = Len(b.fate) + 1
  <2>1. Len(b.fate) \in Nat /\ b.fate \in [1 .. Len(b.fate) -> Fates(l)]
    BY <1>1, LenProperties
  <2>. SUFFICES ASSUME NEW f PROVE Len(Append(b.fate, f)) = Len(b.fate) + 1
    OBVIOUS
  <2>2. b.fate \in Seq(Fates(l) \cup {f}) /\ f \in Fates(l) \cup {f}
    <3>1. b.fate \in [1 .. Len(b.fate) -> Fates(l) \cup {f}]
      BY <2>1
    <3>. QED  BY <2>1, <3>1, NumberedIsSeq DEF Numbered
  <2>. QED  BY <2>2, AppendProperties
<1>3. \A r : LeaveOut(b, r).fate = Append(b.fate, [slot |-> 0, reason |-> r])
  BY DEF LeaveOut, Tables
<1>4. \A s : Book(l, b, m, s).fate = Append(b.fate, [slot |-> s, reason |-> "none"])
  BY DEF Book
<1>5. \/ \E r : Placed(l, b, m) = LeaveOut(b, r)
      \/ \E s : Placed(l, b, m) = Book(l, b, m, s)
  <2> DEFINE refusal == Refusal(l, b, m)
             own     == Open(l, b, m, m.division)
             shared  == Open(l, b, m, Shared)
             clash   == WithRoom(b, OfWeek(l, m, m.division) \cup OfWeek(l, m, Shared)) # {}
             left    == IF clash THEN "coach-scheduling-conflict" ELSE "no-slot-available"
  <2>1. Placed(l, b, m) =
            IF refusal # "none" THEN LeaveOut(b, refusal)
            ELSE IF own # {} THEN Book(l, b, m, Best(l, b, m, own))
            ELSE IF shared # {} THEN Book(l, b, m, Best(l, b, m, shared))
            ELSE LeaveOut(b, left)
    BY DEF Placed
  <2> DEFINE p == Placed(l, b, m)
             u == LeaveOut(b, refusal)
             v == LeaveOut(b, left)
             x == Book(l, b, m, Best(l, b, m, own))
             y == Book(l, b, m, Best(l, b, m, shared))
  <2>2. p = u \/ p = v \/ p = x \/ p = y
    <3>. HIDE DEF refusal, own, shared, left, p, u, v, x, y
    <3>. QED  BY <2>1 DEF p, u, v, x, y
  <2>. HIDE DEF refusal, own, shared, left
  <2>. QED  BY <2>2, Zenon
<1>6. ASSUME NEW r, Placed(l, b, m) = LeaveOut(b, r)
      PROVE  Len(Placed(l, b, m).fate) = Len(b.fate) + 1
  BY <1>2, <1>3, <1>6
<1>7. ASSUME NEW s, Placed(l, b, m) = Book(l, b, m, s)
      PROVE  Len(Placed(l, b, m).fate) = Len(b.fate) + 1
  BY <1>2, <1>4, <1>7
<1>. QED  BY <1>5, <1>6, <1>7

\* The tables are right after each matchup, and at the end all are placed.
LEMMA ScheduledRight ==
    ASSUME NEW l, IsLeague(l)
    PROVE  /\ TablesRight(l, Matches(l), Scheduled(l))
           /\ Len(Scheduled(l).fate) = Len(Matches(l))
<1> DEFINE ms == Matches(l)
           n  == Len(ms)
           Right(b, k) == TablesRight(l, ms, b) /\ Len(b.fate) = k
<1>1. n \in Nat
  BY MatchesListed, LenProperties
<1>2. PICK f : Schedules(f, l, n) /\ Scheduled(l) = f[n]
  BY <1>1, ScheduledUnfolds
<1>3. f[0] = Nothing(l) /\ \A k \in 0 .. n : k # 0 => f[k] = Placed(l, f[k - 1], ms[k])
  BY <1>1, <1>2 DEF Schedules
<1>. HIDE DEF n, ms
<1> DEFINE T == {k \in 0 .. n : ~Right(f[k], k)}
<1>4. SUFFICES ASSUME T # {} PROVE FALSE
  BY <1>1, <1>2 DEF ms, n
<1>5. PICK k \in T : \A y \in T : k <= y
  <2>1. T \subseteq Nat
    BY <1>1
  <2>. HIDE DEF T
  <2>. QED  BY <1>4, <2>1, LeastNumber
<1>6. CASE k = 0
  <2>1. TablesRight(l, ms, Nothing(l))
    BY NothingRight
  <2>2. Len(Nothing(l).fate) = 0
    BY DEF Nothing
  <2>. QED  BY <1>3, <1>5, <1>6, <2>1, <2>2
<1>7. CASE k # 0
  <2>1. k \in 0 .. n /\ k - 1 \in 0 .. n /\ ~(k <= k - 1) /\ (k - 1) + 1 = k
    BY <1>1, <1>5, <1>7
  <2>2. Right(f[k - 1], k - 1)
    BY <1>5, <2>1
  <2> DEFINE b == f[k - 1]
  <2>3. f[k] = Placed(l, b, ms[k]) /\ TablesRight(l, ms, b) /\ Len(b.fate) = k - 1
    BY <1>3, <1>7, <2>1, <2>2
  <2>. HIDE DEF b
  <2>4. TablesRight(l, ms, Placed(l, b, ms[k]))
    BY <2>1, <2>3, PlacedRight
  <2>5. b \in Tables(l)
    BY <2>3 DEF TablesRight
  <2>6. Len(Placed(l, b, ms[k]).fate) = k
    BY <2>1, <2>3, <2>5, OneFateMore
  <2>. QED  BY <1>5, <2>3, <2>4, <2>6
<1>. QED  BY <1>6, <1>7

\* Matchup by matchup or at one go, it is the same.
StepwiseInv ==
    /\ matches = Matches(league) /\ Len(matches) \in Nat
    /\ \A f : Schedules(f, league, Len(matches)) =>
           /\ Len(built.fate) \in 0 .. Len(matches)
           /\ built = f[Len(built.fate)]

LEMMA StepwiseInvariance == ReviewSpec => []StepwiseInv
<1>1. ReviewInit => StepwiseInv
  <2>. SUFFICES ASSUME ReviewInit PROVE StepwiseInv
    OBVIOUS
  <2>1. matches = Matches(league) /\ built = Nothing(league) /\ IsLeague(league)
    BY LeagueAssumption DEF ReviewInit, GameInit
  <2>2. Len(matches) \in Nat
    BY <2>1, MatchesListed, LenProperties
  <2>3. Len(built.fate) = 0
    BY <2>1 DEF Nothing
  <2>4. \A f : Schedules(f, league, Len(matches)) => built = f[0]
    BY <2>1, <2>2 DEF Schedules
  <2>. QED  BY <2>1, <2>2, <2>3, <2>4 DEF StepwiseInv
<1>2. ScheduleRight /\ StepwiseInv /\ [ReviewNext]_<<gameVars, reviewVars>> => StepwiseInv'
  <2>. SUFFICES ASSUME ScheduleRight, StepwiseInv, [ReviewNext]_<<gameVars, reviewVars>>
                PROVE  StepwiseInv'
    OBVIOUS
  <2>1. CASE PlaceNext
    <3> DEFINE k == Len(built.fate)
    <3>1. /\ ~Done /\ league' = league /\ matches' = matches
          /\ built' = Placed(league, built, matches[k + 1])
      BY <2>1 DEF PlaceNext
    <3>2. built \in Tables(league)
      BY DEF ScheduleRight, TablesRight
    <3>3. k \in Nat /\ DOMAIN built.fate = 1 .. k
      <4>1. built.fate \in Seq(Fates(league))
        BY <3>2 DEF Tables
      <4>. QED  BY <4>1, LenProperties
    <3>4. Len(built'.fate) = k + 1
      BY <3>1, <3>2, OneFateMore
    <3>5. DOMAIN matches = 1 .. Len(matches)
      <4>1. matches \in Seq(Matchups(league))
        BY MatchesListed DEF ScheduleRight, StepwiseInv
      <4>. QED  BY <4>1, LenProperties
    <3>6. ASSUME NEW f, Schedules(f, league, Len(matches))
          PROVE  k + 1 \in 0 .. Len(matches) /\ built' = f[k + 1]
      <4>1. k \in 0 .. Len(matches) /\ built = f[k] /\ Len(matches) \in Nat
        BY <3>6 DEF StepwiseInv
      <4>2. k # Len(matches)
        BY <3>1, <3>3, <3>5 DEF Done, Taken
      <4>3. k + 1 \in 0 .. Len(matches) /\ k + 1 # 0 /\ (k + 1) - 1 = k
        BY <4>1, <4>2
      <4>4. f[k + 1] = Placed(league, f[(k + 1) - 1], Matches(league)[k + 1])
        <5>. HIDE DEF k
        <5>. QED  BY <3>6, <4>3 DEF Schedules
      <4>. QED  BY <3>1, <4>1, <4>3, <4>4 DEF StepwiseInv
    <3>. HIDE DEF k
    <3>. QED  BY <3>1, <3>4, <3>6 DEF StepwiseInv
  <2>2. CASE UNCHANGED gameVars
    BY <2>2 DEF gameVars, StepwiseInv
  <2>. QED  BY <2>1, <2>2 DEF ReviewNext
<1>. QED  BY <1>1, <1>2, ScheduleInvariance, PTL DEF ReviewSpec

\* scheduleGames: the loop over the matchups ends with what the page takes in
\* one call, so all that holds of the finished loop holds of the call.
THEOREM TheLoopIsTheCall == ReviewSpec => [](Done => built = Scheduled(league))
<1>1. ASSUME ScheduleRight, StepwiseInv, Done PROVE built = Scheduled(league)
  <2>1. PICK f : Schedules(f, league, Len(matches)) /\ Scheduled(league) = f[Len(matches)]
    BY <1>1, ScheduledUnfolds DEF StepwiseInv
  <2>2. built = f[Len(built.fate)] /\ Len(matches) \in Nat
    BY <1>1, <2>1 DEF StepwiseInv
  <2>3. Len(built.fate) \in Nat /\ DOMAIN built.fate = 1 .. Len(built.fate)
    <3>1. built.fate \in Seq(Fates(league))
      BY <1>1 DEF ScheduleRight, TablesRight, Tables
    <3>. QED  BY <3>1, LenProperties
  <2>4. DOMAIN matches = 1 .. Len(matches)
    <3>1. matches \in Seq(Matchups(league))
      BY <1>1, MatchesListed DEF ScheduleRight, StepwiseInv
    <3>. QED  BY <3>1, LenProperties
  <2>5. Len(built.fate) = Len(matches)
    <3>1. 1 .. Len(built.fate) = 1 .. Len(matches)
      BY <1>1, <2>3, <2>4 DEF Done, Taken
    <3>2. ASSUME NEW a \in Nat, NEW b \in Nat, 1 .. a = 1 .. b PROVE a = b
      <4>1. Cardinality(1 .. a) = a /\ Cardinality(1 .. b) = b
        BY UpToSize
      <4>. QED  BY <3>2, <4>1
    <3>. QED  BY <2>2, <2>3, <3>1, <3>2
  <2>. QED  BY <2>1, <2>2, <2>5
<1>. QED  BY <1>1, ScheduleInvariance, StepwiseInvariance, PTL

-----------------------------------------------------------------------------
(* The page and the store.                                                  *)

Runs == ToSet(stored)

CallFields == {"tab", "kind", "list", "state", "before", "undoes"}

\* StoredAfter and Accounted, of these rows, runs and teams.
Later(st, q, r) == \E i, j \in DOMAIN st : st[i] = r /\ st[j] = q /\ i < j
Settled(rs, st, ts, k, r) ==
    IF k \in DOMAIN rs THEN rs[k] = r \/ Later(st, rs[k], r) ELSE ~(k[1] \subseteq ts)

PageShape ==
    /\ calls \in Seq({calls[c] : c \in DOMAIN calls})
    /\ \A c \in DOMAIN calls : DOMAIN calls[c] = CallFields
    /\ stored \in Seq(DOMAIN calls)
    /\ DOMAIN local = Tabs /\ DOMAIN last = Tabs /\ DOMAIN source = Tabs /\ DOMAIN awaited = Tabs
    /\ \A k \in DOMAIN rows : k = <<k[1], k[2]>>

\* No row is left of the games of a call whose teams are gone.
Unlisted(c) == \A k \in RowsOf(calls[c].list) : Removed(k) => k \notin DOMAIN rows

\* A call is stored once, and before it is answered as stored; a row bears a
\* run that listed it, its teams were there when it was written, and what a
\* run listed is accounted for.  A call that was checked may store its list.
StoreRight ==
    /\ \A i, j \in DOMAIN stored : stored[i] = stored[j] => i = j
    /\ \A c \in DOMAIN calls :
           /\ calls[c].state \in Unserved => c \notin Runs
           /\ calls[c].state = "ok" => c \in Runs
           /\ calls[c].state = "checked" => Unlisted(c)
    /\ \A k \in DOMAIN rows :
           /\ rows[k] \in Runs /\ k \in RowsOf(calls[rows[k]].list)
           /\ calls[rows[k]].kind # "opened" => ~Removed(k)
    /\ \A r \in Runs : \A k \in RowsOf(calls[r].list) : Settled(rows, stored, teams, k, r)

\* What a tab keeps for the rollback, and sends, is what was on show before a
\* call that was stored.
UndoRight ==
    /\ \A t \in Tabs : last[t].list # NoList =>
           last[t].call \in Runs /\ last[t].list = calls[last[t].call].before
    /\ \A c \in DOMAIN calls :
           calls[c].kind = "rollback" /\ (calls[c].state \in Unserved \/ c \in Runs) =>
               calls[c].undoes \in Runs /\ calls[c].list = calls[calls[c].undoes].before

ShownRight ==
    \A t \in Tabs :
        /\ awaited[t] # NoRun => awaited[t] \in Runs
        /\ source[t] # NoRun =>
               /\ source[t] \in Runs
               /\ \A k \in RowsOf(local[t]) : Settled(rows, stored, teams, k, source[t])

PageInv == PageShape /\ StoreRight /\ UndoRight /\ ShownRight

LEMMA PageInitial == ReviewInit => PageInv
<1>. SUFFICES ASSUME ReviewInit PROVE PageInv
  OBVIOUS
<1>1. DOMAIN local = Tabs /\ DOMAIN last = Tabs /\ DOMAIN source = Tabs /\ DOMAIN awaited = Tabs
  BY DEF ReviewInit, Unopened, Opened
<1>2. \A t \in Tabs : last[t].list = NoList /\ awaited[t] = NoRun
  BY DEF ReviewInit, NoUndo
<1>3. CASE Unopened
  <2>1. calls = <<>> /\ stored = <<>> /\ rows = <<>> /\ \A t \in Tabs : source[t] = NoRun
    BY <1>3 DEF Unopened
  <2>2. DOMAIN calls = {} /\ DOMAIN stored = {} /\ DOMAIN rows = {} /\ Runs = {}
    BY <2>1 DEF Runs, ToSet
  <2>3. PageShape
    BY <1>1, <2>1, <2>2 DEF PageShape
  <2>4. StoreRight
    BY <2>2 DEF StoreRight
  <2>5. UndoRight /\ ShownRight
    BY <1>2, <2>1, <2>2 DEF UndoRight, ShownRight
  <2>. QED  BY <2>3, <2>4, <2>5 DEF PageInv
<1>4. ASSUME NEW list, Opened(list) PROVE PageInv
  <2>1. /\ calls = <<[tab |-> NoTab, kind |-> "opened", list |-> list, state |-> "over",
                      before |-> <<>>, undoes |-> NoRun]>>
        /\ stored = <<1>>
        /\ rows = [k \in RowsOf(list) |-> 1]
        /\ \A t \in Tabs : local[t] = list /\ source[t] = 1
    BY <1>4 DEF Opened
  <2>2. /\ DOMAIN calls = {1} /\ DOMAIN stored = {1} /\ Runs = {1} /\ stored[1] = 1
        /\ DOMAIN calls[1] = CallFields /\ calls[1].kind = "opened" /\ calls[1].state = "over"
        /\ calls[1].list = list
    BY <2>1 DEF Runs, ToSet, CallFields
  <2>3. \A k \in RowsOf(list) : k \in DOMAIN rows /\ rows[k] = 1 /\ k = <<k[1], k[2]>>
    BY <2>1 DEF RowsOf
  <2>4. \A k \in RowsOf(list) : Settled(rows, stored, teams, k, 1)
    BY <2>3 DEF Settled
  <2>5. PageShape
    <3>1. calls \in Seq({calls[c] : c \in DOMAIN calls}) /\ stored \in Seq(DOMAIN calls)
      BY <2>1, <2>2
    <3>. QED  BY <1>1, <2>1, <2>2, <2>3, <3>1 DEF PageShape
  <2>6. StoreRight
    BY <2>1, <2>2, <2>3, <2>4 DEF StoreRight, Unserved
  <2>7. UndoRight
    BY <1>2, <2>2 DEF UndoRight
  <2>8. ShownRight
    BY <1>2, <2>1, <2>2, <2>4 DEF ShownRight
  <2>. QED  BY <2>5, <2>6, <2>7, <2>8 DEF PageInv
<1>. QED  BY <1>3, <1>4 DEF ReviewInit

-----------------------------------------------------------------------------
(* What becomes of the calls in a step.                                     *)

LEMMA SeqOfParts ==
    ASSUME NEW n \in Nat, NEW s, s = [i \in 1 .. n |-> s[i]]
    PROVE  s \in Seq({s[c] : c \in DOMAIN s}) /\ DOMAIN s = 1 .. n
<1>1. DOMAIN s = 1 .. n
  OBVIOUS
<1>2. s \in [1 .. n -> {s[c] : c \in DOMAIN s}]
  BY <1>1
<1>. QED  BY <1>1, <1>2, SeqDef


CallsGoOn ==
    /\ calls' \in Seq({calls'[c] : c \in DOMAIN calls'}) /\ DOMAIN calls \subseteq DOMAIN calls'
    /\ \A c \in DOMAIN calls' : DOMAIN calls'[c] = CallFields
    /\ \A c \in DOMAIN calls :
           /\ calls'[c].kind = calls[c].kind /\ calls'[c].undoes = calls[c].undoes
           /\ c \in Runs' \/ calls'[c].state \in Unserved =>
                  calls'[c].list = calls[c].list /\ calls'[c].before = calls[c].before
           /\ calls'[c].state \in Unserved =>
                  calls[c].state \in Unserved /\ (c \in Runs' => c \in Runs)
           /\ calls'[c].state = "checked" =>
                  calls[c].state = "checked" \/ Unlisted(c)
           /\ calls'[c].state = "ok" => calls[c].state = "ok" \/ c \in Runs'
    /\ \A c \in (DOMAIN calls') \ DOMAIN calls : calls'[c].state = "sent"

LEMMA CallsRewritten ==
    ASSUME PageShape, calls' = [c \in DOMAIN calls |-> calls'[c]]
    PROVE  calls' \in Seq({calls'[c] : c \in DOMAIN calls'}) /\ DOMAIN calls' = DOMAIN calls
<1>1. DOMAIN calls = 1 .. Len(calls) /\ Len(calls) \in Nat
  BY LenProperties DEF PageShape
<1>2. calls' = [c \in 1 .. Len(calls) |-> calls'[c]]
  BY <1>1
<1>. QED  BY <1>1, <1>2, SeqOfParts

LEMMA LoadCalls ==
    ASSUME PageShape, NEW t, Load(t)
    PROVE  CallsGoOn /\ DOMAIN calls' = DOMAIN calls
<1>1. calls' = [c \in DOMAIN calls |->
                   IF calls[c].tab = t THEN [calls[c] EXCEPT !.tab = NoTab] ELSE calls[c]]
  BY DEF Load
<1>2. stored' = stored
  BY DEF Load, storeVars
<1>3. calls' \in Seq({calls'[c] : c \in DOMAIN calls'}) /\ DOMAIN calls' = DOMAIN calls
  BY <1>1, CallsRewritten
<1>4. ASSUME NEW c \in DOMAIN calls
      PROVE  /\ DOMAIN calls'[c] = CallFields
             /\ calls'[c].kind = calls[c].kind /\ calls'[c].undoes = calls[c].undoes
             /\ calls'[c].list = calls[c].list /\ calls'[c].before = calls[c].before
             /\ calls'[c].state = calls[c].state
  <2>1. DOMAIN calls[c] = CallFields
    BY DEF PageShape
  <2>2. calls'[c] = calls[c] \/ calls'[c] = [calls[c] EXCEPT !.tab = NoTab]
    BY <1>1
  <2>. QED  BY <2>1, <2>2 DEF CallFields
<1>. QED  BY <1>2, <1>3, <1>4 DEF CallsGoOn, Runs, Unserved

LEMMA ConsumedCalls ==
    ASSUME PageShape, NEW c \in DOMAIN calls, Consumed(c), UNCHANGED storeVars
    PROVE  CallsGoOn /\ DOMAIN calls' = DOMAIN calls
<1>1. calls' = [calls EXCEPT ![c].tab = NoTab, ![c].state = "over"]
  BY DEF Consumed
<1>2. stored' = stored
  BY DEF storeVars
<1>3. calls' \in Seq({calls'[d] : d \in DOMAIN calls'}) /\ DOMAIN calls' = DOMAIN calls
  <2>1. calls' = [d \in DOMAIN calls |-> calls'[d]]
    BY <1>1
  <2>. QED  BY <2>1, CallsRewritten
<1>4. ASSUME NEW d \in DOMAIN calls
      PROVE  /\ DOMAIN calls'[d] = CallFields
             /\ calls'[d].kind = calls[d].kind /\ calls'[d].undoes = calls[d].undoes
             /\ calls'[d].list = calls[d].list /\ calls'[d].before = calls[d].before
             /\ calls'[d].state \in {calls[d].state, "over"}
  <2>1. DOMAIN calls[d] = CallFields
    BY DEF PageShape
  <2>2. CASE d = c
    <3>1. calls'[d] = [calls[d] EXCEPT !.tab = NoTab, !.state = "over"]
      BY <1>1, <2>2
    <3>. QED  BY <2>1, <3>1 DEF CallFields
  <2>3. CASE d # c
    <3>1. calls'[d] = calls[d]
      BY <1>1, <2>3
    <3>. QED  BY <2>1, <3>1
  <2>. QED  BY <2>2, <2>3
<1>. QED  BY <1>2, <1>3, <1>4 DEF CallsGoOn, Runs, Unserved

LEMMA NotServedCalls ==
    ASSUME PageShape, StoreRight, NEW c \in DOMAIN calls, NotServed(c)
    PROVE  CallsGoOn /\ DOMAIN calls' = DOMAIN calls
<1>1. /\ calls[c].state \in Unserved /\ stored' = stored
      /\ calls' = [calls EXCEPT ![c] = [calls[c] EXCEPT !.state = "error", !.list = <<>>,
                                                        !.before = <<>>]]
  BY DEF NotServed, storeVars
<1>2. c \notin Runs /\ Runs' = Runs
  BY <1>1 DEF StoreRight, Runs
<1>3. calls' \in Seq({calls'[d] : d \in DOMAIN calls'}) /\ DOMAIN calls' = DOMAIN calls
  <2>1. calls' = [d \in DOMAIN calls |-> calls'[d]]
    BY <1>1
  <2>. QED  BY <2>1, CallsRewritten
<1>4. DOMAIN calls[c] = CallFields
  BY DEF PageShape
<1>5. calls'[c] = [calls[c] EXCEPT !.state = "error", !.list = <<>>, !.before = <<>>]
  BY <1>1
<1>6. /\ DOMAIN calls'[c] = CallFields /\ calls'[c].state = "error"
      /\ calls'[c].kind = calls[c].kind /\ calls'[c].undoes = calls[c].undoes
  BY <1>4, <1>5 DEF CallFields
<1>7. \A d \in DOMAIN calls : d # c => calls'[d] = calls[d] /\ DOMAIN calls[d] = CallFields
  BY <1>1 DEF PageShape
<1>. QED  BY <1>1, <1>2, <1>3, <1>6, <1>7 DEF CallsGoOn, Unserved

LEMMA ValidateCalls ==
    ASSUME PageShape, StoreRight, NEW c \in DOMAIN calls, Validate(c)
    PROVE  CallsGoOn /\ DOMAIN calls' = DOMAIN calls
<1>1. /\ calls[c].state = "sent" /\ stored' = stored /\ UNION DOMAIN calls[c].list \subseteq teams
      /\ calls' = [calls EXCEPT ![c] = [calls[c] EXCEPT !.state = "checked"]]
  BY DEF Validate, storeVars
<1>2. c \notin Runs /\ Runs' = Runs
  BY <1>1 DEF StoreRight, Runs, Unserved
<1>3. calls' \in Seq({calls'[d] : d \in DOMAIN calls'}) /\ DOMAIN calls' = DOMAIN calls
  <2>1. calls' = [d \in DOMAIN calls |-> calls'[d]]
    BY <1>1
  <2>. QED  BY <2>1, CallsRewritten
<1>4. DOMAIN calls[c] = CallFields
  BY DEF PageShape
<1>5. calls'[c] = [calls[c] EXCEPT !.state = "checked"]
  BY <1>1
<1>6. /\ DOMAIN calls'[c] = CallFields /\ calls'[c].state = "checked"
      /\ calls'[c].kind = calls[c].kind /\ calls'[c].undoes = calls[c].undoes
      /\ calls'[c].list = calls[c].list /\ calls'[c].before = calls[c].before
  BY <1>4, <1>5 DEF CallFields
<1>7. \A d \in DOMAIN calls : d # c => calls'[d] = calls[d] /\ DOMAIN calls[d] = CallFields
  BY <1>1 DEF PageShape
<1>8. Unlisted(c)
  <2>1. SUFFICES ASSUME NEW k \in RowsOf(calls[c].list) PROVE ~Removed(k)
    BY DEF Unlisted
  <2>2. PICK p \in DOMAIN calls[c].list : k = <<p, calls[c].list[p]>>
    BY DEF RowsOf
  <2>. QED  BY <1>1, <2>2 DEF Removed
<1>. QED  BY <1>1, <1>2, <1>3, <1>6, <1>7, <1>8 DEF CallsGoOn, Unserved

LEMMA SendCalls ==
    ASSUME PageShape, NEW t, NEW kind, NEW list, Send(t, kind, list)
    PROVE  LET n == Len(calls) + 1
           IN  /\ CallsGoOn
               /\ DOMAIN calls' = DOMAIN calls \cup {n}
               /\ \A c \in DOMAIN calls : calls'[c] = calls[c]
               /\ calls'[n].kind = kind /\ calls'[n].list = list
               /\ kind = "rollback" => calls'[n].undoes = last[t].call
<1> DEFINE n == Len(calls) + 1
           V == {calls[c] : c \in DOMAIN calls}
           x == [tab |-> t, kind |-> kind, list |-> list, state |-> "sent",
                 before |-> IF kind = "apply" THEN local[t] ELSE <<>>,
                 undoes |-> IF kind = "apply" THEN NoRun ELSE last[t].call]
<1>1. calls' = Append(calls, x) /\ stored' = stored
  BY DEF Send, storeVars
<1>2. /\ DOMAIN x = CallFields /\ x.kind = kind /\ x.list = list /\ x.state = "sent"
      /\ kind = "rollback" => x.undoes = last[t].call
  BY DEF CallFields
<1>. HIDE DEF x
<1>3. calls \in Seq(V \cup {x}) /\ x \in V \cup {x}
  BY DEF PageShape
<1>. HIDE DEF V
<1>4. /\ calls' \in Seq(V \cup {x}) /\ Len(calls') = n /\ calls'[n] = x
      /\ \A c \in 1 .. Len(calls) : calls'[c] = calls[c]
  BY <1>1, <1>3, AppendProperties
<1>5. DOMAIN calls = 1 .. Len(calls) /\ Len(calls) \in Nat /\ DOMAIN calls' = 1 .. n
  BY <1>3, <1>4, LenProperties
<1>6. DOMAIN calls' = DOMAIN calls \cup {n} /\ \A c \in DOMAIN calls : calls'[c] = calls[c]
  BY <1>4, <1>5
<1>7. calls' \in Seq({calls'[c] : c \in DOMAIN calls'})
  <2>1. calls' = [c \in 1 .. n |-> calls'[c]]
    BY <1>4, <1>5, LenProperties
  <2>. QED  BY <1>5, <2>1, SeqOfParts
<1>8. Runs' = Runs
  BY <1>1 DEF Runs
<1>9. \A c \in DOMAIN calls : DOMAIN calls[c] = CallFields
  BY DEF PageShape
<1>. HIDE DEF n
<1>10. CallsGoOn
  BY <1>2, <1>4, <1>6, <1>7, <1>8, <1>9 DEF CallsGoOn
<1>. QED  BY <1>2, <1>4, <1>6, <1>10 DEF n

LEMMA ServeCalls ==
    ASSUME PageShape, StoreRight, NEW c \in DOMAIN calls, NEW a \in {"ok", "error"}, Serve(c, a)
    PROVE  /\ CallsGoOn /\ DOMAIN calls' = DOMAIN calls
           /\ c \notin Runs /\ Runs' = Runs \cup {c}
           /\ stored' \in Seq(DOMAIN calls) /\ DOMAIN stored' = DOMAIN stored \cup {Len(stored) + 1}
           /\ Len(stored) + 1 \notin DOMAIN stored /\ stored'[Len(stored) + 1] = c
           /\ \A i \in DOMAIN stored : stored'[i] = stored[i] /\ i < Len(stored) + 1
<1> DEFINE n == Len(stored) + 1
<1>1. /\ calls[c].state = "checked" /\ stored' = Append(stored, c)
      /\ calls' = [calls EXCEPT ![c].state = a]
  BY DEF Serve
<1>2. c \notin Runs /\ stored \in Seq(DOMAIN calls)
  BY <1>1 DEF StoreRight, PageShape, Unserved
<1>3. /\ stored' \in Seq(DOMAIN calls) /\ Len(stored') = n /\ stored'[n] = c
      /\ \A i \in 1 .. Len(stored) : stored'[i] = stored[i]
  BY <1>1, <1>2, AppendProperties
<1>4. DOMAIN stored = 1 .. Len(stored) /\ Len(stored) \in Nat /\ DOMAIN stored' = 1 .. n
  BY <1>2, <1>3, LenProperties
<1>5. /\ DOMAIN stored' = DOMAIN stored \cup {n} /\ n \notin DOMAIN stored
      /\ \A i \in DOMAIN stored : stored'[i] = stored[i] /\ i < n
  BY <1>3, <1>4
<1>6. Runs' = Runs \cup {c}
  BY <1>3, <1>5 DEF Runs, ToSet
<1>7. calls' \in Seq({calls'[d] : d \in DOMAIN calls'}) /\ DOMAIN calls' = DOMAIN calls
  <2>1. calls' = [d \in DOMAIN calls |-> calls'[d]]
    BY <1>1
  <2>. QED  BY <2>1, CallsRewritten
<1>8. /\ DOMAIN calls'[c] = CallFields /\ calls'[c].state = a
      /\ calls'[c].kind = calls[c].kind /\ calls'[c].undoes = calls[c].undoes
      /\ calls'[c].list = calls[c].list /\ calls'[c].before = calls[c].before
  <2>1. DOMAIN calls[c] = CallFields
    BY DEF PageShape
  <2>2. calls'[c] = [calls[c] EXCEPT !.state = a]
    BY <1>1
  <2>. QED  BY <2>1, <2>2 DEF CallFields
<1>9. \A d \in DOMAIN calls : d # c => calls'[d] = calls[d] /\ DOMAIN calls[d] = CallFields
  BY <1>1 DEF PageShape
<1>. HIDE DEF n
<1>10. CallsGoOn
  BY <1>6, <1>7, <1>8, <1>9 DEF CallsGoOn, Unserved
<1>. QED  BY <1>2, <1>3, <1>5, <1>6, <1>7, <1>10 DEF n

LEMMA CallsUntouched ==
    ASSUME PageShape, calls' = calls, stored' = stored
    PROVE  CallsGoOn /\ DOMAIN calls' = DOMAIN calls
  BY DEF PageShape, CallsGoOn, Runs

\* What a call that goes back to an earlier one must say.
GoesBack(c) ==
    calls[c].kind = "rollback" /\ (calls[c].state \in Unserved \/ c \in Runs) =>
        calls[c].undoes \in Runs /\ calls[c].list = calls[calls[c].undoes].before

LEMMA RunsListed ==
    ASSUME PageShape, CallsGoOn, Runs \subseteq Runs'
    PROVE  \A r \in Runs : /\ r \in DOMAIN calls /\ r \in DOMAIN calls'
                           /\ calls'[r].kind = calls[r].kind /\ calls'[r].list = calls[r].list
                           /\ calls'[r].before = calls[r].before
<1>1. \A r \in Runs : r \in DOMAIN calls
  BY ElementOfSeq, LenProperties DEF PageShape, Runs, ToSet
<1>. QED  BY <1>1 DEF CallsGoOn

LEMMA StoreStays ==
    ASSUME PageInv, CallsGoOn, UNCHANGED storeVars
    PROVE  /\ StoreRight' /\ Runs' = Runs
           /\ stored' \in Seq(DOMAIN calls') /\ \A k \in DOMAIN rows' : k = <<k[1], k[2]>>
           /\ \A k, r : Settled(rows', stored', teams', k, r) <=> Settled(rows, stored, teams, k, r)
           /\ \A r \in Runs : calls'[r].before = calls[r].before /\ calls'[r].list = calls[r].list
           /\ \A c \in DOMAIN calls : GoesBack(c)'
<1>1. teams' = teams /\ rows' = rows /\ stored' = stored
  BY DEF storeVars
<1>2. Runs' = Runs
  BY <1>1 DEF Runs
<1>3. \A k, r : Settled(rows', stored', teams', k, r) <=> Settled(rows, stored, teams, k, r)
  BY <1>1 DEF Settled, Later, Removed
<1>4. \A r \in Runs : /\ r \in DOMAIN calls /\ calls'[r].kind = calls[r].kind
                      /\ calls'[r].list = calls[r].list /\ calls'[r].before = calls[r].before
  BY <1>2, RunsListed DEF PageInv
<1>5. stored' \in Seq(DOMAIN calls')
  <2>1. stored \in Seq(DOMAIN calls) /\ DOMAIN calls \subseteq DOMAIN calls'
    BY DEF PageInv, PageShape, CallsGoOn
  <2>. QED  BY <1>1, <2>1
<1>6. \A k \in DOMAIN rows' : k = <<k[1], k[2]>>
  BY <1>1 DEF PageInv, PageShape
<1>7. StoreRight'
  <2>1. \A i, j \in DOMAIN stored' : stored'[i] = stored'[j] => i = j
    BY <1>1 DEF PageInv, StoreRight
  <2>2. ASSUME NEW c \in DOMAIN calls'
        PROVE  /\ calls'[c].state \in Unserved => c \notin Runs'
               /\ calls'[c].state = "ok" => c \in Runs'
               /\ calls'[c].state = "checked" => Unlisted(c)'
    <3>1. CASE c \in DOMAIN calls
      <4>1. calls'[c].state = "checked" => Unlisted(c) /\ calls'[c].list = calls[c].list
        BY <3>1 DEF PageInv, StoreRight, CallsGoOn, Unserved
      <4>2. calls'[c].state = "checked" => Unlisted(c)'
        BY <1>1, <4>1 DEF Unlisted, Removed
      <4>. QED  BY <1>2, <3>1, <4>2 DEF PageInv, StoreRight, CallsGoOn
    <3>2. CASE c \notin DOMAIN calls
      BY <1>2, <1>4, <3>2 DEF CallsGoOn
    <3>. QED  BY <3>1, <3>2
  <2>3. ASSUME NEW k \in DOMAIN rows'
        PROVE  /\ rows'[k] \in Runs' /\ k \in RowsOf(calls'[rows'[k]].list)
               /\ calls'[rows'[k]].kind # "opened" => ~Removed(k)'
    <3>1. /\ rows[k] \in Runs /\ k \in RowsOf(calls[rows[k]].list)
          /\ calls[rows[k]].kind # "opened" => ~Removed(k)
      BY <1>1 DEF PageInv, StoreRight
    <3>2. Removed(k)' <=> Removed(k)
      BY <1>1 DEF Removed
    <3>. QED  BY <1>1, <1>2, <1>4, <3>1, <3>2
  <2>4. ASSUME NEW r \in Runs', NEW k \in RowsOf(calls'[r].list)
        PROVE  Settled(rows', stored', teams', k, r)
    <3>1. r \in Runs /\ k \in RowsOf(calls[r].list)
      BY <1>2, <1>4
    <3>. QED  BY <1>3, <3>1 DEF PageInv, StoreRight
  <2>. QED  BY <2>1, <2>2, <2>3, <2>4 DEF StoreRight
<1>8. ASSUME NEW c \in DOMAIN calls, calls'[c].kind = "rollback",
             calls'[c].state \in Unserved \/ c \in Runs'
      PROVE  calls'[c].undoes \in Runs' /\ calls'[c].list = calls'[calls'[c].undoes].before
  <2>1. /\ calls[c].kind = "rollback" /\ (calls[c].state \in Unserved \/ c \in Runs)
        /\ calls'[c].list = calls[c].list /\ calls'[c].undoes = calls[c].undoes
    BY <1>2, <1>8 DEF CallsGoOn
  <2>2. calls[c].undoes \in Runs /\ calls[c].list = calls[calls[c].undoes].before
    BY <1>8, <2>1 DEF PageInv, UndoRight, CallsGoOn
  <2>. QED  BY <1>2, <1>4, <2>1, <2>2
<1>9. \A c \in DOMAIN calls : GoesBack(c)'
  BY <1>8 DEF GoesBack
<1>. QED  BY <1>2, <1>3, <1>4, <1>5, <1>6, <1>7, <1>9

LEMMA NewestRun ==
    ASSUME PageShape
    PROVE  /\ Newest # NoRun => Newest \in Runs
           /\ Runs # {} => \A q \in Runs : q <= Newest
<1>1. DOMAIN calls = 1 .. Len(calls) /\ Len(calls) \in Nat
  BY LenProperties DEF PageShape
<1>2. Runs \in SUBSET (1 .. Len(calls))
  BY <1>1, ElementOfSeq, LenProperties DEF PageShape, Runs, ToSet
<1>3. CASE Runs = {}
  <2>1. stored = <<>>
    <3>1. stored \in Seq(DOMAIN calls) /\ DOMAIN stored = {}
      BY <1>3 DEF PageShape, Runs, ToSet
    <3>. QED  BY <3>1, EmptySeq, LenProperties
  <2>. QED  BY <1>3, <2>1 DEF Newest
<1>4. CASE Runs # {}
  <2>1. \E r \in Runs : \A q \in Runs : q <= r
    BY <1>1, <1>2, <1>4, GreatestNumber
  <2>2. stored # <<>>
    BY <1>4 DEF Runs, ToSet
  <2>3. Newest = CHOOSE r \in Runs : \A q \in Runs : q <= r
    BY <2>2 DEF Newest, Runs
  <2>. QED  BY <2>1, <2>3
<1>. QED  BY <1>3, <1>4

-----------------------------------------------------------------------------
(* The steps.                                                               *)

\* Nothing that the invariant speaks of changes.
LEMMA NothingTouched ==
    ASSUME PageInv, UNCHANGED <<storeVars, calls, local, last, source, awaited>>
    PROVE  PageInv'
<1>1. /\ teams' = teams /\ rows' = rows /\ stored' = stored /\ calls' = calls /\ local' = local
      /\ last' = last /\ source' = source /\ awaited' = awaited
  BY DEF storeVars
<1>2. /\ StoreRight' /\ Runs' = Runs
      /\ \A k, r : Settled(rows', stored', teams', k, r) <=> Settled(rows, stored, teams, k, r)
      /\ \A r \in Runs : calls'[r].before = calls[r].before
      /\ \A c \in DOMAIN calls : GoesBack(c)'
  <2>1. CallsGoOn
    BY <1>1, CallsUntouched DEF PageInv
  <2>. QED  BY <2>1, StoreStays
<1>3. PageShape'
  BY <1>1 DEF PageInv, PageShape
<1>4. UndoRight'
  BY <1>1, <1>2 DEF PageInv, UndoRight, GoesBack
<1>5. ShownRight'
  BY <1>1, <1>2 DEF PageInv, ShownRight
<1>. QED  BY <1>2, <1>3, <1>4, <1>5 DEF PageInv

LEMMA LoadKeeps ==
    ASSUME PageInv, NEW t \in Tabs, Load(t)
    PROVE  PageInv'
<1>1. /\ local' = [local EXCEPT ![t] = <<>>] /\ last' = [last EXCEPT ![t] = NoUndo]
      /\ source' = [source EXCEPT ![t] = Newest] /\ awaited' = [awaited EXCEPT ![t] = Newest]
      /\ UNCHANGED storeVars
  BY DEF Load
<1>2. CallsGoOn /\ DOMAIN calls' = DOMAIN calls
  BY LoadCalls DEF PageInv
<1>3. /\ StoreRight' /\ Runs' = Runs
      /\ stored' \in Seq(DOMAIN calls') /\ \A k \in DOMAIN rows' : k = <<k[1], k[2]>>
      /\ \A k, r : Settled(rows', stored', teams', k, r) <=> Settled(rows, stored, teams, k, r)
      /\ \A r \in Runs : calls'[r].before = calls[r].before
      /\ \A c \in DOMAIN calls : GoesBack(c)'
  BY <1>1, <1>2, StoreStays
<1>4. DOMAIN local = Tabs /\ DOMAIN last = Tabs /\ DOMAIN source = Tabs /\ DOMAIN awaited = Tabs
  BY DEF PageInv, PageShape
<1>5. PageShape'
  BY <1>1, <1>2, <1>3, <1>4 DEF PageShape, CallsGoOn
<1>6. UndoRight'
  <2>1. \A u \in Tabs : last'[u] = IF u = t THEN NoUndo ELSE last[u]
    BY <1>1, <1>4
  <2>2. ASSUME NEW u \in Tabs, last'[u].list # NoList
        PROVE  last'[u].call \in Runs' /\ last'[u].list = calls'[last'[u].call].before
    <3>1. last'[u] = last[u]
      BY <2>1, <2>2 DEF NoUndo
    <3>2. last[u].call \in Runs /\ last[u].list = calls[last[u].call].before
      BY <2>2, <3>1 DEF PageInv, UndoRight
    <3>. QED  BY <1>3, <3>1, <3>2
  <2>. QED  BY <1>2, <1>3, <2>2 DEF UndoRight, GoesBack
<1>7. ShownRight'
  <2>1. Newest # NoRun => Newest \in Runs
    BY NewestRun DEF PageInv
  <2>2. ASSUME NEW u \in Tabs
        PROVE  /\ awaited'[u] # NoRun => awaited'[u] \in Runs'
               /\ source'[u] # NoRun =>
                      /\ source'[u] \in Runs'
                      /\ \A k \in RowsOf(local'[u]) :
                             Settled(rows', stored', teams', k, source'[u])
    <3>1. CASE u = t
      <4>1. awaited'[u] = Newest /\ source'[u] = Newest /\ local'[u] = <<>>
        BY <1>1, <1>4, <3>1
      <4>2. RowsOf(<<>>) = {}
        BY DEF RowsOf
      <4>. QED  BY <1>3, <2>1, <4>1, <4>2
    <3>2. CASE u # t
      <4>1. awaited'[u] = awaited[u] /\ source'[u] = source[u] /\ local'[u] = local[u]
        BY <1>1, <1>4, <3>2
      <4>. QED  BY <1>3, <4>1 DEF PageInv, ShownRight
    <3>. QED  BY <3>1, <3>2
  <2>. QED  BY <2>2 DEF ShownRight
<1>. QED  BY <1>3, <1>5, <1>6, <1>7 DEF PageInv

LEMMA ArrivalKeeps ==
    ASSUME PageInv, NEW t \in Tabs, RowsArrive(t)
    PROVE  PageInv'
<1>1. /\ awaited[t] # NoRun /\ awaited' = [awaited EXCEPT ![t] = NoRun]
      /\ local' = [local EXCEPT ![t] = ListOf(Content(awaited[t]))]
      /\ source' = [source EXCEPT ![t] = awaited[t]]
      /\ UNCHANGED storeVars /\ calls' = calls /\ last' = last
  BY DEF RowsArrive
<1>2. CallsGoOn
  BY <1>1, CallsUntouched DEF PageInv, storeVars
<1>3. /\ StoreRight' /\ Runs' = Runs
      /\ stored' \in Seq(DOMAIN calls') /\ \A k \in DOMAIN rows' : k = <<k[1], k[2]>>
      /\ \A k, r : Settled(rows', stored', teams', k, r) <=> Settled(rows, stored, teams, k, r)
      /\ \A c \in DOMAIN calls : GoesBack(c)'
  BY <1>1, <1>2, StoreStays
<1>4. DOMAIN local = Tabs /\ DOMAIN last = Tabs /\ DOMAIN source = Tabs /\ DOMAIN awaited = Tabs
  BY DEF PageInv, PageShape
<1>5. PageShape'
  BY <1>1, <1>3, <1>4 DEF PageInv, PageShape
<1>6. UndoRight'
  BY <1>1, <1>3 DEF PageInv, UndoRight, GoesBack
<1>7. ASSUME NEW k \in RowsOf(ListOf(Content(awaited[t])))
      PROVE  k \in DOMAIN rows /\ rows[k] = awaited[t]
  <2> DEFINE K == Content(awaited[t])
  <2>1. PICK p \in {h[1] : h \in K} : k = <<p, (CHOOSE h \in K : h[1] = p)[2]>>
    BY <1>7 DEF RowsOf, ListOf
  <2>2. \E h \in K : h[1] = p
    BY <2>1
  <2>3. PICK h \in K : h[1] = p /\ k = <<h[1], h[2]>>
    BY <2>1, <2>2
  <2>4. h \in DOMAIN rows /\ rows[h] = awaited[t]
    BY DEF Content
  <2>. QED  BY <2>3, <2>4 DEF PageInv, PageShape
<1>8. ShownRight'
  <2>1. ASSUME NEW u \in Tabs
        PROVE  /\ awaited'[u] # NoRun => awaited'[u] \in Runs'
               /\ source'[u] # NoRun =>
                      /\ source'[u] \in Runs'
                      /\ \A k \in RowsOf(local'[u]) :
                             Settled(rows', stored', teams', k, source'[u])
    <3>1. CASE u = t
      <4>1. /\ awaited'[u] = NoRun /\ source'[u] = awaited[t]
            /\ local'[u] = ListOf(Content(awaited[t]))
        BY <1>1, <1>4, <3>1
      <4>2. awaited[t] \in Runs
        BY <1>1 DEF PageInv, ShownRight
      <4>3. \A k \in RowsOf(ListOf(Content(awaited[t]))) :
                Settled(rows, stored, teams, k, awaited[t])
        BY <1>7 DEF Settled
      <4>. QED  BY <1>3, <4>1, <4>2, <4>3
    <3>2. CASE u # t
      <4>1. awaited'[u] = awaited[u] /\ source'[u] = source[u] /\ local'[u] = local[u]
        BY <1>1, <1>4, <3>2
      <4>. QED  BY <1>3, <4>1 DEF PageInv, ShownRight
    <3>. QED  BY <3>1, <3>2
  <2>. QED  BY <2>1 DEF ShownRight
<1>. QED  BY <1>3, <1>5, <1>6, <1>8 DEF PageInv

LEMMA SendKeeps ==
    ASSUME PageInv, NEW t \in Tabs, NEW kind, NEW list, Send(t, kind, list),
           kind = "rollback" => list = last[t].list /\ list # NoList
    PROVE  PageInv'
<1> DEFINE n == Len(calls) + 1
<1>1. /\ UNCHANGED storeVars
      /\ local' = local /\ last' = last /\ source' = source /\ awaited' = awaited
  BY DEF Send
<1>2. /\ CallsGoOn
      /\ DOMAIN calls' = DOMAIN calls \cup {n}
      /\ \A c \in DOMAIN calls : calls'[c] = calls[c]
      /\ calls'[n].kind = kind /\ calls'[n].list = list
      /\ kind = "rollback" => calls'[n].undoes = last[t].call
  BY SendCalls DEF PageInv
<1>. HIDE DEF n
<1>3. /\ StoreRight' /\ Runs' = Runs
      /\ stored' \in Seq(DOMAIN calls') /\ \A k \in DOMAIN rows' : k = <<k[1], k[2]>>
      /\ \A k, r : Settled(rows', stored', teams', k, r) <=> Settled(rows, stored, teams, k, r)
      /\ \A r \in Runs : calls'[r].before = calls[r].before
      /\ \A c \in DOMAIN calls : GoesBack(c)'
  BY <1>1, <1>2, StoreStays
<1>4. PageShape'
  BY <1>1, <1>2, <1>3 DEF PageInv, PageShape, CallsGoOn
<1>5. UndoRight'
  <2>1. ASSUME NEW u \in Tabs, last'[u].list # NoList
        PROVE  last'[u].call \in Runs' /\ last'[u].list = calls'[last'[u].call].before
    BY <1>1, <1>3, <2>1 DEF PageInv, UndoRight
  <2>2. ASSUME kind = "rollback"
        PROVE  calls'[n].undoes \in Runs' /\ calls'[n].list = calls'[calls'[n].undoes].before
    <3>1. last[t].call \in Runs /\ list = calls[last[t].call].before
      BY <2>2 DEF PageInv, UndoRight
    <3>. QED  BY <1>2, <1>3, <2>2, <3>1
  <2>3. \A c \in DOMAIN calls' :
            calls'[c].kind = "rollback" /\ (calls'[c].state \in Unserved \/ c \in Runs') =>
                calls'[c].undoes \in Runs' /\ calls'[c].list = calls'[calls'[c].undoes].before
    BY <1>2, <1>3, <2>2 DEF GoesBack
  <2>. QED  BY <2>1, <2>3 DEF UndoRight
<1>6. ShownRight'
  BY <1>1, <1>3 DEF PageInv, ShownRight
<1>. QED  BY <1>3, <1>4, <1>5, <1>6 DEF PageInv

LEMMA NothingStoredKeeps ==
    ASSUME PageInv, NEW c \in DOMAIN calls, NotServed(c) \/ Validate(c)
    PROVE  PageInv'
<1>1. /\ UNCHANGED storeVars
      /\ local' = local /\ last' = last /\ source' = source /\ awaited' = awaited
  BY DEF NotServed, Validate, pageVars
<1>2. CallsGoOn /\ DOMAIN calls' = DOMAIN calls
  BY NotServedCalls, ValidateCalls DEF PageInv
<1>3. /\ StoreRight' /\ Runs' = Runs
      /\ stored' \in Seq(DOMAIN calls') /\ \A k \in DOMAIN rows' : k = <<k[1], k[2]>>
      /\ \A k, r : Settled(rows', stored', teams', k, r) <=> Settled(rows, stored, teams, k, r)
      /\ \A r \in Runs : calls'[r].before = calls[r].before
      /\ \A d \in DOMAIN calls : GoesBack(d)'
  BY <1>1, <1>2, StoreStays
<1>4. PageShape'
  BY <1>1, <1>2, <1>3 DEF PageInv, PageShape, CallsGoOn
<1>5. UndoRight'
  BY <1>1, <1>2, <1>3 DEF PageInv, UndoRight, GoesBack
<1>6. ShownRight'
  BY <1>1, <1>3 DEF PageInv, ShownRight
<1>. QED  BY <1>3, <1>4, <1>5, <1>6 DEF PageInv

LEMMA AnswerKeeps ==
    ASSUME PageInv, NEW c \in DOMAIN calls, Answered(c)
    PROVE  PageInv'
<1>1. PICK t \in Tabs : /\ Applied(t, c) \/ RolledBack(t, c) \/ Failed(t, c)
                        /\ Consumed(c)
                        /\ UNCHANGED <<storeVars, awaited, roster>>
  BY DEF Answered
<1>2. UNCHANGED storeVars /\ awaited' = awaited
  BY <1>1
<1>3. CallsGoOn /\ DOMAIN calls' = DOMAIN calls
  BY <1>1, ConsumedCalls DEF PageInv
<1>4. /\ StoreRight' /\ Runs' = Runs
      /\ stored' \in Seq(DOMAIN calls') /\ \A k \in DOMAIN rows' : k = <<k[1], k[2]>>
      /\ \A k, r : Settled(rows', stored', teams', k, r) <=> Settled(rows, stored, teams, k, r)
      /\ \A r \in Runs : calls'[r].before = calls[r].before /\ calls'[r].list = calls[r].list
      /\ \A d \in DOMAIN calls : GoesBack(d)'
  BY <1>2, <1>3, StoreStays
<1>5. DOMAIN local = Tabs /\ DOMAIN last = Tabs /\ DOMAIN source = Tabs /\ DOMAIN awaited = Tabs
  BY DEF PageInv, PageShape
<1>6. PageShape'
  <2>1. DOMAIN local' = Tabs /\ DOMAIN last' = Tabs /\ DOMAIN source' = Tabs
    BY <1>1, <1>5 DEF Applied, RolledBack, Failed
  <2>. QED  BY <1>2, <1>3, <1>4, <1>5, <2>1 DEF PageShape, CallsGoOn
<1>7. \/ /\ local' = local /\ source' = source
      \/ /\ calls[c].state = "ok" /\ local' = [local EXCEPT ![t] = calls[c].list]
         /\ source' = [source EXCEPT ![t] = c]
  BY <1>1 DEF Applied, RolledBack, Failed
<1>8. \/ last' = last \/ last' = [last EXCEPT ![t] = NoUndo]
      \/ /\ calls[c].state = "ok"
         /\ last' = [last EXCEPT ![t] = [list |-> calls[c].before, call |-> c]]
  BY <1>1 DEF Applied, RolledBack, Failed
<1>9. calls[c].state = "ok" =>
          c \in Runs /\ \A k \in RowsOf(calls[c].list) : Settled(rows, stored, teams, k, c)
  BY DEF PageInv, StoreRight
<1>10. UndoRight'
  <2>1. ASSUME NEW u \in Tabs, last'[u].list # NoList
        PROVE  last'[u].call \in Runs' /\ last'[u].list = calls'[last'[u].call].before
    <3>1. \/ last'[u] = last[u]
          \/ calls[c].state = "ok" /\ last'[u] = [list |-> calls[c].before, call |-> c]
      BY <1>5, <1>8, <2>1 DEF NoUndo
    <3>2. CASE last'[u] = last[u]
      <4>1. last[u].call \in Runs /\ last[u].list = calls[last[u].call].before
        BY <2>1, <3>2 DEF PageInv, UndoRight
      <4>. QED  BY <1>4, <3>2, <4>1
    <3>3. CASE calls[c].state = "ok" /\ last'[u] = [list |-> calls[c].before, call |-> c]
      <4>1. last'[u].list = calls[c].before /\ last'[u].call = c /\ c \in Runs
        BY <1>9, <3>3
      <4>. QED  BY <1>4, <4>1
    <3>. QED  BY <3>1, <3>2, <3>3
  <2>. QED  BY <1>3, <1>4, <2>1 DEF UndoRight, GoesBack
<1>11. ShownRight'
  <2>1. ASSUME NEW u \in Tabs
        PROVE  /\ awaited'[u] # NoRun => awaited'[u] \in Runs'
               /\ source'[u] # NoRun =>
                      /\ source'[u] \in Runs'
                      /\ \A k \in RowsOf(local'[u]) :
                             Settled(rows', stored', teams', k, source'[u])
    <3>1. awaited'[u] # NoRun => awaited'[u] \in Runs'
      BY <1>2, <1>4 DEF PageInv, ShownRight
    <3>2. \/ source'[u] = source[u] /\ local'[u] = local[u]
          \/ calls[c].state = "ok" /\ source'[u] = c /\ local'[u] = calls[c].list
      BY <1>5, <1>7
    <3>3. CASE source'[u] = source[u] /\ local'[u] = local[u]
      BY <1>4, <3>1, <3>3 DEF PageInv, ShownRight
    <3>4. CASE calls[c].state = "ok" /\ source'[u] = c /\ local'[u] = calls[c].list
      BY <1>4, <1>9, <3>1, <3>4
    <3>. QED  BY <3>2, <3>3, <3>4
  <2>. QED  BY <2>1 DEF ShownRight
<1>. QED  BY <1>4, <1>6, <1>10, <1>11 DEF PageInv

LEMMA ServeKeeps ==
    ASSUME PageInv, NEW c \in DOMAIN calls, NEW a \in {"ok", "error"}, Serve(c, a)
    PROVE  PageInv'
<1> DEFINE n == Len(stored) + 1
           listed == RowsOf(OfTeams(calls[c].list))
<1>1. /\ calls[c].state = "checked"
      /\ rows' = [k \in DOMAIN rows \cup listed |-> IF k \in listed THEN c ELSE rows[k]]
      /\ teams' = teams /\ local' = local /\ last' = last /\ source' = source /\ awaited' = awaited
  BY DEF Serve, Upsert, pageVars
<1>2. /\ CallsGoOn /\ DOMAIN calls' = DOMAIN calls
      /\ c \notin Runs /\ Runs' = Runs \cup {c}
      /\ stored' \in Seq(DOMAIN calls) /\ DOMAIN stored' = DOMAIN stored \cup {n}
      /\ n \notin DOMAIN stored /\ stored'[n] = c
      /\ \A i \in DOMAIN stored : stored'[i] = stored[i] /\ i < n
  BY ServeCalls DEF PageInv
<1>. HIDE DEF n
<1>3. \A r \in Runs : /\ r \in DOMAIN calls /\ r \in DOMAIN calls'
                      /\ calls'[r].kind = calls[r].kind /\ calls'[r].list = calls[r].list
                      /\ calls'[r].before = calls[r].before
  BY <1>2, RunsListed DEF PageInv
<1>4. /\ calls'[c].kind = calls[c].kind /\ calls'[c].list = calls[c].list
      /\ calls'[c].undoes = calls[c].undoes /\ calls'[c].before = calls[c].before
  BY <1>2 DEF CallsGoOn
<1>5. \A k : Removed(k)' <=> Removed(k)
  BY <1>1 DEF Removed
<1>6. /\ \A k \in listed :
             k = <<k[1], k[2]>> /\ ~Removed(k) /\ k \in RowsOf(calls[c].list)
      /\ \A k \in RowsOf(calls[c].list) \ listed : Removed(k) /\ k \notin DOMAIN rows
  <2>1. ASSUME NEW k \in listed
        PROVE  k = <<k[1], k[2]>> /\ ~Removed(k) /\ k \in RowsOf(calls[c].list)
    <3>1. PICK p \in DOMAIN calls[c].list :
              p \subseteq teams /\ k = <<p, calls[c].list[p]>>
      BY DEF RowsOf, OfTeams
    <3>. QED  BY <3>1 DEF Removed, RowsOf
  <2>2. ASSUME NEW k \in RowsOf(calls[c].list), k \notin listed
        PROVE  Removed(k) /\ k \notin DOMAIN rows
    <3>1. PICK p \in DOMAIN calls[c].list : k = <<p, calls[c].list[p]>>
      BY DEF RowsOf
    <3>2. ~(p \subseteq teams)
      BY <2>2, <3>1 DEF RowsOf, OfTeams
    <3>3. Unlisted(c)
      BY <1>1 DEF PageInv, StoreRight
    <3>. QED  BY <3>1, <3>2, <3>3 DEF Removed, Unlisted
  <2>. QED  BY <2>1, <2>2
<1>. HIDE DEF listed
<1>7. /\ DOMAIN rows' = DOMAIN rows \cup listed
      /\ \A k \in listed : rows'[k] = c
      /\ \A k \in DOMAIN rows : k \notin listed => rows'[k] = rows[k]
  BY <1>1
<1>8. ASSUME NEW k, NEW r \in Runs, Settled(rows, stored, teams, k, r)
      PROVE  Settled(rows', stored', teams', k, r)
  <2>1. CASE k \in listed
    <3>1. Later(stored', c, r)
      <4>1. PICK i \in DOMAIN stored : stored[i] = r
        BY DEF Runs, ToSet
      <4>2. i \in DOMAIN stored' /\ n \in DOMAIN stored' /\ stored'[i] = r
            /\ stored'[n] = c /\ i < n
        BY <1>2, <4>1
      <4>. QED  BY <4>2 DEF Later
    <3>. QED  BY <1>7, <2>1, <3>1 DEF Settled
  <2>2. CASE k \notin listed /\ k \in DOMAIN rows
    <3>1. rows[k] = r \/ Later(stored, rows[k], r)
      BY <1>8, <2>2 DEF Settled
    <3>2. k \in DOMAIN rows' /\ rows'[k] = rows[k]
      BY <1>7, <2>2
    <3>3. rows'[k] = r \/ Later(stored', rows'[k], r)
      <4>1. CASE rows[k] = r  BY <3>2, <4>1
      <4>2. CASE Later(stored, rows[k], r)
        <5>1. PICK i, j \in DOMAIN stored : stored[i] = r /\ stored[j] = rows[k] /\ i < j
          BY <4>2 DEF Later
        <5>2. i \in DOMAIN stored' /\ j \in DOMAIN stored' /\ stored'[i] = r
              /\ stored'[j] = rows'[k] /\ i < j
          BY <1>2, <3>2, <5>1
        <5>. QED  BY <5>2 DEF Later
      <4>. QED  BY <3>1, <4>1, <4>2
    <3>. QED  BY <3>2, <3>3 DEF Settled
  <2>3. CASE k \notin listed /\ k \notin DOMAIN rows
    BY <1>1, <1>7, <1>8, <2>3 DEF Settled
  <2>. QED  BY <2>1, <2>2, <2>3
<1>9. PageShape'
  <2>1. \A k \in DOMAIN rows' : k = <<k[1], k[2]>>
    BY <1>6, <1>7 DEF PageInv, PageShape
  <2>. QED  BY <1>1, <1>2, <2>1 DEF PageInv, PageShape, CallsGoOn
<1>10. StoreRight'
  <2>1. \A i, j \in DOMAIN stored' : stored'[i] = stored'[j] => i = j
    <3>1. \A i \in DOMAIN stored : stored[i] # c
      BY <1>2 DEF Runs, ToSet
    <3>. QED  BY <1>2, <3>1 DEF PageInv, StoreRight
  <2>2. \A d \in DOMAIN calls' : /\ calls'[d].state \in Unserved => d \notin Runs'
                                 /\ calls'[d].state = "ok" => d \in Runs'
                                 /\ calls'[d].state = "checked" => Unlisted(d)'
    <3>1. calls'[c].state \notin Unserved
      BY <1>2 DEF CallsGoOn
    <3>2. ASSUME NEW d \in DOMAIN calls', calls'[d].state = "checked"
          PROVE  Unlisted(d)'
      <4>1. Unlisted(d) /\ calls'[d].list = calls[d].list
        BY <1>2, <3>2 DEF PageInv, StoreRight, CallsGoOn, Unserved
      <4>. QED  BY <1>5, <1>6, <1>7, <4>1 DEF Unlisted, RowsOf
    <3>. QED  BY <1>2, <3>1, <3>2 DEF PageInv, StoreRight, CallsGoOn
  <2>3. ASSUME NEW k \in DOMAIN rows'
        PROVE  /\ rows'[k] \in Runs' /\ k \in RowsOf(calls'[rows'[k]].list)
               /\ calls'[rows'[k]].kind # "opened" => ~Removed(k)'
    <3>1. CASE k \in listed
      BY <1>2, <1>4, <1>5, <1>6, <1>7, <3>1
    <3>2. CASE k \notin listed
      <4>1. k \in DOMAIN rows /\ rows'[k] = rows[k]
        BY <1>7, <3>2
      <4>2. /\ rows[k] \in Runs /\ k \in RowsOf(calls[rows[k]].list)
            /\ calls[rows[k]].kind # "opened" => ~Removed(k)
        BY <4>1 DEF PageInv, StoreRight
      <4>. QED  BY <1>2, <1>3, <1>5, <4>1, <4>2
    <3>. QED  BY <3>1, <3>2
  <2>4. ASSUME NEW r \in Runs', NEW k \in RowsOf(calls'[r].list)
        PROVE  Settled(rows', stored', teams', k, r)
    <3>1. CASE r = c
      BY <1>1, <1>4, <1>5, <1>6, <1>7, <3>1 DEF Settled, Removed
    <3>2. CASE r \in Runs
      <4>1. Settled(rows, stored, teams, k, r)
        BY <1>3, <3>2 DEF PageInv, StoreRight
      <4>. QED  BY <1>8, <3>2, <4>1
    <3>. QED  BY <1>2, <3>1, <3>2
  <2>. QED  BY <2>1, <2>2, <2>3, <2>4 DEF StoreRight
<1>11. UndoRight'
  <2>1. ASSUME NEW t \in Tabs, last'[t].list # NoList
        PROVE  last'[t].call \in Runs' /\ last'[t].list = calls'[last'[t].call].before
    BY <1>1, <1>2, <1>3, <2>1 DEF PageInv, UndoRight
  <2>2. ASSUME NEW d \in DOMAIN calls', calls'[d].kind = "rollback",
               calls'[d].state \in Unserved \/ d \in Runs'
        PROVE  calls'[d].undoes \in Runs' /\ calls'[d].list = calls'[calls'[d].undoes].before
    <3>1. /\ d \in DOMAIN calls /\ calls[d].kind = "rollback"
          /\ calls'[d].list = calls[d].list /\ calls'[d].undoes = calls[d].undoes
          /\ calls[d].state \in Unserved \/ d \in Runs
      BY <1>1, <1>2, <2>2 DEF CallsGoOn, Unserved
    <3>2. calls[d].undoes \in Runs /\ calls[d].list = calls[calls[d].undoes].before
      BY <3>1 DEF PageInv, UndoRight
    <3>. QED  BY <1>2, <1>3, <3>1, <3>2
  <2>. QED  BY <2>1, <2>2 DEF UndoRight
<1>12. ShownRight'
  <2>1. ASSUME NEW t \in Tabs, source'[t] # NoRun, NEW k \in RowsOf(local'[t])
        PROVE  Settled(rows', stored', teams', k, source'[t])
    <3>1. source[t] \in Runs /\ Settled(rows, stored, teams, k, source[t]) /\ source'[t] = source[t]
      BY <1>1, <2>1 DEF PageInv, ShownRight
    <3>2. Settled(rows', stored', teams', k, source[t])
      BY <1>8, <3>1
    <3>. QED  BY <3>1, <3>2
  <2>2. \A t \in Tabs : /\ awaited'[t] # NoRun => awaited'[t] \in Runs'
                        /\ source'[t] # NoRun => source'[t] \in Runs'
    BY <1>1, <1>2 DEF PageInv, ShownRight
  <2>. QED  BY <2>1, <2>2 DEF ShownRight
<1>. QED  BY <1>9, <1>10, <1>11, <1>12 DEF PageInv

LEMMA DeletionKeeps ==
    ASSUME PageInv, NEW id, DeleteTeam(id)
    PROVE  PageInv'
<1>1. /\ teams' = teams \ {id} /\ id \in teams
      /\ rows' = [h \in {k \in DOMAIN rows : id \notin k[1]} |-> rows[h]]
      /\ stored' = stored /\ calls' = calls
      /\ local' = local /\ last' = last /\ source' = source /\ awaited' = awaited
  BY DEF DeleteTeam, pageVars
<1>2. Runs' = Runs
  BY <1>1 DEF Runs
<1>3. /\ DOMAIN rows' = {k \in DOMAIN rows : id \notin k[1]}
      /\ \A k \in DOMAIN rows' : rows'[k] = rows[k]
  BY <1>1
<1>4. \A k : Removed(k)' <=> Removed(k) \/ id \in k[1]
  BY <1>1 DEF Removed
<1>5. ASSUME NEW k, NEW r, Settled(rows, stored, teams, k, r)
      PROVE  Settled(rows', stored', teams', k, r)
  <2>1. CASE k \in DOMAIN rows'
    <3>1. k \in DOMAIN rows /\ rows'[k] = rows[k]
      BY <1>3, <2>1
    <3>2. Later(stored, rows[k], r) => Later(stored', rows'[k], r)
      BY <1>1, <3>1 DEF Later
    <3>. QED  BY <1>5, <2>1, <3>1, <3>2 DEF Settled
  <2>2. CASE k \notin DOMAIN rows'
    BY <1>1, <1>3, <1>5, <2>2 DEF Settled
  <2>. QED  BY <2>1, <2>2
<1>6. PageShape'
  BY <1>1, <1>3 DEF PageInv, PageShape
<1>7. StoreRight'
  <2>1. \A k \in DOMAIN rows' : /\ rows'[k] \in Runs' /\ k \in RowsOf(calls'[rows'[k]].list)
                                /\ calls'[rows'[k]].kind # "opened" => ~Removed(k)'
    BY <1>1, <1>2, <1>3, <1>4 DEF PageInv, StoreRight
  <2>2. \A r \in Runs' : \A k \in RowsOf(calls'[r].list) : Settled(rows', stored', teams', k, r)
    BY <1>1, <1>2, <1>5 DEF PageInv, StoreRight
  <2>3. ASSUME NEW c \in DOMAIN calls, Unlisted(c) PROVE Unlisted(c)'
    BY <1>1, <1>3, <1>4, <2>3 DEF Unlisted
  <2>. QED  BY <1>1, <1>2, <2>1, <2>2, <2>3 DEF PageInv, StoreRight
<1>8. UndoRight'
  BY <1>1, <1>2 DEF PageInv, UndoRight
<1>9. ShownRight'
  <2>1. ASSUME NEW t \in Tabs, source'[t] # NoRun, NEW k \in RowsOf(local'[t])
        PROVE  Settled(rows', stored', teams', k, source'[t])
    <3>1. Settled(rows, stored, teams, k, source[t]) /\ source'[t] = source[t]
      BY <1>1, <2>1 DEF PageInv, ShownRight
    <3>2. Settled(rows', stored', teams', k, source[t])
      BY <1>5, <3>1
    <3>. QED  BY <3>1, <3>2
  <2>2. \A t \in Tabs : /\ awaited'[t] # NoRun => awaited'[t] \in Runs'
                        /\ source'[t] # NoRun => source'[t] \in Runs'
    BY <1>1, <1>2 DEF PageInv, ShownRight
  <2>. QED  BY <2>1, <2>2 DEF ShownRight
<1>. QED  BY <1>6, <1>7, <1>8, <1>9 DEF PageInv

\* The invariant behind the page, for any number of tabs, calls and deletions.
LEMMA PageInvariance == ReviewSpec => []PageInv
<1>1. PageInv /\ [ReviewNext]_<<gameVars, reviewVars>> => PageInv'
  <2>. SUFFICES ASSUME PageInv, [ReviewNext]_<<gameVars, reviewVars>> PROVE PageInv'
    OBVIOUS
  <2>1. CASE UNCHANGED reviewVars
    <3>1. UNCHANGED <<storeVars, calls, local, last, source, awaited>>
      BY <2>1 DEF reviewVars, pageVars, storeVars
    <3>. QED  BY <3>1, NothingTouched
  <2>2. CASE league \in Reviewed /\ ReviewStep
    <3>1. Used[league] \subseteq Tabs
      BY <2>2, ReviewAssumption
    <3>2. ASSUME NEW t \in Tabs, TabStep(t) PROVE PageInv'
      <4>1. CASE Load(t)  BY <4>1, LoadKeeps
      <4>2. CASE RowsArrive(t)  BY <4>2, ArrivalKeeps
      <4>3. CASE Generate(t) \/ Discard(t) \/ \E p, s : Drag(t, p, s)
        <5>1. UNCHANGED <<storeVars, calls, local, last, source, awaited>>
          BY <4>3 DEF Generate, Discard, Drag, Stage
        <5>. QED  BY <5>1, NothingTouched
      <4>4. CASE Apply(t)
        <5>1. Send(t, "apply", review[t])
          BY <4>4 DEF Apply
        <5>. QED  BY <5>1, SendKeeps
      <4>5. CASE Rollback(t)
        <5>1. Send(t, "rollback", last[t].list) /\ last[t].list # NoList
          BY <4>5 DEF Rollback
        <5>. QED  BY <5>1, SendKeeps
      <4>. QED  BY <3>2, <4>1, <4>2, <4>3, <4>4, <4>5 DEF TabStep
    <3>3. ASSUME NEW c \in DOMAIN calls, CallStep(c) PROVE PageInv'
      <4>1. CASE NotServed(c) \/ Validate(c)  BY <4>1, NothingStoredKeeps
      <4>2. CASE Answered(c)  BY <4>2, AnswerKeeps
      <4>3. ASSUME NEW a \in {"ok", "error"}, Serve(c, a) PROVE PageInv'
        BY <4>3, ServeKeeps
      <4>. QED  BY <3>3, <4>1, <4>2, <4>3 DEF CallStep
    <3>4. ASSUME NEW id, DeleteTeam(id) PROVE PageInv'
      BY <3>4, DeletionKeeps
    <3>. QED  BY <2>2, <3>1, <3>2, <3>3, <3>4 DEF ReviewStep
  <2>. QED  BY <2>1, <2>2 DEF ReviewNext
<1>. QED  BY <1>1, PageInitial, PTL DEF ReviewSpec

\* persist_game_schedule and the two queries of the page, for any number of
\* tabs and in any order of calls, answers, losses and deletions: the run
\* that a page would load, and whatever a tab shows as the schedule of a run,
\* is whole but for games that went with a team or moved to a later run.
THEOREM TheShownIsWhole == ReviewSpec => []ShownIsWhole
<1>1. ASSUME PageInv PROVE ShownIsWhole
  <2>1. \A k, r : Accounted(k, r) <=> Settled(rows, stored, teams, k, r)
    BY DEF Accounted, StoredAfter, Removed, Settled, Later
  <2>2. ASSUME Newest # NoRun
        PROVE  /\ Content(Newest) \subseteq RowsOf(calls[Newest].list)
               /\ \A k \in RowsOf(calls[Newest].list) : Accounted(k, Newest)
    <3>1. Newest \in Runs
      BY <1>1, <2>2, NewestRun DEF PageInv
    <3>2. Content(Newest) \subseteq RowsOf(calls[Newest].list)
      BY <1>1 DEF PageInv, StoreRight, Content
    <3>3. \A k \in RowsOf(calls[Newest].list) : Settled(rows, stored, teams, k, Newest)
      BY <1>1, <3>1 DEF PageInv, StoreRight
    <3>. QED  BY <2>1, <3>2, <3>3
  <2>3. ASSUME NEW t \in Tabs, source[t] # NoRun
        PROVE  source[t] \in ToSet(stored) /\ \A k \in RowsOf(local[t]) : Accounted(k, source[t])
    <3>1. /\ source[t] \in Runs
          /\ \A k \in RowsOf(local[t]) : Settled(rows, stored, teams, k, source[t])
      BY <1>1, <2>3 DEF PageInv, ShownRight
    <3>. QED  BY <2>1, <3>1 DEF Runs
  <2>. QED  BY <2>2, <2>3 DEF ShownIsWhole
<1>. QED  BY <1>1, PageInvariance, PTL

\* handleRollbackLastApply, under the same conditions: as long as nothing is
\* stored after a rollback, its run holds exactly the games that were on show
\* before the apply it takes back and whose teams are still there.
THEOREM TheRollbackRestores == ReviewSpec => []RollbackRestores
<1>1. ASSUME PageInv PROVE RollbackRestores
  <2> DEFINE n == Len(stored)
             r == stored[n]
             a == calls[r].undoes
  <2>1. SUFFICES ASSUME stored # <<>>, calls[r].kind = "rollback"
                 PROVE  /\ a \in ToSet(stored)
                        /\ Content(r) = {k \in RowsOf(calls[a].before) : ~Removed(k)}
    BY DEF RollbackRestores
  <2>2. /\ DOMAIN stored = 1 .. n /\ n \in Nat /\ n \in DOMAIN stored
        /\ r \in Runs /\ r \in DOMAIN calls
    <3>1. stored \in Seq(DOMAIN calls)
      BY <1>1 DEF PageInv, PageShape
    <3>2. DOMAIN stored = 1 .. n /\ n \in Nat /\ n # 0
      BY <2>1, <3>1, LenProperties, EmptySeq
    <3>3. n \in DOMAIN stored
      BY <3>2
    <3>. QED  BY <3>1, <3>2, <3>3, ElementOfSeq DEF Runs, ToSet
  <2>. HIDE DEF n
  <2>3. a \in Runs /\ calls[r].list = calls[a].before
    BY <1>1, <2>1, <2>2 DEF PageInv, UndoRight
  <2>4. ASSUME NEW k \in Content(r) PROVE k \in RowsOf(calls[a].before) /\ ~Removed(k)
    <3>1. k \in DOMAIN rows /\ rows[k] = r
      BY DEF Content
    <3>2. k \in RowsOf(calls[r].list) /\ ~Removed(k)
      BY <1>1, <2>1, <3>1 DEF PageInv, StoreRight
    <3>. QED  BY <2>3, <3>2
  <2>5. ASSUME NEW k \in RowsOf(calls[a].before), ~Removed(k) PROVE k \in Content(r)
    <3>1. Settled(rows, stored, teams, k, r)
      BY <1>1, <2>2, <2>3 DEF PageInv, StoreRight
    <3>2. k \in DOMAIN rows /\ (rows[k] = r \/ Later(stored, rows[k], r))
      BY <2>5, <3>1 DEF Settled, Removed
    <3>3. ASSUME Later(stored, rows[k], r) PROVE FALSE
      <4>1. PICK i, j \in DOMAIN stored : stored[i] = r /\ stored[j] = rows[k] /\ i < j
        BY <3>3 DEF Later
      <4>2. i = n
        BY <1>1, <2>2, <4>1 DEF PageInv, StoreRight
      <4>. QED  BY <2>2, <4>1, <4>2
    <3>. QED  BY <3>2, <3>3 DEF Content
  <2>6. Content(r) = {k \in RowsOf(calls[a].before) : ~Removed(k)}
    BY <2>4, <2>5
  <2>. QED  BY <2>3, <2>6 DEF Runs
<1>. QED  BY <1>1, PageInvariance, PTL

-----------------------------------------------------------------------------
(* The list that the page generates.                                        *)

\* A list that a league can play: its pairs are of one division each and in
\* its slots or shared ones, no slot has more of them than room, and no team
\* has two in a week, no coach two at a time.
Playable(l, list) ==
    /\ \A p \in DOMAIN list :
           /\ list[p] \in DOMAIN l.slot
           /\ \E d : p \subseteq TeamsOf(l, d) /\ l.slot[list[p]].division \in {d, Shared}
    /\ \A s \in DOMAIN l.slot :
           Cardinality({p \in DOMAIN list : list[p] = s}) <= l.slot[s].capacity
    /\ \A p, q \in DOMAIN list : p # q =>
           /\ l.slot[list[p]].week = l.slot[list[q]].week => p \cap q = {}
           /\ \A t \in p, u \in q :
                  l.team[t].coaches \cap l.team[u].coaches # {}
                      => ~Overlapping(l, list[p], list[q])

LEMMA GeneratedPlayable ==
    ASSUME NEW l, IsLeague(l)
    PROVE  Playable(l, Generated(l))
<1> DEFINE ms     == Matches(l)
           b      == Scheduled(l)
           placed == {i \in DOMAIN ms : b.fate[i].slot # 0}
           keys   == {<<Pair(ms[i]), b.fate[i].slot>> : i \in placed}
           list   == Generated(l)
<1>1. TablesRight(l, ms, b) /\ Len(b.fate) = Len(ms)
  BY ScheduledRight
<1>2. placed = GamesOf(b)
  <2>1. ms \in Seq(Matchups(l))
    BY MatchesListed
  <2>2. b.fate \in Seq(Fates(l))
    BY <1>1 DEF TablesRight, Tables
  <2>. HIDE DEF ms, b
  <2>3. DOMAIN b.fate = DOMAIN ms
    BY <1>1, <2>1, <2>2, LenProperties
  <2>. QED  BY <2>3 DEF GamesOf
<1>3. list = [p \in {k[1] : k \in keys} |-> (CHOOSE k \in keys : k[1] = p)[2]]
  BY DEF Generated, ListOf
<1>. HIDE DEF ms, b, list
<1>4. \A p \in DOMAIN list : \E i \in placed : p = Pair(ms[i]) /\ list[p] = b.fate[i].slot
  <2>1. SUFFICES ASSUME NEW p \in DOMAIN list
                 PROVE  \E i \in placed : p = Pair(ms[i]) /\ list[p] = b.fate[i].slot
    OBVIOUS
  <2>2. \E k \in keys : k[1] = p
    BY <1>3
  <2> DEFINE k == CHOOSE k \in keys : k[1] = p
  <2>3. k \in keys /\ k[1] = p
    BY <2>2
  <2>4. list[p] = k[2]
    BY <1>3
  <2>. HIDE DEF k
  <2>5. PICK i \in placed : k = <<Pair(ms[i]), b.fate[i].slot>>
    BY <2>3
  <2>. QED  BY <2>3, <2>4, <2>5
<1>. HIDE DEF keys, placed
<1> DEFINE of(p) == CHOOSE i \in placed : p = Pair(ms[i]) /\ list[p] = b.fate[i].slot
<1>5. \A p \in DOMAIN list :
          of(p) \in GamesOf(b) /\ p = Pair(ms[of(p)]) /\ list[p] = b.fate[of(p)].slot
  BY <1>2, <1>4
<1>. HIDE DEF of
<1>6. \A i \in GamesOf(b) : b.fate[i].slot \in DOMAIN l.slot
  <2>1. b.fate \in Seq(Fates(l))
    BY <1>1 DEF TablesRight, Tables
  <2>2. \A i \in DOMAIN b.fate : b.fate[i] \in Fates(l)
    BY <2>1, LenProperties, ElementOfSeq
  <2>. QED  BY <2>2 DEF GamesOf, Fates
<1>7. RulesKept(l, ms, b) /\ RoomCounted(l, b) /\ b \in Tables(l)
  BY <1>1 DEF TablesRight
<1>8. ASSUME NEW p \in DOMAIN list
      PROVE  /\ list[p] \in DOMAIN l.slot
             /\ \E d : p \subseteq TeamsOf(l, d) /\ l.slot[list[p]].division \in {d, Shared}
  BY <1>5, <1>6, <1>7 DEF RulesKept
<1>9. ASSUME NEW s \in DOMAIN l.slot
      PROVE  Cardinality({p \in DOMAIN list : list[p] = s}) <= l.slot[s].capacity
  <2> DEFINE P == {p \in DOMAIN list : list[p] = s}
             g == [p \in P |-> of(p)]
  <2>1. g \in Injection(P, InSlot(b, s))
    <3>1. \A p \in P : of(p) \in InSlot(b, s) /\ p = Pair(ms[of(p)])
      BY <1>5 DEF InSlot
    <3>2. g \in [P -> InSlot(b, s)]
      BY <3>1
    <3>3. \A p, q \in P : g[p] = g[q] => p = q
      BY <3>1
    <3>. HIDE DEF P, g
    <3>. QED  BY <3>2, <3>3 DEF Injection, IsInjective
  <2>2. IsFiniteSet(InSlot(b, s))
    <3>1. b.fate \in Seq(Fates(l))
      BY <1>7 DEF Tables
    <3>2. InSlot(b, s) \in SUBSET GamesOf(b)
      BY DEF InSlot
    <3>. QED  BY <3>1, <3>2, SetsFinite
  <2>3. Cardinality(P) <= Cardinality(InSlot(b, s)) /\ IsFiniteSet(P)
    <3>. HIDE DEF P, g
    <3>. QED  BY <2>1, <2>2, FS_Injection
  <2>4. b.room[s] \in Nat /\ b.room[s] + Cardinality(InSlot(b, s)) = l.slot[s].capacity
    BY <1>7 DEF RoomCounted, Tables
  <2>5. Cardinality(P) \in Nat /\ Cardinality(InSlot(b, s)) \in Nat
    BY <2>2, <2>3, FS_CardinalityType
  <2>. QED  BY <2>3, <2>4, <2>5
<1>10. ASSUME NEW p \in DOMAIN list, NEW q \in DOMAIN list, p # q
       PROVE  /\ l.slot[list[p]].week = l.slot[list[q]].week => p \cap q = {}
              /\ \A t \in p, u \in q :
                     l.team[t].coaches \cap l.team[u].coaches # {}
                         => ~Overlapping(l, list[p], list[q])
  <2> DEFINE i == of(p)
             j == of(q)
  <2>1. /\ i \in GamesOf(b) /\ p = Pair(ms[i]) /\ list[p] = b.fate[i].slot
        /\ j \in GamesOf(b) /\ q = Pair(ms[j]) /\ list[q] = b.fate[j].slot
    BY <1>5
  <2>. HIDE DEF i, j
  <2>2. i # j
    BY <1>10, <2>1
  <2>3. /\ l.slot[b.fate[i].slot].week = ms[i].week
        /\ l.slot[b.fate[j].slot].week = ms[j].week
        /\ ~Busy(l, ms, b, i, b.fate[i].slot)
        /\ ms[j].week = ms[i].week => Pair(ms[j]) \cap Pair(ms[i]) = {}
    BY <1>7, <2>1, <2>2 DEF RulesKept
  <2>4. l.slot[list[p]].week = l.slot[list[q]].week => p \cap q = {}
    BY <2>1, <2>3
  <2>5. ASSUME NEW t \in p, NEW u \in q, l.team[t].coaches \cap l.team[u].coaches # {}
        PROVE  ~Overlapping(l, list[p], list[q])
    BY <2>1, <2>2, <2>3, <2>5 DEF Busy, Meet
  <2>. QED  BY <2>4, <2>5
<1>11. Playable(l, list)
  BY <1>8, <1>9, <1>10 DEF Playable
<1>. QED  BY <1>11 DEF list

\* A league without some of its teams is one.
LEMMA LeftIsLeague ==
    ASSUME IsLeague(league), NEW ids \in SUBSET DOMAIN league.team, NEW l, l = Left(ids)
    PROVE  /\ IsLeague(l)
           /\ l.slot = league.slot
           /\ \A d : TeamsOf(l, d) = TeamsOf(league, d) \cap ids
           /\ \A t \in ids : l.team[t] = league.team[t]
<1>1. DOMAIN league = {"team", "slot", "order", "weeks"}
  BY DEF IsLeague
<1>2. /\ DOMAIN l = DOMAIN league
      /\ l.team = [t \in ids |-> league.team[t]]
      /\ l.slot = league.slot /\ l.order = league.order /\ l.weeks = league.weeks
  BY <1>1 DEF Left
<1>3. DOMAIN l.team = ids /\ \A t \in ids : l.team[t] = league.team[t]
  BY <1>2
<1>4. \A d : TeamsOf(l, d) = TeamsOf(league, d) \cap ids
  BY <1>3 DEF TeamsOf
<1>5. IsFiniteSet(ids)
  <2>1. IsFiniteSet(DOMAIN league.team)
    BY DEF IsLeague
  <2>. QED  BY <2>1, FS_Subset
<1>6. IsLeague(l)
  BY <1>2, <1>3, <1>5 DEF IsLeague
<1>. QED  BY <1>2, <1>3, <1>4, <1>6

\* What is known of the pages' teams.
RosterInv ==
    /\ teams \subseteq DOMAIN league.team
    /\ DOMAIN roster = Tabs /\ \A t \in Tabs : roster[t] \subseteq DOMAIN league.team
    /\ DOMAIN review = Tabs

LEMMA RosterInvariance == ReviewSpec => []RosterInv
<1>1. ReviewInit => RosterInv
  BY DEF ReviewInit, RosterInv
<1>2. RosterInv /\ [ReviewNext]_<<gameVars, reviewVars>> => RosterInv'
  <2>. SUFFICES ASSUME RosterInv, [ReviewNext]_<<gameVars, reviewVars>> PROVE RosterInv'
    OBVIOUS
  <2>1. CASE UNCHANGED reviewVars /\ league' = league
    BY <2>1 DEF reviewVars, pageVars, storeVars, RosterInv
  <2>2. CASE league \in Reviewed /\ ReviewStep /\ UNCHANGED gameVars
    <3>1. Used[league] \subseteq Tabs /\ league' = league
      BY <2>2, ReviewAssumption DEF gameVars
    <3>2. ASSUME NEW t \in Tabs, TabStep(t) PROVE RosterInv'
      <4>1. CASE Load(t)
        BY <3>1, <4>1 DEF Load, RosterInv, storeVars
      <4>2. CASE RowsArrive(t)
        BY <3>1, <4>2 DEF RowsArrive, RosterInv, storeVars
      <4>3. ASSUME NEW list, Stage(t, list) PROVE RosterInv'
        BY <3>1, <4>3 DEF Stage, RosterInv, storeVars
      <4>4. CASE Generate(t)
        BY <4>3, <4>4 DEF Generate
      <4>5. ASSUME NEW p, NEW s, Drag(t, p, s) PROVE RosterInv'
        BY <4>3, <4>5 DEF Drag
      <4>6. CASE Discard(t)
        BY <3>1, <4>6 DEF Discard, RosterInv, storeVars
      <4>7. CASE Apply(t) \/ Rollback(t)
        BY <3>1, <4>7 DEF Apply, Rollback, Send, RosterInv, storeVars
      <4>. QED  BY <3>2, <4>1, <4>2, <4>4, <4>5, <4>6, <4>7 DEF TabStep
    <3>3. ASSUME NEW c \in DOMAIN calls, CallStep(c) PROVE RosterInv'
      <4>1. CASE NotServed(c) \/ Validate(c)
        BY <3>1, <4>1 DEF NotServed, Validate, RosterInv, storeVars, pageVars
      <4>2. CASE Answered(c)
        <5>1. PICK t \in Tabs : /\ Applied(t, c) \/ RolledBack(t, c) \/ Failed(t, c)
                                /\ UNCHANGED <<storeVars, awaited, roster>>
          BY <4>2 DEF Answered
        <5>. QED  BY <3>1, <5>1 DEF Applied, RolledBack, Failed, RosterInv, storeVars
      <4>3. ASSUME NEW a, Serve(c, a) PROVE RosterInv'
        BY <3>1, <4>3 DEF Serve, RosterInv, pageVars
      <4>. QED  BY <3>3, <4>1, <4>2, <4>3 DEF CallStep
    <3>4. ASSUME NEW id, DeleteTeam(id) PROVE RosterInv'
      BY <3>1, <3>4 DEF DeleteTeam, RosterInv, pageVars
    <3>. QED  BY <2>2, <3>1, <3>2, <3>3, <3>4 DEF ReviewStep
  <2>3. CASE PlaceNext /\ UNCHANGED reviewVars
    BY <2>1, <2>3 DEF PlaceNext
  <2>4. CASE UNCHANGED <<gameVars, reviewVars>>
    BY <2>1, <2>4 DEF gameVars
  <2>. QED  BY <2>2, <2>3, <2>4 DEF ReviewNext
<1>. QED  BY <1>1, <1>2, PTL DEF ReviewSpec

\* handleAutoGenerate: what a tab stages for review is a list that the league
\* can play, of teams it has loaded, whichever of them are deleted by now.
THEOREM TheGeneratedIsPlayable ==
    ReviewSpec => [][\A t \in Tabs : Generate(t) =>
                        /\ Playable(league, review'[t])
                        /\ UNION DOMAIN review'[t] \subseteq roster[t]]_<<gameVars, reviewVars>>
<1>1. ASSUME ScheduleRight, RosterInv
      PROVE  [\A t \in Tabs : Generate(t) =>
                 /\ Playable(league, review'[t])
                 /\ UNION DOMAIN review'[t] \subseteq roster[t]]_<<gameVars, reviewVars>>
  <2>1. SUFFICES ASSUME NEW t \in Tabs, Generate(t)
                 PROVE  /\ Playable(league, review'[t])
                        /\ UNION DOMAIN review'[t] \subseteq roster[t]
    OBVIOUS
  <2> DEFINE ids  == roster[t]
             l    == Left(ids)
             list == review'[t]
  <2>2. list = Generated(l)
    BY <1>1, <2>1 DEF Generate, Stage, RosterInv
  <2>3. ids \in SUBSET DOMAIN league.team /\ IsLeague(league)
    BY <1>1 DEF RosterInv, ScheduleRight
  <2>4. /\ IsLeague(l) /\ l.slot = league.slot
        /\ \A d : TeamsOf(l, d) = TeamsOf(league, d) \cap ids
        /\ \A u \in ids : l.team[u] = league.team[u]
    <3>. HIDE DEF ids
    <3>. QED  BY <2>3, LeftIsLeague
  <2>. HIDE DEF ids, l, list
  <2>5. Playable(l, list)
    BY <2>2, <2>4, GeneratedPlayable
  <2>6. \A p \in DOMAIN list : p \subseteq ids
    BY <2>4, <2>5 DEF Playable
  <2>7. \A s, r : Overlapping(l, s, r) <=> Overlapping(league, s, r)
    BY <2>4 DEF Overlapping
  <2>8. Playable(league, list)
    BY <2>4, <2>5, <2>6, <2>7 DEF Playable
  <2>. QED  BY <2>6, <2>8 DEF ids, list
<1>. QED  BY <1>1, ScheduleInvariance, RosterInvariance, PTL
=============================================================================
