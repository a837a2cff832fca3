------------------------- MODULE FieldImportProofs -------------------------
(***************************************************************************)
(* Proofs about field imports, for any number of jobs, rows and ids, and   *)
(* for any file.  FieldInv says of the tables that they are well formed,   *)
(* of a ledger entry what is still true of the record it speaks of, and of *)
(* a job nobody interfered with what undoing its ledger gives.  It is      *)
(* carried through the loop over the rows (LoopInv) and, by the order of   *)
(* the tables, through that over the ledger (UndoInv).  All rests on       *)
(* FieldAssumption.                                                        *)
(***************************************************************************)
EXTENDS FieldImport, FiniteSetTheorems, SequenceTheorems, WellFoundedInduction, TLAPS

IsFcn(f) == f = [x \in DOMAIN f |-> f[x]]

InUseOf(r) == {i \in DOMAIN r : r[i].table \in Slots}

\* What a ledger says a record was before: a field may have been moved since,
\* and its location be gone; anything else is where it was.
PrevFits(r, n, t, e) ==
    /\ e.prev.table = e.table
    /\ \/ e.table = "locations" /\ e.prev.parent = Nil /\ e.prev.half = Nil
       \/ /\ e.table = "fields" /\ e.prev.parent \in 1 .. n /\ e.prev.half = Nil
          /\ e.prev.parent \in DOMAIN r => r[e.prev.parent].table = "locations"
       \/ /\ e.table \in Slots
          /\ t \in DOMAIN r => e.prev.parent = r[t].parent /\ e.prev.half = r[t].half

EntryFits(r, n, t, e) ==
    /\ e = [op |-> e.op, table |-> e.table, prev |-> e.prev, live |-> e.live]
    /\ e.live \in BOOLEAN /\ e.op \in {"inserted", "updated"} /\ e.table \in Tables
    /\ t \in DOMAIN r => r[t].table = e.table
    /\ e.op = "updated" => PrevFits(r, n, t, e)

LedgerFits(r, n, l) ==
    /\ DOMAIN l \subseteq 1 .. n
    /\ \A t \in DOMAIN l : EntryFits(r, n, t, l[t])

LiveIn(l) == {t \in DOMAIN l : l[t].live}

\* Undoing the live records of ledger l in r gives b.
Undoes(l, r, b) ==
    /\ IsFcn(b) /\ WellFormed(b) /\ DOMAIN b \subseteq DOMAIN r
    /\ \A t \in DOMAIN b : r[t] # b[t] => t \in LiveIn(l) /\ l[t].op = "updated"
    /\ \A t \in DOMAIN r \ DOMAIN b : t \in LiveIn(l)
    /\ \A t \in LiveIn(l) : IF l[t].op = "updated" THEN t \in DOMAIN b /\ l[t].prev = b[t]
                            ELSE t \notin DOMAIN b

TablesInv(r, n) ==
    /\ n \in Nat /\ IsFcn(r) /\ DOMAIN r \subseteq 1 .. n /\ WellFormed(r)

FieldInv ==
    /\ TablesInv(rec, ids) /\ ids <= MaxId
    /\ inUse \subseteq InUseOf(rec)
    /\ DOMAIN ledger = Jobs /\ DOMAIN before = Jobs /\ DOMAIN status = Jobs
    /\ kind \in [Jobs -> {"fields", "absent"}]
    /\ \A j \in Jobs :
           /\ LedgerFits(rec, ids, ledger[j])
           /\ status[j] = "absent" => DOMAIN ledger[j] = {}
           /\ kind[j] = "absent" => status[j] = "absent"
           /\ \A b \in before[j] : Undoes(ledger[j], rec, b)

-----------------------------------------------------------------------------
(* Numbers.                                                                 *)

HasMinimal(F) == \E x \in F : \A y \in F : y \subseteq x => y = x

\* A set of subsets of a finite set has one that contains no other.
LEMMA MinimalMember ==
    ASSUME NEW S, IsFiniteSet(S), NEW F \in SUBSET SUBSET S, F # {}
    PROVE  HasMinimal(F)
<1>1. F \subseteq FiniteSubsetsOf(S)
  BY FS_FiniteSubsetsOfFinite
<1>2. \E x \in F : \A y \in F : ~(<<y, x>> \in StrictSubsetOrdering(S))
  BY <1>1, FS_StrictSubsetOrderingWellFounded, WFMin
<1>. QED  BY <1>2 DEF StrictSubsetOrdering, HasMinimal

\* A set of numbers has a least one: that whose initial segment is minimal.
LEMMA LeastNumber ==
    ASSUME NEW T, T \subseteq Nat, T # {}
    PROVE  \E x \in T : \A y \in T : x <= y
<1>1. PICK n \in T : n \in Nat
  OBVIOUS
<1> DEFINE F == {0 .. k : k \in T \cap (0 .. n)}
<1>2. IsFiniteSet(0 .. n)
  BY <1>1, FS_Interval
<1>3. F \subseteq SUBSET (0 .. n)
  BY <1>1
<1>4. F # {}
  <2>1. 0 .. n \in F
    BY <1>1
  <2>. QED  BY <2>1
<1>5. HasMinimal(F)
  <2>. HIDE DEF F
  <2>. QED  BY <1>2, <1>3, <1>4, MinimalMember
<1>6. PICK k \in T \cap (0 .. n) : \A y \in F : y \subseteq 0 .. k => y = 0 .. k
  BY <1>5 DEF HasMinimal
<1>7. ASSUME NEW y \in T, y < k PROVE FALSE
  <2>1. y \in 0 .. n /\ k \in Nat /\ y \in Nat
    BY <1>1, <1>6, <1>7
  <2>2. 0 .. y \in F
    BY <2>1
  <2>3. 0 .. y \subseteq 0 .. k
    BY <1>7, <2>1
  <2>4. 0 .. y = 0 .. k
    BY <1>6, <2>2, <2>3
  <2>5. k \in 0 .. y
    BY <2>1, <2>4
  <2>. QED  BY <1>7, <2>1, <2>5
<1>. QED  BY <1>1, <1>6, <1>7

LEMMA MinFacts ==
    ASSUME NEW T, T \subseteq Nat, T # {}
    PROVE  Min(T) \in T
  BY LeastNumber DEF Min

\* The rows of a file have a last one: that with the fewest above it.
LEMMA LastRow == Max(Rows) \in Nat /\ \A r \in Rows : r <= Max(Rows)
<1> DEFINE Above(x) == {y \in Rows : x < y}
           F == {Above(x) : x \in Rows}
<1>1. Rows \subseteq Nat /\ Rows # {} /\ IsFiniteSet(Rows)
  BY FieldAssumption
<1>2. F \in SUBSET SUBSET Rows /\ F # {}
  BY <1>1
<1>3. HasMinimal(F)
  <2>. HIDE DEF F
  <2>. QED  BY <1>1, <1>2, MinimalMember
<1>4. PICK x \in Rows : \A y \in F : y \subseteq Above(x) => y = Above(x)
  BY <1>3 DEF HasMinimal
<1>5. ASSUME NEW z \in Rows, x < z PROVE FALSE
  <2>1. Above(z) \subseteq Above(x)
    <3>1. ASSUME NEW y \in Rows, z < y PROVE x < y
      <4>1. x \in Nat /\ y \in Nat /\ z \in Nat
        BY <1>1, <1>4, <1>5
      <4>. QED  BY <1>5, <3>1, <4>1
    <3>. QED  BY <3>1
  <2>2. z \in Above(x) /\ z \notin Above(z)
    BY <1>1, <1>5
  <2>. QED  BY <1>4, <2>1, <2>2
<1>6. \A z \in Rows : x >= z
  BY <1>1, <1>5
<1>7. Max(Rows) \in Rows /\ \A z \in Rows : Max(Rows) >= z
  BY <1>6 DEF Max
<1>. QED  BY <1>1, <1>7

-----------------------------------------------------------------------------
(* Well-formed tables.                                                      *)

LEMMA NilIsNoId == Nil \notin Nat
  BY FieldAssumption

\* What a table says of a record is what InPlace says, case by case.
LEMMA Places ==
    ASSUME NEW r, NEW i \in DOMAIN r, WellFormed(r)
    PROVE  /\ r[i].table \in Tables
           /\ r[i].table = "locations" => r[i].parent = Nil /\ r[i].half = Nil
           /\ r[i].table = "fields" =>
                  /\ r[i].parent \in DOMAIN r /\ r[r[i].parent].table = "locations"
                  /\ r[i].half = Nil
           /\ r[i].table = "field_subunits" =>
                  /\ r[i].parent \in DOMAIN r /\ r[r[i].parent].table = "fields"
                  /\ r[i].half = Nil
           /\ r[i].table \in Slots =>
                  /\ r[i].parent \in DOMAIN r /\ r[r[i].parent].table = "fields"
                  /\ r[i].half # Nil =>
                         /\ r[i].half \in DOMAIN r /\ r[r[i].half].table = "field_subunits"
                         /\ r[r[i].half].parent = r[i].parent
<1>1. InPlace(r, r[i])
  BY DEF WellFormed
<1>. QED  BY <1>1 DEF InPlace, Tables, Slots

LEMMA InsertKeepsTables ==
    ASSUME NEW r, NEW n, TablesInv(r, n), NEW new, InPlace(r, new),
           \A k \in DOMAIN r : ~SameKey(r[k], new)
    PROVE  TablesInv(Put(r, n + 1, new), n + 1)
<1> DEFINE q == Put(r, n + 1, new)
<1>1. n \in Nat /\ n + 1 \notin DOMAIN r /\ DOMAIN r \subseteq 1 .. n /\ WellFormed(r)
  BY DEF TablesInv
<1>2. /\ DOMAIN q = DOMAIN r \cup {n + 1} /\ q[n + 1] = new
      /\ \A k \in DOMAIN r : q[k] = r[k]
      /\ IsFcn(q)
  BY <1>1 DEF Put, IsFcn
<1>. HIDE DEF q
<1>3. ASSUME NEW a, InPlace(r, a) PROVE InPlace(q, a)
  BY <1>2, <1>3 DEF InPlace
<1>4. \A i \in DOMAIN q : InPlace(q, q[i])
  BY <1>1, <1>2, <1>3 DEF WellFormed
<1>5. ASSUME NEW i \in DOMAIN q, NEW k \in DOMAIN q, SameKey(q[i], q[k]) PROVE i = k
  <2>1. CASE i \in DOMAIN r /\ k \in DOMAIN r
    BY <1>1, <1>2, <1>5, <2>1 DEF WellFormed
  <2>2. CASE i \in DOMAIN r /\ k = n + 1
    BY <1>2, <1>5, <2>2
  <2>3. CASE i = n + 1 /\ k \in DOMAIN r
    <3>1. SameKey(r[k], new)
      BY <1>2, <1>5, <2>3 DEF SameKey
    <3>. QED  BY <2>3, <3>1
  <2>. QED  BY <1>2, <2>1, <2>2, <2>3
<1>6. DOMAIN q \subseteq 1 .. (n + 1)
  BY <1>1, <1>2
<1>. QED  BY <1>1, <1>2, <1>4, <1>5, <1>6 DEF TablesInv, WellFormed, q

LEMMA OverwriteKeepsTables ==
    ASSUME NEW r, NEW n, TablesInv(r, n), NEW t \in DOMAIN r, NEW new, InPlace(r, new),
           new.table = r[t].table, new.table = "field_subunits" => new.parent = r[t].parent,
           \A k \in (DOMAIN r) \ {t} : ~SameKey(r[k], new)
    PROVE  TablesInv(Put(r, t, new), n)
<1> DEFINE q == Put(r, t, new)
<1>1. n \in Nat /\ DOMAIN r \subseteq 1 .. n /\ WellFormed(r)
  BY DEF TablesInv
<1>2. /\ DOMAIN q = DOMAIN r /\ q[t] = new
      /\ \A k \in DOMAIN r : k # t => q[k] = r[k]
      /\ IsFcn(q)
  BY <1>1 DEF Put, IsFcn
<1>. HIDE DEF q
<1>3. /\ \A k \in DOMAIN r : q[k].table = r[k].table
      /\ \A k \in DOMAIN r : r[k].table = "field_subunits" => q[k].parent = r[k].parent
  BY <1>2
<1>4. ASSUME NEW a, InPlace(r, a) PROVE InPlace(q, a)
  BY <1>2, <1>3, <1>4 DEF InPlace
<1>5. \A i \in DOMAIN q : InPlace(q, q[i])
  BY <1>1, <1>2, <1>4 DEF WellFormed
<1>6. ASSUME NEW i \in DOMAIN q, NEW k \in DOMAIN q, SameKey(q[i], q[k]) PROVE i = k
  <2>1. CASE i # t /\ k # t
    BY <1>1, <1>2, <1>6, <2>1 DEF WellFormed
  <2>2. CASE i # t /\ k = t
    BY <1>2, <1>6, <2>2
  <2>3. CASE i = t /\ k # t
    <3>1. SameKey(r[k], new)
      BY <1>2, <1>6, <2>3 DEF SameKey
    <3>. QED  BY <1>2, <2>3, <3>1
  <2>. QED  BY <2>1, <2>2, <2>3
<1>. QED  BY <1>1, <1>2, <1>5, <1>6 DEF TablesInv, WellFormed, q

\* Everything that goes with record t.
Below(r, t) ==
    LET D1 == {t} \cup Children(r, {t})
    IN  D1 \cup Children(r, D1)

\* Two levels of cascades are enough: nothing is left that refers to what is
\* deleted.  (A slot that names a half names the field of the half.)
LEMMA BelowIsClosed ==
    ASSUME NEW r, NEW n, TablesInv(r, n), NEW t \in DOMAIN r,
           NEW c \in DOMAIN r, \/ r[c].parent \in Below(r, t)
                               \/ r[c].half \in Below(r, t)
    PROVE  c \in Below(r, t)
<1> DEFINE D1 == {t} \cup Children(r, {t})
<1>1. WellFormed(r) /\ DOMAIN r \subseteq Nat /\ Nil \notin DOMAIN r
  BY NilIsNoId DEF TablesInv
<1>2. SUFFICES ASSUME c \notin Below(r, t) PROVE FALSE
  OBVIOUS
<1>3. Below(r, t) = D1 \cup Children(r, D1)
  BY DEF Below
<1>4. PICK p : (p = r[c].parent \/ p = r[c].half) /\ p \in Below(r, t)
  OBVIOUS
<1>5. p \in Children(r, D1) /\ p \notin D1
  BY <1>2, <1>3, <1>4 DEF Children
<1>6. PICK q : (q = r[p].parent \/ q = r[p].half) /\ q \in D1
  BY <1>5 DEF Children
<1>7. q \in Children(r, {t}) /\ p \in DOMAIN r
  BY <1>5, <1>6 DEF Children
<1>8. q \in DOMAIN r /\ (r[q].parent = t \/ r[q].half = t)
  BY <1>7 DEF Children
<1>9. r[p].table = "field_subunits"
  <2>1. r[p].table \notin Slots
    BY <1>1, <1>4, <1>7, Places DEF Slots, Tables
  <2>2. r[p].table # "locations"
    BY <1>1, <1>6, <1>8, <1>7, Places
  <2>3. r[p].table # "fields"
    <3>1. SUFFICES ASSUME r[p].table = "fields" PROVE FALSE
      OBVIOUS
    <3>2. q = r[p].parent /\ r[q].table = "locations"
      BY <1>1, <1>6, <1>7, <1>8, <3>1, Places
    <3>. QED  BY <1>1, <1>8, <3>2, Places
  <2>. QED  BY <1>1, <1>7, <2>1, <2>2, <2>3, Places DEF Tables, Slots
<1>10. q = r[p].parent
  BY <1>1, <1>6, <1>7, <1>8, <1>9, Places
<1>11. r[c].table \in Slots /\ p = r[c].half
  BY <1>1, <1>4, <1>7, <1>9, Places DEF Tables, Slots
<1>12. r[c].parent = q
  BY <1>1, <1>7, <1>10, <1>11, Places
<1>. QED  BY <1>2, <1>3, <1>6, <1>12 DEF Children

LEMMA DeleteKeepsTables ==
    ASSUME NEW r, NEW n, TablesInv(r, n), NEW t \in DOMAIN r
    PROVE  TablesInv(Without(r, {t}), n)
<1> DEFINE q == Without(r, {t})
<1>1. q = [i \in (DOMAIN r) \ Below(r, t) |-> r[i]]
  BY DEF Without, Below
<1>2. n \in Nat /\ DOMAIN r \subseteq 1 .. n /\ WellFormed(r)
  BY DEF TablesInv
<1>3. /\ DOMAIN q = (DOMAIN r) \ Below(r, t)
      /\ \A i \in DOMAIN q : i \in DOMAIN r /\ q[i] = r[i]
      /\ IsFcn(q)
  BY <1>1 DEF IsFcn
<1>. HIDE DEF q
<1>4. ASSUME NEW i \in DOMAIN q PROVE InPlace(q, q[i])
  <2>1. InPlace(r, r[i]) /\ q[i] = r[i] /\ i \in DOMAIN r /\ i \notin Below(r, t)
    BY <1>2, <1>3 DEF WellFormed
  <2>2. r[i].parent \notin Below(r, t) /\ r[i].half \notin Below(r, t)
    BY <2>1, BelowIsClosed
  <2>. QED  BY <1>3, <2>1, <2>2 DEF InPlace
<1>5. \A i, k \in DOMAIN q : SameKey(q[i], q[k]) => i = k
  BY <1>2, <1>3 DEF WellFormed
<1>. QED  BY <1>2, <1>3, <1>4, <1>5 DEF TablesInv, WellFormed, q

\* A record that is not needed takes no slot with it but itself, and otherwise
\* only the halves of a field.
LEMMA BelowUnneeded ==
    ASSUME NEW r, NEW n, TablesInv(r, n), NEW t \in DOMAIN r, ~Needed(r, t),
           NEW c \in Below(r, t), c # t
    PROVE  /\ c \in DOMAIN r /\ r[c].table = "field_subunits" /\ r[c].parent = t
           /\ r[t].table = "fields"
<1> DEFINE D1 == {t} \cup Children(r, {t})
<1>1. WellFormed(r) /\ DOMAIN r \subseteq Nat /\ Nil \notin DOMAIN r
  BY NilIsNoId DEF TablesInv
<1>2. Below(r, t) = D1 \cup Children(r, D1)
  BY DEF Below
<1>3. ASSUME NEW i \in Children(r, {t})
      PROVE  /\ i \in DOMAIN r /\ r[i].table = "field_subunits" /\ r[i].parent = t
             /\ r[t].table = "fields"
  <2>1. i \in DOMAIN r /\ (r[i].parent = t \/ r[i].half = t)
    BY <1>3 DEF Children
  <2>2. r[t].table \notin Slots
    BY <1>1, <2>1, Places DEF Tables, Slots
  <2>3. r[t].table = "fields" /\ r[i].table \notin Slots
    BY <1>3, <2>2 DEF Needed
  <2>. QED  BY <1>1, <2>1, <2>3, Places DEF Tables, Slots
<1>4. ASSUME NEW i \in Children(r, D1), i \notin D1 PROVE FALSE
  <2>1. i \in DOMAIN r /\ (r[i].parent \in D1 \/ r[i].half \in D1)
    BY <1>4 DEF Children
  <2>2. PICK h : h \in D1 /\ (r[i].parent = h \/ r[i].half = h)
    BY <2>1
  <2>3. h # t
    BY <1>4, <2>1, <2>2 DEF Children
  <2>4. h \in DOMAIN r /\ r[h].table = "field_subunits" /\ r[h].parent = t
    BY <1>3, <2>2, <2>3
  <2>5. r[i].table \in Slots /\ r[i].half = h
    BY <1>1, <2>1, <2>2, <2>4, Places DEF Tables, Slots
  <2>6. r[i].parent = t
    BY <1>1, <2>1, <2>4, <2>5, Places
  <2>. QED  BY <1>4, <2>1, <2>6 DEF Children
<1>. QED  BY <1>2, <1>3, <1>4

-----------------------------------------------------------------------------
(* What may become of tables: a record keeps its table, and its place       *)
(* unless it is a field; the ids of new ones are new.                       *)

Kept(r, n, q, m) ==
    /\ n \in Nat /\ m \in Nat /\ n <= m
    /\ \A i \in DOMAIN q :
           IF i \in DOMAIN r
           THEN /\ q[i].table = r[i].table
                /\ r[i].table # "fields" => q[i].parent = r[i].parent /\ q[i].half = r[i].half
           ELSE i \notin 1 .. n

LEMMA LedgerStillFits ==
    ASSUME NEW r, NEW n, NEW q, NEW m, Kept(r, n, q, m), NEW l, LedgerFits(r, n, l)
    PROVE  LedgerFits(q, m, l)
<1>1. n \in Nat /\ m \in Nat /\ n <= m
  BY DEF Kept
<1>2. DOMAIN l \subseteq 1 .. n /\ DOMAIN l \subseteq 1 .. m
  BY <1>1 DEF LedgerFits
<1>3. ASSUME NEW t \in DOMAIN l PROVE EntryFits(q, m, t, l[t])
  <2> DEFINE e == l[t]
  <2>1. EntryFits(r, n, t, e)
    BY DEF LedgerFits
  <2>. HIDE DEF e
  <2>2. t \in DOMAIN q => /\ t \in DOMAIN r /\ q[t].table = r[t].table
                          /\ r[t].table # "fields" => /\ q[t].parent = r[t].parent
                                                      /\ q[t].half = r[t].half
    BY <1>2 DEF Kept
  <2>3. t \in DOMAIN q => q[t].table = e.table
    BY <2>1, <2>2 DEF EntryFits
  <2>4. ASSUME e.op = "updated" PROVE PrevFits(q, m, t, e)
    <3>1. PrevFits(r, n, t, e)
      BY <2>1, <2>4 DEF EntryFits
    <3>2. CASE e.table = "locations"
      BY <3>1, <3>2 DEF PrevFits, Slots
    <3>3. CASE e.table = "fields"
      <4>1. /\ e.prev.parent \in 1 .. n /\ e.prev.half = Nil /\ e.prev.table = e.table
            /\ e.prev.parent \in DOMAIN r => r[e.prev.parent].table = "locations"
        BY <3>1, <3>3 DEF PrevFits, Slots
      <4>2. e.prev.parent \in 1 .. m
        BY <1>1, <4>1
      <4>3. e.prev.parent \in DOMAIN q => q[e.prev.parent].table = "locations"
        BY <4>1 DEF Kept
      <4>. QED  BY <3>3, <4>1, <4>2, <4>3 DEF PrevFits
    <3>4. CASE e.table \in Slots
      <4>1. /\ e.prev.table = e.table
            /\ t \in DOMAIN r => e.prev.parent = r[t].parent /\ e.prev.half = r[t].half
        BY <3>1, <3>4 DEF PrevFits, Slots
      <4>2. t \in DOMAIN q => e.prev.parent = q[t].parent /\ e.prev.half = q[t].half
        BY <2>2, <2>3, <3>4, <4>1 DEF Slots
      <4>. QED  BY <3>4, <4>1, <4>2 DEF PrevFits
    <3>. QED  BY <3>1, <3>2, <3>3, <3>4 DEF PrevFits
  <2>5. e.op \in {"inserted", "updated"} /\ e.table \in Tables /\ e.live \in BOOLEAN
    BY <2>1 DEF EntryFits
  <2>6. e = [op |-> e.op, table |-> e.table, prev |-> e.prev, live |-> e.live]
    BY <2>1 DEF EntryFits
  <2>7. EntryFits(q, m, t, e)
    BY <2>3, <2>4, <2>5, <2>6 DEF EntryFits
  <2>. QED  BY <2>7 DEF e
<1>. QED  BY <1>2, <1>3 DEF LedgerFits

LEMMA KeptByInsert ==
    ASSUME NEW r, NEW n, TablesInv(r, n), NEW new
    PROVE  Kept(r, n, Put(r, n + 1, new), n + 1)
  BY DEF TablesInv, Kept, Put

LEMMA KeptByOverwrite ==
    ASSUME NEW r, NEW n, TablesInv(r, n), NEW t \in DOMAIN r, NEW new,
           new.table = r[t].table,
           new.table # "fields" => new.parent = r[t].parent /\ new.half = r[t].half
    PROVE  Kept(r, n, Put(r, t, new), n)
  BY DEF TablesInv, Kept, Put

LEMMA KeptByDelete ==
    ASSUME NEW r, NEW n, TablesInv(r, n), NEW D
    PROVE  Kept(r, n, Without(r, D), n)
<1>1. /\ DOMAIN Without(r, D) \subseteq DOMAIN r
      /\ \A i \in DOMAIN Without(r, D) : Without(r, D)[i] = r[i]
  BY DEF Without
<1>. QED  BY <1>1 DEF TablesInv, Kept

LEMMA KeptTwice ==
    ASSUME NEW r, NEW n, NEW q, NEW m, NEW p, NEW k, DOMAIN r \subseteq 1 .. n,
           Kept(r, n, q, m), Kept(q, m, p, k)
    PROVE  Kept(r, n, p, k)
  BY DEF Kept

-----------------------------------------------------------------------------
(* Apply: finding, inserting and updating one record.                       *)

\* A ledger whose records are all live still undoes the tables when one more
\* record is written and, if it is the first time, recorded.
LEMMA UndoesWritten ==
    ASSUME NEW l, NEW r, NEW b, Undoes(l, r, b), DOMAIN l = LiveIn(l),
           NEW at, NEW new, NEW e, e.live,
           IF at \in DOMAIN r THEN e.op = "updated" /\ e.prev = r[at]
           ELSE e.op = "inserted" /\ at \notin DOMAIN l
    PROVE  /\ Undoes(Recorded(l, at, e), Put(r, at, new), b)
           /\ DOMAIN Recorded(l, at, e) = LiveIn(Recorded(l, at, e))
<1> DEFINE k == Recorded(l, at, e)
           q == Put(r, at, new)
<1>1. /\ DOMAIN q = DOMAIN r \cup {at}
      /\ \A t \in DOMAIN r : t # at => q[t] = r[t]
  BY DEF Put
<1>2. /\ DOMAIN k = DOMAIN l \cup {at}
      /\ \A t \in DOMAIN l : k[t] = l[t]
      /\ at \notin DOMAIN l => k[at] = e
  BY DEF Recorded, Put
<1>. HIDE DEF k, q
<1>3. LiveIn(k) = DOMAIN k
  BY <1>2 DEF LiveIn
<1>4. /\ DOMAIN b \subseteq DOMAIN r
      /\ \A t \in DOMAIN b : r[t] # b[t] => t \in LiveIn(l) /\ l[t].op = "updated"
      /\ \A t \in DOMAIN r \ DOMAIN b : t \in LiveIn(l)
      /\ \A t \in LiveIn(l) : IF l[t].op = "updated" THEN t \in DOMAIN b /\ l[t].prev = b[t]
                              ELSE t \notin DOMAIN b
  BY DEF Undoes
<1>5. CASE at \in DOMAIN l
  <2>1. at \in DOMAIN r /\ at \in LiveIn(l)
    BY <1>5
  <2>2. DOMAIN k = DOMAIN l /\ DOMAIN q = DOMAIN r
    BY <1>1, <1>2, <1>5, <2>1
  <2>3. \A t \in DOMAIN b : q[t] # b[t] => t \in LiveIn(k) /\ k[t].op = "updated"
    BY <1>1, <1>2, <1>3, <1>4, <2>1, <2>2
  <2>4. \A t \in DOMAIN q \ DOMAIN b : t \in LiveIn(k)
    BY <1>3, <1>4, <2>2
  <2>5. \A t \in LiveIn(k) : IF k[t].op = "updated" THEN t \in DOMAIN b /\ k[t].prev = b[t]
                             ELSE t \notin DOMAIN b
    BY <1>2, <1>3, <1>4, <2>2
  <2>. QED  BY <1>3, <1>4, <2>2, <2>3, <2>4, <2>5 DEF Undoes, k, q
<1>6. CASE at \notin DOMAIN l /\ at \in DOMAIN r
  <2>1. at \in DOMAIN b /\ r[at] = b[at]
    BY <1>4, <1>6
  <2>2. k[at] = e /\ at \in LiveIn(k) /\ DOMAIN q = DOMAIN r
    BY <1>1, <1>2, <1>3, <1>6
  <2>3. \A t \in DOMAIN b : q[t] # b[t] => t \in LiveIn(k) /\ k[t].op = "updated"
    BY <1>1, <1>2, <1>3, <1>4, <1>6, <2>2
  <2>4. \A t \in DOMAIN q \ DOMAIN b : t \in LiveIn(k)
    BY <1>2, <1>3, <1>4, <2>2
  <2>5. \A t \in LiveIn(k) : IF k[t].op = "updated" THEN t \in DOMAIN b /\ k[t].prev = b[t]
                             ELSE t \notin DOMAIN b
    BY <1>2, <1>3, <1>4, <1>6, <2>1, <2>2
  <2>. QED  BY <1>3, <1>4, <2>2, <2>3, <2>4, <2>5 DEF Undoes, k, q
<1>7. CASE at \notin DOMAIN r
  <2>1. at \notin DOMAIN b /\ at \notin DOMAIN l /\ e.op = "inserted"
    BY <1>4, <1>7
  <2>2. k[at] = e /\ at \in LiveIn(k)
    BY <1>2, <1>3, <2>1
  <2>3. \A t \in DOMAIN b : q[t] # b[t] => t \in LiveIn(k) /\ k[t].op = "updated"
    BY <1>1, <1>2, <1>3, <1>4, <2>1
  <2>4. \A t \in DOMAIN q \ DOMAIN b : t \in LiveIn(k)
    BY <1>1, <1>2, <1>3, <1>4
  <2>5. \A t \in LiveIn(k) : IF k[t].op = "updated" THEN t \in DOMAIN b /\ k[t].prev = b[t]
                             ELSE t \notin DOMAIN b
    BY <1>2, <1>3, <1>4, <2>1, <2>2
  <2>. QED  BY <1>1, <1>3, <1>4, <2>3, <2>4, <2>5 DEF Undoes, k, q
<1>. QED  BY <1>5, <1>6, <1>7

\* What the loop over the rows of job j has done so far: tables that are
\* well-formed and hold all they held, and a ledger that fits them, knows what
\* was written, keeps the records it had and undoes the tables to those of B.
LoopInv(j, B, s) ==
    /\ s = [rec |-> s.rec, ids |-> s.ids, ledger |-> s.ledger, new |-> s.new, at |-> s.at]
    /\ TablesInv(s.rec, s.ids)
    /\ Kept(rec, ids, s.rec, s.ids) /\ DOMAIN rec \subseteq DOMAIN s.rec
    /\ LedgerFits(s.rec, s.ids, s.ledger)
    /\ DOMAIN s.ledger = DOMAIN ledger[j] \cup s.new
    /\ \A t \in DOMAIN ledger[j] : s.ledger[t] = ledger[j][t]
    /\ \A t \in s.new \ DOMAIN ledger[j] : s.ledger[t].live
    /\ Applied(j) = {} => s.new = {}
    /\ \A b \in B : Undoes(s.ledger, s.rec, b) /\ DOMAIN s.ledger = LiveIn(s.ledger)

\* A record of the loop after one call: found or made, with what was asked for.
Placed(s, o, new) ==
    /\ o.at \in DOMAIN o.rec /\ SameRecord(o.rec[o.at], new)
    /\ \A i \in DOMAIN s.rec : i \in DOMAIN o.rec /\ SameRecord(o.rec[i], s.rec[i])

LEMMA WriteKeeps ==
    ASSUME FieldInv, NEW j \in Jobs, Applied(j) # {},
           NEW B, NEW s, LoopInv(j, B, s),
           NEW at, NEW n, NEW new, NEW e, at \in 1 .. n, e.live,
           TablesInv(Put(s.rec, at, new), n), Kept(s.rec, s.ids, Put(s.rec, at, new), n),
           EntryFits(Put(s.rec, at, new), n, at, e),
           IF at \in DOMAIN s.rec THEN e.op = "updated" /\ e.prev = s.rec[at]
           ELSE e.op = "inserted" /\ at \notin DOMAIN s.ledger
    PROVE  LoopInv(j, B, Write(s, at, n, new, e))
<1> DEFINE o == Write(s, at, n, new, e)
           q == Put(s.rec, at, new)
           k == Recorded(s.ledger, at, e)
<1>1. o = [rec |-> q, ids |-> n, ledger |-> k, new |-> s.new \cup {at}, at |-> at]
  BY DEF Write
<1>2. DOMAIN q = DOMAIN s.rec \cup {at}
  BY DEF Put
<1>3. /\ DOMAIN k = DOMAIN s.ledger \cup {at}
      /\ \A t \in DOMAIN s.ledger : k[t] = s.ledger[t]
      /\ at \notin DOMAIN s.ledger => k[at] = e
  BY DEF Recorded, Put
<1>4. LedgerFits(q, n, s.ledger)
  <2>1. LedgerFits(s.rec, s.ids, s.ledger)
    BY DEF LoopInv
  <2>. HIDE DEF q
  <2>. QED  BY <2>1, LedgerStillFits DEF q
<1>5. LedgerFits(q, n, k)
  <2>. HIDE DEF k, q
  <2>1. DOMAIN k \subseteq 1 .. n
    BY <1>3, <1>4 DEF LedgerFits
  <2>2. ASSUME NEW t \in DOMAIN k PROVE EntryFits(q, n, t, k[t])
    <3>1. CASE t \in DOMAIN s.ledger
      BY <1>3, <1>4, <3>1 DEF LedgerFits
    <3>2. CASE t \notin DOMAIN s.ledger
      <4>1. t = at /\ k[t] = e
        BY <1>3, <3>2
      <4>. QED  BY <4>1 DEF q
    <3>. QED  BY <3>1, <3>2
  <2>. QED  BY <2>1, <2>2 DEF LedgerFits
<1>6. Kept(rec, ids, q, n)
  <2>1. DOMAIN rec \subseteq 1 .. ids /\ Kept(rec, ids, s.rec, s.ids)
    BY DEF LoopInv, FieldInv, TablesInv
  <2>. HIDE DEF q
  <2>. QED  BY <2>1, KeptTwice DEF q
<1>7. ASSUME NEW b \in B PROVE Undoes(k, q, b) /\ DOMAIN k = LiveIn(k)
  <2>1. Undoes(s.ledger, s.rec, b) /\ DOMAIN s.ledger = LiveIn(s.ledger)
    BY DEF LoopInv
  <2>. QED  BY <2>1, UndoesWritten
<1>8. DOMAIN k = DOMAIN ledger[j] \cup (s.new \cup {at})
  BY <1>3 DEF LoopInv
<1>9. \A t \in DOMAIN ledger[j] : k[t] = ledger[j][t]
  BY <1>3 DEF LoopInv
<1>10. ASSUME NEW t \in (s.new \cup {at}) \ DOMAIN ledger[j] PROVE k[t].live
  <2>1. CASE t \in s.new
    <3>1. s.ledger[t].live /\ t \in DOMAIN s.ledger
      BY <1>10, <2>1 DEF LoopInv
    <3>. QED  BY <1>3, <3>1
  <2>2. CASE t \notin s.new
    BY <1>3, <1>10, <2>2 DEF LoopInv
  <2>. QED  BY <2>1, <2>2
<1>11. TablesInv(q, n) /\ DOMAIN rec \subseteq DOMAIN q
  BY <1>2 DEF LoopInv
<1>12. LoopInv(j, B, o)
  <2>. HIDE DEF k, q, o
  <2>. QED  BY <1>1, <1>5, <1>6, <1>7, <1>8, <1>9, <1>10, <1>11 DEF LoopInv
<1>. QED  BY <1>12

\* Whoever has the key of a record has all the rest that it is found by.
LEMMA KeyFindsRecord ==
    ASSUME NEW r, WellFormed(r), NEW new, InPlace(r, new), NEW k \in DOMAIN r,
           SameKey(r[k], new)
    PROVE  SameRecord(r[k], new)
<1>1. r[k].table \in Tables \ Slots /\ r[k].table = new.table
  BY Places DEF SameKey
<1>2. r[k].half = Nil
  BY <1>1, Places DEF Tables, Slots
<1>3. new.half = Nil
  BY <1>1 DEF InPlace, Slots
<1>. QED  BY <1>2, <1>3 DEF SameKey, SameRecord

LEMMA InsertKeeps ==
    ASSUME FieldInv, NEW j \in Jobs, Applied(j) # {}, NEW B, NEW s, LoopInv(j, B, s),
           NEW new, InPlace(s.rec, new), Found(s, new) = {}
    PROVE  LoopInv(j, B, Insert(s, new)) /\ Placed(s, Insert(s, new), new)
<1> DEFINE n == s.ids + 1
           e == Entry("inserted", new.table, Nil)
           q == Put(s.rec, n, new)
<1>1. /\ TablesInv(s.rec, s.ids) /\ LedgerFits(s.rec, s.ids, s.ledger)
      /\ s.ids \in Nat /\ WellFormed(s.rec) /\ DOMAIN s.rec \subseteq 1 .. s.ids
  BY DEF LoopInv, TablesInv
<1>2. \A k \in DOMAIN s.rec : ~SameKey(s.rec[k], new)
  BY <1>1, KeyFindsRecord DEF Found
<1>3. TablesInv(q, n)
  BY <1>1, <1>2, InsertKeepsTables
<1>4. Kept(s.rec, s.ids, q, n)
  BY <1>1, KeptByInsert
<1>5. n \in 1 .. n /\ n \notin DOMAIN s.rec /\ n \notin DOMAIN s.ledger
  BY <1>1 DEF LedgerFits
<1>6. new.table \in Tables
  BY DEF InPlace, Tables, Slots
<1>7. q[n] = new
  BY DEF Put
<1>8. EntryFits(q, n, n, e) /\ e.live /\ e.op = "inserted"
  BY <1>6, <1>7 DEF EntryFits, Entry
<1>9. LoopInv(j, B, Write(s, n, n, new, e))
  <2>. HIDE DEF n, e, q
  <2>. QED  BY <1>3, <1>4, <1>5, <1>8, WriteKeeps DEF q
<1>10. Placed(s, Write(s, n, n, new, e), new)
  BY <1>1 DEF Placed, Write, Put, SameRecord
<1>. QED  BY <1>9, <1>10 DEF Insert

LEMMA FoundFacts ==
    ASSUME NEW s, DOMAIN s.rec \subseteq Nat, NEW new, Found(s, new) # {}
    PROVE  Min(Found(s, new)) \in DOMAIN s.rec /\ SameRecord(s.rec[Min(Found(s, new))], new)
<1>1. Found(s, new) \subseteq Nat
  BY DEF Found
<1>2. Min(Found(s, new)) \in Found(s, new)
  BY <1>1, MinFacts
<1>. QED  BY <1>2 DEF Found

LEMMA UpsertKeeps ==
    ASSUME FieldInv, NEW j \in Jobs, Applied(j) # {}, NEW B, NEW s, LoopInv(j, B, s),
           NEW new, InPlace(s.rec, new), new.table # "field_subunits"
    PROVE  LoopInv(j, B, Upsert(s, new)) /\ Placed(s, Upsert(s, new), new)
<1>1. CASE Found(s, new) = {}
  <2>1. Upsert(s, new) = Insert(s, new)
    BY <1>1 DEF Upsert
  <2>. QED  BY <1>1, <2>1, InsertKeeps
<1>2. CASE Found(s, new) # {}
  <2> DEFINE t == Min(Found(s, new))
             e == Entry("updated", new.table, s.rec[t])
             q == Put(s.rec, t, new)
  <2>1. /\ TablesInv(s.rec, s.ids) /\ LedgerFits(s.rec, s.ids, s.ledger)
        /\ s.ids \in Nat /\ WellFormed(s.rec) /\ DOMAIN s.rec \subseteq 1 .. s.ids
    BY DEF LoopInv, TablesInv
  <2>2. t \in DOMAIN s.rec /\ SameRecord(s.rec[t], new) /\ t \in 1 .. s.ids
    BY <1>2, <2>1, FoundFacts
  <2>3. \A k \in DOMAIN s.rec : SameKey(s.rec[k], new) => k = t
    <3>1. \A k \in DOMAIN s.rec : SameKey(s.rec[k], new) => SameKey(s.rec[k], s.rec[t])
      BY <2>2 DEF SameKey, SameRecord
    <3>. QED  BY <2>1, <2>2, <3>1 DEF WellFormed
  <2>4. TablesInv(q, s.ids)
    <3>. HIDE DEF t
    <3>. QED  BY <2>1, <2>2, <2>3, OverwriteKeepsTables DEF SameRecord
  <2>5. Kept(s.rec, s.ids, q, s.ids)
    <3>. HIDE DEF t
    <3>. QED  BY <2>1, <2>2, KeptByOverwrite DEF SameRecord
  <2>6. new.table \in Tables
    BY DEF InPlace, Tables, Slots
  <2>7. q[t] = new /\ DOMAIN q = DOMAIN s.rec
    BY <2>2 DEF Put
  <2>8. PrevFits(q, s.ids, t, e)
    <3>1. e.prev = s.rec[t] /\ e.table = new.table
      BY DEF Entry
    <3>2. /\ e.prev.table = new.table /\ e.prev.parent = new.parent
          /\ e.prev.half = new.half
      BY <2>2, <3>1 DEF SameRecord
    <3>3. CASE new.table \in Slots
      <4>. HIDE DEF e, q, t
      <4>. QED  BY <2>7, <3>1, <3>2, <3>3 DEF PrevFits
    <3>4. CASE new.table = "locations"
      BY <3>1, <3>2, <3>4 DEF PrevFits, InPlace, Slots
    <3>5. CASE new.table = "fields"
      <4>1. /\ new.parent \in DOMAIN s.rec /\ s.rec[new.parent].table = "locations"
            /\ new.half = Nil
        BY <3>5 DEF InPlace, Slots
      <4>2. q[new.parent].table = "locations"
        <5>1. new.parent # t
          BY <2>2, <3>5, <4>1 DEF SameRecord
        <5>. QED  BY <4>1, <5>1 DEF Put
      <4>3. new.parent \in 1 .. s.ids
        BY <2>1, <4>1
      <4>. HIDE DEF e, q, t
      <4>. QED  BY <3>1, <3>2, <3>5, <4>1, <4>2, <4>3 DEF PrevFits
    <3>. QED  BY <2>6, <3>3, <3>4, <3>5 DEF Tables, Slots
  <2>9. EntryFits(q, s.ids, t, e) /\ e.live /\ e.op = "updated" /\ e.prev = s.rec[t]
    BY <2>6, <2>7, <2>8 DEF EntryFits, Entry
  <2>10. LoopInv(j, B, Write(s, t, s.ids, new, e))
    <3>. HIDE DEF t, e, q
    <3>. QED  BY <2>2, <2>4, <2>5, <2>9, WriteKeeps DEF q
  <2>11. Placed(s, Write(s, t, s.ids, new, e), new)
    <3>1. Write(s, t, s.ids, new, e).rec = q /\ Write(s, t, s.ids, new, e).at = t
      BY DEF Write
    <3>2. \A i \in DOMAIN s.rec : SameRecord(q[i], s.rec[i])
      BY <2>2 DEF Put, SameRecord
    <3>3. SameRecord(q[t], new)
      BY <2>7 DEF SameRecord
    <3>. HIDE DEF t, e, q
    <3>. QED  BY <2>2, <2>7, <3>1, <3>2, <3>3 DEF Placed
  <2>12. Upsert(s, new) = Write(s, t, s.ids, new, e)
    BY <1>2 DEF Upsert
  <2>. QED  BY <2>10, <2>11, <2>12
<1>. QED  BY <1>1, <1>2

LEMMA FindOrInsertKeeps ==
    ASSUME FieldInv, NEW j \in Jobs, Applied(j) # {}, NEW B, NEW s, LoopInv(j, B, s),
           NEW new, InPlace(s.rec, new)
    PROVE  LoopInv(j, B, FindOrInsert(s, new)) /\ Placed(s, FindOrInsert(s, new), new)
<1>1. CASE Found(s, new) = {}
  <2>1. FindOrInsert(s, new) = Insert(s, new)
    BY <1>1 DEF FindOrInsert
  <2>. QED  BY <1>1, <2>1, InsertKeeps
<1>2. CASE Found(s, new) # {}
  <2> DEFINE t == Min(Found(s, new))
             o == [s EXCEPT !.at = t]
  <2>1. DOMAIN s.rec \subseteq Nat
    BY DEF LoopInv, TablesInv
  <2>2. t \in DOMAIN s.rec /\ SameRecord(s.rec[t], new)
    BY <1>2, <2>1, FoundFacts
  <2>3. s = [rec |-> s.rec, ids |-> s.ids, ledger |-> s.ledger, new |-> s.new, at |-> s.at]
    BY DEF LoopInv
  <2>. HIDE DEF t
  <2>4. o = [rec |-> s.rec, ids |-> s.ids, ledger |-> s.ledger, new |-> s.new, at |-> t]
    BY <2>3
  <2>. HIDE DEF o
  <2>5. LoopInv(j, B, o)
    BY <2>4 DEF LoopInv
  <2>6. Placed(s, o, new)
    BY <2>2, <2>4 DEF Placed, SameRecord
  <2>7. FindOrInsert(s, new) = o
    BY <1>2 DEF FindOrInsert, o, t
  <2>. QED  BY <2>5, <2>6, <2>7
<1>. QED  BY <1>1, <1>2

\* A row applied: a location, a field of it, a half of that where one is named,
\* and a slot, each in place when it is looked for.
LEMMA ApplyRowKeeps ==
    ASSUME FieldInv, NEW j \in Jobs, NEW r \in Applied(j), NEW B, NEW s, LoopInv(j, B, s)
    PROVE  LoopInv(j, B, ApplyRow(j, s, r))
<1> DEFINE p == File[j][r]
           New(t, parent, half, name) ==
               [table |-> t, parent |-> parent, half |-> half, name |-> name, val |-> j]
           park  == New("locations", Nil, Nil, p.location)
           place == IF p.details THEN Upsert(s, park) ELSE FindOrInsert(s, park)
           ground == New("fields", place.at, Nil, p.field)
           field == Upsert(place, ground)
           side  == New("field_subunits", field.at, Nil, p.half)
           part  == IF p.half = Nil THEN field ELSE FindOrInsert(field, side)
           half  == IF p.half # Nil /\ p.slot = "practice_slots" THEN part.at ELSE Nil
           slot  == New(p.slot, field.at, half, p.time)
<1>1. ApplyRow(j, s, r) = Upsert(part, slot)
  BY DEF ApplyRow
<1>2. Applied(j) # {} /\ r \in Rows
  BY DEF Applied, PendingRows
<1>3. p.slot \in Slots
  BY <1>2, FieldAssumption
<1>4. LoopInv(j, B, place) /\ Placed(s, place, park)
  <2>1. InPlace(s.rec, park) /\ park.table # "field_subunits"
    BY DEF InPlace
  <2>2. CASE p.details
    <3>1. place = Upsert(s, park)
      BY <2>2
    <3>. HIDE DEF place, park, p
    <3>. QED  BY <1>2, <2>1, <3>1, UpsertKeeps
  <2>3. CASE ~p.details
    <3>1. place = FindOrInsert(s, park)
      BY <2>3
    <3>. HIDE DEF place, park, p
    <3>. QED  BY <1>2, <2>1, <3>1, FindOrInsertKeeps
  <2>. QED  BY <2>2, <2>3
<1>5. place.at \in DOMAIN place.rec /\ place.rec[place.at].table = "locations"
  <2>1. park.table = "locations"
    OBVIOUS
  <2>. HIDE DEF place, park, p
  <2>. QED  BY <1>4, <2>1 DEF Placed, SameRecord
<1>6. LoopInv(j, B, field) /\ Placed(place, field, ground)
  <2>. HIDE DEF place, p
  <2>1. InPlace(place.rec, ground) /\ ground.table # "field_subunits"
    BY <1>5 DEF InPlace
  <2>. HIDE DEF ground
  <2>. QED  BY <1>2, <1>4, <2>1, UpsertKeeps
<1>7. field.at \in DOMAIN field.rec /\ field.rec[field.at].table = "fields"
  <2>1. ground.table = "fields"
    OBVIOUS
  <2>. HIDE DEF field, ground, place
  <2>. QED  BY <1>6, <2>1 DEF Placed, SameRecord
<1>8. /\ LoopInv(j, B, part)
      /\ field.at \in DOMAIN part.rec /\ part.rec[field.at].table = "fields"
      /\ p.half # Nil => /\ part.at \in DOMAIN part.rec
                         /\ part.rec[part.at].table = "field_subunits"
                         /\ part.rec[part.at].parent = field.at
  <2>1. CASE p.half = Nil
    <3>1. part = field
      BY <2>1
    <3>. HIDE DEF part, field, p
    <3>. QED  BY <1>6, <1>7, <2>1, <3>1
  <2>2. CASE p.half # Nil
    <3>1. part = FindOrInsert(field, side)
      BY <2>2
    <3>2. side.table = "field_subunits" /\ side.parent = field.at /\ side.half = Nil
      OBVIOUS
    <3>. HIDE DEF part, side, field, p
    <3>3. InPlace(field.rec, side)
      BY <1>7, <3>2 DEF InPlace
    <3>4. LoopInv(j, B, part) /\ Placed(field, part, side)
      BY <1>2, <1>6, <3>1, <3>3, FindOrInsertKeeps
    <3>. QED  BY <1>7, <3>2, <3>4 DEF Placed, SameRecord
  <2>. QED  BY <2>1, <2>2
<1>9. InPlace(part.rec, slot) /\ slot.table # "field_subunits"
  <2>1. slot.table \in Slots /\ slot.parent = field.at /\ slot.half = half
    BY <1>3
  <2>2. half # Nil => p.half # Nil /\ half = part.at
    OBVIOUS
  <2>. HIDE DEF part, slot, half, field, p
  <2>. QED  BY <1>8, <2>1, <2>2 DEF InPlace, Slots
<1>. HIDE DEF part, slot
<1>. QED  BY <1>1, <1>2, <1>8, <1>9, UpsertKeeps

-----------------------------------------------------------------------------
(* Apply: the loop over the rows.                                           *)

Start(j) == [rec |-> rec, ids |-> ids, ledger |-> ledger[j], new |-> {}, at |-> Nil]

\* f is the state of the finalizer's loop after each row number up to m.
IsLoop(f, j, m) ==
    f = [r \in 0 .. m |-> IF r = 0 THEN Start(j)
                          ELSE IF r \in Applied(j) THEN ApplyRow(j, f[r - 1], r)
                          ELSE f[r - 1]]

LEMMA LoopExists ==
    ASSUME NEW j, NEW m \in Nat
    PROVE  \E f : IsLoop(f, j, m)
<1> DEFINE T == {k \in Nat : ~\E f : IsLoop(f, j, k)}
           Next1(was, r) == IF r \in Applied(j) THEN ApplyRow(j, was, r) ELSE was
<1>1. SUFFICES ASSUME T # {} PROVE FALSE
  OBVIOUS
<1>2. T \subseteq Nat
  OBVIOUS
<1>3. PICK k \in T : \A y \in T : k <= y
  <2>. HIDE DEF T
  <2>. QED  BY <1>1, <1>2, LeastNumber
<1>4. CASE k = 0
  <2> DEFINE f == [r \in 0 .. 0 |-> Start(j)]
  <2>1. IsLoop(f, j, 0)
    BY DEF IsLoop
  <2>. QED  BY <1>3, <1>4, <2>1
<1>5. CASE k # 0
  <2>1. k \in Nat /\ k - 1 \in Nat /\ k - 1 \notin T
    BY <1>3, <1>5
  <2>2. PICK f : IsLoop(f, j, k - 1)
    BY <2>1
  <2> DEFINE g == [r \in 0 .. k |-> IF r = 0 THEN Start(j) ELSE Next1(f[r - 1], r)]
  <2>3. \A r \in 0 .. k - 1 : g[r] = f[r]
    <3>1. \A r \in 0 .. k - 1 : f[r] = IF r = 0 THEN Start(j) ELSE Next1(f[r - 1], r)
      BY <2>2 DEF IsLoop
    <3>2. 0 .. k - 1 \subseteq 0 .. k
      BY <2>1
    <3>. HIDE DEF Next1
    <3>. QED  BY <3>1, <3>2
  <2>4. g = [r \in 0 .. k |-> IF r = 0 THEN Start(j) ELSE Next1(g[r - 1], r)]
    <3>1. \A r \in 0 .. k : r # 0 => r - 1 \in 0 .. k - 1
      BY <2>1
    <3>2. \A r \in 0 .. k : r # 0 => g[r - 1] = f[r - 1]
      <4>. HIDE DEF g
      <4>. QED  BY <2>3, <3>1
    <3>. HIDE DEF Next1
    <3>. QED  BY <3>2
  <2>5. IsLoop(g, j, k)
    <3>. HIDE DEF g
    <3>. QED  BY <2>4 DEF IsLoop
  <2>. QED  BY <1>3, <2>5
<1>. QED  BY <1>4, <1>5

LEMMA LoopUnfolds ==
    ASSUME NEW j
    PROVE  \E f : IsLoop(f, j, Max(Rows)) /\ Outcome(j) = f[Max(Rows)]
<1> DEFINE f == CHOOSE g : IsLoop(g, j, Max(Rows))
<1>1. IsLoop(f, j, Max(Rows))
  BY LoopExists, LastRow
<1>2. Outcome(j) = f[Max(Rows)]
  BY DEF Outcome, IsLoop, Start
<1>. QED  BY <1>1, <1>2

\* Undoing the ledger of job j, all of it live, gives the tables of B.
Undoable(j, B) ==
    \A b \in B : Undoes(ledger[j], rec, b) /\ DOMAIN ledger[j] = LiveIn(ledger[j])

LEMMA OutcomeKeeps ==
    ASSUME FieldInv, NEW j \in Jobs, NEW B, Undoable(j, B)
    PROVE  LoopInv(j, B, Outcome(j))
<1>1. PICK f : IsLoop(f, j, Max(Rows)) /\ Outcome(j) = f[Max(Rows)]
  BY LoopUnfolds
<1> DEFINE m == Max(Rows)
           T == {r \in 0 .. m : ~LoopInv(j, B, f[r])}
<1>2. m \in Nat
  BY LastRow
<1>. HIDE DEF m
<1>3. /\ f[0] = Start(j)
      /\ \A r \in 0 .. m : r # 0 =>
             f[r] = IF r \in Applied(j) THEN ApplyRow(j, f[r - 1], r) ELSE f[r - 1]
  <2>1. f = [r \in 0 .. m |-> IF r = 0 THEN Start(j)
                              ELSE IF r \in Applied(j) THEN ApplyRow(j, f[r - 1], r)
                              ELSE f[r - 1]]
    BY <1>1 DEF IsLoop, m
  <2>2. 0 \in 0 .. m
    BY <1>2
  <2>. QED  BY <2>1, <2>2
<1>4. LoopInv(j, B, Start(j))
  <2>1. Kept(rec, ids, rec, ids)
    BY DEF FieldInv, TablesInv, Kept
  <2>. QED  BY <2>1 DEF LoopInv, Start, FieldInv, Undoable
<1>5. SUFFICES ASSUME T # {} PROVE FALSE
  BY <1>1, <1>2 DEF m
<1>6. T \subseteq Nat
  BY <1>2
<1>7. PICK k \in T : \A y \in T : k <= y
  <2>. HIDE DEF T
  <2>. QED  BY <1>5, <1>6, LeastNumber
<1>8. k # 0
  BY <1>3, <1>4, <1>7
<1>9. k \in 0 .. m /\ k - 1 \in 0 .. m /\ ~(k <= k - 1)
  BY <1>2, <1>7, <1>8
<1>10. LoopInv(j, B, f[k - 1])
  BY <1>7, <1>9
<1>11. LoopInv(j, B, f[k])
  <2>1. CASE k \in Applied(j)
    <3>1. f[k] = ApplyRow(j, f[k - 1], k)
      BY <1>3, <1>8, <1>9, <2>1
    <3>. QED  BY <1>10, <2>1, <3>1, ApplyRowKeeps
  <2>2. CASE k \notin Applied(j)
    BY <1>3, <1>8, <1>9, <1>10, <2>2
  <2>. QED  BY <2>1, <2>2
<1>. QED  BY <1>7, <1>11

-----------------------------------------------------------------------------
(* Roll back: the order of the records.                                     *)

\* The level of a table, slots first.
LevelOf(table) == CASE table = "game_slots"     -> 1
                    [] table = "practice_slots" -> 2
                    [] table = "field_subunits" -> 3
                    [] table = "fields"         -> 4
                    [] table = "locations"      -> 5

Level(j, t) == LevelOf(ledger[j][t].table)

\* The sequence o holds every element of S and no other.
Lists(o, S) == /\ o \in Seq(S)
               /\ \A t \in S : \E n \in 1 .. Len(o) : o[n] = t

\* o lists the live records of job j up to level k, lower levels first.
UpTo(j, o, k) ==
    /\ Lists(o, {t \in Live(j) : Level(j, t) <= k})
    /\ \A m, n \in 1 .. Len(o) : m < n => Level(j, o[m]) <= Level(j, o[n])

LEMMA ListsSequenced ==
    ASSUME NEW S, IsFiniteSet(S), NEW f \in SetToSeqs(S)
    PROVE  Lists(f, S)
<1> DEFINE n == Cardinality(S)
<1>1. n \in Nat
  BY FS_CardinalityType
<1>2. IsFiniteSet(1 .. n) /\ Cardinality(1 .. n) = n
  <2>1. IsFiniteSet(1 .. n) /\ Cardinality(1 .. n) = IF 1 > n THEN 0 ELSE n - 1 + 1
    BY <1>1, FS_Interval
  <2>. QED  BY <1>1, <2>1
<1>3. f \in [1 .. n -> S] /\ \A a, b \in 1 .. n : f[a] = f[b] => a = b
  BY DEF SetToSeqs
<1>. HIDE DEF n
<1>4. f \in Injection(1 .. n, S)
  BY <1>3 DEF Injection, IsInjective
<1>5. f \in Surjection(1 .. n, S)
  BY <1>2, <1>4, FS_Injection DEF n
<1>6. f \in Seq(S) /\ Len(f) = n
  BY <1>1, <1>3
<1>. QED  BY <1>5, <1>6 DEF Lists, Surjection

LEMMA ListsSequence ==
    ASSUME NEW S, IsFiniteSet(S)
    PROVE  Lists(SetToSeq(S), S)
<1> DEFINE n == Cardinality(S)
<1>1. PICK g : g \in Bijection(1 .. n, S)
  BY FS_CardinalityType DEF ExistsBijection
<1>2. g \in [1 .. n -> S] /\ IsInjective(g)
  BY <1>1 DEF Bijection, Injection
<1>3. SetToSeq(S) \in [1 .. n -> S] /\ IsInjective(SetToSeq(S))
  BY <1>2 DEF SetToSeq
<1>4. SetToSeq(S) \in SetToSeqs(S)
  BY <1>3 DEF SetToSeqs, IsInjective
<1>. QED  BY <1>4, ListsSequenced

LEMMA UpToNext ==
    ASSUME NEW j, \A t \in Live(j) : Level(j, t) \in 1 .. 5,
           NEW k \in 0 .. 4, NEW o, UpTo(j, o, k),
           NEW q, Lists(q, {t \in Live(j) : Level(j, t) = k + 1})
    PROVE  UpTo(j, o \o q, k + 1)
<1> DEFINE R == {t \in Live(j) : Level(j, t) <= k}
           Q == {t \in Live(j) : Level(j, t) = k + 1}
           S == {t \in Live(j) : Level(j, t) <= k + 1}
           p == o \o q
<1>1. R \subseteq S /\ Q \subseteq S /\ S \subseteq R \cup Q
  OBVIOUS
<1>2. /\ o \in Seq(R) /\ \A t \in R : \E n \in 1 .. Len(o) : o[n] = t
      /\ \A m, n \in 1 .. Len(o) : m < n => Level(j, o[m]) <= Level(j, o[n])
  BY DEF UpTo, Lists
<1>3. q \in Seq(Q) /\ \A t \in Q : \E n \in 1 .. Len(q) : q[n] = t
  BY DEF Lists
<1>4. /\ Len(o) \in Nat /\ \A n \in 1 .. Len(o) : o[n] \in Live(j) /\ Level(j, o[n]) <= k
      /\ Len(q) \in Nat /\ \A n \in 1 .. Len(q) : q[n] \in Live(j) /\ Level(j, q[n]) = k + 1
  <2>1. Len(o) \in Nat /\ \A n \in 1 .. Len(o) : o[n] \in R
    <3>. HIDE DEF R
    <3>. QED  BY <1>2
  <2>2. Len(q) \in Nat /\ \A n \in 1 .. Len(q) : q[n] \in Q
    <3>. HIDE DEF Q
    <3>. QED  BY <1>3
  <2>. QED  BY <2>1, <2>2
<1>5. o \in Seq(S) /\ q \in Seq(S)
  <2>. HIDE DEF R, Q, S
  <2>. QED  BY <1>1, <1>2, <1>3
<1>6. /\ p \in Seq(S) /\ Len(p) = Len(o) + Len(q)
      /\ \A i \in 1 .. Len(o) + Len(q) : p[i] = IF i <= Len(o) THEN o[i] ELSE q[i - Len(o)]
  <2>. HIDE DEF S
  <2>. QED  BY <1>5, ConcatProperties
<1>7. /\ \A i \in 1 .. Len(o) : i \in 1 .. Len(p) /\ p[i] = o[i]
      /\ \A i \in 1 .. Len(q) : Len(o) + i \in 1 .. Len(p) /\ p[Len(o) + i] = q[i]
  <2>1. ASSUME NEW i \in 1 .. Len(o) PROVE i \in 1 .. Len(p) /\ p[i] = o[i]
    <3>1. i \in 1 .. Len(o) + Len(q) /\ i <= Len(o)
      BY <1>4
    <3>. HIDE DEF p
    <3>. QED  BY <1>6, <3>1
  <2>2. ASSUME NEW i \in 1 .. Len(q)
        PROVE  Len(o) + i \in 1 .. Len(p) /\ p[Len(o) + i] = q[i]
    <3>1. /\ Len(o) + i \in 1 .. Len(o) + Len(q) /\ ~(Len(o) + i <= Len(o))
          /\ Len(o) + i - Len(o) = i
      BY <1>4
    <3>. HIDE DEF p
    <3>. QED  BY <1>6, <3>1
  <2>. QED  BY <2>1, <2>2
<1>8. ASSUME NEW t \in S PROVE \E n \in 1 .. Len(p) : p[n] = t
  <2>1. CASE t \in R
    <3>1. PICK n \in 1 .. Len(o) : o[n] = t
      BY <1>2, <2>1
    <3>. HIDE DEF p
    <3>. QED  BY <1>7, <3>1
  <2>2. CASE t \in Q
    <3>1. PICK n \in 1 .. Len(q) : q[n] = t
      BY <1>3, <2>2
    <3>. HIDE DEF p
    <3>. QED  BY <1>7, <3>1
  <2>. QED  BY <1>1, <2>1, <2>2
<1>9. ASSUME NEW m \in 1 .. Len(p), NEW n \in 1 .. Len(p), m < n
      PROVE  Level(j, p[m]) <= Level(j, p[n])
  <2>. HIDE DEF p
  <2>1. CASE n <= Len(o)
    <3>1. m \in 1 .. Len(o) /\ n \in 1 .. Len(o)
      BY <1>4, <1>6, <1>9, <2>1
    <3>. QED  BY <1>2, <1>7, <1>9, <3>1
  <2>2. CASE ~(n <= Len(o))
    <3>1. n - Len(o) \in 1 .. Len(q) /\ p[n] = q[n - Len(o)]
      BY <1>4, <1>6, <2>2
    <3>2. Level(j, p[n]) = k + 1
      BY <1>4, <3>1
    <3>3. CASE m <= Len(o)
      <4>1. m \in 1 .. Len(o)
        BY <1>4, <1>6, <3>3
      <4>2. p[m] \in Live(j) /\ Level(j, p[m]) <= k
        BY <1>4, <1>7, <4>1
      <4>. QED  BY <3>2, <4>2
    <3>4. CASE ~(m <= Len(o))
      <4>1. m - Len(o) \in 1 .. Len(q) /\ p[m] = q[m - Len(o)]
        BY <1>4, <1>6, <3>4
      <4>2. Level(j, p[m]) = k + 1
        BY <1>4, <4>1
      <4>. QED  BY <3>2, <4>2
    <3>. QED  BY <3>3, <3>4
  <2>. QED  BY <2>1, <2>2
<1>10. Lists(p, S)
  <2>. HIDE DEF p, S
  <2>. QED  BY <1>6, <1>8 DEF Lists
<1>. QED  BY <1>9, <1>10 DEF UpTo

\* The order of a rollback: every live record, a table at a time.
LEMMA OrderFacts ==
    ASSUME FieldInv, NEW j \in Jobs, NEW fields \in SetToSeqs(LiveOf(j, "fields"))
    PROVE  UpTo(j, UndoOrder(j, fields), 5)
<1> DEFINE Part(n) == IF RollbackOrder[n] = "fields" THEN fields
                      ELSE SetToSeq(LiveOf(j, RollbackOrder[n]))
           At(n) == {t \in Live(j) : Level(j, t) = n}
<1>1. \A t \in Live(j) : ledger[j][t].table \in Tables
  BY DEF FieldInv, LedgerFits, EntryFits, Live
<1>2. \A t \in Live(j) : Level(j, t) \in 1 .. 5
  BY <1>1 DEF Tables, Level, LevelOf
<1>3. IsFiniteSet(Live(j))
  <2>1. Live(j) \subseteq 1 .. ids /\ ids \in Nat
    BY DEF FieldInv, LedgerFits, TablesInv, Live
  <2>2. IsFiniteSet(1 .. ids)
    BY <2>1, FS_Interval
  <2>. QED  BY <2>1, <2>2, FS_Subset
<1>4. ASSUME NEW n \in 1 .. 5 PROVE Lists(Part(n), At(n))
  <2>1. LiveOf(j, RollbackOrder[n]) = At(n)
    <3>1. /\ RollbackOrder[1] = "game_slots" /\ RollbackOrder[2] = "practice_slots"
          /\ RollbackOrder[3] = "field_subunits" /\ RollbackOrder[4] = "fields"
          /\ RollbackOrder[5] = "locations"
      BY DEF RollbackOrder
    <3>2. n = 1 \/ n = 2 \/ n = 3 \/ n = 4 \/ n = 5
      OBVIOUS
    <3>3. \A t \in Live(j) : ledger[j][t].table = RollbackOrder[n] <=> Level(j, t) = n
      BY <1>1, <3>1, <3>2 DEF Tables, Level, LevelOf
    <3>. QED  BY <3>3 DEF LiveOf
  <2>2. IsFiniteSet(LiveOf(j, RollbackOrder[n]))
    BY <1>3, FS_Subset DEF LiveOf
  <2>3. Lists(Part(n), LiveOf(j, RollbackOrder[n]))
    <3>1. CASE RollbackOrder[n] = "fields"
      BY <2>2, <3>1, ListsSequenced
    <3>2. CASE RollbackOrder[n] # "fields"
      BY <2>2, <3>2, ListsSequence
    <3>. QED  BY <3>1, <3>2
  <2>. QED  BY <2>1, <2>3
<1>5. UpTo(j, Part(1), 1)
  <2>1. Lists(Part(1), At(1))
    BY <1>4
  <2>. HIDE DEF Part
  <2>2. At(1) = {t \in Live(j) : Level(j, t) <= 1}
    BY <1>2
  <2>3. \A n \in 1 .. Len(Part(1)) : Part(1)[n] \in At(1)
    <3>1. Part(1) \in Seq(At(1))
      BY <2>1 DEF Lists
    <3>. HIDE DEF At
    <3>. QED  BY <3>1
  <2>4. \A n \in 1 .. Len(Part(1)) : Level(j, Part(1)[n]) = 1
    BY <2>3
  <2>5. Lists(Part(1), {t \in Live(j) : Level(j, t) <= 1})
    BY <2>1, <2>2
  <2>. QED  BY <2>4, <2>5 DEF UpTo
<1>6. Lists(Part(2), At(2)) /\ Lists(Part(3), At(3)) /\ Lists(Part(4), At(4)) /\ Lists(Part(5), At(5))
  BY <1>4
<1>7. UndoOrder(j, fields) = Part(1) \o Part(2) \o Part(3) \o Part(4) \o Part(5)
  BY DEF UndoOrder
<1>. HIDE DEF Part
<1>8. UpTo(j, Part(1) \o Part(2), 2)
  <2>1. 1 \in 0 .. 4 /\ 1 + 1 = 2
    OBVIOUS
  <2>. QED  BY <1>2, <1>5, <1>6, <2>1, UpToNext
<1>9. UpTo(j, Part(1) \o Part(2) \o Part(3), 3)
  <2>1. 2 \in 0 .. 4 /\ 2 + 1 = 3
    OBVIOUS
  <2>. QED  BY <1>2, <1>8, <1>6, <2>1, UpToNext
<1>10. UpTo(j, Part(1) \o Part(2) \o Part(3) \o Part(4), 4)
  <2>1. 3 \in 0 .. 4 /\ 3 + 1 = 4
    OBVIOUS
  <2>. QED  BY <1>2, <1>9, <1>6, <2>1, UpToNext
<1>11. UpTo(j, Part(1) \o Part(2) \o Part(3) \o Part(4) \o Part(5), 5)
  <2>1. 4 \in 0 .. 4 /\ 4 + 1 = 5
    OBVIOUS
  <2>. QED  BY <1>2, <1>10, <1>6, <2>1, UpToNext
<1>. QED  BY <1>7, <1>11

-----------------------------------------------------------------------------
(* Roll back: one record after the other.                                   *)

\* Record t is among those still to come after the first n of o.
Ahead(o, n, t) == \E m \in (n + 1) .. Len(o) : o[m] = t

\* What has been undone of job j when n of its records, in the order o, have
\* been seen: the tables are well-formed, nothing is in use that is gone, what
\* was kept is needed, and only records still to come tell the tables from
\* those the application started from.
UndoInv(j, o, n, s) ==
    /\ TablesInv(s.rec, ids) /\ Kept(rec, ids, s.rec, ids)
    /\ inUse \subseteq DOMAIN s.rec /\ DOMAIN s.rec \subseteq DOMAIN rec
    /\ \A t \in s.blocked : /\ t \in DOMAIN s.rec /\ Needed(s.rec, t)
                            /\ \E m \in 1 .. n : o[m] = t
    /\ \A b \in before[j] :
           /\ DOMAIN b \subseteq DOMAIN s.rec
           /\ \A t \in DOMAIN b :
                  s.rec[t] # b[t] => Ahead(o, n, t) /\ ledger[j][t].op = "updated"
           /\ \A t \in DOMAIN s.rec \ DOMAIN b : t \in s.blocked \/ Ahead(o, n, t)

LEMMA AheadNext ==
    ASSUME NEW o, NEW n \in Nat, Len(o) \in Nat, NEW t, Ahead(o, n, t), t # o[n + 1]
    PROVE  Ahead(o, n + 1, t)
<1>1. PICK m \in (n + 1) .. Len(o) : o[m] = t
  BY DEF Ahead
<1>2. m # n + 1
  BY <1>1
<1>3. m \in (n + 1 + 1) .. Len(o)
  BY <1>2
<1>. QED  BY <1>1, <1>3 DEF Ahead

\* What an entry of the ledger says of the record it is about.
LEMMA EntryOf ==
    ASSUME FieldInv, NEW j \in Jobs, NEW q, Kept(rec, ids, q, ids), NEW t \in DOMAIN q,
           t \in DOMAIN ledger[j]
    PROVE  /\ ledger[j][t].table = q[t].table
           /\ ledger[j][t].op = "updated" => PrevFits(q, ids, t, ledger[j][t])
           /\ ledger[j][t].op \in {"inserted", "updated"}
<1>1. LedgerFits(rec, ids, ledger[j])
  BY DEF FieldInv
<1>2. LedgerFits(q, ids, ledger[j])
  BY <1>1, LedgerStillFits
<1>. QED  BY <1>2 DEF LedgerFits, EntryFits

\* A previous payload that fits keeps the tables well-formed.
LEMMA RestoreKeeps ==
    ASSUME FieldInv, NEW j \in Jobs, NEW q, TablesInv(q, ids), Kept(rec, ids, q, ids),
           NEW t \in DOMAIN q, t \in DOMAIN ledger[j], ledger[j][t].op = "updated",
           Fits(q, t, ledger[j][t].prev)
    PROVE  /\ TablesInv(Put(q, t, ledger[j][t].prev), ids)
           /\ Kept(q, ids, Put(q, t, ledger[j][t].prev), ids)
<1> DEFINE e == ledger[j][t]
           new == ledger[j][t].prev
<1>1. e.table = q[t].table /\ PrevFits(q, ids, t, e)
  BY EntryOf
<1>2. WellFormed(q) /\ DOMAIN q \subseteq Nat /\ Nil \notin Nat
  BY NilIsNoId DEF TablesInv
<1>3. /\ new.parent \in DOMAIN q \cup {Nil}
      /\ \A k \in (DOMAIN q) \ {t} : ~SameKey(q[k], new)
  BY DEF Fits
<1>. HIDE DEF e, new
<1>4. new.table = q[t].table /\ new.table # "field_subunits"
  BY <1>1 DEF PrevFits, Slots, e, new
<1>5. new.table # "fields" => new.parent = q[t].parent /\ new.half = q[t].half
  <2>1. CASE e.table = "locations"
    <3>1. new.parent = Nil /\ new.half = Nil
      BY <1>1, <2>1 DEF PrevFits, Slots, e, new
    <3>. QED  BY <1>1, <1>2, <2>1, <3>1, Places
  <2>2. CASE e.table \in Slots
    BY <1>1, <2>2 DEF PrevFits, Slots, e, new
  <2>3. CASE e.table = "fields"
    BY <1>1, <1>4, <2>3
  <2>. QED  BY <1>1, <2>1, <2>2, <2>3 DEF PrevFits
<1>6. InPlace(q, new)
  <2>1. CASE new.table = "fields"
    <3>1. /\ new.parent \in 1 .. ids /\ new.half = Nil
          /\ new.parent \in DOMAIN q => q[new.parent].table = "locations"
      BY <1>1, <1>4, <2>1 DEF PrevFits, Slots, e, new
    <3>2. new.parent # Nil
      BY <1>2, <3>1
    <3>. QED  BY <1>3, <2>1, <3>1, <3>2 DEF InPlace
  <2>2. CASE new.table # "fields"
    <3>1. InPlace(q, q[t])
      BY <1>2 DEF WellFormed
    <3>. QED  BY <1>4, <1>5, <2>2, <3>1 DEF InPlace
  <2>. QED  BY <2>1, <2>2
<1>7. TablesInv(Put(q, t, new), ids)
  BY <1>3, <1>4, <1>6, OverwriteKeepsTables
<1>8. Kept(q, ids, Put(q, t, new), ids)
  BY <1>4, <1>5, KeptByOverwrite
<1>. QED  BY <1>7, <1>8 DEF new

\* Undoing an update takes nothing from what a record of the same or a lower
\* level is needed for.
LEMMA NeededAfterRestore ==
    ASSUME NEW r, NEW n, TablesInv(r, n), NEW t \in DOMAIN r, NEW new,
           new.table = r[t].table,
           new.table # "fields" => new.parent = r[t].parent /\ new.half = r[t].half,
           NEW x \in DOMAIN r, LevelOf(r[x].table) <= LevelOf(r[t].table), Needed(r, x)
    PROVE  Needed(Put(r, t, new), x)
<1> DEFINE q == Put(r, t, new)
<1>1. /\ DOMAIN q = DOMAIN r /\ q[t] = new
      /\ \A i \in DOMAIN r : i # t => q[i] = r[i]
      /\ WellFormed(r) /\ DOMAIN r \subseteq Nat /\ Nil \notin Nat
  BY NilIsNoId DEF Put, TablesInv
<1>. HIDE DEF q
<1>2. \A i \in DOMAIN r : q[i].table = r[i].table
  BY <1>1
<1>3. CASE r[x].table \in Slots
  <2>1. x \in inUse
    BY <1>3 DEF Needed
  <2>. QED  BY <1>2, <1>3, <2>1 DEF Needed, q
<1>4. CASE r[x].table \notin Slots
  <2>1. PICK i \in Children(r, {x}) : r[x].table = "fields" => r[i].table \in Slots
    BY <1>4 DEF Needed
  <2>2. i \in DOMAIN r /\ (r[i].parent = x \/ r[i].half = x)
    BY <2>1 DEF Children
  <2>3. q[i].parent = x \/ q[i].half = x
    <3>1. CASE i # t
      BY <1>1, <2>2, <3>1
    <3>2. CASE i = t /\ new.table # "fields"
      BY <1>1, <2>2, <3>2
    <3>3. CASE i = t /\ new.table = "fields"
      <4>1. r[i].table = "fields"
        BY <3>3
      <4>2. r[i].half = Nil /\ r[r[i].parent].table = "locations"
        BY <1>1, <2>2, <4>1, Places
      <4>3. r[i].parent = x
        BY <1>1, <2>2, <4>2
      <4>. QED  BY <3>3, <4>1, <4>2, <4>3 DEF LevelOf
    <3>. QED  BY <3>1, <3>2, <3>3
  <2>4. i \in Children(q, {x})
    BY <1>1, <2>2, <2>3 DEF Children
  <2>. QED  BY <1>2, <1>4, <2>1, <2>2, <2>4 DEF Needed, q
<1>. QED  BY <1>3, <1>4

\* Nor does a delete of what is not needed.
LEMMA NeededAfterDelete ==
    ASSUME NEW r, NEW n, TablesInv(r, n), NEW t \in DOMAIN r, ~Needed(r, t),
           NEW x \in DOMAIN r, LevelOf(r[x].table) <= LevelOf(r[t].table), Needed(r, x)
    PROVE  x \in DOMAIN Without(r, {t}) /\ Needed(Without(r, {t}), x)
<1> DEFINE q == Without(r, {t})
<1>1. q = [i \in (DOMAIN r) \ Below(r, t) |-> r[i]]
  BY DEF Without, Below
<1>. HIDE DEF q
<1>2. /\ DOMAIN q = (DOMAIN r) \ Below(r, t) /\ \A i \in DOMAIN q : q[i] = r[i]
      /\ WellFormed(r) /\ DOMAIN r \subseteq Nat /\ Nil \notin Nat
  BY <1>1, NilIsNoId DEF TablesInv
<1>3. x # t
  OBVIOUS
<1>4. x \notin Below(r, t)
  <2>1. SUFFICES ASSUME x \in Below(r, t) PROVE FALSE
    OBVIOUS
  <2>2. r[x].table = "field_subunits" /\ r[x].parent = t /\ r[t].table = "fields"
    BY <1>3, <2>1, BelowUnneeded
  <2>3. PICK i : i \in Children(r, {x})
    BY <2>2 DEF Needed, Slots
  <2>4. i \in DOMAIN r /\ (r[i].parent = x \/ r[i].half = x)
    BY <2>3 DEF Children
  <2>5. r[i].table \in Slots /\ r[i].half = x
    BY <1>2, <2>2, <2>4, Places DEF Tables, Slots
  <2>6. r[i].parent = t
    BY <1>2, <2>2, <2>4, <2>5, Places
  <2>7. i \in Children(r, {t})
    BY <2>4, <2>6 DEF Children
  <2>. QED  BY <2>2, <2>5, <2>7 DEF Needed, Slots
<1>5. CASE r[x].table \in Slots
  <2>1. x \in inUse
    BY <1>5 DEF Needed
  <2>. QED  BY <1>2, <1>4, <1>5, <2>1 DEF Needed, q
<1>6. CASE r[x].table \notin Slots
  <2>1. PICK i \in Children(r, {x}) : r[x].table = "fields" => r[i].table \in Slots
    BY <1>6 DEF Needed
  <2>2. i \in DOMAIN r /\ (r[i].parent = x \/ r[i].half = x)
    BY <2>1 DEF Children
  <2>3. i # t
    <3>1. SUFFICES ASSUME i = t PROVE FALSE
      OBVIOUS
    <3>2. CASE r[x].table = "field_subunits"
      <4>1. r[t].table \in Slots
        BY <1>2, <2>2, <3>1, <3>2, Places DEF Tables, Slots
      <4>. QED  BY <3>2, <4>1 DEF LevelOf, Slots
    <3>3. CASE r[x].table = "fields"
      <4>1. r[t].table \in Slots
        BY <2>1, <3>1, <3>3
      <4>. QED  BY <3>3, <4>1 DEF LevelOf, Slots
    <3>4. CASE r[x].table = "locations"
      <4>1. r[t].table = "fields"
        BY <1>2, <2>2, <3>1, <3>4, Places DEF Tables, Slots
      <4>. QED  BY <3>4, <4>1 DEF LevelOf
    <3>. QED  BY <1>2, <1>6, <3>2, <3>3, <3>4, Places DEF Tables, Slots
  <2>4. i \notin Below(r, t)
    <3>1. SUFFICES ASSUME i \in Below(r, t) PROVE FALSE
      OBVIOUS
    <3>2. r[i].table = "field_subunits" /\ r[i].parent = t
      BY <2>3, <3>1, BelowUnneeded
    <3>3. r[i].half = Nil
      BY <1>2, <2>2, <3>2, Places
    <3>. QED  BY <1>2, <1>3, <2>2, <3>2, <3>3
  <2>5. i \in Children(q, {x})
    BY <1>2, <2>2, <2>4 DEF Children
  <2>. QED  BY <1>2, <1>4, <1>6, <2>1, <2>2, <2>4, <2>5 DEF Needed, q
<1>. QED  BY <1>5, <1>6

\* One record undone, with nothing raised.
LEMMA UndoKeeps ==
    ASSUME FieldInv, NEW j \in Jobs, NEW o, UpTo(j, o, 5), NEW n \in Nat, n < Len(o),
           NEW s, UndoInv(j, o, n, s),
           ledger[j][o[n + 1]].op = "updated" /\ o[n + 1] \in DOMAIN s.rec
               => Fits(s.rec, o[n + 1], ledger[j][o[n + 1]].prev)
    PROVE  UndoInv(j, o, n + 1, Undo(j, s, o[n + 1]))
<1> DEFINE t == o[n + 1]
           e == ledger[j][t]
           r == s.rec
<1>1. /\ Len(o) \in Nat /\ n + 1 \in 1 .. Len(o) /\ 1 .. n \subseteq 1 .. (n + 1)
      /\ \A m \in 1 .. Len(o) : o[m] \in Live(j)
  <2>1. o \in Seq({x \in Live(j) : Level(j, x) <= 5})
    BY DEF UpTo, Lists
  <2>2. Len(o) \in Nat /\ \A m \in 1 .. Len(o) : o[m] \in {x \in Live(j) : Level(j, x) <= 5}
    BY <2>1
  <2>. QED  BY <2>2
<1>2. t \in Live(j) /\ t \in DOMAIN ledger[j]
  BY <1>1 DEF Live
<1>3. /\ TablesInv(r, ids) /\ Kept(rec, ids, r, ids)
      /\ inUse \subseteq DOMAIN r /\ DOMAIN r \subseteq DOMAIN rec
      /\ WellFormed(r) /\ DOMAIN rec \subseteq 1 .. ids
  BY DEF UndoInv, TablesInv, FieldInv
<1>4. ASSUME NEW x \in s.blocked
      PROVE  /\ x \in DOMAIN r /\ Needed(r, x) /\ \E m \in 1 .. (n + 1) : o[m] = x
             /\ t \in DOMAIN r => LevelOf(r[x].table) <= LevelOf(r[t].table)
  <2>1. x \in DOMAIN r /\ Needed(r, x)
    BY <1>4 DEF UndoInv
  <2>2. PICK m \in 1 .. n : o[m] = x
    BY <1>4 DEF UndoInv
  <2>3. m \in 1 .. Len(o) /\ m < n + 1 /\ m \in 1 .. (n + 1)
    BY <1>1, <2>2
  <2>4. Level(j, x) <= Level(j, t)
    BY <1>1, <2>2, <2>3 DEF UpTo
  <2>5. x \in DOMAIN ledger[j]
    BY <1>1, <2>2, <2>3 DEF Live
  <2>6. t \in DOMAIN r => ledger[j][x].table = r[x].table /\ ledger[j][t].table = r[t].table
    BY <1>2, <1>3, <2>1, <2>5, EntryOf
  <2>. QED  BY <2>1, <2>2, <2>3, <2>4, <2>6 DEF Level
<1>5. ASSUME NEW b \in before[j]
      PROVE  /\ DOMAIN b \subseteq DOMAIN r /\ WellFormed(b) /\ DOMAIN b \subseteq Nat
             /\ \A x \in DOMAIN b : r[x] # b[x] => Ahead(o, n, x) /\ ledger[j][x].op = "updated"
             /\ \A x \in DOMAIN r \ DOMAIN b : x \in s.blocked \/ Ahead(o, n, x)
             /\ IF e.op = "updated" THEN t \in DOMAIN b /\ e.prev = b[t] ELSE t \notin DOMAIN b
  <2>1. Undoes(ledger[j], rec, b)
    BY <1>5 DEF FieldInv
  <2>2. t \in LiveIn(ledger[j])
    BY <1>2 DEF Live, LiveIn
  <2>3. IF e.op = "updated" THEN t \in DOMAIN b /\ e.prev = b[t] ELSE t \notin DOMAIN b
    BY <2>1, <2>2 DEF Undoes
  <2>4. WellFormed(b) /\ DOMAIN b \subseteq DOMAIN rec
    BY <2>1 DEF Undoes
  <2>5. DOMAIN b \subseteq Nat
    BY <1>3, <2>4
  <2>6. /\ DOMAIN b \subseteq DOMAIN r
        /\ \A x \in DOMAIN b : r[x] # b[x] => Ahead(o, n, x) /\ ledger[j][x].op = "updated"
        /\ \A x \in DOMAIN r \ DOMAIN b : x \in s.blocked \/ Ahead(o, n, x)
    BY <1>5 DEF UndoInv
  <2>. QED  BY <2>3, <2>4, <2>5, <2>6
<1>6. \A x : Ahead(o, n, x) /\ x # t => Ahead(o, n + 1, x)
  BY <1>1, AheadNext
<1>. HIDE DEF t, e, r
<1>7. CASE t \notin DOMAIN r
  <2>1. Undo(j, s, t) = s
    BY <1>7 DEF Undo, r
  <2>2. ASSUME NEW b \in before[j]
        PROVE  /\ DOMAIN b \subseteq DOMAIN r
               /\ \A x \in DOMAIN b : r[x] # b[x] => /\ Ahead(o, n + 1, x)
                                                     /\ ledger[j][x].op = "updated"
               /\ \A x \in DOMAIN r \ DOMAIN b : x \in s.blocked \/ Ahead(o, n + 1, x)
    BY <1>5, <1>6, <1>7
  <2>3. UndoInv(j, o, n + 1, s)
    BY <1>3, <1>4, <2>2 DEF UndoInv, r
  <2>. QED  BY <2>1, <2>3 DEF t
<1>8. CASE t \in DOMAIN r /\ e.op = "updated"
  <2> DEFINE q == Put(r, t, e.prev)
             u == Undo(j, s, t)
  <2>1. u.rec = q /\ u.blocked = s.blocked
    BY <1>8 DEF Undo, r, e
  <2>2. Fits(r, t, e.prev)
    BY <1>8 DEF r, e, t
  <2>3. TablesInv(q, ids) /\ Kept(r, ids, q, ids)
    BY <1>2, <1>3, <1>8, <2>2, RestoreKeeps DEF e
  <2>4. Kept(rec, ids, q, ids)
    <3>. HIDE DEF q
    <3>. QED  BY <1>3, <2>3, KeptTwice
  <2>5. DOMAIN q = DOMAIN r /\ q[t] = e.prev /\ \A x \in DOMAIN r : x # t => q[x] = r[x]
    BY <1>8 DEF Put
  <2>6. ASSUME NEW x \in s.blocked PROVE Needed(q, x)
    <3>1. /\ q[t].table = r[t].table
          /\ r[t].table # "fields" => q[t].parent = r[t].parent /\ q[t].half = r[t].half
      <4>. HIDE DEF q
      <4>. QED  BY <1>8, <2>3, <2>5 DEF Kept
    <3>2. /\ e.prev.table = r[t].table
          /\ e.prev.table # "fields" => e.prev.parent = r[t].parent /\ e.prev.half = r[t].half
      <4>. HIDE DEF q
      <4>. QED  BY <2>5, <3>1
    <3>3. x \in DOMAIN r /\ Needed(r, x) /\ LevelOf(r[x].table) <= LevelOf(r[t].table)
      BY <1>4, <1>8
    <3>. QED  BY <1>3, <1>8, <3>2, <3>3, NeededAfterRestore
  <2>7. ASSUME NEW b \in before[j]
        PROVE  /\ DOMAIN b \subseteq DOMAIN q
               /\ \A x \in DOMAIN b : q[x] # b[x] => /\ Ahead(o, n + 1, x)
                                                     /\ ledger[j][x].op = "updated"
               /\ \A x \in DOMAIN q \ DOMAIN b : x \in s.blocked \/ Ahead(o, n + 1, x)
    <3>. HIDE DEF q
    <3>. QED  BY <1>5, <1>6, <1>8, <2>5
  <2>8. UndoInv(j, o, n + 1, u)
    <3>. HIDE DEF q, u
    <3>1. inUse \subseteq DOMAIN q /\ DOMAIN q \subseteq DOMAIN rec
      BY <1>3, <2>5
    <3>2. \A x \in s.blocked : x \in DOMAIN q /\ Needed(q, x) /\ \E m \in 1 .. (n + 1) : o[m] = x
      BY <1>4, <2>5, <2>6
    <3>. QED  BY <2>1, <2>3, <2>4, <2>7, <3>1, <3>2 DEF UndoInv
  <2>. QED  BY <2>8 DEF t
<1>9. CASE t \in DOMAIN r /\ e.op # "updated" /\ Needed(r, t)
  <2> DEFINE u == Undo(j, s, t)
  <2>1. u.rec = r /\ u.blocked = s.blocked \cup {t}
    BY <1>9 DEF Undo, r, e
  <2>2. \A x \in u.blocked : /\ x \in DOMAIN r /\ Needed(r, x)
                             /\ \E m \in 1 .. (n + 1) : o[m] = x
    <3>1. \E m \in 1 .. (n + 1) : o[m] = t
      BY <1>1 DEF t
    <3>. HIDE DEF u
    <3>. QED  BY <1>4, <1>9, <2>1, <3>1
  <2>3. ASSUME NEW b \in before[j]
        PROVE  /\ DOMAIN b \subseteq DOMAIN r
               /\ \A x \in DOMAIN b : r[x] # b[x] => /\ Ahead(o, n + 1, x)
                                                     /\ ledger[j][x].op = "updated"
               /\ \A x \in DOMAIN r \ DOMAIN b : x \in u.blocked \/ Ahead(o, n + 1, x)
    <3>. HIDE DEF u
    <3>. QED  BY <1>5, <1>6, <1>9, <2>1
  <2>4. UndoInv(j, o, n + 1, u)
    <3>. HIDE DEF u
    <3>. QED  BY <1>3, <2>1, <2>2, <2>3 DEF UndoInv
  <2>. QED  BY <2>4 DEF t
<1>10. CASE t \in DOMAIN r /\ e.op # "updated" /\ ~Needed(r, t)
  <2> DEFINE q == Without(r, {t})
             u == Undo(j, s, t)
  <2>1. u.rec = q /\ u.blocked = s.blocked
    BY <1>10 DEF Undo, r, e
  <2>2. TablesInv(q, ids) /\ Kept(r, ids, q, ids)
    BY <1>3, <1>10, DeleteKeepsTables, KeptByDelete
  <2>3. Kept(rec, ids, q, ids)
    <3>. HIDE DEF q
    <3>. QED  BY <1>3, <2>2, KeptTwice
  <2>4. q = [i \in (DOMAIN r) \ Below(r, t) |-> r[i]]
    BY DEF Without, Below
  <2>. HIDE DEF q
  <2>5. DOMAIN q = (DOMAIN r) \ Below(r, t) /\ \A i \in DOMAIN q : q[i] = r[i]
    BY <2>4
  <2>6. t \notin DOMAIN q
    BY <2>5 DEF Below
  <2>7. ASSUME NEW x \in Below(r, t), x # t
        PROVE  x \in DOMAIN r /\ r[x].table = "field_subunits" /\ r[x].parent = t
    BY <1>3, <1>10, <2>7, BelowUnneeded
  <2>8. inUse \subseteq DOMAIN q /\ DOMAIN q \subseteq DOMAIN rec
    <3>1. ASSUME NEW i \in inUse PROVE i \notin Below(r, t)
      <4>1. i \in DOMAIN rec /\ i \in DOMAIN r /\ rec[i].table \in Slots
        BY <1>3 DEF FieldInv, InUseOf
      <4>2. r[i].table \in Slots
        BY <1>3, <4>1 DEF Kept
      <4>3. i # t
        BY <1>10, <4>2 DEF Needed
      <4>. QED  BY <2>7, <4>2, <4>3 DEF Slots
    <3>. QED  BY <1>3, <2>5, <3>1
  <2>9. ASSUME NEW x \in s.blocked PROVE x \in DOMAIN q /\ Needed(q, x)
    <3>1. x \in DOMAIN r /\ Needed(r, x) /\ LevelOf(r[x].table) <= LevelOf(r[t].table)
      BY <1>4, <1>10
    <3>. QED  BY <1>3, <1>10, <3>1, NeededAfterDelete DEF q
  <2>10. ASSUME NEW b \in before[j]
        PROVE  /\ DOMAIN b \subseteq DOMAIN q
               /\ \A x \in DOMAIN b : q[x] # b[x] => /\ Ahead(o, n + 1, x)
                                                     /\ ledger[j][x].op = "updated"
               /\ \A x \in DOMAIN q \ DOMAIN b : x \in s.blocked \/ Ahead(o, n + 1, x)
    <3>1. t \notin DOMAIN b
      BY <1>5, <1>10
    <3>2. ASSUME NEW x \in DOMAIN b PROVE x \notin Below(r, t)
      <4>1. SUFFICES ASSUME x \in Below(r, t) PROVE FALSE
        OBVIOUS
      <4>2. x # t /\ x \in DOMAIN r
        BY <1>5, <3>1
      <4>3. r[x].table = "field_subunits" /\ r[x].parent = t
        BY <2>7, <4>1, <4>2
      <4>4. r[x] = b[x]
        <5>1. SUFFICES ASSUME r[x] # b[x] PROVE FALSE
          OBVIOUS
        <5>2. Ahead(o, n, x) /\ ledger[j][x].op = "updated"
          BY <1>5, <5>1
        <5>3. PICK m \in (n + 1) .. Len(o) : o[m] = x
          BY <5>2 DEF Ahead
        <5>4. m \in 1 .. Len(o)
          BY <5>3
        <5>5. x \in DOMAIN ledger[j]
          BY <1>1, <5>3, <5>4 DEF Live
        <5>6. PrevFits(r, ids, x, ledger[j][x]) /\ ledger[j][x].table = r[x].table
          BY <1>3, <4>2, <5>2, <5>5, EntryOf
        <5>. QED  BY <4>3, <5>6 DEF PrevFits, Slots
      <4>5. b[x].parent \in DOMAIN b
        BY <1>5, <4>3, <4>4, Places
      <4>. QED  BY <3>1, <4>3, <4>4, <4>5
    <3>. QED  BY <1>5, <1>6, <2>5, <2>6, <3>1, <3>2
  <2>11. UndoInv(j, o, n + 1, u)
    <3>. HIDE DEF u
    <3>1. \A x \in s.blocked : x \in DOMAIN q /\ Needed(q, x) /\ \E m \in 1 .. (n + 1) : o[m] = x
      BY <1>4, <2>9
    <3>. QED  BY <2>1, <2>2, <2>3, <2>8, <2>10, <3>1 DEF UndoInv
  <2>. QED  BY <2>11 DEF t
<1>. QED  BY <1>7, <1>8, <1>9, <1>10

-----------------------------------------------------------------------------
(* Roll back: the loop over the records.                                    *)

Untouched == [rec |-> rec, blocked |-> {}, ok |-> TRUE]

\* f is the state of the rollback's loop after each of the first m records.
IsUndoing(f, j, o, m) ==
    f = [n \in 0 .. m |-> IF n = 0 THEN Untouched ELSE Undo(j, f[n - 1], o[n])]

LEMMA UndoingExists ==
    ASSUME NEW j, NEW o, NEW m \in Nat
    PROVE  \E f : IsUndoing(f, j, o, m)
<1> DEFINE T == {k \in Nat : ~\E f : IsUndoing(f, j, o, k)}
<1>1. SUFFICES ASSUME T # {} PROVE FALSE
  OBVIOUS
<1>2. T \subseteq Nat
  OBVIOUS
<1>3. PICK k \in T : \A y \in T : k <= y
  <2>. HIDE DEF T
  <2>. QED  BY <1>1, <1>2, LeastNumber
<1>4. CASE k = 0
  <2> DEFINE f == [n \in 0 .. 0 |-> Untouched]
  <2>1. IsUndoing(f, j, o, 0)
    BY DEF IsUndoing
  <2>. QED  BY <1>3, <1>4, <2>1
<1>5. CASE k # 0
  <2>1. k \in Nat /\ k - 1 \in Nat /\ k - 1 \notin T
    BY <1>3, <1>5
  <2>2. PICK f : IsUndoing(f, j, o, k - 1)
    BY <2>1
  <2> DEFINE g == [n \in 0 .. k |-> IF n = 0 THEN Untouched ELSE Undo(j, f[n - 1], o[n])]
  <2>3. \A n \in 0 .. k - 1 : g[n] = f[n]
    <3>1. \A n \in 0 .. k - 1 : f[n] = IF n = 0 THEN Untouched ELSE Undo(j, f[n - 1], o[n])
      BY <2>2 DEF IsUndoing
    <3>2. 0 .. k - 1 \subseteq 0 .. k
      BY <2>1
    <3>. QED  BY <3>1, <3>2
  <2>4. g = [n \in 0 .. k |-> IF n = 0 THEN Untouched ELSE Undo(j, g[n - 1], o[n])]
    <3>1. \A n \in 0 .. k : n # 0 => n - 1 \in 0 .. k - 1
      BY <2>1
    <3>2. \A n \in 0 .. k : n # 0 => g[n - 1] = f[n - 1]
      <4>. HIDE DEF g
      <4>. QED  BY <2>3, <3>1
    <3>. QED  BY <3>2
  <2>5. IsUndoing(g, j, o, k)
    <3>. HIDE DEF g
    <3>. QED  BY <2>4 DEF IsUndoing
  <2>. QED  BY <1>3, <2>5
<1>. QED  BY <1>4, <1>5

LEMMA UndoingUnfolds ==
    ASSUME NEW j, NEW o, Len(o) \in Nat
    PROVE  \E f : IsUndoing(f, j, o, Len(o)) /\ UndoAll(j, o) = f[Len(o)]
<1> DEFINE f == CHOOSE g : IsUndoing(g, j, o, Len(o))
<1>1. IsUndoing(f, j, o, Len(o))
  BY UndoingExists
<1>2. UndoAll(j, o) = f[Len(o)]
  BY DEF UndoAll, IsUndoing, Untouched
<1>. QED  BY <1>1, <1>2

LEMMA UndoAllKeeps ==
    ASSUME FieldInv, NEW j \in Jobs, NEW o, UpTo(j, o, 5), UndoAll(j, o).ok
    PROVE  Len(o) \in Nat /\ UndoInv(j, o, Len(o), UndoAll(j, o))
<1> DEFINE k == Len(o)
<1>1. k \in Nat /\ o \in Seq(Live(j)) /\ \A t \in Live(j) : \E m \in 1 .. k : o[m] = t
  <2>1. \A t \in Live(j) : Level(j, t) <= 5
    <3>1. \A t \in Live(j) : ledger[j][t].table \in Tables
      BY DEF FieldInv, LedgerFits, EntryFits, Live
    <3>. QED  BY <3>1 DEF Tables, Level, LevelOf
  <2>2. {t \in Live(j) : Level(j, t) <= 5} = Live(j)
    BY <2>1
  <2>3. Lists(o, Live(j))
    BY <2>2 DEF UpTo
  <2>. QED  BY <2>3 DEF Lists
<1>2. PICK f : IsUndoing(f, j, o, k) /\ UndoAll(j, o) = f[k]
  BY <1>1, UndoingUnfolds
<1>. HIDE DEF k
<1>3. f[0] = Untouched /\ \A n \in 0 .. k : n # 0 => f[n] = Undo(j, f[n - 1], o[n])
  <2>1. f = [n \in 0 .. k |-> IF n = 0 THEN Untouched ELSE Undo(j, f[n - 1], o[n])]
    BY <1>2 DEF IsUndoing
  <2>2. 0 \in 0 .. k
    BY <1>1
  <2>. QED  BY <2>1, <2>2
<1>4. UndoInv(j, o, 0, Untouched)
  <2>1. Kept(rec, ids, rec, ids)
    BY DEF FieldInv, TablesInv, Kept
  <2>2. \A t \in Live(j) : Ahead(o, 0, t)
    BY <1>1 DEF Ahead, k
  <2>3. ASSUME NEW b \in before[j]
        PROVE  /\ DOMAIN b \subseteq DOMAIN rec
               /\ \A t \in DOMAIN b : rec[t] # b[t] => /\ Ahead(o, 0, t)
                                                       /\ ledger[j][t].op = "updated"
               /\ \A t \in DOMAIN rec \ DOMAIN b : Ahead(o, 0, t)
    <3>1. Undoes(ledger[j], rec, b)
      BY <2>3 DEF FieldInv
    <3>. QED  BY <2>2, <3>1 DEF Undoes, LiveIn, Live
  <2>. QED  BY <2>1, <2>3 DEF UndoInv, Untouched, FieldInv, InUseOf
<1> DEFINE T == {n \in 0 .. k : f[n].ok /\ ~UndoInv(j, o, n, f[n])}
<1>5. SUFFICES ASSUME T # {} PROVE FALSE
  <2>1. k \in 0 .. k
    BY <1>1
  <2>2. UndoInv(j, o, k, f[k])
    BY <1>2, <1>5, <2>1
  <2>. QED  BY <1>1, <1>2, <2>2 DEF k
<1>6. T \subseteq Nat
  BY <1>1
<1>7. PICK n \in T : \A y \in T : n <= y
  <2>. HIDE DEF T
  <2>. QED  BY <1>5, <1>6, LeastNumber
<1>8. n # 0
  BY <1>3, <1>4, <1>7
<1> DEFINE p == n - 1
<1>9. p \in Nat /\ p \in 0 .. k /\ p < k /\ p + 1 = n /\ ~(n <= p)
  BY <1>1, <1>7, <1>8
<1>10. f[n] = Undo(j, f[p], o[n])
  BY <1>3, <1>7, <1>8
<1>11. f[n].ok
  BY <1>7
<1>12. /\ f[p].ok
       /\ ledger[j][o[n]].op = "updated" /\ o[n] \in DOMAIN f[p].rec
              => Fits(f[p].rec, o[n], ledger[j][o[n]].prev)
  <2>. HIDE DEF p
  <2>1. CASE o[n] \notin DOMAIN f[p].rec
    BY <1>10, <1>11, <2>1 DEF Undo
  <2>2. CASE o[n] \in DOMAIN f[p].rec /\ ledger[j][o[n]].op = "updated"
    <3> DEFINE old == ledger[j][o[n]].prev
               c == f[p].ok /\ Fits(f[p].rec, o[n], old)
    <3>1. f[n] = [rec |-> Put(f[p].rec, o[n], old), blocked |-> f[p].blocked, ok |-> c]
      BY <1>10, <2>2 DEF Undo
    <3>2. f[n].ok = c
      <4>. HIDE DEF c
      <4>. QED  BY <3>1
    <3>3. c
      <4>. HIDE DEF c
      <4>. QED  BY <1>11, <3>2
    <3>. QED  BY <3>3
  <2>3. CASE o[n] \in DOMAIN f[p].rec /\ ledger[j][o[n]].op # "updated"
    BY <1>10, <1>11, <2>3 DEF Undo
  <2>. QED  BY <2>1, <2>2, <2>3
<1>13. UndoInv(j, o, p, f[p])
  BY <1>7, <1>9, <1>12
<1>14. UndoInv(j, o, n, f[n])
  <2>. HIDE DEF p
  <2>1. UndoInv(j, o, p + 1, Undo(j, f[p], o[p + 1]))
    BY <1>9, <1>12, <1>13, UndoKeeps DEF k
  <2>. QED  BY <1>9, <1>10, <2>1
<1>. QED  BY <1>7, <1>14

-----------------------------------------------------------------------------
(* The invariant.                                                           *)

LEMMA InitFits == Init => FieldInv
<1>1. SUFFICES ASSUME Init PROVE FieldInv
  OBVIOUS
<1>2. PICK n \in 0 .. MaxId : rec = [i \in 1 .. n |-> rec[i]] /\ WellFormed(rec)
  BY <1>1, FieldAssumption DEF Init
<1>3. DOMAIN rec = 1 .. n /\ n \in Nat /\ n <= MaxId /\ IsFcn(rec)
  BY <1>2, FieldAssumption DEF IsFcn
<1>4. Cardinality(1 .. n) = n
  <2>1. Cardinality(1 .. n) = IF 1 > n THEN 0 ELSE n - 1 + 1
    BY <1>3, FS_Interval
  <2>. QED  BY <1>3, <2>1
<1>5. ids = n
  BY <1>1, <1>3, <1>4 DEF Init
<1>6. TablesInv(rec, ids) /\ ids <= MaxId
  BY <1>2, <1>3, <1>5 DEF TablesInv
<1>7. ASSUME NEW j \in Jobs PROVE LedgerFits(rec, ids, ledger[j]) /\ DOMAIN ledger[j] = {}
  <2>1. DOMAIN ledger[j] = {}
    BY <1>1 DEF Init
  <2>. QED  BY <2>1 DEF LedgerFits
<1>. QED  BY <1>1, <1>6, <1>7 DEF Init, FieldInv

\* A step that leaves the jobs and their ledgers alone.
LEMMA TablesStep ==
    ASSUME FieldInv, UNCHANGED <<jobVars, ledgerVars>>,
           TablesInv(rec', ids'), ids' <= MaxId, inUse' \subseteq InUseOf(rec'),
           Kept(rec, ids, rec', ids'),
           before' = Forgotten \/ (before' = before /\ rec' = rec)
    PROVE  FieldInv'
<1>1. /\ DOMAIN ledger' = Jobs /\ DOMAIN status' = Jobs
      /\ kind' \in [Jobs -> {"fields", "absent"}]
      /\ \A j \in Jobs : status'[j] = "absent" => DOMAIN ledger'[j] = {}
      /\ \A j \in Jobs : kind'[j] = "absent" => status'[j] = "absent"
  BY DEF FieldInv, jobVars, ledgerVars
<1>2. \A j \in Jobs : LedgerFits(rec', ids', ledger'[j])
  BY LedgerStillFits DEF FieldInv, ledgerVars
<1>3. DOMAIN before' = Jobs /\ \A j \in Jobs : \A b \in before'[j] : Undoes(ledger'[j], rec', b)
  <2>1. CASE before' = Forgotten
    BY <2>1 DEF Forgotten
  <2>2. CASE before' = before /\ rec' = rec
    BY <2>2 DEF FieldInv, ledgerVars
  <2>. QED  BY <2>1, <2>2
<1>. QED  BY <1>1, <1>2, <1>3 DEF FieldInv

LEMMA CreatedKeeps ==
    ASSUME FieldInv, NEW new, InPlace(rec, new), Created(new)
    PROVE  FieldInv'
<1>1. /\ TablesInv(rec, ids) /\ ids \in Nat /\ ids + 1 <= MaxId
      /\ ids + 1 \notin DOMAIN rec /\ \A k \in DOMAIN rec : ~SameKey(rec[k], new)
  <2>1. ids \in Nat /\ DOMAIN rec \subseteq 1 .. ids /\ TablesInv(rec, ids)
    BY DEF FieldInv, TablesInv
  <2>2. ids + 1 \notin DOMAIN rec
    BY <2>1
  <2>. QED  BY <2>1, <2>2, FieldAssumption DEF Created, Fits
<1>2. rec' = Put(rec, ids + 1, new) /\ ids' = ids + 1
  BY DEF Created
<1>3. TablesInv(rec', ids') /\ Kept(rec, ids, rec', ids')
  BY <1>1, <1>2, InsertKeepsTables, KeptByInsert
<1>4. inUse' \subseteq InUseOf(rec')
  <2>1. \A i \in InUseOf(rec) : i \in InUseOf(rec')
    BY <1>1, <1>2 DEF InUseOf, Put
  <2>. QED  BY <2>1 DEF Created, FieldInv
<1>. QED  BY <1>1, <1>2, <1>3, <1>4, TablesStep DEF Created

LEMMA AdminKeeps ==
    ASSUME FieldInv, AdminStep
    PROVE  FieldInv'
<1>1. TablesInv(rec, ids) /\ ids <= MaxId /\ inUse \subseteq InUseOf(rec)
  BY DEF FieldInv
<1>2. ASSUME NEW name \in Names, CreateLocation(name) PROVE FieldInv'
  <2> DEFINE new == Edited("locations", Nil, name)
  <2>1. InPlace(rec, new) /\ Created(new)
    BY <1>2 DEF InPlace, Edited, CreateLocation
  <2>. QED  BY <2>1, CreatedKeeps
<1>3. ASSUME NEW place \in Of("locations"), NEW name \in Names, CreateField(place, name)
      PROVE  FieldInv'
  <2> DEFINE new == Edited("fields", place, name)
  <2>1. InPlace(rec, new) /\ Created(new)
    BY <1>3 DEF InPlace, Edited, CreateField, Of
  <2>. QED  BY <2>1, CreatedKeeps
<1>4. ASSUME NEW f \in Of("fields"), NEW place \in Of("locations"), NEW name \in Names,
             UpdateField(f, place, name)
      PROVE  FieldInv'
  <2> DEFINE new == Edited("fields", place, name)
  <2>1. InPlace(rec, new) /\ new.table = "fields" /\ f \in DOMAIN rec /\ rec[f].table = "fields"
    BY DEF InPlace, Edited, Of
  <2>2. /\ rec' = Put(rec, f, new) /\ ids' = ids /\ inUse' = inUse /\ before' = Forgotten
        /\ UNCHANGED <<jobVars, ledgerVars>>
        /\ \A k \in (DOMAIN rec) \ {f} : ~SameKey(rec[k], new)
    BY <1>4 DEF UpdateField, Fits
  <2>. HIDE DEF new
  <2>3. TablesInv(rec', ids') /\ Kept(rec, ids, rec', ids')
    BY <1>1, <2>1, <2>2, OverwriteKeepsTables, KeptByOverwrite
  <2>4. inUse' \subseteq InUseOf(rec')
    <3>1. \A i \in InUseOf(rec) : i \in InUseOf(rec')
      BY <2>1, <2>2 DEF InUseOf, Put
    <3>. QED  BY <1>1, <2>2, <3>1
  <2>. QED  BY <1>1, <2>2, <2>3, <2>4, TablesStep
<1>5. ASSUME NEW f \in Of("fields"), DeleteField(f) PROVE FieldInv'
  <2>1. /\ rec' = Without(rec, {f}) /\ ids' = ids /\ inUse' = inUse \cap DOMAIN rec'
        /\ before' = Forgotten /\ UNCHANGED <<jobVars, ledgerVars>>
    BY <1>5 DEF DeleteField
  <2>2. TablesInv(rec', ids') /\ Kept(rec, ids, rec', ids')
    BY <1>1, <2>1, DeleteKeepsTables, KeptByDelete DEF Of
  <2>3. DOMAIN rec' \subseteq DOMAIN rec /\ \A i \in DOMAIN rec' : rec'[i] = rec[i]
    BY <2>1 DEF Without
  <2>4. inUse' \subseteq InUseOf(rec')
    BY <1>1, <2>1, <2>3 DEF InUseOf
  <2>. QED  BY <1>1, <2>1, <2>2, <2>4, TablesStep
<1>6. ASSUME UNCHANGED <<jobVars, ledgerVars, rec, ids, before>>, inUse' \subseteq InUseOf(rec)
      PROVE  FieldInv'
  <2>1. Kept(rec, ids, rec, ids)
    BY <1>1 DEF TablesInv, Kept
  <2>. QED  BY <1>1, <1>6, <2>1, TablesStep
<1>7. ASSUME NEW s \in UNION {Of(t) : t \in Slots} \ inUse, AssignSlot(s) PROVE FieldInv'
  <2>1. s \in InUseOf(rec)
    BY DEF Of, InUseOf
  <2>. QED  BY <1>1, <1>6, <1>7, <2>1 DEF AssignSlot
<1>8. ASSUME NEW s \in inUse, FreeSlot(s) PROVE FieldInv'
  BY <1>1, <1>6, <1>8 DEF FreeSlot
<1>. QED  BY <1>2, <1>3, <1>4, <1>5, <1>7, <1>8 DEF AdminStep

\* What an application does to the job's ledger, apart from the tables.
LEMMA FinalizeFacts ==
    ASSUME FieldInv, NEW j \in Jobs, NEW errors, FinalizeFields(j, errors)
    PROVE  LoopInv(j, before'[j], Outcome(j))
<1>1. before' = [OnlyWriter(j) EXCEPT ![j] = IF ledger[j] = <<>> THEN {rec}
                                             ELSE IF Undone(j) = {} THEN @ ELSE {}]
  BY DEF FinalizeFields
<1>2. before'[j] = IF ledger[j] = <<>> THEN {rec}
                   ELSE IF Undone(j) = {} THEN before[j] ELSE {}
  BY <1>1 DEF OnlyWriter
<1>3. Undoable(j, before'[j])
  <2>1. CASE ledger[j] = <<>>
    <3>1. DOMAIN ledger[j] = {} /\ before'[j] = {rec}
      BY <1>2, <2>1
    <3>2. WellFormed(rec) /\ IsFcn(rec)
      BY DEF FieldInv, TablesInv
    <3>. QED  BY <3>1, <3>2 DEF Undoable, Undoes, LiveIn
  <2>2. CASE ledger[j] # <<>> /\ Undone(j) = {}
    <3>1. before'[j] = before[j]
      BY <1>2, <2>2
    <3>2. DOMAIN ledger[j] = LiveIn(ledger[j])
      BY <2>2 DEF Undone, Live, LiveIn
    <3>. QED  BY <3>1, <3>2 DEF Undoable, FieldInv
  <2>3. CASE ledger[j] # <<>> /\ Undone(j) # {}
    BY <1>2, <2>3 DEF Undoable
  <2>. QED  BY <2>1, <2>2, <2>3
<1>. QED  BY <1>3, OutcomeKeeps

LEMMA FinalizeKeeps ==
    ASSUME FieldInv, NEW j \in Jobs, NEW errors, FinalizeFields(j, errors)
    PROVE  FieldInv'
<1> DEFINE o == Outcome(j)
<1>1. LoopInv(j, before'[j], o)
  BY FinalizeFacts
<1>2. /\ o.ids <= MaxId /\ rec' = o.rec /\ ids' = o.ids
      /\ ledger' = [ledger EXCEPT ![j] = o.ledger]
      /\ kind' = kind /\ inUse' = inUse
  BY DEF FinalizeFields
<1>3. /\ DOMAIN before' = Jobs
      /\ \A i \in Jobs : i # j => before'[i] = {}
  BY DEF FinalizeFields, OnlyWriter
<1>4. /\ DOMAIN status' = Jobs /\ status[j] # "absent"
      /\ \A i \in Jobs : i # j => status'[i] = status[i]
      /\ status'[j] # "absent"
  BY DEF FinalizeFields, FieldInv
<1>. HIDE DEF o
<1>5. /\ DOMAIN ledger' = Jobs /\ ledger'[j] = o.ledger
      /\ \A i \in Jobs : i # j => ledger'[i] = ledger[i]
  BY <1>2 DEF FieldInv
<1>6. /\ TablesInv(rec', ids') /\ Kept(rec, ids, rec', ids') /\ DOMAIN rec \subseteq DOMAIN rec'
      /\ LedgerFits(rec', ids', ledger'[j])
      /\ \A b \in before'[j] : Undoes(ledger'[j], rec', b)
  BY <1>1, <1>2, <1>5 DEF LoopInv
<1>7. inUse' \subseteq InUseOf(rec')
  <2>1. \A i \in InUseOf(rec) : i \in InUseOf(rec')
    BY <1>6 DEF InUseOf, Kept
  <2>. QED  BY <1>2, <2>1 DEF FieldInv
<1>8. \A i \in Jobs : LedgerFits(rec', ids', ledger'[i])
  BY <1>5, <1>6, LedgerStillFits DEF FieldInv
<1>9. \A i \in Jobs : status'[i] = "absent" => DOMAIN ledger'[i] = {}
  BY <1>4, <1>5 DEF FieldInv
<1>10. \A i \in Jobs : \A b \in before'[i] : Undoes(ledger'[i], rec', b)
  BY <1>3, <1>6
<1>11. /\ kind' \in [Jobs -> {"fields", "absent"}] /\ ids' <= MaxId
       /\ \A i \in Jobs : kind'[i] = "absent" => status'[i] = "absent"
  BY <1>2, <1>4 DEF FieldInv
<1>. QED  BY <1>3, <1>4, <1>5, <1>6, <1>7, <1>8, <1>9, <1>10, <1>11 DEF FieldInv

\* What is left when the last record has been seen.
Settled(j, u) ==
    /\ TablesInv(u.rec, ids) /\ Kept(rec, ids, u.rec, ids)
    /\ inUse \subseteq DOMAIN u.rec /\ DOMAIN u.rec \subseteq DOMAIN rec
    /\ u.blocked \subseteq Live(j) \cap DOMAIN u.rec
    /\ \A t \in u.blocked : Needed(u.rec, t)
    /\ \A b \in before[j] :
           /\ DOMAIN b \subseteq DOMAIN u.rec
           /\ \A t \in DOMAIN b : u.rec[t] = b[t]
           /\ DOMAIN u.rec \ DOMAIN b \subseteq u.blocked

LEMMA UndoAllFacts ==
    ASSUME FieldInv, NEW j \in Jobs, NEW fields \in SetToSeqs(LiveOf(j, "fields")),
           UndoAll(j, UndoOrder(j, fields)).ok
    PROVE  Settled(j, UndoAll(j, UndoOrder(j, fields)))
<1> DEFINE o == UndoOrder(j, fields)
           u == UndoAll(j, o)
<1>1. UpTo(j, o, 5)
  BY OrderFacts
<1>. HIDE DEF o
<1>2. Len(o) \in Nat /\ UndoInv(j, o, Len(o), u)
  BY <1>1, UndoAllKeeps DEF o
<1>. HIDE DEF u
<1>3. \A t : ~Ahead(o, Len(o), t)
  BY <1>2 DEF Ahead
<1>4. \A m \in 1 .. Len(o) : o[m] \in Live(j)
  <2>1. o \in Seq({t \in Live(j) : Level(j, t) <= 5})
    BY <1>1 DEF UpTo, Lists
  <2>2. \A m \in 1 .. Len(o) : o[m] \in {t \in Live(j) : Level(j, t) <= 5}
    BY <2>1
  <2>. QED  BY <2>2
<1>5. u.blocked \subseteq Live(j) \cap DOMAIN u.rec /\ \A t \in u.blocked : Needed(u.rec, t)
  BY <1>2, <1>4 DEF UndoInv
<1>6. Settled(j, u)
  BY <1>2, <1>3, <1>5 DEF UndoInv, Settled
<1>. QED  BY <1>6 DEF u, o

LEMMA EntryRelived ==
    ASSUME NEW q, NEW n, NEW t, NEW e, EntryFits(q, n, t, e), NEW l \in BOOLEAN,
           NEW d, d = [e EXCEPT !.live = l]
    PROVE  EntryFits(q, n, t, d) /\ d.live = l /\ d.op = e.op /\ d.prev = e.prev
<1>1. e = [op |-> e.op, table |-> e.table, prev |-> e.prev, live |-> e.live]
  BY DEF EntryFits
<1>2. d = [op |-> e.op, table |-> e.table, prev |-> e.prev, live |-> l]
  BY <1>1
<1>3. d.op = e.op /\ d.table = e.table /\ d.prev = e.prev /\ d.live = l
  BY <1>2
<1>4. EntryFits(q, n, t, d)
  BY <1>2, <1>3 DEF EntryFits, PrevFits
<1>. QED  BY <1>3, <1>4

\* A step that rolls job j back, with what the loop came to.
RolledBack(j, u) ==
    /\ Settled(j, u)
    /\ rec' = u.rec /\ inUse' = inUse /\ ids' = ids
    /\ Live(j)' = u.blocked /\ DOMAIN ledger'[j] = DOMAIN ledger[j]
    /\ DOMAIN ledger' = Jobs /\ \A i \in Jobs \ {j} : ledger'[i] = ledger[i]
    /\ LedgerFits(rec', ids', ledger'[j])
    /\ \A t \in DOMAIN ledger[j] : /\ ledger'[j][t].op = ledger[j][t].op
                                   /\ ledger'[j][t].prev = ledger[j][t].prev
    /\ written' = [written EXCEPT ![j] = @ \ (Live(j) \ u.blocked)]
    /\ status' = [status EXCEPT ![j] =
                     IF u.blocked # {} THEN "completed_with_warnings" ELSE "needs_fix"]
    /\ before' = IF u.blocked = {} THEN Forgotten ELSE OnlyWriter(j)

LEMMA RollbackFacts ==
    ASSUME FieldInv, NEW j \in Jobs, RollbackFields(j)
    PROVE  \E u : RolledBack(j, u)
<1>1. PICK fields \in SetToSeqs(LiveOf(j, "fields")) :
          LET u == UndoAll(j, UndoOrder(j, fields)) IN
          /\ u.ok /\ rec' = u.rec /\ inUse' = inUse \cap DOMAIN u.rec
          /\ ledger' = [ledger EXCEPT ![j] =
                            [t \in DOMAIN @ |-> [@[t] EXCEPT !.live = t \in u.blocked]]]
          /\ written' = [written EXCEPT ![j] = @ \ (Live(j) \ u.blocked)]
          /\ status' = [status EXCEPT ![j] =
                           IF u.blocked # {} THEN "completed_with_warnings" ELSE "needs_fix"]
          /\ before' = IF u.blocked = {} THEN Forgotten ELSE OnlyWriter(j)
  BY DEF RollbackFields
<1> DEFINE u == UndoAll(j, UndoOrder(j, fields))
<1>2. Settled(j, u)
  BY <1>1, UndoAllFacts
<1>3. /\ rec' = u.rec /\ inUse' = inUse \cap DOMAIN u.rec
      /\ ledger' = [ledger EXCEPT ![j] =
                        [t \in DOMAIN ledger[j] |-> [ledger[j][t] EXCEPT !.live = t \in u.blocked]]]
      /\ written' = [written EXCEPT ![j] = @ \ (Live(j) \ u.blocked)]
      /\ status' = [status EXCEPT ![j] =
                       IF u.blocked # {} THEN "completed_with_warnings" ELSE "needs_fix"]
      /\ before' = IF u.blocked = {} THEN Forgotten ELSE OnlyWriter(j)
  BY <1>1
<1>. HIDE DEF u
<1>4. ids' = ids /\ inUse' = inUse
  BY <1>2, <1>3 DEF RollbackFields, Settled
<1>5. /\ DOMAIN ledger' = Jobs /\ \A i \in Jobs \ {j} : ledger'[i] = ledger[i]
      /\ DOMAIN ledger'[j] = DOMAIN ledger[j]
      /\ \A t \in DOMAIN ledger[j] :
             ledger'[j][t] = [ledger[j][t] EXCEPT !.live = t \in u.blocked]
  BY <1>3 DEF FieldInv
<1>6. LedgerFits(u.rec, ids, ledger[j])
  BY <1>2, LedgerStillFits DEF FieldInv, Settled
<1>7. ASSUME NEW t \in DOMAIN ledger[j]
      PROVE  /\ EntryFits(rec', ids', t, ledger'[j][t])
             /\ ledger'[j][t].live <=> t \in u.blocked
             /\ ledger'[j][t].op = ledger[j][t].op /\ ledger'[j][t].prev = ledger[j][t].prev
  <2>1. EntryFits(rec', ids', t, ledger[j][t])
    BY <1>3, <1>4, <1>6 DEF LedgerFits
  <2> DEFINE d == ledger'[j][t]
             e == ledger[j][t]
             l == t \in u.blocked
  <2>2. d = [e EXCEPT !.live = l]
    BY <1>5
  <2>3. l \in BOOLEAN
    OBVIOUS
  <2>. HIDE DEF l
  <2>4. EntryFits(rec', ids', t, d) /\ d.live = l /\ d.op = e.op /\ d.prev = e.prev
    <3>. HIDE DEF d
    <3>. QED  BY <2>1, <2>2, <2>3, EntryRelived
  <2>. QED  BY <2>4 DEF l
<1>8. LedgerFits(rec', ids', ledger'[j])
  BY <1>4, <1>5, <1>6, <1>7 DEF LedgerFits
<1>9. Live(j)' = u.blocked
  BY <1>2, <1>5, <1>7 DEF Live, Settled
<1>. QED  BY <1>2, <1>3, <1>4, <1>5, <1>7, <1>8, <1>9 DEF RolledBack

LEMMA RollbackKeeps ==
    ASSUME FieldInv, NEW j \in Jobs, RollbackFields(j)
    PROVE  FieldInv'
<1>1. PICK u : RolledBack(j, u)
  BY RollbackFacts
<1>2. /\ DOMAIN status' = Jobs /\ kind' = kind /\ status'[j] # "absent"
      /\ \A i \in Jobs : i # j => status'[i] = status[i]
  BY DEF RollbackFields, FieldInv
<1>3. /\ TablesInv(rec', ids') /\ Kept(rec, ids, rec', ids') /\ ids' <= MaxId
      /\ inUse \subseteq DOMAIN rec'
  BY <1>1 DEF RolledBack, Settled, FieldInv
<1>4. inUse' \subseteq InUseOf(rec')
  <2>1. \A i \in inUse : i \in DOMAIN rec /\ rec[i].table \in Slots
    BY DEF FieldInv, InUseOf
  <2>. QED  BY <1>1, <1>3, <2>1 DEF RolledBack, InUseOf, Kept
<1>5. \A i \in Jobs : LedgerFits(rec', ids', ledger'[i])
  BY <1>1, <1>3, LedgerStillFits DEF RolledBack, FieldInv
<1>6. \A i \in Jobs : status'[i] = "absent" => DOMAIN ledger'[i] = {}
  BY <1>1, <1>2 DEF RolledBack, FieldInv
<1>7. /\ DOMAIN before' = Jobs /\ \A i \in Jobs \ {j} : before'[i] = {}
      /\ before'[j] \subseteq before[j]
  BY <1>1 DEF RolledBack, Forgotten, OnlyWriter
<1>8. ASSUME NEW b \in before'[j] PROVE Undoes(ledger'[j], rec', b)
  <2>1. b \in before[j] /\ Undoes(ledger[j], rec, b)
    BY <1>7 DEF FieldInv
  <2>2. /\ DOMAIN b \subseteq DOMAIN rec' /\ \A t \in DOMAIN b : rec'[t] = b[t]
        /\ DOMAIN rec' \ DOMAIN b \subseteq u.blocked /\ u.blocked \subseteq Live(j)
    BY <1>1, <2>1 DEF RolledBack, Settled
  <2>3. LiveIn(ledger'[j]) = u.blocked
    BY <1>1 DEF RolledBack, Live, LiveIn
  <2>4. ASSUME NEW t \in u.blocked
        PROVE  IF ledger'[j][t].op = "updated" THEN t \in DOMAIN b /\ ledger'[j][t].prev = b[t]
               ELSE t \notin DOMAIN b
    <3>1. t \in LiveIn(ledger[j]) /\ t \in DOMAIN ledger[j]
      BY <2>2 DEF Live, LiveIn
    <3>. QED  BY <1>1, <2>1, <3>1 DEF RolledBack, Undoes
  <2>. QED  BY <2>1, <2>2, <2>3, <2>4 DEF Undoes
<1>9. \A i \in Jobs : \A b \in before'[i] : Undoes(ledger'[i], rec', b)
  BY <1>7, <1>8
<1>10. \A i \in Jobs : kind'[i] = "absent" => status'[i] = "absent"
  <2>1. status[j] # "absent"
    BY DEF RollbackFields, Live, FieldInv
  <2>. QED  BY <1>2, <2>1 DEF FieldInv
<1>. QED  BY <1>1, <1>2, <1>3, <1>4, <1>5, <1>6, <1>7, <1>9, <1>10 DEF RolledBack, FieldInv

LEMMA JobStepKeeps ==
    ASSUME FieldInv, NEW j \in Jobs, JobStep(j)
    PROVE  FieldInv'
<1>1. UNCHANGED <<ledger, rec, ids, inUse, before>>
  BY DEF JobStep, ledgerVars, domain
<1>2. /\ DOMAIN status' = Jobs /\ kind' \in [Jobs -> {"fields", "absent"}]
      /\ \A i \in Jobs : status'[i] = "absent" => status[i] = "absent"
      /\ \A i \in Jobs : kind'[i] = "absent" => status'[i] = "absent"
  <2>1. /\ DOMAIN status = Jobs /\ kind \in [Jobs -> {"fields", "absent"}]
        /\ \A i \in Jobs : kind[i] = "absent" => status[i] = "absent"
    BY DEF FieldInv
  <2>2. CASE Abstract!CreateJob(j, "fields")
    BY <2>1, <2>2 DEF Abstract!CreateJob
  <2>3. CASE Abstract!MarkReady(j)
    BY <2>1, <2>3 DEF Abstract!MarkReady, Abstract!Exists
  <2>4. CASE status' = status /\ kind' = kind
    BY <2>1, <2>4
  <2>. QED  BY <2>2, <2>3, <2>4
            DEF JobStep, Abstract!BeginUpload, Abstract!DeleteStaged, Abstract!InsertStaged,
                Abstract!jobVars
<1>. QED  BY <1>1, <1>2 DEF FieldInv

LEMMA FieldInvStep == FieldInv /\ [Next]_fieldVars => FieldInv'
<1>1. SUFFICES ASSUME FieldInv, [Next]_fieldVars PROVE FieldInv'
  OBVIOUS
<1>2. CASE \E j \in Jobs : JobStep(j)
  BY <1>1, <1>2, JobStepKeeps
<1>3. CASE \E j \in Jobs : FinalizeFields(j, FALSE)
  BY <1>1, <1>3, FinalizeKeeps
<1>4. CASE \E j \in Jobs : RollbackFields(j)
  BY <1>1, <1>4, RollbackKeeps
<1>5. CASE AdminStep
  BY <1>1, <1>5, AdminKeeps
<1>6. CASE UNCHANGED fieldVars
  BY <1>1, <1>6 DEF fieldVars, jobVars, ledgerVars, domain, FieldInv
<1>. QED  BY <1>1, <1>2, <1>3, <1>4, <1>5, <1>6 DEF Next

THEOREM FieldInvariance == Spec => []FieldInv
<1>. QED  BY InitFits, FieldInvStep, PTL DEF Spec

-----------------------------------------------------------------------------
(* The properties.                                                          *)

\* Whatever imports, rollbacks and admins do, every record keeps its parents,
\* keys stay unique and nothing is assigned to a slot that is gone.
THEOREM TheTablesAreSound == Spec => []TablesSound
<1>1. FieldInv => TablesSound
  <2>1. SUFFICES ASSUME FieldInv PROVE TablesSound
    OBVIOUS
  <2>2. TablesInv(rec, ids) /\ WellFormed(rec) /\ inUse \subseteq InUseOf(rec)
    BY <2>1 DEF FieldInv, TablesInv
  <2>3. ASSUME NEW i \in DOMAIN rec PROVE Fits(rec, i, rec[i])
    <3>1. rec[i].parent \in DOMAIN rec \cup {Nil} /\ rec[i].half \in DOMAIN rec \cup {Nil}
      BY <2>2, Places DEF Tables, Slots
    <3>2. \A k \in (DOMAIN rec) \ {i} : ~SameKey(rec[k], rec[i])
      BY <2>2 DEF WellFormed
    <3>. QED  BY <3>1, <3>2 DEF Fits
  <2>. QED  BY <2>2, <2>3 DEF TablesSound, TablesInv, InUseOf
<1>. QED  BY <1>1, FieldInvariance, PTL

\* A step that changes a ledger is an application or a rollback.
LEMMA LedgerWriters ==
    ASSUME [Next]_fieldVars, ledger' # ledger
    PROVE  \E j \in Jobs : FinalizeFields(j, FALSE) \/ RollbackFields(j)
<1>1. ~UNCHANGED fieldVars
  BY DEF fieldVars, ledgerVars
<1>2. ASSUME NEW j \in Jobs, JobStep(j) PROVE FALSE
  BY <1>2 DEF JobStep, ledgerVars
<1>3. ASSUME AdminStep PROVE FALSE
  BY <1>3 DEF AdminStep, CreateLocation, CreateField, Created, UpdateField, DeleteField,
              AssignSlot, FreeSlot, ledgerVars
<1>. QED  BY <1>1, <1>2, <1>3 DEF Next

\* No import and no rollback takes a slot from under an assignment.
THEOREM TheAssignedSlotsAreKept == Spec => AssignedSlotsKept
<1>1. ASSUME FieldInv, [Next]_fieldVars
      PROVE  [ledger' # ledger => inUse' = inUse]_fieldVars
  <2>1. SUFFICES ASSUME ledger' # ledger PROVE inUse' = inUse
    OBVIOUS
  <2>2. PICK j \in Jobs : FinalizeFields(j, FALSE) \/ RollbackFields(j)
    BY <1>1, <2>1, LedgerWriters
  <2>3. CASE FinalizeFields(j, FALSE)
    BY <2>3 DEF FinalizeFields
  <2>4. CASE RollbackFields(j)
    BY <1>1, <2>4, RollbackFacts DEF RolledBack
  <2>. QED  BY <2>2, <2>3, <2>4
<1>. QED  BY <1>1, FieldInvariance, PTL DEF Spec, AssignedSlotsKept

\* An application adds live records and undoes none.
LEMMA FinalizeLedger ==
    ASSUME FieldInv, NEW j \in Jobs, NEW errors, FinalizeFields(j, errors)
    PROVE  /\ Undone(j)' = Undone(j)
           /\ Live(j)' = Live(j) \cup (Outcome(j).new \ Undone(j))
           /\ \A i \in Jobs \ {j} : ledger'[i] = ledger[i]
<1> DEFINE o == Outcome(j)
<1>1. LoopInv(j, before'[j], o)
  BY FinalizeFacts
<1>2. ledger' = [ledger EXCEPT ![j] = o.ledger]
  BY DEF FinalizeFields
<1>. HIDE DEF o
<1>3. ledger'[j] = o.ledger /\ \A i \in Jobs \ {j} : ledger'[i] = ledger[i]
  BY <1>2 DEF FieldInv
<1>4. /\ DOMAIN o.ledger = DOMAIN ledger[j] \cup o.new
      /\ \A t \in DOMAIN ledger[j] : o.ledger[t] = ledger[j][t]
      /\ \A t \in o.new \ DOMAIN ledger[j] : o.ledger[t].live
  BY <1>1 DEF LoopInv
<1>5. Undone(j)' = Undone(j) /\ Live(j)' = Live(j) \cup (o.new \ Undone(j))
  BY <1>3, <1>4 DEF Undone, Live
<1>. QED  BY <1>3, <1>5 DEF o

\* What a rollback keeps is in use when the rollback is over.
THEOREM TheKeptAreNeeded == Spec => KeptForReason
<1>1. ASSUME FieldInv, [Next]_fieldVars
      PROVE  [\A j \in Jobs : Undone(j)' # Undone(j) =>
                  \A t \in Live(j)' : t \in DOMAIN rec' /\ Needed(rec, t)']_fieldVars
  <2>1. SUFFICES ASSUME NEW j \in Jobs, Undone(j)' # Undone(j), NEW t \in Live(j)'
                 PROVE  t \in DOMAIN rec' /\ Needed(rec, t)'
    OBVIOUS
  <2>2. ledger' # ledger /\ ledger'[j] # ledger[j]
    BY <2>1 DEF Undone, Live
  <2>3. PICK i \in Jobs : FinalizeFields(i, FALSE) \/ RollbackFields(i)
    BY <1>1, <2>2, LedgerWriters
  <2>4. CASE FinalizeFields(i, FALSE)
    BY <1>1, <2>1, <2>2, <2>4, FinalizeLedger
  <2>5. CASE RollbackFields(i)
    <3>1. PICK u : RolledBack(i, u)
      BY <1>1, <2>5, RollbackFacts
    <3>2. i = j
      BY <2>2, <3>1 DEF RolledBack
    <3>3. t \in u.blocked /\ rec' = u.rec /\ inUse' = inUse
      BY <2>1, <3>1, <3>2 DEF RolledBack
    <3>4. t \in DOMAIN u.rec /\ Needed(u.rec, t)
      BY <3>1, <3>2, <3>3 DEF RolledBack, Settled
    <3>. QED  BY <3>3, <3>4 DEF Needed, Children
  <2>. QED  BY <2>3, <2>4, <2>5
<1>. QED  BY <1>1, FieldInvariance, PTL DEF Spec, KeptForReason

\* A rollback that keeps nothing puts back the tables the job started from, if
\* nothing else has written them since.
THEOREM TheRollbackRestores == Spec => RollbackRestores
<1>1. ASSUME FieldInv, [Next]_fieldVars
      PROVE  [\A j \in Jobs : before[j] # {} /\ Live(j) # {} /\ Live(j)' = {}
                  => rec' \in before[j]]_fieldVars
  <2>1. SUFFICES ASSUME NEW j \in Jobs, NEW b \in before[j], Live(j) # {}, Live(j)' = {}
                 PROVE  rec' = b
    OBVIOUS
  <2>2. ledger' # ledger /\ ledger'[j] # ledger[j]
    BY <2>1 DEF Live
  <2>3. PICK i \in Jobs : FinalizeFields(i, FALSE) \/ RollbackFields(i)
    BY <1>1, <2>2, LedgerWriters
  <2>4. CASE FinalizeFields(i, FALSE)
    BY <1>1, <2>1, <2>2, <2>4, FinalizeLedger
  <2>5. CASE RollbackFields(i)
    <3>1. PICK u : RolledBack(i, u)
      BY <1>1, <2>5, RollbackFacts
    <3>2. i = j
      BY <2>2, <3>1 DEF RolledBack
    <3>3. rec' = u.rec /\ u.blocked = {} /\ Settled(j, u)
      BY <2>1, <3>1, <3>2 DEF RolledBack
    <3>4. DOMAIN u.rec = DOMAIN b /\ \A t \in DOMAIN b : u.rec[t] = b[t]
      BY <3>3 DEF Settled
    <3>5. IsFcn(b) /\ IsFcn(u.rec)
      BY <1>1, <3>3 DEF Settled, TablesInv, FieldInv, Undoes
    <3>. QED  BY <3>3, <3>4, <3>5 DEF IsFcn
  <2>. QED  BY <2>3, <2>4, <2>5
<1>. QED  BY <1>1, FieldInvariance, PTL DEF Spec, RollbackRestores

-----------------------------------------------------------------------------
(* The refinement.                                                          *)

\* An application that writes what the loop came to is one of ImportJobs.
LEMMA FinalizeImplements ==
    ASSUME FieldInv, NEW j \in Jobs, FinalizeFields(j, FALSE)
    PROVE  \E ok \in SUBSET Abstract!Pending(j), new \in SUBSET Targets, errors \in BOOLEAN :
               Abstract!FinalizeJob(j, ok, new, errors)
<1> DEFINE o == Outcome(j)
<1>1. LoopInv(j, before'[j], o)
  BY FinalizeFacts
<1>2. /\ Undone(j)' = Undone(j) /\ Live(j)' = Live(j) \cup (o.new \ Undone(j))
      /\ \A i \in Jobs \ {j} : ledger'[i] = ledger[i]
  BY FinalizeLedger
<1>3. /\ status[j] \notin {"absent", "failed"} /\ o.ids <= MaxId
      /\ written' = [written EXCEPT ![j] = @ \cup o.new]
      /\ rows' = [rows EXCEPT ![j] = [r \in Rows |-> IF r \in Applied(j) THEN "applied"
                                                     ELSE IF r \in PendingRows(j) THEN "rejected"
                                                     ELSE rows[j][r]]]
      /\ status' = [status EXCEPT ![j] = IF FALSE \/ Applied(j) # PendingRows(j)
                                         THEN "completed_with_warnings" ELSE "completed"]
      /\ UNCHANGED <<kind, stale, upload>>
  BY DEF FinalizeFields
<1>. HIDE DEF o
<1>4. kind[j] = "fields"
  BY <1>3 DEF FieldInv
<1>5. Abstract!Pending(j) = PendingRows(j)
  BY <1>4 DEF Abstract!Pending, PendingRows
<1>6. Applied(j) \in SUBSET PendingRows(j)
  BY DEF Applied
<1>7. o.new \in SUBSET Targets /\ (Applied(j) = {} => o.new = {})
  <2>1. o.new \subseteq 1 .. o.ids /\ o.ids \in Nat
    BY <1>1 DEF LoopInv, LedgerFits, TablesInv
  <2>2. MaxId \in Nat
    BY FieldAssumption
  <2>. QED  BY <1>1, <1>3, <2>1, <2>2 DEF LoopInv, Targets
<1>8. Abstract!CanFinalize(j) /\ Abstract!MayWrite(j, Applied(j), o.new)
  BY <1>3, <1>4, <1>7 DEF Abstract!CanFinalize, Abstract!Exists, Abstract!MayWrite
<1>9. [i \in Jobs |-> Live(i)]' =
         [[i \in Jobs |-> Live(i)] EXCEPT ![j] = @ \cup (o.new \ [i \in Jobs |-> Undone(i)][j])]
  BY <1>2 DEF Live
<1>10. [i \in Jobs |-> Undone(i)]' = [i \in Jobs |-> Undone(i)]
  BY <1>2 DEF Undone, Live
<1>11. Abstract!FinalizeJob(j, Applied(j), o.new, FALSE)
  BY <1>3, <1>5, <1>6, <1>8, <1>9, <1>10 DEF Abstract!FinalizeJob
<1>. QED  BY <1>5, <1>6, <1>7, <1>11

\* A rollback that keeps what the loop found in use is one of ImportJobs.
LEMMA RollbackImplements ==
    ASSUME FieldInv, NEW j \in Jobs, RollbackFields(j)
    PROVE  \E blocked \in SUBSET [i \in Jobs |-> Live(i)][j] : Abstract!RollbackJob(j, blocked)
<1>1. PICK u : RolledBack(j, u)
  BY RollbackFacts
<1>2. Live(j) # {} /\ UNCHANGED <<kind, stale, rows, upload>>
  BY DEF RollbackFields
<1>3. status[j] # "absent" /\ kind[j] = "fields"
  BY <1>2 DEF Live, FieldInv
<1>4. /\ Live(j)' = u.blocked /\ u.blocked \subseteq Live(j)
      /\ DOMAIN ledger'[j] = DOMAIN ledger[j]
      /\ \A i \in Jobs \ {j} : ledger'[i] = ledger[i]
      /\ written' = [written EXCEPT ![j] = @ \ (Live(j) \ u.blocked)]
      /\ status' = [status EXCEPT ![j] =
                       IF u.blocked # {} THEN "completed_with_warnings" ELSE "needs_fix"]
  BY <1>1 DEF RolledBack, Settled
<1>5. Abstract!CanRollback(j)
  BY <1>2, <1>3 DEF Abstract!CanRollback, Abstract!Exists
<1>6. [i \in Jobs |-> Live(i)]' = [[i \in Jobs |-> Live(i)] EXCEPT ![j] = u.blocked]
  BY <1>4 DEF Live
<1>7. Undone(j)' = Undone(j) \cup (Live(j) \ u.blocked)
  <2>1. Undone(j)' = DOMAIN ledger[j] \ u.blocked
    BY <1>4 DEF Undone
  <2>. QED  BY <1>4, <2>1 DEF Undone, Live
<1>8. \A i \in Jobs \ {j} : Undone(i)' = Undone(i)
  BY <1>4 DEF Undone, Live
<1>9. [i \in Jobs |-> Undone(i)]' =
         [[i \in Jobs |-> Undone(i)] EXCEPT ![j] = @ \cup ([i \in Jobs |-> Live(i)][j] \ u.blocked)]
  BY <1>7, <1>8
<1>10. Abstract!RollbackJob(j, u.blocked)
  BY <1>2, <1>3, <1>4, <1>5, <1>6, <1>9 DEF Abstract!RollbackJob
<1>. QED  BY <1>4, <1>10

\* To the rest of the system a field import is an import job.
THEOREM TheFieldsImplementJobs == Spec => ImplementsImportJobs
<1>1. Init => Abstract!Init
  BY DEF Init, Abstract!Init, Live, Undone
<1>2. ASSUME FieldInv, [Next]_fieldVars
      PROVE  [Abstract!Next]_(Abstract!vars)
  <2>1. CASE UNCHANGED fieldVars
    BY <2>1 DEF fieldVars, jobVars, ledgerVars, Abstract!vars, Live, Undone
  <2>2. ASSUME NEW j \in Jobs, JobStep(j) PROVE Abstract!JobStep(j)
    <3>1. Rows \in (SUBSET Rows) \ {{}}
      BY FieldAssumption
    <3>. QED  BY <2>2, <3>1 DEF JobStep, Abstract!JobStep
  <2>3. ASSUME NEW j \in Jobs, FinalizeFields(j, FALSE) PROVE Abstract!JobStep(j)
    BY <1>2, <2>3, FinalizeImplements DEF Abstract!JobStep
  <2>4. ASSUME NEW j \in Jobs, RollbackFields(j) PROVE Abstract!JobStep(j)
    BY <1>2, <2>4, RollbackImplements DEF Abstract!JobStep
  <2>5. ASSUME AdminStep PROVE UNCHANGED Abstract!vars
    <3>1. UNCHANGED <<jobVars, ledgerVars>>
      BY <2>5 DEF AdminStep, CreateLocation, CreateField, Created, UpdateField, DeleteField,
                  AssignSlot, FreeSlot
    <3>. QED  BY <3>1 DEF jobVars, ledgerVars, Abstract!vars, Live, Undone
  <2>. QED  BY <1>2, <2>1, <2>2, <2>3, <2>4, <2>5 DEF Next, Abstract!Next
<1>. QED  BY <1>1, <1>2, FieldInvariance, PTL DEF Spec, ImplementsImportJobs, Abstract!Spec
=============================================================================
